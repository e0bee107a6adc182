--------------------------- MODULE SchedulerProofs ---------------------------
(***************************************************************************)
(* Proofs about Scheduler, for any configurations, callers and wishes: the *)
(* file follows the override, a reload at a fixed time is done once, a     *)
(* round that nobody disturbs brings the screen to what was decided, and   *)
(* the sleep after it misses no change but the start of a time rule, which *)
(* it notices a tick and a round later at most.                            *)
(***************************************************************************)
EXTENDS Scheduler, WellFoundedInduction, TLAPS

-----------------------------------------------------------------------------
(* Lemmas about operators.                                                 *)

\* The greater of two numbers.
LEMMA MaxOfTwo ==
  ASSUME NEW a \in Int, NEW b \in Int
  PROVE Max({a, b}) \in {a, b} /\ Max({a, b}) >= a /\ Max({a, b}) >= b
<1>1. \E x \in {a, b} : \A y \in {a, b} : x >= y
  OBVIOUS
<1>q. QED BY <1>1 DEF Max

\* The display that is wanted depends on the programme only, and on a decision.
Power(kiosk, status) == IF WantsOff(kiosk, status) THEN "OFF" ELSE "ON"

LEMMA PowerAgrees ==
  ASSUME NEW k, NEW c, NEW s, s.reason = "override" \/ SameProgram(k, c)
  PROVE Power(k, s) = Power(c, s)
BY DEF Power, WantsOff, SameProgram

\* A page instead of none only keeps the display on.
LEMMA PowerStaysOn ==
  ASSUME NEW k, NEW s, NEW r, r.reason = s.reason, r.presence = s.presence,
         s.target = NoPage \/ r.target = s.target, Power(k, s) = "ON"
  PROVE Power(k, r) = "ON"
BY DEF Power, WantsOff

\* The inserts whose condition does not hold are the only difference.
LEMMA InsertsOnly ==
  ASSUME NEW kiosk \in Configs
  PROVE SameProgram(InsertsWhere(kiosk), kiosk)
BY ConfigsAssumption DEF InsertsWhere, SameProgram

\* A decision keeps its shape when a part of it is replaced.
LEMMA StatusParts ==
  ASSUME NEW s, IsStatus(s), NEW v
  PROVE /\ IsStatus([s EXCEPT !.target = v]) /\ IsStatus([s EXCEPT !.reason = v])
        /\ IsStatus([s EXCEPT !.presence = v]) /\ IsStatus([s EXCEPT !.next = v])
        /\ [s EXCEPT !.presence = v].target = s.target /\ [s EXCEPT !.presence = v].reason = s.reason
        /\ [s EXCEPT !.next = v].target = s.target /\ [s EXCEPT !.next = v].reason = s.reason
        /\ [s EXCEPT !.next = v].presence = s.presence
        /\ [s EXCEPT !.target = v].target = v /\ [s EXCEPT !.target = v].reason = s.reason
        /\ [s EXCEPT !.target = v].presence = s.presence
        /\ [s EXCEPT !.target = v].next = s.next
BY DEF IsStatus

\* Presence changes neither page nor reason.
LEMMA PresenceParts ==
  ASSUME NEW s, IsStatus(s), NEW kiosk
  PROVE /\ IsStatus(ApplyPresence(kiosk, s))
        /\ ApplyPresence(kiosk, s).target = s.target /\ ApplyPresence(kiosk, s).reason = s.reason
<1>1. CASE kiosk.presence = "off"
  BY <1>1 DEF ApplyPresence
<1>2. CASE kiosk.presence # "off" /\ AbsentAt(kiosk, now)
  <2>1. ApplyPresence(kiosk, s) = [s EXCEPT !.presence = "absent"]
    BY <1>2 DEF ApplyPresence
  <2>2. /\ IsStatus([s EXCEPT !.presence = "absent"])
        /\ [s EXCEPT !.presence = "absent"].target = s.target
        /\ [s EXCEPT !.presence = "absent"].reason = s.reason
    BY StatusParts, Zenon
  <2>q. QED BY <2>1, <2>2
<1>3. CASE kiosk.presence # "off" /\ ~AbsentAt(kiosk, now)
  <2> DEFINE r == [s EXCEPT !.presence = "present"]
             n == Sooner(s.next, PresentUntil(kiosk))
             q == [r EXCEPT !.next = n]
  <2>1. /\ IsStatus(r) /\ r.target = s.target /\ r.reason = s.reason
    BY StatusParts, Zenon
  <2>2. r.next = s.next
    BY DEF IsStatus
  <2>3. ApplyPresence(kiosk, s) = [r EXCEPT !.next = Sooner(r.next, PresentUntil(kiosk))]
    BY <1>3 DEF ApplyPresence
  <2>4. ApplyPresence(kiosk, s) = q
    BY <2>2, <2>3
  <2> HIDE DEF n, r
  <2>5. IsStatus(q) /\ q.target = r.target /\ q.reason = r.reason
    BY <2>1, StatusParts, Zenon
  <2> HIDE DEF q
  <2>q. QED BY <2>1, <2>4, <2>5
<1>q. QED BY <1>1, <1>2, <1>3

-----------------------------------------------------------------------------
(* The threads.                                                            *)

\* The steps one by one.
LEMMA NextSteps ==
  ASSUME Next
  PROVE \/ \E t \in Threads :
             \/ TargetOverride(t) \/ TargetBase(t) \/ PanicsAtRotation(t) \/ TargetRotation(t)
             \/ TargetInserts(t) \/ SwitchBegins(t) \/ SwitchSucceeds(t) \/ SwitchFails(t)
             \/ SwitchRefused(t) \/ PanelSet(t) \/ PanelNoted(t)
        \/ \E c \in Callers :
             \/ \E wish \in Wishes : CallBegins(c, wish)
             \/ RecordOverride(c) \/ ForgetOverride(c) \/ Persist(c) \/ CallerDecided(c)
        \/ Wake \/ SignalWakes \/ ChangeWakes \/ SchedulerDecided \/ Maintain \/ PowerNeeded
        \/ BlankOrRestore \/ Blanks \/ BlankNoted
        \/ SignalArrives \/ ConfigSaved \/ MQTTTakesChange \/ BrowserStops \/ BrowserStarts
        \/ PowerLost \/ Boot \/ PersistLater \/ Tick
BY DEF Next, Target, Switch, Calls, Round, World

\* One thread takes a step and is what r says then.
Alone(t, r) ==
  /\ th' = [u \in Threads |-> th'[u]] /\ IsThread(r) /\ th'[t] = r
  /\ \A u \in Threads \ {t} : th'[u] = th[u]

\* One thread is replaced by another record.
LEMMA OneReplaced ==
  ASSUME ShapeInv, NEW t \in Threads, NEW r, IsThread(r), th' = [th EXCEPT ![t] = r]
  PROVE Alone(t, r)
BY DEF ShapeInv, Alone

\* A thread gets to another place, and only that.
LEMMA PlaceSet ==
  ASSUME ShapeInv, NEW t \in Threads, NEW p, GoTo(t, p)
  PROVE /\ Alone(t, th'[t]) /\ th'[t].pc = p
        /\ th'[t].after = th[t].after /\ th'[t].wish = th[t].wish
        /\ th'[t].snap = th[t].snap /\ th'[t].round = th[t].round /\ th'[t].status = th[t].status
<1> DEFINE r == [th[t] EXCEPT !.pc = p]
<1>1. IsThread(th[t])
  BY DEF ShapeInv
<1>2. /\ IsThread(r) /\ r.pc = p /\ r.after = th[t].after /\ r.wish = th[t].wish
      /\ r.snap = th[t].snap /\ r.round = th[t].round /\ r.status = th[t].status
  BY <1>1 DEF IsThread
<1>3. th' = [th EXCEPT ![t] = r]
  BY DEF GoTo
<1> HIDE DEF r
<1>4. Alone(t, r)
  BY <1>2, <1>3, OneReplaced
<1>q. QED BY <1>2, <1>4 DEF Alone

\* A thread gets to another place with another decision.
LEMMA DecisionSet ==
  ASSUME ShapeInv, NEW t \in Threads, NEW p, NEW s, IsStatus(s), Becomes(t, p, s)
  PROVE /\ Alone(t, th'[t]) /\ th'[t].pc = p
        /\ th'[t].after = th[t].after /\ th'[t].wish = th[t].wish
        /\ th'[t].snap = th[t].snap /\ th'[t].round = th[t].round /\ th'[t].status = s
<1> DEFINE q == [th[t] EXCEPT !.pc = p]
           r == [q EXCEPT !.status = s]
<1>1. IsThread(th[t])
  BY DEF ShapeInv
<1>2. /\ IsThread(q) /\ q.pc = p /\ q.after = th[t].after /\ q.wish = th[t].wish
      /\ q.snap = th[t].snap /\ q.round = th[t].round
  BY <1>1 DEF IsThread
<1>r. /\ IsThread(r) /\ r.pc = q.pc /\ r.after = q.after /\ r.wish = q.wish
      /\ r.snap = q.snap /\ r.round = q.round /\ r.status = s
  <2> HIDE DEF q
  <2>q. QED BY <1>2 DEF IsThread
<1>3. th' = [th EXCEPT ![t] = r]
  BY DEF Becomes
<1> HIDE DEF r, q
<1>4. Alone(t, r)
  BY <1>r, <1>3, OneReplaced
<1>q. QED BY <1>2, <1>r, <1>4 DEF Alone

\* The threads of a program that has just started.
Anew == [t \in Threads |-> IF t = "scheduler" THEN Restarting ELSE Idle]

LEMMA AnewShape ==
  /\ Anew = [t \in Threads |-> Anew[t]] /\ \A t \in Threads : IsThread(Anew[t])
  /\ \A c \in Callers : Anew[c] = Idle
  /\ Anew["scheduler"] = Restarting /\ Restarting.pc = "sleep" /\ Restarting.after = "idle"
<1>1. IsStatus(Undecided)
  BY DEF Undecided, IsStatus
<1>2. IsThread(Idle) /\ IsThread(Restarting)
  BY <1>1 DEF Idle, Restarting, IsThread
<1>3. \A c \in Callers : c # "scheduler" /\ c \in Threads
  BY SchedulerAssumption DEF Threads
<1>4. Restarting.pc = "sleep" /\ Restarting.after = "idle"
  BY DEF Restarting, Idle
<1>q. QED BY <1>2, <1>3, <1>4 DEF Anew, Threads

\* A decision that starts from nothing.
LEMMA FromNothing ==
  ASSUME NEW a, NEW b, NEW c
  PROVE /\ IsStatus([Undecided EXCEPT !.target = a])
        /\ IsStatus([Undecided EXCEPT !.reason = b])
        /\ IsStatus([Undecided EXCEPT !.target = a, !.reason = b, !.next = c])
<1> DEFINE p == [Undecided EXCEPT !.target = a]
           q == [p EXCEPT !.reason = b]
           r == [q EXCEPT !.next = c]
<1>1. IsStatus(Undecided)
  BY DEF Undecided, IsStatus
<1>2. IsStatus(p) /\ IsStatus([Undecided EXCEPT !.reason = b])
  BY <1>1, StatusParts, Zenon
<1>3. [Undecided EXCEPT !.target = a, !.reason = b, !.next = c] = r
  OBVIOUS
<1>4. IsStatus(q)
  <2> HIDE DEF p
  <2>q. QED BY <1>2, StatusParts, Zenon
<1>5. IsStatus(r)
  <2> HIDE DEF q
  <2>q. QED BY <1>4, StatusParts, Zenon
<1>q. QED BY <1>2, <1>3, <1>5, Zenon

\* What it was told and has decided stays with a thread.
Keeps(t) ==
  /\ th'[t].after = th[t].after /\ th'[t].wish = th[t].wish
  /\ th'[t].snap = th[t].snap /\ th'[t].round = th[t].round /\ th'[t].status = th[t].status

\* The override is the decision, or the programme of now is looked at.
LEMMA OverrideStep ==
  ASSUME ShapeInv, NEW t \in Threads, TargetOverride(t)
  PROVE /\ Alone(t, th'[t]) /\ th[t].pc = "override"
        /\ th'[t].after = th[t].after /\ th'[t].wish = th[t].wish
        /\ th'[t].round = th[t].round
        /\ override' \in {override, NoOverride}
        /\ IF override'.active
           THEN /\ th'[t].pc = "decided" /\ th'[t].status.reason = "override"
                /\ th'[t].status.target = override'.page
           ELSE th'[t].pc = "base" /\ th'[t].snap = InsertsWhere(cfg)
<1> DEFINE s == [target |-> override'.page, reason |-> "override", presence |-> "",
                 next |-> override'.until]
           d == ApplyPresence(cfg, s)
<1>1. /\ th[t].pc = "override" /\ override' \in {override, NoOverride}
      /\ IF override'.active THEN Becomes(t, "decided", d)
         ELSE th' = [th EXCEPT ![t].pc = "base", ![t].snap = InsertsWhere(cfg)]
  BY DEF TargetOverride, IsAt
<1>2. CASE override'.active
  <2>1. IsStatus(s) /\ s.target = override'.page /\ s.reason = "override"
    BY DEF IsStatus
  <2> HIDE DEF s
  <2>2. IsStatus(d) /\ d.target = s.target /\ d.reason = s.reason
    BY <2>1, PresenceParts
  <2> HIDE DEF d
  <2>q. QED BY <1>1, <1>2, <2>1, <2>2, DecisionSet
<1>3. CASE ~override'.active
  <2> DEFINE q == [th[t] EXCEPT !.pc = "base"]
             r == [q EXCEPT !.snap = InsertsWhere(cfg)]
  <2>1. IsThread(th[t])
    BY DEF ShapeInv
  <2>2. /\ IsThread(q) /\ q.pc = "base" /\ q.after = th[t].after /\ q.wish = th[t].wish
        /\ q.round = th[t].round
    BY <2>1 DEF IsThread
  <2>3. /\ IsThread(r) /\ r.pc = q.pc /\ r.after = q.after /\ r.wish = q.wish
        /\ r.round = q.round
        /\ r.snap = InsertsWhere(cfg)
    <3> HIDE DEF q
    <3>q. QED BY <2>2 DEF IsThread
  <2>4. th' = [th EXCEPT ![t] = r]
    BY <1>1, <1>3
  <2> HIDE DEF r, q
  <2>5. Alone(t, r)
    BY <2>3, <2>4, OneReplaced
  <2>q. QED BY <1>1, <1>3, <2>2, <2>3, <2>5 DEF Alone
<1>q. QED BY <1>2, <1>3

\* The programme gives a page, or goes on to the rotation.
LEMMA BaseStep ==
  ASSUME ShapeInv, NEW t \in Threads, TargetBase(t)
  PROVE /\ Alone(t, th'[t]) /\ th[t].pc = "base" /\ th'[t].pc \in {"extend", "inserts"}
        /\ th'[t].after = th[t].after /\ th'[t].wish = th[t].wish /\ th'[t].snap = th[t].snap /\ th'[t].round = th[t].round
<1> DEFINE kiosk == th[t].snap
           rule == kiosk.timeRules[Min(ActiveRules(kiosk, now))]
           page == ClampPage(rule.page, kiosk.pages)
           ends == RuleEnds(rule, now)
<1>1. /\ th[t].pc = "base"
      /\ \/ GoTo(t, "extend")
         \/ \E b : Becomes(t, "inserts", [Undecided EXCEPT !.reason = b])
         \/ Becomes(t, "inserts",
              [Undecided EXCEPT !.target = page, !.reason = "time", !.next = ends])
  BY DEF TargetBase, IsAt
<1> HIDE DEF page, ends, rule, kiosk
<1>2. GoTo(t, "extend") \/ \E s : IsStatus(s) /\ Becomes(t, "inserts", s)
  BY <1>1, FromNothing, Zenon
<1>q. QED BY <1>1, <1>2, PlaceSet, DecisionSet

\* The rotation gives a page.
LEMMA RotationStep ==
  ASSUME ShapeInv, NEW t \in Threads, TargetRotation(t)
  PROVE /\ Alone(t, th'[t]) /\ th[t].pc = "extend" /\ th'[t].pc = "inserts"
        /\ th'[t].after = th[t].after /\ th'[t].wish = th[t].wish /\ th'[t].snap = th[t].snap /\ th'[t].round = th[t].round
<1>1. th[t].pc = "extend" /\ \E a, c :
        Becomes(t, "inserts", [Undecided EXCEPT !.target = a, !.reason = "rotation", !.next = c])
  BY DEF TargetRotation, IsAt
<1>2. \E s : IsStatus(s) /\ Becomes(t, "inserts", s)
  BY <1>1, FromNothing, Zenon
<1>q. QED BY <1>1, <1>2, DecisionSet

\* An insert or the page to return to may take its place.
LEMMA InsertsStep ==
  ASSUME ShapeInv, NEW t \in Threads, TargetInserts(t)
  PROVE /\ Alone(t, th'[t]) /\ th[t].pc = "inserts" /\ th'[t].pc = "decided"
        /\ th'[t].after = th[t].after /\ th'[t].wish = th[t].wish /\ th'[t].snap = th[t].snap /\ th'[t].round = th[t].round
<1> DEFINE base == ApplyPresence(th[t].snap, Status(t))
           late == Sooner(base.next, NextInsertChange(th[t].snap, now))
<1>1. IsStatus(base)
  BY PresenceParts DEF ShapeInv, IsThread, Status
<1>2. \E timed : /\ timed = base \/ timed = [base EXCEPT !.next = late]
                 /\ \/ Becomes(t, "decided", timed)
                    \/ \E a : Becomes(t, "decided", [timed EXCEPT !.target = a])
                    \/ \E a : Becomes(t, "decided", [timed EXCEPT !.reason = "insert", !.target = a])
  BY DEF TargetInserts
<1>3. PICK timed : /\ timed = base \/ timed = [base EXCEPT !.next = late]
                   /\ \/ Becomes(t, "decided", timed)
                      \/ \E a : Becomes(t, "decided", [timed EXCEPT !.target = a])
                      \/ \E a : Becomes(t, "decided",
                                        [timed EXCEPT !.reason = "insert", !.target = a])
  BY <1>2
<1> HIDE DEF base, late
<1>4. IsStatus(timed)
  <2>1. IsStatus([base EXCEPT !.next = late])
    BY <1>1, StatusParts, Zenon
  <2>q. QED BY <1>1, <1>3, <2>1, Zenon
<1>5. ASSUME NEW a PROVE /\ IsStatus([timed EXCEPT !.target = a])
                         /\ IsStatus([timed EXCEPT !.reason = "insert", !.target = a])
  <2>1. IsStatus([timed EXCEPT !.reason = "insert"])
    BY <1>4, StatusParts, Zenon
  <2> DEFINE q == [timed EXCEPT !.reason = "insert"]
  <2>2. [timed EXCEPT !.reason = "insert", !.target = a] = [q EXCEPT !.target = a]
    OBVIOUS
  <2> HIDE DEF q
  <2>3. IsStatus([q EXCEPT !.target = a])
    BY <2>1, StatusParts, Zenon DEF q
  <2>4. IsStatus([timed EXCEPT !.target = a])
    BY <1>4, StatusParts, Zenon
  <2>q. QED BY <2>2, <2>3, <2>4
<1>6. PICK s : IsStatus(s) /\ Becomes(t, "decided", s)
  BY <1>3, <1>4, <1>5
<1>7. th[t].pc = "inserts"
  BY DEF TargetInserts, IsAt
<1>q. QED BY <1>6, <1>7, DecisionSet

\* The scheduler goes to set the display, or past it.
LEMMA PowerStep ==
  ASSUME ShapeInv, PowerNeeded
  PROVE /\ Alone("scheduler", Me') /\ Me.pc = "power"
        /\ Me'.status = Me.status /\ Me'.snap = Me.snap /\ Me'.round = Me.round
        /\ \/ display.noted = Wanted(cfg) /\ Me'.pc = "blank" /\ Me'.after = Me.after
           \/ Me'.pc = "setting" /\ Me'.after = "blank" /\ Me'.wish.power = Wanted(cfg)
<1>0. "scheduler" \in Threads
  BY DEF Threads
<1>1. Me.pc = "power"
  BY DEF PowerNeeded, IsAt, Me
<1>2. CASE display.noted = Wanted(cfg)
  <2>1. GoTo("scheduler", "blank")
    BY <1>2 DEF PowerNeeded
  <2>q. QED BY <1>0, <1>1, <1>2, <2>1, PlaceSet DEF Me
<1>3. CASE display.noted # Wanted(cfg)
  <2> DEFINE p == [Me EXCEPT !.pc = "setting"]
             q == [p EXCEPT !.wish = [power |-> Wanted(cfg)]]
             r == [q EXCEPT !.after = "blank"]
  <2>1. IsThread(Me)
    BY <1>0 DEF ShapeInv, Me
  <2>2. IsThread(p) /\ p.pc = "setting" /\ p.snap = Me.snap /\ p.round = Me.round /\ p.status = Me.status
    BY <2>1 DEF IsThread
  <2>3. /\ IsThread(q) /\ q.pc = p.pc /\ q.snap = p.snap /\ q.round = p.round /\ q.status = p.status
        /\ q.wish = [power |-> Wanted(cfg)]
    <3> HIDE DEF p
    <3>q. QED BY <2>2 DEF IsThread
  <2>4. /\ IsThread(r) /\ r.pc = q.pc /\ r.snap = q.snap /\ r.round = q.round /\ r.status = q.status
        /\ r.wish = q.wish /\ r.after = "blank"
    <3> HIDE DEF q
    <3>q. QED BY <2>3 DEF IsThread
  <2>5. th' = [th EXCEPT !["scheduler"] = r]
    BY <1>3 DEF PowerNeeded, Me
  <2> HIDE DEF r, q, p
  <2>6. Alone("scheduler", r)
    BY <1>0, <2>4, <2>5, OneReplaced
  <2>7. r.wish.power = Wanted(cfg)
    BY <2>3, <2>4
  <2>q. QED BY <1>1, <2>2, <2>3, <2>4, <2>6, <2>7 DEF Alone, Me
<1>q. QED BY <1>2, <1>3

\* The scheduler blanks the display, gets its page back, or is done.
LEMMA BlankStep ==
  ASSUME ShapeInv, BlankOrRestore
  PROVE /\ Alone("scheduler", Me') /\ Me.pc = "blank" /\ Me'.snap = Me.snap /\ Me'.round = Me.round
        /\ Me'.wish = Me.wish
        /\ \/ /\ Wanted(Me.round) = "OFF" /\ Me'.pc = "blanking" /\ Keeps("scheduler")
              /\ display' = display
           \/ /\ Wanted(Me.round) # "OFF" /\ Me'.pc = "gate" /\ Me'.after = "sleep"
              /\ display' = [display EXCEPT !.blanked = FALSE]
              /\ Me'.status.reason = Me.status.reason
              /\ Me'.status.presence = Me.status.presence
              /\ Me'.status.next = Me.status.next
              /\ Me.status.target = NoPage \/ Me'.status.target = Me.status.target
           \/ /\ display.blanked <=> Wanted(Me.round) = "OFF"
              /\ Me'.pc = "sleep" /\ Keeps("scheduler") /\ display' = display
<1>0. "scheduler" \in Threads
  BY DEF Threads
<1>1. Me.pc = "blank"
  BY DEF BlankOrRestore, IsAt, Me
<1> DEFINE off == Wanted(th["scheduler"].round) = "OFF"
           page == IF Status("scheduler").target = NoPage THEN browser.active
                   ELSE Status("scheduler").target
<1>2. CASE off /\ ~display.blanked
  <2>1. GoTo("scheduler", "blanking") /\ display' = display
    BY <1>2 DEF BlankOrRestore
  <2>q. QED BY <1>0, <1>1, <1>2, <2>1, PlaceSet DEF Me, Keeps
<1>3. CASE ~off /\ display.blanked
  <2> DEFINE p == [Me EXCEPT !.pc = "gate"]
             q == [p EXCEPT !.after = "sleep"]
             s == [q.status EXCEPT !.target = page]
             r == [q EXCEPT !.status = s]
  <2>1. IsThread(Me)
    BY <1>0 DEF ShapeInv, Me
  <2>2. /\ IsThread(p) /\ p.pc = "gate" /\ p.snap = Me.snap /\ p.round = Me.round /\ p.status = Me.status
        /\ p.wish = Me.wish
    BY <2>1 DEF IsThread
  <2>3. /\ IsThread(q) /\ q.pc = p.pc /\ q.snap = p.snap /\ q.round = p.round /\ q.status = p.status
        /\ q.after = "sleep" /\ q.wish = p.wish
    <3> HIDE DEF p
    <3>q. QED BY <2>2 DEF IsThread
  <2>4. /\ IsStatus(s) /\ s.reason = Me.status.reason /\ s.presence = Me.status.presence
        /\ s.target = page /\ s.next = Me.status.next
    <3>1. IsStatus(Me.status) /\ q.status = Me.status
      BY <2>1, <2>2, <2>3 DEF IsThread
    <3> HIDE DEF q, page
    <3>2. IsStatus(q.status)
      BY <3>1
    <3>3. /\ IsStatus(s) /\ s.reason = q.status.reason
          /\ s.presence = q.status.presence /\ s.target = page /\ s.next = q.status.next
      BY <3>2, StatusParts, ZenonT(60)
    <3>q. QED BY <3>1, <3>3
  <2>5. /\ IsThread(r) /\ r.pc = q.pc /\ r.snap = q.snap /\ r.round = q.round /\ r.status = s
        /\ r.after = q.after /\ r.wish = q.wish
    <3> HIDE DEF q, s
    <3>q. QED BY <2>3, <2>4 DEF IsThread
  <2>6. /\ th' = [th EXCEPT !["scheduler"].pc = "gate", !["scheduler"].after = "sleep",
                            !["scheduler"].status.target = page]
        /\ display' = [display EXCEPT !.blanked = FALSE]
    BY <1>3 DEF BlankOrRestore
  <2>7. th' = [th EXCEPT !["scheduler"] = r]
    <3> HIDE DEF page
    <3>q. QED BY <2>6 DEF Me
  <2>8. Me.status.target = NoPage \/ page = Me.status.target
    BY DEF Me, Status
  <2> HIDE DEF r, q, p, s, page
  <2>9. Alone("scheduler", r)
    BY <1>0, <2>5, <2>7, OneReplaced
  <2>10. Me' = r
    BY <2>9 DEF Alone, Me
  <2>11. Wanted(Me.round) # "OFF"
    BY <1>3 DEF Me
  <2>q. QED BY <1>1, <2>2, <2>3, <2>4, <2>5, <2>6, <2>8, <2>9, <2>10, <2>11
<1>4. CASE off <=> display.blanked
  <2>1. GoTo("scheduler", "sleep") /\ display' = display
    BY <1>4 DEF BlankOrRestore, Proceed
  <2>q. QED BY <1>0, <1>1, <1>4, <2>1, PlaceSet DEF Me, Keeps
<1>q. QED BY <1>2, <1>3, <1>4

\* A round begins.
LEMMA WakeStep ==
  ASSUME ShapeInv, Wake, th' # th
  PROVE /\ Alone("scheduler", Me') /\ Me.pc = "sleep" /\ Me'.pc = "override"
        /\ Me'.after = "maintain" /\ Me'.status = Undecided /\ Me'.round = cfg
<1> DEFINE q == [Restarting EXCEPT !.pc = "override"]
           p == [q EXCEPT !.after = "maintain"]
           r == [p EXCEPT !.round = cfg]
<1>0. IsThread(q) /\ q.pc = "override" /\ q.status = Undecided
  <2>1. "scheduler" \in Threads
    BY DEF Threads
  <2>2. IsThread(Restarting) /\ Restarting.status = Undecided
    BY <2>1, AnewShape DEF Restarting, Idle
  <2>q. QED BY <2>2 DEF IsThread
<1>p. IsThread(p) /\ p.pc = "override" /\ p.after = "maintain" /\ p.status = Undecided
  <2> HIDE DEF q
  <2>q. QED BY <1>0 DEF IsThread
<1>1. /\ IsThread(r) /\ r.pc = "override" /\ r.after = "maintain" /\ r.status = Undecided
      /\ r.round = cfg
  <2> HIDE DEF p
  <2>q. QED BY <1>p DEF IsThread
<1>2. th' = [th EXCEPT !["scheduler"] = r] /\ Me.pc = "sleep" /\ "scheduler" \in Threads
  BY DEF Wake, IsAt, Me, Threads
<1> HIDE DEF r
<1>3. Alone("scheduler", r)
  BY <1>1, <1>2, OneReplaced
<1>q. QED BY <1>1, <1>2, <1>3 DEF Alone, Me

\* A call begins.
LEMMA CallStep ==
  ASSUME ShapeInv, NEW c \in Callers, NEW wish \in Wishes, CallBegins(c, wish)
  PROVE /\ Alone(c, th'[c]) /\ th[c].pc = "idle" /\ th'[c].wish = wish
        /\ th'[c].status.target = wish.page
        /\ "record" \in {th'[c].pc, th'[c].after} =>
             wish.kind = "override" /\ th'[c].pc = "gate"
        /\ th'[c].pc \in {"gate", "clear", "setting"}
        /\ th'[c].pc = "setting" => wish.kind = "display"
        /\ th'[c].after \in {"idle", "record"}
        /\ th'[c].status.next = Never /\ th'[c].status.reason = ""
<1> DEFINE s == [Undecided EXCEPT !.target = wish.page]
           where == CASE wish.kind \in {"override", "page"} -> "gate"
                      [] wish.kind = "clear"   -> "clear"
                      [] wish.kind = "display" -> "setting"
           then == IF wish.kind = "override" THEN "record" ELSE "idle"
           r == [Idle EXCEPT !.wish = wish, !.status.target = wish.page, !.pc = where,
                             !.after = then]
<1>1. /\ where # "record" /\ (wish.kind = "override" => where = "gate")
      /\ where \in {"gate", "clear", "setting"} /\ (where = "setting" => wish.kind = "display")
  BY WishesAssumption
<1>2. th' = [th EXCEPT ![c] = r] /\ th[c].pc = "idle" /\ c \in Threads
  BY DEF CallBegins, IsAt, Threads, Idle
<1>3. IsStatus(s) /\ s.target = wish.page /\ s.next = Never /\ s.reason = ""
  BY FromNothing DEF Undecided
<1>4. IsThread(r) /\ r.wish = wish /\ r.pc = where /\ r.after = then /\ r.status = s
  <2> DEFINE x == [Idle EXCEPT !.wish = wish]
             y == [x EXCEPT !.status = s]
             z == [y EXCEPT !.pc = where]
             e == [z EXCEPT !.after = then]
  <2>1. IsThread(Idle) /\ Idle.status = Undecided
    BY FromNothing DEF Idle, IsThread, Undecided, IsStatus
  <2>2. IsThread(x) /\ x.wish = wish /\ x.status = Undecided
    BY <2>1 DEF IsThread
  <2>3. r = e
    <3>1. Idle.status = Undecided
      BY DEF Idle
    <3> HIDE DEF where, then
    <3>q. QED BY <3>1 DEF Idle
  <2>4. IsThread(y) /\ y.wish = wish /\ y.status = s
    <3> HIDE DEF x, s
    <3>1. IsStatus(s)
      BY <1>3
    <3>q. QED BY <2>2, <3>1 DEF IsThread
  <2>5. IsThread(z) /\ z.wish = wish /\ z.pc = where /\ z.status = s
    <3> HIDE DEF y, where, s
    <3>q. QED BY <2>4 DEF IsThread
  <2>6. IsThread(e) /\ e.wish = wish /\ e.pc = where /\ e.after = then /\ e.status = s
    <3> HIDE DEF z, where, then, s
    <3>q. QED BY <2>5 DEF IsThread
  <2> HIDE DEF r, e, where, then, s
  <2>q. QED BY <2>3, <2>6
<1>5. (then = "record" => wish.kind = "override") /\ then \in {"idle", "record"}
  OBVIOUS
<1> HIDE DEF r, s, where, then
<1>6. Alone(c, r)
  BY <1>2, <1>4, OneReplaced
<1>q. QED BY <1>1, <1>2, <1>3, <1>4, <1>5, <1>6 DEF Alone


\* One thread takes a step, a caller that has to write the file does, and what will be
\* recorded stays as it was asked for.
Moved(t) ==
  /\ Alone(t, th'[t]) /\ (th[t].pc = "persist" => Persist(t))
  /\ t \in Callers /\ Asked(th[t]) => Asked(th'[t])

\* A thread goes on to the next section, with an override to record or without.
LEMMA GoesOn ==
  ASSUME ShapeInv, NEW t \in Threads, NEW p, GoTo(t, p), p = "record" => th[t].after = "record",
         th[t].pc # "persist" \/ Persist(t),
         t \in Callers /\ "record" \in {th[t].pc, th[t].after} /\ Asked(th[t]) =>
           /\ p \in {"navigating", "record", "persist", "idle"}
           /\ p \in {"navigating", "record"} => th[t].wish.page # NoPage
  PROVE Moved(t)
BY PlaceSet DEF Moved, Asked

\* A decision is made by a thread that does not write the file.
LEMMA DecidesOn ==
  ASSUME NEW t \in Threads, Alone(t, th'[t]), th'[t].after = th[t].after, th'[t].wish = th[t].wish,
         th[t].pc \in {"override", "base", "extend", "inserts"}, th'[t].pc # "record"
  PROVE Moved(t)
BY DEF Moved, Asked

\* Every step is one of one thread, or the end of the program, or of no thread.
LEMMA ThreadsMove ==
  ASSUME ShapeInv, Next
  PROVE th' = th \/ (\E t \in Threads : Moved(t)) \/ (th' = Anew /\ ~up')
<1>0. "scheduler" \in Threads /\ \A c \in Callers : c \in Threads /\ c # "scheduler"
  BY SchedulerAssumption DEF Threads
<1>1. ASSUME NEW t \in Threads, TargetOverride(t) PROVE th' = th \/ (\E u \in Threads
  : Moved(u)) \/ (th' = Anew /\ ~up')
  <2>1. th'[t].pc # "record" /\ th[t].pc = "override" /\ Alone(t, th'[t])
        /\ th'[t].after = th[t].after /\ th'[t].wish = th[t].wish
    BY <1>1, OverrideStep
  <2>q. QED BY <2>1, DecidesOn
<1>2. ASSUME NEW t \in Threads, TargetBase(t) PROVE th' = th \/ (\E u \in Threads :
  Moved(u)) \/ (th' = Anew /\ ~up')
  BY <1>2, BaseStep, DecidesOn
<1>3. ASSUME NEW t \in Threads, PanicsAtRotation(t) PROVE th' = th \/ (\E u \in
  Threads : Moved(u)) \/ (th' = Anew /\ ~up')
  BY <1>3 DEF PanicsAtRotation, ServiceEnds, Anew
<1>4. ASSUME NEW t \in Threads, TargetRotation(t) PROVE th' = th \/ (\E u \in Threads
  : Moved(u)) \/ (th' = Anew /\ ~up')
  BY <1>4, RotationStep, DecidesOn
<1>5. ASSUME NEW t \in Threads, TargetInserts(t) PROVE th' = th \/ (\E u \in Threads :
  Moved(u)) \/ (th' = Anew /\ ~up')
  BY <1>5, InsertsStep, DecidesOn
<1>6. ASSUME NEW t \in Threads, SwitchBegins(t) PROVE th' = th \/ (\E u \in Threads :
  Moved(u)) \/ (th' = Anew /\ ~up')
  <2>1. PICK p : GoTo(t, p) /\ (p = "record" => th[t].after = "record")
         /\ (t # "scheduler" => p = "idle" \/ (p = "navigating" /\ Status(t).target \in 1..cfg.pages))
    BY <1>6 DEF SwitchBegins, Proceed, AfterFailure
  <2>2. th[t].pc # "persist" /\ th[t].pc = "gate" /\ Status(t) = th[t].status
    BY <1>6 DEF SwitchBegins, IsAt, Status
  <2>3. ASSUME t \in Callers, "record" \in {th[t].pc, th[t].after}, Asked(th[t])
        PROVE /\ p \in {"navigating", "record", "persist", "idle"}
              /\ p \in {"navigating", "record"} => th[t].wish.page # NoPage
    BY <1>0, <2>1, <2>2, <2>3 DEF Asked, NoPage
  <2>q. QED BY <1>0, <2>1, <2>2, <2>3, GoesOn
<1>7. ASSUME NEW t \in Threads, SwitchSucceeds(t) PROVE th' = th \/ (\E u \in Threads
  : Moved(u)) \/ (th' = Anew /\ ~up')
  <2>1. PICK p : GoTo(t, p) /\ (p = "record" => th[t].after = "record")
         /\ p = th[t].after
    BY <1>7 DEF SwitchSucceeds, Proceed, AfterFailure
  <2>2. th[t].pc # "persist" /\ th[t].pc = "navigating"
    BY <1>7 DEF SwitchSucceeds, IsAt
  <2>3. ASSUME t \in Callers, "record" \in {th[t].pc, th[t].after}, Asked(th[t])
        PROVE /\ p \in {"navigating", "record", "persist", "idle"}
              /\ p \in {"navigating", "record"} => th[t].wish.page # NoPage
    BY <1>0, <2>1, <2>2, <2>3 DEF Asked, NoPage
  <2>q. QED BY <1>0, <2>1, <2>2, <2>3, GoesOn
<1>8. ASSUME NEW t \in Threads, SwitchFails(t) PROVE th' = th \/ (\E u \in Threads :
  Moved(u)) \/ (th' = Anew /\ ~up')
  <2>1. PICK p : GoTo(t, p) /\ (p = "record" => th[t].after = "record")
         /\ (t # "scheduler" => p = "idle")
    BY <1>8 DEF SwitchFails, Proceed, AfterFailure
  <2>2. th[t].pc # "persist" /\ th[t].pc = "navigating"
    BY <1>8 DEF SwitchFails, IsAt
  <2>3. ASSUME t \in Callers, "record" \in {th[t].pc, th[t].after}, Asked(th[t])
        PROVE /\ p \in {"navigating", "record", "persist", "idle"}
              /\ p \in {"navigating", "record"} => th[t].wish.page # NoPage
    BY <1>0, <2>1, <2>2, <2>3 DEF Asked, NoPage
  <2>q. QED BY <1>0, <2>1, <2>2, <2>3, GoesOn
<1>9. ASSUME NEW t \in Threads, SwitchRefused(t) PROVE th' = th \/ (\E u \in Threads :
  Moved(u)) \/ (th' = Anew /\ ~up')
  <2>1. PICK p : GoTo(t, p) /\ (p = "record" => th[t].after = "record")
         /\ (t # "scheduler" => p = "idle")
    BY <1>9 DEF SwitchRefused, Proceed, AfterFailure
  <2>2. th[t].pc # "persist" /\ th[t].pc = "gate"
    BY <1>9 DEF SwitchRefused, IsAt
  <2>3. ASSUME t \in Callers, "record" \in {th[t].pc, th[t].after}, Asked(th[t])
        PROVE /\ p \in {"navigating", "record", "persist", "idle"}
              /\ p \in {"navigating", "record"} => th[t].wish.page # NoPage
    BY <1>0, <2>1, <2>2, <2>3 DEF Asked, NoPage
  <2>q. QED BY <1>0, <2>1, <2>2, <2>3, GoesOn
<1>10. ASSUME NEW t \in Threads, PanelSet(t) PROVE th' = th \/ (\E u \in Threads :
  Moved(u)) \/ (th' = Anew /\ ~up')
  <2>1. PICK p : GoTo(t, p) /\ (p = "record" => th[t].after = "record")
         /\ p \in {"noting", th[t].after}
    BY <1>10 DEF PanelSet
  <2>2. th[t].pc # "persist" /\ th[t].pc = "setting"
    BY <1>10 DEF PanelSet, IsAt
  <2>3. ASSUME t \in Callers, "record" \in {th[t].pc, th[t].after}, Asked(th[t])
        PROVE /\ p \in {"navigating", "record", "persist", "idle"}
              /\ p \in {"navigating", "record"} => th[t].wish.page # NoPage
    BY <1>0, <2>1, <2>2, <2>3 DEF Asked, NoPage
  <2>q. QED BY <1>0, <2>1, <2>2, <2>3, GoesOn
<1>11. ASSUME NEW t \in Threads, PanelNoted(t) PROVE th' = th \/ (\E u \in Threads :
  Moved(u)) \/ (th' = Anew /\ ~up')
  <2>1. PICK p : GoTo(t, p) /\ (p = "record" => th[t].after = "record")
         /\ p = th[t].after
    BY <1>11 DEF PanelNoted
  <2>2. th[t].pc # "persist" /\ th[t].pc = "noting"
    BY <1>11 DEF PanelNoted, IsAt
  <2>3. ASSUME t \in Callers, "record" \in {th[t].pc, th[t].after}, Asked(th[t])
        PROVE /\ p \in {"navigating", "record", "persist", "idle"}
              /\ p \in {"navigating", "record"} => th[t].wish.page # NoPage
    BY <1>0, <2>1, <2>2, <2>3 DEF Asked, NoPage
  <2>q. QED BY <1>0, <2>1, <2>2, <2>3, GoesOn
<1>12. ASSUME NEW c \in Callers, NEW wish \in Wishes, CallBegins(c, wish) PROVE th' =
  th \/ (\E u \in Threads : Moved(u)) \/ (th' = Anew /\ ~up')
  <2>1. /\ Alone(c, th'[c]) /\ th[c].pc = "idle" /\ th'[c].wish = wish
        /\ th'[c].status.target = wish.page
        /\ "record" \in {th'[c].pc, th'[c].after} => wish.kind = "override" /\ th'[c].pc = "gate"
    BY <1>12, CallStep
  <2>q. QED BY <1>0, <2>1 DEF Moved, Asked
<1>13. ASSUME NEW c \in Callers, RecordOverride(c) PROVE th' = th \/ (\E u \in Threads
  : Moved(u)) \/ (th' = Anew /\ ~up')
  <2>1. PICK p : GoTo(c, p) /\ (p = "record" => th[c].after = "record")
         /\ p = "persist"
    BY <1>13 DEF RecordOverride
  <2>2. th[c].pc # "persist" /\ th[c].pc = "record"
    BY <1>13 DEF RecordOverride, IsAt
  <2>3. ASSUME c \in Callers, "record" \in {th[c].pc, th[c].after}, Asked(th[c])
        PROVE /\ p \in {"navigating", "record", "persist", "idle"}
              /\ p \in {"navigating", "record"} => th[c].wish.page # NoPage
    BY <1>0, <2>1, <2>2, <2>3 DEF Asked, NoPage
  <2>q. QED BY <1>0, <2>1, <2>2, <2>3, GoesOn
<1>14. ASSUME NEW c \in Callers, ForgetOverride(c) PROVE th' = th \/ (\E u \in Threads
  : Moved(u)) \/ (th' = Anew /\ ~up')
  <2>1. PICK p : GoTo(c, p) /\ (p = "record" => th[c].after = "record")
         /\ p = "persist"
    BY <1>14 DEF ForgetOverride
  <2>2. th[c].pc # "persist" /\ th[c].pc = "clear"
    BY <1>14 DEF ForgetOverride, IsAt
  <2>3. ASSUME c \in Callers, "record" \in {th[c].pc, th[c].after}, Asked(th[c])
        PROVE /\ p \in {"navigating", "record", "persist", "idle"}
              /\ p \in {"navigating", "record"} => th[c].wish.page # NoPage
    BY <1>0, <2>1, <2>2, <2>3 DEF Asked, NoPage
  <2>q. QED BY <1>0, <2>1, <2>2, <2>3, GoesOn
<1>15. ASSUME NEW c \in Callers, Persist(c) PROVE th' = th \/ (\E u \in Threads :
  Moved(u)) \/ (th' = Anew /\ ~up')
  <2>1. PICK p : /\ GoTo(c, p) /\ p \in {"override", "idle"}
                 /\ (p = "override" => th[c].wish.kind = "clear")
    BY <1>15 DEF Persist
  <2>2. ASSUME "record" \in {th[c].pc, th[c].after}, Asked(th[c]) PROVE p = "idle"
    BY <2>1, <2>2 DEF Asked
  <2>q. QED BY <1>15, <1>0, <2>1, <2>2, GoesOn
<1>16. ASSUME NEW c \in Callers, CallerDecided(c) PROVE th' = th \/ (\E u \in Threads
  : Moved(u)) \/ (th' = Anew /\ ~up')
  <2>1. PICK p : GoTo(c, p) /\ (p = "record" => th[c].after = "record")
         /\ p \in {"idle", "gate"}
    BY <1>16 DEF CallerDecided
  <2>2. th[c].pc # "persist" /\ th[c].pc = "decided"
    BY <1>16 DEF CallerDecided, IsAt
  <2>3. ASSUME c \in Callers, "record" \in {th[c].pc, th[c].after}, Asked(th[c])
        PROVE /\ p \in {"navigating", "record", "persist", "idle"}
              /\ p \in {"navigating", "record"} => th[c].wish.page # NoPage
    BY <1>0, <2>1, <2>2, <2>3 DEF Asked, NoPage
  <2>q. QED BY <1>0, <2>1, <2>2, <2>3, GoesOn
<1>17. ASSUME Wake PROVE th' = th \/ (\E u \in Threads : Moved(u)) \/ (th' = Anew /\
  ~up')
  BY <1>17, <1>0, WakeStep DEF Moved, Me
<1>18. ASSUME SignalWakes PROVE th' = th \/ (\E u \in Threads : Moved(u)) \/ (th' =
  Anew /\ ~up')
  BY <1>18 DEF SignalWakes, worldVars, quietVars
<1>19. ASSUME ChangeWakes PROVE th' = th \/ (\E u \in Threads : Moved(u)) \/ (th' =
  Anew /\ ~up')
  BY <1>19 DEF ChangeWakes, worldVars, quietVars
<1>20. ASSUME SchedulerDecided PROVE th' = th \/ (\E u \in Threads : Moved(u)) \/ (th'
  = Anew /\ ~up')
  <2>1. PICK p : GoTo("scheduler", p) /\ (p = "record" => th["scheduler"].after = "record")
    BY <1>20 DEF SchedulerDecided
  <2>2. th["scheduler"].pc # "persist"
    BY <1>20 DEF SchedulerDecided, IsAt
  <2>q. QED BY <1>0, <2>1, <2>2, GoesOn
<1>21. ASSUME Maintain PROVE th' = th \/ (\E u \in Threads : Moved(u)) \/ (th' = Anew
  /\ ~up')
  <2>1. PICK p : GoTo("scheduler", p) /\ (p = "record" => th["scheduler"].after = "record")
    BY <1>21 DEF Maintain
  <2>2. th["scheduler"].pc # "persist"
    BY <1>21 DEF Maintain, IsAt
  <2>q. QED BY <1>0, <2>1, <2>2, GoesOn
<1>22. ASSUME PowerNeeded PROVE th' = th \/ (\E u \in Threads : Moved(u)) \/ (th' =
  Anew /\ ~up')
  BY <1>22, <1>0, PowerStep DEF Moved, Me
<1>23. ASSUME BlankOrRestore PROVE th' = th \/ (\E u \in Threads : Moved(u)) \/ (th' =
  Anew /\ ~up')
  BY <1>23, <1>0, BlankStep DEF Moved, Me
<1>24. ASSUME Blanks PROVE th' = th \/ (\E u \in Threads : Moved(u)) \/ (th' = Anew /\
  ~up')
  <2>1. PICK p : GoTo("scheduler", p) /\ (p = "record" => th["scheduler"].after = "record")
    BY <1>24 DEF Blanks, Proceed
  <2>2. th["scheduler"].pc # "persist"
    BY <1>24 DEF Blanks, IsAt
  <2>q. QED BY <1>0, <2>1, <2>2, GoesOn
<1>25. ASSUME BlankNoted PROVE th' = th \/ (\E u \in Threads : Moved(u)) \/ (th' =
  Anew /\ ~up')
  <2>1. PICK p : GoTo("scheduler", p) /\ (p = "record" => th["scheduler"].after = "record")
    BY <1>25 DEF BlankNoted, Proceed
  <2>2. th["scheduler"].pc # "persist"
    BY <1>25 DEF BlankNoted, IsAt
  <2>q. QED BY <1>0, <2>1, <2>2, GoesOn
<1>26. ASSUME SignalArrives PROVE th' = th \/ (\E u \in Threads : Moved(u)) \/ (th' =
  Anew /\ ~up')
  BY <1>26 DEF SignalArrives, ConditionChanges, NotePresence, worldVars, quietVars
<1>27. ASSUME ConfigSaved PROVE th' = th \/ (\E u \in Threads : Moved(u)) \/ (th' =
  Anew /\ ~up')
  BY <1>27 DEF ConfigSaved, worldVars, quietVars
<1>28. ASSUME MQTTTakesChange PROVE th' = th \/ (\E u \in Threads : Moved(u)) \/ (th'
  = Anew /\ ~up')
  BY <1>28 DEF MQTTTakesChange, worldVars, quietVars
<1>29. ASSUME BrowserStops PROVE th' = th \/ (\E u \in Threads : Moved(u)) \/ (th' =
  Anew /\ ~up')
  BY <1>29 DEF BrowserStops, worldVars, quietVars
<1>30. ASSUME BrowserStarts PROVE th' = th \/ (\E u \in Threads : Moved(u)) \/ (th' =
  Anew /\ ~up')
  BY <1>30 DEF BrowserStarts, worldVars, quietVars
<1>31. ASSUME PowerLost PROVE th' = th \/ (\E u \in Threads : Moved(u)) \/ (th' = Anew
  /\ ~up')
  BY <1>31 DEF PowerLost, ServiceEnds, Anew
<1>32. ASSUME Boot PROVE th' = th \/ (\E u \in Threads : Moved(u)) \/ (th' = Anew /\
  ~up')
  BY <1>32 DEF Boot, worldVars, quietVars
<1>33. ASSUME PersistLater PROVE th' = th \/ (\E u \in Threads : Moved(u)) \/ (th' =
  Anew /\ ~up')
  BY <1>33 DEF PersistLater, worldVars, quietVars
<1>34. ASSUME Tick PROVE th' = th \/ (\E u \in Threads : Moved(u)) \/ (th' = Anew /\
  ~up')
  BY <1>34 DEF Tick, worldVars, quietVars
<1>q. QED
  BY <1>1, <1>2, <1>3, <1>4, <1>5, <1>6, <1>7, <1>8, <1>9, <1>10, <1>11, <1>12, <1>13,
    <1>14, <1>15, <1>16, <1>17, <1>18, <1>19, <1>20, <1>21, <1>22, <1>23, <1>24,
    <1>25, <1>26, <1>27, <1>28, <1>29, <1>30, <1>31, <1>32, <1>33, <1>34, NextSteps

\* The threads keep their shape, and wishes for an override what they are.
LEMMA ThreadsShape ==
  ASSUME ShapeInv, WishInv, Next
  PROVE /\ th' = [t \in Threads |-> th'[t]] /\ \A t \in Threads : IsThread(th'[t])
        /\ WishInv'
<1>0. \A c \in Callers : c \in Threads /\ c # "scheduler"
  BY SchedulerAssumption DEF Threads
<1>1. CASE th' = th
  BY <1>1 DEF ShapeInv, WishInv
<1>2. ASSUME NEW t \in Threads, Moved(t)
      PROVE /\ th' = [u \in Threads |-> th'[u]] /\ \A u \in Threads : IsThread(th'[u])
            /\ WishInv'
  <2>1. th' = [u \in Threads |-> th'[u]] /\ \A u \in Threads : IsThread(th'[u])
    BY <1>2 DEF Moved, Alone, ShapeInv
  <2>2. ASSUME NEW c \in Callers PROVE Asked(th'[c])
    <3>1. CASE c = t
      BY <1>2, <3>1 DEF Moved, WishInv
    <3>2. CASE c # t
      BY <1>0, <1>2, <3>2 DEF Moved, Alone, WishInv
    <3>q. QED BY <3>1, <3>2
  <2>q. QED BY <2>1, <2>2 DEF WishInv
<1>3. CASE th' = Anew
  <2>1. \A c \in Callers : Anew[c].pc = "idle" /\ Anew[c].after = "idle"
    BY AnewShape DEF Idle
  <2>2. /\ th' = [t \in Threads |-> th'[t]] /\ \A t \in Threads : IsThread(th'[t])
    BY <1>3, AnewShape
  <2>q. QED BY <1>3, <2>1, <2>2 DEF WishInv, Asked
<1>q. QED BY <1>1, <1>2, <1>3, ThreadsMove

-----------------------------------------------------------------------------
(* The shape of the state.                                                 *)

IsBrowser(b) ==
  b = [running |-> b.running, content |-> b.content, active |-> b.active, held |-> b.held,
       started |-> b.started]

IsDisplay(d) == d = [noted |-> d.noted, panel |-> d.panel, blanked |-> d.blanked]

Shaped ==
  /\ now \in Nat /\ cfg \in Configs /\ IsBrowser(browser) /\ IsDisplay(display)
  /\ IsOverride(override) /\ IsOverride(saved)

LEMMA BrowserParts ==
  ASSUME NEW b, IsBrowser(b), NEW v
  PROVE /\ IsBrowser([b EXCEPT !.running = v]) /\ IsBrowser([b EXCEPT !.content = v])
        /\ IsBrowser([b EXCEPT !.active = v]) /\ IsBrowser([b EXCEPT !.held = v])
        /\ IsBrowser([b EXCEPT !.started = v])
        /\ [b EXCEPT !.running = v].started = b.started
        /\ [b EXCEPT !.content = v].started = b.started
        /\ [b EXCEPT !.content = v].active = b.active
        /\ [b EXCEPT !.content = v].running = b.running
        /\ [b EXCEPT !.running = v].active = b.active
        /\ [b EXCEPT !.running = v].running = v
        /\ [b EXCEPT !.active = v].started = b.started
        /\ [b EXCEPT !.active = v].running = b.running
        /\ [b EXCEPT !.active = v].active = v
        /\ [b EXCEPT !.held = v].started = b.started
        /\ [b EXCEPT !.started = v].started = v
        /\ [b EXCEPT !.started = v].active = b.active
BY DEF IsBrowser

LEMMA DisplayParts ==
  ASSUME NEW d, IsDisplay(d), NEW v
  PROVE /\ IsDisplay([d EXCEPT !.noted = v]) /\ IsDisplay([d EXCEPT !.panel = v])
        /\ IsDisplay([d EXCEPT !.blanked = v])
        /\ [d EXCEPT !.noted = v].noted = v /\ [d EXCEPT !.noted = v].blanked = d.blanked
        /\ [d EXCEPT !.panel = v].noted = d.noted /\ [d EXCEPT !.panel = v].blanked = d.blanked
        /\ [d EXCEPT !.blanked = v].noted = d.noted /\ [d EXCEPT !.blanked = v].blanked = v
BY DEF IsDisplay

\* What a finished switch makes of the browser.
LEMMA SwitchedBrowser ==
  ASSUME NEW t \in Threads, SwitchSucceeds(t), IsBrowser(browser)
  PROVE /\ IsBrowser(browser') /\ browser'.active = browser.active
        /\ browser'.started \in {browser.started, now}
<1> DEFINE s == IF browser.running THEN browser.started ELSE now
           p == [browser EXCEPT !.content = "page"]
           q == [p EXCEPT !.running = TRUE]
           r == [q EXCEPT !.started = s]
<1>1. browser' = r
  BY DEF SwitchSucceeds, IsBrowser
<1>2. IsBrowser(p) /\ p.active = browser.active
  BY BrowserParts, Zenon
<1>3. IsBrowser(q) /\ q.active = p.active
  <2> HIDE DEF p
  <2>q. QED BY <1>2, BrowserParts, Zenon
<1>4. IsBrowser(r) /\ r.active = q.active /\ r.started = s
  <2> HIDE DEF q, s
  <2>q. QED BY <1>3, BrowserParts, Zenon
<1>5. s \in {browser.started, now}
  OBVIOUS
<1> HIDE DEF r, q, p, s
<1>q. QED BY <1>1, <1>2, <1>3, <1>4, <1>5

\* What a start by hand makes of the browser.
LEMMA StartedBrowser ==
  ASSUME BrowserStarts, IsBrowser(browser)
  PROVE IsBrowser(browser') /\ browser'.active = browser.active /\ browser'.started = now
<1> DEFINE p == [browser EXCEPT !.running = TRUE]
           q == [p EXCEPT !.content = "page"]
           u == [q EXCEPT !.held = FALSE]
           r == [u EXCEPT !.started = now]
<1>1. browser' = r
  BY DEF BrowserStarts
<1>2. IsBrowser(p) /\ p.active = browser.active
  BY BrowserParts, Zenon
<1>3. IsBrowser(q) /\ q.active = p.active
  <2> HIDE DEF p
  <2>q. QED BY <1>2, BrowserParts, Zenon
<1>4. IsBrowser(u) /\ u.active = q.active
  <2> HIDE DEF q
  <2>1. [q EXCEPT !.held = FALSE].active = q.active
    BY <1>3 DEF IsBrowser
  <2>q. QED BY <1>3, <2>1, BrowserParts, Zenon
<1>5. IsBrowser(r) /\ r.active = u.active /\ r.started = now
  <2> HIDE DEF u
  <2>q. QED BY <1>4, BrowserParts, Zenon
<1> HIDE DEF r, u, q, p
<1>q. QED BY <1>1, <1>2, <1>3, <1>4, <1>5

\* What is off is no override.
LEMMA NoneIsOverride == IsOverride(NoOverride)
BY DEF NoOverride, IsOverride, Never

\* The program, the browser, the display and the overrides keep their shape.
LEMMA StaysShaped ==
  ASSUME Shaped, ShapeInv, WishInv, Next
  PROVE Shaped'

<1>1. ASSUME NEW t \in Threads, TargetOverride(t) PROVE Shaped'
  <2>1. override' \in {override, NoOverride} /\ saved' = saved
    BY <1>1, OverrideStep DEF TargetOverride
  <2>2. now' = now /\ cfg' = cfg /\ browser' = browser /\ display' = display
    BY <1>1 DEF TargetOverride, worldVars, quietVars
  <2>q. QED BY <2>1, <2>2, NoneIsOverride DEF Shaped
<1>2. ASSUME NEW t \in Threads, TargetBase(t) PROVE Shaped'
  BY <1>2 DEF TargetBase, Shaped, worldVars, quietVars, stateVars
<1>3. ASSUME NEW t \in Threads, PanicsAtRotation(t) PROVE Shaped'
  BY <1>3 DEF PanicsAtRotation, ServiceEnds, Shaped, worldVars, quietVars, stateVars
<1>4. ASSUME NEW t \in Threads, TargetRotation(t) PROVE Shaped'
  BY <1>4 DEF TargetRotation, Shaped, worldVars, quietVars, stateVars
<1>5. ASSUME NEW t \in Threads, TargetInserts(t) PROVE Shaped'
  BY <1>5 DEF TargetInserts, Shaped, worldVars, quietVars, stateVars
<1>6. ASSUME NEW t \in Threads, SwitchBegins(t) PROVE Shaped'
  <2>1. browser' = browser \/ browser' = [browser EXCEPT !.active = Status(t).target]
    BY <1>6 DEF SwitchBegins, Proceed
  <2>a. IsBrowser([browser EXCEPT !.active = Status(t).target])
    BY BrowserParts, Zenon DEF Shaped
  <2>2. IsBrowser(browser')
    BY <2>1, <2>a, Zenon DEF Shaped
  <2>3. /\ now' = now /\ cfg' = cfg /\ display' = display
        /\ override' = override /\ saved' \in {saved, override}
    BY <1>6 DEF SwitchBegins, worldVars, quietVars, stateVars
  <2>q. QED BY <2>2, <2>3 DEF Shaped
<1>7. ASSUME NEW t \in Threads, SwitchSucceeds(t) PROVE Shaped'
  <2>1. IsBrowser(browser') /\ saved' = override /\ override' = override
    BY <1>7, SwitchedBrowser DEF SwitchSucceeds, Shaped
  <2>2. now' = now /\ cfg' = cfg /\ display' = display
    BY <1>7 DEF SwitchSucceeds, worldVars, quietVars
  <2>q. QED BY <2>1, <2>2 DEF Shaped
<1>8. ASSUME NEW t \in Threads, SwitchFails(t) PROVE Shaped'
  <2>1. browser' = [browser EXCEPT !.running = FALSE]
    BY <1>8 DEF SwitchFails, Proceed
  <2>a. IsBrowser([browser EXCEPT !.running = FALSE])
    BY BrowserParts, Zenon DEF Shaped
  <2>2. IsBrowser(browser')
    BY <2>1, <2>a, Zenon DEF Shaped
  <2>3. /\ now' = now /\ cfg' = cfg /\ display' = display
        /\ override' = override /\ saved' \in {saved, override}
    BY <1>8 DEF SwitchFails, worldVars, quietVars, stateVars
  <2>q. QED BY <2>2, <2>3 DEF Shaped
<1>9. ASSUME NEW t \in Threads, SwitchRefused(t) PROVE Shaped'
  BY <1>9 DEF SwitchRefused, Proceed, Shaped, worldVars, quietVars, stateVars
<1>10. ASSUME NEW t \in Threads, PanelSet(t) PROVE Shaped'
  <2>1. display' = display \/ display' = [display EXCEPT !.panel = th[t].wish.power]
    BY <1>10 DEF PanelSet
  <2>a. IsDisplay([display EXCEPT !.panel = th[t].wish.power])
    BY DisplayParts, Zenon DEF Shaped
  <2>2. IsDisplay(display')
    BY <2>1, <2>a, Zenon DEF Shaped
  <2>3. /\ now' = now /\ cfg' = cfg /\ browser' = browser
        /\ override' = override /\ saved' \in {saved, override}
    BY <1>10 DEF PanelSet, worldVars, quietVars, stateVars
  <2>q. QED BY <2>2, <2>3 DEF Shaped
<1>11. ASSUME NEW t \in Threads, PanelNoted(t) PROVE Shaped'
  <2>1. display' = [display EXCEPT !.noted = th[t].wish.power]
    BY <1>11 DEF PanelNoted
  <2>a. IsDisplay([display EXCEPT !.noted = th[t].wish.power])
    BY DisplayParts, Zenon DEF Shaped
  <2>2. IsDisplay(display')
    BY <2>1, <2>a, Zenon DEF Shaped
  <2>3. /\ now' = now /\ cfg' = cfg /\ browser' = browser
        /\ override' = override /\ saved' \in {saved, override}
    BY <1>11 DEF PanelNoted, worldVars, quietVars, stateVars
  <2>q. QED BY <2>2, <2>3 DEF Shaped
<1>12. ASSUME NEW c \in Callers, NEW wish \in Wishes, CallBegins(c, wish) PROVE
  Shaped'
  BY <1>12 DEF CallBegins, Shaped, worldVars, quietVars, stateVars
<1>13. ASSUME NEW c \in Callers, RecordOverride(c) PROVE Shaped'
  <2>1. th[c].wish \in Wishes /\ th[c].wish.kind = "override" /\ th[c].wish.page # NoPage
    BY <1>13 DEF RecordOverride, IsAt, WishInv, Asked
  <2>2. th[c].wish.page # NoPage /\ th[c].wish.minutes \in Nat
    BY <2>1, WishesAssumption
  <2> DEFINE page == th[c].wish.page
             source == th[c].wish.source
             until == now + th[c].wish.minutes
  <2>3. override' = [active |-> TRUE, page |-> page, source |-> source, until |-> until]
    BY <1>13 DEF RecordOverride
  <2>4. until \in Int /\ page # NoPage
    BY <2>2 DEF Shaped
  <2> HIDE DEF page, source, until
  <2>5. /\ override' = [active |-> override'.active, page |-> override'.page,
                        source |-> override'.source, until |-> override'.until]
        /\ override'.until = until /\ override'.page = page
    BY <2>3
  <2>6. IsOverride(override')
    BY <2>4, <2>5 DEF IsOverride
  <2>7. /\ now' = now /\ cfg' = cfg /\ display' = display /\ browser' = browser
        /\ saved' = saved
    BY <1>13 DEF RecordOverride, worldVars, quietVars
  <2>q. QED BY <2>6, <2>7 DEF Shaped
<1>14. ASSUME NEW c \in Callers, ForgetOverride(c) PROVE Shaped'
  BY <1>14, NoneIsOverride DEF ForgetOverride, Shaped, worldVars, quietVars
<1>15. ASSUME NEW c \in Callers, Persist(c) PROVE Shaped'
  BY <1>15 DEF Persist, Shaped, worldVars, quietVars
<1>16. ASSUME NEW c \in Callers, CallerDecided(c) PROVE Shaped'
  BY <1>16 DEF CallerDecided, Shaped, worldVars, quietVars, stateVars
<1>17. ASSUME Wake PROVE Shaped'
  BY <1>17 DEF Wake, Shaped, worldVars, quietVars, stateVars
<1>18. ASSUME SignalWakes PROVE Shaped'
  BY <1>18 DEF SignalWakes, Shaped, worldVars, quietVars, stateVars
<1>19. ASSUME ChangeWakes PROVE Shaped'
  BY <1>19 DEF ChangeWakes, Shaped, worldVars, quietVars, stateVars
<1>20. ASSUME SchedulerDecided PROVE Shaped'
  BY <1>20 DEF SchedulerDecided, Shaped, worldVars, quietVars, stateVars
<1>21. ASSUME Maintain PROVE Shaped'
  BY <1>21 DEF Maintain, Shaped, worldVars, quietVars, stateVars
<1>22. ASSUME PowerNeeded PROVE Shaped'
  BY <1>22 DEF PowerNeeded, Shaped, worldVars, quietVars, stateVars
<1>23. ASSUME BlankOrRestore PROVE Shaped'
  <2>1. display' = display \/ display' = [display EXCEPT !.blanked = FALSE]
    BY <1>23 DEF BlankOrRestore, Proceed
  <2>a. IsDisplay([display EXCEPT !.blanked = FALSE])
    BY DisplayParts, Zenon DEF Shaped
  <2>2. IsDisplay(display')
    BY <2>1, <2>a, Zenon DEF Shaped
  <2>3. /\ now' = now /\ cfg' = cfg /\ browser' = browser
        /\ override' = override /\ saved' \in {saved, override}
    BY <1>23 DEF BlankOrRestore, worldVars, quietVars, stateVars
  <2>q. QED BY <2>2, <2>3 DEF Shaped
<1>24. ASSUME Blanks PROVE Shaped'
  <2>1. browser' = browser \/ browser' = [browser EXCEPT !.content = "blank"]
    BY <1>24 DEF Blanks, Proceed
  <2>a. IsBrowser([browser EXCEPT !.content = "blank"])
    BY BrowserParts, Zenon DEF Shaped
  <2>2. IsBrowser(browser')
    BY <2>1, <2>a, Zenon DEF Shaped
  <2>3. /\ now' = now /\ cfg' = cfg /\ display' = display
        /\ override' = override /\ saved' \in {saved, override}
    BY <1>24 DEF Blanks, worldVars, quietVars, stateVars
  <2>q. QED BY <2>2, <2>3 DEF Shaped
<1>25. ASSUME BlankNoted PROVE Shaped'
  <2>1. display' = [display EXCEPT !.blanked = TRUE]
    BY <1>25 DEF BlankNoted, Proceed
  <2>a. IsDisplay([display EXCEPT !.blanked = TRUE])
    BY DisplayParts, Zenon DEF Shaped
  <2>2. IsDisplay(display')
    BY <2>1, <2>a, Zenon DEF Shaped
  <2>3. /\ now' = now /\ cfg' = cfg /\ browser' = browser
        /\ override' = override /\ saved' \in {saved, override}
    BY <1>25 DEF BlankNoted, worldVars, quietVars, stateVars
  <2>q. QED BY <2>2, <2>3 DEF Shaped
<1>26. ASSUME SignalArrives PROVE Shaped'
  BY <1>26 DEF SignalArrives, ConditionChanges, NotePresence, Shaped, worldVars,
    quietVars, stateVars
<1>27. ASSUME ConfigSaved PROVE Shaped'
  BY <1>27 DEF ConfigSaved, Shaped, worldVars, quietVars, stateVars
<1>28. ASSUME MQTTTakesChange PROVE Shaped'
  BY <1>28 DEF MQTTTakesChange, Shaped, worldVars, quietVars, stateVars
<1>29. ASSUME BrowserStops PROVE Shaped'
  <2>1. PICK held : browser' = [browser EXCEPT !.running = FALSE, !.held = held]
    BY <1>29 DEF BrowserStops
  <2> DEFINE p == [browser EXCEPT !.running = FALSE]
             q == [p EXCEPT !.held = held]
  <2>2. IsBrowser(p)
    BY BrowserParts, Zenon DEF Shaped
  <2>3. browser' = q
    BY <2>1
  <2>4. IsBrowser(q)
    <3> HIDE DEF p
    <3>q. QED BY <2>2, BrowserParts, Zenon
  <2> HIDE DEF q
  <2>5. /\ now' = now /\ cfg' = cfg /\ display' = display
        /\ override' = override /\ saved' = saved
    BY <1>29 DEF BrowserStops, worldVars, quietVars, stateVars
  <2>q. QED BY <2>3, <2>4, <2>5 DEF Shaped
<1>30. ASSUME BrowserStarts PROVE Shaped'
  <2>1. IsBrowser(browser')
    BY <1>30, StartedBrowser DEF Shaped
  <2>2. /\ now' = now /\ cfg' = cfg /\ display' = display
        /\ override' = override /\ saved' = saved
    BY <1>30 DEF BrowserStarts, worldVars, quietVars, stateVars
  <2>q. QED BY <2>1, <2>2 DEF Shaped
<1>31. ASSUME PowerLost PROVE Shaped'
  BY <1>31 DEF PowerLost, ServiceEnds, Shaped, worldVars, quietVars, stateVars
<1>32. ASSUME Boot PROVE Shaped'
  <2>1. override' \in {NoOverride, saved} /\ saved' = saved /\ now' = now /\ cfg' = cfg
    BY <1>32 DEF Boot
  <2>2. IsBrowser(browser')
    BY <1>32 DEF Boot, IsBrowser
  <2> DEFINE p == [display EXCEPT !.noted = ""]
             q == [p EXCEPT !.blanked = FALSE]
  <2>3. display' = q
    BY <1>32 DEF Boot
  <2>4. IsDisplay(p)
    BY DisplayParts, Zenon DEF Shaped
  <2>5. IsDisplay(q)
    <3> HIDE DEF p
    <3>q. QED BY <2>4, DisplayParts, Zenon
  <2> HIDE DEF q
  <2>q. QED BY <2>1, <2>2, <2>3, <2>5, NoneIsOverride DEF Shaped
<1>33. ASSUME PersistLater PROVE Shaped'
  BY <1>33 DEF PersistLater, Shaped, worldVars, quietVars
<1>34. ASSUME Tick PROVE Shaped'
  BY <1>34 DEF Tick, Shaped, worldVars, quietVars, stateVars
<1>q. QED
  BY <1>1, <1>2, <1>3, <1>4, <1>5, <1>6, <1>7, <1>8, <1>9, <1>10, <1>11, <1>12, <1>13,
    <1>14, <1>15, <1>16, <1>17, <1>18, <1>19, <1>20, <1>21, <1>22, <1>23, <1>24,
    <1>25, <1>26, <1>27, <1>28, <1>29, <1>30, <1>31, <1>32, <1>33, <1>34, NextSteps

\* The two parts of the shape.
LEMMA ShapeParts ==
  ShapeInv <=> Shaped /\ th = [t \in Threads |-> th[t]] /\ \A t \in Threads : IsThread(th[t])
BY DEF ShapeInv, Shaped, IsBrowser, IsDisplay

LEMMA ShapeKept ==
  ASSUME ShapeInv, WishInv, Next
  PROVE ShapeInv' /\ WishInv'
<1>1. Shaped'
  BY ShapeParts, StaysShaped
<1>2. /\ th' = [t \in Threads |-> th'[t]] /\ \A t \in Threads : IsThread(th'[t])
      /\ WishInv'
  BY ThreadsShape
<1>q. QED BY <1>1, <1>2, ShapeParts DEF ShapeInv, Shaped, IsBrowser, IsDisplay

-----------------------------------------------------------------------------
(* The file follows the override.                                          *)

\* A step that leaves override and file alone, and whoever has to write it.
LEMMA FileCalm ==
  ASSUME ShapeInv, Next, FileFollowsOverride, override' = override, saved' = saved,
         persistDue' = persistDue, up' = up, now' \in Int, now' >= now
  PROVE FileFollowsOverride'
<1>0. \A c \in Callers : c \in Threads
  BY DEF Threads
<1>1. CASE saved = override
  BY <1>1 DEF FileFollowsOverride
<1>2. CASE persistDue
  BY <1>2 DEF FileFollowsOverride
<1>3. ASSUME NEW c \in Callers, IsAt(c, "persist") PROVE FileFollowsOverride'
  <2>1. CASE th' = th
    BY <1>3, <2>1 DEF IsAt, FileFollowsOverride
  <2>2. ASSUME NEW t \in Threads, Moved(t) PROVE FileFollowsOverride'
    <3>1. CASE c = t
      <4>1. Persist(t)
        BY <1>3, <2>2, <3>1 DEF Moved, IsAt
      <4>q. QED BY <4>1 DEF Persist, FileFollowsOverride
    <3>2. CASE c # t
      <4>1. th'[c] = th[c]
        BY <1>0, <2>2, <3>2 DEF Moved, Alone
      <4>q. QED BY <1>3, <4>1 DEF IsAt, FileFollowsOverride
    <3>q. QED BY <3>1, <3>2
  <2>3. CASE th' = Anew /\ ~up'
    BY <2>3 DEF FileFollowsOverride
  <2>q. QED BY <2>1, <2>2, <2>3, ThreadsMove
<1>4. CASE ~override.active /\ saved.active /\ now >= saved.until
  <2>1. saved.until \in Int /\ now \in Int
    BY DEF ShapeInv, IsOverride
  <2>2. now' >= saved'.until
    BY <1>4, <2>1
  <2>q. QED BY <1>4, <2>2 DEF FileFollowsOverride
<1>5. CASE ~up
  BY <1>5 DEF FileFollowsOverride
<1>q. QED BY <1>1, <1>2, <1>3, <1>4, <1>5 DEF FileFollowsOverride

\* A step leaves nothing that the file has and nobody is about to write.
LEMMA FileKept ==
  ASSUME ShapeInv, Next, FileFollowsOverride
  PROVE FileFollowsOverride'
<1>0. now \in Int
  BY DEF ShapeInv
<1>1. ASSUME NEW t \in Threads, TargetOverride(t) PROVE FileFollowsOverride'
  <2>1. CASE override.active /\ now >= override.until
    BY <1>1, <2>1 DEF TargetOverride, FileFollowsOverride
  <2>2. CASE ~(override.active /\ now >= override.until)
    <3>1. override' = override /\ saved' = saved /\ up' = up /\ now' = now
      BY <1>1, <2>2 DEF TargetOverride, quietVars
    <3>2. persistDue' = (persistDue \/ (override.active /\ now >= override.until))
      BY <1>1 DEF TargetOverride
    <3>3. CASE persistDue
      BY <3>2, <3>3 DEF FileFollowsOverride
    <3>4. CASE ~persistDue
      <4>1. FileFollowsOverride' \/ saved # override
        BY <3>1 DEF FileFollowsOverride
      <4>2. ASSUME NEW c \in Callers, IsAt(c, "persist") PROVE FileFollowsOverride'
        <5>1. th[t].pc = "override" /\ th[c].pc = "persist" /\ up
          BY <1>1, <4>2 DEF TargetOverride, IsAt
        <5>2. Alone(t, th'[t]) /\ c \in Threads /\ c # t
          BY <1>1, <5>1, OverrideStep DEF Threads
        <5>3. th'[c].pc = "persist" /\ up'
          BY <3>1, <5>1, <5>2 DEF Alone
        <5>q. QED BY <5>3 DEF IsAt, FileFollowsOverride
      <4>q. QED BY <3>1, <3>4, <4>1, <4>2 DEF FileFollowsOverride
    <3>q. QED BY <3>3, <3>4
  <2>q. QED BY <2>1, <2>2
<1>2. ASSUME NEW t \in Threads, TargetBase(t) PROVE FileFollowsOverride'
  <2>1. /\ override' = override /\ saved' = saved /\ persistDue' = persistDue /\ up' = up
        /\ now' = now
    BY <1>2 DEF TargetBase, stateVars, quietVars, worldVars
  <2>q. QED BY <1>0, <2>1, FileCalm
<1>3. ASSUME NEW t \in Threads, PanicsAtRotation(t) PROVE FileFollowsOverride'
  BY <1>3 DEF PanicsAtRotation, ServiceEnds, FileFollowsOverride
<1>4. ASSUME NEW t \in Threads, TargetRotation(t) PROVE FileFollowsOverride'
  <2>1. /\ override' = override /\ saved' = saved /\ persistDue' = persistDue /\ up' = up
        /\ now' = now
    BY <1>4 DEF TargetRotation, stateVars, quietVars, worldVars
  <2>q. QED BY <1>0, <2>1, FileCalm
<1>5. ASSUME NEW t \in Threads, TargetInserts(t) PROVE FileFollowsOverride'
  <2>1. /\ override' = override /\ saved' = saved /\ persistDue' = persistDue /\ up' = up
        /\ now' = now
    BY <1>5 DEF TargetInserts, stateVars, quietVars, worldVars
  <2>q. QED BY <1>0, <2>1, FileCalm
<1>6. ASSUME NEW t \in Threads, SwitchBegins(t) PROVE FileFollowsOverride'
  <2>1. /\ override' = override /\ saved' = saved /\ persistDue' = persistDue /\ up' = up
        /\ now' = now
    BY <1>6 DEF SwitchBegins, stateVars, quietVars, worldVars
  <2>q. QED BY <1>0, <2>1, FileCalm
<1>7. ASSUME NEW t \in Threads, SwitchSucceeds(t) PROVE FileFollowsOverride'
  BY <1>7 DEF SwitchSucceeds, FileFollowsOverride
<1>8. ASSUME NEW t \in Threads, SwitchFails(t) PROVE FileFollowsOverride'
  BY <1>8 DEF SwitchFails, FileFollowsOverride
<1>9. ASSUME NEW t \in Threads, SwitchRefused(t) PROVE FileFollowsOverride'
  <2>1. /\ override' = override /\ saved' = saved /\ persistDue' = persistDue /\ up' = up
        /\ now' = now
    BY <1>9 DEF SwitchRefused, stateVars, quietVars, worldVars
  <2>q. QED BY <1>0, <2>1, FileCalm
<1>10. ASSUME NEW t \in Threads, PanelSet(t) PROVE FileFollowsOverride'
  <2>1. /\ override' = override /\ saved' = saved /\ persistDue' = persistDue /\ up' = up
        /\ now' = now
    BY <1>10 DEF PanelSet, stateVars, quietVars, worldVars
  <2>q. QED BY <1>0, <2>1, FileCalm
<1>11. ASSUME NEW t \in Threads, PanelNoted(t) PROVE FileFollowsOverride'
  <2>1. /\ override' = override /\ saved' = saved /\ persistDue' = persistDue /\ up' = up
        /\ now' = now
    BY <1>11 DEF PanelNoted, stateVars, quietVars, worldVars
  <2>q. QED BY <1>0, <2>1, FileCalm
<1>12. ASSUME NEW c \in Callers, NEW wish \in Wishes, CallBegins(c, wish) PROVE
  FileFollowsOverride'
  <2>1. /\ override' = override /\ saved' = saved /\ persistDue' = persistDue /\ up' = up
        /\ now' = now
    BY <1>12 DEF CallBegins, stateVars, quietVars, worldVars
  <2>q. QED BY <1>0, <2>1, FileCalm
<1>13. ASSUME NEW c \in Callers, RecordOverride(c) PROVE FileFollowsOverride'
  <2>1. th'[c].pc = "persist"
    <3>1. GoTo(c, "persist") /\ c \in Threads
      BY <1>13 DEF RecordOverride, Threads
    <3>q. QED BY <3>1, PlaceSet
  <2>2. up'
    BY <1>13 DEF RecordOverride, IsAt, quietVars
  <2>q. QED BY <2>1, <2>2 DEF IsAt, FileFollowsOverride
<1>14. ASSUME NEW c \in Callers, ForgetOverride(c) PROVE FileFollowsOverride'
  <2>1. th'[c].pc = "persist"
    <3>1. GoTo(c, "persist") /\ c \in Threads
      BY <1>14 DEF ForgetOverride, Threads
    <3>q. QED BY <3>1, PlaceSet
  <2>2. up'
    BY <1>14 DEF ForgetOverride, IsAt, quietVars
  <2>q. QED BY <2>1, <2>2 DEF IsAt, FileFollowsOverride
<1>15. ASSUME NEW c \in Callers, Persist(c) PROVE FileFollowsOverride'
  BY <1>15 DEF Persist, FileFollowsOverride
<1>16. ASSUME NEW c \in Callers, CallerDecided(c) PROVE FileFollowsOverride'
  <2>1. /\ override' = override /\ saved' = saved /\ persistDue' = persistDue /\ up' = up
        /\ now' = now
    BY <1>16 DEF CallerDecided, stateVars, quietVars, worldVars
  <2>q. QED BY <1>0, <2>1, FileCalm
<1>17. ASSUME Wake PROVE FileFollowsOverride'
  <2>1. /\ override' = override /\ saved' = saved /\ persistDue' = persistDue /\ up' = up
        /\ now' = now
    BY <1>17 DEF Wake, stateVars, quietVars, worldVars
  <2>q. QED BY <1>0, <2>1, FileCalm
<1>18. ASSUME SignalWakes PROVE FileFollowsOverride'
  <2>1. /\ override' = override /\ saved' = saved /\ persistDue' = persistDue /\ up' = up
        /\ now' = now
    BY <1>18 DEF SignalWakes, stateVars, quietVars, worldVars
  <2>q. QED BY <1>0, <2>1, FileCalm
<1>19. ASSUME ChangeWakes PROVE FileFollowsOverride'
  <2>1. /\ override' = override /\ saved' = saved /\ persistDue' = persistDue /\ up' = up
        /\ now' = now
    BY <1>19 DEF ChangeWakes, stateVars, quietVars, worldVars
  <2>q. QED BY <1>0, <2>1, FileCalm
<1>20. ASSUME SchedulerDecided PROVE FileFollowsOverride'
  <2>1. /\ override' = override /\ saved' = saved /\ persistDue' = persistDue /\ up' = up
        /\ now' = now
    BY <1>20 DEF SchedulerDecided, stateVars, quietVars, worldVars
  <2>q. QED BY <1>0, <2>1, FileCalm
<1>21. ASSUME Maintain PROVE FileFollowsOverride'
  <2>1. /\ override' = override /\ saved' = saved /\ persistDue' = persistDue /\ up' = up
        /\ now' = now
    BY <1>21 DEF Maintain, stateVars, quietVars, worldVars
  <2>q. QED BY <1>0, <2>1, FileCalm
<1>22. ASSUME PowerNeeded PROVE FileFollowsOverride'
  <2>1. /\ override' = override /\ saved' = saved /\ persistDue' = persistDue /\ up' = up
        /\ now' = now
    BY <1>22 DEF PowerNeeded, stateVars, quietVars, worldVars
  <2>q. QED BY <1>0, <2>1, FileCalm
<1>23. ASSUME BlankOrRestore PROVE FileFollowsOverride'
  <2>1. /\ override' = override /\ saved' = saved /\ persistDue' = persistDue /\ up' = up
        /\ now' = now
    BY <1>23 DEF BlankOrRestore, stateVars, quietVars, worldVars
  <2>q. QED BY <1>0, <2>1, FileCalm
<1>24. ASSUME Blanks PROVE FileFollowsOverride'
  <2>1. /\ override' = override /\ saved' = saved /\ persistDue' = persistDue /\ up' = up
        /\ now' = now
    BY <1>24 DEF Blanks, stateVars, quietVars, worldVars
  <2>q. QED BY <1>0, <2>1, FileCalm
<1>25. ASSUME BlankNoted PROVE FileFollowsOverride'
  <2>1. /\ override' = override /\ saved' = saved /\ persistDue' = persistDue /\ up' = up
        /\ now' = now
    BY <1>25 DEF BlankNoted, stateVars, quietVars, worldVars
  <2>q. QED BY <1>0, <2>1, FileCalm
<1>26. ASSUME SignalArrives PROVE FileFollowsOverride'
  <2>1. /\ override' = override /\ saved' = saved /\ persistDue' = persistDue /\ up' = up
        /\ now' = now
    BY <1>26 DEF SignalArrives, stateVars, quietVars, worldVars
  <2>q. QED BY <1>0, <2>1, FileCalm
<1>27. ASSUME ConfigSaved PROVE FileFollowsOverride'
  <2>1. /\ override' = override /\ saved' = saved /\ persistDue' = persistDue /\ up' = up
        /\ now' = now
    BY <1>27 DEF ConfigSaved, stateVars, quietVars, worldVars
  <2>q. QED BY <1>0, <2>1, FileCalm
<1>28. ASSUME MQTTTakesChange PROVE FileFollowsOverride'
  <2>1. /\ override' = override /\ saved' = saved /\ persistDue' = persistDue /\ up' = up
        /\ now' = now
    BY <1>28 DEF MQTTTakesChange, stateVars, quietVars, worldVars
  <2>q. QED BY <1>0, <2>1, FileCalm
<1>29. ASSUME BrowserStops PROVE FileFollowsOverride'
  <2>1. /\ override' = override /\ saved' = saved /\ persistDue' = persistDue /\ up' = up
        /\ now' = now
    BY <1>29 DEF BrowserStops, stateVars, quietVars, worldVars
  <2>q. QED BY <1>0, <2>1, FileCalm
<1>30. ASSUME BrowserStarts PROVE FileFollowsOverride'
  <2>1. /\ override' = override /\ saved' = saved /\ persistDue' = persistDue /\ up' = up
        /\ now' = now
    BY <1>30 DEF BrowserStarts, stateVars, quietVars, worldVars
  <2>q. QED BY <1>0, <2>1, FileCalm
<1>31. ASSUME PowerLost PROVE FileFollowsOverride'
  BY <1>31 DEF PowerLost, ServiceEnds, FileFollowsOverride
<1>32. ASSUME Boot PROVE FileFollowsOverride'
  <2>1. CASE saved.active /\ now > saved.until
    <3>1. override' = NoOverride /\ saved' = saved /\ now' = now
      BY <1>32, <2>1 DEF Boot
    <3>2. saved.until \in Int
      BY DEF ShapeInv, IsOverride
    <3>3. now' >= saved'.until
      BY <1>0, <2>1, <3>1, <3>2
    <3>4. ~override'.active
      BY <3>1 DEF NoOverride
    <3>q. QED BY <2>1, <3>1, <3>3, <3>4 DEF FileFollowsOverride
  <2>2. CASE ~(saved.active /\ now > saved.until)
    BY <1>32, <2>2 DEF Boot, FileFollowsOverride
  <2>q. QED BY <2>1, <2>2
<1>33. ASSUME PersistLater PROVE FileFollowsOverride'
  BY <1>33 DEF PersistLater, FileFollowsOverride
<1>34. ASSUME Tick PROVE FileFollowsOverride'
  <2>1. /\ override' = override /\ saved' = saved /\ persistDue' = persistDue /\ up' = up
        /\ now' = now + 1
    BY <1>34 DEF Tick, stateVars
  <2>q. QED BY <1>0, <2>1, FileCalm
<1>q. QED
  BY <1>1, <1>2, <1>3, <1>4, <1>5, <1>6, <1>7, <1>8, <1>9, <1>10, <1>11, <1>12, <1>13,
    <1>14, <1>15, <1>16, <1>17, <1>18, <1>19, <1>20, <1>21, <1>22, <1>23, <1>24,
    <1>25, <1>26, <1>27, <1>28, <1>29, <1>30, <1>31, <1>32, <1>33, <1>34, NextSteps

-----------------------------------------------------------------------------
(* Reloads at the configured time.                                         *)

\* The last reload counts the start of the browser.
LEMMA LastIs ==
  ASSUME ReloadInv
  PROVE /\ LastReload \in Int /\ LastReload \in {lastMaintenance, browser.started}
        /\ LastReload >= lastMaintenance /\ LastReload >= browser.started
        /\ lastMaintenance \in Int /\ browser.started \in Int
<1>1. lastMaintenance \in Int /\ browser.started \in Int
  BY DEF ReloadInv, Never
<1>q. QED BY <1>1, MaxOfTwo DEF LastReload

\* Neither what was reloaded nor what counts as the last reload goes back.
LEMMA ReloadCalm ==
  ASSUME ShapeInv, ReloadInv, OneReloadADay, reloads' = reloads, now' \in Nat, now' >= now,
         browser'.started \in {browser.started, now},
         \/ lastMaintenance' = lastMaintenance
         \/ lastMaintenance' \in 0..now /\ lastMaintenance' >= lastMaintenance,
         up' => up
  PROVE ReloadInv' /\ OneReloadADay'
<1>0. now \in Nat
  BY DEF ShapeInv
<1>1. /\ browser'.started \in 0..now' /\ lastMaintenance' \in {Never} \cup 0..now'
      /\ browser'.started >= browser.started /\ lastMaintenance' >= lastMaintenance
  BY <1>0 DEF ReloadInv, Never
<1>2. /\ browser'.started \in Int /\ lastMaintenance' \in Int
  BY <1>1, <1>0 DEF Never
<1>3. LastReload' = Max({lastMaintenance', browser'.started})
  BY DEF LastReload
<1>4. LastReload' >= LastReload /\ LastReload' \in Int
  <2> DEFINE m == lastMaintenance'
             b == browser'.started
  <2>1. m \in Int /\ b \in Int /\ LastReload' = Max({m, b})
    BY <1>2, <1>3
  <2>2. m >= lastMaintenance /\ b >= browser.started
    BY <1>1
  <2> HIDE DEF m, b
  <2>3. Max({m, b}) \in {m, b} /\ Max({m, b}) >= m /\ Max({m, b}) >= b
    BY <2>1, MaxOfTwo
  <2>q. QED BY <2>1, <2>2, <2>3, LastIs
<1>5. ASSUME NEW r \in reloads
      PROVE r[1] \in Int /\ r[1] <= now' /\ (up' => r[1] <= LastReload')
  <2>1. r[1] \in Int /\ r[1] <= now /\ (up => r[1] <= LastReload)
    BY DEF ReloadInv
  <2>2. r[1] <= now'
    BY <1>0, <2>1
  <2>3. r[1] <= LastReload => r[1] <= LastReload'
    BY <1>4, <2>1, LastIs
  <2>q. QED BY <2>1, <2>2, <2>3
<1>6. ReloadInv'
  BY <1>1, <1>5 DEF ReloadInv
<1>7. OneReloadADay'
  BY DEF OneReloadADay
<1>q. QED BY <1>6, <1>7

\* The moment a reload is due is a number.
LEMMA ReloadTimeIsInt ==
  ASSUME wake \in Nat, Maintenance \in Configs
  PROVE ReloadTime \in Int
<1>1. ASSUME NEW a \in Int, NEW b \in Int, NEW d \in Int PROVE a * b + d \in Int
  OBVIOUS
<1>2. wake \in Int /\ DayLen \in Nat \ {0}
  BY CalendarAssumption
<1>3. Day(wake) \in Int
  BY <1>2 DEF Day
<1>4. Maintenance.reloadAt \in Int
  BY ConfigsAssumption DEF Never
<1>q. QED BY <1>1, <1>2, <1>3, <1>4 DEF ReloadTime

\* No step reloads a second time for the same moment.
LEMMA ReloadsKept ==
  ASSUME ShapeInv, TypeOK, KnownInv, WakeInv, DatedInv, Next, ReloadInv, OneReloadADay
  PROVE ReloadInv' /\ OneReloadADay'
<1>0. now \in Nat /\ IsBrowser(browser)
  BY DEF ShapeInv, IsBrowser
<1>1. ASSUME NEW t \in Threads, TargetOverride(t) PROVE ReloadInv' /\ OneReloadADay'
  <2>1. browser' = browser
    BY <1>1 DEF TargetOverride
  <2>2. reloads' = reloads /\ lastMaintenance' = lastMaintenance
    BY <1>1 DEF TargetOverride, quietVars
  <2>3. up' => up
    BY <1>1 DEF TargetOverride, quietVars
  <2>4. now' = now
    BY <1>1 DEF TargetOverride, quietVars
  <2>q. QED BY <1>0, <2>1, <2>2, <2>3, <2>4, ReloadCalm
<1>2. ASSUME NEW t \in Threads, TargetBase(t) PROVE ReloadInv' /\ OneReloadADay'
  <2>1. browser' = browser
    BY <1>2 DEF TargetBase
  <2>2. reloads' = reloads /\ lastMaintenance' = lastMaintenance
    BY <1>2 DEF TargetBase, quietVars
  <2>3. up' => up
    BY <1>2 DEF TargetBase, quietVars
  <2>4. now' = now
    BY <1>2 DEF TargetBase, quietVars
  <2>q. QED BY <1>0, <2>1, <2>2, <2>3, <2>4, ReloadCalm
<1>3. ASSUME NEW t \in Threads, PanicsAtRotation(t) PROVE ReloadInv' /\ OneReloadADay'
  <2>1. browser' = browser
    BY <1>3 DEF PanicsAtRotation, ServiceEnds
  <2>2. reloads' = reloads /\ lastMaintenance' = lastMaintenance
    BY <1>3 DEF PanicsAtRotation, quietVars, ServiceEnds
  <2>3. up' => up
    BY <1>3 DEF PanicsAtRotation, quietVars, ServiceEnds
  <2>4. now' = now
    BY <1>3 DEF PanicsAtRotation, quietVars, ServiceEnds
  <2>q. QED BY <1>0, <2>1, <2>2, <2>3, <2>4, ReloadCalm
<1>4. ASSUME NEW t \in Threads, TargetRotation(t) PROVE ReloadInv' /\ OneReloadADay'
  <2>1. browser' = browser
    BY <1>4 DEF TargetRotation
  <2>2. reloads' = reloads /\ lastMaintenance' = lastMaintenance
    BY <1>4 DEF TargetRotation, quietVars
  <2>3. up' => up
    BY <1>4 DEF TargetRotation, quietVars
  <2>4. now' = now
    BY <1>4 DEF TargetRotation, quietVars
  <2>q. QED BY <1>0, <2>1, <2>2, <2>3, <2>4, ReloadCalm
<1>5. ASSUME NEW t \in Threads, TargetInserts(t) PROVE ReloadInv' /\ OneReloadADay'
  <2>1. browser' = browser
    BY <1>5 DEF TargetInserts
  <2>2. reloads' = reloads /\ lastMaintenance' = lastMaintenance
    BY <1>5 DEF TargetInserts, quietVars
  <2>3. up' => up
    BY <1>5 DEF TargetInserts, quietVars
  <2>4. now' = now
    BY <1>5 DEF TargetInserts, quietVars
  <2>q. QED BY <1>0, <2>1, <2>2, <2>3, <2>4, ReloadCalm
<1>6. ASSUME NEW t \in Threads, SwitchBegins(t) PROVE ReloadInv' /\ OneReloadADay'
  <2>0. browser' = browser \/ browser' = [browser EXCEPT !.active = Status(t).target]
    BY <1>6 DEF SwitchBegins
  <2>a. [browser EXCEPT !.active = Status(t).target].started = browser.started
    BY <1>0, BrowserParts, Zenon
  <2>1. browser'.started \in {browser.started, now}
    BY <2>0, <2>a
  <2>2. reloads' = reloads /\ lastMaintenance' = lastMaintenance
    BY <1>6 DEF SwitchBegins, quietVars, Proceed
  <2>3. up' => up
    BY <1>6 DEF SwitchBegins, quietVars, Proceed
  <2>4. now' = now
    BY <1>6 DEF SwitchBegins, quietVars, Proceed
  <2>q. QED BY <1>0, <2>1, <2>2, <2>3, <2>4, ReloadCalm
<1>7. ASSUME NEW t \in Threads, SwitchSucceeds(t) PROVE ReloadInv' /\ OneReloadADay'
  <2>1. browser'.started \in {browser.started, now}
    BY <1>0, <1>7, SwitchedBrowser
  <2>2. reloads' = reloads /\ lastMaintenance' = lastMaintenance
    BY <1>7 DEF SwitchSucceeds, quietVars, Proceed
  <2>3. up' => up
    BY <1>7 DEF SwitchSucceeds, quietVars, Proceed
  <2>4. now' = now
    BY <1>7 DEF SwitchSucceeds, quietVars, Proceed
  <2>q. QED BY <1>0, <2>1, <2>2, <2>3, <2>4, ReloadCalm
<1>8. ASSUME NEW t \in Threads, SwitchFails(t) PROVE ReloadInv' /\ OneReloadADay'
  <2>0. browser' = [browser EXCEPT !.running = FALSE]
    BY <1>8 DEF SwitchFails
  <2>a. [browser EXCEPT !.running = FALSE].started = browser.started
    BY <1>0, BrowserParts, Zenon
  <2>1. browser'.started \in {browser.started, now}
    BY <2>0, <2>a
  <2>2. reloads' = reloads /\ lastMaintenance' = lastMaintenance
    BY <1>8 DEF SwitchFails, quietVars, Proceed
  <2>3. up' => up
    BY <1>8 DEF SwitchFails, quietVars, Proceed
  <2>4. now' = now
    BY <1>8 DEF SwitchFails, quietVars, Proceed
  <2>q. QED BY <1>0, <2>1, <2>2, <2>3, <2>4, ReloadCalm
<1>9. ASSUME NEW t \in Threads, SwitchRefused(t) PROVE ReloadInv' /\ OneReloadADay'
  <2>1. browser' = browser
    BY <1>9 DEF SwitchRefused, Proceed
  <2>2. reloads' = reloads /\ lastMaintenance' = lastMaintenance
    BY <1>9 DEF SwitchRefused, quietVars, Proceed
  <2>3. up' => up
    BY <1>9 DEF SwitchRefused, quietVars, Proceed
  <2>4. now' = now
    BY <1>9 DEF SwitchRefused, quietVars, Proceed
  <2>q. QED BY <1>0, <2>1, <2>2, <2>3, <2>4, ReloadCalm
<1>10. ASSUME NEW t \in Threads, PanelSet(t) PROVE ReloadInv' /\ OneReloadADay'
  <2>1. browser' = browser
    BY <1>10 DEF PanelSet
  <2>2. reloads' = reloads /\ lastMaintenance' = lastMaintenance
    BY <1>10 DEF PanelSet, quietVars
  <2>3. up' => up
    BY <1>10 DEF PanelSet, quietVars
  <2>4. now' = now
    BY <1>10 DEF PanelSet, quietVars
  <2>q. QED BY <1>0, <2>1, <2>2, <2>3, <2>4, ReloadCalm
<1>11. ASSUME NEW t \in Threads, PanelNoted(t) PROVE ReloadInv' /\ OneReloadADay'
  <2>1. browser' = browser
    BY <1>11 DEF PanelNoted
  <2>2. reloads' = reloads /\ lastMaintenance' = lastMaintenance
    BY <1>11 DEF PanelNoted, quietVars
  <2>3. up' => up
    BY <1>11 DEF PanelNoted, quietVars
  <2>4. now' = now
    BY <1>11 DEF PanelNoted, quietVars
  <2>q. QED BY <1>0, <2>1, <2>2, <2>3, <2>4, ReloadCalm
<1>12. ASSUME NEW c \in Callers, NEW wish \in Wishes, CallBegins(c, wish) PROVE
  ReloadInv' /\ OneReloadADay'
  <2>1. browser' = browser
    BY <1>12 DEF CallBegins
  <2>2. reloads' = reloads /\ lastMaintenance' = lastMaintenance
    BY <1>12 DEF CallBegins, quietVars
  <2>3. up' => up
    BY <1>12 DEF CallBegins, quietVars
  <2>4. now' = now
    BY <1>12 DEF CallBegins, quietVars
  <2>q. QED BY <1>0, <2>1, <2>2, <2>3, <2>4, ReloadCalm
<1>13. ASSUME NEW c \in Callers, RecordOverride(c) PROVE ReloadInv' /\ OneReloadADay'
  <2>1. browser' = browser
    BY <1>13 DEF RecordOverride
  <2>2. reloads' = reloads /\ lastMaintenance' = lastMaintenance
    BY <1>13 DEF RecordOverride, quietVars
  <2>3. up' => up
    BY <1>13 DEF RecordOverride, quietVars
  <2>4. now' = now
    BY <1>13 DEF RecordOverride, quietVars
  <2>q. QED BY <1>0, <2>1, <2>2, <2>3, <2>4, ReloadCalm
<1>14. ASSUME NEW c \in Callers, ForgetOverride(c) PROVE ReloadInv' /\ OneReloadADay'
  <2>1. browser' = browser
    BY <1>14 DEF ForgetOverride
  <2>2. reloads' = reloads /\ lastMaintenance' = lastMaintenance
    BY <1>14 DEF ForgetOverride, quietVars
  <2>3. up' => up
    BY <1>14 DEF ForgetOverride, quietVars
  <2>4. now' = now
    BY <1>14 DEF ForgetOverride, quietVars
  <2>q. QED BY <1>0, <2>1, <2>2, <2>3, <2>4, ReloadCalm
<1>15. ASSUME NEW c \in Callers, Persist(c) PROVE ReloadInv' /\ OneReloadADay'
  <2>1. browser' = browser
    BY <1>15 DEF Persist
  <2>2. reloads' = reloads /\ lastMaintenance' = lastMaintenance
    BY <1>15 DEF Persist, quietVars
  <2>3. up' => up
    BY <1>15 DEF Persist, quietVars
  <2>4. now' = now
    BY <1>15 DEF Persist, quietVars
  <2>q. QED BY <1>0, <2>1, <2>2, <2>3, <2>4, ReloadCalm
<1>16. ASSUME NEW c \in Callers, CallerDecided(c) PROVE ReloadInv' /\ OneReloadADay'
  <2>1. browser' = browser
    BY <1>16 DEF CallerDecided
  <2>2. reloads' = reloads /\ lastMaintenance' = lastMaintenance
    BY <1>16 DEF CallerDecided, quietVars
  <2>3. up' => up
    BY <1>16 DEF CallerDecided, quietVars
  <2>4. now' = now
    BY <1>16 DEF CallerDecided, quietVars
  <2>q. QED BY <1>0, <2>1, <2>2, <2>3, <2>4, ReloadCalm
<1>17. ASSUME Wake PROVE ReloadInv' /\ OneReloadADay'
  <2>1. browser' = browser
    BY <1>17 DEF Wake
  <2>2. reloads' = reloads /\ lastMaintenance' = lastMaintenance
    BY <1>17 DEF Wake, quietVars
  <2>3. up' => up
    BY <1>17 DEF Wake, quietVars
  <2>4. now' = now
    BY <1>17 DEF Wake, quietVars
  <2>q. QED BY <1>0, <2>1, <2>2, <2>3, <2>4, ReloadCalm
<1>18. ASSUME SignalWakes PROVE ReloadInv' /\ OneReloadADay'
  <2>1. browser' = browser
    BY <1>18 DEF SignalWakes
  <2>2. reloads' = reloads /\ lastMaintenance' = lastMaintenance
    BY <1>18 DEF SignalWakes, quietVars
  <2>3. up' => up
    BY <1>18 DEF SignalWakes, quietVars
  <2>4. now' = now
    BY <1>18 DEF SignalWakes, quietVars
  <2>q. QED BY <1>0, <2>1, <2>2, <2>3, <2>4, ReloadCalm
<1>19. ASSUME ChangeWakes PROVE ReloadInv' /\ OneReloadADay'
  <2>1. browser' = browser
    BY <1>19 DEF ChangeWakes
  <2>2. reloads' = reloads /\ lastMaintenance' = lastMaintenance
    BY <1>19 DEF ChangeWakes, quietVars
  <2>3. up' => up
    BY <1>19 DEF ChangeWakes, quietVars
  <2>4. now' = now
    BY <1>19 DEF ChangeWakes, quietVars
  <2>q. QED BY <1>0, <2>1, <2>2, <2>3, <2>4, ReloadCalm
<1>20. ASSUME SchedulerDecided PROVE ReloadInv' /\ OneReloadADay'
  <2>1. browser' = browser
    BY <1>20 DEF SchedulerDecided
  <2>2. reloads' = reloads /\ lastMaintenance' = lastMaintenance
    BY <1>20 DEF SchedulerDecided, quietVars
  <2>3. up' => up
    BY <1>20 DEF SchedulerDecided, quietVars
  <2>4. now' = now
    BY <1>20 DEF SchedulerDecided, quietVars
  <2>q. QED BY <1>0, <2>1, <2>2, <2>3, <2>4, ReloadCalm
<1>21. ASSUME Maintain PROVE ReloadInv' /\ OneReloadADay'
  <2>1. browser' = browser /\ now' = now /\ up' = up
    BY <1>21 DEF Maintain
  <2>2. up /\ Me.pc = "maintain"
    BY <1>21 DEF Maintain, IsAt, Me
  <2>3. wake \in Nat /\ wake <= now /\ lastMaintenance <= wake
    BY <2>2 DEF TypeOK, WakeInv, DatedInv
  <2>4. CASE reloads' = reloads
    <3>1. lastMaintenance' \in {lastMaintenance, wake}
      BY <1>21 DEF Maintain
    <3>2. \/ lastMaintenance' = lastMaintenance
          \/ lastMaintenance' \in 0..now /\ lastMaintenance' >= lastMaintenance
      BY <1>0, <2>3, <3>1
    <3>q. QED BY <1>0, <2>1, <2>4, <3>2, ReloadCalm
  <2>5. CASE reloads' # reloads
    <3> DEFINE new == <<ReloadTime, Cardinality(reloads)>>
               m == lastMaintenance'
               b == browser.started
    <3>1. reloads' = reloads \cup {new} /\ ReloadAtDue /\ m = wake
      BY <1>21, <2>5 DEF Maintain
    <3>2. Maintenance \in Configs
      BY <2>2 DEF KnownInv, Maintenance, Me, Threads
    <3>3. /\ new[1] \in Int /\ new[1] <= wake /\ LastReload < new[1]
      BY <2>3, <3>1, <3>2, ReloadTimeIsInt DEF ReloadAtDue
    <3>4. \A r \in reloads : r[1] \in Int /\ r[1] <= now /\ r[1] <= LastReload
      BY <2>2 DEF ReloadInv
    <3>5. LastReload' = Max({m, b}) /\ browser'.started = b
      BY <2>1 DEF LastReload
    <3>6. b \in Int /\ b <= now /\ b >= 0
      BY <1>0 DEF ReloadInv
    <3> HIDE DEF new, m, b
    <3>7. LastReload' >= wake /\ LastReload' \in Int
      <4>1. m \in Int /\ b \in Int
        BY <2>3, <3>1, <3>6
      <4>2. Max({m, b}) \in {m, b} /\ Max({m, b}) >= m
        BY <4>1, MaxOfTwo
      <4>q. QED BY <2>3, <3>1, <3>5, <4>1, <4>2
    <3>8. \A r \in reloads : r[1] # new[1]
      BY <3>3, <3>4, LastIs
    <3>9. \A r \in reloads : r[1] <= LastReload'
      BY <2>3, <3>3, <3>4, <3>7, LastIs
    <3>10. new[1] <= now /\ new[1] <= LastReload'
      BY <1>0, <2>3, <3>3, <3>7
    <3>11. \A r \in reloads' : r[1] \in Int /\ r[1] <= now /\ r[1] <= LastReload'
      BY <3>1, <3>3, <3>4, <3>9, <3>10
    <3>12. browser'.started \in 0..now' /\ lastMaintenance' \in {Never} \cup 0..now'
      BY <1>0, <2>1, <2>3, <3>1, <3>5, <3>6 DEF m
    <3>13. ReloadInv'
      BY <2>1, <3>11, <3>12 DEF ReloadInv
    <3>14. OneReloadADay'
      BY <3>1, <3>8 DEF OneReloadADay
    <3>q. QED BY <3>13, <3>14
  <2>q. QED BY <2>4, <2>5
<1>22. ASSUME PowerNeeded PROVE ReloadInv' /\ OneReloadADay'
  <2>1. browser' = browser
    BY <1>22 DEF PowerNeeded
  <2>2. reloads' = reloads /\ lastMaintenance' = lastMaintenance
    BY <1>22 DEF PowerNeeded, quietVars
  <2>3. up' => up
    BY <1>22 DEF PowerNeeded, quietVars
  <2>4. now' = now
    BY <1>22 DEF PowerNeeded, quietVars
  <2>q. QED BY <1>0, <2>1, <2>2, <2>3, <2>4, ReloadCalm
<1>23. ASSUME BlankOrRestore PROVE ReloadInv' /\ OneReloadADay'
  <2>1. browser' = browser
    BY <1>23 DEF BlankOrRestore, Proceed
  <2>2. reloads' = reloads /\ lastMaintenance' = lastMaintenance
    BY <1>23 DEF BlankOrRestore, quietVars, Proceed
  <2>3. up' => up
    BY <1>23 DEF BlankOrRestore, quietVars, Proceed
  <2>4. now' = now
    BY <1>23 DEF BlankOrRestore, quietVars, Proceed
  <2>q. QED BY <1>0, <2>1, <2>2, <2>3, <2>4, ReloadCalm
<1>24. ASSUME Blanks PROVE ReloadInv' /\ OneReloadADay'
  <2>0. browser' = browser \/ browser' = [browser EXCEPT !.content = "blank"]
    BY <1>24 DEF Blanks
  <2>a. [browser EXCEPT !.content = "blank"].started = browser.started
    BY <1>0, BrowserParts, Zenon
  <2>1. browser'.started \in {browser.started, now}
    BY <2>0, <2>a
  <2>2. reloads' = reloads /\ lastMaintenance' = lastMaintenance
    BY <1>24 DEF Blanks, quietVars, Proceed
  <2>3. up' => up
    BY <1>24 DEF Blanks, quietVars, Proceed
  <2>4. now' = now
    BY <1>24 DEF Blanks, quietVars, Proceed
  <2>q. QED BY <1>0, <2>1, <2>2, <2>3, <2>4, ReloadCalm
<1>25. ASSUME BlankNoted PROVE ReloadInv' /\ OneReloadADay'
  <2>1. browser' = browser
    BY <1>25 DEF BlankNoted, Proceed
  <2>2. reloads' = reloads /\ lastMaintenance' = lastMaintenance
    BY <1>25 DEF BlankNoted, quietVars, Proceed
  <2>3. up' => up
    BY <1>25 DEF BlankNoted, quietVars, Proceed
  <2>4. now' = now
    BY <1>25 DEF BlankNoted, quietVars, Proceed
  <2>q. QED BY <1>0, <2>1, <2>2, <2>3, <2>4, ReloadCalm
<1>26. ASSUME SignalArrives PROVE ReloadInv' /\ OneReloadADay'
  <2>1. browser' = browser
    BY <1>26 DEF SignalArrives, ConditionChanges, NotePresence
  <2>2. reloads' = reloads /\ lastMaintenance' = lastMaintenance
    BY <1>26 DEF SignalArrives, quietVars, ConditionChanges, NotePresence
  <2>3. up' => up
    BY <1>26 DEF SignalArrives, quietVars, ConditionChanges, NotePresence
  <2>4. now' = now
    BY <1>26 DEF SignalArrives, quietVars, ConditionChanges, NotePresence
  <2>q. QED BY <1>0, <2>1, <2>2, <2>3, <2>4, ReloadCalm
<1>27. ASSUME ConfigSaved PROVE ReloadInv' /\ OneReloadADay'
  <2>1. browser' = browser
    BY <1>27 DEF ConfigSaved
  <2>2. reloads' = reloads /\ lastMaintenance' = lastMaintenance
    BY <1>27 DEF ConfigSaved, quietVars
  <2>3. up' => up
    BY <1>27 DEF ConfigSaved, quietVars
  <2>4. now' = now
    BY <1>27 DEF ConfigSaved, quietVars
  <2>q. QED BY <1>0, <2>1, <2>2, <2>3, <2>4, ReloadCalm
<1>28. ASSUME MQTTTakesChange PROVE ReloadInv' /\ OneReloadADay'
  <2>1. browser' = browser
    BY <1>28 DEF MQTTTakesChange
  <2>2. reloads' = reloads /\ lastMaintenance' = lastMaintenance
    BY <1>28 DEF MQTTTakesChange, quietVars
  <2>3. up' => up
    BY <1>28 DEF MQTTTakesChange, quietVars
  <2>4. now' = now
    BY <1>28 DEF MQTTTakesChange, quietVars
  <2>q. QED BY <1>0, <2>1, <2>2, <2>3, <2>4, ReloadCalm
<1>29. ASSUME BrowserStops PROVE ReloadInv' /\ OneReloadADay'
  <2>0. PICK held : browser' = [browser EXCEPT !.running = FALSE, !.held = held]
    BY <1>29 DEF BrowserStops
  <2> DEFINE p == [browser EXCEPT !.running = FALSE]
             q == [p EXCEPT !.held = held]
  <2>a. IsBrowser(p) /\ p.started = browser.started
    BY <1>0, BrowserParts, Zenon
  <2>b. browser' = q
    BY <2>0
  <2>c. q.started = p.started
    <3> HIDE DEF p
    <3>q. QED BY <2>a, BrowserParts, Zenon
  <2> HIDE DEF q
  <2>1. browser'.started \in {browser.started, now}
    BY <2>a, <2>b, <2>c
  <2>2. reloads' = reloads /\ lastMaintenance' = lastMaintenance
    BY <1>29 DEF BrowserStops, quietVars
  <2>3. up' => up
    BY <1>29 DEF BrowserStops, quietVars
  <2>4. now' = now
    BY <1>29 DEF BrowserStops, quietVars
  <2>q. QED BY <1>0, <2>1, <2>2, <2>3, <2>4, ReloadCalm
<1>30. ASSUME BrowserStarts PROVE ReloadInv' /\ OneReloadADay'
  <2>1. browser'.started \in {browser.started, now}
    BY <1>0, <1>30, StartedBrowser
  <2>2. reloads' = reloads /\ lastMaintenance' = lastMaintenance
    BY <1>30 DEF BrowserStarts, quietVars
  <2>3. up' => up
    BY <1>30 DEF BrowserStarts, quietVars
  <2>4. now' = now
    BY <1>30 DEF BrowserStarts, quietVars
  <2>q. QED BY <1>0, <2>1, <2>2, <2>3, <2>4, ReloadCalm
<1>31. ASSUME PowerLost PROVE ReloadInv' /\ OneReloadADay'
  <2>1. browser' = browser
    BY <1>31 DEF PowerLost, ServiceEnds
  <2>2. reloads' = reloads /\ lastMaintenance' = lastMaintenance
    BY <1>31 DEF PowerLost, quietVars, ServiceEnds
  <2>3. up' => up
    BY <1>31 DEF PowerLost, quietVars, ServiceEnds
  <2>4. now' = now
    BY <1>31 DEF PowerLost, quietVars, ServiceEnds
  <2>q. QED BY <1>0, <2>1, <2>2, <2>3, <2>4, ReloadCalm
<1>32. ASSUME Boot PROVE ReloadInv' /\ OneReloadADay'
  <2>1. /\ browser'.started = now /\ lastMaintenance' = Never /\ reloads' = reloads /\ now' = now
    BY <1>32 DEF Boot
  <2>2. LastReload' = Max({Never, now})
    BY <2>1 DEF LastReload
  <2>3. LastReload' >= now /\ LastReload' \in {Never, now}
    BY <1>0, <2>2, MaxOfTwo DEF Never
  <2>4. LastReload' = now
    BY <1>0, <2>3 DEF Never
  <2>5. browser'.started \in 0..now' /\ lastMaintenance' \in {Never} \cup 0..now'
    BY <1>0, <2>1
  <2>6. \A r \in reloads : r[1] \in Int /\ r[1] <= now
    BY DEF ReloadInv
  <2>7. ReloadInv'
    BY <2>1, <2>4, <2>5, <2>6 DEF ReloadInv
  <2>q. QED BY <2>1, <2>7 DEF OneReloadADay
<1>33. ASSUME PersistLater PROVE ReloadInv' /\ OneReloadADay'
  <2>1. browser' = browser
    BY <1>33 DEF PersistLater
  <2>2. reloads' = reloads /\ lastMaintenance' = lastMaintenance
    BY <1>33 DEF PersistLater, quietVars
  <2>3. up' => up
    BY <1>33 DEF PersistLater, quietVars
  <2>4. now' = now
    BY <1>33 DEF PersistLater, quietVars
  <2>q. QED BY <1>0, <2>1, <2>2, <2>3, <2>4, ReloadCalm
<1>34. ASSUME Tick PROVE ReloadInv' /\ OneReloadADay'
  <2>1. /\ reloads' = reloads /\ lastMaintenance' = lastMaintenance /\ browser' = browser
        /\ up' = up /\ now' = now + 1
    BY <1>34 DEF Tick
  <2>2. now' \in Nat /\ now' >= now
    BY <1>0, <2>1
  <2>q. QED BY <2>1, <2>2, ReloadCalm
<1>q. QED
  BY <1>1, <1>2, <1>3, <1>4, <1>5, <1>6, <1>7, <1>8, <1>9, <1>10, <1>11, <1>12, <1>13,
    <1>14, <1>15, <1>16, <1>17, <1>18, <1>19, <1>20, <1>21, <1>22, <1>23, <1>24,
    <1>25, <1>26, <1>27, <1>28, <1>29, <1>30, <1>31, <1>32, <1>33, <1>34, NextSteps

-----------------------------------------------------------------------------
(* A round that nobody disturbs.                                           *)

\* How far the thread me has got, with the programme k and the override o.
Sound(me, k, o, active, running, noted, blanked) ==
  /\ me.round = k
  /\ me.pc \in Deciding => ~o.active /\ SameProgram(me.snap, k)
  /\ me.pc \in Decided /\ o.active => me.status.target = o.page
  /\ me.pc \in Shown \cup {"navigating"} =>
       (me.status.target \in 1..k.pages => active = me.status.target)
  /\ me.pc \in {"setting", "noting"} => me.wish.power = Power(k, me.status)
  /\ \/ me.pc \in {"blank", "blanking", "blanked", "sleep"}
     \/ me.pc \in {"gate", "navigating"} /\ me.after = "sleep"
     => noted = Power(k, me.status)
  /\ me.pc \in {"blanking", "blanked"} => Power(k, me.status) = "OFF"
  /\ me.pc \in {"gate", "navigating"} /\ me.after = "sleep" =>
       ~blanked /\ Power(k, me.status) = "ON"
  /\ me.pc = "sleep" /\ running => (blanked <=> Power(k, me.status) = "OFF")

SoundNow == Sound(Me, cfg, override, browser.active, browser.running, display.noted,
                  display.blanked)

LEMMA WantedIsPower ==
  /\ \A k : Wanted(k) = Power(k, Me.status)
  /\ Wanted(cfg)' = Power(cfg', Me'.status)
BY DEF Wanted, Power, Me, Status, WantsOff

LEMMA RoundIsSound ==
  /\ RoundInv <=> (undisturbed => up /\ SoundNow)
  /\ RoundInv' <=> (undisturbed' => up' /\ SoundNow')
<1>1. Wanted(cfg) = Power(cfg, Me.status) /\ Wanted(cfg)' = Power(cfg', Me'.status)
  BY WantedIsPower
<1>2. RoundInv <=> (undisturbed => up /\ SoundNow)
  BY <1>1 DEF RoundInv, SoundNow, Sound, Restores
<1>3. RoundInv' <=> (undisturbed' => up' /\ SoundNow')
  BY <1>1 DEF RoundInv, SoundNow, Sound, Restores
<1>q. QED BY <1>2, <1>3

\* The end of an override and a browser that stops leave a round sound.
LEMMA StaysSound ==
  ASSUME SoundNow, Me' = Me, cfg' = cfg, override' = override \/ ~override'.active,
         browser'.active = browser.active, browser'.running => browser.running,
         display'.noted = display.noted, display'.blanked = display.blanked
  PROVE SoundNow'
BY DEF SoundNow, Sound

\* The steps of the scheduler in a round: where it is, with what decision.
LEMMA MyPlace ==
  ASSUME ShapeInv, NEW p, GoTo("scheduler", p)
  PROVE /\ Me'.pc = p /\ Me'.after = Me.after /\ Me'.wish = Me.wish
        /\ Me'.snap = Me.snap /\ Me'.round = Me.round /\ Me'.status = Me.status
BY PlaceSet DEF Me, Threads

\* What the steps of the others leave alone.
OthersCalm ==
  /\ Me' = Me
  /\ undisturbed' =>
       /\ undisturbed /\ (up => up') /\ cfg' = cfg
       /\ override' = override \/ ~override'.active
       /\ browser'.active = browser.active /\ (browser'.running => browser.running)
       /\ display'.noted = display.noted /\ display'.blanked = display.blanked

LEMMA CalmKeeps ==
  ASSUME AfterInv, RoundInv, OthersCalm
  PROVE AfterInv' /\ RoundInv'
<1>1. AfterInv'
  BY DEF OthersCalm, AfterInv
<1>2. ASSUME undisturbed' PROVE up' /\ SoundNow'
  <2>1. up /\ SoundNow
    BY <1>2, RoundIsSound DEF OthersCalm
  <2>q. QED BY <1>2, <2>1, StaysSound DEF OthersCalm
<1>q. QED BY <1>1, <1>2, RoundIsSound

\* Another thread's step leaves the scheduler where it is.
LEMMA NotMe ==
  ASSUME NEW t \in Threads, t # "scheduler", Alone(t, th'[t])
  PROVE Me' = Me
BY DEF Alone, Me, Threads

\* A scheduler that is past a step of its own.
LEMMA MineKeeps ==
  ASSUME AfterInv', undisturbed' => up' /\ SoundNow'
  PROVE AfterInv' /\ RoundInv'
BY RoundIsSound

\* The override decides, or the programme of now will.
LEMMA MyOverrideEnds ==
  ASSUME ShapeInv, AfterInv, RoundInv, TargetOverride("scheduler")
  PROVE AfterInv' /\ RoundInv'
<1>f. /\ cfg' = cfg /\ up' = up /\ undisturbed' = undisturbed
      /\ browser' = browser /\ display' = display
  BY DEF TargetOverride, worldVars, stateVars, quietVars
<1>0. "scheduler" \in Threads /\ SameProgram(InsertsWhere(cfg), cfg)
  BY InsertsOnly DEF Threads, ShapeInv
<1>1. /\ Me.pc = "override" /\ Me'.after = Me.after /\ Me'.round = Me.round
      /\ IF override'.active
         THEN /\ Me'.pc = "decided" /\ Me'.status.reason = "override"
              /\ Me'.status.target = override'.page
         ELSE Me'.pc = "base" /\ Me'.snap = InsertsWhere(cfg)
  BY <1>0, OverrideStep DEF Me
<1>2. AfterInv'
  BY <1>1 DEF AfterInv, Deciding
<1>3. ASSUME undisturbed PROVE up /\ SoundNow'
  <2>1. up /\ SoundNow
    BY <1>3, RoundIsSound
  <2>q. QED BY <1>0, <1>1, <1>f, <2>1 DEF SoundNow, Sound, Deciding, Decided, Shown
<1>q. QED BY <1>2, <1>3, <1>f, MineKeeps

\* The programme is looked at.
LEMMA MyBase ==
  ASSUME ShapeInv, AfterInv, RoundInv, TargetBase("scheduler")
  PROVE AfterInv' /\ RoundInv'
<1>f. /\ cfg' = cfg /\ up' = up /\ undisturbed' = undisturbed
      /\ browser' = browser /\ display' = display /\ override' = override
  BY DEF TargetBase, worldVars, stateVars, quietVars
<1>1. /\ Me.pc = "base" /\ Me'.pc \in {"extend", "inserts"}
      /\ Me'.after = Me.after /\ Me'.snap = Me.snap /\ Me'.round = Me.round
  BY BaseStep DEF Me, Threads
<1>2. AfterInv'
  BY <1>1 DEF AfterInv, Deciding
<1>3. ASSUME undisturbed PROVE up /\ SoundNow'
  <2>1. up /\ SoundNow
    BY <1>3, RoundIsSound
  <2>q. QED BY <1>1, <1>f, <2>1 DEF SoundNow, Sound, Deciding, Decided, Shown
<1>q. QED BY <1>2, <1>3, <1>f, MineKeeps

\* The rotation gives the page.
LEMMA MyRotation ==
  ASSUME ShapeInv, AfterInv, RoundInv, TargetRotation("scheduler")
  PROVE AfterInv' /\ RoundInv'
<1>f. /\ cfg' = cfg /\ up' = up /\ undisturbed' = undisturbed
      /\ browser' = browser /\ display' = display /\ override' = override
  BY DEF TargetRotation, worldVars, stateVars, quietVars
<1>1. /\ Me.pc = "extend" /\ Me'.pc \in {"inserts"}
      /\ Me'.after = Me.after /\ Me'.snap = Me.snap /\ Me'.round = Me.round
  BY RotationStep DEF Me, Threads
<1>2. AfterInv'
  BY <1>1 DEF AfterInv, Deciding
<1>3. ASSUME undisturbed PROVE up /\ SoundNow'
  <2>1. up /\ SoundNow
    BY <1>3, RoundIsSound
  <2>q. QED BY <1>1, <1>f, <2>1 DEF SoundNow, Sound, Deciding, Decided, Shown
<1>q. QED BY <1>2, <1>3, <1>f, MineKeeps

\* An insert, or the page to return to, takes its place.
LEMMA MyInserts ==
  ASSUME ShapeInv, AfterInv, RoundInv, TargetInserts("scheduler")
  PROVE AfterInv' /\ RoundInv'
<1>f. /\ cfg' = cfg /\ up' = up /\ undisturbed' = undisturbed
      /\ browser' = browser /\ display' = display /\ override' = override
  BY DEF TargetInserts, worldVars, stateVars, quietVars
<1>1. /\ Me.pc = "inserts" /\ Me'.pc \in {"decided"}
      /\ Me'.after = Me.after /\ Me'.snap = Me.snap /\ Me'.round = Me.round
  BY InsertsStep DEF Me, Threads
<1>2. AfterInv'
  BY <1>1 DEF AfterInv, Deciding
<1>3. ASSUME undisturbed PROVE up /\ SoundNow'
  <2>1. up /\ SoundNow
    BY <1>3, RoundIsSound
  <2>q. QED BY <1>1, <1>f, <2>1 DEF SoundNow, Sound, Deciding, Decided, Shown
<1>q. QED BY <1>2, <1>3, <1>f, MineKeeps

\* The page decided is the active one while it is shown.
LEMMA MySwitchBegins ==
  ASSUME ShapeInv, AfterInv, RoundInv, SwitchBegins("scheduler")
  PROVE AfterInv' /\ RoundInv'
<1>f. /\ cfg' = cfg /\ up' = up /\ display' = display
      /\ override' = override
  BY DEF SwitchBegins, worldVars, stateVars, quietVars
<1>1. /\ Me.pc = "gate" /\ undisturbed' = (undisturbed /\ "scheduler" = "scheduler")
      /\ browser'.running = browser.running
  BY BrowserParts DEF SwitchBegins, IsAt, Me, Disturbs, ShapeInv, IsBrowser
<1>2. \/ /\ Me.status.target \in 1..cfg.pages /\ GoTo("scheduler", "navigating")
         /\ browser' = [browser EXCEPT !.active = Me.status.target]
      \/ /\ Me.status.target \notin 1..cfg.pages /\ GoTo("scheduler", Me.after)
         /\ browser' = browser
  BY DEF SwitchBegins, Proceed, AfterFailure, Status, Me
<1>3. CASE Me.status.target \in 1..cfg.pages
  <2>1. browser'.active = Me.status.target
    BY <1>2, <1>3 DEF ShapeInv
  <2>2. /\ Me'.pc = "navigating" /\ Me'.after = Me.after /\ Me'.snap = Me.snap /\ Me'.round = Me.round
        /\ Me'.status = Me.status
    BY <1>2, <1>3, MyPlace
  <2>3. AfterInv'
    BY <1>1, <2>2 DEF AfterInv, Deciding
  <2>4. ASSUME undisturbed PROVE up /\ SoundNow'
    <3>1. up /\ SoundNow
      BY <2>4, RoundIsSound
    <3>q. QED BY <1>1, <1>f, <2>1, <2>2, <3>1 DEF SoundNow, Sound, Deciding, Decided, Shown
  <2>q. QED BY <1>1, <1>f, <2>3, <2>4, MineKeeps
<1>4. CASE Me.status.target \notin 1..cfg.pages
  <2>1. browser' = browser /\ Me.after \in {"maintain", "sleep"}
    BY <1>1, <1>2, <1>4 DEF AfterInv
  <2>2. /\ Me'.pc = Me.after /\ Me'.after = Me.after /\ Me'.snap = Me.snap /\ Me'.round = Me.round
        /\ Me'.status = Me.status
    BY <1>2, <1>4, MyPlace
  <2>3. AfterInv'
    BY <2>1, <2>2 DEF AfterInv, Deciding
  <2>4. ASSUME undisturbed PROVE up /\ SoundNow'
    <3>1. up /\ SoundNow
      BY <2>4, RoundIsSound
    <3>2. CASE Me.after = "maintain"
      BY <1>1, <1>4, <1>f, <2>1, <2>2, <3>1, <3>2 DEF SoundNow, Sound, Deciding, Decided, Shown
    <3>3. CASE Me.after = "sleep"
      BY <1>1, <1>4, <1>f, <2>1, <2>2, <3>1, <3>3 DEF SoundNow, Sound, Deciding, Decided, Shown
    <3>q. QED BY <2>1, <3>2, <3>3
  <2>q. QED BY <1>1, <1>f, <2>3, <2>4, MineKeeps
<1>q. QED BY <1>3, <1>4

\* The page is shown.
LEMMA MySwitchSucceeds ==
  ASSUME ShapeInv, AfterInv, RoundInv, SwitchSucceeds("scheduler")
  PROVE AfterInv' /\ RoundInv'
<1>f. /\ cfg' = cfg /\ up' = up /\ display' = display
      /\ override' = override
  BY DEF SwitchSucceeds, worldVars, stateVars, quietVars
<1>1. /\ Me.pc = "navigating" /\ undisturbed' = (undisturbed /\ "scheduler" = "scheduler")
      /\ browser'.active = browser.active
  BY SwitchedBrowser DEF SwitchSucceeds, IsAt, Me, Disturbs, ShapeInv, IsBrowser, Threads
<1>2. GoTo("scheduler", Me.after) /\ Me.after \in {"maintain", "sleep"}
  BY <1>1 DEF SwitchSucceeds, Proceed, Me, AfterInv
<1>3. /\ Me'.pc = Me.after /\ Me'.after = Me.after /\ Me'.snap = Me.snap /\ Me'.round = Me.round
      /\ Me'.status = Me.status
  BY <1>2, MyPlace
<1>4. AfterInv'
  BY <1>2, <1>3 DEF AfterInv, Deciding
<1>5. ASSUME undisturbed PROVE up /\ SoundNow'
  <2>1. up /\ SoundNow
    BY <1>5, RoundIsSound
  <2>2. CASE Me.after = "maintain"
    BY <1>1, <1>f, <1>3, <2>1, <2>2 DEF SoundNow, Sound, Deciding, Decided, Shown
  <2>3. CASE Me.after = "sleep"
    BY <1>1, <1>f, <1>3, <2>1, <2>3 DEF SoundNow, Sound, Deciding, Decided, Shown
  <2>q. QED BY <1>2, <2>2, <2>3
<1>q. QED BY <1>1, <1>f, <1>4, <1>5, MineKeeps

\* A page that cannot be shown ends the undisturbed round.
LEMMA MySwitchFails ==
  ASSUME ShapeInv, AfterInv, RoundInv, SwitchFails("scheduler")
  PROVE AfterInv' /\ RoundInv'
<1>1. Me.pc = "navigating" /\ undisturbed' = FALSE
  BY DEF SwitchFails, IsAt, Me
<1>2. GoTo("scheduler", Me.after) /\ Me.after \in {"maintain", "sleep"}
  BY <1>1 DEF SwitchFails, Proceed, AfterFailure, Me, AfterInv
<1>3. Me'.pc = Me.after
  BY <1>2, MyPlace
<1>4. AfterInv'
  BY <1>2, <1>3 DEF AfterInv, Deciding
<1>q. QED BY <1>1, <1>4, MineKeeps

\* So does a switch that is refused.
LEMMA MySwitchRefused ==
  ASSUME ShapeInv, AfterInv, RoundInv, SwitchRefused("scheduler")
  PROVE AfterInv' /\ RoundInv'
<1>1. Me.pc = "gate" /\ undisturbed' = FALSE
  BY DEF SwitchRefused, IsAt, Me
<1>2. GoTo("scheduler", Me.after) /\ Me.after \in {"maintain", "sleep"}
  BY <1>1 DEF SwitchRefused, Proceed, AfterFailure, Me, AfterInv
<1>3. Me'.pc = Me.after
  BY <1>2, MyPlace
<1>4. AfterInv'
  BY <1>2, <1>3 DEF AfterInv, Deciding
<1>q. QED BY <1>1, <1>4, MineKeeps

\* The panel is set to what is wanted.
LEMMA MyPanelSet ==
  ASSUME ShapeInv, AfterInv, RoundInv, PanelSet("scheduler")
  PROVE AfterInv' /\ RoundInv'
<1>f. /\ cfg' = cfg /\ up' = up /\ browser' = browser
      /\ override' = override
  BY DEF PanelSet, worldVars, stateVars, quietVars
<1>1. Me.pc = "setting" /\ Me.after = "blank"
  BY DEF PanelSet, IsAt, Me, AfterInv
<1>2. CASE GoTo("scheduler", "noting") /\ Disturbs("scheduler")
           /\ display' = [display EXCEPT !.panel = Me.wish.power]
  <2>1. /\ Me'.pc = "noting" /\ Me'.after = Me.after /\ Me'.snap = Me.snap /\ Me'.round = Me.round
        /\ Me'.status = Me.status /\ Me'.wish = Me.wish
    BY <1>2, MyPlace
  <2>2. display'.noted = display.noted /\ display'.blanked = display.blanked
    BY <1>2 DEF ShapeInv
  <2>3. AfterInv'
    BY <1>1, <2>1 DEF AfterInv, Deciding
  <2>4. ASSUME undisturbed PROVE up /\ SoundNow'
    <3>1. up /\ SoundNow
      BY <2>4, RoundIsSound
    <3>q. QED BY <1>1, <1>f, <2>1, <2>2, <3>1 DEF SoundNow, Sound, Deciding, Decided, Shown
  <2>q. QED BY <1>2, <1>f, <2>3, <2>4, MineKeeps DEF Disturbs
<1>3. CASE GoTo("scheduler", Me.after) /\ undisturbed' = FALSE
  <2>1. Me'.pc = "blank"
    BY <1>1, <1>3, MyPlace
  <2>2. AfterInv'
    BY <2>1 DEF AfterInv, Deciding
  <2>q. QED BY <1>3, <2>2, MineKeeps
<1>q. QED BY <1>2, <1>3 DEF PanelSet, Me

\* What is wanted is noted.
LEMMA MyPanelNoted ==
  ASSUME ShapeInv, AfterInv, RoundInv, PanelNoted("scheduler")
  PROVE AfterInv' /\ RoundInv'
<1>f. /\ cfg' = cfg /\ up' = up /\ browser' = browser
      /\ override' = override
  BY DEF PanelNoted, worldVars, stateVars, quietVars
<1>1. Me.pc = "noting" /\ Me.after = "blank"
  BY DEF PanelNoted, IsAt, Me, AfterInv
<1>2. /\ GoTo("scheduler", Me.after) /\ Disturbs("scheduler")
      /\ display' = [display EXCEPT !.noted = Me.wish.power]
  BY DEF PanelNoted, Me
<1>3. /\ Me'.pc = "blank" /\ Me'.snap = Me.snap /\ Me'.round = Me.round /\ Me'.status = Me.status
  BY <1>1, <1>2, MyPlace
<1>4. display'.noted = Me.wish.power
  BY <1>2 DEF ShapeInv
<1>5. AfterInv'
  BY <1>3 DEF AfterInv, Deciding
<1>6. ASSUME undisturbed PROVE up /\ SoundNow'
  <2>1. up /\ SoundNow
    BY <1>6, RoundIsSound
  <2>q. QED BY <1>1, <1>f, <1>3, <1>4, <2>1 DEF SoundNow, Sound, Deciding, Decided, Shown
<1>q. QED BY <1>2, <1>f, <1>5, <1>6, MineKeeps DEF Disturbs

\* A round begins.
LEMMA MyWake ==
  ASSUME ShapeInv, AfterInv, RoundInv, Wake, th' # th
  PROVE AfterInv' /\ RoundInv'
<1>f. /\ cfg' = cfg /\ up' = up /\ browser' = browser
      /\ display' = display /\ override' = override
  BY DEF Wake, worldVars, stateVars, quietVars
<1>1. Me'.pc = "override" /\ Me'.after = "maintain" /\ Me'.round = cfg /\ up
  BY WakeStep DEF Wake, IsAt
<1>2. AfterInv'
  BY <1>1 DEF AfterInv, Deciding
<1>3. SoundNow'
  BY <1>1, <1>f DEF SoundNow, Sound, Deciding, Decided, Shown
<1>q. QED BY <1>1, <1>f, <1>2, <1>3, MineKeeps

\* The page decided is active already, or the switch to it begins.
LEMMA MyDecision ==
  ASSUME ShapeInv, AfterInv, RoundInv, SchedulerDecided
  PROVE AfterInv' /\ RoundInv'
<1>f. /\ cfg' = cfg /\ up' = up /\ undisturbed' = undisturbed
      /\ browser' = browser /\ display' = display /\ override' = override
  BY DEF SchedulerDecided, worldVars, stateVars, quietVars
<1>1. Me.pc = "decided" /\ Me.after = "maintain"
  BY DEF SchedulerDecided, IsAt, Me, AfterInv
<1>2. \/ Me.status.target \in {NoPage, browser.active} /\ GoTo("scheduler", "maintain")
      \/ GoTo("scheduler", "gate")
  BY DEF SchedulerDecided, Status, Me
<1>3. CASE Me.status.target \in {NoPage, browser.active} /\ GoTo("scheduler", "maintain")
  <2>1. /\ Me'.pc = "maintain" /\ Me'.snap = Me.snap /\ Me'.round = Me.round /\ Me'.status = Me.status
    BY <1>3, MyPlace
  <2>2. AfterInv'
    BY <2>1 DEF AfterInv, Deciding
  <2>3. Me.status.target \in 1..cfg.pages => browser.active = Me.status.target
    BY <1>3 DEF NoPage
  <2>4. ASSUME undisturbed PROVE up /\ SoundNow'
    <3>1. up /\ SoundNow
      BY <2>4, RoundIsSound
    <3>q. QED BY <1>1, <1>f, <2>1, <2>3, <3>1 DEF SoundNow, Sound, Deciding, Decided, Shown
  <2>q. QED BY <1>f, <2>2, <2>4, MineKeeps
<1>4. CASE GoTo("scheduler", "gate")
  <2>1. /\ Me'.pc = "gate" /\ Me'.after = "maintain" /\ Me'.snap = Me.snap /\ Me'.round = Me.round
        /\ Me'.status = Me.status
    BY <1>1, <1>4, MyPlace
  <2>2. AfterInv'
    BY <2>1 DEF AfterInv, Deciding
  <2>3. ASSUME undisturbed PROVE up /\ SoundNow'
    <3>1. up /\ SoundNow
      BY <2>3, RoundIsSound
    <3>q. QED BY <1>1, <1>f, <2>1, <3>1 DEF SoundNow, Sound, Deciding, Decided, Shown
  <2>q. QED BY <1>f, <2>2, <2>3, MineKeeps
<1>q. QED BY <1>2, <1>3, <1>4

\* A reload changes nothing of the round.
LEMMA MyMaintenance ==
  ASSUME ShapeInv, AfterInv, RoundInv, Maintain
  PROVE AfterInv' /\ RoundInv'
<1>f. /\ cfg' = cfg /\ up' = up /\ undisturbed' = undisturbed
      /\ browser' = browser /\ display' = display /\ override' = override
  BY DEF Maintain, worldVars, stateVars, quietVars
<1>1. Me.pc = "maintain" /\ GoTo("scheduler", "power")
  BY DEF Maintain, IsAt, Me
<1>2. /\ Me'.pc = "power" /\ Me'.snap = Me.snap /\ Me'.round = Me.round /\ Me'.status = Me.status
  BY <1>1, MyPlace
<1>3. AfterInv'
  BY <1>2 DEF AfterInv, Deciding
<1>4. ASSUME undisturbed PROVE up /\ SoundNow'
  <2>1. up /\ SoundNow
    BY <1>4, RoundIsSound
  <2>q. QED BY <1>1, <1>f, <1>2, <2>1 DEF SoundNow, Sound, Deciding, Decided, Shown
<1>q. QED BY <1>f, <1>3, <1>4, MineKeeps

\* The display is as wanted, or is set.
LEMMA MyPower ==
  ASSUME ShapeInv, AfterInv, RoundInv, PowerNeeded
  PROVE AfterInv' /\ RoundInv'
<1>f. /\ cfg' = cfg /\ up' = up /\ undisturbed' = undisturbed
      /\ browser' = browser /\ display' = display /\ override' = override
  BY DEF PowerNeeded, worldVars, stateVars, quietVars
<1>1. /\ Me.pc = "power" /\ Me'.status = Me.status /\ Me'.snap = Me.snap /\ Me'.round = Me.round
      /\ \/ display.noted = Wanted(cfg) /\ Me'.pc = "blank"
         \/ Me'.pc = "setting" /\ Me'.after = "blank" /\ Me'.wish.power = Wanted(cfg)
  BY PowerStep
<1>2. Wanted(cfg) = Power(cfg, Me.status)
  BY WantedIsPower
<1>3. AfterInv'
  BY <1>1 DEF AfterInv, Deciding
<1>4. ASSUME undisturbed PROVE up /\ SoundNow'
  <2>1. up /\ SoundNow
    BY <1>4, RoundIsSound
  <2>2. CASE display.noted = Wanted(cfg) /\ Me'.pc = "blank"
    BY <1>1, <1>2, <1>f, <2>1, <2>2 DEF SoundNow, Sound, Deciding, Decided, Shown
  <2>3. CASE Me'.pc = "setting" /\ Me'.wish.power = Wanted(cfg)
    BY <1>1, <1>2, <1>f, <2>1, <2>3 DEF SoundNow, Sound, Deciding, Decided, Shown
  <2>q. QED BY <1>1, <2>2, <2>3
<1>q. QED BY <1>f, <1>3, <1>4, MineKeeps

\* The idle display is blanked, the page comes back, or nothing is to be done.
LEMMA MyBlank ==
  ASSUME ShapeInv, AfterInv, RoundInv, BlankOrRestore
  PROVE AfterInv' /\ RoundInv'
<1>f. /\ cfg' = cfg /\ up' = up /\ undisturbed' = undisturbed
      /\ browser' = browser /\ override' = override
  BY DEF BlankOrRestore, worldVars, stateVars, quietVars
<1> DEFINE on == /\ Wanted(Me.round) = "OFF" /\ Me'.pc = "blanking" /\ display' = display
                 /\ Me'.status = Me.status
           back == /\ Wanted(Me.round) # "OFF" /\ Me'.pc = "gate" /\ Me'.after = "sleep"
                   /\ display' = [display EXCEPT !.blanked = FALSE]
                   /\ Me'.status.reason = Me.status.reason
                   /\ Me'.status.presence = Me.status.presence
                   /\ Me.status.target = NoPage \/ Me'.status.target = Me.status.target
           done == /\ display.blanked <=> Wanted(Me.round) = "OFF"
                   /\ Me'.pc = "sleep" /\ display' = display /\ Me'.status = Me.status
<1>1. Me.pc = "blank" /\ Me'.snap = Me.snap /\ Me'.round = Me.round
  BY BlankStep
<1>2. on \/ back \/ done
  BY BlankStep DEF Keeps, Me
<1>3. Wanted(Me.round) = Power(Me.round, Me.status)
  BY WantedIsPower
<1>4. AfterInv'
  <2>1. CASE Me'.pc \in {"blanking", "sleep"}
    BY <2>1 DEF AfterInv, Deciding
  <2>2. CASE Me'.pc = "gate" /\ Me'.after = "sleep"
    BY <2>2 DEF AfterInv, Deciding
  <2>q. QED BY <1>2, <2>1, <2>2
<1>5. ASSUME undisturbed PROVE up /\ SoundNow'
  <2>1. up /\ SoundNow
    BY <1>5, RoundIsSound
  <2>2. /\ override.active => Me.status.target = override.page
        /\ Me.round = cfg
        /\ Me.status.target \in 1..cfg.pages => browser.active = Me.status.target
        /\ display.noted = Power(cfg, Me.status)
    BY <1>1, <2>1 DEF SoundNow, Sound, Decided, Shown
  <2>3. Power(Me.round, Me.status) = Power(cfg, Me.status)
    BY <2>2
  <2>4. CASE on
    <3> HIDE DEF back, done
    <3>q. QED BY <1>1, <1>3, <1>f, <2>1, <2>2, <2>3, <2>4 DEF SoundNow, Sound, Deciding, Decided, Shown
  <2>5. CASE back
    <3>1. Power(cfg, Me.status) = "ON"
      BY <1>3, <2>3, <2>5 DEF Power
    <3>2. Power(cfg, Me'.status) = "ON"
      BY <2>5, <3>1, PowerStaysOn
    <3>3. override.active => Me'.status.target = override.page
      BY <2>2, <2>5 DEF ShapeInv, IsOverride
    <3>4. display'.noted = display.noted /\ ~display'.blanked
      BY <2>5 DEF ShapeInv
    <3>5. Me'.pc = "gate" /\ Me'.after = "sleep" /\ Me'.status.reason = Me.status.reason
      BY <2>5
    <3> HIDE DEF on, back, done
    <3>6. SoundNow'
      BY <1>1, <1>f, <2>1, <2>2, <3>1, <3>2, <3>3, <3>4, <3>5
         DEF SoundNow, Sound, Deciding, Decided, Shown
    <3>q. QED BY <2>1, <3>6
  <2>6. CASE done
    <3> HIDE DEF on, back
    <3>q. QED BY <1>1, <1>3, <1>f, <2>1, <2>2, <2>3, <2>6 DEF SoundNow, Sound, Deciding, Decided, Shown
  <2> HIDE DEF on, back, done
  <2>q. QED BY <1>2, <2>4, <2>5, <2>6
<1> HIDE DEF on, back, done
<1>q. QED BY <1>f, <1>4, <1>5, MineKeeps

\* The blank page is shown.
LEMMA MyBlanks ==
  ASSUME ShapeInv, AfterInv, RoundInv, Blanks
  PROVE AfterInv' /\ RoundInv'
<1>f. /\ cfg' = cfg /\ up' = up /\ display' = display
      /\ override' = override
  BY DEF Blanks, worldVars, stateVars, quietVars
<1>1. Me.pc = "blanking"
  BY DEF Blanks, IsAt, Me
<1>2. CASE /\ browser' = [browser EXCEPT !.content = "blank"] /\ GoTo("scheduler", "blanked")
           /\ undisturbed' = undisturbed
  <2>1. browser'.active = browser.active /\ browser'.running = browser.running
    BY <1>2 DEF ShapeInv
  <2>2. /\ Me'.pc = "blanked" /\ Me'.snap = Me.snap /\ Me'.round = Me.round /\ Me'.status = Me.status
    BY <1>2, MyPlace
  <2>3. AfterInv'
    BY <2>2 DEF AfterInv, Deciding
  <2>4. ASSUME undisturbed PROVE up /\ SoundNow'
    <3>1. up /\ SoundNow
      BY <2>4, RoundIsSound
    <3>q. QED BY <1>1, <1>f, <2>1, <2>2, <3>1 DEF SoundNow, Sound, Deciding, Decided, Shown
  <2>q. QED BY <1>2, <1>f, <2>3, <2>4, MineKeeps
<1>3. CASE /\ ~browser.running /\ browser' = browser /\ GoTo("scheduler", "sleep")
           /\ undisturbed' = undisturbed
  <2>1. /\ Me'.pc = "sleep" /\ Me'.snap = Me.snap /\ Me'.round = Me.round /\ Me'.status = Me.status
    BY <1>3, MyPlace
  <2>2. AfterInv'
    BY <2>1 DEF AfterInv, Deciding
  <2>3. ASSUME undisturbed PROVE up /\ SoundNow'
    <3>1. up /\ SoundNow
      BY <2>3, RoundIsSound
    <3>q. QED BY <1>1, <1>3, <1>f, <2>1, <3>1 DEF SoundNow, Sound, Deciding, Decided, Shown
  <2>q. QED BY <1>3, <1>f, <2>2, <2>3, MineKeeps
<1>4. CASE undisturbed' = FALSE /\ GoTo("scheduler", "sleep")
  <2>1. Me'.pc = "sleep"
    BY <1>4, MyPlace
  <2>2. AfterInv'
    BY <2>1 DEF AfterInv, Deciding
  <2>q. QED BY <1>4, <2>2, MineKeeps
<1>q. QED BY <1>2, <1>3, <1>4 DEF Blanks, Proceed

\* The blank page is noted.
LEMMA MyBlankNoted ==
  ASSUME ShapeInv, AfterInv, RoundInv, BlankNoted
  PROVE AfterInv' /\ RoundInv'
<1>f. /\ cfg' = cfg /\ up' = up /\ undisturbed' = undisturbed
      /\ browser' = browser /\ override' = override
  BY DEF BlankNoted, worldVars, stateVars, quietVars
<1>1. Me.pc = "blanked" /\ GoTo("scheduler", "sleep")
  BY DEF BlankNoted, Proceed, IsAt, Me
<1>2. /\ Me'.pc = "sleep" /\ Me'.snap = Me.snap /\ Me'.round = Me.round /\ Me'.status = Me.status
  BY <1>1, MyPlace
<1>3. display'.noted = display.noted /\ display'.blanked = TRUE
  BY DEF BlankNoted, ShapeInv
<1>4. AfterInv'
  BY <1>2 DEF AfterInv, Deciding
<1>5. ASSUME undisturbed PROVE up /\ SoundNow'
  <2>1. up /\ SoundNow
    BY <1>5, RoundIsSound
  <2>q. QED BY <1>1, <1>f, <1>2, <1>3, <2>1 DEF SoundNow, Sound, Deciding, Decided, Shown
<1>q. QED BY <1>f, <1>4, <1>5, MineKeeps
\* A step of the scheduler in a round, or one that leaves the round as it is.
LEMMA RoundKept ==
  ASSUME ShapeInv, AfterInv, RoundInv, Next
  PROVE AfterInv' /\ RoundInv'
<1>0. "scheduler" \in Threads /\ \A c \in Callers : c \in Threads /\ c # "scheduler"
  BY SchedulerAssumption DEF Threads
<1>u. undisturbed => up
  BY RoundIsSound
<1>1. ASSUME NEW t \in Threads, TargetOverride(t) PROVE AfterInv' /\ RoundInv'
  <2>1. CASE t = "scheduler"
    BY <1>1, <2>1, MyOverrideEnds
  <2>o. ASSUME t # "scheduler" PROVE OthersCalm
    <3>1. Alone(t, th'[t])
      BY <1>1, OverrideStep
    <3>2. Me' = Me
      BY <1>0, <2>o, <3>1, NotMe
    <3>3. /\ undisturbed' = undisturbed /\ up' = up /\ cfg' = cfg /\ browser' = browser
          /\ display' = display
      BY <1>1 DEF TargetOverride, worldVars, quietVars
    <3>4. override' = override \/ ~override'.active
      <4>1. override' = override \/ override' = NoOverride
        BY <1>1, OverrideStep
      <4>2. ~NoOverride.active
        BY DEF NoOverride
      <4>q. QED BY <4>1, <4>2
    <3>q. QED BY <3>2, <3>3, <3>4 DEF OthersCalm
  <2>q. QED BY <2>1, <2>o, CalmKeeps
<1>2. ASSUME NEW t \in Threads, TargetBase(t) PROVE AfterInv' /\ RoundInv'
  <2>1. CASE t = "scheduler"
    BY <1>2, <2>1, MyBase
  <2>o. ASSUME t # "scheduler" PROVE OthersCalm
    <3>1. Alone(t, th'[t])
      BY <1>2, BaseStep
    <3>2. Me' = Me
      BY <1>0, <2>o, <3>1, NotMe
    <3>3. /\ undisturbed' = undisturbed /\ up' = up /\ cfg' = cfg /\ browser' = browser
              /\ display' = display /\ (override' = override \/ ~override'.active)
      BY <1>2 DEF TargetBase, worldVars, stateVars, quietVars
    <3>q. QED BY <3>2, <3>3 DEF OthersCalm
  <2>q. QED BY <2>1, <2>o, CalmKeeps
<1>3. ASSUME NEW t \in Threads, PanicsAtRotation(t) PROVE AfterInv' /\ RoundInv'
  <2>1. th' = Anew /\ undisturbed' = FALSE
    BY <1>3 DEF PanicsAtRotation, ServiceEnds, Anew
  <2>2. Me'.pc = "sleep"
    BY <2>1, AnewShape DEF Me
  <2>3. AfterInv'
    BY <2>2 DEF AfterInv, Deciding
  <2>q. QED BY <2>1, <2>3, MineKeeps
<1>4. ASSUME NEW t \in Threads, TargetRotation(t) PROVE AfterInv' /\ RoundInv'
  <2>1. CASE t = "scheduler"
    BY <1>4, <2>1, MyRotation
  <2>o. ASSUME t # "scheduler" PROVE OthersCalm
    <3>1. Alone(t, th'[t])
      BY <1>4, RotationStep
    <3>2. Me' = Me
      BY <1>0, <2>o, <3>1, NotMe
    <3>3. /\ undisturbed' = undisturbed /\ up' = up /\ cfg' = cfg /\ browser' = browser
              /\ display' = display /\ (override' = override \/ ~override'.active)
      BY <1>4 DEF TargetRotation, worldVars, stateVars, quietVars
    <3>q. QED BY <3>2, <3>3 DEF OthersCalm
  <2>q. QED BY <2>1, <2>o, CalmKeeps
<1>5. ASSUME NEW t \in Threads, TargetInserts(t) PROVE AfterInv' /\ RoundInv'
  <2>1. CASE t = "scheduler"
    BY <1>5, <2>1, MyInserts
  <2>o. ASSUME t # "scheduler" PROVE OthersCalm
    <3>1. Alone(t, th'[t])
      BY <1>5, InsertsStep
    <3>2. Me' = Me
      BY <1>0, <2>o, <3>1, NotMe
    <3>3. /\ undisturbed' = undisturbed /\ up' = up /\ cfg' = cfg /\ browser' = browser
              /\ display' = display /\ (override' = override \/ ~override'.active)
      BY <1>5 DEF TargetInserts, worldVars, stateVars, quietVars
    <3>q. QED BY <3>2, <3>3 DEF OthersCalm
  <2>q. QED BY <2>1, <2>o, CalmKeeps
<1>6. ASSUME NEW t \in Threads, SwitchBegins(t) PROVE AfterInv' /\ RoundInv'
  <2>1. CASE t = "scheduler"
    BY <1>6, <2>1, MySwitchBegins
  <2>o. ASSUME t # "scheduler" PROVE OthersCalm
    <3>0. \E p : GoTo(t, p)
      BY <1>6 DEF SwitchBegins, Proceed
    <3>1. Alone(t, th'[t])
      BY <1>0, <3>0, PlaceSet
    <3>2. Me' = Me
      BY <1>0, <2>o, <3>1, NotMe
    <3>3. undisturbed' = FALSE
      BY <1>6, <2>o DEF SwitchBegins, Proceed, Disturbs
    <3>q. QED BY <3>2, <3>3 DEF OthersCalm
  <2>q. QED BY <2>1, <2>o, CalmKeeps
<1>7. ASSUME NEW t \in Threads, SwitchSucceeds(t) PROVE AfterInv' /\ RoundInv'
  <2>1. CASE t = "scheduler"
    BY <1>7, <2>1, MySwitchSucceeds
  <2>o. ASSUME t # "scheduler" PROVE OthersCalm
    <3>0. \E p : GoTo(t, p)
      BY <1>7 DEF SwitchSucceeds, Proceed
    <3>1. Alone(t, th'[t])
      BY <1>0, <3>0, PlaceSet
    <3>2. Me' = Me
      BY <1>0, <2>o, <3>1, NotMe
    <3>3. undisturbed' = FALSE
      BY <1>7, <2>o DEF SwitchSucceeds, Proceed, Disturbs
    <3>q. QED BY <3>2, <3>3 DEF OthersCalm
  <2>q. QED BY <2>1, <2>o, CalmKeeps
<1>8. ASSUME NEW t \in Threads, SwitchFails(t) PROVE AfterInv' /\ RoundInv'
  <2>1. CASE t = "scheduler"
    BY <1>8, <2>1, MySwitchFails
  <2>o. ASSUME t # "scheduler" PROVE OthersCalm
    <3>0. \E p : GoTo(t, p)
      BY <1>8 DEF SwitchFails, Proceed
    <3>1. Alone(t, th'[t])
      BY <1>0, <3>0, PlaceSet
    <3>2. Me' = Me
      BY <1>0, <2>o, <3>1, NotMe
    <3>3. undisturbed' = FALSE
      BY <1>8, <2>o DEF SwitchFails, Proceed, Disturbs
    <3>q. QED BY <3>2, <3>3 DEF OthersCalm
  <2>q. QED BY <2>1, <2>o, CalmKeeps
<1>9. ASSUME NEW t \in Threads, SwitchRefused(t) PROVE AfterInv' /\ RoundInv'
  <2>1. CASE t = "scheduler"
    BY <1>9, <2>1, MySwitchRefused
  <2>o. ASSUME t # "scheduler" PROVE OthersCalm
    <3>0. \E p : GoTo(t, p)
      BY <1>9 DEF SwitchRefused, Proceed
    <3>1. Alone(t, th'[t])
      BY <1>0, <3>0, PlaceSet
    <3>2. Me' = Me
      BY <1>0, <2>o, <3>1, NotMe
    <3>3. undisturbed' = FALSE
      BY <1>9, <2>o DEF SwitchRefused, Proceed, Disturbs
    <3>q. QED BY <3>2, <3>3 DEF OthersCalm
  <2>q. QED BY <2>1, <2>o, CalmKeeps
<1>10. ASSUME NEW t \in Threads, PanelSet(t) PROVE AfterInv' /\ RoundInv'
  <2>1. CASE t = "scheduler"
    BY <1>10, <2>1, MyPanelSet
  <2>o. ASSUME t # "scheduler" PROVE OthersCalm
    <3>0. \E p : GoTo(t, p)
      BY <1>10 DEF PanelSet
    <3>1. Alone(t, th'[t])
      BY <1>0, <3>0, PlaceSet
    <3>2. Me' = Me
      BY <1>0, <2>o, <3>1, NotMe
    <3>3. undisturbed' = FALSE
      BY <1>10, <2>o DEF PanelSet, Disturbs
    <3>q. QED BY <3>2, <3>3 DEF OthersCalm
  <2>q. QED BY <2>1, <2>o, CalmKeeps
<1>11. ASSUME NEW t \in Threads, PanelNoted(t) PROVE AfterInv' /\ RoundInv'
  <2>1. CASE t = "scheduler"
    BY <1>11, <2>1, MyPanelNoted
  <2>o. ASSUME t # "scheduler" PROVE OthersCalm
    <3>0. \E p : GoTo(t, p)
      BY <1>11 DEF PanelNoted
    <3>1. Alone(t, th'[t])
      BY <1>0, <3>0, PlaceSet
    <3>2. Me' = Me
      BY <1>0, <2>o, <3>1, NotMe
    <3>3. undisturbed' = FALSE
      BY <1>11, <2>o DEF PanelNoted, Disturbs
    <3>q. QED BY <3>2, <3>3 DEF OthersCalm
  <2>q. QED BY <2>1, <2>o, CalmKeeps
<1>12. ASSUME NEW c \in Callers, NEW wish \in Wishes, CallBegins(c, wish) PROVE
  AfterInv' /\ RoundInv'
  <2>1. OthersCalm
    <3>1. Alone(c, th'[c])
      BY <1>12, CallStep
    <3>2. Me' = Me
      BY <1>0, <3>1, NotMe
    <3>3. /\ undisturbed' = undisturbed /\ up' = up /\ cfg' = cfg /\ browser' = browser
              /\ display' = display /\ (override' = override \/ ~override'.active)
      BY <1>12 DEF CallBegins, worldVars, stateVars, quietVars
    <3>q. QED BY <3>2, <3>3 DEF OthersCalm
  <2>q. QED BY <2>1, CalmKeeps
<1>13. ASSUME NEW c \in Callers, RecordOverride(c) PROVE AfterInv' /\ RoundInv'
  <2>1. OthersCalm
    <3>0. \E p : GoTo(c, p)
      BY <1>13 DEF RecordOverride
    <3>1. Alone(c, th'[c])
      BY <1>0, <3>0, PlaceSet
    <3>2. Me' = Me
      BY <1>0, <3>1, NotMe
    <3>3. undisturbed' = FALSE
      BY <1>13 DEF RecordOverride
    <3>q. QED BY <3>2, <3>3 DEF OthersCalm
  <2>q. QED BY <2>1, CalmKeeps
<1>14. ASSUME NEW c \in Callers, ForgetOverride(c) PROVE AfterInv' /\ RoundInv'
  <2>1. OthersCalm
    <3>0. \E p : GoTo(c, p)
      BY <1>14 DEF ForgetOverride
    <3>1. Alone(c, th'[c])
      BY <1>0, <3>0, PlaceSet
    <3>2. Me' = Me
      BY <1>0, <3>1, NotMe
    <3>3. undisturbed' = FALSE
      BY <1>14 DEF ForgetOverride
    <3>q. QED BY <3>2, <3>3 DEF OthersCalm
  <2>q. QED BY <2>1, CalmKeeps
<1>15. ASSUME NEW c \in Callers, Persist(c) PROVE AfterInv' /\ RoundInv'
  <2>1. OthersCalm
    <3>0. \E p : GoTo(c, p)
      BY <1>15 DEF Persist
    <3>1. Alone(c, th'[c])
      BY <1>0, <3>0, PlaceSet
    <3>2. Me' = Me
      BY <1>0, <3>1, NotMe
    <3>3. /\ undisturbed' = undisturbed /\ up' = up /\ cfg' = cfg /\ browser' = browser
              /\ display' = display /\ (override' = override \/ ~override'.active)
      BY <1>15 DEF Persist, worldVars, stateVars, quietVars
    <3>q. QED BY <3>2, <3>3 DEF OthersCalm
  <2>q. QED BY <2>1, CalmKeeps
<1>16. ASSUME NEW c \in Callers, CallerDecided(c) PROVE AfterInv' /\ RoundInv'
  <2>1. OthersCalm
    <3>0. \E p : GoTo(c, p)
      BY <1>16 DEF CallerDecided
    <3>1. Alone(c, th'[c])
      BY <1>0, <3>0, PlaceSet
    <3>2. Me' = Me
      BY <1>0, <3>1, NotMe
    <3>3. /\ undisturbed' = undisturbed /\ up' = up /\ cfg' = cfg /\ browser' = browser
              /\ display' = display /\ (override' = override \/ ~override'.active)
      BY <1>16 DEF CallerDecided, worldVars, stateVars, quietVars
    <3>q. QED BY <3>2, <3>3 DEF OthersCalm
  <2>q. QED BY <2>1, CalmKeeps
<1>17. ASSUME Wake PROVE AfterInv' /\ RoundInv'
  <2>1. CASE th' # th
    BY <1>17, <2>1, MyWake
  <2>2. CASE th' = th
    <3>1. Me' = Me
      BY <2>2 DEF Me
    <3>2. undisturbed' = undisturbed \/ Me'.pc = "override"
      <4>1. CASE browser.held
        BY <1>17, <4>1 DEF Wake
      <4>2. CASE ~browser.held
        <5> DEFINE r == [Restarting EXCEPT !.pc = "override", !.after = "maintain", !.round = cfg]
        <5>1. th' = [th EXCEPT !["scheduler"] = r]
          BY <1>17, <4>2 DEF Wake
        <5>2. th'["scheduler"] = r
          <6> HIDE DEF r
          <6>q. QED BY <1>0, <5>1 DEF ShapeInv
        <5>3. r.pc = "override"
          BY DEF Restarting, Idle
        <5>q. QED BY <5>2, <5>3 DEF Me
      <4>q. QED BY <4>1, <4>2
    <3>3. Me.pc = "sleep"
      BY <1>17 DEF Wake, IsAt, Me
    <3>4. /\ up' = up /\ cfg' = cfg /\ browser' = browser /\ display' = display
          /\ override' = override
      BY <1>17 DEF Wake, worldVars, stateVars, quietVars
    <3>q. QED BY <3>1, <3>2, <3>3, <3>4, CalmKeeps DEF OthersCalm
  <2>q. QED BY <2>1, <2>2
<1>18. ASSUME SignalWakes PROVE AfterInv' /\ RoundInv'
  <2>1. Me' = Me
    BY <1>18 DEF SignalWakes, Me
  <2>2. /\ undisturbed' = undisturbed /\ up' = up /\ cfg' = cfg /\ browser' = browser
            /\ display' = display /\ (override' = override \/ ~override'.active)
    BY <1>18 DEF SignalWakes, worldVars, stateVars, quietVars
  <2>q. QED BY <2>1, <2>2, CalmKeeps DEF OthersCalm
<1>19. ASSUME ChangeWakes PROVE AfterInv' /\ RoundInv'
  <2>1. Me' = Me
    BY <1>19 DEF ChangeWakes, Me
  <2>2. /\ undisturbed' = undisturbed /\ up' = up /\ cfg' = cfg /\ browser' = browser
            /\ display' = display /\ (override' = override \/ ~override'.active)
    BY <1>19 DEF ChangeWakes, worldVars, stateVars, quietVars
  <2>q. QED BY <2>1, <2>2, CalmKeeps DEF OthersCalm
<1>20. ASSUME SchedulerDecided PROVE AfterInv' /\ RoundInv'
  BY <1>20, MyDecision
<1>21. ASSUME Maintain PROVE AfterInv' /\ RoundInv'
  BY <1>21, MyMaintenance
<1>22. ASSUME PowerNeeded PROVE AfterInv' /\ RoundInv'
  BY <1>22, MyPower
<1>23. ASSUME BlankOrRestore PROVE AfterInv' /\ RoundInv'
  BY <1>23, MyBlank
<1>24. ASSUME Blanks PROVE AfterInv' /\ RoundInv'
  BY <1>24, MyBlanks
<1>25. ASSUME BlankNoted PROVE AfterInv' /\ RoundInv'
  BY <1>25, MyBlankNoted
<1>26. ASSUME SignalArrives PROVE AfterInv' /\ RoundInv'
  <2>1. Me' = Me
    BY <1>26 DEF SignalArrives, Me
  <2>2. /\ undisturbed' = undisturbed /\ up' = up /\ cfg' = cfg /\ browser' = browser
            /\ display' = display /\ (override' = override \/ ~override'.active)
    BY <1>26 DEF SignalArrives, worldVars, stateVars, quietVars
  <2>q. QED BY <2>1, <2>2, CalmKeeps DEF OthersCalm
<1>27. ASSUME ConfigSaved PROVE AfterInv' /\ RoundInv'
  <2>1. Me' = Me /\ undisturbed' = FALSE
    BY <1>27 DEF ConfigSaved, Me
  <2>q. QED BY <2>1, CalmKeeps DEF OthersCalm
<1>28. ASSUME MQTTTakesChange PROVE AfterInv' /\ RoundInv'
  <2>1. Me' = Me
    BY <1>28 DEF MQTTTakesChange, Me
  <2>2. /\ undisturbed' = undisturbed /\ up' = up /\ cfg' = cfg /\ browser' = browser
            /\ display' = display /\ (override' = override \/ ~override'.active)
    BY <1>28 DEF MQTTTakesChange, worldVars, stateVars, quietVars
  <2>q. QED BY <2>1, <2>2, CalmKeeps DEF OthersCalm
<1>29. ASSUME BrowserStops PROVE AfterInv' /\ RoundInv'
  <2>1. Me' = Me /\ undisturbed' = FALSE
    BY <1>29 DEF BrowserStops, Me
  <2>q. QED BY <2>1, CalmKeeps DEF OthersCalm
<1>30. ASSUME BrowserStarts PROVE AfterInv' /\ RoundInv'
  <2>1. Me' = Me /\ undisturbed' = FALSE
    BY <1>30 DEF BrowserStarts, Me
  <2>q. QED BY <2>1, CalmKeeps DEF OthersCalm
<1>31. ASSUME PowerLost PROVE AfterInv' /\ RoundInv'
  <2>1. th' = Anew /\ undisturbed' = FALSE
    BY <1>31 DEF PowerLost, ServiceEnds, Anew
  <2>2. Me'.pc = "sleep"
    BY <2>1, AnewShape DEF Me
  <2>3. AfterInv'
    BY <2>2 DEF AfterInv, Deciding
  <2>q. QED BY <2>1, <2>3, MineKeeps
<1>32. ASSUME Boot PROVE AfterInv' /\ RoundInv'
  <2>1. Me' = Me /\ ~up /\ undisturbed' = undisturbed
    BY <1>32 DEF Boot, Me
  <2>q. QED BY <1>u, <2>1, CalmKeeps DEF OthersCalm
<1>33. ASSUME PersistLater PROVE AfterInv' /\ RoundInv'
  <2>1. Me' = Me
    BY <1>33 DEF PersistLater, Me
  <2>2. /\ undisturbed' = undisturbed /\ up' = up /\ cfg' = cfg /\ browser' = browser
            /\ display' = display /\ (override' = override \/ ~override'.active)
    BY <1>33 DEF PersistLater, worldVars, stateVars, quietVars
  <2>q. QED BY <2>1, <2>2, CalmKeeps DEF OthersCalm
<1>34. ASSUME Tick PROVE AfterInv' /\ RoundInv'
  <2>1. Me' = Me
    BY <1>34 DEF Tick, Me
  <2>2. /\ undisturbed' = undisturbed /\ up' = up /\ cfg' = cfg /\ browser' = browser
            /\ display' = display /\ (override' = override \/ ~override'.active)
    BY <1>34 DEF Tick, worldVars, stateVars, quietVars
  <2>q. QED BY <2>1, <2>2, CalmKeeps DEF OthersCalm
<1>q. QED
  BY <1>1, <1>2, <1>3, <1>4, <1>5, <1>6, <1>7, <1>8, <1>9, <1>10, <1>11, <1>12, <1>13,
    <1>14, <1>15, <1>16, <1>17, <1>18, <1>19, <1>20, <1>21, <1>22, <1>23, <1>24,
    <1>25, <1>26, <1>27, <1>28, <1>29, <1>30, <1>31, <1>32, <1>33, <1>34, NextSteps

-----------------------------------------------------------------------------
(* The calendar and the inserts.                                          *)

\* A set of natural numbers that is not empty has a least one.
LEMMA LeastOf ==
  ASSUME NEW S \in SUBSET Nat, S # {}
  PROVE Min(S) \in S /\ \A x \in S : Min(S) <= x
<1>e. PICK e : S \in SUBSET Nat /\ e \in S
  OBVIOUS
<1>1. PICK m \in S : \A y \in S : <<y, m>> \notin OpToRel(<, Nat)
  BY <1>e, WFMin, NatLessThanWellFounded, Zenon
<1>2. \A y \in S : ~(y < m)
  BY <1>e, <1>1 DEF OpToRel
<1>3. \A y \in S : m <= y
  BY <1>2
<1>q. QED BY <1>3 DEF Min

\* The earlier of two times: what is before it is before both.
LEMMA SoonerOfTwo ==
  ASSUME NEW a \in Times, NEW b \in Times
  PROVE /\ Sooner(a, b) \in Times
        /\ \A t \in Nat : Before(t, Sooner(a, b)) => Before(t, a) /\ Before(t, b)
<1>1. CASE a = Never \/ b = Never
  BY <1>1 DEF Sooner, Times, Before
<1>2. CASE a # Never /\ b # Never
  <2>1. {a, b} \in SUBSET Nat /\ {a, b} # {}
    BY <1>2 DEF Times
  <2>2. Min({a, b}) \in {a, b} /\ Min({a, b}) <= a /\ Min({a, b}) <= b
    BY <2>1, LeastOf
  <2>3. Sooner(a, b) = Min({a, b})
    BY <1>2 DEF Sooner
  <2>q. QED BY <1>2, <2>1, <2>2, <2>3 DEF Times, Before, Never
<1>q. QED BY <1>1, <1>2

\* Days and clocks.
LEMMA DayOf ==
  ASSUME NEW t \in Int
  PROVE Day(t) \in Int /\ Day(t) * DayLen <= t /\ t < Day(t) * DayLen + DayLen
BY CalendarAssumption DEF Day

\* A later hour is of the same day or of a later one.
LEMMA DaysGrow ==
  ASSUME NEW d \in Int, NEW e \in Int
  PROVE /\ d * DayLen \in Int
        /\ d <= e => d * DayLen <= e * DayLen
        /\ d < e => d * DayLen + DayLen <= e * DayLen
BY CalendarAssumption

\* Hours and days have a length.
LEMMA HourInDay == HourLen \in Nat \ {0} /\ DayLen \in Nat \ {0} /\ HourLen <= DayLen
BY CalendarAssumption

\* The run of an insert that begins at a minute of a day.
Run(kiosk, i, d, m) ==
  [index |-> i, start |-> d * DayLen + m,
   end |-> d * DayLen + m + InsertDuration(kiosk.inserts[i])]

Runs(kiosk, i, d, m) ==
  /\ i \in DOMAIN kiosk.inserts /\ ~kiosk.inserts[i].disabled
  /\ EnabledPage(kiosk, kiosk.inserts[i].page) # NoPage
  /\ m \in SlotMinutes(kiosk.inserts[i])
  /\ Allows(kiosk.inserts[i], Day(Run(kiosk, i, d, m).start), Clock(Run(kiosk, i, d, m).start))

DaysFor(from, to) == {e \in (Day(from) - 1)..Day(to) : e * DayLen < to}

\* The slots of a stretch of time are the runs that overlap it, of the days looked at.
LEMMA SlotsAre ==
  ASSUME NEW kiosk, NEW from, NEW to, NEW s
  PROVE s \in InsertSlots(kiosk, from, to) <=>
          /\ s.end > from /\ s.start < to
          /\ \E i, d, m : s = Run(kiosk, i, d, m) /\ Runs(kiosk, i, d, m) /\ d \in DaysFor(from, to)
<1> DEFINE shown == {i \in DOMAIN kiosk.inserts :
                       /\ ~kiosk.inserts[i].disabled
                       /\ EnabledPage(kiosk, kiosk.inserts[i].page) # NoPage}
           runs(i) == {Run(kiosk, i, d, m) : d \in DaysFor(from, to),
                                             m \in SlotMinutes(kiosk.inserts[i])}
<1>1. s \in InsertSlots(kiosk, from, to) <=>
        /\ s \in UNION {runs(i) : i \in shown}
        /\ s.end > from /\ s.start < to
        /\ Allows(kiosk.inserts[s.index], Day(s.start), Clock(s.start))
  BY DEF InsertSlots, Run, DaysFor
<1>2. s \in UNION {runs(i) : i \in shown} <=>
        \E i \in shown : \E d \in DaysFor(from, to), m \in SlotMinutes(kiosk.inserts[i]) :
           s = Run(kiosk, i, d, m)
  OBVIOUS
<1>3. ASSUME NEW i, NEW d, NEW m PROVE Run(kiosk, i, d, m).index = i
  BY DEF Run
<1>q. QED BY <1>1, <1>2, <1>3 DEF Runs

\* A run begins on its day and ends on the next one at the latest.
LEMMA RunParts ==
  ASSUME NEW kiosk, ValidProgram(kiosk), NEW i, NEW d \in Int, NEW m, Runs(kiosk, i, d, m)
  PROVE LET s == Run(kiosk, i, d, m) IN
        /\ s.index = i /\ s.start \in Int /\ s.end \in Int
        /\ d * DayLen <= s.start /\ s.start <= s.end
        /\ s.end < d * DayLen + 2 * DayLen
<1> DEFINE len == InsertDuration(kiosk.inserts[i])
           b == d * DayLen
<1>1. ValidInsert(kiosk.inserts[i])
  BY DEF Runs, ValidProgram
<1>2. m \in 0..(DayLen - 1)
  BY <1>1 DEF Runs, SlotMinutes, ValidInsert, Minutes
<1>3. HourLen \in Nat /\ DayLen \in Nat /\ HourLen <= DayLen
  BY HourInDay
<1>4. len \in Nat /\ len <= DayLen
  <2>1. {kiosk.inserts[i].duration, HourLen} \in SUBSET Nat
    BY <1>1, <1>3 DEF ValidInsert
  <2>2. len \in {kiosk.inserts[i].duration, HourLen} /\ len <= HourLen
    BY <2>1, LeastOf DEF InsertDuration
  <2>q. QED BY <1>3, <2>1, <2>2
<1>5. b \in Int
  BY DaysGrow
<1>6. Run(kiosk, i, d, m) = [index |-> i, start |-> b + m, end |-> b + m + len]
  BY DEF Run
<1> HIDE DEF len, b
<1>7. /\ b + m \in Int /\ b + m + len \in Int /\ b <= b + m /\ b + m <= b + m + len
      /\ b + m + len < b + 2 * DayLen
  BY <1>2, <1>3, <1>4, <1>5
<1>q. QED BY <1>6, <1>7 DEF b

\* A run that overlaps a stretch of time is one of its slots.
LEMMA RunIsSlot ==
  ASSUME NEW kiosk, ValidProgram(kiosk), NEW i, NEW d \in Int, NEW m, Runs(kiosk, i, d, m),
         NEW from \in Nat, NEW to \in Nat,
         Run(kiosk, i, d, m).end > from, Run(kiosk, i, d, m).start < to
  PROVE Run(kiosk, i, d, m) \in InsertSlots(kiosk, from, to)
<1> DEFINE s == Run(kiosk, i, d, m)
<1>1. /\ s.start \in Int /\ s.end \in Int /\ d * DayLen <= s.start
      /\ s.end < d * DayLen + 2 * DayLen
  BY RunParts
<1>2. s.end > from /\ s.start < to
  OBVIOUS
<1> HIDE DEF s
<1>3. /\ Day(from) \in Int /\ Day(from) * DayLen <= from
      /\ Day(to) \in Int /\ to < Day(to) * DayLen + DayLen
  BY DayOf
<1>4. DayLen \in Nat /\ d * DayLen \in Int
  BY HourInDay, DaysGrow
<1>5. d <= Day(to)
  <2>1. SUFFICES ASSUME Day(to) < d PROVE FALSE
    BY <1>3
  <2>2. Day(to) * DayLen + DayLen <= d * DayLen /\ Day(to) * DayLen \in Int
    BY <1>3, <2>1, DaysGrow
  <2>q. QED BY <1>1, <1>2, <1>3, <1>4, <2>2
<1>6. Day(from) - 1 <= d
  <2>1. SUFFICES ASSUME d + 1 < Day(from) PROVE FALSE
    BY <1>3
  <2>2. (d + 1) * DayLen + DayLen <= Day(from) * DayLen /\ Day(from) * DayLen \in Int
    BY <1>3, <2>1, DaysGrow
  <2>3. d * DayLen + DayLen <= (d + 1) * DayLen /\ (d + 1) * DayLen \in Int
    BY DaysGrow
  <2>q. QED BY <1>1, <1>2, <1>3, <1>4, <2>2, <2>3
<1>7. d * DayLen < to
  BY <1>1, <1>2, <1>4
<1>8. d \in DaysFor(from, to)
  BY <1>3, <1>5, <1>6, <1>7 DEF DaysFor
<1>q. QED BY <1>2, <1>8, SlotsAre DEF s

\* A slot is a run.
LEMMA SlotIsRun ==
  ASSUME NEW kiosk, NEW from \in Nat, NEW to \in Nat, NEW s \in InsertSlots(kiosk, from, to)
  PROVE \E i, m : \E d \in Int : s = Run(kiosk, i, d, m) /\ Runs(kiosk, i, d, m)
<1>1. Day(from) \in Int /\ Day(to) \in Int
  BY DayOf
<1>2. \A d \in DaysFor(from, to) : d \in Int
  BY <1>1 DEF DaysFor
<1>q. QED BY <1>2, SlotsAre

\* The next change of inserts is before every start and end there is in the two days.
LEMMA NextChangeIs ==
  ASSUME NEW kiosk, ValidProgram(kiosk), NEW t0 \in Nat
  PROVE /\ NextInsertChange(kiosk, t0) \in Times
        /\ \A s \in InsertSlots(kiosk, t0, t0 + 2 * DayLen) :
             \A t \in Nat : Before(t, NextInsertChange(kiosk, t0)) =>
               (s.start > t0 => t < s.start) /\ (s.end > t0 => t < s.end)
<1> DEFINE slots == InsertSlots(kiosk, t0, t0 + 2 * DayLen)
           moments == {m \in {s.start : s \in slots} \cup {s.end : s \in slots} : m > t0}
           next == NextInsertChange(kiosk, t0)
<1>1. next = IF moments = {} THEN Never ELSE Min(moments)
  BY DEF NextInsertChange
<1>2. t0 + 2 * DayLen \in Nat
  BY HourInDay
<1>3. ASSUME NEW s \in slots PROVE s.start \in Int /\ s.end \in Int
  <2>1. PICK i, m : \E d \in Int : s = Run(kiosk, i, d, m) /\ Runs(kiosk, i, d, m)
    BY <1>2, SlotIsRun
  <2>2. PICK d \in Int : s = Run(kiosk, i, d, m) /\ Runs(kiosk, i, d, m)
    BY <2>1
  <2>q. QED BY <2>2, RunParts
<1>4. moments \in SUBSET Nat
  <2>1. ASSUME NEW m \in moments PROVE m \in Nat
    <3>1. m \in Int /\ m > t0
      BY <1>3
    <3>q. QED BY <3>1
  <2>q. QED BY <2>1
<1>5. ASSUME NEW s \in slots
      PROVE (s.start > t0 => s.start \in moments) /\ (s.end > t0 => s.end \in moments)
  OBVIOUS
<1>6. moments # {} => next \in moments /\ \A m \in moments : next <= m
  <2> HIDE DEF moments
  <2>q. QED BY <1>1, <1>4, LeastOf, ZenonT(60)
<1> HIDE DEF moments, next, slots
<1>7. next \in Times
  BY <1>1, <1>4, <1>6 DEF Times
<1>8. ASSUME NEW m \in moments, NEW t \in Nat, Before(t, next) PROVE t < m
  <2>1. next \in Nat /\ m \in Nat /\ next <= m
    BY <1>4, <1>6, <1>8
  <2>2. next # Never
    BY <2>1 DEF Never
  <2>3. t < next
    BY <1>8, <2>2 DEF Before
  <2>q. QED BY <2>1, <2>3
<1>9. ASSUME NEW s \in slots, NEW t \in Nat, Before(t, next)
      PROVE (s.start > t0 => t < s.start) /\ (s.end > t0 => t < s.end)
  BY <1>5, <1>8, <1>9
<1>q. QED BY <1>7, <1>9 DEF next, slots

Running(kiosk, t) == {s \in InsertSlots(kiosk, t, t + 1) : s.start <= t /\ t < s.end}

FirstOf(kiosk, running) ==
  IF running = {} THEN NoSlot
  ELSE CHOOSE s \in running : \A o \in running : Wins(kiosk, s, o)

\* The insert that is shown is the one that wins among those that run.
LEMMA ActiveIs ==
  ASSUME NEW kiosk, NEW t
  PROVE ActiveInsert(kiosk, t) = FirstOf(kiosk, Running(kiosk, t))
BY DEF ActiveInsert, Winner, Running, FirstOf

\* What runs at a moment, by the runs.
LEMMA RunningIs ==
  ASSUME NEW kiosk, ValidProgram(kiosk), NEW t \in Nat, NEW s
  PROVE s \in Running(kiosk, t) <=>
          \E i, m : \E d \in Int :
            s = Run(kiosk, i, d, m) /\ Runs(kiosk, i, d, m) /\ s.start <= t /\ t < s.end
<1>1. t + 1 \in Nat
  OBVIOUS
<1>2. ASSUME s \in Running(kiosk, t)
      PROVE \E i, m : \E d \in Int :
              s = Run(kiosk, i, d, m) /\ Runs(kiosk, i, d, m) /\ s.start <= t /\ t < s.end
  <2>1. s \in InsertSlots(kiosk, t, t + 1) /\ s.start <= t /\ t < s.end
    BY <1>2 DEF Running
  <2>q. QED BY <1>1, <2>1, SlotIsRun
<1>3. ASSUME NEW i, NEW m, NEW d \in Int, s = Run(kiosk, i, d, m), Runs(kiosk, i, d, m),
             s.start <= t, t < s.end
      PROVE s \in Running(kiosk, t)
  <2>1. s.start \in Int /\ s.end \in Int
    BY <1>3, RunParts
  <2>2. s.end > t /\ s.start < t + 1
    BY <1>3, <2>1
  <2>3. s \in InsertSlots(kiosk, t, t + 1)
    BY <1>1, <1>3, <2>2, RunIsSlot
  <2>q. QED BY <1>3, <2>3 DEF Running
<1>q. QED BY <1>2, <1>3

\* Up to the next change, as far as it looks ahead, the insert stays as it is.
LEMMA InsertsStay ==
  ASSUME NEW kiosk, ValidProgram(kiosk), NEW t0 \in Nat, NEW t \in Nat,
         t0 <= t, t < t0 + 2 * DayLen, Before(t, NextInsertChange(kiosk, t0))
  PROVE ActiveInsert(kiosk, t) = ActiveInsert(kiosk, t0)
<1>0. t0 + 2 * DayLen \in Nat
  BY HourInDay
<1>1. ASSUME NEW i, NEW m, NEW d \in Int, Runs(kiosk, i, d, m)
      PROVE LET s == Run(kiosk, i, d, m) IN
            s.start <= t /\ t < s.end <=> s.start <= t0 /\ t0 < s.end
  <2> DEFINE s == Run(kiosk, i, d, m)
  <2>1. s.start \in Int /\ s.end \in Int
    BY <1>1, RunParts
  <2>2. s.end > t0 /\ s.start < t0 + 2 * DayLen =>
          s \in InsertSlots(kiosk, t0, t0 + 2 * DayLen)
    BY <1>0, <1>1, RunIsSlot
  <2> HIDE DEF s
  <2>3. s.end > t0 /\ s.start < t0 + 2 * DayLen =>
          (s.start > t0 => t < s.start) /\ (s.end > t0 => t < s.end)
    BY <2>2, NextChangeIs
  <2>4. DayLen \in Nat
    BY HourInDay
  <2>5. s.start <= t /\ t < s.end => s.start <= t0 /\ t0 < s.end
    BY <2>1, <2>3, <2>4
  <2>6. s.start <= t0 /\ t0 < s.end => s.start <= t /\ t < s.end
    BY <2>1, <2>3, <2>4
  <2>q. QED BY <2>5, <2>6 DEF s
<1>2. ASSUME NEW s PROVE s \in Running(kiosk, t) <=> s \in Running(kiosk, t0)
  BY <1>1, RunningIs
<1>3. Running(kiosk, t) = Running(kiosk, t0)
  <2> DEFINE A == Running(kiosk, t)
             B == Running(kiosk, t0)
  <2>1. A \subseteq B /\ B \subseteq A
    BY <1>2
  <2> HIDE DEF A, B
  <2>2. A = B
    BY <2>1
  <2>q. QED BY <2>2 DEF A, B
<1>q. QED BY <1>3, ActiveIs

\* What runs is an enabled insert that shows a page there is.
LEMMA RunningParts ==
  ASSUME NEW kiosk, ValidProgram(kiosk), NEW t \in Nat, NEW s \in Running(kiosk, t)
  PROVE /\ s.index \in 1..Len(kiosk.inserts) /\ kiosk.inserts[s.index].priority \in Int
        /\ kiosk.inserts[s.index].page \in 1..kiosk.pages
        /\ kiosk.inserts[s.index].page # NoPage
<1>1. PICK i, m : \E d \in Int : s = Run(kiosk, i, d, m) /\ Runs(kiosk, i, d, m)
  BY RunningIs
<1>2. PICK d \in Int : s = Run(kiosk, i, d, m) /\ Runs(kiosk, i, d, m)
  BY <1>1
<1>3. s.index = i
  BY <1>2, RunParts
<1>4. /\ i \in DOMAIN kiosk.inserts
      /\ EnabledPage(kiosk, kiosk.inserts[i].page) # NoPage
  BY <1>2 DEF Runs
<1>5. i \in 1..Len(kiosk.inserts) /\ kiosk.inserts[i].priority \in Int
  BY <1>4 DEF ValidProgram, ValidInsert
<1>6. kiosk.inserts[i].page \in 1..kiosk.pages
  BY <1>4 DEF EnabledPage
<1>7. kiosk.pages \in Nat
  BY DEF ValidProgram
<1>8. kiosk.inserts[i].page # NoPage
  BY <1>6, <1>7 DEF NoPage
<1>q. QED BY <1>3, <1>5, <1>6, <1>8

\* One of the inserts that run wins.
LEMMA SomeWins ==
  ASSUME NEW kiosk, ValidProgram(kiosk), NEW t \in Nat, Running(kiosk, t) # {}
  PROVE \E s \in Running(kiosk, t) : \A o \in Running(kiosk, t) : Wins(kiosk, s, o)
<1> DEFINE R == Running(kiosk, t)
           P(s) == kiosk.inserts[s.index].priority
           Upto(n) == {s \in R : s.index <= n}
           Lost(n) == Upto(n) # {} /\ \A s \in Upto(n) : \E o \in Upto(n) : ~Wins(kiosk, s, o)
           Bad == {n \in Nat : Lost(n)}
<1>1. \A s \in R : s.index \in 1..Len(kiosk.inserts) /\ P(s) \in Int
  BY RunningParts
<1>2. Len(kiosk.inserts) \in Nat
  BY DEF ValidProgram
<1>i. \A s \in R : s.index \in Int /\ s.index > 0 /\ P(s) \in Int
  BY <1>1
<1>3. \A a, b : Wins(kiosk, a, b) <=> P(a) > P(b) \/ (P(a) = P(b) /\ a.index <= b.index)
  BY DEF Wins
<1> HIDE DEF P, R
<1>4. Upto(Len(kiosk.inserts)) = R
  BY <1>1, <1>2
<1>5. Bad = {}
  <2> SUFFICES ASSUME Bad # {} PROVE FALSE
    OBVIOUS
  <2>1. PICK n \in Bad : \A k \in Bad : n <= k
    <3> HIDE DEF Lost
    <3>1. Bad \in SUBSET Nat
      OBVIOUS
    <3> HIDE DEF Bad
    <3>q. QED BY <3>1, LeastOf
  <2>2. n \in Nat /\ Lost(n)
    BY <2>1
  <2>3. n # 0
    BY <1>i, <2>2
  <2>4. n - 1 \in Nat /\ ~Lost(n - 1)
    <3>1. n - 1 \in Nat /\ ~(n <= n - 1)
      BY <2>2, <2>3
    <3> HIDE DEF Lost
    <3>q. QED BY <2>1, <3>1
  <2>5. \A s \in R : s \in Upto(n) <=> s \in Upto(n - 1) \/ s.index = n
    <3>1. ASSUME NEW s \in R PROVE s.index <= n <=> s.index <= n - 1 \/ s.index = n
      <4>1. s.index \in Int /\ n \in Nat
        BY <1>i, <2>2
      <4> HIDE DEF Lost, Bad
      <4>q. QED BY <4>1
    <3>q. QED BY <3>1
  <2>6. CASE Upto(n - 1) = {}
    <3>1. \A s \in Upto(n) : s \in R /\ s.index = n
      BY <2>5, <2>6
    <3>2. \A a, b \in Upto(n) : P(a) = P(b)
      BY <3>1 DEF P
    <3>3. \A a, b \in Upto(n) : Wins(kiosk, a, b)
      BY <1>3, <2>2, <3>1, <3>2
    <3>q. QED BY <2>2, <3>3
  <2>7. CASE Upto(n - 1) # {}
    <3>1. PICK s \in Upto(n - 1) : \A o \in Upto(n - 1) : Wins(kiosk, s, o)
      BY <2>4, <2>7
    <3>a. s \in R
      OBVIOUS
    <3>2. s \in R /\ s \in Upto(n) /\ s.index \in Int /\ s.index <= n - 1
      BY <1>i, <2>5, <3>a
    <3>3. PICK o \in Upto(n) : ~Wins(kiosk, s, o)
      BY <2>2, <3>2
    <3>4. o \in R /\ o.index = n
      BY <2>5, <3>1, <3>3
    <3>5. P(o) > P(s)
      <4>1. n \in Nat /\ s.index \in Int /\ s.index <= o.index
        BY <2>2, <3>2, <3>4
      <4>2. P(o) \in Int /\ P(s) \in Int /\ ~(P(s) > P(o)) /\ P(s) # P(o)
        BY <1>i, <1>3, <3>2, <3>3, <3>4, <4>1
      <4> HIDE DEF Lost, Bad, Upto
      <4>q. QED BY <4>2
    <3>6. PICK q \in Upto(n) : ~Wins(kiosk, o, q)
      BY <2>2
    <3>7. q \in R
      OBVIOUS
    <3>8. CASE q.index = n
      <4>1. P(q) = P(o)
        BY <3>4, <3>8 DEF P
      <4>q. QED BY <1>3, <2>2, <3>4, <3>6, <3>8, <4>1
    <3>9. CASE q \in Upto(n - 1)
      <4>1. Wins(kiosk, s, q)
        BY <3>1, <3>9
      <4>a. P(s) \in Int /\ P(q) \in Int /\ (P(s) > P(q) \/ P(s) = P(q))
        BY <1>i, <1>3, <3>2, <3>7, <4>1
      <4>2. P(s) >= P(q)
        BY <4>a
      <4>3. P(o) > P(q)
        BY <1>i, <3>2, <3>4, <3>5, <3>7, <4>2
      <4>q. QED BY <1>3, <3>6, <4>3
    <3>q. QED BY <2>5, <3>6, <3>7, <3>8, <3>9
  <2>q. QED BY <2>6, <2>7
<1>6. ~Lost(Len(kiosk.inserts))
  <2> HIDE DEF Lost
  <2>q. QED BY <1>2, <1>5
<1>q. QED BY <1>4, <1>6 DEF R

\* The insert that is shown is one that runs, and its page is one there is.
LEMMA ActiveParts ==
  ASSUME NEW kiosk, ValidProgram(kiosk), NEW t \in Nat, ActiveInsert(kiosk, t) # NoSlot
  PROVE LET page == kiosk.inserts[ActiveInsert(kiosk, t).index].page IN
        page \in 1..kiosk.pages /\ page # NoPage
<1>1. Running(kiosk, t) # {}
  BY ActiveIs DEF FirstOf
<1>2. FirstOf(kiosk, Running(kiosk, t)) \in Running(kiosk, t)
  BY <1>1, SomeWins DEF FirstOf
<1>3. ActiveInsert(kiosk, t) \in Running(kiosk, t)
  BY <1>2, ActiveIs
<1>q. QED BY <1>3, RunningParts

-----------------------------------------------------------------------------
(* Programmes and their conditions.                                       *)

\* Lists.
LEMMA ListParts ==
  ASSUME NEW s, IsList(s)
  PROVE /\ Len(s) \in Nat /\ DOMAIN s = 1..Len(s)
        /\ s # <<>> => Len(s) > 0
        /\ s = <<>> <=> DOMAIN s = {}
<1>1. Len(s) \in Nat /\ DOMAIN s = 1..Len(s)
  BY DEF IsList
<1>2. ASSUME Len(s) = 0 PROVE s = <<>>
  <2>1. s = [i \in 1..0 |-> s[i]]
    BY <1>2 DEF IsList
  <2>q. QED BY <2>1
<1>3. s = <<>> => Len(s) = 0
  OBVIOUS
<1>q. QED BY <1>1, <1>2, <1>3

\* A list whose elements are replaced is a list.
LEMMA ListMapped ==
  ASSUME NEW n \in Nat, NEW f, f = [i \in 1..n |-> f[i]]
  PROVE IsList(f) /\ Len(f) = n
<1>1. DOMAIN f = 1..n
  OBVIOUS
<1>2. Len(f) = n
  BY <1>1
<1>q. QED BY <1>2 DEF IsList

\* A programme whose inserts are out where their condition does not hold.
Where(c, h) ==
  [c EXCEPT !.inserts =
     [i \in DOMAIN @ |-> IF @[i].topic \in Topics /\ ~h[@[i].topic]
                         THEN [@[i] EXCEPT !.disabled = TRUE] ELSE @[i]]]

\* InsertsWhere, as an operator of the conditions.
LEMMA WhereIs ==
  ASSUME NEW c
  PROVE InsertsWhere(c) = Where(c, holds) /\ InsertsWhere(c)' = Where(c, holds')
BY DEF InsertsWhere, Where

\* An insert that is out is as valid as before.
LEMMA InsertKept ==
  ASSUME NEW e, ValidInsert(e)
  PROVE ValidInsert([e EXCEPT !.disabled = TRUE])
BY DEF ValidInsert

\* A programme whose inserts are out is as valid as before, and the rest of it the same.
LEMMA WhereParts ==
  ASSUME NEW c, ValidProgram(c), NEW h
  PROVE /\ ValidProgram(Where(c, h))
        /\ Where(c, h).rotation = c.rotation /\ Where(c, h).pages = c.pages
        /\ Where(c, h).timeout = c.timeout
        /\ "presence" \in DOMAIN c => Where(c, h).presence = c.presence
<1> DEFINE old == c.inserts
           e(i) == IF old[i].topic \in Topics /\ ~h[old[i].topic]
                   THEN [old[i] EXCEPT !.disabled = TRUE] ELSE old[i]
           new == [i \in DOMAIN old |-> e(i)]
           k == [c EXCEPT !.inserts = new]
<1>1. Where(c, h) = k
  BY DEF Where
<1>2. DOMAIN k = DOMAIN c /\ k.inserts = new /\ \A f \in DOMAIN c : f # "inserts" => k[f] = c[f]
  <2> HIDE DEF new
  <2>q. QED BY DEF ValidProgram
<1>3. /\ k.rotation = c.rotation /\ k.pages = c.pages /\ k.timeout = c.timeout
      /\ k.tick = c.tick /\ k.timeRules = c.timeRules
      /\ "presence" \in DOMAIN c => k.presence = c.presence
  <2> HIDE DEF k
  <2>q. QED BY <1>2 DEF ValidProgram
<1>4. IsList(old) /\ \A i \in DOMAIN old : ValidInsert(old[i])
  BY DEF ValidProgram
<1>5. ASSUME NEW i \in DOMAIN old PROVE ValidInsert(e(i))
  BY <1>4, InsertKept
<1>6. DOMAIN old = 1..Len(old) /\ Len(old) \in Nat
  BY <1>4, ListParts
<1>7. IsList(new)
  <2>1. new = [i \in 1..Len(old) |-> new[i]]
    BY <1>6
  <2> HIDE DEF new, old
  <2>q. QED BY <1>6, <2>1, ListMapped
<1>8. \A i \in DOMAIN new : ValidInsert(new[i])
  <2> HIDE DEF e
  <2>q. QED BY <1>5
<1>9. ValidProgram(k)
  <2> HIDE DEF k, new
  <2>q. QED BY <1>2, <1>3, <1>7, <1>8 DEF ValidProgram
<1> HIDE DEF k
<1>q. QED BY <1>1, <1>3, <1>9

\* A configuration that was saved.
LEMMA SavedIsValid ==
  ASSUME NEW c \in Configs
  PROVE /\ ValidProgram(c) /\ MaxRound + c.tick <= 2 * DayLen /\ "presence" \in DOMAIN c
        /\ c.tick \in Nat /\ c.timeout \in Nat /\ c.pages \in Nat
BY ConfigsAssumption DEF ValidProgram

\* So it is a programme that may be decided with.
LEMMA WhereIsKnown ==
  ASSUME NEW c \in Configs, NEW h
  PROVE Known(Where(c, h))
BY SavedIsValid, WhereParts DEF Known

\* Without inserts none is shown.
LEMMA NoInserts ==
  ASSUME NEW kiosk, ValidProgram(kiosk), kiosk.inserts = <<>>, NEW t \in Nat
  PROVE ActiveInsert(kiosk, t) = NoSlot
<1>1. DOMAIN kiosk.inserts = {}
  BY ListParts DEF ValidProgram
<1>2. Running(kiosk, t) = {}
  <2>1. ASSUME NEW s \in Running(kiosk, t) PROVE FALSE
    <3>1. PICK i, m : \E d \in Int : s = Run(kiosk, i, d, m) /\ Runs(kiosk, i, d, m)
      BY RunningIs
    <3>q. QED BY <1>1, <3>1 DEF Runs
  <2>q. QED BY <2>1
<1>q. QED BY <1>2, ActiveIs DEF FirstOf

\* The end of a rule is a time.
LEMMA RuleEndIs ==
  ASSUME NEW rule, rule.end \in Nat, NEW t \in Nat
  PROVE RuleEnds(rule, t) \in Nat
<1>1. Day(t) \in Int /\ t < Day(t) * DayLen + DayLen /\ DayLen \in Nat \ {0}
  BY DayOf, HourInDay
<1>2. Day(t) * DayLen \in Nat
  <2>1. Day(t) * DayLen \in Int /\ (Day(t) < 0 => Day(t) * DayLen + DayLen <= 0 * DayLen)
    BY <1>1, DaysGrow
  <2>2. 0 * DayLen = 0
    BY <1>1
  <2>3. CASE Day(t) < 0
    BY <1>1, <2>1, <2>2, <2>3
  <2>4. CASE ~(Day(t) < 0)
    <3>1. 0 * DayLen <= Day(t) * DayLen
      BY <1>1, <2>4, DaysGrow
    <3>q. QED BY <2>1, <2>2, <3>1
  <2>q. QED BY <2>3, <2>4
<1>q. QED BY <1>1, <1>2 DEF RuleEnds, Times

-----------------------------------------------------------------------------
(* What a decision says, and until when.                                  *)

\* What presence makes of a decision.
Absent(c, p, t) == p = Never \/ t >= p + c.timeout

\* AbsentAt, as an operator of the last detection.
LEMMA AbsentIs == \A c, t : (AbsentAt(c, t) <=> Absent(c, presence, t))
BY DEF AbsentAt, Absent, PresentUntil

\* While it is not over, nobody gets absent.
LEMMA PresenceLasts ==
  ASSUME NEW c, c.timeout \in Nat, NEW p \in Times, NEW n \in Nat, NEW t \in Nat, n <= t,
         ~Absent(c, p, n) => Before(t, p + c.timeout)
  PROVE Absent(c, p, t) <=> Absent(c, p, n)
<1>1. CASE p = Never
  BY <1>1 DEF Absent
<1>2. CASE p # Never
  <2>1. p \in Nat /\ p + c.timeout \in Nat /\ p + c.timeout # Never
    BY <1>2 DEF Times, Never
  <2>q. QED BY <1>2, <2>1 DEF Absent, Before
<1>q. QED BY <1>1, <1>2

\* What presence adds to a decision, and until when it is right.
LEMMA PresenceNext ==
  ASSUME NEW s, IsStatus(s), s.next \in Times, NEW c, c.timeout \in Nat, now \in Nat,
         presence \in Times
  PROVE LET r == ApplyPresence(c, s) IN
        /\ IsStatus(r) /\ r.target = s.target /\ r.reason = s.reason /\ r.next \in Times
        /\ r.presence = IF c.presence = "off" THEN s.presence
                        ELSE IF Absent(c, presence, now) THEN "absent" ELSE "present"
        /\ \A t \in Nat : Before(t, r.next) =>
             /\ Before(t, s.next)
             /\ c.presence # "off" /\ now <= t =>
                  (Absent(c, presence, t) <=> Absent(c, presence, now))
<1> DEFINE r == ApplyPresence(c, s)
<1>0. IsStatus(r) /\ r.target = s.target /\ r.reason = s.reason
  BY PresenceParts
<1>a. AbsentAt(c, now) <=> Absent(c, presence, now)
  BY AbsentIs
<1>1. CASE c.presence = "off"
  <2>1. r = s
    BY <1>1 DEF ApplyPresence
  <2> HIDE DEF r
  <2>q. QED BY <1>0, <1>1, <2>1 DEF r
<1>2. CASE c.presence # "off" /\ Absent(c, presence, now)
  <2>1. r = [s EXCEPT !.presence = "absent"]
    BY <1>2, <1>a DEF ApplyPresence
  <2>2. r.presence = "absent" /\ r.next = s.next
    BY <2>1 DEF IsStatus
  <2> HIDE DEF r
  <2>3. ASSUME NEW t \in Nat, now <= t PROVE Absent(c, presence, t) <=> Absent(c, presence, now)
    BY <1>2, <2>3, PresenceLasts
  <2>q. QED BY <1>0, <1>2, <2>2, <2>3 DEF r
<1>3. CASE c.presence # "off" /\ ~Absent(c, presence, now)
  <2> DEFINE n == Sooner(s.next, PresentUntil(c))
             p == [s EXCEPT !.presence = "present"]
  <2>1. r = [p EXCEPT !.next = Sooner(p.next, PresentUntil(c))]
    BY <1>3, <1>a DEF ApplyPresence
  <2>2. IsStatus(p) /\ p.presence = "present" /\ p.next = s.next
    BY DEF IsStatus
  <2> HIDE DEF p, r
  <2>3. r = [p EXCEPT !.next = n]
    BY <2>1, <2>2
  <2> HIDE DEF n
  <2>4. r.presence = "present" /\ r.next = n
    BY <2>2, <2>3 DEF IsStatus
  <2>5. PresentUntil(c) = presence + c.timeout /\ PresentUntil(c) \in Times
    BY <1>3 DEF PresentUntil, Absent, Times
  <2>6. n \in Times /\ \A t \in Nat : Before(t, n) => Before(t, s.next) /\ Before(t, PresentUntil(c))
    BY <2>5, SoonerOfTwo DEF n
  <2>7. ASSUME NEW t \in Nat, Before(t, n), now <= t
        PROVE Absent(c, presence, t) <=> Absent(c, presence, now)
    BY <2>5, <2>6, <2>7, PresenceLasts
  <2>q. QED BY <1>0, <1>3, <2>4, <2>6, <2>7 DEF r
<1>q. QED BY <1>1, <1>2, <1>3

\* How long the scheduler sleeps.
LEMMA WakesInTime ==
  ASSUME NEW c, c.tick \in Nat, NEW s, s.next \in Times, now \in Nat
  PROVE /\ NextWake(c, s) \in Nat /\ now <= NextWake(c, s)
        /\ \A t \in Nat : now <= t /\ t < NextWake(c, s) =>
             t < now + c.tick /\ Before(t, s.next)
<1> DEFINE a == now + c.tick
           b == IF s.next = Never THEN Never ELSE Max({now, s.next})
           w == NextWake(c, s)
<1>1. w = Sooner(a, b)
  BY DEF NextWake
<1>2. a \in Nat /\ a # Never /\ now <= a
  BY DEF Never
<1>3. /\ b \in Times
      /\ b # Never => b \in Nat /\ now <= b /\ s.next # Never
      /\ \A t \in Nat : now <= t /\ Before(t, b) => Before(t, s.next)
  <2>1. CASE s.next = Never
    BY <2>1 DEF Times, Before
  <2>2. CASE s.next # Never
    <3>1. s.next \in Nat
      BY <2>2 DEF Times
    <3>2. b \in {now, s.next} /\ b >= now /\ b >= s.next
      <4>1. b = Max({now, s.next})
        BY <2>2
      <4>2. now \in Int /\ s.next \in Int
        BY <3>1
      <4> HIDE DEF b
      <4>q. QED BY <4>1, <4>2, MaxOfTwo, Zenon
    <3> HIDE DEF b
    <3>q. QED BY <2>2, <3>1, <3>2 DEF Times, Before, Never
  <2>q. QED BY <2>1, <2>2
<1>4. w \in {a, b} /\ w # Never
  <2>1. CASE b = Never
    BY <1>1, <1>2, <2>1 DEF Sooner
  <2>2. CASE b # Never
    <3>1. {a, b} \in SUBSET Nat /\ {a, b} # {}
      BY <1>2, <1>3, <2>2
    <3> HIDE DEF a, b
    <3>2. Min({a, b}) \in {a, b}
      BY <3>1, LeastOf
    <3>3. w = Min({a, b})
      BY <1>1, <1>2, <2>2 DEF Sooner
    <3>q. QED BY <1>2, <2>2, <3>2, <3>3
  <2>q. QED BY <2>1, <2>2
<1>5. \A t \in Nat : Before(t, Sooner(a, b)) => Before(t, a) /\ Before(t, b)
  BY <1>2, <1>3, SoonerOfTwo DEF Times
<1> HIDE DEF a, b, w
<1>6. w \in Nat /\ now <= w
  BY <1>2, <1>3, <1>4
<1>7. ASSUME NEW t \in Nat, now <= t, t < w PROVE t < a /\ Before(t, s.next)
  <2>1. Before(t, a) /\ Before(t, b)
    BY <1>1, <1>5, <1>7 DEF Before
  <2>2. t < a
    BY <1>2, <2>1 DEF Before
  <2>q. QED BY <1>3, <1>7, <2>1, <2>2
<1>q. QED BY <1>6, <1>7 DEF w, a

\* It sleeps a round and a tick at most, and not past a change it was told of.
LEMMA SleepRange ==
  ASSUME NEW c, c.tick \in Nat, MaxRound + c.tick <= 2 * DayLen, NEW s, s.next \in Times,
         now \in Nat, wake \in Nat, now <= wake + MaxRound
  PROVE /\ NextWake(c, s) \in Nat /\ now <= NextWake(c, s)
        /\ \A t \in Nat : now <= t /\ t < NextWake(c, s) =>
             /\ t < wake + MaxRound + c.tick /\ t < wake + 2 * DayLen
             /\ Before(t, s.next)
<1>0. MaxRound \in Nat /\ DayLen \in Nat
  BY SchedulerAssumption, HourInDay
<1>1. now + c.tick <= wake + MaxRound + c.tick /\ wake + MaxRound + c.tick <= wake + 2 * DayLen
  BY <1>0
<1>2. \A t \in Nat : t < now + c.tick => t < wake + MaxRound + c.tick /\ t < wake + 2 * DayLen
  BY <1>0, <1>1
<1>q. QED BY <1>2, WakesInTime

\* What is said of the presence at a moment.
Presence(c, p, n) ==
  IF c.presence = "off" THEN "" ELSE IF Absent(c, p, n) THEN "absent" ELSE "present"

\* A decision that says so holds for it up to its next change.
PresenceHolds(c, r) ==
  \A u \in Nat : now <= u /\ Before(u, r.next) =>
    (c.presence # "off" => (Absent(c, presence, u) <=> Absent(c, presence, now)))

\* The moments of the state are moments.
LEMMA TimesTyped ==
  ASSUME TypeOK
  PROVE /\ now \in Nat /\ cfg \in Configs /\ presence \in Times /\ wake \in Nat
        /\ override.until \in Times /\ rotation.until \in Times
  /\ rotation = [index |-> rotation.index, until |-> rotation.until, cycles |-> rotation.cycles]
<1>1. MaxTime \in Nat
  BY SchedulerAssumption
<1>2. now \in 0..MaxTime /\ presence \in {Never} \cup 0..now /\ cfg \in Configs /\ wake \in Nat
  BY DEF TypeOK
<1>3. now \in Nat /\ presence \in Times
  BY <1>1, <1>2 DEF Times
<1>4. override \in Overrides /\ rotation \in [index : Places, until : Times, cycles : Nat]
  BY DEF TypeOK
<1>q. QED BY <1>2, <1>3, <1>4 DEF Overrides

\* An override says until when, or the programme of now is taken.
LEMMA OverrideSays ==
  ASSUME ShapeInv, TypeOK, NEW t \in Threads, TargetOverride(t)
  PROVE LET r == th'[t].status IN
        /\ override' = IF override.active /\ now >= override.until THEN NoOverride ELSE override
        /\ override'.active =>
             /\ th'[t].pc = "decided" /\ r.reason = "override"
             /\ r.next \in Times /\ r.presence = Presence(cfg, presence, now)
             /\ PresenceHolds(cfg, r)
             /\ \A u \in Nat : Before(u, r.next) => u < override'.until
        /\ ~override'.active =>
             th'[t].pc = "base" /\ r = th[t].status /\ th'[t].snap = Where(cfg, holds)
<1> DEFINE s == [target |-> override'.page, reason |-> "override", presence |-> "",
                 next |-> override'.until]
           d == ApplyPresence(cfg, s)
<1>1. /\ override' = IF override.active /\ now >= override.until THEN NoOverride ELSE override
      /\ IF override'.active THEN Becomes(t, "decided", d)
         ELSE th' = [th EXCEPT ![t].pc = "base", ![t].snap = InsertsWhere(cfg)]
  BY DEF TargetOverride, IsAt
<1>t. /\ now \in Nat /\ cfg \in Configs /\ presence \in Times /\ override.until \in Times
  BY TimesTyped
<1>2. ASSUME override'.active
      PROVE LET r == th'[t].status IN
            /\ th'[t].pc = "decided" /\ r.reason = "override"
            /\ r.next \in Times /\ r.presence = Presence(cfg, presence, now)
            /\ PresenceHolds(cfg, r)
            /\ \A u \in Nat : Before(u, r.next) => u < override'.until
  <2>1. /\ IsStatus(s) /\ s.reason = "override" /\ s.presence = "" /\ s.next = override'.until
    BY DEF IsStatus
  <2>2. override' = override /\ override'.until \in Times /\ override'.until # Never
    <3>1. ~NoOverride.active
      BY DEF NoOverride
    <3>2. override' = override /\ ~(now >= override.until)
      BY <1>1, <1>2, <3>1
    <3>q. QED BY <1>t, <3>2 DEF Never
  <2>3. cfg.timeout \in Nat
    BY <1>t, SavedIsValid
  <2> HIDE DEF s
  <2>4. /\ IsStatus(d) /\ d.reason = "override" /\ d.next \in Times
        /\ d.presence = Presence(cfg, presence, now)
    BY <1>t, <2>1, <2>2, <2>3, PresenceNext DEF Presence
  <2>5. \A u \in Nat : Before(u, d.next) =>
             /\ Before(u, s.next)
             /\ cfg.presence # "off" /\ now <= u =>
                  (Absent(cfg, presence, u) <=> Absent(cfg, presence, now))
    BY <1>t, <2>1, <2>2, <2>3, PresenceNext
  <2> HIDE DEF d
  <2>6. PresenceHolds(cfg, d)
    BY <2>5 DEF PresenceHolds
  <2>7. \A u \in Nat : Before(u, d.next) => u < override'.until
    BY <2>1, <2>2, <2>5 DEF Before
  <2>8. th'[t].pc = "decided" /\ th'[t].status = d
    BY <1>1, <1>2, <2>4, DecisionSet
  <2>q. QED BY <2>4, <2>6, <2>7, <2>8
<1>3. ASSUME ~override'.active
      PROVE th'[t].pc = "base" /\ th'[t].status = th[t].status /\ th'[t].snap = Where(cfg, holds)
  <2> DEFINE q == [th[t] EXCEPT !.pc = "base"]
             r == [q EXCEPT !.snap = InsertsWhere(cfg)]
  <2>1. IsThread(th[t])
    BY DEF ShapeInv
  <2>2. /\ IsThread(q) /\ q.pc = "base" /\ q.status = th[t].status
    BY <2>1 DEF IsThread
  <2>3. r.pc = q.pc /\ r.status = q.status /\ r.snap = InsertsWhere(cfg)
    <3> HIDE DEF q
    <3>q. QED BY <2>2 DEF IsThread
  <2>4. th' = [th EXCEPT ![t] = r]
    BY <1>1, <1>3
  <2> HIDE DEF r, q
  <2>5. th'[t] = r
    BY <2>4 DEF ShapeInv
  <2>q. QED BY <2>2, <2>3, <2>5, WhereIs
<1>q. QED BY <1>1, <1>2, <1>3

\* A page among some is one.
LEMMA ClampIsPage ==
  ASSUME NEW page \in Int, NEW count \in Nat, count # 0
  PROVE ClampPage(page, count) # NoPage
<1>1. CASE page < 1
  BY <1>1 DEF ClampPage, NoPage
<1>2. CASE ~(page < 1)
  <2>1. {page, count} \in SUBSET Nat /\ {page, count} # {}
    BY <1>2
  <2>2. Min({page, count}) \in {page, count}
    BY <2>1, LeastOf
  <2>q. QED BY <1>2, <2>2 DEF ClampPage, NoPage
<1>q. QED BY <1>1, <1>2

\* What a decision says of the time rules at m: that none is active, or the page of the
\* first one and a change before its end.
NoRule(k, m) == k.mode \in {"time", "hybrid"} => ActiveRules(k, m) = {}

First(k, m) == k.timeRules[Min(ActiveRules(k, m))]

Ruled(k, s, m) ==
  /\ ActiveRules(k, m) # {}
  /\ s.target = ClampPage(First(k, m).page, k.pages) /\ s.target # NoPage
  /\ \A t \in Nat : Before(t, s.next) => t < RuleEnds(First(k, m), m)

\* A time rule says when it ends, and nobody says anything of inserts.
LEMMA BaseSays ==
  ASSUME ShapeInv, TypeOK, NEW t \in Threads, TargetBase(t), Known(th[t].snap)
  PROVE LET r == th'[t].status
            k == th[t].snap
        IN
        \/ th'[t].pc = "extend" /\ r = th[t].status /\ NoRule(k, now)
        \/ /\ th'[t].pc = "inserts" /\ r.next \in Times /\ r.presence = ""
           /\ r.reason \in {"disabled", "no active time rule", "no rotation items", "time"}
           /\ r.reason = "no active time rule" => NoRule(k, now)
           /\ r.reason = "time" => Ruled(k, r, now)
<1> DEFINE kiosk == th[t].snap
           rules == ActiveRules(kiosk, now)
           rule == First(kiosk, now)
           page == ClampPage(rule.page, kiosk.pages)
           ends == RuleEnds(rule, now)
<1>1. \/ GoTo(t, "extend") /\ NoRule(kiosk, now)
      \/ \E b \in {"disabled", "no active time rule", "no rotation items"} :
           /\ Becomes(t, "inserts", [Undecided EXCEPT !.reason = b])
           /\ b = "no active time rule" => NoRule(kiosk, now)
      \/ /\ rules # {} /\ kiosk.pages # 0
         /\ Becomes(t, "inserts",
              [Undecided EXCEPT !.target = page, !.reason = "time", !.next = ends])
  BY DEF TargetBase, NoRule, First
<1>2. rules # {} => ends \in Nat /\ (kiosk.pages # 0 => page # NoPage)
  <2>1. /\ IsList(kiosk.timeRules) /\ kiosk.pages \in Nat
        /\ \A r \in DOMAIN kiosk.timeRules :
             kiosk.timeRules[r].end \in Nat /\ kiosk.timeRules[r].page \in Int
    BY DEF Known, ValidProgram
  <2>2. rules \subseteq DOMAIN kiosk.timeRules /\ DOMAIN kiosk.timeRules = 1..Len(kiosk.timeRules)
        /\ Len(kiosk.timeRules) \in Nat
    BY <2>1, ListParts DEF ActiveRules
  <2>3. rules \in SUBSET Nat
    BY <2>2
  <2>4. now \in Nat
    BY TimesTyped
  <2>5. rule = kiosk.timeRules[Min(rules)]
    BY DEF First
  <2> HIDE DEF rules, rule
  <2>6. rules # {} => Min(rules) \in rules
    BY <2>3, LeastOf
  <2>7. rules # {} => rule.end \in Nat /\ rule.page \in Int
    BY <2>1, <2>2, <2>5, <2>6
  <2>q. QED BY <2>1, <2>4, <2>7, RuleEndIs, ClampIsPage
<1>3. rules # {} /\ kiosk.pages # 0 =>
        \A s : s.target = page /\ s.next = ends => Ruled(kiosk, s, now)
  BY <1>2 DEF Ruled, Before, Never
<1> HIDE DEF rules, page, ends, rule
<1>4. CASE GoTo(t, "extend") /\ NoRule(kiosk, now)
  BY <1>4, PlaceSet
<1>5. ASSUME NEW b \in {"disabled", "no active time rule", "no rotation items"},
             Becomes(t, "inserts", [Undecided EXCEPT !.reason = b])
      PROVE LET r == th'[t].status IN
            /\ th'[t].pc = "inserts" /\ r.next \in Times /\ r.presence = "" /\ r.reason = b
  <2> DEFINE s == [Undecided EXCEPT !.reason = b]
  <2>0. Becomes(t, "inserts", s)
    BY <1>5
  <2>1. IsStatus(s) /\ s.next = Never /\ s.presence = "" /\ s.reason = b
    BY FromNothing DEF Undecided
  <2> HIDE DEF s
  <2>2. th'[t].pc = "inserts" /\ th'[t].status = s
    BY <2>0, <2>1, DecisionSet
  <2>q. QED BY <2>1, <2>2 DEF Times
<1>6. ASSUME rules # {}, kiosk.pages # 0, Becomes(t, "inserts",
               [Undecided EXCEPT !.target = page, !.reason = "time", !.next = ends])
      PROVE LET r == th'[t].status IN
            /\ th'[t].pc = "inserts" /\ r.next \in Times /\ r.presence = "" /\ r.reason = "time"
            /\ Ruled(kiosk, r, now)
  <2> DEFINE s == [Undecided EXCEPT !.target = page, !.reason = "time", !.next = ends]
  <2>0. Becomes(t, "inserts", s)
    BY <1>6
  <2>1. IsStatus(s) /\ s.next = ends /\ s.target = page /\ s.presence = "" /\ s.reason = "time"
    <3>1. IsStatus(s)
      BY FromNothing, Zenon
    <3>2. s.next = ends /\ s.target = page
      BY DEF Undecided
    <3>3. s.presence = "" /\ s.reason = "time"
      BY DEF Undecided
    <3>q. QED BY <3>1, <3>2, <3>3
  <2> HIDE DEF s
  <2>2. th'[t].pc = "inserts" /\ th'[t].status = s
    BY <2>0, <2>1, DecisionSet
  <2>3. Ruled(kiosk, s, now)
    BY <1>3, <1>6, <2>1
  <2>q. QED BY <1>2, <1>6, <2>1, <2>2, <2>3 DEF Times
<1>q. QED BY <1>1, <1>4, <1>5, <1>6

\* The rotation says until when.
LEMMA RotationSays ==
  ASSUME ShapeInv, TypeOK, NEW t \in Threads, TargetRotation(t), Known(th[t].snap)
  PROVE LET r == th'[t].status IN
        /\ r.next \in Times /\ r.next # Never /\ r.next = rotation'.until
        /\ r.reason = "rotation" /\ r.presence = ""
        /\ rotation'.index = rotation.index /\ rotation'.cycles = rotation.cycles
        /\ rotation' = [index |-> rotation'.index, until |-> rotation'.until,
                        cycles |-> rotation'.cycles]
        /\ ~RunsOut => rotation'.until = rotation.until
<1> DEFINE kiosk == th[t].snap
           item  == kiosk.rotation[rotation.index]
           page  == ClampPage(item.page, kiosk.pages)
           until == IF RunsOut THEN now + item.duration ELSE rotation.until
           s == [Undecided EXCEPT !.target = page, !.reason = "rotation", !.next = until]
<1>t. now \in Nat /\ rotation.until \in Times /\ rotation = [index |-> rotation.index,
        until |-> rotation.until, cycles |-> rotation.cycles]
  BY TimesTyped
<1>1. /\ rotation.index \in DOMAIN kiosk.rotation
      /\ rotation' = [rotation EXCEPT !.until = until]
      /\ Becomes(t, "inserts", s)
  BY DEF TargetRotation
<1>2. item.duration \in Nat
  BY <1>1 DEF Known, ValidProgram
<1> HIDE DEF item, page
<1>3. until \in Times /\ until # Never
  BY <1>t, <1>2 DEF Times, RunsOut, Never
<1>4. ~RunsOut => until = rotation.until
  OBVIOUS
<1> HIDE DEF until
<1>5. IsStatus(s) /\ s.next = until /\ s.reason = "rotation" /\ s.presence = ""
  <2>1. IsStatus(s)
    BY FromNothing, Zenon
  <2>2. s.next = until
    BY DEF Undecided
  <2>3. s.presence = "" /\ s.reason = "rotation"
    BY DEF Undecided
  <2>q. QED BY <2>1, <2>2, <2>3
<1> HIDE DEF s
<1>6. th'[t].status = s
  BY <1>1, <1>5, DecisionSet
<1>7. /\ rotation'.until = until /\ rotation'.index = rotation.index
      /\ rotation'.cycles = rotation.cycles
      /\ rotation' = [index |-> rotation'.index, until |-> rotation'.until,
                      cycles |-> rotation'.cycles]
  BY <1>t, <1>1
<1>q. QED BY <1>3, <1>4, <1>5, <1>6, <1>7

\* The insert that runs is shown unless the display is to be off, up to the next change
\* of inserts.
LEMMA InsertsSay ==
  ASSUME ShapeInv, TypeOK, NEW t \in Threads, TargetInserts(t), Known(th[t].snap),
         th[t].status.next \in Times
  PROVE LET c == th[t].snap
            r == th'[t].status
            slot == ActiveInsert(c, now)
        IN
        /\ r.next \in Times
        /\ c.presence = "off" => r.presence = th[t].status.presence
        /\ c.presence # "off" => r.presence = Presence(c, presence, now)
        /\ PresenceHolds(c, r)
        /\ \A u \in Nat : Before(u, r.next) =>
             /\ Before(u, th[t].status.next)
             /\ c.inserts = <<>> \/ Before(u, NextInsertChange(c, now))
        /\ \/ r.reason = "insert" /\ slot # NoSlot /\ r.target = c.inserts[slot.index].page
           \/ /\ r.reason = th[t].status.reason
              /\ slot = NoSlot \/ WantsOff(c, r)
              /\ r.target = th[t].status.target \/ th[t].status.target = NoPage
<1> DEFINE c == th[t].snap
           old == th[t].status
           base == ApplyPresence(c, old)
           next == NextInsertChange(c, now)
           late == Sooner(base.next, next)
           timed == IF c.inserts = <<>> THEN base ELSE [base EXCEPT !.next = late]
           off == WantsOff(c, base)
           slot == ActiveInsert(c, now)
           shows == ~off /\ slot # NoSlot
           back == insert.showing /\ base.target = NoPage /\ ~off /\ c.inserts # <<>>
           page == c.inserts[slot.index].page
           home == ClampPage(insert.back, c.pages)
<1>1. Becomes(t, "decided",
        IF shows THEN [timed EXCEPT !.reason = "insert", !.target = page]
        ELSE IF back THEN [timed EXCEPT !.target = home] ELSE timed)
  BY DEF TargetInserts, Status
<1>t. /\ now \in Nat /\ presence \in Times /\ ValidProgram(c) /\ IsStatus(old)
      /\ c.timeout \in Nat
  BY TimesTyped DEF Known, ValidProgram, ShapeInv, IsThread
<1>2. /\ IsStatus(base) /\ base.target = old.target /\ base.reason = old.reason
      /\ base.next \in Times
      /\ c.presence = "off" => base.presence = old.presence
      /\ c.presence # "off" => base.presence = Presence(c, presence, now)
  <2>1. /\ IsStatus(base) /\ base.target = old.target /\ base.reason = old.reason
        /\ base.next \in Times
        /\ base.presence = IF c.presence = "off" THEN old.presence
                           ELSE IF Absent(c, presence, now) THEN "absent" ELSE "present"
    BY <1>t, PresenceNext, ZenonT(60)
  <2> HIDE DEF base
  <2>q. QED BY <2>1, Zenon DEF Presence
<1>3. \A u \in Nat : Before(u, base.next) =>
             /\ Before(u, old.next)
             /\ c.presence # "off" /\ now <= u =>
                  (Absent(c, presence, u) <=> Absent(c, presence, now))
  BY <1>t, PresenceNext
<1>4. next \in Times
  BY <1>t, NextChangeIs
<1> HIDE DEF base, next
<1>5. late \in Times /\ \A u \in Nat : Before(u, late) => Before(u, base.next) /\ Before(u, next)
  BY <1>2, <1>4, SoonerOfTwo
<1> HIDE DEF late
<1>6. /\ IsStatus(timed) /\ timed.target = base.target /\ timed.reason = base.reason
      /\ timed.presence = base.presence
  <2>1. /\ IsStatus([base EXCEPT !.next = late])
        /\ [base EXCEPT !.next = late].target = base.target
        /\ [base EXCEPT !.next = late].reason = base.reason
        /\ [base EXCEPT !.next = late].presence = base.presence
    BY <1>2, StatusParts, ZenonT(60)
  <2>q. QED BY <1>2, <2>1
<1>7. timed.next \in Times /\ \A u \in Nat : Before(u, timed.next) =>
        Before(u, base.next) /\ (c.inserts = <<>> \/ Before(u, next))
  <2>1. CASE c.inserts = <<>>
    BY <1>2, <2>1
  <2>2. CASE c.inserts # <<>>
    <3>1. timed.next = late
      BY <1>2, <2>2 DEF IsStatus
    <3> HIDE DEF timed
    <3>q. QED BY <1>5, <2>2, <3>1
  <2>q. QED BY <2>1, <2>2
<1>8. WantsOff(c, timed) <=> off
  <2> HIDE DEF timed
  <2>q. QED BY <1>6 DEF WantsOff
<1> HIDE DEF timed, off, slot, page, home
<1> DEFINE Says(r) ==
        /\ IsStatus(r) /\ r.next = timed.next /\ r.presence = timed.presence
        /\ \/ r.reason = "insert" /\ slot # NoSlot /\ r.target = page
           \/ /\ r.reason = old.reason
              /\ slot = NoSlot \/ WantsOff(c, r)
              /\ r.target = old.target \/ old.target = NoPage
<1>9. \E r : Says(r) /\ Becomes(t, "decided", r)
  <2>1. CASE shows
    <3> DEFINE q == [timed EXCEPT !.reason = "insert"]
               r == [q EXCEPT !.target = page]
    <3>1. IsStatus(q) /\ q.reason = "insert" /\ q.next = timed.next /\ q.presence = timed.presence
      BY <1>6 DEF IsStatus
    <3>2. IsStatus(r) /\ r.target = page /\ r.reason = q.reason /\ r.next = q.next
          /\ r.presence = q.presence
      <4> HIDE DEF q
      <4>q. QED BY <3>1 DEF IsStatus
    <3>3. Becomes(t, "decided", r)
      BY <1>1, <2>1
    <3> HIDE DEF r, q
    <3>4. Says(r)
      BY <2>1, <3>1, <3>2
    <3>q. QED BY <3>3, <3>4
  <2>2. CASE ~shows /\ back
    <3> DEFINE r == [timed EXCEPT !.target = home]
    <3>1. /\ IsStatus(r) /\ r.reason = timed.reason /\ r.next = timed.next
          /\ r.presence = timed.presence
      BY <1>6 DEF IsStatus
    <3>2. Becomes(t, "decided", r)
      BY <1>1, <2>2
    <3> HIDE DEF r
    <3>3. old.target = NoPage /\ slot = NoSlot
      BY <1>2, <2>2
    <3>4. Says(r)
      BY <1>2, <1>6, <2>2, <3>1, <3>3
    <3>q. QED BY <3>2, <3>4
  <2>3. CASE ~shows /\ ~back
    <3>1. Becomes(t, "decided", timed)
      BY <1>1, <2>3
    <3>2. slot = NoSlot \/ WantsOff(c, timed)
      BY <1>8, <2>3
    <3>3. Says(timed)
      BY <1>2, <1>6, <3>2
    <3>q. QED BY <3>1, <3>3
  <2>q. QED BY <2>1, <2>2, <2>3
<1>10. PICK r : Says(r) /\ Becomes(t, "decided", r)
  BY <1>9
<1>11. th'[t].status = r
  <2>1. IsStatus(r) /\ Becomes(t, "decided", r)
    BY <1>10
  <2>q. QED BY <2>1, DecisionSet
<1>12. PresenceHolds(c, r)
  <2> HIDE DEF Says
  <2>1. r.next = timed.next
    BY <1>10 DEF Says
  <2>q. QED BY <1>3, <1>7, <2>1 DEF PresenceHolds
<1>13. \A u \in Nat : Before(u, r.next) =>
             Before(u, old.next) /\ (c.inserts = <<>> \/ Before(u, next))
  <2> HIDE DEF Says
  <2>1. r.next = timed.next
    BY <1>10 DEF Says
  <2>q. QED BY <1>3, <1>7, <2>1
<1>14. /\ r.next \in Times
       /\ c.presence = "off" => r.presence = old.presence
       /\ c.presence # "off" => r.presence = Presence(c, presence, now)
  BY <1>2, <1>6, <1>7, <1>10
<1>15. \/ r.reason = "insert" /\ slot # NoSlot /\ r.target = page
       \/ /\ r.reason = old.reason
          /\ slot = NoSlot \/ WantsOff(c, r)
          /\ r.target = old.target \/ old.target = NoPage
  BY <1>10
<1>q. QED BY <1>11, <1>12, <1>13, <1>14, <1>15 DEF slot, page, next

-----------------------------------------------------------------------------
(* What threads know.                                                     *)

\* What a thread knows: the configuration of its round, a programme that was saved, what to set the display to, when its
\* decision changes, and, a caller, what it was asked.
Fine(t, r) ==
  /\ t = "scheduler" /\ r.pc # "sleep" => r.round \in Configs
  /\ r.pc \in Deciding => Known(r.snap)
  /\ r.pc \in {"setting", "noting"} => r.wish.power \in {"ON", "OFF"}
  /\ r.status.next \in Times
  /\ r.status.reason = "insert" => r.status.target # NoPage
  /\ t \in Callers =>
       /\ r.pc # "sleep" /\ r.after \in {"idle", "record"}
       /\ "record" \in {r.pc, r.after} /\ r.pc \in {"navigating", "record"}
            => r.wish.page \in Pages

\* Callers are threads, and none of them is the scheduler.
LEMMA CallerIsThread == "scheduler" \in Threads /\ \A c \in Callers : c \in Threads /\ c # "scheduler"
BY SchedulerAssumption DEF Threads

\* KnownInv and CallerInv, by threads.
LEMMA FineIs ==
  /\ KnownInv /\ CallerInv <=> \A t \in Threads : Fine(t, th[t])
  /\ KnownInv' /\ CallerInv' <=> \A t \in Threads : Fine(t, th'[t])
<1>1. \A c \in Callers : c \in Threads
  BY CallerIsThread
<1>2. KnownInv /\ CallerInv <=> \A t \in Threads : Fine(t, th[t])
  BY <1>1 DEF KnownInv, CallerInv, Fine
<1>3. KnownInv' /\ CallerInv' <=> \A t \in Threads : Fine(t, th'[t])
  BY <1>1 DEF KnownInv, CallerInv, Fine
<1>q. QED BY <1>2, <1>3

\* A thread that has asked for nothing knows nothing wrong.
LEMMA NothingFine ==
  /\ \A t : t # "scheduler" => Fine(t, Idle)
  /\ \A t : t \notin Callers => Fine(t, Restarting)
  /\ Undecided.next = Never /\ Undecided.next \in Times /\ Undecided.reason = ""
<1>1. Undecided.next = Never /\ Undecided.next \in Times /\ Undecided.reason = ""
  BY DEF Undecided, Times
<1>2. /\ Idle.pc = "idle" /\ Idle.after = "idle" /\ Idle.status = Undecided
      /\ Restarting.pc = "sleep" /\ Restarting.status = Undecided
  BY DEF Idle, Restarting
<1>q. QED BY <1>1, <1>2 DEF Fine, Deciding

\* A thread goes to another place, with what it knows.
LEMMA GoesFine ==
  ASSUME ShapeInv, NEW t \in Threads, NEW p, GoTo(t, p), Fine(t, th[t]),
         t = "scheduler" => th[t].pc # "sleep", p \in Deciding => th[t].pc \in Deciding,
         p \in {"setting", "noting"} => th[t].pc \in {"setting", "noting"},
         t \in Callers => p # "sleep",
         t \in Callers /\ "record" \in {p, th[t].after} /\ p \in {"navigating", "record"}
           => th[t].wish.page \in Pages
  PROVE Alone(t, th'[t]) /\ Fine(t, th'[t])
BY PlaceSet DEF Fine

\* A page there is may be noted.
LEMMA PageThere ==
  ASSUME NEW c \in Configs, NEW page \in 1..c.pages
  PROVE page \in Pages
<1>1. page \in 0..c.pages
  BY SavedIsValid
<1>q. QED BY <1>1 DEF Pages

\* The scheduler goes on with what it was told and has decided, or with another target.
LEMMA SchedulerFine ==
  ASSUME ShapeInv, Alone("scheduler", Me'), Fine("scheduler", Me),
         Me.pc # "sleep", Me'.round = Me.round, Me'.pc \notin Deciding,
         Me'.pc \in {"setting", "noting"} => Me'.wish.power \in {"ON", "OFF"},
         Me'.status.next = Me.status.next, Me'.status.reason = Me.status.reason,
         Me.status.target = NoPage \/ Me'.status.target = Me.status.target
  PROVE Alone("scheduler", th'["scheduler"]) /\ Fine("scheduler", th'["scheduler"])
BY CallerIsThread DEF Fine, Me

\* A step leaves all threads, ends the process, or moves one thread that stays fine.
LEMMA FineSteps ==
  ASSUME ShapeInv, WishInv, AfterInv, TypeOK, KnownInv, CallerInv, Next
  PROVE \/ th' = th \/ th' = Anew
        \/ \E t \in Threads : Alone(t, th'[t]) /\ Fine(t, th'[t])
<1> DEFINE Goal == \/ th' = th \/ th' = Anew
                   \/ \E t \in Threads : Alone(t, th'[t]) /\ Fine(t, th'[t])
<1>0. "scheduler" \in Threads /\ \A c \in Callers : c \in Threads /\ c # "scheduler"
  BY CallerIsThread
<1>f. \A t \in Threads : Fine(t, th[t])
  BY FineIs
<1>m. Fine("scheduler", Me)
  BY <1>0, <1>f DEF Me
<1>c. cfg \in Configs
  BY TimesTyped
<1>1. ASSUME NEW t \in Threads, TargetOverride(t) PROVE Goal
  <2>1. /\ Alone(t, th'[t]) /\ th[t].pc = "override"
        /\ th'[t].after = th[t].after /\ th'[t].wish = th[t].wish /\ th'[t].round = th[t].round
        /\ override'.active => th'[t].pc = "decided" /\ th'[t].status.reason = "override"
    BY <1>1, OverrideStep
  <2>2. /\ override'.active => th'[t].status.next \in Times
        /\ ~override'.active =>
             th'[t].pc = "base" /\ th'[t].status = th[t].status /\ th'[t].snap = Where(cfg, holds)
    BY <1>1, OverrideSays
  <2>3. Known(Where(cfg, holds))
    BY <1>c, WhereIsKnown
  <2>4. Fine(t, th'[t])
    BY <1>f, <2>1, <2>2, <2>3 DEF Fine, Deciding
  <2>q. QED BY <2>1, <2>4
<1>2. ASSUME NEW t \in Threads, TargetBase(t) PROVE Goal
  <2>1. /\ Alone(t, th'[t]) /\ th[t].pc = "base" /\ th'[t].pc \in {"extend", "inserts"}
        /\ th'[t].after = th[t].after /\ th'[t].wish = th[t].wish /\ th'[t].snap = th[t].snap
        /\ th'[t].round = th[t].round
    BY <1>2, BaseStep
  <2>2. Known(th[t].snap)
    BY <1>f, <2>1 DEF Fine, Deciding
  <2>3. th'[t].status = th[t].status
        \/ /\ th'[t].status.next \in Times
           /\ th'[t].status.reason \in {"disabled", "no active time rule", "no rotation items", "time"}
    BY <1>2, <2>2, BaseSays
  <2>4. Fine(t, th'[t])
    BY <1>f, <2>1, <2>2, <2>3 DEF Fine, Deciding
  <2>q. QED BY <2>1, <2>4
<1>3. ASSUME NEW t \in Threads, PanicsAtRotation(t) PROVE Goal
  BY <1>3 DEF PanicsAtRotation, ServiceEnds, Anew
<1>4. ASSUME NEW t \in Threads, TargetRotation(t) PROVE Goal
  <2>1. /\ Alone(t, th'[t]) /\ th[t].pc = "extend" /\ th'[t].pc = "inserts"
        /\ th'[t].after = th[t].after /\ th'[t].wish = th[t].wish /\ th'[t].snap = th[t].snap
        /\ th'[t].round = th[t].round
    BY <1>4, RotationStep
  <2>2. Known(th[t].snap)
    BY <1>f, <2>1 DEF Fine, Deciding
  <2>3. th'[t].status.next \in Times /\ th'[t].status.reason = "rotation"
    BY <1>4, <2>2, RotationSays
  <2>4. Fine(t, th'[t])
    BY <1>f, <2>1, <2>2, <2>3 DEF Fine, Deciding
  <2>q. QED BY <2>1, <2>4
<1>5. ASSUME NEW t \in Threads, TargetInserts(t) PROVE Goal
  <2>1. /\ Alone(t, th'[t]) /\ th[t].pc = "inserts" /\ th'[t].pc = "decided"
        /\ th'[t].after = th[t].after /\ th'[t].wish = th[t].wish /\ th'[t].snap = th[t].snap
        /\ th'[t].round = th[t].round
    BY <1>5, InsertsStep
  <2>2. Known(th[t].snap) /\ th[t].status.next \in Times
    BY <1>f, <2>1 DEF Fine, Deciding
  <2> DEFINE c == th[t].snap
             slot == ActiveInsert(c, now)
             r == th'[t].status
  <2>3. /\ r.next \in Times
        /\ \/ r.reason = "insert" /\ slot # NoSlot /\ r.target = c.inserts[slot.index].page
           \/ /\ r.reason = th[t].status.reason
              /\ r.target = th[t].status.target \/ th[t].status.target = NoPage
    BY <1>5, <2>2, InsertsSay
  <2>4. now \in Nat /\ ValidProgram(c)
    BY <2>2, TimesTyped DEF Known
  <2>5. slot # NoSlot => c.inserts[slot.index].page # NoPage
    BY <2>4, ActiveParts
  <2> HIDE DEF slot, c
  <2>6. Fine(t, th'[t])
    BY <1>f, <2>1, <2>3, <2>5 DEF Fine, Deciding
  <2>q. QED BY <2>1, <2>6
<1>6. ASSUME NEW t \in Threads, SwitchBegins(t) PROVE Goal
  <2>1. PICK p : GoTo(t, p) /\ (\/ p = "navigating" /\ th[t].status.target \in 1..cfg.pages
                                \/ p = AfterFailure(t))
    BY <1>6 DEF SwitchBegins, Proceed, Status
  <2>2. th[t].pc = "gate"
    BY <1>6 DEF SwitchBegins, IsAt
  <2>3. t \in Callers => AfterFailure(t) = "idle"
    BY <1>0 DEF AfterFailure
  <2>4. t = "scheduler" => AfterFailure(t) \in {"maintain", "sleep"}
    BY <2>2 DEF AfterFailure, AfterInv, Me
  <2>5. t \in Callers \/ t = "scheduler"
    BY DEF Threads
  <2>6. ASSUME t \in Callers, "record" \in {p, th[t].after}, p \in {"navigating", "record"}
        PROVE th[t].wish.page \in Pages
    <3>1. p = "navigating" /\ th[t].after = "record" /\ th[t].status.target \in 1..cfg.pages
      BY <2>1, <2>3, <2>6
    <3>2. th[t].status.target = th[t].wish.page
      BY <2>2, <2>6, <3>1 DEF WishInv, Asked
    <3>q. QED BY <1>c, <3>1, <3>2, PageThere
  <2>7. Alone(t, th'[t]) /\ Fine(t, th'[t])
    BY <1>f, <2>1, <2>2, <2>3, <2>4, <2>5, <2>6, GoesFine DEF Deciding
  <2>q. QED BY <2>7
<1>7. ASSUME NEW t \in Threads, SwitchSucceeds(t) PROVE Goal
  <2>1. GoTo(t, th[t].after) /\ th[t].pc = "navigating"
    BY <1>7 DEF SwitchSucceeds, Proceed, IsAt
  <2>2. t = "scheduler" => th[t].after \in {"maintain", "sleep"}
    BY <2>1 DEF AfterInv, Me
  <2>3. t \in Callers => th[t].after \in {"idle", "record"}
                         /\ (th[t].after = "record" => th[t].wish.page \in Pages)
    BY <1>f, <2>1 DEF Fine
  <2>4. t \in Callers \/ t = "scheduler"
    BY DEF Threads
  <2>5. Alone(t, th'[t]) /\ Fine(t, th'[t])
    BY <1>0, <1>f, <2>1, <2>2, <2>3, <2>4, GoesFine DEF Deciding
  <2>q. QED BY <2>5
<1>8. ASSUME NEW t \in Threads, SwitchFails(t) PROVE Goal
  <2>1. GoTo(t, AfterFailure(t)) /\ th[t].pc = "navigating"
    BY <1>8 DEF SwitchFails, Proceed, IsAt
  <2>2. t = "scheduler" => AfterFailure(t) \in {"maintain", "sleep"}
    BY <2>1 DEF AfterInv, Me, AfterFailure
  <2>3. t \in Callers => AfterFailure(t) = "idle"
    BY <1>0 DEF AfterFailure
  <2>4. t \in Callers \/ t = "scheduler"
    BY DEF Threads
  <2>5. Alone(t, th'[t]) /\ Fine(t, th'[t])
    BY <1>0, <1>f, <2>1, <2>2, <2>3, <2>4, GoesFine DEF Deciding
  <2>q. QED BY <2>5
<1>9. ASSUME NEW t \in Threads, SwitchRefused(t) PROVE Goal
  <2>1. GoTo(t, AfterFailure(t)) /\ th[t].pc = "gate"
    BY <1>9 DEF SwitchRefused, Proceed, IsAt
  <2>2. t = "scheduler" => AfterFailure(t) \in {"maintain", "sleep"}
    BY <2>1 DEF AfterInv, Me, AfterFailure
  <2>3. t \in Callers => AfterFailure(t) = "idle"
    BY <1>0 DEF AfterFailure
  <2>4. t \in Callers \/ t = "scheduler"
    BY DEF Threads
  <2>5. Alone(t, th'[t]) /\ Fine(t, th'[t])
    BY <1>0, <1>f, <2>1, <2>2, <2>3, <2>4, GoesFine DEF Deciding
  <2>q. QED BY <2>5
<1>10. ASSUME NEW t \in Threads, PanelSet(t) PROVE Goal
  <2>1. PICK p \in {"noting", th[t].after} : GoTo(t, p)
    BY <1>10 DEF PanelSet
  <2>2. th[t].pc = "setting"
    BY <1>10 DEF PanelSet, IsAt
  <2>3. t = "scheduler" => th[t].after = "blank"
    BY <2>2 DEF AfterInv, Me
  <2>4. t \in Callers => th[t].after = "idle"
    BY <1>f, <2>2 DEF Fine, WishInv, Asked
  <2>5. t \in Callers \/ t = "scheduler"
    BY DEF Threads
  <2>6. Alone(t, th'[t]) /\ Fine(t, th'[t])
    BY <1>0, <1>f, <2>1, <2>2, <2>3, <2>4, <2>5, GoesFine DEF Deciding
  <2>q. QED BY <2>6
<1>11. ASSUME NEW t \in Threads, PanelNoted(t) PROVE Goal
  <2>1. GoTo(t, th[t].after)
    BY <1>11 DEF PanelNoted
  <2>2. th[t].pc = "noting"
    BY <1>11 DEF PanelNoted, IsAt
  <2>3. t = "scheduler" => th[t].after = "blank"
    BY <2>2 DEF AfterInv, Me
  <2>4. t \in Callers => th[t].after = "idle"
    BY <1>f, <2>2 DEF Fine, WishInv, Asked
  <2>5. t \in Callers \/ t = "scheduler"
    BY DEF Threads
  <2>6. Alone(t, th'[t]) /\ Fine(t, th'[t])
    BY <1>0, <1>f, <2>1, <2>2, <2>3, <2>4, <2>5, GoesFine DEF Deciding
  <2>q. QED BY <2>6
<1>12. ASSUME NEW c \in Callers, NEW wish \in Wishes, CallBegins(c, wish) PROVE Goal
  <2>1. /\ Alone(c, th'[c]) /\ th'[c].wish = wish
        /\ th'[c].pc \in {"gate", "clear", "setting"}
        /\ th'[c].pc = "setting" => wish.kind = "display"
        /\ th'[c].after \in {"idle", "record"}
        /\ th'[c].status.next = Never /\ th'[c].status.reason = ""
    BY <1>12, CallStep
  <2>2. wish.kind = "display" => wish.power \in {"ON", "OFF"}
    BY WishesAssumption
  <2>3. Fine(c, th'[c])
    BY <1>0, <2>1, <2>2 DEF Fine, Deciding, Times
  <2>q. QED BY <1>0, <2>1, <2>3
<1>13. ASSUME NEW c \in Callers, RecordOverride(c) PROVE Goal
  <2>1. GoTo(c, "persist")
    BY <1>13 DEF RecordOverride
  <2>2. Alone(c, th'[c]) /\ Fine(c, th'[c])
    BY <1>0, <1>f, <2>1, GoesFine DEF Deciding
  <2>q. QED BY <1>0, <2>2
<1>14. ASSUME NEW c \in Callers, ForgetOverride(c) PROVE Goal
  <2>1. GoTo(c, "persist")
    BY <1>14 DEF ForgetOverride
  <2>2. Alone(c, th'[c]) /\ Fine(c, th'[c])
    BY <1>0, <1>f, <2>1, GoesFine DEF Deciding
  <2>q. QED BY <1>0, <2>2
<1>15. ASSUME NEW c \in Callers, Persist(c) PROVE Goal
  <2>1. PICK p \in {"override", "idle"} : GoTo(c, p)
    BY <1>15 DEF Persist
  <2>2. Alone(c, th'[c]) /\ Fine(c, th'[c])
    BY <1>0, <1>f, <2>1, GoesFine DEF Deciding
  <2>q. QED BY <1>0, <2>2
<1>16. ASSUME NEW c \in Callers, CallerDecided(c) PROVE Goal
  <2>1. PICK p \in {"gate", "idle"} : GoTo(c, p)
    BY <1>16 DEF CallerDecided
  <2>2. Alone(c, th'[c]) /\ Fine(c, th'[c])
    BY <1>0, <1>f, <2>1, GoesFine DEF Deciding
  <2>q. QED BY <1>0, <2>2
<1>17. ASSUME Wake PROVE Goal
  <2>1. CASE th' # th
    <3>1. /\ Alone("scheduler", Me') /\ Me'.pc = "override" /\ Me'.status = Undecided
          /\ Me'.round = cfg
      BY <1>17, <2>1, WakeStep
    <3>2. Fine("scheduler", Me')
      BY <1>0, <1>c, <3>1, NothingFine DEF Fine, Deciding
    <3>q. QED BY <1>0, <3>1, <3>2 DEF Me
  <2>q. QED BY <2>1
<1>18. ASSUME SignalWakes \/ ChangeWakes \/ SignalArrives \/ ConfigSaved \/ MQTTTakesChange
              \/ BrowserStops \/ BrowserStarts \/ Boot \/ PersistLater \/ Tick
       PROVE Goal
  BY <1>18 DEF SignalWakes, ChangeWakes, SignalArrives, ConfigSaved, MQTTTakesChange,
               BrowserStops, BrowserStarts, Boot, PersistLater, Tick
<1>19. ASSUME SchedulerDecided PROVE Goal
  <2>1. PICK p \in {"maintain", "gate"} : GoTo("scheduler", p) /\ th["scheduler"].pc = "decided"
    BY <1>19 DEF SchedulerDecided, IsAt
  <2>2. Alone("scheduler", th'["scheduler"]) /\ Fine("scheduler", th'["scheduler"])
    BY <1>0, <1>f, <2>1, GoesFine DEF Deciding
  <2>q. QED BY <1>0, <2>2
<1>20. ASSUME Maintain PROVE Goal
  <2>1. GoTo("scheduler", "power") /\ th["scheduler"].pc = "maintain"
    BY <1>20 DEF Maintain, IsAt
  <2>2. Alone("scheduler", th'["scheduler"]) /\ Fine("scheduler", th'["scheduler"])
    BY <1>0, <1>f, <2>1, GoesFine DEF Deciding
  <2>q. QED BY <1>0, <2>2
<1>21. ASSUME PowerNeeded PROVE Goal
  <2>1. /\ Alone("scheduler", Me') /\ Me'.status = Me.status /\ Me'.round = Me.round /\ Me.pc = "power"
        /\ Me'.pc = "blank" \/ (Me'.pc = "setting" /\ Me'.wish.power = Wanted(cfg))
    BY <1>21, PowerStep
  <2>2. Wanted(cfg) \in {"ON", "OFF"}
    BY DEF Wanted
  <2>3. Alone("scheduler", th'["scheduler"]) /\ Fine("scheduler", th'["scheduler"])
    BY <1>m, <2>1, <2>2, SchedulerFine DEF Deciding
  <2>q. QED BY <1>0, <2>3
<1>22. ASSUME BlankOrRestore PROVE Goal
  <2>1. /\ Alone("scheduler", Me') /\ Me'.pc \in {"blanking", "gate", "sleep"}
        /\ Me.pc = "blank" /\ Me'.round = Me.round
        /\ Me'.status.next = Me.status.next /\ Me'.status.reason = Me.status.reason
        /\ Me.status.target = NoPage \/ Me'.status.target = Me.status.target
    BY <1>22, BlankStep DEF Keeps, Me
  <2>2. Alone("scheduler", th'["scheduler"]) /\ Fine("scheduler", th'["scheduler"])
    BY <1>m, <2>1, SchedulerFine DEF Deciding
  <2>q. QED BY <1>0, <2>2
<1>23. ASSUME Blanks \/ BlankNoted PROVE Goal
  <2>1. PICK p \in {"blanked", "sleep"} :
          GoTo("scheduler", p) /\ th["scheduler"].pc \in {"blanking", "blanked"}
    BY <1>23 DEF Blanks, BlankNoted, Proceed, IsAt
  <2>2. Alone("scheduler", th'["scheduler"]) /\ Fine("scheduler", th'["scheduler"])
    BY <1>0, <1>f, <2>1, GoesFine DEF Deciding
  <2>q. QED BY <1>0, <2>2
<1>24. ASSUME PowerLost PROVE Goal
  BY <1>24 DEF PowerLost, ServiceEnds, Anew
<1> HIDE DEF Goal
<1>25. Goal
  BY <1>1, <1>2, <1>3, <1>4, <1>5, <1>6, <1>7, <1>8, <1>9, <1>10, <1>11, <1>12, <1>13,
    <1>14, <1>15, <1>16, <1>17, <1>18, <1>19, <1>20, <1>21, <1>22, <1>23, <1>24, NextSteps
<1>q. QED BY <1>25 DEF Goal

\* What threads know stays known, whatever they do.
LEMMA FineKept ==
  ASSUME ShapeInv, WishInv, AfterInv, TypeOK, KnownInv, CallerInv, Next
  PROVE KnownInv' /\ CallerInv'
<1>1. \A t \in Threads : Fine(t, th[t])
  BY FineIs
<1>2. CASE th' = th
  BY <1>1, <1>2, FineIs
<1>3. CASE th' = Anew
  <2>1. \A t \in Threads : Fine(t, Anew[t])
    BY NothingFine, CallerIsThread DEF Anew
  <2>q. QED BY <1>3, <2>1, FineIs
<1>4. ASSUME NEW t \in Threads, Alone(t, th'[t]), Fine(t, th'[t])
      PROVE \A u \in Threads : Fine(u, th'[u])
  BY <1>1, <1>4 DEF Alone
<1>q. QED BY <1>2, <1>3, <1>4, FineIs, FineSteps

-----------------------------------------------------------------------------
(* What each step leaves alone.                                           *)

\* What is saved, signalled and detected changes with the world only, and with the
\* scheduler's notice of it.
LEMMA WorldMoves ==
  ASSUME Next
  PROVE \/ UNCHANGED <<cfg, changed, signalled, holds, presence>>
        \/ SignalWakes \/ ChangeWakes \/ SignalArrives \/ ConfigSaved \/ MQTTTakesChange
        \/ Boot
<1>1. ASSUME NEW t \in Threads,
             \/ TargetOverride(t) \/ TargetBase(t) \/ PanicsAtRotation(t)
             \/ TargetRotation(t) \/ TargetInserts(t) \/ SwitchBegins(t)
             \/ SwitchSucceeds(t) \/ SwitchFails(t) \/ SwitchRefused(t) \/ PanelSet(t)
             \/ PanelNoted(t)
      PROVE UNCHANGED <<cfg, changed, signalled, holds, presence>>
  BY <1>1 DEF
    TargetOverride, TargetBase, PanicsAtRotation, TargetRotation, TargetInserts, SwitchBegins,
    SwitchSucceeds, SwitchFails, SwitchRefused, PanelSet, PanelNoted, worldVars, ServiceEnds
<1>2. ASSUME NEW c \in Callers,
             \/ RecordOverride(c) \/ ForgetOverride(c) \/ Persist(c) \/ CallerDecided(c)
      PROVE UNCHANGED <<cfg, changed, signalled, holds, presence>>
  BY <1>2 DEF
    RecordOverride, ForgetOverride, Persist, CallerDecided, worldVars
<1>3. ASSUME NEW c \in Callers, NEW wish \in Wishes, CallBegins(c, wish) PROVE UNCHANGED <<cfg, changed, signalled, holds, presence>>
  BY <1>3 DEF CallBegins, worldVars
<1>4. ASSUME \/ Wake \/ SchedulerDecided \/ Maintain \/ PowerNeeded \/ BlankOrRestore
             \/ Blanks \/ BlankNoted \/ BrowserStops \/ BrowserStarts \/ PowerLost
             \/ PersistLater \/ Tick
      PROVE UNCHANGED <<cfg, changed, signalled, holds, presence>>
  BY <1>4 DEF
    Wake, SchedulerDecided, Maintain, PowerNeeded, BlankOrRestore, Blanks, BlankNoted,
    BrowserStops, BrowserStarts, PowerLost, PersistLater, Tick, worldVars, ServiceEnds
<1>q. QED BY <1>1, <1>2, <1>3, <1>4, NextSteps

\* What changes the browser.
LEMMA BrowserMoves ==
  ASSUME Next
  PROVE \/ browser' = browser
        \/ \E t \in Threads : SwitchBegins(t) \/ SwitchSucceeds(t) \/ SwitchFails(t)
        \/ Blanks \/ BrowserStops \/ BrowserStarts \/ Boot
<1>1. ASSUME NEW t \in Threads,
             \/ TargetOverride(t) \/ TargetBase(t) \/ PanicsAtRotation(t)
             \/ TargetRotation(t) \/ TargetInserts(t) \/ SwitchRefused(t) \/ PanelSet(t)
             \/ PanelNoted(t)
      PROVE browser' = browser
  BY <1>1 DEF
    TargetOverride, TargetBase, PanicsAtRotation, TargetRotation, TargetInserts, SwitchRefused,
    PanelSet, PanelNoted, Proceed, ServiceEnds
<1>2. ASSUME NEW c \in Callers,
             \/ RecordOverride(c) \/ ForgetOverride(c) \/ Persist(c) \/ CallerDecided(c)
      PROVE browser' = browser
  BY <1>2 DEF
    RecordOverride, ForgetOverride, Persist, CallerDecided, Proceed
<1>3. ASSUME NEW c \in Callers, NEW wish \in Wishes, CallBegins(c, wish) PROVE browser' = browser
  BY <1>3 DEF CallBegins
<1>4. ASSUME \/ Wake \/ SignalWakes \/ ChangeWakes \/ SchedulerDecided \/ Maintain
             \/ PowerNeeded \/ BlankOrRestore \/ BlankNoted \/ SignalArrives \/ ConfigSaved
             \/ MQTTTakesChange \/ PowerLost \/ PersistLater \/ Tick
      PROVE browser' = browser
  BY <1>4 DEF
    Wake, SignalWakes, ChangeWakes, SchedulerDecided, Maintain, PowerNeeded, BlankOrRestore,
    BlankNoted, SignalArrives, ConfigSaved, MQTTTakesChange, PowerLost, PersistLater, Tick,
    Proceed, ServiceEnds
<1>q. QED BY <1>1, <1>2, <1>3, <1>4, NextSteps

\* What changes the override and its file.
LEMMA StateMoves ==
  ASSUME Next
  PROVE \/ UNCHANGED <<override, saved, persistDue>>
        \/ \E t \in Threads : TargetOverride(t) \/ SwitchSucceeds(t) \/ SwitchFails(t) \/ PanicsAtRotation(t)
        \/ \E c \in Callers : RecordOverride(c) \/ ForgetOverride(c) \/ Persist(c)
        \/ PersistLater \/ PowerLost \/ Boot
<1>1. ASSUME NEW t \in Threads,
             \/ TargetBase(t) \/ TargetRotation(t) \/ TargetInserts(t) \/ SwitchBegins(t)
             \/ SwitchRefused(t) \/ PanelSet(t) \/ PanelNoted(t)
      PROVE UNCHANGED <<override, saved, persistDue>>
  BY <1>1 DEF
    TargetBase, TargetRotation, TargetInserts, SwitchBegins, SwitchRefused, PanelSet,
    PanelNoted, stateVars
<1>2. ASSUME NEW c \in Callers,
             \/ CallerDecided(c)
      PROVE UNCHANGED <<override, saved, persistDue>>
  BY <1>2 DEF
    CallerDecided, stateVars
<1>3. ASSUME NEW c \in Callers, NEW wish \in Wishes, CallBegins(c, wish) PROVE UNCHANGED <<override, saved, persistDue>>
  BY <1>3 DEF CallBegins, stateVars
<1>4. ASSUME \/ Wake \/ SignalWakes \/ ChangeWakes \/ SchedulerDecided \/ Maintain
             \/ PowerNeeded \/ BlankOrRestore \/ Blanks \/ BlankNoted \/ SignalArrives
             \/ ConfigSaved \/ MQTTTakesChange \/ BrowserStops \/ BrowserStarts \/ Tick
      PROVE UNCHANGED <<override, saved, persistDue>>
  BY <1>4 DEF
    Wake, SignalWakes, ChangeWakes, SchedulerDecided, Maintain, PowerNeeded, BlankOrRestore,
    Blanks, BlankNoted, SignalArrives, ConfigSaved, MQTTTakesChange, BrowserStops,
    BrowserStarts, Tick, stateVars
<1>q. QED BY <1>1, <1>2, <1>3, <1>4, NextSteps

\* What changes the rotation.
LEMMA RotationMoves ==
  ASSUME Next
  PROVE \/ rotation' = rotation
        \/ \E t \in Threads : TargetBase(t) \/ TargetRotation(t)
        \/ \E c \in Callers : ForgetOverride(c)
        \/ ChangeWakes \/ Maintain \/ Boot
<1>1. ASSUME NEW t \in Threads,
             \/ TargetOverride(t) \/ PanicsAtRotation(t) \/ TargetInserts(t)
             \/ SwitchBegins(t) \/ SwitchSucceeds(t) \/ SwitchFails(t) \/ SwitchRefused(t)
             \/ PanelSet(t) \/ PanelNoted(t)
      PROVE rotation' = rotation
  BY <1>1 DEF
    TargetOverride, PanicsAtRotation, TargetInserts, SwitchBegins, SwitchSucceeds, SwitchFails,
    SwitchRefused, PanelSet, PanelNoted, programVars, ServiceEnds
<1>2. ASSUME NEW c \in Callers,
             \/ RecordOverride(c) \/ Persist(c) \/ CallerDecided(c)
      PROVE rotation' = rotation
  BY <1>2 DEF
    RecordOverride, Persist, CallerDecided, programVars
<1>3. ASSUME NEW c \in Callers, NEW wish \in Wishes, CallBegins(c, wish) PROVE rotation' = rotation
  BY <1>3 DEF CallBegins, programVars
<1>4. ASSUME \/ Wake \/ SignalWakes \/ SchedulerDecided \/ PowerNeeded \/ BlankOrRestore
             \/ Blanks \/ BlankNoted \/ SignalArrives \/ ConfigSaved \/ MQTTTakesChange
             \/ BrowserStops \/ BrowserStarts \/ PowerLost \/ PersistLater \/ Tick
      PROVE rotation' = rotation
  BY <1>4 DEF
    Wake, SignalWakes, SchedulerDecided, PowerNeeded, BlankOrRestore, Blanks, BlankNoted,
    SignalArrives, ConfigSaved, MQTTTakesChange, BrowserStops, BrowserStarts, PowerLost,
    PersistLater, Tick, programVars, ServiceEnds
<1>q. QED BY <1>1, <1>2, <1>3, <1>4, NextSteps

\* What changes the note of an insert.
LEMMA InsertMoves ==
  ASSUME Next
  PROVE \/ insert' = insert
        \/ \E t \in Threads : TargetInserts(t)
        \/ Boot
<1>1. ASSUME NEW t \in Threads,
             \/ TargetOverride(t) \/ TargetBase(t) \/ PanicsAtRotation(t)
             \/ TargetRotation(t) \/ SwitchBegins(t) \/ SwitchSucceeds(t) \/ SwitchFails(t)
             \/ SwitchRefused(t) \/ PanelSet(t) \/ PanelNoted(t)
      PROVE insert' = insert
  BY <1>1 DEF
    TargetOverride, TargetBase, PanicsAtRotation, TargetRotation, SwitchBegins, SwitchSucceeds,
    SwitchFails, SwitchRefused, PanelSet, PanelNoted, programVars, ServiceEnds
<1>2. ASSUME NEW c \in Callers,
             \/ RecordOverride(c) \/ ForgetOverride(c) \/ Persist(c) \/ CallerDecided(c)
      PROVE insert' = insert
  BY <1>2 DEF
    RecordOverride, ForgetOverride, Persist, CallerDecided, programVars
<1>3. ASSUME NEW c \in Callers, NEW wish \in Wishes, CallBegins(c, wish) PROVE insert' = insert
  BY <1>3 DEF CallBegins, programVars
<1>4. ASSUME \/ Wake \/ SignalWakes \/ ChangeWakes \/ SchedulerDecided \/ Maintain
             \/ PowerNeeded \/ BlankOrRestore \/ Blanks \/ BlankNoted \/ SignalArrives
             \/ ConfigSaved \/ MQTTTakesChange \/ BrowserStops \/ BrowserStarts
             \/ PowerLost \/ PersistLater \/ Tick
      PROVE insert' = insert
  BY <1>4 DEF
    Wake, SignalWakes, ChangeWakes, SchedulerDecided, Maintain, PowerNeeded, BlankOrRestore,
    Blanks, BlankNoted, SignalArrives, ConfigSaved, MQTTTakesChange, BrowserStops,
    BrowserStarts, PowerLost, PersistLater, Tick, programVars, ServiceEnds
<1>q. QED BY <1>1, <1>2, <1>3, <1>4, NextSteps

\* What changes the display.
LEMMA DisplayMoves ==
  ASSUME Next
  PROVE \/ display' = display
        \/ \E t \in Threads : PanelSet(t) \/ PanelNoted(t)
        \/ BlankOrRestore \/ BlankNoted \/ Boot
<1>1. ASSUME NEW t \in Threads,
             \/ TargetOverride(t) \/ TargetBase(t) \/ PanicsAtRotation(t)
             \/ TargetRotation(t) \/ TargetInserts(t) \/ SwitchBegins(t)
             \/ SwitchSucceeds(t) \/ SwitchFails(t) \/ SwitchRefused(t)
      PROVE display' = display
  BY <1>1 DEF
    TargetOverride, TargetBase, PanicsAtRotation, TargetRotation, TargetInserts, SwitchBegins,
    SwitchSucceeds, SwitchFails, SwitchRefused, Proceed, ServiceEnds
<1>2. ASSUME NEW c \in Callers,
             \/ RecordOverride(c) \/ ForgetOverride(c) \/ Persist(c) \/ CallerDecided(c)
      PROVE display' = display
  BY <1>2 DEF
    RecordOverride, ForgetOverride, Persist, CallerDecided, Proceed
<1>3. ASSUME NEW c \in Callers, NEW wish \in Wishes, CallBegins(c, wish) PROVE display' = display
  BY <1>3 DEF CallBegins
<1>4. ASSUME \/ Wake \/ SignalWakes \/ ChangeWakes \/ SchedulerDecided \/ Maintain
             \/ PowerNeeded \/ Blanks \/ SignalArrives \/ ConfigSaved \/ MQTTTakesChange
             \/ BrowserStops \/ BrowserStarts \/ PowerLost \/ PersistLater \/ Tick
      PROVE display' = display
  BY <1>4 DEF
    Wake, SignalWakes, ChangeWakes, SchedulerDecided, Maintain, PowerNeeded, Blanks,
    SignalArrives, ConfigSaved, MQTTTakesChange, BrowserStops, BrowserStarts, PowerLost,
    PersistLater, Tick, Proceed, ServiceEnds
<1>q. QED BY <1>1, <1>2, <1>3, <1>4, NextSteps

\* What changes the gate.
LEMMA GateMoves ==
  ASSUME Next
  PROVE \/ gate' = gate
        \/ \E t \in Threads : SwitchBegins(t) \/ SwitchSucceeds(t) \/ SwitchFails(t) \/ PanicsAtRotation(t)
        \/ PowerLost
<1>1. ASSUME NEW t \in Threads,
             \/ TargetOverride(t) \/ TargetBase(t) \/ TargetRotation(t) \/ TargetInserts(t)
             \/ SwitchRefused(t) \/ PanelSet(t) \/ PanelNoted(t)
      PROVE gate' = gate
  BY <1>1 DEF
    TargetOverride, TargetBase, TargetRotation, TargetInserts, SwitchRefused, PanelSet,
    PanelNoted
<1>2. ASSUME NEW c \in Callers,
             \/ RecordOverride(c) \/ ForgetOverride(c) \/ Persist(c) \/ CallerDecided(c)
      PROVE gate' = gate
  BY <1>2 DEF
    RecordOverride, ForgetOverride, Persist, CallerDecided
<1>3. ASSUME NEW c \in Callers, NEW wish \in Wishes, CallBegins(c, wish) PROVE gate' = gate
  BY <1>3 DEF CallBegins
<1>4. ASSUME \/ Wake \/ SignalWakes \/ ChangeWakes \/ SchedulerDecided \/ Maintain
             \/ PowerNeeded \/ BlankOrRestore \/ Blanks \/ BlankNoted \/ SignalArrives
             \/ ConfigSaved \/ MQTTTakesChange \/ BrowserStops \/ BrowserStarts \/ Boot
             \/ PersistLater \/ Tick
      PROVE gate' = gate
  BY <1>4 DEF
    Wake, SignalWakes, ChangeWakes, SchedulerDecided, Maintain, PowerNeeded, BlankOrRestore,
    Blanks, BlankNoted, SignalArrives, ConfigSaved, MQTTTakesChange, BrowserStops,
    BrowserStarts, Boot, PersistLater, Tick
<1>q. QED BY <1>1, <1>2, <1>3, <1>4, NextSteps

\* What sets the timer.
LEMMA WakeMoves ==
  ASSUME Next
  PROVE \/ wake' = wake
        \/ \E t \in Threads : SwitchBegins(t) \/ SwitchSucceeds(t) \/ SwitchFails(t) \/ SwitchRefused(t)
        \/ Wake \/ SignalWakes \/ ChangeWakes \/ BlankOrRestore \/ Blanks \/ BlankNoted
        \/ Boot
<1>1. ASSUME NEW t \in Threads,
             \/ TargetOverride(t) \/ TargetBase(t) \/ PanicsAtRotation(t)
             \/ TargetRotation(t) \/ TargetInserts(t) \/ PanelSet(t) \/ PanelNoted(t)
      PROVE wake' = wake
  BY <1>1 DEF
    TargetOverride, TargetBase, PanicsAtRotation, TargetRotation, TargetInserts, PanelSet,
    PanelNoted, ServiceEnds
<1>2. ASSUME NEW c \in Callers,
             \/ RecordOverride(c) \/ ForgetOverride(c) \/ Persist(c) \/ CallerDecided(c)
      PROVE wake' = wake
  BY <1>2 DEF
    RecordOverride, ForgetOverride, Persist, CallerDecided
<1>3. ASSUME NEW c \in Callers, NEW wish \in Wishes, CallBegins(c, wish) PROVE wake' = wake
  BY <1>3 DEF CallBegins
<1>4. ASSUME \/ SchedulerDecided \/ Maintain \/ PowerNeeded \/ SignalArrives \/ ConfigSaved
             \/ MQTTTakesChange \/ BrowserStops \/ BrowserStarts \/ PowerLost
             \/ PersistLater \/ Tick
      PROVE wake' = wake
  BY <1>4 DEF
    SchedulerDecided, Maintain, PowerNeeded, SignalArrives, ConfigSaved, MQTTTakesChange,
    BrowserStops, BrowserStarts, PowerLost, PersistLater, Tick, ServiceEnds
<1>q. QED BY <1>1, <1>2, <1>3, <1>4, NextSteps

\* What changes the clock and the end of the program.
LEMMA ClockMoves ==
  ASSUME Next
  PROVE \/ UNCHANGED <<up, now>>
        \/ \E t \in Threads : PanicsAtRotation(t)
        \/ PowerLost \/ Boot \/ Tick
<1>1. ASSUME NEW t \in Threads,
             \/ TargetOverride(t) \/ TargetBase(t) \/ TargetRotation(t) \/ TargetInserts(t)
             \/ SwitchBegins(t) \/ SwitchSucceeds(t) \/ SwitchFails(t) \/ SwitchRefused(t)
             \/ PanelSet(t) \/ PanelNoted(t)
      PROVE UNCHANGED <<up, now>>
  BY <1>1 DEF
    TargetOverride, TargetBase, TargetRotation, TargetInserts, SwitchBegins, SwitchSucceeds,
    SwitchFails, SwitchRefused, PanelSet, PanelNoted, quietVars
<1>2. ASSUME NEW c \in Callers,
             \/ RecordOverride(c) \/ ForgetOverride(c) \/ Persist(c) \/ CallerDecided(c)
      PROVE UNCHANGED <<up, now>>
  BY <1>2 DEF
    RecordOverride, ForgetOverride, Persist, CallerDecided, quietVars
<1>3. ASSUME NEW c \in Callers, NEW wish \in Wishes, CallBegins(c, wish) PROVE UNCHANGED <<up, now>>
  BY <1>3 DEF CallBegins, quietVars
<1>4. ASSUME \/ Wake \/ SignalWakes \/ ChangeWakes \/ SchedulerDecided \/ Maintain
             \/ PowerNeeded \/ BlankOrRestore \/ Blanks \/ BlankNoted \/ SignalArrives
             \/ ConfigSaved \/ MQTTTakesChange \/ BrowserStops \/ BrowserStarts
             \/ PersistLater
      PROVE UNCHANGED <<up, now>>
  BY <1>4 DEF
    Wake, SignalWakes, ChangeWakes, SchedulerDecided, Maintain, PowerNeeded, BlankOrRestore,
    Blanks, BlankNoted, SignalArrives, ConfigSaved, MQTTTakesChange, BrowserStops,
    BrowserStarts, PersistLater, quietVars
<1>q. QED BY <1>1, <1>2, <1>3, <1>4, NextSteps

-----------------------------------------------------------------------------
(* Types.                                                                 *)

\* The clock stays within its bound, and moves on by one at most.
LEMMA ClockTyped ==
  ASSUME TypeOK, Next
  PROVE /\ up' \in BOOLEAN /\ now' \in 0..MaxTime /\ events' \in 0..MaxEvents
        /\ now' = now \/ now' = now + 1
        /\ Tick \/ now' = now
<1>1. now \in 0..MaxTime /\ up \in BOOLEAN /\ events \in 0..MaxEvents
  BY DEF TypeOK
<1>2. {MaxTime, MaxEvents} \subseteq Nat
  BY SchedulerAssumption
<1>4. ASSUME NEW t \in Threads, PanicsAtRotation(t)
      PROVE up' \in BOOLEAN /\ now' = now
  BY <1>4 DEF PanicsAtRotation, ServiceEnds
<1>5. ASSUME PowerLost \/ Boot
      PROVE up' \in BOOLEAN /\ now' = now
  BY <1>5 DEF PowerLost, ServiceEnds, Boot
<1>6. ASSUME Tick
      PROVE up' \in BOOLEAN /\ now' \in 0..MaxTime /\ now' = now + 1
  BY <1>1, <1>2, <1>6 DEF Tick
<1>7. events' = events \/ Event
  <2>1. ASSUME NEW t \in Threads,
               \/ TargetOverride(t) \/ TargetBase(t) \/ PanicsAtRotation(t)
               \/ TargetRotation(t) \/ TargetInserts(t) \/ SwitchBegins(t)
               \/ SwitchSucceeds(t) \/ SwitchFails(t) \/ SwitchRefused(t) \/ PanelSet(t)
               \/ PanelNoted(t)
        PROVE events' = events \/ Event
    BY <2>1 DEF TargetOverride, TargetBase, PanicsAtRotation, TargetRotation, TargetInserts,
      SwitchBegins, SwitchSucceeds, SwitchFails, SwitchRefused, PanelSet, PanelNoted, quietVars
  <2>2. ASSUME NEW c \in Callers,
               \/ RecordOverride(c) \/ ForgetOverride(c) \/ Persist(c) \/ CallerDecided(c)
        PROVE events' = events \/ Event
    BY <2>2 DEF RecordOverride, ForgetOverride, Persist, CallerDecided, quietVars
  <2>3. ASSUME NEW c \in Callers, NEW wish \in Wishes, CallBegins(c, wish)
        PROVE events' = events \/ Event
    BY <2>3 DEF CallBegins
  <2>4. ASSUME \/ Wake \/ SignalWakes \/ ChangeWakes \/ SchedulerDecided \/ Maintain
               \/ PowerNeeded \/ BlankOrRestore \/ Blanks \/ BlankNoted \/ SignalArrives
               \/ ConfigSaved \/ MQTTTakesChange \/ BrowserStops \/ BrowserStarts
               \/ PowerLost \/ Boot \/ PersistLater \/ Tick
        PROVE events' = events \/ Event
    BY <2>4 DEF Wake, SignalWakes, ChangeWakes, SchedulerDecided, Maintain, PowerNeeded,
      BlankOrRestore, Blanks, BlankNoted, SignalArrives, ConfigSaved, MQTTTakesChange,
      BrowserStops, BrowserStarts, PowerLost, Boot, PersistLater, Tick, quietVars, MemoryGrew
  <2>q. QED BY <2>1, <2>2, <2>3, <2>4, NextSteps
<1>8. events' \in 0..MaxEvents
  BY <1>1, <1>2, <1>7 DEF Event
<1>q. QED BY <1>1, <1>4, <1>5, <1>6, <1>8, ClockMoves

\* The world keeps its types.
LEMMA WorldTyped ==
  ASSUME TypeOK, Next
  PROVE /\ cfg' \in Configs /\ changed' \in BOOLEAN /\ signalled' \in BOOLEAN
        /\ holds' \in [Topics -> BOOLEAN] /\ presence' \in {Never} \cup 0..now
<1>1. /\ cfg \in Configs /\ changed \in BOOLEAN /\ signalled \in BOOLEAN
      /\ holds \in [Topics -> BOOLEAN] /\ presence \in {Never} \cup 0..now /\ now \in Nat
  BY TimesTyped DEF TypeOK
<1>2. CASE UNCHANGED <<cfg, changed, signalled, holds, presence>>
  BY <1>1, <1>2
<1>3. CASE SignalWakes
  BY <1>1, <1>3 DEF SignalWakes
<1>4. CASE ChangeWakes
  BY <1>1, <1>4 DEF ChangeWakes
<1>5. CASE SignalArrives
  <2>1. UNCHANGED <<cfg, changed>> /\ (ConditionChanges \/ NotePresence)
    BY <1>5 DEF SignalArrives
  <2>2. CASE ConditionChanges
    <3>1. signalled' \in BOOLEAN /\ presence' = presence
      BY <2>2 DEF ConditionChanges
    <3>2. PICK t \in Topics : holds' = [holds EXCEPT ![t] = ~holds[t]]
      BY <2>2 DEF ConditionChanges
    <3>3. holds' \in [Topics -> BOOLEAN]
      BY <1>1, <3>2
    <3>q. QED BY <1>1, <2>1, <3>1, <3>3
  <2>3. CASE NotePresence
    <3>1. signalled' \in BOOLEAN /\ presence' = now /\ holds' = holds
      BY <2>3 DEF NotePresence
    <3>2. now \in 0..now
      BY <1>1
    <3>q. QED BY <1>1, <2>1, <3>1, <3>2
  <2>q. QED BY <2>1, <2>2, <2>3
<1>6. CASE ConfigSaved
  BY <1>1, <1>6 DEF ConfigSaved
<1>7. CASE MQTTTakesChange
  BY <1>1, <1>7 DEF MQTTTakesChange
<1>8. CASE Boot
  <2>1. /\ cfg' = cfg /\ changed' = FALSE /\ signalled' = FALSE /\ presence' = Never
        /\ holds' = [t \in Topics |-> FALSE]
    BY <1>8 DEF Boot
  <2>q. QED BY <1>1, <2>1
<1>q. QED BY <1>2, <1>3, <1>4, <1>5, <1>6, <1>7, <1>8, WorldMoves

Browsers == [running : BOOLEAN, content : {"page", "blank"}, active : Pages,
             held : BOOLEAN, started : 0..MaxTime]

\* A browser of which a part is replaced.
LEMMA BrowserTypes ==
  ASSUME NEW b \in Browsers
  PROVE /\ \A v \in BOOLEAN : [b EXCEPT !.running = v] \in Browsers
        /\ \A v \in {"page", "blank"} : [b EXCEPT !.content = v] \in Browsers
        /\ \A v \in Pages : [b EXCEPT !.active = v] \in Browsers
        /\ \A v \in BOOLEAN : [b EXCEPT !.held = v] \in Browsers
        /\ \A v \in 0..MaxTime : [b EXCEPT !.started = v] \in Browsers
BY DEF Browsers

\* The browser keeps its type: a page that is active is there in some programme.
LEMMA BrowserTyped ==
  ASSUME TypeOK, Next
  PROVE browser' \in Browsers
<1>1. browser \in Browsers /\ now \in 0..MaxTime /\ cfg \in Configs
  BY DEF TypeOK, Browsers
<1>2. ASSUME NEW t \in Threads, SwitchBegins(t) PROVE browser' \in Browsers
  <2>1. browser' = browser \/ (/\ browser' = [browser EXCEPT !.active = Status(t).target]
                               /\ Status(t).target \in 1..cfg.pages)
    BY <1>2 DEF SwitchBegins
  <2>2. ASSUME Status(t).target \in 1..cfg.pages
        PROVE [browser EXCEPT !.active = Status(t).target] \in Browsers
    <3>1. Status(t).target \in Pages
      BY <1>1, <2>2, PageThere
    <3>q. QED BY <1>1, <3>1, BrowserTypes
  <2>q. QED BY <1>1, <2>1, <2>2
<1>3. ASSUME NEW t \in Threads, SwitchSucceeds(t) PROVE browser' \in Browsers
  <2> DEFINE s == IF browser.running THEN browser.started ELSE now
             p == [browser EXCEPT !.content = "page"]
             q == [p EXCEPT !.running = TRUE]
             r == [q EXCEPT !.started = s]
  <2>1. browser' = r
    BY <1>1, <1>3 DEF SwitchSucceeds, Browsers
  <2>2. s \in 0..MaxTime
    BY <1>1 DEF Browsers
  <2> HIDE DEF s
  <2>3. p \in Browsers
    BY <1>1, BrowserTypes
  <2> HIDE DEF p
  <2>4. q \in Browsers
    BY <2>3, BrowserTypes
  <2> HIDE DEF q
  <2>5. r \in Browsers
    BY <2>2, <2>4, BrowserTypes
  <2>q. QED BY <2>1, <2>5
<1>4. ASSUME NEW t \in Threads, SwitchFails(t) PROVE browser' \in Browsers
  <2>1. browser' = [browser EXCEPT !.running = FALSE]
    BY <1>4 DEF SwitchFails
  <2>q. QED BY <1>1, <2>1, BrowserTypes
<1>5. CASE Blanks
  <2>1. browser' = browser \/ browser' = [browser EXCEPT !.content = "blank"]
    BY <1>5 DEF Blanks
  <2>q. QED BY <1>1, <2>1, BrowserTypes
<1>6. CASE BrowserStops
  <2>1. PICK held \in BOOLEAN : browser' = [browser EXCEPT !.running = FALSE, !.held = held]
    BY <1>6 DEF BrowserStops
  <2> DEFINE p == [browser EXCEPT !.running = FALSE]
             q == [p EXCEPT !.held = held]
  <2>2. browser' = q
    BY <2>1
  <2>3. p \in Browsers
    BY <1>1, BrowserTypes
  <2> HIDE DEF p
  <2>4. q \in Browsers
    BY <2>3, BrowserTypes
  <2>q. QED BY <2>2, <2>4
<1>7. CASE BrowserStarts
  <2> DEFINE p == [browser EXCEPT !.running = TRUE]
             q == [p EXCEPT !.content = "page"]
             u == [q EXCEPT !.held = FALSE]
             r == [u EXCEPT !.started = now]
  <2>1. browser' = r
    BY <1>7 DEF BrowserStarts
  <2>2. p \in Browsers
    BY <1>1, BrowserTypes
  <2> HIDE DEF p
  <2>3. q \in Browsers
    BY <2>2, BrowserTypes
  <2> HIDE DEF q
  <2>4. u \in Browsers
    BY <2>3, BrowserTypes
  <2> HIDE DEF u
  <2>5. r \in Browsers
    BY <1>1, <2>4, BrowserTypes
  <2>q. QED BY <2>1, <2>5
<1>8. CASE Boot
  <2>1. browser' = [running |-> TRUE, content |-> "page", active |-> 1, held |-> FALSE,
                    started |-> now]
    BY <1>8 DEF Boot
  <2>2. 1 \in Pages
    BY DEF Pages
  <2>q. QED BY <1>1, <2>1, <2>2 DEF Browsers
<1>q. QED BY <1>1, <1>2, <1>3, <1>4, <1>5, <1>6, <1>7, <1>8, BrowserMoves

\* No override is one.
LEMMA NoneIsTyped == NoOverride \in Overrides
<1>1. NoPage \in Pages
  BY DEF Pages
<1>2. Never \in Times
  BY DEF Times
<1>3. "" \in Sources
  BY DEF Sources
<1>q. QED BY <1>1, <1>2, <1>3 DEF NoOverride, Overrides

\* Overrides keep their type, in memory and in the file.
LEMMA StateTyped ==
  ASSUME ShapeInv, WishInv, TypeOK, KnownInv, CallerInv, Next
  PROVE override' \in Overrides /\ saved' \in Overrides /\ persistDue' \in BOOLEAN
<1>1. /\ override \in Overrides /\ saved \in Overrides /\ persistDue \in BOOLEAN /\ now \in Nat
  BY TimesTyped DEF TypeOK
<1>0. NoOverride \in Overrides
  BY NoneIsTyped
<1>2. CASE UNCHANGED <<override, saved, persistDue>>
  BY <1>1, <1>2
<1>3. ASSUME NEW t \in Threads, TargetOverride(t)
      PROVE override' \in Overrides /\ saved' \in Overrides /\ persistDue' \in BOOLEAN
  <2>1. override' \in {override, NoOverride} /\ saved' = saved
    BY <1>3, OverrideStep DEF TargetOverride
  <2>2. persistDue' \in BOOLEAN
    BY <1>3 DEF TargetOverride
  <2>q. QED BY <1>0, <1>1, <2>1, <2>2
<1>4. ASSUME NEW t \in Threads, SwitchSucceeds(t) \/ SwitchFails(t)
      PROVE override' \in Overrides /\ saved' \in Overrides /\ persistDue' \in BOOLEAN
  BY <1>1, <1>4 DEF SwitchSucceeds, SwitchFails
<1>5. ASSUME NEW t \in Threads, PanicsAtRotation(t)
      PROVE override' \in Overrides /\ saved' \in Overrides /\ persistDue' \in BOOLEAN
  BY <1>1, <1>5 DEF PanicsAtRotation, ServiceEnds
<1>6. ASSUME NEW c \in Callers, RecordOverride(c)
      PROVE override' \in Overrides /\ saved' \in Overrides /\ persistDue' \in BOOLEAN
  <2> DEFINE page == th[c].wish.page
             source == th[c].wish.source
             until == now + th[c].wish.minutes
  <2>1. th[c].pc = "record"
    BY <1>6 DEF RecordOverride, IsAt
  <2>2. th[c].wish \in Wishes /\ th[c].wish.kind = "override"
    BY <2>1 DEF WishInv, Asked
  <2>3. th[c].wish.minutes \in Nat
    BY <2>2, WishesAssumption
  <2>4. page \in Pages
    BY <2>1 DEF CallerInv
  <2>5. until \in Times
    BY <1>1, <2>3 DEF Times
  <2>6. source \in Sources
    BY <2>2 DEF Sources
  <2>7. override' = [active |-> TRUE, page |-> page, source |-> source, until |-> until]
    BY <1>6 DEF RecordOverride
  <2>8. saved' = saved /\ persistDue' = persistDue
    BY <1>6 DEF RecordOverride
  <2> HIDE DEF page, source, until
  <2>9. override' \in Overrides
    BY <2>4, <2>5, <2>6, <2>7 DEF Overrides
  <2>q. QED BY <1>1, <2>8, <2>9
<1>7. ASSUME NEW c \in Callers, ForgetOverride(c)
      PROVE override' \in Overrides /\ saved' \in Overrides /\ persistDue' \in BOOLEAN
  BY <1>0, <1>1, <1>7 DEF ForgetOverride
<1>8. ASSUME NEW c \in Callers, Persist(c)
      PROVE override' \in Overrides /\ saved' \in Overrides /\ persistDue' \in BOOLEAN
  BY <1>1, <1>8 DEF Persist
<1>9. CASE PersistLater
  BY <1>1, <1>9 DEF PersistLater
<1>10. CASE PowerLost
  BY <1>1, <1>10 DEF PowerLost, ServiceEnds
<1>11. CASE Boot
  BY <1>0, <1>1, <1>11 DEF Boot
<1>q. QED BY <1>2, <1>3, <1>4, <1>5, <1>6, <1>7, <1>8, <1>9, <1>10, <1>11, StateMoves

Rotations == [index : Places, until : Times, cycles : Nat]

\* A rotation of which a part is replaced.
LEMMA RotationTypes ==
  ASSUME NEW r \in Rotations
  PROVE /\ \A v \in Places : [r EXCEPT !.index = v] \in Rotations /\ [r EXCEPT !.index = v].until = r.until
        /\ \A v \in Times : [r EXCEPT !.until = v] \in Rotations
        /\ \A v \in Nat : [r EXCEPT !.cycles = v] \in Rotations /\ [r EXCEPT !.cycles = v].until = r.until
BY DEF Rotations

\* The next place of a rotation is one of its places.
LEMMA NextPlace ==
  ASSUME NEW k, Known(k), k.rotation # <<>>, NEW i \in Places
  PROVE NextIndex(i, k) \in Places
<1>1. PICK c \in Configs : k.rotation = c.rotation
  BY DEF Known
<1>2. IsList(k.rotation)
  BY DEF Known, ValidProgram
<1> DEFINE n == Len(k.rotation)
<1>3. n \in Nat /\ n > 0 /\ DOMAIN k.rotation = 1..n
  BY <1>2, ListParts
<1>4. i \in Nat
  <2>1. CASE i = 1
    BY <2>1
  <2>2. CASE i # 1
    <3>1. PICK d \in Configs : i \in DOMAIN d.rotation
      BY <2>2 DEF Places
    <3>2. IsList(d.rotation)
      BY SavedIsValid DEF ValidProgram
    <3>3. Len(d.rotation) \in Nat /\ DOMAIN d.rotation = 1..Len(d.rotation)
      BY <3>2, ListParts
    <3>q. QED BY <3>1, <3>3
  <2>q. QED BY <2>1, <2>2
<1>5. NextIndex(i, k) = (i % n) + 1
  BY DEF NextIndex
<1> HIDE DEF n
<1>6. i % n \in 0..(n - 1)
  BY <1>3, <1>4
<1>7. (i % n) + 1 \in 1..n
  BY <1>3, <1>6
<1>8. NextIndex(i, k) \in DOMAIN c.rotation
  BY <1>1, <1>3, <1>5, <1>7
<1>q. QED BY <1>8 DEF Places

\* The rotation keeps its type, and its place is one of some rotation.
LEMMA RotationTyped ==
  ASSUME ShapeInv, TypeOK, KnownInv, CallerInv, Next
  PROVE rotation' \in Rotations
<1>1. rotation \in Rotations /\ 1 \in Places /\ Never \in Times /\ 0 \in Nat
  BY DEF TypeOK, Rotations, Places, Times
<1>2. ASSUME NEW t \in Threads, TargetBase(t)
      PROVE rotation' \in Rotations /\ rotation'.until = rotation.until
  <2> DEFINE kiosk == th[t].snap
             next == NextIndex(rotation.index, kiosk)
             more == rotation.cycles + (IF next = 1 THEN 1 ELSE 0)
             p == [rotation EXCEPT !.index = next]
             q == [p EXCEPT !.cycles = more]
  <2>1. Known(kiosk)
    BY <1>2 DEF TargetBase, IsAt, KnownInv, Deciding
  <2>2. \/ rotation' = rotation
        \/ rotation' = [rotation EXCEPT !.index = 1]
        \/ kiosk.rotation # <<>> /\ rotation' = q
    <3>1. [rotation EXCEPT !.index = NextIndex(@, kiosk),
                           !.cycles = @ + (IF NextIndex(rotation.index, kiosk) = 1 THEN 1 ELSE 0)] = q
      BY <1>1 DEF Rotations
    <3> HIDE DEF q
    <3>q. QED BY <1>2, <3>1 DEF TargetBase
  <2>3. kiosk.rotation # <<>> => next \in Places
    BY <1>1, <2>1, NextPlace DEF Rotations
  <2>4. more \in Nat
    BY <1>1 DEF Rotations
  <2> HIDE DEF next, more
  <2>5. next \in Places => p \in Rotations /\ p.until = rotation.until
    BY <1>1, RotationTypes
  <2> HIDE DEF p
  <2>6. next \in Places => q \in Rotations /\ q.until = rotation.until
    BY <2>4, <2>5, RotationTypes
  <2> HIDE DEF q
  <2>7. /\ [rotation EXCEPT !.index = 1] \in Rotations
        /\ [rotation EXCEPT !.index = 1].until = rotation.until
    BY <1>1, RotationTypes
  <2>q. QED BY <1>1, <2>2, <2>3, <2>6, <2>7
<1>3. ASSUME NEW t \in Threads, TargetRotation(t) PROVE rotation' \in Rotations
  <2>1. Known(th[t].snap)
    BY <1>3 DEF TargetRotation, IsAt, KnownInv, Deciding
  <2>2. /\ rotation'.until \in Times /\ rotation'.index = rotation.index
        /\ rotation'.cycles = rotation.cycles
        /\ rotation' = [index |-> rotation'.index, until |-> rotation'.until,
                        cycles |-> rotation'.cycles]
    BY <1>3, <2>1, RotationSays
  <2>3. rotation.index \in Places /\ rotation.cycles \in Nat
    BY <1>1 DEF Rotations
  <2>q. QED BY <2>2, <2>3 DEF Rotations
<1>4. ASSUME NEW c \in Callers, ForgetOverride(c) PROVE rotation' \in Rotations
  BY <1>1, <1>4, RotationTypes DEF ForgetOverride
<1>5. CASE ChangeWakes
  <2> DEFINE p == [rotation EXCEPT !.index = 1]
  <2>1. rotation' = [p EXCEPT !.until = Never]
    BY <1>5 DEF ChangeWakes
  <2>2. p \in Rotations
    BY <1>1, RotationTypes
  <2> HIDE DEF p
  <2>q. QED BY <1>1, <2>1, <2>2, RotationTypes
<1>6. CASE Maintain
  BY <1>1, <1>6, RotationTypes DEF Maintain
<1>7. CASE Boot
  BY <1>1, <1>7 DEF Boot, Rotations
<1>q. QED BY <1>1, <1>2, <1>3, <1>4, <1>5, <1>6, <1>7, RotationMoves

\* What notes a reload.
LEMMA MaintenanceMoves ==
  ASSUME Next
  PROVE \/ lastMaintenance' = lastMaintenance
        \/ Maintain \/ Boot
<1>1. ASSUME NEW t \in Threads,
             \/ TargetOverride(t) \/ TargetBase(t) \/ PanicsAtRotation(t)
             \/ TargetRotation(t) \/ TargetInserts(t) \/ SwitchBegins(t)
             \/ SwitchSucceeds(t) \/ SwitchFails(t) \/ SwitchRefused(t) \/ PanelSet(t)
             \/ PanelNoted(t)
      PROVE lastMaintenance' = lastMaintenance
  BY <1>1 DEF
    TargetOverride, TargetBase, PanicsAtRotation, TargetRotation, TargetInserts, SwitchBegins,
    SwitchSucceeds, SwitchFails, SwitchRefused, PanelSet, PanelNoted, Proceed, ServiceEnds
<1>2. ASSUME NEW c \in Callers,
             \/ RecordOverride(c) \/ ForgetOverride(c) \/ Persist(c) \/ CallerDecided(c)
      PROVE lastMaintenance' = lastMaintenance
  BY <1>2 DEF
    RecordOverride, ForgetOverride, Persist, CallerDecided, Proceed
<1>3. ASSUME NEW c \in Callers, NEW wish \in Wishes, CallBegins(c, wish) PROVE lastMaintenance' = lastMaintenance
  BY <1>3 DEF CallBegins
<1>4. ASSUME \/ Wake \/ SignalWakes \/ ChangeWakes \/ SchedulerDecided \/ PowerNeeded
             \/ BlankOrRestore \/ Blanks \/ BlankNoted \/ SignalArrives \/ ConfigSaved
             \/ MQTTTakesChange \/ BrowserStops \/ BrowserStarts \/ PowerLost
             \/ PersistLater \/ Tick
      PROVE lastMaintenance' = lastMaintenance
  BY <1>4 DEF
    Wake, SignalWakes, ChangeWakes, SchedulerDecided, PowerNeeded, BlankOrRestore, Blanks,
    BlankNoted, SignalArrives, ConfigSaved, MQTTTakesChange, BrowserStops, BrowserStarts,
    PowerLost, PersistLater, Tick, Proceed, ServiceEnds
<1>q. QED BY <1>1, <1>2, <1>3, <1>4, NextSteps

\* What nobody has disturbed was not disturbed before, or a round begins.
LEMMA DisturbedStays ==
  ASSUME TypeOK, Next
  PROVE undisturbed' \in BOOLEAN /\ (undisturbed' => undisturbed \/ Wake)
<1>0. undisturbed \in BOOLEAN 
  BY DEF TypeOK
<1>1. ASSUME NEW t \in Threads,
             \/ TargetOverride(t) \/ TargetBase(t) \/ PanicsAtRotation(t)
             \/ TargetRotation(t) \/ TargetInserts(t) \/ SwitchBegins(t)
             \/ SwitchSucceeds(t) \/ SwitchFails(t) \/ SwitchRefused(t) \/ PanelSet(t)
             \/ PanelNoted(t)
      PROVE undisturbed' \in BOOLEAN /\ (undisturbed' => undisturbed)
  <2>1. undisturbed' \in {FALSE, undisturbed, undisturbed /\ t = "scheduler"}
    BY <1>1 DEF TargetOverride, TargetBase, PanicsAtRotation, TargetRotation, TargetInserts,
      SwitchBegins, SwitchSucceeds, SwitchFails, SwitchRefused, PanelSet, PanelNoted, Disturbs,
      ServiceEnds
  <2>q. QED BY <1>0, <2>1
<1>2. ASSUME NEW c \in Callers,
             \/ RecordOverride(c) \/ ForgetOverride(c) \/ Persist(c) \/ CallerDecided(c)
      PROVE undisturbed' \in BOOLEAN /\ (undisturbed' => undisturbed)
  <2>1. undisturbed' = FALSE \/ undisturbed' = undisturbed
    BY <1>2 DEF RecordOverride, ForgetOverride, Persist, CallerDecided
  <2>2. CASE undisturbed' = FALSE
    BY <2>2, Zenon
  <2>3. CASE undisturbed' = undisturbed
    BY <1>0, <2>3
  <2>q. QED BY <2>1, <2>2, <2>3
<1>3. ASSUME NEW c \in Callers, NEW wish \in Wishes, CallBegins(c, wish)
      PROVE undisturbed' \in BOOLEAN /\ (undisturbed' => undisturbed)
  <2>1. undisturbed' = FALSE \/ undisturbed' = undisturbed
    BY <1>3 DEF CallBegins
  <2>2. CASE undisturbed' = FALSE
    BY <2>2, Zenon
  <2>3. CASE undisturbed' = undisturbed
    BY <1>0, <2>3
  <2>q. QED BY <2>1, <2>2, <2>3
<1>4. ASSUME \/ SignalWakes \/ ChangeWakes \/ SchedulerDecided \/ Maintain
             \/ PowerNeeded \/ BlankOrRestore \/ Blanks \/ BlankNoted \/ SignalArrives
             \/ ConfigSaved \/ MQTTTakesChange \/ BrowserStops \/ BrowserStarts
             \/ PowerLost \/ Boot \/ PersistLater \/ Tick
      PROVE undisturbed' \in BOOLEAN /\ (undisturbed' => undisturbed)
  <2>1. undisturbed' = FALSE \/ undisturbed' = undisturbed
    BY <1>4 DEF SignalWakes, ChangeWakes, SchedulerDecided, Maintain, PowerNeeded,
      BlankOrRestore, Blanks, BlankNoted, SignalArrives, ConfigSaved, MQTTTakesChange,
      BrowserStops, BrowserStarts, PowerLost, ServiceEnds, Boot, PersistLater, Tick
  <2>2. CASE undisturbed' = FALSE
    BY <2>2, Zenon
  <2>3. CASE undisturbed' = undisturbed
    BY <1>0, <2>3
  <2>q. QED BY <2>1, <2>2, <2>3
<1>5. CASE Wake
  <2>1. undisturbed' \in {TRUE, undisturbed}
    BY <1>5 DEF Wake
  <2>q. QED BY <1>0, <1>5, <2>1
<1>q. QED BY <1>0, <1>1, <1>2, <1>3, <1>4, <1>5, NextSteps

\* So do the note of an insert, the display, the last reload and the gate.
LEMMA RestTyped ==
  ASSUME TypeOK, KnownInv, Next
  PROVE /\ insert' \in [showing : BOOLEAN, back : Pages]
        /\ display' \in [noted : {"", "ON", "OFF"}, panel : {"ON", "OFF"}, blanked : BOOLEAN]
        /\ lastMaintenance' \in Times /\ gate' \in Threads \cup {"free"}
<1>1. /\ insert \in [showing : BOOLEAN, back : Pages]
      /\ display \in [noted : {"", "ON", "OFF"}, panel : {"ON", "OFF"}, blanked : BOOLEAN]
      /\ lastMaintenance \in Times /\ gate \in Threads \cup {"free"} /\ browser.active \in Pages
      /\ wake \in Nat
  BY TimesTyped DEF TypeOK
<1>2. insert' \in [showing : BOOLEAN, back : Pages]
  <2>1. ASSUME NEW t \in Threads, TargetInserts(t)
        PROVE insert' \in [showing : BOOLEAN, back : Pages]
    <3>1. \E shows \in BOOLEAN :
            insert' = IF shows /\ ~insert.showing
                      THEN [showing |-> TRUE, back |-> browser.active]
                      ELSE [insert EXCEPT !.showing = shows]
      BY <2>1 DEF TargetInserts
    <3>2. PICK shows \in BOOLEAN :
            insert' = IF shows /\ ~insert.showing
                      THEN [showing |-> TRUE, back |-> browser.active]
                      ELSE [insert EXCEPT !.showing = shows]
      BY <3>1
    <3>q. QED BY <1>1, <3>2
  <2>2. ASSUME Boot PROVE insert' \in [showing : BOOLEAN, back : Pages]
    <3>1. insert' = [showing |-> FALSE, back |-> 1] /\ 1 \in Pages
      BY <2>2 DEF Boot, Pages
    <3>q. QED BY <3>1
  <2>q. QED BY <1>1, <2>1, <2>2, InsertMoves
<1>3. display' \in [noted : {"", "ON", "OFF"}, panel : {"ON", "OFF"}, blanked : BOOLEAN]
  <2> DEFINE Displays == [noted : {"", "ON", "OFF"}, panel : {"ON", "OFF"}, blanked : BOOLEAN]
  <2>1. ASSUME NEW t \in Threads, PanelSet(t) \/ PanelNoted(t) PROVE display' \in Displays
    <3>1. th[t].pc \in {"setting", "noting"}
      BY <2>1 DEF PanelSet, PanelNoted, IsAt
    <3>2. th[t].wish.power \in {"ON", "OFF"}
      BY <3>1 DEF KnownInv
    <3>3. \/ display' = display
          \/ display' = [display EXCEPT !.panel = th[t].wish.power]
          \/ display' = [display EXCEPT !.noted = th[t].wish.power]
      BY <2>1 DEF PanelSet, PanelNoted
    <3>q. QED BY <1>1, <3>2, <3>3
  <2>2. ASSUME BlankOrRestore \/ BlankNoted PROVE display' \in Displays
    <3>1. \/ display' = display \/ display' = [display EXCEPT !.blanked = FALSE]
          \/ display' = [display EXCEPT !.blanked = TRUE]
      BY <2>2 DEF BlankOrRestore, BlankNoted
    <3>q. QED BY <1>1, <3>1
  <2>3. ASSUME Boot PROVE display' \in Displays
    <3>1. display' = [display EXCEPT !.noted = "", !.blanked = FALSE]
      BY <2>3 DEF Boot
    <3>q. QED BY <1>1, <3>1
  <2>q. QED BY <1>1, <2>1, <2>2, <2>3, DisplayMoves
<1>4. lastMaintenance' \in Times
  <2>1. ASSUME Maintain PROVE lastMaintenance' \in {lastMaintenance, wake}
    BY <2>1 DEF Maintain
  <2>2. ASSUME Boot PROVE lastMaintenance' = Never
    BY <2>2 DEF Boot
  <2>q. QED BY <1>1, <2>1, <2>2, MaintenanceMoves DEF Times
<1>5. gate' \in Threads \cup {"free"}
  <2>1. ASSUME NEW t \in Threads,
               SwitchBegins(t) \/ SwitchSucceeds(t) \/ SwitchFails(t) \/ PanicsAtRotation(t)
        PROVE gate' \in {gate, t, "free"}
    BY <2>1 DEF SwitchBegins, SwitchSucceeds, SwitchFails, PanicsAtRotation, ServiceEnds
  <2>2. ASSUME PowerLost PROVE gate' = "free"
    BY <2>2 DEF PowerLost, ServiceEnds
  <2>q. QED BY <1>1, <2>1, <2>2, GateMoves
<1>q. QED BY <1>2, <1>3, <1>4, <1>5

-----------------------------------------------------------------------------
(* The timer.                                                             *)

\* The timer w of a service that is up or not, at the place p and the moment n.
InTime(u, p, n, w) ==
  /\ ~u => p = "sleep"
  /\ u /\ p = "sleep" => n <= w
  /\ u /\ p # "sleep" => w <= n /\ n <= w + MaxRound

\* WakeInv, by its parts.
LEMMA WakeIsInTime ==
  /\ WakeInv <=> InTime(up, Me.pc, now, wake)
  /\ WakeInv' <=> InTime(up', Me'.pc, now', wake')
BY DEF WakeInv, InTime

\* A step that takes no time and sets no timer.
LEMMA StaysInTime ==
  ASSUME NEW u, NEW v, u <=> v, NEW p, NEW q, p = "sleep" <=> q = "sleep", NEW n, NEW w,
         InTime(u, p, n, w)
  PROVE InTime(v, q, n, w)
BY DEF InTime

\* The clock moves on only where the timer allows it.
LEMMA TimeGoesOn ==
  ASSUME NEW u, NEW p, NEW n \in Nat, NEW w \in Nat, InTime(u, p, n, w),
         u => IF p = "sleep" THEN n < w ELSE n < w + MaxRound
  PROVE InTime(u, p, n + 1, w)
<1>1. MaxRound \in Nat
  BY SchedulerAssumption
<1>q. QED BY <1>1 DEF InTime

\* A timer that is set now, or later.
LEMMA TimerSet ==
  ASSUME NEW n \in Nat, NEW w \in Nat, n <= w
  PROVE InTime(TRUE, "sleep", n, w)
BY DEF InTime

\* A timer that has just been set to now.
LEMMA JustInTime ==
  ASSUME NEW n \in Nat, NEW p
  PROVE InTime(TRUE, p, n, n)
<1>1. MaxRound \in Nat
  BY SchedulerAssumption
<1>q. QED BY <1>1 DEF InTime

\* A thread that does not sleep goes on, and the scheduler sleeps on.
LEMMA StaysAwake ==
  ASSUME NEW t \in Threads, Alone(t, th'[t]), th[t].pc # "sleep", th'[t].pc # "sleep"
  PROVE Me'.pc = "sleep" <=> Me.pc = "sleep"
<1>1. CASE t = "scheduler"
  BY <1>1 DEF Me
<1>2. CASE t # "scheduler"
  BY <1>2, NotMe
<1>q. QED BY <1>1, <1>2

\* A section ends; a round that ends sets the timer for what it knows.
LEMMA RoundEnds ==
  ASSUME ShapeInv, TypeOK, KnownInv, WakeInv, up, NEW t \in Threads, th[t].pc # "sleep",
         NEW p, Proceed(t, p), t \in Callers => p # "sleep"
  PROVE \/ wake' = wake /\ p # "sleep" /\ (Me'.pc = "sleep" <=> Me.pc = "sleep")
        \/ /\ t = "scheduler" /\ p = "sleep" /\ Me'.pc = "sleep" /\ Me'.status = Me.status
           /\ wake' \in Nat /\ now <= wake'
           /\ \A u \in Nat : now <= u /\ u < wake' =>
                /\ u < wake + MaxRound + cfg.tick /\ u < wake + 2 * DayLen
                /\ Before(u, Me.status.next)
<1>1. GoTo(t, p) /\ wake' = IF p = "sleep" THEN NextWake(cfg, Status(t)) ELSE wake
  BY DEF Proceed
<1>2. Alone(t, th'[t]) /\ th'[t].pc = p /\ th'[t].status = th[t].status
  BY <1>1, PlaceSet
<1>3. CASE p # "sleep"
  BY <1>1, <1>2, <1>3, StaysAwake
<1>4. CASE p = "sleep"
  <2>1. t = "scheduler"
    BY <1>4 DEF Threads
  <2>2. Me'.pc = "sleep" /\ Me'.status = Me.status
    BY <1>2, <1>4, <2>1 DEF Me
  <2>3. wake' = NextWake(cfg, Me.status)
    BY <1>1, <1>4, <2>1 DEF Status, Me
  <2>4. now \in Nat /\ wake \in Nat /\ cfg \in Configs
    BY TimesTyped
  <2>5. cfg.tick \in Nat /\ MaxRound + cfg.tick <= 2 * DayLen
    BY <2>4, SavedIsValid, ConfigsAssumption DEF ValidProgram
  <2>6. Me.status.next \in Times
    BY CallerIsThread DEF KnownInv, Me
  <2>7. now <= wake + MaxRound
    BY <2>1 DEF WakeInv, Me
  <2>q. QED BY <1>4, <2>1, <2>2, <2>3, <2>4, <2>5, <2>6, <2>7, SleepRange
<1>q. QED BY <1>3, <1>4

\* The timer stays ahead of a scheduler that sleeps, and behind one that does not.
LEMMA WakeKept ==
  ASSUME ShapeInv, AfterInv, TypeOK, KnownInv, CallerInv, WakeInv, Next
  PROVE wake' \in Nat /\ WakeInv'
<1> DEFINE Goal == wake' \in Nat /\ WakeInv'
<1>t. now \in Nat /\ wake \in Nat /\ cfg \in Configs
  BY TimesTyped
<1>m. "scheduler" \in Threads /\ \A c \in Callers : c \in Threads /\ c # "scheduler"
  BY CallerIsThread
<1>0. InTime(up, Me.pc, now, wake)
  BY WakeIsInTime
<1>a. ASSUME wake' = wake, now' = now, up' = up, Me'.pc = "sleep" <=> Me.pc = "sleep"
      PROVE Goal
  <2>1. InTime(up, Me'.pc, now, wake)
    BY <1>0, <1>a, StaysInTime
  <2>q. QED BY <1>a, <1>t, <2>1, WakeIsInTime
<1>b. ASSUME NEW t \in Threads, NEW p, Proceed(t, p), up, up' = up, now' = now,
             th[t].pc # "sleep", t \in Callers => p # "sleep"
      PROVE Goal
  <2>1. CASE wake' = wake /\ p # "sleep" /\ (Me'.pc = "sleep" <=> Me.pc = "sleep")
    BY <1>a, <1>b, <2>1
  <2>2. CASE p = "sleep" /\ Me'.pc = "sleep" /\ wake' \in Nat /\ now <= wake'
    <3>1. InTime(TRUE, "sleep", now, wake')
      BY <1>t, <2>2, TimerSet
    <3>q. QED BY <1>b, <2>2, <3>1, WakeIsInTime DEF InTime
  <2>q. QED BY <1>b, <2>1, <2>2, RoundEnds
<1>1. ASSUME NEW t \in Threads,
             TargetOverride(t) \/ TargetBase(t) \/ TargetRotation(t) \/ TargetInserts(t)
      PROVE Goal
  <2>1. Alone(t, th'[t]) /\ th[t].pc # "sleep" /\ th'[t].pc # "sleep"
    BY <1>1, OverrideStep, BaseStep, RotationStep, InsertsStep
  <2>2. wake' = wake /\ now' = now /\ up' = up
    BY <1>1 DEF TargetOverride, TargetBase, TargetRotation, TargetInserts, quietVars
  <2>q. QED BY <1>a, <2>1, <2>2, StaysAwake
<1>2. ASSUME th' = Anew, up' = FALSE, wake' = wake, now' = now
      PROVE Goal
  <2>1. Me'.pc = "sleep"
    BY <1>2, <1>m, AnewShape DEF Me
  <2>q. QED BY <1>2, <1>t, <2>1 DEF WakeInv
<1>3. ASSUME NEW t \in Threads, PanicsAtRotation(t) \/ PowerLost PROVE Goal
  <2>1. th' = Anew /\ up' = FALSE /\ wake' = wake /\ now' = now
    BY <1>3 DEF PanicsAtRotation, PowerLost, ServiceEnds, Anew
  <2>q. QED BY <1>2, <2>1
<1>4. ASSUME NEW t \in Threads, SwitchBegins(t) PROVE Goal
  <2>1. /\ th[t].pc # "sleep" /\ up /\ up' = up /\ now' = now
        /\ \/ GoTo(t, "navigating") /\ wake' = wake
           \/ Proceed(t, AfterFailure(t))
    BY <1>4 DEF SwitchBegins, IsAt, quietVars
  <2>2. t \in Callers => AfterFailure(t) # "sleep"
    BY <1>m DEF AfterFailure
  <2>3. CASE GoTo(t, "navigating") /\ wake' = wake
    BY <1>a, <2>1, <2>3, PlaceSet, StaysAwake
  <2>q. QED BY <1>b, <2>1, <2>2, <2>3
<1>5. ASSUME NEW t \in Threads, SwitchSucceeds(t) \/ SwitchFails(t) \/ SwitchRefused(t)
      PROVE Goal
  <2>1. th[t].pc # "sleep" /\ up
    BY <1>5 DEF SwitchSucceeds, SwitchFails, SwitchRefused, IsAt
  <2>2. up' = up /\ now' = now
    BY <1>5 DEF SwitchSucceeds, SwitchFails, SwitchRefused, quietVars
  <2>3. \E p \in {th[t].after, AfterFailure(t)} : Proceed(t, p)
    BY <1>5 DEF SwitchSucceeds, SwitchFails, SwitchRefused
  <2>4. t \in Callers => th[t].after # "sleep" /\ AfterFailure(t) # "sleep"
    BY <1>m DEF AfterFailure, CallerInv
  <2>q. QED BY <1>b, <2>1, <2>2, <2>3, <2>4
<1>6. ASSUME NEW t \in Threads, PanelSet(t) \/ PanelNoted(t) PROVE Goal
  <2>1. /\ th[t].pc \in {"setting", "noting"} /\ wake' = wake /\ now' = now /\ up' = up
        /\ \E p \in {"noting", th[t].after} : GoTo(t, p)
    BY <1>6 DEF PanelSet, PanelNoted, IsAt, quietVars
  <2>2. th[t].after # "sleep"
    BY <2>1 DEF AfterInv, CallerInv, Me, Threads
  <2>q. QED BY <1>a, <2>1, <2>2, PlaceSet, StaysAwake
<1>7. ASSUME NEW c \in Callers, NEW wish \in Wishes, CallBegins(c, wish) PROVE Goal
  <2>1. Me' = Me
    BY <1>7, <1>m, CallStep, NotMe
  <2>2. wake' = wake /\ now' = now /\ up' = up
    BY <1>7 DEF CallBegins
  <2>q. QED BY <1>a, <2>1, <2>2
<1>8. ASSUME NEW c \in Callers,
             RecordOverride(c) \/ ForgetOverride(c) \/ Persist(c) \/ CallerDecided(c)
      PROVE Goal
  <2>1. \E p : GoTo(c, p)
    BY <1>8 DEF RecordOverride, ForgetOverride, Persist, CallerDecided
  <2>2. Me' = Me
    BY <1>m, <2>1, PlaceSet, NotMe
  <2>3. wake' = wake /\ now' = now /\ up' = up
    BY <1>8 DEF RecordOverride, ForgetOverride, Persist, CallerDecided, quietVars
  <2>q. QED BY <1>a, <2>2, <2>3
<1>9. CASE Wake
  <2>1. now' = now /\ up /\ up' = up /\ Me.pc = "sleep" /\ now >= wake
    BY <1>9 DEF Wake, IsAt, Me, quietVars
  <2>2. CASE th' # th
    <3>1. wake' = wake /\ Me'.pc # "sleep"
      BY <1>9, <2>2, WakeStep DEF Wake
    <3>2. wake = now
      BY <1>t, <2>1 DEF WakeInv
    <3>3. InTime(TRUE, Me'.pc, now, now)
      BY <1>t, JustInTime
    <3>4. InTime(up', Me'.pc, now', wake')
      BY <2>1, <3>1, <3>2, <3>3 DEF InTime
    <3>q. QED BY <1>t, <3>1, <3>4, WakeIsInTime
  <2>3. CASE th' = th
    <3>1. wake' \in {wake, now + cfg.tick}
      BY <1>9 DEF Wake
    <3>2. cfg.tick \in Nat
      BY <1>t, SavedIsValid
    <3>3. CASE wake' = wake
      BY <1>a, <2>1, <2>3, <3>3 DEF Me
    <3>4. CASE wake' = now + cfg.tick
      <4> DEFINE w == now + cfg.tick
      <4>1. w \in Nat /\ now <= w
        BY <1>t, <3>2
      <4> HIDE DEF w
      <4>2. InTime(TRUE, "sleep", now, w)
        BY <1>t, <4>1, TimerSet
      <4>3. wake' = w
        BY <3>4 DEF w
      <4>4. Me'.pc = "sleep"
        BY <2>1, <2>3 DEF Me
      <4>q. QED BY <2>1, <4>1, <4>2, <4>3, <4>4, WakeIsInTime DEF InTime
    <3>q. QED BY <3>1, <3>3, <3>4
  <2>q. QED BY <2>2, <2>3
<1>10. CASE SignalWakes \/ ChangeWakes
  <2>1. now' = now /\ up /\ up' = up /\ Me.pc = "sleep" /\ th' = th /\ wake' = now
    BY <1>10 DEF SignalWakes, ChangeWakes, IsAt, Me, quietVars
  <2>2. InTime(TRUE, "sleep", now, now)
    BY <1>t, JustInTime
  <2>3. Me'.pc = "sleep"
    BY <2>1 DEF Me
  <2>q. QED BY <1>t, <2>1, <2>2, <2>3, WakeIsInTime DEF InTime
<1>11. CASE SchedulerDecided \/ Maintain
  <2>1. /\ Me.pc # "sleep" /\ wake' = wake /\ now' = now /\ up' = up
        /\ \E p : GoTo("scheduler", p) /\ p # "sleep"
    BY <1>11 DEF SchedulerDecided, Maintain, IsAt, Me, quietVars
  <2>q. QED BY <1>a, <2>1, MyPlace
<1>12. CASE PowerNeeded
  <2>1. Me.pc # "sleep" /\ Me'.pc # "sleep"
    BY <1>12, PowerStep
  <2>2. wake' = wake /\ now' = now /\ up' = up
    BY <1>12 DEF PowerNeeded, quietVars
  <2>q. QED BY <1>a, <2>1, <2>2
<1>13. CASE BlankOrRestore
  <2>1. th["scheduler"].pc # "sleep" /\ up /\ up' = up /\ now' = now
    BY <1>13 DEF BlankOrRestore, IsAt, quietVars
  <2>2. \/ wake' = wake /\ Me'.pc \in {"blanking", "gate"}
        \/ Proceed("scheduler", "sleep")
    <3>1. wake' = wake \/ Proceed("scheduler", "sleep")
      BY <1>13 DEF BlankOrRestore
    <3>2. (display.blanked <=> Wanted(Me.round) = "OFF") => Proceed("scheduler", "sleep")
      BY <1>13 DEF BlankOrRestore, Me
    <3>3. Me'.pc \in {"blanking", "gate"} \/ (display.blanked <=> Wanted(Me.round) = "OFF")
      BY <1>13, BlankStep
    <3>q. QED BY <3>1, <3>2, <3>3
  <2>q. QED BY <1>a, <1>b, <1>m, <2>1, <2>2 DEF Me
<1>14. CASE Blanks \/ BlankNoted
  <2>1. th["scheduler"].pc # "sleep" /\ up /\ up' = up /\ now' = now
    BY <1>14 DEF Blanks, BlankNoted, IsAt, quietVars
  <2>2. \/ wake' = wake /\ GoTo("scheduler", "blanked")
        \/ Proceed("scheduler", "sleep")
    BY <1>14 DEF Blanks, BlankNoted
  <2>3. CASE wake' = wake /\ GoTo("scheduler", "blanked")
    BY <1>a, <2>1, <2>3, MyPlace DEF Me
  <2>q. QED BY <1>b, <1>m, <2>1, <2>2, <2>3
<1>15. CASE \/ SignalArrives \/ ConfigSaved \/ MQTTTakesChange \/ BrowserStops
            \/ BrowserStarts \/ PersistLater
  <2>1. th' = th /\ wake' = wake /\ now' = now /\ up' = up
    BY <1>15 DEF SignalArrives, ConfigSaved, MQTTTakesChange, BrowserStops, BrowserStarts,
      PersistLater, quietVars
  <2>2. Me' = Me
    BY <2>1 DEF Me
  <2>q. QED BY <1>a, <2>1, <2>2
<1>16. CASE Boot
  <2>1. now' = now /\ ~up /\ up' = TRUE /\ th' = th /\ wake' = now
    BY <1>16 DEF Boot
  <2>2. InTime(TRUE, "sleep", now, now)
    BY <1>t, JustInTime
  <2>3. Me'.pc = "sleep"
    BY <2>1 DEF Me, WakeInv
  <2>q. QED BY <1>t, <2>1, <2>2, <2>3, WakeIsInTime DEF InTime
<1>17. CASE Tick
  <2>1. /\ now' = now + 1 /\ up' = up /\ th' = th /\ wake' = wake
        /\ up => IF Me.pc = "sleep" THEN now < wake ELSE now < wake + MaxRound
    BY <1>17 DEF Tick, Me
  <2>2. InTime(up, Me.pc, now + 1, wake)
    BY <1>0, <1>t, <2>1, TimeGoesOn
  <2>3. Me' = Me
    BY <2>1 DEF Me
  <2>q. QED BY <1>t, <2>1, <2>2, <2>3, WakeIsInTime
<1>q. QED
  BY <1>1, <1>3, <1>4, <1>5, <1>6, <1>7, <1>8, <1>9, <1>10, <1>11, <1>12, <1>13, <1>14,
    <1>15, <1>16, <1>17, <1>m, NextSteps

\* Every step keeps the types.
LEMMA TypeKept ==
  ASSUME ShapeInv, WishInv, AfterInv, TypeOK, KnownInv, CallerInv, WakeInv, Next
  PROVE TypeOK'
<1>1. /\ up' \in BOOLEAN /\ now' \in 0..MaxTime /\ events' \in 0..MaxEvents
      /\ now' = now \/ now' = now + 1
  BY ClockTyped
<1>2. /\ cfg' \in Configs /\ changed' \in BOOLEAN /\ signalled' \in BOOLEAN
      /\ holds' \in [Topics -> BOOLEAN] /\ presence' \in {Never} \cup 0..now
  BY WorldTyped
<1>3. presence' \in {Never} \cup 0..now'
  <2>1. now \in Nat
    BY TimesTyped
  <2>q. QED BY <1>1, <1>2, <2>1
<1>4. browser' \in Browsers
  BY BrowserTyped
<1>5. override' \in Overrides /\ saved' \in Overrides /\ persistDue' \in BOOLEAN
  BY StateTyped
<1>6. rotation' \in Rotations
  BY RotationTyped
<1>7. /\ insert' \in [showing : BOOLEAN, back : Pages]
      /\ display' \in [noted : {"", "ON", "OFF"}, panel : {"ON", "OFF"}, blanked : BOOLEAN]
      /\ lastMaintenance' \in Times /\ gate' \in Threads \cup {"free"}
  BY RestTyped
<1>8. undisturbed' \in BOOLEAN
  BY DisturbedStays
<1>9. wake' \in Nat
  BY WakeKept
<1>q. QED
  BY <1>1, <1>2, <1>3, <1>4, <1>5, <1>6, <1>7, <1>8, <1>9
  DEF TypeOK, Browsers, Rotations

\* A round begins only while the browser is not held.
LEMMA HeldKept ==
  ASSUME ShapeInv, TypeOK, HeldInv, Next
  PROVE HeldInv'
<1>0. IsBrowser(browser)
  BY DEF ShapeInv, IsBrowser
<1>1. undisturbed' => undisturbed \/ Wake
  BY DisturbedStays
<1>2. CASE browser' = browser
  <2>1. Wake => undisturbed' = undisturbed \/ ~browser.held
    BY DEF Wake
  <2>2. undisturbed \in BOOLEAN
    BY DEF TypeOK
  <2>3. undisturbed' => ~browser.held
    BY <1>1, <2>1, <2>2 DEF HeldInv
  <2>q. QED BY <1>2, <2>3 DEF HeldInv
<1>3. ASSUME browser'.held = browser.held, undisturbed' => undisturbed
      PROVE HeldInv'
  BY <1>3 DEF HeldInv
<1>4. ASSUME NEW t \in Threads, SwitchBegins(t) \/ SwitchSucceeds(t) \/ SwitchFails(t)
      PROVE HeldInv'
  <2>1. browser'.held = browser.held
    BY <1>0, <1>4 DEF SwitchBegins, SwitchSucceeds, SwitchFails, IsBrowser
  <2>2. undisturbed' => undisturbed
    BY <1>4 DEF SwitchBegins, SwitchSucceeds, SwitchFails, Disturbs
  <2>q. QED BY <1>3, <2>1, <2>2
<1>5. CASE Blanks
  <2>1. browser'.held = browser.held
    BY <1>0, <1>5 DEF Blanks, IsBrowser
  <2>2. undisturbed' => undisturbed
    BY <1>5 DEF Blanks
  <2>q. QED BY <1>3, <2>1, <2>2
<1>6. CASE BrowserStops \/ BrowserStarts
  BY <1>6 DEF BrowserStops, BrowserStarts, HeldInv
<1>7. CASE Boot
  BY <1>7 DEF Boot, HeldInv
<1>q. QED BY <1>2, <1>4, <1>5, <1>6, <1>7, BrowserMoves

-----------------------------------------------------------------------------
(* Sleep.                                                                 *)

\* The decision s is right at t: for the configuration c, the conditions h, the presence p,
\* the override o and the rotation's deadline u.
Right(c, h, p, o, u, s, t) ==
  LET slot == ActiveInsert(Where(c, h), t) IN
  /\ s.presence = Presence(c, p, t)
  /\ s.reason = "override" <=> o.active
  /\ o.active => t < o.until
  /\ s.reason = "rotation" => t < u
  /\ s.reason = "insert" =>
       slot # NoSlot /\ s.target = Where(c, h).inserts[slot.index].page
  /\ s.reason \notin {"insert", "override"} /\ ~WantsOff(Where(c, h), s) => slot = NoSlot

\* What the base programme has said.
Based(s, u, n) ==
  /\ s.presence = "" /\ s.reason \notin {"insert", "override"}
  /\ s.reason = "rotation" => \A t \in Nat : n <= t /\ Before(t, s.next) => t < u

Awake == Decided \ {"sleep"}

\* The moments from n on for which a scheduler at p has decided, whose timer is w.
Ahead(me, n, w) ==
  IF me.pc = "sleep" THEN {t \in Nat : n <= t /\ t < w}
  ELSE {t \in Nat : n <= t /\ t < w + 2 * DayLen /\ Before(t, me.status.next)}

Good(me, c, h, p, o, u, n, w) ==
  /\ me.pc \in Deciding => me.snap = Where(c, h)
  /\ me.pc = "inserts" => Based(me.status, u, n)
  /\ me.pc \in Decided => \A t \in Ahead(me, n, w) : Right(c, h, p, o, u, me.status, t)

GoodNow == Good(Me, cfg, holds, presence, override, rotation.until, now, wake)

\* CurrentAt is that the decision is right, in this state and in the next.
LEMMA CurrentIsRight ==
  /\ \A t : CurrentAt(t) <=> Right(cfg, holds, presence, override, rotation.until, Me.status, t)
  /\ \A t : CurrentAt(t)' <=>
       Right(cfg', holds', presence', override', rotation'.until, Me'.status, t)
<1>1. /\ InsertsWhere(cfg) = Where(cfg, holds)
      /\ InsertsWhere(cfg)' = Where(cfg', holds')
  BY DEF InsertsWhere, Where
<1>2. /\ \A t : AbsentAt(cfg, t) <=> Absent(cfg, presence, t)
      /\ \A t : AbsentAt(cfg, t)' <=> Absent(cfg', presence', t)
  BY DEF AbsentAt, Absent, PresentUntil
<1>3. Status("scheduler") = Me.status /\ Status("scheduler")' = Me'.status
  BY DEF Status, Me
<1>4. \A t : CurrentAt(t) <=> Right(cfg, holds, presence, override, rotation.until, Me.status, t)
  BY <1>1, <1>2, <1>3 DEF CurrentAt, PresenceCurrent, OverrideCurrent, RotationCurrent,
    InsertCurrent, Right, Presence
<1>5. \A t : CurrentAt(t)' <=>
       Right(cfg', holds', presence', override', rotation'.until, Me'.status, t)
  BY <1>1, <1>2, <1>3 DEF CurrentAt, PresenceCurrent, OverrideCurrent, RotationCurrent,
    InsertCurrent, Right, Presence
<1>q. QED BY <1>4, <1>5

\* CurrentInv, by its parts.
LEMMA CurrentIsGood ==
  /\ CurrentInv <=> (undisturbed /\ ~signalled => GoodNow)
  /\ CurrentInv' <=> (undisturbed' /\ ~signalled' => GoodNow')
<1>1. /\ InsertsWhere(cfg) = Where(cfg, holds)
      /\ InsertsWhere(cfg)' = Where(cfg', holds')
  BY DEF InsertsWhere, Where
<1>2. BaseInv <=> Based(Me.status, rotation.until, now)
  BY DEF BaseInv, Based
<1>3. BaseInv' <=> Based(Me'.status, rotation'.until, now')
  BY DEF BaseInv, Based
<1>4. "sleep" \in Decided
  BY DEF Decided, Shown
<1>5. CurrentInv <=> (undisturbed /\ ~signalled => GoodNow)
  BY <1>1, <1>2, <1>4, CurrentIsRight DEF CurrentInv, GoodNow, Good, Ahead
<1>6. CurrentInv' <=> (undisturbed' /\ ~signalled' => GoodNow')
  BY <1>1, <1>3, <1>4, CurrentIsRight DEF CurrentInv, GoodNow, Good, Ahead
<1>q. QED BY <1>5, <1>6

\* If any moment is ahead, so is this one.
LEMMA AheadIsNow ==
  ASSUME NEW me, NEW n \in Nat, NEW w \in Nat, me.status.next \in Times, NEW t \in Ahead(me, n, w)
  PROVE n \in Ahead(me, n, w)
<1>1. DayLen \in Nat
  BY HourInDay
<1>2. CASE me.pc = "sleep"
  BY <1>2 DEF Ahead
<1>3. CASE me.pc # "sleep"
  <2>1. t \in Nat /\ n <= t /\ t < w + 2 * DayLen /\ Before(t, me.status.next)
    BY <1>3 DEF Ahead
  <2>2. n < w + 2 * DayLen /\ Before(n, me.status.next)
    BY <1>1, <2>1 DEF Before, Times, Never
  <2>q. QED BY <1>3, <2>2 DEF Ahead
<1>q. QED BY <1>2, <1>3

\* Time passes.
LEMMA GoodLater ==
  ASSUME NEW me, NEW c, NEW h, NEW p, NEW o, NEW u, NEW n \in Nat, NEW m \in Nat, n <= m,
         NEW w, Good(me, c, h, p, o, u, n, w)
  PROVE Good(me, c, h, p, o, u, m, w)
<1>1. Ahead(me, m, w) \subseteq Ahead(me, n, w)
  BY DEF Ahead
<1>2. ASSUME Based(me.status, u, n) PROVE Based(me.status, u, m)
  <2>1. ASSUME me.status.reason = "rotation", NEW t \in Nat, m <= t, Before(t, me.status.next)
        PROVE t < u
    <3>1. n <= t
      BY <2>1
    <3>2. \A k \in Nat : n <= k /\ Before(k, me.status.next) => k < u
      BY <1>2, <2>1 DEF Based
    <3>q. QED BY <2>1, <3>1, <3>2
  <2>q. QED BY <1>2, <2>1 DEF Based
<1>q. QED BY <1>1, <1>2 DEF Good

\* An override that is over was no decision for any moment ahead.
LEMMA OverrideOver ==
  ASSUME NEW me, NEW c, NEW h, NEW p, NEW o, NEW u, NEW n \in Nat, NEW w \in Nat,
         me.status.next \in Times, o.until \in Int, Good(me, c, h, p, o, u, n, w),
         o.active, n >= o.until, NEW r
  PROVE Good(me, c, h, p, r, u, n, w)
<1>1. me.pc \in Decided => Ahead(me, n, w) = {}
  <2>1. ASSUME me.pc \in Decided, NEW t \in Ahead(me, n, w) PROVE FALSE
    <3>1. n \in Ahead(me, n, w)
      BY AheadIsNow
    <3>2. Right(c, h, p, o, u, me.status, n)
      BY <2>1, <3>1 DEF Good
    <3>3. n < o.until
      BY <3>2 DEF Right
    <3>q. QED BY <3>3
  <2>q. QED BY <2>1
<1>q. QED BY <1>1 DEF Good

\* Nor was a rotation whose deadline is over.
LEMMA RotationOver ==
  ASSUME NEW me, NEW c, NEW h, NEW p, NEW o, NEW u, NEW n \in Nat, NEW w \in Nat,
         me.status.next \in Times, u \in Int, Good(me, c, h, p, o, u, n, w), n >= u, NEW v
  PROVE Good(me, c, h, p, o, v, n, w)
<1>1. ASSUME me.pc = "inserts" PROVE Based(me.status, v, n)
  <2>1. Based(me.status, u, n)
    BY <1>1 DEF Good
  <2>2. ASSUME me.status.reason = "rotation", NEW t \in Nat, n <= t, Before(t, me.status.next)
        PROVE t < v
    <3>1. Before(n, me.status.next)
      BY <2>2 DEF Before, Times, Never
    <3>2. \A k \in Nat : n <= k /\ Before(k, me.status.next) => k < u
      BY <2>1, <2>2 DEF Based
    <3>3. n <= n
      OBVIOUS
    <3>q. QED BY <3>1, <3>2, <3>3
  <2>q. QED BY <2>1, <2>2 DEF Based
<1>2. ASSUME me.pc \in Decided, NEW t \in Ahead(me, n, w) PROVE Right(c, h, p, o, v, me.status, t)
  <2>1. n \in Ahead(me, n, w)
    BY <1>2, AheadIsNow
  <2>2. Right(c, h, p, o, u, me.status, n) /\ Right(c, h, p, o, u, me.status, t)
    BY <1>2, <2>1 DEF Good
  <2>3. me.status.reason # "rotation"
    BY <2>2 DEF Right
  <2>q. QED BY <2>2, <2>3 DEF Right
<1>q. QED BY <1>1, <1>2 DEF Good

\* The decision is carried out.
LEMMA GoodGoesOn ==
  ASSUME NEW me, NEW r, NEW c, NEW h, NEW p, NEW o, NEW u, NEW n, NEW w,
         Good(me, c, h, p, o, u, n, w), me.pc \in Awake, r.pc \in Awake, r.status = me.status
  PROVE Good(r, c, h, p, o, u, n, w)
<1>1. r.pc \in Decided /\ me.pc \in Decided /\ r.pc \notin Deciding
  BY DEF Awake, Decided, Deciding, Shown
<1>2. Ahead(r, n, w) = Ahead(me, n, w)
  BY DEF Ahead, Awake
<1>q. QED BY <1>1, <1>2 DEF Good, Deciding

\* The decision is slept on, until a timer before its next change.
LEMMA GoodSleeps ==
  ASSUME NEW me, NEW r, NEW c, NEW h, NEW p, NEW o, NEW u, NEW n \in Nat, NEW w, NEW v \in Nat,
         Good(me, c, h, p, o, u, n, w), me.pc \in Awake, r.pc = "sleep", r.status = me.status,
         \A t \in Nat : n <= t /\ t < v => t < w + 2 * DayLen /\ Before(t, me.status.next)
  PROVE Good(r, c, h, p, o, u, n, v)
<1>1. me.pc \in Decided /\ r.pc \notin Deciding
  BY DEF Awake, Deciding
<1>2. Ahead(r, n, v) \subseteq Ahead(me, n, w)
  BY DEF Ahead, Awake
<1>q. QED BY <1>1, <1>2 DEF Good, Deciding

\* The scheduler decides.
LEMMA OverrideGood ==
  ASSUME ShapeInv, TypeOK, TargetOverride("scheduler")
  PROVE GoodNow'
<1> DEFINE r == Me'.status
<1>1. /\ cfg' = cfg /\ holds' = holds /\ presence' = presence /\ rotation' = rotation
      /\ now' = now /\ wake' = wake
  BY DEF TargetOverride, worldVars, programVars, quietVars
<1>2. "scheduler" \in Threads
  BY CallerIsThread
<1>3. CASE override'.active
  <2>1. /\ Me'.pc = "decided" /\ r.reason = "override" /\ r.presence = Presence(cfg, presence, now)
        /\ PresenceHolds(cfg, r)
    BY <1>2, <1>3, OverrideSays DEF Me
  <2>2. \A u \in Nat : Before(u, r.next) => u < override'.until
    BY <1>2, <1>3, OverrideSays DEF Me
  <2> HIDE DEF r
  <2>3. ASSUME NEW t \in Nat, now <= t, Before(t, r.next)
        PROVE Right(cfg, holds, presence, override', rotation.until, r, t)
    <3>1. r.presence = Presence(cfg, presence, t)
      BY <2>1, <2>3 DEF PresenceHolds, Presence
    <3>q. QED BY <1>3, <2>1, <2>2, <2>3, <3>1 DEF Right
  <2>4. \A t \in Ahead(Me', now, wake) :
          Right(cfg, holds, presence, override', rotation.until, r, t)
    BY <2>1, <2>3 DEF Ahead, r
  <2>q. QED BY <1>1, <2>1, <2>4 DEF GoodNow, Good, Deciding, r
<1>4. CASE ~override'.active
  <2>1. Me'.pc = "base" /\ Me'.snap = Where(cfg, holds)
    BY <1>2, <1>4, OverrideSays DEF Me
  <2>q. QED BY <1>1, <2>1 DEF GoodNow, Good, Deciding, Decided, Shown
<1>q. QED BY <1>3, <1>4

\* It takes the programme as its base.
LEMMA BaseGood ==
  ASSUME ShapeInv, TypeOK, KnownInv, TargetBase("scheduler"), GoodNow
  PROVE GoodNow'
<1>1. /\ cfg' = cfg /\ holds' = holds /\ presence' = presence /\ Me.pc = "base"
  BY DEF TargetBase, worldVars, IsAt, Me
<1>2. "scheduler" \in Threads /\ Known(Me.snap)
  BY <1>1, CallerIsThread DEF KnownInv, Deciding, Me
<1>3. Me'.snap = Me.snap /\ Me'.pc \in {"extend", "inserts"}
  BY <1>2, BaseStep DEF Me
<1>4. Me.snap = Where(cfg, holds)
  BY <1>1 DEF GoodNow, Good, Deciding
<1>5. \/ Me'.pc = "extend"
      \/ /\ Me'.pc = "inserts" /\ Me'.status.presence = ""
         /\ Me'.status.reason \in {"disabled", "no active time rule", "no rotation items", "time"}
  BY <1>2, BaseSays DEF Me
<1>6. Me'.pc = "inserts" => Based(Me'.status, rotation'.until, now')
  BY <1>5 DEF Based
<1>q. QED BY <1>1, <1>3, <1>4, <1>6 DEF GoodNow, Good, Decided, Shown

\* It takes the next item of the rotation.
LEMMA RotationGood ==
  ASSUME ShapeInv, TypeOK, KnownInv, TargetRotation("scheduler"), GoodNow
  PROVE GoodNow'
<1>1. /\ cfg' = cfg /\ holds' = holds /\ presence' = presence /\ Me.pc = "extend"
  BY DEF TargetRotation, worldVars, IsAt, Me
<1>2. "scheduler" \in Threads /\ Known(Me.snap)
  BY <1>1, CallerIsThread DEF KnownInv, Deciding, Me
<1>3. Me'.snap = Me.snap /\ Me'.pc = "inserts"
  BY <1>2, RotationStep DEF Me
<1>4. Me.snap = Where(cfg, holds)
  BY <1>1 DEF GoodNow, Good, Deciding
<1>5. /\ Me'.status.next # Never /\ Me'.status.next = rotation'.until
      /\ Me'.status.reason = "rotation" /\ Me'.status.presence = ""
  BY <1>2, RotationSays DEF Me
<1>6. \A t \in Nat : Before(t, Me'.status.next) => t < rotation'.until
  BY <1>5 DEF Before
<1>7. Based(Me'.status, rotation'.until, now')
  BY <1>5, <1>6 DEF Based
<1>q. QED BY <1>1, <1>3, <1>4, <1>7 DEF GoodNow, Good, Decided, Shown

\* It adds presence and the insert that runs: the answer.
LEMMA InsertsGood ==
  ASSUME ShapeInv, TypeOK, KnownInv, WakeInv, RoundInv, undisturbed,
         TargetInserts("scheduler"), GoodNow
  PROVE GoodNow'
<1> DEFINE c == Me.snap
           r == Me'.status
           old == Me.status
           slot == ActiveInsert(c, now)
           page == c.inserts[slot.index].page
           u == rotation.until
<1>1. /\ cfg' = cfg /\ holds' = holds /\ presence' = presence /\ rotation' = rotation
      /\ override' = override /\ now' = now /\ wake' = wake /\ Me.pc = "inserts" /\ up
  BY DEF TargetInserts, worldVars, stateVars, quietVars, IsAt, Me
<1>2. "scheduler" \in Threads /\ Known(c) /\ old.next \in Times
  BY <1>1, CallerIsThread DEF KnownInv, Deciding, Me
<1>3. Me'.pc = "decided"
  BY <1>2, InsertsStep DEF Me
<1>4. c = Where(cfg, holds) /\ Based(old, u, now)
  BY <1>1 DEF GoodNow, Good, Deciding
<1>5. ~override.active
  BY <1>1 DEF RoundInv, Deciding
<1>6. now \in Nat /\ wake \in Nat /\ wake <= now /\ cfg \in Configs
  BY <1>1, TimesTyped DEF WakeInv
<1>7. /\ c.presence = "off" => r.presence = old.presence
      /\ c.presence # "off" => r.presence = Presence(c, presence, now)
      /\ PresenceHolds(c, r)
      /\ \A t \in Nat : Before(t, r.next) =>
           Before(t, old.next) /\ (c.inserts = <<>> \/ Before(t, NextInsertChange(c, now)))
  BY <1>2, InsertsSay DEF Me
<1>8. \/ r.reason = "insert" /\ slot # NoSlot /\ r.target = page
      \/ r.reason = old.reason /\ (slot = NoSlot \/ WantsOff(c, r))
  BY <1>2, InsertsSay DEF Me
<1>9. c.presence = cfg.presence /\ c.timeout = cfg.timeout /\ ValidProgram(c)
  BY <1>2, <1>4, <1>6, WhereParts, SavedIsValid DEF Known
<1> HIDE DEF c, r, old, slot, page, u
<1>10. ASSUME NEW t \in Nat, now <= t, t < wake + 2 * DayLen, Before(t, r.next)
       PROVE Right(cfg, holds, presence, override, u, r, t)
  <2>1. Before(t, old.next) /\ (c.inserts = <<>> \/ Before(t, NextInsertChange(c, now)))
    BY <1>7, <1>10
  <2>2. t < now + 2 * DayLen
    BY <1>6, <1>10, HourInDay
  <2>3. ActiveInsert(c, t) = slot
    <3>1. CASE c.inserts = <<>>
      BY <1>6, <1>9, <3>1, NoInserts DEF slot
    <3>2. CASE c.inserts # <<>>
      BY <1>6, <1>9, <1>10, <2>1, <2>2, <3>2, InsertsStay DEF slot
    <3>q. QED BY <3>1, <3>2
  <2>4. Absent(c, presence, t) <=> Absent(cfg, presence, t)
    BY <1>9 DEF Absent
  <2>5. r.presence = Presence(cfg, presence, t)
    <3>1. CASE cfg.presence = "off"
      BY <1>4, <1>7, <1>9, <3>1 DEF Based, Presence
    <3>2. CASE cfg.presence # "off"
      <4>1. r.presence = Presence(c, presence, now) /\ (Absent(c, presence, t) <=> Absent(c, presence, now))
        BY <1>7, <1>9, <1>10, <3>2 DEF PresenceHolds
      <4>q. QED BY <1>9, <2>4, <3>2, <4>1 DEF Presence
    <3>q. QED BY <3>1, <3>2
  <2>6. CASE r.reason = "insert" /\ slot # NoSlot /\ r.target = page
    BY <1>4, <1>5, <2>3, <2>5, <2>6 DEF Right, page
  <2>7. CASE r.reason = old.reason /\ (slot = NoSlot \/ WantsOff(c, r))
    <3>1. r.reason \notin {"insert", "override"} /\ (r.reason = "rotation" => t < u)
      BY <1>4, <1>10, <2>1, <2>7 DEF Based
    <3>q. QED BY <1>4, <1>5, <2>3, <2>5, <2>7, <3>1 DEF Right
  <2>q. QED BY <1>8, <2>6, <2>7
<1>11. \A t \in Ahead(Me', now, wake) : Right(cfg, holds, presence, override, u, r, t)
  BY <1>3, <1>10 DEF Ahead, r
<1>q. QED BY <1>1, <1>3, <1>11 DEF GoodNow, Good, Deciding, r, u

\* Steps of others: at most they end what is over.
LEMMA OthersGood ==
  ASSUME TypeOK, KnownInv, GoodNow, Me' = Me, UNCHANGED <<cfg, holds, presence, wake>>,
         now' \in Nat, now <= now',
         override' = override \/ (override.active /\ now >= override.until),
         rotation'.until = rotation.until \/ RunsOut
  PROVE GoodNow'
<1> DEFINE G(o, u, n) == Good(Me, cfg, holds, presence, o, u, n, wake)
<1>1. /\ now \in Nat /\ wake \in Nat /\ override.until \in Int /\ rotation.until \in Int
      /\ Me.status.next \in Times
  <2>1. Times \subseteq Int
    BY DEF Times, Never
  <2>2. Me.status.next \in Times
    BY CallerIsThread DEF KnownInv, Me
  <2>q. QED BY <2>1, <2>2, TimesTyped
<1>2. G(override, rotation.until, now)
  BY DEF GoodNow
<1>3. G(override', rotation.until, now)
  BY <1>1, <1>2, OverrideOver
<1>4. G(override', rotation'.until, now)
  <2>1. CASE rotation'.until = rotation.until
    BY <1>3, <2>1
  <2>2. CASE RunsOut
    <3>1. now >= rotation.until
      BY <1>1, <2>2 DEF RunsOut, Never
    <3>q. QED BY <1>1, <1>3, <3>1, RotationOver
  <2>q. QED BY <2>1, <2>2
<1>5. Good(Me, cfg, holds, presence, override', rotation'.until, now', wake)
  BY <1>1, <1>4, GoodLater
<1>q. QED BY <1>5 DEF GoodNow

\* The first half of the rotation leaves the deadline.
LEMMA BaseMoves ==
  ASSUME TypeOK, NEW t \in Threads, TargetBase(t)
  PROVE rotation'.until = rotation.until
<1> DEFINE kiosk == th[t].snap
           next == NextIndex(rotation.index, kiosk)
           more == rotation.cycles + (IF next = 1 THEN 1 ELSE 0)
           q == [rotation EXCEPT !.index = next, !.cycles = more]
<1>1. rotation = [index |-> rotation.index, until |-> rotation.until, cycles |-> rotation.cycles]
  BY TimesTyped
<1>2. \/ rotation' = rotation \/ rotation' = [rotation EXCEPT !.index = 1] \/ rotation' = q
  <2>1. [rotation EXCEPT !.index = NextIndex(@, kiosk),
                         !.cycles = @ + (IF NextIndex(rotation.index, kiosk) = 1 THEN 1 ELSE 0)] = q
    BY <1>1
  <2> HIDE DEF q
  <2>q. QED BY <2>1 DEF TargetBase
<1> HIDE DEF next, more
<1>q. QED BY <1>1, <1>2

\* The scheduler carries out its decision, or goes to sleep with it.
LEMMA MineGood ==
  ASSUME ShapeInv, TypeOK, KnownInv, WakeInv, GoodNow, up, Me.pc \in Awake,
         UNCHANGED <<cfg, holds, presence, override, now>>, rotation'.until = rotation.until,
         \/ wake' = wake /\ Me'.pc \in Awake /\ Me'.status = Me.status
         \/ \E p \in Awake \cup {"sleep"} : Proceed("scheduler", p)
  PROVE GoodNow'
<1>1. now \in Nat /\ "scheduler" \in Threads
  BY TimesTyped, CallerIsThread
<1>2. CASE wake' = wake /\ Me'.pc \in Awake /\ Me'.status = Me.status
  <2>1. Good(Me', cfg, holds, presence, override, rotation.until, now, wake)
    BY <1>2, GoodGoesOn DEF GoodNow
  <2>q. QED BY <1>2, <2>1 DEF GoodNow
<1>3. ASSUME NEW p \in Awake \cup {"sleep"}, Proceed("scheduler", p)
      PROVE GoodNow'
  <2>1. th["scheduler"].pc # "sleep"
    BY DEF Me, Awake
  <2>2. Me'.pc = p /\ Me'.status = Me.status
    BY <1>3, MyPlace DEF Proceed
  <2>3. \/ wake' = wake /\ p # "sleep"
        \/ /\ p = "sleep" /\ wake' \in Nat
           /\ \A t \in Nat : now <= t /\ t < wake' =>
                t < wake + 2 * DayLen /\ Before(t, Me.status.next)
    BY <1>1, <1>3, <2>1, RoundEnds, SchedulerAssumption
  <2>4. CASE wake' = wake /\ p # "sleep"
    BY <1>2, <1>3, <2>2, <2>4
  <2>5. CASE /\ p = "sleep" /\ wake' \in Nat
             /\ \A t \in Nat : now <= t /\ t < wake' =>
                  t < wake + 2 * DayLen /\ Before(t, Me.status.next)
    <3>1. Good(Me', cfg, holds, presence, override, rotation.until, now, wake')
      BY <1>1, <2>2, <2>5, GoodSleeps DEF GoodNow
    <3>q. QED BY <3>1 DEF GoodNow
  <2>q. QED BY <2>3, <2>4, <2>5
<1>q. QED BY <1>2, <1>3

\* A page in use is given back to the screen only when the display is to be on.
LEMMA BlankGood ==
  ASSUME ShapeInv, TypeOK, KnownInv, WakeInv, RoundInv, undisturbed, GoodNow, BlankOrRestore
  PROVE GoodNow'
<1> DEFINE s == Me.status
           r == Me'.status
           W == Where(cfg, holds)
           u == rotation.until
<1>1. /\ UNCHANGED <<cfg, holds, presence, override, now>> /\ rotation' = rotation
      /\ up /\ Me.pc = "blank"
  BY DEF BlankOrRestore, worldVars, stateVars, programVars, quietVars, IsAt, Me
<1>2. wake' = wake \/ Proceed("scheduler", "sleep")
  BY DEF BlankOrRestore
<1>3. Me.pc \in Awake /\ Me.pc \in Decided /\ {"blanking", "gate"} \subseteq Awake
  BY <1>1 DEF Awake, Decided, Shown
<1>4. CASE Proceed("scheduler", "sleep")
  BY <1>1, <1>3, <1>4, MineGood
<1>5. CASE Me'.pc = "blanking" /\ Keeps("scheduler") /\ wake' = wake
  <2>1. Me'.status = Me.status
    BY <1>5 DEF Keeps, Me
  <2>q. QED BY <1>1, <1>3, <1>5, <2>1, MineGood
<1>6. CASE /\ Wanted(Me.round) # "OFF" /\ Me'.pc = "gate" /\ wake' = wake
           /\ r.reason = s.reason /\ r.presence = s.presence /\ r.next = s.next
           /\ s.target = NoPage \/ r.target = s.target
  <2>1. ~WantsOff(W, s)
    <3>1. Me.round = cfg
      BY DEF RoundInv
    <3>2. Power(Me.round, s) # "OFF"
      BY <1>6, WantedIsPower
    <3>3. cfg \in Configs /\ W = InsertsWhere(cfg)
      BY TimesTyped, WhereIs
    <3>4. SameProgram(W, cfg)
      BY <3>3, InsertsOnly
    <3>5. Power(W, s) = Power(cfg, s)
      BY <3>4, PowerAgrees
    <3>q. QED BY <3>1, <3>2, <3>5 DEF Power
  <2>2. s.reason = "insert" => s.target # NoPage
    BY CallerIsThread DEF KnownInv, Me
  <2> HIDE DEF W, u, s, r
  <2>3. ASSUME NEW t, Right(cfg, holds, presence, override, u, s, t)
        PROVE Right(cfg, holds, presence, override, u, r, t)
    BY <1>6, <2>1, <2>2, <2>3 DEF Right, W
  <2>4. Ahead(Me', now, wake) = Ahead(Me, now, wake)
    BY <1>1, <1>6 DEF Ahead, r, s
  <2>5. \A t \in Ahead(Me, now, wake) : Right(cfg, holds, presence, override, u, s, t)
    BY <1>3 DEF GoodNow, Good, u, s
  <2>6. \A t \in Ahead(Me', now, wake) : Right(cfg, holds, presence, override, u, r, t)
    BY <2>3, <2>4, <2>5
  <2>q. QED BY <1>1, <1>6, <2>6 DEF GoodNow, Good, Deciding, u, r
<1>8. \/ Me'.pc = "blanking" /\ Keeps("scheduler")
      \/ /\ Wanted(Me.round) # "OFF" /\ Me'.pc = "gate"
         /\ r.reason = s.reason /\ r.presence = s.presence /\ r.next = s.next
         /\ s.target = NoPage \/ r.target = s.target
      \/ display.blanked <=> Wanted(Me.round) = "OFF"
  BY BlankStep
<1>9. (display.blanked <=> Wanted(Me.round) = "OFF") => Proceed("scheduler", "sleep")
  BY DEF BlankOrRestore, Me
<1> HIDE DEF s, r
<1>q. QED BY <1>2, <1>4, <1>5, <1>6, <1>8, <1>9

\* Every step keeps the decision right for what is ahead.
LEMMA CurrentKept ==
  ASSUME ShapeInv, AfterInv, RoundInv, TypeOK, KnownInv, CallerInv, WakeInv, HeldInv,
         CurrentInv, Next
  PROVE CurrentInv'
<1>t. /\ now \in Nat /\ rotation = [index |-> rotation.index, until |-> rotation.until,
                                    cycles |-> rotation.cycles]
  BY TimesTyped
<1>m. "scheduler" \in Threads /\ \A c \in Callers : c \in Threads /\ c # "scheduler"
  BY CallerIsThread
<1>a. ASSUME ~undisturbed' PROVE CurrentInv'
  BY <1>a, CurrentIsGood
<1>b. ASSUME undisturbed' => undisturbed, signalled' = signalled,
             undisturbed /\ ~signalled /\ GoodNow => GoodNow'
      PROVE CurrentInv'
  BY <1>b, CurrentIsGood
<1>c. ASSUME undisturbed' => undisturbed, signalled' = signalled, Me' = Me,
             UNCHANGED <<cfg, holds, presence, wake, now>>,
             override' = override \/ (override.active /\ now >= override.until),
             rotation'.until = rotation.until \/ RunsOut
      PROVE CurrentInv'
  <2>1. now' \in Nat /\ now <= now'
    BY <1>c, <1>t
  <2>2. GoodNow => GoodNow'
    BY <1>c, <2>1, OthersGood
  <2>q. QED BY <1>b, <1>c, <2>2
<1>1. ASSUME NEW c \in Callers,
             TargetOverride(c) \/ TargetBase(c) \/ TargetRotation(c) \/ TargetInserts(c)
      PROVE CurrentInv'
  <2>1. Me' = Me
    BY <1>1, <1>m, OverrideStep, BaseStep, RotationStep, InsertsStep, NotMe
  <2>2. /\ UNCHANGED <<cfg, holds, presence, wake, now>> /\ signalled' = signalled
        /\ undisturbed' = undisturbed
    BY <1>1 DEF TargetOverride, TargetBase, TargetRotation, TargetInserts, worldVars, quietVars
  <2>3. override' = override \/ (override.active /\ now >= override.until)
    BY <1>1 DEF TargetOverride, TargetBase, TargetRotation, TargetInserts, stateVars
  <2>4. rotation'.until = rotation.until \/ RunsOut
    <3>1. CASE TargetBase(c)
      BY <1>m, <3>1, BaseMoves
    <3>2. CASE TargetRotation(c)
      <4>1. th[c].pc = "extend"
        BY <3>2 DEF TargetRotation, IsAt
      <4>2. Known(th[c].snap)
        BY <1>m, <4>1 DEF KnownInv, Deciding
      <4>q. QED BY <1>m, <3>2, <4>2, RotationSays
    <3>3. CASE TargetOverride(c) \/ TargetInserts(c)
      BY <3>3 DEF TargetOverride, TargetInserts, programVars
    <3>q. QED BY <1>1, <3>1, <3>2, <3>3
  <2>q. QED BY <1>c, <2>1, <2>2, <2>3, <2>4
<1>2. ASSUME NEW t \in Threads, PanicsAtRotation(t) \/ SwitchFails(t) \/ SwitchRefused(t)
      PROVE CurrentInv'
  BY <1>2, <1>a DEF PanicsAtRotation, ServiceEnds, SwitchFails, SwitchRefused
<1>3. ASSUME NEW c \in Callers,
             SwitchBegins(c) \/ SwitchSucceeds(c) \/ PanelSet(c) \/ PanelNoted(c)
      PROVE CurrentInv'
  <2>1. ~undisturbed'
    BY <1>3, <1>m DEF SwitchBegins, SwitchSucceeds, PanelSet, PanelNoted, Disturbs
  <2>q. QED BY <1>a, <2>1
<1>4. ASSUME NEW c \in Callers, RecordOverride(c) \/ ForgetOverride(c) PROVE CurrentInv'
  BY <1>4, <1>a DEF RecordOverride, ForgetOverride
<1>5. ASSUME NEW c \in Callers, Persist(c) \/ CallerDecided(c) PROVE CurrentInv'
  <2>1. \E p : GoTo(c, p)
    BY <1>5 DEF Persist, CallerDecided
  <2>2. Me' = Me
    BY <1>m, <2>1, PlaceSet, NotMe
  <2>3. /\ UNCHANGED <<cfg, holds, presence, wake, now>> /\ signalled' = signalled
        /\ undisturbed' = undisturbed /\ override' = override /\ rotation' = rotation
    BY <1>5 DEF Persist, CallerDecided, worldVars, stateVars, programVars, quietVars
  <2>q. QED BY <1>c, <2>2, <2>3
<1>6. ASSUME NEW c \in Callers, NEW wish \in Wishes, CallBegins(c, wish) PROVE CurrentInv'
  <2>1. Me' = Me
    BY <1>6, <1>m, CallStep, NotMe
  <2>2. /\ UNCHANGED <<cfg, holds, presence, wake, now>> /\ signalled' = signalled
        /\ undisturbed' = undisturbed /\ override' = override /\ rotation' = rotation
    BY <1>6 DEF CallBegins, worldVars, stateVars, programVars
  <2>q. QED BY <1>c, <2>1, <2>2
<1>7. CASE TargetOverride("scheduler")
  <2>1. undisturbed' = undisturbed /\ signalled' = signalled
    BY <1>7 DEF TargetOverride, worldVars
  <2>q. QED BY <1>7, <1>b, <2>1, OverrideGood
<1>8. CASE TargetBase("scheduler")
  <2>1. undisturbed' = undisturbed /\ signalled' = signalled
    BY <1>8 DEF TargetBase, worldVars
  <2>q. QED BY <1>8, <1>b, <2>1, BaseGood
<1>9. CASE TargetRotation("scheduler")
  <2>1. undisturbed' = undisturbed /\ signalled' = signalled
    BY <1>9 DEF TargetRotation, worldVars
  <2>q. QED BY <1>9, <1>b, <2>1, RotationGood
<1>10. CASE TargetInserts("scheduler")
  <2>1. undisturbed' = undisturbed /\ signalled' = signalled
    BY <1>10 DEF TargetInserts, worldVars
  <2>q. QED BY <1>10, <1>b, <2>1, InsertsGood
<1>d. ASSUME undisturbed' => undisturbed, signalled' = signalled, up, Me.pc \in Awake,
             UNCHANGED <<cfg, holds, presence, override, now>>, rotation'.until = rotation.until,
             \/ wake' = wake /\ Me'.pc \in Awake /\ Me'.status = Me.status
             \/ \E p \in Awake \cup {"sleep"} : Proceed("scheduler", p)
      PROVE CurrentInv'
  BY <1>b, <1>d, MineGood
<1>p. {"decided", "gate", "navigating", "maintain", "power", "setting", "noting", "blank",
       "blanking", "blanked"} \subseteq Awake
  BY DEF Awake, Decided, Shown
<1>11. CASE SwitchBegins("scheduler")
  <2>1. /\ up /\ Me.pc = "gate" /\ UNCHANGED <<cfg, holds, presence, override, now>>
        /\ rotation' = rotation /\ signalled' = signalled
    BY <1>11 DEF SwitchBegins, IsAt, Me, worldVars, stateVars, programVars, quietVars
  <2>2. undisturbed' => undisturbed
    BY <1>11 DEF SwitchBegins, Disturbs
  <2>3. \/ wake' = wake /\ GoTo("scheduler", "navigating")
        \/ Proceed("scheduler", Me.after)
    BY <1>11 DEF SwitchBegins, AfterFailure, Me
  <2>4. Me.after \in Awake \cup {"sleep"}
    BY <1>p, <2>1 DEF AfterInv
  <2>5. CASE wake' = wake /\ GoTo("scheduler", "navigating")
    BY <1>d, <1>p, <2>1, <2>2, <2>5, MyPlace
  <2>q. QED BY <1>d, <1>p, <2>1, <2>2, <2>3, <2>4, <2>5
<1>12. CASE SwitchSucceeds("scheduler")
  <2>1. /\ up /\ Me.pc = "navigating" /\ UNCHANGED <<cfg, holds, presence, override, now>>
        /\ rotation' = rotation /\ signalled' = signalled
    BY <1>12 DEF SwitchSucceeds, IsAt, Me, worldVars, programVars, quietVars
  <2>2. undisturbed' => undisturbed
    BY <1>12 DEF SwitchSucceeds, Disturbs
  <2>3. Proceed("scheduler", Me.after)
    BY <1>12 DEF SwitchSucceeds, Me
  <2>4. Me.after \in Awake \cup {"sleep"}
    BY <1>p, <2>1 DEF AfterInv
  <2>q. QED BY <1>d, <1>p, <2>1, <2>2, <2>3, <2>4
<1>13. CASE PanelSet("scheduler") \/ PanelNoted("scheduler")
  <2>1. /\ up /\ Me.pc \in {"setting", "noting"} /\ wake' = wake
        /\ UNCHANGED <<cfg, holds, presence, override, now>>
        /\ rotation' = rotation /\ signalled' = signalled
    BY <1>13 DEF PanelSet, PanelNoted, IsAt, Me, worldVars, stateVars, programVars, quietVars
  <2>2. undisturbed' => undisturbed
    BY <1>13 DEF PanelSet, PanelNoted, Disturbs
  <2>3. \E p \in {"noting", Me.after} : GoTo("scheduler", p)
    BY <1>13 DEF PanelSet, PanelNoted, Me
  <2>4. Me.after = "blank"
    BY <2>1 DEF AfterInv
  <2>5. Me'.pc \in Awake /\ Me'.status = Me.status
    BY <1>p, <2>3, <2>4, MyPlace
  <2>q. QED BY <1>d, <1>p, <2>1, <2>2, <2>5
<1>14. CASE Wake
  <2>1. CASE browser.held
    <3>1. undisturbed' = undisturbed
      BY <1>14, <2>1 DEF Wake
    <3>2. ~undisturbed
      BY <2>1 DEF HeldInv
    <3>q. QED BY <1>a, <3>1, <3>2
  <2>2. CASE ~browser.held
    <3>1. th' = [th EXCEPT !["scheduler"] =
                   [Restarting EXCEPT !.pc = "override", !.after = "maintain",
                                      !.round = cfg]]
      BY <1>14, <2>2 DEF Wake
    <3>2. Me'.pc = "override"
      BY <1>m, <3>1 DEF ShapeInv, Me, Restarting, Idle
    <3>3. GoodNow'
      BY <3>2 DEF GoodNow, Good, Deciding, Decided, Shown
    <3>q. QED BY <3>3, CurrentIsGood
  <2>q. QED BY <2>1, <2>2
<1>15. CASE SignalWakes \/ ChangeWakes
  <2>1. Me.pc = "sleep" /\ th' = th /\ wake' = now /\ now' = now
    BY <1>15 DEF SignalWakes, ChangeWakes, IsAt, Me, quietVars
  <2>2. Me'.pc = "sleep"
    BY <2>1 DEF Me
  <2>3. Ahead(Me', now', wake') = {}
    BY <1>t, <2>1, <2>2 DEF Ahead
  <2>4. GoodNow'
    BY <2>2, <2>3 DEF GoodNow, Good, Deciding
  <2>q. QED BY <2>4, CurrentIsGood
<1>16. CASE SchedulerDecided \/ Maintain
  <2>1. /\ up /\ Me.pc \in {"decided", "maintain"} /\ wake' = wake
        /\ UNCHANGED <<cfg, holds, presence, override, now>> /\ signalled' = signalled
        /\ undisturbed' = undisturbed
    BY <1>16 DEF SchedulerDecided, Maintain, IsAt, Me, worldVars, stateVars, quietVars
  <2>2. rotation' = rotation \/ rotation' = [rotation EXCEPT !.cycles = 0]
    BY <1>16 DEF SchedulerDecided, Maintain, programVars
  <2>3. rotation'.until = rotation.until
    BY <1>t, <2>2
  <2>4. \E p \in {"maintain", "gate", "power"} : GoTo("scheduler", p)
    BY <1>16 DEF SchedulerDecided, Maintain
  <2>5. Me'.pc \in Awake /\ Me'.status = Me.status
    BY <1>p, <2>4, MyPlace
  <2>q. QED BY <1>d, <1>p, <2>1, <2>3, <2>5
<1>17. CASE PowerNeeded
  <2>1. /\ up /\ Me.pc = "power" /\ wake' = wake
        /\ UNCHANGED <<cfg, holds, presence, override, now>> /\ signalled' = signalled
        /\ undisturbed' = undisturbed /\ rotation' = rotation
    BY <1>17 DEF PowerNeeded, IsAt, Me, worldVars, stateVars, programVars, quietVars
  <2>2. Me'.pc \in {"blank", "setting"} /\ Me'.status = Me.status
    BY <1>17, PowerStep
  <2>q. QED BY <1>d, <1>p, <2>1, <2>2
<1>18. CASE BlankOrRestore
  <2>1. undisturbed' = undisturbed /\ signalled' = signalled
    BY <1>18 DEF BlankOrRestore, worldVars
  <2>q. QED BY <1>18, <1>b, <2>1, BlankGood
<1>19. CASE Blanks \/ BlankNoted
  <2>1. /\ up /\ Me.pc \in {"blanking", "blanked"}
        /\ UNCHANGED <<cfg, holds, presence, override, now>> /\ signalled' = signalled
        /\ rotation' = rotation
    BY <1>19 DEF Blanks, BlankNoted, IsAt, Me, worldVars, stateVars, programVars, quietVars
  <2>2. undisturbed' => undisturbed
    BY <1>19 DEF Blanks, BlankNoted
  <2>3. \/ wake' = wake /\ GoTo("scheduler", "blanked")
        \/ Proceed("scheduler", "sleep")
    BY <1>19 DEF Blanks, BlankNoted
  <2>4. CASE wake' = wake /\ GoTo("scheduler", "blanked")
    BY <1>d, <1>p, <2>1, <2>2, <2>4, MyPlace
  <2>q. QED BY <1>d, <1>p, <2>1, <2>2, <2>3, <2>4
<1>20. CASE SignalArrives
  <2>1. /\ UNCHANGED <<cfg, override, rotation, wake, now>> /\ undisturbed' = undisturbed
        /\ th' = th /\ (ConditionChanges \/ NotePresence)
    BY <1>20 DEF SignalArrives, stateVars, programVars
  <2>2. CASE signalled'
    BY <2>2, CurrentIsGood
  <2>3. CASE ~signalled'
    <3>1. NotePresence /\ holds' = holds
      BY <2>1, <2>3 DEF ConditionChanges, NotePresence
    <3>2. ~signalled /\ presence # Never /\ ~(now > presence) /\ presence' = now
      BY <2>3, <3>1 DEF NotePresence
    <3>3. presence \in 0..now
      BY <3>2 DEF TypeOK
    <3>4. presence' = presence
      BY <1>t, <3>2, <3>3
    <3>5. Me' = Me
      BY <2>1 DEF Me
    <3>6. now' \in Nat /\ now <= now'
      BY <1>t, <2>1
    <3>7. GoodNow => GoodNow'
      BY <2>1, <3>1, <3>4, <3>5, <3>6, OthersGood
    <3>q. QED BY <2>1, <3>2, <3>7, CurrentIsGood
  <2>q. QED BY <2>2, <2>3
<1>21. CASE ConfigSaved \/ BrowserStops \/ BrowserStarts \/ PowerLost
  BY <1>21, <1>a DEF ConfigSaved, BrowserStops, BrowserStarts, PowerLost, ServiceEnds
<1>22. CASE MQTTTakesChange \/ PersistLater
  <2>1. /\ UNCHANGED <<cfg, holds, presence, wake, now>> /\ signalled' = signalled /\ th' = th
        /\ undisturbed' = undisturbed /\ override' = override /\ rotation' = rotation
    BY <1>22 DEF MQTTTakesChange, PersistLater, worldVars, stateVars, programVars, quietVars
  <2>2. Me' = Me
    BY <2>1 DEF Me
  <2>q. QED BY <1>c, <2>1, <2>2
<1>23. CASE Boot
  BY <1>23, <1>a DEF Boot, RoundInv
<1>24. CASE Tick
  <2>1. /\ UNCHANGED <<cfg, holds, presence, wake>> /\ now' = now + 1 /\ signalled' = signalled
        /\ th' = th /\ undisturbed' = undisturbed /\ override' = override /\ rotation' = rotation
    BY <1>24 DEF Tick, worldVars, stateVars, programVars
  <2>2. Me' = Me
    BY <2>1 DEF Me
  <2>3. now' \in Nat /\ now <= now'
    BY <1>t, <2>1
  <2>4. GoodNow => GoodNow'
    BY <2>1, <2>2, <2>3, OthersGood
  <2>q. QED BY <1>b, <2>1, <2>4
<1>25. \A t \in Threads : t \in Callers \/ t = "scheduler"
  BY DEF Threads
<1>26. ASSUME NEW t \in Threads,
              \/ TargetOverride(t) \/ TargetBase(t) \/ PanicsAtRotation(t)
              \/ TargetRotation(t) \/ TargetInserts(t) \/ SwitchBegins(t)
              \/ SwitchSucceeds(t) \/ SwitchFails(t) \/ SwitchRefused(t) \/ PanelSet(t)
              \/ PanelNoted(t)
       PROVE CurrentInv'
  BY <1>1, <1>2, <1>3, <1>7, <1>8, <1>9, <1>10, <1>11, <1>12, <1>13, <1>25, <1>26
<1>q. QED
  BY <1>4, <1>5, <1>6, <1>14, <1>15, <1>16, <1>17, <1>18, <1>19, <1>20, <1>21, <1>22,
    <1>23, <1>24, <1>26, NextSteps

-----------------------------------------------------------------------------
(* The time rules, and how long ago they were looked at.                  *)

\* A section that may end a round sets the timer to a moment that is not past, or leaves it.
LEMMA ProceedLater ==
  ASSUME TypeOK, KnownInv, NEW t \in Threads, NEW p, Proceed(t, p)
  PROVE wake' = wake \/ wake' >= now
<1>1. now \in Nat /\ cfg \in Configs
  BY TimesTyped
<1>2. wake' = wake \/ wake' = NextWake(cfg, Status(t))
  BY DEF Proceed
<1>3. Status(t).next \in Times
  BY DEF KnownInv, Status
<1>4. NextWake(cfg, Status(t)) >= now
  BY <1>1, <1>3, SavedIsValid, WakesInTime
<1>q. QED BY <1>2, <1>4

\* The timer is only ever set to now or later.
LEMMA WakeGrows ==
  ASSUME TypeOK, KnownInv, Next
  PROVE wake' = wake \/ wake' >= now
<1> DEFINE Goal == wake' = wake \/ wake' >= now
<1>t. now \in Nat /\ cfg.tick \in Nat
  BY TimesTyped, SavedIsValid
<1>m. "scheduler" \in Threads
  BY CallerIsThread
<1>1. ASSUME NEW t \in Threads,
             \/ TargetOverride(t) \/ TargetBase(t) \/ PanicsAtRotation(t)
             \/ TargetRotation(t) \/ TargetInserts(t) \/ PanelSet(t) \/ PanelNoted(t)
      PROVE Goal
  BY <1>1 DEF TargetOverride, TargetBase, PanicsAtRotation, ServiceEnds, TargetRotation,
    TargetInserts, PanelSet, PanelNoted
<1>2. ASSUME NEW t \in Threads,
             SwitchBegins(t) \/ SwitchSucceeds(t) \/ SwitchFails(t) \/ SwitchRefused(t)
      PROVE Goal
  <2>1. wake' = wake \/ \E p : Proceed(t, p)
    BY <1>2 DEF SwitchBegins, SwitchSucceeds, SwitchFails, SwitchRefused
  <2>q. QED BY <2>1, ProceedLater
<1>3. ASSUME NEW c \in Callers,
             \/ RecordOverride(c) \/ ForgetOverride(c) \/ Persist(c) \/ CallerDecided(c)
      PROVE Goal
  BY <1>3 DEF RecordOverride, ForgetOverride, Persist, CallerDecided
<1>4. ASSUME NEW c \in Callers, NEW wish \in Wishes, CallBegins(c, wish) PROVE Goal
  BY <1>4 DEF CallBegins
<1>5. CASE BlankOrRestore \/ Blanks \/ BlankNoted
  <2>1. wake' = wake \/ \E p : Proceed("scheduler", p)
    BY <1>5 DEF BlankOrRestore, Blanks, BlankNoted
  <2>q. QED BY <1>m, <2>1, ProceedLater
<1>6. CASE Wake \/ SignalWakes \/ ChangeWakes \/ Boot
  <2>1. wake' \in {wake, now, now + cfg.tick}
    BY <1>6 DEF Wake, SignalWakes, ChangeWakes, Boot
  <2>q. QED BY <1>t, <2>1
<1>7. CASE \/ SchedulerDecided \/ Maintain \/ PowerNeeded \/ SignalArrives \/ ConfigSaved
           \/ MQTTTakesChange \/ BrowserStops \/ BrowserStarts \/ PowerLost
           \/ PersistLater \/ Tick
  BY <1>7 DEF SchedulerDecided, Maintain, PowerNeeded, SignalArrives, ConfigSaved,
    MQTTTakesChange, BrowserStops, BrowserStarts, PowerLost, ServiceEnds, PersistLater, Tick
<1>q. QED BY <1>1, <1>2, <1>3, <1>4, <1>5, <1>6, <1>7, NextSteps

\* A reload is not dated past the timer.
LEMMA DatedKept ==
  ASSUME TypeOK, KnownInv, ReloadInv, DatedInv, Next, wake' \in Nat
  PROVE DatedInv'
<1>1. now \in Nat /\ wake \in Nat /\ lastMaintenance \in Int
  BY TimesTyped DEF ReloadInv, Never
<1>2. lastMaintenance <= wake /\ lastMaintenance <= now
  BY <1>1 DEF DatedInv, ReloadInv, Never
<1>3. CASE lastMaintenance' = lastMaintenance
  <2>1. wake' = wake \/ wake' >= now
    BY WakeGrows
  <2>q. QED BY <1>1, <1>2, <1>3, <2>1 DEF DatedInv
<1>4. CASE Maintain
  <2>1. wake' = wake /\ lastMaintenance' \in {lastMaintenance, wake}
    BY <1>4 DEF Maintain
  <2>q. QED BY <1>1, <1>2, <2>1 DEF DatedInv
<1>5. CASE Boot
  <2>1. wake' = now /\ lastMaintenance' = Never
    BY <1>5 DEF Boot
  <2>q. QED BY <1>1, <2>1 DEF DatedInv, Never
<1>q. QED BY <1>3, <1>4, <1>5, MaintenanceMoves

\* What a decision says of the time rules, that it still says so asleep, and RulesInv by
\* its parts.
Says(c, s, m) ==
  /\ s.reason = "time" => Ruled(c, s, m)
  /\ s.reason \in {"no active time rule", "rotation"} => NoRule(c, m)

Lasts(c, s, t) ==
  \E m \in 0..t :
    /\ t < m + MaxRound + c.tick
    /\ s.reason = "time" =>
         /\ ActiveRules(c, m) # {}
         /\ s.target = ClampPage(First(c, m).page, c.pages)
         /\ t < RuleEnds(First(c, m), m)
    /\ s.reason \in {"no active time rule", "rotation"} => NoRule(c, m)

Told(me, c, n, w) ==
  /\ me.pc = "extend" => \E m \in w..n : NoRule(c, m)
  /\ me.pc = "inserts" \/ me.pc \in Awake => \E m \in w..n : Says(c, me.status, m)
  /\ me.pc = "sleep" => \A t \in Nat : n <= t /\ t < w => Lasts(c, me.status, t)

ToldNow == Told(Me, cfg, now, wake)

\* RulesInv, by its parts.
LEMMA RulesAreTold ==
  /\ RulesInv <=> (undisturbed => ToldNow)
  /\ RulesInv' <=> (undisturbed' => ToldNow')
<1>1. Status("scheduler") = Me.status /\ Status("scheduler")' = Me'.status
  BY DEF Status, Me
<1>2. /\ \A m : NoRuleAt(m) <=> NoRule(cfg, m)
      /\ \A m : NoRuleAt(m)' <=> NoRule(cfg', m)
  BY DEF NoRuleAt, NoRule
<1>3. /\ \A m : RuleAt(m) = First(cfg, m)
      /\ \A m : RuleAt(m)' = First(cfg', m)
  BY DEF RuleAt, First
<1>4. /\ \A m : SeenWell(m) <=> Says(cfg, Me.status, m)
      /\ \A m : SeenWell(m)' <=> Says(cfg', Me'.status, m)
  BY <1>1, <1>2, <1>3 DEF SeenWell, RulesSeen, Says, Ruled
<1>5. /\ \A t : RulesCurrent(t) <=> Lasts(cfg, Me.status, t)
      /\ \A t : RulesCurrent(t)' <=> Lasts(cfg', Me'.status, t)
  BY <1>1, <1>2, <1>3 DEF RulesCurrent, RulesSeen, Lasts
<1>6. RulesInv <=> (undisturbed => ToldNow)
  BY <1>2, <1>4, <1>5 DEF RulesInv, ToldNow, Told, Awake
<1>7. RulesInv' <=> (undisturbed' => ToldNow')
  BY <1>2, <1>4, <1>5 DEF RulesInv, ToldNow, Told, Awake
<1>q. QED BY <1>6, <1>7

\* Programmes that differ in their inserts have the same rules.
LEMMA SameRules ==
  ASSUME NEW k, NEW c, SameProgram(k, c), NEW m
  PROVE /\ NoRule(k, m) <=> NoRule(c, m)
        /\ \A s : Ruled(k, s, m) <=> Ruled(c, s, m)
<1>1. k.timeRules = c.timeRules /\ k.mode = c.mode /\ k.pages = c.pages
  BY DEF SameProgram
<1>2. ActiveRules(k, m) = ActiveRules(c, m)
  BY <1>1 DEF ActiveRules
<1>3. First(k, m) = First(c, m)
  BY <1>1, <1>2 DEF First
<1>q. QED BY <1>1, <1>2, <1>3 DEF NoRule, Ruled

\* Time passes.
LEMMA ToldLater ==
  ASSUME NEW me, NEW c, NEW n \in Nat, NEW v \in Nat, n <= v, NEW w \in Nat, Told(me, c, n, w)
  PROVE Told(me, c, v, w)
<1>1. w..n \subseteq w..v
  OBVIOUS
<1>2. \A t \in Nat : v <= t => n <= t
  OBVIOUS
<1>q. QED BY <1>1, <1>2 DEF Told

\* The decision is carried out.
LEMMA ToldGoesOn ==
  ASSUME NEW me, NEW r, NEW c, NEW n, NEW w, Told(me, c, n, w), me.pc \in Awake, r.pc \in Awake,
         r.status = me.status
  PROVE Told(r, c, n, w)
<1>1. r.pc # "extend" /\ r.pc # "sleep"
  BY DEF Awake, Decided, Shown
<1>q. QED BY <1>1 DEF Told

\* The decision is slept on.
LEMMA ToldSleeps ==
  ASSUME NEW me, NEW r, NEW c, c.tick \in Nat, NEW n \in Nat, NEW w \in Nat, NEW v \in Nat,
         Told(me, c, n, w), me.pc \in Awake, r.pc = "sleep", r.status = me.status,
         \A t \in Nat : n <= t /\ t < v =>
           t < w + MaxRound + c.tick /\ Before(t, me.status.next)
  PROVE Told(r, c, n, v)
<1>0. MaxRound \in Nat
  BY SchedulerAssumption
<1>1. PICK m \in w..n : Says(c, me.status, m)
  BY DEF Told
<1>2. ASSUME NEW t \in Nat, n <= t, t < v PROVE Lasts(c, me.status, t)
  <2>1. m \in 0..t
    BY <1>1, <1>2
  <2>2. t < w + MaxRound + c.tick /\ Before(t, me.status.next)
    BY <1>2
  <2>3. t < m + MaxRound + c.tick
    BY <1>0, <1>1, <2>2
  <2>q. QED BY <1>1, <2>1, <2>2, <2>3 DEF Says, Ruled, Lasts
<1>3. r.pc # "extend" /\ r.pc # "inserts" /\ r.pc \notin Awake
  BY DEF Awake
<1>q. QED BY <1>2, <1>3 DEF Told

\* The rules are looked at.
LEMMA OverrideTold ==
  ASSUME ShapeInv, TypeOK, WakeInv, TargetOverride("scheduler")
  PROVE ToldNow'
<1>1. /\ cfg' = cfg /\ now' = now /\ wake' = wake /\ up /\ Me.pc = "override"
  BY DEF TargetOverride, worldVars, quietVars, IsAt, Me
<1>2. "scheduler" \in Threads
  BY CallerIsThread
<1>3. now \in wake..now
  BY <1>1, TimesTyped DEF WakeInv
<1>4. \/ Me'.pc = "decided" /\ Me'.status.reason = "override"
      \/ Me'.pc = "base"
  BY <1>2, OverrideSays DEF Me
<1>5. CASE Me'.pc = "decided" /\ Me'.status.reason = "override"
  <2>1. Says(cfg, Me'.status, now)
    BY <1>5 DEF Says
  <2>q. QED BY <1>1, <1>3, <1>5, <2>1 DEF ToldNow, Told
<1>6. CASE Me'.pc = "base"
  BY <1>6 DEF ToldNow, Told, Awake, Decided, Shown
<1>q. QED BY <1>4, <1>5, <1>6

\* The rules give the base, or none of them is active.
LEMMA BaseTold ==
  ASSUME ShapeInv, TypeOK, KnownInv, WakeInv, RoundInv, undisturbed, TargetBase("scheduler")
  PROVE ToldNow'
<1>1. /\ cfg' = cfg /\ now' = now /\ wake' = wake /\ up /\ Me.pc = "base"
  BY DEF TargetBase, worldVars, quietVars, IsAt, Me
<1>2. "scheduler" \in Threads /\ Known(Me.snap)
  BY <1>1, CallerIsThread DEF KnownInv, Deciding, Me
<1>3. now \in wake..now
  BY <1>1, TimesTyped DEF WakeInv
<1>4. SameProgram(Me.snap, cfg)
  BY <1>1 DEF RoundInv, Deciding
<1> DEFINE k == Me.snap
           s == Me'.status
<1>e. \/ Me'.pc = "extend" /\ NoRule(k, now)
      \/ /\ Me'.pc = "inserts"
         /\ s.reason \in {"disabled", "no active time rule", "no rotation items", "time"}
         /\ s.reason = "no active time rule" => NoRule(k, now)
         /\ s.reason = "time" => Ruled(k, s, now)
  BY <1>2, BaseSays DEF Me
<1>f. (NoRule(k, now) <=> NoRule(cfg, now)) /\ (Ruled(k, s, now) <=> Ruled(cfg, s, now))
  BY <1>4, SameRules
<1> HIDE DEF k, s
<1>g. /\ "rotation" # "time" /\ "rotation" # "disabled"
      /\ "rotation" # "no active time rule" /\ "rotation" # "no rotation items"
  OBVIOUS
<1>5. \/ Me'.pc = "extend" /\ NoRule(cfg, now)
      \/ Me'.pc = "inserts" /\ Says(cfg, s, now)
  BY <1>e, <1>f, <1>g DEF Says
<1>6. CASE Me'.pc = "extend" /\ NoRule(cfg, now)
  BY <1>1, <1>3, <1>6 DEF ToldNow, Told, Awake, Decided, Shown
<1>7. CASE Me'.pc = "inserts" /\ Says(cfg, s, now)
  <2>1. Me'.pc = "inserts" /\ Says(cfg, Me'.status, now)
    BY <1>7 DEF s
  <2>q. QED BY <1>1, <1>3, <2>1 DEF ToldNow, Told
<1>q. QED BY <1>5, <1>6, <1>7

\* The rotation has its turn only while no rule is active.
LEMMA RotationTold ==
  ASSUME ShapeInv, TypeOK, KnownInv, ToldNow, TargetRotation("scheduler")
  PROVE ToldNow'
<1>1. /\ cfg' = cfg /\ now' = now /\ wake' = wake /\ Me.pc = "extend"
  BY DEF TargetRotation, worldVars, quietVars, IsAt, Me
<1>2. "scheduler" \in Threads /\ Known(Me.snap)
  BY <1>1, CallerIsThread DEF KnownInv, Deciding, Me
<1>3. Me'.pc = "inserts" /\ Me'.status.reason = "rotation"
  BY <1>2, RotationStep, RotationSays DEF Me
<1>4. PICK m \in wake..now : NoRule(cfg, m)
  BY <1>1 DEF ToldNow, Told
<1>5. Says(cfg, Me'.status, m)
  BY <1>3, <1>4 DEF Says
<1>q. QED BY <1>1, <1>3, <1>4, <1>5 DEF ToldNow, Told

\* An insert says nothing of the rules, and another decision keeps what it says.
LEMMA InsertsTold ==
  ASSUME ShapeInv, TypeOK, KnownInv, ToldNow, TargetInserts("scheduler")
  PROVE ToldNow'
<1> DEFINE r == Me'.status
           s == Me.status
<1>1. /\ cfg' = cfg /\ now' = now /\ wake' = wake /\ Me.pc = "inserts"
  BY DEF TargetInserts, worldVars, quietVars, IsAt, Me
<1>2. "scheduler" \in Threads /\ Known(Me.snap) /\ s.next \in Times
  BY <1>1, CallerIsThread DEF KnownInv, Deciding, Me
<1>3. Me'.pc = "decided"
  BY <1>2, InsertsStep DEF Me
<1>4. /\ \A t \in Nat : Before(t, r.next) => Before(t, s.next)
      /\ \/ r.reason = "insert"
         \/ r.reason = s.reason /\ (r.target = s.target \/ s.target = NoPage)
  BY <1>2, InsertsSay DEF Me
<1>5. PICK m \in wake..now : Says(cfg, s, m)
  BY <1>1 DEF ToldNow, Told
<1> HIDE DEF r, s
<1>6. Says(cfg, r, m)
  BY <1>4, <1>5 DEF Says, Ruled
<1>q. QED BY <1>1, <1>3, <1>5, <1>6 DEF ToldNow, Told, r

\* The scheduler carries out its decision, or goes to sleep with it.
LEMMA MineTold ==
  ASSUME ShapeInv, TypeOK, KnownInv, WakeInv, ToldNow, up, Me.pc \in Awake,
         UNCHANGED <<cfg, now>>,
         \/ wake' = wake /\ Me'.pc \in Awake /\ Me'.status = Me.status
         \/ \E p \in Awake \cup {"sleep"} : Proceed("scheduler", p)
  PROVE ToldNow'
<1>1. now \in Nat /\ wake \in Nat /\ cfg.tick \in Nat /\ "scheduler" \in Threads
  BY TimesTyped, SavedIsValid, CallerIsThread
<1>2. CASE wake' = wake /\ Me'.pc \in Awake /\ Me'.status = Me.status
  <2>1. Told(Me', cfg, now, wake)
    BY <1>2, ToldGoesOn DEF ToldNow
  <2>q. QED BY <1>2, <2>1 DEF ToldNow
<1>3. ASSUME NEW p \in Awake \cup {"sleep"}, Proceed("scheduler", p)
      PROVE ToldNow'
  <2>1. th["scheduler"].pc # "sleep"
    BY DEF Me, Awake
  <2>2. Me'.pc = p /\ Me'.status = Me.status
    BY <1>3, MyPlace DEF Proceed
  <2>3. \/ wake' = wake /\ p # "sleep"
        \/ /\ p = "sleep" /\ wake' \in Nat
           /\ \A t \in Nat : now <= t /\ t < wake' =>
                t < wake + MaxRound + cfg.tick /\ Before(t, Me.status.next)
    BY <1>1, <1>3, <2>1, RoundEnds, SchedulerAssumption
  <2>4. CASE wake' = wake /\ p # "sleep"
    BY <1>2, <1>3, <2>2, <2>4
  <2>5. CASE /\ p = "sleep" /\ wake' \in Nat
             /\ \A t \in Nat : now <= t /\ t < wake' =>
                  t < wake + MaxRound + cfg.tick /\ Before(t, Me.status.next)
    <3>1. Told(Me', cfg, now, wake')
      BY <1>1, <2>2, <2>5, ToldSleeps DEF ToldNow
    <3>q. QED BY <3>1 DEF ToldNow
  <2>q. QED BY <2>3, <2>4, <2>5
<1>q. QED BY <1>2, <1>3

\* A page that is given back is none of a rule's, or the same.
LEMMA BlankTold ==
  ASSUME ShapeInv, TypeOK, KnownInv, WakeInv, ToldNow, BlankOrRestore
  PROVE ToldNow'
<1> DEFINE s == Me.status
           r == Me'.status
<1>1. UNCHANGED <<cfg, now>> /\ up /\ Me.pc = "blank"
  BY DEF BlankOrRestore, worldVars, quietVars, IsAt, Me
<1>2. wake' = wake \/ Proceed("scheduler", "sleep")
  BY DEF BlankOrRestore
<1>3. Me.pc \in Awake /\ {"blanking", "gate"} \subseteq Awake
  BY <1>1 DEF Awake, Decided, Shown
<1>4. CASE Proceed("scheduler", "sleep")
  BY <1>1, <1>3, <1>4, MineTold
<1>5. CASE Me'.pc = "blanking" /\ Keeps("scheduler") /\ wake' = wake
  <2>1. Me'.status = Me.status
    BY <1>5 DEF Keeps, Me
  <2>q. QED BY <1>1, <1>3, <1>5, <2>1, MineTold
<1>6. CASE /\ Me'.pc = "gate" /\ wake' = wake /\ r.reason = s.reason /\ r.next = s.next
           /\ s.target = NoPage \/ r.target = s.target
  <2>1. PICK m \in wake..now : Says(cfg, s, m)
    BY <1>3 DEF ToldNow, Told
  <2> HIDE DEF r, s
  <2>2. Says(cfg, r, m)
    BY <1>6, <2>1 DEF Says, Ruled
  <2>q. QED BY <1>1, <1>3, <1>6, <2>1, <2>2 DEF ToldNow, Told, r
<1>7. \/ Me'.pc = "blanking" /\ Keeps("scheduler")
      \/ /\ Me'.pc = "gate" /\ r.reason = s.reason /\ r.next = s.next
         /\ s.target = NoPage \/ r.target = s.target
      \/ display.blanked <=> Wanted(Me.round) = "OFF"
  BY BlankStep
<1>8. (display.blanked <=> Wanted(Me.round) = "OFF") => Proceed("scheduler", "sleep")
  BY DEF BlankOrRestore, Me
<1> HIDE DEF s, r
<1>q. QED BY <1>2, <1>4, <1>5, <1>6, <1>7, <1>8

\* Every step keeps what is known of the rules.
LEMMA RulesKept ==
  ASSUME ShapeInv, AfterInv, RoundInv, TypeOK, KnownInv, CallerInv, WakeInv, HeldInv,
         RulesInv, Next
  PROVE RulesInv'
<1>t. now \in Nat /\ wake \in Nat
  BY TimesTyped
<1>m. "scheduler" \in Threads /\ \A c \in Callers : c \in Threads /\ c # "scheduler"
  BY CallerIsThread
<1>a. ASSUME ~undisturbed' PROVE RulesInv'
  BY <1>a, RulesAreTold
<1>b. ASSUME undisturbed' => undisturbed, undisturbed /\ ToldNow => ToldNow'
      PROVE RulesInv'
  BY <1>b, RulesAreTold
<1>c. ASSUME undisturbed' => undisturbed, Me' = Me, UNCHANGED <<cfg, wake, now>>
      PROVE RulesInv'
  <2>1. ToldNow => ToldNow'
    BY <1>c DEF ToldNow
  <2>q. QED BY <1>b, <1>c, <2>1
<1>1. ASSUME NEW c \in Callers,
             TargetOverride(c) \/ TargetBase(c) \/ TargetRotation(c) \/ TargetInserts(c)
      PROVE RulesInv'
  <2>1. Me' = Me
    BY <1>1, <1>m, OverrideStep, BaseStep, RotationStep, InsertsStep, NotMe
  <2>2. UNCHANGED <<cfg, wake, now>> /\ undisturbed' = undisturbed
    BY <1>1 DEF TargetOverride, TargetBase, TargetRotation, TargetInserts, worldVars, quietVars
  <2>q. QED BY <1>c, <2>1, <2>2
<1>2. ASSUME NEW t \in Threads, PanicsAtRotation(t) \/ SwitchFails(t) \/ SwitchRefused(t)
      PROVE RulesInv'
  BY <1>2, <1>a DEF PanicsAtRotation, ServiceEnds, SwitchFails, SwitchRefused
<1>3. ASSUME NEW c \in Callers,
             SwitchBegins(c) \/ SwitchSucceeds(c) \/ PanelSet(c) \/ PanelNoted(c)
      PROVE RulesInv'
  <2>1. ~undisturbed'
    BY <1>3, <1>m DEF SwitchBegins, SwitchSucceeds, PanelSet, PanelNoted, Disturbs
  <2>q. QED BY <1>a, <2>1
<1>4. ASSUME NEW c \in Callers, RecordOverride(c) \/ ForgetOverride(c) PROVE RulesInv'
  BY <1>4, <1>a DEF RecordOverride, ForgetOverride
<1>5. ASSUME NEW c \in Callers, Persist(c) \/ CallerDecided(c) PROVE RulesInv'
  <2>1. \E p : GoTo(c, p)
    BY <1>5 DEF Persist, CallerDecided
  <2>2. Me' = Me
    BY <1>m, <2>1, PlaceSet, NotMe
  <2>3. UNCHANGED <<cfg, wake, now>> /\ undisturbed' = undisturbed
    BY <1>5 DEF Persist, CallerDecided, worldVars, quietVars
  <2>q. QED BY <1>c, <2>2, <2>3
<1>6. ASSUME NEW c \in Callers, NEW wish \in Wishes, CallBegins(c, wish) PROVE RulesInv'
  <2>1. Me' = Me
    BY <1>6, <1>m, CallStep, NotMe
  <2>2. UNCHANGED <<cfg, wake, now>> /\ undisturbed' = undisturbed
    BY <1>6 DEF CallBegins, worldVars
  <2>q. QED BY <1>c, <2>1, <2>2
<1>7. CASE TargetOverride("scheduler")
  <2>1. undisturbed' = undisturbed
    BY <1>7 DEF TargetOverride, worldVars
  <2>q. QED BY <1>7, <1>b, <2>1, OverrideTold
<1>8. CASE TargetBase("scheduler")
  <2>1. undisturbed' = undisturbed
    BY <1>8 DEF TargetBase, worldVars
  <2>q. QED BY <1>8, <1>b, <2>1, BaseTold
<1>9. CASE TargetRotation("scheduler")
  <2>1. undisturbed' = undisturbed
    BY <1>9 DEF TargetRotation, worldVars
  <2>q. QED BY <1>9, <1>b, <2>1, RotationTold
<1>10. CASE TargetInserts("scheduler")
  <2>1. undisturbed' = undisturbed
    BY <1>10 DEF TargetInserts, worldVars
  <2>q. QED BY <1>10, <1>b, <2>1, InsertsTold
<1>d. ASSUME undisturbed' => undisturbed, up, Me.pc \in Awake, UNCHANGED <<cfg, now>>,
             \/ wake' = wake /\ Me'.pc \in Awake /\ Me'.status = Me.status
             \/ \E p \in Awake \cup {"sleep"} : Proceed("scheduler", p)
      PROVE RulesInv'
  BY <1>b, <1>d, MineTold
<1>p. {"decided", "gate", "navigating", "maintain", "power", "setting", "noting", "blank",
       "blanking", "blanked"} \subseteq Awake
  BY DEF Awake, Decided, Shown
<1>11. CASE SwitchBegins("scheduler")
  <2>1. up /\ Me.pc = "gate" /\ UNCHANGED <<cfg, now>>
    BY <1>11 DEF SwitchBegins, IsAt, Me, worldVars, quietVars
  <2>2. undisturbed' => undisturbed
    BY <1>11 DEF SwitchBegins, Disturbs
  <2>3. \/ wake' = wake /\ GoTo("scheduler", "navigating")
        \/ Proceed("scheduler", Me.after)
    BY <1>11 DEF SwitchBegins, AfterFailure, Me
  <2>4. Me.after \in Awake \cup {"sleep"}
    BY <1>p, <2>1 DEF AfterInv
  <2>5. CASE wake' = wake /\ GoTo("scheduler", "navigating")
    BY <1>d, <1>p, <2>1, <2>2, <2>5, MyPlace
  <2>q. QED BY <1>d, <1>p, <2>1, <2>2, <2>3, <2>4, <2>5
<1>12. CASE SwitchSucceeds("scheduler")
  <2>1. up /\ Me.pc = "navigating" /\ UNCHANGED <<cfg, now>>
    BY <1>12 DEF SwitchSucceeds, IsAt, Me, worldVars, quietVars
  <2>2. undisturbed' => undisturbed
    BY <1>12 DEF SwitchSucceeds, Disturbs
  <2>3. Proceed("scheduler", Me.after)
    BY <1>12 DEF SwitchSucceeds, Me
  <2>4. Me.after \in Awake \cup {"sleep"}
    BY <1>p, <2>1 DEF AfterInv
  <2>q. QED BY <1>d, <1>p, <2>1, <2>2, <2>3, <2>4
<1>13. CASE PanelSet("scheduler") \/ PanelNoted("scheduler")
  <2>1. up /\ Me.pc \in {"setting", "noting"} /\ wake' = wake /\ UNCHANGED <<cfg, now>>
    BY <1>13 DEF PanelSet, PanelNoted, IsAt, Me, worldVars, quietVars
  <2>2. undisturbed' => undisturbed
    BY <1>13 DEF PanelSet, PanelNoted, Disturbs
  <2>3. \E p \in {"noting", Me.after} : GoTo("scheduler", p)
    BY <1>13 DEF PanelSet, PanelNoted, Me
  <2>4. Me.after = "blank"
    BY <2>1 DEF AfterInv
  <2>5. Me'.pc \in Awake /\ Me'.status = Me.status
    BY <1>p, <2>3, <2>4, MyPlace
  <2>q. QED BY <1>d, <1>p, <2>1, <2>2, <2>5
<1>14. CASE Wake
  <2>1. CASE browser.held
    <3>1. undisturbed' = undisturbed
      BY <1>14, <2>1 DEF Wake
    <3>2. ~undisturbed
      BY <2>1 DEF HeldInv
    <3>q. QED BY <1>a, <3>1, <3>2
  <2>2. CASE ~browser.held
    <3>1. th' = [th EXCEPT !["scheduler"] =
                   [Restarting EXCEPT !.pc = "override", !.after = "maintain",
                                      !.round = cfg]]
      BY <1>14, <2>2 DEF Wake
    <3>2. Me'.pc = "override"
      BY <1>m, <3>1 DEF ShapeInv, Me, Restarting, Idle
    <3>3. ToldNow'
      BY <3>2 DEF ToldNow, Told, Awake, Decided, Shown
    <3>q. QED BY <3>3, RulesAreTold
  <2>q. QED BY <2>1, <2>2
<1>15. CASE SignalWakes \/ ChangeWakes
  <2>1. Me.pc = "sleep" /\ th' = th /\ wake' = now /\ now' = now
    BY <1>15 DEF SignalWakes, ChangeWakes, IsAt, Me, quietVars
  <2>2. Me'.pc = "sleep"
    BY <2>1 DEF Me
  <2>3. \A t \in Nat : ~(now' <= t /\ t < wake')
    BY <1>t, <2>1
  <2>4. ToldNow'
    BY <2>2, <2>3 DEF ToldNow, Told, Awake, Decided, Shown
  <2>q. QED BY <2>4, RulesAreTold
<1>16. CASE SchedulerDecided \/ Maintain
  <2>1. /\ up /\ Me.pc \in {"decided", "maintain"} /\ wake' = wake
        /\ UNCHANGED <<cfg, now>> /\ undisturbed' = undisturbed
    BY <1>16 DEF SchedulerDecided, Maintain, IsAt, Me, worldVars, quietVars
  <2>2. \E p \in {"maintain", "gate", "power"} : GoTo("scheduler", p)
    BY <1>16 DEF SchedulerDecided, Maintain
  <2>3. Me'.pc \in Awake /\ Me'.status = Me.status
    BY <1>p, <2>2, MyPlace
  <2>q. QED BY <1>d, <1>p, <2>1, <2>3
<1>17. CASE PowerNeeded
  <2>1. /\ up /\ Me.pc = "power" /\ wake' = wake /\ UNCHANGED <<cfg, now>>
        /\ undisturbed' = undisturbed
    BY <1>17 DEF PowerNeeded, IsAt, Me, worldVars, quietVars
  <2>2. Me'.pc \in {"blank", "setting"} /\ Me'.status = Me.status
    BY <1>17, PowerStep
  <2>q. QED BY <1>d, <1>p, <2>1, <2>2
<1>18. CASE BlankOrRestore
  <2>1. undisturbed' = undisturbed
    BY <1>18 DEF BlankOrRestore, worldVars
  <2>q. QED BY <1>18, <1>b, <2>1, BlankTold
<1>19. CASE Blanks \/ BlankNoted
  <2>1. up /\ Me.pc \in {"blanking", "blanked"} /\ UNCHANGED <<cfg, now>>
    BY <1>19 DEF Blanks, BlankNoted, IsAt, Me, worldVars, quietVars
  <2>2. undisturbed' => undisturbed
    BY <1>19 DEF Blanks, BlankNoted
  <2>3. \/ wake' = wake /\ GoTo("scheduler", "blanked")
        \/ Proceed("scheduler", "sleep")
    BY <1>19 DEF Blanks, BlankNoted
  <2>4. CASE wake' = wake /\ GoTo("scheduler", "blanked")
    BY <1>d, <1>p, <2>1, <2>2, <2>4, MyPlace
  <2>q. QED BY <1>d, <1>p, <2>1, <2>2, <2>3, <2>4
<1>20. CASE SignalArrives \/ MQTTTakesChange \/ PersistLater
  <2>1. UNCHANGED <<cfg, wake, now>> /\ th' = th /\ undisturbed' = undisturbed
    BY <1>20 DEF SignalArrives, MQTTTakesChange, PersistLater, worldVars, quietVars
  <2>2. Me' = Me
    BY <2>1 DEF Me
  <2>q. QED BY <1>c, <2>1, <2>2
<1>21. CASE ConfigSaved \/ BrowserStops \/ BrowserStarts \/ PowerLost
  BY <1>21, <1>a DEF ConfigSaved, BrowserStops, BrowserStarts, PowerLost, ServiceEnds
<1>22. CASE Boot
  BY <1>22, <1>a DEF Boot, RoundInv
<1>23. CASE Tick
  <2>1. UNCHANGED <<cfg, wake>> /\ now' = now + 1 /\ th' = th /\ undisturbed' = undisturbed
    BY <1>23 DEF Tick, worldVars
  <2>2. Me' = Me
    BY <2>1 DEF Me
  <2>3. now' \in Nat /\ now <= now'
    BY <1>t, <2>1
  <2>4. ToldNow => Told(Me, cfg, now', wake)
    BY <1>t, <2>3, ToldLater DEF ToldNow
  <2>5. ToldNow => ToldNow'
    BY <2>1, <2>2, <2>4 DEF ToldNow
  <2>q. QED BY <1>b, <2>1, <2>5
<1>24. \A t \in Threads : t \in Callers \/ t = "scheduler"
  BY DEF Threads
<1>25. ASSUME NEW t \in Threads,
              \/ TargetOverride(t) \/ TargetBase(t) \/ PanicsAtRotation(t)
              \/ TargetRotation(t) \/ TargetInserts(t) \/ SwitchBegins(t)
              \/ SwitchSucceeds(t) \/ SwitchFails(t) \/ SwitchRefused(t) \/ PanelSet(t)
              \/ PanelNoted(t)
       PROVE RulesInv'
  BY <1>1, <1>2, <1>3, <1>7, <1>8, <1>9, <1>10, <1>11, <1>12, <1>13, <1>24, <1>25
<1>q. QED
  BY <1>4, <1>5, <1>6, <1>14, <1>15, <1>16, <1>17, <1>18, <1>19, <1>20, <1>21, <1>22,
    <1>23, <1>25, NextSteps

-----------------------------------------------------------------------------
(* The inductive invariant and the theorems.                               *)

\* Holds at the start.
LEMMA InitEstablishes ==
  ASSUME Init
  PROVE IInv
<1>1. \A c \in Callers : c \in Threads /\ c # "scheduler"
  BY SchedulerAssumption DEF Threads
<1>2. th = Anew
  BY DEF Init, Anew
<1>3. Me.pc = "sleep" /\ \A c \in Callers : th[c].pc = "idle" /\ th[c].after = "idle"
  BY <1>2, AnewShape DEF Me, Idle
<1>4. Shaped
  BY NoneIsOverride DEF Init, Shaped, IsBrowser, IsDisplay
<1>5. ShapeInv
  BY <1>2, <1>4, AnewShape, ShapeParts
<1>6. WishInv
  BY <1>3 DEF WishInv, Asked
<1>7. FileFollowsOverride
  BY DEF Init, FileFollowsOverride
<1>8. ReloadInv /\ OneReloadADay
  <2>1. browser.started = 0 /\ now = 0 /\ lastMaintenance = Never /\ reloads = {}
    BY DEF Init
  <2>q. QED BY <2>1 DEF ReloadInv, OneReloadADay
<1>9. AfterInv
  BY <1>3 DEF AfterInv, Deciding
<1>10. RoundInv
  BY DEF Init, RoundInv
<1>11. TypeOK
  <2>1. {MaxTime, MaxEvents} \subseteq Nat
    BY SchedulerAssumption
  <2>a. /\ up = TRUE /\ now = 0 /\ events = 0 /\ cfg \in Configs /\ presence = Never /\ wake = 0
        /\ gate = "free"
    BY DEF Init
  <2>b. now \in 0..MaxTime /\ events \in 0..MaxEvents
    BY <2>1, <2>a
  <2>2. /\ up \in BOOLEAN /\ now \in 0..MaxTime /\ events \in 0..MaxEvents /\ cfg \in Configs
        /\ presence \in {Never} \cup 0..now /\ wake \in Nat /\ gate \in Threads \cup {"free"}
    BY <2>a, <2>b
  <2>3. changed \in BOOLEAN /\ signalled \in BOOLEAN /\ persistDue \in BOOLEAN /\ undisturbed \in BOOLEAN
    BY DEF Init
  <2>4. holds \in [Topics -> BOOLEAN]
    BY DEF Init
  <2>5. browser \in Browsers
    BY <2>2 DEF Init, Browsers, Pages
  <2>6. override \in Overrides /\ saved \in Overrides
    BY NoneIsTyped DEF Init
  <2>7. rotation \in Rotations /\ lastMaintenance \in Times
    BY DEF Init, Rotations, Places, Times
  <2>8. insert \in [showing : BOOLEAN, back : Pages]
    BY DEF Init, Pages
  <2>9. display \in [noted : {"", "ON", "OFF"}, panel : {"ON", "OFF"}, blanked : BOOLEAN]
    BY DEF Init
  <2>q. QED
    BY <2>2, <2>3, <2>4, <2>5, <2>6, <2>7, <2>8, <2>9 DEF TypeOK, Browsers, Rotations
<1>12. KnownInv /\ CallerInv
  <2>1. \A t \in Threads : Fine(t, Anew[t])
    BY NothingFine, CallerIsThread DEF Anew
  <2>q. QED BY <1>2, <2>1, FineIs
<1>13. WakeInv
  <2>1. now = 0 /\ wake = 0
    BY DEF Init
  <2>2. now <= wake
    BY <2>1
  <2>q. QED BY <1>3, <2>2 DEF WakeInv
<1>14. HeldInv /\ CurrentInv /\ RulesInv
  BY DEF Init, HeldInv, CurrentInv, RulesInv
<1>15. DatedInv
  <2>1. lastMaintenance = Never /\ wake = 0
    BY DEF Init
  <2>q. QED BY <2>1 DEF DatedInv, Never
<1>q. QED
  BY <1>5, <1>6, <1>7, <1>8, <1>9, <1>10, <1>11, <1>12, <1>13, <1>14, <1>15 DEF IInv

\* Every step keeps it.
LEMMA StepKeeps ==
  ASSUME IInv, [Next]_vars
  PROVE IInv'
<1>1. CASE Next
  <2>1. ShapeInv' /\ WishInv'
    BY <1>1, ShapeKept DEF IInv
  <2>2. FileFollowsOverride'
    BY <1>1, FileKept DEF IInv
  <2>3. ReloadInv' /\ OneReloadADay'
    BY <1>1, ReloadsKept DEF IInv
  <2>4. AfterInv' /\ RoundInv'
    BY <1>1, RoundKept DEF IInv
  <2>5. TypeOK' /\ KnownInv' /\ CallerInv'
    BY <1>1, TypeKept, FineKept DEF IInv
  <2>6. WakeInv' /\ HeldInv'
    BY <1>1, WakeKept, HeldKept DEF IInv
  <2>7. CurrentInv'
    BY <1>1, CurrentKept DEF IInv
  <2>8. RulesInv'
    BY <1>1, RulesKept DEF IInv
  <2>9. DatedInv'
    <3>1. wake' \in Nat
      BY <2>5 DEF TypeOK
    <3>q. QED BY <1>1, <3>1, DatedKept DEF IInv
  <2>q. QED BY <2>1, <2>2, <2>3, <2>4, <2>5, <2>6, <2>7, <2>8, <2>9 DEF IInv
<1>2. CASE UNCHANGED vars
  <2>1. ShapeInv' /\ WishInv'
    BY <1>2 DEF IInv, vars, worldVars, ShapeInv, WishInv
  <2>2. FileFollowsOverride'
    BY <1>2 DEF IInv, vars, FileFollowsOverride, IsAt
  <2>3. ReloadInv' /\ OneReloadADay'
    BY <1>2 DEF IInv, vars, ReloadInv, OneReloadADay, LastReload
  <2>4. OthersCalm
    BY <1>2 DEF vars, OthersCalm, Me
  <2>5. AfterInv' /\ RoundInv'
    BY <2>4, CalmKeeps DEF IInv
  <2>6. TypeOK'
    <3>1. UNCHANGED <<up, now, cfg, changed, signalled, holds, presence, browser, override, saved,
                      persistDue, rotation, insert, display, lastMaintenance, gate, wake,
                      undisturbed, events>>
      BY <1>2 DEF vars
    <3>2. TypeOK
      BY DEF IInv
    <3>3. /\ up' \in BOOLEAN /\ now' \in 0..MaxTime /\ cfg' \in Configs
          /\ changed' \in BOOLEAN /\ signalled' \in BOOLEAN
          /\ persistDue' \in BOOLEAN /\ undisturbed' \in BOOLEAN
          /\ holds' \in [Topics -> BOOLEAN] /\ presence' \in {Never} \cup 0..now'
      BY <3>1, <3>2 DEF TypeOK
    <3>4. browser' \in Browsers /\ rotation' \in Rotations
      BY <3>1, <3>2 DEF TypeOK, Browsers, Rotations
    <3>5. /\ override' \in Overrides /\ saved' \in Overrides
          /\ insert' \in [showing : BOOLEAN, back : Pages]
          /\ display' \in [noted : {"", "ON", "OFF"}, panel : {"ON", "OFF"}, blanked : BOOLEAN]
      BY <3>1, <3>2 DEF TypeOK
    <3>6. /\ lastMaintenance' \in Times /\ wake' \in Nat
          /\ gate' \in Threads \cup {"free"} /\ events' \in 0..MaxEvents
      BY <3>1, <3>2 DEF TypeOK
    <3>q. QED BY <3>3, <3>4, <3>5, <3>6 DEF TypeOK, Browsers, Rotations
  <2>7. th' = th /\ KnownInv' /\ CallerInv'
    BY <1>2, FineIs DEF IInv, vars
  <2>8. WakeInv' /\ HeldInv'
    BY <1>2 DEF IInv, vars, WakeInv, HeldInv, Me
  <2>9. CurrentInv'
    <3>1. /\ UNCHANGED <<cfg, holds, presence, override, rotation, now, wake>>
          /\ undisturbed' = undisturbed /\ signalled' = signalled /\ Me' = Me
      BY <1>2 DEF vars, Me
    <3>2. GoodNow => GoodNow'
      BY <3>1 DEF GoodNow
    <3>q. QED BY <3>1, <3>2, CurrentIsGood DEF IInv
  <2>10. RulesInv'
    <3>1. UNCHANGED <<cfg, now, wake>> /\ undisturbed' = undisturbed /\ Me' = Me
      BY <1>2 DEF vars, Me
    <3>2. ToldNow => ToldNow'
      BY <3>1 DEF ToldNow
    <3>q. QED BY <3>1, <3>2, RulesAreTold DEF IInv
  <2>11. DatedInv'
    BY <1>2 DEF IInv, vars, DatedInv
  <2>q. QED BY <2>1, <2>2, <2>3, <2>5, <2>6, <2>7, <2>8, <2>9, <2>10, <2>11 DEF IInv
<1>q. QED BY <1>1, <1>2

\* What a reload, a round and a file are about stays true in every behaviour.
THEOREM Invariance == Spec => []IInv
<1>1. Init => IInv
  BY InitEstablishes
<1>2. IInv /\ [Next]_vars => IInv'
  BY StepKeeps
<1>q. QED BY <1>1, <1>2, PTL DEF Spec

\* A cleared or replaced override does not come back with the next start of the
\* service: the file holds the present one unless it is about to be written.
THEOREM FileFollows == Spec => []FileFollowsOverride
<1>1. IInv => FileFollowsOverride
  BY DEF IInv
<1>q. QED BY <1>1, Invariance, PTL

\* The reload at a fixed time happens once for a due moment, across restarts.
THEOREM ReloadsOnce == Spec => []OneReloadADay
<1>1. IInv => OneReloadADay
  BY DEF IInv
<1>q. QED BY <1>1, Invariance, PTL

\* A round that nobody disturbs ends with the page that was decided on screen, the
\* display noted as wanted, and blanked only if it is to be off.
THEOREM RoundsConverge == Spec => []RoundConverges
<1>1. IInv => RoundConverges
  BY DEF IInv, RoundInv, RoundConverges, Asleep, IsAt, Me, Status, Shown, Decided
<1>q. QED BY <1>1, Invariance, PTL

\* While it sleeps, with no notification there, a scheduler whom nobody disturbed would
\* decide the same of the override, the rotation, the inserts and the presence as it
\* did; and what it decided of the time rules was right at most a tick and a round ago,
\* with the rule it follows not over.
THEOREM SleepMissesNothing == Spec => []AsleepIsCurrent
<1>1. ASSUME IInv PROVE AsleepIsCurrent
  <2>1. ASSUME Asleep, now < wake, ~signalled PROVE CurrentAt(now) /\ RulesCurrent(now)
    <3>1. undisturbed /\ Me.pc = "sleep"
      BY <2>1 DEF Asleep, IsAt, Me
    <3>2. now \in Nat /\ now <= now
      BY <1>1, TimesTyped DEF IInv
    <3>3. \A t \in Nat : now <= t /\ t < wake => CurrentAt(t)
      BY <1>1, <2>1, <3>1 DEF IInv, CurrentInv
    <3>4. \A t \in Nat : now <= t /\ t < wake => RulesCurrent(t)
      BY <1>1, <3>1 DEF IInv, RulesInv
    <3>q. QED BY <2>1, <3>2, <3>3, <3>4
  <2>q. QED BY <1>1, <2>1 DEF IInv, AsleepIsCurrent
<1>q. QED BY <1>1, Invariance, PTL
=============================================================================
