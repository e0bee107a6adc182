--------------------------- MODULE WorkflowProofs ---------------------------
(***************************************************************************)
(* Proofs about the workflow engine, for every list of rules, every set of *)
(* threads and every bound.                                                *)
(*                                                                         *)
(* IInv says, of every thread, where it can be, that it holds e.running in *)
(* a rule's actions, which rules are in its line, and that it looked at no *)
(* person's override; and, of the ticker's round, that each rule that is   *)
(* due has been fired or is still in line.  A step is shown to keep it in  *)
(* two parts: what it does to the thread that takes it, and that the other *)
(* threads and the round do not notice.                                    *)
(***************************************************************************)
EXTENDS Workflow, SequenceTheorems, TLAPS

SeenType == [active : BOOLEAN, source : {"", "admin", "workflow"}, until : Int, set : Nat]
Entry    == [at : Nat, rule : Rules]

-----------------------------------------------------------------------------
(* The data.                                                               *)

LEMMA IdleThread == Idle \in Thread /\ Idle.pc = "idle" /\ Idle.queue = {}
  BY DEF Idle, Thread, Places, Results, NoOverride, Never

LEMMA MinuteType == ASSUME now \in Nat PROVE Minute \in Int
<1>1. MinuteLen \in Nat \ {0}
  BY WorkflowAssumption
<1> QED
  BY <1>1 DEF Minute

\* Saved rules are rules, and what a trigger takes of them are those of its kind.
LEMMA EnabledFacts ==
  ASSUME TypeOK, NEW kind, NEW e \in Enabled(kind)
  PROVE  e \in Entry /\ e.rule.trigger = kind
<1>1. rules \in Seq(Rules)
  BY WorkflowAssumption DEF TypeOK, DataOK
<1>2. PICK i \in DOMAIN rules : e = [at |-> i, rule |-> rules[i]] /\ rules[i].trigger = kind
  BY DEF Enabled
<1>3. i \in Nat /\ rules[i] \in Rules
  BY <1>1, <1>2
<1> QED
  BY <1>2, <1>3 DEF Entry

LEMMA SnapshotRules ==
  ASSUME TypeOK, NEW i \in DOMAIN rules
  PROVE  i \in Nat /\ rules[i] \in Rules
<1>1. rules \in Seq(Rules)
  BY WorkflowAssumption DEF TypeOK, DataOK
<1> QED
  BY <1>1

LEMMA RememberType ==
  ASSUME TypeOK, NEW run \in [rule : RuleIds, result : Results \cup {"skipped"}], Remember(run)
  PROVE  /\ history' \in Seq([rule : RuleIds, result : Results \cup {"skipped"}])
         /\ Len(history') <= HistoryCap
<1> DEFINE R == [rule : RuleIds, result : Results \cup {"skipped"}]
           all == Append(history, run)
           from == IF Len(all) > HistoryCap THEN 2 ELSE 1
<1>1. history \in Seq(R) /\ Len(history) <= HistoryCap
  BY DEF TypeOK, DataOK
<1>2. all \in Seq(R) /\ Len(all) = Len(history) + 1 /\ Len(history) \in Nat
  BY <1>1, AppendProperties, LenProperties
<1>3. HistoryCap \in Nat \ {0}
  BY WorkflowAssumption
<1>4. from \in 1 .. Len(all) /\ Len(all) \in 1 .. Len(all)
  BY <1>1, <1>2, <1>3
<1>5. history' = SubSeq(all, from, Len(all))
  BY DEF Remember
<1> HIDE DEF R, all, from
<1>6. history' \in Seq(R)
  BY <1>2, <1>4, <1>5, SubSeqProperties
<1>7. Len(history') = Len(all) - from + 1
  BY <1>2, <1>4, <1>5, SubSeqProperties
<1> USE DEF R, all, from
<1>8. Len(history') <= HistoryCap
  BY <1>1, <1>2, <1>3, <1>7
<1> QED
  BY <1>6, <1>8

-----------------------------------------------------------------------------
(* What a step may leave alone.                                            *)

\* Nobody begins to wait for its cooldown.
NoneEnters ==
  \A u \in Threads : th'[u].pc = "enter" => th[u].pc = "enter" /\ th'[u].rule = th[u].rule

\* The ticker's line and the minute it is in stay, and it is in its time round only if it was.
TickerKeeps ==
  \A u \in Threads : KindOf[u] = "ticker" =>
    /\ th'[u].queue = th[u].queue /\ th'[u].fired = th[u].fired
    /\ InTimeRound(u)' => InTimeRound(u)

\* What is shown of a step's effect on the threads.
ThreadsMove == th' \in [Threads -> Thread] /\ \A u \in Threads : ThreadOK(u)'

LEMMA OthersKept ==
  ASSUME NEW u \in Threads, ThreadOK(u), th'[u] = th[u], running = u => running' = u
  PROVE  ThreadOK(u)'
<1>1. InRule(u)'
  BY DEF ThreadOK, InRule, ActionOf
<1>2. QueueFits(u)'
  BY DEF ThreadOK, QueueFits, InTimeRound, InIdleRound
<1>3. SeenNoPersons(u)' /\ th'[u].pc \in PlacesOf(KindOf[u])
  BY DEF ThreadOK, SeenNoPersons
<1> QED
  BY <1>1, <1>2, <1>3 DEF ThreadOK

\* A thread that stays with its rule keeps its place and its line in order.
LEMMA ActingKept ==
  ASSUME NEW t \in Threads, ThreadOK(t), KindOf[t] # "manual",
         th[t].pc \in Acting, th'[t].pc \in Acting,
         th'[t].pc \in {"fire", "enter"} => th[t].pc \in {"fire", "enter"},
         th'[t].queue = th[t].queue, th'[t].rule = th[t].rule
  PROVE  /\ th'[t].pc \in PlacesOf(KindOf[t]) /\ QueueFits(t)'
         /\ InTimeRound(t)' => InTimeRound(t)
<1>1. th'[t].pc \in PlacesOf(KindOf[t])
  BY WorkflowAssumption DEF PlacesOf
<1>2. th[t].pc \notin {"idle", "time", "idling"} /\ th'[t].pc \notin {"idle", "time", "idling"}
  BY DEF Acting, Inside, Calls
<1>3. InTimeRound(t)' <=> InTimeRound(t)
  BY <1>2 DEF InTimeRound
<1>4. InIdleRound(t)' <=> InIdleRound(t)
  BY <1>2 DEF InIdleRound
<1>5. QueueFits(t)'
  BY <1>2, <1>3, <1>4 DEF ThreadOK, QueueFits, Fits
<1> QED
  BY <1>1, <1>3, <1>5

\* A thread that is done with its rule goes on with the round it is in.
LEMMA OnwardKept ==
  ASSUME NEW t \in Threads, ThreadOK(t), KindOf[t] # "manual",
         th[t].pc \in Acting, th'[t].pc = Onward(t),
         th'[t].queue = th[t].queue, th'[t].rule = th[t].rule
  PROVE  /\ ThreadOK(t)' /\ th'[t].pc \in {"next", "idling", "time"}
         /\ InTimeRound(t)' => InTimeRound(t)
<1>1. th'[t].pc \in {"next", "idling", "time"}
  BY DEF Onward
<1>2. th'[t].pc \in PlacesOf(KindOf[t])
  <2>1. CASE KindOf[t] = "ticker"
    BY <1>1, <2>1 DEF PlacesOf, Onward
  <2>2. CASE KindOf[t] # "ticker"
    <3>1. th'[t].pc = "next"
      BY <2>2 DEF Onward
    <3>2. "next" \in PlacesOf(KindOf[t])
      BY <2>2 DEF PlacesOf
    <3> QED
      BY <3>1, <3>2
  <2> QED
    BY <2>1, <2>2
<1>3. th'[t].pc \notin Acting /\ th'[t].pc \notin Inside /\ th'[t].pc \notin Calls
  BY <1>1 DEF Acting, Inside, Calls
<1>4. InTimeRound(t)' => InTimeRound(t)
  BY <1>1, <1>3 DEF InTimeRound, Onward
<1>5. InIdleRound(t)' => InIdleRound(t)
  BY <1>1, <1>3 DEF InIdleRound, Onward
<1>6. QueueFits(t)'
  BY <1>1, <1>3, <1>4, <1>5 DEF ThreadOK, QueueFits, Fits
<1> QED
  BY <1>1, <1>2, <1>3, <1>4, <1>6 DEF ThreadOK, InRule, SeenNoPersons

\* Anybody but the ticker leaves the ticker alone.
LEMMA TickerAlone ==
  ASSUME NEW t \in Threads, KindOf[t] = "ticker" =>
           /\ th'[t].queue = th[t].queue /\ th'[t].fired = th[t].fired
           /\ InTimeRound(t)' => InTimeRound(t),
         \A u \in Threads : u # t => th'[u] = th[u]
  PROVE  TickerKeeps
<1> SUFFICES ASSUME NEW u \in Threads, KindOf[u] = "ticker"
             PROVE  /\ th'[u].queue = th[u].queue /\ th'[u].fired = th[u].fired
                    /\ InTimeRound(u)' => InTimeRound(u)
  BY DEF TickerKeeps
<1>1. CASE u = t
  BY <1>1
<1>2. CASE u # t
  BY <1>2 DEF InTimeRound
<1> QED
  BY <1>1, <1>2

LEMMA RoundKept ==
  ASSUME RoundInv, UNCHANGED <<now, rules, checked, savedAt, timeFired>>, TickerKeeps
  PROVE  RoundInv'
<1>1. Minute' = Minute /\ \A i : Due(i)' <=> Due(i)
  BY DEF Minute, Due, ClockOf, DayOf
<1>2. checked' = now' => \A t \in Threads : InTimeRound(t)' => th'[t].fired = Minute'
  BY <1>1 DEF RoundInv, TickerKeeps, InTimeRound
<1>3. ASSUME checked' = now', savedAt' # now', NEW i \in DOMAIN rules', Due(i)'
      PROVE  \/ timeFired'[rules'[i].id] = Minute'
             \/ \E t \in Threads :
                  KindOf[t] = "ticker" /\ [at |-> i, rule |-> rules'[i]] \in th'[t].queue
  BY <1>1, <1>3 DEF RoundInv, TickerKeeps
<1> QED
  BY <1>2, <1>3 DEF RoundInv

LEMMA CooledKept ==
  ASSUME UNCHANGED <<now, lastFired>>, NoneEnters, CooledInv
  PROVE  CooledInv'
  BY DEF CooledInv, NoneEnters, Cooling

\* Who is in a rule's actions holds e.running, so the last part of TypeOK is InRule's.
LEMMA HoldersRun ==
  ASSUME \A u \in Threads : ThreadOK(u)
  PROVE  \A u \in Threads : th[u].pc = "action" => running = u
<1> SUFFICES ASSUME NEW u \in Threads, th[u].pc = "action" PROVE running = u
  OBVIOUS
<1>1. KindOf[u] # "manual"
  BY DEF ThreadOK, PlacesOf, Calls
<1> QED
  BY <1>1 DEF ThreadOK, InRule, Inside

\* The same of the state a step leads to.
LEMMA HoldersRunNext ==
  ASSUME ThreadsMove
  PROVE  \A u \in Threads : th'[u].pc = "action" => running' = u
<1> SUFFICES ASSUME NEW u \in Threads, th'[u].pc = "action" PROVE running' = u
  OBVIOUS
<1>1. ThreadOK(u)'
  BY DEF ThreadsMove
<1>2. KindOf[u] # "manual"
  BY <1>1 DEF ThreadOK, PlacesOf, Calls
<1> QED
  BY <1>1, <1>2 DEF ThreadOK, InRule, Inside

\* What IInv says of one thread.
LEMMA ThreadFacts ==
  ASSUME IInv, NEW t \in Threads
  PROVE  /\ th \in [Threads -> Thread] /\ th[t] \in Thread /\ ThreadOK(t)
         /\ th[t].queue \subseteq Entry
         /\ th[t].pc \notin Calls \cup {"idle"} => KindOf[t] # "manual"
<1>1. th \in [Threads -> Thread] /\ ThreadOK(t)
  BY DEF IInv, OneRevert, TypeOK
<1>2. th[t].queue \subseteq Entry
  BY <1>1 DEF Thread, Entry
<1>3. KindOf[t] = "manual" => th[t].pc \in Calls \cup {"idle"}
  BY <1>1 DEF ThreadOK, PlacesOf
<1> QED
  BY <1>1, <1>2, <1>3

-----------------------------------------------------------------------------
(* What a step does to the thread that takes it.                           *)

\* A thread in a rule's actions gets on with them.
LEMMA RuleMove ==
  ASSUME IInv, NEW t \in Threads, KindOf[t] # "manual", th[t].pc \in Inside,
         th' \in [Threads -> Thread], \A u \in Threads : u # t => th'[u] = th[u],
         th'[t].pc \in Inside, th'[t].queue = th[t].queue, th'[t].rule = th[t].rule,
         th'[t].fired = th[t].fired, running' = running,
         th'[t].action \in 1..(Len(th[t].rule.actions) + 1),
         th'[t].pc # "action" => th'[t].action <= Len(th[t].rule.actions),
         th'[t].pc = "revert" => th[t].rule.actions[th'[t].action].type = "display",
         th'[t].pc \in Calls => th'[t].seen.source # "admin"
  PROVE  ThreadsMove /\ TickerKeeps /\ NoneEnters
<1>1. ThreadOK(t) /\ th[t].pc \in Acting /\ th'[t].pc \in Acting
      /\ th'[t].pc \notin {"fire", "enter"}
  BY ThreadFacts DEF Acting, Inside, Calls
<1>2. /\ th'[t].pc \in PlacesOf(KindOf[t]) /\ QueueFits(t)'
      /\ InTimeRound(t)' => InTimeRound(t)
  BY <1>1, ActingKept
<1>3. InRule(t)'
  BY <1>1 DEF ThreadOK, InRule, ActionOf
<1>4. ThreadOK(t)'
  BY <1>2, <1>3 DEF ThreadOK, SeenNoPersons
<1>5. \A u \in Threads : ThreadOK(u)'
  BY <1>4, ThreadFacts, OthersKept
<1>6. TickerKeeps
  BY <1>2, TickerAlone
<1>7. NoneEnters
  BY <1>1 DEF NoneEnters
<1> QED
  BY <1>5, <1>6, <1>7 DEF ThreadsMove

\* A person's call gets on, or is over.
LEMMA ManualMove ==
  ASSUME IInv, NEW t \in Threads, KindOf[t] = "manual",
         th' \in [Threads -> Thread], \A u \in Threads : u # t => th'[u] = th[u],
         \/ th'[t] = Idle
         \/ th'[t].pc \in Calls /\ th'[t].queue = th[t].queue,
         running' = running
  PROVE  ThreadsMove /\ TickerKeeps /\ NoneEnters
<1>1. ThreadOK(t) /\ th'[t].pc \in Calls \cup {"idle"}
  BY ThreadFacts, IdleThread
<1>2. th'[t].pc \notin {"fire", "enter"}
  BY <1>1 DEF Calls
<1>3. th'[t].pc = "idle" => th'[t].queue = {}
  BY IdleThread DEF Calls
<1>4. \A e \in th'[t].queue : Fits(t, e.rule)
  BY <1>1, IdleThread DEF ThreadOK, QueueFits
<1>5. QueueFits(t)'
  BY <1>2, <1>3, <1>4 DEF QueueFits, InTimeRound, InIdleRound, Fits
<1>6. ThreadOK(t)'
  BY <1>1, <1>5 DEF ThreadOK, InRule, SeenNoPersons, PlacesOf
<1>7. \A u \in Threads : ThreadOK(u)'
  BY <1>6, ThreadFacts, OthersKept
<1>8. TickerKeeps
  BY TickerAlone
<1>9. NoneEnters
  BY <1>2 DEF NoneEnters
<1> QED
  BY <1>7, <1>8, <1>9 DEF ThreadsMove

\* An action of a rule ends.
LEMMA ActionEndsMove ==
  ASSUME IInv, NEW t \in Threads, KindOf[t] # "manual", th[t].pc \in Inside,
         th[t].action <= Len(th[t].rule.actions), NEW result \in Results,
         ActionEnds(t, result), running' = running
  PROVE  ThreadsMove /\ TickerKeeps /\ NoneEnters
<1>1. th \in [Threads -> Thread] /\ th[t] \in Thread /\ ThreadOK(t)
  BY ThreadFacts
<1>2. th[t].action \in Nat /\ th[t].action >= 1 /\ th[t].result \in Results
  <2>1. th[t].action \in Nat /\ th[t].result \in Results
    BY <1>1 DEF Thread
  <2>2. th[t].action \in 1..(Len(th[t].rule.actions) + 1)
    BY <1>1 DEF ThreadOK, InRule
  <2>3. ASSUME NEW n \in Nat, NEW k, n \in 1..k PROVE n >= 1
    BY <2>3
  <2> QED
    BY <2>1, <2>2, <2>3
<1>3. /\ th'[t] = [th[t] EXCEPT !.pc = "action", !.action = th[t].action + 1,
                             !.result = IF result = "ok" THEN th[t].result ELSE result]
      /\ \A u \in Threads : u # t => th'[u] = th[u]
  BY <1>1 DEF ActionEnds
<1>4. "action" \in Places /\ "action" \in Inside /\ "action" \notin Calls
  BY DEF Places, Acting, Inside, Calls
<1>5. th'[t] \in Thread
  <2>1. (IF result = "ok" THEN th[t].result ELSE result) \in Results
    BY <1>2
  <2>2. th[t].action + 1 \in Nat
    BY <1>2
  <2> QED
    BY <1>1, <1>3, <1>4, <2>1, <2>2 DEF Thread
<1>6. th' \in [Threads -> Thread]
  BY <1>1, <1>5 DEF ActionEnds
<1>7. /\ th'[t].pc = "action" /\ th'[t].queue = th[t].queue /\ th'[t].rule = th[t].rule
      /\ th'[t].fired = th[t].fired /\ th'[t].action = th[t].action + 1
  BY <1>1, <1>3 DEF Thread
<1>8. Len(th[t].rule.actions) \in Nat
  BY <1>1, WorkflowAssumption, LenProperties DEF ThreadOK, QueueFits, Acting
<1>9. th'[t].action \in 1..(Len(th[t].rule.actions) + 1)
  BY <1>2, <1>7, <1>8
<1> QED
  BY <1>3, <1>4, <1>6, <1>7, <1>9, RuleMove

\* A call of the browser gets on: it has the gate, or the page is shown.
LEMMA CallMove ==
  ASSUME IInv, NEW t \in Threads, th[t].pc \in Calls, NEW q \in Calls, GoTo(t, q),
         running' = running
  PROVE  ThreadsMove /\ TickerKeeps /\ NoneEnters
<1>1. th \in [Threads -> Thread] /\ th[t] \in Thread /\ ThreadOK(t)
  BY ThreadFacts
<1>2. /\ th'[t] = [th[t] EXCEPT !.pc = q]
      /\ \A u \in Threads : u # t => th'[u] = th[u]
  BY <1>1 DEF GoTo
<1>3. q \in Places /\ q \in Inside /\ q \notin {"action", "revert"} /\ th[t].pc \in Inside
      /\ th[t].pc \notin {"action", "revert"}
  BY DEF Places, Acting, Inside, Calls
<1>4. th'[t] \in Thread
  BY <1>1, <1>2, <1>3 DEF Thread
<1>5. th' \in [Threads -> Thread]
  BY <1>1, <1>4 DEF GoTo
<1>6. /\ th'[t].pc = q /\ th'[t].queue = th[t].queue /\ th'[t].rule = th[t].rule
      /\ th'[t].fired = th[t].fired /\ th'[t].action = th[t].action
      /\ th'[t].seen = th[t].seen
  BY <1>1, <1>2 DEF Thread
<1>7. CASE KindOf[t] = "manual"
  BY <1>2, <1>5, <1>6, <1>7, ManualMove
<1>8. CASE KindOf[t] # "manual"
  <2>1. /\ th[t].action \in 1..(Len(th[t].rule.actions) + 1)
        /\ th[t].action <= Len(th[t].rule.actions)
    BY <1>1, <1>3, <1>8 DEF ThreadOK, InRule
  <2>2. th[t].seen.source # "admin"
    BY <1>1, <1>8 DEF ThreadOK, SeenNoPersons
  <2> QED
    BY <1>2, <1>3, <1>5, <1>6, <1>8, <2>1, <2>2, RuleMove
<1> QED
  BY <1>7, <1>8

LEMMA CallEndsMove ==
  ASSUME IInv, NEW t \in Threads, th[t].pc \in Calls, NEW result \in Results,
         CallEnds(t, result), running' = running
  PROVE  ThreadsMove /\ TickerKeeps /\ NoneEnters
<1>1. th \in [Threads -> Thread] /\ th[t] \in Thread /\ ThreadOK(t)
  BY ThreadFacts
<1>2. CASE KindOf[t] = "manual"
  <2>1. th' = [th EXCEPT ![t] = Idle]
    BY <1>2 DEF CallEnds
  <2>2. /\ th' \in [Threads -> Thread] /\ th'[t] = Idle
        /\ \A u \in Threads : u # t => th'[u] = th[u]
    BY <1>1, <2>1, IdleThread
  <2> QED
    BY <1>2, <2>2, ManualMove
<1>3. CASE KindOf[t] # "manual"
  <2>1. ActionEnds(t, result)
    BY <1>3 DEF CallEnds
  <2>2. th[t].pc \in Inside /\ th[t].pc # "action"
    BY DEF Inside, Calls
  <2>3. th[t].action <= Len(th[t].rule.actions)
    BY <1>1, <1>3, <2>2 DEF ThreadOK, InRule
  <2> QED
    BY <1>3, <2>1, <2>2, <2>3, ActionEndsMove
<1> QED
  BY <1>2, <1>3

\* A rule's action that drives the browser has looked at the override.
LEMMA LookMove ==
  ASSUME IInv, NEW t \in Threads, th[t].pc = "action",
         th[t].action <= Len(th[t].rule.actions), ~ManualOverride,
         NEW q \in {"gate", "clear"},
         th' = [th EXCEPT ![t].pc = q, ![t].seen = OverrideNow], running' = running
  PROVE  ThreadsMove /\ TickerKeeps /\ NoneEnters
<1>1. th \in [Threads -> Thread] /\ th[t] \in Thread /\ ThreadOK(t) /\ KindOf[t] # "manual"
  BY ThreadFacts DEF Calls
<1>2. OverrideNow \in SeenType
  <2>1. override \in SeenType
    BY DEF IInv, OneRevert, TypeOK, DataOK, SeenType
  <2>2. NoOverride \in SeenType
    BY DEF NoOverride, Never, SeenType
  <2> QED
    BY <2>1, <2>2 DEF OverrideNow
<1>3. OverrideNow.source # "admin"
  BY DEF ManualOverride, OverrideNow, NoOverride
<1>4. /\ th'[t] = [th[t] EXCEPT !.pc = q, !.seen = OverrideNow]
      /\ \A u \in Threads : u # t => th'[u] = th[u]
  BY <1>1
<1>5. q \in Places /\ q \in Inside /\ q \notin {"action", "revert"} /\ "action" \in Inside
  BY DEF Places, Acting, Inside, Calls
<1>6. th'[t] \in Thread
  BY <1>1, <1>2, <1>4, <1>5 DEF Thread, SeenType
<1>7. th' \in [Threads -> Thread]
  BY <1>1, <1>6
<1>8. /\ th'[t].pc = q /\ th'[t].queue = th[t].queue /\ th'[t].rule = th[t].rule
      /\ th'[t].fired = th[t].fired /\ th'[t].action = th[t].action
      /\ th'[t].seen = OverrideNow
  BY <1>1, <1>4 DEF Thread
<1>9. th[t].action \in 1..(Len(th[t].rule.actions) + 1)
  BY <1>1, <1>5 DEF ThreadOK, InRule
<1> QED
  BY <1>1, <1>3, <1>4, <1>5, <1>7, <1>8, <1>9, RuleMove

-----------------------------------------------------------------------------
(* What a step does to the rest.                                           *)

LEMMA StepKept ==
  ASSUME IInv, ThreadsMove, TickerKeeps, NoneEnters, DataOK',
         UNCHANGED <<now, rules, checked, savedAt, lastFired, timeFired>>,
         timer'.armed => timer'.due = replaced'
  PROVE  IInv' /\ (CooledInv => CooledInv')
<1>1. RoundInv'
  BY RoundKept DEF IInv
<1>2. OneRevert'
  BY HoldersRunNext DEF OneRevert, TypeOK, ThreadsMove
<1>3. \A u \in Threads : ThreadOK(u)'
  BY DEF ThreadsMove
<1> QED
  BY <1>1, <1>2, <1>3, CooledKept DEF IInv

\* The data that no step but the one in question writes.
LEMMA DataFacts ==
  ASSUME IInv
  PROVE  /\ TypeOK /\ DataOK /\ (timer.armed => timer.due = replaced)
         /\ override \in SeenType
         /\ timer \in [armed : BOOLEAN, due : Int, power : {"", "ON", "OFF"}]
         /\ now \in Nat /\ now \in 0..MaxTime /\ gate \in Threads \cup {"free"}
         /\ running \in Threads \cup {"free"} /\ MaxEvents \in Nat
         /\ reverts \subseteq {"ON", "OFF"} /\ panel \in {"ON", "OFF"}
<1>1. TypeOK /\ DataOK /\ (timer.armed => timer.due = replaced)
  BY DEF IInv, OneRevert, TypeOK
<1>2. MaxEvents \in Nat /\ MaxTime \in Nat
  BY WorkflowAssumption
<1>3. now \in 0..MaxTime
  BY <1>1 DEF DataOK
<1>5. now \in Nat
  BY <1>2, <1>3
<1>4. /\ override \in SeenType /\ gate \in Threads \cup {"free"}
      /\ timer \in [armed : BOOLEAN, due : Int, power : {"", "ON", "OFF"}]
      /\ running \in Threads \cup {"free"}
      /\ reverts \subseteq {"ON", "OFF"} /\ panel \in {"ON", "OFF"}
  BY <1>1 DEF DataOK, SeenType
<1> QED
  BY <1>1, <1>2, <1>3, <1>4, <1>5

LEMMA EventTyped ==
  ASSUME IInv, Event \/ UNCHANGED events
  PROVE  events' \in 0..MaxEvents
<1>1. events \in 0..MaxEvents /\ MaxEvents \in Nat
  BY DataFacts DEF DataOK
<1> QED
  BY <1>1 DEF Event

\* The rule that a thread runs, and its action.
LEMMA ActionFacts ==
  ASSUME IInv, NEW t \in Threads, KindOf[t] # "manual", th[t].pc \in Inside,
         th[t].action <= Len(th[t].rule.actions)
  PROVE  /\ ActionOf(t) \in Actions /\ ActionOf(t).duration \in Nat
         /\ ActionOf(t).type = "display" => ActionOf(t).power \in {"ON", "OFF"}
<1>1. th[t] \in Thread /\ ThreadOK(t)
  BY ThreadFacts
<1>2. th[t].rule \in Rules
  BY <1>1 DEF ThreadOK, QueueFits, Acting
<1>3. /\ th[t].rule.actions \in Seq(Actions)
      /\ \A i \in DOMAIN th[t].rule.actions :
           th[t].rule.actions[i].type = "display" => th[t].rule.actions[i].power # ""
  BY <1>2, WorkflowAssumption
<1>4. th[t].action \in 1..Len(th[t].rule.actions)
  <2>1. Len(th[t].rule.actions) \in Nat
    BY <1>3, LenProperties
  <2>2. th[t].action \in 1..(Len(th[t].rule.actions) + 1)
    BY <1>1 DEF ThreadOK, InRule
  <2> QED
    BY <2>1, <2>2
<1>5. th[t].action \in DOMAIN th[t].rule.actions /\ ActionOf(t) \in Actions
  BY <1>3, <1>4, ElementOfSeq, LenProperties DEF ActionOf
<1> QED
  BY <1>3, <1>5 DEF Actions, ActionOf

-----------------------------------------------------------------------------
(* The steps of a rule's actions.                                          *)

LEMMA AtActionFacts ==
  ASSUME IInv, NEW t \in Threads, NEW type, AtAction(t, type)
  PROVE  /\ th[t].pc = "action" /\ th[t].pc \in Inside /\ KindOf[t] # "manual"
         /\ th[t].action <= Len(th[t].rule.actions) /\ ActionOf(t).type = type
<1>1. th[t].pc = "action"
  BY DEF AtAction, IsAt
<1>2. "action" \in Inside /\ "action" \notin Calls \cup {"idle"}
  BY DEF Inside, Calls
<1> QED
  BY <1>1, <1>2, ThreadFacts DEF AtAction

LEMMA ShowPageStep ==
  ASSUME IInv, NEW t \in Threads, ShowPage(t)
  PROVE  IInv' /\ (CooledInv => CooledInv')
<1>1. /\ th[t].pc = "action" /\ th[t].pc \in Inside /\ KindOf[t] # "manual"
      /\ th[t].action <= Len(th[t].rule.actions)
  BY AtActionFacts DEF ShowPage
<1>2. running' = running
  BY DEF ShowPage
<1>3. ThreadsMove /\ TickerKeeps /\ NoneEnters
  <2>1. CASE ManualOverride
    <3>1. ActionEnds(t, "manual_override") /\ "manual_override" \in Results
      BY <2>1 DEF ShowPage, Results
    <3> QED
      BY <1>1, <1>2, <3>1, ActionEndsMove
  <2>2. CASE ~ManualOverride
    <3>1. th' = [th EXCEPT ![t].pc = "gate", ![t].seen = OverrideNow]
      BY <2>2 DEF ShowPage
    <3> QED
      BY <1>1, <1>2, <2>2, <3>1, LookMove
  <2> QED
    BY <2>1, <2>2
<1>4. DataOK'
  BY DataFacts DEF ShowPage, DataOK, clocks, memory, outside
<1> QED
  BY <1>3, <1>4, StepKept, DataFacts DEF ShowPage, clocks, memory

LEMMA ResumePlaylistStep ==
  ASSUME IInv, NEW t \in Threads, ResumePlaylist(t)
  PROVE  IInv' /\ (CooledInv => CooledInv')
<1>1. /\ th[t].pc = "action" /\ th[t].pc \in Inside /\ KindOf[t] # "manual"
      /\ th[t].action <= Len(th[t].rule.actions)
  BY AtActionFacts DEF ResumePlaylist
<1>2. running' = running
  BY DEF ResumePlaylist
<1>3. ThreadsMove /\ TickerKeeps /\ NoneEnters
  <2>1. ASSUME NEW r \in Results, ActionEnds(t, r)
        PROVE  ThreadsMove /\ TickerKeeps /\ NoneEnters
    BY <1>1, <1>2, <2>1, ActionEndsMove
  <2>2. ASSUME ~ManualOverride, th' = [th EXCEPT ![t].pc = "clear", ![t].seen = OverrideNow]
        PROVE  ThreadsMove /\ TickerKeeps /\ NoneEnters
    BY <1>1, <1>2, <2>2, LookMove
  <2> QED
    BY <2>1, <2>2 DEF ResumePlaylist, Results
<1>4. DataOK'
  BY DataFacts DEF ResumePlaylist, DataOK, clocks, memory, outside
<1> QED
  BY <1>3, <1>4, StepKept, DataFacts DEF ResumePlaylist, clocks, memory

LEMMA EvaluateStep ==
  ASSUME IInv, NEW t \in Threads, Evaluate(t)
  PROVE  IInv' /\ (CooledInv => CooledInv')
<1>1. /\ th[t].pc \in Inside /\ KindOf[t] # "manual"
      /\ th[t].action <= Len(th[t].rule.actions)
  BY AtActionFacts DEF Evaluate
<1>2. PICK r \in {"ok", "failed"} : ActionEnds(t, r)
  BY DEF Evaluate
<1>3. ThreadsMove /\ TickerKeeps /\ NoneEnters
  BY <1>1, <1>2, ActionEndsMove DEF Evaluate, Results
<1>4. DataOK'
  <2>1. events' \in 0..MaxEvents
    BY EventTyped DEF Evaluate
  <2> QED
    BY <2>1, DataFacts DEF Evaluate, DataOK, memory, outside
<1> QED
  BY <1>3, <1>4, StepKept, DataFacts DEF Evaluate, memory

LEMMA SetActiveStep ==
  ASSUME IInv, NEW t \in Threads, SetActive(t)
  PROVE  IInv' /\ (CooledInv => CooledInv')
<1>1. th[t].pc \in Calls /\ running' = running
  BY DEF SetActive, IsAt, Calls
<1>2. ThreadsMove /\ TickerKeeps /\ NoneEnters
  <2>1. ASSUME GoTo(t, "showing") PROVE ThreadsMove /\ TickerKeeps /\ NoneEnters
    BY <1>1, <2>1, CallMove DEF Calls
  <2>2. ASSUME CallEnds(t, "failed") PROVE ThreadsMove /\ TickerKeeps /\ NoneEnters
    BY <1>1, <2>2, CallEndsMove DEF Results
  <2> QED
    BY <2>1, <2>2 DEF SetActive
<1>3. DataOK'
  <2>1. events' \in 0..MaxEvents
    BY EventTyped DEF SetActive
  <2>2. gate' \in Threads \cup {"free"}
    BY DataFacts DEF SetActive
  <2> QED
    BY <2>1, <2>2, DataFacts DEF SetActive, DataOK, memory
<1> QED
  BY <1>2, <1>3, StepKept, DataFacts DEF SetActive, memory

LEMMA PageShownStep ==
  ASSUME IInv, NEW t \in Threads, PageShown(t)
  PROVE  IInv' /\ (CooledInv => CooledInv')
<1>1. th[t].pc \in Calls /\ running' = running
  BY DEF PageShown, IsAt, Calls
<1>2. ThreadsMove /\ TickerKeeps /\ NoneEnters
  <2>1. ASSUME GoTo(t, "record") PROVE ThreadsMove /\ TickerKeeps /\ NoneEnters
    BY <1>1, <2>1, CallMove DEF Calls
  <2>2. ASSUME CallEnds(t, "failed") PROVE ThreadsMove /\ TickerKeeps /\ NoneEnters
    BY <1>1, <2>2, CallEndsMove DEF Results
  <2> QED
    BY <2>1, <2>2 DEF PageShown
<1>3. DataOK'
  <2>1. events' \in 0..MaxEvents
    BY EventTyped DEF PageShown
  <2> QED
    BY <2>1, DataFacts DEF PageShown, DataOK, memory
<1> QED
  BY <1>2, <1>3, StepKept, DataFacts DEF PageShown, memory

LEMMA SetOverrideStep ==
  ASSUME IInv, NEW t \in Threads, SetOverride(t)
  PROVE  IInv' /\ (CooledInv => CooledInv')
<1>1. th[t].pc \in Calls /\ running' = running
  BY DEF SetOverride, IsAt, Calls
<1>2. ThreadsMove /\ TickerKeeps /\ NoneEnters
  BY <1>1, CallEndsMove DEF SetOverride, Results
<1>3. DataOK'
  <2>1. Lasts(t) \in Nat
    <3>1. CASE KindOf[t] = "manual"
      BY <3>1 DEF Lasts
    <3>2. CASE KindOf[t] # "manual"
      <4>1. th[t].pc \in Inside /\ th[t].pc # "action"
        BY DEF SetOverride, IsAt, Inside, Calls
      <4>2. th[t].action <= Len(th[t].rule.actions)
        BY <3>2, <4>1, ThreadFacts DEF ThreadOK, InRule
      <4> QED
        BY <3>2, <4>1, <4>2, ActionFacts DEF Lasts
    <3> QED
      BY <3>1, <3>2
  <2>2. now + Lasts(t) \in Int /\ override.set + 1 \in Nat
    <3>1. now \in Nat /\ override.set \in Nat
      BY DataFacts DEF SeenType
    <3> QED
      BY <2>1, <3>1
  <2>3. override' \in SeenType
    BY <2>2 DEF SetOverride, SeenType, Source
  <2> QED
    BY <2>3, DataFacts DEF SetOverride, DataOK, SeenType, clocks, memory
<1> QED
  BY <1>2, <1>3, StepKept, DataFacts DEF SetOverride, clocks, memory

LEMMA ClearOverrideStep ==
  ASSUME IInv, NEW t \in Threads, ClearOverride(t)
  PROVE  IInv' /\ (CooledInv => CooledInv')
<1>1. th[t].pc \in Calls /\ running' = running
  BY DEF ClearOverride, IsAt, Calls
<1>2. ThreadsMove /\ TickerKeeps /\ NoneEnters
  BY <1>1, CallEndsMove DEF ClearOverride, Results
<1>3. DataOK'
  <2>1. override.set \in Nat
    BY DataFacts DEF SeenType
  <2>2. override' \in SeenType
    <3>1. NoOverride \in SeenType
      BY DEF NoOverride, SeenType, Never
    <3> QED
      BY <2>1, <3>1 DEF ClearOverride, SeenType
  <2> QED
    BY <2>2, DataFacts DEF ClearOverride, DataOK, SeenType, clocks, memory
<1> QED
  BY <1>2, <1>3, StepKept, DataFacts DEF ClearOverride, clocks, memory

LEMMA DisplayStep ==
  ASSUME IInv, NEW t \in Threads, Display(t)
  PROVE  IInv' /\ (CooledInv => CooledInv')
<1>1. /\ th[t].pc = "action" /\ th[t].pc \in Inside /\ KindOf[t] # "manual"
      /\ th[t].action <= Len(th[t].rule.actions) /\ ActionOf(t).type = "display"
  BY AtActionFacts DEF Display
<1>2. running' = running
  BY DEF Display
<1>3. ASSUME GoTo(t, "revert")
      PROVE  ThreadsMove /\ TickerKeeps /\ NoneEnters
  <2>1. th \in [Threads -> Thread] /\ th[t] \in Thread /\ ThreadOK(t)
    BY ThreadFacts
  <2>2. /\ th'[t] = [th[t] EXCEPT !.pc = "revert"]
        /\ \A u \in Threads : u # t => th'[u] = th[u]
    BY <1>3, <2>1 DEF GoTo
  <2>3. "revert" \in Places /\ "revert" \in Inside /\ "revert" \notin Calls
    BY DEF Places, Acting, Inside, Calls
  <2>4. th'[t] \in Thread
    BY <2>1, <2>2, <2>3 DEF Thread
  <2>5. th' \in [Threads -> Thread]
    BY <1>3, <2>1, <2>4 DEF GoTo
  <2>6. /\ th'[t].pc = "revert" /\ th'[t].queue = th[t].queue /\ th'[t].rule = th[t].rule
        /\ th'[t].fired = th[t].fired /\ th'[t].action = th[t].action
    BY <2>1, <2>2 DEF Thread
  <2>7. th[t].action \in 1..(Len(th[t].rule.actions) + 1)
    BY <1>1, <2>1 DEF ThreadOK, InRule
  <2>8. th[t].rule.actions[th'[t].action].type = "display"
    BY <1>1, <2>6 DEF ActionOf
  <2> QED
    BY <1>1, <1>2, <2>2, <2>3, <2>5, <2>6, <2>7, <2>8, RuleMove
<1>4. ASSUME ActionEnds(t, "failed")
      PROVE  ThreadsMove /\ TickerKeeps /\ NoneEnters
  BY <1>1, <1>2, <1>4, ActionEndsMove DEF Results
<1>5. ThreadsMove /\ TickerKeeps /\ NoneEnters
  BY <1>3, <1>4 DEF Display
<1>6. DataOK'
  <2>1. events' \in 0..MaxEvents
    BY EventTyped DEF Display
  <2>2. panel' \in {"ON", "OFF"}
    BY <1>1, ActionFacts, DataFacts DEF Display
  <2> QED
    BY <2>1, <2>2, DataFacts DEF Display, DataOK, memory
<1> QED
  BY <1>5, <1>6, StepKept, DataFacts DEF Display, memory

LEMMA ScheduleRevertStep ==
  ASSUME IInv, NEW t \in Threads, ScheduleRevert(t)
  PROVE  IInv' /\ (CooledInv => CooledInv')
<1>1. th[t].pc = "revert" /\ th[t].pc \in Inside /\ KindOf[t] # "manual"
  BY ThreadFacts DEF ScheduleRevert, IsAt, Inside, Calls
<1>2. th[t].action <= Len(th[t].rule.actions)
  BY <1>1, ThreadFacts DEF ThreadOK, InRule
<1>3. ThreadsMove /\ TickerKeeps /\ NoneEnters
  BY <1>1, <1>2, ActionEndsMove DEF ScheduleRevert, Results
<1>4. ActionOf(t).duration \in Nat
  BY <1>1, <1>2, ActionFacts
<1>5. now + ActionOf(t).duration \in Int
  <2>1. now \in Nat
    BY DataFacts
  <2> QED
    BY <1>4, <2>1
<1>6. /\ timer' \in [armed : BOOLEAN, due : Int, power : {"", "ON", "OFF"}]
      /\ timer'.armed => timer'.power # ""
      /\ replaced' \in Int
      /\ timer'.armed => timer'.due = replaced'
  <2>1. CASE ActionOf(t).duration = 0
    <3>1. timer' = NoTimer /\ replaced' = Never
      BY <2>1 DEF ScheduleRevert
    <3>2. /\ NoTimer \in [armed : BOOLEAN, due : Int, power : {"", "ON", "OFF"}]
          /\ ~NoTimer.armed /\ Never \in Int
      BY DEF NoTimer, Never
    <3> QED
      BY <3>1, <3>2
  <2>2. CASE ActionOf(t).duration # 0
    <3>1. /\ timer' = [armed |-> TRUE, due |-> now + ActionOf(t).duration,
                       power |-> Opposite(ActionOf(t).power)]
          /\ replaced' = now + ActionOf(t).duration
      BY <2>2 DEF ScheduleRevert
    <3>2. Opposite(ActionOf(t).power) \in {"ON", "OFF"}
      BY DEF Opposite
    <3> QED
      BY <1>5, <3>1, <3>2
  <2> QED
    BY <2>1, <2>2
<1>7. DataOK'
  BY <1>6, DataFacts DEF ScheduleRevert, DataOK, clocks, memory, outside
<1> QED
  BY <1>3, <1>6, <1>7, StepKept DEF ScheduleRevert, clocks, memory

LEMMA LockStep ==
  ASSUME IInv, NEW t \in Threads, Lock(t)
  PROVE  IInv' /\ (CooledInv => CooledInv')
<1>1. th \in [Threads -> Thread] /\ th[t] \in Thread /\ ThreadOK(t)
  BY ThreadFacts
<1>2. th[t].pc = "lock" /\ running = "free" /\ running' = t
  BY DEF Lock, IsAt
<1>3. KindOf[t] # "manual" /\ th[t].pc \in Acting
  BY <1>1, <1>2, ThreadFacts DEF Acting, Calls
<1>4. /\ th'[t] = [th[t] EXCEPT !.pc = "action", !.action = 1, !.result = "ok"]
      /\ \A u \in Threads : u # t => th'[u] = th[u]
  BY <1>1 DEF Lock
<1>5. "action" \in Places /\ "action" \in Acting /\ "action" \notin Calls
  BY DEF Places, Acting, Inside, Calls
<1>6. th'[t] \in Thread
  <2>1. "ok" \in Results /\ 1 \in Nat
    BY DEF Results
  <2> QED
    BY <1>1, <1>4, <1>5, <2>1 DEF Thread
<1>7. th' \in [Threads -> Thread]
  BY <1>1, <1>6 DEF Lock
<1>8. /\ th'[t].pc = "action" /\ th'[t].queue = th[t].queue /\ th'[t].rule = th[t].rule
      /\ th'[t].fired = th[t].fired /\ th'[t].action = 1
  BY <1>1, <1>4 DEF Thread
<1>9. /\ th'[t].pc \in PlacesOf(KindOf[t]) /\ QueueFits(t)'
      /\ InTimeRound(t)' => InTimeRound(t)
  BY <1>1, <1>3, <1>5, <1>8, ActingKept
<1>10. InRule(t)'
  <2>1. th[t].rule.actions \in Seq(Actions)
    BY <1>1, <1>3, WorkflowAssumption DEF ThreadOK, QueueFits
  <2>2. Len(th[t].rule.actions) \in Nat
    BY <2>1, LenProperties
  <2>3. th'[t].action \in 1..(Len(th'[t].rule.actions) + 1)
    BY <1>8, <2>2
  <2> QED
    BY <1>2, <1>8, <2>3 DEF InRule
<1>11. ThreadOK(t)'
  BY <1>5, <1>8, <1>9, <1>10 DEF ThreadOK, SeenNoPersons
<1>12. ThreadsMove
  <2> SUFFICES ASSUME NEW u \in Threads, u # t PROVE ThreadOK(u)'
    BY <1>7, <1>11 DEF ThreadsMove
  <2>1. running # u
    BY <1>2, WorkflowAssumption
  <2> QED
    BY <1>4, <2>1, ThreadFacts, OthersKept
<1>13. TickerKeeps
  BY <1>4, <1>8, <1>9, TickerAlone
<1>14. NoneEnters
  BY <1>4, <1>8 DEF NoneEnters
<1>15. DataOK'
  BY <1>2, DataFacts DEF Lock, DataOK, clocks, memory, outside
<1> QED
  BY <1>12, <1>13, <1>14, <1>15, StepKept, DataFacts DEF Lock, clocks, memory

\* A thread that is done with its rule, in one way or the other, goes on.
LEMMA OnwardMove ==
  ASSUME IInv, NEW t \in Threads, KindOf[t] # "manual", th[t].pc \in Acting,
         GoTo(t, Onward(t)),
         \A u \in Threads : u # t /\ running = u => running' = u
  PROVE  ThreadsMove /\ TickerKeeps /\ NoneEnters
<1>1. th \in [Threads -> Thread] /\ th[t] \in Thread /\ ThreadOK(t)
  BY ThreadFacts
<1>2. /\ th'[t] = [th[t] EXCEPT !.pc = Onward(t)]
      /\ \A u \in Threads : u # t => th'[u] = th[u]
  BY <1>1 DEF GoTo
<1>3. Onward(t) \in Places
  BY DEF Onward, Places
<1>4. th'[t] \in Thread
  BY <1>1, <1>2, <1>3 DEF Thread
<1>5. th' \in [Threads -> Thread]
  BY <1>1, <1>4 DEF GoTo
<1>6. /\ th'[t].pc = Onward(t) /\ th'[t].queue = th[t].queue /\ th'[t].rule = th[t].rule
      /\ th'[t].fired = th[t].fired
  BY <1>1, <1>2 DEF Thread
<1>7. /\ ThreadOK(t)' /\ th'[t].pc \in {"next", "idling", "time"}
      /\ InTimeRound(t)' => InTimeRound(t)
  BY <1>1, <1>6, OnwardKept
<1>8. ThreadsMove
  BY <1>2, <1>5, <1>7, ThreadFacts, OthersKept DEF ThreadsMove
<1>9. TickerKeeps
  BY <1>2, <1>6, <1>7, TickerAlone
<1> QED
  BY <1>2, <1>7, <1>8, <1>9 DEF NoneEnters

LEMMA RuleDoneStep ==
  ASSUME IInv, NEW t \in Threads, RuleDone(t)
  PROVE  IInv' /\ (CooledInv => CooledInv')
<1>1. th[t] \in Thread /\ ThreadOK(t)
  BY ThreadFacts
<1>2. th[t].pc = "action" /\ running' = "free" /\ GoTo(t, Onward(t))
  BY DEF RuleDone, IsAt
<1>3. KindOf[t] # "manual" /\ th[t].pc \in Acting /\ th[t].pc \in Inside
  BY <1>2, ThreadFacts DEF Acting, Inside, Calls
<1>4. running = t
  BY <1>1, <1>3 DEF ThreadOK, InRule
<1>5. ThreadsMove /\ TickerKeeps /\ NoneEnters
  BY <1>2, <1>3, <1>4, OnwardMove
<1>6. th[t].rule.id \in RuleIds /\ th[t].result \in Results
  BY <1>1, <1>3, WorkflowAssumption DEF ThreadOK, QueueFits, Thread
<1>7. [rule |-> th[t].rule.id, result |-> th[t].result]
        \in [rule : RuleIds, result : Results \cup {"skipped"}]
  BY <1>6
<1>8. /\ history' \in Seq([rule : RuleIds, result : Results \cup {"skipped"}])
      /\ Len(history') <= HistoryCap
  BY <1>7, RememberType, DataFacts DEF RuleDone
<1>9. DataOK'
  BY <1>2, <1>8, DataFacts DEF RuleDone, DataOK, clocks, memory, outside
<1> QED
  BY <1>5, <1>9, StepKept, DataFacts DEF RuleDone, clocks, memory

LEMMA BlockedStep ==
  ASSUME IInv, NEW t \in Threads, Blocked(t)
  PROVE  IInv' /\ (CooledInv => CooledInv')
<1>1. th \in [Threads -> Thread] /\ th[t] \in Thread /\ ThreadOK(t)
  BY ThreadFacts
<1>2. /\ th[t].pc = "fire" /\ UNCHANGED <<now, rules, checked, savedAt, lastFired, timeFired>>
      /\ UNCHANGED <<running, timer, replaced>>
  BY DEF Blocked, IsAt, clocks, memory
<1>3. KindOf[t] # "manual" /\ th[t].pc \in Acting /\ th[t].rule \in Rules
  <2>1. KindOf[t] # "manual" /\ th[t].pc \in Acting
    BY <1>2, ThreadFacts DEF Acting, Calls
  <2> QED
    BY <1>1, <2>1 DEF ThreadOK, QueueFits
<1>4. ASSUME Remember([rule |-> th[t].rule.id, result |-> "skipped"]), GoTo(t, Onward(t))
      PROVE  IInv' /\ (CooledInv => CooledInv')
  <2>1. ThreadsMove /\ TickerKeeps /\ NoneEnters
    BY <1>2, <1>3, <1>4, OnwardMove
  <2>2. [rule |-> th[t].rule.id, result |-> "skipped"]
          \in [rule : RuleIds, result : Results \cup {"skipped"}]
    BY <1>3, WorkflowAssumption
  <2>3. /\ history' \in Seq([rule : RuleIds, result : Results \cup {"skipped"}])
        /\ Len(history') <= HistoryCap
    BY <1>4, <2>2, RememberType, DataFacts
  <2>4. DataOK'
    BY <2>3, DataFacts DEF Blocked, DataOK, clocks, memory, outside
  <2> QED
    BY <1>2, <2>1, <2>4, StepKept, DataFacts
<1>5. ASSUME ~Cooling(th[t].rule), GoTo(t, "enter"), UNCHANGED history
      PROVE  IInv' /\ (CooledInv => CooledInv')
  <2>1. /\ th'[t] = [th[t] EXCEPT !.pc = "enter"]
        /\ \A u \in Threads : u # t => th'[u] = th[u]
    BY <1>1, <1>5 DEF GoTo
  <2>2. "enter" \in Places /\ "enter" \in Acting /\ "enter" \notin Inside
        /\ "enter" \notin Calls
    BY DEF Places, Acting, Inside, Calls
  <2>3. th'[t] \in Thread
    BY <1>1, <2>1, <2>2 DEF Thread
  <2>4. th' \in [Threads -> Thread]
    BY <1>1, <1>5, <2>3 DEF GoTo
  <2>5. /\ th'[t].pc = "enter" /\ th'[t].queue = th[t].queue /\ th'[t].rule = th[t].rule
        /\ th'[t].fired = th[t].fired
    BY <1>1, <2>1 DEF Thread
  <2>6. /\ th'[t].pc \in PlacesOf(KindOf[t]) /\ QueueFits(t)'
        /\ InTimeRound(t)' => InTimeRound(t)
    BY <1>1, <1>2, <1>3, <2>2, <2>5, ActingKept
  <2>7. ThreadOK(t)'
    BY <2>2, <2>5, <2>6 DEF ThreadOK, InRule, SeenNoPersons
  <2>8. ThreadsMove
    BY <1>2, <2>1, <2>4, <2>7, ThreadFacts, OthersKept DEF ThreadsMove
  <2>9. TickerKeeps
    BY <2>1, <2>5, <2>6, TickerAlone
  <2>10. DataOK'
    BY <1>5, DataFacts DEF Blocked, DataOK, clocks, memory, outside
  <2>11. IInv'
    <3>1. RoundInv'
      BY <1>2, <2>9, RoundKept DEF IInv
    <3>2. OneRevert'
      BY <1>2, <2>8, <2>10, HoldersRunNext, DataFacts DEF OneRevert, TypeOK, ThreadsMove
    <3> QED
      BY <2>8, <3>1, <3>2 DEF IInv, ThreadsMove
  <2>12. CooledInv => CooledInv'
    <3> SUFFICES ASSUME CooledInv, Steady, NEW u \in Threads, th'[u].pc = "enter",
                        KindOf[u] \in {"ticker", "mqtt"}
                 PROVE  ~Cooling(th[u].rule)'
      BY DEF CooledInv, Steady
    <3>1. ~Cooling(th'[u].rule)
      BY <1>5, <2>1, <2>5 DEF CooledInv
    <3> QED
      BY <1>2, <3>1 DEF Cooling
  <2> QED
    BY <2>11, <2>12
<1> QED
  BY <1>4, <1>5 DEF Blocked

LEMMA EnterStep ==
  ASSUME IInv, NEW t \in Threads, Enter(t)
  PROVE  IInv' /\ (CooledInv => CooledInv')
<1>1. th \in [Threads -> Thread] /\ th[t] \in Thread /\ ThreadOK(t)
  BY ThreadFacts
<1>2. /\ th[t].pc = "enter" /\ UNCHANGED <<now, rules, checked, savedAt, timeFired>>
      /\ UNCHANGED <<running, timer, replaced>>
      /\ lastFired' = [lastFired EXCEPT ![th[t].rule.id] = now]
  BY DEF Enter, IsAt, clocks
<1>3. KindOf[t] # "manual" /\ th[t].pc \in Acting /\ th[t].rule \in Rules
  <2>1. KindOf[t] # "manual" /\ th[t].pc \in Acting
    BY <1>2, ThreadFacts DEF Acting, Calls
  <2> QED
    BY <1>1, <2>1 DEF ThreadOK, QueueFits
<1>4. /\ th'[t] = [th[t] EXCEPT !.pc = "lock"]
      /\ \A u \in Threads : u # t => th'[u] = th[u]
  BY <1>1 DEF Enter, GoTo
<1>5. "lock" \in Places /\ "lock" \in Acting /\ "lock" \notin Inside /\ "lock" \notin Calls
  BY DEF Places, Acting, Inside, Calls
<1>6. th'[t] \in Thread
  BY <1>1, <1>4, <1>5 DEF Thread
<1>7. th' \in [Threads -> Thread]
  BY <1>1, <1>6 DEF Enter, GoTo
<1>8. /\ th'[t].pc = "lock" /\ th'[t].queue = th[t].queue /\ th'[t].rule = th[t].rule
      /\ th'[t].fired = th[t].fired
  BY <1>1, <1>4 DEF Thread
<1>9. /\ th'[t].pc \in PlacesOf(KindOf[t]) /\ QueueFits(t)'
      /\ InTimeRound(t)' => InTimeRound(t)
  BY <1>1, <1>3, <1>5, <1>8, ActingKept
<1>10. ThreadOK(t)'
  BY <1>5, <1>8, <1>9 DEF ThreadOK, InRule, SeenNoPersons
<1>11. ThreadsMove
  BY <1>2, <1>4, <1>7, <1>10, ThreadFacts, OthersKept DEF ThreadsMove
<1>12. TickerKeeps
  BY <1>4, <1>8, <1>9, TickerAlone
<1>13. DataOK'
  <2>1. lastFired \in [RuleIds -> {Never} \cup 0..MaxTime] /\ now \in 0..MaxTime
    BY DataFacts DEF DataOK
  <2>2. lastFired' \in [RuleIds -> {Never} \cup 0..MaxTime]
    BY <1>2, <2>1
  <2> QED
    BY <2>2, DataFacts DEF Enter, DataOK, clocks, memory, outside
<1>14. IInv'
  <2>1. RoundInv'
    BY <1>2, <1>12, RoundKept DEF IInv
  <2>2. OneRevert'
    BY <1>2, <1>11, <1>13, HoldersRunNext, DataFacts DEF OneRevert, TypeOK, ThreadsMove
  <2> QED
    BY <1>11, <2>1, <2>2 DEF IInv, ThreadsMove
<1>15. CooledInv => CooledInv'
  <2> SUFFICES ASSUME CooledInv, Steady, NEW u \in Threads, th'[u].pc = "enter",
                      KindOf[u] \in {"ticker", "mqtt"}
               PROVE  ~Cooling(th[u].rule)'
    BY DEF CooledInv, Steady
  <2>1. u # t /\ th'[u] = th[u] /\ th[u].pc = "enter"
    BY <1>4, <1>8
  <2>2. th[u].pc \in Acting /\ KindOf[u] # "manual" /\ th[u].rule \in Rules
        /\ Fits(u, th[u].rule) /\ Fits(t, th[t].rule)
    <3>1. ThreadOK(u) /\ th[u].pc \in Acting /\ KindOf[u] # "manual"
      BY <2>1, ThreadFacts DEF Acting
    <3> QED
      BY <1>1, <1>2, <2>1, <3>1 DEF ThreadOK, QueueFits
  <2>3. th[u].rule.id # th[t].rule.id
    <3> SUFFICES ASSUME th[u].rule.id = th[t].rule.id PROVE FALSE
      OBVIOUS
    <3>1. th[u].rule.trigger = th[t].rule.trigger
      BY <1>3, <2>2 DEF Steady
    <3>2. KindOf[t] \in {"ticker", "mqtt", "webhook", "touch", "manual"}
      BY WorkflowAssumption
    <3>3. CASE KindOf[u] = "ticker"
      <4>1. KindOf[t] = "ticker"
        BY <2>2, <3>1, <3>2, <3>3 DEF Fits
      <4> QED
        BY <2>1, <3>3, <4>1, WorkflowAssumption
    <3>4. CASE KindOf[u] = "mqtt"
      <4>1. KindOf[t] = "mqtt"
        BY <2>2, <3>1, <3>2, <3>4 DEF Fits
      <4> QED
        BY <2>1, <3>4, <4>1 DEF Steady
    <3> QED
      BY <3>3, <3>4
  <2>4. lastFired \in [RuleIds -> {Never} \cup 0..MaxTime]
        /\ th[u].rule.id \in RuleIds
    BY <2>2, DataFacts, WorkflowAssumption DEF DataOK
  <2>5. lastFired'[th[u].rule.id] = lastFired[th[u].rule.id]
    BY <1>2, <2>3, <2>4
  <2>6. ~Cooling(th[u].rule)
    BY <2>1 DEF CooledInv
  <2> QED
    BY <1>2, <2>1, <2>5, <2>6 DEF Cooling
<1> QED
  BY <1>14, <1>15

-----------------------------------------------------------------------------
(* The steps of what fires rules.                                          *)

\* Anybody but the ticker starts, or takes the next rule in line.
LEMMA QuietMove ==
  ASSUME IInv, NEW t \in Threads, KindOf[t] # "ticker",
         th' \in [Threads -> Thread], \A u \in Threads : u # t => th'[u] = th[u],
         ThreadOK(t)', th'[t].pc # "enter", running' = running
  PROVE  ThreadsMove /\ TickerKeeps /\ NoneEnters
<1>1. ThreadsMove
  BY ThreadFacts, OthersKept DEF ThreadsMove
<1>2. TickerKeeps
  BY TickerAlone
<1> QED
  BY <1>1, <1>2 DEF NoneEnters

LEMMA NobodyMoves ==
  ASSUME IInv, th' = th, running' = running
  PROVE  ThreadsMove /\ TickerKeeps /\ NoneEnters
<1>1. ThreadsMove
  BY ThreadFacts, OthersKept, DataFacts DEF ThreadsMove, TypeOK
<1>2. TickerKeeps /\ NoneEnters
  BY DEF TickerKeeps, NoneEnters, InTimeRound
<1> QED
  BY <1>1, <1>2

\* A thread that has nothing of a rule's to do.
LEMMA NewLineOK ==
  ASSUME NEW t \in Threads, th'[t].pc \in PlacesOf(KindOf[t]),
         th'[t].pc \in {"touched", "next"},
         KindOf[t] # "ticker", \A e \in th'[t].queue : e.rule.trigger = KindOf[t]
  PROVE  ThreadOK(t)'
<1>1. th'[t].pc \notin Acting /\ th'[t].pc \notin Inside /\ th'[t].pc \notin Calls
  BY DEF Acting, Inside, Calls
<1>2. QueueFits(t)'
  BY <1>1 DEF QueueFits, Fits, InTimeRound, InIdleRound
<1> QED
  BY <1>1, <1>2 DEF ThreadOK, InRule, SeenNoPersons

LEMMA TouchedStep ==
  ASSUME IInv, NEW t \in Threads, Touched(t)
  PROVE  IInv' /\ (CooledInv => CooledInv')
<1>1. th \in [Threads -> Thread] /\ th[t] \in Thread /\ ThreadOK(t)
  BY ThreadFacts
<1>2. /\ KindOf[t] = "touch" /\ th[t].pc = "idle" /\ running' = running
      /\ UNCHANGED <<now, rules, checked, savedAt, lastFired, timeFired>>
      /\ UNCHANGED <<timer, replaced>>
  BY DEF Touched, IsAt, memory
<1>3. th[t].queue = {}
  BY <1>1, <1>2 DEF ThreadOK, QueueFits
<1>4. /\ th'[t] = [th[t] EXCEPT !.pc = "touched"]
      /\ \A u \in Threads : u # t => th'[u] = th[u]
  BY <1>1 DEF Touched, GoTo
<1>5. "touched" \in Places
  BY DEF Places
<1>6. th'[t] \in Thread
  BY <1>1, <1>4, <1>5 DEF Thread
<1>7. th' \in [Threads -> Thread]
  BY <1>1, <1>6 DEF Touched, GoTo
<1>8. th'[t].pc = "touched" /\ th'[t].queue = {}
  BY <1>1, <1>3, <1>4 DEF Thread
<1>9. ThreadOK(t)'
  BY <1>2, <1>8, NewLineOK DEF PlacesOf
<1>10. ThreadsMove /\ TickerKeeps /\ NoneEnters
  BY <1>2, <1>4, <1>7, <1>8, <1>9, QuietMove
<1>11. DataOK'
  <2>1. events' \in 0..MaxEvents
    BY EventTyped DEF Touched
  <2>2. input' \in Nat
    BY DataFacts DEF Touched
  <2> QED
    BY <2>1, <2>2, DataFacts DEF Touched, DataOK, memory
<1> QED
  BY <1>2, <1>10, <1>11, StepKept, DataFacts

\* A line of rules of the trigger's kind.
LEMMA LineMove ==
  ASSUME IInv, NEW t \in Threads, KindOf[t] \in {"mqtt", "webhook", "touch"},
         NEW line \in SUBSET Enabled(KindOf[t]),
         th' = [th EXCEPT ![t].pc = "next", ![t].queue = line], running' = running
  PROVE  ThreadsMove /\ TickerKeeps /\ NoneEnters
<1>1. th \in [Threads -> Thread] /\ th[t] \in Thread
  BY ThreadFacts
<1>2. \A e \in line : e \in Entry /\ e.rule.trigger = KindOf[t]
  BY EnabledFacts, DataFacts
<1>3. /\ th'[t] = [th[t] EXCEPT !.pc = "next", !.queue = line]
      /\ \A u \in Threads : u # t => th'[u] = th[u]
  BY <1>1
<1>4. "next" \in Places /\ line \in SUBSET Entry
  BY <1>2 DEF Places
<1>5. th'[t] \in Thread
  BY <1>1, <1>3, <1>4 DEF Thread, Entry
<1>6. th' \in [Threads -> Thread]
  BY <1>1, <1>5
<1>7. th'[t].pc = "next" /\ th'[t].queue = line
  BY <1>1, <1>3 DEF Thread
<1>8. "next" \in PlacesOf(KindOf[t])
  BY DEF PlacesOf
<1>9. ThreadOK(t)'
  BY <1>2, <1>7, <1>8, NewLineOK
<1> QED
  BY <1>3, <1>6, <1>7, <1>9, QuietMove

LEMMA HandleActivityStep ==
  ASSUME IInv, NEW t \in Threads, HandleActivity(t)
  PROVE  IInv' /\ (CooledInv => CooledInv')
<1>1. KindOf[t] = "touch"
  <2>1. "touched" \in PlacesOf(KindOf[t])
    BY ThreadFacts DEF HandleActivity, IsAt, ThreadOK
  <2> QED
    BY <2>1 DEF PlacesOf, Acting, Inside, Calls
<1>2. ThreadsMove /\ TickerKeeps /\ NoneEnters
  BY <1>1, LineMove DEF HandleActivity
<1>3. DataOK'
  BY DataFacts DEF HandleActivity, DataOK, clocks, outside
<1> QED
  BY <1>2, <1>3, StepKept, DataFacts DEF HandleActivity, clocks

LEMMA HandleMQTTStep ==
  ASSUME IInv, NEW t \in Threads, HandleMQTT(t)
  PROVE  IInv' /\ (CooledInv => CooledInv')
<1>1. ThreadsMove /\ TickerKeeps /\ NoneEnters
  BY LineMove DEF HandleMQTT
<1>2. DataOK'
  <2>1. events' \in 0..MaxEvents
    BY EventTyped DEF HandleMQTT
  <2> QED
    BY <2>1, DataFacts DEF HandleMQTT, DataOK, memory, outside
<1> QED
  BY <1>1, <1>2, StepKept, DataFacts DEF HandleMQTT, memory

LEMMA RuleWebhookStep ==
  ASSUME IInv, NEW t \in Threads, RuleWebhook(t)
  PROVE  IInv' /\ (CooledInv => CooledInv')
<1>1. PICK e \in Enabled("webhook") :
        th' = [th EXCEPT ![t].pc = "next", ![t].queue = {e}]
  BY DEF RuleWebhook
<1>2. KindOf[t] = "webhook" /\ running' = running /\ {e} \in SUBSET Enabled(KindOf[t])
  BY <1>1 DEF RuleWebhook
<1>3. ThreadsMove /\ TickerKeeps /\ NoneEnters
  BY <1>1, <1>2, LineMove
<1>4. DataOK'
  <2>1. events' \in 0..MaxEvents
    BY EventTyped DEF RuleWebhook
  <2> QED
    BY <2>1, DataFacts DEF RuleWebhook, DataOK, memory, outside
<1> QED
  BY <1>3, <1>4, StepKept, DataFacts DEF RuleWebhook, memory

LEMMA TestRuleStep ==
  ASSUME IInv, NEW t \in Threads, TestRule(t)
  PROVE  IInv' /\ (CooledInv => CooledInv')
<1>1. th \in [Threads -> Thread] /\ th[t] \in Thread /\ ThreadOK(t)
  BY ThreadFacts
<1>2. PICK i \in DOMAIN rules : th' = [th EXCEPT ![t].pc = "lock", ![t].rule = rules[i]]
  BY DEF TestRule
<1>3. KindOf[t] = "webhook" /\ th[t].pc = "idle" /\ running' = running
  BY DEF TestRule, IsAt
<1>4. /\ th'[t] = [th[t] EXCEPT !.pc = "lock", !.rule = rules[i]]
      /\ \A u \in Threads : u # t => th'[u] = th[u]
  BY <1>1, <1>2
<1>5. "lock" \in Places /\ "lock" \in Acting /\ "lock" \notin Inside /\ "lock" \notin Calls
  BY DEF Places, Acting, Inside, Calls
<1>6. rules[i] \in Rules
  BY SnapshotRules, DataFacts
<1>7. th'[t] \in Thread
  BY <1>1, <1>4, <1>5, <1>6 DEF Thread
<1>8. th' \in [Threads -> Thread]
  BY <1>1, <1>2, <1>7
<1>9. th[t].queue = {}
  BY <1>1, <1>3 DEF ThreadOK, QueueFits
<1>10. th'[t].pc = "lock" /\ th'[t].queue = {} /\ th'[t].rule = rules[i]
  BY <1>1, <1>4, <1>9 DEF Thread
<1>11. QueueFits(t)'
  BY <1>3, <1>6, <1>10 DEF QueueFits, InTimeRound, InIdleRound
<1>12. ThreadOK(t)'
  BY <1>3, <1>5, <1>10, <1>11 DEF ThreadOK, InRule, SeenNoPersons, PlacesOf
<1>13. ThreadsMove /\ TickerKeeps /\ NoneEnters
  BY <1>3, <1>4, <1>8, <1>10, <1>12, QuietMove
<1>14. DataOK'
  <2>1. events' \in 0..MaxEvents
    BY EventTyped DEF TestRule
  <2> QED
    BY <2>1, DataFacts DEF TestRule, DataOK, memory, outside
<1> QED
  BY <1>13, <1>14, StepKept, DataFacts DEF TestRule, memory

\* A rule taken from the line is one of the trigger's, and the rest of the line stays.
LEMMA LineFacts ==
  ASSUME IInv, NEW t \in Threads, NEW e \in First(th[t].queue), NEW q \in Places,
         NextInLine(t, e, q)
  PROVE  /\ e \in th[t].queue /\ e \in Entry /\ e.rule \in Rules /\ e.rule.id \in RuleIds
         /\ Fits(t, e.rule)
         /\ th' \in [Threads -> Thread] /\ \A u \in Threads : u # t => th'[u] = th[u]
         /\ th'[t].pc = q /\ th'[t].queue = th[t].queue \ {e} /\ th'[t].rule = e.rule
         /\ th'[t].fired = th[t].fired
<1>1. th \in [Threads -> Thread] /\ th[t] \in Thread /\ ThreadOK(t)
      /\ th[t].queue \subseteq Entry
  BY ThreadFacts
<1>2. e \in th[t].queue
  BY DEF First
<1>3. e \in Entry /\ e.rule \in Rules
  BY <1>1, <1>2 DEF Entry
<1>4. e.rule.id \in RuleIds /\ Fits(t, e.rule)
  BY <1>1, <1>2, <1>3, WorkflowAssumption DEF ThreadOK, QueueFits
<1>5. /\ th'[t] = [th[t] EXCEPT !.queue = th[t].queue \ {e}, !.rule = e.rule, !.pc = q]
      /\ \A u \in Threads : u # t => th'[u] = th[u]
  BY <1>1 DEF NextInLine
<1>6. th[t].queue \ {e} \in SUBSET Entry
  BY <1>1
<1>7. th'[t] \in Thread
  BY <1>1, <1>3, <1>5, <1>6 DEF Thread, Entry
<1>8. th' \in [Threads -> Thread]
  BY <1>1, <1>7 DEF NextInLine
<1>9. /\ th'[t].pc = q /\ th'[t].queue = th[t].queue \ {e} /\ th'[t].rule = e.rule
      /\ th'[t].fired = th[t].fired
  BY <1>1, <1>5 DEF Thread
<1> QED
  BY <1>2, <1>3, <1>4, <1>5, <1>8, <1>9

LEMMA NextRuleStep ==
  ASSUME IInv, NEW t \in Threads, NextRule(t)
  PROVE  IInv' /\ (CooledInv => CooledInv')
<1>1. th \in [Threads -> Thread] /\ th[t] \in Thread /\ ThreadOK(t)
  BY ThreadFacts
<1>2. th[t].pc = "next" /\ running' = running
  BY DEF NextRule, IsAt
<1>3. KindOf[t] # "ticker" /\ KindOf[t] # "manual"
  BY <1>1, <1>2 DEF ThreadOK, PlacesOf, Acting, Inside, Calls
<1>4. CASE th' = [th EXCEPT ![t] = Idle]
  <2>1. /\ th' \in [Threads -> Thread] /\ th'[t] = Idle
        /\ \A u \in Threads : u # t => th'[u] = th[u]
    BY <1>1, <1>4, IdleThread
  <2>2. "idle" \notin Acting /\ "idle" \notin Inside /\ "idle" \notin Calls
    BY DEF Acting, Inside, Calls
  <2>3. QueueFits(t)'
    BY <2>1, <2>2, IdleThread DEF QueueFits, InTimeRound, InIdleRound
  <2>4. "idle" \in PlacesOf(KindOf[t])
    BY <1>3 DEF PlacesOf
  <2>5. ThreadOK(t)'
    BY <2>1, <2>2, <2>3, <2>4, IdleThread DEF ThreadOK, InRule, SeenNoPersons
  <2> QED
    BY <1>2, <1>3, <2>1, <2>5, QuietMove, IdleThread, StepKept, DataFacts
       DEF NextRule, clocks, memory, outside, DataOK
<1>5. ASSUME NEW e \in First(th[t].queue), NextInLine(t, e, "fire")
      PROVE  IInv' /\ (CooledInv => CooledInv')
  <2>1. "fire" \in Places /\ "fire" \in Acting /\ "fire" \notin Inside /\ "fire" \notin Calls
    BY DEF Places, Acting, Inside, Calls
  <2>2. /\ e.rule \in Rules /\ Fits(t, e.rule)
        /\ th' \in [Threads -> Thread] /\ \A u \in Threads : u # t => th'[u] = th[u]
        /\ th'[t].pc = "fire" /\ th'[t].queue = th[t].queue \ {e} /\ th'[t].rule = e.rule
    BY <1>5, <2>1, LineFacts
  <2>3. QueueFits(t)'
    BY <1>1, <1>3, <2>2 DEF ThreadOK, QueueFits, Fits, InTimeRound, InIdleRound
  <2>4. "fire" \in PlacesOf(KindOf[t])
    BY <1>3, <2>1 DEF PlacesOf
  <2>5. ThreadOK(t)'
    BY <2>1, <2>2, <2>3, <2>4 DEF ThreadOK, InRule, SeenNoPersons
  <2>6. ThreadsMove /\ TickerKeeps /\ NoneEnters
    BY <1>2, <1>3, <2>2, <2>5, QuietMove
  <2> QED
    BY <2>6, StepKept, DataFacts DEF NextRule, clocks, memory, outside, DataOK
<1> QED
  BY <1>4, <1>5 DEF NextRule

-----------------------------------------------------------------------------
(* The steps of the ticker.                                                *)

\* What is left to show of a step of the ticker: that its round stays in order.
LEMMA TickerStep ==
  ASSUME IInv, NEW t \in Threads, KindOf[t] = "ticker",
         th' \in [Threads -> Thread], \A u \in Threads : u # t => th'[u] = th[u],
         ThreadOK(t)', th'[t].pc # "enter", running' = running,
         UNCHANGED <<now, lastFired, timer, replaced>>, DataOK', RoundInv'
  PROVE  IInv' /\ (CooledInv => CooledInv')
<1>1. ThreadsMove
  BY ThreadFacts, OthersKept DEF ThreadsMove
<1>2. NoneEnters
  BY DEF NoneEnters
<1>3. OneRevert'
  BY <1>1, HoldersRunNext, DataFacts DEF OneRevert, TypeOK, ThreadsMove
<1> QED
  BY <1>1, <1>2, <1>3, CooledKept DEF IInv, ThreadsMove

\* The ticker between two rules.
LEMMA RoundOK ==
  ASSUME NEW t \in Threads, KindOf[t] = "ticker",
         \/ th'[t].pc = "time" /\ \A e \in th'[t].queue : e.rule.trigger = "time"
         \/ th'[t].pc = "idling" /\ \A e \in th'[t].queue : e.rule.trigger = "idle"
         \/ th'[t].pc = "idle" /\ th'[t].queue = {}
  PROVE  ThreadOK(t)'
<1>1. th'[t].pc \in {"idle", "time", "idling"}
  OBVIOUS
<1>2. th'[t].pc \notin Acting /\ th'[t].pc \notin Inside /\ th'[t].pc \notin Calls
  BY <1>1 DEF Acting, Inside, Calls
<1>3. QueueFits(t)'
  BY <1>1, <1>2 DEF QueueFits, Fits, InTimeRound, InIdleRound
<1>4. th'[t].pc \in PlacesOf(KindOf[t])
  BY <1>1 DEF PlacesOf
<1> QED
  BY <1>2, <1>3, <1>4 DEF ThreadOK, InRule, SeenNoPersons

\* The ticker with a rule of the round it is in.
LEMMA FireOK ==
  ASSUME NEW t \in Threads, KindOf[t] = "ticker", th'[t].pc = "fire",
         th'[t].rule \in Rules, th'[t].rule.trigger \in {"time", "idle"},
         \A e \in th'[t].queue : e.rule.trigger = th'[t].rule.trigger
  PROVE  ThreadOK(t)'
<1>1. "fire" \in Acting /\ "fire" \notin Inside /\ "fire" \notin Calls
  BY DEF Acting, Inside, Calls
<1>2. QueueFits(t)'
  BY <1>1 DEF QueueFits, Fits, InTimeRound, InIdleRound
<1>3. "fire" \in PlacesOf(KindOf[t])
  BY <1>1 DEF PlacesOf
<1> QED
  BY <1>1, <1>2, <1>3 DEF ThreadOK, InRule, SeenNoPersons

LEMMA TimeRoundStep ==
  ASSUME IInv, NEW t \in Threads, TimeRound(t)
  PROVE  IInv' /\ (CooledInv => CooledInv')
<1> DEFINE due(r) == r.at = ClockOf(Minute) /\ (r.days = {} \/ DayOf(Minute) \in r.days)
           line == {e \in Enabled("time") : due(e.rule)}
<1>1. th \in [Threads -> Thread]
  BY ThreadFacts
<1>2. /\ KindOf[t] = "ticker" /\ checked' = now /\ running' = running
      /\ UNCHANGED <<now, rules, savedAt, lastFired, timeFired, timer, replaced>>
      /\ th' = [th EXCEPT ![t] = [Idle EXCEPT !.pc = "time", !.fired = Minute, !.queue = line]]
  BY DEF TimeRound, memory
<1>3. \A e \in line : e \in Entry /\ e.rule.trigger = "time"
  BY EnabledFacts, DataFacts
<1> HIDE DEF due, line
<1>4. Minute \in Int
  BY MinuteType, DataFacts
<1>5. /\ th'[t] = [Idle EXCEPT !.pc = "time", !.fired = Minute, !.queue = line]
      /\ \A u \in Threads : u # t => th'[u] = th[u]
  BY <1>1, <1>2
<1>6. "time" \in Places /\ line \in SUBSET Entry
  BY <1>3 DEF Places
<1>7. th'[t] \in Thread
  BY <1>4, <1>5, <1>6, IdleThread DEF Thread, Entry
<1>8. th' \in [Threads -> Thread]
  BY <1>1, <1>2, <1>5, <1>7
<1>9. th'[t].pc = "time" /\ th'[t].queue = line /\ th'[t].fired = Minute
  BY <1>5, IdleThread DEF Thread
<1>10. ThreadOK(t)'
  BY <1>2, <1>3, <1>9, RoundOK
<1>11. now \in Int /\ checked' \in Int
  <2>1. now \in Nat
    BY DataFacts
  <2> QED
    BY <1>2, <2>1
<1>12. DataOK'
  BY <1>2, <1>11, DataFacts DEF TimeRound, DataOK, memory, outside
<1>13. RoundInv'
  <2>1. Minute' = Minute /\ checked' <= now'
    BY <1>2, <1>11 DEF Minute
  <2>2. ASSUME NEW u \in Threads, InTimeRound(u)' PROVE th'[u].fired = Minute'
    <3>1. KindOf[u] = "ticker"
      BY <2>2 DEF InTimeRound
    <3>2. u = t
      BY <1>2, <3>1, WorkflowAssumption
    <3> QED
      BY <1>9, <2>1, <3>2
  <2>3. ASSUME NEW i \in DOMAIN rules', Due(i)'
        PROVE  [at |-> i, rule |-> rules'[i]] \in th'[t].queue
    <3>1. /\ i \in DOMAIN rules /\ rules[i].trigger = "time" /\ ~rules[i].disabled
          /\ due(rules[i])
      BY <1>2, <2>1, <2>3 DEF Due, due, ClockOf, DayOf
    <3>2. [at |-> i, rule |-> rules[i]] \in Enabled("time")
      BY <3>1 DEF Enabled
    <3> QED
      BY <1>2, <1>9, <3>1, <3>2 DEF line
  <2> QED
    BY <1>2, <2>1, <2>2, <2>3 DEF RoundInv
<1> QED
  BY <1>2, <1>5, <1>8, <1>9, <1>10, <1>12, <1>13, TickerStep

LEMMA ArmTimeStep ==
  ASSUME IInv, NEW t \in Threads, ArmTime(t)
  PROVE  IInv' /\ (CooledInv => CooledInv')
<1>1. th[t] \in Thread /\ ThreadOK(t)
  BY ThreadFacts
<1>2. PICK e \in First(th[t].queue) :
        /\ timeFired' = [timeFired EXCEPT ![e.rule.id] = th[t].fired]
        /\ NextInLine(t, e, IF timeFired[e.rule.id] = th[t].fired THEN "time" ELSE "fire")
  BY DEF ArmTime
<1>3. /\ th[t].pc = "time" /\ running' = running
      /\ UNCHANGED <<now, rules, checked, savedAt, lastFired, timer, replaced>>
  BY DEF ArmTime, IsAt, clocks
<1>4. KindOf[t] = "ticker"
  BY <1>1, <1>3 DEF ThreadOK, PlacesOf, Acting, Inside, Calls
<1>5. PICK q \in {"time", "fire"} : NextInLine(t, e, q)
  BY <1>2
<1>6. q \in Places
  BY DEF Places, Acting
<1>7. /\ e \in th[t].queue /\ e.rule \in Rules /\ e.rule.id \in RuleIds
      /\ th' \in [Threads -> Thread] /\ \A u \in Threads : u # t => th'[u] = th[u]
      /\ th'[t].pc = q /\ th'[t].queue = th[t].queue \ {e} /\ th'[t].rule = e.rule
      /\ th'[t].fired = th[t].fired
  BY <1>5, <1>6, LineFacts
<1>8. InTimeRound(t) /\ \A f \in th[t].queue : f.rule.trigger = "time"
  BY <1>1, <1>3, <1>4 DEF InTimeRound, ThreadOK, QueueFits
<1>9. ThreadOK(t)'
  BY <1>4, <1>7, <1>8, RoundOK, FireOK
<1>10. timeFired \in [RuleIds -> Int] /\ th[t].fired \in Int
  BY <1>1, DataFacts DEF DataOK, Thread
<1>11. timeFired' \in [RuleIds -> Int]
  BY <1>2, <1>7, <1>10
<1>12. DataOK'
  BY <1>3, <1>11, DataFacts DEF ArmTime, DataOK, clocks, outside
<1>13. RoundInv'
  <2>1. Minute' = Minute /\ \A i : Due(i)' <=> Due(i)
    BY <1>3 DEF Minute, Due, ClockOf, DayOf
  <2>2. ASSUME checked' = now', NEW u \in Threads, InTimeRound(u)'
        PROVE  th'[u].fired = Minute'
    <3>1. u = t
      BY <1>4, <2>2, WorkflowAssumption DEF InTimeRound
    <3> QED
      BY <1>3, <1>7, <1>8, <2>1, <2>2, <3>1 DEF IInv, RoundInv
  <2>3. ASSUME checked' = now', savedAt' # now', NEW i \in DOMAIN rules', Due(i)'
        PROVE  \/ timeFired'[rules'[i].id] = Minute'
               \/ \E u \in Threads :
                    KindOf[u] = "ticker" /\ [at |-> i, rule |-> rules'[i]] \in th'[u].queue
    <3>1. th[t].fired = Minute
      BY <1>3, <1>8, <2>3 DEF IInv, RoundInv
    <3>2. rules[i].id \in RuleIds
      BY <1>3, <2>3, SnapshotRules, DataFacts, WorkflowAssumption
    <3>3. CASE timeFired[rules[i].id] = Minute
      BY <1>2, <1>3, <1>7, <1>10, <2>1, <3>1, <3>2, <3>3
    <3>4. ASSUME NEW u \in Threads, KindOf[u] = "ticker",
                 [at |-> i, rule |-> rules[i]] \in th[u].queue
          PROVE  \/ timeFired'[rules'[i].id] = Minute'
                 \/ [at |-> i, rule |-> rules'[i]] \in th'[t].queue
      <4>1. u = t
        BY <1>4, <3>4, WorkflowAssumption
      <4>2. CASE [at |-> i, rule |-> rules[i]] = e
        <5>1. e.rule = rules[i]
          BY <4>2
        <5> QED
          BY <1>2, <1>3, <1>7, <1>10, <2>1, <3>1, <5>1
      <4>3. CASE [at |-> i, rule |-> rules[i]] # e
        BY <1>3, <1>7, <3>4, <4>1, <4>3
      <4> QED
        BY <4>2, <4>3
    <3>5. Due(i) /\ checked = now /\ savedAt # now /\ i \in DOMAIN rules
      BY <1>3, <2>1, <2>3
    <3> QED
      BY <1>4, <3>3, <3>4, <3>5 DEF IInv, RoundInv
  <2>4. checked' <= now'
    BY <1>3 DEF IInv, RoundInv
  <2> QED
    BY <2>2, <2>3, <2>4 DEF RoundInv
<1>14. th'[t].pc # "enter"
  BY <1>7
<1> QED
  BY <1>3, <1>4, <1>7, <1>9, <1>12, <1>13, <1>14, TickerStep

\* In the idle round there is no time to note, and its line holds no rule for a time of day.
LEMMA IdleRoundKept ==
  ASSUME IInv, NEW t \in Threads, KindOf[t] = "ticker",
         UNCHANGED <<now, rules, checked, savedAt, timeFired>>, ~InTimeRound(t)',
         \A f \in th[t].queue : f.rule.trigger = "time" => f \in th'[t].queue
  PROVE  RoundInv'
<1>1. Minute' = Minute /\ \A i : Due(i)' <=> Due(i)
  BY DEF Minute, Due, ClockOf, DayOf
<1>2. ~\E u \in Threads : InTimeRound(u)'
  BY WorkflowAssumption DEF InTimeRound
<1>3. ASSUME checked' = now', savedAt' # now', NEW i \in DOMAIN rules', Due(i)'
      PROVE  \/ timeFired'[rules'[i].id] = Minute'
             \/ \E u \in Threads :
                  KindOf[u] = "ticker" /\ [at |-> i, rule |-> rules'[i]] \in th'[u].queue
  <2>1. Due(i) /\ rules[i].trigger = "time" /\ i \in DOMAIN rules
    BY <1>1, <1>3 DEF Due
  <2>2. ASSUME NEW u \in Threads, KindOf[u] = "ticker",
               [at |-> i, rule |-> rules[i]] \in th[u].queue
        PROVE  [at |-> i, rule |-> rules'[i]] \in th'[t].queue
    <3>1. u = t
      BY <2>2, WorkflowAssumption
    <3> QED
      BY <2>1, <2>2, <3>1
  <2> QED
    BY <1>1, <1>3, <2>1, <2>2 DEF IInv, RoundInv
<1>4. checked' <= now'
  BY DEF IInv, RoundInv
<1> QED
  BY <1>2, <1>3, <1>4 DEF RoundInv

LEMMA IdleRoundStep ==
  ASSUME IInv, NEW t \in Threads, IdleRound(t)
  PROVE  IInv' /\ (CooledInv => CooledInv')
<1> DEFINE idle(r) == now - input >= r.idle
           line == {e \in Enabled("idle") : idle(e.rule)}
<1>1. th \in [Threads -> Thread] /\ ThreadOK(t)
  BY ThreadFacts
<1>2. /\ th[t].pc = "time" /\ th[t].queue = {} /\ running' = running
      /\ UNCHANGED <<now, rules, checked, savedAt, lastFired, timeFired, timer, replaced>>
      /\ th' = [th EXCEPT ![t] = [Idle EXCEPT !.pc = "idling", !.queue = line]]
  BY DEF IdleRound, IsAt, clocks, memory
<1>3. \A e \in line : e \in Entry /\ e.rule.trigger = "idle"
  BY EnabledFacts, DataFacts
<1> HIDE DEF idle, line
<1>4. KindOf[t] = "ticker"
  BY <1>1, <1>2 DEF ThreadOK, PlacesOf, Acting, Inside, Calls
<1>5. /\ th'[t] = [Idle EXCEPT !.pc = "idling", !.queue = line]
      /\ \A u \in Threads : u # t => th'[u] = th[u]
  BY <1>1, <1>2
<1>6. "idling" \in Places /\ line \in SUBSET Entry /\ "idling" \notin Acting
  BY <1>3 DEF Places, Acting, Inside, Calls
<1>7. th'[t] \in Thread
  BY <1>5, <1>6, IdleThread DEF Thread, Entry
<1>8. th' \in [Threads -> Thread]
  BY <1>1, <1>2, <1>5, <1>7
<1>9. th'[t].pc = "idling" /\ th'[t].queue = line
  BY <1>5, IdleThread DEF Thread
<1>10. ThreadOK(t)'
  BY <1>3, <1>4, <1>9, RoundOK
<1>11. DataOK'
  BY DataFacts DEF IdleRound, DataOK, clocks, memory, outside
<1>12. RoundInv'
  <2>1. ~InTimeRound(t)'
    BY <1>6, <1>9 DEF InTimeRound
  <2> QED
    BY <1>2, <1>4, <2>1, IdleRoundKept
<1> QED
  BY <1>2, <1>4, <1>5, <1>8, <1>9, <1>10, <1>11, <1>12, TickerStep

LEMMA ArmIdleStep ==
  ASSUME IInv, NEW t \in Threads, ArmIdle(t)
  PROVE  IInv' /\ (CooledInv => CooledInv')
<1>1. th[t] \in Thread /\ ThreadOK(t)
  BY ThreadFacts
<1>2. PICK e \in First(th[t].queue) :
        /\ idleFired' = idleFired \cup {e.rule.id}
        /\ NextInLine(t, e, IF e.rule.id \in idleFired THEN "idling" ELSE "fire")
  BY DEF ArmIdle
<1>3. /\ th[t].pc = "idling" /\ running' = running
      /\ UNCHANGED <<now, rules, checked, savedAt, lastFired, timeFired, timer, replaced>>
  BY DEF ArmIdle, IsAt, clocks
<1>4. KindOf[t] = "ticker"
  BY <1>1, <1>3 DEF ThreadOK, PlacesOf, Acting, Inside, Calls
<1>5. PICK q \in {"idling", "fire"} : NextInLine(t, e, q)
  BY <1>2
<1>6. q \in Places
  BY DEF Places, Acting
<1>7. /\ e \in th[t].queue /\ e.rule \in Rules /\ e.rule.id \in RuleIds
      /\ th' \in [Threads -> Thread] /\ \A u \in Threads : u # t => th'[u] = th[u]
      /\ th'[t].pc = q /\ th'[t].queue = th[t].queue \ {e} /\ th'[t].rule = e.rule
      /\ th'[t].fired = th[t].fired
  BY <1>5, <1>6, LineFacts
<1>8. \A f \in th[t].queue : f.rule.trigger = "idle"
  BY <1>1, <1>3, <1>4 DEF InIdleRound, ThreadOK, QueueFits
<1>9. ThreadOK(t)'
  BY <1>4, <1>7, <1>8, RoundOK, FireOK
<1>10. DataOK'
  <2>1. idleFired' \subseteq RuleIds
    BY <1>2, <1>7, DataFacts DEF DataOK
  <2> QED
    BY <1>3, <2>1, DataFacts DEF ArmIdle, DataOK, clocks, outside
<1>11. RoundInv'
  <2>1. ~InTimeRound(t)'
    BY <1>7, <1>8 DEF InTimeRound, Acting, Inside, Calls
  <2> QED
    BY <1>3, <1>4, <1>8, <2>1, IdleRoundKept
<1>12. th'[t].pc # "enter"
  BY <1>7
<1> QED
  BY <1>3, <1>4, <1>7, <1>9, <1>10, <1>11, <1>12, TickerStep

LEMMA TickerRestsStep ==
  ASSUME IInv, NEW t \in Threads, TickerRests(t)
  PROVE  IInv' /\ (CooledInv => CooledInv')
<1>1. th \in [Threads -> Thread] /\ ThreadOK(t)
  BY ThreadFacts
<1>2. /\ th[t].pc = "idling" /\ th[t].queue = {} /\ running' = running
      /\ UNCHANGED <<now, rules, checked, savedAt, lastFired, timeFired, timer, replaced>>
      /\ th' = [th EXCEPT ![t] = Idle]
  BY DEF TickerRests, IsAt, clocks, memory
<1>3. KindOf[t] = "ticker"
  BY <1>1, <1>2 DEF ThreadOK, PlacesOf, Acting, Inside, Calls
<1>4. /\ th' \in [Threads -> Thread] /\ th'[t] = Idle
      /\ \A u \in Threads : u # t => th'[u] = th[u]
  BY <1>1, <1>2, IdleThread
<1>5. th'[t].pc = "idle" /\ th'[t].queue = {}
  BY <1>4, IdleThread
<1>6. ThreadOK(t)'
  BY <1>3, <1>5, RoundOK
<1>7. DataOK'
  BY DataFacts DEF TickerRests, DataOK, clocks, memory, outside
<1>8. RoundInv'
  <2>1. ~InTimeRound(t)'
    BY <1>5 DEF InTimeRound, Acting, Inside, Calls
  <2> QED
    BY <1>2, <1>3, <2>1, IdleRoundKept
<1> QED
  BY <1>2, <1>3, <1>4, <1>5, <1>6, <1>7, <1>8, TickerStep

-----------------------------------------------------------------------------
(* People, the timer, the configuration and time.                          *)

LEMMA ManualCallStep ==
  ASSUME IInv, NEW t \in Threads, ManualCall(t)
  PROVE  IInv' /\ (CooledInv => CooledInv')
<1>1. th \in [Threads -> Thread] /\ th[t] \in Thread
  BY ThreadFacts
<1>2. KindOf[t] = "manual" /\ running' = running
  BY DEF ManualCall
<1>3. PICK pc \in {"gate", "clear"} : th' = [th EXCEPT ![t].pc = pc]
  BY DEF ManualCall, GoTo
<1>4. /\ th'[t] = [th[t] EXCEPT !.pc = pc]
      /\ \A u \in Threads : u # t => th'[u] = th[u]
  BY <1>1, <1>3
<1>5. pc \in Places /\ pc \in Calls
  BY <1>3 DEF Places, Acting, Inside, Calls
<1>6. th'[t] \in Thread
  BY <1>1, <1>4, <1>5 DEF Thread
<1>7. th' \in [Threads -> Thread]
  BY <1>1, <1>3, <1>6
<1>8. th'[t].pc = pc /\ th'[t].queue = th[t].queue
  BY <1>1, <1>4 DEF Thread
<1>9. ThreadsMove /\ TickerKeeps /\ NoneEnters
  BY <1>2, <1>4, <1>5, <1>7, <1>8, ManualMove
<1>10. DataOK'
  <2>1. events' \in 0..MaxEvents
    BY EventTyped DEF ManualCall
  <2> QED
    BY <2>1, DataFacts DEF ManualCall, DataOK, memory, outside
<1> QED
  BY <1>9, <1>10, StepKept, DataFacts DEF ManualCall, memory

LEMMA TimerFiresStep ==
  ASSUME IInv, TimerFires
  PROVE  IInv' /\ (CooledInv => CooledInv')
<1>1. ThreadsMove /\ TickerKeeps /\ NoneEnters
  BY NobodyMoves DEF TimerFires
<1>2. /\ timer' = NoTimer /\ ~NoTimer.armed
      /\ NoTimer \in [armed : BOOLEAN, due : Int, power : {"", "ON", "OFF"}]
  <2>1. timer' = NoTimer
    BY DEF TimerFires
  <2>2. /\ ~NoTimer.armed
        /\ NoTimer \in [armed : BOOLEAN, due : Int, power : {"", "ON", "OFF"}]
    BY DEF NoTimer, Never
  <2> QED
    BY <2>1, <2>2
<1>3. timer.power \in {"ON", "OFF"}
  BY DataFacts DEF TimerFires, DataOK
<1>4. DataOK'
  BY <1>2, <1>3, DataFacts DEF TimerFires, DataOK, clocks, memory, outside
<1> QED
  BY <1>1, <1>2, <1>4, StepKept DEF TimerFires, clocks, memory

LEMMA RevertStep ==
  ASSUME IInv, Revert
  PROVE  IInv' /\ (CooledInv => CooledInv')
<1>1. ThreadsMove /\ TickerKeeps /\ NoneEnters
  BY NobodyMoves DEF Revert
<1>2. DataOK'
  <2>1. events' \in 0..MaxEvents
    BY EventTyped DEF Revert
  <2>2. reverts' \subseteq {"ON", "OFF"} /\ panel' \in {"ON", "OFF"}
    BY DataFacts DEF Revert
  <2> QED
    BY <2>1, <2>2, DataFacts DEF Revert, DataOK, memory
<1> QED
  BY <1>1, <1>2, StepKept, DataFacts DEF Revert, memory

LEMMA RulesSavedStep ==
  ASSUME IInv, RulesSaved
  PROVE  IInv' /\ (CooledInv => CooledInv')
<1>1. ThreadsMove /\ TickerKeeps /\ NoneEnters
  BY NobodyMoves DEF RulesSaved
<1>2. /\ UNCHANGED <<now, checked, lastFired, timer, replaced, th, running>>
      /\ savedAt' = now /\ rules' \in RuleSets
  BY DEF RulesSaved, memory
<1>3. DataOK'
  <2>1. events' \in 0..MaxEvents
    BY EventTyped DEF RulesSaved
  <2>2. savedAt' \in Int
    <3>1. now \in Nat
      BY DataFacts
    <3> QED
      BY <1>2, <3>1
  <2> QED
    BY <1>2, <2>1, <2>2, DataFacts DEF RulesSaved, DataOK, memory, outside
<1>4. RoundInv'
  BY <1>2 DEF IInv, RoundInv, InTimeRound, Minute
<1>5. OneRevert'
  BY <1>1, <1>2, <1>3, HoldersRunNext, DataFacts DEF OneRevert, TypeOK, ThreadsMove
<1> QED
  BY <1>1, <1>2, <1>4, <1>5, CooledKept DEF IInv, ThreadsMove

LEMMA TickStep ==
  ASSUME IInv, Tick
  PROVE  IInv' /\ (CooledInv => CooledInv')
<1>1. ThreadsMove /\ TickerKeeps /\ NoneEnters
  BY NobodyMoves DEF Tick
<1>2. /\ now < MaxTime /\ now' = now + 1
      /\ UNCHANGED <<checked, lastFired, timer, replaced, th, running>>
  BY DEF Tick, memory
<1>3. now' \in 0..MaxTime
  <2>1. now \in 0..MaxTime /\ MaxTime \in Nat
    BY DataFacts, WorkflowAssumption
  <2> QED
    BY <1>2, <2>1
<1>4. DataOK'
  BY <1>3, DataFacts DEF Tick, DataOK, memory, outside
<1>5. checked' < now'
  <2>1. checked \in Int /\ now \in Int /\ checked <= now
    <3>1. now \in Nat /\ DataOK
      BY DataFacts
    <3>2. checked \in Int
      BY <3>1 DEF DataOK
    <3>3. checked <= now
      BY DEF IInv, RoundInv
    <3> QED
      BY <3>1, <3>2, <3>3
  <2>2. ASSUME NEW c \in Int, NEW n \in Int, c <= n PROVE c < n + 1
    BY <2>2
  <2> QED
    BY <1>2, <2>1, <2>2
<1>6. RoundInv'
  <2>1. checked' \in Int
    BY <1>4 DEF DataOK
  <2>2. now' \in Int
    <3>1. now' \in 0..MaxTime
      BY <1>3
    <3> QED
      BY <3>1
  <2>3. checked' <= now' /\ checked' # now'
    BY <1>5, <2>1, <2>2
  <2> QED
    BY <2>3 DEF RoundInv
<1>7. OneRevert'
  BY <1>1, <1>2, <1>4, HoldersRunNext, DataFacts DEF OneRevert, TypeOK, ThreadsMove
<1>8. CooledInv'
  <2>1. \A u \in Threads : th[u].pc # "enter"
    BY DEF Tick, Slow, AtSlowAction, AtAction, IsAt
  <2> QED
    BY <1>2, <2>1 DEF CooledInv
<1> QED
  BY <1>1, <1>6, <1>7, <1>8 DEF IInv, ThreadsMove

-----------------------------------------------------------------------------
(* The inductive invariants.                                               *)

LEMMA InitOK ==
  ASSUME Init
  PROVE  IInv /\ CooledInv
<1>1. \A t \in Threads : th[t] = Idle
  BY DEF Init
<1>2. \A t \in Threads : th[t].pc = "idle" /\ th[t].queue = {}
  BY <1>1, IdleThread
<1>3. "idle" \notin Acting /\ "idle" \notin Inside /\ "idle" \notin Calls
  BY DEF Acting, Inside, Calls
<1>4. ASSUME NEW t \in Threads PROVE ThreadOK(t)
  <2>1. QueueFits(t)
    BY <1>2, <1>3 DEF QueueFits, InTimeRound, InIdleRound
  <2>2. "idle" \in PlacesOf(KindOf[t])
    BY WorkflowAssumption DEF PlacesOf
  <2> QED
    BY <1>2, <1>3, <2>1, <2>2 DEF ThreadOK, InRule, SeenNoPersons
<1>5. DataOK
  <2>1. MaxTime \in Nat /\ MaxEvents \in Nat
    BY WorkflowAssumption
  <2>2. 0 \in 0..MaxTime /\ 0 \in 0..MaxEvents
    BY <2>1
  <2>3. /\ now \in 0..MaxTime /\ rules \in RuleSets /\ events \in 0..MaxEvents
        /\ checked \in Int /\ savedAt \in Int /\ input \in Nat /\ replaced \in Int
    BY <2>2 DEF Init, Never
  <2>4. /\ lastFired \in [RuleIds -> {Never} \cup 0..MaxTime]
        /\ timeFired \in [RuleIds -> Int] /\ idleFired \subseteq RuleIds
    BY DEF Init, Never
  <2>5. /\ history \in Seq([rule : RuleIds, result : Results \cup {"skipped"}])
        /\ Len(history) <= HistoryCap
    <3>1. history = <<>> /\ HistoryCap \in Nat \ {0}
      BY WorkflowAssumption DEF Init
    <3>2. Len(history) = 0 /\ history \in Seq([rule : RuleIds, result : Results \cup {"skipped"}])
      BY <3>1
    <3> QED
      BY <3>1, <3>2
  <2>6. /\ running \in Threads \cup {"free"} /\ gate \in Threads \cup {"free"}
        /\ reverts \subseteq {"ON", "OFF"} /\ panel \in {"ON", "OFF"}
    BY DEF Init
  <2>7. /\ timer \in [armed : BOOLEAN, due : Int, power : {"", "ON", "OFF"}]
        /\ timer.armed => timer.power # ""
    <3>1. /\ NoTimer \in [armed : BOOLEAN, due : Int, power : {"", "ON", "OFF"}]
          /\ ~NoTimer.armed
      BY DEF NoTimer, Never
    <3> QED
      BY <3>1 DEF Init
  <2>8. override \in SeenType
    <3>1. NoOverride \in SeenType
      BY DEF NoOverride, SeenType, Never
    <3> QED
      BY <3>1 DEF Init
  <2> QED
    BY <2>3, <2>4, <2>5, <2>6, <2>7, <2>8 DEF DataOK, SeenType
<1>6. TypeOK
  <2>1. th \in [Threads -> Thread]
    BY IdleThread DEF Init
  <2> QED
    BY <1>2, <1>5, <2>1 DEF TypeOK
<1>7. OneRevert
  BY <1>6 DEF OneRevert, Init, NoTimer
<1>8. RoundInv
  <2>1. checked = -1 /\ now = 0
    BY DEF Init, Never
  <2>2. checked <= now /\ checked # now
    BY <2>1
  <2> QED
    BY <2>2 DEF RoundInv
<1>9. CooledInv
  BY <1>2 DEF CooledInv
<1> QED
  BY <1>4, <1>7, <1>8, <1>9 DEF IInv

LEMMA StutterOK ==
  ASSUME IInv, UNCHANGED vars
  PROVE  IInv' /\ (CooledInv => CooledInv')
<1>1. ThreadsMove /\ TickerKeeps /\ NoneEnters
  BY NobodyMoves DEF vars
<1>2. DataOK'
  BY DataFacts DEF vars, DataOK
<1> QED
  BY <1>1, <1>2, StepKept, DataFacts DEF vars

LEMMA NextOK ==
  ASSUME IInv, [Next]_vars
  PROVE  IInv' /\ (CooledInv => CooledInv')
<1>1. ASSUME NEW t \in Threads, Triggers(t)
      PROVE  IInv' /\ (CooledInv => CooledInv')
  <2>1. CASE TimeRound(t)  BY <2>1, TimeRoundStep
  <2>2. CASE ArmTime(t)  BY <2>2, ArmTimeStep
  <2>3. CASE IdleRound(t)  BY <2>3, IdleRoundStep
  <2>4. CASE ArmIdle(t)  BY <2>4, ArmIdleStep
  <2>5. CASE TickerRests(t)  BY <2>5, TickerRestsStep
  <2>6. CASE Touched(t)  BY <2>6, TouchedStep
  <2>7. CASE HandleActivity(t)  BY <2>7, HandleActivityStep
  <2>8. CASE HandleMQTT(t)  BY <2>8, HandleMQTTStep
  <2>9. CASE RuleWebhook(t)  BY <2>9, RuleWebhookStep
  <2>10. CASE TestRule(t)  BY <2>10, TestRuleStep
  <2>11. CASE NextRule(t)  BY <2>11, NextRuleStep
  <2> QED
    BY <1>1, <2>1, <2>2, <2>3, <2>4, <2>5, <2>6, <2>7, <2>8, <2>9, <2>10, <2>11 DEF Triggers
<1>2. ASSUME NEW t \in Threads, Runs(t)
      PROVE  IInv' /\ (CooledInv => CooledInv')
  <2>1. CASE Blocked(t)  BY <2>1, BlockedStep
  <2>2. CASE Enter(t)  BY <2>2, EnterStep
  <2>3. CASE Lock(t)  BY <2>3, LockStep
  <2>4. CASE RuleDone(t)  BY <2>4, RuleDoneStep
  <2>5. CASE ShowPage(t)  BY <2>5, ShowPageStep
  <2>6. CASE ResumePlaylist(t)  BY <2>6, ResumePlaylistStep
  <2>7. CASE Evaluate(t)  BY <2>7, EvaluateStep
  <2>8. CASE Display(t)  BY <2>8, DisplayStep
  <2>9. CASE ScheduleRevert(t)  BY <2>9, ScheduleRevertStep
  <2>10. CASE SetActive(t)  BY <2>10, SetActiveStep
  <2>11. CASE PageShown(t)  BY <2>11, PageShownStep
  <2>12. CASE SetOverride(t)  BY <2>12, SetOverrideStep
  <2>13. CASE ClearOverride(t)  BY <2>13, ClearOverrideStep
  <2> QED
    BY <1>2, <2>1, <2>2, <2>3, <2>4, <2>5, <2>6, <2>7, <2>8, <2>9, <2>10, <2>11, <2>12, <2>13
       DEF Runs
<1>3. ASSUME NEW t \in Threads, ManualCall(t)
      PROVE  IInv' /\ (CooledInv => CooledInv')
  BY <1>3, ManualCallStep
<1>4. CASE TimerFires  BY <1>4, TimerFiresStep
<1>5. CASE Revert  BY <1>5, RevertStep
<1>6. CASE RulesSaved  BY <1>6, RulesSavedStep
<1>7. CASE Tick  BY <1>7, TickStep
<1>8. CASE UNCHANGED vars  BY <1>8, StutterOK
<1> QED
  BY <1>1, <1>2, <1>3, <1>4, <1>5, <1>6, <1>7, <1>8 DEF Next

\* The threads' places, the holder of e.running, the lines of the triggers and the round of
\* the ticker stay in order, whatever interleaves (engine.go, every handler).
THEOREM Invariance == Spec => []IInv
<1>1. Init => IInv
  BY InitOK
<1>2. IInv /\ [Next]_vars => IInv'
  BY NextOK
<1> QED
  BY <1>1, <1>2, PTL DEF Spec

\* Only the revert of the latest display action is pending, and every value is one the code
\* can have: one thread at most is in the actions of a rule.
THEOREM OneRevertPending == Spec => []OneRevert
<1>1. IInv => OneRevert
  BY DEF IInv
<1> QED
  BY <1>1, Invariance, PTL

-----------------------------------------------------------------------------
(* What a step may not do.                                                 *)

\* Who writes the override.
LEMMA OverrideWriters ==
  ASSUME [Next]_vars, override' # override
  PROVE  \E t \in Threads : SetOverride(t) \/ ClearOverride(t)
  BY ZenonT(120) DEF Next, Triggers, Runs, vars, outside, clocks, memory,
     TimeRound, ArmTime, IdleRound, ArmIdle, TickerRests, Touched, HandleActivity, HandleMQTT,
     RuleWebhook, TestRule, NextRule, Blocked, Enter, Lock, RuleDone, ShowPage,
     ResumePlaylist, Evaluate, Display, ScheduleRevert, SetActive, PageShown, ManualCall,
     TimerFires, Revert, RulesSaved, Tick

\* Who writes the cooldowns.
LEMMA CooldownWriters ==
  ASSUME [Next]_vars, lastFired' # lastFired
  PROVE  \E t \in Threads : Enter(t)
  BY ZenonT(120) DEF Next, Triggers, Runs, vars, outside, clocks, memory,
     TimeRound, ArmTime, IdleRound, ArmIdle, TickerRests, Touched, HandleActivity, HandleMQTT,
     RuleWebhook, TestRule, NextRule, Blocked, Lock, RuleDone, ShowPage,
     ResumePlaylist, Evaluate, Display, ScheduleRevert, SetActive, PageShown, SetOverride,
     ClearOverride, ManualCall, TimerFires, Revert, RulesSaved, Tick

\* Only time moves the clock.
LEMMA ClockWriters ==
  ASSUME [Next]_vars, now' # now
  PROVE  Tick
  BY ZenonT(120) DEF Next, Triggers, Runs, vars, outside, clocks, memory,
     TimeRound, ArmTime, IdleRound, ArmIdle, TickerRests, Touched, HandleActivity, HandleMQTT,
     RuleWebhook, TestRule, NextRule, Blocked, Enter, Lock, RuleDone, ShowPage,
     ResumePlaylist, Evaluate, Display, ScheduleRevert, SetActive, PageShown, SetOverride,
     ClearOverride, ManualCall, TimerFires, Revert, RulesSaved

\* A rule replaces or ends a person's override only when it came after the rule had looked
\* (show_page and resume_playlist, engine.go:303-323).
THEOREM SeenOverridesStay == Spec => SeenOverrideStays
<1> DEFINE Stays == \A t \in Threads :
       /\ override' # override /\ OverrideNow.source = "admin"
       /\ th'[t] # th[t] /\ KindOf[t] # "manual"
       => th[t].seen.set # override.set \/ th[t].seen.source # "admin"
<1>1. ASSUME IInv, [Next]_vars PROVE Stays
  <2> SUFFICES ASSUME NEW t \in Threads, override' # override, th'[t] # th[t],
                      KindOf[t] # "manual"
               PROVE  th[t].seen.source # "admin"
    OBVIOUS
  <2>1. PICK u \in Threads : SetOverride(u) \/ ClearOverride(u)
    BY <1>1, OverrideWriters
  <2>2. th[u].pc \in Calls
    BY <2>1 DEF SetOverride, ClearOverride, IsAt, Calls
  <2>3. u = t
    <3>1. th \in [Threads -> Thread]
      BY <1>1, ThreadFacts
    <3>2. \A v \in Threads : v # u => th'[v] = th[v]
      BY <2>1, <3>1 DEF SetOverride, ClearOverride, CallEnds, ActionEnds
    <3> QED
      BY <3>2
  <2> QED
    BY <1>1, <2>2, <2>3, ThreadFacts DEF ThreadOK, SeenNoPersons
<1>2. Spec => []IInv
  BY Invariance
<1>3. Spec => [][Stays]_vars
  BY <1>1, <1>2, PTL DEF Spec
<1> QED
  BY <1>3 DEF SeenOverrideStays

\* A rule that one goroutine fires begins its cooldown anew only when the last one is over,
\* however long it waited for other rules (fire and blocked, engine.go:232-253).
THEOREM CooldownsHold == Steady => (Spec => CooldownHeld)
<1> DEFINE Held == \A i \in DOMAIN rules :
       LET rule == rules[i] IN
       rule.trigger \in {"mqtt", "time", "idle"} /\ lastFired[rule.id] # Never
       /\ lastFired'[rule.id] # lastFired[rule.id]
       => lastFired'[rule.id] - lastFired[rule.id] >= rule.cooldown
<1>1. ASSUME Steady, IInv, CooledInv, [Next]_vars PROVE Held
  <2> SUFFICES ASSUME NEW i \in DOMAIN rules, rules[i].trigger \in {"mqtt", "time", "idle"},
                      lastFired[rules[i].id] # Never,
                      lastFired'[rules[i].id] # lastFired[rules[i].id]
               PROVE  lastFired'[rules[i].id] - lastFired[rules[i].id] >= rules[i].cooldown
    OBVIOUS
  <2>1. PICK t \in Threads : Enter(t)
    BY <1>1, CooldownWriters
  <2>2. /\ th[t].pc = "enter" /\ lastFired' = [lastFired EXCEPT ![th[t].rule.id] = now]
    BY <2>1 DEF Enter, IsAt
  <2>3. KindOf[t] # "manual" /\ th[t].rule \in Rules /\ Fits(t, th[t].rule)
    <3>1. ThreadOK(t) /\ KindOf[t] # "manual" /\ th[t].pc \in Acting
      BY <1>1, <2>2, ThreadFacts DEF Acting, Calls
    <3> QED
      BY <2>2, <3>1 DEF ThreadOK, QueueFits
  <2>4. rules[i] \in Rules
    BY <1>1, SnapshotRules, DataFacts
  <2>5. lastFired \in [RuleIds -> {Never} \cup 0..MaxTime] /\ rules[i].id \in RuleIds
        /\ rules[i].cooldown \in Nat
    BY <1>1, <2>4, DataFacts, WorkflowAssumption DEF DataOK
  <2>6. rules[i].id = th[t].rule.id /\ lastFired'[rules[i].id] = now
    BY <2>2, <2>5
  <2>7. rules[i].trigger = th[t].rule.trigger /\ rules[i].cooldown = th[t].rule.cooldown
    BY <1>1, <2>3, <2>4, <2>6 DEF Steady
  <2>8. KindOf[t] \in {"ticker", "mqtt"}
    BY <2>3, <2>7, WorkflowAssumption DEF Fits
  <2>9. ~Cooling(th[t].rule)
    BY <1>1, <2>2, <2>8 DEF CooledInv
  <2>10. ~(now - lastFired[rules[i].id] < rules[i].cooldown)
    BY <2>6, <2>7, <2>9 DEF Cooling
  <2>11. lastFired[rules[i].id] \in 0..MaxTime /\ now \in Nat
    BY <1>1, <2>5, DataFacts
  <2>12. ASSUME NEW n \in Nat, NEW l \in 0..MaxTime, NEW c \in Nat, ~(n - l < c)
         PROVE  n - l >= c
    BY <2>12
  <2> QED
    BY <2>5, <2>6, <2>10, <2>11, <2>12
<1>2. Init => CooledInv
  BY InitOK
<1>3. IInv /\ CooledInv /\ [Next]_vars => CooledInv'
  BY NextOK
<1>4. Spec => []IInv
  BY Invariance
<1>5. Spec => []CooledInv
  BY <1>2, <1>3, <1>4, PTL DEF Spec
<1> HIDE DEF Held
<1>6. ASSUME Steady PROVE Spec => [][Held]_vars
  <2>1. IInv /\ CooledInv /\ [Next]_vars => Held
    BY <1>1, <1>6
  <2> QED
    BY <1>4, <1>5, <2>1, PTL DEF Spec
<1> QED
  BY <1>6 DEF CooldownHeld, Held

\* A rule for a time of day has been fired for its minute when the minute ends, on every day,
\* if the ticker looked at the end of it (checkTime, engine.go:97-116).
THEOREM TimeRulesAreFired == Spec => TimeRulesFire
<1> DEFINE Fires == now' # now /\ Minute' # Minute =>
       \A i \in DOMAIN rules :
         LET rule == rules[i] IN
         /\ rule.trigger = "time" /\ ~rule.disabled
         /\ rule.at = ClockOf(Minute) /\ rule.days = {}
         /\ checked = now /\ savedAt # now /\ \A t \in Threads : KindOf[t] = "ticker" => IsAt(t, "idle")
         => timeFired[rule.id] = Minute
<1>1. ASSUME IInv PROVE Fires
  <2> SUFFICES ASSUME NEW i \in DOMAIN rules, rules[i].trigger = "time", ~rules[i].disabled,
                      rules[i].at = ClockOf(Minute), rules[i].days = {},
                      checked = now, savedAt # now,
                      \A t \in Threads : KindOf[t] = "ticker" => IsAt(t, "idle")
               PROVE  timeFired[rules[i].id] = Minute
    OBVIOUS
  <2>1. Due(i)
    BY DEF Due
  <2>2. \A t \in Threads : KindOf[t] = "ticker" => th[t].queue = {}
    BY <1>1, ThreadFacts DEF ThreadOK, QueueFits, IsAt
  <2> QED
    BY <1>1, <2>1, <2>2 DEF IInv, RoundInv
<1>2. Spec => []IInv
  BY Invariance
<1> HIDE DEF Fires
<1>3. Spec => [][Fires]_vars
  BY <1>1, <1>2, PTL DEF Spec
<1> QED
  BY <1>3 DEF TimeRulesFire, Fires
=============================================================================
