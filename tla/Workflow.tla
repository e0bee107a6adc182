------------------------------ MODULE Workflow ------------------------------
(***************************************************************************)
(* The workflow engine (internal/workflow/engine.go): rules that a message, *)
(* a time, a webhook, a touch or idleness fires, and their actions, run one *)
(* rule at a time against the browser's page override, its operation gate   *)
(* and the display, all of which people use too.                            *)
(*                                                                         *)
(* A thread is the ticker of Run, the command goroutine of MQTT, a request  *)
(* or the goroutine of a touch; a step is a section under e.mu or one call. *)
(* The clock counts the ticker's periods, MinuteLen of them to a minute.    *)
(***************************************************************************)
EXTENDS Integers, Sequences, FiniteSets

CONSTANTS
  RuleSets,    \* the lists of rules that may be saved
  RuleIds,     \* their identifiers
  Threads,     \* what calls the engine
  KindOf,      \* [Threads -> {"ticker", "mqtt", "webhook", "touch", "manual"}]
  MinuteLen,   \* periods of the ticker in a minute
  DayLen,      \* minutes in a day
  MaxTime,     \* bound on the clock
  MaxEvents,   \* bound on messages, requests, touches, saves and failures
  HistoryCap   \* runs that are remembered: 50 in the code

Rules   == UNION {{list[i] : i \in DOMAIN list} : list \in RuleSets}
Actions == [type : {"show_page", "resume_playlist", "evaluate", "display"},
            power : {"", "ON", "OFF"}, duration : Nat]

\* Saved rules are valid, and one goroutine, Run, is the ticker.
ASSUME WorkflowAssumption ==
  /\ KindOf \in [Threads -> {"ticker", "mqtt", "webhook", "touch", "manual"}]
  /\ "free" \notin Threads
  /\ \A t, u \in Threads : KindOf[t] = "ticker" /\ KindOf[u] = "ticker" => t = u
  /\ RuleSets \subseteq Seq(Rules)
  /\ \A rule \in Rules :
       /\ rule.id \in RuleIds /\ rule.cooldown \in Nat /\ rule.actions \in Seq(Actions)
       /\ \A i \in DOMAIN rule.actions :
            rule.actions[i].type = "display" => rule.actions[i].power # ""
  /\ {MinuteLen, DayLen, HistoryCap} \subseteq Nat \ {0}
  /\ {MaxTime, MaxEvents} \subseteq Nat

VARIABLES
  now,        \* the clock
  rules,      \* cfg.Kiosk.Rules
  lastFired,  \* per rule, when its cooldown began
  timeFired,  \* per rule, the minute it was fired for last
  idleFired,  \* rules that have fired in this idle period
  history,    \* the latest runs, oldest first
  running,    \* the thread that runs a rule, or "free"
  timer,      \* displayTimer: the revert it will make and when
  reverts,    \* callbacks of the timer that have begun
  override,   \* the page override: [active, source, until, set]
  gate,       \* the thread in a browser operation, or "free"
  panel,      \* the display's power
  input,      \* when the kiosk page saw input last
  th,         \* the threads
  checked,    \* when the ticker began its latest round
  replaced,   \* history: the latest display action whose revert is arranged
  savedAt,    \* history: when the rules were saved last
  events

vars == <<now, rules, lastFired, timeFired, idleFired, history, running, timer,
          reverts, override, gate, panel, input, th, checked, replaced, savedAt, events>>
memory  == <<lastFired, timeFired, idleFired>>
outside == <<override, gate, panel, input>>
clocks  == <<now, rules, checked, savedAt, events>>

Never      == -1
NoOverride == [active |-> FALSE, source |-> "", until |-> Never, set |-> 0]
NoTimer    == [armed |-> FALSE, due |-> Never, power |-> ""]
Idle       == [pc |-> "idle", queue |-> {}, rule |-> <<>>, fired |-> Never,
               action |-> 0, seen |-> NoOverride, result |-> "ok"]

Minute     == now \div MinuteLen
ClockOf(m) == m % DayLen
DayOf(m)   == m \div DayLen

IsAt(t, pc)   == th[t].pc = pc
GoTo(t, pc)   == th' = [th EXCEPT ![t].pc = pc]
Event         == events < MaxEvents /\ events' = events + 1
ActionOf(t)   == th[t].rule.actions[th[t].action]

\* OverrideSource: an override that is over counts as none.
OverrideNow    == IF override.active /\ now < override.until THEN override ELSE NoOverride
ManualOverride == OverrideNow.active /\ OverrideNow.source # "workflow"

\* A trigger works through a snapshot of its rules, each with its place in the list.
Enabled(kind) ==
  {[at |-> i, rule |-> rules[i]] :
     i \in {j \in DOMAIN rules : rules[j].trigger = kind /\ ~rules[j].disabled}}
First(queue) == {e \in queue : \A f \in queue : e.at <= f.at}

Init ==
  /\ now = 0 /\ rules \in RuleSets /\ checked = Never
  /\ lastFired = [r \in RuleIds |-> Never]
  /\ timeFired = [r \in RuleIds |-> Never]
  /\ idleFired = {} /\ history = <<>> /\ running = "free"
  /\ timer = NoTimer /\ reverts = {}
  /\ override = NoOverride /\ gate = "free" /\ panel = "ON" /\ input = 0
  /\ th = [t \in Threads |-> Idle]
  /\ replaced = 0 /\ savedAt = Never /\ events = 0

-----------------------------------------------------------------------------
(* What fires rules.                                                       *)

\* checkTime: the rules whose minute it is.
TimeRound(t) ==
  LET due(r) == r.at = ClockOf(Minute) /\ (r.days = {} \/ DayOf(Minute) \in r.days)
  IN /\ KindOf[t] = "ticker" /\ IsAt(t, "idle") /\ checked # now
     /\ checked' = now
     /\ th' = [th EXCEPT ![t] = [Idle EXCEPT !.pc = "time", !.fired = Minute,
                                   !.queue = {e \in Enabled("time") : due(e.rule)}]]
     /\ UNCHANGED <<now, rules, savedAt, memory, history, running, timer, reverts, outside,
                    replaced, events>>

NextInLine(t, e, pc) ==
  th' = [th EXCEPT ![t].queue = @ \ {e}, ![t].rule = e.rule, ![t].pc = pc]

\* Weakened form of ArmTime: the time it was fired at has no date.
ArmTimeUndated(t) ==
  /\ IsAt(t, "time")
  /\ \E e \in First(th[t].queue) :
       /\ timeFired' = [timeFired EXCEPT ![e.rule.id] = ClockOf(th[t].fired)]
       /\ NextInLine(t, e, IF timeFired[e.rule.id] = ClockOf(th[t].fired) THEN "time"
                           ELSE "fire")
  /\ UNCHANGED <<clocks, lastFired, idleFired, history, running, timer, reverts,
                 outside, replaced>>

\* A rule is fired once for its minute of this day.
ArmTime(t) ==
  /\ IsAt(t, "time")
  /\ \E e \in First(th[t].queue) :
       /\ timeFired' = [timeFired EXCEPT ![e.rule.id] = th[t].fired]
       /\ NextInLine(t, e, IF timeFired[e.rule.id] = th[t].fired THEN "time" ELSE "fire")
  /\ UNCHANGED <<clocks, lastFired, idleFired, history, running, timer, reverts,
                 outside, replaced>>

\* checkIdle: how long there has been no input is looked up once for all rules.
IdleRound(t) ==
  LET idle(r) == now - input >= r.idle
  IN /\ IsAt(t, "time") /\ th[t].queue = {}
     /\ th' = [th EXCEPT ![t] = [Idle EXCEPT !.pc = "idling",
                                   !.queue = {e \in Enabled("idle") : idle(e.rule)}]]
     /\ UNCHANGED <<clocks, memory, history, running, timer, reverts, outside, replaced>>

ArmIdle(t) ==
  /\ IsAt(t, "idling")
  /\ \E e \in First(th[t].queue) :
       /\ idleFired' = idleFired \cup {e.rule.id}
       /\ NextInLine(t, e, IF e.rule.id \in idleFired THEN "idling" ELSE "fire")
  /\ UNCHANGED <<clocks, lastFired, timeFired, history, running, timer, reverts,
                 outside, replaced>>

\* Input on the page; its handler runs in a goroutine of its own.
Touched(t) ==
  /\ KindOf[t] = "touch" /\ IsAt(t, "idle") /\ Event
  /\ input' = now
  /\ GoTo(t, "touched")
  /\ UNCHANGED <<now, rules, checked, savedAt, memory, history, running, timer, reverts,
                 override, gate, panel, replaced>>

HandleActivity(t) ==
  /\ IsAt(t, "touched")
  /\ idleFired' = {}
  /\ th' = [th EXCEPT ![t].pc = "next", ![t].queue = Enabled("touch")]
  /\ UNCHANGED <<clocks, lastFired, timeFired, history, running, timer, reverts,
                 outside, replaced>>

\* HandleMQTT: one message fires every rule that listens for it.
HandleMQTT(t) ==
  /\ KindOf[t] = "mqtt" /\ IsAt(t, "idle") /\ Event
  /\ th' = [th EXCEPT ![t].pc = "next", ![t].queue = Enabled("mqtt")]
  /\ UNCHANGED <<now, rules, checked, savedAt, memory, history, running, timer, reverts,
                 outside, replaced>>

\* HandleWebhook: the request fires one rule, the one that its token is for.
RuleWebhook(t) ==
  /\ KindOf[t] = "webhook" /\ IsAt(t, "idle") /\ Event
  /\ \E e \in Enabled("webhook") : th' = [th EXCEPT ![t].pc = "next", ![t].queue = {e}]
  /\ UNCHANGED <<now, rules, checked, savedAt, memory, history, running, timer, reverts,
                 outside, replaced>>

\* Test, of the Admin page, goes straight to the actions of any rule.
TestRule(t) ==
  /\ KindOf[t] = "webhook" /\ IsAt(t, "idle") /\ Event
  /\ \E i \in DOMAIN rules : th' = [th EXCEPT ![t].pc = "lock", ![t].rule = rules[i]]
  /\ UNCHANGED <<now, rules, checked, savedAt, memory, history, running, timer, reverts,
                 outside, replaced>>

\* The next rule of a message, a touch or a request.
NextRule(t) ==
  /\ IsAt(t, "next")
  /\ \/ th[t].queue = {} /\ th' = [th EXCEPT ![t] = Idle]
     \/ \E e \in First(th[t].queue) : NextInLine(t, e, "fire")
  /\ UNCHANGED <<clocks, memory, history, running, timer, reverts, outside, replaced>>

TickerRests(t) ==
  /\ IsAt(t, "idling") /\ th[t].queue = {}
  /\ th' = [th EXCEPT ![t] = Idle]
  /\ UNCHANGED <<clocks, memory, history, running, timer, reverts, outside, replaced>>

-----------------------------------------------------------------------------
(* fire and execute.                                                       *)

\* Where a thread goes when a rule is done with.
Onward(t) == IF KindOf[t] # "ticker" THEN "next"
             ELSE IF th[t].rule.trigger = "idle" THEN "idling" ELSE "time"

\* record
Remember(run) ==
  history' = LET all == Append(history, run)
             IN SubSeq(all, IF Len(all) > HistoryCap THEN 2 ELSE 1, Len(all))

\* Weakened form of Cooling: it ends a period early.
CoolingLess(rule) ==
  lastFired[rule.id] # Never /\ now - lastFired[rule.id] < rule.cooldown - 1

Cooling(rule) ==
  lastFired[rule.id] # Never /\ now - lastFired[rule.id] < rule.cooldown

\* blocked: the cooldown is looked up here and begins in the next section.
Blocked(t) ==
  LET rule == th[t].rule
      bars == Cooling(rule) \/ ~(rule.clock = {} \/ ClockOf(Minute) \in rule.clock)
  IN /\ IsAt(t, "fire")
     /\ \/ /\ bars \/ rule.onPage
           /\ Remember([rule |-> rule.id, result |-> "skipped"])
           /\ GoTo(t, Onward(t))
        \/ /\ ~bars
           /\ GoTo(t, "enter") /\ UNCHANGED history
     /\ UNCHANGED <<clocks, memory, running, timer, reverts, outside, replaced>>

Enter(t) ==
  /\ IsAt(t, "enter")
  /\ lastFired' = [lastFired EXCEPT ![th[t].rule.id] = now]
  /\ GoTo(t, "lock")
  /\ UNCHANGED <<clocks, timeFired, idleFired, history, running, timer, reverts,
                 outside, replaced>>

Lock(t) ==
  /\ IsAt(t, "lock") /\ running = "free"
  /\ running' = t
  /\ th' = [th EXCEPT ![t].pc = "action", ![t].action = 1, ![t].result = "ok"]
  /\ UNCHANGED <<clocks, memory, history, timer, reverts, outside, replaced>>

\* All actions are done: the run is recorded, then the lock is released.
RuleDone(t) ==
  /\ IsAt(t, "action") /\ th[t].action > Len(th[t].rule.actions)
  /\ Remember([rule |-> th[t].rule.id, result |-> th[t].result])
  /\ running' = "free"
  /\ GoTo(t, Onward(t))
  /\ UNCHANGED <<clocks, memory, timer, reverts, outside, replaced>>

\* One action is over; a failure does not keep the next one from running.
ActionEnds(t, result) ==
  th' = [th EXCEPT ![t].pc = "action", ![t].action = @ + 1,
                   ![t].result = IF result = "ok" THEN @ ELSE result]

\* A call of the browser is over, a rule's or a person's.
CallEnds(t, result) ==
  IF KindOf[t] = "manual" THEN th' = [th EXCEPT ![t] = Idle] ELSE ActionEnds(t, result)

-----------------------------------------------------------------------------
(* The actions.                                                            *)

AtAction(t, type) ==
  /\ IsAt(t, "action") /\ th[t].action <= Len(th[t].rule.actions)
  /\ ActionOf(t).type = type

\* Weakened form of ShowPage: what other people's overrides say is not asked.
ShowPageAnyway(t) ==
  /\ AtAction(t, "show_page")
  /\ th' = [th EXCEPT ![t].pc = "gate", ![t].seen = OverrideNow]
  /\ UNCHANGED <<clocks, memory, history, running, timer, reverts, outside, replaced>>

\* show_page looks whether a person's override is active, then waits for the gate.
ShowPage(t) ==
  /\ AtAction(t, "show_page")
  /\ IF ManualOverride THEN ActionEnds(t, "manual_override")
     ELSE th' = [th EXCEPT ![t].pc = "gate", ![t].seen = OverrideNow]
  /\ UNCHANGED <<clocks, memory, history, running, timer, reverts, outside, replaced>>

\* resume_playlist ends the override of a rule, not one of a person.
ResumePlaylist(t) ==
  /\ AtAction(t, "resume_playlist")
  /\ IF ~OverrideNow.active THEN ActionEnds(t, "ok")
     ELSE IF ManualOverride THEN ActionEnds(t, "manual_override")
     ELSE th' = [th EXCEPT ![t].pc = "clear", ![t].seen = OverrideNow]
  /\ UNCHANGED <<clocks, memory, history, running, timer, reverts, outside, replaced>>

\* script, click, scroll, sound, overlay, reload, brightness: done or failed.
Evaluate(t) ==
  /\ AtAction(t, "evaluate")
  /\ \/ ActionEnds(t, "ok") /\ UNCHANGED events
     \/ ActionEnds(t, "failed") /\ Event
  /\ UNCHANGED <<now, rules, checked, savedAt, memory, history, running, timer, reverts,
                 outside, replaced>>

\* SetOverride: SetActive in the gate, then the override.  The gate is refused
\* when the action's 30 seconds are over.
SetActive(t) ==
  /\ IsAt(t, "gate")
  /\ \/ gate = "free" /\ gate' = t /\ GoTo(t, "showing") /\ UNCHANGED events
     \/ gate # "free" /\ Event /\ CallEnds(t, "failed") /\ UNCHANGED gate
  /\ UNCHANGED <<now, rules, checked, savedAt, memory, history, running, timer, reverts,
                 override, panel, input, replaced>>

PageShown(t) ==
  /\ IsAt(t, "showing")
  /\ gate' = "free"
  /\ \/ GoTo(t, "record") /\ UNCHANGED events
     \/ Event /\ CallEnds(t, "failed")
  /\ UNCHANGED <<now, rules, checked, savedAt, memory, history, running, timer, reverts,
                 override, panel, input, replaced>>

Source(t)   == IF KindOf[t] = "manual" THEN "admin" ELSE "workflow"
Lasts(t)    == IF KindOf[t] = "manual" THEN 2 ELSE ActionOf(t).duration

SetOverride(t) ==
  /\ IsAt(t, "record")
  /\ override' = [active |-> TRUE, source |-> Source(t), until |-> now + Lasts(t),
                  set |-> override.set + 1]
  /\ CallEnds(t, "ok")
  /\ UNCHANGED <<clocks, memory, history, running, timer, reverts, gate, panel, input,
                 replaced>>

\* ClearOverride: whatever is there now.
ClearOverride(t) ==
  /\ IsAt(t, "clear")
  /\ override' = [NoOverride EXCEPT !.set = override.set]
  /\ CallEnds(t, "ok")
  /\ UNCHANGED <<clocks, memory, history, running, timer, reverts, gate, panel, input,
                 replaced>>

\* display: the panel first, then the timer of its revert.
Display(t) ==
  /\ AtAction(t, "display")
  /\ \/ panel' = ActionOf(t).power /\ GoTo(t, "revert") /\ UNCHANGED events
     \/ ActionEnds(t, "failed") /\ Event /\ UNCHANGED panel
  /\ UNCHANGED <<now, rules, checked, savedAt, memory, history, running, timer, reverts,
                 override, gate, input, replaced>>

Opposite(power) == IF power = "OFF" THEN "ON" ELSE "OFF"

\* Weakened form of ScheduleRevert: without a duration the old timer stays.
ScheduleRevertOnly(t) ==
  LET act == ActionOf(t) IN
  /\ IsAt(t, "revert")
  /\ timer' = IF act.duration = 0 THEN timer
              ELSE [armed |-> TRUE, due |-> now + act.duration, power |-> Opposite(act.power)]
  /\ replaced' = IF act.duration = 0 THEN Never ELSE now + act.duration
  /\ ActionEnds(t, "ok")
  /\ UNCHANGED <<clocks, memory, history, running, reverts, outside>>

\* scheduleDisplayRevert: stopping the timer does not stop a revert that has begun.
ScheduleRevert(t) ==
  LET act == ActionOf(t) IN
  /\ IsAt(t, "revert")
  /\ timer' = IF act.duration = 0 THEN NoTimer
              ELSE [armed |-> TRUE, due |-> now + act.duration, power |-> Opposite(act.power)]
  /\ replaced' = IF act.duration = 0 THEN Never ELSE now + act.duration
  /\ ActionEnds(t, "ok")
  /\ UNCHANGED <<clocks, memory, history, running, reverts, outside>>

TimerFires ==
  /\ timer.armed /\ now >= timer.due
  /\ timer' = NoTimer /\ reverts' = reverts \cup {timer.power}
  /\ UNCHANGED <<clocks, memory, history, running, outside, th, replaced>>

\* The callback sets the display, which may fail.
Revert ==
  /\ \E power \in reverts :
       /\ reverts' = reverts \ {power}
       /\ \/ panel' = power /\ UNCHANGED events
          \/ Event /\ UNCHANGED panel
  /\ UNCHANGED <<now, rules, checked, savedAt, memory, history, running, timer, override, gate,
                 input, th, replaced>>

-----------------------------------------------------------------------------
(* People, the configuration and time.                                     *)

\* The Admin page sets or clears an override.
ManualCall(t) ==
  /\ KindOf[t] = "manual" /\ IsAt(t, "idle") /\ Event
  /\ \E pc \in {"gate", "clear"} : GoTo(t, pc)
  /\ UNCHANGED <<now, rules, checked, savedAt, memory, history, running, timer, reverts,
                 outside, replaced>>

RulesSaved ==
  /\ Event
  /\ rules' \in RuleSets \ {rules} /\ savedAt' = now
  /\ UNCHANGED <<now, checked, memory, history, running, timer, reverts, outside, th,
                 replaced>>

\* Slow calls take time; the ticker and the timer are on time.
Slow == {"idle", "lock", "gate", "showing"}

AtSlowAction(t) == AtAction(t, "evaluate") \/ AtAction(t, "display")

Tick ==
  /\ now < MaxTime /\ now' = now + 1
  /\ \A t \in Threads : IsAt(t, "lock") => running # "free"
  /\ \A t \in Threads : th[t].pc \in Slow \/ AtSlowAction(t)
  /\ \A t \in Threads : KindOf[t] = "ticker" /\ IsAt(t, "idle") => checked = now
  /\ timer.armed => now < timer.due
  /\ UNCHANGED <<rules, savedAt, memory, history, running, timer, reverts, outside, th,
                 checked, replaced, events>>

Triggers(t) ==
  \/ TimeRound(t) \/ ArmTime(t) \/ IdleRound(t) \/ ArmIdle(t) \/ TickerRests(t)
  \/ Touched(t) \/ HandleActivity(t) \/ HandleMQTT(t) \/ RuleWebhook(t) \/ TestRule(t)
  \/ NextRule(t)

Runs(t) ==
  \/ Blocked(t) \/ Enter(t) \/ Lock(t) \/ RuleDone(t)
  \/ ShowPage(t) \/ ResumePlaylist(t) \/ Evaluate(t) \/ Display(t) \/ ScheduleRevert(t)
  \/ SetActive(t) \/ PageShown(t) \/ SetOverride(t) \/ ClearOverride(t)

Next ==
  \/ \E t \in Threads : Triggers(t) \/ Runs(t) \/ ManualCall(t)
  \/ TimerFires \/ Revert \/ RulesSaved \/ Tick

Spec == Init /\ [][Next]_vars

-----------------------------------------------------------------------------
(* Properties.                                                             *)

Calls   == {"gate", "showing", "record", "clear"}
Inside  == Calls \cup {"action", "revert"}
Acting  == Inside \cup {"fire", "enter", "lock"}
Places  == Acting \cup {"idle", "time", "idling", "touched", "next"}
Results == {"ok", "failed", "manual_override"}
Thread  ==
  [pc : Places, queue : SUBSET [at : Nat, rule : Rules], rule : Rules \cup {<<>>},
   fired : Int, action : Nat,
   seen : [active : BOOLEAN, source : {"", "admin", "workflow"}, until : Int, set : Nat],
   result : Results]

DataOK ==
  /\ now \in 0..MaxTime /\ rules \in RuleSets /\ events \in 0..MaxEvents
  /\ checked \in Int /\ savedAt \in Int /\ input \in Nat /\ replaced \in Int
  /\ lastFired \in [RuleIds -> {Never} \cup 0..MaxTime] /\ timeFired \in [RuleIds -> Int]
  /\ idleFired \subseteq RuleIds
  /\ history \in Seq([rule : RuleIds, result : Results \cup {"skipped"}])
  /\ Len(history) <= HistoryCap
  /\ running \in Threads \cup {"free"} /\ gate \in Threads \cup {"free"}
  /\ timer \in [armed : BOOLEAN, due : Int, power : {"", "ON", "OFF"}]
  /\ timer.armed => timer.power # ""
  /\ reverts \subseteq {"ON", "OFF"} /\ panel \in {"ON", "OFF"}
  /\ override \in [active : BOOLEAN, source : {"", "admin", "workflow"}, until : Int, set : Nat]

TypeOK ==
  /\ DataOK
  /\ th \in [Threads -> Thread]
  /\ \A t \in Threads : th[t].pc = "action" => running = t

\* Priority is fixed: a rule replaces or ends a person's override only when that
\* override came after the rule had looked; one that it could see, it leaves alone.
SeenOverrideStays ==
  [][\A t \in Threads :
       /\ override' # override /\ OverrideNow.source = "admin"
       /\ th'[t] # th[t] /\ KindOf[t] # "manual"
       => th[t].seen.set # override.set \/ th[t].seen.source # "admin"]_vars

\* Rules fired by one goroutine keep their cooldown, however long their actions
\* and the wait for other rules' take.
CooldownHeld ==
  [][\A i \in DOMAIN rules :
       LET rule == rules[i] IN
       rule.trigger \in {"mqtt", "time", "idle"} /\ lastFired[rule.id] # Never
       /\ lastFired'[rule.id] # lastFired[rule.id]
       => lastFired'[rule.id] - lastFired[rule.id] >= rule.cooldown]_vars

\* A rule for a time of day is fired in its minute, every day, unless the actions
\* of rules kept the ticker from looking at the end of it or it was just saved.
TimeRulesFire ==
  [][now' # now /\ Minute' # Minute =>
       \A i \in DOMAIN rules :
         LET rule == rules[i] IN
         /\ rule.trigger = "time" /\ ~rule.disabled
         /\ rule.at = ClockOf(Minute) /\ rule.days = {}
         /\ checked = now /\ savedAt # now /\ \A t \in Threads : KindOf[t] = "ticker" => IsAt(t, "idle")
         => timeFired[rule.id] = Minute]_vars

\* Only the revert of the latest display action is pending: a display action
\* without a duration leaves none.
OneRevert == TypeOK /\ (timer.armed => timer.due = replaced)

-----------------------------------------------------------------------------
(* The inductive invariant.                                                *)

\* Where the goroutines of each kind can be.
PlacesOf(kind) ==
  CASE kind = "ticker" -> {"idle", "time", "idling"} \cup Acting
    [] kind = "touch"  -> {"idle", "touched", "next"} \cup Acting
    [] kind = "manual" -> {"idle"} \cup Calls
    [] OTHER           -> {"idle", "next"} \cup Acting

\* A thread in a rule's actions holds e.running, and is at one of the rule's actions.
InRule(t) ==
  KindOf[t] # "manual" /\ th[t].pc \in Inside =>
    /\ running = t
    /\ th[t].action \in 1..(Len(th[t].rule.actions) + 1)
    /\ th[t].pc # "action" => th[t].action <= Len(th[t].rule.actions)
    /\ th[t].pc = "revert" => ActionOf(t).type = "display"

\* A trigger's rules are the ones for it; the ticker's are of the round it is in.
Fits(t, rule) ==
  IF KindOf[t] = "ticker" THEN rule.trigger \in {"time", "idle"}
  ELSE rule.trigger = KindOf[t]

InTimeRound(t) ==
  /\ KindOf[t] = "ticker"
  /\ th[t].pc = "time" \/ (th[t].pc \in Acting /\ th[t].rule.trigger # "idle")
InIdleRound(t) ==
  /\ KindOf[t] = "ticker"
  /\ th[t].pc = "idling" \/ (th[t].pc \in Acting /\ th[t].rule.trigger = "idle")

QueueFits(t) ==
  /\ KindOf[t] # "manual" /\ th[t].pc \in Acting => th[t].rule \in Rules
  /\ KindOf[t] = "ticker" /\ th[t].pc \in Acting => Fits(t, th[t].rule)
  /\ th[t].pc \in {"fire", "enter"} => Fits(t, th[t].rule)
  /\ \A e \in th[t].queue : Fits(t, e.rule)
  /\ InTimeRound(t) => \A e \in th[t].queue : e.rule.trigger = "time"
  /\ InIdleRound(t) => \A e \in th[t].queue : e.rule.trigger = "idle"
  /\ th[t].pc = "idle" => th[t].queue = {}

\* A rule replaces and ends only what it looked at, and that was no person's.
SeenNoPersons(t) ==
  KindOf[t] # "manual" /\ th[t].pc \in Calls => th[t].seen.source # "admin"

ThreadOK(t) ==
  th[t].pc \in PlacesOf(KindOf[t]) /\ InRule(t) /\ QueueFits(t) /\ SeenNoPersons(t)

\* The round of this instant is for this minute, and every rule that is due has been
\* fired for it or is still in line.
Due(i) ==
  /\ rules[i].trigger = "time" /\ ~rules[i].disabled
  /\ rules[i].at = ClockOf(Minute)
  /\ rules[i].days = {} \/ DayOf(Minute) \in rules[i].days

RoundInv ==
  /\ checked <= now
  /\ checked = now => \A t \in Threads : InTimeRound(t) => th[t].fired = Minute
  /\ checked = now /\ savedAt # now =>
       \A i \in DOMAIN rules : Due(i) =>
         \/ timeFired[rules[i].id] = Minute
         \/ \E t \in Threads :
              KindOf[t] = "ticker" /\ [at |-> i, rule |-> rules[i]] \in th[t].queue

IInv == OneRevert /\ (\A t \in Threads : ThreadOK(t)) /\ RoundInv

\* What CooldownHeld needs of the rules: that a rule keeps its trigger and its cooldown
\* when it is saved again; and of the MQTT integration: that its connection is not
\* replaced while a message is handled, so that one goroutine handles the messages.
Steady ==
  /\ \A r, q \in Rules : r.id = q.id => r.trigger = q.trigger /\ r.cooldown = q.cooldown
  /\ \A t, u \in Threads : KindOf[t] = "mqtt" /\ KindOf[u] = "mqtt" => t = u

\* Until the rule of one goroutine begins its cooldown, nobody else begins one for it.
CooledInv ==
  Steady => \A t \in Threads :
    th[t].pc = "enter" /\ KindOf[t] \in {"ticker", "mqtt"} => ~Cooling(th[t].rule)

=============================================================================
