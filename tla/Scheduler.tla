------------------------------ MODULE Scheduler ------------------------------
(***************************************************************************)
(* Which page is on screen and whether the display is on: the scheduler    *)
(* goroutine of internal/supervisor/browser.go (RunScheduler) with the     *)
(* programme it computes, overrides set and cleared by others              *)
(* (runtime.go), signals (internal/signals), display power and the blank   *)
(* page of an idle display, maintenance reloads, and restarts of the       *)
(* service, which keep the override in runtime-state.json.                 *)
(*                                                                         *)
(* The scheduler and every caller are threads with a program counter; a    *)
(* step is one section under b.mu or one slow call.  rotationTarget holds  *)
(* no lock: its update of the index and its update of the deadline are     *)
(* steps of their own, between which another thread may run it too.  Page  *)
(* switches hold the operation gate.                                       *)
(***************************************************************************)
EXTENDS Program

CONSTANTS
  Configs,     \* configurations that may be saved
  Callers,     \* threads that use the public operations
  Wishes,      \* what they ask for: [kind, page, minutes, source, power]
  Topics,      \* topics that conditional inserts listen on
  MaxRound,    \* what the calls of one round take at most: each has a time limit
  MaxTime,     \* bound on the clock
  MaxEvents    \* bound on calls, signals, saves, faults and losses of power

ASSUME SchedulerAssumption ==
  /\ "scheduler" \notin Callers
  /\ {MaxRound, MaxTime, MaxEvents} \subseteq Nat

\* Saved configurations are valid.  The scheduler looks at the inserts at least every
\* second day, which is how far it looks ahead.
ASSUME ConfigsAssumption ==
  \A kiosk \in Configs :
    /\ ValidProgram(kiosk) /\ MaxRound + kiosk.tick <= 2 * DayLen
    /\ {"presence", "enabled", "mode", "powerOff", "growth"} \subseteq DOMAIN kiosk
    /\ kiosk.reloadAt \in Nat \cup {Never}

ASSUME WishesAssumption ==
  \A wish \in Wishes :
    /\ wish.kind \in {"override", "clear", "page", "display"}
    /\ wish.kind = "override" => wish.minutes \in Nat
    /\ wish.kind = "display" => wish.power \in {"ON", "OFF"}

VARIABLES
  up,          \* the service runs
  now,         \* the clock
  cfg,         \* the saved configuration
  changed,     \* the slot of the configuration's notification channel
  signalled,   \* the slot of the signal store's channel
  holds,       \* which conditions hold by the last value of their topic
  presence,    \* when somebody was detected last
  browser,     \* [running, content, active, held, started]
  override,    \* b.override
  saved,       \* the override in runtime-state.json
  persistDue,  \* persistRuntimeState goroutines that have not run yet
  rotation,    \* [index, until, cycles]
  insert,      \* [showing, back]: insertShowing and insertReturn
  display,     \* [noted, panel, blanked]: displayPower, the panel, idleBlanked
  lastMaintenance,
  gate,        \* the thread in an operation, or "free"
  wake,        \* when the scheduler's timer fires
  th,          \* the threads
  reloads,     \* history: reloads at the configured time, by the moment they were due
  undisturbed, \* history: nobody else has changed anything since the round began
  events       \* events so far

vars == <<up, now, cfg, changed, signalled, holds, presence, browser, override,
          saved, persistDue, rotation, insert, display, lastMaintenance, gate,
          wake, th, reloads, undisturbed, events>>
worldVars   == <<cfg, changed, signalled, holds, presence>>
programVars == <<rotation, insert>>
stateVars   == <<override, saved, persistDue>>
quietVars   == <<up, now, reloads, events>>

Threads    == Callers \cup {"scheduler"}
NoOverride == [active |-> FALSE, page |-> NoPage, source |-> "", until |-> Never]
Undecided  == [target |-> NoPage, reason |-> "", presence |-> "", next |-> Never]
Idle       == [pc |-> "idle", after |-> "idle", wish |-> <<>>, round |-> <<>>,
               snap |-> <<>>, status |-> Undecided]
Restarting == [Idle EXCEPT !.pc = "sleep"]

IsAt(t, pc)     == up /\ th[t].pc = pc
GoTo(t, pc)     == th' = [th EXCEPT ![t].pc = pc]
Status(t)       == th[t].status
Becomes(t, pc, status) == th' = [th EXCEPT ![t].pc = pc, ![t].status = status]
Disturbs(t)     == undisturbed' = (undisturbed /\ t = "scheduler")
Event           == events < MaxEvents /\ events' = events + 1

Init ==
  /\ up = TRUE /\ now = 0
  /\ cfg \in Configs /\ changed = FALSE /\ signalled = FALSE
  /\ holds = [t \in Topics |-> FALSE] /\ presence = Never
  /\ browser = [running |-> TRUE, content |-> "page", active |-> 1,
                held |-> FALSE, started |-> 0]
  /\ override = NoOverride /\ saved = NoOverride /\ persistDue = FALSE
  /\ rotation = [index |-> 1, until |-> Never, cycles |-> 0]
  /\ insert = [showing |-> FALSE, back |-> 1]
  /\ display = [noted |-> "", panel |-> "ON", blanked |-> FALSE]
  /\ lastMaintenance = Never
  /\ gate = "free" /\ wake = 0
  /\ th = [t \in Threads |-> IF t = "scheduler" THEN Restarting ELSE Idle]
  /\ reloads = {} /\ undisturbed = FALSE /\ events = 0

-----------------------------------------------------------------------------
(* schedulerTarget: what shall be shown, computed by the scheduler and by  *)
(* ClearOverride.                                                          *)

\* InsertsWhere: conditional inserts whose condition does not hold are out.
InsertsWhere(kiosk) ==
  [kiosk EXCEPT !.inserts =
     [i \in DOMAIN @ |-> IF @[i].topic \in Topics /\ ~holds[@[i].topic]
                         THEN [@[i] EXCEPT !.disabled = TRUE] ELSE @[i]]]

PresentUntil(kiosk) == presence + kiosk.timeout

AbsentAt(kiosk, t) == presence = Never \/ t >= PresentUntil(kiosk)

ApplyPresence(kiosk, status) ==
  IF kiosk.presence = "off" THEN status
  ELSE IF AbsentAt(kiosk, now)
  THEN [status EXCEPT !.presence = "absent"]
  ELSE [status EXCEPT !.presence = "present",
                      !.next = Sooner(@, PresentUntil(kiosk))]

\* scheduleWantsDisplayOff
WantsOff(kiosk, status) ==
  /\ status.reason # "override"
  /\ status.presence # "present"
  /\ \/ status.presence = "absent" /\ kiosk.presence = "require"
     \/ /\ kiosk.enabled /\ kiosk.timeRules # <<>>
        /\ ~(status.reason \in {"time", "insert"} /\ status.target # NoPage)
        /\ \/ kiosk.mode = "time"
           \/ kiosk.mode = "hybrid" /\ (kiosk.powerOff \/ kiosk.rotation = <<>>)

\* The override ends when its time is over; otherwise it is the answer.
TargetOverride(t) ==
  LET over == override.active /\ now >= override.until
      rest == IF over THEN NoOverride ELSE override
      status == [target |-> rest.page, reason |-> "override", presence |-> "",
                 next |-> rest.until]
  IN /\ IsAt(t, "override")
     /\ override' = rest
     /\ persistDue' = (persistDue \/ over)
     /\ IF rest.active
        THEN Becomes(t, "decided", ApplyPresence(cfg, status))
        ELSE th' = [th EXCEPT ![t].pc = "base", ![t].snap = InsertsWhere(cfg)]
     /\ UNCHANGED <<worldVars, browser, saved, programVars, display, lastMaintenance,
                    gate, wake, undisturbed, quietVars>>

NextIndex(i, kiosk) == (i % Len(kiosk.rotation)) + 1

RunsOut == rotation.until = Never \/ now >= rotation.until

\* baseTarget: time rules first, then the rotation, whose index moves on here.
TargetBase(t) ==
  LET kiosk == th[t].snap
      rules == ActiveRules(kiosk, now)
      byTime == kiosk.mode \in {"time", "hybrid"}
      none(why) == Becomes(t, "inserts", [Undecided EXCEPT !.reason = why])
                     /\ UNCHANGED rotation
  IN /\ IsAt(t, "base")
     /\ IF ~kiosk.enabled \/ kiosk.pages = 0 THEN none("disabled")
        ELSE IF byTime /\ rules # {}
        THEN LET rule == kiosk.timeRules[Min(rules)] IN
             /\ Becomes(t, "inserts",
                  [Undecided EXCEPT !.target = ClampPage(rule.page, kiosk.pages),
                                    !.reason = "time", !.next = RuleEnds(rule, now)])
             /\ UNCHANGED rotation
        ELSE IF kiosk.mode = "time"
                  \/ (kiosk.mode = "hybrid" /\ (kiosk.powerOff \/ kiosk.rotation = <<>>))
        THEN none("no active time rule")
        ELSE IF kiosk.rotation = <<>> THEN none("no rotation items")
        ELSE /\ rotation' =
                  IF rotation.until = Never THEN [rotation EXCEPT !.index = 1]
                  ELSE IF ~RunsOut THEN rotation
                  ELSE [rotation EXCEPT !.index = NextIndex(@, kiosk),
                                        !.cycles = @ + (IF NextIndex(rotation.index, kiosk) = 1
                                                        THEN 1 ELSE 0)]
             /\ GoTo(t, "extend")
     /\ UNCHANGED <<worldVars, browser, stateVars, insert, display, lastMaintenance,
                    gate, wake, undisturbed, quietVars>>

\* What is lost with the process; the timer of the next one fires at once.
ServiceEnds ==
  /\ up' = FALSE
  /\ th' = [t \in Threads |-> IF t = "scheduler" THEN Restarting ELSE Idle]
  /\ gate' = "free" /\ persistDue' = FALSE /\ undisturbed' = FALSE
  /\ UNCHANGED <<now, worldVars, browser, override, saved, programVars, display,
                 lastMaintenance, wake, reloads>>

\* An index beyond the rotation ends the process.
PanicsAtRotation(t) ==
  /\ IsAt(t, "extend") /\ rotation.index > Len(th[t].snap.rotation)
  /\ ServiceEnds
  /\ UNCHANGED events

\* The second half of rotationTarget: the deadline of a new item, and the page.
TargetRotation(t) ==
  LET kiosk == th[t].snap
      item  == kiosk.rotation[rotation.index]
      until == IF RunsOut THEN now + item.duration ELSE rotation.until
  IN /\ IsAt(t, "extend") /\ rotation.index \in DOMAIN kiosk.rotation
     /\ rotation' = [rotation EXCEPT !.until = until]
     /\ Becomes(t, "inserts",
          [Undecided EXCEPT !.target = ClampPage(item.page, kiosk.pages),
                            !.reason = "rotation", !.next = until])
     /\ UNCHANGED <<worldVars, browser, stateVars, insert, display, lastMaintenance,
                    gate, wake, undisturbed, quietVars>>

\* applyPresence and applyInserts.
TargetInserts(t) ==
  LET kiosk  == th[t].snap
      base   == ApplyPresence(kiosk, Status(t))
      timed  == IF kiosk.inserts = <<>> THEN base
                ELSE [base EXCEPT !.next = Sooner(@, NextInsertChange(kiosk, now))]
      off    == WantsOff(kiosk, base)
      slot   == ActiveInsert(kiosk, now)
      shows  == ~off /\ slot # NoSlot
      back   == insert.showing /\ base.target = NoPage /\ ~off /\ kiosk.inserts # <<>>
      status == IF shows
                THEN [timed EXCEPT !.reason = "insert",
                                   !.target = kiosk.inserts[slot.index].page]
                ELSE IF back
                THEN [timed EXCEPT !.target = ClampPage(insert.back, kiosk.pages)]
                ELSE timed
  IN /\ IsAt(t, "inserts")
     /\ insert' = IF shows /\ ~insert.showing
                  THEN [showing |-> TRUE, back |-> browser.active]
                  ELSE [insert EXCEPT !.showing = shows]
     /\ Becomes(t, "decided", status)
     /\ UNCHANGED <<worldVars, browser, stateVars, rotation, display, lastMaintenance,
                    gate, wake, undisturbed, quietVars>>

-----------------------------------------------------------------------------
(* The operation "page": SetActive, and showPage as the scheduler calls it. *)

\* When the switch has failed: a caller gives up, the scheduler goes on.
AfterFailure(t) == IF t = "scheduler" THEN th[t].after ELSE "idle"

NextWake(kiosk, status) ==
  Sooner(now + kiosk.tick,
         IF status.next = Never THEN Never ELSE Max({now, status.next}))

\* Goes on at pc; a round that ends sets the timer.
Proceed(t, pc) ==
  /\ GoTo(t, pc)
  /\ wake' = IF pc = "sleep" THEN NextWake(cfg, Status(t)) ELSE wake

\* Weakened form of SwitchBegins: the page that is active is not noted.
SwitchUnnoted(t) ==
  /\ IsAt(t, "gate") /\ gate = "free"
  /\ IF Status(t).target \in 1..cfg.pages
     THEN gate' = t /\ GoTo(t, "navigating") /\ UNCHANGED wake
     ELSE Proceed(t, AfterFailure(t)) /\ UNCHANGED gate
  /\ Disturbs(t)
  /\ UNCHANGED <<browser, worldVars, stateVars, programVars, display,
                 lastMaintenance, quietVars>>

SwitchBegins(t) ==
  /\ IsAt(t, "gate") /\ gate = "free"
  /\ IF Status(t).target \in 1..cfg.pages
     THEN /\ gate' = t
          /\ browser' = [browser EXCEPT !.active = Status(t).target]
          /\ GoTo(t, "navigating") /\ UNCHANGED wake
     ELSE Proceed(t, AfterFailure(t)) /\ UNCHANGED <<gate, browser>>
  /\ Disturbs(t)
  /\ UNCHANGED <<worldVars, stateVars, programVars, display, lastMaintenance,
                 quietVars>>

\* The page is shown, by navigating, by a restart or by the first start.
SwitchSucceeds(t) ==
  /\ IsAt(t, "navigating")
  /\ browser' = [browser EXCEPT !.content = "page", !.running = TRUE,
                                !.started = IF browser.running THEN @ ELSE now]
  /\ gate' = "free" /\ saved' = override
  /\ Proceed(t, th[t].after)
  /\ Disturbs(t)
  /\ UNCHANGED <<worldVars, override, persistDue, programVars, display,
                 lastMaintenance, quietVars>>

\* Navigation and restart have failed: the browser is down.
SwitchFails(t) ==
  /\ IsAt(t, "navigating") /\ Event
  /\ browser' = [browser EXCEPT !.running = FALSE]
  /\ gate' = "free" /\ saved' = override
  /\ Proceed(t, AfterFailure(t))
  /\ undisturbed' = FALSE
  /\ UNCHANGED <<worldVars, override, persistDue, programVars, display,
                 lastMaintenance, up, now, reloads>>

\* The context ends before the gate is free, or the guard refuses.
SwitchRefused(t) ==
  /\ IsAt(t, "gate") /\ Event
  /\ Proceed(t, AfterFailure(t))
  /\ undisturbed' = FALSE
  /\ UNCHANGED <<worldVars, browser, stateVars, programVars, display,
                 lastMaintenance, gate, up, now, reloads>>

-----------------------------------------------------------------------------
(* One round of RunScheduler.                                              *)

\* The timer fires; a notification that is there as well may have to wait.  The round has
\* a snapshot of its own; what is shown and the panel go by the configuration of later.
Wake ==
  /\ IsAt("scheduler", "sleep")
  /\ now >= wake
  /\ IF browser.held
     THEN wake' = now + cfg.tick /\ UNCHANGED <<th, undisturbed>>
     ELSE /\ th' = [th EXCEPT !["scheduler"] =
                      [Restarting EXCEPT !.pc = "override", !.after = "maintain", !.round = cfg]]
          /\ undisturbed' = TRUE /\ UNCHANGED wake
  /\ UNCHANGED <<worldVars, browser, stateVars, programVars, display, lastMaintenance,
                 gate, quietVars>>

SignalWakes ==
  /\ IsAt("scheduler", "sleep") /\ signalled
  /\ signalled' = FALSE /\ wake' = now
  /\ UNCHANGED <<cfg, changed, holds, presence, browser, stateVars, programVars,
                 display, lastMaintenance, gate, th, undisturbed, quietVars>>

\* A change of the configuration starts the rotation anew.
ChangeWakes ==
  /\ IsAt("scheduler", "sleep") /\ changed
  /\ changed' = FALSE /\ wake' = now
  /\ rotation' = [rotation EXCEPT !.index = 1, !.until = Never]
  /\ UNCHANGED <<cfg, signalled, holds, presence, browser, stateVars, insert,
                 display, lastMaintenance, gate, th, undisturbed, quietVars>>

SchedulerDecided ==
  /\ IsAt("scheduler", "decided")
  /\ GoTo("scheduler", IF Status("scheduler").target \in {NoPage, browser.active}
                       THEN "maintain" ELSE "gate")
  /\ UNCHANGED <<worldVars, browser, stateVars, programVars, display, lastMaintenance,
                 gate, wake, undisturbed, quietVars>>

\* Weakened form of LastReload: the start of the browser does not count.
LastMaintenanceOnly == lastMaintenance

LastReload == Max({lastMaintenance, browser.started})

\* The round's own configuration and moment count: its snapshot, and when the timer fired.
Maintenance == th["scheduler"].round

ReloadTime == Day(wake) * DayLen + Maintenance.reloadAt

ReloadAtDue ==
  Maintenance.reloadAt # Never /\ wake >= ReloadTime /\ LastReload < ReloadTime

MayReload == browser.running /\ ~display.blanked

MaintenanceReloadDue ==
  /\ MayReload
  /\ \/ Maintenance.reloadEvery > 0 /\ wake - LastReload >= Maintenance.reloadEvery
     \/ Maintenance.reloadCycles > 0 /\ rotation.cycles >= Maintenance.reloadCycles
     \/ ReloadAtDue

\* memoryGrowthDueLocked: whether the memory grew is left open, a bounded event.
MemoryGrew == MayReload /\ ~MaintenanceReloadDue /\ Maintenance.growth /\ Event

\* The reload itself changes nothing here.
Maintain ==
  /\ IsAt("scheduler", "maintain")
  /\ GoTo("scheduler", "power")
  /\ \/ /\ MemoryGrew \/ (MaintenanceReloadDue /\ UNCHANGED events)
        /\ lastMaintenance' = wake
        /\ rotation' = [rotation EXCEPT !.cycles = 0]
        /\ reloads' = IF ReloadAtDue
                      THEN reloads \cup {<<ReloadTime, Cardinality(reloads)>>}
                      ELSE reloads
     \/ /\ ~MaintenanceReloadDue
        /\ UNCHANGED <<lastMaintenance, rotation, reloads, events>>
  /\ UNCHANGED <<worldVars, browser, stateVars, insert, display, gate, wake,
                 undisturbed, up, now>>

Wanted(kiosk) == IF WantsOff(kiosk, Status("scheduler")) THEN "OFF" ELSE "ON"

\* applyScheduleDisplayPower, up to the call of the hardware.
PowerNeeded ==
  /\ IsAt("scheduler", "power")
  /\ IF display.noted = Wanted(cfg) THEN GoTo("scheduler", "blank")
     ELSE th' = [th EXCEPT !["scheduler"].pc = "setting",
                           !["scheduler"].wish = [power |-> Wanted(cfg)],
                           !["scheduler"].after = "blank"]
  /\ UNCHANGED <<worldVars, browser, stateVars, programVars, display, lastMaintenance,
                 gate, wake, undisturbed, quietVars>>

\* SetDisplay, for the scheduler and for callers.
PanelSet(t) ==
  /\ IsAt(t, "setting")
  /\ \/ /\ display' = [display EXCEPT !.panel = th[t].wish.power]
        /\ GoTo(t, "noting") /\ Disturbs(t) /\ UNCHANGED events
     \/ /\ Event /\ GoTo(t, th[t].after) /\ undisturbed' = FALSE
        /\ UNCHANGED display
  /\ UNCHANGED <<worldVars, browser, stateVars, programVars, lastMaintenance,
                 gate, wake, up, now, reloads>>

\* What was set is noted: NoteDisplayPower, and the scheduler's own note.
PanelNoted(t) ==
  /\ IsAt(t, "noting")
  /\ display' = [display EXCEPT !.noted = th[t].wish.power]
  /\ GoTo(t, th[t].after)
  /\ Disturbs(t)
  /\ UNCHANGED <<worldVars, browser, stateVars, programVars, lastMaintenance,
                 gate, wake, quietVars>>

\* An idle display shows a blank page; a display in use gets its page back.
BlankOrRestore ==
  LET off == Wanted(th["scheduler"].round) = "OFF"
      page == Status("scheduler").target
  IN /\ IsAt("scheduler", "blank")
     /\ IF off /\ ~display.blanked
        THEN GoTo("scheduler", "blanking") /\ UNCHANGED <<display, wake>>
        ELSE IF ~off /\ display.blanked
        THEN /\ display' = [display EXCEPT !.blanked = FALSE]
             /\ th' = [th EXCEPT !["scheduler"].pc = "gate",
                                 !["scheduler"].after = "sleep",
                                 !["scheduler"].status.target =
                                    IF page = NoPage THEN browser.active ELSE page]
             /\ UNCHANGED wake
        ELSE Proceed("scheduler", "sleep") /\ UNCHANGED display
     /\ UNCHANGED <<worldVars, browser, stateVars, programVars, lastMaintenance,
                    gate, undisturbed, quietVars>>

\* blankIdleDisplay navigates without the gate.
Blanks ==
  /\ IsAt("scheduler", "blanking")
  /\ \/ /\ browser.running
        /\ browser' = [browser EXCEPT !.content = "blank"]
        /\ GoTo("scheduler", "blanked") /\ UNCHANGED <<wake, undisturbed, events>>
     \/ /\ ~browser.running
        /\ Proceed("scheduler", "sleep") /\ UNCHANGED <<browser, undisturbed, events>>
     \/ /\ browser.running /\ Event
        /\ Proceed("scheduler", "sleep") /\ undisturbed' = FALSE /\ UNCHANGED browser
  /\ UNCHANGED <<worldVars, stateVars, programVars, display, lastMaintenance, gate,
                 up, now, reloads>>

BlankNoted ==
  /\ IsAt("scheduler", "blanked")
  /\ display' = [display EXCEPT !.blanked = TRUE]
  /\ Proceed("scheduler", "sleep")
  /\ UNCHANGED <<worldVars, browser, stateVars, programVars, lastMaintenance, gate,
                 undisturbed, quietVars>>

-----------------------------------------------------------------------------
(* Callers: the Admin page, Home Assistant and rules.                      *)

\* A call begins where its first section is.
CallBegins(c, wish) ==
  /\ IsAt(c, "idle") /\ Event
  /\ th' = [th EXCEPT ![c] =
       [Idle EXCEPT !.wish = wish, !.status.target = wish.page,
          !.pc = CASE wish.kind \in {"override", "page"} -> "gate"
                   [] wish.kind = "clear"   -> "clear"
                   [] wish.kind = "display" -> "setting",
          !.after = IF wish.kind = "override" THEN "record" ELSE "idle"]]
  /\ UNCHANGED <<worldVars, browser, stateVars, programVars, display, lastMaintenance,
                 gate, wake, undisturbed, up, now, reloads>>

\* SetOverride records the override once its page is shown.
RecordOverride(c) ==
  /\ IsAt(c, "record")
  /\ override' = [active |-> TRUE, page |-> th[c].wish.page, source |-> th[c].wish.source,
                  until |-> now + th[c].wish.minutes]
  /\ GoTo(c, "persist") /\ undisturbed' = FALSE
  /\ UNCHANGED <<worldVars, browser, saved, persistDue, programVars, display,
                 lastMaintenance, gate, wake, quietVars>>

\* Weakened form of ForgetOverride: the file is left as it is.
ForgetUnsaved(c) ==
  /\ IsAt(c, "clear")
  /\ override' = NoOverride
  /\ rotation' = [rotation EXCEPT !.until = Never]
  /\ GoTo(c, "override") /\ undisturbed' = FALSE
  /\ UNCHANGED <<worldVars, browser, saved, persistDue, insert, display,
                 lastMaintenance, gate, wake, quietVars>>

ForgetOverride(c) ==
  /\ IsAt(c, "clear")
  /\ override' = NoOverride
  /\ rotation' = [rotation EXCEPT !.until = Never]
  /\ GoTo(c, "persist") /\ undisturbed' = FALSE
  /\ UNCHANGED <<worldVars, browser, saved, persistDue, insert, display,
                 lastMaintenance, gate, wake, quietVars>>

\* persistRuntimeState takes the state and writes it under one mutex.
Persist(c) ==
  /\ IsAt(c, "persist")
  /\ saved' = override
  /\ GoTo(c, IF th[c].wish.kind = "clear" THEN "override" ELSE "idle")
  /\ UNCHANGED <<worldVars, browser, override, persistDue, programVars, display,
                 lastMaintenance, gate, wake, undisturbed, quietVars>>

PersistLater ==
  /\ up /\ persistDue
  /\ persistDue' = FALSE /\ saved' = override
  /\ UNCHANGED <<worldVars, browser, override, programVars, display, lastMaintenance,
                 gate, wake, th, undisturbed, quietVars>>

CallerDecided(c) ==
  /\ IsAt(c, "decided")
  /\ GoTo(c, IF Status(c).target = NoPage THEN "idle" ELSE "gate")
  /\ UNCHANGED <<worldVars, browser, stateVars, programVars, display, lastMaintenance,
                 gate, wake, undisturbed, quietVars>>

-----------------------------------------------------------------------------
(* The world: signals, saved configurations, the browser's own life, time. *)

\* Store.Set, of a value that makes a condition hold or not.
ConditionChanges ==
  /\ \E t \in Topics : holds' = [holds EXCEPT ![t] = ~@]
  /\ signalled' = TRUE /\ UNCHANGED presence

\* Store.NotePresence wakes nobody when the last detection is not a minute old.
NotePresence ==
  /\ presence' = now
  /\ signalled' = (signalled \/ presence = Never \/ now > presence)
  /\ UNCHANGED holds

\* handleSignal; a touch and the Admin server note a presence too.
SignalArrives ==
  /\ up /\ Event /\ (ConditionChanges \/ NotePresence)
  /\ UNCHANGED <<cfg, changed, browser, stateVars, programVars, display,
                 lastMaintenance, gate, wake, th, undisturbed, up, now, reloads>>

\* Replace or Mutate; the MQTT service may take the notification instead.
ConfigSaved ==
  /\ up /\ Event
  /\ cfg' \in Configs \ {cfg} /\ changed' = TRUE /\ undisturbed' = FALSE
  /\ UNCHANGED <<signalled, holds, presence, browser, stateVars, programVars, display,
                 lastMaintenance, gate, wake, th, up, now, reloads>>

MQTTTakesChange ==
  /\ up /\ changed
  /\ changed' = FALSE
  /\ UNCHANGED <<cfg, signalled, holds, presence, browser, stateVars, programVars,
                 display, lastMaintenance, gate, wake, th, undisturbed, quietVars>>

\* Stopped by hand; started again by hand; or dead and recovered.
BrowserStops ==
  /\ up /\ gate = "free" /\ browser.running /\ Event
  /\ \E held \in BOOLEAN : browser' = [browser EXCEPT !.running = FALSE, !.held = held]
  /\ undisturbed' = FALSE
  /\ UNCHANGED <<worldVars, stateVars, programVars, display, lastMaintenance, gate,
                 wake, th, up, now, reloads>>

BrowserStarts ==
  /\ up /\ gate = "free" /\ ~browser.running
  /\ browser' = [browser EXCEPT !.running = TRUE, !.content = "page",
                                !.held = FALSE, !.started = now]
  /\ undisturbed' = FALSE
  /\ UNCHANGED <<worldVars, stateVars, programVars, display, lastMaintenance, gate,
                 wake, th, quietVars>>

PowerLost == up /\ Event /\ ServiceEnds

\* main: the saved override is loaded unless its time is over.
Boot ==
  /\ ~up
  /\ up' = TRUE /\ changed' = FALSE /\ signalled' = FALSE
  /\ holds' = [t \in Topics |-> FALSE] /\ presence' = Never
  /\ browser' = [running |-> TRUE, content |-> "page", active |-> 1,
                 held |-> FALSE, started |-> now]
  /\ override' = IF saved.active /\ now > saved.until THEN NoOverride ELSE saved
  /\ rotation' = [index |-> 1, until |-> Never, cycles |-> 0]
  /\ insert' = [showing |-> FALSE, back |-> 1]
  /\ display' = [display EXCEPT !.noted = "", !.blanked = FALSE]
  /\ lastMaintenance' = Never /\ wake' = now
  /\ UNCHANGED <<now, cfg, saved, persistDue, gate, th, reloads, undisturbed, events>>

\* Slow calls take time, computations do not; the scheduler's timer is on time, and
\* during a round it still tells when the round began.
Slow == {"idle", "gate", "navigating", "setting", "blanking"}

Tick ==
  /\ now < MaxTime /\ now' = now + 1
  /\ up => /\ \A t \in Threads : th[t].pc \in Slow \cup {"sleep"}
           /\ IF th["scheduler"].pc = "sleep" THEN now < wake /\ ~signalled /\ ~changed
              ELSE now < wake + MaxRound
  /\ UNCHANGED <<worldVars, browser, stateVars, programVars, display, lastMaintenance,
                 gate, wake, th, undisturbed, up, reloads, events>>

Target(t) ==
  \/ TargetOverride(t) \/ TargetBase(t) \/ TargetRotation(t) \/ TargetInserts(t)
  \/ PanicsAtRotation(t)

Switch(t) ==
  SwitchBegins(t) \/ SwitchSucceeds(t) \/ SwitchFails(t) \/ SwitchRefused(t)

Round ==
  \/ Wake \/ SignalWakes \/ ChangeWakes \/ SchedulerDecided \/ Maintain
  \/ PowerNeeded \/ BlankOrRestore \/ Blanks \/ BlankNoted

Calls(c) ==
  \/ \E wish \in Wishes : CallBegins(c, wish)
  \/ RecordOverride(c) \/ ForgetOverride(c) \/ Persist(c) \/ CallerDecided(c)

World ==
  \/ SignalArrives \/ ConfigSaved \/ MQTTTakesChange \/ BrowserStops
  \/ BrowserStarts \/ PowerLost \/ Boot \/ PersistLater \/ Tick

Next ==
  \/ \E t \in Threads : Target(t) \/ Switch(t) \/ PanelSet(t) \/ PanelNoted(t)
  \/ \E c \in Callers : Calls(c)
  \/ Round
  \/ World

Spec == Init /\ [][Next]_vars

-----------------------------------------------------------------------------
(* Properties.                                                             *)

Times     == {Never} \cup Nat
Pages     == {NoPage, 1} \cup UNION {0..k.pages : k \in Configs}
Places    == {1} \cup UNION {DOMAIN k.rotation : k \in Configs}
Sources   == {""} \cup {w.source : w \in {w \in Wishes : w.kind = "override"}}
Overrides == [active : BOOLEAN, page : Pages, source : Sources, until : Times]

TypeOK ==
  /\ up \in BOOLEAN /\ now \in 0..MaxTime /\ cfg \in Configs
  /\ changed \in BOOLEAN /\ signalled \in BOOLEAN
  /\ persistDue \in BOOLEAN /\ undisturbed \in BOOLEAN
  /\ holds \in [Topics -> BOOLEAN] /\ presence \in {Never} \cup 0..now
  /\ browser \in [running : BOOLEAN, content : {"page", "blank"}, active : Pages,
                  held : BOOLEAN, started : 0..MaxTime]
  /\ override \in Overrides /\ saved \in Overrides
  /\ rotation \in [index : Places, until : Times, cycles : Nat]
  /\ insert \in [showing : BOOLEAN, back : Pages]
  /\ display \in [noted : {"", "ON", "OFF"}, panel : {"ON", "OFF"}, blanked : BOOLEAN]
  /\ lastMaintenance \in Times /\ wake \in Nat
  /\ gate \in Threads \cup {"free"} /\ events \in 0..MaxEvents

Asleep == IsAt("scheduler", "sleep") /\ undisturbed /\ ~browser.held

\* What the scheduler has decided is what it would decide at t.
PresenceCurrent(t) ==
  Status("scheduler").presence = IF cfg.presence = "off" THEN ""
                                 ELSE IF AbsentAt(cfg, t) THEN "absent" ELSE "present"

OverrideCurrent(t) ==
  /\ Status("scheduler").reason = "override" <=> override.active
  /\ override.active => t < override.until

RotationCurrent(t) == Status("scheduler").reason = "rotation" => t < rotation.until

InsertCurrent(t) ==
  LET kiosk  == InsertsWhere(cfg)
      status == Status("scheduler")
      slot   == ActiveInsert(kiosk, t)
  IN /\ status.reason = "insert" =>
          slot # NoSlot /\ status.target = kiosk.inserts[slot.index].page
     /\ status.reason \notin {"insert", "override"} /\ ~WantsOff(kiosk, status)
          => slot = NoSlot

CurrentAt(t) ==
  PresenceCurrent(t) /\ OverrideCurrent(t) /\ RotationCurrent(t) /\ InsertCurrent(t)

\* What the decision says of the time rules was right at m: the page of the first one that
\* was active, or that none was.  An insert or an override says nothing of them.
RuleAt(m) == cfg.timeRules[Min(ActiveRules(cfg, m))]

NoRuleAt(m) == cfg.mode \in {"time", "hybrid"} => ActiveRules(cfg, m) = {}

RulesSeen(m) ==
  LET status == Status("scheduler") IN
  /\ status.reason = "time" =>
       /\ ActiveRules(cfg, m) # {}
       /\ status.target = ClampPage(RuleAt(m).page, cfg.pages)
  /\ status.reason \in {"no active time rule", "rotation"} => NoRuleAt(m)

\* It was right not longer ago than a tick and a round, and its rule has not ended.
RulesCurrent(t) ==
  \E m \in 0..t :
    /\ t < m + MaxRound + cfg.tick
    /\ RulesSeen(m)
    /\ Status("scheduler").reason = "time" => t < RuleEnds(RuleAt(m), m)

\* Until the timer fires or a notification is there, a scheduler whom nobody disturbed
\* would decide the same of the override, the rotation, the inserts and the presence as
\* it did before it went to sleep.  Of the time rules only this much: the next start of
\* one is not looked up, so one that begins is noticed a tick and a round later at most.
AsleepIsCurrent ==
  /\ TypeOK
  /\ Asleep /\ now < wake /\ ~signalled /\ ~changed => CurrentAt(now) /\ RulesCurrent(now)

\* One round that nobody disturbs brings the screen to what was decided, whatever
\* stale decisions, failures, restarts and calls there were before.
RoundConverges ==
  LET status == Status("scheduler") IN
  Asleep /\ browser.running =>
    /\ status.target \in 1..cfg.pages => browser.active = status.target
    /\ display.noted = Wanted(cfg)
    /\ display.blanked <=> Wanted(cfg) = "OFF"
    /\ override.active => status.target = override.page

\* A cleared or replaced override does not come back with the next start of the
\* service: the file holds the present one unless it is about to be written.
FileFollowsOverride ==
  \/ saved = override
  \/ persistDue \/ \E c \in Callers : IsAt(c, "persist")
  \/ ~override.active /\ saved.active /\ now >= saved.until
  \/ ~up

\* The reload at a fixed time happens at most once for that time of the day, across restarts.
OneReloadADay == \A r, s \in reloads : r[1] = s[1] => r = s

\* The timeline of the Admin page shows the inserts that the scheduler shows.
TimelineAgrees ==
  \A c \in {t \in Threads : IsAt(t, "base")} :
    LET kiosk    == th[c].snap
        timeline == ProgramTimeline(kiosk, now, now + DayLen)
    IN /\ \A m \in now..(now + DayLen - 1) :
            \E i \in DOMAIN timeline :
              /\ timeline[i].start <= m /\ m < timeline[i].end
              /\ timeline[i].insert = ActiveInsert(kiosk, m).index
       /\ \A i \in 2..Len(timeline) : timeline[i].insert # timeline[i - 1].insert

-----------------------------------------------------------------------------
(* The inductive invariant of the proofs.                                  *)

Me == th["scheduler"]

IsStatus(s) ==
  s = [target |-> s.target, reason |-> s.reason, presence |-> s.presence, next |-> s.next]

IsThread(r) ==
  /\ r = [pc |-> r.pc, after |-> r.after, wish |-> r.wish, round |-> r.round,
          snap |-> r.snap, status |-> r.status]
  /\ IsStatus(r.status)

\* An override names a page.
IsOverride(o) ==
  /\ o = [active |-> o.active, page |-> o.page, source |-> o.source, until |-> o.until]
  /\ o.until \in Int /\ (o.active => o.page # NoPage)

ShapeInv ==
  /\ now \in Nat /\ cfg \in Configs
  /\ th = [t \in Threads |-> th[t]] /\ \A t \in Threads : IsThread(th[t])
  /\ browser = [running |-> browser.running, content |-> browser.content,
                active |-> browser.active, held |-> browser.held, started |-> browser.started]
  /\ display = [noted |-> display.noted, panel |-> display.panel, blanked |-> display.blanked]
  /\ IsOverride(override) /\ IsOverride(saved)

\* What is recorded is what was asked for, and a page that was shown.
Asked(r) ==
  "record" \in {r.pc, r.after} =>
    /\ r.wish \in {wish \in Wishes : wish.kind = "override"}
    /\ r.pc \in {"gate", "navigating", "record", "persist", "idle"}
    /\ r.pc = "gate" => r.status.target = r.wish.page
    /\ r.pc \in {"navigating", "record"} => r.wish.page # NoPage

WishInv == \A c \in Callers : Asked(th[c])

\* No moment at which a reload was done lies after the last one that counts.
ReloadInv ==
  /\ browser.started \in 0..now /\ lastMaintenance \in {Never} \cup 0..now
  /\ \A r \in reloads : r[1] \in Int /\ r[1] <= now /\ (up => r[1] <= LastReload)

\* Two configurations that differ in their inserts only.
SameProgram(k, c) ==
  /\ k.presence = c.presence /\ k.enabled = c.enabled /\ k.timeRules = c.timeRules
  /\ k.mode = c.mode /\ k.powerOff = c.powerOff /\ k.rotation = c.rotation
  /\ k.pages = c.pages

Deciding == {"base", "extend", "inserts"}
Shown    == {"maintain", "power", "setting", "noting", "blank", "blanking", "blanked", "sleep"}
Decided  == {"decided", "gate", "navigating"} \cup Shown
Restores == Me.pc \in {"gate", "navigating"} /\ Me.after = "sleep"

\* Where the scheduler goes on after a section that others have too.
AfterInv ==
  /\ Me.pc \in {"override", "decided"} \cup Deciding => Me.after = "maintain"
  /\ Me.pc \in {"gate", "navigating"} => Me.after \in {"maintain", "sleep"}
  /\ Me.pc \in {"setting", "noting"} => Me.after = "blank"

\* How far a round has got that nobody disturbs.
RoundInv ==
  undisturbed =>
    /\ up /\ Me.round = cfg
    /\ Me.pc \in Deciding => ~override.active /\ SameProgram(Me.snap, cfg)
    /\ Me.pc \in Decided /\ override.active => Me.status.target = override.page
    /\ Me.pc \in Shown \cup {"navigating"} =>
         (Me.status.target \in 1..cfg.pages => browser.active = Me.status.target)
    /\ Me.pc \in {"setting", "noting"} => Me.wish.power = Wanted(cfg)
    /\ Me.pc \in {"blank", "blanking", "blanked", "sleep"} \/ Restores
         => display.noted = Wanted(cfg)
    /\ Me.pc \in {"blanking", "blanked"} => Wanted(cfg) = "OFF"
    /\ Restores => ~display.blanked /\ Wanted(cfg) = "ON"
    /\ Me.pc = "sleep" /\ browser.running => (display.blanked <=> Wanted(cfg) = "OFF")

\* A round goes by a configuration and a decision by a programme that was saved, whatever
\* has become of its inserts' conditions; what is asked of the display is on or off; and of
\* a caller that it shows a page there is, and does not sleep.
Known(kiosk) ==
  ValidProgram(kiosk) /\ \E k \in Configs : kiosk.rotation = k.rotation /\ kiosk.pages = k.pages

KnownInv ==
  \A t \in Threads :
    /\ t = "scheduler" /\ th[t].pc # "sleep" => th[t].round \in Configs
    /\ th[t].pc \in Deciding => Known(th[t].snap)
    /\ th[t].pc \in {"setting", "noting"} => th[t].wish.power \in {"ON", "OFF"}
    /\ th[t].status.next \in Times
    /\ th[t].status.reason = "insert" => th[t].status.target # NoPage

CallerInv ==
  \A c \in Callers :
    /\ th[c].pc # "sleep" /\ th[c].after \in {"idle", "record"}
    /\ "record" \in {th[c].pc, th[c].after} /\ th[c].pc \in {"navigating", "record"}
         => th[c].wish.page \in Pages

\* The timer is ahead of a scheduler that sleeps, and tells when the round began of one
\* that does not.
WakeInv ==
  /\ ~up => Me.pc = "sleep"
  /\ up /\ Me.pc = "sleep" => now <= wake
  /\ up /\ Me.pc # "sleep" => wake <= now /\ now <= wake + MaxRound

\* A reload is dated to the beginning of its round, and rounds begin one after the other.
DatedInv == lastMaintenance <= wake

HeldInv == undisturbed => ~browser.held

Before(t, limit) == limit = Never \/ t < limit

\* What the base programme says of the rotation is right until its next change.
BaseInv ==
  /\ Me.status.presence = ""
  /\ Me.status.reason \notin {"insert", "override"}
  /\ Me.status.reason = "rotation" =>
       \A t \in Nat : now <= t /\ Before(t, Me.status.next) => t < rotation.until

\* A round that nobody disturbs or signals has decided for the time up to the next change
\* it knows of, as far as it looks ahead; asleep, for the time up to the timer.
CurrentInv ==
  undisturbed /\ ~signalled =>
    /\ Me.pc \in Deciding => Me.snap = InsertsWhere(cfg)
    /\ Me.pc = "inserts" => BaseInv
    /\ Me.pc \in Decided \ {"sleep"} =>
         \A t \in Nat : now <= t /\ t < wake + 2 * DayLen /\ Before(t, Me.status.next)
                        => CurrentAt(t)
    /\ Me.pc = "sleep" => \A t \in Nat : now <= t /\ t < wake => CurrentAt(t)

\* What a round that nobody disturbs has seen of the time rules, since it began; asleep,
\* what that says of the time up to the timer.
SeenWell(m) ==
  /\ RulesSeen(m)
  /\ Me.status.reason = "time" =>
       /\ Me.status.target # NoPage
       /\ \A t \in Nat : Before(t, Me.status.next) => t < RuleEnds(RuleAt(m), m)

RulesInv ==
  undisturbed =>
    /\ Me.pc = "extend" => \E m \in wake..now : NoRuleAt(m)
    /\ Me.pc = "inserts" \/ Me.pc \in Decided \ {"sleep"} => \E m \in wake..now : SeenWell(m)
    /\ Me.pc = "sleep" => \A t \in Nat : now <= t /\ t < wake => RulesCurrent(t)

IInv ==
  /\ ShapeInv /\ WishInv /\ FileFollowsOverride /\ ReloadInv /\ OneReloadADay /\ AfterInv
  /\ RoundInv /\ TypeOK /\ KnownInv /\ CallerInv /\ WakeInv /\ HeldInv /\ CurrentInv
  /\ RulesInv /\ DatedInv

=============================================================================
