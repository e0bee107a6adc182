--------------------------- MODULE BrowserLifecycle ---------------------------
(***************************************************************************)
(* The life of the kiosk browser process under internal/supervisor: the    *)
(* operation gate, Start, Stop, Restart, Recover, ResetSession and page    *)
(* switches that pass through it, the wait goroutine that reaps the        *)
(* process, the timer that restarts it after a crash, the monitors that    *)
(* complain about it and the authentication guard that keeps it down.      *)
(*                                                                         *)
(* One step is one section of code under b.mu, or one call that leaves the *)
(* program (running a process, killing it, writing files), so that every   *)
(* interleaving the Go scheduler can produce between them is explored.     *)
(*                                                                         *)
(* Time is abstract: a deadline passes by a step of its own.  The hourly   *)
(* restart budget is a choice here (RecoveryPolicy counts it).  The page   *)
(* shown, the control session and the reported recovery.State are left to  *)
(* other modules.                                                          *)
(***************************************************************************)
EXTENDS Naturals, FiniteSets

CONSTANTS
  Callers,         \* concurrent callers of the public operations (Admin, MQTT, workflows)
  UserKinds,       \* the public operations they call
  MaxEvents,       \* bound on calls, crashes, complaints and guard trips
  MaxGenerations   \* bound on browser processes launched

ASSUME CallersAssumption     == Callers \subseteq Nat
ASSUME UserKindsAssumption   == UserKinds \subseteq
                                  {"start", "stop", "restart", "recover", "reset", "page"}
ASSUME MaxEventsAssumption   == MaxEvents \in Nat
ASSUME GenerationsAssumption == MaxGenerations \in Nat

VARIABLES
  queue,            \* requests blocked on the operation gate
  op,               \* the operation that holds the gate, or NoOp
  cmd,              \* b.cmd: generation of the published process, 0 for nil
  generation,       \* b.generation
  procs,            \* each process and its wait goroutine
  stopping,         \* b.stopping
  manuallyStopped,  \* b.manuallyStopped
  guard,            \* b.authGuard.Tripped
  recoveryEpoch,    \* b.recoveryEpoch
  recoveryCancel,   \* epoch of the timer b.recoveryCancel cancels, 0 for nil
  sleepers,         \* epochs of the restart timers that have not fired
  backoff,          \* b.recovery.BackoffUntil: nil, in the future, in the past
  deadlineOf,       \* the sleeper whose deadline BackoffUntil still is, 0 for none
  watching,         \* monitor goroutines (watch, monitorDevTools) that run
  pages,            \* page switches the scheduler's round may still ask for unasked
  halted,           \* history: a Stop succeeded as marked and nobody asked since
  lastAllowed,      \* history: the last generation known to be on its way then
  events            \* bound counter

lifeVars == <<cmd, generation, procs, stopping>>
holdVars == <<pages, halted, lastAllowed>>
recVars  == <<recoveryEpoch, recoveryCancel, sleepers, backoff, deadlineOf>>
vars     == <<queue, op, lifeVars, manuallyStopped, guard, recVars, watching,
              holdVars, events>>

Gens         == 1 .. MaxGenerations
MonitorKinds == {"watchdog", "control"}
AutoKinds    == {"timer"} \cup MonitorKinds
RecoverKinds == {"recover"} \cup AutoKinds
PageKinds    == {"page", "schedule"}
Kinds        == {"start", "stop", "restart", "reset", "guardstop"}
                  \cup PageKinds \cup RecoverKinds

\* A request names its kind and, by kind, its caller, epoch or generation.
Request == [kind : Kinds, ref : Nat]
PCs     == {"idle", "page", "recover", "reload", "restart", "stop", "killing",
            "clear", "start", "preflight", "exec", "publish", "settle", "finish"}
Op      == [kind : Kinds \cup {"none"}, ref : Nat, pc : PCs,
            victim : Gens \cup {0}, ok : BOOLEAN]
NoOp    == [kind |-> "none", ref |-> 0, pc |-> "idle", victim |-> 0, ok |-> TRUE]

\* none: not launched; alive, killed (terminateProcessTree runs): cmd.Wait
\* blocks; exited: wait has not taken b.mu yet; closing, crashed: b.mu
\* released, done not closed yet; unscheduled: a crash whose automatic restart
\* is not arranged yet; gone: the wait goroutine has returned.
ProcStates == {"none", "alive", "killed", "exited", "closing", "crashed",
               "unscheduled", "gone"}
Live       == {"alive", "killed", "exited"}
DoneClosed == {"unscheduled", "gone"}

TypeOK ==
  /\ queue \subseteq Request
  /\ op \in Op
  /\ cmd \in Gens \cup {0}
  /\ generation \in Gens \cup {0}
  /\ procs \in [Gens -> ProcStates]
  /\ stopping \in BOOLEAN /\ manuallyStopped \in BOOLEAN
  /\ guard \in BOOLEAN
  /\ pages \in 0 .. 1 /\ halted \in BOOLEAN /\ lastAllowed \in Nat
  /\ recoveryEpoch \in Nat /\ recoveryCancel \in Nat /\ deadlineOf \in Nat
  /\ sleepers \subseteq Nat
  /\ backoff \in {"none", "pending", "elapsed"}
  /\ watching \subseteq [kind : MonitorKinds, ref : Gens]
  /\ events \in 0 .. MaxEvents

\* main.go: the saved guard and BackoffUntil are loaded, then the first Start is
\* called once the Admin server listens.
Init ==
  /\ queue = {[kind |-> "start", ref |-> 0]}
  /\ op = NoOp
  /\ cmd = 0 /\ generation = 0
  /\ procs = [g \in Gens |-> "none"]
  /\ stopping = FALSE /\ manuallyStopped = FALSE
  /\ guard \in BOOLEAN
  /\ recoveryEpoch = 0 /\ recoveryCancel = 0 /\ sleepers = {} /\ deadlineOf = 0
  /\ backoff \in {"none", "pending"}
  /\ watching = {}
  /\ pages = 0 /\ halted = FALSE /\ lastAllowed = 0
  /\ events = 0

-----------------------------------------------------------------------------
(***************************************************************************)
(* Helpers                                                                 *)
(***************************************************************************)

Event == events < MaxEvents /\ events' = events + 1

\* cancelRecoveryLocked
CancelRecovery ==
  /\ recoveryEpoch' = recoveryEpoch + 1
  /\ recoveryCancel' = 0
  /\ UNCHANGED <<sleepers, backoff, deadlineOf>>

SetBackoff(value) ==
  /\ backoff' = value
  /\ deadlineOf' = 0
  /\ UNCHANGED <<recoveryEpoch, recoveryCancel, sleepers>>

\* The context of a restart timer is cancelled exactly when recoveryCancel has
\* moved on; every other context may only reach its deadline.
Cancelled(r) == r.kind = "timer" /\ recoveryCancel # r.ref

At(pc)     == op.pc = pc
GoTo(pc)   == op' = [op EXCEPT !.pc = pc]
Return(ok) == op' = [op EXCEPT !.pc = "finish", !.ok = ok]
\* start and restart return to recover, which records the outcome, or to operate.
Leave(ok)  == op' = [op EXCEPT !.pc = IF op.kind \in RecoverKinds THEN "settle" ELSE "finish",
                               !.ok = ok]
\* stop returned nil: what the operation does next.
Stopped    == CASE op.kind \in {"stop", "guardstop"} -> Return(TRUE)
                [] op.kind = "reset"                 -> GoTo("clear")
                [] OTHER                             -> GoTo("start")

-----------------------------------------------------------------------------
(***************************************************************************)
(* Callers and the gate                                                    *)
(***************************************************************************)

\* A public operation is called: Stop marks the browser as stopped by hand and
\* drops a planned restart before it waits for the gate.
Call(kind, c) ==
  /\ Event
  /\ \A r \in queue \cup {op} : r.kind \in UserKinds => r.ref # c
  /\ queue' = queue \cup {[kind |-> kind, ref |-> c]}
  /\ IF kind = "stop"
     THEN manuallyStopped' = TRUE /\ CancelRecovery
     ELSE UNCHANGED <<manuallyStopped, recVars>>
  /\ UNCHANGED <<op, lifeVars, guard, watching, holdVars>>

PageSwitch     == [kind |-> "schedule", ref |-> 0]
SchedulerWaits == \E r \in queue \cup {op} : r.kind = "schedule"

\* A round of the scheduler finds it is not paused and wants another page: it asks
\* for the gate.
SchedulerCalls ==
  /\ Event
  /\ ~SchedulerWaits
  /\ ~manuallyStopped /\ ~guard
  /\ pages' = 1
  /\ queue' = queue \cup {PageSwitch}
  /\ UNCHANGED <<op, lifeVars, manuallyStopped, guard, recVars, watching, halted, lastAllowed>>

\* The same round, once its page switch has returned, restores a blanked display by
\* another one without a second look, or ends.
SchedulerGoesOn ==
  /\ ~SchedulerWaits
  /\ pages = 1 /\ pages' = 0
  /\ queue' = queue \cup {PageSwitch} \/ queue' = queue
  /\ UNCHANGED <<op, lifeVars, manuallyStopped, guard, recVars, watching, halted, lastAllowed,
                 events>>

\* A monitor of generation g has had enough of the browser and asks for a
\* recovery; it returns afterwards.
Complain(m) ==
  /\ Event
  /\ m \in watching
  /\ procs[m.ref] \in {"alive", "killed"}
  /\ m.kind = "control" => cmd = m.ref /\ ~manuallyStopped /\ ~guard
  /\ watching' = watching \ {m}
  /\ queue' = queue \cup {m}
  /\ UNCHANGED <<op, lifeVars, manuallyStopped, guard, recVars, holdVars>>

\* The context of a waiting request ends before the gate is free.
Expire(r) ==
  /\ queue' = queue \ {r}
  /\ UNCHANGED <<op, lifeVars, manuallyStopped, guard, recVars, watching, holdVars, events>>

FirstStep(r) ==
  CASE r.kind = "start"                              -> "start"
    [] r.kind = "restart"                            -> "restart"
    [] r.kind \in {"stop", "guardstop", "reset"}     -> "stop"
    [] r.kind \in PageKinds                          -> "page"
    [] r.kind = "timer"
       /\ (recoveryEpoch # r.ref \/ manuallyStopped) -> "finish"
    [] OTHER                                         -> "recover"

\* operate takes the gate, checks the context again and runs the first section
\* of the operation.
Acquire(r) ==
  /\ op = NoOp
  /\ queue' = queue \ {r}
  /\ IF Cancelled(r)
     THEN UNCHANGED <<op, manuallyStopped, recVars, halted, lastAllowed>>
     ELSE /\ op' = [kind |-> r.kind, ref |-> r.ref, pc |-> FirstStep(r), victim |-> 0,
                    ok |-> FirstStep(r) # "finish"]
          /\ IF r.kind \in {"start", "restart", "recover"}
             THEN manuallyStopped' = FALSE ELSE UNCHANGED manuallyStopped
          /\ IF r.kind \in {"start", "restart", "recover", "reset"}
             THEN CancelRecovery ELSE UNCHANGED recVars
          /\ halted' = (halted /\ r.kind \notin {"start", "restart", "recover", "page"})
          /\ lastAllowed' = IF halted' THEN lastAllowed ELSE 0
  /\ UNCHANGED <<lifeVars, guard, watching, pages, events>>

GateFreedOnSuccessOnly == At("finish") /\ op.ok   \* weakened form of Completed
Completed == At("finish")

\* The browsers a round of the scheduler that looked earlier may still launch: at
\* most one for the request in the queue or in the gate, one for the next.
Queued       == IF PageSwitch \in queue THEN 1 ELSE 0
InTheGate    == IF op.kind = "schedule" /\ op.pc # "finish" THEN 1 ELSE 0
SchedulerMay == pages + Queued + InTheGate

\* operate records the result and frees the gate.  History: the Stop holds unless a
\* request that passed the gate after its call has undone its mark.
Finish ==
  /\ Completed
  /\ op' = NoOp
  /\ IF op.kind = "stop" /\ op.ok
     THEN /\ halted' = manuallyStopped
          /\ lastAllowed' = IF manuallyStopped THEN generation + SchedulerMay ELSE 0
     ELSE UNCHANGED <<halted, lastAllowed>>
  /\ UNCHANGED <<queue, lifeVars, manuallyStopped, guard, recVars, watching, pages, events>>

-----------------------------------------------------------------------------
(***************************************************************************)
(* What runs inside the gate                                               *)
(***************************************************************************)

\* showPage: a stopped browser is started, a running one navigates, switches
\* its tab or, when that fails or pages are isolated, restarts.
ShowPage ==
  /\ At("page")
  /\ \/ guard /\ Return(FALSE)
     \/ ~guard /\ cmd = 0 /\ GoTo("start")
     \/ ~guard /\ cmd # 0 /\ (Return(TRUE) \/ GoTo("restart"))
  /\ UNCHANGED <<queue, lifeVars, manuallyStopped, guard, recVars, watching, holdVars, events>>

RecoverRefusedByStop ==
  /\ manuallyStopped
  /\ Return(FALSE) /\ UNCHANGED recVars

RecoverRefusedByGuard ==
  /\ ~manuallyStopped /\ guard
  /\ Return(FALSE) /\ SetBackoff("none")

RecoverInBackoff ==
  /\ ~manuallyStopped /\ ~guard /\ backoff = "pending"
  /\ Return(FALSE) /\ UNCHANGED recVars

RecoverAllowedAfterStop == ~guard /\ backoff # "pending"   \* weakened form
RecoverAllowed == ~manuallyStopped /\ ~guard /\ backoff # "pending"

RecoverOverBudget ==
  /\ RecoverAllowed
  /\ Return(FALSE) /\ SetBackoff("pending")

\* Only the public Recover tries a reload first.
RecoverRuns ==
  /\ RecoverAllowed
  /\ GoTo(IF cmd = 0 THEN "start" ELSE IF op.kind = "recover" THEN "reload" ELSE "restart")
  /\ UNCHANGED recVars

Recover ==
  /\ At("recover")
  /\ \/ RecoverRefusedByStop \/ RecoverRefusedByGuard \/ RecoverInBackoff
     \/ RecoverOverBudget \/ RecoverRuns
  /\ UNCHANGED <<queue, lifeVars, manuallyStopped, guard, watching, holdVars, events>>

Reload ==
  /\ At("reload")
  /\ Leave(TRUE) \/ GoTo("restart")
  /\ UNCHANGED <<queue, lifeVars, manuallyStopped, guard, recVars, watching, holdVars, events>>

Restart ==
  /\ At("restart")
  /\ IF guard THEN Leave(FALSE) ELSE GoTo("stop")
  /\ UNCHANGED <<queue, lifeVars, manuallyStopped, guard, recVars, watching, holdVars, events>>

StopIdleMarks == cmd = 0 /\ Stopped /\ stopping' = TRUE /\ UNCHANGED procs   \* weakened form
StopIdle      == cmd = 0 /\ Stopped /\ UNCHANGED <<stopping, procs>>

StopRunning ==
  /\ cmd # 0
  /\ op' = [op EXCEPT !.pc = "killing", !.victim = cmd]
  /\ stopping' = TRUE
  /\ procs' = [procs EXCEPT ![cmd] = IF @ = "alive" THEN "killed" ELSE @]

\* stop: the published process is marked as being stopped and its tree is
\* terminated; without one there is nothing to do.
Stop ==
  /\ At("stop")
  /\ StopIdle \/ StopRunning
  /\ UNCHANGED <<queue, cmd, generation, manuallyStopped, guard, recVars, watching, holdVars, events>>

KillIsSent   == op.victim # 0                       \* weakened form
VictimIsDone == procs[op.victim] \in DoneClosed

\* The done channel of the stopped process is closed.
StopCompletes ==
  /\ At("killing")
  /\ VictimIsDone
  /\ Stopped
  /\ UNCHANGED <<queue, lifeVars, manuallyStopped, guard, recVars, watching, holdVars, events>>

\* The context ends first, or the process tree cannot be signalled.
StopFails ==
  /\ At("killing")
  /\ Leave(FALSE)
  /\ UNCHANGED <<queue, lifeVars, manuallyStopped, guard, recVars, watching, holdVars, events>>

\* resetSession with the browser down: no profile, a failed backup, or a backup
\* after which the guard is cleared and the browser is wanted again.
ClearSession ==
  /\ At("clear")
  /\ \/ (Return(TRUE) \/ Return(FALSE)) /\ UNCHANGED <<manuallyStopped, guard, halted, lastAllowed>>
     \/ /\ guard' = FALSE
        /\ manuallyStopped' = FALSE
        /\ halted' = FALSE /\ lastAllowed' = 0
        /\ GoTo("start")
  /\ UNCHANGED <<queue, lifeVars, recVars, watching, pages, events>>

NeverRunning   == FALSE                             \* weakened form
AlreadyRunning == cmd # 0

\* start, first section.
Start ==
  /\ At("start")
  /\ \/ AlreadyRunning /\ Leave(TRUE) /\ UNCHANGED stopping
     \/ ~AlreadyRunning /\ guard /\ Leave(FALSE) /\ UNCHANGED stopping
     \/ ~AlreadyRunning /\ ~guard /\ GoTo("preflight") /\ stopping' = FALSE
  /\ UNCHANGED <<queue, cmd, generation, procs, manuallyStopped, guard, recVars, watching,
                 holdVars, events>>

\* tripAuthGuard: the first trip cancels a planned restart, replaces the recovery
\* status and, when a process is published, has it stopped.
TripGuard ==
  IF guard
  THEN UNCHANGED <<queue, guard, recVars>>
  ELSE /\ guard' = TRUE
       /\ recoveryEpoch' = recoveryEpoch + 1
       /\ recoveryCancel' = 0
       /\ backoff' = "none" /\ deadlineOf' = 0
       /\ queue' = IF cmd = 0 THEN queue
                   ELSE queue \cup {[kind |-> "guardstop", ref |-> recoveryEpoch]}
       /\ UNCHANGED sleepers

\* Between the first check and the launch: the context, the Home Assistant
\* preflight (which may trip the guard), the browser binary and its profile.
Preflight ==
  /\ At("preflight")
  /\ \/ Leave(FALSE) /\ UNCHANGED <<queue, guard, recVars>>
     \/ Leave(FALSE) /\ TripGuard
     \/ ~Cancelled(op) /\ GoTo("exec") /\ UNCHANGED <<queue, guard, recVars>>
  /\ UNCHANGED <<lifeVars, manuallyStopped, watching, holdVars, events>>

Exec ==
  /\ At("exec")
  /\ \/ Leave(FALSE) /\ UNCHANGED procs
     \/ /\ generation < MaxGenerations
        /\ procs' = [procs EXCEPT ![generation + 1] = "alive"]
        /\ GoTo("publish")
  /\ UNCHANGED <<queue, cmd, generation, stopping, manuallyStopped, guard, recVars, watching,
                 holdVars, events>>

OldGeneration == generation                         \* weakened form
NewGeneration == generation + 1

\* The process becomes b.cmd; its wait goroutine and monitors start.
Publish ==
  /\ At("publish")
  /\ generation' = NewGeneration /\ cmd' = NewGeneration
  /\ watching' = watching \cup [kind : MonitorKinds, ref : {NewGeneration}]
  /\ Leave(TRUE)
  /\ UNCHANGED <<queue, procs, stopping, manuallyStopped, guard, recVars, holdVars, events>>

\* finishRecovery
Settle ==
  /\ At("settle")
  /\ SetBackoff(IF op.ok THEN "none" ELSE "pending")
  /\ GoTo("finish")
  /\ UNCHANGED <<queue, lifeVars, manuallyStopped, guard, watching, holdVars, events>>

-----------------------------------------------------------------------------
(***************************************************************************)
(* The process and its wait goroutine                                      *)
(***************************************************************************)

Crash(g) ==
  /\ Event
  /\ procs[g] = "alive"
  /\ procs' = [procs EXCEPT ![g] = "exited"]
  /\ UNCHANGED <<queue, op, cmd, generation, stopping, manuallyStopped, guard, recVars,
                 watching, holdVars>>

KillLands(g) ==
  /\ procs[g] = "killed"
  /\ procs' = [procs EXCEPT ![g] = "exited"]
  /\ UNCHANGED <<queue, op, cmd, generation, stopping, manuallyStopped, guard, recVars,
                 watching, holdVars, events>>

ExpectedExit(g) ==
  /\ stopping
  /\ stopping' = FALSE
  /\ procs' = [procs EXCEPT ![g] = "closing"]
  /\ UNCHANGED recVars

UnexpectedExit(g) ==
  /\ ~stopping
  /\ procs' = [procs EXCEPT ![g] = "crashed"]
  /\ SetBackoff("pending")
  /\ UNCHANGED stopping

\* wait, first part: the exit is classified by b.stopping and b.cmd is cleared; an
\* unexpected one sets BackoffUntil.
Reap(g) ==
  /\ procs[g] = "exited"
  /\ g <= generation
  /\ cmd' = IF cmd = g THEN 0 ELSE cmd
  /\ ExpectedExit(g) \/ UnexpectedExit(g)
  /\ UNCHANGED <<queue, op, generation, manuallyStopped, guard, watching, holdVars, events>>

CloseDone(g) ==
  /\ procs[g] \in {"closing", "crashed"}
  /\ procs' = [procs EXCEPT ![g] = IF @ = "closing" THEN "gone" ELSE "unscheduled"]
  /\ UNCHANGED <<queue, op, cmd, generation, stopping, manuallyStopped, guard, recVars,
                 watching, holdVars, events>>

MayPlanBlindly == backoff # "none"                  \* weakened form
MayPlan        == backoff # "none" /\ ~manuallyStopped /\ ~guard

\* scheduleUnexpectedExitRecovery
ScheduleRecovery(g) ==
  /\ procs[g] = "unscheduled"
  /\ procs' = [procs EXCEPT ![g] = "gone"]
  /\ IF ~MayPlan
     THEN UNCHANGED recVars
     ELSE /\ recoveryEpoch' = recoveryEpoch + 1
          /\ recoveryCancel' = recoveryEpoch + 1
          /\ sleepers' = sleepers \cup {recoveryEpoch + 1}
          /\ deadlineOf' = recoveryEpoch + 1
          /\ UNCHANGED backoff
  /\ UNCHANGED <<queue, op, cmd, generation, stopping, manuallyStopped, guard, watching,
                 holdVars, events>>

\* The timer of a restart that was not cancelled reaches its deadline.
TimerFires(e) ==
  /\ e \in sleepers
  /\ recoveryCancel = e
  /\ sleepers' = sleepers \ {e}
  /\ queue' = queue \cup {[kind |-> "timer", ref |-> e]}
  /\ backoff' = IF deadlineOf = e THEN "elapsed" ELSE backoff
  /\ UNCHANGED <<op, lifeVars, manuallyStopped, guard, recoveryEpoch, recoveryCancel,
                 deadlineOf, watching, holdVars, events>>

TimerCancelled(e) ==
  /\ e \in sleepers
  /\ recoveryCancel # e
  /\ sleepers' = sleepers \ {e}
  /\ UNCHANGED <<queue, op, lifeVars, manuallyStopped, guard, recoveryEpoch, recoveryCancel,
                 backoff, deadlineOf, watching, holdVars, events>>

BackoffElapses ==
  /\ backoff = "pending"
  /\ backoff' = "elapsed"
  /\ UNCHANGED <<queue, op, lifeVars, manuallyStopped, guard, recoveryEpoch, recoveryCancel,
                 sleepers, deadlineOf, watching, holdVars, events>>

\* watch: a browser that has run for stableRuntime is forgiven its failures.
StableRun(m) ==
  /\ m \in watching /\ m.kind = "watchdog"
  /\ procs[m.ref] \in {"alive", "killed"}
  /\ backoff # "none"
  /\ SetBackoff("none")
  /\ UNCHANGED <<queue, op, lifeVars, manuallyStopped, guard, watching, holdVars, events>>

\* A monitor returns: done is closed, the watchdog can no longer read the process,
\* or the control monitor finds the guard tripped.
MonitorEnds(m) ==
  /\ m \in watching
  /\ \/ procs[m.ref] \in DoneClosed
     \/ m.kind = "watchdog" /\ procs[m.ref] # "alive"
     \/ m.kind = "control" /\ guard
  /\ watching' = watching \ {m}
  /\ UNCHANGED <<queue, op, lifeVars, manuallyStopped, guard, recVars, holdVars, events>>

\* Home Assistant rejects the browser's session, or an Admin page check or
\* Browser Doctor run is answered with 403.
Rejected ==
  /\ Event
  /\ ~guard
  /\ TripGuard
  /\ UNCHANGED <<op, lifeVars, manuallyStopped, watching, holdVars>>

-----------------------------------------------------------------------------

Gated ==
  \/ ShowPage \/ Recover \/ Reload \/ Restart \/ Stop \/ StopCompletes
  \/ ClearSession \/ Start \/ Preflight \/ Exec \/ Publish \/ Settle \/ Finish

Waits(g) == Reap(g) \/ CloseDone(g) \/ ScheduleRecovery(g)

Next ==
  \/ \E kind \in UserKinds, c \in Callers : Call(kind, c)
  \/ SchedulerCalls \/ SchedulerGoesOn
  \/ Rejected
  \/ \E m \in watching : Complain(m) \/ StableRun(m) \/ MonitorEnds(m)
  \/ \E r \in queue : Expire(r) \/ Acquire(r)
  \/ Gated
  \/ StopFails
  \/ \E g \in Gens : Crash(g) \/ KillLands(g) \/ Waits(g)
  \/ \E e \in sleepers : TimerFires(e) \/ TimerCancelled(e)
  \/ BackoffElapses

Spec == Init /\ [][Next]_vars

\* A running goroutine takes its next step; every context of a gated operation has
\* a deadline; terminateProcessTree ends with SIGKILL; timers fire.
Fairness ==
  /\ WF_vars(Gated)
  /\ WF_vars(StopFails)
  /\ WF_vars(\E r \in queue : Acquire(r))
  /\ WF_vars(\E e \in sleepers : TimerFires(e) \/ TimerCancelled(e))
  /\ \A g \in Gens : WF_vars(KillLands(g)) /\ WF_vars(Waits(g))

FairSpec == Spec /\ Fairness

-----------------------------------------------------------------------------
(***************************************************************************)
(* Properties                                                              *)
(***************************************************************************)

\* At most one browser process exists that has not been reaped: neither two
\* callers nor a caller and a restart timer ever run Chromium twice on one
\* profile (operate, start, wait).
OneBrowser ==
  \A g, h \in Gens : procs[g] \in Live /\ procs[h] \in Live => g = h

\* b.stopping is set only while the published process is one that stop has begun
\* to kill, so that wait never takes the crash of a later browser for a wanted
\* exit and leaves it down without a restart.
StopFlagNamesThisBrowser ==
  stopping => cmd # 0 /\ procs[cmd] # "alive"

\* No automatic restart is planned while the browser is stopped by hand or held
\* by the guard: the wait goroutine of a crash cannot arrange one behind the back
\* of a Stop or of a guard trip (scheduleUnexpectedExitRecovery).
NoRestartPlannedWhileHeld ==
  manuallyStopped \/ guard => recoveryCancel = 0

\* Once Stop has succeeded and its mark stands, no timer, watchdog or monitor brings
\* the browser back until somebody asks for it, also when it crashes meanwhile.  A
\* round of the scheduler that had looked for the pause before the Stop still
\* launches one browser for each page switch it had left, at most two, and nothing
\* after them (Stop, recover, RunScheduler).  A Stop is not covered when a Start,
\* Restart, Recover or reset passed the gate between its call and its turn: they
\* undo its mark, and automation takes the browser it ended for one that should run.
AutomationRespectsStop ==
  halted => \A g \in Gens : procs[g] \in Live => g <= lastAllowed

\* A session reset clears the authentication guard only when no browser process
\* that still holds the rejected session is left.
GuardClearedOnlyWhenDown ==
  [][guard /\ ~guard' => \A g \in Gens : procs[g] \notin Live]_vars

\* The gate is not kept for ever, whatever the browser does when it is killed.
GateIsReleased == (op # NoOp) ~> (op = NoOp)

-----------------------------------------------------------------------------
(***************************************************************************)
(* The inductive invariant behind the safety properties                    *)
(***************************************************************************)

\* Where an operation can be, by its kind.
OpInv ==
  /\ op.kind = "none" <=> op.pc = "idle"
  /\ op.kind \in {"stop", "guardstop"} => op.pc \in {"stop", "killing", "finish"}

\* Only the holder of the gate publishes a process, and it does so with none
\* published; it sees the process it waits for or none.
LaunchInv ==
  /\ op.pc \in {"preflight", "exec", "publish", "clear"} => cmd = 0
  /\ op.pc = "publish" => generation < MaxGenerations
  /\ op.pc = "killing" => op.victim # 0 /\ cmd \in {0, op.victim}
  /\ op.pc = "finish" /\ op.kind = "stop" /\ op.ok => cmd = 0

\* The process that exists is the published one or the one about to be.
ProcInv ==
  /\ cmd <= generation
  /\ cmd # 0 => procs[cmd] \in Live
  /\ op.pc = "publish" => procs[generation + 1] \in Live
  /\ \A g \in Gens :
       procs[g] \in Live => g = cmd \/ (op.pc = "publish" /\ g = generation + 1)
  /\ \A g \in Gens :
       g > generation => procs[g] = "none" \/ (op.pc = "publish" /\ g = generation + 1)

\* An uncancelled restart belongs to the present epoch and outlives no hold.
RecoveryInv ==
  /\ recoveryCancel # 0 => recoveryCancel = recoveryEpoch
  /\ NoRestartPlannedWhileHeld

\* After a Stop that holds, automatic recoveries are refused at once, a page switch
\* of the scheduler uses up one of the launches left, and no other operation of the
\* gate launches a browser.
HaltHolds ==
  /\ manuallyStopped
  /\ generation + SchedulerMay <= lastAllowed
  /\ op.kind \in AutoKinds => op.pc \in {"recover", "finish"}
  /\ op.kind = "reset" => op.pc \in {"stop", "killing", "clear", "finish"}
  /\ op.kind \notin {"start", "restart", "recover", "page"}

HaltInv ==
  /\ \A r \in queue : r.kind = "schedule" => r = PageSwitch
  /\ halted => HaltHolds

IInv == TypeOK /\ OpInv /\ LaunchInv /\ ProcInv /\ StopFlagNamesThisBrowser
          /\ RecoveryInv /\ HaltInv

=============================================================================
