--------------------------- MODULE SupervisorProofs ---------------------------
(***************************************************************************)
(* Proofs about the browser's supervisor, for every value of the           *)
(* constants: BrowserLifecycle, whose inductive invariant is IInv, and     *)
(* RecoveryPolicy, whose inductive invariant is PolicyInv.  Each of the    *)
(* conjuncts has a lemma with one step per action, and the properties      *)
(* follow from the invariants.                                             *)
(***************************************************************************)
EXTENDS BrowserLifecycle, RecoveryPolicy, FiniteSetTheorems, SequenceTheorems, TLAPS

-----------------------------------------------------------------------------
(***************************************************************************)
(* How the holder of the gate moves.  It never changes its kind.           *)
(***************************************************************************)

\* GoTo moves the operation and leaves the rest of it alone.
LEMMA GoToMoves ==
  ASSUME op \in Op, NEW pc \in PCs, GoTo(pc)
  PROVE  /\ op' \in Op
         /\ op'.kind = op.kind /\ op'.victim = op.victim /\ op'.ok = op.ok
         /\ op'.pc = pc
  BY DEF GoTo, Op

\* An operation that returns to operate is finished.
LEMMA ReturnMoves ==
  ASSUME op \in Op, NEW ok \in BOOLEAN, Return(ok)
  PROVE  /\ op' \in Op
         /\ op'.kind = op.kind /\ op'.victim = op.victim /\ op'.ok = ok
         /\ op'.pc = "finish"
  BY DEF Return, Op, PCs

\* start and restart return to recover or to operate, by the kind of operation.
LEMMA LeaveMoves ==
  ASSUME op \in Op, NEW ok \in BOOLEAN, Leave(ok)
  PROVE  /\ op' \in Op
         /\ op'.kind = op.kind /\ op'.victim = op.victim /\ op'.ok = ok
         /\ op'.pc = IF op.kind \in RecoverKinds THEN "settle" ELSE "finish"
  BY DEF Leave, Op, PCs

\* After a completed stop an operation finishes, clears the session or starts the browser.
LEMMA StoppedMoves ==
  ASSUME op \in Op, Stopped
  PROVE  /\ op' \in Op
         /\ op'.kind = op.kind
         /\ op'.pc = IF op.kind \in {"stop", "guardstop"} THEN "finish"
                     ELSE IF op.kind = "reset" THEN "clear" ELSE "start"
  <1>1. CASE op.kind \in {"stop", "guardstop"}
    BY <1>1, ReturnMoves DEF Stopped
  <1>2. CASE op.kind = "reset"
    BY <1>2, GoToMoves DEF Stopped, PCs
  <1>3. CASE op.kind \notin {"stop", "guardstop", "reset"}
    BY <1>3, GoToMoves DEF Stopped, PCs
  <1> QED BY <1>1, <1>2, <1>3

\* A stop of a running browser waits for the published process.
LEMMA KillingMoves ==
  ASSUME TypeOK, Stop, StopRunning
  PROVE  /\ op' \in Op
         /\ op'.kind = op.kind /\ op'.victim = cmd /\ op'.pc = "killing"
  BY DEF Stop, StopRunning, TypeOK, Op, PCs

\* A request that takes the gate runs its first section, unless its timer was cancelled.
LEMMA AcquireMoves ==
  ASSUME NEW r \in Request, Acquire(r), ~Cancelled(r)
  PROVE  /\ op' \in Op
         /\ op'.kind = r.kind /\ op'.pc = FirstStep(r)
  <1>1. FirstStep(r) \in PCs
    BY DEF FirstStep, PCs
  <1>2. (FirstStep(r) # "finish") \in BOOLEAN
    OBVIOUS
  <1>3. PICK ok \in BOOLEAN :
          op' = [kind |-> r.kind, ref |-> r.ref, pc |-> FirstStep(r), victim |-> 0, ok |-> ok]
    BY <1>2, Zenon DEF Acquire
  <1> QED BY <1>1, <1>3 DEF Request, Op

\* The free gate is a value of the type.
LEMMA NoOpMoves == NoOp \in Op /\ NoOp.kind = "none" /\ NoOp.pc = "idle"
  BY DEF NoOp, Op, PCs

-----------------------------------------------------------------------------
(***************************************************************************)
(* The initial state                                                       *)
(***************************************************************************)

\* The invariant holds when the service starts.
LEMMA InitEstablishes == Init => IInv
<1> SUFFICES ASSUME Init PROVE IInv
  OBVIOUS
<1>1. TypeOK
  <2>1. queue \subseteq Request
    BY DEF Init, Request, Kinds
  <2>2. op \in Op
    BY NoOpMoves DEF Init
  <2>3. procs \in [Gens -> ProcStates]
    BY DEF Init, ProcStates
  <2>4. events \in 0 .. MaxEvents
    BY MaxEventsAssumption DEF Init
  <2>5. backoff \in {"none", "pending", "elapsed"} /\ guard \in BOOLEAN
    BY DEF Init
  <2>6. pages \in 0 .. 1 /\ lastAllowed \in Nat
    BY DEF Init
  <2>7. halted \in BOOLEAN
    BY DEF Init
  <2> QED BY <2>1, <2>2, <2>3, <2>4, <2>5, <2>6, <2>7 DEF Init, TypeOK
<1>2. OpInv /\ LaunchInv
  BY NoOpMoves DEF Init, OpInv, LaunchInv
<1>3. ProcInv
  BY NoOpMoves DEF Init, ProcInv, Live, Gens
<1>4. StopFlagNamesThisBrowser /\ RecoveryInv /\ HaltInv
  BY DEF Init, StopFlagNamesThisBrowser, RecoveryInv, NoRestartPlannedWhileHeld, HaltInv,
         PageSwitch
<1> QED BY <1>1, <1>2, <1>3, <1>4 DEF IInv

-----------------------------------------------------------------------------
(***************************************************************************)
(* Types                                                                   *)
(***************************************************************************)

\* Every step keeps the types.
LEMMA TypeKept == IInv /\ [Next]_vars => TypeOK'
<1> SUFFICES ASSUME IInv, [Next]_vars PROVE TypeOK'
  OBVIOUS
<1>0. TypeOK /\ LaunchInv
  BY DEF IInv
<1> USE DEF lifeVars, recVars, holdVars
<1>1. ASSUME NEW kind \in UserKinds, NEW c \in Callers, Call(kind, c) PROVE TypeOK'
  <2>1. [kind |-> kind, ref |-> c] \in Request
    BY UserKindsAssumption, CallersAssumption DEF Request, Kinds, PageKinds, RecoverKinds
  <2>2. queue' \subseteq Request
    BY <1>0, <1>1, <2>1 DEF Call, TypeOK
  <2>3. recoveryEpoch' \in Nat /\ recoveryCancel' \in Nat /\ manuallyStopped' \in BOOLEAN
          /\ UNCHANGED <<sleepers, backoff, deadlineOf>>
    <3>1. CASE kind = "stop"
      BY <1>0, <1>1, <3>1 DEF Call, CancelRecovery, TypeOK
    <3>2. CASE kind # "stop"
      BY <1>0, <1>1, <3>2 DEF Call, TypeOK
    <3> QED BY <3>1, <3>2
  <2>4. events' \in 0 .. MaxEvents
    BY <1>0, <1>1, MaxEventsAssumption DEF Call, Event, TypeOK
  <2> QED BY <1>0, <1>1, <2>2, <2>3, <2>4 DEF Call, TypeOK
<1>a. PageSwitch \in Request
  BY DEF PageSwitch, Request, Kinds, PageKinds
<1>2. CASE SchedulerCalls
  BY <1>0, <1>a, <1>2, MaxEventsAssumption DEF SchedulerCalls, Event, TypeOK
<1>b. CASE SchedulerGoesOn
  BY <1>0, <1>a, <1>b DEF SchedulerGoesOn, TypeOK
<1>3. ASSUME TripGuard PROVE queue' \subseteq Request /\ guard' \in BOOLEAN
                             /\ recoveryEpoch' \in Nat /\ recoveryCancel' \in Nat
                             /\ deadlineOf' \in Nat /\ sleepers' = sleepers
                             /\ backoff' \in {"none", "pending", "elapsed"}
  <2>1. CASE guard
    BY <1>0, <1>3, <2>1 DEF TripGuard, TypeOK
  <2>2. CASE ~guard
    <3>1. [kind |-> "guardstop", ref |-> recoveryEpoch] \in Request
      BY <1>0 DEF TypeOK, Request, Kinds
    <3> QED BY <1>0, <1>3, <2>2, <3>1 DEF TripGuard, TypeOK
  <2> QED BY <2>1, <2>2
<1>4. CASE Rejected
  <2>1. events' \in 0 .. MaxEvents
    BY <1>0, <1>4, MaxEventsAssumption DEF Rejected, Event, TypeOK
  <2> QED BY <1>0, <1>3, <1>4, <2>1 DEF Rejected, TypeOK
<1>5. ASSUME NEW m \in watching, Complain(m) PROVE TypeOK'
  BY <1>0, <1>5, MaxEventsAssumption, GenerationsAssumption
     DEF Complain, Event, TypeOK, Gens, Request, Kinds, RecoverKinds, AutoKinds
<1>6. ASSUME NEW m \in watching, StableRun(m) PROVE TypeOK'
  BY <1>0, <1>6 DEF StableRun, SetBackoff, TypeOK
<1>7. ASSUME NEW m \in watching, MonitorEnds(m) PROVE TypeOK'
  BY <1>0, <1>7 DEF MonitorEnds, TypeOK
<1>8. ASSUME NEW r \in queue, Expire(r) PROVE TypeOK'
  BY <1>0, <1>8 DEF Expire, TypeOK
<1>9. ASSUME NEW r \in queue, Acquire(r) PROVE TypeOK'
  <2>1. CASE Cancelled(r)
    BY <1>0, <1>9, <2>1 DEF Acquire, TypeOK
  <2>2. CASE ~Cancelled(r)
    <3>1. op' \in Op
      BY <1>0, <1>9, <2>2, AcquireMoves DEF TypeOK
    <3>2. recoveryEpoch' \in Nat /\ recoveryCancel' \in Nat
            /\ UNCHANGED <<sleepers, backoff, deadlineOf>>
      BY <1>0, <1>9, <2>2 DEF Acquire, CancelRecovery, TypeOK
    <3>3. manuallyStopped' \in BOOLEAN /\ halted' \in BOOLEAN
      <4>1. (halted /\ r.kind \notin {"start", "restart", "recover", "page"}) \in BOOLEAN
        OBVIOUS
      <4> QED BY <1>0, <1>9, <2>2, <4>1, Zenon DEF Acquire, TypeOK
    <3>4. lastAllowed' \in Nat /\ pages' = pages
      BY <1>0, <1>9, <2>2 DEF Acquire, TypeOK
    <3> QED BY <1>0, <1>9, <3>1, <3>2, <3>3, <3>4 DEF Acquire, TypeOK
  <2> QED BY <2>1, <2>2
<1>10. CASE ShowPage
  <2>1. op' \in Op
    BY <1>0, <1>10, GoToMoves, ReturnMoves DEF ShowPage, TypeOK, PCs
  <2> QED BY <1>0, <1>10, <2>1 DEF ShowPage, TypeOK
<1>11. CASE Recover
  <2>1. CASE RecoverRefusedByStop \/ RecoverInBackoff
    BY <1>0, <1>11, <2>1, ReturnMoves
       DEF Recover, RecoverRefusedByStop, RecoverInBackoff, TypeOK
  <2>2. CASE RecoverRefusedByGuard
    BY <1>0, <1>11, <2>2, ReturnMoves DEF Recover, RecoverRefusedByGuard, SetBackoff, TypeOK
  <2>4. CASE RecoverOverBudget
    BY <1>0, <1>11, <2>4, ReturnMoves DEF Recover, RecoverOverBudget, SetBackoff, TypeOK
  <2>3. CASE RecoverRuns
    BY <1>0, <1>11, <2>3, GoToMoves DEF Recover, RecoverRuns, TypeOK, PCs
  <2> QED BY <1>11, <2>1, <2>2, <2>3, <2>4 DEF Recover
<1>12. CASE Reload
  <2>1. op' \in Op
    BY <1>0, <1>12, GoToMoves, LeaveMoves DEF Reload, TypeOK, PCs
  <2> QED BY <1>0, <1>12, <2>1 DEF Reload, TypeOK
<1>13. CASE Restart
  <2>1. op' \in Op
    BY <1>0, <1>13, GoToMoves, LeaveMoves DEF Restart, TypeOK, PCs
  <2> QED BY <1>0, <1>13, <2>1 DEF Restart, TypeOK
<1>14. CASE Stop
  <2>1. CASE StopIdle
    <3>1. op' \in Op
      BY <1>0, <2>1, StoppedMoves DEF StopIdle, TypeOK
    <3> QED BY <1>0, <1>14, <2>1, <3>1 DEF Stop, StopIdle, TypeOK
  <2>2. CASE StopRunning
    <3>1. op' \in Op
      BY <1>0, <1>14, <2>2, KillingMoves
    <3>2. procs' \in [Gens -> ProcStates]
      BY <1>0, <2>2 DEF StopRunning, TypeOK, ProcStates
    <3> QED BY <1>0, <1>14, <2>2, <3>1, <3>2 DEF Stop, StopRunning, TypeOK
  <2> QED BY <1>14, <2>1, <2>2 DEF Stop
<1>15. CASE StopCompletes
  <2>1. op' \in Op
    BY <1>0, <1>15, StoppedMoves DEF StopCompletes, TypeOK
  <2> QED BY <1>0, <1>15, <2>1 DEF StopCompletes, TypeOK
<1>16. CASE ClearSession
  <2>1. op' \in Op
    BY <1>0, <1>16, GoToMoves, ReturnMoves DEF ClearSession, TypeOK, PCs
  <2>2. lastAllowed' \in Nat
    <3>1. lastAllowed' = lastAllowed \/ lastAllowed' = 0
      BY <1>16 DEF ClearSession
    <3> QED BY <1>0, <3>1 DEF TypeOK
  <2>3. guard' \in BOOLEAN /\ manuallyStopped' \in BOOLEAN /\ halted' \in BOOLEAN
    BY <1>0, <1>16 DEF ClearSession, TypeOK
  <2> QED BY <1>0, <1>16, <2>1, <2>2, <2>3 DEF ClearSession, TypeOK
<1>17. CASE Start
  <2>1. op' \in Op
    BY <1>0, <1>17, GoToMoves, LeaveMoves DEF Start, TypeOK, PCs
  <2> QED BY <1>0, <1>17, <2>1 DEF Start, TypeOK
<1>18. CASE Preflight
  <2>1. op' \in Op
    BY <1>0, <1>18, GoToMoves, LeaveMoves DEF Preflight, TypeOK, PCs
  <2>2. CASE TripGuard
    BY <1>0, <1>3, <1>18, <2>1, <2>2 DEF Preflight, TypeOK
  <2>3. CASE UNCHANGED <<queue, guard, recVars>>
    BY <1>0, <1>18, <2>1, <2>3 DEF Preflight, TypeOK
  <2> QED BY <1>18, <2>2, <2>3 DEF Preflight
<1>19. CASE Exec
  <2>1. op' \in Op
    BY <1>0, <1>19, GoToMoves, LeaveMoves DEF Exec, TypeOK, PCs
  <2>2. procs' \in [Gens -> ProcStates]
    BY <1>0, <1>19 DEF Exec, TypeOK, ProcStates
  <2> QED BY <1>0, <1>19, <2>1, <2>2 DEF Exec, TypeOK
<1>20. CASE Publish
  <2>1. op' \in Op
    BY <1>0, <1>20, LeaveMoves DEF Publish, TypeOK
  <2>2. generation + 1 \in Gens
    BY <1>0, <1>20, GenerationsAssumption DEF Publish, At, LaunchInv, TypeOK, Gens
  <2>3. watching' \subseteq [kind : MonitorKinds, ref : Gens]
    BY <1>0, <1>20, <2>2 DEF Publish, NewGeneration, TypeOK
  <2> QED BY <1>0, <1>20, <2>1, <2>2, <2>3 DEF Publish, NewGeneration, TypeOK
<1>21. CASE Settle
  <2>1. op' \in Op
    BY <1>0, <1>21, GoToMoves DEF Settle, TypeOK, PCs
  <2> QED BY <1>0, <1>21, <2>1 DEF Settle, SetBackoff, TypeOK
<1>22. CASE Finish
  <2>1. op' \in Op
    BY <1>22, NoOpMoves DEF Finish
  <2>2. halted' \in BOOLEAN /\ lastAllowed' \in Nat
    <3>1. generation \in Nat /\ SchedulerMay \in Nat
      BY <1>0, GenerationsAssumption DEF TypeOK, Gens, SchedulerMay, Queued, InTheGate
    <3> QED BY <1>0, <1>22, <3>1 DEF Finish, TypeOK
  <2> QED BY <1>0, <1>22, <2>1, <2>2 DEF Finish, TypeOK
<1>23. CASE StopFails
  <2>1. op' \in Op
    BY <1>0, <1>23, LeaveMoves DEF StopFails, TypeOK
  <2> QED BY <1>0, <1>23, <2>1 DEF StopFails, TypeOK
<1>24. ASSUME NEW g \in Gens, Crash(g) PROVE TypeOK'
  BY <1>0, <1>24, MaxEventsAssumption DEF Crash, Event, ProcStates, TypeOK
<1>25. ASSUME NEW g \in Gens, KillLands(g) PROVE TypeOK'
  BY <1>0, <1>25 DEF KillLands, ProcStates, TypeOK
<1>26. ASSUME NEW g \in Gens, Reap(g) PROVE TypeOK'
  <2>1. CASE ExpectedExit(g)
    BY <1>0, <1>26, <2>1 DEF Reap, ExpectedExit, ProcStates, TypeOK
  <2>2. CASE UnexpectedExit(g)
    BY <1>0, <1>26, <2>2 DEF Reap, UnexpectedExit, SetBackoff, ProcStates, TypeOK
  <2> QED BY <1>26, <2>1, <2>2 DEF Reap
<1>27. ASSUME NEW g \in Gens, CloseDone(g) PROVE TypeOK'
  BY <1>0, <1>27 DEF CloseDone, ProcStates, TypeOK
<1>28. ASSUME NEW g \in Gens, ScheduleRecovery(g) PROVE TypeOK'
  <2>1. procs' \in [Gens -> ProcStates]
    BY <1>0, <1>28 DEF ScheduleRecovery, ProcStates, TypeOK
  <2>2. /\ recoveryEpoch' \in Nat /\ recoveryCancel' \in Nat /\ deadlineOf' \in Nat
        /\ sleepers' \subseteq Nat /\ backoff' = backoff
    <3>1. CASE MayPlan
      <4>1. recoveryEpoch + 1 \in Nat /\ sleepers \subseteq Nat
        BY <1>0 DEF TypeOK
      <4>2. /\ recoveryEpoch' = recoveryEpoch + 1 /\ recoveryCancel' = recoveryEpoch + 1
            /\ deadlineOf' = recoveryEpoch + 1 /\ backoff' = backoff
            /\ sleepers' = sleepers \cup {recoveryEpoch + 1}
        BY <1>28, <3>1 DEF ScheduleRecovery
      <4> QED BY <4>1, <4>2
    <3>2. CASE ~MayPlan
      BY <1>0, <1>28, <3>2 DEF ScheduleRecovery, TypeOK
    <3> QED BY <3>1, <3>2
  <2> QED BY <1>0, <1>28, <2>1, <2>2 DEF ScheduleRecovery, TypeOK
<1>29. ASSUME NEW e \in sleepers, TimerFires(e) PROVE TypeOK'
  BY <1>0, <1>29 DEF TimerFires, TypeOK, Request, Kinds, RecoverKinds, AutoKinds
<1>30. ASSUME NEW e \in sleepers, TimerCancelled(e) PROVE TypeOK'
  BY <1>0, <1>30 DEF TimerCancelled, TypeOK
<1>31. CASE BackoffElapses
  BY <1>0, <1>31 DEF BackoffElapses, TypeOK
<1>32. CASE UNCHANGED vars
  BY <1>0, <1>32 DEF vars, TypeOK
<1> QED
  BY <1>1, <1>2, <1>b, <1>4, <1>5, <1>6, <1>7, <1>8, <1>9, <1>10, <1>11, <1>12, <1>13, <1>14,
     <1>15, <1>16, <1>17, <1>18, <1>19, <1>20, <1>21, <1>22, <1>23, <1>24, <1>25, <1>26,
     <1>27, <1>28, <1>29, <1>30, <1>31, <1>32 DEF Next, Gated, Waits

-----------------------------------------------------------------------------
(***************************************************************************)
(* Steps taken outside the gate and away from the process                  *)
(***************************************************************************)

Bystander ==
  \/ \E kind \in UserKinds, c \in Callers : Call(kind, c)
  \/ SchedulerCalls \/ SchedulerGoesOn
  \/ Rejected
  \/ \E m \in watching : Complain(m) \/ StableRun(m) \/ MonitorEnds(m)
  \/ \E r \in queue : Expire(r)
  \/ \E e \in sleepers : TimerFires(e) \/ TimerCancelled(e)
  \/ BackoffElapses
  \/ UNCHANGED vars

\* Callers, monitors, timers and guard trips touch neither the holder of the gate
\* nor the process, and none of them forgets a manual stop.
LEMMA BystanderKeeps ==
  ASSUME Bystander
  PROVE  /\ UNCHANGED <<op, cmd, generation, procs, stopping, halted, lastAllowed>>
         /\ manuallyStopped => manuallyStopped'
<1> USE DEF lifeVars, holdVars
<1>1. ASSUME NEW kind \in UserKinds, NEW c \in Callers, Call(kind, c)
      PROVE  /\ UNCHANGED <<op, cmd, generation, procs, stopping, halted, lastAllowed>>
             /\ manuallyStopped => manuallyStopped'
  BY <1>1 DEF Call
<1>2. CASE SchedulerCalls \/ SchedulerGoesOn \/ Rejected \/ BackoffElapses \/ UNCHANGED vars
  BY <1>2 DEF SchedulerCalls, SchedulerGoesOn, Rejected, BackoffElapses, vars
<1>3. ASSUME NEW m \in watching, Complain(m) \/ StableRun(m) \/ MonitorEnds(m)
      PROVE  UNCHANGED <<op, lifeVars, manuallyStopped, halted, lastAllowed>>
  BY <1>3 DEF Complain, StableRun, MonitorEnds
<1>4. ASSUME NEW r \in queue, Expire(r)
      PROVE  UNCHANGED <<op, lifeVars, manuallyStopped, halted, lastAllowed>>
  BY <1>4 DEF Expire
<1>5. ASSUME NEW e \in sleepers, TimerFires(e) \/ TimerCancelled(e)
      PROVE  UNCHANGED <<op, lifeVars, manuallyStopped, halted, lastAllowed>>
  BY <1>5 DEF TimerFires, TimerCancelled
<1> QED BY <1>1, <1>2, <1>3, <1>4, <1>5 DEF Bystander

\* The other steps: the holder of the gate, its successor, the process and wait.
LEMMA StepCases ==
  ASSUME [Next]_vars
  PROVE  \/ Bystander
         \/ \E r \in queue : Acquire(r)
         \/ Gated
         \/ StopFails
         \/ \E g \in Gens : Crash(g) \/ KillLands(g) \/ Reap(g) \/ CloseDone(g)
                              \/ ScheduleRecovery(g)
  BY DEF Next, Bystander, Waits

-----------------------------------------------------------------------------
(***************************************************************************)
(* Where an operation is, and what it finds there                          *)
(***************************************************************************)

\* An operation to stop never launches a browser.
LEMMA OpKept == IInv /\ [Next]_vars => OpInv'
<1> SUFFICES ASSUME IInv, [Next]_vars PROVE OpInv'
  OBVIOUS
<1>0. op \in Op /\ TypeOK /\ OpInv
  BY DEF IInv, TypeOK
<1> USE <1>0
<1>1. CASE Bystander
  BY <1>1, BystanderKeeps DEF OpInv
<1>2. ASSUME NEW r \in queue, Acquire(r) PROVE OpInv'
  <2>1. CASE Cancelled(r)
    BY <1>2, <2>1 DEF Acquire, OpInv
  <2>2. CASE ~Cancelled(r)
    <3>1. r \in Request /\ r.kind \in Kinds
      BY DEF TypeOK, Request
    <3>2. op'.kind = r.kind /\ op'.pc = FirstStep(r)
      BY <1>2, <2>2, <3>1, AcquireMoves
    <3>3. FirstStep(r) # "idle" /\ (r.kind \in {"stop", "guardstop"} => FirstStep(r) = "stop")
      BY DEF FirstStep, PageKinds
    <3>4. r.kind # "none"
      BY <3>1 DEF Kinds, PageKinds, RecoverKinds, AutoKinds, MonitorKinds
    <3> QED BY <3>2, <3>3, <3>4 DEF OpInv
  <2> QED BY <2>1, <2>2
<1>3. CASE ShowPage
  BY <1>3, GoToMoves, ReturnMoves DEF ShowPage, At, OpInv, PCs
<1>4. CASE Recover
  BY <1>4, GoToMoves, ReturnMoves
     DEF Recover, RecoverRefusedByStop, RecoverRefusedByGuard, RecoverInBackoff,
         RecoverOverBudget, RecoverRuns, At, OpInv, PCs
<1>5. CASE Reload \/ Restart
  BY <1>5, GoToMoves, LeaveMoves DEF Reload, Restart, At, OpInv, PCs
<1>6. CASE Stop
  <2>1. CASE StopIdle
    BY <1>6, <2>1, StoppedMoves DEF Stop, StopIdle, At, OpInv
  <2>2. CASE StopRunning
    BY <1>6, <2>2, KillingMoves DEF Stop, At, OpInv
  <2> QED BY <1>6, <2>1, <2>2 DEF Stop
<1>7. CASE StopCompletes
  BY <1>7, StoppedMoves DEF StopCompletes, At, OpInv
<1>8. CASE ClearSession
  BY <1>8, GoToMoves, ReturnMoves DEF ClearSession, At, OpInv, PCs
<1>9. CASE Start \/ Exec
  BY <1>9, GoToMoves, LeaveMoves DEF Start, Exec, At, OpInv, PCs
<1>10. CASE Preflight
  BY <1>10, GoToMoves, LeaveMoves DEF Preflight, At, OpInv, PCs
<1>11. CASE Publish \/ StopFails
  BY <1>11, LeaveMoves
     DEF Publish, StopFails, At, OpInv, RecoverKinds, AutoKinds, MonitorKinds
<1>12. CASE Settle
  BY <1>12, GoToMoves DEF Settle, At, OpInv, PCs
<1>13. CASE Finish
  BY <1>13, NoOpMoves DEF Finish, OpInv
<1>14. ASSUME NEW g \in Gens, Crash(g) \/ KillLands(g) \/ Reap(g) \/ CloseDone(g)
                                \/ ScheduleRecovery(g)
       PROVE  OpInv'
  BY <1>14 DEF Crash, KillLands, Reap, CloseDone, ScheduleRecovery, OpInv
<1> QED
  BY <1>1, <1>2, <1>3, <1>4, <1>5, <1>6, <1>7, <1>8, <1>9, <1>10, <1>11, <1>12, <1>13,
     <1>14, StepCases DEF Gated

\* The process a Stop has waited for is no longer the published one.
LEMMA VictimUnpublished ==
  ASSUME TypeOK, LaunchInv, ProcInv, StopCompletes
  PROVE  cmd = 0
<1>1. cmd \in {0, op.victim}
  BY DEF LaunchInv, StopCompletes, At
<1>2. cmd # 0 => procs[cmd] \in Live
  BY DEF ProcInv
<1> QED BY <1>1, <1>2 DEF StopCompletes, VictimIsDone, DoneClosed, Live

\* Whoever prepares, runs or publishes a process, or clears the session, finds none
\* published, and a process is only published while one more is allowed.
LEMMA LaunchKept == IInv /\ [Next]_vars => LaunchInv'
<1> SUFFICES ASSUME IInv, [Next]_vars PROVE LaunchInv'
  OBVIOUS
<1>0. op \in Op /\ TypeOK /\ OpInv /\ LaunchInv /\ ProcInv
  BY DEF IInv, TypeOK
<1> USE <1>0 DEF lifeVars
<1>1. CASE Bystander
  BY <1>1, BystanderKeeps DEF LaunchInv
<1>2. ASSUME NEW r \in queue, Acquire(r) PROVE LaunchInv'
  <2>1. CASE Cancelled(r)
    BY <1>2, <2>1 DEF Acquire, LaunchInv
  <2>2. CASE ~Cancelled(r)
    <3>1. op'.kind = r.kind /\ op'.pc = FirstStep(r)
      BY <1>2, <2>2, AcquireMoves DEF TypeOK
    <3>2. FirstStep(r) \notin {"preflight", "exec", "publish", "clear", "killing"}
            /\ (r.kind = "stop" => FirstStep(r) = "stop")
      BY DEF FirstStep, PageKinds
    <3> QED BY <3>1, <3>2 DEF LaunchInv
  <2> QED BY <2>1, <2>2
<1>3. CASE ShowPage
  BY <1>3, GoToMoves, ReturnMoves DEF ShowPage, At, OpInv, LaunchInv, PCs
<1>4. CASE Recover
  BY <1>4, GoToMoves, ReturnMoves
     DEF Recover, RecoverRefusedByStop, RecoverRefusedByGuard, RecoverInBackoff,
         RecoverOverBudget, RecoverRuns, At, OpInv, LaunchInv, PCs
<1>5. CASE Reload \/ Restart
  BY <1>5, GoToMoves, LeaveMoves DEF Reload, Restart, At, OpInv, LaunchInv, PCs
<1>6. CASE Stop
  <2>1. CASE StopIdle
    BY <1>6, <2>1, StoppedMoves DEF Stop, StopIdle, LaunchInv
  <2>2. CASE StopRunning
    <3>1. cmd' = cmd /\ cmd # 0
      BY <1>6, <2>2 DEF Stop, StopRunning
    <3> QED BY <1>6, <2>2, <3>1, KillingMoves DEF LaunchInv
  <2> QED BY <1>6, <2>1, <2>2 DEF Stop
<1>7. CASE StopCompletes
  BY <1>7, StoppedMoves, VictimUnpublished DEF StopCompletes, LaunchInv
<1>8. CASE ClearSession
  BY <1>8, GoToMoves, ReturnMoves DEF ClearSession, At, LaunchInv, PCs
<1>9. CASE Start
  BY <1>9, GoToMoves, LeaveMoves DEF Start, AlreadyRunning, At, OpInv, LaunchInv, PCs
<1>10. CASE Preflight
  BY <1>10, GoToMoves, LeaveMoves DEF Preflight, At, OpInv, LaunchInv, PCs
<1>11. CASE Exec
  BY <1>11, GoToMoves, LeaveMoves DEF Exec, At, OpInv, LaunchInv, PCs
<1>12. CASE Publish
  BY <1>12, LeaveMoves DEF Publish, At, OpInv, LaunchInv
<1>13. CASE Settle
  <2>1. op'.kind = op.kind /\ op'.pc = "finish" /\ op.kind # "stop"
    BY <1>13, GoToMoves DEF Settle, At, OpInv, PCs
  <2> QED BY <2>1 DEF LaunchInv
<1>14. CASE Finish
  BY <1>14, NoOpMoves DEF Finish, LaunchInv
<1>15. CASE StopFails
  BY <1>15, LeaveMoves DEF StopFails, LaunchInv
<1>16. ASSUME NEW g \in Gens, Crash(g) \/ KillLands(g) \/ CloseDone(g) \/ ScheduleRecovery(g)
       PROVE  LaunchInv'
  BY <1>16 DEF Crash, KillLands, CloseDone, ScheduleRecovery, LaunchInv
<1>17. ASSUME NEW g \in Gens, Reap(g) PROVE LaunchInv'
  BY <1>17 DEF Reap, LaunchInv
<1> QED
  BY <1>1, <1>2, <1>3, <1>4, <1>5, <1>6, <1>7, <1>8, <1>9, <1>10, <1>11, <1>12, <1>13,
     <1>14, <1>15, <1>16, <1>17, StepCases DEF Gated

-----------------------------------------------------------------------------
(***************************************************************************)
(* The process                                                             *)
(***************************************************************************)

\* A step that leaves the process alone keeps ProcInv, unless it
\* enters or leaves "publish".
LEMMA ProcFrame ==
  ASSUME ProcInv, UNCHANGED <<cmd, generation, procs>>,
         op'.pc = "publish" <=> op.pc = "publish"
  PROVE  ProcInv'
  BY DEF ProcInv

\* There is one process: the published one or the one that is about to be.
LEMMA ProcKept == IInv /\ [Next]_vars => ProcInv'
<1> SUFFICES ASSUME IInv, [Next]_vars PROVE ProcInv'
  OBVIOUS
<1>0. op \in Op /\ TypeOK /\ LaunchInv /\ ProcInv
  BY DEF IInv, TypeOK
<1>a. generation \in Nat /\ cmd \in Nat
  BY <1>0, GenerationsAssumption DEF TypeOK, Gens
<1>b. procs \in [Gens -> ProcStates]
  BY <1>0 DEF TypeOK
<1> USE DEF lifeVars
<1>1. CASE Bystander
  BY <1>0, <1>1, BystanderKeeps, ProcFrame
<1>2. ASSUME NEW r \in queue, Acquire(r) PROVE ProcInv'
  <2>1. CASE Cancelled(r)
    BY <1>0, <1>2, <2>1, ProcFrame DEF Acquire
  <2>2. CASE ~Cancelled(r)
    <3>1. op'.pc = FirstStep(r) /\ FirstStep(r) # "publish"
      BY <1>0, <1>2, <2>2, AcquireMoves DEF TypeOK, FirstStep
    <3>2. op.pc # "publish"
      BY <1>2, NoOpMoves DEF Acquire
    <3> QED BY <1>0, <1>2, <3>1, <3>2, ProcFrame DEF Acquire
  <2> QED BY <2>1, <2>2
<1>3. CASE ShowPage
  BY <1>0, <1>3, GoToMoves, ReturnMoves, ProcFrame DEF ShowPage, At, PCs
<1>4. CASE Recover
  <2>1. op.pc # "publish" /\ op'.pc # "publish"
    BY <1>0, <1>4, GoToMoves, ReturnMoves
       DEF Recover, RecoverRefusedByStop, RecoverRefusedByGuard, RecoverInBackoff,
           RecoverOverBudget, RecoverRuns, At, PCs
  <2> QED BY <1>0, <1>4, <2>1, ProcFrame DEF Recover
<1>5. CASE Reload \/ Restart
  BY <1>0, <1>5, GoToMoves, LeaveMoves, ProcFrame DEF Reload, Restart, At, PCs
<1>6. CASE StopCompletes
  BY <1>0, <1>6, StoppedMoves, ProcFrame DEF StopCompletes, At
<1>7. CASE ClearSession
  BY <1>0, <1>7, GoToMoves, ReturnMoves, ProcFrame DEF ClearSession, At, PCs
<1>8. CASE Start
  BY <1>0, <1>8, GoToMoves, LeaveMoves, ProcFrame DEF Start, At, PCs
<1>9. CASE Preflight
  BY <1>0, <1>9, GoToMoves, LeaveMoves, ProcFrame DEF Preflight, At, PCs
<1>10. CASE Settle
  BY <1>0, <1>10, GoToMoves, ProcFrame DEF Settle, At, PCs
<1>11. CASE Finish
  BY <1>0, <1>11, NoOpMoves, ProcFrame DEF Finish, Completed, At
<1>12. CASE StopFails
  BY <1>0, <1>12, LeaveMoves, ProcFrame DEF StopFails, At
<1>13. CASE Stop
  <2>1. CASE StopIdle
    BY <1>0, <1>13, <2>1, StoppedMoves, ProcFrame DEF Stop, StopIdle, At
  <2>2. CASE StopRunning
    <3>1. /\ cmd' = cmd /\ generation' = generation
          /\ procs' = [procs EXCEPT ![cmd] = IF @ = "alive" THEN "killed" ELSE @]
      BY <1>13, <2>2 DEF Stop, StopRunning
    <3>2. \A g \in Gens : /\ procs'[g] \in Live <=> procs[g] \in Live
                          /\ procs'[g] = "none" <=> procs[g] = "none"
      BY <1>b, <3>1 DEF Live
    <3>3. cmd \in Gens
      BY <1>0, <2>2 DEF StopRunning, TypeOK
    <3>4. op.pc # "publish" /\ op'.pc # "publish"
      BY <1>0, <1>13, <2>2, KillingMoves DEF Stop, At
    <3> QED BY <1>0, <3>1, <3>2, <3>3, <3>4 DEF ProcInv
  <2> QED BY <1>13, <2>1, <2>2 DEF Stop
<1>14. CASE Exec
  <2>1. CASE Leave(FALSE) /\ UNCHANGED procs
    BY <1>0, <1>14, <2>1, LeaveMoves, ProcFrame DEF Exec, At
  <2>2. CASE /\ generation < MaxGenerations
             /\ procs' = [procs EXCEPT ![generation + 1] = "alive"]
             /\ GoTo("publish")
    <3>1. cmd = 0 /\ cmd' = cmd /\ generation' = generation
      BY <1>0, <1>14 DEF Exec, At, LaunchInv
    <3>2. op.pc # "publish" /\ op'.pc = "publish"
      BY <1>0, <1>14, <2>2, GoToMoves DEF Exec, At, PCs
    <3>3. generation + 1 \in Gens
      BY <1>a, <2>2, GenerationsAssumption DEF Gens
    <3> QED BY <1>0, <1>a, <1>b, <2>2, <3>1, <3>2, <3>3 DEF ProcInv, Gens, Live
  <2> QED BY <1>14, <2>1, <2>2 DEF Exec
<1>15. CASE Publish
  <2>1. /\ op.pc = "publish" /\ cmd = 0 /\ procs' = procs
        /\ generation' = generation + 1 /\ cmd' = generation + 1
    BY <1>0, <1>15 DEF Publish, NewGeneration, At, LaunchInv
  <2>2. op'.pc # "publish"
    BY <1>0, <1>15, LeaveMoves DEF Publish
  <2>3. generation + 1 \in Gens
    BY <1>0, <1>a, <2>1, GenerationsAssumption DEF LaunchInv, Gens
  <2>4. procs[generation + 1] \in Live
    BY <1>0, <2>1 DEF ProcInv
  <2> QED BY <1>0, <1>a, <2>1, <2>2, <2>3, <2>4 DEF ProcInv, Gens
<1>16. ASSUME NEW g \in Gens, Crash(g) \/ KillLands(g) PROVE ProcInv'
  <2>1. /\ procs' = [procs EXCEPT ![g] = "exited"] /\ procs[g] \in Live
        /\ UNCHANGED <<op, cmd, generation>>
    BY <1>16 DEF Crash, KillLands, Live
  <2>2. \A h \in Gens : /\ procs'[h] \in Live <=> procs[h] \in Live
                        /\ procs'[h] = "none" <=> procs[h] = "none"
    BY <1>b, <2>1 DEF Live
  <2>3. cmd \in Gens \cup {0} /\ (op.pc = "publish" => generation + 1 \in Gens)
    BY <1>0, <1>a, GenerationsAssumption DEF TypeOK, LaunchInv, Gens
  <2> QED BY <1>0, <2>1, <2>2, <2>3 DEF ProcInv
<1>17. ASSUME NEW g \in Gens, Reap(g) PROVE ProcInv'
  <2>1. procs[g] = "exited" /\ g <= generation /\ UNCHANGED <<op, generation>>
    BY <1>17 DEF Reap
  <2>2. g = cmd /\ g \in Nat
    BY <1>0, <1>a, <2>1, GenerationsAssumption DEF ProcInv, Live, Gens
  <2>3. cmd' = 0
    BY <1>17, <2>2 DEF Reap
  <2>4. op.pc # "publish"
    BY <1>0, <2>2, GenerationsAssumption DEF LaunchInv, Gens
  <2>5. \A h \in Gens : h # g => procs'[h] = procs[h]
    BY <1>b, <1>17 DEF Reap, ExpectedExit, UnexpectedExit
  <2>6. procs'[g] \notin Live
    BY <1>b, <1>17 DEF Reap, ExpectedExit, UnexpectedExit, Live
  <2> QED BY <1>0, <1>a, <2>1, <2>2, <2>3, <2>4, <2>5, <2>6 DEF ProcInv
<1>18. ASSUME NEW g \in Gens, CloseDone(g) \/ ScheduleRecovery(g) PROVE ProcInv'
  <2>1. /\ procs[g] \notin Live /\ procs[g] # "none"
        /\ UNCHANGED <<op, cmd, generation>>
    BY <1>18 DEF CloseDone, ScheduleRecovery, Live
  <2>2. procs'[g] \notin Live
    BY <1>b, <1>18 DEF CloseDone, ScheduleRecovery, Live
  <2>3. \A h \in Gens : h # g => procs'[h] = procs[h]
    BY <1>b, <1>18 DEF CloseDone, ScheduleRecovery
  <2>4. cmd \in Gens \cup {0} /\ (op.pc = "publish" => generation + 1 \in Gens)
    BY <1>0, <1>a, GenerationsAssumption DEF TypeOK, LaunchInv, Gens
  <2>5. g > generation => op.pc = "publish" /\ g = generation + 1
    BY <1>0, <2>1 DEF ProcInv
  <2> QED BY <1>0, <2>1, <2>2, <2>3, <2>4, <2>5 DEF ProcInv
<1> QED
  BY <1>1, <1>2, <1>3, <1>4, <1>5, <1>6, <1>7, <1>8, <1>9, <1>10, <1>11, <1>12, <1>13,
     <1>14, <1>15, <1>16, <1>17, <1>18, StepCases DEF Gated

-----------------------------------------------------------------------------
(***************************************************************************)
(* The stop flag, planned restarts and the hold after a Stop               *)
(***************************************************************************)

\* The flag is set by the Stop that kills the published process and cleared when
\* that process is reaped, before another one is published.
LEMMA StopFlagKept == IInv /\ [Next]_vars => StopFlagNamesThisBrowser'
<1> SUFFICES ASSUME IInv, [Next]_vars PROVE StopFlagNamesThisBrowser'
  OBVIOUS
<1>0. TypeOK /\ LaunchInv /\ StopFlagNamesThisBrowser
  BY DEF IInv
<1>a. procs \in [Gens -> ProcStates] /\ cmd \in Gens \cup {0}
  BY <1>0 DEF TypeOK
<1> USE DEF lifeVars, StopFlagNamesThisBrowser
<1>1. CASE Bystander
  BY <1>0, <1>1, BystanderKeeps
<1>2. ASSUME NEW r \in queue, Acquire(r) PROVE StopFlagNamesThisBrowser'
  BY <1>0, <1>2 DEF Acquire
<1>3. CASE ShowPage \/ Recover \/ Reload \/ Restart \/ StopCompletes \/ ClearSession
             \/ Preflight \/ Settle \/ Finish \/ StopFails
  BY <1>0, <1>3
     DEF ShowPage, Recover, Reload, Restart, StopCompletes, ClearSession, Preflight, Settle,
         Finish, StopFails
<1>4. CASE Stop
  <2>1. CASE StopIdle
    BY <1>0, <1>4, <2>1 DEF Stop, StopIdle
  <2>2. CASE StopRunning
    BY <1>a, <1>4, <2>2 DEF Stop, StopRunning
  <2> QED BY <1>4, <2>1, <2>2 DEF Stop
<1>5. CASE Start
  BY <1>0, <1>5 DEF Start
<1>6. CASE Exec \/ Publish
  <2>1. cmd = 0
    BY <1>0, <1>6 DEF Exec, Publish, At, LaunchInv
  <2> QED BY <1>0, <1>6, <2>1 DEF Exec, Publish
<1>7. ASSUME NEW g \in Gens, Crash(g) \/ KillLands(g) \/ CloseDone(g) \/ ScheduleRecovery(g)
      PROVE  StopFlagNamesThisBrowser'
  <2>1. stopping' = stopping /\ cmd' = cmd
    BY <1>7 DEF Crash, KillLands, CloseDone, ScheduleRecovery
  <2>2. \A h \in Gens : procs[h] # "alive" => procs'[h] # "alive"
    BY <1>a, <1>7 DEF Crash, KillLands, CloseDone, ScheduleRecovery
  <2> QED BY <1>0, <1>a, <2>1, <2>2
<1>8. ASSUME NEW g \in Gens, Reap(g) PROVE StopFlagNamesThisBrowser'
  BY <1>8 DEF Reap, ExpectedExit, UnexpectedExit
<1> QED
  BY <1>1, <1>2, <1>3, <1>4, <1>5, <1>6, <1>7, <1>8, StepCases DEF Gated

\* What a guard trip leaves behind.
LEMMA TripGuardCancels ==
  ASSUME TripGuard, ~guard
  PROVE  recoveryCancel' = 0
  BY DEF TripGuard

\* A timer is only armed while neither hold is on; a Stop and a guard trip cancel it
\* in the step that sets theirs.
LEMMA RecoveryKept == IInv /\ [Next]_vars => RecoveryInv'
<1> SUFFICES ASSUME IInv, [Next]_vars PROVE RecoveryInv'
  OBVIOUS
<1>0. TypeOK /\ RecoveryInv
  BY DEF IInv
<1> USE <1>0 DEF recVars, RecoveryInv, NoRestartPlannedWhileHeld
<1>1. ASSUME NEW kind \in UserKinds, NEW c \in Callers, Call(kind, c) PROVE RecoveryInv'
  BY <1>1 DEF Call, CancelRecovery
<1>2. CASE SchedulerCalls \/ SchedulerGoesOn
  BY <1>2 DEF SchedulerCalls, SchedulerGoesOn
<1>3. CASE Rejected
  <2>1. recoveryCancel' = 0
    BY <1>3, TripGuardCancels DEF Rejected
  <2> QED BY <2>1
<1>4. ASSUME NEW m \in watching, Complain(m) \/ StableRun(m) \/ MonitorEnds(m)
      PROVE  RecoveryInv'
  BY <1>4 DEF Complain, StableRun, MonitorEnds, SetBackoff
<1>5. ASSUME NEW r \in queue, Expire(r) PROVE RecoveryInv'
  BY <1>5 DEF Expire
<1>6. ASSUME NEW r \in queue, Acquire(r) PROVE RecoveryInv'
  BY <1>6 DEF Acquire, CancelRecovery
<1>7. CASE ShowPage \/ Reload \/ Restart \/ Stop \/ StopCompletes \/ Start \/ Exec \/ Publish
             \/ Finish \/ StopFails
  <2>1. UNCHANGED <<recoveryEpoch, recoveryCancel, manuallyStopped, guard>>
    BY <1>7 DEF ShowPage, Reload, Restart, Stop, StopCompletes, Start, Exec, Publish, Finish,
         StopFails
  <2> QED BY <2>1
<1>8. CASE ClearSession
  <2>1. UNCHANGED <<recoveryEpoch, recoveryCancel>>
    BY <1>8 DEF ClearSession
  <2>2. CASE UNCHANGED <<manuallyStopped, guard>>
    BY <2>1, <2>2
  <2>3. CASE guard' = FALSE /\ manuallyStopped' = FALSE
    BY <2>1, <2>3
  <2> QED BY <1>8, <2>2, <2>3 DEF ClearSession
<1>9. CASE Recover
  <2>1. UNCHANGED <<recoveryCancel, recoveryEpoch, manuallyStopped, guard>>
    BY <1>9 DEF Recover, RecoverRefusedByStop, RecoverRefusedByGuard, RecoverInBackoff,
         RecoverOverBudget, RecoverRuns, SetBackoff
  <2> QED BY <2>1
<1>10. CASE Preflight
  <2>1. CASE UNCHANGED <<guard, recVars>>
    BY <1>10, <2>1 DEF Preflight
  <2>2. CASE TripGuard /\ ~guard
    BY <2>2, TripGuardCancels
  <2>3. CASE TripGuard /\ guard
    BY <1>10, <2>3 DEF Preflight, TripGuard
  <2> QED BY <1>10, <2>1, <2>2, <2>3 DEF Preflight
<1>11. CASE Settle
  BY <1>11 DEF Settle, SetBackoff
<1>12. ASSUME NEW g \in Gens, Crash(g) \/ KillLands(g) \/ CloseDone(g) PROVE RecoveryInv'
  BY <1>12 DEF Crash, KillLands, CloseDone
<1>13. ASSUME NEW g \in Gens, Reap(g) PROVE RecoveryInv'
  BY <1>13 DEF Reap, ExpectedExit, UnexpectedExit, SetBackoff
<1>14. ASSUME NEW g \in Gens, ScheduleRecovery(g) PROVE RecoveryInv'
  <2>1. CASE MayPlan
    BY <1>14, <2>1 DEF ScheduleRecovery, MayPlan
  <2>2. CASE ~MayPlan
    BY <1>14, <2>2 DEF ScheduleRecovery
  <2> QED BY <2>1, <2>2
<1>15. ASSUME NEW e \in sleepers, TimerFires(e) \/ TimerCancelled(e) PROVE RecoveryInv'
  BY <1>15 DEF TimerFires, TimerCancelled
<1>16. CASE BackoffElapses \/ UNCHANGED vars
  BY <1>16 DEF BackoffElapses, vars
<1> QED
  BY <1>1, <1>2, <1>3, <1>4, <1>5, <1>6, <1>7, <1>8, <1>9, <1>10, <1>11, <1>12, <1>13,
     <1>14, <1>15, <1>16 DEF Next, Gated, Waits

\* The guard's own Stop is the one request a trip adds.
LEMMA TripGuardQueues ==
  ASSUME TripGuard
  PROVE  \A r \in queue' : r \in queue \/ r.kind = "guardstop"
  BY DEF TripGuard

\* Nobody but the scheduler queues page switches of its kind, and of those there is
\* one; while the browser is stopped by hand none is added but by a round under way.
LEMMA QueueKept ==
  ASSUME IInv, [Next]_vars
  PROVE  /\ \A r \in queue' : r.kind = "schedule" => r = PageSwitch
         /\ \/ pages' = pages /\ \A r \in queue' : r.kind = "schedule" => r \in queue
            \/ ~manuallyStopped
            \/ pages = 1 /\ pages' = 0 /\ PageSwitch \notin queue
<1>0. TypeOK /\ HaltInv
  BY DEF IInv
<1> USE <1>0 DEF HaltInv, holdVars
<1> SUFFICES \/ pages' = pages /\ \A r \in queue' : r.kind = "schedule" => r \in queue
             \/ SchedulerCalls \/ SchedulerGoesOn
  BY DEF SchedulerCalls, SchedulerGoesOn, SchedulerWaits, PageSwitch
<1>1. ASSUME NEW kind \in UserKinds, NEW c \in Callers, Call(kind, c)
      PROVE  pages' = pages /\ \A r \in queue' : r.kind = "schedule" => r \in queue
  BY <1>1, UserKindsAssumption DEF Call
<1>2. CASE Rejected
  BY <1>2, TripGuardQueues DEF Rejected
<1>3. ASSUME NEW m \in watching, Complain(m) \/ StableRun(m) \/ MonitorEnds(m)
      PROVE  pages' = pages /\ \A r \in queue' : r.kind = "schedule" => r \in queue
  BY <1>3 DEF Complain, StableRun, MonitorEnds, TypeOK, MonitorKinds
<1>4. ASSUME NEW r \in queue, Expire(r) \/ Acquire(r)
      PROVE  pages' = pages /\ \A s \in queue' : s.kind = "schedule" => s \in queue
  BY <1>4 DEF Expire, Acquire
<1>5. ASSUME NEW e \in sleepers, TimerFires(e) \/ TimerCancelled(e)
      PROVE  pages' = pages /\ \A r \in queue' : r.kind = "schedule" => r \in queue
  BY <1>5 DEF TimerFires, TimerCancelled
<1>6. CASE Preflight
  <2>1. CASE UNCHANGED <<queue, guard, recVars>>
    BY <1>6, <2>1 DEF Preflight
  <2>2. CASE TripGuard
    BY <1>6, <2>2, TripGuardQueues DEF Preflight
  <2> QED BY <1>6, <2>1, <2>2 DEF Preflight
<1>7. CASE ShowPage \/ Recover \/ Reload \/ Restart \/ Stop \/ StopCompletes \/ ClearSession
             \/ Start \/ Exec \/ Publish \/ Settle \/ Finish \/ StopFails
  <2>1. pages' = pages /\ queue' = queue
    BY <1>7 DEF ShowPage, Recover, Reload, Restart, Stop, StopCompletes, ClearSession, Start,
         Exec, Publish, Settle, Finish, StopFails
  <2> QED BY <2>1
<1>8. ASSUME NEW g \in Gens, Crash(g) \/ KillLands(g) \/ Waits(g)
      PROVE  pages' = pages /\ queue' = queue
  BY <1>8 DEF Crash, KillLands, Waits, Reap, CloseDone, ScheduleRecovery
<1>9. CASE BackoffElapses \/ UNCHANGED vars
  BY <1>9 DEF BackoffElapses, vars
<1> QED BY <1>1, <1>2, <1>3, <1>4, <1>5, <1>6, <1>7, <1>8, <1>9 DEF Next, Gated

\* Launches left may only be used up.
LEMMA UsedUp ==
  ASSUME NEW g \in Nat, NEW may \in Nat, NEW last \in Nat, NEW rest \in Nat,
         g + may <= last, rest <= may
  PROVE  g + rest <= last
  OBVIOUS

\* A sum of three numbers is one.
LEMMA ThreeAreNat ==
  ASSUME NEW p \in Nat, NEW q \in Nat, NEW h \in Nat
  PROVE  p + q + h \in Nat
  OBVIOUS

\* A sum of three does not grow when none of its parts does, or when a queued switch
\* comes out of those the round had left.
LEMMA LessLeft ==
  ASSUME NEW p \in 0 .. 1, NEW q \in 0 .. 1, NEW h \in 0 .. 1,
         NEW pN \in 0 .. 1, NEW qN \in 0 .. 1, NEW hN \in 0 .. 1, NEW may, NEW mayN,
         may = p + q + h, mayN = pN + qN + hN, hN = 0 \/ h = 1,
         \/ pN = p /\ (qN = 0 \/ q = 1)
         \/ p = 1 /\ pN = 0 /\ q = 0
  PROVE  mayN <= may
  OBVIOUS

\* The launches left to the scheduler do not grow while the browser is stopped by
\* hand, unless a page switch of its own takes the gate from elsewhere than the queue.
LEMMA LaunchesLeft ==
  ASSUME IInv, [Next]_vars, manuallyStopped,
         op'.kind = "schedule" /\ op'.pc # "finish"
           => op.kind = "schedule" /\ op.pc # "finish"
  PROVE  SchedulerMay' <= SchedulerMay
<1>1. pages \in 0 .. 1 /\ pages' \in 0 .. 1
  BY TypeKept DEF IInv, TypeOK
<1>2. \/ pages' = pages /\ (PageSwitch \in queue' => PageSwitch \in queue)
      \/ pages = 1 /\ pages' = 0 /\ PageSwitch \notin queue
  BY QueueKept DEF PageSwitch
<1>3. InTheGate' = 0 \/ InTheGate = 1
  BY DEF InTheGate
<1>4. \/ pages' = pages /\ (Queued' = 0 \/ Queued = 1)
      \/ pages = 1 /\ pages' = 0 /\ Queued = 0
  BY <1>2 DEF Queued, PageSwitch
<1>5. InTheGate \in 0 .. 1 /\ Queued \in 0 .. 1
  BY DEF InTheGate, Queued
<1>6. InTheGate' \in 0 .. 1 /\ Queued' \in 0 .. 1
  BY DEF InTheGate, Queued, PageSwitch
<1>7. SchedulerMay = pages + Queued + InTheGate
  BY DEF SchedulerMay
<1>8. SchedulerMay' = pages' + Queued' + InTheGate'
  BY DEF SchedulerMay
<1> QED BY <1>1, <1>3, <1>4, <1>5, <1>6, <1>7, <1>8, LessLeft

\* What the gate lets through after a Stop: automatic recoveries, which the stop
\* refuses, operations that only take the browser down, and what the scheduler had left.
LEMMA HaltKept == IInv /\ [Next]_vars => HaltInv'
<1> SUFFICES ASSUME IInv, [Next]_vars PROVE HaltInv'
  OBVIOUS
<1>0. TypeOK /\ op \in Op /\ OpInv /\ LaunchInv /\ HaltInv
  BY DEF IInv, TypeOK
<1>a. \A r \in queue' : r.kind = "schedule" => r = PageSwitch
  BY QueueKept
<1>b. PageSwitch' = PageSwitch
  BY DEF PageSwitch
<1> SUFFICES ASSUME halted' PROVE HaltHolds'
  BY <1>a, <1>b DEF HaltInv
<1>c. generation \in Nat /\ lastAllowed \in Nat /\ SchedulerMay \in Nat /\ SchedulerMay' \in Nat
  <2>1. pages \in Nat /\ pages' \in Nat
    BY <1>0, TypeKept DEF TypeOK
  <2>3. SchedulerMay \in Nat
    BY <2>1 DEF SchedulerMay, Queued, InTheGate
  <2>4. SchedulerMay' \in Nat
    <3>1. Queued' \in Nat /\ InTheGate' \in Nat
      BY DEF Queued, InTheGate, PageSwitch
    <3>2. SchedulerMay' = pages' + Queued' + InTheGate'
      BY DEF SchedulerMay
    <3>3. pages' + Queued' + InTheGate' \in Nat
      BY <2>1, <3>1, ThreeAreNat
    <3> QED BY <3>2, <3>3, Zenon
  <2> QED BY <1>0, <2>3, <2>4, GenerationsAssumption DEF TypeOK, Gens
<1>d. ASSUME UNCHANGED <<generation, halted, lastAllowed>>, manuallyStopped',
             op'.kind = "schedule" /\ op'.pc # "finish"
               => op.kind = "schedule" /\ op.pc # "finish"
      PROVE  manuallyStopped' /\ generation' + SchedulerMay' <= lastAllowed'
  <2>1. manuallyStopped /\ generation + SchedulerMay <= lastAllowed
    BY <1>0, <1>d DEF HaltInv, HaltHolds
  <2>2. SchedulerMay' <= SchedulerMay
    BY <1>d, <2>1, LaunchesLeft
  <2>3. generation + SchedulerMay' <= lastAllowed
    BY <1>c, <2>1, <2>2, UsedUp
  <2> QED BY <1>d, <2>1, <2>3
<1> USE <1>0 DEF lifeVars, holdVars
<1>1. CASE Bystander
  <2>1. UNCHANGED <<op, generation, halted, lastAllowed>> /\ manuallyStopped'
    BY <1>1, BystanderKeeps DEF HaltInv, HaltHolds
  <2> QED BY <1>d, <2>1 DEF HaltInv, HaltHolds
<1>2. ASSUME NEW r \in queue, Acquire(r) PROVE HaltHolds'
  <2>1. CASE Cancelled(r)
    <3>1. UNCHANGED <<op, generation, halted, lastAllowed, manuallyStopped>>
      BY <1>2, <2>1 DEF Acquire
    <3> QED BY <1>d, <3>1 DEF HaltInv, HaltHolds
  <2>2. CASE ~Cancelled(r)
    <3>1. r \in Request /\ op'.kind = r.kind /\ op'.pc = FirstStep(r)
      BY <1>2, <2>2, AcquireMoves DEF TypeOK
    <3>2. /\ halted /\ r.kind \notin {"start", "restart", "recover", "page"}
          /\ lastAllowed' = lastAllowed /\ generation' = generation /\ op = NoOp
          /\ manuallyStopped' = manuallyStopped /\ pages' = pages /\ queue' = queue \ {r}
      BY <1>2, <2>2 DEF Acquire
    <3>3. manuallyStopped /\ generation + SchedulerMay <= lastAllowed
      BY <3>2 DEF HaltInv, HaltHolds
    <3>4. /\ r.kind \in AutoKinds => FirstStep(r) \in {"recover", "finish"}
          /\ r.kind = "reset" => FirstStep(r) = "stop"
      BY DEF FirstStep, AutoKinds, MonitorKinds, PageKinds
    <3>5. SchedulerMay' <= SchedulerMay
      <4>1. CASE r.kind = "schedule"
        <5>1. r = PageSwitch
          BY <4>1 DEF HaltInv
        <5>2. ~(op.kind = "schedule" /\ op.pc # "finish")
          BY <3>2, NoOpMoves
        <5>3. pages \in Nat
          BY DEF TypeOK
        <5> QED BY <1>b, <3>2, <5>1, <5>2, <5>3 DEF SchedulerMay, Queued, InTheGate
      <4>2. CASE r.kind # "schedule"
        BY <3>1, <3>3, <4>2, LaunchesLeft
      <4> QED BY <4>1, <4>2
    <3>6. generation' + SchedulerMay' <= lastAllowed'
      <4>1. generation + SchedulerMay' <= lastAllowed
        BY <1>c, <3>3, <3>5, UsedUp
      <4> QED BY <3>2, <4>1
    <3> QED BY <3>1, <3>2, <3>3, <3>4, <3>6 DEF HaltHolds
  <2> QED BY <2>1, <2>2
<1>3. CASE ShowPage \/ Reload \/ Restart \/ Start \/ Preflight \/ Exec \/ Settle
  <2>1. /\ op.pc \notin {"recover", "finish", "stop", "killing", "clear"}
        /\ UNCHANGED <<generation, halted, lastAllowed, manuallyStopped>>
    BY <1>3 DEF ShowPage, Reload, Restart, Start, Preflight, Exec, Settle, At
  <2>2. op'.kind = op.kind
    BY <1>3, GoToMoves, ReturnMoves, LeaveMoves
       DEF ShowPage, Reload, Restart, Start, Preflight, Exec, Settle, PCs
  <2> QED BY <1>d, <2>1, <2>2 DEF HaltInv, HaltHolds
<1>4. CASE Recover
  <2>1. UNCHANGED <<generation, halted, lastAllowed, manuallyStopped>> /\ op.pc = "recover"
    BY <1>4 DEF Recover, At
  <2>2. manuallyStopped
    BY <2>1 DEF HaltInv, HaltHolds
  <2>3. RecoverRefusedByStop
    BY <1>4, <2>2 DEF Recover, RecoverRefusedByGuard, RecoverInBackoff, RecoverOverBudget,
         RecoverRuns, RecoverAllowed
  <2>4. op'.kind = op.kind /\ op'.pc = "finish"
    BY <2>3, ReturnMoves DEF RecoverRefusedByStop
  <2> QED BY <1>d, <2>1, <2>2, <2>4 DEF HaltInv, HaltHolds
<1>5. CASE Stop \/ StopCompletes \/ StopFails
  <2>1. /\ UNCHANGED <<generation, halted, lastAllowed, manuallyStopped>>
        /\ op.pc \in {"stop", "killing"}
    BY <1>5 DEF Stop, StopCompletes, StopFails, At
  <2>2. op'.kind = op.kind /\ (op.kind = "reset" => op'.pc \in {"killing", "clear", "finish"})
    <3>1. CASE Stop
      BY <3>1, StoppedMoves, KillingMoves DEF Stop, StopIdle
    <3>2. CASE StopCompletes
      BY <3>2, StoppedMoves DEF StopCompletes
    <3>3. CASE StopFails
      BY <3>3, LeaveMoves DEF StopFails, RecoverKinds, AutoKinds, MonitorKinds
    <3> QED BY <1>5, <3>1, <3>2, <3>3
  <2> QED BY <1>d, <2>1, <2>2 DEF HaltInv, HaltHolds
<1>6. CASE ClearSession
  <2>1. /\ UNCHANGED <<generation, halted, lastAllowed, manuallyStopped>> /\ op.pc = "clear"
        /\ Return(TRUE) \/ Return(FALSE)
    BY <1>6 DEF ClearSession, At
  <2>2. op'.kind = op.kind /\ op'.pc = "finish"
    BY <2>1, ReturnMoves
  <2> QED BY <1>d, <2>1, <2>2 DEF HaltInv, HaltHolds
<1>7. CASE Publish
  <2>1. /\ op.pc = "publish" /\ generation' = generation + 1
        /\ UNCHANGED <<queue, pages, halted, lastAllowed, manuallyStopped>>
    BY <1>7 DEF Publish, NewGeneration, At
  <2>2. HaltHolds
    BY <2>1 DEF HaltInv
  <2>3. op.kind = "schedule"
    BY <2>1, <2>2 DEF HaltHolds, OpInv, Op, Kinds, PageKinds, RecoverKinds
  <2>4. op'.kind = "schedule" /\ op'.pc = "finish"
    BY <1>7, <2>3, LeaveMoves DEF Publish, RecoverKinds, AutoKinds, MonitorKinds
  <2>5. generation' + SchedulerMay' = generation + SchedulerMay
    <3>1. pages \in Nat /\ Queued \in Nat
      BY DEF TypeOK, Queued
    <3>2. SchedulerMay = pages + Queued + 1
      BY <2>1, <2>3 DEF SchedulerMay, InTheGate
    <3>3. SchedulerMay' = pages + Queued + 0
      <4>1. Queued' = Queued /\ InTheGate' = 0
        BY <1>b, <2>1, <2>4 DEF Queued, InTheGate
      <4> QED BY <2>1, <4>1 DEF SchedulerMay
    <3>4. generation' = generation + 1
      BY <2>1
    <3> HIDE DEF SchedulerMay
    <3> QED BY <1>c, <3>1, <3>2, <3>3, <3>4
  <2>6. generation' + SchedulerMay' <= lastAllowed'
    <3>1. lastAllowed' = lastAllowed /\ generation + SchedulerMay <= lastAllowed
      BY <2>1, <2>2 DEF HaltHolds
    <3> QED BY <2>5, <3>1
  <2> QED BY <2>1, <2>2, <2>3, <2>4, <2>6 DEF HaltHolds, AutoKinds, MonitorKinds
<1>8. CASE Finish
  <2>1. op'.kind = "none" /\ op'.pc = "idle"
    BY <1>8, NoOpMoves DEF Finish
  <2>2. UNCHANGED <<generation, manuallyStopped>>
    BY <1>8 DEF Finish
  <2>3. manuallyStopped' /\ generation' + SchedulerMay' <= lastAllowed'
    <3>1. CASE op.kind = "stop" /\ op.ok
      <4>1. manuallyStopped /\ lastAllowed' = generation + SchedulerMay
        BY <1>8, <3>1 DEF Finish
      <4>2. SchedulerMay' <= SchedulerMay
        BY <2>1, <4>1, LaunchesLeft
      <4>3. generation + SchedulerMay' <= generation + SchedulerMay
        <5>1. generation + SchedulerMay \in Nat /\ generation + SchedulerMay <= generation + SchedulerMay
          BY <1>c
        <5> QED BY <1>c, <4>2, <5>1, UsedUp
      <4> QED BY <2>2, <4>1, <4>3
    <3>2. CASE ~(op.kind = "stop" /\ op.ok)
      <4>1. UNCHANGED <<halted, lastAllowed>>
        BY <1>8, <3>2 DEF Finish
      <4>2. manuallyStopped'
        BY <2>2, <4>1 DEF HaltInv, HaltHolds
      <4> QED BY <1>d, <2>1, <2>2, <4>1, <4>2
    <3> QED BY <3>1, <3>2
  <2> QED BY <2>1, <2>3 DEF HaltHolds, AutoKinds, MonitorKinds
<1>9. ASSUME NEW g \in Gens, Crash(g) \/ KillLands(g) \/ Reap(g) \/ CloseDone(g)
                               \/ ScheduleRecovery(g)
      PROVE  HaltHolds'
  <2>1. UNCHANGED <<op, generation, manuallyStopped, halted, lastAllowed>>
    BY <1>9 DEF Crash, KillLands, Reap, CloseDone, ScheduleRecovery
  <2> QED BY <1>d, <2>1 DEF HaltInv, HaltHolds
<1> QED
  BY <1>1, <1>2, <1>3, <1>4, <1>5, <1>6, <1>7, <1>8, <1>9, StepCases DEF Gated

-----------------------------------------------------------------------------
(***************************************************************************)
(* Theorems                                                                *)
(***************************************************************************)

\* IInv holds in every state the service reaches.
THEOREM Invariance == Spec => []IInv
<1>1. IInv /\ [Next]_vars => IInv'
  BY TypeKept, OpKept, LaunchKept, ProcKept, StopFlagKept, RecoveryKept, HaltKept DEF IInv
<1> QED BY InitEstablishes, <1>1, PTL DEF Spec

\* Every variable keeps to its type, for every set of callers and every bound.
THEOREM TypeCorrect == Spec => []TypeOK
<1>1. IInv => TypeOK
  BY DEF IInv
<1> QED BY Invariance, <1>1, PTL

\* Chromium never runs twice: whatever callers, timers, monitors and crashes do
\* around the operation gate, at most one process is not yet reaped.
THEOREM OneBrowserAlways == Spec => []OneBrowser
<1>1. IInv => OneBrowser
  <2> SUFFICES ASSUME IInv, NEW g \in Gens, NEW h \in Gens,
                      procs[g] \in Live, procs[h] \in Live
               PROVE  g = h
    BY DEF OneBrowser
  <2>1. LaunchInv /\ ProcInv
    BY DEF IInv
  <2>2. CASE op.pc = "publish"
    <3>1. cmd = 0 /\ g # 0 /\ h # 0
      BY <2>1, <2>2, GenerationsAssumption DEF LaunchInv, Gens
    <3> QED BY <2>1, <3>1 DEF ProcInv
  <2>3. CASE op.pc # "publish"
    BY <2>1, <2>3 DEF ProcInv
  <2> QED BY <2>2, <2>3
<1> QED BY Invariance, <1>1, PTL

\* The stop flag always refers to the published process, so the exit of another one
\* is never taken for a wanted exit.
THEOREM StopFlagCorrect == Spec => []StopFlagNamesThisBrowser
<1>1. IInv => StopFlagNamesThisBrowser
  BY DEF IInv
<1> QED BY Invariance, <1>1, PTL

\* No restart timer is armed while a manual stop or the guard holds the browser.
THEOREM NoHeldRestart == Spec => []NoRestartPlannedWhileHeld
<1>1. IInv => NoRestartPlannedWhileHeld
  BY DEF IInv, RecoveryInv
<1> QED BY Invariance, <1>1, PTL

\* After a Stop that succeeded with its mark standing, no automatic recovery launches
\* a browser, and the scheduler none but those a round that looked before it had left.
THEOREM AutomationHeld == Spec => []AutomationRespectsStop
<1>1. IInv => AutomationRespectsStop
  <2> SUFFICES ASSUME IInv, halted, NEW g \in Gens, procs[g] \in Live
               PROVE  g <= lastAllowed
    BY DEF AutomationRespectsStop
  <2>1. TypeOK /\ OpInv /\ ProcInv /\ HaltHolds
    BY DEF IInv, HaltInv
  <2>2. generation \in Nat /\ lastAllowed \in Nat /\ SchedulerMay \in Nat /\ g \in Nat
    BY <2>1, GenerationsAssumption DEF TypeOK, Gens, SchedulerMay, Queued, InTheGate
  <2>3. CASE g = cmd
    BY <2>1, <2>2, <2>3 DEF ProcInv, HaltHolds
  <2>4. CASE op.pc = "publish" /\ g = generation + 1
    <3>1. op.kind = "schedule"
      BY <2>1, <2>4 DEF HaltHolds, OpInv, TypeOK, Op, Kinds, PageKinds, RecoverKinds
    <3>2. SchedulerMay >= 1
      <4>1. pages \in Nat
        BY <2>1 DEF TypeOK
      <4> QED BY <2>4, <3>1, <4>1 DEF SchedulerMay, Queued, InTheGate
    <3> QED BY <2>1, <2>2, <2>4, <3>2 DEF HaltHolds
  <2> QED BY <2>1, <2>3, <2>4 DEF ProcInv
<1> QED BY Invariance, <1>1, PTL

\* The guard is only ever cleared by a session reset that has seen the last process
\* out.
THEOREM GuardClearedSafely == Spec => GuardClearedOnlyWhenDown
<1> DEFINE AllDown == \A g \in Gens : procs[g] \notin Live
<1>1. IInv /\ [Next]_vars => [guard /\ ~guard' => AllDown]_vars
  <2> SUFFICES ASSUME IInv, [Next]_vars, guard, ~guard' PROVE AllDown
    OBVIOUS
  <2>1. ClearSession
    BY DEF Next, vars, Call, SchedulerCalls, SchedulerGoesOn, Rejected, TripGuard, Complain, StableRun,
       MonitorEnds, Expire, Acquire, Gated, ShowPage, Recover, Reload, Restart, Stop,
       StopCompletes, Start, Preflight, Exec, Publish, Settle, Finish, StopFails, Crash,
       KillLands, Waits, Reap, CloseDone, ScheduleRecovery, TimerFires, TimerCancelled,
       BackoffElapses
  <2>2. cmd = 0 /\ op.pc # "publish" /\ ProcInv
    BY <2>1 DEF IInv, LaunchInv, ClearSession, At
  <2>3. ASSUME NEW g \in Gens PROVE procs[g] \notin Live
    <3>1. g # 0
      BY GenerationsAssumption DEF Gens
    <3> QED BY <2>2, <3>1 DEF ProcInv
  <2> QED BY <2>3
<1> QED BY Invariance, <1>1, PTL DEF Spec, GuardClearedOnlyWhenDown

-----------------------------------------------------------------------------
(***************************************************************************)
(* The recovery policy: lists of times                                     *)
(***************************************************************************)

\* A set of places in a list is finite, and has no more members than the list.
LEMMA AfterIsFinite ==
  ASSUME NEW s \in Seq(Nat), NEW cut \in Int
  PROVE  IsFiniteSet(After(s, cut)) /\ Cardinality(After(s, cut)) \in 0 .. Len(s)
<1>1. Len(s) \in Nat /\ After(s, cut) \subseteq 1 .. Len(s)
  BY DEF After
<1>2. IsFiniteSet(1 .. Len(s)) /\ Cardinality(1 .. Len(s)) = Len(s)
  <2>1. /\ IsFiniteSet(1 .. Len(s))
        /\ Cardinality(1 .. Len(s)) = IF 1 > Len(s) THEN 0 ELSE Len(s) - 1 + 1
    BY <1>1, FS_Interval
  <2> QED BY <1>1, <2>1
<1>3. IsFiniteSet(After(s, cut)) /\ Cardinality(After(s, cut)) <= Len(s)
  BY <1>1, <1>2, FS_Subset
<1> QED BY <1>1, <1>3, FS_CardinalityType

\* The times of a list are in their order.
Ordered(s) == \A i, j \in DOMAIN s : i <= j => s[i] <= s[j]

\* Of a list in order those after the cut are the last.
LEMMA AfterIsLast ==
  ASSUME NEW s \in Seq(Nat), NEW cut \in Int, Ordered(s)
  PROVE  After(s, cut) = (Len(s) - Cardinality(After(s, cut)) + 1) .. Len(s)
<1> DEFINE A == After(s, cut)
           n == Cardinality(A)
           T == (Len(s) - n + 1) .. Len(s)
<1>1. IsFiniteSet(A) /\ n \in 0 .. Len(s) /\ Len(s) \in Nat
  BY AfterIsFinite
<1>2. \A i \in A, j \in 1 .. Len(s) : i <= j => j \in A
  BY DEF After, Ordered
<1>3. A \subseteq 1 .. Len(s)
  BY DEF After
<1> HIDE DEF A
<1>4. A \subseteq T
  <2> SUFFICES ASSUME NEW i \in A, i \notin T PROVE FALSE
    OBVIOUS
  <2>1. i \in 1 .. Len(s) /\ i < Len(s) - n + 1
    BY <1>1, <1>3
  <2>2. i .. Len(s) \subseteq A
    BY <1>2, <2>1
  <2>3. Cardinality(i .. Len(s)) = Len(s) - i + 1
    <3>1. Cardinality(i .. Len(s)) = IF i > Len(s) THEN 0 ELSE Len(s) - i + 1
      BY <1>1, <2>1, FS_Interval
    <3> QED BY <2>1, <3>1
  <2>4. Cardinality(i .. Len(s)) <= n
    BY <1>1, <2>2, FS_Subset
  <2> QED BY <1>1, <2>1, <2>3, <2>4
<1>5. IsFiniteSet(T) /\ Cardinality(T) = n
  <2> HIDE DEF n
  <2>1. Len(s) - n + 1 \in Int /\ Len(s) \in Int
    BY <1>1
  <2>2. PICK m \in Int : m = Len(s) - n + 1
    BY <2>1, Zenon
  <2>3. /\ IsFiniteSet(m .. Len(s))
        /\ Cardinality(m .. Len(s)) = IF m > Len(s) THEN 0 ELSE Len(s) - m + 1
    BY <2>1, FS_Interval
  <2>4. T = m .. Len(s)
    BY <2>2
  <2> QED BY <1>1, <2>2, <2>3, <2>4
<1> HIDE DEF T
<1>6. A = T
  BY <1>4, <1>5, FS_Subset
<1> QED BY <1>6 DEF A, T

\* What is kept of a list: its last times, as many as come after the cut.
Last(s, cut) == SubSeq(s, Len(s) - Cardinality(After(s, cut)) + 1, Len(s))

LEMMA LastParts ==
  ASSUME NEW s \in Seq(Nat), NEW cut \in Int
  PROVE  LET n == Cardinality(After(s, cut))
             l == Last(s, cut)
         IN  /\ n \in 0 .. Len(s) /\ Len(s) \in Nat
             /\ l \in Seq(Nat) /\ Len(l) = n
             /\ \A i \in 1 .. n : l[i] = s[Len(s) - n + i] /\ Len(s) - n + i \in 1 .. Len(s)
<1> DEFINE n == Cardinality(After(s, cut))
           l == Last(s, cut)
<1>1. n \in 0 .. Len(s) /\ Len(s) \in Nat
  BY AfterIsFinite
<1> HIDE DEF n
<1>2. PICK m \in Int : m = Len(s) - n + 1
  <2>1. Len(s) - n + 1 \in Int
    BY <1>1
  <2> QED BY <2>1, Zenon
<1>3. 1 <= m /\ m <= Len(s) + 1 /\ Len(s) - m + 1 = n
  BY <1>1, <1>2
<1>4. l = SubSeq(s, m, Len(s))
  BY <1>2 DEF Last, n
<1>5. \A i \in m .. Len(s) : s[i] \in Nat
  BY <1>1, <1>3, ElementOfSeq
<1>6. /\ l \in Seq(Nat)
      /\ Len(l) = IF m <= Len(s) THEN Len(s) - m + 1 ELSE 0
      /\ \A i \in 1 .. Len(s) - m + 1 : l[i] = s[m + i - 1]
  BY <1>1, <1>4, <1>5, SubSeqProperties
<1>7. Len(l) = n
  BY <1>1, <1>3, <1>6
<1>8. \A i \in 1 .. n : l[i] = s[Len(s) - n + i] /\ Len(s) - n + i \in 1 .. Len(s)
  <2> SUFFICES ASSUME NEW i \in 1 .. n
               PROVE  l[i] = s[Len(s) - n + i] /\ Len(s) - n + i \in 1 .. Len(s)
    OBVIOUS
  <2>1. m + i - 1 = Len(s) - n + i
    BY <1>1, <1>2
  <2>2. l[i] = s[m + i - 1]
    BY <1>3, <1>6
  <2> QED BY <1>1, <2>1, <2>2
<1> QED BY <1>1, <1>6, <1>7, <1>8 DEF n

\* What is kept has the bounds and the order of the list.
LEMMA LastInOrder ==
  ASSUME NEW s \in Seq(Nat), NEW cut \in Int, NEW hi \in Nat,
         \A i \in DOMAIN s : s[i] <= hi
  PROVE  /\ \A i \in DOMAIN Last(s, cut) : Last(s, cut)[i] <= hi
         /\ Ordered(s) => Ordered(Last(s, cut))
<1> DEFINE n == Cardinality(After(s, cut))
           l == Last(s, cut)
<1>1. /\ n \in 0 .. Len(s) /\ Len(s) \in Nat
      /\ l \in Seq(Nat) /\ Len(l) = n
      /\ \A i \in 1 .. n : l[i] = s[Len(s) - n + i] /\ Len(s) - n + i \in 1 .. Len(s)
  BY LastParts
<1> HIDE DEF n, l
<1>2. DOMAIN l = 1 .. n /\ DOMAIN s = 1 .. Len(s)
  BY <1>1, LenProperties
<1>3. \A i \in DOMAIN l : l[i] <= hi
  BY <1>1, <1>2
<1>4. ASSUME Ordered(s), NEW i \in 1 .. n, NEW j \in 1 .. n, i <= j PROVE l[i] <= l[j]
  <2>1. Len(s) - n + i <= Len(s) - n + j
    BY <1>1, <1>4
  <2>2. s[Len(s) - n + i] <= s[Len(s) - n + j]
    BY <1>1, <1>2, <1>4, <2>1 DEF Ordered
  <2> QED BY <1>1, <2>2
<1>5. Ordered(s) => Ordered(l)
  BY <1>2, <1>4 DEF Ordered
<1> QED BY <1>3, <1>5 DEF l

\* A later cut finds in what is kept what it finds in a list in order.
LEMMA AfterOfLast ==
  ASSUME NEW s \in Seq(Nat), NEW cut \in Int, NEW later \in Int, cut <= later, Ordered(s)
  PROVE  Cardinality(After(Last(s, cut), later)) = Cardinality(After(s, later))
<1> DEFINE n == Cardinality(After(s, cut))
           l == Last(s, cut)
           A == After(l, later)
           B == After(s, later)
           d == Len(s) - n
<1>1. /\ n \in 0 .. Len(s) /\ Len(s) \in Nat
      /\ l \in Seq(Nat) /\ Len(l) = n
      /\ \A i \in 1 .. n : l[i] = s[Len(s) - n + i] /\ Len(s) - n + i \in 1 .. Len(s)
  BY LastParts
<1>2. After(s, cut) = (Len(s) - n + 1) .. Len(s)
  BY AfterIsLast
<1>3. B \subseteq After(s, cut)
  BY DEF After
<1>4. B = {j \in 1 .. Len(s) : s[j] > later}
  BY DEF After
<1> HIDE DEF n, l
<1>5. A = {i \in 1 .. n : l[i] > later}
  <2>1. DOMAIN l = 1 .. n
    BY <1>1, LenProperties
  <2> QED BY <2>1 DEF After
<1> HIDE DEF A, B
<1>6. d \in Nat /\ \A i \in 1 .. n : l[i] = s[d + i] /\ d + i \in 1 .. Len(s)
  BY <1>1
<1>7. \A j \in B : j \in (d + 1) .. Len(s)
  BY <1>2, <1>3
<1>8. Len(s) = d + n
  BY <1>1
<1> HIDE DEF d
<1> DEFINE f == [i \in A |-> d + i]
<1>9. f \in Bijection(A, B)
  <2>1. f \in [A -> B]
    BY <1>4, <1>5, <1>6
  <2>2. \A i, j \in A : f[i] = f[j] => i = j
    BY <1>5, <1>6
  <2>3. \A j \in B : \E i \in A : f[i] = j
    <3> SUFFICES ASSUME NEW j \in B PROVE \E i \in A : f[i] = j
      OBVIOUS
    <3>1. PICK i \in 1 .. n : d + i = j
      <4>1. j - d \in 1 .. n /\ d + (j - d) = j
        BY <1>1, <1>6, <1>7, <1>8
      <4> QED BY <4>1
    <3>2. i \in A
      BY <1>4, <1>5, <1>6, <3>1
    <3> QED BY <3>1, <3>2
  <2> QED BY <2>1, <2>2, <2>3 DEF Bijection, Injection, Surjection, IsInjective
<1>10. IsFiniteSet(A)
  BY <1>1, AfterIsFinite DEF A
<1>11. ExistsBijection(A, B)
  BY <1>9 DEF ExistsBijection
<1>12. Cardinality(B) = Cardinality(A)
  BY <1>10, <1>11, FS_Bijection
<1> QED BY <1>12 DEF A, B, l

\* One more time is one more place, when it comes after the cut.
LEMMA AfterAppended ==
  ASSUME NEW s \in Seq(Nat), NEW cut \in Int, NEW at \in Nat
  PROVE  Cardinality(After(Append(s, at), cut))
           = Cardinality(After(s, cut)) + (IF at > cut THEN 1 ELSE 0)
<1> DEFINE A == After(s, cut)
           B == After(Append(s, at), cut)
<1>1. IsFiniteSet(A) /\ Cardinality(A) \in Nat /\ Len(s) \in Nat
  BY AfterIsFinite
<1>2. A = {i \in 1 .. Len(s) : s[i] > cut}
  BY DEF After
<1>3. B = {i \in 1 .. Len(s) + 1 : Append(s, at)[i] > cut}
  BY <1>1 DEF After
<1>4. /\ \A i \in 1 .. Len(s) : Append(s, at)[i] = s[i]
      /\ Append(s, at)[Len(s) + 1] = at
  BY <1>1
<1> HIDE DEF A, B
<1>5. \A i \in 1 .. Len(s) + 1 : i \in B <=> i \in A \/ (i = Len(s) + 1 /\ at > cut)
  BY <1>1, <1>2, <1>3, <1>4
<1>6. CASE at > cut
  <2>1. B = A \cup {Len(s) + 1}
    BY <1>1, <1>2, <1>3, <1>5, <1>6
  <2>2. Len(s) + 1 \notin A
    BY <1>1, <1>2
  <2>3. Cardinality(B) = IF Len(s) + 1 \in A THEN Cardinality(A) ELSE Cardinality(A) + 1
    BY <1>1, <2>1, FS_AddElement
  <2> QED BY <1>6, <2>2, <2>3 DEF A, B
<1>7. CASE ~(at > cut)
  <2>1. B = A
    BY <1>1, <1>2, <1>3, <1>5, <1>7
  <2> QED BY <1>1, <1>7, <2>1 DEF A, B
<1> QED BY <1>6, <1>7

\* A list in order stays so with a time appended that no other is after.
LEMMA AppendedInOrder ==
  ASSUME NEW s \in Seq(Nat), NEW at \in Nat, \A i \in DOMAIN s : s[i] <= at
  PROVE  /\ Append(s, at) \in Seq(Nat)
         /\ \A i \in DOMAIN Append(s, at) : Append(s, at)[i] <= at
         /\ Ordered(s) => Ordered(Append(s, at))
<1>1. /\ Append(s, at) \in Seq(Nat) /\ Len(s) \in Nat
      /\ DOMAIN Append(s, at) = 1 .. Len(s) + 1 /\ DOMAIN s = 1 .. Len(s)
      /\ \A i \in 1 .. Len(s) : Append(s, at)[i] = s[i] /\ s[i] \in Nat
      /\ Append(s, at)[Len(s) + 1] = at
  <2>1. Append(s, at) \in Seq(Nat) /\ Len(Append(s, at)) = Len(s) + 1 /\ Len(s) \in Nat
    BY AppendProperties
  <2>2. DOMAIN Append(s, at) = 1 .. Len(s) + 1 /\ DOMAIN s = 1 .. Len(s)
    BY <2>1, LenProperties
  <2>3. \A i \in 1 .. Len(s) : Append(s, at)[i] = s[i] /\ s[i] \in Nat
    BY <2>1, <2>2, AppendProperties, ElementOfSeq
  <2> QED BY <2>1, <2>2, <2>3, AppendProperties
<1> DEFINE a == Append(s, at)
<1> HIDE DEF a
<1>2. \A i \in 1 .. Len(s) + 1 : a[i] <= at
  BY <1>1 DEF a
<1>3. ASSUME Ordered(s), NEW i \in 1 .. Len(s) + 1, NEW j \in 1 .. Len(s) + 1, i <= j
      PROVE  a[i] <= a[j]
  <2>1. CASE j = Len(s) + 1
    BY <1>1, <1>2, <2>1 DEF a
  <2>2. CASE j # Len(s) + 1
    BY <1>1, <1>3, <2>2 DEF a, Ordered
  <2> QED BY <2>1, <2>2
<1> QED BY <1>1, <1>2, <1>3 DEF a, Ordered

-----------------------------------------------------------------------------
\* Powers of two are numbers and grow.
LEMMA PowersGrow ==
  ASSUME NEW m \in Nat, NEW n \in Nat, m <= n
  PROVE  2 ^ m \in Nat /\ 2 ^ n \in Nat /\ 2 ^ m <= 2 ^ n
<1> DEFINE M == 1 .. m
           N == 1 .. n
<1>1. IsFiniteSet(M) /\ Cardinality(M) = m /\ IsFiniteSet(N) /\ Cardinality(N) = n
  <2>1. \A k \in Nat : IsFiniteSet(1 .. k)
          /\ Cardinality(1 .. k) = IF 1 > k THEN 0 ELSE k - 1 + 1
    BY FS_Interval
  <2> QED BY <2>1
<1>2. M \subseteq N
  OBVIOUS
<1> HIDE DEF M, N
<1>3. IsFiniteSet(SUBSET M) /\ IsFiniteSet(SUBSET N)
      /\ Cardinality(SUBSET M) = 2 ^ m /\ Cardinality(SUBSET N) = 2 ^ n
  BY <1>1, FS_SUBSET
<1>4. SUBSET M \subseteq SUBSET N
  BY <1>2
<1>5. Cardinality(SUBSET M) <= Cardinality(SUBSET N)
  BY <1>3, <1>4, FS_Subset
<1>6. Cardinality(SUBSET M) \in Nat /\ Cardinality(SUBSET N) \in Nat
  BY <1>3, FS_CardinalityType
<1> QED BY <1>3, <1>5, <1>6

LEMMA ProductGrows ==
  ASSUME NEW k \in Nat, NEW x \in Nat, NEW y \in Nat, x <= y
  PROVE  k * x \in Nat /\ k * y \in Nat /\ k * x <= k * y
<1>1. k * x \in Nat /\ k * y \in Nat
  OBVIOUS
<1>2. PICK d \in Nat : y = x + d
  <2>1. y - x \in Nat /\ y = x + (y - x)
    OBVIOUS
  <2> QED BY <2>1
<1>3. k * y = k * x + k * d
  BY <1>2
<1>4. k * d \in Nat
  OBVIOUS
<1> QED BY <1>1, <1>3, <1>4

\* The delay is a number and does not shrink with the attempts.
LEMMA DelayGrows ==
  ASSUME NEW a \in Nat, NEW b \in Nat, a <= b
  PROVE  RecoveryDelay(a) \in Nat /\ RecoveryDelay(b) \in Nat
           /\ RecoveryDelay(a) <= RecoveryDelay(b)
<1> DEFINE e(k) == Lower((IF k < 1 THEN 1 ELSE k) - 1, MaxShift)
<1>1. e(a) \in Nat /\ e(b) \in Nat /\ e(a) <= e(b)
  BY DelayAssumption DEF Lower
<1>2. /\ RecoveryDelay(a) = Lower(BaseDelay * 2 ^ e(a), MaxDelay)
      /\ RecoveryDelay(b) = Lower(BaseDelay * 2 ^ e(b), MaxDelay)
  BY DEF RecoveryDelay
<1> HIDE DEF e
<1>3. PICK x \in Nat, y \in Nat : x = 2 ^ e(a) /\ y = 2 ^ e(b) /\ x <= y
  BY <1>1, PowersGrow
<1>4. BaseDelay * x \in Nat /\ BaseDelay * y \in Nat /\ BaseDelay * x <= BaseDelay * y
  <2>1. BaseDelay \in Nat
    BY DelayAssumption
  <2> QED BY <1>3, <2>1, ProductGrows
<1>5. Lower(BaseDelay * x, MaxDelay) <= Lower(BaseDelay * y, MaxDelay)
        /\ Lower(BaseDelay * x, MaxDelay) \in Nat /\ Lower(BaseDelay * y, MaxDelay) \in Nat
  BY <1>4, DelayAssumption DEF Lower
<1> QED BY <1>2, <1>3, <1>5
-----------------------------------------------------------------------------
(* How the lists move.                                                     *)

\* A list of times that are past is a list of times of the clock.
LEMMA PastIsTime ==
  ASSUME NEW s \in Seq(Nat), NEW hi \in Time, \A i \in DOMAIN s : s[i] <= hi
  PROVE  s \in Seq(Time)
<1>1. MaxTime \in Nat
  BY BoundsAssumption
<1>2. \A i \in 1 .. Len(s) : s[i] \in Nat /\ s[i] <= hi /\ Len(s) \in Nat
  BY ElementOfSeq, LenProperties
<1>3. \A i \in 1 .. Len(s) : s[i] \in Time
  BY <1>1, <1>2 DEF Time
<1> QED BY <1>3, IsASeq, LenProperties

\* The lists are of natural numbers, in order, and the clock is one.
LEMMA ListsAre ==
  ASSUME PolicyInv
  PROVE  /\ now \in Nat /\ now \in Time /\ now >= 1 /\ now - Window \in Int /\ now - Window < now
         /\ now - WatchWindow \in Int
         /\ runs \in Seq(Nat) /\ accepted \in Seq(Nat) /\ watchRuns \in Seq(Nat)
         /\ boots \in Nat
         /\ Ordered(runs) /\ Ordered(accepted)
         /\ \A i \in DOMAIN runs : runs[i] <= now
         /\ \A i \in DOMAIN accepted : accepted[i] <= now
<1>1. now \in Time \ {0} /\ boots \in 0 .. MaxBoots /\ Window \in Nat \ {0} /\ WatchWindow \in Nat
        /\ MaxTime \in Nat /\ MaxBoots \in Nat
  BY BudgetAssumption, WatchAssumption, BoundsAssumption DEF PolicyInv, PolicyTypeOK
<1>2. now \in Nat /\ now \in Time /\ now >= 1 /\ now - Window \in Int /\ now - Window < now
        /\ now - WatchWindow \in Int /\ boots \in Nat
  BY <1>1 DEF Time
<1>3. Time \subseteq Nat
  BY DEF Time
<1>4. runs \in Seq(Time) /\ accepted \in Seq(Time) /\ watchRuns \in Seq(Time)
  BY DEF PolicyInv, PolicyTypeOK
<1>5. runs \in Seq(Nat) /\ accepted \in Seq(Nat) /\ watchRuns \in Seq(Nat)
  BY <1>3, <1>4, SeqMonotonic
<1>6. /\ Ordered(runs) /\ Ordered(accepted)
      /\ \A i \in DOMAIN runs : runs[i] <= now
      /\ \A i \in DOMAIN accepted : accepted[i] <= now
  BY DEF PolicyInv, OrderInv, Ordered
<1> QED BY <1>2, <1>5, <1>6

\* What is kept of a list of past times.
LEMMA RecentParts ==
  ASSUME NEW s \in Seq(Nat), NEW span \in Nat, now \in Nat
  PROVE  /\ Recent(s, span) = Last(s, now - span) /\ Recent(s, span) \in Seq(Nat)
         /\ Len(Recent(s, span)) = Cardinality(After(s, now - span))
<1>1. Recent(s, span) = Last(s, now - span) /\ now - span \in Int
  BY DEF Recent, Last
<1> QED BY <1>1, LastParts

\* The recoveries stay, are pruned, or one more has run.
Same   == UNCHANGED <<runs, accepted>>
Pruned == runs' = Kept /\ accepted' = accepted
Ran    == /\ Cardinality(After(runs, now - Window)) < Budget
          /\ runs' = Append(Kept, now) /\ accepted' = Append(Recent(accepted, Window), now)

\* Less than the budget is kept exactly when less than it is in the window.
LEMMA KeptIsCounted ==
  ASSUME PolicyInv
  PROVE  Len(Kept) = Cardinality(After(runs, now - Window)) /\ Kept = Last(runs, now - Window)
           /\ Kept \in Seq(Nat)
<1>1. Window \in Nat
  BY BudgetAssumption
<1> QED BY <1>1, ListsAre, RecentParts DEF Kept

\* A recovery that runs is one more, a refused one forgets at most what is old.
LEMMA RecoverMoves ==
  ASSUME PolicyInv, NEW forced, DecideRecovery(forced)
  PROVE  /\ Same \/ Pruned \/ Ran
         /\ Persist
         /\ up' \in BOOLEAN /\ started' \in {started, now} /\ announced' \in Announced
         /\ attempts' = attempts \/ (attempts < MaxAttempts /\ attempts' = attempts + 1)
         /\ backoffUntil' \in Nat
<1>0. /\ up \in BOOLEAN /\ announced \in Announced /\ backoffUntil \in Nat
      /\ attempts \in 0 .. MaxAttempts /\ started \in Time
  BY DEF PolicyInv, PolicyTypeOK, Horizon
<1>1. CASE RefusedInBackoff /\ Persist
  BY <1>0, <1>1 DEF RefusedInBackoff, statusVars, Same
<1>2. CASE RefusedOverBudget /\ Persist
  <2>1. Pruned /\ UNCHANGED <<up, started, attempts>> /\ announced' = "budget"
          /\ backoffUntil' = Kept[1] + Window /\ Len(Kept) >= Budget
    BY <1>2 DEF RefusedOverBudget, Pruned
  <2>2. Kept[1] \in Nat
    <3>1. Kept \in Seq(Nat) /\ Len(Kept) \in Nat /\ 1 \in 1 .. Len(Kept)
      BY <2>1, KeptIsCounted, BudgetAssumption, LenProperties
    <3> QED BY <3>1, ElementOfSeq
  <2>3. backoffUntil' \in Nat
    BY <2>1, <2>2, BudgetAssumption
  <2> QED BY <1>0, <1>2, <2>1, <2>3 DEF Announced
<1>3. CASE RecoveryRuns(forced) /\ Persist
  <2>1. Ran
    BY <1>3, KeptIsCounted DEF RecoveryRuns, RecoveryAllowed, Ran
  <2>2. up' \in BOOLEAN /\ started' \in {started, now} /\ announced' \in Announced
    BY <1>0, <1>3, Zenon DEF RecoveryRuns, StartBrowser, RestartBrowser, Announced
  <2>3. \/ attempts' = attempts /\ backoffUntil' = 0
        \/ /\ attempts < MaxAttempts /\ attempts' = attempts + 1
           /\ backoffUntil' = now + RecoveryDelay(attempts + 1)
    BY <1>3, Zenon DEF RecoveryRuns
  <2>4. attempts + 1 \in Nat
    BY <1>0, BoundsAssumption
  <2>5. RecoveryDelay(attempts + 1) \in Nat /\ now \in Nat
    BY <2>4, DelayGrows, ListsAre
  <2>6. backoffUntil' \in Nat
    BY <2>3, <2>5
  <2> QED BY <1>3, <2>1, <2>2, <2>3, <2>6
<1> QED BY <1>1, <1>2, <1>3 DEF DecideRecovery

\* A recovery that a monitor asks for, which does nothing while the browser is stopped.
LEMMA AutoMoves ==
  ASSUME PolicyInv, AutoRecover
  PROVE  /\ Same \/ Pruned \/ Ran
         /\ Persist \/ (Same /\ UNCHANGED <<saved, attempts, backoffUntil>>)
         /\ up' \in BOOLEAN /\ started' \in {started, now} /\ announced' \in Announced
         /\ attempts' = attempts \/ (attempts < MaxAttempts /\ attempts' = attempts + 1)
         /\ backoffUntil' \in Nat
<1>1. CASE stopped
  BY <1>1 DEF AutoRecover, statusVars, Same, PolicyInv, PolicyTypeOK, Horizon
<1>2. CASE ~stopped
  <2>1. DecideRecovery(TRUE)
    BY <1>2 DEF AutoRecover
  <2> QED BY <2>1, RecoverMoves
<1> QED BY <1>1, <1>2

\* Of the list of recoveries and the restarts of the service.
LEMMA ListsMove ==
  ASSUME PolicyInv, PolicyNext
  PROVE  \/ now' = now /\ boots' = boots /\ (Same \/ Pruned \/ Ran)
         \/ now' = now + 1 /\ now < MaxTime /\ boots' = boots /\ Same
         \/ /\ now' = now /\ boots < MaxBoots /\ boots' = boots + 1 /\ runs' = runs
            /\ accepted' = accepted \/ accepted' = Append(Recent(accepted, Window), now)
<1>1. CASE UserStarts \/ UserStops \/ PageShown \/ CrashPlansRestart \/ FailuresForgiven
  BY <1>1 DEF UserStarts, UserStops, PageShown, CrashPlansRestart, FailuresForgiven, Same
<1>2. CASE UserRecovers
  BY <1>2, RecoverMoves DEF UserRecovers
<1>3. CASE RestartTimerFires
  BY <1>3, RecoverMoves DEF RestartTimerFires
<1>4. CASE ControlLost
  BY <1>4, AutoMoves DEF ControlLost
<1>5. CASE Watchdog
  <2>1. Same \/ AutoRecover
    BY <1>5 DEF Watchdog, WatchdogPaused, WatchdogExceeds, WatchdogRestarts, Same, statusVars
  <2> QED BY <1>5, <2>1, AutoMoves DEF Watchdog
<1>6. CASE Boot
  BY <1>6 DEF Boot, PolicyInv, SavedInv
<1>7. CASE Tick
  BY <1>7 DEF Tick, Same, statusVars
<1> QED BY <1>1, <1>2, <1>3, <1>4, <1>5, <1>6, <1>7 DEF PolicyNext

-----------------------------------------------------------------------------
(* The invariant.                                                          *)

\* Empty lists are in order and count nothing.
LEMMA EmptyParts ==
  ASSUME NEW cut
  PROVE  /\ <<>> \in Seq(Time) /\ <<>> \in Seq(Nat) /\ Len(<<>>) = 0
         /\ After(<<>>, cut) = {} /\ Cardinality(After(<<>>, cut)) = 0
         /\ DOMAIN <<>> = {}
<1>1. <<>> \in Seq(Time) /\ <<>> \in Seq(Nat) /\ Len(<<>>) = 0 /\ DOMAIN <<>> = {}
  OBVIOUS
<1>2. After(<<>>, cut) = {}
  BY <1>1 DEF After
<1> QED BY <1>1, <1>2, FS_EmptySet

LEMMA PolicyStarts == PolicyInit => PolicyInv
<1> SUFFICES ASSUME PolicyInit PROVE PolicyInv
  OBVIOUS
<1>1. /\ now = 1 /\ started = 0 /\ attempts = 0 /\ backoffUntil = 0 /\ announced = "none"
      /\ runs = <<>> /\ timer = 0 /\ watchRuns = <<>> /\ suppressed = 0 /\ boots = 0
      /\ accepted = <<>> /\ deniedAt = 0 /\ crashAt = 0 /\ streak = 0
      /\ saved = [attempts |-> 0, backoffUntil |-> 0, runs |-> <<>>]
  BY DEF PolicyInit
<1>2. PolicyTypeOK
  <2>1. up \in BOOLEAN /\ stopped \in BOOLEAN
    BY Zenon DEF PolicyInit
  <2>2. now \in Time \ {0} /\ started \in Time /\ crashAt \in Time /\ deniedAt \in Time
          /\ attempts \in 0 .. MaxAttempts /\ boots \in 0 .. MaxBoots
    BY <1>1, BoundsAssumption DEF Time
  <2>3. announced \in Announced
    BY <1>1 DEF Announced
  <2>4. saved \in [attempts : 0 .. MaxAttempts, backoffUntil : Horizon, runs : Seq(Time)]
    BY <1>1, EmptyParts, BoundsAssumption DEF Horizon
  <2> QED BY <1>1, <2>1, <2>2, <2>3, <2>4, EmptyParts DEF PolicyTypeOK, Horizon
<1>3. OrderInv
  BY <1>1, EmptyParts DEF OrderInv
<1>4. SavedInv
  BY <1>1 DEF SavedInv
<1>5. BudgetInv
  <2>1. Budget \in Nat
    BY BudgetAssumption
  <2>2. \A cut : Cardinality(After(runs, cut)) = 0 /\ Cardinality(After(accepted, cut)) = 0
    BY <1>1, EmptyParts
  <2> QED BY <1>1, <2>1, <2>2 DEF BudgetInv
<1>6. TimerInv /\ PauseInv
  BY <1>1 DEF TimerInv, PauseInv
<1> QED BY <1>2, <1>3, <1>4, <1>5, <1>6 DEF PolicyInv

\* What a recovery adds keeps a list of past times in order.
LEMMA RanInOrder ==
  ASSUME NEW s \in Seq(Nat), NEW cut \in Int, now \in Nat, Ordered(s),
         \A i \in DOMAIN s : s[i] <= now
  PROVE  /\ Append(Last(s, cut), now) \in Seq(Nat) /\ Ordered(Append(Last(s, cut), now))
         /\ \A i \in DOMAIN Append(Last(s, cut), now) : Append(Last(s, cut), now)[i] <= now
<1>1. Last(s, cut) \in Seq(Nat)
  BY LastParts
<1>2. (\A i \in DOMAIN Last(s, cut) : Last(s, cut)[i] <= now) /\ Ordered(Last(s, cut))
  BY LastInOrder
<1> QED BY <1>1, <1>2, AppendedInOrder

\* Every step keeps the lists, their order and the bound of the clock.
LEMMA ListsKept ==
  ASSUME PolicyInv, PolicyNext
  PROVE  OrderInv' /\ runs' \in Seq(Time) /\ accepted' \in Seq(Time) /\ now' \in Time \ {0}
           /\ boots' \in 0 .. MaxBoots
<1> DEFINE Good(s, at) == s \in Seq(Nat) /\ Ordered(s) /\ \A i \in DOMAIN s : s[i] <= at
<1>1. Good(runs, now) /\ Good(accepted, now) /\ now - Window \in Int /\ now \in Nat /\ now >= 1
        /\ now \in Time /\ boots \in Nat
  BY ListsAre
<1>2. /\ Good(Kept, now)
      /\ Good(Append(Kept, now), now)
      /\ Good(Append(Recent(accepted, Window), now), now)
  <2>1. Kept = Last(runs, now - Window) /\ Recent(accepted, Window) = Last(accepted, now - Window)
    BY <1>1, BudgetAssumption, RecentParts DEF Kept
  <2>2. Good(Last(runs, now - Window), now)
    BY <1>1, LastInOrder, LastParts
  <2> QED BY <1>1, <2>1, <2>2, RanInOrder
<1> HIDE DEF Good
<1>3. now' \in Nat /\ now' \in Time \ {0} /\ now <= now' /\ boots' \in 0 .. MaxBoots
  BY <1>1, ListsMove, BoundsAssumption DEF Time, PolicyInv, PolicyTypeOK
<1>4. (Good(runs', now) /\ Good(accepted', now))
  BY <1>1, <1>2, ListsMove DEF Same, Pruned, Ran
<1>5. Good(runs', now') /\ Good(accepted', now')
  <2>1. ASSUME NEW s, NEW hi \in Nat, Good(s, now), now <= hi PROVE Good(s, hi)
    <3>1. \A i \in DOMAIN s : s[i] \in Nat /\ s[i] <= now
      BY <2>1, LenProperties, ElementOfSeq DEF Good
    <3>2. \A i \in DOMAIN s : s[i] <= hi
      BY <1>1, <2>1, <3>1
    <3> QED BY <2>1, <3>2 DEF Good
  <2> QED BY <1>3, <1>4, <2>1
<1>6. runs' \in Seq(Time) /\ accepted' \in Seq(Time)
  BY <1>3, <1>5, PastIsTime DEF Good
<1>7. OrderInv'
  BY <1>5 DEF OrderInv, Good, Ordered
<1> QED BY <1>3, <1>6, <1>7

\* From every moment of a window on, the first list misses no more than b of the second.
Covers(w, n, s, t, b) ==
  \A cut \in w .. n : Cardinality(After(t, cut)) <= Cardinality(After(s, cut)) + b

\* Forgetting what is before the window misses no more.
LEMMA CoversPruned ==
  ASSUME NEW n \in Nat, NEW w \in Int, NEW b \in Nat, NEW s \in Seq(Nat), NEW t \in Seq(Nat),
         Ordered(s), Covers(w, n, s, t, b)
  PROVE  Covers(w, n, Last(s, w), t, b)
<1>1. \A cut \in w .. n : Cardinality(After(Last(s, w), cut)) = Cardinality(After(s, cut))
  BY AfterOfLast
<1> QED BY <1>1 DEF Covers

\* A recovery in both lists misses no more.
LEMMA CoversRun ==
  ASSUME NEW n \in Nat, NEW w \in Int, NEW b \in Nat, NEW s \in Seq(Nat), NEW t \in Seq(Nat),
         Ordered(s), Ordered(t), Covers(w, n, s, t, b)
  PROVE  Covers(w, n, Append(Last(s, w), n), Append(Last(t, w), n), b)
<1> SUFFICES ASSUME NEW cut \in w .. n
             PROVE  Cardinality(After(Append(Last(t, w), n), cut))
                      <= Cardinality(After(Append(Last(s, w), n), cut)) + b
  BY DEF Covers
<1>1. PICK x \in Nat : x = Cardinality(After(s, cut))
  BY AfterIsFinite
<1>2. PICK y \in Nat : y = Cardinality(After(t, cut))
  BY AfterIsFinite
<1>3. y <= x + b
  BY <1>1, <1>2 DEF Covers
<1>4. Last(s, w) \in Seq(Nat) /\ Last(t, w) \in Seq(Nat) /\ cut \in Int
  BY LastParts
<1>5. Cardinality(After(Last(s, w), cut)) = x /\ Cardinality(After(Last(t, w), cut)) = y
  BY <1>1, <1>2, AfterOfLast
<1>6. PICK d \in Nat : d = IF n > cut THEN 1 ELSE 0
  OBVIOUS
<1>7. /\ Cardinality(After(Append(Last(s, w), n), cut)) = x + d
      /\ Cardinality(After(Append(Last(t, w), n), cut)) = y + d
  BY <1>4, <1>5, <1>6, AfterAppended
<1> QED BY <1>3, <1>7

\* A recovery that only the second list has is one that is missed.
LEMMA CoversLost ==
  ASSUME NEW n \in Nat, NEW w \in Int, NEW b \in Nat, NEW s \in Seq(Nat), NEW t \in Seq(Nat),
         Ordered(t), Covers(w, n, s, t, b)
  PROVE  Covers(w, n, s, t, b + 1) /\ Covers(w, n, s, Append(Last(t, w), n), b + 1)
<1> SUFFICES ASSUME NEW cut \in w .. n
             PROVE  /\ Cardinality(After(t, cut)) <= Cardinality(After(s, cut)) + (b + 1)
                    /\ Cardinality(After(Append(Last(t, w), n), cut))
                         <= Cardinality(After(s, cut)) + (b + 1)
  BY DEF Covers
<1>1. PICK x \in Nat : x = Cardinality(After(s, cut))
  BY AfterIsFinite
<1>2. PICK y \in Nat : y = Cardinality(After(t, cut))
  BY AfterIsFinite
<1>3. y <= x + b
  BY <1>1, <1>2 DEF Covers
<1>4. Last(t, w) \in Seq(Nat) /\ cut \in Int
  BY LastParts
<1>5. Cardinality(After(Last(t, w), cut)) = y
  BY <1>2, AfterOfLast
<1>6. PICK d \in 0 .. 1 : d = IF n > cut THEN 1 ELSE 0
  OBVIOUS
<1>7. Cardinality(After(Append(Last(t, w), n), cut)) = y + d
  BY <1>4, <1>5, <1>6, AfterAppended
<1> QED BY <1>1, <1>2, <1>3, <1>7

\* No recovery comes after the present, so that time misses none.
LEMMA CoversLater ==
  ASSUME NEW n \in Nat, NEW w \in Int, NEW b \in Nat, NEW s \in Seq(Nat), NEW t \in Seq(Nat),
         \A i \in DOMAIN t : t[i] <= n, Covers(w, n, s, t, b)
  PROVE  Covers(w + 1, n + 1, s, t, b)
<1> SUFFICES ASSUME NEW cut \in (w + 1) .. (n + 1)
             PROVE  Cardinality(After(t, cut)) <= Cardinality(After(s, cut)) + b
  BY DEF Covers
<1>1. CASE cut \in w .. n
  BY <1>1 DEF Covers
<1>2. CASE cut \notin w .. n
  <2>1. cut = n + 1
    BY <1>2
  <2>2. \A i \in DOMAIN t : t[i] \in Nat
    BY LenProperties, ElementOfSeq
  <2>3. After(t, cut) = {}
    BY <2>1, <2>2 DEF After
  <2>4. Cardinality(After(t, cut)) = 0
    BY <2>3, FS_EmptySet
  <2>5. PICK x \in Nat : x = Cardinality(After(s, cut))
    BY AfterIsFinite
  <2> QED BY <2>4, <2>5
<1> QED BY <1>1, <1>2

\* Time only takes recoveries out of the window.
LEMMA FewerLater ==
  ASSUME NEW w \in Int, NEW s \in Seq(Nat), NEW k \in Nat, Cardinality(After(s, w)) <= k
  PROVE  Cardinality(After(s, w + 1)) <= k
<1>1. \A i \in DOMAIN s : s[i] \in Nat
  BY LenProperties, ElementOfSeq
<1>2. After(s, w + 1) \subseteq After(s, w)
  BY <1>1 DEF After
<1>3. IsFiniteSet(After(s, w)) /\ Cardinality(After(s, w)) \in Nat
        /\ Cardinality(After(s, w + 1)) \in Nat
  <2>1. Len(s) \in Nat /\ w + 1 \in Int
    BY LenProperties
  <2>2. IsFiniteSet(After(s, w)) /\ Cardinality(After(s, w)) \in 0 .. Len(s)
    BY AfterIsFinite
  <2>3. Cardinality(After(s, w + 1)) \in 0 .. Len(s)
    BY <2>1, AfterIsFinite
  <2> QED BY <2>1, <2>2, <2>3
<1>4. Cardinality(After(s, w + 1)) <= Cardinality(After(s, w))
  BY <1>2, <1>3, FS_Subset
<1> QED BY <1>3, <1>4

\* No step exceeds the budget or loses more recoveries than one for each restart.
LEMMA BudgetKept ==
  ASSUME PolicyInv, PolicyNext
  PROVE  BudgetInv'
<1>0. /\ now \in Nat /\ now - Window \in Int /\ now - Window < now /\ boots \in Nat
      /\ Window \in Nat \ {0} /\ Budget \in Nat
      /\ runs \in Seq(Nat) /\ accepted \in Seq(Nat) /\ Ordered(runs) /\ Ordered(accepted)
      /\ \A i \in DOMAIN accepted : accepted[i] <= now
  BY ListsAre, BudgetAssumption
<1>1. PICK w \in Int : w = now - Window /\ w < now
  BY <1>0
<1>2. Cardinality(After(runs, w)) <= Budget /\ Covers(w, now, runs, accepted, boots)
  BY <1>1 DEF PolicyInv, BudgetInv, Covers
<1>3. /\ Kept = Last(runs, w) /\ Recent(accepted, Window) = Last(accepted, w)
      /\ Kept \in Seq(Nat)
  BY <1>0, <1>1, RecentParts DEF Kept
<1>4. SUFFICES /\ Cardinality(After(runs', now' - Window)) <= Budget
               /\ Covers(now' - Window, now', runs', accepted', boots')
  BY DEF BudgetInv, Covers
<1>5. CASE now' = now /\ boots' = boots /\ Same
  BY <1>1, <1>2, <1>5 DEF Same
<1>6. Cardinality(After(Kept, w)) = Cardinality(After(runs, w))
  BY <1>0, <1>3, AfterOfLast
<1>7. CASE now' = now /\ boots' = boots /\ Pruned
  BY <1>0, <1>1, <1>2, <1>3, <1>6, <1>7, CoversPruned DEF Pruned
<1>8. CASE now' = now /\ boots' = boots /\ Ran
  <2>1. Cardinality(After(Append(Kept, now), w)) = Cardinality(After(runs, w)) + 1
    BY <1>0, <1>1, <1>3, <1>6, AfterAppended
  <2>2. Cardinality(After(runs, w)) \in Nat /\ Cardinality(After(runs, w)) < Budget
    BY <1>0, <1>1, <1>8, AfterIsFinite DEF Ran
  <2>3. Cardinality(After(Append(Kept, now), w)) <= Budget
    BY <1>0, <2>1, <2>2
  <2>4. Covers(w, now, Append(Kept, now), Append(Recent(accepted, Window), now), boots)
    BY <1>0, <1>2, <1>3, CoversRun
  <2> QED BY <1>1, <1>8, <2>3, <2>4 DEF Ran
<1>9. CASE now' = now + 1 /\ now < MaxTime /\ boots' = boots /\ Same
  <2>1. now' - Window = w + 1
    BY <1>0, <1>1, <1>9
  <2>2. Covers(w + 1, now + 1, runs, accepted, boots)
    BY <1>0, <1>2, CoversLater
  <2>3. Cardinality(After(runs, w + 1)) <= Budget
    BY <1>0, <1>2, FewerLater
  <2> QED BY <1>9, <2>1, <2>2, <2>3 DEF Same
<1>10. CASE /\ now' = now /\ boots < MaxBoots /\ boots' = boots + 1 /\ runs' = runs
            /\ accepted' = accepted \/ accepted' = Append(Recent(accepted, Window), now)
  <2>1. Covers(w, now, runs, accepted', boots + 1)
    BY <1>0, <1>2, <1>3, <1>10, CoversLost
  <2> QED BY <1>1, <1>2, <1>10, <2>1
<1> QED BY <1>5, <1>7, <1>8, <1>9, <1>10, ListsMove

\* The watchdog's list is of times of the clock, whatever is kept of it or added to it.
LEMMA WatchKeptTyped ==
  ASSUME PolicyInv
  PROVE  /\ WatchKept \in Seq(Time) /\ Append(WatchKept, now) \in Seq(Time)
         /\ WatchKept = Last(watchRuns, now - WatchWindow)
         /\ Len(WatchKept) = Cardinality(After(watchRuns, now - WatchWindow))
<1>1. WatchWindow \in Nat /\ now \in Nat /\ now \in Time /\ watchRuns \in Seq(Nat)
        /\ watchRuns \in Seq(Time)
  BY WatchAssumption, ListsAre DEF PolicyInv, PolicyTypeOK
<1>2. WatchKept = Last(watchRuns, now - WatchWindow) /\ WatchKept \in Seq(Nat)
        /\ Len(WatchKept) = Cardinality(After(watchRuns, now - WatchWindow))
  BY <1>1, RecentParts DEF WatchKept
<1>3. MaxTime \in Nat /\ MaxTime \in Time
  BY BoundsAssumption DEF Time
<1>4. \A i \in DOMAIN watchRuns : watchRuns[i] <= MaxTime
  BY <1>1, <1>3, ElementOfSeq, LenProperties DEF Time
<1>5. \A i \in DOMAIN WatchKept : WatchKept[i] <= MaxTime
  <2>1. PICK cut \in Int : cut = now - WatchWindow
    BY <1>1
  <2>2. \A i \in DOMAIN Last(watchRuns, cut) : Last(watchRuns, cut)[i] <= MaxTime
    BY <1>1, <1>3, <1>4, LastInOrder
  <2> QED BY <1>2, <2>1, <2>2
<1>6. WatchKept \in Seq(Time)
  BY <1>2, <1>3, <1>5, PastIsTime
<1> QED BY <1>1, <1>2, <1>6, AppendProperties

\* What the watchdog does with its list, its pause and the browser.
LEMMA WatchdogMoves ==
  ASSUME PolicyInv, Watchdog
  PROVE  /\ \/ UNCHANGED watchVars
            \/ /\ now >= suppressed /\ watchRuns' = WatchKept /\ suppressed' = now + Suppress
               /\ deniedAt' = now
            \/ /\ now >= suppressed /\ watchRuns' = Append(WatchKept, now) /\ suppressed' = 0
               /\ deniedAt' = deniedAt
         /\ \/ UNCHANGED <<up, started, statusVars, accepted, saved>>
            \/ AutoRecover
         /\ UNCHANGED <<now, stopped, timer, boots, historyVars>>
  BY DEF Watchdog, WatchdogPaused, WatchdogExceeds, WatchdogRestarts, PauseStarts, watchVars

\* What Crash does.
LEMMA CrashMoves ==
  ASSUME PolicyInv, CrashPlansRestart
  PROVE  /\ attempts' \in 1 .. MaxAttempts /\ streak' \in Nat /\ streak' <= attempts'
         /\ backoffUntil' = now + RecoveryDelay(attempts') /\ backoffUntil' \in Nat
         /\ timer' = IF stopped THEN timer ELSE backoffUntil'
         /\ crashAt' = now /\ Persist
<1>1. /\ attempts \in 0 .. MaxAttempts /\ streak \in Nat /\ streak <= attempts
      /\ MaxAttempts \in Nat /\ now \in Nat
  BY ListsAre, BoundsAssumption DEF PolicyInv, PolicyTypeOK, SavedInv
<1>2. /\ FailuresSoFar < MaxAttempts /\ attempts' = FailuresSoFar + 1
      /\ streak' = IF now - started >= Stable THEN 1 ELSE streak + 1
      /\ FailuresSoFar = IF now - started >= Stable THEN 0 ELSE attempts
  BY DEF CrashPlansRestart, FailuresSoFar
<1>3. attempts' \in 1 .. MaxAttempts /\ streak' \in Nat /\ streak' <= attempts'
  <2>1. CASE now - started >= Stable
    BY <1>1, <1>2, <2>1
  <2>2. CASE ~(now - started >= Stable)
    BY <1>1, <1>2, <2>2
  <2> QED BY <2>1, <2>2
<1>4. backoffUntil' = now + RecoveryDelay(attempts')
  BY DEF CrashPlansRestart
<1>5. PICK a \in Nat : a = attempts'
  BY <1>1, <1>3
<1>6. backoffUntil' \in Nat
  BY <1>1, <1>4, <1>5, DelayGrows
<1> QED BY <1>3, <1>4, <1>6 DEF CrashPlansRestart

\* The status of recovery and what the file says of it stay well typed, and the
\* failures are never behind the crashes.
LEMMA StatusKept ==
  ASSUME PolicyInv, PolicyNext
  PROVE  /\ SavedInv' /\ attempts' \in 0 .. MaxAttempts /\ streak' \in Nat /\ backoffUntil' \in Nat
         /\ saved' \in [attempts : 0 .. MaxAttempts, backoffUntil : Horizon, runs : Seq(Time)]
<1>0. /\ attempts \in 0 .. MaxAttempts /\ streak \in Nat
      /\ backoffUntil \in Nat /\ MaxAttempts \in Nat
      /\ saved \in [attempts : 0 .. MaxAttempts, backoffUntil : Horizon, runs : Seq(Time)]
      /\ saved.attempts \in 0 .. MaxAttempts /\ saved.backoffUntil \in Nat
      /\ saved.runs = runs /\ streak <= attempts /\ streak <= saved.attempts
  BY BoundsAssumption DEF PolicyInv, PolicyTypeOK, SavedInv, Horizon
<1>1. runs' \in Seq(Time)
  BY ListsKept
<1>2. ASSUME Persist, attempts' \in 0 .. MaxAttempts, streak' \in Nat, streak' <= attempts',
             backoffUntil' \in Nat
      PROVE  /\ SavedInv'
             /\ saved' \in [attempts : 0 .. MaxAttempts, backoffUntil : Horizon, runs : Seq(Time)]
  <2>1. saved'.runs = runs' /\ saved'.attempts = attempts'
    BY <1>2 DEF Persist
  <2>2. attempts' \in Nat
    BY <1>0, <1>2
  <2>3. saved' \in [attempts : 0 .. MaxAttempts, backoffUntil : Horizon, runs : Seq(Time)]
    BY <1>1, <1>2, <2>2 DEF Persist, Horizon
  <2> QED BY <1>2, <2>1, <2>3 DEF SavedInv
<1>3. ASSUME attempts' = attempts \/ (attempts < MaxAttempts /\ attempts' = attempts + 1),
             streak' = streak
      PROVE  attempts' \in 0 .. MaxAttempts /\ streak' \in Nat /\ streak' <= attempts'
  BY <1>0, <1>3
<1>4. CASE UserStarts \/ UserStops \/ PageShown
  BY <1>0, <1>2, <1>3, <1>4 DEF UserStarts, UserStops, PageShown, historyVars
<1>5. CASE UserRecovers
  <2>1. streak' = streak
    BY <1>5 DEF UserRecovers, historyVars
  <2> QED BY <1>2, <1>3, <1>5, <2>1, RecoverMoves DEF UserRecovers
<1>6. CASE RestartTimerFires
  <2>1. streak' = streak
    BY <1>6 DEF RestartTimerFires, historyVars
  <2> QED BY <1>2, <1>3, <1>6, <2>1, RecoverMoves DEF RestartTimerFires
<1>7. ASSUME AutoRecover, streak' = streak
      PROVE  /\ SavedInv' /\ attempts' \in 0 .. MaxAttempts /\ streak' \in Nat
             /\ backoffUntil' \in Nat
             /\ saved' \in [attempts : 0 .. MaxAttempts, backoffUntil : Horizon, runs : Seq(Time)]
  <2>1. CASE Persist
    BY <1>2, <1>3, <1>7, <2>1, AutoMoves
  <2>2. CASE Same /\ UNCHANGED <<saved, attempts, backoffUntil>>
    BY <1>0, <1>7, <2>2 DEF Same, SavedInv
  <2> QED BY <1>7, <2>1, <2>2, AutoMoves
<1>8. CASE ControlLost
  BY <1>7, <1>8 DEF ControlLost, historyVars
<1>9. CASE Watchdog
  <2>1. CASE AutoRecover
    BY <1>7, <1>9, <2>1, WatchdogMoves DEF historyVars
  <2>2. CASE UNCHANGED <<up, started, statusVars, accepted, saved>>
    BY <1>0, <1>9, <2>2, WatchdogMoves DEF statusVars, historyVars, SavedInv
  <2> QED BY <1>9, <2>1, <2>2, WatchdogMoves
<1>10. CASE CrashPlansRestart
  <2>1. attempts' \in 0 .. MaxAttempts
    BY <1>0, <1>10, CrashMoves
  <2> QED BY <1>2, <1>10, <2>1, CrashMoves
<1>11. CASE FailuresForgiven
  <2>1. /\ attempts' = 0 /\ backoffUntil' = 0 /\ streak' = 0 /\ runs' = runs
        /\ Persist \/ UNCHANGED saved
    BY <1>11 DEF FailuresForgiven
  <2> QED BY <1>0, <1>2, <2>1 DEF SavedInv
<1>12. CASE Boot
  <2>1. attempts' = attempts \/ attempts' = saved.attempts
    BY <1>12 DEF Boot
  <2>2. attempts' \in 0 .. MaxAttempts
    BY <1>0, <2>1
  <2> QED BY <1>0, <1>12, <2>2 DEF Boot, historyVars, SavedInv
<1>13. CASE Tick
  BY <1>0, <1>13 DEF Tick, statusVars, historyVars, SavedInv
<1> QED BY <1>4, <1>5, <1>6, <1>8, <1>9, <1>10, <1>11, <1>12, <1>13 DEF PolicyNext

\* The processes, the watchdog and the history variables stay well typed.
LEMMA RestKept ==
  ASSUME PolicyInv, PolicyNext
  PROVE  /\ up' \in BOOLEAN /\ stopped' \in BOOLEAN /\ announced' \in Announced
         /\ started' \in Time /\ crashAt' \in Time /\ deniedAt' \in Time
         /\ timer' \in Horizon /\ suppressed' \in Horizon /\ watchRuns' \in Seq(Time)
<1>1. /\ up \in BOOLEAN /\ stopped \in BOOLEAN /\ announced \in Announced
  BY DEF PolicyInv, PolicyTypeOK
<1>2. /\ started \in Time /\ crashAt \in Time /\ deniedAt \in Time /\ now \in Time /\ 0 \in Time
      /\ timer \in Nat /\ suppressed \in Nat /\ watchRuns \in Seq(Time) /\ now + Suppress \in Nat
      /\ backoffUntil \in Nat /\ Horizon = Nat
  <2>1. /\ started \in Time /\ crashAt \in Time /\ deniedAt \in Time
        /\ watchRuns \in Seq(Time)
    BY DEF PolicyInv, PolicyTypeOK
  <2>2. /\ timer \in Horizon /\ suppressed \in Horizon /\ backoffUntil \in Horizon
        /\ Horizon = Nat
    BY DEF PolicyInv, PolicyTypeOK, Horizon
  <2>3. now \in Time /\ now \in Nat /\ 0 \in Time
    BY ListsAre, BoundsAssumption DEF Time
  <2>4. now + Suppress \in Nat
    BY <2>3, WatchAssumption
  <2> QED BY <2>1, <2>2, <2>3, <2>4
<1>3. {"none", "running", "scheduled", "failed"} \subseteq Announced
  BY DEF Announced
<1>4. <<>> \in Seq(Time)
  BY EmptyParts
<1>5. CASE UserStarts \/ UserStops \/ PageShown
  <2>1. up' \in BOOLEAN /\ stopped' \in BOOLEAN
    BY <1>1, <1>5, Zenon DEF UserStarts, UserStops, PageShown, StartBrowser, RestartBrowser
  <2>2. announced' \in Announced
    BY <1>1, <1>3, <1>5 DEF UserStarts, UserStops, PageShown, StartBrowser, RestartBrowser
  <2>3. started' \in {started, now} /\ (timer' = 0 \/ timer' = timer)
          /\ UNCHANGED <<watchVars, historyVars>>
    BY <1>5 DEF UserStarts, UserStops, PageShown, StartBrowser, RestartBrowser
  <2> QED BY <1>2, <2>1, <2>2, <2>3 DEF watchVars, historyVars
<1>6. CASE UserRecovers \/ RestartTimerFires
  <2>1. up' \in BOOLEAN /\ announced' \in Announced /\ started' \in {started, now}
    BY <1>6, RecoverMoves DEF UserRecovers, RestartTimerFires
  <2>2. stopped' \in BOOLEAN
    BY <1>1, <1>6, Zenon DEF UserRecovers, RestartTimerFires
  <2>3. timer' = 0 /\ UNCHANGED <<watchVars, historyVars>>
    BY <1>6 DEF UserRecovers, RestartTimerFires
  <2> QED BY <1>2, <2>1, <2>2, <2>3 DEF watchVars, historyVars
<1>7. ASSUME AutoRecover \/ UNCHANGED <<up, started, statusVars, accepted, saved>>
      PROVE  up' \in BOOLEAN /\ announced' \in Announced /\ started' \in Time
  <2>1. CASE AutoRecover
    BY <1>2, <2>1, AutoMoves
  <2>2. CASE UNCHANGED <<up, started, statusVars, accepted, saved>>
    BY <1>1, <1>2, <2>2 DEF statusVars
  <2> QED BY <1>7, <2>1, <2>2
<1>8. CASE ControlLost
  <2>1. AutoRecover /\ UNCHANGED <<stopped, timer, watchVars, historyVars>>
    BY <1>8 DEF ControlLost
  <2> QED BY <1>1, <1>2, <1>7, <2>1 DEF watchVars, historyVars
<1>9. CASE Watchdog
  <2>1. AutoRecover \/ UNCHANGED <<up, started, statusVars, accepted, saved>>
    BY <1>9, WatchdogMoves
  <2>2. UNCHANGED <<stopped, timer, historyVars>>
    BY <1>9, WatchdogMoves
  <2>3. /\ watchRuns' \in {watchRuns, WatchKept, Append(WatchKept, now)}
        /\ suppressed' \in {suppressed, now + Suppress, 0} /\ deniedAt' \in {deniedAt, now}
    BY <1>9, WatchdogMoves DEF watchVars
  <2>4. watchRuns' \in Seq(Time)
    BY <1>2, <2>3, WatchKeptTyped
  <2>5. suppressed' \in Nat /\ deniedAt' \in Time
    BY <1>2, <2>3
  <2>6. stopped' \in BOOLEAN
    BY <1>1, <2>2
  <2>7. timer' \in Nat /\ crashAt' \in Time
    BY <1>2, <2>2 DEF historyVars
  <2>8. up' \in BOOLEAN /\ announced' \in Announced /\ started' \in Time
    BY <1>7, <2>1
  <2> QED BY <1>2, <2>4, <2>5, <2>6, <2>7, <2>8
<1>10. CASE CrashPlansRestart
  <2>1. up' \in BOOLEAN
    BY <1>10 DEF CrashPlansRestart
  <2>2. /\ announced' = "scheduled" /\ crashAt' = now
        /\ UNCHANGED <<started, stopped, watchVars>>
    BY <1>10 DEF CrashPlansRestart
  <2>3. timer' = timer \/ timer' = backoffUntil'
    BY <1>10 DEF CrashPlansRestart
  <2> QED BY <1>1, <1>2, <1>3, <1>10, <2>1, <2>2, <2>3, CrashMoves DEF watchVars
<1>11. CASE FailuresForgiven \/ Tick
  BY <1>1, <1>2, <1>11 DEF FailuresForgiven, Tick, watchVars, historyVars, statusVars
<1>12. CASE Boot
  <2>1. up' \in BOOLEAN /\ stopped' \in BOOLEAN
    BY <1>12, Zenon DEF Boot
  <2>2. /\ announced' \in Announced /\ started' \in {now, 0} /\ timer' = 0 /\ watchRuns' = <<>>
        /\ suppressed' = 0 /\ deniedAt' = 0 /\ crashAt' = crashAt
    BY <1>3, <1>12 DEF Boot, historyVars
  <2> QED BY <1>2, <1>4, <2>1, <2>2
<1> QED BY <1>5, <1>6, <1>8, <1>9, <1>10, <1>11, <1>12 DEF PolicyNext

\* The timer never waits for less than the delay of the crashes so far.
LEMMA TimerKept ==
  ASSUME PolicyInv, PolicyNext
  PROVE  TimerInv'
<1>0. /\ streak \in Nat /\ crashAt \in Nat /\ now \in Nat /\ timer \in Nat
      /\ stopped => timer = 0
      /\ timer # 0 => timer >= crashAt + RecoveryDelay(streak)
  BY ListsAre DEF PolicyInv, PolicyTypeOK, TimerInv, Time, Horizon
<1>1. ASSUME timer' = 0 PROVE TimerInv'
  BY <1>1 DEF TimerInv
<1>2. ASSUME timer' = timer, stopped' = stopped, crashAt' = crashAt, streak' = streak
      PROVE  TimerInv'
  BY <1>2 DEF PolicyInv, TimerInv
<1>3. CASE UserStarts \/ UserStops \/ UserRecovers \/ RestartTimerFires \/ Boot
  BY <1>1, <1>3 DEF UserStarts, UserStops, UserRecovers, RestartTimerFires, Boot
<1>4. CASE PageShown \/ ControlLost \/ Watchdog \/ Tick
  BY <1>2, <1>4 DEF PageShown, ControlLost, Watchdog, Tick, historyVars
<1>5. CASE CrashPlansRestart
  <2>1. CASE stopped
    BY <1>0, <1>1, <1>5, <2>1, CrashMoves
  <2>2. CASE ~stopped
    <3>1. timer' = now + RecoveryDelay(attempts') /\ crashAt' = now /\ stopped' = stopped
      BY <1>5, <2>2, CrashMoves DEF CrashPlansRestart
    <3>2. PICK a, k \in Nat : a = attempts' /\ k = streak' /\ k <= a
      BY <1>5, CrashMoves, BoundsAssumption
    <3>3. /\ RecoveryDelay(k) \in Nat /\ RecoveryDelay(a) \in Nat
          /\ RecoveryDelay(k) <= RecoveryDelay(a)
      BY <3>2, DelayGrows
    <3>4. now + RecoveryDelay(a) >= now + RecoveryDelay(k)
      BY <1>0, <3>3
    <3>5. timer' >= crashAt' + RecoveryDelay(streak')
      BY <3>1, <3>2, <3>4
    <3> QED BY <2>2, <3>1, <3>5 DEF TimerInv
  <2> QED BY <2>1, <2>2
<1>6. CASE FailuresForgiven
  <2>1. timer' = timer /\ stopped' = stopped /\ crashAt' = crashAt /\ streak' = 0
    BY <1>6 DEF FailuresForgiven
  <2>2. RecoveryDelay(0) \in Nat /\ RecoveryDelay(streak) \in Nat
          /\ RecoveryDelay(0) <= RecoveryDelay(streak)
    BY <1>0, DelayGrows
  <2>3. timer # 0 => timer >= crashAt + RecoveryDelay(0)
    BY <1>0, <2>2
  <2> QED BY <1>0, <2>1, <2>3 DEF TimerInv
<1> QED BY <1>3, <1>4, <1>5, <1>6 DEF PolicyNext

\* The pause is never cut short but by a restart of the service.
LEMMA PauseKept ==
  ASSUME PolicyInv, PolicyNext
  PROVE  PauseInv'
<1>0. now \in Nat /\ deniedAt \in Nat /\ suppressed \in Nat /\ Suppress \in Nat
  BY ListsAre, WatchAssumption DEF PolicyInv, PolicyTypeOK, Time, Horizon
<1>1. ASSUME UNCHANGED watchVars, now' = now \/ now' = now + 1 PROVE PauseInv'
  <2>1. PICK n \in Nat : n = now' /\ n >= now
    BY <1>0, <1>1
  <2> QED BY <1>0, <1>1, <2>1 DEF PolicyInv, PauseInv, watchVars
<1>2. CASE UserStarts \/ UserStops \/ UserRecovers \/ PageShown \/ CrashPlansRestart
             \/ RestartTimerFires \/ FailuresForgiven \/ ControlLost \/ Tick
  BY <1>1, <1>2 DEF UserStarts, UserStops, UserRecovers, PageShown, CrashPlansRestart,
                    RestartTimerFires, FailuresForgiven, ControlLost, Tick
<1>3. CASE Watchdog
  <2>1. now' = now
    BY <1>3, WatchdogMoves
  <2>2. CASE now >= suppressed /\ suppressed' = now + Suppress /\ deniedAt' = now
    BY <2>2 DEF PauseInv
  <2>3. CASE now >= suppressed /\ suppressed' = 0 /\ deniedAt' = deniedAt
    BY <1>0, <2>1, <2>3 DEF PolicyInv, PauseInv
  <2> QED BY <1>1, <1>3, <2>1, <2>2, <2>3, WatchdogMoves
<1>4. CASE Boot
  BY <1>4 DEF Boot, PauseInv
<1> QED BY <1>2, <1>3, <1>4 DEF PolicyNext

LEMMA PolicyKept == PolicyInv /\ [PolicyNext]_policyVars => PolicyInv'
<1>1. ASSUME PolicyInv, PolicyNext PROVE PolicyInv'
  <2>1. PolicyTypeOK'
    BY <1>1, ListsKept, StatusKept, RestKept DEF PolicyTypeOK, Horizon
  <2> QED BY <1>1, <2>1, ListsKept, BudgetKept, StatusKept, TimerKept, PauseKept DEF PolicyInv
<1>2. ASSUME PolicyInv, UNCHANGED policyVars PROVE PolicyInv'
  <2>1. PolicyTypeOK'
    BY <1>2 DEF PolicyInv, PolicyTypeOK, policyVars, statusVars, watchVars, historyVars
  <2>2. OrderInv' /\ SavedInv'
    BY <1>2 DEF PolicyInv, OrderInv, SavedInv, policyVars, statusVars, watchVars, historyVars
  <2>3. now' = now /\ runs' = runs /\ accepted' = accepted /\ boots' = boots
    BY <1>2 DEF policyVars, statusVars
  <2>4. BudgetInv'
    BY <1>2, <2>3 DEF PolicyInv, BudgetInv
  <2>5. TimerInv'
    BY <1>2 DEF PolicyInv, TimerInv, policyVars, statusVars, watchVars, historyVars
  <2>6. PauseInv'
    BY <1>2 DEF PolicyInv, PauseInv, policyVars, statusVars, watchVars, historyVars
  <2> QED BY <2>1, <2>2, <2>4, <2>5, <2>6 DEF PolicyInv
<1> QED BY <1>1, <1>2

\* The invariant holds in every reachable state.
LEMMA PolicyInvariance == PolicySpec => []PolicyInv
  BY PolicyStarts, PolicyKept, PTL DEF PolicySpec

-----------------------------------------------------------------------------
\* What was run within the last window is within the budget.
LEMMA BudgetFollows == PolicyInv => BudgetHeld
<1> SUFFICES ASSUME PolicyInv PROVE BudgetHeld
  OBVIOUS
<1>1. /\ now \in Nat /\ accepted \in Seq(Nat) /\ runs \in Seq(Nat)
      /\ Window \in Nat /\ Budget \in Nat
      /\ boots \in Nat
  BY ListsAre, BudgetAssumption
<1>2. PICK w \in Int : w = now - Window
  BY <1>1
<1>3. /\ Cardinality(After(runs, w)) <= Budget
      /\ Cardinality(After(accepted, w)) <= Cardinality(After(runs, w)) + boots
  <2>1. w \in w .. now
    BY <1>1, <1>2
  <2>2. /\ Cardinality(After(runs, w)) <= Budget
        /\ \A cut \in w .. now :
             Cardinality(After(accepted, cut)) <= Cardinality(After(runs, cut)) + boots
    BY <1>2 DEF PolicyInv, BudgetInv
  <2> QED BY <2>1, <2>2
<1>4. Cardinality(After(runs, w)) \in Nat /\ Cardinality(After(accepted, w)) \in Nat
  <2>1. Cardinality(After(runs, w)) \in 0 .. Len(runs)
    BY <1>1, <1>2, AfterIsFinite
  <2>2. Cardinality(After(accepted, w)) \in 0 .. Len(accepted)
    BY <1>1, <1>2, AfterIsFinite
  <2>3. Len(runs) \in Nat /\ Len(accepted) \in Nat
    BY <1>1
  <2> QED BY <2>1, <2>2, <2>3
<1>5. Len(Recent(accepted, Window)) = Cardinality(After(accepted, w))
  BY <1>1, <1>2, RecentParts
<1>6. Len(Recent(accepted, Window)) <= Budget + boots
  BY <1>1, <1>3, <1>4, <1>5
<1> QED BY <1>6 DEF PolicyInv, BudgetHeld

\* No window sees more recoveries than the budget and the restarts of the service
\* allow, for every budget, window, delay and length of run.
THEOREM BudgetHolds == PolicySpec => []BudgetHeld
  BY PolicyInvariance, BudgetFollows, PTL

\* The timer restarts no browser before the delay that its crashes call for.
THEOREM CrashLoopHolds == PolicySpec => CrashLoopSlowsDown
<1>1. ASSUME PolicyInv, [PolicyNext]_policyVars
      PROVE  [timer # 0 /\ timer' = 0 /\ ~up /\ up' /\ accepted' # accepted /\ now >= timer
                => now >= crashAt + RecoveryDelay(streak)]_policyVars
  <2>1. /\ now \in Nat /\ timer \in Nat /\ crashAt \in Nat /\ streak \in Nat
    BY <1>1, ListsAre DEF PolicyInv, PolicyTypeOK, Time, Horizon
  <2>2. RecoveryDelay(streak) \in Nat
    BY <2>1, DelayGrows
  <2>3. timer # 0 => timer >= crashAt + RecoveryDelay(streak)
    BY <1>1 DEF PolicyInv, TimerInv
  <2>4. timer # 0 /\ now >= timer => now >= crashAt + RecoveryDelay(streak)
    BY <2>1, <2>2, <2>3
  <2> QED BY <2>4
<1> QED BY <1>1, PolicyInvariance, PTL DEF PolicySpec, CrashLoopSlowsDown

\* A list never equals what the watchdog would make of it now.
LEMMA NotItself ==
  ASSUME NEW s \in Seq(Nat), NEW at \in Nat, NEW cut \in Int, cut < at
  PROVE  s # Append(Last(s, cut), at)
<1> SUFFICES ASSUME s = Append(Last(s, cut), at) PROVE FALSE
  OBVIOUS
<1> DEFINE l == Last(s, cut)
           n == Cardinality(After(s, cut))
<1>1. /\ n \in 0 .. Len(s) /\ Len(s) \in Nat /\ l \in Seq(Nat) /\ Len(l) = n
      /\ \A i \in 1 .. n : l[i] = s[Len(s) - n + i]
  BY LastParts
<1>2. s = Append(l, at) /\ IsFiniteSet(After(s, cut))
  BY AfterIsFinite
<1>3. After(s, cut) = {i \in 1 .. Len(s) : s[i] > cut} /\ \A i \in 1 .. Len(s) : s[i] \in Nat
  BY LenProperties, ElementOfSeq DEF After
<1> DEFINE A == After(s, cut)
<1>4. IsFiniteSet(A) /\ Cardinality(A) = n
  BY <1>2
<1> HIDE DEF l, n, A
<1>5. Len(s) = n + 1 /\ n \in Nat /\ s[n + 1] = at /\ \A i \in 1 .. n : s[i] = l[i]
  <2>1. /\ Len(Append(l, at)) = Len(l) + 1 /\ Append(l, at)[Len(l) + 1] = at
        /\ \A i \in 1 .. Len(l) : Append(l, at)[i] = l[i]
    BY <1>1, AppendProperties
  <2>2. /\ Len(s) = Len(l) + 1 /\ s[Len(l) + 1] = at
        /\ \A i \in 1 .. Len(l) : s[i] = l[i]
    BY <1>2, <2>1, Zenon
  <2> QED BY <1>1, <2>2
<1>6. \A i \in 1 .. n : s[i] = s[i + 1]
  <2>1. Len(s) - n = 1
    BY <1>5
  <2>2. \A i \in 1 .. n : l[i] = s[1 + i]
    BY <1>1, <2>1
  <2> QED BY <1>5, <2>2
<1>7. A = {i \in 1 .. (n + 1) : s[i] > cut} /\ \A i \in 1 .. (n + 1) : s[i] \in Nat
  BY <1>3, <1>5 DEF A
<1>8. PICK k \in 1 .. (n + 1) : k \notin A
  <2>1. SUFFICES ASSUME \A k \in 1 .. (n + 1) : k \in A PROVE FALSE
    OBVIOUS
  <2>2. A = 1 .. (n + 1)
    BY <1>7, <2>1
  <2>3. Cardinality(1 .. (n + 1)) = n + 1
    <3>1. 1 \in Int /\ n + 1 \in Int /\ ~(1 > n + 1) /\ ((n + 1) - 1) + 1 = n + 1
      BY <1>5
    <3> QED BY <3>1, FS_Interval
  <2> QED BY <1>4, <1>5, <2>2, <2>3
<1>9. s[k] <= cut /\ k # n + 1 /\ k \in 1 .. n
  BY <1>5, <1>7, <1>8
<1>10. k + 1 \in 1 .. (n + 1) /\ s[k + 1] <= cut /\ k + 1 \notin A /\ k # k + 1
  BY <1>5, <1>6, <1>7, <1>9
<1>11. A \cup {k, k + 1} \subseteq 1 .. (n + 1)
  BY <1>7, <1>8, <1>10
<1>12. Cardinality((A \cup {k}) \cup {k + 1}) = n + 2
  <2>1. IsFiniteSet(A \cup {k}) /\ Cardinality(A \cup {k}) = n + 1
    BY <1>4, <1>8, FS_AddElement
  <2>2. k + 1 \notin A \cup {k}
    BY <1>10
  <2>3. Cardinality((A \cup {k}) \cup {k + 1}) = (n + 1) + 1
    BY <2>1, <2>2, FS_AddElement
  <2> QED BY <1>5, <2>3
<1>13. Cardinality(1 .. (n + 1)) = n + 1 /\ IsFiniteSet(1 .. (n + 1))
  <2>1. 1 \in Int /\ n + 1 \in Int /\ ~(1 > n + 1) /\ ((n + 1) - 1) + 1 = n + 1
    BY <1>5
  <2> QED BY <2>1, FS_Interval
<1>14. (A \cup {k}) \cup {k + 1} \subseteq 1 .. (n + 1)
  BY <1>11
<1>15. Cardinality((A \cup {k}) \cup {k + 1}) <= Cardinality(1 .. (n + 1))
  BY <1>13, <1>14, FS_Subset
<1> QED BY <1>5, <1>12, <1>13, <1>15

\* The list of a step that restarts no browser is no list with a new restart in it.
LEMMA NewOnlyByRestart ==
  ASSUME PolicyInv, watchRuns' \in {watchRuns, WatchKept, <<>>}
  PROVE  watchRuns' # Append(WatchKept, now)
<1>1. /\ now \in Nat /\ watchRuns \in Seq(Nat) /\ WatchWindow \in Nat \ {0}
  BY ListsAre, WatchAssumption
<1>2. PICK cut \in Int : cut = now - WatchWindow /\ cut < now
  BY <1>1
<1>3. WatchKept = Last(watchRuns, cut) /\ WatchKept \in Seq(Time)
  BY <1>2, WatchKeptTyped
<1>4. watchRuns # Append(WatchKept, now)
  BY <1>1, <1>2, <1>3, NotItself
<1>5. Len(Append(WatchKept, now)) = Len(WatchKept) + 1 /\ Len(WatchKept) \in Nat
  BY <1>3
<1>6. WatchKept # Append(WatchKept, now) /\ <<>> # Append(WatchKept, now)
  BY <1>5
<1> QED BY <1>4, <1>6

\* The watchdog that has exceeded its limit restarts no browser for the whole pause,
\* whatever the lists, the clock and the browser do in between.
THEOREM PauseHolds == PolicySpec => WatchdogPauseHeld
<1>1. ASSUME PolicyInv, [PolicyNext]_policyVars
      PROVE  [watchRuns' = Append(WatchKept, now)
                => deniedAt = 0 \/ now >= deniedAt + Suppress]_policyVars
  <2>1. CASE Watchdog
    <3>1. \/ watchRuns' = watchRuns
          \/ watchRuns' = WatchKept
          \/ now >= suppressed
      BY <1>1, <2>1, WatchdogMoves DEF watchVars
    <3>2. now \in Nat /\ deniedAt \in Nat /\ suppressed \in Nat /\ Suppress \in Nat
      BY <1>1, ListsAre, WatchAssumption DEF PolicyInv, PolicyTypeOK, Time, Horizon
    <3>3. now >= suppressed => deniedAt = 0 \/ now >= deniedAt + Suppress
      BY <1>1, <3>2 DEF PolicyInv, PauseInv
    <3> QED BY <1>1, <3>1, <3>3, NewOnlyByRestart
  <2>2. CASE UserStarts \/ UserStops \/ UserRecovers \/ PageShown \/ CrashPlansRestart
               \/ RestartTimerFires \/ FailuresForgiven \/ ControlLost \/ Tick
    <3>1. watchRuns' = watchRuns
      BY <2>2 DEF UserStarts, UserStops, UserRecovers, PageShown, CrashPlansRestart,
                  RestartTimerFires, FailuresForgiven, ControlLost, Tick, watchVars
    <3> QED BY <1>1, <3>1, NewOnlyByRestart
  <2>3. CASE Boot
    <3>1. watchRuns' = <<>>
      BY <2>3 DEF Boot
    <3> QED BY <1>1, <3>1, NewOnlyByRestart
  <2>4. CASE UNCHANGED policyVars
    BY <2>4
  <2> QED BY <1>1, <2>1, <2>2, <2>3, <2>4 DEF PolicyNext
<1> QED BY <1>1, PolicyInvariance, PTL DEF PolicySpec, WatchdogPauseHeld

=============================================================================
