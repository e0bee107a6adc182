---------------------------- MODULE RecoveryPolicy ----------------------------
(***************************************************************************)
(* When KioskMate restarts the browser by itself, in measured time:        *)
(* exponential backoff after crashes and failed recoveries, the hourly     *)
(* budget of recoveries, the watchdog's own limit, and what of it survives *)
(* a restart of the service (internal/supervisor/runtime.go, browser.go).  *)
(*                                                                         *)
(* Every operation is one step here; BrowserLifecycle explores how the     *)
(* sections of operations interleave and how the authentication guard and  *)
(* a Stop in progress interfere.                                           *)
(***************************************************************************)
EXTENDS Integers, Sequences, FiniteSets

CONSTANTS
  BaseDelay, MaxShift, MaxDelay,     \* recoveryDelay: 5 s, 7 doublings, 10 min
  Stable,                            \* stableRuntime: 10 min
  Window, Budget,                    \* recoveries: 6 within an hour
  WatchdogEnabled,                   \* cfg.Watchdog.Enabled
  WatchWindow, WatchMax, Suppress,   \* watchdog: 3 within 30 min, then a pause of 30 min
  MaxTime,                           \* bound on the clock
  MaxAttempts,                       \* bound on failures in a row
  MaxBoots                           \* bound on restarts of the service

ASSUME DelayAssumption  == BaseDelay \in Nat \ {0} /\ MaxShift \in Nat /\ MaxDelay \in Nat \ {0}
ASSUME StableAssumption == Stable \in Nat
ASSUME BudgetAssumption == Window \in Nat \ {0} /\ Budget \in Nat \ {0}
ASSUME WatchAssumption  == WatchWindow \in Nat \ {0} /\ WatchMax \in Nat \ {0}
                             /\ Suppress \in Nat \ {0} /\ WatchdogEnabled \in BOOLEAN
ASSUME BoundsAssumption == MaxTime \in Nat \ {0} /\ MaxAttempts \in Nat /\ MaxBoots \in Nat

VARIABLES
  now,           \* the clock
  up,            \* a browser process is published
  started,       \* b.started
  stopped,       \* b.manuallyStopped
  attempts,      \* b.recovery.Attempts
  backoffUntil,  \* b.recovery.BackoffUntil, 0 for nil
  announced,     \* b.recovery.State and Stage, as the Admin shows them
  runs,          \* b.recoveryRuns
  timer,         \* deadline of the armed restart timer, 0 for none
  watchRuns,     \* b.watchdogRuns
  suppressed,    \* b.watchdog.SuppressedUntil, 0 for nil
  saved,         \* attempts, BackoffUntil and recoveryRuns in runtime-state.json
  boots,         \* restarts of the service so far
  accepted,      \* history: times of the recoveries run in the last Window
  deniedAt,      \* history: when the watchdog last exceeded its limit, 0 for never
  crashAt,       \* history: the last crash
  streak         \* history: crashes since the browser last ran for Stable

statusVars  == <<attempts, backoffUntil, announced, runs>>
watchVars   == <<watchRuns, suppressed, deniedAt>>
historyVars == <<crashAt, streak>>
policyVars == <<now, up, started, stopped, statusVars, timer, watchVars, saved, boots, accepted,
          historyVars>>

Time       == 0 .. MaxTime
Horizon    == Nat
Announced  == {"none", "running", "scheduled", "budget", "failed"}

PolicyTypeOK ==
  /\ now \in Time \ {0} /\ started \in Time /\ crashAt \in Time /\ deniedAt \in Time
  /\ up \in BOOLEAN /\ stopped \in BOOLEAN
  /\ attempts \in 0 .. MaxAttempts /\ streak \in Nat
  /\ backoffUntil \in Horizon /\ timer \in Horizon /\ suppressed \in Horizon
  /\ announced \in Announced
  /\ runs \in Seq(Time) /\ watchRuns \in Seq(Time)
  /\ accepted \in Seq(Time)
  /\ saved \in [attempts : 0 .. MaxAttempts, backoffUntil : Horizon, runs : Seq(Time)]
  /\ boots \in 0 .. MaxBoots

PolicyInit ==
  /\ now = 1
  /\ up = FALSE /\ started = 0 /\ stopped = FALSE
  /\ attempts = 0 /\ backoffUntil = 0 /\ announced = "none" /\ runs = <<>>
  /\ timer = 0
  /\ watchRuns = <<>> /\ suppressed = 0
  /\ saved = [attempts |-> 0, backoffUntil |-> 0, runs |-> <<>>]
  /\ boots = 0
  /\ accepted = <<>> /\ deniedAt = 0 /\ crashAt = 0 /\ streak = 0

-----------------------------------------------------------------------------
(***************************************************************************)
(* Arithmetic                                                              *)
(***************************************************************************)

Lower(a, b)  == IF a < b THEN a ELSE b

\* The places in a list of times that come after one.
After(times, cut) == {i \in DOMAIN times : times[i] > cut}

\* A list of times is in their order: those within the span are the last.
Recent(times, span) ==
  SubSeq(times, Len(times) - Cardinality(After(times, now - span)) + 1, Len(times))

\* recoveryDelay: doubles with every attempt up to a ceiling.
RecoveryDelay(attempt) ==
  LET n == IF attempt < 1 THEN 1 ELSE attempt
  IN  Lower(BaseDelay * 2 ^ Lower(n - 1, MaxShift), MaxDelay)

KeptTooFew == Recent(runs, Window - 1)   \* weakened form

\* The recoveries of the last hour.
Kept == Recent(runs, Window)

\* persistRuntimeState, which ends every gated operation and every crash.
Persist == saved' = [attempts |-> attempts', backoffUntil |-> backoffUntil', runs |-> runs']

WatchKept == Recent(watchRuns, WatchWindow)

-----------------------------------------------------------------------------
(***************************************************************************)
(* start and recover                                                       *)
(***************************************************************************)

\* start, with no process published: it runs, or its failure is recorded.
StartBrowser ==
  \/ up' = TRUE /\ started' = now /\ announced' = "running"
  \/ up' = FALSE /\ announced' = "failed" /\ UNCHANGED started

\* restart: the old process ends before the new one starts; a stop that fails leaves
\* it up or ends it late, as a wanted exit.
RestartBrowser ==
  \/ StartBrowser
  \/ announced' = "failed" /\ UNCHANGED <<up, started>>
  \/ up' = FALSE /\ announced' = "none" /\ UNCHANGED started

RefusedInBackoff ==
  /\ now < backoffUntil
  /\ UNCHANGED <<up, started, statusVars, accepted>>

\* The recovery waits for the oldest one of the last hour to leave the window; no
\* timer is armed for that.
RefusedOverBudget ==
  /\ now >= backoffUntil
  /\ Len(Kept) >= Budget
  /\ runs' = Kept
  /\ backoffUntil' = Kept[1] + Window
  /\ announced' = "budget"
  /\ UNCHANGED <<up, started, attempts, accepted>>

RecoveryAllowed == now >= backoffUntil /\ Len(Kept) < Budget

\* A recovery runs: a reload (only when the process is up and no restart is forced), a
\* restart or a start; finishRecovery records the outcome.
RecoveryRuns(forced) ==
  /\ RecoveryAllowed
  /\ runs' = Append(Kept, now)
  /\ accepted' = Append(Recent(accepted, Window), now)
  /\ \/ ~forced /\ up /\ announced' = "running" /\ UNCHANGED <<up, started>>
     \/ ~up /\ StartBrowser
     \/ up /\ RestartBrowser
  /\ IF announced' = "running"
     THEN backoffUntil' = 0 /\ UNCHANGED attempts
     ELSE /\ attempts < MaxAttempts
          /\ attempts' = attempts + 1
          /\ backoffUntil' = now + RecoveryDelay(attempts + 1)

DecideRecovery(forced) == (RefusedInBackoff \/ RefusedOverBudget \/ RecoveryRuns(forced)) /\ Persist

-----------------------------------------------------------------------------
(***************************************************************************)
(* What people do                                                          *)
(***************************************************************************)

\* Start and Restart.
UserStarts ==
  /\ stopped' = FALSE /\ timer' = 0
  /\ \/ ~up /\ StartBrowser
     \/ up /\ RestartBrowser
     \/ up /\ UNCHANGED <<up, started, announced>>
  /\ UNCHANGED <<now, attempts, backoffUntil, runs, watchVars, boots, accepted, historyVars>>
  /\ Persist

UserStops ==
  /\ stopped' = TRUE /\ timer' = 0
  /\ up' = FALSE
  /\ announced' = IF up THEN "none" ELSE announced
  /\ UNCHANGED <<now, started, attempts, backoffUntil, runs, watchVars, boots, accepted,
                 historyVars>>
  /\ Persist

\* Recover: the planned restart is cancelled before the backoff is looked at.
UserRecovers ==
  /\ stopped' = FALSE /\ timer' = 0
  /\ DecideRecovery(FALSE)
  /\ UNCHANGED <<now, watchVars, boots, historyVars>>

\* A page switch starts a browser that is down, may restart one that is up, and
\* leaves everything else alone.
PageShown ==
  /\ IF up THEN RestartBrowser ELSE StartBrowser
  /\ UNCHANGED <<now, stopped, attempts, backoffUntil, runs, timer, watchVars, boots, accepted,
                 historyVars>>
  /\ Persist

-----------------------------------------------------------------------------
(***************************************************************************)
(* What happens by itself                                                  *)
(***************************************************************************)

FailuresForgotten == 0                        \* weakened form of FailuresSoFar

\* The failures that still count against a browser that exits now.
FailuresSoFar == IF now - started >= Stable THEN 0 ELSE attempts

\* The process exits unexpectedly: wait records it and plans the restart.
CrashPlansRestart ==
  /\ up
  /\ FailuresSoFar < MaxAttempts
  /\ up' = FALSE
  /\ attempts' = FailuresSoFar + 1
  /\ backoffUntil' = now + RecoveryDelay(attempts')
  /\ announced' = "scheduled"
  /\ timer' = IF stopped THEN timer ELSE backoffUntil'
  /\ crashAt' = now
  /\ streak' = IF now - started >= Stable THEN 1 ELSE streak + 1
  /\ UNCHANGED <<now, started, stopped, runs, watchVars, boots, accepted>>
  /\ Persist

\* The restart timer is due.
RestartTimerFires ==
  /\ timer # 0 /\ now >= timer
  /\ timer' = 0
  /\ DecideRecovery(TRUE)
  /\ UNCHANGED <<now, stopped, watchVars, boots, historyVars>>

\* watch forgives the failures of a browser that has run for Stable; the file follows
\* with the next telemetry sample.
FailuresForgiven ==
  /\ up /\ now - started >= Stable /\ attempts > 0
  /\ attempts' = 0 /\ backoffUntil' = 0
  /\ streak' = 0
  /\ UNCHANGED <<now, up, started, stopped, announced, runs, timer, watchVars, boots, accepted,
                 crashAt>>
  /\ Persist \/ UNCHANGED saved

\* recover called by a monitor of a running browser.
AutoRecover ==
  IF stopped THEN UNCHANGED <<up, started, statusVars, accepted, saved>> ELSE DecideRecovery(TRUE)

\* The control monitor gives up on the browser.
ControlLost ==
  /\ up /\ ~stopped
  /\ AutoRecover
  /\ UNCHANGED <<now, stopped, timer, watchVars, boots, historyVars>>

WatchFull == Len(WatchKept) >= WatchMax

WatchdogPaused ==
  /\ now < suppressed
  /\ UNCHANGED <<up, started, statusVars, accepted, saved, watchVars>>

PauseForgotten == suppressed' = now           \* weakened form of PauseStarts
PauseStarts    == suppressed' = now + Suppress

WatchdogExceeds ==
  /\ now >= suppressed
  /\ WatchFull
  /\ watchRuns' = WatchKept
  /\ PauseStarts
  /\ deniedAt' = now
  /\ UNCHANGED <<up, started, statusVars, accepted, saved>>

\* The restart is entered in the watchdog's list before recover may still refuse it.
WatchdogRestarts ==
  /\ now >= suppressed
  /\ ~WatchFull
  /\ watchRuns' = Append(WatchKept, now)
  /\ suppressed' = 0
  /\ AutoRecover
  /\ UNCHANGED deniedAt

\* watch has found the browser over its limits for longer than the grace time.
Watchdog ==
  /\ up /\ WatchdogEnabled
  /\ WatchdogPaused \/ WatchdogExceeds \/ WatchdogRestarts
  /\ UNCHANGED <<now, stopped, timer, boots, historyVars>>

\* The service is restarted, or the device loses power, possibly in the middle of a
\* recovery that is not in the file yet; the file gives back the recovery status and
\* the browser is started once.
Boot ==
  /\ boots < MaxBoots
  /\ boots' = boots + 1
  /\ \/ UNCHANGED accepted
     \/ RecoveryAllowed /\ accepted' = Append(Recent(accepted, Window), now)
  /\ attempts' = saved.attempts /\ backoffUntil' = saved.backoffUntil /\ runs' = saved.runs
  /\ stopped' = FALSE /\ timer' = 0
  /\ watchRuns' = <<>> /\ suppressed' = 0 /\ deniedAt' = 0
  /\ \/ up' = TRUE /\ started' = now /\ announced' = "running"
     \/ up' = FALSE /\ started' = 0 /\ announced' = "failed"
  /\ UNCHANGED <<now, saved, historyVars>>

Tick ==
  /\ now < MaxTime
  /\ now' = now + 1
  /\ UNCHANGED <<up, started, stopped, statusVars, timer, watchVars, saved, boots, accepted,
                 historyVars>>

PolicyNext ==
  \/ UserStarts \/ UserStops \/ UserRecovers \/ PageShown
  \/ CrashPlansRestart \/ RestartTimerFires \/ FailuresForgiven \/ ControlLost \/ Watchdog
  \/ Boot \/ Tick

PolicySpec == PolicyInit /\ [][PolicyNext]_policyVars

-----------------------------------------------------------------------------
(***************************************************************************)
(* Properties                                                              *)
(***************************************************************************)

\* No hour sees more than Budget recoveries, whoever asked for them and also across
\* restarts of the service, each of which forgets at most the one it interrupted
\* (recover, recoveryRuns, runtime-state.json).
BudgetHeld == PolicyTypeOK /\ Len(Recent(accepted, Window)) <= Budget + boots

\* After it has exceeded its limit the watchdog leaves the browser alone for the whole
\* pause, whatever happens to the browser in between (watchdogRestartAllowedLocked).
WatchdogPauseHeld ==
  [][watchRuns' = Append(WatchKept, now) => deniedAt = 0 \/ now >= deniedAt + Suppress]_policyVars

\* A crash loop slows down: the timer never restarts the browser before the delay that
\* belongs to the number of crashes since it last ran for long.
CrashLoopSlowsDown ==
  [][timer # 0 /\ timer' = 0 /\ ~up /\ up' /\ accepted' # accepted /\ now >= timer
       => now >= crashAt + RecoveryDelay(streak)]_policyVars

-----------------------------------------------------------------------------
(***************************************************************************)
(* The inductive invariant of the proofs                                   *)
(***************************************************************************)

\* The lists are of past times, in their order.
OrderInv ==
  \A times \in {runs, accepted} :
    /\ \A i \in DOMAIN times : times[i] <= now
    /\ \A i, j \in DOMAIN times : i <= j => times[i] <= times[j]

\* The file has the list of recoveries, and its count of failures, like the present
\* one, is never behind the crashes.
SavedInv == saved.runs = runs /\ streak <= attempts /\ streak <= saved.attempts

\* The list is within the budget, and from any moment of the window on it misses no
\* more recoveries than there were restarts of the service.
BudgetInv ==
  /\ Cardinality(After(runs, now - Window)) <= Budget
  /\ \A cut \in (now - Window) .. now :
       Cardinality(After(accepted, cut)) <= Cardinality(After(runs, cut)) + boots

\* An armed timer waits for the delay of the crashes so far; a Stop leaves none armed.
TimerInv ==
  /\ stopped => timer = 0
  /\ timer # 0 => timer >= crashAt + RecoveryDelay(streak)

\* The pause is on, or it was followed by a restart when it was over.
PauseInv ==
  \/ deniedAt = 0
  \/ suppressed = deniedAt + Suppress
  \/ suppressed = 0 /\ now >= deniedAt + Suppress

PolicyInv == PolicyTypeOK /\ OrderInv /\ SavedInv /\ BudgetInv /\ TimerInv /\ PauseInv

=============================================================================
