# KioskMate: specifications, model checking and proofs

KioskMate is a Go service that runs a full-screen Chromium on a small board and
keeps it showing Home Assistant dashboards: it starts the browser, controls its
tabs over the DevTools protocol, rotates pages, restarts what fails, and is
operated from an Admin web page and over MQTT.  This directory holds TLA+
specifications of the parts of that service whose correctness depends on the
order in which things happen, the TLC configurations that check them, and proofs
of what matters most.

    tlc -workers 2 -config life.cfg MCBrowserLifecycle.tla
    tlapm SchedulerProofs.tla

`PROJECT.json` lists, for every definition, the source lines it stands for; the
runs; the theorems; the disagreements found; and the hazards of the code with the
properties that cover them.  A definition whose comment says *weakened form* is a
plausible bug: it replaces the definition it is named with, and the run that
checks the matching property must then fail.

## Inventory

Paths are below `internal/`.

| Component | State | Operations | Modelled by |
|---|---|---|---|
| Browser process and operation gate (`supervisor/browser.go`, `operations.go`) | `cmd`, `done`, `generation`, `stopping`, `manuallyStopped`; the gate is a channel of one slot | `operate`, `Start`, `Stop`, `Restart`, `Recover`, `ResetSession`, page switches, `wait` | BrowserLifecycle |
| Recovery policy (`supervisor/runtime.go`) | `recovery` (attempts, `BackoffUntil`, state shown), `recoveryRuns`, `recoveryEpoch`, `recoveryCancel`, `watchdogRuns`, `runtime-state.json` | `recover`, `finishRecovery`, `scheduleUnexpectedExitRecovery`, the restart timer, `watch` | BrowserLifecycle (interleaving), RecoveryPolicy (time) |
| Control monitor and tabs (`supervisor/cdp.go`, `tabs.go`) | `control`, `controlFailures`, `tabs`, `tabUse`, `activeTarget`, `retarget`, `pendingBlank`, `revealTarget` | `monitorDevTools`, `switchTab`, `evictTabsLocked`, `preloadTabs`, `revealWhenLoaded` | PageControl |
| Loop of a control session (`supervisor/cdp.go`, `hang.go`) | heartbeat count, network window, token responses awaited | `runDevTools` | SessionLoop |
| Authentication guard (`supervisor/ha_auth.go`) | `authGuard`, evidence by key, saved guard file | `tripAuthGuard`, `recordAuthEvidenceLocked`, `ResetSession` | its effects: BrowserLifecycle, PageControl |
| Scheduler, rotation, inserts, overrides, display power, maintenance (`supervisor/browser.go`, `runtime.go`, `config/inserts.go`, `conflicts.go`) | rotation position, insert on screen, presence, override and its copy in `runtime-state.json`, `displayPower`, `idleBlanked`, `lastMaintenance` | `RunScheduler`, `schedulerTarget`, `applyInserts`, `SetOverride`, `ClearOverride`, `SetActive`, `applyScheduleDisplayPower`, `maintenanceReloadDue` | Program, Scheduler |
| Signals (`signals`) | value and time per topic, a wake-up channel of one slot | `Set`, `NotePresence` | Scheduler |
| Workflow engine (`workflow/engine.go`) | cooldowns, minutes fired, idle rules fired, revert timer, history | `Run`, `HandleMQTT`, `HandleWebhook`, `HandleActivity`, `Test`, `fire`, `execute` | Workflow |
| Configuration content (`config/config.go`) | one configuration | `migrateSchema`, `migrateLegacySequence`, `normalize`, `Repair` | ConfigContent |
| Configuration store (`config/config.go`, `admin/server.go`, `cmd/kioskmate`) | configuration in memory, its file, `.bak`, backups, notification channel | `Load`, `Save`, `Mutate`, `Replace`, restore, import, commands | DurableConfig, ConfigStore |
| Admin sessions and sign-in (`admin/server.go`) | sessions, failed attempts, `sessions.json` | setup, login, logout, password change, every authenticated request | AdminSessions |
| Updater (`updater`), with the maintenance actions that touch packages (`actions`) | status, `installing`, history and its file, apt | `Check`, `Install`, `Rollback`, `startInstall`, `applyRelease`, `finalizeHistoryAfterRestart` | Versions, Updates |
| MQTT integration and client (`integration`, `mqttclient`) | client, publish cache, discovery registry and its file, command goroutines, connection key | `Run`, `publishAll`, `commands`, `ResetDiscovery`, `PublishNow`, `closeClients` | MqttService |
| Admin server's other handlers, journal, DevTools connection, hardware, statistics, browser installation, user interface, packaging | see `PROJECT.json` | | what has state belongs to the modules above, the rest is input and output |

How they interact:

- The Admin server, MQTT and workflows call public operations of the browser; the
  scheduler, the watchdog (`watch`), the control monitor and the restart timer
  call it by themselves.  All of them meet at `operate`, a gate for one operation
  at a time; requests wait at it until their context ends.
- `wait` is a goroutine per process.  It does not take the gate: it shares `b.mu`
  with the operations and decides from `b.stopping` whether an exit was wanted.
- The guard is tripped from the control session, from the preflight of a start or
  from a page check, in the middle of anything.
- The monitor, the page switches, the preloaders and the reveal share the tab
  bookkeeping under `b.mu` and talk to Chromium outside of it.
- The scheduler and MQTT read one notification channel of the configuration, which
  has one slot: one of them may take what both wait for.
- The page override is written by people, by MQTT and by workflows, ended by time,
  obeyed by the scheduler and kept in a file over restarts.
- Every change of the configuration, of an Admin page as of a button in Home
  Assistant, passes `Mutate` or `Replace`, which save before they publish; the
  commands of the program load and save in a process of their own.
- The package of a new version stops the service that installs it; apt goes on
  without it, and the next start has to find out what came of it.

What is hard:

- *Interleaving.* `b.mu` is released around everything slow, as are the locks of the
  other components.  State read before a dial, a kill, a publication or the gate is
  used after it.
- *Failure.* Every command may fail, every wait may time out, a stop may give up
  while the process dies later, the service may lose power between a recovery and
  its entry in the file, between two files of one save, in the middle of an
  installation, after a topic is published and before it is registered.
- *Ordering.* Stop marks the browser before it owns the gate; a crash is classified
  by a flag that another goroutine sets; two writes of one file overlap.
- *Timeouts.* Backoff, budget, watchdog pause, network window, heartbeat, override,
  rotation, insert, cooldown and revert each have their own clock and reset each
  other.

What makes a component correct: of the process, that there is one, that it stays
down when it should and comes back when it should; of the policy, that no actor can
exceed its limits; of the tabs, that the bookkeeping agrees with Chromium; of the
session loop, that it acts on silence and on nothing else; of the guard, that a
rejected session never reaches Home Assistant again by itself; of scheduler and
workflows, that nothing is missed and a newer wish of a person wins; of stores, that
no acknowledged change is lost; of sessions, that limits hold for requests side by
side; of the updater, that its history tells what happened; of MQTT, that what Home
Assistant sees is what is.

## Modules

### BrowserLifecycle

The life of the browser process around the operation gate.  One step is one section
of code under `b.mu` or one call that leaves the program.

| State | In the code |
|---|---|
| `queue`, `op` | requests blocked in `operate`; the operation that holds the gate and where it is |
| `cmd`, `generation`, `stopping` | the fields of the same name; a process is named by its generation |
| `procs` | each process with its `wait` goroutine: alive, killed, exited, `b.mu` released, `done` closed, restart arranged |
| `manuallyStopped`, `guard` | `b.manuallyStopped`, `b.authGuard.Tripped` |
| `recoveryEpoch`, `recoveryCancel`, `sleepers`, `backoff` | cancellation of restart timers, the timers themselves, `BackoffUntil` as nil, future or past |
| `watching` | the monitors that run (`watch`, `monitorDevTools`) |
| `pages` | the page switch a round of `RunScheduler` may still ask for, the idle restore, without looking at the pause again |
| `halted`, `lastAllowed`, `deadlineOf`, `events` | history, and the bound |

`Call` is a public operation up to the gate (a Stop marks the browser *before* it
waits); `Acquire` is what `operate` does when the gate is free, with the first
section of the operation; `Expire` a context that ends first.  `ShowPage`,
`Recover`, `Reload`, `Restart`, `Stop`, `StopCompletes`, `StopFails`,
`ClearSession`, `Start`, `Preflight`, `Exec`, `Publish`, `Settle` and `Finish` are
the sections behind it.  `Reap`, `CloseDone` and `ScheduleRecovery` are the three
sections of `wait`, `TimerFires` and `TimerCancelled` the restart timer, `Complain`
a monitor that asks for a recovery, `Rejected` and `Preflight` the ways in which the
guard trips.  `Init` is the state after `main.go` has loaded the saved guard and
recovery status, with the first `Start` on its way to the gate.

Time is abstract here: a deadline passes by a step of its own, and whether the
budget of recoveries is used up is a choice.

### RecoveryPolicy

The same recoveries in measured time, each operation one step: exponential backoff
(`RecoveryDelay`), the budget of recoveries within an hour (`runs`, `Kept`, which are the
`Recent` part of an ordered list), the forgiveness after a long run (`StableRun`), the restart timer, the watchdog's own
limit and pause, and `runtime-state.json` (`saved`, written by `Persist` at the end
of every gated operation and of every crash).  `Boot` restarts the service, also in
the middle of a recovery that is not in the file yet.

### PageControl

One browser process in tab mode.  `mon` is the program counter of
`monitorDevTools` and the first half of `runDevTools`: `Look` (read
`activeTarget`), `Dial`, `Bind`, `Attach`, `Navigate`, then serving a session until
`SessionEnds`, `ConsumeRetarget`, `BookFailure`, `Decide`.  `sw` is a page switch
(`ShowPage`, `OpenTab`, `BookTab` under the lock with the eviction, `CloseTabs`).
`reveal` is the goroutine that brings a new tab to the front (`RevealDue`,
`RevealShows`).  `preloaders` are the goroutines that every first navigation of a
tab starts and that outlive the session (`PreloadStarts`, `PreloadLooks`,
`PreloadOpens`, `PreloadBooks`).  `open`, `front` and `content` are Chromium's side.
Page switches hold the operation gate, so there is one at a time.  What leaves the list
`tabUse` is said by positions: `Without` keeps the others in their order, and `Evicted`
are the first of those that may go, by `Rank`.  Only the tabs opened so far bound the list.

### SessionLoop

The loop of an attached session.  Time since a navigation is counted in beats of
the heartbeat, because the code compares it with a minute only when a beat arrives;
at the second beat the minute may be over or not, so both are possible.  `timer` is
the window during which network events are watched, `tokenFailures` the rejected
token responses whose bodies are awaited.  Between Chromium and the loop lies `queue`,
the buffered channel `session.events`: Chromium sends token responses and their ends only
while the events are on, the loop takes them later and looks at nothing but the message, so
that it may take the timer, and switch the events off, before a response that already
waits (`late`).  An overflow of the channel ends the session, as `Reattached` does.

### Program and Scheduler

`Program` is the calendar arithmetic of time rules and inserts as pure operators:
which rules are active (`ActiveRules`), which insert shows (`ActiveInsert`), when the
next change is due (`NextInsertChange`), what the Admin page announces
(`ProgramTimeline`, `Conflicts`).  Minutes are counted from midnight of day 0; the
lengths of a day, an hour and a week are constants.

`Scheduler` decides with them.  A thread is `RunScheduler` or a caller of `SetActive`,
`SetOverride`, `ClearOverride` or `NoteDisplayPower`; its program counter stands where
the code has released `b.mu`.

| State | In the code |
|---|---|
| `cfg`, `changed` | the saved configuration, the one slot of its notification channel, which MQTT reads too (`MQTTTakesChange`) |
| `signalled`, `holds`, `presence` | the signal store: its wake-up slot, whether each condition holds, the last presence |
| `override`, `saved`, `persistDue` | `b.override`, its copy in `runtime-state.json`, writers of it still to run |
| `rotation`, `insert` | `rotationIndex`, `rotationUntil`, the cycles; `insertShowing`, `insertReturn` |
| `display`, `lastMaintenance` | `displayPower`, the panel itself, `idleBlanked`; `lastMaintenanceReload` |
| `browser`, `gate` | whether it runs, what it shows, whether it is stopped by hand or held; the operation gate |
| `th`, `wake` | the threads with the configuration they have read and what they have decided; the scheduler's timer |

`TargetOverride`, `TargetBase`, `TargetRotation`, `TargetInserts` are the parts of
`schedulerTarget` in their order, the rotation in two steps because
`rotationTarget` changes index and deadline one after the other without a lock;
`PanicsAtRotation` is what Go does with an index out of range.  `SchedulerDecided`,
`Maintain`, `PowerNeeded`, `BlankOrRestore`, `Blanks` are the rest of a round; they go by the
configuration the round began with (`round`) and by the moment the timer fired (`wake`);
whether the memory of the browser grew enough for a reload is left open (`MemoryGrew`);
`SwitchBegins` to `SwitchRefused` a page switch behind the gate.  `PowerLost` and
`Boot` end and start the service.  `Tick` moves the clock while nothing is computed.  It
leaves a round at most `MaxRound`: every call of a round to browser or panel has a time
limit of seconds in the code, and what waits at the gate waits for calls that have one.
The saved configurations are those that validation lets through (`ValidProgram`), whose
tick is a day at most (`config.go:548`); with the round it fits into the two days over which
`nextInsertChange` looks ahead (`ConfigsAssumption`).

### Workflow

The engine as threads: the ticker of `Run` (`TimeRound`, `IdleRound`), the command
goroutine of MQTT (`HandleMQTT`), a request (`RuleWebhook`), the goroutine of a touch
(`HandleActivity`) and the Admin page (`TestRule`, and `ManualCall`, which sets or
clears the override past the engine).  `Enter` is `fire` with cooldown and conditions,
`Lock` the mutex that runs one rule at a time, `ShowPage`, `SetActive`, `PageShown`,
`SetOverride`, `ResumePlaylist`, `ClearOverride`, `Display`, `ScheduleRevert` and
`Evaluate` the actions with their calls.  `timer` and `reverts` are the timer that
turns the display back and the callbacks of it that have begun.  Actions that only
tell the page or the hardware something are one, `Evaluate`.  The rules that a trigger
found, which the code runs in the order of the list, are a set of entries with their
places (`queue`, `First`).

### ConfigContent, DurableConfig and ConfigStore

`ConfigContent` says what loading makes of a configuration: the migration of the
schema and of the rotation, page identifiers, defaults and repairs.  `ConfigStore` is
the store: a request enters (`Post`, `Import`, `Mutate`, `RepairNow`, `Restore`), is
decoded and checked against the revision it was based on (`Decode`, `Check`), and is
saved in the steps that a crash can come between: `Backup`, `CopyAside` (the `.bak`
file), `Write` (atomic, by renaming).  `Fail` is a failure of any of them, `Crash` the
end at any moment, without power also with a damaged file; `Load` the start, which
restores a damaged file.  `Command` is the program called from the command line.

`DurableConfig` is what the store promises: saved completely or not at all, what was
saved before is kept, and what runs is what is saved.  `ConfigStore` implements it
with `saved` being the file, or the one beside it when the file is damaged
(`SavesAllOrNothing`).

### AdminSessions

Requests that run side by side.  `Begin` is a setup or a login up to its check of the
limit, `Accept`, `Refuse`, `SetHash`, `Rehash` and `Create` what comes of the
password; `AskPassword`, `ChangePassword`, `EndSessions` the change of it; `Use` every
authenticated request, `List`, `LogOut`, `LogOutAll` the others.  `Snapshot`,
`Truncate`, `Fill`, `Rename` write `sessions.json`: no lock is held, and `opened` says
which file another request's open file has become by now.  `Restart` reads it.  A write that
fails is given up without a word, and writes that overlap mix their content; `disturbed`
remembers either until a write begins alone, and what the file says meanwhile is outside
`FileFollowsTable`.

### Versions and Updates

`Versions` orders versions and picks the release of a channel.  `Updates` has the job
of an installation (`Ask`, `Claim`, `FindRelease`, `Download`, `BeginApt`,
`RestartService`), checks (`BeginCheck`, `EndCheck`), apt (`StopForPackage`, `Unpack`,
`FailApt`), which goes on when the program ends, upgrades by a maintenance job
(`BeginUpgrade`, `EndUpgrade`), and the program's end and start (`Stop`, `Start` with
`Finalized` and `Inferred`, which read the history and apt's log).  The log of the
package manager is a list of changes, searched from its end.  A program that has
crashed is started again by systemd while apt works (`kioskmate.service`); one that the
package has stopped (`apt.by = "stopping"`) is not started before the package is done.

### MqttService

The loop of `Run` (`Look`, `CloseClients`, `Open`, `ResetPublisher`, `Wake`), the
rounds of publishing (`Discover`, `Online`, `PublishStates`), which requests of the
Admin page make too (`Ask`, `ResetDiscovery`), the goroutine that receives commands,
one for each configuration that was connected (`Register`, `Subscribe`, `Leave`,
`Pause`, `Retry`, `BeginResult`, `EndResult`, `HandleCommand`, `HandleSetting`), and the
broker: `avail` with the wills, `retained` discovery topics and `states`.  A connection
may be refused, be closed, or be dead without anybody knowing (`Drop`); what is
written to it is then lost.  Of the states of the kiosk the model has the page it shows and, for
each enabled page, whether it is that one (`Payload`); `cache` and `states[root]` tell for
each path what was published and what the broker has.  A page that is not enabled any more
has its states cleared by the next round (`ClearStates`), which leaves the cache as it is;
`cleared` remembers those paths until they are published again, and `lost` those that were
written to a dead connection or for a configuration that `Run` had not followed.
A round may break off in any of its parts (`DiscoverInPart`, `Online`, `PublishStates`), and
a message need not have a result.
`Configs` are the configurations in the order in which they are used, each with a root,
all its pages, those enabled, and its inserts.

### MC modules and proof modules

The `MC` modules give the constants their values, state what documents and comments
say that the code does not keep, and check facts about the constants as assumptions:
`MCScheduler` that the Admin page's list of conflicting rules is complete
(`ConflictsComplete`), `MCUpdates` that versions are totally ordered and the release
offered is the highest of its channel (`VersionsAreOrdered`, `NewestIsHighest`).

`SchedulerProofs`, `WorkflowProofs`, `ConfigStoreProofs`, `AdminSessionsProofs`,
`UpdatesProofs` and `MqttServiceProofs` hold the theorems about the module they are named
after; `SupervisorProofs` those about BrowserLifecycle and RecoveryPolicy,
`ControlProofs` those about PageControl and SessionLoop.  That two modules can be
extended at once is why the definitions of RecoveryPolicy (`PolicyInit`, `PolicyNext`, ...) and
SessionLoop (`LoopInit`, `LoopNext`, ...) have names of their own.  The inductive
invariant (`IInv`, `PolicyInv`, `LoopInv`) stands in the module it is about, in its last
section, so that TLC can evaluate it.

Each module but the pure ones has a type invariant, `TypeOK`.  It is a property of its
own in BrowserLifecycle; elsewhere it is the first conjunct of the invariant about
bookkeeping that the run checks (`LoginIsWatched`, `TabsAreConsistent`,
`AsleepIsCurrent`, `OneRevert`, `NormalForm`, `FileFollowsTable`, `OneInstallation`,
`DiscoveryIsTracked`, `BudgetHeld`), because that one says nothing about values
outside their types.

### Where the modules meet

The complaint of the control monitor is `Complain` in BrowserLifecycle, `ControlLost`
in RecoveryPolicy and the state `recover` of `mon` in PageControl; a navigation of
SessionLoop is any one of Chromium.  The page switch of Scheduler and Workflow is that
of PageControl seen from outside: it takes the gate, takes its time, and succeeds or
fails.  The override of Scheduler is that of Workflow with the page and the file added.
The change that reaches Scheduler and MqttService is a save of ConfigStore.  Scheduler
EXTENDS Program, ConfigStore EXTENDS ConfigContent and instantiates DurableConfig,
Updates EXTENDS Versions.  The others are not composed: each of them together with
another is past what TLC finishes, and the steps at their borders are choices that
allow whatever the neighbour does.

## Runs

Runs that pass:

| Run | Question | Bounds |
|---|---|---|
| `life` | Do all operations, monitors, crashes and trips keep one process, a truthful stop flag, no planned restart while held, a browser that after a Stop comes back by request or by what the scheduler had left only, a guard cleared only when it is down; is the gate always freed? | two callers of every public operation, two events, three processes; 0.3 million states |
| `policy` | Are the budget, the backoff and the watchdog's pause kept, also by a service that is restarted? | 5 time units, windows and delays scaled to 1 to 3 of them, two failures in a row, one restart |
| `loop_window` | Is a page reloaded exactly when it hangs, and a login watched for as long as needed? | four navigations, reconnects or token responses |
| `control` | Does the bookkeeping of tabs survive switches, evictions, preloading and faults; are switches never failures; does control come back, and is a restart asked for only after five losses in a row? | three pages, one preloaded, one other kept, three tabs, one switch, five faults; 2.3 million states |
| `scheduler` | Does a scheduler that sleeps decide for this moment still, but for a time rule that began a tick and a round ago at most; does a round that is left alone bring the screen to what was decided, does the file follow the override, is a reload time served once, and is the timeline true? | days of four minutes in two hours, weeks of two days, six minutes; four configurations, one caller with four wishes, one topic, two events, two minutes for a round; 4.2 million states |
| `workflow` | Does a rule leave an override alone that it could see; are cooldowns kept and times not missed; is at most the latest revert pending? | five periods of the ticker, two to a minute, days of one minute; two lists with seven rules, five threads, two events, one remembered run; 1.3 million states |
| `config` | Do saves with failures and crashes implement a store that saves all or nothing; is the second of two saves refused; is what runs in normal form; does a migration keep the programme? | two requests, an old file or none, two imports, three changes, two edits, two backups, three events, one crash; 0.3 million states |
| `sessions` | Does one setup succeed, are attempts limited side by side, does the file tell of the sessions there are, and last no longer? | two requests, two clients, two tokens, two passwords; one session, one attempt and one client before the limit, five moments, a write of the last use every two of them, an end after three, three events; 5.6 million states |
| `updates` | Is there one installation at a time, is the history true, does an installation end? | two requests, the check by itself, six releases (a draft, three pre-releases), two entries of history, three events |
| `mqtt` | Can what is retained be cleared, is what counts as published published, and does the service come to be online for the configuration of now? | three configurations (MQTT off, then another root, pages and inserts), one request or message, one failure or crash; 1 million states |

Why the bounds are enough.

- `life`: of the actors the scheduler, the timer, the two monitors of each process,
  the guard's stop and the first Start come on top of the two callers and cost no
  event beyond their complaint or call; a race needs a holder of the gate, one that
  waits and one that acts without the gate.  Three processes are the first and one
  for each event.  The proofs lift the safety properties to all bounds.
- `policy` is scaled so that the window, the pause and the delay each run out within
  the clock and the budget and the ceiling of the delay are reached.
- `control`: five faults are what it takes to reach the restart.  Three tabs are the
  first one, a preloaded one and one that makes the eviction choose.
- `scheduler`: overnight rules need a second day, an insert a second hour, an
  override an end within the clock; the two events are a caller against the scheduler
  and a change, a signal or a loss of power between them.  The configurations
  have a rotation with a conditional insert, a shorter one, overlapping rules with a
  display that goes off, and inserts of two priorities while somebody has to be present.
  A round lasts two of the six minutes at most (`MaxRound = 2`), which is as
  long as a tick, so that a rule can begin while a round decides or while it sleeps.  `CurrentInv` and `RulesInv`,
  which are about all moments to come, were checked with those of the next days.
- `workflow`: a person and a rule, or two rules, is what it takes for a race; a
  cooldown of two periods and a revert after two end within five.
- `config`: two saves of one revision and a third change, with one crash between any
  two steps; two backups show the removal of the third.
- `sessions`: every limit is reached by the second of two requests; a session can be
  used between two writes of its last use, and end before it is old.
- `updates`: an installation, a rollback and a crash, or two requests and a check.
- `mqtt`: one input with one fault already brings each pair of a round, a request, a
  command goroutine and a connection that breaks; the configurations change twice.

`CHECK_DEADLOCK FALSE` is said where the system may rest: BrowserLifecycle and
PageControl with their events used up, or the process gone; Scheduler and Workflow when
the clock has reached its end; ConfigStore, AdminSessions and Updates when nobody asks for
anything any more.  The clock of RecoveryPolicy, the heartbeat of SessionLoop and the
rounds of MqttService never stop the model.

Every property of these runs has a mutant under `mutants` in `PROJECT.json`, which
it catches.

Runs in which TLC finds a violation; each shows that the code does otherwise than a
document or a comment says:

| Run | What happens |
|---|---|
| `rotation_panic` | `ClearOverride` and page switches look up the rotation of a configuration that was saved a moment ago at the position of the old one, which `RunScheduler` resets only when it takes the notification: the index is out of range and the service ends. |
| `update_unrecorded` | The package stops the service before the job has noted that it restarts: the new version runs, and the entry in the history stays "running". |

### Further disagreements

These were seen with the same modules.  Each line gives a formula, and the instance
in which TLC finds it violated (constants not named are as in the run of the
module that passes).

Formulas that the `MC` modules define, each with the sentence it renders:

- *The scheduler after a Stop* (`browser.go:752`; docs/ROADMAP-NEXT-MAJOR.md:54 "Make
  manual stop authoritative").  `SchedulerRespectsStop`, `UserKinds <- OnlyStop`,
  `MaxEvents = 3`, `MaxGenerations = 4`: a page switch of the scheduler waits at the
  gate while Stop runs, and launches the browser again; the pause flag was read before.
- *Stop is forgotten* (`operations.go:91-97`; the same sentence).  `StopIsRemembered`, all
  callers: a Start that waited before the Stop clears the mark the Stop has already set;
  the Stop then runs, and the browser it ended does not count as stopped by hand, so that
  monitors, timers and scheduler bring it back.
- *The guard leaves it running* (`browser.go:1850`; README.md:250 "stops Chromium").
  `GuardStopsBrowser` under FairSpec, `NoCalls`, `MaxEvents = 1`, `MaxGenerations = 2`:
  the guard trips after `start` has launched the process and before it is published:
  nothing is stopped, and the browser runs on behind a tripped guard.
- *A stale callback* (`runtime.go:294`; docs/ROADMAP-NEXT-MAJOR.md:54).
  `StaleCallbackSparesLaterBrowser`, `NoCalls`, `MaxGenerations = 3`: a recovery
  that waited at the gate, of a monitor or of the restart timer, restarts a browser
  launched after its complaint.
- *No second try* (`runtime.go:232`; CHANGELOG.md:308 "exponential crash-loop backoff").
  `FailedRestartIsRetried`, `MaxShift = 2`, `MaxDelay = 3`, `Stable = 3`, `Window = 4`,
  no watchdog, `MaxTime = 6`, `MaxAttempts = 3`, `MaxBoots = 0`: the automatic restart
  fails; a backoff is recorded, but no timer is armed and no process is left whose exit
  would arm one.
- *A frozen page* (`cdp.go:357`; the comment at `hang.go:13`).
  `FrozenPageRestartsBrowser`, one event: the reload after two unanswered probes counts as a
  navigation, which sets the count to zero: it never reaches the four at which the browser
  would be restarted.
- *A response taken too late* (`cdp.go:367`; the condition at `cdp.go:363`).  `AwaitedIsWatched`:
  the timer's branch asks whether a token response is awaited, not whether one is queued.  A
  response that is taken after `Network.disable` waits for an end that is not sent, and at
  the next navigation keeps the window open for ever.
- *Control astray* (`cdp.go:176`; the comment at `tabs.go:232`).
  `ControlFollowsSwitch`, two pages, two tabs, none preloaded, no faults: a page switch while
  the monitor dials or attaches closes no session: the monitor goes on to serve the tab
  that was active before.
- *A time rule that starts late* (`browser.go:814-816` "or less when a rotation or time rule
  switch is due earlier, so pages change on time").  `RulesOnTime`, no callers and no events:
  `timeRuleTarget` (`browser.go:1526-1555`) tells when the active rule ends, never when the next
  begins, so the scheduler sleeps past the start until its tick.  What does hold is
  `AsleepIsCurrent`.
- *An insert that stays* (the comment at `browser.go:1417`).  `InsertGoesAway`,
  `Configs <- OnlyVisited`, no callers: the page to return to is forgotten in the round that
  decides to return, also when the display is off then or the page switch fails; the
  insert's page stays on screen.
- *A manual override replaced* (README.md:217 "A workflow never replaces or ends a manual
  override").  `NeverReplacesManual`, `RuleSets <- Events`, `DayLen = 2`, `MaxTime = 5`,
  `MaxEvents = 3`, `HistoryCap = 2`: the rule looks for an override, waits at the gate, and
  replaces the one that was set meanwhile.  What does hold is `SeenOverrideStays`.
- *Idle after an input* (README.md:214).  `IdleMeansNoInput`, the same with
  `RuleSets <- Idling`: the idle time is read once for all rules of a round, and an input
  during the actions of the first does not keep the second from running.
- *A revert that stays* (the comment at `engine.go:381`).  `NewerActionReplacesRevert`, with
  `Events`: a revert that has begun when a newer action stops the timer is carried out
  after it.
- *A change lost* (the comment at `admin/server.go:1476`).  `NoChangeIsLost`,
  `MaxEvents = 2`, no crash: between the check of the revision and `Replace` a change made by
  `Mutate` is saved, and overwritten.  What does hold is `SavesAreSerial`.
- *Repair without a page* (`config.go:1094`; the report at `config.go:1097` "Added a default kiosk
  page because no active URL was configured").  `RepairAddsAPage`: `PageURLs` falls back to the
  addresses that were on before, so a configuration whose pages are all off is repaired to
  one whose pages are all off.
- *Sessions lost* (the comment at `admin/server.go:180`).  `SessionsSurvive`,
  `MaxSessions = 2`, `MaxTime = 0`, `MaxEvents = 2`: two requests write the file by the same
  temporary name; the second rename finds nothing, and the file is gone.
- *A clock that stops* (the comment at `admin/server.go:3166`).  `ActiveStaysFresh`: the last use of a
  session is set in memory by every request and written only when five minutes have
  passed since the one in memory: a session in steady use is never written, and after a
  restart the day without use is counted from the last write.
- *Two writers of the publish cache* (`mqtt.go:2386-2408`; CHANGELOG.md:258 "publish loop
  serialized against concurrent map races").  `CacheHasOneWriter`: the result of a command is
  published under `s.mu`, a round of publishing under `publishMu`, and both write the map.
- *A page without states* (`mqtt.go:2803-2815`; README.md:181 "KioskMate also publishes per-page
  Home Assistant entities").  `PagesHaveStates`, `Configs <- BackAgain`, no inputs and no faults:
  the states of a page that was disabled are cleared, its entries in the cache stay, and
  whether a page is enabled is no part of the connection key.  When it is enabled again,
  `publishState` (`mqtt.go:2421-2424`) skips what has not changed, and the
  broker has none of it.  `CachedIsPublished` is about the other paths (`cleared`).

Others, by formula:

- *A crash without a restart* (`runtime.go:240`).  `[][\A g \in Gens : procs[g] =
  "unscheduled" /\ procs'[g] = "gone" /\ cmd = 0 /\ ~manuallyStopped /\ ~guard /\ op
  = NoOp => recoveryCancel' # 0]_vars`, no calls, two events: `finishRecovery`
  clears the `BackoffUntil` that the crash of the just started browser has set.
- *An announced start* (`runtime.go:143`).  `announced = "scheduled" /\ ~up /\
  ~stopped => timer # 0` in RecoveryPolicy: a manual recovery during the backoff
  cancels the timer and is then refused.
- *Watching without end* (`cdp.go:363`).  `networkOn ~> (~networkOn \/ always)` under
  SessionLoop's FairSpec: a rejected token response whose body never ends extends
  the window for ever.
- *The wrong page* (`cdp.go:302`).  `sw.pc = "idle" /\ ~guard /\ ~Gone /\ At("serve")
  /\ live /\ mon.target = activeTarget => content[activeTarget] = active`, two pages,
  two tabs, three switches, no faults: the monitor loads the page that is active by
  then into the tab it had before.
- *A tab outside the bookkeeping* (`tabs.go:125`).  A switch before the first session
  has bound its tab leaves the launch tab open, kept for no page.
- *The preloader's second tab* (`tabs.go:298`).  `sw.pc = "idle" /\ ~Gone /\
  activeTarget # 0 /\ tabs[active] # 0 => activeTarget = tabs[active]`, two pages of
  which the second is preloaded, one switch, no faults: the preloader finds no tab,
  the switch opens and shows one, the preloader books its own over it and lists the
  page a second time.  `TabsAreConsistent` allows preloaded pages to be listed
  twice for this reason.
- *A late reveal* (`tabs.go:405`).  `[][reveal = "showing" /\ reveal' = "none" /\
  front' = mon.target /\ live' => activeTarget = mon.target]_vars`, two switches: the
  reveal is checked, a switch goes by, the superseded tab comes to the front.
- *Degraded for good* (`cdp.go:299`).  `At("serve") /\ live /\ ready => ~degraded`,
  one fault: only a session that navigates reports the state as healthy again.

Read in the code while it was modelled, and not put to TLC:

- *Configuration.*  `--admin-reset` and the other commands save a file that the running
  service overwrites with its next save.  A save that was decoded before a change of
  the password undoes it.  A file without "version" is loaded as version 4 and not
  migrated.  A new page without an identifier that is placed first takes the identifier of
  an existing one (CHANGELOG.md:340).
- *Sessions.*  The re-hash at `server.go:727-734` can undo a password change that was
  made meanwhile.
- *Updates.*  `saveHistoryLocked` removes the file before it renames the new one.  A rollback to a
  version with an older schema of the configuration cannot start.  A restart that fails
  marks an installed update as failed.  Without the service, `installing` stays set after
  an installation.
- *MQTT.*  `publishCommandResult` holds `s.mu` during network I/O (CHANGELOG.md:183).  A page
  enabled again has no subscription until the next connection (CHANGELOG.md:271).  A
  configuration that is changed and changed back within one round leaves a stale
  cache; `CachedIsPublished` leaves out what that round published (`lost`).  A renamed root leaves the old
  one "online".  A discovery topic of an insert that a failed round published is cleared
  neither by later rounds nor by the reset (README.md:193).  `PublishNow` connects
  again after MQTT was switched off.  The publisher sends no pings, so that an interval
  above one and a half times the keep-alive publishes the will.  `pageEntities` gives pages
  with the slugs "a", "a" and "a_2" only two topics.
- *Scheduler.*  A rule whose start is its end counts as the whole day in the list of conflicts
  and is never active.  An idle page that cannot be left again stays blank until a round
  succeeds.
- *Workflow.*  The cooldown of touch and webhook rules is looked up and entered in two sections
  (`engine.go:232-241`), so that two triggers at once run a rule twice; `CooldownHeld` is about
  the rules that one goroutine fires.  A time rule is missed when actions keep the ticker busy
  for the whole of its minute; `TimeRulesFire` says so.

## Fairness

Liveness is checked under these assumptions and no others:

- *BrowserLifecycle.*  A goroutine that can take its next step takes it (`Gated`,
  `Waits`); the gate goes to somebody who waits for it; every context of a gated
  operation has a deadline (`StopFails`); `terminateProcessTree` ends with SIGKILL
  (`KillLands`); timers fire.  Nobody has to call, complain or crash.  Strong
  fairness is not used: Go's channel gives the gate to waiters in turn, but nothing
  checked here needs more than that somebody gets it.
- *PageControl.*  The monitor goes on, and notices a session that was closed.  Page
  switches, reveals and preloaders may stop anywhere, since the control comes back without
  them.  No fault has to happen, and none is prevented by fairness:
  the bound on faults says that they end.
- *SessionLoop.*  The ticker and the timer run and the loop takes what they deliver.
  Nothing makes Chromium finish a response or a page recover.
- *Updates.*  Every step of a job has a time limit, apt comes to an end, and systemd starts
  the service again, or the package does; crashes, requests and publications need
  not happen.
- *MqttService.*  `Run`, a request and the start of the program go on, as do the goroutines of
  commands: every wait there, for a lock, a connection or the interval, has a time limit.
  One condition covers `Run`, requests and the start because at each moment the one
  that is enabled is the one that the others wait for.  Nothing makes a broker notice a
  dead connection.

## Proofs

The theorems hold for every value of the constants that satisfies the named
assumptions: any number of callers, pages, requests, versions and configurations, and
any bound.  Each proof has the same plan.  An inductive invariant, mostly called `IInv`, stands beside the
module's properties, made of named parts; `InitEstablishes` is its base; lemmas named
*...Kept* show for one part, or for parts that need each other, that every step keeps it,
with one proof step for each action; `StepKeeps` puts them together; the theorem
`Invariance` is `Spec => []IInv`, and the others follow from it.  TLC has checked each
`IInv` on the instance of the module's run.

| Theorem (module it is about) | Property | Needs |
|---|---|---|
| `TypeCorrect` (BrowserLifecycle) | `TypeOK` | types of the constants |
| `OneBrowserAlways` | `OneBrowser` | |
| `StopFlagCorrect` | `StopFlagNamesThisBrowser` | |
| `NoHeldRestart` | `NoRestartPlannedWhileHeld` | |
| `AutomationHeld` | `AutomationRespectsStop` | |
| `GuardClearedSafely` | `GuardClearedOnlyWhenDown` | |
| `BudgetHolds` (RecoveryPolicy) | `BudgetHeld` | `BudgetAssumption` |
| `CrashLoopHolds` | `CrashLoopSlowsDown` | `DelayAssumption` |
| `PauseHolds` | `WatchdogPauseHeld` | `WatchAssumption` |
| `LoopLoginWatched` (SessionLoop) | `LoginIsWatched` | `EventsAssumption` |
| `LoopReloadJustified` | `ReloadIsJustified` | |
| `SwitchesAreNoFailures` (PageControl) | `SwitchIsNoFailure` | types of the constants |
| `RestartsTakeFiveLosses` | `FiveLossesInARow` | |
| `NeededTabsStay` | `PreloadedAndShownStay` | |
| `TabsStayConsistent` | `TabsAreConsistent` | |
| `FileFollows` (Scheduler) | `FileFollowsOverride` | `ConfigsAssumption`, `WishesAssumption` |
| `ReloadsOnce` | `OneReloadADay` | and `CalendarAssumption` |
| `RoundsConverge` | `RoundConverges` | |
| `SleepMissesNothing` | `AsleepIsCurrent` | and `SchedulerAssumption` |
| `OneRevertPending` (Workflow) | `OneRevert` | `WorkflowAssumption` |
| `SeenOverridesStay` | `SeenOverrideStays` | |
| `CooldownsHold` | `CooldownHeld` | and `Steady` |
| `TimeRulesAreFired` | `TimeRulesFire` | |
| `SerialSaves` (ConfigStore) | `SavesAreSerial` | `ContentAssumption` |
| `StoreImplements` | `SavesAllOrNothing` | |
| `StoreTypes` | `TypeOK` | |
| `OneSetup` (AdminSessions) | `SetupOnce` | `FilesAssumption` |
| `FileTellsOfTable` | `FileFollowsTable` | |
| `LimitsHold` | `AttemptsLimited` | `RequestsAssumption`, `SessionsAssumption` |
| `OneAtATime` (Updates) | `OneInstallation` | `ReleasesAssumption`, `NewestAssumption` |
| `HistoryStaysTrue` | `HistoryIsTrue` | |
| `TopicsAreTracked` (MqttService) | `DiscoveryIsTracked` | `MqttAssumption` |
| `CacheIsTrue` | `CachedIsPublished` | |

What the assumptions say: the constants have their types; no file and a damaged file are
told from content (`ContentAssumption`, `FilesAssumption`); requests are handled finitely
many at a time (`RequestsAssumption`) and the limits of sessions and attempts are positive
(`SessionsAssumption`); of the releases that a channel
shows the one picked is one of them (`NewestAssumption`; it follows from versions being
totally ordered, which `MCUpdates` checks, by an induction over a fold); an hour
divides the day (`CalendarAssumption`); a saved configuration has lists of rules, rotation and
inserts whose durations are numbers, a time of reload or none, and a tick that leaves room
for a round within two days (`ConfigsAssumption`); a wish is one of four kinds, that for an
override has a number of minutes and that for a display asks for on or off
(`WishesAssumption`).  `WorkflowAssumption` says that saved rules are valid and that there is one
ticker.  The hypothesis `Steady` of `CooldownsHold` is that a rule which is saved again keeps
its trigger and its cooldown, and that one goroutine handles the messages of MQTT.  The
code ensures neither: a rule in line is run as it was when its trigger came, with the
cooldown it had then, and a connection that is replaced while a message is
handled leaves a second goroutine behind.  For the rules and threads of the run it holds.

Why the properties are not inductive, and what the invariants add:

- **BrowserLifecycle.**  A step of the operation that holds the gate depends on what it saw a
  few sections earlier.  `OpInv` ties the kind of an operation to where it can be;
  `LaunchInv` is what an operation knows after releasing `b.mu` (between the first check of
  `start` and the publication no process is published, because only the holder of the gate
  publishes; the process a stop waits for is the published one or already reaped);
  `ProcInv` relates processes to `cmd`; `StopFlagNamesThisBrowser` is itself needed, or
  `Reap` could take a crash for a wanted exit; `RecoveryInv` ties `recoveryCancel` to the
  present epoch; `HaltHolds` lists what may
  hold the gate once a Stop has succeeded, and bounds the processes launched then by those
  launched and the page switches left to the scheduler (`SchedulerMay`).
- **RecoveryPolicy.**  The budget counts what the service remembers, the property what
  happened.  `BudgetInv` says that over *every* cut of the window, not only the one of now,
  the memory misses at most one recovery for each restart of the service; as time goes by
  the window shrinks to such a cut, and a recovery is added to both.  `OrderInv` is
  what makes pruning the list the same as cutting it off.  `SavedInv`: the file's list is the
  memory's, and neither count of failures is behind the crashes.  `TimerInv` and
  `PauseInv` keep the delay with the timer, and the pause with the last refusal, until a
  restart ends it.
- **SessionLoop.**  `ProbeInv`: from the second beat of a load on, the count of unanswered probes
  is at most one and at most the silence there was.  `WindowInv`: what the timer's state
  allows to be switched off.
- **PageControl.**  `PlannedInv`: a session that a switch has closed or is about to close leaves
  the mark that the monitor consumes before it books a failure.  `LossInv`: while the guard is
  not tripped failures never exceed losses, and are one behind while a loss has to be booked.
  `TabInv`, `BoundInv`, `SwitchInv` and `PreloadInv` say which tabs can be the same: those a
  switch closes are kept for no page, and one a preloader has opened is its own until booked.
  `UseInv` is about the list of tabs by use: it names the pages with a tab, and
  what leaves it leaves the map in the same section; only preloaders, which book
  what somebody else may have booked, list a page twice.  `OpenInv`: a switch closes
  tabs only after it has made its own the active one, which is none of them.
  `CountInv` bounds the list: each preloader and each entry took the opening of a tab.
- **Scheduler.**  `RoundInv` follows the round through its sections: with the programme of now
  once it is read, with the override's page if there is one, the active page equal to the
  decided one behind the switch, the display noted behind the power section, blanked only
  when off.  `AfterInv` says where a section shared with callers returns to.  `WishInv`: what
  `RecordOverride` records is a page that was shown, so never none; otherwise the page that
  comes back with the display could be another than the override's.
  `DatedInv`: a reload is dated with the moment the timer fired, so never past the timer.
  `ReloadInv`: no reload was due after the last that counts, so a new one is for another moment.
  `FileFollowsOverride` is inductive with the shapes alone; a service that is down is the
  case that needs the comparison of times at the start.
  `AsleepIsCurrent` is about one moment, what makes it true is a decision made earlier.
  `CurrentInv` is therefore about all moments to come: what a round that nobody disturbs has
  decided stays right up to the next change it knows of, as far as two days after the round
  began, and once asleep up to the timer.  `BaseInv` is the same of the rotation alone while
  the inserts have not been looked at.  `RulesInv` is the part of the time rules, which is weaker:
  what the round has seen of them was so at some moment since it began, so the sleep after it
  ends before that moment is a round and a tick ago (`WakesInTime`, `SleepRange`), and before the
  rule it follows is over.  `WakeInv`: the timer is ahead of a scheduler that sleeps,
  and no further behind than a round of one that does not.  `KnownInv` and `CallerInv`: a
  decision is made with a programme that was saved, and what callers leave behind are
  pages there are.  `HeldInv`: a round in which somebody stopped the browser is disturbed.
  The arithmetic is in the lemmas before: which day a moment is in and that windows
  neither begin nor end between two boundaries of inserts, so that the active one stays the
  same until `NextInsertChange`, in whatever order they are listed, also for a slot that began the
  day before.
- **Workflow.**  `ThreadOK` says of a thread where it can be, that it holds `e.running` while
  in a rule's actions, that its line has only rules of its trigger, and that what it found
  when it looked for an override was no person's.  `RoundInv` follows a round of the
  ticker: each rule due in the minute it looked at was fired for it or is in its line,
  unless the rules were saved since.  `CooledInv`: while the goroutine of a rule is about
  to begin its cooldown nobody else begins one, and the old one is over.
- **ConfigStore.**  `LockInv`: a save of the Admin page has `configMu` from the comparison of
  its revision on.  `DiskInv`: only the last file can be damaged, and nothing is saved before it
  is restored, so that the copy is never a damaged one.  `SaveInv`: what is about to
  replace the file is content, and the copy is of that file.  `SerialInv`: the compared
  revision stays the current one while the lock is held, but for changes that do not take
  it.  `StoreImplements` maps `Write`, `Load` and `Crash` to steps of DurableConfig and the
  others to stutters.
- **AdminSessions.**  `HashInv` and `WriterInv`: unless the last write failed or overlapped with
  another (`disturbed`) there is one writer and the temporary file is its own.  `LastWordInv`: the last word on the sessions,
  which is the writer's copy or else the file, matches the table as soon as nobody has still to
  take a copy.  `TriesInv` counts the requests whose password is being checked with the
  attempts that have failed: a request was allowed when there was still a place in the window,
  and there are no more requests than there are.  `SizesInv` and `AttemptsInv` are the parts
  of `TypeOK` for all tables that may become the present one again, and for the clients.
- **Updates.**  `OneWorking` and `TargetInv`: what is installed is a version.  `HistoryInv`: each
  entry tells the truth, and while there is none nothing was installed, so that what is
  inferred from the log of the package manager is older.
- **MqttService.**  `RoundInv` and `CommandInv`: a round holds `publishMu`, one message is handled at
  a time and its result is written under `s.mu`.  `TopicInv` is `DiscoveryIsTracked` without
  types.  `CacheInv` is about the connection that `Run` keeps and not about the configuration of
  now: for as long as it is kept, what the cache says is what the broker has under the
  root of that connection, but for the paths in `lost` and `cleared`.  So it survives a
  configuration that goes away and comes back, and says what is asked as soon as
  the connection is the configuration's.

What stays with TLC:

- Liveness (`GateIsReleased`, `HungPageIsReloaded`, `ControlComesBack`, `InstallationEnds`,
  `FollowsConfig`): the prover has no rules for fairness and ENABLED.
- Facts by induction over data: `NormalForm` and `MigrationKeepsProgramme` of
  ConfigStore (migrations are folds over the pages), `ConflictsComplete`,
  `VersionsAreOrdered`.  The theorems of the library that allow induction take an operator as
  a parameter, which the installed provers cannot instantiate.
- `TimelineAgrees`: the timeline is a fold over the sorted boundaries of two days, so it is
  an induction over data too.

No module uses a RECURSIVE operator.

## Not modelled

Within the modelled parts:

- BrowserLifecycle to SessionLoop: the texts, histories and counters of statuses; how the
  watchdog arrives at a complaint from memory and CPU samples; the public Reload, which
  changes none of the state here; navigate mode, edited page addresses and isolated
  sessions; the bookkeeping of WebSockets in the session loop; the counting of
  evidence and the saved guard file; the recovery and reboot that `hang.go` escalates to.
- Scheduler and Workflow: the times of sunrise and sunset, which only choose minutes; by how
  much the memory of the browser grew;
  the values of topics beyond whether a condition holds; actions without state.
- ConfigStore: damage of the main file while the service runs, and writers other than the
  program; a command of the program is one step.
- AdminSessions: cookies, remote addresses and their headers, the hash itself.
- Updates: what a preflight looks at, the password for apt, the job log.
- MqttService: the states of single entities, the texts of discovery, packets, and the health
  values of a page.

Whole components: the DevTools connection (requests and responses over one WebSocket: its
failures are choices of PageControl and SessionLoop), the event journal (a bounded list and a
file that nothing depends on), hardware probing, system statistics, log files, browser installation
and profiles, the web interface and packaging.  They are input and output, files and
command lines, without an order of events worth checking.

## Plan

What the plan of the first version named is modelled, but for these:

1. **AuthGuard**: evidence within its window, its bound, and the saved guard file against
   crashes.
2. **Jobs**: the job table of the maintenance actions with its remembered password, and the
   journal.
3. An abstract **Supervisor** (up, down or held, and who may change it) which
   BrowserLifecycle implements, with RecoveryPolicy agreeing on `up` and `timer`.

Theorem worth proving next: the refinement of the abstract Supervisor above.
