------------------------------- MODULE Updates -------------------------------
(***************************************************************************)
(* Checking for, installing and rolling back releases (internal/updater),   *)
(* the maintenance jobs that use the package manager or restart the program *)
(* (internal/actions), and the restart that ends an installation.  The      *)
(* package stops the service while it is unpacked and starts it again       *)
(* (scripts/package-deb.py); the package manager outlives the program.      *)
(***************************************************************************)
EXTENDS Versions

CONSTANTS
  Requests,      \* requests that start an installation or a check
  Releases,      \* the releases, in the order they are published
  First,         \* the version that is installed at first
  HistoryCap,    \* entries of the history: 50 in the code
  MaxEvents,     \* bound on requests, publications, failures and crashes
  NoVersion

ASSUME UpdatesAssumption ==
  /\ {"run", "free"} \cap Requests = {} /\ HistoryCap \in Nat \ {0} /\ MaxEvents \in Nat

\* The versions that there are.
AllVersions == {First} \cup {Releases[i].version : i \in DOMAIN Releases}

ASSUME ReleasesAssumption ==
  /\ Releases # <<>> /\ Releases \in Seq({Releases[i] : i \in DOMAIN Releases})
  /\ NoVersion \notin AllVersions

\* Of what a channel shows, one release is the highest: versions are totally ordered.
ASSUME NewestAssumption ==
  \A n \in DOMAIN Releases, early \in BOOLEAN :
    LET visible == Visible(SubSeq(Releases, 1, n), early)
    IN visible # {} => NewestRelease(visible) \in visible

VARIABLES
  up,         \* the program runs
  version,    \* the version of the program that runs or ran last
  installed,  \* the version that is installed
  managed,    \* the program runs as the service that the package stops
  published,  \* how many releases are published
  prerelease, \* the channel that is configured
  history,    \* s.history, oldest first: the same in memory and in its file
  installing, \* s.installing
  checkMu,    \* the thread that checks for a release, or "free"
  status,     \* the latest release known: [latest, available, checking]
  apt,        \* what the package manager does: [by, target]; by is "stopping" from when
              \* the package has stopped the service for a job
  th,         \* the threads
  dpkg,       \* the package manager's log: changes [from, target], oldest first
  ran,        \* history: the versions that have run
  jobs, events

vars == <<up, version, installed, managed, published, prerelease, history, installing,
          checkMu, status, apt, th, dpkg, ran, jobs, events>>
packages == <<installed, apt, dpkg>>
world    == <<managed, published, prerelease>>
life     == <<up, version, ran>>

Threads  == Requests \cup {"run"}
Idle     == [pc |-> "idle", kind |-> "", target |-> NoVersion, id |-> 0]
NoApt    == [by |-> "none", target |-> NoVersion]
NoStatus == [latest |-> NoVersion, available |-> FALSE, checking |-> FALSE]

IsAt(t, pc) == th[t].pc = pc
GoTo(t, pc) == th' = [th EXCEPT ![t].pc = pc]
Event       == events < MaxEvents /\ events' = events + 1
Listed      == SubSeq(Releases, 1, published)
Working(t)  == th[t].pc \in {"check", "checking", "release", "download", "install", "apt",
                             "restart"}

\* The package manager works for a job, also when that has ended with the program.
Installing == apt.by \in {"job", "stopping"}

\* What the log may say of the time before: an upgrade to the first version, and that it
\* was installed a second time.
Upgraded    == [from |-> Releases[1].version, target |-> First]
Reinstalled == [from |-> First, target |-> First]

LastOf(s, n) == SubSeq(s, IF Len(s) > n THEN Len(s) - n + 1 ELSE 1, Len(s))

\* updateHistory: the job's entry, with its target and status of now.
Noted(id, target, state) ==
  [i \in DOMAIN history |->
     IF history[i].id = id THEN [history[i] EXCEPT !.target = target, !.status = state]
     ELSE history[i]]

\* The line of the log that led to this version from another one.
LedTo(current, i) == dpkg[i].target = current /\ dpkg[i].from # current

\* loadHistory: without a file, the last such line in the package manager's log.
Inferred(current) ==
  LET found == {i \in DOMAIN dpkg : LedTo(current, i)}
  IN IF found = {} THEN <<>>
     ELSE <<[id |-> 0, kind |-> "install",
             from |-> dpkg[CHOOSE i \in found : \A j \in found : j <= i].from,
             target |-> current, status |-> "installed"]>>

\* finalizeHistoryAfterRestart: was it the version that was to be installed?
Finalized(current) ==
  [i \in DOMAIN history |->
     IF history[i].status # "restarting" THEN history[i]
     ELSE [history[i] EXCEPT !.status = IF history[i].target = current THEN "installed"
                                        ELSE "failed"]]

\* Weakened form of BringsBack: an installation that changed nothing counts too.
BringsBackAny(entry) == entry.status = "installed" /\ entry.target = version

BringsBack(entry) ==
  entry.status = "installed" /\ entry.target = version /\ entry.from # version

\* rollbackTarget: from the latest installation of the version that runs.
RollbackTarget ==
  LET found == {i \in DOMAIN history : BringsBack(history[i])}
  IN IF found = {} THEN NoVersion
     ELSE history[CHOOSE i \in found : \A j \in found : j <= i].from

Init ==
  /\ up = TRUE /\ version = First /\ installed = First /\ ran = {First}
  /\ managed \in BOOLEAN /\ published = 1 /\ prerelease \in BOOLEAN
  /\ dpkg \in {<<>>, <<Upgraded>>, <<Upgraded, Reinstalled>>}
  /\ history = Inferred(First) /\ installing = FALSE
  /\ checkMu = "free" /\ status = NoStatus /\ apt = NoApt
  /\ th = [t \in Threads |-> Idle] /\ jobs = 0 /\ events = 0

-----------------------------------------------------------------------------
(* Checks.                                                                 *)

\* Check, by the ticker of Run, a request, or a job of installation.
BeginCheck(t) ==
  /\ up /\ checkMu = "free"
  /\ \/ th[t].pc \in {"check", "look"} /\ UNCHANGED events
     \/ IsAt(t, "idle") /\ Event
  /\ checkMu' = t /\ status' = [status EXCEPT !.checking = TRUE]
  /\ GoTo(t, IF IsAt(t, "check") THEN "checking" ELSE "looking")
  /\ UNCHANGED <<life, packages, world, history, installing, jobs>>

EndWith(t, state) ==
  history' = Noted(th[t].id, th[t].target, state) /\ th' = [th EXCEPT ![t] = Idle]

\* Weakened form of FailJob: the next installation has to wait for a restart.
FailJobLocked(t) == EndWith(t, "failed") /\ installing' = installing

\* fail, and finishInstallJob after it.
FailJob(t) == EndWith(t, "failed") /\ installing' = FALSE

\* A check that fails keeps what was known; a job goes on with what it found.
EndCheck(t) ==
  LET visible == Visible(Listed, prerelease)
  IN /\ up /\ checkMu = t /\ checkMu' = "free"
     /\ \/ /\ (visible = {} /\ UNCHANGED events) \/ Event
           /\ status' = [status EXCEPT !.checking = FALSE]
           /\ IF IsAt(t, "checking") THEN FailJob(t)
              ELSE th' = [th EXCEPT ![t] = Idle] /\ UNCHANGED <<history, installing>>
        \/ /\ visible # {} /\ UNCHANGED events
           /\ \E latest \in {NewestRelease(visible)}, newer \in BOOLEAN :
                /\ newer = (CompareVersion(latest.version, version) > 0)
                /\ status' = [latest |-> latest.version, available |-> newer, checking |-> FALSE]
                /\ CASE IsAt(t, "looking") ->
                          th' = [th EXCEPT ![t] = Idle] /\ UNCHANGED <<history, installing>>
                     [] IsAt(t, "checking") /\ newer ->
                          /\ th' = [th EXCEPT ![t].pc = "download", ![t].target = latest.version]
                          /\ history' = Noted(th[t].id, latest.version, "running")
                          /\ UNCHANGED installing
                     [] OTHER ->
                          /\ history' = Noted(th[t].id, version, "installed")
                          /\ installing' = FALSE /\ th' = [th EXCEPT ![t] = Idle]
     /\ UNCHANGED <<life, packages, world, jobs>>

-----------------------------------------------------------------------------
(* Installation and rollback.                                              *)

\* startInstall: a look at the lock, then the privileges are tried out.
Ask(t, kind) ==
  /\ up /\ IsAt(t, "idle") /\ Event
  /\ ~installing /\ (kind = "rollback" => RollbackTarget # NoVersion)
  /\ th' = [th EXCEPT ![t] = [Idle EXCEPT !.pc = "privilege", !.kind = kind,
              !.target = IF kind = "rollback" THEN RollbackTarget ELSE NoVersion]]
  /\ UNCHANGED <<life, packages, world, history, installing, checkMu, status, jobs>>

\* The job and its entry of the history.
Begun(t) ==
  /\ installing' = TRUE /\ jobs' = jobs + 1
  /\ history' = LastOf(Append(history, [id |-> jobs + 1, kind |-> th[t].kind, from |-> version,
                                        target |-> th[t].target, status |-> "running"]),
                       HistoryCap)
  /\ th' = [th EXCEPT ![t].id = jobs + 1,
                      ![t].pc = IF th[t].kind = "install" THEN "check" ELSE "release"]

\* Weakened form of Claim: the first look is relied on.
ClaimAnyway(t) ==
  /\ up /\ IsAt(t, "privilege") /\ Begun(t)
  /\ UNCHANGED <<life, packages, world, checkMu, status, events>>

\* The lock is taken after a second look, unless the privileges were refused.
Claim(t) ==
  /\ up /\ IsAt(t, "privilege")
  /\ \/ ~installing /\ Begun(t)
     \/ th' = [th EXCEPT ![t] = Idle] /\ UNCHANGED <<installing, history, jobs>>
  /\ UNCHANGED <<life, packages, world, checkMu, status, events>>

\* releaseVersion, of any channel.
FindRelease(t) ==
  /\ up /\ IsAt(t, "release")
  /\ IF \E i \in DOMAIN Listed : ~Listed[i].draft /\ Listed[i].version = th[t].target
     THEN GoTo(t, "download") /\ UNCHANGED <<history, installing>>
     ELSE FailJob(t)
  /\ UNCHANGED <<life, packages, world, checkMu, status, jobs, events>>

\* The environment is checked, the package downloaded and verified, and the
\* configuration copied; each may fail.
Download(t) ==
  /\ up /\ IsAt(t, "download")
  /\ \/ GoTo(t, "install") /\ UNCHANGED <<history, installing, events>>
     \/ Event /\ FailJob(t)
  /\ UNCHANGED <<life, packages, world, checkMu, status, jobs>>

\* The package manager runs for one at a time.
BeginApt(t) ==
  /\ up /\ IsAt(t, "install")
  /\ IF apt = NoApt
     THEN /\ apt' = [by |-> "job", target |-> th[t].target] /\ GoTo(t, "apt")
          /\ UNCHANGED <<history, installing>>
     ELSE FailJob(t) /\ UNCHANGED apt
  /\ UNCHANGED <<life, installed, dpkg, world, checkMu, status, jobs, events>>

\* The package manager fails before it has unpacked anything.
FailApt ==
  /\ Installing /\ Event
  /\ apt' = NoApt
  /\ IF \E t \in Threads : IsAt(t, "apt")
     THEN \E t \in Threads : IsAt(t, "apt") /\ FailJob(t)
     ELSE UNCHANGED <<th, history, installing>>
  /\ UNCHANGED <<life, installed, dpkg, world, checkMu, status, jobs>>

\* The program is gone, and what was only in memory with it.
Stopped ==
  /\ up' = FALSE /\ installing' = FALSE /\ checkMu' = "free" /\ status' = NoStatus
  /\ th' = [t \in Threads |-> Idle]

\* prerm stops the service that the package belongs to, or the restart it waits for.
StopForPackage ==
  /\ managed /\ apt.by = "job"
  /\ apt' = [apt EXCEPT !.by = "stopping"] /\ Stopped
  /\ UNCHANGED <<version, ran, installed, dpkg, world, history, jobs, events>>

\* The new version is there; a job that still runs restarts the service.
Unpack ==
  /\ Installing
  /\ installed' = apt.target
  /\ dpkg' = Append(dpkg, [from |-> installed, target |-> apt.target])
  /\ apt' = NoApt
  /\ IF \E t \in Threads : IsAt(t, "apt")
     THEN \E t \in Threads :
            /\ IsAt(t, "apt") /\ GoTo(t, "restart")
            /\ history' = Noted(th[t].id, th[t].target, "restarting")
     ELSE UNCHANGED <<th, history>>
  /\ UNCHANGED <<life, world, installing, checkMu, status, jobs, events>>

\* restartServiceAfterUpdate: it fails, or it ends the program that it belongs to.
RestartService(t) ==
  /\ up /\ IsAt(t, "restart")
  /\ \/ /\ Event /\ FailJob(t)
        /\ UNCHANGED <<life, checkMu, status>>
     \/ /\ managed /\ Stopped /\ UNCHANGED <<version, ran, history, events>>
     \/ /\ ~managed /\ th' = [th EXCEPT ![t] = Idle]
        /\ UNCHANGED <<life, checkMu, status, history, installing, events>>
  /\ UNCHANGED <<packages, world, jobs>>

-----------------------------------------------------------------------------
(* Around it.                                                              *)

\* The program starts with the version that is installed: systemd restarts one that has
\* crashed, also while the package manager works, but not one that it was told to stop.
Start ==
  /\ ~up /\ apt.by # "stopping"
  /\ up' = TRUE /\ version' = installed /\ ran' = ran \cup {installed}
  /\ history' = LET loaded == Finalized(installed)
                IN IF loaded = <<>> THEN Inferred(installed) ELSE loaded
  /\ UNCHANGED <<packages, world, installing, checkMu, status, th, jobs, events>>

\* A crash, or a restart that somebody asked for.
Stop ==
  /\ up /\ Event /\ Stopped
  /\ UNCHANGED <<version, ran, packages, world, history, jobs>>

\* A maintenance job that uses the package manager.
BeginUpgrade ==
  /\ up /\ apt = NoApt /\ Event
  /\ apt' = [by |-> "upgrade", target |-> NoVersion]
  /\ UNCHANGED <<life, installed, dpkg, world, history, installing, checkMu, status, th, jobs>>

EndUpgrade ==
  /\ apt.by = "upgrade" /\ apt' = NoApt
  /\ UNCHANGED <<life, installed, dpkg, world, history, installing, checkMu, status, th, jobs,
                 events>>

\* A release is published.
Publish ==
  /\ published < Len(Releases) /\ published' = published + 1
  /\ UNCHANGED <<life, packages, managed, prerelease, history, installing, checkMu, status, th,
                 jobs, events>>

\* Another channel is chosen; the request checks it right away.
SwitchChannel(t) ==
  /\ up /\ IsAt(t, "idle") /\ Event
  /\ prerelease' = ~prerelease /\ GoTo(t, "look")
  /\ UNCHANGED <<life, packages, managed, published, history, installing, checkMu, status, jobs>>

Job(t) ==
  \/ BeginCheck(t) \/ EndCheck(t) \/ Claim(t) \/ FindRelease(t) \/ Download(t)
  \/ BeginApt(t) \/ RestartService(t)

Next ==
  \/ \E t \in Threads : Job(t)
  \/ \E t \in Requests : Ask(t, "install") \/ Ask(t, "rollback") \/ SwitchChannel(t)
  \/ FailApt \/ StopForPackage \/ Unpack \/ Start \/ Stop
  \/ BeginUpgrade \/ EndUpgrade \/ Publish

\* Every step of a job has a time limit, and systemd starts the service again.
Fairness ==
  /\ \A t \in Threads : WF_vars(Job(t))
  /\ WF_vars(Unpack) /\ WF_vars(Start)

Spec == Init /\ [][Next]_vars /\ Fairness

-----------------------------------------------------------------------------
(* Properties.                                                             *)

\* The lock and the flags follow the threads, and the history keeps to its limit.
TypeOK ==
  /\ up \in BOOLEAN /\ Len(history) <= HistoryCap
  /\ \A t \in Threads : Working(t) => installing
  /\ status.checking <=> checkMu # "free"
  /\ \A t \in Threads : checkMu = t <=> th[t].pc \in {"checking", "looking"}
  /\ events \in 0..MaxEvents

\* One installation at a time, however many requests passed the first look
\* (startInstall looks at installing a second time, under the lock).
OneInstallation == TypeOK /\ Cardinality({t \in Threads : Working(t)}) <= 1

\* The history calls a version installed only when it has run, and a rollback leads
\* to another version that has run, or that the package manager's log names
\* (finalizeHistoryAfterRestart, rollbackTarget).
HistoryIsTrue ==
  /\ \A i \in DOMAIN history : history[i].status = "installed" => history[i].target \in ran
  /\ RollbackTarget # version
  /\ RollbackTarget \in ran \cup {NoVersion, Releases[1].version}

\* Of a program that runs as the service, an installation always ends and the next
\* one can begin (fail, finishInstallJob, the restart).
InstallationEnds == managed => (installing ~> ~installing)

-----------------------------------------------------------------------------
(* The inductive invariant of the proofs.                                  *)

MaybeVersion == AllVersions \cup {NoVersion}

Thread ==
  [pc : {"idle", "look", "looking", "privilege", "check", "checking", "release", "download",
         "install", "apt", "restart"},
   kind : {"", "install", "rollback"}, target : MaybeVersion, id : Nat]

\* An entry that says "installed" names a version that has run, and every entry starts
\* from one that has run or that the package manager's log names.
TrueEntry ==
  {entry \in [id : Nat, kind : {"", "install", "rollback"}, from : MaybeVersion,
              target : MaybeVersion, status : {"running", "restarting", "installed", "failed"}] :
     /\ entry.status = "installed" => entry.target \in ran
     /\ entry.from \in ran \cup {Releases[1].version}}

ShapeInv ==
  /\ th \in [Threads -> Thread]
  /\ ran \subseteq AllVersions /\ version \in ran /\ installed \in AllVersions
  /\ apt \in [by : {"none", "job", "stopping", "upgrade"}, target : MaybeVersion]
  /\ status \in [latest : MaybeVersion, available : BOOLEAN, checking : BOOLEAN]
  /\ published \in DOMAIN Releases /\ prerelease \in BOOLEAN /\ jobs \in Nat

\* The lock of the installation belongs to one thread.
OneWorking == \A t, u \in Threads : Working(t) /\ Working(u) => t = u

\* What is downloaded and installed is a version.
TargetInv ==
  /\ \A t \in Threads :
       th[t].pc \in {"download", "install", "apt", "restart"} => th[t].target \in AllVersions
  /\ Installing => apt.target \in AllVersions

\* As long as nothing was installed, what the package manager's log says is older.
HistoryInv ==
  /\ history \in Seq(TrueEntry) /\ First \in ran
  /\ history = <<>> =>
       /\ \A t \in Threads : ~Working(t)
       /\ ~Installing /\ installed = First
       /\ dpkg \in Seq({Upgraded, Reinstalled})

IInv == TypeOK /\ ShapeInv /\ OneWorking /\ TargetInv /\ HistoryInv

=============================================================================
