----------------------------- MODULE ConfigStore -----------------------------
(***************************************************************************)
(* Loading and saving the configuration (internal/config, the configuration *)
(* handlers of internal/admin, the commands of cmd/kioskmate): requests     *)
(* that save the whole configuration or change a part of it, the files,     *)
(* failures and crashes between their steps, and the command line, which    *)
(* loads and saves in a process of its own.                                 *)
(*                                                                         *)
(* `next' is what a thread is about to save; mu is the lock of the          *)
(* configuration and configMu that of the handler of saves.                 *)
(***************************************************************************)
EXTENDS ConfigContent

CONSTANTS
  Requests,     \* the threads of the program that change the configuration
  Starts,       \* what the file may hold at first: contents or NoConfig
  Defaults,     \* what is used when there is no file
  Imports,      \* the files that people import
  Changes,      \* what Mutate is called for
  Changed(_, _),\* what a change makes of a configuration
  Edits,        \* what people edit in the Admin UI
  Edited(_, _), \* what an edit makes of a configuration
  Keep,         \* backups that are kept: 10 in the code
  MaxEvents,    \* bound on requests and commands
  MaxCrashes,   \* bound on crashes
  NoConfig, Damaged

ASSUME StoreAssumption ==
  /\ {"boot", "free"} \cap Requests = {}
  /\ Keep \in Nat \ {0} /\ {MaxEvents, MaxCrashes} \subseteq Nat

\* No file, and a damaged one, is not the content of a file.
ASSUME ContentAssumption ==
  NoConfig # Damaged /\ \A f \in {NoConfig, Damaged} : "version" \notin DOMAIN f

VARIABLES
  disk,      \* [main, bak, backups]: the files, backups oldest first
  cfg,       \* the configuration in memory, NoConfig when the program is down
  mu, configMu,
  th,        \* what each thread does
  outside,   \* history: the command line has saved since the program did
  lastBy,    \* history: the kind of thread that saved last
  events, crashes

vars == <<disk, cfg, mu, configMu, th, outside, lastBy, events, crashes>>
bounds == <<events, crashes>>

Threads == Requests \cup {"boot"}
Idle    == [pc |-> "idle", kind |-> "", base |-> NoConfig, next |-> NoConfig,
            forced |-> FALSE]

Up          == cfg # NoConfig
IsFile(f)   == f \notin {NoConfig, Damaged}
IsAt(t, pc) == th[t].pc = pc
Event       == events < MaxEvents /\ events' = events + 1 /\ UNCHANGED crashes

\* publicConfig: the secrets are left out; configRevision is its hash.
Public(c) == [c EXCEPT !.hash = 0]

Init ==
  /\ disk \in [main : Starts, bak : {NoConfig}, backups : {<<>>}]
  /\ cfg = NoConfig /\ mu = "free" /\ configMu = "free"
  /\ th = [t \in Threads |-> Idle]
  /\ outside = FALSE /\ lastBy = "" /\ events = 0 /\ crashes = 0

-----------------------------------------------------------------------------
(* The steps of a save, on the files.                                      *)

\* backupIfChanged: nothing is copied when the content is the same.
IsKept(d, c) == d.main \in {NoConfig, c}

LastOf(s, n) == SubSeq(s, IF Len(s) > n THEN Len(s) - n + 1 ELSE 1, Len(s))

BackedUp(d)    == [d EXCEPT !.backups = LastOf(Append(@, d.main), Keep)]
CopiedAside(d) == [d EXCEPT !.bak = d.main]
Written(d, c)  == [d EXCEPT !.main = c]

\* A whole save, by the command line.
Saved(d, c) == Written(IF IsKept(d, c) THEN d ELSE CopiedAside(BackedUp(d)), c)

\* Load puts the copy in the place of a file that cannot be read.
Restored(d) == IF d.main = Damaged THEN [d EXCEPT !.main = d.bak] ELSE d

\* A file without a version is read as one of the current version.
ReadFrom(d) ==
  LET c == IF Restored(d).main = NoConfig THEN Defaults ELSE Restored(d).main
  IN [c EXCEPT !.version = IF @ = 0 THEN CurrentVersion ELSE @]

CanLoad(d) == Restored(d).main # Damaged /\ ~(d.main = Damaged /\ d.bak = NoConfig)
              /\ Valid(Normalize(ReadFrom(d)))

-----------------------------------------------------------------------------
(* Requests.                                                               *)

\* The Admin UI posts what it has read and edited, or a file or a backup is sent.
Post(t, edit, forced) ==
  /\ Up /\ IsAt(t, "idle") /\ Event
  /\ th' = [th EXCEPT ![t] = [Idle EXCEPT !.pc = "posted", !.kind = "save",
              !.base = Public(cfg), !.next = Edited(Public(cfg), edit), !.forced = forced]]
  /\ UNCHANGED <<disk, cfg, mu, configMu, outside, lastBy>>

Import(t, c) ==
  /\ Up /\ IsAt(t, "idle") /\ Event
  /\ th' = [th EXCEPT ![t] = [Idle EXCEPT !.pc = "posted", !.kind = "import", !.next = c]]
  /\ UNCHANGED <<disk, cfg, mu, configMu, outside, lastBy>>

Restore(t) ==
  /\ Up /\ IsAt(t, "idle") /\ Event
  /\ \E c \in {disk.bak} \cup {disk.backups[i] : i \in DOMAIN disk.backups} :
       /\ IsFile(c)
       /\ th' = [th EXCEPT ![t] = [Idle EXCEPT !.pc = "posted", !.kind = "restore",
                                     !.next = c]]
  /\ UNCHANGED <<disk, cfg, mu, configMu, outside, lastBy>>

\* decodeConfig: a secret that was left out is taken from the configuration of now.
Decode(t) ==
  LET next == [th[t].next EXCEPT !.hash = IF @ = 0 THEN cfg.hash ELSE @]
  IN /\ IsAt(t, "posted")
     /\ th' = [th EXCEPT ![t] =
                 IF ~Valid(next) THEN Idle
                 ELSE [@ EXCEPT !.next = next,
                                !.pc = IF th[t].kind = "save" THEN "decoded" ELSE "ready"]]
     /\ UNCHANGED <<disk, cfg, mu, configMu, outside, lastBy, bounds>>

\* Weakened form of Check: the revision is compared without the lock.
CheckUnlocked(t) ==
  /\ IsAt(t, "decoded")
  /\ th' = [th EXCEPT ![t] = IF th[t].forced \/ th[t].base = Public(cfg)
                             THEN [@ EXCEPT !.pc = "ready"] ELSE Idle]
  /\ UNCHANGED <<disk, cfg, mu, configMu, outside, lastBy, bounds>>

\* A save is refused when the revision it was based on is not the current one.
Check(t) ==
  /\ IsAt(t, "decoded") /\ configMu = "free"
  /\ IF th[t].forced \/ th[t].base = Public(cfg)
     THEN configMu' = t /\ th' = [th EXCEPT ![t].pc = "ready"]
     ELSE configMu' = configMu /\ th' = [th EXCEPT ![t] = Idle]
  /\ UNCHANGED <<disk, cfg, mu, outside, lastBy, bounds>>

-----------------------------------------------------------------------------
(* Saving.                                                                 *)

Release(t) ==
  /\ mu' = "free" /\ configMu' = IF configMu = t THEN "free" ELSE configMu
  /\ th' = [th EXCEPT ![t] = Idle]

\* Under mu, what is to be saved is normalised and validated once more.
BeginSave(t, kind, next) ==
  /\ mu = "free"
  /\ IF Valid(next)
     THEN /\ mu' = t /\ configMu' = configMu
          /\ th' = [th EXCEPT ![t].pc = "backup", ![t].kind = kind, ![t].next = next]
     ELSE Release(t)
  /\ UNCHANGED <<disk, cfg, outside, lastBy>>

Replace(t) ==
  IsAt(t, "ready") /\ BeginSave(t, th[t].kind, Normalize(th[t].next)) /\ UNCHANGED bounds

\* Mutate changes a copy of the configuration.
Mutate(t, change) ==
  /\ Up /\ IsAt(t, "idle") /\ Event
  /\ BeginSave(t, "mutate", Normalize(Changed(cfg, change)))

\* The Admin page's repair, which is saved like any other change.
RepairNow(t) ==
  /\ Up /\ IsAt(t, "idle") /\ Event
  /\ BeginSave(t, "mutate", Normalize(Repair(cfg)))

\* backupIfChanged; a crash before the old backups are removed only leaves one more.
Backup(t) ==
  /\ IsAt(t, "backup")
  /\ IF IsKept(disk, th[t].next)
     THEN disk' = disk /\ th' = [th EXCEPT ![t].pc = "write"]
     ELSE disk' = BackedUp(disk) /\ th' = [th EXCEPT ![t].pc = "copy"]
  /\ UNCHANGED <<cfg, mu, configMu, outside, lastBy, bounds>>

CopyAside(t) ==
  /\ IsAt(t, "copy")
  /\ disk' = CopiedAside(disk) /\ th' = [th EXCEPT ![t].pc = "write"]
  /\ UNCHANGED <<cfg, mu, configMu, outside, lastBy, bounds>>

\* The file is replaced by a rename, then memory; the change is announced.
Write(t) ==
  /\ IsAt(t, "write")
  /\ disk' = Written(disk, th[t].next) /\ cfg' = th[t].next
  /\ outside' = FALSE /\ lastBy' = th[t].kind
  /\ Release(t) /\ UNCHANGED bounds

\* Weakened form of Fail: Mutate and Replace change the configuration in place.
FailInPlace(t) ==
  /\ th[t].pc \in {"backup", "copy", "write"}
  /\ Release(t) /\ cfg' = th[t].next
  /\ UNCHANGED <<disk, outside, lastBy, bounds>>

\* A step fails: the error is returned and nothing is published; a start gives up.
Fail(t) ==
  /\ th[t].pc \in {"backup", "copy", "write"}
  /\ Release(t)
  /\ UNCHANGED <<disk, cfg, outside, lastBy, bounds>>

-----------------------------------------------------------------------------
(* Starts, crashes and the command line.                                   *)

\* Load: restores a damaged file, keeps the damaged one, normalises and saves.
Load ==
  /\ ~Up /\ IsAt("boot", "idle") /\ CanLoad(disk)
  /\ disk' = Restored(disk) /\ mu' = "boot"
  /\ th' = [th EXCEPT !["boot"] = [Idle EXCEPT !.pc = "backup", !.kind = "boot",
                                     !.next = Normalize(ReadFrom(disk))]]
  /\ UNCHANGED <<cfg, configMu, outside, lastBy, bounds>>

\* The program ends at any moment; without power the file may be damaged.
Crash ==
  /\ (Up \/ ~IsAt("boot", "idle")) /\ crashes < MaxCrashes
  /\ crashes' = crashes + 1 /\ UNCHANGED events
  /\ \E file \in {disk.main, Damaged} : disk' = [disk EXCEPT !.main = file]
  /\ cfg' = NoConfig /\ mu' = "free" /\ configMu' = "free"
  /\ th' = [t \in Threads |-> Idle] /\ outside' = FALSE /\ lastBy' = ""

\* A command loads, which saves, and saves what it has changed.
Command(change) ==
  LET loaded == Normalize(ReadFrom(disk)) IN
  /\ Event /\ CanLoad(disk)
  /\ disk' = Saved(Saved(Restored(disk), loaded), Normalize(Changed(loaded, change)))
  /\ outside' = TRUE
  /\ UNCHANGED <<cfg, mu, configMu, th, lastBy>>

Next ==
  \/ \E t \in Requests :
       \/ \E e \in Edits, forced \in BOOLEAN : Post(t, e, forced)
       \/ \E c \in Imports : Import(t, c)
       \/ \E change \in Changes : Mutate(t, change)
       \/ RepairNow(t) \/ Restore(t) \/ Decode(t) \/ Check(t) \/ Replace(t)
  \/ \E t \in Threads : Backup(t) \/ CopyAside(t) \/ Write(t) \/ Fail(t)
  \/ Load \/ Crash
  \/ \E change \in Changes : Command(change)

Spec == Init /\ [][Next]_vars

-----------------------------------------------------------------------------
(* Properties.                                                             *)

\* Locks are held by those who use them, and at most Keep backups are kept.
TypeOK ==
  /\ Len(disk.backups) <= Keep
  /\ mu \in Threads \cup {"free"} /\ configMu \in Requests \cup {"free"}
  /\ \A t \in Threads : mu = t <=> th[t].pc \in {"backup", "copy", "write"}
  /\ configMu # "free" => th[configMu].kind = "save"
  /\ {outside, Up} \subseteq BOOLEAN /\ events \in 0..MaxEvents /\ crashes \in 0..MaxCrashes

\* However requests, failures and crashes interleave, the files and the running
\* program are a store that saves all or nothing: see DurableConfig (config.go
\* atomicWriteFile, backupIfChanged, Mutate and Replace).
Store ==
  INSTANCE DurableConfig WITH
    Nothing <- NoConfig, running <- cfg, previous <- disk.bak,
    saved <- IF disk.main = Damaged THEN disk.bak ELSE disk.main

SavesAllOrNothing == Store!Spec

\* What runs is in normal form: another start changes nothing and no two pages
\* have one identifier, however it came in (normalize runs before every save).
NormalForm ==
  /\ TypeOK
  /\ Up => /\ Normalize(cfg) = cfg
           /\ Cardinality(Ids(cfg)) = Len(cfg.pages)

\* Of two saves of the Admin UI that were based on one revision the second is
\* refused (configMu in the handler of /api/config).
SavesAreSerial ==
  [][\A t \in Requests :
       /\ IsAt(t, "write") /\ th[t].kind = "save" /\ ~th[t].forced /\ cfg' # cfg /\ Up'
       => th[t].base = Public(cfg) \/ lastBy # "save"]_vars

\* What Load makes of an older file shows the same pages for the same time in the
\* same order, and the time rules the same pages (migrateLegacySequence).
MigrationKeepsProgramme ==
  [][LET read == ReadFrom(disk) IN
     IsAt("boot", "idle") /\ th'["boot"].pc = "backup" /\ InRange(read) /\ read.rotation # <<>>
     => Programme(th'["boot"].next) = Programme(read)]_vars

-----------------------------------------------------------------------------
(* The inductive invariant of the proofs.                                  *)

\* Threads and the disk are records of a fixed shape, and backups a sequence.
ShapeInv ==
  /\ DOMAIN th = Threads /\ \A t \in Threads : DOMAIN th[t] = DOMAIN Idle
  /\ DOMAIN disk = {"main", "bak", "backups"}
  /\ disk.backups \in Seq({disk.backups[i] : i \in DOMAIN disk.backups})

\* A save of the Admin UI has configMu from the comparison of its revision on, and
\* no request survives the program.
LockInv ==
  /\ th["boot"].kind # "save"
  /\ \A t \in Requests :
       /\ configMu = t => th[t].pc \in {"ready", "backup", "copy", "write"} /\ th[t].kind = "save"
       /\ IsAt(t, "decoded") => th[t].kind = "save"
       /\ th[t].kind = "save" /\ th[t].pc \in {"ready", "backup", "copy", "write"} => configMu = t
       /\ ~Up => IsAt(t, "idle")

\* Only the last file can be damaged, and nothing is saved before it is restored.
DiskInv ==
  /\ disk.bak # Damaged /\ (disk.main = NoConfig => disk.bak = NoConfig)
  /\ disk.main = Damaged => ~Up /\ IsAt("boot", "idle")

\* What is about to be saved is content, and when it replaces the file the copy is
\* of that file, unless the content is the same or a command has saved meanwhile.
SaveInv ==
  \A t \in Threads :
    /\ th[t].pc \in {"backup", "copy", "write"} => "version" \in DOMAIN th[t].next
    /\ IsAt(t, "write") => outside \/ disk.main \in {disk.bak, th[t].next}

\* The revision that was compared stays the current one while configMu is held, but
\* for changes that do not take configMu.
SerialInv ==
  \A t \in Requests :
    configMu = t /\ ~th[t].forced => th[t].base = Public(cfg) \/ lastBy # "save"

IInv == TypeOK /\ ShapeInv /\ LockInv /\ DiskInv /\ SaveInv /\ SerialInv

=============================================================================
