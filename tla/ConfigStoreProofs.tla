--------------------------- MODULE ConfigStoreProofs ---------------------------
(***************************************************************************)
(* Proofs about ConfigStore for every set of requests, every content of    *)
(* the files and every change: its types and locks, that saves of one      *)
(* revision are serial, and that the store implements DurableConfig.  What *)
(* normalize computes is not opened: only that its result is content.      *)
(***************************************************************************)
EXTENDS ConfigStore, SequenceTheorems, TLAPS

Saving == {"backup", "copy", "write"}

-----------------------------------------------------------------------------
(***************************************************************************)
(* Contents and backups                                                    *)
(***************************************************************************)

\* What normalize returns is content, so neither no file nor a damaged one.
LEMMA NormalizedIsContent ==
  \A c : "version" \in DOMAIN Normalize(c)
  BY DEF Normalize, FillIn

\* Content is a file.
LEMMA ContentIsFile ==
  ASSUME NEW c, "version" \in DOMAIN c PROVE c \notin {NoConfig, Damaged}
  BY ContentAssumption

\* After a backup there are at most Keep of them.
LEMMA BackupsKept ==
  ASSUME NEW S, NEW s \in Seq(S), NEW e
  PROVE  LET kept == LastOf(Append(s, e), Keep) IN
         kept \in Seq({kept[i] : i \in DOMAIN kept}) /\ Len(kept) <= Keep
<1> DEFINE a    == Append(s, e)
           from == IF Len(a) > Keep THEN Len(a) - Keep + 1 ELSE 1
           kept == SubSeq(a, from, Len(a))
<1>1. a \in Seq(S \cup {e}) /\ Len(a) \in Nat
  BY AppendProperties
<1>2. Keep \in Nat \ {0}
  BY StoreAssumption
<1>3. from \in 1 .. Len(a) + 1 /\ from \in Int /\ Len(a) - from + 1 <= Keep
  BY <1>1, <1>2
<1>4. \A i \in from .. Len(a) : a[i] \in S \cup {e}
  BY <1>1, <1>3, ElementOfSeq
<1>5. kept \in Seq(S \cup {e}) /\ Len(kept) <= Keep
  BY <1>1, <1>2, <1>3, <1>4, SubSeqProperties
<1>6. \A i \in from .. Len(a) : a[i] \in {kept[j] : j \in DOMAIN kept}
  <2> SUFFICES ASSUME NEW i \in from .. Len(a)
               PROVE  \E j \in DOMAIN kept : a[i] = kept[j]
    OBVIOUS
  <2>1. i - from + 1 \in 1 .. Len(a) - from + 1 /\ from + (i - from + 1) - 1 = i
    BY <1>1, <1>3
  <2>2. DOMAIN kept = 1 .. Len(kept) /\ Len(kept) = Len(a) - from + 1
    BY <1>1, <1>3, <1>4, <1>5, SubSeqProperties
  <2>3. kept[i - from + 1] = a[i]
    <3>1. \A j \in 1 .. Len(a) - from + 1 : kept[j] = a[from + j - 1]
      <4> HIDE DEF a, from
      <4> QED BY <1>1, <1>3, <1>4, SubSeqProperties
    <3> HIDE DEF a, from, kept
    <3> QED BY <2>1, <3>1
  <2> QED BY <2>1, <2>2, <2>3
<1>7. kept \in Seq({kept[i] : i \in DOMAIN kept})
  <2> DEFINE T == {kept[i] : i \in DOMAIN kept}
  <2>1. \A i \in from .. Len(a) : a[i] \in T
    BY <1>6
  <2> HIDE DEF T
  <2>2. SubSeq(a, from, Len(a)) \in Seq(T)
    BY <1>1, <1>3, <2>1, SubSeqProperties
  <2> QED BY <2>2 DEF T
<1> QED BY <1>5, <1>7 DEF LastOf

-----------------------------------------------------------------------------
(***************************************************************************)
(* What each kind of step does to the threads                              *)
(***************************************************************************)

\* A thread with nothing to do.
LEMMA IdleThread == Idle.pc = "idle" /\ Idle.kind = ""
  BY DEF Idle

\* Only thread t moves.
Only(t) ==
  /\ DOMAIN th' = Threads /\ \A u \in Threads : DOMAIN th'[u] = DOMAIN Idle
  /\ \A u \in Threads \ {t} : th'[u] = th[u]

\* A record of the right shape in the place of one thread moves that thread only.
LEMMA ReplacedThread ==
  ASSUME ShapeInv, NEW t \in Threads, NEW r, DOMAIN r = DOMAIN Idle, th' = [th EXCEPT ![t] = r]
  PROVE  Only(t) /\ th'[t] = r
  BY DEF ShapeInv, Only

\* The fields that a step does not name stay.
LEMMA ChangedFields ==
  ASSUME NEW r, DOMAIN r = DOMAIN Idle, NEW p, NEW k, NEW n
  PROVE  /\ LET q == [r EXCEPT !.pc = p] IN
              /\ DOMAIN q = DOMAIN Idle /\ q.pc = p /\ q.kind = r.kind /\ q.next = r.next
              /\ q.base = r.base /\ q.forced = r.forced
         /\ LET q == [r EXCEPT !.next = n, !.pc = p] IN
              /\ DOMAIN q = DOMAIN Idle /\ q.pc = p /\ q.kind = r.kind /\ q.next = n
              /\ q.base = r.base /\ q.forced = r.forced
         /\ LET q == [[[r EXCEPT !.pc = p] EXCEPT !.kind = k] EXCEPT !.next = n] IN
              /\ DOMAIN q = DOMAIN Idle /\ q.pc = p /\ q.kind = k /\ q.next = n
              /\ q.base = r.base /\ q.forced = r.forced
  BY DEF Idle

\* Setting the program counter of a thread moves that thread only.
LEMMA GoesTo ==
  ASSUME ShapeInv, NEW t \in Threads, NEW p, th' = [th EXCEPT ![t].pc = p]
  PROVE  /\ Only(t) /\ th'[t].pc = p /\ th'[t].kind = th[t].kind /\ th'[t].next = th[t].next
         /\ th'[t].base = th[t].base /\ th'[t].forced = th[t].forced
<1> DEFINE r == [th[t] EXCEPT !.pc = p]
<1>1. th' = [th EXCEPT ![t] = r]
  OBVIOUS
<1>2. DOMAIN th[t] = DOMAIN Idle
  BY DEF ShapeInv
<1>3. /\ DOMAIN r = DOMAIN Idle /\ r.pc = p /\ r.kind = th[t].kind /\ r.next = th[t].next
      /\ r.base = th[t].base /\ r.forced = th[t].forced
  BY <1>2, ChangedFields
<1> HIDE DEF r
<1> QED BY <1>1, <1>3, ReplacedThread

\* A request that posts, decodes or compares changes nothing that others see; a save is
\* ready only with configMu, and only when forced or based on the current revision.
RequestStep(t) ==
  /\ Only(t) /\ UNCHANGED <<disk, cfg, mu, outside, lastBy>>
  /\ th[t].pc \in {"idle", "posted", "decoded"}
  /\ th'[t].pc \in {"idle", "posted", "decoded", "ready"}
  /\ th'[t].pc = "decoded" => th'[t].kind = "save"
  /\ th'[t].pc # "idle" => Up
  /\ \/ configMu' = configMu /\ (th'[t].pc = "ready" => th'[t].kind # "save")
     \/ /\ configMu = "free" /\ configMu' = t /\ th'[t].pc = "ready" /\ th'[t].kind = "save"
        /\ th'[t].forced \/ th'[t].base = Public(cfg)

LEMMA RequestMoves ==
  ASSUME ShapeInv, LockInv, NEW t \in Requests,
         \/ \E e \in Edits, forced \in BOOLEAN : Post(t, e, forced)
         \/ \E c \in Imports : Import(t, c)
         \/ Restore(t) \/ Decode(t) \/ Check(t)
  PROVE  RequestStep(t)
<1>0. t \in Threads /\ DOMAIN th[t] = DOMAIN Idle
  BY DEF Threads, ShapeInv
<1>1. ASSUME NEW r, DOMAIN r = DOMAIN Idle, r.pc = "posted", Up, IsAt(t, "idle"),
             th' = [th EXCEPT ![t] = r],
             UNCHANGED <<disk, cfg, mu, configMu, outside, lastBy>>
      PROVE  RequestStep(t)
  BY <1>0, <1>1, ReplacedThread DEF RequestStep, IsAt
<1>2. ASSUME NEW e \in Edits, NEW forced \in BOOLEAN, Post(t, e, forced) PROVE RequestStep(t)
  <2> DEFINE r == [Idle EXCEPT !.pc = "posted", !.kind = "save", !.base = Public(cfg),
                               !.next = Edited(Public(cfg), e), !.forced = forced]
  <2>1. DOMAIN r = DOMAIN Idle /\ r.pc = "posted"
    BY DEF Idle
  <2>2. /\ Up /\ IsAt(t, "idle") /\ th' = [th EXCEPT ![t] = r]
        /\ UNCHANGED <<disk, cfg, mu, configMu, outside, lastBy>>
    BY <1>2 DEF Post
  <2> HIDE DEF r
  <2> QED BY <2>1, <2>2, <1>1
<1>3. ASSUME NEW c, Up, IsAt(t, "idle"), NEW kind,
             th' = [th EXCEPT ![t] = [Idle EXCEPT !.pc = "posted", !.kind = kind, !.next = c]],
             UNCHANGED <<disk, cfg, mu, configMu, outside, lastBy>>
      PROVE  RequestStep(t)
  <2> DEFINE r == [Idle EXCEPT !.pc = "posted", !.kind = kind, !.next = c]
  <2>1. DOMAIN r = DOMAIN Idle /\ r.pc = "posted"
    BY DEF Idle
  <2>2. th' = [th EXCEPT ![t] = r]
    BY <1>3
  <2> HIDE DEF r
  <2> QED BY <1>3, <2>1, <2>2, <1>1
<1>4. CASE \E c \in Imports : Import(t, c)
  BY <1>4, <1>3 DEF Import
<1>5. CASE Restore(t)
  BY <1>5, <1>3 DEF Restore
<1>6. CASE Decode(t)
  <2> DEFINE next == [th[t].next EXCEPT !.hash = IF @ = 0 THEN cfg.hash ELSE @]
             r    == [th[t] EXCEPT !.next = next,
                                   !.pc = IF th[t].kind = "save" THEN "decoded" ELSE "ready"]
  <2>0. /\ IsAt(t, "posted") /\ UNCHANGED <<disk, cfg, mu, configMu, outside, lastBy>>
        /\ th' = [th EXCEPT ![t] = IF ~Valid(next) THEN Idle ELSE r]
    BY <1>6 DEF Decode
  <2>1. DOMAIN r = DOMAIN Idle /\ r.kind = th[t].kind
          /\ r.pc = IF th[t].kind = "save" THEN "decoded" ELSE "ready"
    BY <1>0, ChangedFields
  <2>2. Up
    BY <2>0 DEF LockInv, IsAt
  <2> HIDE DEF next, r
  <2>3. CASE Valid(next)
    <3>1. th' = [th EXCEPT ![t] = r]
      BY <2>0, <2>3
    <3>2. Only(t) /\ th'[t] = r
      BY <1>0, <2>1, <3>1, ReplacedThread
    <3> QED BY <2>0, <2>1, <2>2, <3>2 DEF RequestStep, IsAt
  <2>4. CASE ~Valid(next)
    <3>1. th' = [th EXCEPT ![t] = Idle]
      BY <2>0, <2>4
    <3>2. Only(t) /\ th'[t] = Idle
      BY <1>0, <3>1, ReplacedThread
    <3> QED BY <2>0, <3>2, IdleThread DEF RequestStep, IsAt
  <2> QED BY <2>3, <2>4
<1>7. CASE Check(t)
  <2>0. th[t].pc = "decoded" /\ th[t].kind = "save" /\ Up /\ configMu = "free"
    BY <1>7 DEF Check, LockInv, IsAt
  <2>1. CASE th[t].forced \/ th[t].base = Public(cfg)
    <3>1. th' = [th EXCEPT ![t].pc = "ready"] /\ configMu' = t
            /\ UNCHANGED <<disk, cfg, mu, outside, lastBy>>
      BY <1>7, <2>1 DEF Check
    <3>2. /\ Only(t) /\ th'[t].pc = "ready" /\ th'[t].kind = th[t].kind
          /\ th'[t].base = th[t].base /\ th'[t].forced = th[t].forced
      BY <1>0, <3>1, GoesTo
    <3> QED BY <2>0, <2>1, <3>1, <3>2 DEF RequestStep
  <2>2. CASE ~(th[t].forced \/ th[t].base = Public(cfg))
    <3>1. th' = [th EXCEPT ![t] = Idle] /\ configMu' = configMu
            /\ UNCHANGED <<disk, cfg, mu, outside, lastBy>>
      BY <1>7, <2>2 DEF Check
    <3>2. Only(t) /\ th'[t] = Idle
      BY <1>0, <3>1, ReplacedThread
    <3> QED BY <2>0, <3>1, <3>2, IdleThread DEF RequestStep
  <2> QED BY <2>1, <2>2
<1> QED BY <1>2, <1>4, <1>5, <1>6, <1>7

\* A thread that gives up, or has written, lets its locks go.
ReleaseStep(t) ==
  /\ Only(t) /\ th'[t] = Idle
  /\ mu' = "free" /\ configMu' = IF configMu = t THEN "free" ELSE configMu

LEMMA ReleaseMoves ==
  ASSUME ShapeInv, NEW t \in Threads, Release(t) PROVE ReleaseStep(t)
  BY ReplacedThread DEF Release, ReleaseStep

\* A save takes mu with normalised content, or is refused; Mutate and Repair are
\* threads that had nothing to do before.
BeginStep(t) ==
  /\ UNCHANGED <<disk, cfg, outside, lastBy>> /\ mu = "free" /\ Up
  /\ th[t].pc \in {"idle", "ready"}
  /\ \/ ReleaseStep(t)
     \/ /\ mu' = t /\ configMu' = configMu
        /\ Only(t) /\ th'[t].pc = "backup" /\ "version" \in DOMAIN th'[t].next
        /\ th'[t].base = th[t].base /\ th'[t].forced = th[t].forced
        /\ th'[t].kind = IF th[t].pc = "ready" THEN th[t].kind ELSE "mutate"

LEMMA BeginMoves ==
  ASSUME ShapeInv, LockInv, NEW t \in Requests,
         Replace(t) \/ RepairNow(t) \/ \E change \in Changes : Mutate(t, change)
  PROVE  BeginStep(t)
<1>0. t \in Threads /\ DOMAIN th[t] = DOMAIN Idle
  BY DEF Threads, ShapeInv
<1>1. ASSUME NEW kind, NEW next, "version" \in DOMAIN next, BeginSave(t, kind, next), Up,
             \/ th[t].pc = "ready" /\ kind = th[t].kind
             \/ th[t].pc = "idle" /\ kind = "mutate"
      PROVE  BeginStep(t)
  <2>1. UNCHANGED <<disk, cfg, outside, lastBy>> /\ mu = "free"
    BY <1>1 DEF BeginSave
  <2>2. CASE Valid(next)
    <3> DEFINE r == [[[th[t] EXCEPT !.pc = "backup"] EXCEPT !.kind = kind] EXCEPT !.next = next]
    <3>1. mu' = t /\ configMu' = configMu /\ th' = [th EXCEPT ![t] = r]
      BY <1>1, <2>2 DEF BeginSave
    <3>2. /\ DOMAIN r = DOMAIN Idle /\ r.pc = "backup" /\ r.kind = kind /\ r.next = next
          /\ r.base = th[t].base /\ r.forced = th[t].forced
      BY <1>0, ChangedFields
    <3> HIDE DEF r
    <3>3. Only(t) /\ th'[t] = r
      BY <1>0, <3>1, <3>2, ReplacedThread
    <3> QED BY <1>1, <2>1, <3>1, <3>2, <3>3 DEF BeginStep
  <2>3. CASE ~Valid(next)
    <3>1. ReleaseStep(t)
      BY <1>0, <1>1, <2>3, ReleaseMoves DEF BeginSave
    <3> QED BY <1>1, <2>1, <3>1 DEF BeginStep
  <2> QED BY <2>2, <2>3
<1>2. CASE Replace(t)
  <2>1. th[t].pc = "ready" /\ BeginSave(t, th[t].kind, Normalize(th[t].next))
    BY <1>2 DEF Replace, IsAt
  <2>2. Up
    BY <2>1 DEF LockInv, IsAt
  <2> QED BY <2>1, <2>2, <1>1, NormalizedIsContent
<1>3. CASE RepairNow(t)
  <2>1. Up /\ th[t].pc = "idle" /\ BeginSave(t, "mutate", Normalize(Repair(cfg)))
    BY <1>3 DEF RepairNow, IsAt
  <2> QED BY <2>1, <1>1, NormalizedIsContent
<1>4. CASE \E change \in Changes : Mutate(t, change)
  <2>1. PICK change \in Changes :
          Up /\ th[t].pc = "idle" /\ BeginSave(t, "mutate", Normalize(Changed(cfg, change)))
    BY <1>4 DEF Mutate, IsAt
  <2> QED BY <2>1, <1>1, NormalizedIsContent
<1> QED BY <1>2, <1>3, <1>4

\* Before the file is written it is kept among the backups and copied aside, unless its
\* content is the same.
PrepareStep(t) ==
  /\ Only(t) /\ UNCHANGED <<cfg, mu, configMu, outside, lastBy>>
  /\ th'[t].kind = th[t].kind /\ th'[t].next = th[t].next
  /\ th'[t].base = th[t].base /\ th'[t].forced = th[t].forced
  /\ \/ /\ th[t].pc = "backup" /\ th'[t].pc = "write"
        /\ disk' = disk /\ disk.main \in {NoConfig, th[t].next}
     \/ th[t].pc = "backup" /\ th'[t].pc = "copy" /\ disk' = BackedUp(disk)
     \/ th[t].pc = "copy" /\ th'[t].pc = "write" /\ disk' = CopiedAside(disk)

LEMMA PrepareMoves ==
  ASSUME ShapeInv, NEW t \in Threads, Backup(t) \/ CopyAside(t) PROVE PrepareStep(t)
<1>1. CASE Backup(t) /\ IsKept(disk, th[t].next)
  BY <1>1, GoesTo DEF Backup, IsKept, IsAt, PrepareStep
<1>2. CASE Backup(t) /\ ~IsKept(disk, th[t].next)
  BY <1>2, GoesTo DEF Backup, IsAt, PrepareStep
<1>3. CASE CopyAside(t)
  BY <1>3, GoesTo DEF CopyAside, IsAt, PrepareStep
<1> QED BY <1>1, <1>2, <1>3

\* A start takes mu with what it has read.
LoadStep ==
  /\ ~Up /\ th["boot"].pc = "idle" /\ CanLoad(disk)
  /\ disk' = Restored(disk) /\ mu' = "boot"
  /\ UNCHANGED <<cfg, configMu, outside, lastBy, bounds>>
  /\ Only("boot") /\ th'["boot"].pc = "backup" /\ "version" \in DOMAIN th'["boot"].next
  /\ th'["boot"].kind = "boot"

LEMMA LoadMoves ==
  ASSUME ShapeInv, Load PROVE LoadStep
<1> DEFINE n == Normalize(ReadFrom(disk))
           r == [Idle EXCEPT !.pc = "backup", !.kind = "boot", !.next = n]
<1>1. DOMAIN r = DOMAIN Idle /\ r.pc = "backup" /\ r.next = n /\ r.kind = "boot"
  BY DEF Idle
<1>2. "version" \in DOMAIN n
  BY NormalizedIsContent
<1>3. th' = [th EXCEPT !["boot"] = r]
  BY DEF Load
<1> HIDE DEF r, n
<1>4. Only("boot") /\ th'["boot"] = r
  BY <1>1, <1>3, ReplacedThread DEF Threads
<1> QED BY <1>1, <1>2, <1>4 DEF Load, LoadStep, IsAt

-----------------------------------------------------------------------------
(***************************************************************************)
(* What the steps of a save do to the files                                *)
(***************************************************************************)

FilesShape(d) ==
  /\ DOMAIN d = {"main", "bak", "backups"}
  /\ d.backups \in Seq({d.backups[i] : i \in DOMAIN d.backups}) /\ Len(d.backups) <= Keep

\* A backup changes only the list of backups.
LEMMA BackedUpFiles ==
  ASSUME NEW d, FilesShape(d)
  PROVE  FilesShape(BackedUp(d)) /\ BackedUp(d).main = d.main /\ BackedUp(d).bak = d.bak
<1> DEFINE kept == LastOf(Append(d.backups, d.main), Keep)
<1>1. kept \in Seq({kept[i] : i \in DOMAIN kept}) /\ Len(kept) <= Keep
  BY BackupsKept DEF FilesShape
<1>2. BackedUp(d) = [d EXCEPT !.backups = kept]
  BY DEF BackedUp
<1> HIDE DEF kept
<1> QED BY <1>1, <1>2 DEF FilesShape

\* The copy aside is the file.
LEMMA CopiedFiles ==
  ASSUME NEW d, FilesShape(d)
  PROVE  FilesShape(CopiedAside(d)) /\ CopiedAside(d).main = d.main /\ CopiedAside(d).bak = d.main
  BY DEF FilesShape, CopiedAside

\* A write changes only the file.
LEMMA WrittenFiles ==
  ASSUME NEW d, FilesShape(d), NEW c
  PROVE  FilesShape(Written(d, c)) /\ Written(d, c).main = c /\ Written(d, c).bak = d.bak
  BY DEF FilesShape, Written

\* A whole save leaves the file and, aside, what was there before or was kept before.
LEMMA SavedFiles ==
  ASSUME NEW d, FilesShape(d), NEW c
  PROVE  FilesShape(Saved(d, c)) /\ Saved(d, c).main = c /\ Saved(d, c).bak \in {d.bak, d.main}
<1>1. CASE IsKept(d, c)
  BY <1>1, WrittenFiles DEF Saved
<1>2. CASE ~IsKept(d, c)
  BY <1>2, WrittenFiles, CopiedFiles, BackedUpFiles DEF Saved
<1> QED BY <1>1, <1>2

\* Load puts the copy in the place of a damaged file only.
LEMMA RestoredFiles ==
  ASSUME NEW d, FilesShape(d)
  PROVE  /\ FilesShape(Restored(d)) /\ Restored(d).bak = d.bak
         /\ Restored(d).main = IF d.main = Damaged THEN d.bak ELSE d.main
  BY DEF FilesShape, Restored

-----------------------------------------------------------------------------
(***************************************************************************)
(* The steps of the specification                                          *)
(***************************************************************************)

\* The file and the configuration in memory change together.
WriteStep(t) ==
  /\ th[t].pc = "write" /\ ReleaseStep(t)
  /\ disk' = Written(disk, th[t].next) /\ cfg' = th[t].next
  /\ outside' = FALSE /\ lastBy' = th[t].kind

FailStep(t) ==
  /\ th[t].pc \in Saving /\ ReleaseStep(t)
  /\ UNCHANGED <<disk, cfg, outside, lastBy>>

CrashStep ==
  /\ \E file \in {disk.main, Damaged} : disk' = [disk EXCEPT !.main = file]
  /\ cfg' = NoConfig /\ mu' = "free" /\ configMu' = "free"
  /\ th' = [t \in Threads |-> Idle] /\ outside' = FALSE

\* Another process leaves content in the file.
CommandStep ==
  /\ FilesShape(disk') /\ "version" \in DOMAIN disk'.main
  /\ disk'.bak # Damaged /\ outside' = TRUE
  /\ UNCHANGED <<cfg, mu, configMu, th, lastBy>>

LEMMA CommandMoves ==
  ASSUME IInv, NEW change \in Changes, Command(change) PROVE CommandStep
<1> DEFINE loaded == Normalize(ReadFrom(disk))
           next   == Normalize(Changed(loaded, change))
           first  == Saved(Restored(disk), loaded)
<1>1. "version" \in DOMAIN loaded /\ "version" \in DOMAIN next
  BY NormalizedIsContent
<1>2. /\ disk' = Saved(first, next) /\ outside' = TRUE /\ CanLoad(disk)
      /\ UNCHANGED <<cfg, mu, configMu, th, lastBy>>
  BY DEF Command
<1>3. FilesShape(disk) /\ disk.bak # Damaged
  BY DEF IInv, ShapeInv, TypeOK, FilesShape, DiskInv
<1> HIDE DEF loaded, next
<1>4. FilesShape(first) /\ first.main = loaded /\ first.bak # Damaged
  BY <1>2, <1>3, RestoredFiles, SavedFiles DEF CanLoad
<1>5. loaded # Damaged
  BY <1>1, ContentIsFile
<1> HIDE DEF first
<1> QED BY <1>1, <1>2, <1>4, <1>5, SavedFiles DEF CommandStep

\* Every step is one of these.
LEMMA NextSteps ==
  ASSUME IInv, Next
  PROVE  \/ \E t \in Requests : RequestStep(t) \/ BeginStep(t)
         \/ \E t \in Threads : PrepareStep(t) \/ WriteStep(t) \/ FailStep(t)
         \/ LoadStep \/ CrashStep \/ CommandStep
<1> USE DEF IInv
<1>1. ASSUME NEW t \in Requests,
             \/ \E e \in Edits, forced \in BOOLEAN : Post(t, e, forced)
             \/ \E c \in Imports : Import(t, c)
             \/ Restore(t) \/ Decode(t) \/ Check(t)
      PROVE  RequestStep(t)
  BY <1>1, RequestMoves
<1>2. ASSUME NEW t \in Requests,
             Replace(t) \/ RepairNow(t) \/ \E change \in Changes : Mutate(t, change)
      PROVE  BeginStep(t)
  BY <1>2, BeginMoves
<1>3. ASSUME NEW t \in Threads, Backup(t) \/ CopyAside(t) PROVE PrepareStep(t)
  BY <1>3, PrepareMoves
<1>4. ASSUME NEW t \in Threads, Write(t) PROVE WriteStep(t)
  BY <1>4, ReleaseMoves DEF Write, WriteStep, IsAt
<1>5. ASSUME NEW t \in Threads, Fail(t) PROVE FailStep(t)
  BY <1>5, ReleaseMoves DEF Fail, FailStep, Saving
<1>6. CASE Load
  BY <1>6, LoadMoves
<1>7. CASE Crash
  BY <1>7 DEF Crash, CrashStep
<1>8. CASE \E change \in Changes : Command(change)
  BY <1>8, CommandMoves
<1> QED BY <1>1, <1>2, <1>3, <1>4, <1>5, <1>6, <1>7, <1>8 DEF Next

-----------------------------------------------------------------------------
(***************************************************************************)
(* The invariant                                                           *)
(***************************************************************************)

\* The invariant holds when the program is installed.
LEMMA InitEstablishes == Init => IInv
<1> SUFFICES ASSUME Init PROVE IInv
  OBVIOUS
<1>0. \A t \in Threads : th[t] = Idle
  BY DEF Init
<1>1. DOMAIN disk = {"main", "bak", "backups"} /\ disk.bak = NoConfig /\ disk.backups = <<>>
  BY DEF Init
<1>2. disk.backups \in Seq({disk.backups[i] : i \in DOMAIN disk.backups})
  BY <1>1, EmptySeq
<1>3. TypeOK
  <2>1. Len(disk.backups) <= Keep
    BY <1>1, StoreAssumption
  <2>2. \A t \in Threads : mu = t <=> th[t].pc \in {"backup", "copy", "write"}
    BY <1>0, IdleThread, StoreAssumption DEF Init, Threads
  <2>3. events \in 0 .. MaxEvents /\ crashes \in 0 .. MaxCrashes
    <3>1. MaxEvents \in Nat /\ MaxCrashes \in Nat
      BY StoreAssumption, Zenon
    <3>2. events = 0 /\ crashes = 0
      BY Zenon DEF Init
    <3> QED BY <3>1, <3>2
  <2>4. {outside, Up} \subseteq BOOLEAN
    BY DEF Init, Up
  <2> QED BY <2>1, <2>2, <2>3, <2>4 DEF TypeOK, Init
<1>4. ShapeInv
  BY <1>0, <1>1, <1>2 DEF Init, ShapeInv
<1>5. LockInv /\ SerialInv
  BY <1>0, IdleThread, StoreAssumption DEF Init, LockInv, SerialInv, IsAt, Threads
<1>6. DiskInv
  BY <1>0, <1>1, IdleThread, ContentAssumption DEF Init, DiskInv, Up, IsAt, Threads
<1>7. SaveInv
  BY <1>0, IdleThread DEF SaveInv, IsAt
<1> QED BY <1>3, <1>4, <1>5, <1>6, <1>7 DEF IInv

\* Threads and files keep their shape, whatever step is taken.
LEMMA ShapeKept ==
  ASSUME IInv, Next PROVE ShapeInv' /\ Len(disk'.backups) <= Keep
<1>0. FilesShape(disk) /\ ShapeInv
  BY DEF IInv, ShapeInv, TypeOK, FilesShape
<1> USE <1>0
<1>1. ASSUME FilesShape(disk'), DOMAIN th' = Threads, \A u \in Threads : DOMAIN th'[u] = DOMAIN Idle
      PROVE  ShapeInv' /\ Len(disk'.backups) <= Keep
  BY <1>1 DEF FilesShape, ShapeInv, Idle
<1>2. ASSUME NEW t, Only(t), FilesShape(disk') PROVE ShapeInv' /\ Len(disk'.backups) <= Keep
  BY <1>1, <1>2 DEF Only
<1>3. ASSUME NEW t \in Requests, RequestStep(t) PROVE ShapeInv' /\ Len(disk'.backups) <= Keep
  BY <1>2, <1>3 DEF RequestStep
<1>4. ASSUME NEW t \in Requests, BeginStep(t) PROVE ShapeInv' /\ Len(disk'.backups) <= Keep
  BY <1>2, <1>4 DEF BeginStep, ReleaseStep
<1>5. ASSUME NEW t \in Threads, PrepareStep(t) PROVE ShapeInv' /\ Len(disk'.backups) <= Keep
  BY <1>2, <1>5, BackedUpFiles, CopiedFiles DEF PrepareStep
<1>6. ASSUME NEW t \in Threads, WriteStep(t) PROVE ShapeInv' /\ Len(disk'.backups) <= Keep
  BY <1>2, <1>6, WrittenFiles DEF WriteStep, ReleaseStep
<1>7. ASSUME NEW t \in Threads, FailStep(t) PROVE ShapeInv' /\ Len(disk'.backups) <= Keep
  BY <1>2, <1>7 DEF FailStep, ReleaseStep
<1>8. CASE LoadStep
  BY <1>2, <1>8, RestoredFiles DEF LoadStep
<1>9. CASE CrashStep
  <2>1. FilesShape(disk')
    BY <1>9 DEF CrashStep, FilesShape
  <2> QED BY <1>1, <1>9, <2>1 DEF CrashStep
<1>10. CASE CommandStep
  BY <1>1, <1>10 DEF CommandStep, ShapeInv
<1> QED BY <1>3, <1>4, <1>5, <1>6, <1>7, <1>8, <1>9, <1>10, NextSteps

\* mu is with the thread that saves, and configMu with a save of the Admin UI.
LEMMA LocksKept ==
  ASSUME IInv, Next
  PROVE  /\ mu' \in Threads \cup {"free"} /\ configMu' \in Requests \cup {"free"}
         /\ \A t \in Threads : mu' = t <=> th'[t].pc \in {"backup", "copy", "write"}
         /\ configMu' # "free" => th'[configMu'].kind = "save"
         /\ LockInv'
<1> DEFINE Goal == /\ mu' \in Threads \cup {"free"} /\ configMu' \in Requests \cup {"free"}
                   /\ \A t \in Threads : mu' = t <=> th'[t].pc \in {"backup", "copy", "write"}
                   /\ LockInv'
<1>0. /\ mu \in Threads \cup {"free"} /\ configMu \in Requests \cup {"free"}
      /\ \A t \in Threads : mu = t <=> th[t].pc \in {"backup", "copy", "write"}
      /\ LockInv /\ Requests \subseteq Threads /\ "boot" \in Threads
      /\ "free" \notin Threads /\ "boot" \notin Requests
  BY StoreAssumption DEF IInv, TypeOK, Threads
<1> USE <1>0 DEF LockInv, IsAt
<1>2. ASSUME NEW t \in Threads, ReleaseStep(t), mu \in {t, "free"}, Up' \/ cfg' = cfg PROVE Goal
  <2>1. th'[t].pc = "idle" /\ th'[t].kind = ""
          /\ \A u \in Threads \ {t} : th'[u] = th[u]
    BY <1>2, IdleThread DEF ReleaseStep, Only
  <2>2. \A u \in Threads \ {t} : th[u].pc \notin {"backup", "copy", "write"}
    BY <1>2
  <2>3. \A u \in Threads : th'[u].pc \notin {"backup", "copy", "write"} /\ mu' # u
    BY <1>2, <2>1, <2>2 DEF ReleaseStep
  <2>4. configMu' \in Requests \cup {"free"} /\ configMu' # t
          /\ \A u \in Requests \ {t} : configMu' = u <=> configMu = u
    BY <1>2 DEF ReleaseStep
  <2>5. \A u \in Requests : ~Up' => th'[u].pc = "idle"
    BY <1>2, <2>1 DEF Up
  <2>6. th'["boot"].kind # "save"
    BY <2>1
  <2>8. ASSUME NEW u \in Requests
        PROVE  /\ configMu' = u => th'[u].pc \in {"ready", "backup", "copy", "write"}
                                   /\ th'[u].kind = "save"
               /\ th'[u].pc = "decoded" => th'[u].kind = "save"
               /\ th'[u].kind = "save" /\ th'[u].pc \in {"ready", "backup", "copy", "write"}
                  => configMu' = u
               /\ ~Up' => th'[u].pc = "idle"
    <3>1. CASE u = t
      BY <2>1, <2>4, <3>1
    <3>2. CASE u # t
      <4>1. th'[u] = th[u] /\ (configMu' = u <=> configMu = u)
        BY <2>1, <2>4, <3>2
      <4> QED BY <2>5, <4>1
    <3> QED BY <3>1, <3>2
  <2>9. LockInv'
    BY <2>6, <2>8
  <2>7. mu' \in Threads \cup {"free"}
    BY <1>2 DEF ReleaseStep
  <2> QED BY <2>3, <2>4, <2>7, <2>9
<1>3. ASSUME NEW t \in Requests, RequestStep(t) PROVE Goal
  BY <1>3 DEF RequestStep, Only, Up
<1>4. ASSUME NEW t \in Requests, BeginStep(t) PROVE Goal
  <2>1. CASE ReleaseStep(t)
    BY <1>2, <1>4, <2>1 DEF BeginStep
  <2>2. CASE ~ReleaseStep(t)
    <3>1. mu = "free" /\ mu' = t /\ th'[t].pc = "backup" /\ Up'
            /\ \A u \in Threads \ {t} : th'[u] = th[u]
      BY <1>4, <2>2 DEF BeginStep, Only, Up
    <3>2. configMu' = configMu /\ th[t].pc \in {"idle", "ready"}
            /\ th'[t].kind = IF th[t].pc = "ready" THEN th[t].kind ELSE "mutate"
      BY <1>4, <2>2 DEF BeginStep
    <3>3. \A u \in Threads : mu' = u <=> th'[u].pc \in {"backup", "copy", "write"}
      BY <3>1
    <3>4. LockInv'
      BY <3>1, <3>2
    <3> QED BY <3>1, <3>2, <3>3, <3>4
  <2> QED BY <2>1, <2>2
<1>5. ASSUME NEW t \in Threads, PrepareStep(t) PROVE Goal
  BY <1>5 DEF PrepareStep, Only, Up
<1>6. ASSUME NEW t \in Threads, WriteStep(t) PROVE Goal
  <2>1. cfg' # NoConfig
    BY <1>6, ContentIsFile DEF WriteStep, IInv, SaveInv
  <2> QED BY <1>2, <1>6, <2>1 DEF WriteStep, Up
<1>7. ASSUME NEW t \in Threads, FailStep(t) PROVE Goal
  BY <1>2, <1>7 DEF FailStep, Saving
<1>8. CASE LoadStep
  <2>1. mu = "free"
    BY <1>8 DEF LoadStep, Threads
  <2> QED BY <1>8, <2>1 DEF LoadStep, Only, Up, Threads
<1>9. CASE CrashStep
  BY <1>9, IdleThread DEF CrashStep, Up
<1>10. CASE CommandStep
  BY <1>10 DEF CommandStep, Up
<1>11. Goal
  BY <1>3, <1>4, <1>5, <1>6, <1>7, <1>8, <1>9, <1>10, NextSteps
<1> QED BY <1>11

\* Nobody saves over a damaged file.
LEMMA SavesOverWholeFile ==
  ASSUME IInv, NEW t \in Threads, th[t].pc \in Saving PROVE disk.main # Damaged
  BY DEF IInv, DiskInv, LockInv, IsAt, Saving, Threads

\* Only the file itself is ever damaged, while the program is down.
LEMMA DiskKept ==
  ASSUME IInv, Next PROVE DiskInv'
<1>0. FilesShape(disk) /\ DiskInv /\ "boot" \in Threads /\ "boot" \notin Requests
  BY StoreAssumption DEF IInv, ShapeInv, TypeOK, FilesShape, Threads
<1> USE <1>0 DEF DiskInv, IsAt
<1>1. ASSUME NEW t \in Requests, RequestStep(t) PROVE DiskInv'
  BY <1>1 DEF RequestStep, Only, Up
<1>2. ASSUME NEW t \in Requests, BeginStep(t) PROVE DiskInv'
  BY <1>2 DEF BeginStep, ReleaseStep, Only, Up
<1>3. ASSUME NEW t \in Threads, PrepareStep(t) PROVE DiskInv'
  <2>1. disk.main # Damaged
    BY <1>3, SavesOverWholeFile DEF PrepareStep, Saving
  <2> QED BY <1>3, <2>1, BackedUpFiles, CopiedFiles DEF PrepareStep
<1>4. ASSUME NEW t \in Threads, WriteStep(t) PROVE DiskInv'
  <2>1. th[t].next \notin {NoConfig, Damaged}
    BY <1>4, ContentIsFile DEF WriteStep, IInv, SaveInv
  <2> QED BY <1>4, <2>1, WrittenFiles DEF WriteStep
<1>5. ASSUME NEW t \in Threads, FailStep(t) PROVE DiskInv'
  <2>1. disk.main # Damaged
    BY <1>5, SavesOverWholeFile DEF FailStep
  <2> QED BY <1>5, <2>1 DEF FailStep
<1>6. CASE LoadStep
  <2>1. disk'.main # Damaged /\ disk'.bak = disk.bak
          /\ (disk'.main = NoConfig => disk.main = NoConfig)
    BY <1>6, RestoredFiles DEF LoadStep, CanLoad
  <2> QED BY <2>1
<1>7. CASE CrashStep
  <2>1. disk'.bak = disk.bak /\ disk'.main \in {disk.main, Damaged}
    BY <1>7 DEF CrashStep, FilesShape
  <2>2. cfg' = NoConfig /\ th'["boot"].pc = "idle"
    BY <1>7, IdleThread DEF CrashStep
  <2> QED BY <2>1, <2>2, ContentAssumption DEF Up
<1>8. CASE CommandStep
  <2>1. disk'.main \notin {NoConfig, Damaged} /\ disk'.bak # Damaged
    BY <1>8, ContentIsFile DEF CommandStep
  <2> QED BY <2>1
<1> QED BY <1>1, <1>2, <1>3, <1>4, <1>5, <1>6, <1>7, <1>8, NextSteps

\* What a thread is about to save is content, and the file it replaces was copied.
LEMMA SaveKept ==
  ASSUME IInv, Next PROVE SaveInv'
<1>0. /\ FilesShape(disk) /\ DiskInv /\ SaveInv /\ Requests \subseteq Threads
      /\ \A t \in Threads : mu = t <=> th[t].pc \in {"backup", "copy", "write"}
  BY DEF IInv, ShapeInv, TypeOK, FilesShape, Threads
<1> USE <1>0 DEF SaveInv, IsAt
<1>1. ASSUME NEW t \in Requests, RequestStep(t) PROVE SaveInv'
  BY <1>1 DEF RequestStep, Only
<1>2. ASSUME NEW t \in Requests, BeginStep(t) PROVE SaveInv'
  <2>1. UNCHANGED <<disk, outside>> /\ \A u \in Threads \ {t} : th'[u] = th[u]
    BY <1>2 DEF BeginStep, ReleaseStep, Only
  <2>2. \/ th'[t].pc = "idle"
        \/ th'[t].pc = "backup" /\ "version" \in DOMAIN th'[t].next
    BY <1>2, IdleThread DEF BeginStep, ReleaseStep
  <2> QED BY <2>1, <2>2
<1>3. ASSUME NEW t \in Threads, PrepareStep(t) PROVE SaveInv'
  <2>1. \A u \in Threads \ {t} : th'[u] = th[u] /\ th[u].pc \notin {"backup", "copy", "write"}
    BY <1>3 DEF PrepareStep, Only
  <2>2. th'[t].next = th[t].next /\ "version" \in DOMAIN th[t].next /\ outside' = outside
    BY <1>3 DEF PrepareStep
  <2>3. th'[t].pc = "write" => disk'.main \in {disk'.bak, th'[t].next}
    BY <1>3, CopiedFiles DEF PrepareStep, DiskInv
  <2> QED BY <2>1, <2>2, <2>3
<1>4. ASSUME NEW t \in Threads, ReleaseStep(t), th[t].pc \in Saving PROVE SaveInv'
  <2>1. \A u \in Threads : th'[u].pc \notin {"backup", "copy", "write"}
    BY <1>4, IdleThread DEF ReleaseStep, Only, Saving
  <2> QED BY <2>1
<1>5. ASSUME NEW t \in Threads, WriteStep(t) \/ FailStep(t) PROVE SaveInv'
  BY <1>4, <1>5 DEF WriteStep, FailStep, Saving
<1>6. CASE LoadStep
  <2>1. \A u \in Threads \ {"boot"} : th'[u] = th[u] /\ th[u].pc = "idle"
    BY <1>6 DEF LoadStep, Only, IInv, LockInv, Threads
  <2> QED BY <1>6, <2>1 DEF LoadStep
<1>7. CASE CrashStep
  BY <1>7, IdleThread DEF CrashStep
<1>8. CASE CommandStep
  BY <1>8 DEF CommandStep
<1> QED BY <1>1, <1>2, <1>3, <1>5, <1>6, <1>7, <1>8, NextSteps

\* While a save of the Admin UI holds configMu, no other one replaces its revision.
LEMMA SerialKept ==
  ASSUME IInv, Next PROVE SerialInv'
<1>0. /\ SerialInv /\ LockInv /\ Requests \subseteq Threads
      /\ "boot" \notin Requests /\ "free" \notin Requests
  BY StoreAssumption DEF IInv, Threads
<1> USE <1>0 DEF SerialInv, IsAt
<1>1. ASSUME NEW t \in Requests, RequestStep(t) PROVE SerialInv'
  BY <1>1 DEF RequestStep, Only, LockInv
<1>2. ASSUME NEW t \in Threads, ReleaseStep(t), UNCHANGED <<cfg, lastBy>> PROVE SerialInv'
  BY <1>2 DEF ReleaseStep, Only
<1>3. ASSUME NEW t \in Requests, BeginStep(t) PROVE SerialInv'
  <2>1. CASE ReleaseStep(t)
    BY <1>2, <1>3, <2>1 DEF BeginStep
  <2>2. CASE ~ReleaseStep(t)
    BY <1>3, <2>2 DEF BeginStep, Only
  <2> QED BY <2>1, <2>2
<1>4. ASSUME NEW t \in Threads, PrepareStep(t) PROVE SerialInv'
  BY <1>4 DEF PrepareStep, Only
<1>5. ASSUME NEW t \in Threads, WriteStep(t) PROVE SerialInv'
  <2> SUFFICES ASSUME NEW u \in Requests, configMu' = u PROVE lastBy' # "save"
    OBVIOUS
  <2>1. configMu = u /\ u # t
    BY <1>5 DEF WriteStep, ReleaseStep
  <2>2. th[t].kind # "save"
    BY <1>5, <2>1 DEF WriteStep, LockInv, Threads
  <2> QED BY <1>5, <2>2 DEF WriteStep
<1>6. ASSUME NEW t \in Threads, FailStep(t) PROVE SerialInv'
  BY <1>2, <1>6 DEF FailStep
<1>7. CASE LoadStep
  BY <1>7 DEF LoadStep, Only
<1>8. CASE CrashStep
  BY <1>8 DEF CrashStep
<1>9. CASE CommandStep
  BY <1>9 DEF CommandStep
<1> QED BY <1>1, <1>3, <1>4, <1>5, <1>6, <1>7, <1>8, <1>9, NextSteps

\* The bounds of the model hold.
LEMMA BoundsKept ==
  ASSUME IInv, Next PROVE events' \in 0 .. MaxEvents /\ crashes' \in 0 .. MaxCrashes
<1>0. /\ MaxEvents \in Nat /\ MaxCrashes \in Nat
      /\ events \in 0 .. MaxEvents /\ crashes \in 0 .. MaxCrashes
  BY StoreAssumption, Zenon DEF IInv, TypeOK
<1>1. ASSUME UNCHANGED bounds
      PROVE  events' \in 0 .. MaxEvents /\ crashes' \in 0 .. MaxCrashes
  BY <1>0, <1>1 DEF bounds
<1>2. ASSUME Event PROVE events' \in 0 .. MaxEvents /\ crashes' \in 0 .. MaxCrashes
  BY <1>0, <1>2 DEF Event
<1>3. CASE Crash
  <2>1. crashes < MaxCrashes /\ crashes' = crashes + 1 /\ events' = events
    BY <1>3, Zenon DEF Crash
  <2> QED BY <1>0, <2>1
<1>4. CASE ~Crash
  <2>1. UNCHANGED bounds \/ Event
    BY <1>4 DEF Next, Post, Import, Restore, Decode, Check, Replace, Mutate, RepairNow,
                Backup, CopyAside, Write, Fail, Load, Command
  <2> QED BY <2>1, <1>1, <1>2
<1> QED BY <1>3, <1>4

\* Every step keeps the invariant.
LEMMA StepKeeps == IInv /\ [Next]_vars => IInv'
<1> SUFFICES ASSUME IInv, [Next]_vars PROVE IInv'
  OBVIOUS
<1>1. CASE Next
  <2>1. outside' \in BOOLEAN
    BY <1>1, NextSteps, Zenon DEF RequestStep, BeginStep, PrepareStep, WriteStep, FailStep,
       LoadStep, CrashStep, CommandStep, IInv, TypeOK
  <2>2. {outside', Up'} \subseteq BOOLEAN
    BY <2>1 DEF Up
  <2>3. TypeOK'
    BY <1>1, <2>2, ShapeKept, LocksKept, BoundsKept DEF TypeOK
  <2>4. LockInv'
    BY <1>1, LocksKept
  <2> QED BY <1>1, <2>3, <2>4, ShapeKept, DiskKept, SaveKept, SerialKept DEF IInv
<1>2. CASE UNCHANGED vars
  BY <1>2 DEF vars, IInv, TypeOK, ShapeInv, LockInv, DiskInv, SaveInv, SerialInv, Up, IsAt
<1> QED BY <1>1, <1>2

\* The invariant holds in every reachable state.
THEOREM Invariance == Spec => []IInv
  BY InitEstablishes, StepKeeps, PTL DEF Spec

-----------------------------------------------------------------------------
(***************************************************************************)
(* What follows from it                                                    *)
(***************************************************************************)

\* Locks are with those who use them, and never more than Keep backups are kept.
THEOREM StoreTypes == Spec => []TypeOK
<1>1. IInv => TypeOK
  BY DEF IInv
<1> QED BY <1>1, Invariance, PTL

\* Of two saves of the Admin UI that were based on one revision the second is refused,
\* whatever the requests, changes and crashes around them (postConfig, configMu).
THEOREM SerialSaves == Spec => SavesAreSerial
<1>1. IInv /\ [Next]_vars =>
        [\A t \in Requests :
           /\ IsAt(t, "write") /\ th[t].kind = "save" /\ ~th[t].forced /\ cfg' # cfg /\ Up'
           => th[t].base = Public(cfg) \/ lastBy # "save"]_vars
  <2> SUFFICES ASSUME IInv, Next, NEW t \in Requests,
                      th[t].pc = "write", th[t].kind = "save", ~th[t].forced
               PROVE  th[t].base = Public(cfg) \/ lastBy # "save"
    BY DEF IsAt
  <2> QED BY DEF IInv, LockInv, SerialInv
<1> QED BY <1>1, Invariance, PTL DEF Spec, SavesAreSerial

\* A program that is installed is a store in which nothing was saved or kept.
LEMMA InitMaps == Init => Store!Init
  BY DEF Init, Store!Init

\* Each step of the threads, the files and the commands is a step of the store or
\* leaves what it promises alone.
LEMMA StepMaps == IInv /\ [Next]_vars => [Store!Next]_Store!vars
<1> SUFFICES ASSUME IInv, [Next]_vars PROVE Store!Next \/ UNCHANGED Store!vars
  OBVIOUS
<1> DEFINE saved == IF disk.main = Damaged THEN disk.bak ELSE disk.main
<1>0. FilesShape(disk) /\ DiskInv /\ DiskInv'
  <2>1. DiskInv'
    BY StepKeeps DEF IInv
  <2> QED BY <2>1 DEF IInv, ShapeInv, TypeOK, FilesShape
<1>1. ASSUME UNCHANGED <<disk, cfg, outside>> PROVE UNCHANGED Store!vars
  BY <1>1 DEF Store!vars
<1>2. ASSUME NEW t \in Requests, RequestStep(t) \/ BeginStep(t) PROVE UNCHANGED Store!vars
  BY <1>1, <1>2 DEF RequestStep, BeginStep
<1>3. ASSUME NEW t \in Threads, PrepareStep(t) PROVE Store!Next \/ UNCHANGED Store!vars
  <2>1. disk.main # Damaged
    BY <1>3, SavesOverWholeFile DEF PrepareStep, Saving
  <2>2. CASE disk' = disk
    BY <1>1, <1>3, <2>2 DEF PrepareStep
  <2>3. CASE disk' = BackedUp(disk)
    BY <1>0, <1>3, <2>3, BackedUpFiles DEF PrepareStep, Store!vars
  <2>4. CASE disk' = CopiedAside(disk)
    <3>1. disk'.main = disk.main /\ disk'.bak = disk.main /\ UNCHANGED <<cfg, outside>>
      BY <1>0, <1>3, <2>4, CopiedFiles DEF PrepareStep
    <3>2. Store!KeepPrevious
      BY <2>1, <3>1 DEF Store!KeepPrevious
    <3> QED BY <3>2 DEF Store!Next
  <2> QED BY <1>3, <2>2, <2>3, <2>4 DEF PrepareStep
<1>4. ASSUME NEW t \in Threads, WriteStep(t) PROVE Store!Next
  <2>1. disk.main # Damaged
    BY <1>4, SavesOverWholeFile DEF WriteStep, Saving
  <2>2. th[t].next \notin {NoConfig, Damaged}
    BY <1>4, ContentIsFile DEF WriteStep, IInv, SaveInv
  <2>3. disk'.main = th[t].next /\ disk'.bak = disk.bak /\ cfg' = th[t].next /\ outside' = FALSE
    BY <1>0, <1>4, WrittenFiles DEF WriteStep
  <2>4. outside \/ disk.main \in {disk.bak, th[t].next}
    BY <1>4 DEF WriteStep, IInv, SaveInv, IsAt
  <2>5. Store!Commit
    BY <2>1, <2>2, <2>3, <2>4 DEF Store!Commit
  <2> QED BY <2>5 DEF Store!Next
<1>5. ASSUME NEW t \in Threads, FailStep(t) PROVE UNCHANGED Store!vars
  BY <1>1, <1>5 DEF FailStep
<1>6. CASE LoadStep
  BY <1>0, <1>6, RestoredFiles DEF LoadStep, CanLoad, Store!vars
<1>7. CASE CrashStep
  <2>1. disk'.bak = disk.bak /\ disk'.main \in {disk.main, Damaged}
    BY <1>0, <1>7 DEF CrashStep, FilesShape
  <2>2. cfg' = NoConfig /\ outside' = FALSE
    BY <1>7 DEF CrashStep
  <2>3. Store!Stop
    BY <2>1, <2>2 DEF Store!Stop
  <2> QED BY <2>3 DEF Store!Next
<1>8. CASE CommandStep
  <2>1. disk'.main \notin {NoConfig, Damaged} /\ outside' = TRUE /\ cfg' = cfg
    BY <1>8, ContentIsFile DEF CommandStep
  <2>2. Store!Elsewhere
    BY <2>1 DEF Store!Elsewhere
  <2> QED BY <2>2 DEF Store!Next
<1>9. CASE UNCHANGED vars
  BY <1>1, <1>9 DEF vars
<1> QED BY <1>2, <1>3, <1>4, <1>5, <1>6, <1>7, <1>8, <1>9, NextSteps

\* Whatever requests, failures, crashes and commands do, and in whatever order, the
\* files and the running program are a store that saves all or nothing (atomicWriteFile,
\* backupIfChanged, Mutate, Replace, Load).
THEOREM StoreImplements == Spec => SavesAllOrNothing
  BY InitMaps, StepMaps, Invariance, PTL DEF Spec, SavesAllOrNothing, Store!Spec

=============================================================================
