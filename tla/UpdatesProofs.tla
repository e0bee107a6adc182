----------------------------- MODULE UpdatesProofs -----------------------------
(***************************************************************************)
(* Proofs about Updates for every set of requests, every list of releases  *)
(* with a highest one in each channel, and every length of the history:    *)
(* one installation at a time, and a history that is true.                 *)
(***************************************************************************)
EXTENDS Updates, SequenceTheorems, FiniteSetTheorems, WellFoundedInduction, TLAPS

WorkPCs == {"check", "checking", "release", "download", "install", "apt", "restart"}
LookPCs == {"checking", "looking"}
HavePCs == {"download", "install", "apt", "restart"}

-----------------------------------------------------------------------------
(***************************************************************************)
(* Threads                                                                 *)
(***************************************************************************)

\* A thread with nothing to do.
LEMMA IdleThread == Idle \in Thread /\ Idle.pc = "idle"
  BY DEF Idle, Thread, MaybeVersion

\* One thread moves, and what that does to the locks: it goes on with what it did, or
\* gives the lock of the installation back, or takes it when it is free.
MoveStep(t) ==
  \E r \in Thread :
    /\ th' = [th EXCEPT ![t] = r]
    /\ r.pc \in HavePCs => r.target \in AllVersions
    /\ \/ installing' = installing /\ (r.pc \in WorkPCs => Working(t))
       \/ Working(t) /\ r.pc \notin WorkPCs
       \/ ~installing /\ installing' = TRUE /\ history' # <<>>
    /\ r.pc \in LookPCs <=> checkMu' = t
    /\ checkMu' = checkMu \/ {checkMu, checkMu'} = {t, "free"}

\* With one thread that moves, nobody works without the lock and only one with it.
LEMMA OneMoves ==
  ASSUME IInv, NEW t \in Threads, MoveStep(t)
  PROVE  /\ th' \in [Threads -> Thread]
         /\ (\A u \in Threads : Working(u) => installing)' /\ OneWorking'
         /\ \A u \in Threads : checkMu' = u <=> th'[u].pc \in LookPCs
         /\ \A u \in Threads : th'[u].pc \in HavePCs => th'[u].target \in AllVersions
<1>0. /\ th \in [Threads -> Thread] /\ OneWorking
      /\ \A u \in Threads : Working(u) => installing
      /\ \A u \in Threads : checkMu = u <=> th[u].pc \in LookPCs
      /\ \A u \in Threads : th[u].pc \in HavePCs => th[u].target \in AllVersions
  BY DEF IInv, ShapeInv, TypeOK, LookPCs, HavePCs, TargetInv
<1>1. PICK r \in Thread :
        /\ th' = [th EXCEPT ![t] = r]
        /\ r.pc \in HavePCs => r.target \in AllVersions
        /\ \/ installing' = installing /\ (r.pc \in WorkPCs => Working(t))
           \/ Working(t) /\ r.pc \notin WorkPCs
           \/ ~installing /\ installing' = TRUE
        /\ r.pc \in LookPCs <=> checkMu' = t
        /\ checkMu' = checkMu \/ {checkMu, checkMu'} = {t, "free"}
  BY DEF MoveStep
<1>2. th' \in [Threads -> Thread] /\ th'[t] = r /\ \A u \in Threads \ {t} : th'[u] = th[u]
  BY <1>0, <1>1
<1>3. \A u \in Threads : Working(u)' <=> th'[u].pc \in WorkPCs
  BY DEF Working, WorkPCs
<1>4. \A u \in Threads \ {t} : Working(u)' <=> Working(u)
  BY <1>2, <1>3 DEF Working, WorkPCs
<1>5. (\A u \in Threads : Working(u) => installing)' /\ OneWorking'
  <2>1. CASE installing' = installing /\ (r.pc \in WorkPCs => Working(t))
    BY <1>0, <1>2, <1>3, <1>4, <2>1 DEF OneWorking
  <2>2. CASE Working(t) /\ r.pc \notin WorkPCs
    <3>1. \A u \in Threads : ~Working(u)'
      BY <1>0, <1>2, <1>3, <1>4, <2>2 DEF OneWorking
    <3> QED BY <3>1 DEF OneWorking
  <2>3. CASE ~installing /\ installing' = TRUE
    <3>1. \A u \in Threads \ {t} : ~Working(u)'
      BY <1>0, <1>4, <2>3
    <3> QED BY <2>3, <3>1 DEF OneWorking
  <2> QED BY <1>1, <2>1, <2>2, <2>3
<1>6. \A u \in Threads : checkMu' = u <=> th'[u].pc \in LookPCs
  <2>1. "free" \notin Threads
    BY UpdatesAssumption DEF Threads
  <2>2. ASSUME NEW u \in Threads \ {t} PROVE checkMu' = u <=> checkMu = u
    BY <1>1, <2>1
  <2> QED BY <1>0, <1>1, <1>2, <2>2
<1>7. \A u \in Threads : th'[u].pc \in HavePCs => th'[u].target \in AllVersions
  BY <1>0, <1>1, <1>2
<1> QED BY <1>2, <1>5, <1>6, <1>7

-----------------------------------------------------------------------------
(***************************************************************************)
(* The history                                                             *)
(***************************************************************************)

\* A history with one entry more is no longer than its limit, and not empty.
LEMMA LastOfKept ==
  ASSUME NEW S, NEW s \in Seq(S), NEW e \in S
  PROVE  LET kept == LastOf(Append(s, e), HistoryCap)
         IN kept \in Seq(S) /\ Len(kept) <= HistoryCap /\ kept # <<>>
<1> DEFINE a    == Append(s, e)
           from == IF Len(a) > HistoryCap THEN Len(a) - HistoryCap + 1 ELSE 1
           kept == SubSeq(a, from, Len(a))
<1>1. a \in Seq(S) /\ Len(a) = Len(s) + 1 /\ Len(s) \in Nat
  BY AppendProperties
<1>2. HistoryCap \in Nat \ {0}
  BY UpdatesAssumption
<1>3. from \in 1 .. Len(a) /\ from \in Int /\ Len(a) - from + 1 <= HistoryCap
  BY <1>1, <1>2
<1>4. \A i \in from .. Len(a) : a[i] \in S
  BY <1>1, <1>3, ElementOfSeq
<1>5. kept \in Seq(S) /\ Len(kept) <= HistoryCap /\ Len(kept) = Len(a) - from + 1
  BY <1>1, <1>2, <1>3, <1>4, SubSeqProperties
<1>6. kept # <<>>
  <2>1. Len(kept) # 0
    BY <1>1, <1>3, <1>5
  <2> QED BY <2>1, EmptySeq
<1> QED BY <1>5, <1>6 DEF LastOf

\* Entries that are changed one by one stay as many.
LEMMA EntriesChanged ==
  ASSUME NEW S, NEW T, NEW s \in Seq(S), NEW f \in [DOMAIN s -> T]
  PROVE  f \in Seq(T) /\ Len(f) = Len(s) /\ (f = <<>> <=> s = <<>>)
<1>1. Len(s) \in Nat /\ DOMAIN s = 1 .. Len(s)
  BY LenProperties
<1>2. f \in Seq(T) /\ Len(f) = Len(s)
  BY <1>1
<1> QED BY <1>1, <1>2, EmptySeq

\* updateHistory keeps the history true when it calls nothing installed that has not run.
LEMMA NotedKept ==
  ASSUME IInv, NEW id, NEW target \in MaybeVersion,
         NEW state \in {"running", "restarting", "installed", "failed"},
         state = "installed" => target \in ran
  PROVE  LET noted == Noted(id, target, state)
         IN noted \in Seq(TrueEntry) /\ Len(noted) = Len(history) /\ (noted = <<>> <=> history = <<>>)
<1>1. history \in Seq(TrueEntry)
  BY DEF IInv, HistoryInv
<1>2. ASSUME NEW i \in DOMAIN history PROVE Noted(id, target, state)[i] \in TrueEntry
  <2>1. history[i] \in TrueEntry
    BY <1>1
  <2>2. [history[i] EXCEPT !.target = target, !.status = state] \in TrueEntry
    BY <2>1 DEF TrueEntry
  <2> QED BY <2>1, <2>2 DEF Noted
<1>3. Noted(id, target, state) \in [DOMAIN history -> TrueEntry]
  BY <1>2 DEF Noted
<1> QED BY <1>1, <1>3, EntriesChanged

\* A version that starts is one that has run: a true history stays true.
LEMMA TrueEntriesGrow ==
  ASSUME ran \subseteq ran' PROVE TrueEntry \subseteq TrueEntry'
  BY DEF TrueEntry

\* After a restart only the version that runs is called installed.
LEMMA FinalizedKept ==
  ASSUME IInv, ran' = ran \cup {installed}
  PROVE  LET loaded == Finalized(installed)
         IN loaded \in Seq(TrueEntry') /\ Len(loaded) = Len(history)
            /\ (loaded = <<>> <=> history = <<>>)
<1>1. history \in Seq(TrueEntry) /\ TrueEntry \subseteq TrueEntry'
  BY TrueEntriesGrow DEF IInv, HistoryInv
<1>2. ASSUME NEW i \in DOMAIN history PROVE Finalized(installed)[i] \in TrueEntry'
  <2>1. history[i] \in TrueEntry /\ history[i] \in TrueEntry'
    BY <1>1
  <2>2. [history[i] EXCEPT !.status = IF history[i].target = installed THEN "installed"
                                      ELSE "failed"] \in TrueEntry'
    BY <2>1 DEF TrueEntry
  <2> QED BY <2>1, <2>2 DEF Finalized
<1>3. Finalized(installed) \in [DOMAIN history -> TrueEntry']
  BY <1>2 DEF Finalized
<1> QED BY <1>1, <1>3, EntriesChanged

\* Of a non-empty set of places in a list one is the last.
LEMMA LastPlace ==
  ASSUME NEW n \in Nat, NEW found \in SUBSET (1 .. n), found # {}
  PROVE  \E i \in found : \A j \in found : j <= i
<1> DEFINE left == {n - i : i \in found}
<1>1. left \in SUBSET Nat /\ left # {}
  <2>1. \A i \in found : n - i \in Nat
    OBVIOUS
  <2>2. PICK i \in found : TRUE
    OBVIOUS
  <2>3. n - i \in left
    BY <2>2
  <2> QED BY <2>1, <2>3
<1>2. PICK x \in left : \A y \in left : <<y, x>> \notin OpToRel(<, Nat)
  BY <1>1, WFMin, NatLessThanWellFounded, Zenon
<1>3. \A y \in left : ~(y < x)
  BY <1>1, <1>2 DEF OpToRel
<1>4. PICK i \in found : x = n - i
  OBVIOUS
<1>5. ASSUME NEW j \in found PROVE j <= i
  BY <1>3, <1>4
<1> QED BY <1>5

\* Without a history, what is inferred from the log of the package manager is true.
LEMMA InferredKept ==
  ASSUME dpkg \in Seq({Upgraded, Reinstalled}), First \in ran, ran \subseteq AllVersions
  PROVE  Inferred(First) \in Seq(TrueEntry) /\ Len(Inferred(First)) <= 1
<1> DEFINE found == {i \in DOMAIN dpkg : LedTo(First, i)}
           last  == CHOOSE i \in found : \A j \in found : j <= i
           e == [id |-> 0, kind |-> "install", from |-> dpkg[last].from, target |-> First,
                 status |-> "installed"]
<1>1. CASE found # {}
  <2>1. First \in MaybeVersion
    BY DEF AllVersions, MaybeVersion
  <2>2. \E i \in found : \A j \in found : j <= i
    <3>1. Len(dpkg) \in Nat /\ DOMAIN dpkg = 1 .. Len(dpkg)
      BY LenProperties
    <3>2. found \in SUBSET (1 .. Len(dpkg))
      BY <3>1
    <3> HIDE DEF found
    <3> QED BY <1>1, <3>1, <3>2, LastPlace
  <2>3. last \in found
    <3> HIDE DEF found
    <3> QED BY <2>2
  <2>4. last \in DOMAIN dpkg /\ LedTo(First, last)
    BY <2>3
  <2>5. dpkg[last] \in {Upgraded, Reinstalled} /\ dpkg[last].from # First
    <3> HIDE DEF last
    <3>1. dpkg[last] \in {Upgraded, Reinstalled}
      BY <2>4, ElementOfSeq, LenProperties
    <3> QED BY <2>4, <3>1 DEF LedTo
  <2>6. dpkg[last].from = Releases[1].version
    <3> HIDE DEF last
    <3> QED BY <2>5 DEF Upgraded, Reinstalled
  <2>7. Releases[1].version \in MaybeVersion
    <3>1. 1 \in DOMAIN Releases
      BY ReleasesAssumption, LenProperties, EmptySeq
    <3> QED BY <3>1 DEF AllVersions, MaybeVersion
  <2>8. e \in TrueEntry
    <3> HIDE DEF last
    <3> QED BY <2>1, <2>6, <2>7 DEF TrueEntry
  <2>9. Inferred(First) = <<e>>
    BY <1>1 DEF Inferred
  <2> HIDE DEF e
  <2> QED BY <2>8, <2>9
<1>2. CASE found = {}
  BY <1>2, EmptySeq DEF Inferred
<1> QED BY <1>1, <1>2

\* A rollback leads to another version, which has run or is the one the log names.
LEMMA RollbackLeadsBack ==
  ASSUME IInv
  PROVE  /\ RollbackTarget # version
         /\ RollbackTarget \in ran \cup {NoVersion, Releases[1].version}
<1>0. history \in Seq(TrueEntry) /\ version \in AllVersions
  BY DEF IInv, HistoryInv, ShapeInv
<1> DEFINE found == {i \in DOMAIN history : BringsBack(history[i])}
           last  == CHOOSE i \in found : \A j \in found : j <= i
<1>1. CASE found = {}
  BY <1>0, <1>1, ReleasesAssumption DEF RollbackTarget
<1>2. CASE found # {}
  <2>1. Len(history) \in Nat /\ DOMAIN history = 1 .. Len(history)
    BY <1>0, LenProperties
  <2>2. found \in SUBSET (1 .. Len(history))
    BY <2>1
  <2> HIDE DEF found
  <2>3. last \in found
    BY <1>2, <2>1, <2>2, LastPlace
  <2> HIDE DEF last
  <2>4. RollbackTarget = history[last].from
    BY <1>2 DEF RollbackTarget, found, last
  <2>5. last \in DOMAIN history /\ BringsBack(history[last])
    BY <2>3 DEF found
  <2>6. history[last] \in TrueEntry
    BY <1>0, <2>5
  <2> QED BY <2>4, <2>5, <2>6 DEF BringsBack, TrueEntry
<1> QED BY <1>1, <1>2

-----------------------------------------------------------------------------
(***************************************************************************)
(* Releases                                                                *)
(***************************************************************************)

\* What is listed is a release, with one of the versions that there are.
LEMMA ListedReleases ==
  ASSUME published \in DOMAIN Releases
  PROVE  \A i \in DOMAIN Listed : Listed[i].version \in AllVersions
<1>1. Len(Releases) \in Nat /\ DOMAIN Releases = 1 .. Len(Releases)
  BY ReleasesAssumption, LenProperties
<1>2. \A i \in 1 .. published : Releases[i] \in {Releases[j] : j \in DOMAIN Releases}
  BY <1>1
<1>3. /\ Listed \in Seq({Releases[j] : j \in DOMAIN Releases})
      /\ Len(Listed) = published
      /\ \A i \in 1 .. published : Listed[i] = Releases[i]
  <2> DEFINE S == {Releases[j] : j \in DOMAIN Releases}
  <2>1. \A i \in 1 .. published : Releases[i] \in S
    BY <1>2
  <2> HIDE DEF S
  <2>2. SubSeq(Releases, 1, published) \in Seq(S)
          /\ Len(SubSeq(Releases, 1, published)) = published
          /\ \A i \in 1 .. published : SubSeq(Releases, 1, published)[i] = Releases[i]
    BY <1>1, <2>1, SubSeqProperties
  <2> QED BY <2>2 DEF S, Listed
<1>4. DOMAIN Listed = 1 .. published
  BY <1>1, <1>3, LenProperties
<1> QED BY <1>1, <1>3, <1>4 DEF AllVersions

\* The release that is offered has one of these versions.
LEMMA NewestVersion ==
  ASSUME published \in DOMAIN Releases, prerelease \in BOOLEAN,
         Visible(Listed, prerelease) # {}
  PROVE  NewestRelease(Visible(Listed, prerelease)).version \in AllVersions
<1>1. NewestRelease(Visible(Listed, prerelease)) \in Visible(Listed, prerelease)
  BY NewestAssumption DEF Listed
<1> QED BY <1>1, ListedReleases DEF Visible

-----------------------------------------------------------------------------
(***************************************************************************)
(* Steps                                                                   *)
(***************************************************************************)

\* A step that changes the history with the versions that have run kept.
HistoryStep ==
  /\ history' \in Seq(TrueEntry) /\ Len(history') <= HistoryCap
  /\ history' = <<>> => history = <<>>

LEMMA SameHistory == ASSUME IInv, history' = history PROVE HistoryStep
  BY DEF IInv, TypeOK, HistoryInv, HistoryStep

LEMMA NotedHistory ==
  ASSUME IInv, NEW id, NEW target \in MaybeVersion,
         NEW state \in {"running", "restarting", "installed", "failed"},
         state = "installed" => target \in ran,
         history' = Noted(id, target, state)
  PROVE  HistoryStep
  BY NotedKept DEF IInv, TypeOK, HistoryStep

\* A job that fails gives its lock back.
LEMMA FailMoves ==
  ASSUME IInv, NEW t \in Threads, FailJob(t), Working(t),
         (checkMu' = checkMu /\ checkMu # t) \/ (checkMu = t /\ checkMu' = "free")
  PROVE  MoveStep(t) /\ HistoryStep
<1>0. th[t] \in Thread /\ t # "free"
  BY UpdatesAssumption DEF IInv, ShapeInv, Threads
<1>1. HistoryStep
  <2>1. th[t].target \in MaybeVersion
    BY <1>0 DEF Thread
  <2> QED BY <2>1, NotedHistory DEF FailJob, EndWith
<1>2. MoveStep(t)
  BY <1>0, IdleThread DEF FailJob, EndWith, MoveStep, WorkPCs, LookPCs, HavePCs
<1> QED BY <1>1, <1>2

LEMMA BeginCheckMoves ==
  ASSUME IInv, NEW t \in Threads, BeginCheck(t) PROVE MoveStep(t)
<1> DEFINE pc == IF IsAt(t, "check") THEN "checking" ELSE "looking"
           r  == [th[t] EXCEPT !.pc = pc]
<1>0. th[t] \in Thread
  BY DEF IInv, ShapeInv
<1>1. r \in Thread /\ r.pc = pc
  BY <1>0 DEF Thread
<1>2. /\ th' = [th EXCEPT ![t] = r] /\ installing' = installing
      /\ checkMu = "free" /\ checkMu' = t
  BY DEF BeginCheck, GoTo
<1>3. pc \in WorkPCs => Working(t)
  BY DEF IsAt, WorkPCs, Working
<1>4. pc \in LookPCs /\ pc \notin HavePCs
  BY DEF LookPCs, HavePCs
<1> HIDE DEF pc, r
<1> QED BY <1>1, <1>2, <1>3, <1>4 DEF MoveStep

LEMMA EndCheckMoves ==
  ASSUME IInv, NEW t \in Threads, EndCheck(t) PROVE MoveStep(t) /\ HistoryStep
<1> DEFINE visible == Visible(Listed, prerelease)
<1>0. /\ th[t] \in Thread /\ t # "free" /\ version \in ran /\ version \in MaybeVersion
      /\ checkMu = t /\ checkMu' = "free" /\ th[t].pc \in LookPCs
      /\ published \in DOMAIN Releases /\ prerelease \in BOOLEAN
  BY UpdatesAssumption
  DEF EndCheck, IInv, ShapeInv, Threads, TypeOK, LookPCs, MaybeVersion
<1>1. IsAt(t, "checking") => Working(t)
  BY DEF IsAt, Working
<1>2. ASSUME th' = [th EXCEPT ![t] = Idle], UNCHANGED <<history, installing>>
      PROVE  MoveStep(t) /\ HistoryStep
  BY <1>0, <1>2, IdleThread, SameHistory DEF MoveStep, WorkPCs, LookPCs, HavePCs
<1>3. ASSUME IsAt(t, "checking"), FailJob(t) PROVE MoveStep(t) /\ HistoryStep
  BY <1>0, <1>1, <1>3, FailMoves
<1>4. ASSUME visible # {}, NEW newer, ~IsAt(t, "looking"),
             IsAt(t, "checking") /\ newer,
             th' = [th EXCEPT ![t].pc = "download", ![t].target = NewestRelease(visible).version],
             history' = Noted(th[t].id, NewestRelease(visible).version, "running"),
             installing' = installing
      PROVE  MoveStep(t) /\ HistoryStep
  <2> DEFINE v == NewestRelease(visible).version
             r == [th[t] EXCEPT !.pc = "download", !.target = v]
  <2>1. v \in AllVersions /\ v \in MaybeVersion
    BY <1>0, <1>4, NewestVersion DEF MaybeVersion
  <2>2. th' = [th EXCEPT ![t] = r] /\ history' = Noted(th[t].id, v, "running")
    BY <1>0, <1>4 DEF Thread
  <2> HIDE DEF v
  <2>3. r \in Thread /\ r.pc = "download" /\ r.target = v
    BY <1>0, <2>1 DEF Thread
  <2>4. HistoryStep
    BY <2>1, <2>2, NotedHistory
  <2> HIDE DEF r
  <2>5. MoveStep(t)
    BY <1>0, <1>1, <1>4, <2>1, <2>2, <2>3 DEF MoveStep, WorkPCs, LookPCs, HavePCs
  <2> QED BY <2>4, <2>5
<1>5. ASSUME ~IsAt(t, "looking"), history' = Noted(th[t].id, version, "installed"),
             installing' = FALSE, th' = [th EXCEPT ![t] = Idle]
      PROVE  MoveStep(t) /\ HistoryStep
  <2>1. Working(t)
    BY <1>0, <1>1, <1>5 DEF IsAt, LookPCs
  <2>2. HistoryStep
    BY <1>0, <1>5, NotedHistory
  <2> QED BY <1>0, <1>5, <2>1, <2>2, IdleThread DEF MoveStep, WorkPCs, LookPCs, HavePCs
<1>6. CASE IF IsAt(t, "checking") THEN FailJob(t)
           ELSE th' = [th EXCEPT ![t] = Idle] /\ UNCHANGED <<history, installing>>
  BY <1>2, <1>3, <1>6
<1>7. ASSUME visible # {}, NEW newer \in BOOLEAN,
             CASE IsAt(t, "looking") ->
                    th' = [th EXCEPT ![t] = Idle] /\ UNCHANGED <<history, installing>>
               [] IsAt(t, "checking") /\ newer ->
                    /\ th' = [th EXCEPT ![t].pc = "download",
                                        ![t].target = NewestRelease(visible).version]
                    /\ history' = Noted(th[t].id, NewestRelease(visible).version, "running")
                    /\ UNCHANGED installing
               [] OTHER ->
                    /\ history' = Noted(th[t].id, version, "installed")
                    /\ installing' = FALSE /\ th' = [th EXCEPT ![t] = Idle]
      PROVE  MoveStep(t) /\ HistoryStep
  <2>1. CASE IsAt(t, "looking")
    <3>1. ~IsAt(t, "checking")
      BY <2>1 DEF IsAt
    <3> QED BY <1>2, <1>7, <2>1, <3>1
  <2>2. CASE ~IsAt(t, "looking") /\ IsAt(t, "checking") /\ newer
    BY <1>4, <1>7, <2>2
  <2>3. CASE ~IsAt(t, "looking") /\ ~(IsAt(t, "checking") /\ newer)
    BY <1>5, <1>7, <2>3
  <2> QED BY <2>1, <2>2, <2>3
<1> QED BY <1>6, <1>7 DEF EndCheck

\* A job begins only when the lock is free, and enters the history.
LEMMA ClaimMoves ==
  ASSUME IInv, NEW t \in Threads, Claim(t) PROVE MoveStep(t) /\ HistoryStep
<1>0. /\ th[t] \in Thread /\ th[t].pc = "privilege" /\ checkMu' = checkMu /\ checkMu # t
      /\ jobs \in Nat /\ version \in ran /\ version \in MaybeVersion
      /\ history \in Seq(TrueEntry)
  BY DEF Claim, IsAt, IInv, ShapeInv, TypeOK, HistoryInv, MaybeVersion
<1>1. CASE ~installing /\ Begun(t)
  <2>0. PICK id \in Nat : id = jobs + 1
    BY <1>0
  <2> DEFINE e  == [id |-> id, kind |-> th[t].kind, from |-> version,
                    target |-> th[t].target, status |-> "running"]
             pc == IF th[t].kind = "install" THEN "check" ELSE "release"
             r  == [th[t] EXCEPT !.id = id, !.pc = pc]
  <2>1. e \in TrueEntry
    BY <1>0 DEF TrueEntry, Thread
  <2>2. r \in Thread /\ r.pc = pc /\ pc \in {"check", "release"}
    BY <1>0 DEF Thread
  <2>3. /\ th' = [th EXCEPT ![t] = r] /\ installing' = TRUE
        /\ history' = LastOf(Append(history, e), HistoryCap)
    BY <1>0, <1>1, <2>0 DEF Begun, Thread
  <2> HIDE DEF e, r, pc
  <2>4. history' \in Seq(TrueEntry) /\ Len(history') <= HistoryCap /\ history' # <<>>
    BY <1>0, <2>1, <2>3, LastOfKept
  <2> QED BY <1>0, <1>1, <2>2, <2>3, <2>4 DEF MoveStep, HistoryStep, LookPCs, HavePCs
<1>2. CASE th' = [th EXCEPT ![t] = Idle] /\ UNCHANGED <<installing, history, jobs>>
  BY <1>0, <1>2, IdleThread, SameHistory DEF MoveStep, WorkPCs, LookPCs, HavePCs
<1> QED BY <1>1, <1>2 DEF Claim

\* A job goes on with a version, gives up, or restarts the service.
LEMMA JobMoves ==
  ASSUME IInv, NEW t \in Threads,
         FindRelease(t) \/ Download(t) \/ BeginApt(t) \/ RestartService(t)
  PROVE  (MoveStep(t) \/ Stopped) /\ HistoryStep
<1>0. /\ th[t] \in Thread /\ published \in DOMAIN Releases
      /\ th[t].pc \in {"release", "download", "install", "restart"}
      /\ Working(t) /\ checkMu # t
  BY DEF FindRelease, Download, BeginApt, RestartService, IsAt, Working, IInv, ShapeInv, TypeOK
<1>1. ASSUME NEW pc \in HavePCs, GoTo(t, pc), th[t].target \in AllVersions,
             UNCHANGED <<history, installing, checkMu>>
      PROVE  MoveStep(t) /\ HistoryStep
  <2> DEFINE r == [th[t] EXCEPT !.pc = pc]
  <2>1. r \in Thread /\ r.pc = pc /\ r.target = th[t].target
    BY <1>0 DEF Thread, HavePCs
  <2>2. th' = [th EXCEPT ![t] = r]
    BY <1>1 DEF GoTo
  <2> HIDE DEF r
  <2> QED BY <1>0, <1>1, <2>1, <2>2, SameHistory DEF MoveStep, HavePCs, LookPCs
<1>2. ASSUME FailJob(t), checkMu' = checkMu PROVE MoveStep(t) /\ HistoryStep
  BY <1>0, <1>2, FailMoves
<1>3. CASE FindRelease(t)
  <2>1. CASE \E i \in DOMAIN Listed : ~Listed[i].draft /\ Listed[i].version = th[t].target
    <3>1. th[t].target \in AllVersions
      BY <1>0, <2>1, ListedReleases
    <3> QED BY <1>1, <1>3, <2>1, <3>1 DEF FindRelease, HavePCs
  <2>2. CASE ~\E i \in DOMAIN Listed : ~Listed[i].draft /\ Listed[i].version = th[t].target
    BY <1>2, <1>3, <2>2 DEF FindRelease
  <2> QED BY <2>1, <2>2
<1>4. ASSUME th[t].pc \in HavePCs PROVE th[t].target \in AllVersions
  BY <1>4 DEF IInv, TargetInv, HavePCs
<1>5. CASE Download(t)
  BY <1>1, <1>2, <1>4, <1>5 DEF Download, IsAt, HavePCs
<1>6. CASE BeginApt(t)
  <2>1. CASE apt = NoApt
    BY <1>1, <1>4, <1>6, <2>1 DEF BeginApt, IsAt, HavePCs
  <2>2. CASE apt # NoApt
    BY <1>2, <1>6, <2>2 DEF BeginApt
  <2> QED BY <2>1, <2>2
<1>7. CASE RestartService(t)
  <2>1. CASE FailJob(t) /\ checkMu' = checkMu
    BY <1>2, <2>1
  <2>2. CASE Stopped /\ history' = history
    BY <2>2, SameHistory
  <2>3. CASE th' = [th EXCEPT ![t] = Idle] /\ UNCHANGED <<checkMu, history, installing>>
    BY <1>0, <2>3, IdleThread, SameHistory DEF MoveStep, WorkPCs, LookPCs, HavePCs
  <2> QED BY <1>7, <2>1, <2>2, <2>3 DEF RestartService
<1> QED BY <1>3, <1>5, <1>6, <1>7

\* A request that looks at the lock, or at the channel, does not take the lock.
LEMMA RequestMoves ==
  ASSUME IInv, NEW t \in Requests,
         Ask(t, "install") \/ Ask(t, "rollback") \/ SwitchChannel(t)
  PROVE  MoveStep(t) /\ HistoryStep
<1>0. t \in Threads /\ th[t] \in Thread /\ checkMu # t
  BY DEF Threads, Ask, SwitchChannel, IsAt, IInv, ShapeInv, TypeOK
<1>1. ASSUME NEW kind \in {"install", "rollback"}, Ask(t, kind) PROVE MoveStep(t) /\ HistoryStep
  <2> DEFINE target == IF kind = "rollback" THEN RollbackTarget ELSE NoVersion
             r      == [Idle EXCEPT !.pc = "privilege", !.kind = kind, !.target = target]
  <2>1. target \in MaybeVersion
    <3>1. Releases[1].version \in MaybeVersion
      BY ReleasesAssumption, LenProperties, EmptySeq DEF AllVersions, MaybeVersion
    <3> QED BY <3>1, RollbackLeadsBack DEF IInv, ShapeInv, MaybeVersion
  <2>2. /\ th' = [th EXCEPT ![t] = r]
        /\ UNCHANGED <<history, installing, checkMu>>
    BY <1>1 DEF Ask
  <2> HIDE DEF target
  <2>3. r \in Thread /\ r.pc = "privilege"
    BY <2>1 DEF Idle, Thread
  <2> HIDE DEF r
  <2> QED BY <1>0, <2>2, <2>3, SameHistory DEF MoveStep, WorkPCs, LookPCs, HavePCs
<1>2. CASE SwitchChannel(t)
  <2> DEFINE r == [th[t] EXCEPT !.pc = "look"]
  <2>1. r \in Thread /\ r.pc = "look"
    BY <1>0 DEF Thread
  <2>2. th' = [th EXCEPT ![t] = r] /\ UNCHANGED <<history, installing, checkMu>>
    BY <1>2 DEF SwitchChannel, GoTo
  <2> HIDE DEF r
  <2> QED BY <1>0, <2>1, <2>2, SameHistory DEF MoveStep, WorkPCs, LookPCs, HavePCs
<1> QED BY <1>1, <1>2

\* The package manager ends the job that waits for it, if there still is one.
LEMMA AptMoves ==
  ASSUME IInv, FailApt \/ Unpack
  PROVE  /\ (\E t \in Threads : MoveStep(t)) \/ UNCHANGED <<th, installing, checkMu>>
         /\ HistoryStep
<1>0. ASSUME NEW t \in Threads, IsAt(t, "apt")
      PROVE  th[t] \in Thread /\ Working(t) /\ checkMu # t /\ th[t].target \in AllVersions
  BY <1>0 DEF IsAt, Working, IInv, ShapeInv, TypeOK, TargetInv
<1>1. CASE FailApt
  <2>1. CASE \E t \in Threads : IsAt(t, "apt")
    <3>1. PICK t \in Threads : IsAt(t, "apt") /\ FailJob(t)
      BY <1>1, <2>1 DEF FailApt
    <3>2. checkMu' = checkMu
      BY <1>1 DEF FailApt
    <3>3. MoveStep(t) /\ HistoryStep
      BY <1>0, <3>1, <3>2, FailMoves
    <3> QED BY <3>3
  <2>2. CASE ~\E t \in Threads : IsAt(t, "apt")
    BY <1>1, <2>2, SameHistory DEF FailApt
  <2> QED BY <2>1, <2>2
<1>2. CASE Unpack
  <2>1. CASE \E t \in Threads : IsAt(t, "apt")
    <3>1. PICK t \in Threads : /\ IsAt(t, "apt") /\ GoTo(t, "restart")
                               /\ history' = Noted(th[t].id, th[t].target, "restarting")
      BY <1>2, <2>1 DEF Unpack
    <3>2. checkMu' = checkMu /\ installing' = installing
      BY <1>2 DEF Unpack
    <3> DEFINE r == [th[t] EXCEPT !.pc = "restart"]
    <3>3. r \in Thread /\ r.pc = "restart" /\ r.target = th[t].target
      BY <1>0, <3>1 DEF Thread
    <3>4. th' = [th EXCEPT ![t] = r]
      BY <3>1 DEF GoTo
    <3>5. th[t].target \in MaybeVersion
      BY <1>0, <3>1 DEF MaybeVersion
    <3> HIDE DEF r
    <3>6. MoveStep(t)
      BY <1>0, <3>1, <3>2, <3>3, <3>4 DEF MoveStep, WorkPCs, LookPCs, HavePCs
    <3>7. HistoryStep
      BY <3>1, <3>5, NotedHistory
    <3> QED BY <3>6, <3>7
  <2>2. CASE ~\E t \in Threads : IsAt(t, "apt")
    BY <1>2, <2>2, SameHistory DEF Unpack
  <2> QED BY <2>1, <2>2
<1> QED BY <1>1, <1>2

\* Every step moves one thread, ends the program or leaves the threads alone; and all
\* but a start of the program keep a true history.
LEMMA NextSteps ==
  ASSUME IInv, Next
  PROVE  /\ \/ \E t \in Threads : MoveStep(t)
            \/ Stopped \/ UNCHANGED <<th, installing, checkMu>>
         /\ HistoryStep \/ Start
<1> USE DEF world, packages, life
<1>1. ASSUME NEW t \in Threads, Job(t)
      PROVE  (MoveStep(t) \/ Stopped) /\ HistoryStep
  <2>1. CASE BeginCheck(t)
    BY <2>1, BeginCheckMoves, SameHistory DEF BeginCheck
  <2>2. CASE EndCheck(t) \/ Claim(t)
    BY <2>2, EndCheckMoves, ClaimMoves
  <2>3. CASE FindRelease(t) \/ Download(t) \/ BeginApt(t) \/ RestartService(t)
    BY <2>3, JobMoves
  <2> QED BY <1>1, <2>1, <2>2, <2>3 DEF Job
<1>2. ASSUME NEW t \in Requests, Ask(t, "install") \/ Ask(t, "rollback") \/ SwitchChannel(t)
      PROVE  t \in Threads /\ MoveStep(t) /\ HistoryStep
  BY <1>2, RequestMoves DEF Threads
<1>3. CASE FailApt \/ Unpack
  BY <1>3, AptMoves
<1>4. CASE StopForPackage \/ Stop
  BY <1>4, SameHistory DEF StopForPackage, Stop
<1>5. CASE BeginUpgrade \/ EndUpgrade \/ Publish
  BY <1>5, SameHistory DEF BeginUpgrade, EndUpgrade, Publish
<1>6. CASE Start
  BY <1>6 DEF Start
<1> QED BY <1>1, <1>2, <1>3, <1>4, <1>5, <1>6 DEF Next

-----------------------------------------------------------------------------
(***************************************************************************)
(* The invariant                                                           *)
(***************************************************************************)

\* The logs that the program may find are lists of such lines.
LEMMA FirstLogs ==
  \A log \in {<<>>, <<Upgraded>>, <<Upgraded, Reinstalled>>} : log \in Seq({Upgraded, Reinstalled})
<1>1. ASSUME NEW a, NEW b
      PROVE  <<>> \in Seq({a, b}) /\ <<a>> \in Seq({a, b}) /\ <<a, b>> \in Seq({a, b})
  OBVIOUS
<1> QED BY <1>1, Zenon

\* The invariant holds when the program starts for the first time.
LEMMA InitEstablishes == Init => IInv
<1> SUFFICES ASSUME Init PROVE IInv
  OBVIOUS
<1>0. First \in AllVersions /\ 1 \in DOMAIN Releases
        /\ \A t \in Threads : th[t] = Idle /\ ~Working(t)
  <2>1. \A t \in Threads : th[t] = Idle
    BY DEF Init
  <2> QED BY <2>1, IdleThread, ReleasesAssumption, LenProperties, EmptySeq
          DEF AllVersions, Working
<1>1. history = Inferred(First) /\ Inferred(First) \in Seq(TrueEntry) /\ Len(Inferred(First)) <= 1
  <2>1. dpkg \in Seq({Upgraded, Reinstalled})
    BY FirstLogs DEF Init
  <2> QED BY <1>0, <2>1, InferredKept DEF Init
<1>2. TypeOK
  <2>1. HistoryCap \in Nat \ {0} /\ MaxEvents \in Nat /\ "free" \notin Threads
    BY UpdatesAssumption DEF Threads
  <2>2. Len(history) \in Nat
    BY <1>1, LenProperties
  <2>3. Len(history) <= HistoryCap
    BY <1>1, <2>1, <2>2
  <2>4. \A t \in Threads : checkMu = t <=> th[t].pc \in {"checking", "looking"}
    BY <1>0, <2>1, IdleThread DEF Init
  <2>5. status.checking <=> checkMu # "free"
    BY DEF Init, NoStatus
  <2>6. events \in 0 .. MaxEvents /\ up \in BOOLEAN
    BY <2>1 DEF Init
  <2> QED BY <1>0, <2>3, <2>4, <2>5, <2>6 DEF TypeOK
<1>3. ShapeInv
  <2>1. th \in [Threads -> Thread]
    BY IdleThread DEF Init
  <2>2. apt \in [by : {"none", "job", "upgrade"}, target : MaybeVersion]
          /\ status \in [latest : MaybeVersion, available : BOOLEAN, checking : BOOLEAN]
    BY DEF Init, NoApt, NoStatus, MaybeVersion
  <2> QED BY <1>0, <2>1, <2>2 DEF Init, ShapeInv
<1>4. OneWorking
  BY <1>0 DEF OneWorking
<1>5. TargetInv
  BY <1>0, IdleThread DEF Init, TargetInv, NoApt, Installing
<1>6. HistoryInv
  <2>1. dpkg \in Seq({Upgraded, Reinstalled})
    BY FirstLogs DEF Init
  <2> QED BY <1>0, <1>1, <2>1 DEF Init, HistoryInv, NoApt, Installing
<1> QED BY <1>2, <1>3, <1>4, <1>5, <1>6 DEF IInv

\* Threads keep their shape and their locks.
LEMMA LocksKept ==
  ASSUME IInv, Next
  PROVE  /\ th' \in [Threads -> Thread]
         /\ (\A t \in Threads : Working(t) => installing)' /\ OneWorking'
         /\ \A t \in Threads : checkMu' = t <=> th'[t].pc \in LookPCs
         /\ \A t \in Threads : th'[t].pc \in HavePCs => th'[t].target \in AllVersions
<1>1. CASE \E t \in Threads : MoveStep(t)
  BY <1>1, OneMoves
<1>2. CASE Stopped
  <2>1. th' \in [Threads -> Thread] /\ \A t \in Threads : th'[t].pc = "idle"
    BY <1>2, IdleThread DEF Stopped
  <2>2. \A t \in Threads : ~Working(t)'
    BY <2>1 DEF Working
  <2>3. checkMu' \notin Threads
    BY <1>2, UpdatesAssumption DEF Stopped, Threads
  <2> QED BY <2>1, <2>2, <2>3 DEF OneWorking, LookPCs, HavePCs
<1>3. CASE UNCHANGED <<th, installing, checkMu>>
  BY <1>3 DEF IInv, ShapeInv, TypeOK, TargetInv, OneWorking, Working, LookPCs, HavePCs
<1> QED BY <1>1, <1>2, <1>3, NextSteps

\* What is known of the latest release keeps its shape, and says whether a check runs.
LEMMA StatusKept ==
  ASSUME IInv, Next
  PROVE  /\ status' \in [latest : MaybeVersion, available : BOOLEAN, checking : BOOLEAN]
         /\ status'.checking <=> checkMu' # "free"
<1> DEFINE Shape == [latest : MaybeVersion, available : BOOLEAN, checking : BOOLEAN]
<1>0. status \in Shape /\ (status.checking <=> checkMu # "free")
        /\ published \in DOMAIN Releases /\ prerelease \in BOOLEAN
  BY DEF IInv, ShapeInv, TypeOK
<1>1. ASSUME NEW t \in Threads, BeginCheck(t)
      PROVE  status' \in Shape /\ (status'.checking <=> checkMu' # "free")
  <2>1. t # "free" /\ checkMu' = t /\ status' = [status EXCEPT !.checking = TRUE]
    BY <1>1, UpdatesAssumption DEF BeginCheck, Threads
  <2> QED BY <1>0, <2>1
<1>2. ASSUME NEW t \in Threads, EndCheck(t)
      PROVE  status' \in Shape /\ (status'.checking <=> checkMu' # "free")
  <2> DEFINE visible == Visible(Listed, prerelease)
  <2>1. checkMu' = "free"
    BY <1>2 DEF EndCheck
  <2>2. CASE status' = [status EXCEPT !.checking = FALSE]
    BY <1>0, <2>1, <2>2
  <2>3. ASSUME visible # {}, NEW newer \in BOOLEAN,
               status' = [latest |-> NewestRelease(visible).version, available |-> newer,
                          checking |-> FALSE]
        PROVE  status' \in Shape /\ (status'.checking <=> checkMu' # "free")
    <3>1. NewestRelease(visible).version \in MaybeVersion
      BY <1>0, <2>3, NewestVersion DEF MaybeVersion
    <3> QED BY <2>1, <2>3, <3>1
  <2> QED BY <1>2, <2>2, <2>3 DEF EndCheck
<1>3. CASE Stopped
  BY <1>3 DEF Stopped, NoStatus, MaybeVersion
<1>4. CASE UNCHANGED <<status, checkMu>>
  BY <1>0, <1>4
<1>5. \/ \E t \in Threads : BeginCheck(t) \/ EndCheck(t)
      \/ Stopped \/ UNCHANGED <<status, checkMu>>
  BY DEF Next, Job, Claim, FindRelease, Download, BeginApt, RestartService, Ask, SwitchChannel,
         FailApt, StopForPackage, Unpack, Start, Stop, BeginUpgrade, EndUpgrade, Publish,
         life, packages, world
<1> QED BY <1>1, <1>2, <1>3, <1>4, <1>5

\* What is installed, runs or has run is a version, and so is what is being installed.
LEMMA PackagesKept ==
  ASSUME IInv, Next
  PROVE  /\ ran' \subseteq AllVersions /\ version' \in ran' /\ installed' \in AllVersions
         /\ apt' \in [by : {"none", "job", "stopping", "upgrade"}, target : MaybeVersion]
         /\ Installing' => apt'.target \in AllVersions
<1> USE DEF Installing
<1> DEFINE Goal == /\ ran' \subseteq AllVersions /\ version' \in ran' /\ installed' \in AllVersions
                   /\ apt' \in [by : {"none", "job", "stopping", "upgrade"},
                               target : MaybeVersion]
                   /\ Installing' => apt'.target \in AllVersions
<1>0. /\ ran \subseteq AllVersions /\ version \in ran /\ installed \in AllVersions
      /\ apt \in [by : {"none", "job", "stopping", "upgrade"}, target : MaybeVersion]
      /\ Installing => apt.target \in AllVersions
  BY DEF IInv, ShapeInv, TargetInv
<1>1. NoApt \in [by : {"none", "job", "stopping", "upgrade"}, target : MaybeVersion] /\ NoApt.by = "none"
  BY DEF NoApt, MaybeVersion
<1>2. CASE UNCHANGED <<ran, version, installed, apt>>
  BY <1>0, <1>2
<1>3. ASSUME NEW t \in Threads, BeginApt(t) PROVE Goal
  <2>1. UNCHANGED <<ran, version, installed>> /\ th[t].target \in AllVersions
    BY <1>3 DEF BeginApt, life, IsAt, IInv, TargetInv
  <2>2. apt' = [by |-> "job", target |-> th[t].target] \/ apt' = apt
    BY <1>3 DEF BeginApt
  <2> QED BY <1>0, <2>1, <2>2 DEF MaybeVersion
<1>4. CASE FailApt \/ EndUpgrade
  BY <1>0, <1>1, <1>4 DEF FailApt, EndUpgrade, life
<1>5. CASE Unpack
  BY <1>0, <1>1, <1>5 DEF Unpack, life
<1>6. CASE Start
  BY <1>0, <1>6 DEF Start, packages
<1>7. CASE BeginUpgrade
  BY <1>0, <1>7 DEF BeginUpgrade, life, MaybeVersion
<1>10. CASE StopForPackage
  <2>1. /\ UNCHANGED <<ran, version, installed>> /\ apt.by = "job"
        /\ apt' = [apt EXCEPT !.by = "stopping"]
    BY <1>10 DEF StopForPackage
  <2> QED BY <1>0, <2>1
<1>8. \/ UNCHANGED <<ran, version, installed, apt>>
      \/ \E t \in Threads : BeginApt(t)
      \/ FailApt \/ EndUpgrade \/ Unpack \/ Start \/ BeginUpgrade \/ StopForPackage
  BY DEF Next, Job, BeginCheck, EndCheck, Claim, FindRelease, Download, RestartService, Ask,
         SwitchChannel, Stop, Publish, life, packages, world
<1>9. Goal
  BY <1>2, <1>3, <1>4, <1>5, <1>6, <1>7, <1>8, <1>10
<1> QED BY <1>9

\* The counters and the settings keep their types.
LEMMA CountersKept ==
  ASSUME IInv, Next
  PROVE  /\ up' \in BOOLEAN /\ events' \in 0 .. MaxEvents /\ jobs' \in Nat
         /\ published' \in DOMAIN Releases /\ prerelease' \in BOOLEAN
<1>0. /\ up \in BOOLEAN /\ events \in 0 .. MaxEvents /\ jobs \in Nat
      /\ published \in DOMAIN Releases /\ prerelease \in BOOLEAN /\ MaxEvents \in Nat
  BY UpdatesAssumption DEF IInv, TypeOK, ShapeInv
<1>1. up' \in BOOLEAN /\ prerelease' \in BOOLEAN
  <2>1. up' \in {up, TRUE, FALSE} /\ prerelease' \in {prerelease, ~prerelease}
    BY <1>0 DEF Next, Job, BeginCheck, EndCheck, Claim, FindRelease, Download, BeginApt,
                RestartService, Ask, SwitchChannel, FailApt, StopForPackage, Unpack, Start, Stop,
                BeginUpgrade, EndUpgrade, Publish, Stopped, life, packages, world
  <2> QED BY <1>0, <2>1
<1>2. events' \in 0 .. MaxEvents
  <2>1. UNCHANGED events \/ Event
    BY DEF Next, Job, BeginCheck, EndCheck, Claim, FindRelease, Download, BeginApt,
           RestartService, Ask, SwitchChannel, FailApt, StopForPackage, Unpack, Start, Stop,
           BeginUpgrade, EndUpgrade, Publish
  <2> QED BY <1>0, <2>1 DEF Event
<1>3. jobs' \in Nat
  <2>1. jobs' = jobs \/ jobs' = jobs + 1
    BY DEF Next, Job, BeginCheck, EndCheck, Claim, Begun, FindRelease, Download, BeginApt,
           RestartService, Ask, SwitchChannel, FailApt, StopForPackage, Unpack, Start, Stop,
           BeginUpgrade, EndUpgrade, Publish
  <2> QED BY <1>0, <2>1
<1>4. published' \in DOMAIN Releases
  <2>1. published' = published \/ (published < Len(Releases) /\ published' = published + 1)
    BY DEF Next, Job, BeginCheck, EndCheck, Claim, FindRelease, Download, BeginApt,
           RestartService, Ask, SwitchChannel, FailApt, StopForPackage, Unpack, Start, Stop,
           BeginUpgrade, EndUpgrade, Publish, world
  <2>2. Len(Releases) \in Nat /\ DOMAIN Releases = 1 .. Len(Releases)
    BY ReleasesAssumption, LenProperties
  <2> QED BY <1>0, <2>1, <2>2
<1> QED BY <1>1, <1>2, <1>3, <1>4

\* Entries stay true, the history keeps to its limit, and as long as it is empty nothing
\* was installed.
LEMMA HistoryKept ==
  ASSUME IInv, Next PROVE HistoryInv' /\ Len(history') <= HistoryCap
<1>0. /\ history \in Seq(TrueEntry) /\ Len(history) <= HistoryCap /\ HistoryCap \in Nat \ {0}
      /\ First \in ran /\ ran \subseteq AllVersions
  BY UpdatesAssumption DEF IInv, TypeOK, HistoryInv, ShapeInv
<1>1. history = <<>> =>
        /\ \A t \in Threads : ~Working(t)
        /\ ~Installing /\ installed = First
        /\ dpkg \in Seq({Upgraded, Reinstalled})
  BY DEF IInv, HistoryInv
<1>2. CASE HistoryStep /\ ~Start
  <2>1. ran' = ran
    BY <1>2 DEF Next, Job, BeginCheck, EndCheck, Claim, FindRelease, Download, BeginApt,
                RestartService, Ask, SwitchChannel, FailApt, StopForPackage, Unpack, Stop,
                BeginUpgrade, EndUpgrade, Publish, life
  <2>2. history' \in Seq(TrueEntry')
    BY <1>2, <2>1 DEF HistoryStep, TrueEntry
  <2>3. ASSUME history' = <<>>
        PROVE  /\ \A t \in Threads : ~Working(t)'
               /\ ~Installing' /\ installed' = First
               /\ dpkg' \in Seq({Upgraded, Reinstalled})
    <3>0. history = <<>>
      BY <1>2, <2>3 DEF HistoryStep
    <3>1. \A t \in Threads : ~Working(t)'
      <4>1. CASE Stopped
        BY <4>1, IdleThread DEF Stopped, Working
      <4>2. CASE UNCHANGED <<th, installing, checkMu>>
        BY <1>1, <3>0, <4>2 DEF Working
      <4>3. ASSUME NEW t \in Threads, MoveStep(t) PROVE \A u \in Threads : ~Working(u)'
        <5>1. PICK r \in Thread : th' = [th EXCEPT ![t] = r] /\ r.pc \notin WorkPCs
          BY <1>1, <2>3, <3>0, <4>3 DEF MoveStep
        <5>2. th \in [Threads -> Thread]
          BY DEF IInv, ShapeInv
        <5>3. \A u \in Threads : th'[u] = IF u = t THEN r ELSE th[u]
          BY <5>1, <5>2
        <5> QED BY <1>1, <3>0, <5>1, <5>3 DEF Working, WorkPCs
      <4> QED BY <4>1, <4>2, <4>3, NextSteps
    <3>2. ~Unpack /\ ~StopForPackage /\ \A t \in Threads : ~BeginApt(t)
      BY <1>1, <3>0 DEF Unpack, StopForPackage, BeginApt, IsAt, Working, Installing
    <3>3. installed' = installed /\ dpkg' = dpkg
      BY <1>2, <3>2 DEF Next, Job, BeginCheck, EndCheck, Claim, FindRelease, Download,
         RestartService, Ask, SwitchChannel, FailApt, Stop,
         BeginUpgrade, EndUpgrade, Publish, packages
    <3>4. apt' = apt \/ apt' = NoApt \/ apt' = [by |-> "upgrade", target |-> NoVersion]
      BY <1>2, <3>2 DEF Next, Job, BeginCheck, EndCheck, Claim, FindRelease, Download,
         RestartService, Ask, SwitchChannel, FailApt, Stop,
         BeginUpgrade, EndUpgrade, Publish, packages
    <3>5. ~Installing'
      BY <1>1, <3>0, <3>4 DEF NoApt, Installing
    <3> QED BY <1>1, <3>0, <3>1, <3>3, <3>5
  <2>4. HistoryInv'
    BY <1>0, <2>1, <2>2, <2>3 DEF HistoryInv
  <2> QED BY <1>2, <2>4 DEF HistoryStep
<1>3. CASE Start
  <2> DEFINE loaded == Finalized(installed)
  <2>1. /\ ran' = ran \cup {installed}
        /\ history' = IF loaded = <<>> THEN Inferred(installed) ELSE loaded
        /\ UNCHANGED <<th, installed, apt, dpkg>>
    BY <1>3 DEF Start, packages
  <2>2. /\ loaded \in Seq(TrueEntry') /\ Len(loaded) = Len(history)
        /\ (loaded = <<>> <=> history = <<>>)
    BY <2>1, FinalizedKept
  <2> HIDE DEF loaded
  <2>3. CASE loaded = <<>>
    <3>1. history = <<>> /\ installed = First
      BY <1>1, <2>2, <2>3
    <3>2. Inferred(First) \in Seq(TrueEntry) /\ Len(Inferred(First)) <= 1
      BY <1>0, <1>1, <3>1, InferredKept
    <3>3. TrueEntry \subseteq TrueEntry'
      BY <2>1, TrueEntriesGrow
    <3>4. history' = Inferred(First)
      BY <2>1, <2>3, <3>1
    <3>5. history' \in Seq(TrueEntry')
      BY <3>2, <3>3, <3>4, SeqMonotonic
    <3>6. Len(history') <= HistoryCap
      <4>1. Len(history') \in Nat
        BY <3>5, LenProperties
      <4> QED BY <1>0, <3>2, <3>4, <4>1
    <3>7. \A t \in Threads : ~Working(t)'
      BY <1>1, <2>1, <3>1 DEF Working
    <3> QED BY <1>0, <1>1, <2>1, <3>1, <3>5, <3>6, <3>7 DEF HistoryInv, Installing
  <2>4. CASE loaded # <<>>
    BY <1>0, <2>1, <2>2, <2>4 DEF HistoryInv, Installing
  <2> QED BY <2>3, <2>4
<1> QED BY <1>2, <1>3, NextSteps

\* Every step keeps the invariant.
LEMMA StepKeeps == IInv /\ [Next]_vars => IInv'
<1> SUFFICES ASSUME IInv, [Next]_vars PROVE IInv'
  OBVIOUS
<1>1. CASE Next
  <2>1. TypeOK'
    BY <1>1, LocksKept, StatusKept, CountersKept, HistoryKept DEF TypeOK, LookPCs
  <2>2. ShapeInv'
    BY <1>1, LocksKept, StatusKept, CountersKept, PackagesKept DEF ShapeInv
  <2>3. TargetInv'
    BY <1>1, LocksKept, PackagesKept DEF TargetInv, HavePCs
  <2> QED BY <1>1, <2>1, <2>2, <2>3, LocksKept, HistoryKept DEF IInv
<1>2. CASE UNCHANGED vars
  BY <1>2 DEF vars, IInv, TypeOK, ShapeInv, OneWorking, TargetInv, HistoryInv, TrueEntry, Working, Installing
<1> QED BY <1>1, <1>2

\* The invariant holds in every reachable state.
THEOREM Invariance == Spec => []IInv
  BY InitEstablishes, StepKeeps, PTL DEF Spec

-----------------------------------------------------------------------------
(***************************************************************************)
(* What follows from it                                                    *)
(***************************************************************************)

\* One installation at a time, however many requests passed the first look at the lock
\* (startInstall).
THEOREM OneAtATime == Spec => []OneInstallation
<1>1. IInv => OneInstallation
  <2> SUFFICES ASSUME IInv PROVE OneInstallation
    OBVIOUS
  <2> DEFINE working == {t \in Threads : Working(t)}
  <2>1. Cardinality(working) <= 1
    <3>1. CASE working = {}
      BY <3>1, FS_EmptySet
    <3>2. CASE working # {}
      <4>1. PICK t \in Threads : working = {t}
        BY <3>2 DEF IInv, OneWorking
      <4> QED BY <4>1, FS_Singleton
    <3> QED BY <3>1, <3>2
  <2> QED BY <2>1 DEF IInv, OneInstallation
<1> QED BY <1>1, Invariance, PTL

\* Whatever fails, crashes or is restarted, the history calls only versions installed
\* that have run, and a rollback leads back (finalizeHistoryAfterRestart, rollbackTarget).
THEOREM HistoryStaysTrue == Spec => []HistoryIsTrue
<1>1. IInv => HistoryIsTrue
  <2> SUFFICES ASSUME IInv PROVE HistoryIsTrue
    OBVIOUS
  <2>1. \A i \in DOMAIN history : history[i] \in TrueEntry
    BY DEF IInv, HistoryInv
  <2> QED BY <2>1, RollbackLeadsBack DEF HistoryIsTrue, TrueEntry
<1> QED BY <1>1, Invariance, PTL

=============================================================================
