-------------------------- MODULE AdminSessionsProofs --------------------------
(***************************************************************************)
(* Proofs about AdminSessions, for every number of requests, clients,      *)
(* sessions and passwords and all limits: one setup succeeds, the file of  *)
(* sessions follows the table, and sessions and attempts keep to their     *)
(* limits.                                                                 *)
(*                                                                         *)
(* All follow from the inductive invariant IInv of AdminSessions.          *)
(***************************************************************************)
EXTENDS AdminSessions, FiniteSetTheorems, SequenceTheorems, TLAPS

Entry  == [created : Nat, seen : Nat]
Thread == [pc : PCs, client : Clients \cup {""}, pass : Passwords \cup {""}, snap : Tables,
           opened : {"", "tmp", "file", "gone"}]

\* Where a request is busy with the file, and where it holds a password.
Persisting == {"snapshot", "truncate", "fill", "rename"}
Asking     == {"setup", "login", "rehash", "password"}

\* Where its attempt was allowed and may still fail.
Tried(r) == r.pc \in {"setup", "login"}

-----------------------------------------------------------------------------
(* Tables.                                                                 *)

\* A table has sessions for keys, with two times each.
LEMMA TableParts ==
  ASSUME NEW f \in Tables
  PROVE  DOMAIN f \subseteq Tokens /\ f \in [DOMAIN f -> Entry]
  BY DEF Tables, Entry

\* And every such function is one.
LEMMA IsATable ==
  ASSUME NEW S \in SUBSET Tokens, NEW f \in [S -> Entry]
  PROVE  f \in Tables
  BY DEF Tables, Entry

\* A table is not what stands for a missing or a damaged file.
LEMMA TablesAreFiles ==
  ASSUME NEW f \in Tables
  PROVE  IsTable(f) /\ KeysOf(f) = DOMAIN f /\ f # NoFile /\ f # Broken
  BY TableParts, FilesAssumption DEF IsTable, KeysOf

\* Nor do these name sessions.
LEMMA MarksHaveNoKeys == KeysOf(NoFile) = {} /\ KeysOf(Broken) = {}
  BY DEF KeysOf, IsTable

\* The empty table.
LEMMA EmptyIsPast == Empty \in Tables /\ DOMAIN Empty = {} /\ Past(Empty)
<1>1. Empty \in [{} -> Entry] /\ DOMAIN Empty = {}
  BY DEF Empty
<1> QED  BY <1>1, IsATable DEF Past

\* What is left of a table when sessions are removed.
LEMMA RestrictIsPast ==
  ASSUME NEW f, Past(f), NEW S \in SUBSET DOMAIN f
  PROVE  /\ Past(Restrict(f, S)) /\ DOMAIN Restrict(f, S) = S
         /\ \A k \in S : Restrict(f, S)[k] = f[k]
<1>1. f \in [DOMAIN f -> Entry] /\ DOMAIN f \subseteq Tokens
  BY TableParts DEF Past
<1>2. Restrict(f, S) \in [S -> Entry] /\ DOMAIN Restrict(f, S) = S
        /\ \A k \in S : Restrict(f, S)[k] = f[k]
  BY <1>1 DEF Restrict
<1>3. Restrict(f, S) \in Tables
  BY <1>1, <1>2, IsATable
<1> QED  BY <1>2, <1>3 DEF Past

\* Pruning keeps what is fresh, as it is.
LEMMA PrunedIsPast ==
  ASSUME NEW f, Past(f)
  PROVE  /\ Past(Pruned(f)) /\ DOMAIN Pruned(f) = {k \in DOMAIN f : Fresh(f[k])}
         /\ \A k \in DOMAIN Pruned(f) : Pruned(f)[k] = f[k]
<1> DEFINE S == {k \in DOMAIN f : Fresh(f[k])}
<1>1. S \in SUBSET DOMAIN f
  OBVIOUS
<1>2. Pruned(f) = Restrict(f, S)
  BY DEF Pruned
<1> HIDE DEF S
<1>3. /\ Past(Pruned(f)) /\ DOMAIN Pruned(f) = S
      /\ \A k \in S : Pruned(f)[k] = f[k]
  BY <1>1, <1>2, RestrictIsPast
<1> QED  BY <1>3 DEF S

\* A session that is used, or a new one, is in the table from now on.
LEMMA WithEntryIsPast ==
  ASSUME NEW f, Past(f), NEW k \in Tokens, NEW e \in Entry, e.seen <= now,
         NEW g, DOMAIN g = DOMAIN f \cup {k}, g = [l \in DOMAIN f \cup {k} |->
                                                    IF l = k THEN e ELSE f[l]]
  PROVE  Past(g)
<1>1. f \in [DOMAIN f -> Entry] /\ DOMAIN f \subseteq Tokens
  BY TableParts DEF Past
<1>2. g \in [DOMAIN f \cup {k} -> Entry]
  BY <1>1
<1>3. g \in Tables
  BY <1>1, <1>2, IsATable
<1>4. \A l \in DOMAIN g : g[l].seen <= now
  BY DEF Past
<1> QED  BY <1>3, <1>4 DEF Past

-----------------------------------------------------------------------------
(* The steps of a request that do not touch the file.                      *)

\* Changes of the table that need no write: sessions that have expired are removed, and
\* one that was used a short while ago is used again.
TableKept ==
  \/ table' = table
  \/ table' = Pruned(table)
  \/ \E k \in DOMAIN Pruned(table) : table' = [Pruned(table) EXCEPT ![k].seen = now]

Requesting(t) ==
  \/ \E c \in Clients, p \in Passwords : Begin(t, c, p, "setup") \/ Begin(t, c, p, "login")
  \/ \E p \in Passwords : AskPassword(t, p)
  \/ \E k \in issued : LogOut(t, k) \/ Use(t, k)
  \/ Refuse(t) \/ SetHash(t) \/ Accept(t) \/ Rehash(t) \/ Create(t)
  \/ List(t) \/ LogOutAll(t) \/ ChangePassword(t) \/ EndSessions(t)

Begins(t) == \E c \in Clients, p \in Passwords : Begin(t, c, p, "setup") \/ Begin(t, c, p, "login")

\* The actions a step is one of.
LEMMA NextSteps ==
  ASSUME Next
  PROVE  \/ \E t \in Requests : \/ Requesting(t) \/ Snapshot(t) \/ Truncate(t)
                                \/ Fill(t) \/ Rename(t) \/ FailWrite(t)
         \/ Restart \/ Tick
  BY DEF Next, Requesting, Persist

\* A request that is not there.
LEMMA FreeParts == Free \in Thread /\ Free.pc = "idle" /\ Free.snap = Empty
  BY EmptyIsPast DEF Free, Thread, PCs

\* The thread of a request, with the fields that invariants are about.
LEMMA ThreadOf ==
  ASSUME IInv, NEW t \in Requests
  PROVE  /\ th[t] \in Thread /\ Past(th[t].snap) /\ Free \in Thread /\ Past(Free.snap)
         /\ Free.pc = "idle"
         /\ th[t].pc \in Asking => th[t].pass \in Passwords
<1>1. th[t] \in Thread /\ Past(th[t].snap)
  BY DEF IInv, ThreadsInv, Thread
<1>2. Free \in Thread /\ Past(Free.snap) /\ Free.pc = "idle"
  BY EmptyIsPast DEF Free, Thread, PCs
<1>3. th[t].pc \in Asking => th[t].pass \in Passwords
  BY DEF IInv, HashInv, Asking
<1> QED  BY <1>1, <1>2, <1>3

\* What such a step does: the request goes on, or is answered, and either it has the file
\* to write or the table changes in a way that needs no write.
LEMMA RequestMoves ==
  ASSUME IInv, NEW t \in Requests, Requesting(t)
  PROVE  /\ UNCHANGED <<now, file, tmp, disturbed>>
         /\ th[t].pc \notin Persisting
         /\ Past(table')
         /\ \E r \in Thread :
              /\ th' = [th EXCEPT ![t] = r] /\ r.snap \in {th[t].snap, Empty}
              /\ r.pc \notin Persisting \ {"snapshot"}
              /\ r.pc = "snapshot" \/ TableKept
              /\ r.pc \in Asking => r.pass \in Passwords
              /\ Tried(r) => Begins(t)
<1> DEFINE Goes(pc) == [th[t] EXCEPT !.pc = pc]
<1>1. /\ th[t] \in Thread /\ Free \in Thread /\ Free.pc = "idle" /\ Free.snap = Empty
      /\ th[t].pc \in Asking => th[t].pass \in Passwords
  BY ThreadOf DEF Free
<1>2. \A pc \in PCs : /\ Goes(pc) \in Thread /\ Goes(pc).pc = pc /\ Goes(pc).snap = th[t].snap
                      /\ Goes(pc).pass = th[t].pass
                      /\ [th EXCEPT ![t].pc = pc] = [th EXCEPT ![t] = Goes(pc)]
  BY <1>1 DEF Thread
<1>3. Past(table) /\ th = [th EXCEPT ![t] = th[t]] /\ now \in Nat
  BY DEF IInv, TablesInv, ThreadsInv
<1> HIDE DEF Goes
<1> USE DEF files, IsAt, Persisting, Asking, Tried
<1>4. CASE \E c \in Clients, p \in Passwords : Begin(t, c, p, "setup") \/ Begin(t, c, p, "login")
  <2>1. PICK c \in Clients, p \in Passwords, pc \in {"setup", "login"} : Begin(t, c, p, pc)
    BY <1>4
  <2> DEFINE R == [Free EXCEPT !.pc = pc, !.client = c, !.pass = p]
  <2>2. R \in Thread /\ R.pc = pc /\ R.pass = p /\ R.snap = Empty
    BY <1>1 DEF Thread, PCs
  <2>3. th' = [th EXCEPT ![t] = R] \/ th' = [th EXCEPT ![t] = th[t]]
    BY <1>3, <2>1 DEF Begin
  <2>4. th[t].pc = "idle" /\ UNCHANGED <<now, table, file, tmp, disturbed>>
    BY <2>1 DEF Begin
  <2>5. Begins(t)
    BY <1>4 DEF Begins
  <2> HIDE DEF R
  <2> QED  BY <1>1, <1>3, <2>2, <2>3, <2>4, <2>5 DEF TableKept, Past, Fresh
<1>5. CASE \E p \in Passwords : AskPassword(t, p)
  <2>1. PICK p \in Passwords : AskPassword(t, p)
    BY <1>5
  <2> DEFINE R == [Free EXCEPT !.pc = "password", !.pass = p]
  <2>2. R \in Thread /\ R.pc = "password" /\ R.pass = p /\ R.snap = Empty
    BY <1>1 DEF Thread, PCs
  <2>3. th' = [th EXCEPT ![t] = R]
    BY <2>1 DEF AskPassword
  <2>4. th[t].pc = "idle" /\ UNCHANGED <<now, table, file, tmp, disturbed>>
    BY <2>1 DEF AskPassword
  <2> HIDE DEF R
  <2> QED  BY <1>3, <2>2, <2>3, <2>4 DEF TableKept, Past
<1>6. CASE Refuse(t)
  <2>1. th' = [th EXCEPT ![t] = Free] /\ th[t].pc \in Asking
          /\ UNCHANGED <<now, table, file, tmp, disturbed>>
    BY <1>6 DEF Refuse
  <2> QED  BY <1>1, <1>3, <2>1 DEF TableKept, Past
<1>7. CASE SetHash(t)
  <2>1. th' = [th EXCEPT ![t] = Goes("create")] \/ th' = [th EXCEPT ![t] = Free]
    BY <1>2, <1>7 DEF SetHash, GoTo, PCs
  <2>2. th[t].pc = "setup" /\ UNCHANGED <<now, table, file, tmp, disturbed>>
    BY <1>7 DEF SetHash
  <2> QED  BY <1>1, <1>2, <1>3, <2>1, <2>2 DEF TableKept, Past, PCs
<1>8. CASE Accept(t)
  <2>1. th' = [th EXCEPT ![t] = Goes("create")] \/ th' = [th EXCEPT ![t] = Goes("rehash")]
    BY <1>2, <1>8 DEF Accept, GoTo, PCs
  <2>2. th[t].pc = "login" /\ UNCHANGED <<now, table, file, tmp, disturbed>>
    BY <1>8 DEF Accept
  <2> QED  BY <1>1, <1>2, <1>3, <2>1, <2>2 DEF TableKept, Past, PCs
<1>9. CASE Rehash(t)
  <2>1. th' = [th EXCEPT ![t] = Goes("create")]
    BY <1>2, <1>9 DEF Rehash, GoTo, PCs
  <2>2. th[t].pc = "rehash" /\ UNCHANGED <<now, table, file, tmp, disturbed>>
    BY <1>9 DEF Rehash
  <2> QED  BY <1>1, <1>2, <1>3, <2>1, <2>2 DEF TableKept, Past, PCs
<1>10. CASE Create(t)
  <2>0. issued # Tokens /\ issued \subseteq Tokens
    BY <1>10 DEF Create, IInv, TablesInv
  <2>1. PICK token \in Tokens : token = CHOOSE k \in Tokens : k \notin issued
    BY <2>0
  <2> DEFINE e    == [created |-> now, seen |-> now]
             more == [k \in DOMAIN Pruned(table) \cup {token} |->
                        IF k = token THEN e ELSE table[k]]
  <2>2. table' = more \/ \E k \in DOMAIN more : table' = Restrict(more, DOMAIN more \ {k})
    BY <1>10, <2>1, ZenonT(60) DEF Create
  <2>3. /\ Past(Pruned(table)) /\ \A k \in DOMAIN Pruned(table) : Pruned(table)[k] = table[k]
        /\ e \in Entry /\ e.seen <= now
    <3>1. e \in Entry /\ e.seen <= now
      BY <1>3 DEF Entry
    <3>2. Past(Pruned(table)) /\ \A k \in DOMAIN Pruned(table) : Pruned(table)[k] = table[k]
      BY <1>3, PrunedIsPast
    <3> QED  BY <3>1, <3>2
  <2>4. /\ DOMAIN more = DOMAIN Pruned(table) \cup {token}
        /\ more = [k \in DOMAIN Pruned(table) \cup {token} |->
                     IF k = token THEN e ELSE Pruned(table)[k]]
    BY <2>3
  <2> HIDE DEF more, e
  <2>5. Past(more)
    BY <2>3, <2>4, WithEntryIsPast
  <2>6. Past(table')
    <3>1. CASE table' = more
      BY <2>5, <3>1 DEF Past
    <3>2. CASE \E k \in DOMAIN more : table' = Restrict(more, DOMAIN more \ {k})
      BY <2>5, <3>2, RestrictIsPast DEF Past
    <3> QED  BY <2>2, <3>1, <3>2
  <2>7. th' = [th EXCEPT ![t] = Goes("snapshot")]
    BY <1>2, <1>10 DEF Create, GoTo, PCs
  <2>8. th[t].pc = "create" /\ UNCHANGED <<now, file, tmp, disturbed>>
    BY <1>10 DEF Create
  <2> QED  BY <1>1, <1>2, <2>6, <2>7, <2>8 DEF PCs
<1>11. CASE \E k \in issued : LogOut(t, k)
  <2>1. PICK k \in issued : LogOut(t, k)
    BY <1>11
  <2>2. th' = [th EXCEPT ![t] = Goes("snapshot")]
    BY <1>2, <2>1 DEF LogOut, GoTo, PCs
  <2>3. th[t].pc = "idle" /\ UNCHANGED <<now, file, tmp, disturbed>>
          /\ table' = Restrict(table, DOMAIN table \ {k})
    BY <2>1 DEF LogOut
  <2>4. Past(table')
    BY <1>3, <2>3, RestrictIsPast DEF Past
  <2> QED  BY <1>1, <1>2, <2>2, <2>3, <2>4 DEF PCs
<1>12. CASE LogOutAll(t) \/ EndSessions(t)
  <2>1. th' = [th EXCEPT ![t] = Goes("snapshot")]
    BY <1>2, <1>12 DEF LogOutAll, EndSessions, GoTo, PCs
  <2>2. th[t].pc \in {"idle", "clear"} /\ UNCHANGED <<now, file, tmp, disturbed>>
          /\ table' = Empty
    BY <1>12 DEF LogOutAll, EndSessions
  <2> QED  BY <1>1, <1>2, <2>1, <2>2, EmptyIsPast DEF PCs, Past
<1>13. CASE ChangePassword(t)
  <2>1. th' = [th EXCEPT ![t] = Goes("clear")]
    BY <1>2, <1>13 DEF ChangePassword, GoTo, PCs
  <2>2. th[t].pc = "password" /\ UNCHANGED <<now, table, file, tmp, disturbed>>
    BY <1>13 DEF ChangePassword
  <2> QED  BY <1>1, <1>2, <1>3, <2>1, <2>2 DEF TableKept, Past, PCs
<1>14. CASE List(t)
  <2>1. th' = [th EXCEPT ![t] = th[t]] /\ th[t].pc = "idle" /\ table' = Pruned(table)
          /\ UNCHANGED <<now, file, tmp, disturbed>>
    BY <1>3, <1>14 DEF List
  <2>2. Past(table')
    BY <1>3, <2>1, PrunedIsPast DEF Past
  <2> QED  BY <1>1, <2>1, <2>2 DEF TableKept
<1>15. CASE \E k \in issued : Use(t, k)
  <2> DEFINE known == Pruned(table)
  <2>1. PICK k \in issued : Use(t, k)
    BY <1>15
  <2>2. /\ Past(known) /\ DOMAIN known \subseteq DOMAIN table
        /\ \A l \in DOMAIN known : known[l] = table[l]
    BY <1>3, PrunedIsPast
  <2>3. table' = IF k \in DOMAIN known THEN [known EXCEPT ![k].seen = now] ELSE known
    BY <2>1 DEF Use
  <2>4. th[t].pc = "idle" /\ UNCHANGED <<now, file, tmp, disturbed>>
    BY <2>1 DEF Use
  <2>5. th' = [th EXCEPT ![t] = Goes("snapshot")] \/ th' = [th EXCEPT ![t] = Goes("idle")]
    BY <1>2, <2>1 DEF Use, GoTo, PCs
  <2>6. TableKept
    BY <2>3 DEF TableKept
  <2>7. Past(table')
    <3>1. CASE k \in DOMAIN known
      <4> DEFINE e == [known[k] EXCEPT !.seen = now]
      <4>1. known \in [DOMAIN known -> Entry] /\ DOMAIN known \subseteq Tokens
        BY <2>2, TableParts DEF Past
      <4>2. e \in Entry /\ e.seen = now
        BY <1>3, <3>1, <4>1 DEF Entry
      <4>3. table' = [known EXCEPT ![k] = e]
        BY <2>3, <3>1
      <4> HIDE DEF e, known
      <4>4. DOMAIN table' = DOMAIN known \cup {k}
              /\ table' = [l \in DOMAIN known \cup {k} |-> IF l = k THEN e ELSE known[l]]
        BY <3>1, <4>1, <4>3
      <4>5. Past(table') 
        <5>1. k \in Tokens /\ e.seen <= now
          BY <1>3, <3>1, <4>1, <4>2
        <5> QED  BY <2>2, <4>2, <4>4, <5>1, WithEntryIsPast
      <4> QED  BY <4>5
    <3>2. CASE k \notin DOMAIN known
      BY <2>2, <2>3, <2>4, <3>2 DEF Past
    <3> QED  BY <3>1, <3>2
  <2> QED  BY <1>1, <1>2, <2>4, <2>5, <2>6, <2>7 DEF PCs
<1> QED
  BY <1>4, <1>5, <1>6, <1>7, <1>8, <1>9, <1>10, <1>11, <1>12, <1>13, <1>14, <1>15 DEF Requesting

-----------------------------------------------------------------------------
(* The steps with the file, and what becomes of the threads.               *)

\* A request that writes goes through the parts of the write one by one.
LEMMA WriteMoves ==
  ASSUME IInv, NEW t \in Requests, Snapshot(t) \/ Truncate(t) \/ Fill(t)
  PROVE  /\ UNCHANGED <<now, table>>
         /\ \E r \in Thread :
              /\ th' = [th EXCEPT ![t] = r] /\ r.pc \in {"truncate", "fill", "rename"}
              /\ r.snap \in {th[t].snap, table}
              /\ Snapshot(t) => r.snap = table /\ r.pc = "truncate"
              /\ Truncate(t) => r.snap = th[t].snap /\ r.pc = "fill" /\ r.opened = "tmp"
              /\ Fill(t) => r.snap = th[t].snap /\ r.pc = "rename"
         /\ Snapshot(t) => th[t].pc = "snapshot"
         /\ Truncate(t) => th[t].pc = "truncate"
         /\ Fill(t) => th[t].pc = "fill"
<1>1. th[t] \in Thread /\ table \in Tables
  BY ThreadOf DEF IInv, TablesInv, Past
<1> USE DEF IsAt, Thread, PCs
<1>2. CASE Snapshot(t)
  <2> DEFINE r == [th[t] EXCEPT !.snap = table, !.pc = "truncate"]
  <2>1. r \in Thread /\ r.snap = table /\ r.pc = "truncate"
    BY <1>1
  <2>2. th' = [th EXCEPT ![t] = r]
    BY <1>2 DEF Snapshot
  <2> HIDE DEF r
  <2> QED  BY <1>2, <2>1, <2>2 DEF Snapshot, Truncate, Fill
<1>3. CASE Truncate(t)
  <2> DEFINE r == [th[t] EXCEPT !.pc = "fill", !.opened = "tmp"]
  <2>1. r \in Thread /\ r.snap = th[t].snap /\ r.pc = "fill" /\ r.opened = "tmp"
    BY <1>1
  <2>2. th' = [th EXCEPT ![t] = r]
    BY <1>3 DEF Truncate
  <2> HIDE DEF r
  <2> QED  BY <1>3, <2>1, <2>2 DEF Snapshot, Truncate, Fill
<1>4. CASE Fill(t)
  <2> DEFINE r == [th[t] EXCEPT !.pc = "rename"]
  <2>1. r \in Thread /\ r.snap = th[t].snap /\ r.pc = "rename"
    BY <1>1
  <2>2. th' = [th EXCEPT ![t] = r]
    BY <1>4 DEF Fill, GoTo
  <2> HIDE DEF r
  <2> QED  BY <1>4, <2>1, <2>2 DEF Snapshot, Truncate, Fill
<1> QED  BY <1>2, <1>3, <1>4

\* A rename ends the request and tells the others what became of the file they opened.
LEMMA RenameMoves ==
  ASSUME IInv, NEW t \in Requests, Rename(t)
  PROVE  /\ th[t].pc = "rename" /\ file' = tmp /\ tmp' = NoFile
         /\ UNCHANGED <<now, table, disturbed>>
         /\ th' \in [Requests -> Thread] /\ th'[t] = Free
         /\ \A u \in Requests \ {t} : /\ th'[u].pc = th[u].pc /\ th'[u].snap = th[u].snap
                                      /\ th'[u].pass = th[u].pass
                                      /\ th'[u].client = th[u].client
<1> DEFINE became(place) == CASE place = "tmp"  -> "file"
                              [] place = "file" -> "gone"
                              [] OTHER          -> place
<1>1. /\ th[t].pc = "rename" /\ file' = tmp /\ tmp' = NoFile
      /\ UNCHANGED <<now, table, disturbed>>
      /\ th' = [u \in Requests |->
                  IF u = t THEN Free ELSE [th[u] EXCEPT !.opened = became(th[u].opened)]]
  BY DEF Rename, IsAt
<1>2. \A u \in Requests : th[u] \in Thread /\ Free \in Thread
  BY ThreadOf
<1>3. \A u \in Requests : became(th[u].opened) \in {"", "tmp", "file", "gone"}
  BY <1>2 DEF Thread
<1> HIDE DEF became
<1>4. \A u \in Requests :
        /\ [th[u] EXCEPT !.opened = became(th[u].opened)] \in Thread
        /\ [th[u] EXCEPT !.opened = became(th[u].opened)].pc = th[u].pc
        /\ [th[u] EXCEPT !.opened = became(th[u].opened)].snap = th[u].snap
        /\ [th[u] EXCEPT !.opened = became(th[u].opened)].pass = th[u].pass
        /\ [th[u] EXCEPT !.opened = became(th[u].opened)].client = th[u].client
  BY <1>2, <1>3 DEF Thread
<1> QED  BY <1>1, <1>2, <1>4

\* A write that fails is remembered as a disturbance; a restart ends all requests.
LEMMA EndMoves ==
  ASSUME IInv, Restart \/ \E t \in Requests : FailWrite(t)
  PROVE  /\ now' = now
         /\ \/ disturbed' = TRUE /\ UNCHANGED <<table, file, tmp>>
               /\ \E t \in Requests : th' = [th EXCEPT ![t] = Free]
            \/ /\ th' = [t \in Requests |-> Free] /\ disturbed' = FALSE
               /\ \/ /\ IsTable(file) /\ file' = table' /\ tmp' = NoFile /\ table' = Pruned(file)
                  \/ ~IsTable(file) /\ table' = Empty /\ UNCHANGED <<file, tmp>>
  BY DEF Restart, FailWrite

-----------------------------------------------------------------------------
(* The invariant.                                                          *)

\* Tables, copies and files keep their types, and tell nothing of the future.
LEMMA TablesInvKept ==
  ASSUME IInv, Next
  PROVE  TablesInv'
<1>1. /\ now \in Nat /\ Past(table) /\ disturbed \in BOOLEAN /\ issued \subseteq Tokens
      /\ \A f \in {file, tmp} : f \in {NoFile, Broken} \/ Past(f)
      /\ \A t \in Requests : Past(th[t].snap)
  BY ThreadOf DEF IInv, TablesInv
<1>2. issued' \subseteq Tokens
  <2>1. CASE \E t \in Requests : Create(t)
    BY <1>1, <2>1 DEF Create
  <2>2. CASE ~\E t \in Requests : Create(t)
    <3>1. issued' = issued
      BY <2>2 DEF Next, Begin, AskPassword, LogOut, Use, Refuse, SetHash, Accept, Rehash, List,
                  LogOutAll, ChangePassword, EndSessions, Persist, Snapshot, Truncate, Fill,
                  Rename, FailWrite, Restart, Tick, files
    <3> QED  BY <1>1, <3>1
  <2> QED  BY <2>1, <2>2
<1>3. /\ now' \in Nat /\ now <= now' /\ disturbed' \in BOOLEAN
      /\ Past(table')
      /\ \A f \in {file', tmp'} : f \in {NoFile, Broken} \/ Past(f)
  <2>1. CASE \E t \in Requests : Requesting(t)
    BY <1>1, <2>1, RequestMoves
  <2>2. CASE \E t \in Requests : Snapshot(t)
    BY <1>1, <2>2 DEF Snapshot
  <2>3. CASE \E t \in Requests : Truncate(t)
    BY <1>1, <2>3 DEF Truncate
  <2>4. CASE \E t \in Requests : Fill(t)
    BY <1>1, <2>4 DEF Fill
  <2>5. CASE \E t \in Requests : Rename(t)
    BY <1>1, <2>5, RenameMoves
  <2>6. CASE Restart \/ \E t \in Requests : FailWrite(t)
    <3>0. now' = now
      BY <2>6, EndMoves
    <3>1. CASE disturbed' = TRUE /\ UNCHANGED <<table, file, tmp>>
      BY <1>1, <3>0, <3>1
    <3>2. CASE /\ IsTable(file) /\ file' = table' /\ tmp' = NoFile /\ table' = Pruned(file)
               /\ disturbed' = FALSE
      <4>1. Past(file)
        BY <1>1, <3>2 DEF IsTable
      <4>2. Past(Pruned(file))
        BY <4>1, PrunedIsPast
      <4>3. PICK g : g = Pruned(file) /\ Past(g)
        BY <4>2
      <4>4. file' = g /\ table' = g /\ tmp' = NoFile
        BY <3>2, <4>3
      <4>5. disturbed' \in BOOLEAN /\ now' \in Nat /\ now <= now'
        <5>1. disturbed' \in BOOLEAN
          BY <3>2
        <5>2. now' \in Nat /\ now <= now'
          BY <1>1, <3>0
        <5> QED  BY <5>1, <5>2
      <4> QED  BY <4>3, <4>4, <4>5
    <3>3. CASE table' = Empty /\ UNCHANGED <<file, tmp>> /\ disturbed' = FALSE
      <4>1. PICK g : g = Empty /\ Past(g)
        BY EmptyIsPast
      <4>2. table' = g /\ UNCHANGED <<file, tmp>>
        BY <3>3, <4>1
      <4>3. disturbed' \in BOOLEAN /\ now' \in Nat /\ now <= now'
        <5>1. disturbed' \in BOOLEAN
          BY <3>3
        <5>2. now' \in Nat /\ now <= now'
          BY <1>1, <3>0
        <5> QED  BY <5>1, <5>2
      <4> QED  BY <1>1, <4>1, <4>2, <4>3
    <3> QED  BY <2>6, <3>1, <3>2, <3>3, EndMoves
  <2>7. CASE Tick
    BY <1>1, <2>7 DEF Tick, files
  <2> QED  BY <2>1, <2>2, <2>3, <2>4, <2>5, <2>6, <2>7, NextSteps
<1>4. ASSUME NEW f, Past(f)
      PROVE  f \in Tables /\ \A k \in DOMAIN f : f[k].seen <= now'
  <2>1. f \in [DOMAIN f -> Entry]
    BY <1>4, TableParts DEF Past
  <2> QED  BY <1>1, <1>3, <1>4, <2>1 DEF Past, Entry
<1> QED  BY <1>2, <1>3, <1>4 DEF TablesInv, Past

\* Threads keep their types, and the passwords they ask for.
LEMMA ThreadsInvKept ==
  ASSUME IInv, Next
  PROVE  /\ ThreadsInv'
         /\ \A t \in Requests : th'[t].pc \in Asking => th'[t].pass \in Passwords
<1>1. /\ th \in [Requests -> Thread] /\ Free \in Thread /\ Free.snap = Empty /\ Free.pc = "idle"
      /\ \A t \in Requests : /\ Past(th[t].snap)
                             /\ th[t].pc \in Asking => th[t].pass \in Passwords
  BY ThreadOf, FreeParts DEF IInv, ThreadsInv, Thread
<1>2. /\ th' \in [Requests -> Thread]
      /\ \A t \in Requests : /\ Past(th'[t].snap)
                             /\ th'[t].pc \in Asking => th'[t].pass \in Passwords
  <2>1. CASE \E t \in Requests : Requesting(t)
    <3>1. PICK t \in Requests : Requesting(t)
      BY <2>1
    <3>2. PICK r \in Thread : /\ th' = [th EXCEPT ![t] = r] /\ r.snap \in {th[t].snap, Empty}
                              /\ r.pc \in Asking => r.pass \in Passwords
      BY <3>1, RequestMoves
    <3> QED  BY <1>1, <3>2, EmptyIsPast
  <2>2. CASE \E t \in Requests : Snapshot(t) \/ Truncate(t) \/ Fill(t)
    <3>1. PICK t \in Requests : Snapshot(t) \/ Truncate(t) \/ Fill(t)
      BY <2>2
    <3>2. PICK r \in Thread : /\ th' = [th EXCEPT ![t] = r] /\ r.snap \in {th[t].snap, table}
                              /\ r.pc \in {"truncate", "fill", "rename"}
      BY <3>1, WriteMoves
    <3>3. Past(table)
      BY DEF IInv, TablesInv
    <3> QED  BY <1>1, <3>2, <3>3 DEF Asking
  <2>3. CASE \E t \in Requests : Rename(t)
    BY <1>1, <2>3, RenameMoves, EmptyIsPast DEF Asking
  <2>4. CASE Restart \/ \E t \in Requests : FailWrite(t)
    BY <1>1, <2>4, EndMoves, EmptyIsPast DEF Asking
  <2>5. CASE Tick
    BY <1>1, <2>5 DEF Tick
  <2> QED  BY <2>1, <2>2, <2>3, <2>4, <2>5, NextSteps
<1>3. now \in Nat /\ now' \in Nat /\ now <= now'
  <2>1. now \in Nat
    BY DEF IInv, TablesInv
  <2>2. now' = now \/ now' = now + 1
    BY RequestMoves, WriteMoves, RenameMoves, EndMoves, NextSteps DEF Tick
  <2> QED  BY <2>1, <2>2
<1>4. ASSUME NEW f, Past(f)
      PROVE  f \in Tables /\ \A k \in DOMAIN f : f[k].seen <= now'
  <2>1. f \in [DOMAIN f -> Entry]
    BY <1>4, TableParts DEF Past
  <2> QED  BY <1>3, <1>4, <2>1 DEF Past, Entry
<1> QED  BY <1>2, <1>4 DEF ThreadsInv, Thread, Past

\* One setup succeeds: from then on a password is stored.
LEMMA HashInvKept ==
  ASSUME IInv, Next
  PROVE  HashInv'
<1>1. \A t \in Requests : th[t].pc \in Asking => th[t].pass \in Passwords
  BY ThreadOf
<1>2. setups \in {0, 1} /\ (setups = 1 => hash # NoHash)
  BY DEF IInv, HashInv
<1>3. \/ UNCHANGED <<hash, setups>>
      \/ \E t \in Requests : SetHash(t) \/ Rehash(t) \/ ChangePassword(t)
  <2>1. ASSUME NEW t \in Requests, Requesting(t)
        PROVE  UNCHANGED <<hash, setups>> \/ SetHash(t) \/ Rehash(t) \/ ChangePassword(t)
    BY <2>1 DEF Requesting, Begin, AskPassword, LogOut, Use, Refuse, Accept, Create, List,
                LogOutAll, EndSessions
  <2>2. ASSUME NEW t \in Requests,
               Snapshot(t) \/ Truncate(t) \/ Fill(t) \/ Rename(t) \/ FailWrite(t)
        PROVE  UNCHANGED <<hash, setups>>
    BY <2>2 DEF Snapshot, Truncate, Fill, Rename, FailWrite
  <2>3. Restart \/ Tick => UNCHANGED <<hash, setups>>
    BY DEF Restart, Tick
  <2> QED  BY <2>1, <2>2, <2>3, NextSteps
<1>4. setups' \in {0, 1} /\ (setups' = 1 => hash' # NoHash)
  <2>1. ASSUME NEW t \in Requests, th[t].pc \in Asking,
               hash' = [pass |-> th[t].pass, legacy |-> FALSE]
        PROVE  hash' # NoHash
    BY <1>1, <2>1, SessionsAssumption DEF NoHash
  <2>2. CASE \E t \in Requests : SetHash(t)
    BY <1>2, <2>1, <2>2 DEF SetHash, IsAt, Asking
  <2>3. CASE \E t \in Requests : Rehash(t) \/ ChangePassword(t)
    BY <1>2, <2>1, <2>3 DEF Rehash, ChangePassword, IsAt, Asking
  <2> QED  BY <1>2, <1>3, <2>2, <2>3
<1> QED  BY <1>4, ThreadsInvKept DEF HashInv, Asking

\* One writer at a time, as long as no writes overlap, with the temporary file to itself.
LEMMA WriterInvKept ==
  ASSUME IInv, Next
  PROVE  WriterInv'
<1>1. th \in [Requests -> Thread] /\ Free.pc = "idle"
  BY FreeParts DEF IInv, ThreadsInv, Thread
<1>2. WriterInv
  BY DEF IInv
<1> USE DEF WriterInv, Writing, IsAt
<1>3. CASE \E t \in Requests : Requesting(t)
  <2>1. PICK t \in Requests : Requesting(t)
    BY <1>3
  <2>2. PICK r \in Thread : th' = [th EXCEPT ![t] = r] /\ r.pc \notin Persisting \ {"snapshot"}
    BY <2>1, RequestMoves
  <2>3. UNCHANGED <<tmp, disturbed>>
    BY <2>1, RequestMoves
  <2> QED  BY <1>1, <1>2, <2>2, <2>3 DEF Persisting
<1>4. CASE \E t \in Requests : Snapshot(t)
  <2>1. PICK t \in Requests : Snapshot(t)
    BY <1>4
  <2>2. PICK r \in Thread : th' = [th EXCEPT ![t] = r] /\ r.pc = "truncate"
    BY <2>1, WriteMoves
  <2>3. disturbed' = (\E u \in Requests : Writing(u)) /\ tmp' = tmp
    BY <2>1 DEF Snapshot
  <2>4. CASE disturbed'
    BY <2>4
  <2>5. CASE \A u \in Requests : ~Writing(u)
    BY <1>1, <2>2, <2>5
  <2> QED  BY <2>3, <2>4, <2>5
<1>5. CASE \E t \in Requests : Truncate(t)
  <2>1. PICK t \in Requests : Truncate(t)
    BY <1>5
  <2>2. PICK r \in Thread : th' = [th EXCEPT ![t] = r] /\ r.pc = "fill" /\ r.opened = "tmp"
    BY <2>1, WriteMoves
  <2>3. disturbed' = disturbed /\ tmp' = Broken /\ th[t].pc = "truncate"
    BY <2>1 DEF Truncate
  <2> QED  BY <1>1, <1>2, <2>2, <2>3
<1>6. CASE \E t \in Requests : Fill(t)
  <2>1. PICK t \in Requests : Fill(t)
    BY <1>6
  <2>2. PICK r \in Thread : th' = [th EXCEPT ![t] = r] /\ r.pc = "rename" /\ r.snap = th[t].snap
    BY <2>1, WriteMoves
  <2>3. disturbed' = disturbed /\ th[t].pc = "fill"
    BY <2>1 DEF Fill
  <2>4. ~disturbed => tmp' = th[t].snap
    <3>1. ~disturbed => th[t].opened = "tmp" /\ tmp = Broken
      BY <1>2, <2>3
    <3> QED  BY <2>1, <3>1 DEF Fill
  <2> QED  BY <1>1, <1>2, <2>2, <2>3, <2>4
<1>7. CASE \E t \in Requests : Rename(t)
  <2>1. PICK t \in Requests : Rename(t)
    BY <1>7
  <2>2. /\ th[t].pc = "rename" /\ disturbed' = disturbed /\ th'[t].pc = "idle"
        /\ \A u \in Requests \ {t} : th'[u].pc = th[u].pc
    BY <1>1, <2>1, RenameMoves
  <2>3. ~disturbed => \A u \in Requests : th'[u].pc \notin {"truncate", "fill", "rename"}
    BY <1>2, <2>2
  <2> QED  BY <2>2, <2>3
<1>8. CASE Restart \/ \E t \in Requests : FailWrite(t)
  <2>1. CASE disturbed' = TRUE
    BY <2>1
  <2>2. CASE th' = [t \in Requests |-> Free]
    BY <1>1, <2>2
  <2> QED  BY <1>8, <2>1, <2>2, EndMoves
<1>9. CASE Tick
  BY <1>2, <1>9 DEF Tick, files
<1> QED  BY <1>3, <1>4, <1>5, <1>6, <1>7, <1>8, <1>9, NextSteps

-----------------------------------------------------------------------------
(* What is the last word on the sessions.                                  *)

FreshAt(at, e) == at - e.created <= Lifetime /\ at - e.seen <= Inactive

\* Matches, of any table at any time.
Agrees(tb, at, f) ==
  /\ DOMAIN tb \subseteq KeysOf(f)
  /\ \A k \in KeysOf(f) : FreshAt(at, f[k]) => k \in DOMAIN tb
  /\ \A k \in DOMAIN tb : f[k].created = tb[k].created /\ f[k].seen <= tb[k].seen

\* The limits are numbers.
LEMMA LimitsAreNumbers == Lifetime \in Nat /\ Inactive \in Nat
<1>1. Lifetime \in Nat \ {0} /\ Inactive \in Nat \ {0}
  BY SessionsAssumption, Zenon
<1> QED  BY <1>1

\* Both say the same.
LEMMA MatchesIsAgrees ==
  /\ \A f : Matches(f) <=> Agrees(table, now, f)
  /\ \A s : Fresh(s) <=> FreshAt(now, s)
  BY DEF Matches, Agrees, Fresh, FreshAt

\* A table agrees with its copy.
LEMMA AgreesWithItself ==
  ASSUME NEW f \in Tables, NEW at
  PROVE  Agrees(f, at, f)
<1>1. KeysOf(f) = DOMAIN f /\ f \in [DOMAIN f -> Entry]
  BY TableParts, TablesAreFiles
<1> QED  BY <1>1 DEF Agrees, Entry

\* It does so as time goes by.
LEMMA AgreesLater ==
  ASSUME NEW tb, NEW at \in Nat, NEW f, f \in {NoFile, Broken} \/ f \in Tables,
         Agrees(tb, at, f)
  PROVE  Agrees(tb, at + 1, f)
<1>1. \A k \in KeysOf(f) : f[k] \in Entry
  BY TableParts, TablesAreFiles, MarksHaveNoKeys
<1>2. \A k \in KeysOf(f) : FreshAt(at + 1, f[k]) => FreshAt(at, f[k])
  BY <1>1, LimitsAreNumbers DEF FreshAt, Entry
<1> QED  BY <1>2 DEF Agrees

\* And as long as the table changes only in ways that need no write: a session that is
\* removed has expired in the file too, and one that is used is older there.
LEMMA AgreesKept ==
  ASSUME now \in Nat, Past(table), TableKept,
         NEW f, f \in {NoFile, Broken} \/ Past(f), Agrees(table, now, f)
  PROVE  Agrees(table', now, f)
<1>1. table \in [DOMAIN table -> Entry] /\ \A k \in DOMAIN table : table[k].seen <= now
  BY TableParts DEF Past
<1>2. \A k \in KeysOf(f) : f[k] \in Entry
  BY TableParts, TablesAreFiles, MarksHaveNoKeys DEF Past
<1>3. \A k \in DOMAIN table : /\ k \in KeysOf(f) /\ f[k].created = table[k].created
                              /\ f[k].seen <= table[k].seen
  BY DEF Agrees
<1>4. \A k \in DOMAIN table : FreshAt(now, f[k]) => FreshAt(now, table[k])
  BY <1>1, <1>2, <1>3, LimitsAreNumbers DEF FreshAt, Entry
<1>5. Agrees(Pruned(table), now, f)
  <2>1. /\ DOMAIN Pruned(table) = {k \in DOMAIN table : Fresh(table[k])}
        /\ \A k \in DOMAIN Pruned(table) : Pruned(table)[k] = table[k]
    BY PrunedIsPast
  <2>2. \A k \in DOMAIN table : FreshAt(now, f[k]) => k \in DOMAIN Pruned(table)
    BY <1>4, <2>1, MatchesIsAgrees
  <2> QED  BY <1>3, <2>1, <2>2 DEF Agrees
<1>6. ASSUME NEW k \in DOMAIN Pruned(table), table' = [Pruned(table) EXCEPT ![k].seen = now]
      PROVE  Agrees(table', now, f)
  <2> DEFINE known == Pruned(table)
  <2>1. /\ Past(known) /\ DOMAIN known \subseteq DOMAIN table
        /\ \A l \in DOMAIN known : known[l] = table[l]
    BY PrunedIsPast
  <2>2. known \in [DOMAIN known -> Entry]
    BY <2>1, TableParts DEF Past
  <2> HIDE DEF known
  <2>3. table' = [known EXCEPT ![k].seen = now] /\ k \in DOMAIN known
    BY <1>6 DEF known
  <2>4. /\ DOMAIN table' = DOMAIN known
        /\ \A l \in DOMAIN known : /\ table'[l].created = table[l].created
                                   /\ table'[l].seen = IF l = k THEN now ELSE table[l].seen
    BY <2>1, <2>2, <2>3 DEF Entry
  <2>5. \A l \in DOMAIN known : f[l].seen <= table'[l].seen
    <3> SUFFICES ASSUME NEW l \in DOMAIN known PROVE f[l].seen <= table'[l].seen
      OBVIOUS
    <3>1. f[l].seen <= table[l].seen /\ table[l].seen <= now
      BY <1>1, <1>3, <2>1
    <3>2. f[l].seen \in Nat /\ table[l].seen \in Nat
      BY <1>1, <1>2, <1>3, <2>1 DEF Entry
    <3> QED  BY <2>4, <3>1, <3>2
  <2>6. Agrees(known, now, f)
    BY <1>5 DEF known
  <2> QED  BY <1>3, <2>1, <2>4, <2>5, <2>6 DEF Agrees
<1> QED  BY <1>5, <1>6 DEF TableKept

\* What has to be written is on its way, or has been.
LEMMA LastWordInvKept ==
  ASSUME IInv, Next
  PROVE  LastWordInv'
<1>1. /\ th \in [Requests -> Thread] /\ now \in Nat /\ Past(table)
      /\ \A f \in {file, tmp} : f \in {NoFile, Broken} \/ Past(f)
      /\ \A t \in Requests : Past(th[t].snap)
  BY ThreadOf DEF IInv, ThreadsInv, TablesInv, Thread
<1>2. ~disturbed /\ (\A t \in Requests : th[t].pc # "snapshot") =>
        /\ \A t \in Requests : Writing(t) => Agrees(table, now, th[t].snap)
        /\ (\A t \in Requests : ~Writing(t)) => Agrees(table, now, file)
  BY MatchesIsAgrees DEF IInv, LastWordInv, IsAt
<1>3. ~disturbed' /\ (\A t \in Requests : th'[t].pc # "snapshot") =>
        /\ \A t \in Requests : Writing(t)' => Agrees(table', now', th'[t].snap)
        /\ (\A t \in Requests : ~Writing(t)') => Agrees(table', now', file')
  <2> SUFFICES ASSUME ~disturbed', \A t \in Requests : th'[t].pc # "snapshot"
               PROVE  /\ \A t \in Requests : Writing(t)' => Agrees(table', now', th'[t].snap)
                      /\ (\A t \in Requests : ~Writing(t)') => Agrees(table', now', file')
    OBVIOUS
  <2> USE DEF Writing
  <2>1. CASE \E t \in Requests : Requesting(t)
    <3>1. PICK t \in Requests : Requesting(t)
      BY <2>1
    <3>2. PICK r \in Thread : /\ th' = [th EXCEPT ![t] = r]
                              /\ r.pc \notin Persisting \ {"snapshot"}
                              /\ r.pc = "snapshot" \/ TableKept
      BY <3>1, RequestMoves
    <3>3. UNCHANGED <<now, file, disturbed>> /\ th[t].pc \notin Persisting
      BY <3>1, RequestMoves
    <3>4. TableKept /\ \A u \in Requests : th[u].pc # "snapshot"
      BY <1>1, <3>2, <3>3 DEF Persisting
    <3>5. \A u \in Requests : Writing(u)' => Writing(u) /\ th'[u].snap = th[u].snap
      BY <1>1, <3>2 DEF Persisting
    <3>6. \A u \in Requests : Writing(u) => Writing(u)'
      BY <1>1, <3>2, <3>3 DEF Persisting
    <3>7. \A f : (f \in {NoFile, Broken} \/ Past(f)) /\ Agrees(table, now, f)
                   => Agrees(table', now, f)
      BY <1>1, <3>4, AgreesKept
    <3>8. \A u \in Requests : Writing(u)' => Agrees(table', now, th[u].snap)
      BY <1>1, <1>2, <3>3, <3>4, <3>5, <3>7
    <3>9. (\A u \in Requests : ~Writing(u)') => Agrees(table', now, file)
      BY <1>1, <1>2, <3>3, <3>4, <3>6, <3>7
    <3> QED  BY <3>3, <3>5, <3>8, <3>9
  <2>2. CASE \E t \in Requests : Snapshot(t)
    <3>1. PICK t \in Requests : Snapshot(t)
      BY <2>2
    <3>2. PICK r \in Thread : /\ th' = [th EXCEPT ![t] = r] /\ r.snap = table
                              /\ r.pc = "truncate"
      BY <3>1, WriteMoves
    <3>3. UNCHANGED <<now, table>> /\ \A u \in Requests : ~Writing(u)
      BY <3>1 DEF Snapshot
    <3>4. \A u \in Requests : Writing(u)' => th'[u].snap = table
      BY <1>1, <3>2, <3>3
    <3>5. Writing(t)'
      BY <1>1, <3>2
    <3> QED  BY <1>1, <3>3, <3>4, <3>5, AgreesWithItself DEF Past
  <2>3. CASE \E t \in Requests : Truncate(t) \/ Fill(t)
    <3>1. PICK t \in Requests : Truncate(t) \/ Fill(t)
      BY <2>3
    <3>2. PICK r \in Thread : /\ th' = [th EXCEPT ![t] = r] /\ r.snap = th[t].snap
                              /\ r.pc \in {"fill", "rename"}
      BY <3>1, WriteMoves
    <3>3. UNCHANGED <<now, table, disturbed>> /\ th[t].pc \in {"truncate", "fill"}
      BY <3>1, WriteMoves DEF Truncate, Fill
    <3>4. \A u \in Requests : /\ th[u].pc # "snapshot" /\ th'[u].snap = th[u].snap
                              /\ Writing(u)' => Writing(u)
      BY <1>1, <3>2, <3>3
    <3>5. Writing(t)'
      BY <1>1, <3>2
    <3> QED  BY <1>2, <3>3, <3>4, <3>5
  <2>4. CASE \E t \in Requests : Rename(t)
    <3>1. PICK t \in Requests : Rename(t)
      BY <2>4
    <3>2. /\ th[t].pc = "rename" /\ file' = tmp /\ UNCHANGED <<now, table, disturbed>>
          /\ th'[t].pc = "idle"
          /\ \A u \in Requests \ {t} : th'[u].pc = th[u].pc
      BY <3>1, RenameMoves, FreeParts
    <3>3. tmp = th[t].snap /\ \A u \in Requests : Writing(u) => u = t
      BY <3>2 DEF IInv, WriterInv, IsAt
    <3>4. \A u \in Requests : th[u].pc # "snapshot" /\ ~Writing(u)'
      BY <3>2, <3>3
    <3>5. Agrees(table, now, th[t].snap)
      BY <1>2, <3>2, <3>4
    <3> QED  BY <3>2, <3>3, <3>4, <3>5
  <2>5. CASE Restart \/ \E t \in Requests : FailWrite(t)
    <3>1. now' = now /\ th' = [t \in Requests |-> Free]
      BY <2>5, EndMoves
    <3>2. \A t \in Requests : ~Writing(t)'
      BY <3>1, FreeParts
    <3>3. CASE IsTable(file) /\ file' = table' /\ table' = Pruned(file)
      <4>1. Pruned(file) \in Tables
        BY <1>1, <3>3, PrunedIsPast DEF IsTable, Past
      <4> QED  BY <3>1, <3>2, <3>3, <4>1, AgreesWithItself
    <3>4. CASE ~IsTable(file) /\ table' = Empty /\ UNCHANGED file
      <4>1. KeysOf(file) = {}
        BY <3>4 DEF KeysOf
      <4> QED  BY <3>1, <3>2, <3>4, <4>1, EmptyIsPast DEF Agrees
    <3> QED  BY <2>5, <3>3, <3>4, EndMoves
  <2>6. CASE Tick
    <3>1. now' = now + 1 /\ UNCHANGED <<table, th, file, disturbed>>
      BY <2>6 DEF Tick, files
    <3>2. \A f : (f \in {NoFile, Broken} \/ Past(f)) /\ Agrees(table, now, f)
                   => Agrees(table, now + 1, f)
      BY <1>1, AgreesLater DEF Past
    <3>3. /\ \A u \in Requests : Writing(u) => Agrees(table, now + 1, th[u].snap)
          /\ (\A u \in Requests : ~Writing(u)) => Agrees(table, now + 1, file)
      BY <1>1, <1>2, <3>1, <3>2
    <3> QED  BY <3>1, <3>3
  <2> QED  BY <2>1, <2>2, <2>3, <2>4, <2>5, <2>6, NextSteps
<1> QED  BY <1>3 DEF LastWordInv, IsAt, Matches, Agrees, Fresh, FreshAt, KeysOf, IsTable

-----------------------------------------------------------------------------
(* The sizes of tables.                                                    *)

Few(S) == IsFiniteSet(S) /\ Cardinality(S) <= MaxSessions

\* The numbers that limit sessions and attempts, and how many requests there are.
LEMMA SizesAreNumbers ==
  /\ MaxSessions \in Nat \ {0} /\ Limit \in Nat \ {0} /\ MaxClients \in Nat \ {0}
  /\ Window \in Nat \ {0} /\ MaxEvents \in Nat /\ Cardinality(Requests) \in Nat
<1>1. MaxSessions \in Nat \ {0} /\ Limit \in Nat \ {0} /\ MaxClients \in Nat \ {0}
        /\ Window \in Nat \ {0} /\ MaxEvents \in Nat
  BY SessionsAssumption, Zenon
<1>2. Cardinality(Requests) \in Nat
  BY RequestsAssumption, FS_CardinalityType
<1> QED  BY <1>1, <1>2

\* A part of few is few.
LEMMA FewStays ==
  ASSUME NEW S, Few(S), NEW T \in SUBSET S
  PROVE  Few(T)
<1>1. IsFiniteSet(S) /\ IsFiniteSet(T) /\ Cardinality(T) <= Cardinality(S)
  BY FS_Subset DEF Few
<1>2. Cardinality(S) \in Nat /\ Cardinality(T) \in Nat
  BY <1>1, FS_CardinalityType
<1> QED  BY <1>1, <1>2, SizesAreNumbers DEF Few

\* So is nothing.
LEMMA NothingIsFew == Few({})
  BY FS_EmptySet, SizesAreNumbers DEF Few

\* Of one more than few, few are left when one goes.
LEMMA FewAfterOneMore ==
  ASSUME NEW S, Few(S), NEW x, NEW y \in S \cup {x}
  PROVE  Few((S \cup {x}) \ {y})
<1> DEFINE M == S \cup {x}
<1>1. IsFiniteSet(M) /\ Cardinality(M) <= Cardinality(S) + 1
  <2>1. IsFiniteSet(S) /\ Cardinality(S) \in Nat
    BY FS_CardinalityType DEF Few
  <2>2. IsFiniteSet(M)
        /\ Cardinality(M) = IF x \in S THEN Cardinality(S) ELSE Cardinality(S) + 1
    BY <2>1, FS_AddElement
  <2> HIDE DEF M
  <2> QED  BY <2>1, <2>2
<1>2. y \in M
  OBVIOUS
<1> HIDE DEF M
<1>3. IsFiniteSet(M \ {y}) /\ Cardinality(M \ {y}) = Cardinality(M) - 1
  BY <1>1, <1>2, FS_RemoveElement
<1>4. Cardinality(M) \in Nat /\ Cardinality(S) \in Nat
  BY <1>1, FS_CardinalityType DEF Few
<1> QED  BY <1>1, <1>3, <1>4, SizesAreNumbers DEF Few, M

\* Sessions are given out and stay so.
LEMMA IssuedGrows ==
  ASSUME Next
  PROVE  issued \subseteq issued'
<1>1. CASE \E t \in Requests : Create(t)
  BY <1>1 DEF Create
<1>2. CASE ~\E t \in Requests : Create(t)
  <2>1. ASSUME NEW t \in Requests, Requesting(t)
        PROVE  issued' = issued
    BY <1>2, <2>1 DEF Requesting, Begin, AskPassword, LogOut, Use, Refuse, SetHash, Accept,
                      Rehash, List, LogOutAll, ChangePassword, EndSessions
  <2>2. ASSUME NEW t \in Requests,
               Snapshot(t) \/ Truncate(t) \/ Fill(t) \/ Rename(t) \/ FailWrite(t)
        PROVE  issued' = issued
    BY <2>2 DEF Snapshot, Truncate, Fill, Rename, FailWrite
  <2>3. Restart \/ Tick => issued' = issued
    BY DEF Restart, Tick
  <2> QED  BY <2>1, <2>2, <2>3, NextSteps
<1> QED  BY <1>1, <1>2

\* The table of a request keeps to its limit: one that is new takes the place of another.
LEMMA TableStaysSmall ==
  ASSUME IInv, NEW t \in Requests, Requesting(t), issued \subseteq issued'
  PROVE  DOMAIN table' \subseteq issued' /\ Few(DOMAIN table')
<1>1. Past(table) /\ DOMAIN table \subseteq issued /\ Few(DOMAIN table) /\ issued \subseteq Tokens
  BY DEF IInv, TablesInv, SizesInv, GivenOut, Few
<1>2. Past(Pruned(table)) /\ DOMAIN Pruned(table) \subseteq DOMAIN table
  BY <1>1, PrunedIsPast
<1>3. CASE Create(t)
  <2>0. issued # Tokens
    BY <1>3 DEF Create
  <2>1. PICK token \in Tokens : token = CHOOSE k \in Tokens : k \notin issued
    BY <1>1, <2>0
  <2> DEFINE more == [k \in DOMAIN Pruned(table) \cup {token} |->
                        IF k = token THEN [created |-> now, seen |-> now] ELSE table[k]]
             D    == DOMAIN Pruned(table)
  <2>2. /\ issued' = issued \cup {token}
        /\ \/ Cardinality(DOMAIN more) <= MaxSessions /\ table' = more
           \/ \E k \in DOMAIN more : table' = Restrict(more, DOMAIN more \ {k})
    BY <1>3, <2>1 DEF Create
  <2>3. DOMAIN more = D \cup {token}
    OBVIOUS
  <2> HIDE DEF more
  <2>4. D \subseteq issued /\ Few(D)
    BY <1>1, <1>2, FewStays
  <2> HIDE DEF D
  <2>5. DOMAIN more \subseteq issued' /\ IsFiniteSet(DOMAIN more)
    BY <2>2, <2>3, <2>4, FS_AddElement DEF Few
  <2>6. CASE Cardinality(DOMAIN more) <= MaxSessions /\ table' = more
    BY <2>5, <2>6 DEF Few
  <2>7. CASE \E k \in DOMAIN more : table' = Restrict(more, DOMAIN more \ {k})
    <3>1. PICK k \in DOMAIN more : table' = Restrict(more, DOMAIN more \ {k})
      BY <2>7
    <3>2. DOMAIN table' = (D \cup {token}) \ {k}
      BY <2>3, <3>1 DEF Restrict
    <3>3. Few((D \cup {token}) \ {k})
      BY <2>3, <2>4, FewAfterOneMore
    <3> QED  BY <2>3, <2>5, <3>2, <3>3
  <2> QED  BY <2>2, <2>6, <2>7
<1>4. CASE ~Create(t)
  <2>1. DOMAIN table' \subseteq DOMAIN table
    <3>1. CASE \E k \in issued : LogOut(t, k)
      BY <3>1 DEF LogOut, Restrict
    <3>2. CASE LogOutAll(t) \/ EndSessions(t)
      BY <3>2, EmptyIsPast DEF LogOutAll, EndSessions
    <3>3. CASE List(t)
      BY <1>2, <3>3 DEF List
    <3>4. CASE \E k \in issued : Use(t, k)
      <4>1. PICK k \in issued : Use(t, k)
        BY <3>4
      <4>2. \/ table' = [Pruned(table) EXCEPT ![k].seen = now]
            \/ table' = Pruned(table)
        BY <4>1 DEF Use
      <4>3. DOMAIN table' = DOMAIN Pruned(table)
        BY <4>2
      <4> QED  BY <1>2, <4>3
    <3>5. CASE UNCHANGED table
      BY <3>5
    <3> QED
      BY <1>4, <3>1, <3>2, <3>3, <3>4, <3>5
      DEF Requesting, Begin, AskPassword, Refuse, SetHash, Accept, Rehash, ChangePassword
  <2> QED  BY <1>1, <2>1, FewStays
<1> QED  BY <1>3, <1>4

\* Tables, copies and files keep to the limit.
LEMMA SizesInvKept ==
  ASSUME IInv, Next
  PROVE  SizesInv'
<1> DEFINE Fits(f) == DOMAIN f \subseteq issued' /\ Few(DOMAIN f)
<1>1. issued \subseteq issued'
  BY IssuedGrows
<1>2. /\ Fits(table) /\ \A t \in Requests : Fits(th[t].snap)
      /\ \A f \in {file, tmp} : IsTable(f) => Fits(f)
      /\ th \in [Requests -> Thread] /\ Past(table)
      /\ \A f \in {file, tmp} : f \in {NoFile, Broken} \/ Past(f)
  BY <1>1 DEF IInv, SizesInv, GivenOut, Few, TablesInv, ThreadsInv, Thread
<1>3. Fits(Empty) /\ Free.snap = Empty
  BY EmptyIsPast, NothingIsFew, FreeParts
<1>4. events' \in 0..MaxEvents
  <2>1. events \in 0..MaxEvents
    BY DEF IInv, SizesInv
  <2>2. events' = events \/ (events < MaxEvents /\ events' = events + 1)
    <3>1. ASSUME NEW t \in Requests, Requesting(t)
          PROVE  events' = events \/ Event
      BY <3>1 DEF Requesting, Begin, AskPassword, LogOut, Use, Refuse, SetHash, Accept, Rehash,
                  Create, List, LogOutAll, ChangePassword, EndSessions
    <3>2. ASSUME NEW t \in Requests,
                 Snapshot(t) \/ Truncate(t) \/ Fill(t) \/ Rename(t) \/ FailWrite(t)
          PROVE  events' = events
      BY <3>2 DEF Snapshot, Truncate, Fill, Rename, FailWrite
    <3>3. Restart \/ Tick => events' = events \/ Event
      BY DEF Restart, Tick
    <3> QED  BY <3>1, <3>2, <3>3, NextSteps DEF Event
  <2> QED  BY <2>1, <2>2, SizesAreNumbers
<1>5. /\ Fits(table') /\ \A t \in Requests : Fits(th'[t].snap)
      /\ \A f \in {file', tmp'} : IsTable(f) => Fits(f)
  <2>1. CASE \E t \in Requests : Requesting(t)
    <3>1. PICK t \in Requests : Requesting(t)
      BY <2>1
    <3>2. PICK r \in Thread : th' = [th EXCEPT ![t] = r] /\ r.snap \in {th[t].snap, Empty}
      BY <3>1, RequestMoves
    <3>3. UNCHANGED <<file, tmp>>
      BY <3>1, RequestMoves
    <3>4. Fits(table')
      BY <1>1, <3>1, TableStaysSmall
    <3>5. \A u \in Requests : th'[u].snap \in {th[u].snap, Empty}
      BY <1>2, <3>2
    <3> HIDE DEF Fits
    <3> QED  BY <1>2, <1>3, <3>3, <3>4, <3>5
  <2>2. CASE \E t \in Requests : Snapshot(t) \/ Truncate(t) \/ Fill(t)
    <3>1. PICK t \in Requests : Snapshot(t) \/ Truncate(t) \/ Fill(t)
      BY <2>2
    <3>2. PICK r \in Thread : th' = [th EXCEPT ![t] = r] /\ r.snap \in {th[t].snap, table}
      BY <3>1, WriteMoves
    <3>3. \A u \in Requests : th'[u].snap \in {th[u].snap, table}
      BY <1>2, <3>2
    <3>4. table' = table
      BY <3>1, WriteMoves
    <3>5. \A f \in {file', tmp'} : f \in {file, tmp, Broken, th[t].snap}
      BY <3>1 DEF Snapshot, Truncate, Fill
    <3>6. ~IsTable(Broken)
      BY DEF IsTable
    <3> HIDE DEF Fits
    <3> QED  BY <1>2, <3>3, <3>4, <3>5, <3>6
  <2>3. CASE \E t \in Requests : Rename(t)
    <3>1. PICK t \in Requests : Rename(t)
      BY <2>3
    <3>2. file' = tmp /\ tmp' = NoFile /\ table' = table
      BY <3>1, RenameMoves
    <3>3. \A u \in Requests : th'[u].snap \in {th[u].snap, Empty}
      BY <1>3, <3>1, RenameMoves
    <3>4. ~IsTable(NoFile)
      BY DEF IsTable
    <3> HIDE DEF Fits
    <3> QED  BY <1>2, <1>3, <3>2, <3>3, <3>4
  <2>4. CASE Restart \/ \E t \in Requests : FailWrite(t)
    <3>1. \A u \in Requests : th'[u].snap \in {th[u].snap, Empty}
      BY <1>2, <1>3, <2>4 DEF Restart, FailWrite
    <3>2. CASE UNCHANGED <<table, file, tmp>>
      <4> HIDE DEF Fits
      <4> QED  BY <1>2, <1>3, <3>1, <3>2
    <3>3. CASE IsTable(file) /\ file' = table' /\ tmp' = NoFile /\ table' = Pruned(file)
      <4>1. Past(file)
        BY <1>2, <3>3 DEF IsTable
      <4>2. DOMAIN table' \subseteq DOMAIN file
        BY <3>3, <4>1, PrunedIsPast
      <4>3. Fits(table')
        BY <1>2, <3>3, <4>2, FewStays
      <4>4. ~IsTable(NoFile)
        BY DEF IsTable
      <4> HIDE DEF Fits
      <4> QED  BY <1>2, <1>3, <3>1, <3>3, <4>3, <4>4
    <3>4. CASE table' = Empty /\ UNCHANGED <<file, tmp>>
      <4> HIDE DEF Fits
      <4> QED  BY <1>2, <1>3, <3>1, <3>4
    <3> QED  BY <2>4, <3>2, <3>3, <3>4, EndMoves
  <2>5. CASE Tick
    <3>1. UNCHANGED <<table, th, file, tmp>>
      BY <2>5 DEF Tick, files
    <3> HIDE DEF Fits
    <3> QED  BY <1>2, <3>1
  <2> QED  BY <2>1, <2>2, <2>3, <2>4, <2>5, NextSteps
<1> QED  BY <1>4, <1>5 DEF SizesInv, GivenOut, Few, IsTable

-----------------------------------------------------------------------------
(* Failed attempts.                                                        *)

\* The places of a sequence of times that come after one.
After(s, cut) == {i \in DOMAIN s : s[i] > cut}

\* There are no more of them than there are times.
LEMMA AfterIsFinite ==
  ASSUME NEW s \in Seq(Nat), NEW cut \in Int
  PROVE  IsFiniteSet(After(s, cut)) /\ Cardinality(After(s, cut)) \in 0..Len(s)
<1>1. Len(s) \in Nat /\ After(s, cut) \subseteq 1..Len(s)
  BY DEF After
<1>2. IsFiniteSet(1..Len(s)) /\ Cardinality(1..Len(s)) = Len(s)
  <2>1. /\ IsFiniteSet(1..Len(s))
        /\ Cardinality(1..Len(s)) = IF 1 > Len(s) THEN 0 ELSE Len(s) - 1 + 1
    BY <1>1, FS_Interval
  <2> QED  BY <1>1, <2>1
<1>3. IsFiniteSet(After(s, cut)) /\ Cardinality(After(s, cut)) <= Len(s)
  BY <1>1, <1>2, FS_Subset
<1> QED  BY <1>1, <1>3, FS_CardinalityType

\* The longer ago the cut, the more there are.
LEMMA AfterLater ==
  ASSUME NEW s \in Seq(Nat), NEW cut \in Int, NEW later \in Int, cut <= later
  PROVE  Cardinality(After(s, later)) <= Cardinality(After(s, cut))
<1>1. After(s, later) \subseteq After(s, cut)
  BY DEF After
<1> QED  BY <1>1, AfterIsFinite, FS_Subset

\* One more time is one more place.
LEMMA AfterAppended ==
  ASSUME NEW s \in Seq(Nat), NEW cut \in Int, NEW at \in Nat
  PROVE  Cardinality(After(Append(s, at), cut)) <= Cardinality(After(s, cut)) + 1
<1> DEFINE A == After(s, cut)
           B == A \cup {Len(s) + 1}
<1>1. IsFiniteSet(A) /\ Cardinality(A) \in Nat
  BY AfterIsFinite
<1>2. After(Append(s, at), cut) \subseteq B
  <2>1. Append(s, at) \in Seq(Nat) /\ Len(Append(s, at)) = Len(s) + 1 /\ Len(s) \in Nat
        /\ \A i \in 1..Len(s) : Append(s, at)[i] = s[i]
    OBVIOUS
  <2> QED  BY <2>1 DEF After
<1> HIDE DEF A
<1>3. IsFiniteSet(B) /\ Cardinality(B) \in Nat /\ Cardinality(B) <= Cardinality(A) + 1
  <2>1. IsFiniteSet(B)
        /\ Cardinality(B) = IF Len(s) + 1 \in A THEN Cardinality(A) ELSE Cardinality(A) + 1
    BY <1>1, FS_AddElement
  <2> HIDE DEF B
  <2> QED  BY <1>1, <2>1
<1> HIDE DEF B
<1>4. /\ Cardinality(After(Append(s, at), cut)) \in Nat
      /\ Cardinality(After(Append(s, at), cut)) <= Cardinality(B)
  BY <1>2, <1>3, FS_Subset, FS_CardinalityType
<1> QED  BY <1>1, <1>3, <1>4 DEF A

\* As many times as there are after the cut, from the end, are a sequence of so many.
LEMMA AfterOfLast ==
  ASSUME NEW s \in Seq(Nat), NEW cut \in Int, NEW n, n = Cardinality(After(s, cut)),
         NEW l, l = SubSeq(s, Len(s) - n + 1, Len(s))
  PROVE  l \in Seq(Nat) /\ Cardinality(After(l, cut)) <= n
<1>1. n \in 0..Len(s) /\ Len(s) \in Nat
  BY AfterIsFinite
<1>2. l \in Seq(Nat) /\ Len(l) = n
  <2>1. PICK m \in Int : m = Len(s) - n + 1
    BY <1>1
  <2>2. 1 <= m /\ m <= Len(s) + 1 /\ Len(s) - m + 1 = n
    BY <1>1, <2>1
  <2>3. l = SubSeq(s, m, Len(s))
    BY <2>1
  <2>4. \A i \in m .. Len(s) : s[i] \in Nat
    BY <1>1, <2>2, ElementOfSeq
  <2>5. /\ l \in Seq(Nat)
        /\ Len(l) = IF m <= Len(s) THEN Len(s) - m + 1 ELSE 0
    BY <1>1, <2>3, <2>4, SubSeqProperties
  <2> QED  BY <1>1, <2>2, <2>5
<1>3. Cardinality(After(l, cut)) \in 0..Len(l)
  BY <1>2, AfterIsFinite
<1> QED  BY <1>1, <1>2, <1>3

\* The attempts of a client in the window are those after its beginning.
LEMMA WindowIsAfter ==
  ASSUME AttemptsInv, NEW c
  PROVE  AttemptsOf(c) \in Seq(Nat) /\ InWindow(c) = After(AttemptsOf(c), now - Window)
  BY DEF AttemptsInv, AttemptsOf, InWindow, After

\* What a client has in the window and what is being checked are numbers.
LEMMA TriesAreFinite ==
  ASSUME AttemptsInv, now \in Nat, NEW c
  PROVE  /\ Cardinality(InWindow(c)) \in Nat
         /\ IsFiniteSet(Trying(c)) /\ Cardinality(Trying(c)) \in 0..Cardinality(Requests)
<1>1. Cardinality(InWindow(c)) \in Nat
  <2>1. now - Window \in Int
    BY SizesAreNumbers
  <2>2. Cardinality(After(AttemptsOf(c), now - Window)) \in 0..Len(AttemptsOf(c))
        /\ Len(AttemptsOf(c)) \in Nat
    BY <2>1, WindowIsAfter, AfterIsFinite
  <2> QED  BY <2>2, WindowIsAfter
<1>2. IsFiniteSet(Trying(c)) /\ Cardinality(Trying(c)) <= Cardinality(Requests)
  <2>1. Trying(c) \in SUBSET Requests
    BY DEF Trying
  <2> QED  BY <2>1, RequestsAssumption, FS_Subset
<1> QED  BY <1>1, <1>2, FS_CardinalityType, SizesAreNumbers

\* Nobody's attempt was allowed in the step.
Calm == \A u \in Requests : Tried(th'[u]) => Tried(th[u]) /\ th'[u].client = th[u].client

\* What becomes of the attempts and of those who try: some clients are forgotten; or a
\* request is allowed or refused to try; or a try has failed.
LEMMA AttemptsMove ==
  ASSUME IInv, Next
  PROVE  \/ /\ now' \in {now, now + 1} /\ Calm
            /\ \E S \in SUBSET DOMAIN attempts : attempts' = [c \in S |-> attempts[c]]
         \/ /\ now' = now /\ attempts' = Forgotten
            /\ \/ th' = th
               \/ \E t \in Requests, c \in Clients :
                    /\ Allowed(c) /\ Tried(th'[t]) /\ th'[t].client = c
                    /\ \A u \in Requests \ {t} : th'[u] = th[u]
         \/ /\ now' = now
            /\ \E t \in Requests :
                 /\ Tried(th[t]) /\ Failed(th[t].client) /\ ~Tried(th'[t])
                 /\ \A u \in Requests \ {t} : th'[u] = th[u]
<1>1. /\ th \in [Requests -> Thread] /\ Free \in Thread /\ Free.pc = "idle"
      /\ attempts = [c \in DOMAIN attempts |-> attempts[c]]
  BY FreeParts DEF IInv, ThreadsInv, Thread, AttemptsInv
<1>2. ASSUME NEW S \in SUBSET DOMAIN attempts, attempts' = Restrict(attempts, S)
      PROVE  \E R \in SUBSET DOMAIN attempts : attempts' = [c \in R |-> attempts[c]]
  BY <1>2 DEF Restrict
<1>3. ASSUME attempts' = attempts
      PROVE  \E R \in SUBSET DOMAIN attempts : attempts' = [c \in R |-> attempts[c]]
  BY <1>1, <1>3
<1>4. ASSUME NEW t \in Requests, NEW r \in Thread, th' = [th EXCEPT ![t] = r], ~Tried(r)
      PROVE  Calm /\ ~Tried(th'[t]) /\ \A u \in Requests \ {t} : th'[u] = th[u]
  BY <1>1, <1>4 DEF Calm
<1>5. CASE \E t \in Requests : Requesting(t)
  <2>1. PICK t \in Requests : Requesting(t)
    BY <1>5
  <2>2. PICK r \in Thread : th' = [th EXCEPT ![t] = r] /\ (Tried(r) => Begins(t))
    BY <2>1, RequestMoves
  <2>3. now' = now
    BY <2>1, RequestMoves
  <2>4. CASE Begins(t)
    <3>1. PICK c \in Clients, p \in Passwords, pc \in {"setup", "login"} : Begin(t, c, p, pc)
      BY <2>4 DEF Begins
    <3>2. attempts' = Forgotten
      BY <3>1 DEF Begin
    <3>3. \/ th' = th
          \/ /\ Allowed(c) /\ Tried(th'[t]) /\ th'[t].client = c
             /\ \A u \in Requests \ {t} : th'[u] = th[u]
      <4>1. \/ th' = th
            \/ /\ Allowed(c)
               /\ th' = [th EXCEPT ![t] = [Free EXCEPT !.pc = pc, !.client = c, !.pass = p]]
        BY <3>1 DEF Begin
      <4> DEFINE R == [Free EXCEPT !.pc = pc, !.client = c, !.pass = p]
      <4>2. R.pc = pc /\ R.client = c
        BY <1>1 DEF Thread
      <4> HIDE DEF R
      <4>3. Tried(R)
        BY <4>2 DEF Tried
      <4>4. th' = th \/ (Allowed(c) /\ th' = [th EXCEPT ![t] = R])
        BY <4>1 DEF R
      <4> QED  BY <1>1, <4>2, <4>3, <4>4
    <3> QED  BY <2>3, <3>2, <3>3
  <2>5. CASE Refuse(t)
    <3>1. Tried(th[t]) /\ Failed(th[t].client) /\ th' = [th EXCEPT ![t] = Free]
      BY <2>5 DEF Refuse, IsAt, Tried
    <3>2. ~Tried(Free)
      BY <1>1 DEF Tried
    <3> QED  BY <1>1, <1>4, <2>3, <3>1, <3>2
  <2>6. CASE ~Begins(t) /\ ~Refuse(t)
    <3>1. Calm
      BY <1>4, <2>2, <2>6
    <3>2. \E R \in SUBSET DOMAIN attempts : attempts' = [c \in R |-> attempts[c]]
      <4>1. CASE Create(t)
        BY <1>2, <4>1 DEF Create
      <4>2. CASE ~Create(t)
        BY <1>3, <2>1, <2>6, <4>2
        DEF Requesting, Begins, AskPassword, LogOut, Use, SetHash, Accept, Rehash, List, LogOutAll,
            ChangePassword, EndSessions
      <4> QED  BY <4>1, <4>2
    <3> QED  BY <2>3, <3>1, <3>2
  <2> QED  BY <2>4, <2>5, <2>6
<1>6. CASE \E t \in Requests : Snapshot(t) \/ Truncate(t) \/ Fill(t)
  <2>1. PICK t \in Requests : Snapshot(t) \/ Truncate(t) \/ Fill(t)
    BY <1>6
  <2>2. PICK r \in Thread : th' = [th EXCEPT ![t] = r] /\ r.pc \in {"truncate", "fill", "rename"}
    BY <2>1, WriteMoves
  <2>3. Calm
    BY <1>4, <2>2 DEF Tried
  <2>4. now' = now /\ attempts' = attempts
    BY <2>1 DEF Snapshot, Truncate, Fill
  <2> QED  BY <1>3, <2>3, <2>4
<1>7. CASE \E t \in Requests : Rename(t)
  <2>1. PICK t \in Requests : Rename(t)
    BY <1>7
  <2>2. /\ th'[t] = Free
        /\ \A u \in Requests \ {t} : th'[u].pc = th[u].pc /\ th'[u].client = th[u].client
    BY <2>1, RenameMoves
  <2>3. Calm
    BY <1>1, <2>2 DEF Calm, Tried
  <2>4. now' = now /\ attempts' = attempts
    BY <2>1 DEF Rename
  <2> QED  BY <1>3, <2>3, <2>4
<1>8. CASE \E t \in Requests : FailWrite(t)
  <2>1. PICK t \in Requests : FailWrite(t)
    BY <1>8
  <2>2. Calm
    BY <1>1, <1>4, <2>1 DEF FailWrite, Tried
  <2>3. now' = now /\ attempts' = attempts
    BY <2>1 DEF FailWrite
  <2> QED  BY <1>3, <2>2, <2>3
<1>9. CASE Restart
  <2>1. Calm
    BY <1>1, <1>9 DEF Restart, Calm, Tried
  <2>2. now' = now /\ attempts' = [c \in {} |-> attempts[c]]
    BY <1>9 DEF Restart, Empty
  <2> QED  BY <2>1, <2>2
<1>10. CASE Tick
  <2>1. Calm /\ now' = now + 1 /\ attempts' = attempts
    BY <1>10 DEF Tick, Calm
  <2> QED  BY <1>3, <2>1
<1> QED  BY <1>5, <1>6, <1>7, <1>8, <1>9, <1>10, NextSteps

FewClients(S) == S \subseteq Clients /\ IsFiniteSet(S) /\ Cardinality(S) <= MaxClients

\* A part of the clients remembered.
LEMMA FewClientsStay ==
  ASSUME NEW S, FewClients(S), NEW T \in SUBSET S
  PROVE  FewClients(T)
<1>1. IsFiniteSet(S) /\ IsFiniteSet(T) /\ Cardinality(T) <= Cardinality(S)
  BY FS_Subset DEF FewClients
<1>2. Cardinality(S) \in Nat /\ Cardinality(T) \in Nat
  BY <1>1, FS_CardinalityType
<1> QED  BY <1>1, <1>2, SizesAreNumbers DEF FewClients

\* One more client, which takes the place of another when there are too many.
LEMMA FewClientsWithOneMore ==
  ASSUME NEW S, FewClients(S), NEW c \in Clients, NEW kept \in SUBSET S,
         \/ kept = S /\ (c \in S \/ ~(Cardinality(S) >= MaxClients))
         \/ \E d \in S : kept = S \ {d}
  PROVE  FewClients(kept \cup {c})
<1>1. IsFiniteSet(S) /\ Cardinality(S) \in Nat /\ IsFiniteSet(kept) /\ Cardinality(kept) \in Nat
        /\ Cardinality(kept) <= Cardinality(S)
  BY FS_Subset, FS_CardinalityType DEF FewClients
<1>2. /\ IsFiniteSet(kept \cup {c})
      /\ Cardinality(kept \cup {c}) = IF c \in kept THEN Cardinality(kept) ELSE Cardinality(kept) + 1
  BY <1>1, FS_AddElement
<1>3. c \in kept \/ Cardinality(kept) < MaxClients
  <2>1. CASE kept = S /\ (c \in S \/ ~(Cardinality(S) >= MaxClients))
    BY <1>1, <2>1, SizesAreNumbers
  <2>2. CASE \E d \in S : kept = S \ {d}
    <3>1. PICK d \in S : kept = S \ {d}
      BY <2>2
    <3>2. Cardinality(kept) = Cardinality(S) - 1
      BY <1>1, <3>1, FS_RemoveElement
    <3> QED  BY <1>1, <3>2, SizesAreNumbers DEF FewClients
  <2> QED  BY <2>1, <2>2
<1>4. Cardinality(S) <= MaxClients /\ S \subseteq Clients
  BY DEF FewClients
<1>5. Cardinality(kept \cup {c}) <= MaxClients
  BY <1>1, <1>2, <1>3, <1>4, SizesAreNumbers
<1> QED  BY <1>2, <1>4, <1>5 DEF FewClients

\* A failed attempt is added to those of its client, and nobody else gets one.
LEMMA FailedAdds ==
  ASSUME AttemptsInv, NEW c \in Clients, Failed(c)
  PROVE  \E kept \in SUBSET DOMAIN attempts :
           /\ Added(c, kept) /\ FewClients(kept \cup {c})
<1> DEFINE full == c \notin DOMAIN attempts /\ Cardinality(DOMAIN attempts) >= MaxClients
<1>1. FewClients(DOMAIN attempts)
  BY DEF AttemptsInv, FewClients
<1>2. CASE full
  <2>1. PICK d \in DOMAIN attempts : Added(c, DOMAIN attempts \ {d})
    BY <1>2 DEF Failed
  <2>2. FewClients((DOMAIN attempts \ {d}) \cup {c})
    BY <1>1, FewClientsWithOneMore
  <2> QED  BY <2>1, <2>2
<1>3. CASE ~full
  <2>1. Added(c, DOMAIN attempts)
    BY <1>3 DEF Failed
  <2>2. FewClients(DOMAIN attempts \cup {c})
    BY <1>1, <1>3, FewClientsWithOneMore
  <2> QED  BY <2>1, <2>2
<1> QED  BY <1>2, <1>3

\* Attempts keep their type and the number of clients its limit; who tries is a client.
LEMMA AttemptsInvKept ==
  ASSUME IInv, Next
  PROVE  AttemptsInv'
<1>1. /\ AttemptsInv /\ now \in Nat /\ now - Window \in Int
      /\ FewClients(DOMAIN attempts) /\ attempts \in [DOMAIN attempts -> Seq(Nat)]
  BY SizesAreNumbers DEF IInv, TablesInv, AttemptsInv, FewClients
<1>2. \A t \in Requests : Tried(th[t]) => th[t].client \in Clients
  BY DEF IInv, AttemptsInv, Tried
<1>3. /\ attempts' \in [DOMAIN attempts' -> Seq(Nat)] /\ FewClients(DOMAIN attempts')
      /\ \A t \in Requests : Tried(th'[t]) => th'[t].client \in Clients
  <2>1. CASE /\ Calm
             /\ \E S \in SUBSET DOMAIN attempts : attempts' = [c \in S |-> attempts[c]]
    <3>1. PICK S \in SUBSET DOMAIN attempts : attempts' = [c \in S |-> attempts[c]]
      BY <2>1
    <3>2. FewClients(S)
      BY <1>1, FewClientsStay
    <3> QED  BY <1>1, <1>2, <2>1, <3>1, <3>2 DEF Calm
  <2>2. CASE attempts' = Forgotten
             /\ \/ th' = th
                \/ \E t \in Requests, c \in Clients :
                     /\ Allowed(c) /\ Tried(th'[t]) /\ th'[t].client = c
                     /\ \A u \in Requests \ {t} : th'[u] = th[u]
    <3>1. RememberedClients \subseteq DOMAIN attempts
      BY DEF RememberedClients
    <3>2. FewClients(RememberedClients)
      BY <1>1, <3>1, FewClientsStay
    <3>3. \A c \in RememberedClients : Recent(c) \in Seq(Nat)
      BY <1>1, WindowIsAfter, AfterOfLast DEF Recent
    <3>4. attempts' = [c \in RememberedClients |-> Recent(c)]
      BY <2>2 DEF Forgotten
    <3> QED  BY <1>2, <2>2, <3>2, <3>3, <3>4
  <2>3. CASE \E t \in Requests :
               /\ Tried(th[t]) /\ Failed(th[t].client) /\ ~Tried(th'[t])
               /\ \A u \in Requests \ {t} : th'[u] = th[u]
    <3>1. PICK t \in Requests :
            /\ Tried(th[t]) /\ Failed(th[t].client) /\ ~Tried(th'[t])
            /\ \A u \in Requests \ {t} : th'[u] = th[u]
      BY <2>3
    <3>2. PICK c \in Clients : c = th[t].client
      BY <1>2, <3>1
    <3>3. PICK kept \in SUBSET DOMAIN attempts : Added(c, kept) /\ FewClients(kept \cup {c})
      BY <1>1, <3>1, <3>2, FailedAdds
    <3>4. Append(AttemptsOf(c), now) \in Seq(Nat)
      BY <1>1, WindowIsAfter
    <3> QED  BY <1>1, <1>2, <3>1, <3>3, <3>4 DEF Added
  <2> QED  BY <2>1, <2>2, <2>3, AttemptsMove
<1> QED  BY <1>3 DEF AttemptsInv, FewClients, Tried

\* The window moves on with the time, and who is forgotten has none.
LEMMA WindowShrinks ==
  ASSUME AttemptsInv, now \in Nat,
         NEW from \in Int, NEW to \in Int, from = now - Window, to = now' - Window, from <= to,
         NEW S \in SUBSET DOMAIN attempts, attempts' = [d \in S |-> attempts[d]], NEW c
  PROVE  Cardinality(InWindow(c)') <= Cardinality(InWindow(c))
<1>2. InWindow(c)' = After(AttemptsOf(c)', to)
  BY DEF InWindow, After
<1>3. CASE c \in S
  <2>1. AttemptsOf(c)' = AttemptsOf(c)
    BY <1>3 DEF AttemptsOf
  <2> QED  BY <1>2, <2>1, WindowIsAfter, AfterLater
<1>4. CASE c \notin S
  <2>1. AttemptsOf(c)' = <<>>
    BY <1>4 DEF AttemptsOf
  <2>2. InWindow(c)' = {}
    BY <1>2, <2>1 DEF After
  <2> QED  BY <2>2, TriesAreFinite, FS_EmptySet
<1> QED  BY <1>3, <1>4

\* Forgetting what is older than the window adds nothing to it.
LEMMA WindowAfterForgetting ==
  ASSUME AttemptsInv, now \in Nat, now' = now, attempts' = Forgotten, NEW c
  PROVE  Cardinality(InWindow(c)') <= Cardinality(InWindow(c))
<1>1. now - Window \in Int
  BY SizesAreNumbers
<1>2. InWindow(c)' = After(AttemptsOf(c)', now - Window)
  BY DEF InWindow, After
<1>3. CASE c \in RememberedClients
  <2>1. AttemptsOf(c)' = Recent(c)
    BY <1>3 DEF AttemptsOf, Forgotten
  <2>2. Cardinality(After(Recent(c), now - Window)) <= Cardinality(InWindow(c))
    BY <1>1, WindowIsAfter, AfterOfLast DEF Recent
  <2> QED  BY <1>2, <2>1, <2>2
<1>4. CASE c \notin RememberedClients
  <2>1. AttemptsOf(c)' = <<>>
    BY <1>4 DEF AttemptsOf, Forgotten
  <2>2. InWindow(c)' = {}
    BY <1>2, <2>1 DEF After
  <2> QED  BY <2>2, TriesAreFinite, FS_EmptySet
<1> QED  BY <1>3, <1>4

\* A failed attempt is one more in the window of its client and no more for the others.
LEMMA WindowAfterFailure ==
  ASSUME AttemptsInv, now \in Nat, now' = now, NEW d \in Clients, Failed(d), NEW c
  PROVE  Cardinality(InWindow(c)') <= Cardinality(InWindow(c)) + (IF c = d THEN 1 ELSE 0)
<1>1. now - Window \in Int /\ Cardinality(InWindow(c)) \in Nat
  BY SizesAreNumbers, TriesAreFinite
<1>2. InWindow(c)' = After(AttemptsOf(c)', now - Window)
  BY DEF InWindow, After
<1>3. PICK kept \in SUBSET DOMAIN attempts : Added(d, kept)
  BY FailedAdds
<1>4. CASE c = d
  <2>1. AttemptsOf(c)' = Append(AttemptsOf(c), now)
    BY <1>3, <1>4 DEF AttemptsOf, Added
  <2>2. Cardinality(After(Append(AttemptsOf(c), now), now - Window))
          <= Cardinality(After(AttemptsOf(c), now - Window)) + 1
    BY <1>1, WindowIsAfter, AfterAppended
  <2>3. Cardinality(InWindow(c)') <= Cardinality(InWindow(c)) + 1
    BY <1>2, <2>1, <2>2, WindowIsAfter
  <2> QED  BY <1>4, <2>3
<1>5. CASE c # d /\ c \in kept
  <2>1. AttemptsOf(c)' = AttemptsOf(c)
    BY <1>3, <1>5 DEF AttemptsOf, Added
  <2>2. InWindow(c)' = InWindow(c)
    BY <1>2, <2>1, WindowIsAfter
  <2> QED  BY <1>1, <1>5, <2>2
<1>6. CASE c # d /\ c \notin kept
  <2>1. AttemptsOf(c)' = <<>>
    BY <1>3, <1>6 DEF AttemptsOf, Added
  <2>2. InWindow(c)' = {}
    BY <1>2, <2>1 DEF After
  <2>3. Cardinality(InWindow(c)') = 0
    BY <2>2, FS_EmptySet
  <2> QED  BY <1>1, <1>6, <2>3
<1> QED  BY <1>4, <1>5, <1>6

\* Who was allowed to try had a place left in the window, and no more requests than there
\* are can have one at a time: those in the window and those that try keep to their limit.
LEMMA TriesInvKept ==
  ASSUME IInv, Next
  PROVE  TriesInv'
<1>1. AttemptsInv /\ AttemptsInv' /\ now \in Nat /\ now' \in Nat /\ now <= now'
  <2>1. now \in Nat /\ AttemptsInv
    BY DEF IInv, TablesInv
  <2>2. now' \in {now, now + 1}
    BY AttemptsMove
  <2> QED  BY <2>1, <2>2, AttemptsInvKept
<1> SUFFICES ASSUME NEW c \in Clients
             PROVE  Cardinality(InWindow(c)') + Cardinality(Trying(c)')
                      <= Limit + Cardinality(Requests) - 1
  BY DEF TriesInv
<1> DEFINE w  == Cardinality(InWindow(c))
           wn == Cardinality(InWindow(c)')
           n  == Cardinality(Trying(c))
           nn == Cardinality(Trying(c)')
           R  == Cardinality(Requests)
<1>2. w \in Nat /\ n \in 0..R /\ IsFiniteSet(Trying(c))
  BY <1>1, TriesAreFinite
<1>3. wn \in Nat /\ nn \in 0..R
  <2>1. Cardinality(InWindow(c)') \in Nat
    <3>1. AttemptsOf(c)' \in Seq(Nat)
      BY <1>1 DEF AttemptsInv, AttemptsOf
    <3>2. InWindow(c)' = After(AttemptsOf(c)', now' - Window)
      BY DEF InWindow, After
    <3>3. now' - Window \in Int
      BY <1>1, SizesAreNumbers
    <3>4. Cardinality(InWindow(c)') \in 0..Len(AttemptsOf(c)') /\ Len(AttemptsOf(c)') \in Nat
      BY <3>1, <3>2, <3>3, AfterIsFinite
    <3> QED  BY <3>4
  <2>2. Cardinality(Trying(c)') \in 0..R
    <3>1. Trying(c)' \in SUBSET Requests
      BY DEF Trying
    <3>2. IsFiniteSet(Trying(c)') /\ Cardinality(Trying(c)') <= R
      BY <3>1, RequestsAssumption, FS_Subset
    <3>3. Cardinality(Trying(c)') \in Nat
      BY <3>2, FS_CardinalityType
    <3> QED  BY <3>2, <3>3, SizesAreNumbers
  <2> QED  BY <2>1, <2>2
<1>4. w + n <= Limit + R - 1 /\ Limit \in Nat /\ R \in Nat
  BY SizesAreNumbers DEF IInv, TriesInv
<1>5. Trying(c)' \subseteq Trying(c) => nn <= n
  BY <1>2, FS_Subset
<1>6. Trying(c) = {u \in Requests : Tried(th[u]) /\ th[u].client = c}
        /\ Trying(c)' = {u \in Requests : Tried(th'[u]) /\ th'[u].client = c}
  BY DEF Trying, Tried
<1> HIDE DEF w, wn, n, nn, R
<1>7. CASE /\ Calm
           /\ \E S \in SUBSET DOMAIN attempts : attempts' = [d \in S |-> attempts[d]]
  <2>1. PICK from \in Int, to \in Int : from = now - Window /\ to = now' - Window /\ from <= to
    <3>1. now' = now \/ now' = now + 1
      BY AttemptsMove
    <3>2. now \in Nat
      BY <1>1
    <3>3. /\ now - Window \in Int /\ (now + 1) - Window \in Int
          /\ now - Window <= now - Window /\ now - Window <= (now + 1) - Window
      <4>1. Window \in Nat
        BY SizesAreNumbers
      <4> QED  BY <3>2, <4>1
    <3>4. CASE now' = now
      BY <3>3, <3>4
    <3>5. CASE now' = now + 1
      <4>1. PICK a \in Int, b \in Int : a = now - Window /\ b = (now + 1) - Window /\ a <= b
        BY <3>3
      <4>2. b = now' - Window
        BY <3>5, <4>1, Zenon
      <4> QED  BY <4>1, <4>2, Zenon
    <3> QED  BY <3>1, <3>4, <3>5
  <2>2. wn <= w
    BY <1>1, <1>7, <2>1, WindowShrinks DEF w, wn
  <2>3. Trying(c)' \subseteq Trying(c)
    BY <1>6, <1>7 DEF Calm
  <2> QED  BY <1>2, <1>3, <1>4, <1>5, <2>2, <2>3 DEF wn, nn, R
<1>8. CASE /\ now' = now /\ attempts' = Forgotten
           /\ \/ th' = th
              \/ \E t \in Requests, d \in Clients :
                   /\ Allowed(d) /\ Tried(th'[t]) /\ th'[t].client = d
                   /\ \A u \in Requests \ {t} : th'[u] = th[u]
  <2>1. wn <= w
    BY <1>1, <1>8, WindowAfterForgetting DEF w, wn
  <2>2. CASE Trying(c)' \subseteq Trying(c)
    BY <1>2, <1>3, <1>4, <1>5, <2>1, <2>2 DEF wn, nn, R
  <2>3. CASE ~(Trying(c)' \subseteq Trying(c))
    <3>1. Allowed(c)
      BY <1>6, <1>8, <2>3
    <3>2. w < Limit
      BY <3>1 DEF Allowed, w
    <3> QED  BY <1>2, <1>3, <1>4, <2>1, <3>2 DEF wn, nn, R
  <2> QED  BY <2>2, <2>3
<1>9. CASE /\ now' = now
           /\ \E t \in Requests :
                /\ Tried(th[t]) /\ Failed(th[t].client) /\ ~Tried(th'[t])
                /\ \A u \in Requests \ {t} : th'[u] = th[u]
  <2>1. PICK t \in Requests :
          /\ Tried(th[t]) /\ Failed(th[t].client) /\ ~Tried(th'[t])
          /\ \A u \in Requests \ {t} : th'[u] = th[u]
    BY <1>9
  <2>2. PICK d \in Clients : d = th[t].client
    BY <1>1, <2>1 DEF AttemptsInv, Tried
  <2>3. wn <= w + (IF c = d THEN 1 ELSE 0)
    BY <1>1, <1>9, <2>1, <2>2, WindowAfterFailure DEF w, wn
  <2>4. CASE c = d
    <3>1. Trying(c)' \subseteq Trying(c) \ {t} /\ t \in Trying(c)
      BY <1>6, <2>1, <2>2, <2>4
    <3>2. IsFiniteSet(Trying(c) \ {t}) /\ Cardinality(Trying(c) \ {t}) = n - 1
      BY <1>2, <3>1, FS_RemoveElement DEF n
    <3>3. nn <= n - 1
      BY <3>1, <3>2, FS_Subset DEF nn
    <3> QED  BY <1>2, <1>3, <1>4, <2>3, <2>4, <3>3 DEF wn, nn, R
  <2>5. CASE c # d
    <3>1. Trying(c)' \subseteq Trying(c)
      BY <1>6, <2>1
    <3>2. wn <= w
      BY <1>2, <1>3, <2>3, <2>5
    <3> QED  BY <1>2, <1>3, <1>4, <1>5, <3>1, <3>2 DEF wn, nn, R
  <2> QED  BY <2>4, <2>5
<1> QED  BY <1>7, <1>8, <1>9, AttemptsMove

-----------------------------------------------------------------------------
(* The theorems.                                                           *)

\* The invariant holds when the service has been started for the first time.
LEMMA InitInv ==
  ASSUME Init
  PROVE  IInv
<1>1. now \in Nat /\ issued \subseteq Tokens /\ disturbed \in BOOLEAN /\ setups = 0
        /\ table = Empty /\ file = NoFile /\ tmp = NoFile
        /\ disturbed = FALSE /\ th = [t \in Requests |-> Free]
  BY DEF Init
<1>2. TablesInv
  BY <1>1, EmptyIsPast DEF TablesInv
<1>3. ThreadsInv
  BY <1>1, FreeParts, EmptyIsPast DEF ThreadsInv, Thread
<1>4. \A t \in Requests : th[t].pc = "idle"
  BY <1>1, FreeParts
<1>5. HashInv
  BY <1>1, <1>4 DEF HashInv
<1>6. WriterInv
  BY <1>4 DEF WriterInv, Writing, IsAt
<1>7. Matches(file)
  BY <1>1, EmptyIsPast, MarksHaveNoKeys DEF Matches
<1>8. LastWordInv
  BY <1>4, <1>7 DEF LastWordInv, Writing
<1>9. SizesInv
  <2>1. GivenOut(Empty) /\ Free.snap = Empty
    BY EmptyIsPast, NothingIsFew, FreeParts DEF GivenOut, Few
  <2>2. ~IsTable(NoFile) /\ events \in 0..MaxEvents
    BY SizesAreNumbers DEF IsTable, Init
  <2> QED  BY <1>1, <2>1, <2>2 DEF SizesInv
<1>10. AttemptsInv
  <2>1. attempts = Empty /\ DOMAIN Empty = {} /\ attempts \in [DOMAIN attempts -> Seq(Nat)]
    BY EmptyIsPast DEF Init, Empty
  <2>2. IsFiniteSet({}) /\ Cardinality({}) <= MaxClients
    BY FS_EmptySet, SizesAreNumbers
  <2> QED  BY <1>4, <2>1, <2>2 DEF AttemptsInv
<1>11. TriesInv
  <2> SUFFICES ASSUME NEW c \in Clients
               PROVE  Cardinality(InWindow(c)) + Cardinality(Trying(c))
                        <= Limit + Cardinality(Requests) - 1
    BY DEF TriesInv
  <2>1. InWindow(c) = {}
    BY EmptyIsPast DEF InWindow, AttemptsOf, Init
  <2>2. Trying(c) = {}
    BY <1>4 DEF Trying
  <2>3. Cardinality(InWindow(c)) = 0 /\ Cardinality(Trying(c)) = 0
    BY <2>1, <2>2, FS_EmptySet
  <2> QED  BY <2>3, SizesAreNumbers
<1> QED  BY <1>2, <1>3, <1>5, <1>6, <1>8, <1>9, <1>10, <1>11 DEF IInv

\* Every step keeps it.
LEMMA StepKeeps ==
  ASSUME IInv, [Next]_vars
  PROVE  IInv'
<1>1. CASE Next
  BY <1>1, TablesInvKept, ThreadsInvKept, HashInvKept, WriterInvKept, LastWordInvKept,
     SizesInvKept, AttemptsInvKept, TriesInvKept
  DEF IInv
<1>2. CASE UNCHANGED vars
  <2> USE <1>2 DEF vars, files, IInv
  <2>1. TablesInv' /\ ThreadsInv' /\ HashInv'
    BY DEF TablesInv, ThreadsInv, HashInv, Past
  <2>2. WriterInv'
    BY DEF WriterInv, Writing, IsAt
  <2>3. LastWordInv'
    BY DEF LastWordInv, Writing, IsAt, Matches, Fresh, KeysOf, IsTable
  <2>4. SizesInv'
    BY DEF SizesInv, GivenOut, IsTable
  <2>5. AttemptsInv' /\ TriesInv'
    BY DEF AttemptsInv, TriesInv, Trying, InWindow, AttemptsOf
  <2> QED  BY <2>1, <2>2, <2>3, <2>4, <2>5
<1> QED  BY <1>1, <1>2

\* IInv is an invariant of the specification.
THEOREM Invariance == Spec => []IInv
<1>1. Init => IInv
  BY InitInv
<1>2. IInv /\ [Next]_vars => IInv'
  BY StepKeeps
<1> QED  BY <1>1, <1>2, PTL DEF Spec

\* However requests for the first password interleave, one of them succeeds (authSetup):
\* the invariant SetupOnce.
THEOREM OneSetup == Spec => []SetupOnce
<1>1. IInv => SetupOnce
  BY DEF IInv, HashInv, SetupOnce
<1> QED  BY <1>1, Invariance, PTL

\* When nothing is being written and the last write neither failed nor overlapped with
\* another, the file names every session, brings back none that has ended and makes none
\* last longer, whatever became of earlier writes (persistSessions): the invariant
\* FileFollowsTable.
THEOREM FileTellsOfTable == Spec => []FileFollowsTable
<1>1. IInv => FileFollowsTable
  BY DEF IInv, LastWordInv, FileFollowsTable
<1> QED  BY <1>1, Invariance, PTL

\* Sessions and remembered clients keep to their limits, and requests that are handled side
\* by side get at most one wrong attempt each past theirs (allowAttempt before the check of
\* a password, recordFailedAttempt after it): the invariant AttemptsLimited.
THEOREM LimitsHold == Spec => []AttemptsLimited
<1>1. IInv => AttemptsLimited
  <2> SUFFICES ASSUME IInv PROVE AttemptsLimited
    OBVIOUS
  <2>1. TypeOK
    <3>1. setups \in Nat /\ issued \subseteq Tokens
      BY DEF IInv, HashInv, TablesInv
    <3> QED  BY <3>1 DEF IInv, SizesInv, GivenOut, AttemptsInv, TypeOK
  <2>2. \A c \in Clients : Cardinality(InWindow(c)) <= Limit + Cardinality(Requests) - 1
    <3> SUFFICES ASSUME NEW c \in Clients
                 PROVE  Cardinality(InWindow(c)) <= Limit + Cardinality(Requests) - 1
      OBVIOUS
    <3>1. /\ Cardinality(InWindow(c)) \in Nat
          /\ Cardinality(Trying(c)) \in 0..Cardinality(Requests)
      BY TriesAreFinite DEF IInv, TablesInv
    <3>2. Cardinality(InWindow(c)) + Cardinality(Trying(c)) <= Limit + Cardinality(Requests) - 1
      BY DEF IInv, TriesInv
    <3> QED  BY <3>1, <3>2, SizesAreNumbers
  <2> QED  BY <2>1, <2>2 DEF AttemptsLimited
<1> QED  BY <1>1, Invariance, PTL

=============================================================================
