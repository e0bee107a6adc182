---------------------------- MODULE AdminSessions ----------------------------
(***************************************************************************)
(* Setup, sign-in and the table of sessions of the Admin server             *)
(* (internal/admin/server.go), whose requests run side by side, and the     *)
(* file that keeps the table over a restart.                                *)
(*                                                                         *)
(* A step is a section under s.mu, a change of the configuration or an      *)
(* operation on a file; the check of a password takes its time between two. *)
(***************************************************************************)
EXTENDS Integers, Sequences, FiniteSets, Functions

CONSTANTS
  Requests,     \* requests that are handled at a time
  Clients,      \* addresses they come from
  Tokens,       \* sessions that may be created
  Passwords,
  MaxSessions,  \* 32 in the code
  Limit,        \* failed attempts in a window: 10 in the code
  MaxClients,   \* clients whose attempts are remembered: 256 in the code
  Window,       \* 5 minutes in the code
  SeenEvery,    \* how often LastSeen is written: 5 minutes in the code
  Inactive,     \* 24 hours in the code
  Lifetime,     \* 7 days in the code
  MaxTime, MaxEvents,  \* bounds on the clock and on requests
  NoFile, Broken

ASSUME RequestsAssumption == IsFiniteSet(Requests)

ASSUME SessionsAssumption ==
  /\ {MaxSessions, Limit, MaxClients, Window, SeenEvery, Inactive, Lifetime} \subseteq Nat \ {0}
  /\ SeenEvery < Inactive /\ Inactive <= Lifetime /\ {MaxTime, MaxEvents} \subseteq Nat
  /\ "" \notin Passwords

\* What stands for no file and for one that cannot be read is no table of sessions.
ASSUME FilesAssumption ==
  NoFile # Broken /\ \A f \in {NoFile, Broken} : ~(DOMAIN f \subseteq Tokens)

VARIABLES
  now,
  hash,      \* the password that is stored: [pass, legacy], "" when there is none
  table,     \* s.sessions: [created, seen] of each session
  attempts,  \* s.attempts: the times of failed attempts per client
  file, tmp, \* sessions.json and the file it is renamed from
  th,        \* requests; `opened' says which file the open one is by now
  issued,    \* tokens that have been given out
  setups,    \* history: setups that were answered with success
  disturbed, \* history: the last write of the file that began failed or overlapped with another
  events

vars == <<now, hash, table, attempts, file, tmp, th, issued, setups, disturbed, events>>
files == <<file, tmp, disturbed>>

NoHash == [pass |-> "", legacy |-> FALSE]
Empty  == [k \in {} |-> 0]
Free   == [pc |-> "idle", client |-> "", pass |-> "", snap |-> Empty, opened |-> ""]

IsAt(t, pc) == th[t].pc = pc
GoTo(t, pc) == th' = [th EXCEPT ![t].pc = pc]
Writing(t)  == th[t].pc \in {"truncate", "fill", "rename"}
Event       == events < MaxEvents /\ events' = events + 1
IsTable(f)  == f \notin {NoFile, Broken}
KeysOf(f)   == IF IsTable(f) THEN DOMAIN f ELSE {}

Init ==
  /\ now = 0 /\ table = Empty /\ attempts = Empty
  /\ hash \in {NoHash} \cup [pass : Passwords, legacy : BOOLEAN]
  /\ file = NoFile /\ tmp = NoFile /\ th = [t \in Requests |-> Free]
  /\ issued = {} /\ setups = 0 /\ disturbed = FALSE /\ events = 0

Fresh(s)   == now - s.created <= Lifetime /\ now - s.seen <= Inactive
Pruned(tb) == Restrict(tb, {k \in DOMAIN tb : Fresh(tb[k])})

-----------------------------------------------------------------------------
(* Failed attempts.                                                        *)

AttemptsOf(client) == IF client \in DOMAIN attempts THEN attempts[client] ELSE <<>>

\* Which of them are in the window.
InWindow(client) == {i \in DOMAIN AttemptsOf(client) : AttemptsOf(client)[i] > now - Window}

RememberedClients == {c \in DOMAIN attempts : InWindow(c) # {}}

\* The attempts of a client are in the order of time: those in the window are the last.
Recent(client) ==
  LET all == AttemptsOf(client)
  IN  SubSeq(all, Len(all) - Cardinality(InWindow(client)) + 1, Len(all))

\* allowAttempt, which also forgets what is older than the window.
Forgotten == [c \in RememberedClients |-> Recent(c)]

\* Weakened form of Allowed: one attempt more.
AllowedOneMore(client) == Cardinality(InWindow(client)) <= Limit

Allowed(client) == Cardinality(InWindow(client)) < Limit

Added(client, kept) ==
  attempts' = [c \in kept \cup {client} |->
                 IF c = client THEN Append(AttemptsOf(client), now) ELSE attempts[c]]

\* recordFailedAttempt: a new client takes the place of the one silent for longest.
Failed(client) ==
  LET last(c) == attempts[c][Len(attempts[c])]
      full    == client \notin DOMAIN attempts /\ Cardinality(DOMAIN attempts) >= MaxClients
  IN IF full
     THEN \E c \in DOMAIN attempts :
            (\A d \in DOMAIN attempts : last(c) <= last(d)) /\ Added(client, DOMAIN attempts \ {c})
     ELSE Added(client, DOMAIN attempts)

-----------------------------------------------------------------------------
(* Requests.                                                               *)

\* authSetup and authLogin check the attempts, then take their time over the hash.
Begin(t, client, pass, pc) ==
  /\ IsAt(t, "idle") /\ Event
  /\ pc = "setup" => hash = NoHash
  /\ attempts' = Forgotten
  /\ th' = IF Allowed(client)
           THEN [th EXCEPT ![t] = [Free EXCEPT !.pc = pc, !.client = client, !.pass = pass]]
           ELSE th
  /\ UNCHANGED <<now, hash, table, files, issued, setups>>

\* The token was wrong, or the password is not the one that is stored.
Refuse(t) ==
  /\ \/ IsAt(t, "setup")
     \/ IsAt(t, "login") /\ hash.pass # th[t].pass
  /\ Failed(th[t].client) /\ th' = [th EXCEPT ![t] = Free]
  /\ UNCHANGED <<now, hash, table, files, issued, setups, events>>

\* Weakened form of SetHash: nobody looks again under the lock.
SetHashAnyway(t) ==
  /\ IsAt(t, "setup")
  /\ hash' = [pass |-> th[t].pass, legacy |-> FALSE]
  /\ setups' = setups + 1 /\ GoTo(t, "create")
  /\ UNCHANGED <<now, table, attempts, files, issued, events>>

\* Of two setups, Mutate lets the first one win.
SetHash(t) ==
  /\ IsAt(t, "setup")
  /\ IF hash = NoHash
     THEN /\ hash' = [pass |-> th[t].pass, legacy |-> FALSE]
          /\ setups' = setups + 1 /\ GoTo(t, "create")
     ELSE UNCHANGED <<hash, setups>> /\ th' = [th EXCEPT ![t] = Free]
  /\ UNCHANGED <<now, table, attempts, files, issued, events>>

\* The password is right, or the setup token while there is none; a hash of the old
\* kind will be replaced.
Accept(t) ==
  /\ IsAt(t, "login") /\ (hash = NoHash \/ hash.pass = th[t].pass)
  /\ GoTo(t, IF hash.legacy THEN "rehash" ELSE "create")
  /\ UNCHANGED <<now, hash, table, attempts, files, issued, setups, events>>

Rehash(t) ==
  /\ IsAt(t, "rehash")
  /\ hash' = [pass |-> th[t].pass, legacy |-> FALSE] /\ GoTo(t, "create")
  /\ UNCHANGED <<now, table, attempts, files, issued, setups, events>>

\* clearAttempts and createSession: when there are too many, the one that has not
\* been used for longest goes.
Create(t) ==
  LET token == CHOOSE k \in Tokens : k \notin issued
      more  == [k \in DOMAIN Pruned(table) \cup {token} |->
                  IF k = token THEN [created |-> now, seen |-> now] ELSE table[k]]
      oldest(k) == \A l \in DOMAIN more : more[k].seen <= more[l].seen
  IN /\ IsAt(t, "create") /\ issued # Tokens
     /\ issued' = issued \cup {token}
     /\ attempts' = Restrict(attempts, DOMAIN attempts \ {th[t].client})
     /\ IF Cardinality(DOMAIN more) <= MaxSessions THEN table' = more
        ELSE \E k \in DOMAIN more :
               oldest(k) /\ table' = Restrict(more, DOMAIN more \ {k})
     /\ GoTo(t, "snapshot")
     /\ UNCHANGED <<now, hash, files, setups, events>>

\* Weakened form of LogOut: the file is not written.
LogOutUnsaved(t, k) ==
  /\ IsAt(t, "idle") /\ Event
  /\ table' = Restrict(table, DOMAIN table \ {k}) /\ th' = th
  /\ UNCHANGED <<now, hash, attempts, files, issued, setups>>

LogOut(t, k) ==
  /\ IsAt(t, "idle") /\ Event
  /\ table' = Restrict(table, DOMAIN table \ {k}) /\ GoTo(t, "snapshot")
  /\ UNCHANGED <<now, hash, attempts, files, issued, setups>>

LogOutAll(t) ==
  /\ IsAt(t, "idle") /\ Event
  /\ table' = Empty /\ GoTo(t, "snapshot")
  /\ UNCHANGED <<now, hash, attempts, files, issued, setups>>

\* authPassword: the current password is checked, the new one saved, sessions ended.
AskPassword(t, pass) ==
  /\ IsAt(t, "idle") /\ Event
  /\ th' = [th EXCEPT ![t] = [Free EXCEPT !.pc = "password", !.pass = pass]]
  /\ UNCHANGED <<now, hash, table, attempts, files, issued, setups>>

ChangePassword(t) ==
  /\ IsAt(t, "password")
  /\ hash' = [pass |-> th[t].pass, legacy |-> FALSE] /\ GoTo(t, "clear")
  /\ UNCHANGED <<now, table, attempts, files, issued, setups, events>>

EndSessions(t) ==
  /\ IsAt(t, "clear")
  /\ table' = Empty /\ GoTo(t, "snapshot")
  /\ UNCHANGED <<now, hash, attempts, files, issued, setups, events>>

\* authSessions: who looks at the list removes what has expired; the file keeps it.
List(t) ==
  /\ IsAt(t, "idle") /\ Event
  /\ table' = Pruned(table)
  /\ UNCHANGED <<now, hash, attempts, files, th, issued, setups>>

\* authenticated: a request with a session; now and then LastSeen is written.
Use(t, k) ==
  LET known == Pruned(table) IN
  /\ IsAt(t, "idle") /\ Event
  /\ table' = IF k \in DOMAIN known THEN [known EXCEPT ![k].seen = now] ELSE known
  /\ GoTo(t, IF k \in DOMAIN known /\ now - table[k].seen >= SeenEvery
             THEN "snapshot" ELSE "idle")
  /\ UNCHANGED <<now, hash, attempts, files, issued, setups>>

-----------------------------------------------------------------------------
(* persistSessions: a copy under s.mu, then the files without it.  A write *)
(* that fails is only given up: nobody is told, and nothing is retried.    *)

Snapshot(t) ==
  /\ IsAt(t, "snapshot")
  /\ th' = [th EXCEPT ![t].snap = table, ![t].pc = "truncate"]
  /\ disturbed' = \E u \in Requests : Writing(u)
  /\ UNCHANGED <<now, hash, table, attempts, file, tmp, issued, setups, events>>

\* Opening the file empties it, whoever was writing it.
Truncate(t) ==
  /\ IsAt(t, "truncate") /\ tmp' = Broken
  /\ th' = [th EXCEPT ![t].pc = "fill", ![t].opened = "tmp"]
  /\ UNCHANGED <<now, hash, table, attempts, file, issued, setups, disturbed, events>>

\* What is written over the content of another request may be neither of the two.
Fill(t) ==
  LET over(old) == {th[t].snap} \cup (IF old \in {Broken, th[t].snap} THEN {} ELSE {Broken})
  IN /\ IsAt(t, "fill") /\ GoTo(t, "rename")
     /\ CASE th[t].opened = "tmp"  -> tmp' \in over(tmp) /\ file' = file
          [] th[t].opened = "file" -> file' \in over(file) /\ tmp' = tmp
          [] OTHER                 -> UNCHANGED <<file, tmp>>
     /\ UNCHANGED <<now, hash, table, attempts, issued, setups, disturbed, events>>

\* Without the file to rename, the old one is removed and there is none.
Rename(t) ==
  LET became(place) == CASE place = "tmp"  -> "file"
                         [] place = "file" -> "gone"
                         [] OTHER          -> place
  IN /\ IsAt(t, "rename")
     /\ file' = tmp /\ tmp' = NoFile
     /\ th' = [u \in Requests |->
                 IF u = t THEN Free ELSE [th[u] EXCEPT !.opened = became(@)]]
     /\ UNCHANGED <<now, hash, table, attempts, issued, setups, disturbed, events>>

FailWrite(t) ==
  /\ th[t].pc \in {"truncate", "fill"}
  /\ disturbed' = TRUE /\ th' = [th EXCEPT ![t] = Free]
  /\ UNCHANGED <<now, hash, table, attempts, file, tmp, issued, setups, events>>

\* loadSessions, after an end at any moment; what it has read is written again.
Restart ==
  /\ Event
  /\ table' = IF IsTable(file) THEN Pruned(file) ELSE Empty
  /\ IF IsTable(file) THEN file' = table' /\ tmp' = NoFile ELSE UNCHANGED <<file, tmp>>
  /\ th' = [t \in Requests |-> Free] /\ attempts' = Empty /\ disturbed' = FALSE
  /\ UNCHANGED <<now, hash, issued, setups>>

Tick ==
  /\ now < MaxTime /\ now' = now + 1
  /\ UNCHANGED <<hash, table, attempts, files, th, issued, setups, events>>

Persist(t) == Snapshot(t) \/ Truncate(t) \/ Fill(t) \/ Rename(t) \/ FailWrite(t)

Next ==
  \/ \E t \in Requests :
       \/ \E c \in Clients, p \in Passwords : Begin(t, c, p, "setup") \/ Begin(t, c, p, "login")
       \/ \E p \in Passwords : AskPassword(t, p)
       \/ \E k \in issued : LogOut(t, k) \/ Use(t, k)
       \/ Refuse(t) \/ SetHash(t) \/ Accept(t) \/ Rehash(t) \/ Create(t)
       \/ List(t) \/ LogOutAll(t) \/ ChangePassword(t) \/ EndSessions(t) \/ Persist(t)
  \/ Restart \/ Tick

Spec == Init /\ [][Next]_vars

-----------------------------------------------------------------------------
(* Properties.                                                             *)

\* The tables keep to their limits.
TypeOK ==
  /\ DOMAIN table \subseteq issued /\ Cardinality(DOMAIN table) <= MaxSessions
  /\ DOMAIN attempts \subseteq Clients /\ Cardinality(DOMAIN attempts) <= MaxClients
  /\ issued \subseteq Tokens /\ setups \in Nat /\ events \in 0..MaxEvents

\* However requests for the first password interleave, one of them is answered
\* with success (authSetup looks again inside Mutate).
SetupOnce == setups <= 1

\* Requests that are handled side by side get at most one wrong attempt each past
\* the limit (allowAttempt before the check, recordFailedAttempt after it).
AttemptsLimited ==
  /\ TypeOK
  /\ \A c \in Clients : Cardinality(InWindow(c)) <= Limit + Cardinality(Requests) - 1

\* What a file or a copy tells of the sessions: it names all of them, those it shows as
\* unexpired are sessions, and it shows none as used later than it was.
Matches(f) ==
  /\ DOMAIN table \subseteq KeysOf(f)
  /\ \A k \in KeysOf(f) : Fresh(f[k]) => k \in DOMAIN table
  /\ \A k \in DOMAIN table : f[k].created = table[k].created /\ f[k].seen <= table[k].seen

\* When nothing is being written, the file names every session, and a restart brings back
\* none that has ended and makes none last longer, unless the last write failed or
\* overlapped with another: whatever earlier writes left behind, one that runs alone to its
\* end sets it right (persistSessions after each change but a prune and a use soon after
\* another).
FileFollowsTable ==
  ~disturbed /\ (\A t \in Requests : ~Writing(t) /\ ~IsAt(t, "snapshot")) => Matches(file)

-----------------------------------------------------------------------------
(* The inductive invariant of the proofs.                                  *)

PCs    == {"idle", "setup", "login", "rehash", "create", "password", "clear", "snapshot",
           "truncate", "fill", "rename"}
Tables == UNION {[S -> [created : Nat, seen : Nat]] : S \in SUBSET Tokens}

\* A table as it can have been at some time until now.
Past(f) == f \in Tables /\ \A k \in DOMAIN f : f[k].seen <= now

TablesInv ==
  /\ now \in Nat /\ Past(table) /\ disturbed \in BOOLEAN /\ issued \subseteq Tokens
  /\ \A f \in {file, tmp} : f \in {NoFile, Broken} \/ Past(f)

ThreadsInv ==
  /\ th \in [Requests -> [pc : PCs, client : Clients \cup {""}, pass : Passwords \cup {""},
                          snap : Tables, opened : {"", "tmp", "file", "gone"}]]
  /\ \A t \in Requests : Past(th[t].snap)

\* A request that will store a password has one; no password is stored but by it.
HashInv ==
  /\ \A t \in Requests :
       th[t].pc \in {"setup", "login", "rehash", "password"} => th[t].pass \in Passwords
  /\ setups \in {0, 1} /\ (setups = 1 => hash # NoHash)

\* As long as writes do not overlap, there is one writer at most, and the temporary file
\* is its own.
WriterInv ==
  ~disturbed =>
    /\ \A t, u \in Requests : Writing(t) /\ Writing(u) => t = u
    /\ \A t \in Requests :
         /\ IsAt(t, "fill") => th[t].opened = "tmp" /\ tmp = Broken
         /\ IsAt(t, "rename") => tmp = th[t].snap

\* What is the last word on the sessions matches them: the copy of the writer or else the
\* file, unless a request has still to take its copy.
LastWordInv ==
  ~disturbed /\ (\A t \in Requests : ~IsAt(t, "snapshot")) =>
    /\ \A t \in Requests : Writing(t) => Matches(th[t].snap)
    /\ (\A t \in Requests : ~Writing(t)) => Matches(file)

\* A table that was the table once keeps to its limit and has sessions that were given out.
GivenOut(f) ==
  /\ DOMAIN f \subseteq issued
  /\ IsFiniteSet(DOMAIN f) /\ Cardinality(DOMAIN f) <= MaxSessions

SizesInv ==
  /\ GivenOut(table) /\ \A t \in Requests : GivenOut(th[t].snap)
  /\ \A f \in {file, tmp} : IsTable(f) => GivenOut(f)
  /\ events \in 0..MaxEvents

\* Attempts are remembered of so many clients only, and each has its times.
AttemptsInv ==
  /\ attempts \in [DOMAIN attempts -> Seq(Nat)]
  /\ DOMAIN attempts \subseteq Clients
  /\ IsFiniteSet(DOMAIN attempts) /\ Cardinality(DOMAIN attempts) <= MaxClients
  /\ \A t \in Requests : th[t].pc \in {"setup", "login"} => th[t].client \in Clients

\* The requests of a client that were allowed and whose password is being checked.
Trying(c) == {t \in Requests : th[t].pc \in {"setup", "login"} /\ th[t].client = c}

\* Each of them may fail: it is counted with those that have.
TriesInv ==
  \A c \in Clients :
    Cardinality(InWindow(c)) + Cardinality(Trying(c)) <= Limit + Cardinality(Requests) - 1

IInv ==
  /\ TablesInv /\ ThreadsInv /\ HashInv /\ WriterInv /\ LastWordInv
  /\ SizesInv /\ AttemptsInv /\ TriesInv

=============================================================================
