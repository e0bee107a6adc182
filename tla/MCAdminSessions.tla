--------------------------- MODULE MCAdminSessions ---------------------------
(***************************************************************************)
(* Instances of AdminSessions for TLC, and what comments say of the file    *)
(* that the code does not keep.                                             *)
(***************************************************************************)
EXTENDS AdminSessions

NoTable     == [k \in {"none"} |-> 0]
BrokenTable == [k \in {"broken"} |-> 0]

\* server.go:180, "persistSessions writes the current session table to disk so
\* signed-in Admin sessions survive a service restart or update".
SessionsSurvive ==
  [][\A t \in Requests : IsAt(t, "rename") /\ (th'[t]).pc = "idle"
       => file' # NoFile \/ events' # events]_vars

\* server.go:3166, "Persist LastSeen at most every 5 minutes so active sessions keep a
\* fresh inactivity clock across restarts": a session that is in use all the time never is
\* unused for so long, so its use is never written.
ActiveStaysFresh ==
  ~disturbed /\ (\A t \in Requests : ~Writing(t) /\ ~IsAt(t, "snapshot")) =>
    \A k \in DOMAIN table : table[k].seen - file[k].seen < SeenEvery

=============================================================================
