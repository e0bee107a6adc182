---------------------------- MODULE DurableConfig ----------------------------
(***************************************************************************)
(* What the configuration store promises: a change is saved completely or   *)
(* not at all, what was saved before it is kept, and the running program    *)
(* uses what is saved, whatever the moment the power goes.                  *)
(***************************************************************************)
CONSTANT Nothing    \* no configuration

VARIABLES
  saved,     \* the configuration that a start would read
  previous,  \* the one that takes its place when its file is damaged
  running,   \* the one the program uses
  outside    \* another process has saved since the program did

vars == <<saved, previous, running, outside>>

Init == previous = Nothing /\ running = Nothing /\ outside = FALSE

\* The configuration is kept before it is replaced.
KeepPrevious == previous' = saved /\ UNCHANGED <<saved, running, outside>>

\* The program saves what it uses from now on; only what another process saved
\* in the meantime may be lost without having been kept.
Commit ==
  /\ saved' # Nothing /\ running' = saved' /\ outside' = FALSE
  /\ previous' = previous
  /\ saved' = saved \/ previous = saved \/ outside

\* Another process saves.
Elsewhere == saved' # Nothing /\ outside' = TRUE /\ UNCHANGED running

\* A crash loses at most what was saved last.
Stop ==
  /\ running' = Nothing /\ outside' = FALSE
  /\ saved' \in {saved, previous} /\ UNCHANGED previous

Next == KeepPrevious \/ Commit \/ Elsewhere \/ Stop

Spec == Init /\ [][Next]_vars

=============================================================================
