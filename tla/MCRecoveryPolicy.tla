--------------------------- MODULE MCRecoveryPolicy ---------------------------
(***************************************************************************)
(* Instances of RecoveryPolicy for TLC, and what the repository's          *)
(* documents promise of recovery that its code does not keep.              *)
(***************************************************************************)
EXTENDS RecoveryPolicy

\* CHANGELOG.md:308, "exponential crash-loop backoff and automatic recovery after
\* unexpected browser exits": an automatic restart that fails plans the next one.
FailedRestartIsRetried == [][RestartTimerFires /\ ~up' => timer' # 0]_policyVars

=============================================================================
