-------------------------- MODULE MCBrowserLifecycle --------------------------
(***************************************************************************)
(* Instances of BrowserLifecycle for TLC, and what the repository's        *)
(* documents say of the browser's life that its code does not keep.        *)
(***************************************************************************)
EXTENDS BrowserLifecycle

AllUserKinds == {"start", "stop", "restart", "recover", "reset", "page"}
OnlyStop     == {"stop"}
NoCalls      == {}

\* docs/ROADMAP-NEXT-MAJOR.md:54, "Make manual stop authoritative": the page scheduler,
\* which is paused by a manual stop, never launches a browser after one.
SchedulerRespectsStop ==
  [][op.kind = "schedule" /\ generation' > generation => ~manuallyStopped]_vars

\* docs/ROADMAP-NEXT-MAJOR.md:54, the same sentence: a browser that Stop has taken down
\* counts as stopped by hand.
StopIsRemembered ==
  [][op.kind = "stop" /\ Finish /\ op.ok => manuallyStopped']_vars

\* README.md:250, the guard "trips ... and stops Chromium": a tripped guard ends
\* with the browser down or the guard cleared.
GuardStopsBrowser == guard ~> (~guard \/ cmd = 0)

\* docs/ROADMAP-NEXT-MAJOR.md:54, "A stale watchdog/recovery callback must not
\* start a later browser": a callback ends at most the browser it was about.
StaleCallbackSparesLaterBrowser ==
  op.pc = "killing" =>
    /\ op.kind \in MonitorKinds => op.victim = op.ref
    /\ op.kind # "timer"

=============================================================================
