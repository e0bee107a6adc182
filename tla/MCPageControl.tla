----------------------------- MODULE MCPageControl -----------------------------
(***************************************************************************)
(* Instances of PageControl for TLC, and what a comment says of page       *)
(* switches that the code does not keep.                                   *)
(***************************************************************************)
EXTENDS PageControl

NoPages == {}
Two     == {2}

\* internal/supervisor/tabs.go:232, "makes the monitor loop re-attach to the now active
\* tab": after a switch the control session ends up on the active tab.
ControlFollowsSwitch ==
  activeTarget # 0 /\ mon.target # activeTarget
    ~> (mon.target = activeTarget \/ Gone \/ guard)

=============================================================================
