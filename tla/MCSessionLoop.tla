----------------------------- MODULE MCSessionLoop -----------------------------
(***************************************************************************)
(* Instances of SessionLoop for TLC, and what comments say of the loop     *)
(* that its code does not do.                                              *)
(***************************************************************************)
EXTENDS SessionLoop

\* internal/supervisor/hang.go:13, "Two missed answers in a row reload the page, four
\* restart the browser": a page that stays frozen gets the browser restarted.
FrozenPageRestartsBrowser == page = "frozen" ~> restartAsked

\* internal/supervisor/cdp.go:363 keeps the window open "if len(tokenFailures) > 0": while
\* a rejected token response waits for its body, the network events are on.  One that was
\* still queued when the timer was taken waits with the events off, and keeps the next
\* window open for ever.
AwaitedIsWatched == tokenFailures # {} => networkOn

=============================================================================
