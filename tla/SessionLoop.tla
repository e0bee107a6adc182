------------------------------ MODULE SessionLoop ------------------------------
(***************************************************************************)
(* The loop of an attached control session (runDevTools in                 *)
(* internal/supervisor/cdp.go): the heartbeat that notices a page whose    *)
(* JavaScript no longer runs, and the window after a navigation in which   *)
(* Chromium's network events are watched for rejected Home Assistant       *)
(* logins.  Chromium sends token responses into the buffered channel of    *)
(* the session; the loop may take the timer before them, and takes them    *)
(* whether the events are still on or not.                                 *)
(*                                                                         *)
(* The heartbeat beats every half minute, so time since a navigation is    *)
(* counted in beats.  How the session is made and what follows its loss is *)
(* left to other modules.                                                  *)
(***************************************************************************)
EXTENDS Naturals, Sequences

CONSTANT MaxEvents \* bound on navigations, token responses and lost sessions

ASSUME EventsAssumption == MaxEvents \in Nat

VARIABLES
  page,            \* answers; hung: its JavaScript does not run; frozen: nor after a reload
  beats,           \* heartbeats since lastNavigation
  missed,          \* unanswered probes in a row
  silent,          \* history: unanswered probes of this load that no answer interrupted
  restartAsked,    \* handleRendererHang was started
  always,          \* alwaysMonitor: performance.auth_monitor is "always"
  networkOn,       \* Chromium sends network events
  timer,           \* monitorTimer: running, expired (not handled yet) or stopped
  freshLoad,       \* history: the window opened by the last navigation taken has not run out
  unfinished,      \* Chromium: refused token requests whose body has yet to end
  queue,           \* session.events: token responses and their ends, not taken yet
  tokenFailures,   \* refused token responses that wait for their body
  late,            \* history: those of them taken after the events had gone off
  events           \* bound counter; token requests are numbered with it

beatVars  == <<page, beats, missed, silent, restartAsked>>
timerVars == <<always, networkOn, timer, freshLoad>>
tokenVars == <<unfinished, queue, tokenFailures, late>>
watchVars == <<timerVars, tokenVars>>
loopVars  == <<beatVars, watchVars, events>>

Settled == 3       \* by so many beats a minute has certainly passed

Requests == 1 .. MaxEvents
Message  == [kind : {"refused", "finished"}, id : Requests]

LoopTypeOK ==
  /\ page \in {"answers", "hung", "frozen"}
  /\ beats \in 0 .. Settled /\ missed \in 0 .. 2 /\ silent \in 0 .. 4
  /\ restartAsked \in BOOLEAN
  /\ always \in BOOLEAN /\ networkOn \in BOOLEAN /\ freshLoad \in BOOLEAN
  /\ unfinished \subseteq Requests /\ queue \in Seq(Message)
  /\ tokenFailures \subseteq Requests /\ late \subseteq tokenFailures
  /\ timer \in {"running", "expired", "stopped"}
  /\ events \in 0 .. MaxEvents

FirstTimer(forAlways) == IF forAlways THEN "stopped" ELSE "running"

\* runDevTools has enabled the domains of an answering page and enters its loop.
LoopInit ==
  /\ page = "answers"
  /\ beats = 0 /\ missed = 0 /\ silent = 0 /\ restartAsked = FALSE
  /\ always \in BOOLEAN
  /\ networkOn = TRUE /\ timer = FirstTimer(always) /\ freshLoad = TRUE
  /\ unfinished = {} /\ queue = <<>> /\ tokenFailures = {} /\ late = {}
  /\ events = 0

Event == events < MaxEvents /\ events' = events + 1

-----------------------------------------------------------------------------
(***************************************************************************)
(* The heartbeat                                                           *)
(***************************************************************************)

PageHangs ==
  /\ page = "answers"
  /\ page' \in {"hung", "frozen"}
  /\ UNCHANGED <<beats, missed, silent, restartAsked, watchVars, events>>

PageRecovers ==
  /\ page = "hung"
  /\ page' = "answers"
  /\ UNCHANGED <<beats, missed, silent, restartAsked, watchVars, events>>

\* At the second beat after a navigation the minute may be over or not.
NextBeat     == IF beats = Settled THEN Settled ELSE beats + 1
StillLoading == NextBeat <= 2

ProbesAtOnce == TRUE                                \* weakened form of MayProbe
MayProbe     == NextBeat >= 2

CountsNone  == missed                               \* weakened form of CountMissed
CountMissed == missed + 1

ClockAtReload == 0

BeatWhileLoading ==
  /\ StillLoading
  /\ beats' = NextBeat /\ missed' = 0
  /\ UNCHANGED <<page, silent, restartAsked>>

BeatAnswered ==
  /\ MayProbe /\ page = "answers"
  /\ beats' = NextBeat /\ missed' = 0 /\ silent' = 0
  /\ UNCHANGED <<page, restartAsked>>

\* The second unanswered probe in a row reloads the page, which counts as a navigation;
\* the fourth would have the browser restarted.
BeatMissed ==
  /\ MayProbe /\ page # "answers"
  /\ missed' = CountMissed
  /\ silent' = IF silent = 4 THEN silent ELSE silent + 1
  /\ beats' = IF missed' = 2 THEN ClockAtReload ELSE NextBeat
  /\ page' \in IF missed' = 2 /\ page = "hung" THEN {"hung", "answers"} ELSE {page}
  /\ restartAsked' = (restartAsked \/ missed' >= 4)

Beat ==
  /\ BeatWhileLoading \/ BeatAnswered \/ BeatMissed
  /\ UNCHANGED <<watchVars, events>>

-----------------------------------------------------------------------------
(***************************************************************************)
(* Navigations and the network window                                      *)
(***************************************************************************)

WindowReopened == timer' = "running"

\* Page.frameNavigated of the main frame: network events are switched on again if
\* need be, and the timer is stopped, drained and reset.
Navigated ==
  /\ Event
  /\ page' \in IF page = "hung" THEN {"hung", "answers"} ELSE {page}
  /\ beats' = 0 /\ silent' = 0
  /\ freshLoad' = TRUE
  /\ IF always
     THEN UNCHANGED <<networkOn, timer>>
     ELSE networkOn' = TRUE /\ WindowReopened
  /\ UNCHANGED <<missed, restartAsked, always, tokenVars>>

TimerExpires ==
  /\ timer = "running"
  /\ timer' = "expired"
  /\ freshLoad' = FALSE
  /\ UNCHANGED <<beatVars, always, networkOn, tokenVars, events>>

NothingAwaited == TRUE                              \* weakened form of NoTokenAwaited
NoTokenAwaited == tokenFailures = {}

\* The window ends, unless the body of a rejected token response is still awaited:
\* then it is extended by 30 seconds.
TimerHandled ==
  /\ timer = "expired"
  /\ IF NoTokenAwaited
     THEN networkOn' = FALSE /\ timer' = "stopped"
     ELSE timer' = "running" /\ UNCHANGED networkOn
  /\ UNCHANGED <<beatVars, always, freshLoad, tokenVars, events>>

-----------------------------------------------------------------------------
(***************************************************************************)
(* Token responses                                                         *)
(***************************************************************************)

\* Home Assistant answers a token request with 400.
TokenRefused ==
  /\ Event
  /\ networkOn
  /\ unfinished' = unfinished \cup {events'}
  /\ queue' = Append(queue, [kind |-> "refused", id |-> events'])
  /\ UNCHANGED <<beatVars, timerVars, tokenFailures, late>>

\* Its body ends while Chromium sends network events.
TokenFinished ==
  /\ networkOn
  /\ \E id \in unfinished :
       /\ unfinished' = unfinished \ {id}
       /\ queue' = Append(queue, [kind |-> "finished", id |-> id])
  /\ UNCHANGED <<beatVars, timerVars, tokenFailures, late, events>>

\* Or after they were switched off, and nobody hears of it.
TokenFinishedUnheard ==
  /\ ~networkOn
  /\ \E id \in unfinished : unfinished' = unfinished \ {id}
  /\ UNCHANGED <<beatVars, timerVars, queue, tokenFailures, late, events>>

\* Network.responseReceived: the response waits for its body, on or off.
TakeRefused ==
  /\ queue # <<>> /\ Head(queue).kind = "refused"
  /\ queue' = Tail(queue)
  /\ tokenFailures' = tokenFailures \cup {Head(queue).id}
  /\ late' = IF networkOn THEN late ELSE late \cup {Head(queue).id}
  /\ UNCHANGED <<beatVars, timerVars, unfinished, events>>

\* Network.loadingFinished: the body is read and, here, no reason to block, or cannot
\* be read any more.
TakeFinished ==
  /\ queue # <<>> /\ Head(queue).kind = "finished"
  /\ queue' = Tail(queue)
  /\ tokenFailures' = tokenFailures \ {Head(queue).id}
  /\ late' = late \ {Head(queue).id}
  /\ UNCHANGED <<beatVars, timerVars, unfinished, events>>

\* The session ends (disconnected, a command failed, another tab); the monitor makes
\* a new one, with an empty channel, and its loop starts over.
Reattached ==
  /\ Event
  /\ beats' = 0 /\ missed' = 0 /\ silent' = 0
  /\ always' \in BOOLEAN
  /\ networkOn' = TRUE /\ timer' = FirstTimer(always') /\ freshLoad' = TRUE
  /\ unfinished' = {} /\ queue' = <<>> /\ tokenFailures' = {} /\ late' = {}
  /\ UNCHANGED <<page, restartAsked>>

LoopNext ==
  \/ PageHangs \/ PageRecovers \/ Beat
  \/ Navigated \/ TimerExpires \/ TimerHandled
  \/ TokenRefused \/ TokenFinished \/ TokenFinishedUnheard \/ TakeRefused \/ TakeFinished
  \/ Reattached

\* The ticker and the timer run, and the loop takes what they deliver; nothing makes
\* Chromium deliver the end of a response.
LoopFairness == WF_loopVars(Beat) /\ WF_loopVars(TimerExpires) /\ WF_loopVars(TimerHandled)

LoopSpec     == LoopInit /\ [][LoopNext]_loopVars
LoopFairSpec == LoopSpec /\ LoopFairness

-----------------------------------------------------------------------------
(***************************************************************************)
(* Properties                                                              *)
(***************************************************************************)

\* A page is reloaded only after two probes of one and the same load went unanswered
\* with no answer in between: never because it loads slowly on slow hardware, nor for
\* a silence that an earlier page or an earlier session began.
ReloadIsJustified ==
  [][missed' = 2 /\ missed # 2 => silent' >= 2]_loopVars

\* A page that hangs is reloaded, unless it comes back by itself, once navigations
\* and reconnects leave the heartbeat a minute and a half.
HungPageIsReloaded ==
  page # "answers" ~> (page = "answers" \/ missed = 2)

\* From the navigation that the loop took last until its window has run out, and for
\* as long as the body of a rejected token response is awaited that was taken while the
\* events were on, Chromium's network events are on, whatever the timer, queued
\* responses and navigations do in between.  A response that was still queued when the
\* events went off is the exception: it waits with the events off.
LoginIsWatched ==
  LoopTypeOK /\ (freshLoad \/ tokenFailures \ late # {} => networkOn)

-----------------------------------------------------------------------------
(***************************************************************************)
(* The inductive invariant of the proofs                                   *)
(***************************************************************************)

\* Probes are counted from the second beat of a load on, and the count of a load that
\* is being probed is never more than its silence.
ProbeInv == beats >= 1 => missed <= 1 /\ missed <= silent

\* Events go off only when the timer of the last window was handled, and a session
\* that always watches has no timer.
WindowInv ==
  /\ always => networkOn /\ timer = "stopped"
  /\ freshLoad => timer # "expired" /\ networkOn
  /\ tokenFailures \ late # {} => networkOn

LoopInv == LoopTypeOK /\ ProbeInv /\ WindowInv

=============================================================================
