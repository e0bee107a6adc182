----------------------------- MODULE MCWorkflow -----------------------------
(***************************************************************************)
(* Instances of Workflow for TLC: minutes of two ticks, days of one. *)
(***************************************************************************)
EXTENDS Workflow

Rule(id, trigger, actions) ==
  [id |-> id, trigger |-> trigger, disabled |-> FALSE, at |-> 0, days |-> {}, idle |-> 2,
   cooldown |-> 0, clock |-> {}, onPage |-> FALSE, actions |-> actions]

Act(type, power, duration) == [type |-> type, power |-> power, duration |-> duration]

Bell  == [Rule("bell", "mqtt", <<Act("show_page", "", 2), Act("display", "ON", 2)>>)
            EXCEPT !.cooldown = 2]
Alarm == [Rule("alarm", "time", <<Act("evaluate", "", 0)>>) EXCEPT !.cooldown = 3]
Daily == Rule("daily", "time", <<Act("resume_playlist", "", 0)>>)
Dim   == Rule("dim", "idle", <<Act("display", "OFF", 0)>>)
Slide == [Rule("slide", "idle", <<Act("evaluate", "", 0)>>) EXCEPT !.onPage = TRUE]
Hook  == [Rule("hook", "webhook", <<Act("resume_playlist", "", 0)>>) EXCEPT !.clock = {1}]
Tap   == Rule("tap", "touch", <<Act("display", "ON", 1)>>)

Events == {<<Bell, Tap, Hook>>}
Timed  == {<<Alarm, Daily, Dim, Slide>>}
Both   == Events \cup Timed
Idling == {<<Dim, Slide, Tap>>}

AllRules   == {"bell", "alarm", "daily", "dim", "slide", "hook", "tap"}
AllThreads == {"ticker", "mqtt", "web", "touch", "admin"}
Kinds ==
  [t \in AllThreads |->
     CASE t = "web" -> "webhook" [] t = "admin" -> "manual" [] OTHER -> t]

\* README.md:217, "A workflow never replaces or ends a manual override."
NeverReplacesManual ==
  [][\A t \in Threads :
       KindOf[t] # "manual" /\ th'[t] # th[t] /\ override' # override
       => OverrideNow.source # "admin"]_vars

\* README.md:214, "`idle` (no input for `idle_seconds`; fires once, the next input
\* re-arms it)".
IdleMeansNoInput ==
  [][\A t \in Threads :
       IsAt(t, "idling") /\ th'[t].pc = "fire" => now - input >= th'[t].rule.idle]_vars

\* engine.go:381, "A newer display action replaces a pending revert."
NewerActionReplacesRevert ==
  [][reverts' # reverts /\ panel' # panel => replaced <= now]_vars

=============================================================================
