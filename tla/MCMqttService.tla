----------------------------- MODULE MCMqttService -----------------------------
(***************************************************************************)
(* Instances of MqttService for TLC: MQTT is switched off, and on again     *)
(* with another node, another page enabled and no insert.                   *)
(***************************************************************************)
EXTENDS MqttService

On(root, all, pages, inserts) ==
  [on |-> TRUE, root |-> root, all |-> all, pages |-> pages, inserts |-> inserts]

ThreeConfigs ==
  <<On("r1", {"p", "q"}, {"p"}, {"i"}),
    [On("r1", {"p", "q"}, {"q"}, {"i"}) EXCEPT !.on = FALSE],
    On("r2", {"q"}, {"q"}, {})>>

\* A page that is disabled for a while.
BackAgain ==
  <<On("r1", {"p", "q"}, {"p", "q"}, {}),
    On("r1", {"p", "q"}, {"q"}, {}),
    On("r1", {"p", "q"}, {"p", "q"}, {})>>

\* README.md:181, "KioskMate also publishes per-page Home Assistant entities": once a round
\* for the configuration of now has ended, every enabled page has its state.  Violated
\* with BackAgain as Configs and neither inputs nor faults.
PagesHaveStates ==
  pc["run"] = "sleep" /\ conf.on /\ run.key = ConnectionKey(conf) /\ known = conf.pages
    => \A page \in PageEntities(conf) : states[conf.root][page] # "none"

\* CHANGELOG.md:258, "publish loop serialized against concurrent map races": the cache is
\* written by one goroutine at a time.
CacheHasOneWriter ==
  ~(mu = "commands" /\ \E t \in Threads : pc[t] = "states")

=============================================================================
