------------------------------ MODULE MqttService ------------------------------
(***************************************************************************)
(* The MQTT side (internal/integration/mqtt.go, internal/mqttclient): the   *)
(* loop that follows the configuration and publishes, requests to publish   *)
(* or to reset the discovery, one goroutine per configuration that receives *)
(* commands, and the broker with the last will and what it retains.         *)
(* A connection that has died is noticed at a write; until then what is     *)
(* written is lost.                                                         *)
(***************************************************************************)
EXTENDS Integers, Sequences, FiniteSets

CONSTANTS
  Configs,    \* the configurations, in the order in which they are used:
              \* [on, root, all, pages, inserts], pages being those of all that are enabled
  MaxInputs,  \* bound on requests, messages and changes outside
  MaxFaults   \* bound on failures, lost writes, crashes and stops

ASSUME MqttAssumption ==
  /\ MaxInputs \in Nat /\ MaxFaults \in Nat
  /\ Configs # <<>> /\ Configs \in Seq({Configs[i] : i \in DOMAIN Configs})
  /\ \A i \in DOMAIN Configs : Configs[i].pages \subseteq Configs[i].all

VARIABLES
  at,        \* the configuration that is used
  support,   \* the display can be dimmed
  shown,     \* the page that the browser shows
  up,        \* the program runs
  run,       \* Run: [key, want], the connection key that is active and the next one
  pc,        \* where Run and a request of the administrator are
  seen,      \* the states that a round of each has read to publish
  publishMu, mu, \* who holds them, or "free"
  client,    \* s.client: [root, conn], or NoClient
  cache,     \* s.cache: for each path what was published last, or "none"
  cmds,      \* the goroutines that run commands, in the order of their start
  command,   \* s.command: one of them, or 0
  live,      \* the one whose context is not cancelled, or 0
  registry,  \* the registry of discovery topics, in memory and in its file
  known,     \* s.knownPageIDs
  avail, wills, retained, states, \* the broker's: availability, last wills, discovery
             \* topics and, for each root and path, the state
  torn,      \* history: topics that a round published which then failed
  lost,      \* history: paths in the cache that were written to a dead connection, or
             \* for a configuration that Run had not followed
  cleared,   \* history: paths in the cache whose states were cleared after that
  inputs, faults

outside == <<at, support, shown>>
reading == <<cmds, command, live>>
broker  == <<avail, wills, retained, states>>
threads == <<run, pc, seen>>
caching == <<cache, lost, cleared>>
bounds  == <<inputs, faults>>
vars == <<outside, up, threads, publishMu, mu, client, caching, reading, registry, known,
          broker, torn, bounds>>

conf == Configs[at]

Threads  == {"run", "admin"}
Roots    == {Configs[i].root : i \in DOMAIN Configs}
AllPages == UNION {Configs[i].all : i \in DOMAIN Configs}
NoKey    == <<>>
NoClient == [root |-> "none", conn |-> "closed"]
Paths    == {"page"} \cup AllPages
Nothing  == [path \in Paths |-> "none"]
NoRound  == [path \in {} |-> "none"]
Input    == inputs < MaxInputs /\ inputs' = inputs + 1 /\ UNCHANGED faults
Fault    == faults < MaxFaults /\ faults' = faults + 1 /\ UNCHANGED inputs
GoTo(t, where) == pc' = [pc EXCEPT ![t] = where]

\* Weakened form of ConnectionKey: a change of the pages does not count.
KeyOfServer(c) == <<c.root, c.inserts>>

\* connectionKey: a page counts whether or not it is enabled.
ConnectionKey(c) == <<c.root, c.inserts, c.all>>

\* The pages that have a topic and a name: the enabled ones.
PageEntities(c) == c.pages

\* The topics that commands subscribes to.
Topics(c) == {"command"} \cup PageEntities(c) \cup c.inserts

\* The entities of publishDiscovery, in their order: those that every configuration has
\* and the hardware supports, the enabled pages', and the inserts'.  A page has seven
\* that are cleared when it goes away, "button" here, and three that are not: "name".
Supported      == IF support THEN {"light"} ELSE {}
FixedItems     == ({"fixed"} \cup Supported) \X {"entity"}
PageItems(c)   == PageEntities(c) \X {"button", "name"}
InsertItems(c) == c.inserts \X {"entity"}

Items(c) == {c.root} \X (FixedItems \cup PageItems(c) \cup InsertItems(c))

\* What a reset clears, whether or not the registry knows it.
ResetEntries == {conf.root} \X (({"fixed", "light"} \X {"entity"}) \cup PageItems(conf))

Init ==
  /\ at = 1 /\ support = TRUE /\ shown \in conf.pages
  /\ up = TRUE /\ run = [key |-> NoKey, want |-> NoKey]
  /\ pc = [t \in Threads |-> IF t = "run" THEN "look" ELSE "idle"]
  /\ seen = [t \in Threads |-> NoRound]
  /\ publishMu = "free" /\ mu = "free" /\ client = NoClient /\ cache = Nothing
  /\ cmds = <<>> /\ command = 0 /\ live = 0 /\ registry = {} /\ known = {}
  /\ avail = [r \in Roots |-> "none"] /\ wills = {} /\ retained = {}
  /\ states = [r \in Roots |-> Nothing] /\ torn = {} /\ lost = {} /\ cleared = {}
  /\ inputs = 0 /\ faults = 0

-----------------------------------------------------------------------------
(* The client (internal/mqttclient).                                       *)

\* mqtt(): the will of a new client is for the root of now.
Client == IF client = NoClient THEN [root |-> conf.root, conn |-> "closed"] ELSE client

\* What comes of a write: whether it succeeds, whether it arrives, and the connection.
Sent(conn) ==
  CASE conn = "open"   -> {[ok |-> TRUE, arrives |-> TRUE, conn |-> "open"]}
    [] conn = "closed" -> {[ok |-> TRUE, arrives |-> TRUE, conn |-> "open"],
                           [ok |-> FALSE, arrives |-> FALSE, conn |-> "closed"]}
    [] conn = "dead"   -> {[ok |-> TRUE, arrives |-> FALSE, conn |-> "dead"],
                           [ok |-> FALSE, arrives |-> FALSE, conn |-> "closed"]}

\* A connection that is refused, and a write that is lost, are faults.
Bounded(conn, o) ==
  IF (conn = "closed" /\ ~o.ok) \/ (conn = "dead" /\ o.ok) THEN Fault ELSE UNCHANGED bounds

\* A client that connects again ends its old session: its last will is published.
Reaches(c, o) ==
  IF c.conn = "closed" /\ o.arrives
  THEN /\ wills' = wills \ {c.root}
       /\ avail' = [avail EXCEPT ![c.root] = IF c.root \in wills THEN "offline" ELSE @]
  ELSE UNCHANGED <<wills, avail>>

\* The same, and then an availability for the root of now.
Announces(c, o, text) ==
  LET resolved == c.conn = "closed" /\ o.arrives /\ c.root \in wills
  IN /\ wills' = IF c.conn = "closed" /\ o.arrives THEN wills \ {c.root} ELSE wills
     /\ avail' = [r \in Roots |->
          IF o.arrives /\ r = conf.root THEN text
          ELSE IF resolved /\ r = c.root THEN "offline" ELSE avail[r]]

-----------------------------------------------------------------------------
(* Run.                                                                    *)

\* The top of the loop.
Look ==
  /\ up /\ pc["run"] = "look"
  /\ LET want == IF conf.on THEN ConnectionKey(conf) ELSE NoKey
     IN /\ run' = [run EXCEPT !.want = want]
        /\ GoTo("run", IF want # run.key THEN "close"
                       ELSE IF conf.on THEN "begin" ELSE "sleep")
  /\ UNCHANGED <<outside, up, seen, publishMu, mu, client, caching, reading, registry, known,
                 broker, torn, bounds>>

\* What closeClients tells the broker: offline, for the root of now.
Goodbye ==
  IF client = NoClient THEN UNCHANGED <<avail, wills>>
  ELSE \E o \in Sent(client.conn) : Announces(client, o, "offline")

\* A goroutine whose connection is closed.
Cut(g) == [cmds EXCEPT ![g].conn = FALSE]

CloseClients ==
  /\ up /\ pc["run"] = "close" /\ publishMu = "free" /\ mu = "free"
  /\ Goodbye /\ client' = NoClient
  /\ cmds' = IF command = 0 THEN cmds ELSE Cut(command)
  /\ command' = 0 /\ GoTo("run", "open")
  /\ UNCHANGED <<outside, up, run, seen, publishMu, mu, caching, live, registry, known,
                 retained, states, torn, bounds>>

\* Weakened form of ResetPublishCache: what the old connection published is relied on.
KeepPublishCache == UNCHANGED <<caching>>

ResetPublishCache == cache' = Nothing /\ lost' = {} /\ cleared' = {}

NewCommands == [pc |-> "begin", conn |-> FALSE, root |-> "none", key |-> NoKey, topics |-> {}]

\* The old context is cancelled, the cache emptied, and a goroutine started for commands.
Open ==
  /\ up /\ pc["run"] = "open" /\ run' = [run EXCEPT !.key = run.want]
  /\ IF run.want = NoKey
     THEN live' = 0 /\ GoTo("run", "sleep") /\ UNCHANGED <<caching, cmds>>
     ELSE /\ publishMu = "free" /\ ResetPublishCache
          /\ cmds' = Append(cmds, NewCommands) /\ live' = Len(cmds) + 1
          /\ GoTo("run", "begin")
  /\ UNCHANGED <<outside, up, seen, publishMu, mu, client, command, registry, known, broker,
                 torn, bounds>>

\* resetPublisher.
ResetPublisher ==
  /\ up /\ pc["run"] = "reset" /\ publishMu = "free" /\ mu = "free"
  /\ client' = NoClient /\ cache' = Nothing /\ lost' = {} /\ cleared' = {}
  /\ GoTo("run", "sleep")
  /\ UNCHANGED <<outside, up, run, seen, publishMu, mu, reading, registry, known,
                 broker, torn, bounds>>

\* sleepOrConfigChange: the time is over, or there is a notification, which the scheduler
\* may have taken instead (both receive from one channel).
Wake ==
  /\ up /\ pc["run"] = "sleep"
  /\ GoTo("run", "look")
  /\ UNCHANGED <<outside, up, run, seen, publishMu, mu, client, caching,
                 reading, registry, known, broker, torn, bounds>>

-----------------------------------------------------------------------------
(* A round of publishing, publishAll, of Run or of a request.               *)

\* The locks, the browser's state, and the client.
BeginRound(t) ==
  up /\ pc[t] = "begin" /\ publishMu = "free" /\ mu = "free"

\* A round ends; of a failure, Run gives up the connection.
EndRound(t, ok) ==
  /\ publishMu' = "free" /\ seen' = [seen EXCEPT ![t] = NoRound]
  /\ GoTo(t, IF t = "admin" THEN "idle" ELSE IF ok THEN "sleep" ELSE "reset")

\* Weakened form of Stale: topics of another root are forgotten.
StaleHere(topics) == {topic \in topics : topic[1] = conf.root}

\* staleDiscoveryTopics
Stale(topics) == topics

\* clearStalePageDiscovery: the pages that are gone since this process last published.
PagesGone == known \ conf.pages

\* Most topics of those, what the registry holds and is not wanted any more, and what the
\* hardware does not support.
Unwanted ==
  ( ({conf.root} \X (PagesGone \X {"button"})) \cup Stale(registry)
      \cup {<<conf.root, <<"light", "entity">>>>} )
  \ Items(conf)

\* The retained states of those pages are cleared; the cache is not told.
ClearStates(pages, arrives) ==
  IF arrives
  THEN /\ states' = [states EXCEPT ![conf.root] =
                       [path \in Paths |-> IF path \in pages THEN "none" ELSE @[path]]]
       /\ cleared' = cleared \cup {path \in pages : cache[path] # "none"}
  ELSE UNCHANGED <<states, cleared>>

\* The states of a round: the page that is shown, and of every enabled one whether it is.
Payload ==
  [path \in {"page"} \cup PageEntities(conf) |->
     IF path = "page" THEN shown ELSE IF path = shown THEN "ON" ELSE "OFF"]

\* publishDiscovery: what is unwanted is cleared, every entity published, and the
\* registry saved.
Discover(t) ==
  /\ BeginRound(t)
  /\ \E o \in Sent(Client.conn) :
       /\ Bounded(Client.conn, o) /\ Reaches(Client, o)
       /\ client' = [Client EXCEPT !.conn = o.conn]
       /\ \/ /\ o.ok /\ publishMu' = t /\ seen' = [seen EXCEPT ![t] = Payload]
             /\ retained' = IF o.arrives THEN (retained \ Unwanted) \cup Items(conf) ELSE retained
             /\ torn' = IF o.arrives THEN torn \ (Items(conf) \cup Unwanted)
                        ELSE torn \cup (Unwanted \cap retained)
             /\ registry' = Items(conf) /\ known' = conf.pages
             /\ ClearStates(PagesGone, o.arrives)
             /\ GoTo(t, "online")
          \/ /\ ~o.ok /\ EndRound(t, FALSE)
             /\ known' \in {conf.pages} \cup IF PagesGone = {} THEN {} ELSE {known}
             /\ Client.conn = "closed" /\ PagesGone # {} => known' = known
             /\ UNCHANGED <<retained, torn, registry, states, cleared>>
  /\ UNCHANGED <<outside, up, run, mu, cache, reading, lost>>

\* The same reaches the broker, perhaps by connecting, and the connection breaks in the
\* middle, when some of what belongs to the pages that are gone is cleared, or all that is
\* unwanted and some entities are published, or at the end the registry cannot be saved.
DiscoverInPart(t) ==
  /\ BeginRound(t) /\ Client.conn # "dead" /\ Fault
  /\ avail' = IF Client.conn = "closed" /\ Client.root \in wills
              THEN [avail EXCEPT ![Client.root] = "offline"] ELSE avail
  /\ \/ /\ client' = [Client EXCEPT !.conn = "closed"] /\ wills' = wills \cup {Client.root}
        /\ \E pages \in SUBSET PagesGone :
             /\ retained' = retained \ ({conf.root} \X (pages \X {"button"}))
             /\ ClearStates(pages, TRUE) /\ UNCHANGED <<torn, known>>
     \/ \E more \in {{}, PageItems(conf), PageItems(conf) \cup InsertItems(conf)} :
          LET some == {conf.root} \X (FixedItems \cup more)
          IN /\ retained' = (retained \ Unwanted) \cup some
             /\ torn' = (torn \ Unwanted) \cup (some \ registry)
             /\ ClearStates(PagesGone, TRUE) /\ known' = conf.pages
             /\ IF some = Items(conf) /\ registry # Items(conf)
                THEN client' = [Client EXCEPT !.conn = "open"] /\ wills' = wills \ {Client.root}
                ELSE /\ client' = [Client EXCEPT !.conn = "closed"]
                     /\ wills' = wills \cup {Client.root}
  /\ EndRound(t, FALSE)
  /\ UNCHANGED <<outside, up, run, mu, cache, reading, registry, lost>>

\* The state and the availability: a failure ends the round.
Online(t) ==
  /\ up /\ pc[t] = "online"
  /\ \E o \in Sent(client.conn) :
       /\ Bounded(client.conn, o) /\ Announces(client, o, "online")
       /\ client' = [client EXCEPT !.conn = o.conn]
       /\ IF o.ok THEN GoTo(t, "states") /\ UNCHANGED <<publishMu, seen>>
          ELSE EndRound(t, FALSE)
  /\ UNCHANGED <<outside, up, run, mu, caching, reading, registry, known, retained, states,
                 torn>>

Updated(old, paths, new) == [path \in Paths |-> IF path \in paths THEN new[path] ELSE old[path]]

\* publishState, for every state that was read, those of the pages last: only what has
\* changed, and a failure is ignored, so that a connection that breaks leaves some out.
PublishStates(t) ==
  /\ up /\ pc[t] = "states"
  /\ LET changed == {path \in DOMAIN seen[t] : cache[path] # seen[t][path]}
     IN \E o \in Sent(client.conn), paths \in {changed, changed \cap {"page"}, {}} :
          /\ IF o.ok /\ paths # changed THEN Fault ELSE Bounded(client.conn, o)
          /\ Reaches(client, o)
          /\ client' = [client EXCEPT !.conn = o.conn]
          /\ o.ok \/ paths = {}
          /\ cache' = Updated(cache, paths, seen[t])
          /\ states' = IF o.arrives
                       THEN [states EXCEPT ![conf.root] = Updated(@, paths, seen[t])] ELSE states
          /\ cleared' = cleared \ paths
          /\ lost' = IF o.arrives /\ run.key = ConnectionKey(conf) THEN lost \ paths
                     ELSE lost \cup paths
  /\ EndRound(t, TRUE)
  /\ UNCHANGED <<outside, up, run, mu, reading, registry, known, retained, torn>>

\* PublishNow and ResetDiscovery, of the administrator.
Ask ==
  /\ up /\ pc["admin"] = "idle" /\ conf.on /\ Input
  /\ \E where \in {"begin", "wipe"} : GoTo("admin", where)
  /\ UNCHANGED <<outside, up, run, seen, publishMu, mu, client, caching, reading,
                 registry, known, broker, torn>>

\* discoveryResetEntries and the registry are cleared; then everything is published.
ResetDiscovery ==
  LET wiped == registry \cup ResetEntries
  IN /\ up /\ pc["admin"] = "wipe" /\ publishMu = "free" /\ mu = "free"
     /\ \E o \in Sent(Client.conn) :
          /\ Bounded(Client.conn, o) /\ Reaches(Client, o)
          /\ client' = [Client EXCEPT !.conn = o.conn]
          /\ IF o.ok
             THEN /\ registry' = {} /\ GoTo("admin", "begin")
                  /\ retained' = IF o.arrives THEN retained \ wiped ELSE retained
                  /\ torn' = IF o.arrives THEN torn \ wiped
                             ELSE torn \cup (wiped \cap retained)
             ELSE GoTo("admin", "idle") /\ UNCHANGED <<registry, retained, torn>>
     /\ UNCHANGED <<outside, up, run, seen, publishMu, mu, caching, reading, known,
                    states>>

-----------------------------------------------------------------------------
(* Commands.                                                               *)

Set(g, field) == cmds' = [cmds EXCEPT ![g].pc = field]

\* The goroutine reads the configuration and enters its client.
Register(g) ==
  /\ up /\ cmds[g].pc = "begin" /\ mu = "free"
  /\ command' = g
  /\ cmds' = [cmds EXCEPT ![g] = [NewCommands EXCEPT !.pc = "connect", !.root = conf.root,
                                    !.key = ConnectionKey(conf), !.topics = Topics(conf)]]
  /\ UNCHANGED <<outside, up, threads, publishMu, mu, client, caching, live, registry, known,
                 broker, torn, bounds>>

\* Subscribe: the broker drops another connection with the same client ID.
Subscribe(g) ==
  /\ up /\ cmds[g].pc = "connect"
  /\ \/ /\ cmds' = [h \in DOMAIN cmds |->
                      IF h = g THEN [cmds[h] EXCEPT !.conn = TRUE, !.pc = "serving"]
                      ELSE IF cmds[h].root = cmds[g].root THEN [cmds[h] EXCEPT !.conn = FALSE]
                      ELSE cmds[h]]
        /\ UNCHANGED bounds
     \/ Set(g, "failed") /\ Fault
  /\ UNCHANGED <<outside, up, threads, publishMu, mu, client, caching, command, live, registry,
                 known, broker, torn>>

\* Subscribe has returned: without a context the goroutine leaves.
Leave(g) ==
  /\ up /\ live # g /\ mu = "free"
  /\ cmds[g].pc \in {"failed", "wait"} \/ (cmds[g].pc = "serving" /\ ~cmds[g].conn)
  /\ command' = IF command = g THEN 0 ELSE command
  /\ cmds' = [cmds EXCEPT ![g] = [NewCommands EXCEPT !.pc = "ended"]]
  /\ UNCHANGED <<outside, up, threads, publishMu, mu, client, caching, live, registry, known,
                 broker, torn, bounds>>

\* With one it pauses.
Pause(g) ==
  /\ up /\ live = g
  /\ cmds[g].pc = "failed" \/ (cmds[g].pc = "serving" /\ ~cmds[g].conn)
  /\ Set(g, "wait")
  /\ UNCHANGED <<outside, up, threads, publishMu, mu, client, caching, command, live, registry,
                 known, broker, torn, bounds>>

\* The pause is over, perhaps at the moment of the cancellation (sleepContext).
Retry(g) ==
  /\ up /\ cmds[g].pc = "wait" /\ Set(g, "connect")
  /\ UNCHANGED <<outside, up, threads, publishMu, mu, client, caching, command, live, registry,
                 known, broker, torn, bounds>>

\* The page that a message means: the one whose topic it is or, by number, name or
\* direction, any.
Meant(topic) ==
  IF topic = "command" THEN PageEntities(conf) ELSE {topic} \cap PageEntities(conf)

\* activatePage: it fails when the context is cancelled.
ShownBy(topic, g) == {shown} \cup IF live = g THEN Meant(topic) ELSE {}

\* A message is handled, one at a time, and a result is to be published, but not for a
\* workflow's topic, another payload than a page's, a signal and an unknown command.
Message(g) ==
  /\ up /\ cmds[g].pc = "serving" /\ cmds[g].conn /\ Input
  /\ \A h \in DOMAIN cmds : cmds[h].pc \notin {"result", "write"}
  /\ Set(g, "result") \/ UNCHANGED cmds
  /\ UNCHANGED <<at, support, up, threads, publishMu, mu, client, caching, command, live,
                 registry, known, broker, torn>>

\* handleCommand: pages; the browser, the hardware and jobs are told something.
HandleCommand(g) ==
  Message(g) /\ \E topic \in cmds[g].topics : shown' \in ShownBy(topic, g)

\* Or an insert or a setting changes, which the connection and the topics do not follow.
HandleSetting(g) ==
  /\ cmds[g].topics \cap ({"command"} \cup conf.inserts) # {}
  /\ Message(g) /\ UNCHANGED shown

\* publishCommandResult: under s.mu, which it holds while it writes.
BeginResult(g) ==
  /\ up /\ cmds[g].pc = "result" /\ mu = "free"
  /\ mu' = "commands" /\ client' = Client /\ Set(g, "write")
  /\ UNCHANGED <<outside, up, threads, publishMu, caching, command, live, registry, known,
                 broker, torn, bounds>>

EndResult(g) ==
  /\ up /\ cmds[g].pc = "write"
  /\ mu' = "free"
  /\ \E o \in Sent(client.conn) :
       /\ Bounded(client.conn, o) /\ Reaches(client, o)
       /\ client' = [client EXCEPT !.conn = o.conn]
  /\ cmds' = [cmds EXCEPT ![g].pc = "serving"]
  /\ UNCHANGED <<outside, up, threads, publishMu, caching, command, live, registry, known,
                 retained, states, torn>>

-----------------------------------------------------------------------------
(* Outside.                                                                *)

\* A change of the configuration.
Change ==
  /\ up /\ at < Len(Configs) /\ at' = at + 1
  /\ shown' = IF shown \in Configs[at + 1].pages THEN shown
              ELSE CHOOSE p \in Configs[at + 1].pages : TRUE
  /\ UNCHANGED <<support, up, threads, publishMu, mu, client, caching, reading, registry, known,
                 broker, torn, bounds>>

\* The display that can be dimmed is taken away or put back.
Replug ==
  /\ Input /\ support' = ~support
  /\ UNCHANGED <<at, shown, up, threads, publishMu, mu, client, caching, reading, registry, known,
                 broker, torn>>

\* A connection dies, which the publisher does not notice; a reader does.
Drop ==
  /\ Fault
  /\ \/ /\ client.conn = "open" /\ client' = [client EXCEPT !.conn = "dead"]
        /\ wills' = wills \cup {client.root} /\ UNCHANGED cmds
     \/ /\ \E g \in DOMAIN cmds : cmds[g].conn /\ cmds' = Cut(g)
        /\ UNCHANGED <<client, wills>>
  /\ UNCHANGED <<outside, up, threads, publishMu, mu, caching, command, live, registry, known,
                 avail, retained, states, torn>>

\* The broker notices that a connection has died.
PublishWill ==
  /\ \E r \in wills : wills' = wills \ {r} /\ avail' = [avail EXCEPT ![r] = "offline"]
  /\ UNCHANGED <<outside, up, threads, publishMu, mu, client, caching, reading, registry, known,
                 retained, states, torn, bounds>>

\* What is only in memory is gone.
Gone ==
  /\ up' = FALSE /\ run' = [key |-> NoKey, want |-> NoKey]
  /\ pc' = [t \in Threads |-> IF t = "run" THEN "look" ELSE "idle"]
  /\ seen' = [t \in Threads |-> NoRound] /\ publishMu' = "free" /\ mu' = "free"
  /\ client' = NoClient /\ cache' = Nothing /\ lost' = {} /\ cleared' = {}
  /\ cmds' = <<>> /\ command' = 0 /\ live' = 0 /\ known' = {}

\* The program stops in the middle of anything.
Crash ==
  /\ up /\ Fault /\ Gone
  /\ wills' = IF client.conn = "open" THEN wills \cup {client.root} ELSE wills
  /\ UNCHANGED <<outside, registry, avail, retained, states, torn>>

\* Run is told to stop: publishOffline, and closeClients.
Stop ==
  /\ up /\ pc["run"] = "sleep" /\ publishMu = "free" /\ mu = "free" /\ Fault
  /\ Goodbye /\ Gone
  /\ UNCHANGED <<outside, registry, retained, states, torn>>

Start ==
  /\ ~up /\ up' = TRUE
  /\ UNCHANGED <<outside, threads, publishMu, mu, client, caching, reading, registry, known,
                 broker, torn, bounds>>

Publishing(t) ==
  Discover(t) \/ DiscoverInPart(t) \/ Online(t) \/ PublishStates(t)

RunStep == Look \/ CloseClients \/ Open \/ ResetPublisher \/ Wake \/ Publishing("run")

AdminStep == ResetDiscovery \/ Publishing("admin")

Commands(g) ==
  \/ Register(g) \/ Subscribe(g) \/ Leave(g) \/ Pause(g) \/ Retry(g)
  \/ BeginResult(g) \/ EndResult(g)

Next ==
  \/ RunStep \/ AdminStep \/ Ask
  \/ \E g \in DOMAIN cmds : Commands(g) \/ HandleCommand(g) \/ HandleSetting(g)
  \/ Change \/ Replug \/ Drop \/ PublishWill \/ Crash \/ Stop \/ Start

\* Every wait has a time limit, and systemd starts the program again.  One condition for
\* Run, requests and the start is enough, and one for all goroutines of commands.
Fairness ==
  /\ WF_vars(RunStep \/ AdminStep \/ Start)
  /\ WF_vars(\E g \in DOMAIN cmds : Commands(g))

Spec == Init /\ [][Next]_vars /\ Fairness

-----------------------------------------------------------------------------
(* Properties.                                                             *)

\* The locks are held by who is in their sections, and the context that is not cancelled
\* is the newest goroutine's.
TypeOK ==
  /\ inputs \in 0..MaxInputs /\ faults \in 0..MaxFaults /\ at \in DOMAIN Configs
  /\ \A t \in Threads : publishMu = t <=> pc[t] \in {"online", "states"}
  /\ mu = "commands" <=> \E g \in DOMAIN cmds : cmds[g].pc = "write"
  /\ live \in {0, Len(cmds)} /\ command \in 0..Len(cmds)
  /\ \A g \in DOMAIN cmds : cmds[g].conn => cmds[g].pc \in {"serving", "result", "write"}

\* What the broker retains of the discovery is in the registry, so that a later round or
\* a reset clears it, except what a failed round published or a dead connection swallowed
\* (publishDiscovery, saveDiscoveryRegistryLocked): across renamed roots, pages that come
\* and go, support that changes, resets, failures and restarts.
DiscoveryIsTracked == TypeOK /\ retained \subseteq registry \cup torn

\* While Run's connection is the configuration's, every state that the cache holds as
\* published is what the broker has for the root of now (publishState, resetPublishCache),
\* but for states that a dead connection swallowed, that a round published for a
\* configuration Run had not followed yet, or that were cleared since with their page.
CachedIsPublished ==
  run.key = ConnectionKey(conf) =>
    \A path \in Paths \ (lost \cup cleared) :
      cache[path] # "none" => states[conf.root][path] = cache[path]

\* However its notifications are lost, connections refused or dropped and the program
\* restarted, the service comes to be online under the configured root, with commands
\* subscribed for the configured connection (Run, commands).
FollowsConfig ==
  []<>(/\ up
       /\ conf.on => /\ avail[conf.root] = "online" /\ live # 0
                     /\ cmds[live].conn
                     /\ cmds[live].root = conf.root
                     /\ cmds[live].key = <<conf.root, conf.inserts, conf.all>>)

-----------------------------------------------------------------------------
(* The inductive invariant of the proofs.                                  *)

\* The connections of the configurations.
Keys == {NoKey} \cup {ConnectionKey(Configs[i]) : i \in DOMAIN Configs}

RunPCs     == {"idle", "look", "close", "open", "begin", "online", "states", "sleep", "reset",
               "wipe"}
CommandPCs == {"begin", "connect", "serving", "failed", "wait", "result", "write", "ended"}
Goroutines == [pc : CommandPCs, conn : BOOLEAN, root : Roots \cup {"none"},
               key : Keys,
               topics : {{}} \cup {Topics(Configs[i]) : i \in DOMAIN Configs}]

ShapeInv ==
  /\ inputs \in 0..MaxInputs /\ faults \in 0..MaxFaults /\ at \in 1..Len(Configs)
  /\ pc \in [Threads -> RunPCs] /\ mu \in {"free", "commands"}
  /\ run \in [key : Keys, want : Keys]
  /\ states = [r \in Roots |-> states[r]] /\ cache = [path \in Paths |-> cache[path]]

\* A round holds publishMu from its discovery to its end.
RoundInv ==
  /\ publishMu \in Threads \cup {"free"}
  /\ \A t \in Threads : publishMu = t <=> pc[t] \in {"online", "states"}

\* One message is handled at a time, and its result is written under s.mu.
CommandInv ==
  /\ cmds \in Seq(Goroutines) /\ live \in {0, Len(cmds)} /\ command \in 0..Len(cmds)
  /\ mu = "commands" <=> \E g \in DOMAIN cmds : cmds[g].pc = "write"
  /\ \A g, h \in DOMAIN cmds : {cmds[g].pc, cmds[h].pc} \subseteq {"result", "write"} => g = h
  /\ \A g \in DOMAIN cmds : cmds[g].conn => cmds[g].pc \in {"serving", "result", "write"}

TopicInv == retained \subseteq registry \cup torn

\* Whatever the configuration is by now, for as long as Run keeps its connection.
CacheInv ==
  run.key # NoKey =>
    \A path \in Paths \ (lost \cup cleared) :
      cache[path] # "none" => states[run.key[1]][path] = cache[path]

IInv == ShapeInv /\ RoundInv /\ CommandInv /\ TopicInv /\ CacheInv

=============================================================================
