-------------------------- MODULE MqttServiceProofs --------------------------
(***************************************************************************)
(* Proofs about MqttService, for any sequence of configurations and any     *)
(* number of inputs and faults: what the broker retains of the discovery    *)
(* can be cleared, and what counts as published is published.               *)
(***************************************************************************)
EXTENDS MqttService, TLAPS

-----------------------------------------------------------------------------
(* The steps.                                                              *)

\* The steps one by one.
LEMMA NextSteps ==
  ASSUME Next
  PROVE \/ Look \/ CloseClients \/ Open \/ ResetPublisher \/ Wake
        \/ \E t \in Threads : Discover(t) \/ DiscoverInPart(t) \/ Online(t) \/ PublishStates(t)
        \/ ResetDiscovery \/ Ask
        \/ \E g \in DOMAIN cmds :
             \/ Register(g) \/ Subscribe(g) \/ Leave(g) \/ Pause(g) \/ Retry(g)
             \/ BeginResult(g) \/ EndResult(g) \/ HandleCommand(g) \/ HandleSetting(g)
        \/ Change \/ Replug \/ Drop \/ PublishWill \/ Crash \/ Stop \/ Start
BY DEF Next, RunStep, AdminStep, Publishing, Commands, Threads

\* Only rounds of publishing and the reset change what is retained or registered.
LEMMA TopicsElsewhere ==
  ASSUME Next, ~ResetDiscovery, \A t \in Threads : ~Discover(t) /\ ~DiscoverInPart(t)
  PROVE UNCHANGED <<registry, retained, torn>>
<1>1. CASE Look
  BY <1>1 DEF Look, broker
<1>2. CASE CloseClients
  BY <1>2 DEF CloseClients, broker
<1>3. CASE Open
  BY <1>3 DEF Open, broker
<1>4. CASE ResetPublisher
  BY <1>4 DEF ResetPublisher, broker
<1>5. CASE Wake
  BY <1>5 DEF Wake, broker
<1>6. ASSUME NEW t \in Threads, Online(t) PROVE UNCHANGED <<registry, retained, torn>>
  BY <1>6 DEF Online, broker
<1>7. ASSUME NEW t \in Threads, PublishStates(t) PROVE UNCHANGED <<registry, retained, torn>>
  BY <1>7 DEF PublishStates, broker
<1>8. CASE Ask
  BY <1>8 DEF Ask, broker
<1>9. ASSUME NEW g \in DOMAIN cmds, Register(g) PROVE UNCHANGED <<registry, retained, torn>>
  BY <1>9 DEF Register, broker
<1>10. ASSUME NEW g \in DOMAIN cmds, Subscribe(g) PROVE UNCHANGED <<registry, retained, torn>>
  BY <1>10 DEF Subscribe, broker
<1>11. ASSUME NEW g \in DOMAIN cmds, Leave(g) PROVE UNCHANGED <<registry, retained, torn>>
  BY <1>11 DEF Leave, broker
<1>12. ASSUME NEW g \in DOMAIN cmds, Pause(g) PROVE UNCHANGED <<registry, retained, torn>>
  BY <1>12 DEF Pause, broker
<1>13. ASSUME NEW g \in DOMAIN cmds, Retry(g) PROVE UNCHANGED <<registry, retained, torn>>
  BY <1>13 DEF Retry, broker
<1>14. ASSUME NEW g \in DOMAIN cmds, BeginResult(g) PROVE UNCHANGED <<registry, retained, torn>>
  BY <1>14 DEF BeginResult, broker
<1>15. ASSUME NEW g \in DOMAIN cmds, EndResult(g) PROVE UNCHANGED <<registry, retained, torn>>
  BY <1>15 DEF EndResult, broker
<1>16. ASSUME NEW g \in DOMAIN cmds, HandleCommand(g) PROVE UNCHANGED <<registry, retained, torn>>
  BY <1>16 DEF HandleCommand, broker, Message
<1>17. ASSUME NEW g \in DOMAIN cmds, HandleSetting(g) PROVE UNCHANGED <<registry, retained, torn>>
  BY <1>17 DEF HandleSetting, broker, Message
<1>18. CASE Change
  BY <1>18 DEF Change, broker
<1>19. CASE Replug
  BY <1>19 DEF Replug, broker
<1>20. CASE Drop
  BY <1>20 DEF Drop, broker
<1>21. CASE PublishWill
  BY <1>21 DEF PublishWill, broker
<1>22. CASE Crash
  BY <1>22 DEF Crash, broker, Gone
<1>23. CASE Stop
  BY <1>23 DEF Stop, broker, Gone
<1>24. CASE Start
  BY <1>24 DEF Start, broker
<1>q. QED BY <1>1, <1>2, <1>3, <1>4, <1>5, <1>6, <1>7, <1>8, <1>9, <1>10, <1>11, <1>12, <1>13, <1>14, <1>15, <1>16, <1>17, <1>18, <1>19, <1>20, <1>21, <1>22, <1>23, <1>24, NextSteps

\* Of every topic that the broker retains, the registry or torn knows.
LEMMA TopicKept ==
  ASSUME IInv, Next
  PROVE TopicInv'
<1> USE DEF TopicInv
<1>0. TopicInv
  BY DEF IInv
<1>1. ASSUME NEW t \in Threads, Discover(t) PROVE TopicInv'
  <2>1. PICK o : \/ /\ retained' = IF o.arrives THEN (retained \ Unwanted) \cup Items(conf)
                                   ELSE retained
                    /\ torn' = IF o.arrives THEN torn \ (Items(conf) \cup Unwanted)
                               ELSE torn \cup (Unwanted \cap retained)
                    /\ registry' = Items(conf)
                 \/ UNCHANGED <<retained, torn, registry>>
    BY <1>1 DEF Discover
  <2>2. registry \subseteq Unwanted \cup Items(conf)
    BY DEF Unwanted, Stale
  <2>3. CASE UNCHANGED <<retained, torn, registry>>
    BY <1>0, <2>3
  <2>4. CASE ~UNCHANGED <<retained, torn, registry>> /\ o.arrives
    BY <1>0, <2>1, <2>2, <2>4
  <2>5. CASE ~UNCHANGED <<retained, torn, registry>> /\ ~o.arrives
    BY <1>0, <2>1, <2>2, <2>5
  <2>q. QED BY <2>3, <2>4, <2>5
<1>2. ASSUME NEW t \in Threads, DiscoverInPart(t) PROVE TopicInv'
  <2>1. \/ retained' \subseteq retained /\ torn' = torn
        \/ \E some : /\ retained' = (retained \ Unwanted) \cup some
                     /\ torn' = (torn \ Unwanted) \cup (some \ registry)
    BY <1>2 DEF DiscoverInPart
  <2>2. registry' = registry
    BY <1>2 DEF DiscoverInPart
  <2>3. CASE retained' \subseteq retained /\ torn' = torn
    BY <1>0, <2>2, <2>3
  <2>4. CASE \E some : /\ retained' = (retained \ Unwanted) \cup some
                       /\ torn' = (torn \ Unwanted) \cup (some \ registry)
    BY <1>0, <2>2, <2>4
  <2>q. QED BY <2>1, <2>3, <2>4
<1>3. CASE ResetDiscovery
  <2> DEFINE wiped == registry \cup ResetEntries
  <2>1. PICK o : \/ /\ registry' = {}
                    /\ retained' = IF o.arrives THEN retained \ wiped ELSE retained
                    /\ torn' = IF o.arrives THEN torn \ wiped
                               ELSE torn \cup (wiped \cap retained)
                 \/ UNCHANGED <<registry, retained, torn>>
    BY <1>3 DEF ResetDiscovery
  <2>2. registry \subseteq wiped
    OBVIOUS
  <2> HIDE DEF wiped
  <2>3. CASE UNCHANGED <<registry, retained, torn>>
    BY <1>0, <2>3
  <2>4. CASE ~UNCHANGED <<registry, retained, torn>> /\ o.arrives
    BY <1>0, <2>1, <2>2, <2>4
  <2>5. CASE ~UNCHANGED <<registry, retained, torn>> /\ ~o.arrives
    BY <1>0, <2>1, <2>2, <2>5
  <2>q. QED BY <2>3, <2>4, <2>5
<1>4. CASE UNCHANGED <<registry, retained, torn>>
  BY <1>0, <1>4
<1>q. QED BY <1>1, <1>2, <1>3, <1>4, TopicsElsewhere

-----------------------------------------------------------------------------
(* Types and bounds.                                                       *)

\* A step that costs something counts it, within the bounds.
LEMMA BoundsKept ==
  ASSUME IInv, Next
  PROVE inputs' \in 0..MaxInputs /\ faults' \in 0..MaxFaults
<1> DEFINE Counts == UNCHANGED bounds \/ Input \/ Fault
<1>1. ASSUME Look PROVE Counts
  BY <1>1 DEF Look, bounds
<1>2. ASSUME CloseClients PROVE Counts
  BY <1>2 DEF CloseClients, bounds
<1>3. ASSUME Open PROVE Counts
  BY <1>3 DEF Open, bounds
<1>4. ASSUME ResetPublisher PROVE Counts
  BY <1>4 DEF ResetPublisher, bounds
<1>5. ASSUME Wake PROVE Counts
  BY <1>5 DEF Wake, bounds
<1>6. ASSUME NEW t \in Threads, Discover(t) PROVE Counts
  BY <1>6 DEF Discover, Bounded, bounds
<1>7. ASSUME NEW t \in Threads, DiscoverInPart(t) PROVE Counts
  BY <1>7 DEF DiscoverInPart, bounds
<1>8. ASSUME NEW t \in Threads, Online(t) PROVE Counts
  BY <1>8 DEF Online, Bounded, bounds
<1>9. ASSUME NEW t \in Threads, PublishStates(t) PROVE Counts
  BY <1>9 DEF PublishStates, Bounded, bounds
<1>10. ASSUME ResetDiscovery PROVE Counts
  BY <1>10 DEF ResetDiscovery, Bounded, bounds
<1>11. ASSUME Ask PROVE Counts
  BY <1>11 DEF Ask, bounds
<1>12. ASSUME NEW g \in DOMAIN cmds, Register(g) PROVE Counts
  BY <1>12 DEF Register, bounds
<1>13. ASSUME NEW g \in DOMAIN cmds, Subscribe(g) PROVE Counts
  BY <1>13 DEF Subscribe, bounds
<1>14. ASSUME NEW g \in DOMAIN cmds, Leave(g) PROVE Counts
  BY <1>14 DEF Leave, bounds
<1>15. ASSUME NEW g \in DOMAIN cmds, Pause(g) PROVE Counts
  BY <1>15 DEF Pause, bounds
<1>16. ASSUME NEW g \in DOMAIN cmds, Retry(g) PROVE Counts
  BY <1>16 DEF Retry, bounds
<1>17. ASSUME NEW g \in DOMAIN cmds, BeginResult(g) PROVE Counts
  BY <1>17 DEF BeginResult, bounds
<1>18. ASSUME NEW g \in DOMAIN cmds, EndResult(g) PROVE Counts
  BY <1>18 DEF EndResult, Bounded, bounds
<1>19. ASSUME NEW g \in DOMAIN cmds, HandleCommand(g) PROVE Counts
  BY <1>19 DEF HandleCommand, Message, bounds
<1>20. ASSUME NEW g \in DOMAIN cmds, HandleSetting(g) PROVE Counts
  BY <1>20 DEF HandleSetting, Message, bounds
<1>21. ASSUME Change PROVE Counts
  BY <1>21 DEF Change, bounds
<1>22. ASSUME Replug PROVE Counts
  BY <1>22 DEF Replug, bounds
<1>23. ASSUME Drop PROVE Counts
  BY <1>23 DEF Drop, bounds
<1>24. ASSUME PublishWill PROVE Counts
  BY <1>24 DEF PublishWill, bounds
<1>25. ASSUME Crash PROVE Counts
  BY <1>25 DEF Crash, Gone, bounds
<1>26. ASSUME Stop PROVE Counts
  BY <1>26 DEF Stop, Gone, bounds
<1>27. ASSUME Start PROVE Counts
  BY <1>27 DEF Start, bounds
<1>c. Counts
  BY <1>1, <1>2, <1>3, <1>4, <1>5, <1>6, <1>7, <1>8, <1>9, <1>10, <1>11, <1>12, <1>13,
    <1>14, <1>15, <1>16, <1>17, <1>18, <1>19, <1>20, <1>21, <1>22, <1>23, <1>24,
    <1>25, <1>26, <1>27, NextSteps
<1>i. inputs \in 0..MaxInputs /\ faults \in 0..MaxFaults /\ MaxInputs \in Nat /\ MaxFaults \in Nat
  BY MqttAssumption DEF IInv, ShapeInv
<1>q. QED BY <1>c, <1>i DEF Input, Fault, bounds

-----------------------------------------------------------------------------
(* Rounds.                                                                 *)

\* How a step moves Run, a request and the lock of rounds.
Away == RunPCs \ {"online", "states"}

RoundMoves ==
  \/ UNCHANGED <<pc, publishMu>>
  \/ /\ \E t \in Threads, p \in Away : pc[t] \in Away /\ pc' = [pc EXCEPT ![t] = p]
     /\ publishMu' = publishMu
  \/ \E t \in Threads : /\ publishMu = "free" /\ publishMu' = t
                        /\ pc' = [pc EXCEPT ![t] = "online"]
  \/ \E t \in Threads : /\ pc[t] = "online" /\ publishMu' = publishMu
                        /\ pc' = [pc EXCEPT ![t] = "states"]
  \/ \E t \in Threads, p \in Away : /\ publishMu = "free" \/ pc[t] \notin Away
                                   /\ publishMu' = "free" /\ pc' = [pc EXCEPT ![t] = p]
  \/ publishMu' = "free" /\ pc' \in [Threads -> Away]

\* Every step moves them in one of these ways.
LEMMA StepRoundMoves ==
  ASSUME IInv, Next
  PROVE RoundMoves
<1>s. pc \in [Threads -> RunPCs]
  BY DEF IInv, ShapeInv
<1>r. ASSUME NEW t \in Threads, NEW ok, EndRound(t, ok)
      PROVE \E p \in Away : publishMu' = "free" /\ pc' = [pc EXCEPT ![t] = p]
  <2>1. pc' = [pc EXCEPT ![t] = "idle"] \/ pc' = [pc EXCEPT ![t] = "sleep"]
        \/ pc' = [pc EXCEPT ![t] = "reset"]
    BY <1>r DEF EndRound, GoTo
  <2>2. publishMu' = "free" /\ {"idle", "sleep", "reset"} \subseteq Away
    BY <1>r DEF EndRound, Away, RunPCs
  <2> QED
    BY <2>1, <2>2
<1>1. ASSUME Look PROVE RoundMoves
  BY <1>s, <1>1 DEF Look, GoTo, RoundMoves, Away, RunPCs, Threads
<1>2. ASSUME CloseClients PROVE RoundMoves
  BY <1>s, <1>2 DEF CloseClients, GoTo, RoundMoves, Away, RunPCs, Threads
<1>3. ASSUME Open PROVE RoundMoves
  BY <1>s, <1>3 DEF Open, GoTo, RoundMoves, Away, RunPCs, Threads
<1>4. ASSUME ResetPublisher PROVE RoundMoves
  BY <1>s, <1>4 DEF ResetPublisher, GoTo, RoundMoves, Away, RunPCs, Threads
<1>5. ASSUME Wake PROVE RoundMoves
  BY <1>s, <1>5 DEF Wake, GoTo, RoundMoves, Away, RunPCs, Threads
<1>6. ASSUME NEW t \in Threads, Discover(t) PROVE RoundMoves
  BY <1>s, <1>r, <1>6 DEF Discover, BeginRound, GoTo, RoundMoves, Away
<1>7. ASSUME NEW t \in Threads, DiscoverInPart(t) PROVE RoundMoves
  BY <1>s, <1>r, <1>7 DEF DiscoverInPart, BeginRound, GoTo, RoundMoves, Away
<1>8. ASSUME NEW t \in Threads, Online(t) PROVE RoundMoves
  BY <1>s, <1>r, <1>8 DEF Online, BeginRound, GoTo, RoundMoves, Away
<1>9. ASSUME NEW t \in Threads, PublishStates(t) PROVE RoundMoves
  BY <1>s, <1>r, <1>9 DEF PublishStates, BeginRound, GoTo, RoundMoves, Away
<1>10. ASSUME ResetDiscovery PROVE RoundMoves
  BY <1>s, <1>10 DEF ResetDiscovery, GoTo, RoundMoves, Away, RunPCs, Threads
<1>11. ASSUME Ask PROVE RoundMoves
  BY <1>s, <1>11 DEF Ask, GoTo, RoundMoves, Away, RunPCs, Threads
<1>12. ASSUME NEW g \in DOMAIN cmds, Register(g) PROVE RoundMoves
  BY <1>s, <1>12 DEF Register, threads, RoundMoves
<1>13. ASSUME NEW g \in DOMAIN cmds, Subscribe(g) PROVE RoundMoves
  BY <1>s, <1>13 DEF Subscribe, threads, RoundMoves
<1>14. ASSUME NEW g \in DOMAIN cmds, Leave(g) PROVE RoundMoves
  BY <1>s, <1>14 DEF Leave, threads, RoundMoves
<1>15. ASSUME NEW g \in DOMAIN cmds, Pause(g) PROVE RoundMoves
  BY <1>s, <1>15 DEF Pause, threads, RoundMoves
<1>16. ASSUME NEW g \in DOMAIN cmds, Retry(g) PROVE RoundMoves
  BY <1>s, <1>16 DEF Retry, threads, RoundMoves
<1>17. ASSUME NEW g \in DOMAIN cmds, BeginResult(g) PROVE RoundMoves
  BY <1>s, <1>17 DEF BeginResult, threads, RoundMoves
<1>18. ASSUME NEW g \in DOMAIN cmds, EndResult(g) PROVE RoundMoves
  BY <1>s, <1>18 DEF EndResult, threads, RoundMoves
<1>19. ASSUME NEW g \in DOMAIN cmds, HandleCommand(g) PROVE RoundMoves
  BY <1>s, <1>19 DEF HandleCommand, Message, threads, RoundMoves
<1>20. ASSUME NEW g \in DOMAIN cmds, HandleSetting(g) PROVE RoundMoves
  BY <1>s, <1>20 DEF HandleSetting, Message, threads, RoundMoves
<1>21. ASSUME Change PROVE RoundMoves
  BY <1>s, <1>21 DEF Change, threads, RoundMoves
<1>22. ASSUME Replug PROVE RoundMoves
  BY <1>s, <1>22 DEF Replug, threads, RoundMoves
<1>23. ASSUME Drop PROVE RoundMoves
  BY <1>s, <1>23 DEF Drop, threads, RoundMoves
<1>24. ASSUME PublishWill PROVE RoundMoves
  BY <1>s, <1>24 DEF PublishWill, threads, RoundMoves
<1>25. ASSUME Crash PROVE RoundMoves
  BY <1>s, <1>25 DEF Crash, Gone, GoTo, RoundMoves, Away, RunPCs, Threads
<1>26. ASSUME Stop PROVE RoundMoves
  BY <1>s, <1>26 DEF Stop, Gone, GoTo, RoundMoves, Away, RunPCs, Threads
<1>27. ASSUME Start PROVE RoundMoves
  BY <1>s, <1>27 DEF Start, threads, RoundMoves
<1>q. QED
  BY <1>1, <1>2, <1>3, <1>4, <1>5, <1>6, <1>7, <1>8, <1>9, <1>10, <1>11, <1>12, <1>13,
    <1>14, <1>15, <1>16, <1>17, <1>18, <1>19, <1>20, <1>21, <1>22, <1>23, <1>24,
    <1>25, <1>26, <1>27, NextSteps

\* Nobody else is in a round while one has publishMu.
LEMMA RoundKept ==
  ASSUME IInv, Next
  PROVE RoundInv' /\ pc' \in [Threads -> RunPCs]
<1>1. /\ pc \in [Threads -> RunPCs] /\ publishMu \in Threads \cup {"free"}
      /\ \A t \in Threads : publishMu = t <=> pc[t] \in {"online", "states"}
  BY DEF IInv, ShapeInv, RoundInv
<1>2. "free" \notin Threads /\ Away \subseteq RunPCs /\ {"online", "states"} \subseteq RunPCs
  BY DEF Threads, Away, RunPCs
<1>3. RoundMoves
  BY StepRoundMoves
<1>4. pc' \in [Threads -> RunPCs]
  BY <1>1, <1>2, <1>3 DEF RoundMoves
<1>5. \A p \in RunPCs : p \in Away <=> p \notin {"online", "states"}
  BY DEF Away
<1>6. publishMu' \in Threads \cup {"free"}
  BY <1>1, <1>3 DEF RoundMoves
<1>7. ASSUME NEW t \in Threads PROVE publishMu' = t <=> pc'[t] \in {"online", "states"}
  BY <1>1, <1>2, <1>3, <1>5 DEF RoundMoves
<1>q. QED BY <1>4, <1>6, <1>7 DEF RoundInv

-----------------------------------------------------------------------------
(* The goroutines of commands.                                             *)

\* Where a message is being handled.
AtMessage == {"result", "write"}

\* A step g to the place p; the others stay, or lose their connection.
Goes(g, p) ==
  /\ cmds' \in Seq(Goroutines) /\ Len(cmds') = Len(cmds) /\ cmds'[g].pc = p
  /\ \A h \in DOMAIN cmds \ {g} : cmds'[h].pc = cmds[h].pc /\ (cmds'[h].conn => cmds[h].conn)

\* How a step moves the goroutines and s.mu.
CommandMoves ==
  \/ UNCHANGED <<cmds, live, command, mu>>
  \/ \E g \in DOMAIN cmds, p \in CommandPCs \ AtMessage :
       /\ cmds[g].pc \notin AtMessage /\ Goes(g, p) /\ (cmds'[g].conn => p = "serving")
       /\ live' = live /\ command' \in {0, g, command} /\ mu' = mu
  \/ \E g \in DOMAIN cmds :
       /\ \A h \in DOMAIN cmds : cmds[h].pc \notin AtMessage
       /\ Goes(g, "result") /\ UNCHANGED <<live, command, mu>>
  \/ \E g \in DOMAIN cmds :
       /\ cmds[g].pc = "result" /\ Goes(g, "write") /\ mu' = "commands"
       /\ UNCHANGED <<live, command>>
  \/ \E g \in DOMAIN cmds :
       /\ cmds[g].pc = "write" /\ Goes(g, "serving") /\ mu' = "free"
       /\ UNCHANGED <<live, command>>
  \/ \E g \in DOMAIN cmds :
       /\ Goes(g, cmds[g].pc) /\ ~cmds'[g].conn
       /\ live' = live /\ command' \in {0, command} /\ mu' = mu
  \/ UNCHANGED <<cmds, mu>> /\ live' \in {0, live} /\ command' \in {0, command}
  \/ cmds' = Append(cmds, NewCommands) /\ live' = Len(cmds) + 1 /\ UNCHANGED <<command, mu>>
  \/ cmds' = <<>> /\ live' = 0 /\ command' = 0 /\ mu' = "free"

\* What is started is a goroutine, and what one reads is of a configuration.
LEMMA GoroutineTypes ==
  ASSUME at \in 1..Len(Configs)
  PROVE /\ NewCommands \in Goroutines
        /\ [NewCommands EXCEPT !.pc = "ended"] \in Goroutines
        /\ [NewCommands EXCEPT !.pc = "connect", !.root = conf.root,
              !.key = ConnectionKey(conf), !.topics = Topics(conf)] \in Goroutines
<1>1. DOMAIN Configs = 1..Len(Configs)
  BY MqttAssumption
<1>2. /\ conf.root \in Roots /\ ConnectionKey(conf) \in Keys
      /\ Topics(conf) \in {Topics(Configs[i]) : i \in DOMAIN Configs}
  BY <1>1 DEF conf, Roots, Keys
<1>3. NoKey \in Keys
  BY DEF Keys
<1>q. QED BY <1>2, <1>3 DEF NewCommands, Goroutines, CommandPCs

\* One goroutine is replaced by another record.
LEMMA OneGoes ==
  ASSUME cmds \in Seq(Goroutines), NEW g \in DOMAIN cmds, NEW r \in Goroutines,
         cmds' = [cmds EXCEPT ![g] = r]
  PROVE Goes(g, r.pc) /\ cmds'[g] = r
<1>1. cmds' \in Seq(Goroutines) /\ Len(cmds') = Len(cmds) /\ cmds'[g] = r
  OBVIOUS
<1>2. \A h \in DOMAIN cmds \ {g} : cmds'[h] = cmds[h]
  OBVIOUS
<1>q. QED BY <1>1, <1>2 DEF Goes

\* A goroutine gets to another place, or its connection is cut.
LEMMA FieldSet ==
  ASSUME cmds \in Seq(Goroutines), NEW g \in DOMAIN cmds
  PROVE /\ \A p \in CommandPCs :
             cmds' = [cmds EXCEPT ![g].pc = p]
             => Goes(g, p) /\ cmds'[g].conn = cmds[g].conn
        /\ cmds' = Cut(g) => Goes(g, cmds[g].pc) /\ ~cmds'[g].conn
<1>1. cmds[g] \in Goroutines
  OBVIOUS
<1>2. ASSUME NEW p \in CommandPCs, cmds' = [cmds EXCEPT ![g].pc = p]
      PROVE Goes(g, p) /\ cmds'[g].conn = cmds[g].conn
  <2> DEFINE r == [cmds[g] EXCEPT !.pc = p]
  <2>1. r \in Goroutines /\ r.pc = p /\ r.conn = cmds[g].conn
    BY <1>1 DEF Goroutines
  <2>2. cmds' = [cmds EXCEPT ![g] = r]
    BY <1>2
  <2> HIDE DEF r
  <2>q. QED BY <2>1, <2>2, OneGoes
<1>3. ASSUME cmds' = Cut(g) PROVE Goes(g, cmds[g].pc) /\ ~cmds'[g].conn
  <2> DEFINE r == [cmds[g] EXCEPT !.conn = FALSE]
  <2>1. r \in Goroutines /\ r.pc = cmds[g].pc /\ ~r.conn
    BY <1>1 DEF Goroutines
  <2>2. cmds' = [cmds EXCEPT ![g] = r]
    BY <1>3 DEF Cut
  <2> HIDE DEF r
  <2>q. QED BY <2>1, <2>2, OneGoes
<1>q. QED BY <1>2, <1>3

\* Every step moves them in one of these ways.
LEMMA StepCommandMoves ==
  ASSUME IInv, Next
  PROVE CommandMoves
<1>s. cmds \in Seq(Goroutines) /\ command \in 0..Len(cmds) /\ at \in 1..Len(Configs)
  BY DEF IInv, ShapeInv, CommandInv
<1>d. ASSUME NEW g \in DOMAIN cmds PROVE cmds[g] \in Goroutines /\ cmds[g].pc \in CommandPCs
  <2>1. cmds[g] \in Goroutines
    BY <1>s
  <2>q. QED BY <2>1 DEF Goroutines
<1>msg. ASSUME NEW g \in DOMAIN cmds, Message(g) PROVE CommandMoves
  <2>1. CASE UNCHANGED cmds
    BY <1>msg, <2>1 DEF Message, CommandMoves
  <2>2. CASE Set(g, "result")
    <3>1. Goes(g, "result")
      BY <1>s, <2>2, FieldSet DEF Set, CommandPCs
    <3>q. QED BY <1>msg, <3>1 DEF Message, CommandMoves, AtMessage
  <2>q. QED BY <1>msg, <2>1, <2>2 DEF Message
<1>1. ASSUME Look PROVE CommandMoves
  BY <1>1 DEF Look, reading, CommandMoves
<1>2. ASSUME CloseClients PROVE CommandMoves
  <2>1. CASE command = 0
    BY <1>2, <2>1 DEF CloseClients, CommandMoves
  <2>2. CASE command # 0
    <3>1. command \in DOMAIN cmds /\ cmds' = Cut(command) /\ command' = 0 /\ live' = live /\ mu' = mu
      BY <1>s, <1>2, <2>2 DEF CloseClients
    <3>q. QED BY <1>s, <3>1, FieldSet DEF CommandMoves
  <2>q. QED BY <2>1, <2>2
<1>3. ASSUME Open PROVE CommandMoves
  BY <1>3 DEF Open, CommandMoves
<1>4. ASSUME ResetPublisher PROVE CommandMoves
  BY <1>4 DEF ResetPublisher, reading, CommandMoves
<1>5. ASSUME Wake PROVE CommandMoves
  BY <1>5 DEF Wake, reading, CommandMoves
<1>6. ASSUME NEW t \in Threads, Discover(t) PROVE CommandMoves
  BY <1>6 DEF Discover, reading, CommandMoves
<1>7. ASSUME NEW t \in Threads, DiscoverInPart(t) PROVE CommandMoves
  BY <1>7 DEF DiscoverInPart, reading, CommandMoves
<1>8. ASSUME NEW t \in Threads, Online(t) PROVE CommandMoves
  BY <1>8 DEF Online, reading, CommandMoves
<1>9. ASSUME NEW t \in Threads, PublishStates(t) PROVE CommandMoves
  BY <1>9 DEF PublishStates, reading, CommandMoves
<1>10. ASSUME ResetDiscovery PROVE CommandMoves
  BY <1>10 DEF ResetDiscovery, reading, CommandMoves
<1>11. ASSUME Ask PROVE CommandMoves
  BY <1>11 DEF Ask, reading, CommandMoves
<1>12. ASSUME NEW g \in DOMAIN cmds, Register(g) PROVE CommandMoves
  <2> DEFINE r == [NewCommands EXCEPT !.pc = "connect", !.root = conf.root,
                 !.key = ConnectionKey(conf), !.topics = Topics(conf)]
  <2>1. cmds' = [cmds EXCEPT ![g] = r] /\ cmds[g].pc = "begin"
    BY <1>12 DEF Register
  <2>2. r \in Goroutines /\ r.pc = "connect" /\ ~r.conn
    BY <1>s, GoroutineTypes DEF NewCommands
  <2>3. live' = live /\ command' = g /\ mu' = mu
    BY <1>12 DEF Register
  <2> HIDE DEF r
  <2>4. Goes(g, "connect") /\ ~cmds'[g].conn
    BY <1>s, <2>1, <2>2, OneGoes
  <2>q. QED BY <2>1, <2>3, <2>4 DEF CommandMoves, CommandPCs, AtMessage
<1>13. ASSUME NEW g \in DOMAIN cmds, Subscribe(g) PROVE CommandMoves
  <2>0. cmds[g].pc = "connect" /\ live' = live /\ command' = command /\ mu' = mu
    BY <1>13 DEF Subscribe
  <2>1. CASE cmds' = [cmds EXCEPT ![g].pc = "failed"]
    <3>1. Goes(g, "failed") /\ ~cmds'[g].conn
      BY <1>s, <2>0, <2>1, FieldSet DEF CommandPCs, IInv, CommandInv
    <3>q. QED BY <2>0, <3>1 DEF CommandMoves, CommandPCs, AtMessage
  <2>2. CASE cmds' = [h \in DOMAIN cmds |->
                IF h = g THEN [cmds[h] EXCEPT !.conn = TRUE, !.pc = "serving"]
                ELSE IF cmds[h].root = cmds[g].root THEN [cmds[h] EXCEPT !.conn = FALSE]
                ELSE cmds[h]]
    <3>1. ASSUME NEW h \in DOMAIN cmds
          PROVE /\ [cmds[h] EXCEPT !.conn = TRUE, !.pc = "serving"] \in Goroutines
                /\ [cmds[h] EXCEPT !.conn = FALSE] \in Goroutines
                /\ [cmds[h] EXCEPT !.conn = FALSE].pc = cmds[h].pc
                /\ ~[cmds[h] EXCEPT !.conn = FALSE].conn
                /\ [cmds[h] EXCEPT !.conn = TRUE, !.pc = "serving"].pc = "serving"
      BY <1>d DEF Goroutines, CommandPCs
    <3>2. /\ DOMAIN cmds' = DOMAIN cmds
          /\ \A h \in DOMAIN cmds : cmds'[h] \in Goroutines
      BY <1>d, <2>2, <3>1
    <3>3. cmds' \in Seq(Goroutines) /\ Len(cmds') = Len(cmds)
      <4>1. DOMAIN cmds' = 1..Len(cmds) /\ Len(cmds) \in Nat
        BY <1>s, <3>2
      <4>2. cmds' \in [1..Len(cmds) -> Goroutines]
        BY <2>2, <3>2, <4>1
      <4>q. QED BY <4>1, <4>2
    <3>4. Goes(g, "serving")
      BY <2>2, <3>1, <3>3 DEF Goes
    <3>q. QED BY <2>0, <3>4 DEF CommandMoves, CommandPCs, AtMessage
  <2>q. QED BY <1>13, <2>1, <2>2 DEF Subscribe, Set
<1>14. ASSUME NEW g \in DOMAIN cmds, Leave(g) PROVE CommandMoves
  <2> DEFINE r == [NewCommands EXCEPT !.pc = "ended"]
  <2>1. cmds' = [cmds EXCEPT ![g] = r] /\ cmds[g].pc \in {"failed", "wait", "serving"}
    BY <1>14 DEF Leave
  <2>2. r \in Goroutines /\ r.pc = "ended" /\ ~r.conn
    BY <1>s, GoroutineTypes DEF NewCommands
  <2>3. live' = live /\ command' \in {0, command} /\ mu' = mu
    BY <1>14 DEF Leave
  <2> HIDE DEF r
  <2>4. Goes(g, "ended") /\ ~cmds'[g].conn
    BY <1>s, <2>1, <2>2, OneGoes
  <2>q. QED BY <2>1, <2>3, <2>4 DEF CommandMoves, CommandPCs, AtMessage
<1>15. ASSUME NEW g \in DOMAIN cmds, Pause(g) PROVE CommandMoves
  <2>1. Goes(g, "wait") /\ cmds'[g].conn = cmds[g].conn
    BY <1>s, <1>15, FieldSet DEF Pause, Set, CommandPCs
  <2>2. cmds[g].pc \in {"failed", "serving"} /\ ~cmds[g].conn
    BY <1>15 DEF Pause, IInv, CommandInv
  <2>q. QED BY <1>15, <2>1, <2>2 DEF Pause, CommandMoves, CommandPCs, AtMessage
<1>16. ASSUME NEW g \in DOMAIN cmds, Retry(g) PROVE CommandMoves
  <2>1. Goes(g, "connect") /\ cmds'[g].conn = cmds[g].conn
    BY <1>s, <1>16, FieldSet DEF Retry, Set, CommandPCs
  <2>2. cmds[g].pc = "wait" /\ ~cmds[g].conn
    BY <1>16 DEF Retry, IInv, CommandInv
  <2>q. QED BY <1>16, <2>1, <2>2 DEF Retry, CommandMoves, CommandPCs, AtMessage
<1>17. ASSUME NEW g \in DOMAIN cmds, BeginResult(g) PROVE CommandMoves
  <2>1. Goes(g, "write")
    BY <1>s, <1>17, FieldSet DEF BeginResult, Set, CommandPCs
  <2>q. QED BY <1>17, <2>1 DEF BeginResult, CommandMoves
<1>18. ASSUME NEW g \in DOMAIN cmds, EndResult(g) PROVE CommandMoves
  <2>1. Goes(g, "serving")
    BY <1>s, <1>18, FieldSet DEF EndResult, CommandPCs
  <2>q. QED BY <1>18, <2>1 DEF EndResult, CommandMoves
<1>19. ASSUME NEW g \in DOMAIN cmds, HandleCommand(g) PROVE CommandMoves
  <2>1. Message(g)
    BY <1>19 DEF HandleCommand
  <2>q. QED BY <1>msg, <2>1
<1>20. ASSUME NEW g \in DOMAIN cmds, HandleSetting(g) PROVE CommandMoves
  <2>1. Message(g)
    BY <1>20 DEF HandleSetting
  <2>q. QED BY <1>msg, <2>1
<1>21. ASSUME Change PROVE CommandMoves
  BY <1>21 DEF Change, reading, CommandMoves
<1>22. ASSUME Replug PROVE CommandMoves
  BY <1>22 DEF Replug, reading, CommandMoves
<1>23. ASSUME Drop PROVE CommandMoves
  <2>1. CASE cmds' = cmds
    BY <1>23, <2>1 DEF Drop, CommandMoves, broker
  <2>2. ASSUME NEW g \in DOMAIN cmds, cmds' = Cut(g) PROVE CommandMoves
    BY <1>s, <1>23, <2>2, FieldSet DEF Drop, CommandMoves
  <2>q. QED BY <1>23, <2>1, <2>2 DEF Drop
<1>24. ASSUME PublishWill PROVE CommandMoves
  BY <1>24 DEF PublishWill, reading, CommandMoves
<1>25. ASSUME Crash PROVE CommandMoves
  BY <1>25 DEF Crash, Gone, reading, CommandMoves
<1>26. ASSUME Stop PROVE CommandMoves
  BY <1>26 DEF Stop, Gone, reading, CommandMoves
<1>27. ASSUME Start PROVE CommandMoves
  BY <1>27 DEF Start, reading, CommandMoves
<1>q. QED
  BY <1>1, <1>2, <1>3, <1>4, <1>5, <1>6, <1>7, <1>8, <1>9, <1>10, <1>11, <1>12, <1>13,
    <1>14, <1>15, <1>16, <1>17, <1>18, <1>19, <1>20, <1>21, <1>22, <1>23, <1>24,
    <1>25, <1>26, <1>27, NextSteps

\* One message at a time, written by who holds s.mu; and the newest context is the live one.
LEMMA CommandKept ==
  ASSUME IInv, Next
  PROVE CommandInv' /\ mu' \in {"free", "commands"}
<1>1. /\ cmds \in Seq(Goroutines) /\ Len(cmds) \in Nat /\ DOMAIN cmds = 1..Len(cmds)
      /\ live \in {0, Len(cmds)} /\ command \in 0..Len(cmds) /\ mu \in {"free", "commands"}
  BY DEF IInv, ShapeInv, CommandInv
<1>2. /\ mu = "commands" <=> \E g \in DOMAIN cmds : cmds[g].pc = "write"
      /\ \A g, h \in DOMAIN cmds :
           cmds[g].pc \in AtMessage /\ cmds[h].pc \in AtMessage => g = h
      /\ \A g \in DOMAIN cmds : cmds[g].conn => cmds[g].pc \in {"serving", "result", "write"}
  BY DEF IInv, CommandInv, AtMessage
<1>n. Len(cmds) \in Nat
  BY <1>1
<1>e. DOMAIN cmds = 1..Len(cmds)
  BY <1>1
<1>l. live = 0 \/ live = Len(cmds)
  BY <1>1
<1>m. command \in 0..Len(cmds)
  BY <1>1
<1>z. 0 \in 0..Len(cmds)
  BY <1>n
<1> DEFINE Types == /\ cmds' \in Seq(Goroutines) /\ live' \in {0, Len(cmds')}
                    /\ command' \in 0..Len(cmds') /\ mu' \in {"free", "commands"}
           Writes == mu' = "commands" <=> \E g \in DOMAIN cmds' : cmds'[g].pc = "write"
           Single == \A g, h \in DOMAIN cmds' :
                       cmds'[g].pc \in AtMessage /\ cmds'[h].pc \in AtMessage => g = h
           Linked == \A g \in DOMAIN cmds' :
                       cmds'[g].conn => cmds'[g].pc \in {"serving", "result", "write"}
           Good   == Types /\ Writes /\ Single /\ Linked
<1>g. ASSUME NEW g \in DOMAIN cmds, NEW p, Goes(g, p)
      PROVE /\ cmds' \in Seq(Goroutines) /\ Len(cmds') = Len(cmds)
            /\ DOMAIN cmds' = DOMAIN cmds /\ cmds'[g].pc = p
            /\ \A h \in DOMAIN cmds \ {g} :
                 cmds'[h].pc = cmds[h].pc /\ (cmds'[h].conn => cmds[h].conn)
  <2>1. /\ cmds' \in Seq(Goroutines) /\ Len(cmds') = Len(cmds) /\ cmds'[g].pc = p
        /\ \A h \in DOMAIN cmds \ {g} :
             cmds'[h].pc = cmds[h].pc /\ (cmds'[h].conn => cmds[h].conn)
    BY <1>g DEF Goes
  <2>2. DOMAIN cmds' = 1..Len(cmds')
    BY <2>1
  <2>q. QED BY <1>1, <2>1, <2>2
<1>3. ASSUME UNCHANGED <<cmds, mu>>, live' \in {0, live}, command' \in {0, command}
      PROVE Good
  <2>1. cmds' = cmds /\ mu' = mu
    BY <1>3
  <2>2. live' \in {0, Len(cmds)} /\ command' \in 0..Len(cmds)
    <3>1. live' = 0 \/ live' = live
      BY <1>3
    <3>2. command' = 0 \/ command' = command
      BY <1>3
    <3>q. QED BY <1>l, <1>m, <1>z, <3>1, <3>2
  <2>3. Types
    BY <1>1, <2>1, <2>2
  <2>q. QED BY <1>2, <2>1, <2>3
<1>4. ASSUME NEW g \in DOMAIN cmds, NEW p \in CommandPCs \ AtMessage,
             cmds[g].pc \notin AtMessage, Goes(g, p), cmds'[g].conn => p = "serving",
             live' = live, command' \in {0, g, command}, mu' = mu
      PROVE Good
  <2>0. command' \in 0..Len(cmds)
    <3>1. command' = 0 \/ command' = g \/ command' = command
      BY <1>4
    <3>2. g \in 0..Len(cmds)
      BY <1>e, <1>n
    <3>q. QED BY <1>m, <1>z, <3>1, <3>2
  <2>1. Types
    BY <1>1, <1>4, <1>g, <2>0
  <2>2. cmds[g].pc # "write" /\ p # "write" /\ p \notin AtMessage
    BY <1>4 DEF AtMessage
  <2>3. Writes
    BY <1>2, <1>4, <1>g, <2>2
  <2>4. Single
    BY <1>2, <1>4, <1>g, <2>2
  <2>5. Linked
    BY <1>2, <1>4, <1>g
  <2>q. QED BY <2>1, <2>3, <2>4, <2>5
<1>5. ASSUME NEW g \in DOMAIN cmds, \A h \in DOMAIN cmds : cmds[h].pc \notin AtMessage,
             Goes(g, "result"), UNCHANGED <<live, command, mu>>
      PROVE Good
  <2>1. Types
    BY <1>1, <1>5, <1>g
  <2>2. \A h \in DOMAIN cmds : cmds'[h].pc # "write" /\ cmds[h].pc # "write"
    BY <1>5, <1>g DEF AtMessage
  <2>3. Writes
    BY <1>2, <1>5, <1>g, <2>2
  <2>4. Single
    BY <1>5, <1>g
  <2>5. Linked
    BY <1>2, <1>5, <1>g
  <2>q. QED BY <2>1, <2>3, <2>4, <2>5
<1>6. ASSUME NEW g \in DOMAIN cmds, cmds[g].pc = "result", Goes(g, "write"),
             mu' = "commands", UNCHANGED <<live, command>>
      PROVE Good
  <2>1. Types
    BY <1>1, <1>6, <1>g
  <2>3. Writes
    BY <1>6, <1>g
  <2>4. Single
    BY <1>2, <1>6, <1>g DEF AtMessage
  <2>5. Linked
    BY <1>2, <1>6, <1>g
  <2>q. QED BY <2>1, <2>3, <2>4, <2>5
<1>7. ASSUME NEW g \in DOMAIN cmds, cmds[g].pc = "write", Goes(g, "serving"),
             mu' = "free", UNCHANGED <<live, command>>
      PROVE Good
  <2>1. Types
    BY <1>1, <1>7, <1>g
  <2>2. \A h \in DOMAIN cmds : cmds'[h].pc \notin AtMessage
    BY <1>2, <1>7, <1>g DEF AtMessage
  <2>3. Writes
    BY <1>7, <1>g, <2>2 DEF AtMessage
  <2>4. Single
    BY <1>g, <1>7, <2>2
  <2>5. Linked
    BY <1>2, <1>7, <1>g
  <2>q. QED BY <2>1, <2>3, <2>4, <2>5
<1>8. ASSUME NEW g \in DOMAIN cmds, Goes(g, cmds[g].pc), ~cmds'[g].conn,
             live' = live, command' \in {0, command}, mu' = mu
      PROVE Good
  <2>0. command' \in 0..Len(cmds)
    <3>1. command' = 0 \/ command' = command
      BY <1>8
    <3>q. QED BY <1>m, <1>z, <3>1
  <2>1. Types
    BY <1>1, <1>8, <1>g, <2>0
  <2>2. \A h \in DOMAIN cmds : cmds'[h].pc = cmds[h].pc
    BY <1>8, <1>g
  <2>3. Writes
    BY <1>2, <1>8, <1>g, <2>2
  <2>4. Single
    BY <1>2, <1>8, <1>g, <2>2
  <2>5. Linked
    BY <1>2, <1>8, <1>g
  <2>q. QED BY <2>1, <2>3, <2>4, <2>5
<1>9. ASSUME cmds' = Append(cmds, NewCommands), live' = Len(cmds) + 1, UNCHANGED <<command, mu>>
      PROVE Good
  <2>1. /\ NewCommands \in Goroutines /\ NewCommands.pc = "begin" /\ ~NewCommands.conn
    BY GoroutineTypes DEF IInv, ShapeInv, NewCommands
  <2> HIDE DEF NewCommands
  <2>2. /\ cmds' \in Seq(Goroutines) /\ Len(cmds') = Len(cmds) + 1
        /\ \A h \in DOMAIN cmds : cmds'[h] = cmds[h]
        /\ cmds'[Len(cmds) + 1] = NewCommands
    <3>0. cmds \in Seq(Goroutines) /\ NewCommands \in Goroutines /\ cmds' = Append(cmds, NewCommands)
      BY <1>1, <1>9, <2>1
    <3> HIDE DEF Goroutines
    <3>1. cmds' \in Seq(Goroutines) /\ Len(cmds') = Len(cmds) + 1
      BY <3>0
    <3>2. ASSUME NEW h \in 1..Len(cmds) PROVE cmds'[h] = cmds[h]
      BY <3>0
    <3>3. cmds'[Len(cmds) + 1] = NewCommands
      BY <3>0
    <3>q. QED BY <1>1, <3>1, <3>2, <3>3
  <2>3. DOMAIN cmds' = DOMAIN cmds \cup {Len(cmds) + 1}
    <3>1. DOMAIN cmds' = 1..(Len(cmds) + 1)
      BY <2>2
    <3>q. QED BY <1>e, <1>n, <3>1
  <2>4. Types
    <3>1. command' = command /\ live' = Len(cmds) + 1
      BY <1>9
    <3>2. command' \in 0..(Len(cmds) + 1)
      BY <1>m, <1>n, <3>1
    <3>q. QED BY <1>1, <1>9, <2>2, <3>1, <3>2
  <2>5. NewCommands.pc \notin AtMessage
    BY <2>1 DEF AtMessage
  <2>6. Writes
    BY <1>2, <1>9, <2>1, <2>2, <2>3
  <2>7. Single
    BY <1>2, <2>2, <2>3, <2>5
  <2>8. Linked
    BY <1>2, <2>1, <2>2, <2>3
  <2>q. QED BY <2>4, <2>6, <2>7, <2>8
<1>10. ASSUME cmds' = <<>>, live' = 0, command' = 0, mu' = "free"
       PROVE Good
  <2>1. cmds' \in Seq(Goroutines) /\ Len(cmds') = 0 /\ DOMAIN cmds' = {}
    BY <1>10
  <2>2. Types
    BY <1>10, <2>1
  <2>q. QED BY <1>10, <2>1, <2>2
<1>11. Good
  <2>1. CASE UNCHANGED <<cmds, live, command, mu>>
    <3>1. live' \in {0, live} /\ command' \in {0, command} /\ UNCHANGED <<cmds, mu>>
      BY <2>1
    <3>q. QED BY <3>1, <1>3
  <2> HIDE DEF Good
  <2>q. QED BY <2>1, <1>3, <1>4, <1>5, <1>6, <1>7, <1>8, <1>9, <1>10, StepCommandMoves
            DEF CommandMoves
<1>q. QED BY <1>11 DEF CommandInv, AtMessage

-----------------------------------------------------------------------------
(* The connection and the cache.                                           *)

\* What publishing for the configuration of now does to the cache and the broker.
Publishes ==
  \E values, paths, arrives :
    /\ cache' = Updated(cache, paths, values)
    /\ states' = IF arrives THEN [states EXCEPT ![conf.root] = Updated(@, paths, values)]
                 ELSE states
    /\ cleared' = cleared \ paths
    /\ lost' = IF arrives /\ run.key = ConnectionKey(conf) THEN lost \ paths
               ELSE lost \cup paths

\* How a step moves Run's connection, the configuration, the cache and the states.
CacheMoves ==
  \/ UNCHANGED <<run, at, caching, states>>
  \/ at < Len(Configs) /\ at' = at + 1 /\ UNCHANGED <<run, caching, states>>
  \/ /\ run' = [run EXCEPT !.want = IF conf.on THEN ConnectionKey(conf) ELSE NoKey]
     /\ UNCHANGED <<at, caching, states>>
  \/ /\ run' = [run EXCEPT !.key = run.want]
     /\ (run.want = NoKey /\ UNCHANGED caching) \/ cache' = Nothing
     /\ UNCHANGED <<at, states>>
  \/ /\ run' \in {run, [key |-> NoKey, want |-> NoKey]} /\ cache' = Nothing
     /\ UNCHANGED <<at, states>>
  \/ (\E pages : ClearStates(pages, TRUE)) /\ UNCHANGED <<run, at, cache, lost>>
  \/ Publishes /\ UNCHANGED <<run, at>>

\* Every step moves them in one of these ways.
LEMMA StepCacheMoves ==
  ASSUME Next
  PROVE CacheMoves
<1>1. ASSUME Look PROVE CacheMoves
  BY <1>1 DEF Look, outside, threads, broker, caching, CacheMoves
<1>2. ASSUME CloseClients PROVE CacheMoves
  BY <1>2 DEF CloseClients, outside, threads, broker, caching, CacheMoves
<1>3. ASSUME Open PROVE CacheMoves
  BY <1>3 DEF Open, ResetPublishCache, outside, threads, broker, caching, CacheMoves
<1>4. ASSUME ResetPublisher PROVE CacheMoves
  BY <1>4 DEF ResetPublisher, outside, threads, broker, caching, CacheMoves
<1>5. ASSUME Wake PROVE CacheMoves
  BY <1>5 DEF Wake, outside, threads, broker, caching, CacheMoves
<1>6. ASSUME NEW t \in Threads, Discover(t) PROVE CacheMoves
  <2>1. UNCHANGED <<run, at, cache, lost>>
    BY <1>6 DEF Discover, outside
  <2>2. \/ \E o : ClearStates(PagesGone, o.arrives)
        \/ UNCHANGED <<states, cleared>>
    BY <1>6 DEF Discover
  <2>q. QED BY <2>1, <2>2 DEF CacheMoves, ClearStates, caching
<1>7. ASSUME NEW t \in Threads, DiscoverInPart(t) PROVE CacheMoves
  <2>1. UNCHANGED <<run, at, cache, lost>>
    BY <1>7 DEF DiscoverInPart, outside
  <2>2. \E pages : ClearStates(pages, TRUE)
    BY <1>7 DEF DiscoverInPart
  <2>q. QED BY <2>1, <2>2 DEF CacheMoves
<1>8. ASSUME NEW t \in Threads, Online(t) PROVE CacheMoves
  BY <1>8 DEF Online, outside, threads, broker, caching, CacheMoves
<1>9. ASSUME NEW t \in Threads, PublishStates(t) PROVE CacheMoves
  <2>1. UNCHANGED <<run, at>>
    BY <1>9 DEF PublishStates, outside
  <2>2. Publishes
    BY <1>9 DEF PublishStates, Publishes
  <2>q. QED BY <2>1, <2>2 DEF CacheMoves
<1>10. ASSUME ResetDiscovery PROVE CacheMoves
  BY <1>10 DEF ResetDiscovery, outside, threads, broker, caching, CacheMoves
<1>11. ASSUME Ask PROVE CacheMoves
  BY <1>11 DEF Ask, outside, threads, broker, caching, CacheMoves
<1>12. ASSUME NEW g \in DOMAIN cmds, Register(g) PROVE CacheMoves
  BY <1>12 DEF Register, outside, threads, broker, caching, CacheMoves
<1>13. ASSUME NEW g \in DOMAIN cmds, Subscribe(g) PROVE CacheMoves
  BY <1>13 DEF Subscribe, outside, threads, broker, caching, CacheMoves
<1>14. ASSUME NEW g \in DOMAIN cmds, Leave(g) PROVE CacheMoves
  BY <1>14 DEF Leave, outside, threads, broker, caching, CacheMoves
<1>15. ASSUME NEW g \in DOMAIN cmds, Pause(g) PROVE CacheMoves
  BY <1>15 DEF Pause, outside, threads, broker, caching, CacheMoves
<1>16. ASSUME NEW g \in DOMAIN cmds, Retry(g) PROVE CacheMoves
  BY <1>16 DEF Retry, outside, threads, broker, caching, CacheMoves
<1>17. ASSUME NEW g \in DOMAIN cmds, BeginResult(g) PROVE CacheMoves
  BY <1>17 DEF BeginResult, outside, threads, broker, caching, CacheMoves
<1>18. ASSUME NEW g \in DOMAIN cmds, EndResult(g) PROVE CacheMoves
  BY <1>18 DEF EndResult, outside, threads, broker, caching, CacheMoves
<1>19. ASSUME NEW g \in DOMAIN cmds, HandleCommand(g) PROVE CacheMoves
  BY <1>19 DEF HandleCommand, Message, outside, threads, broker, caching, CacheMoves
<1>20. ASSUME NEW g \in DOMAIN cmds, HandleSetting(g) PROVE CacheMoves
  BY <1>20 DEF HandleSetting, Message, outside, threads, broker, caching, CacheMoves
<1>21. ASSUME Change PROVE CacheMoves
  BY <1>21 DEF Change, outside, threads, broker, caching, CacheMoves
<1>22. ASSUME Replug PROVE CacheMoves
  BY <1>22 DEF Replug, outside, threads, broker, caching, CacheMoves
<1>23. ASSUME Drop PROVE CacheMoves
  BY <1>23 DEF Drop, outside, threads, broker, caching, CacheMoves
<1>24. ASSUME PublishWill PROVE CacheMoves
  BY <1>24 DEF PublishWill, outside, threads, broker, caching, CacheMoves
<1>25. ASSUME Crash PROVE CacheMoves
  BY <1>25 DEF Crash, Gone, outside, threads, broker, caching, CacheMoves
<1>26. ASSUME Stop PROVE CacheMoves
  BY <1>26 DEF Stop, Gone, outside, threads, broker, caching, CacheMoves
<1>27. ASSUME Start PROVE CacheMoves
  BY <1>27 DEF Start, outside, threads, broker, caching, CacheMoves
<1>q. QED
  BY <1>1, <1>2, <1>3, <1>4, <1>5, <1>6, <1>7, <1>8, <1>9, <1>10, <1>11, <1>12, <1>13,
    <1>14, <1>15, <1>16, <1>17, <1>18, <1>19, <1>20, <1>21, <1>22, <1>23, <1>24,
    <1>25, <1>26, <1>27, NextSteps

\* What the shape of these says, and that the roots and the keys are those of Configs.
LEMMA CacheShape ==
  ASSUME IInv
  PROVE /\ at \in 1..Len(Configs) /\ conf \in {Configs[i] : i \in DOMAIN Configs}
        /\ conf.root \in Roots /\ ConnectionKey(conf) \in Keys /\ NoKey \in Keys
        /\ run \in [key : Keys, want : Keys]
        /\ states = [r \in Roots |-> states[r]] /\ cache = [path \in Paths |-> cache[path]]
        /\ \A key \in Keys : key # NoKey => key[1] \in Roots
        /\ NoKey # ConnectionKey(conf) /\ ConnectionKey(conf)[1] = conf.root
<1>1. at \in 1..Len(Configs) /\ DOMAIN Configs = 1..Len(Configs)
  BY MqttAssumption DEF IInv, ShapeInv
<1>2. /\ conf \in {Configs[i] : i \in DOMAIN Configs}
      /\ conf.root \in Roots /\ ConnectionKey(conf) \in Keys /\ NoKey \in Keys
  BY <1>1 DEF conf, Roots, Keys
<1>3. /\ run \in [key : Keys, want : Keys]
      /\ states = [r \in Roots |-> states[r]] /\ cache = [path \in Paths |-> cache[path]]
  BY DEF IInv, ShapeInv
<1>4. \A key \in Keys : key # NoKey => key[1] \in Roots
  BY DEF Keys, ConnectionKey, Roots
<1>5. NoKey # ConnectionKey(conf) /\ ConnectionKey(conf)[1] = conf.root
  BY DEF NoKey, ConnectionKey
<1>q. QED BY <1>1, <1>2, <1>3, <1>4, <1>5

\* The shapes are kept.
LEMMA ShapeKept ==
  ASSUME IInv, Next
  PROVE /\ at' \in 1..Len(Configs) /\ run' \in [key : Keys, want : Keys]
        /\ states' = [r \in Roots |-> states'[r]] /\ cache' = [path \in Paths |-> cache'[path]]
<1>1. /\ at \in 1..Len(Configs) /\ ConnectionKey(conf) \in Keys /\ NoKey \in Keys
      /\ run \in [key : Keys, want : Keys]
      /\ states = [r \in Roots |-> states[r]] /\ cache = [path \in Paths |-> cache[path]]
  BY CacheShape
<1>2. CacheMoves
  BY StepCacheMoves
<1>3. at' \in 1..Len(Configs)
  <2>1. at' = at \/ (at < Len(Configs) /\ at' = at + 1)
    BY <1>2 DEF CacheMoves
  <2>2. Len(Configs) \in Nat
    BY MqttAssumption
  <2>q. QED BY <1>1, <2>1, <2>2
<1>4. run' \in [key : Keys, want : Keys]
  <2>1. \/ run' = run \/ run' = [key |-> NoKey, want |-> NoKey]
        \/ run' = [run EXCEPT !.want = ConnectionKey(conf)] \/ run' = [run EXCEPT !.want = NoKey]
        \/ run' = [run EXCEPT !.key = run.want]
    BY <1>2, Zenon DEF CacheMoves
  <2> HIDE DEF Keys, NoKey, ConnectionKey, conf
  <2>q. QED BY <1>1, <2>1
<1>5. cache' = [path \in Paths |-> cache'[path]]
  <2>1. \/ cache' = cache \/ cache' = Nothing
        \/ \E values, paths : cache' = Updated(cache, paths, values)
    BY <1>2 DEF CacheMoves, Publishes, caching
  <2>q. QED BY <1>1, <2>1 DEF Nothing, Updated
<1>6. states' = [r \in Roots |-> states'[r]]
  <2>1. states' = states \/ \E one : states' = [states EXCEPT ![conf.root] = one]
    BY <1>2 DEF CacheMoves, Publishes, ClearStates
  <2>q. QED BY <1>1, <2>1
<1>q. QED BY <1>3, <1>4, <1>5, <1>6

\* What the cache holds is what the broker has, until the connection is another's.
LEMMA CacheKept ==
  ASSUME IInv, Next
  PROVE CacheInv'
<1>1. /\ conf.root \in Roots /\ run \in [key : Keys, want : Keys]
      /\ states = [r \in Roots |-> states[r]] /\ cache = [path \in Paths |-> cache[path]]
      /\ \A key \in Keys : key # NoKey => key[1] \in Roots
      /\ ConnectionKey(conf)[1] = conf.root
  BY CacheShape
<1>2. run.key # NoKey =>
        \A path \in Paths \ (lost \cup cleared) :
          cache[path] # "none" => states[run.key[1]][path] = cache[path]
  BY DEF IInv, CacheInv
<1>3. SUFFICES ASSUME run'.key # NoKey, NEW path \in Paths \ (lost' \cup cleared'),
                      cache'[path] # "none"
               PROVE states'[run'.key[1]][path] = cache'[path]
  BY DEF CacheInv
<1>4. Nothing[path] = "none"
  BY DEF Nothing
<1>5. CASE run' = run /\ UNCHANGED <<caching, states>>
  BY <1>2, <1>3, <1>5 DEF caching
<1>6. CASE /\ run' = [run EXCEPT !.want = IF conf.on THEN ConnectionKey(conf) ELSE NoKey]
           /\ UNCHANGED <<caching, states>>
  <2>1. run'.key = run.key
    BY <1>1, <1>6
  <2>q. QED BY <1>2, <1>3, <1>6, <2>1 DEF caching
<1>7. CASE run' = [run EXCEPT !.key = run.want] /\ run.want = NoKey
  BY <1>1, <1>3, <1>7
<1>8. CASE cache' = Nothing
  BY <1>3, <1>4, <1>8
<1>9. CASE (\E pages : ClearStates(pages, TRUE)) /\ UNCHANGED <<run, cache, lost>>
  <2>1. PICK pages : ClearStates(pages, TRUE)
    BY <1>9
  <2>2. /\ states' = [states EXCEPT ![conf.root] =
                      [p \in Paths |-> IF p \in pages THEN "none" ELSE states[conf.root][p]]]
        /\ cleared' = cleared \cup {p \in pages : cache[p] # "none"}
    BY <2>1 DEF ClearStates
  <2>3. path \notin pages /\ path \notin lost \cup cleared
    BY <1>3, <1>9, <2>2
  <2>4. states'[run.key[1]][path] = states[run.key[1]][path]
    BY <1>1, <1>3, <1>9, <2>2, <2>3
  <2>q. QED BY <1>2, <1>3, <1>9, <2>3, <2>4
<1>10. CASE Publishes /\ UNCHANGED run
  <2>1. PICK values, paths, arrives :
          /\ cache' = Updated(cache, paths, values)
          /\ states' = IF arrives THEN [states EXCEPT ![conf.root] = Updated(@, paths, values)]
                       ELSE states
          /\ cleared' = cleared \ paths
          /\ lost' = IF arrives /\ run.key = ConnectionKey(conf) THEN lost \ paths
                     ELSE lost \cup paths
    BY <1>10 DEF Publishes
  <2>2. /\ cache'[path] = IF path \in paths THEN values[path] ELSE cache[path]
        /\ Updated(states[conf.root], paths, values)[path]
             = IF path \in paths THEN values[path] ELSE states[conf.root][path]
    BY <1>3, <2>1 DEF Updated
  <2>3. CASE path \in paths
    <3>1. arrives /\ run.key = ConnectionKey(conf)
      BY <1>3, <2>1, <2>3
    <3>2. states'[conf.root] = Updated(states[conf.root], paths, values)
      BY <1>1, <2>1, <3>1
    <3>q. QED BY <1>1, <1>10, <2>2, <2>3, <3>1, <3>2
  <2>4. CASE path \notin paths
    <3>1. path \notin lost \cup cleared
      BY <1>3, <2>1, <2>4
    <3>2. states'[run.key[1]][path] = states[run.key[1]][path]
      BY <1>1, <1>3, <1>10, <2>1, <2>2, <2>4
    <3>q. QED BY <1>2, <1>3, <1>10, <2>2, <2>4, <3>1, <3>2
  <2>q. QED BY <2>3, <2>4
<1>q. QED BY <1>5, <1>6, <1>7, <1>8, <1>9, <1>10, StepCacheMoves DEF CacheMoves

-----------------------------------------------------------------------------
(* The theorems.                                                           *)

\* The invariant holds at the start.
LEMMA InitEstablishes ==
  ASSUME Init
  PROVE IInv
<1>1. Len(Configs) \in Nat \ {0} /\ MaxInputs \in Nat /\ MaxFaults \in Nat
  BY MqttAssumption
<1>2. ShapeInv
  BY <1>1 DEF Init, ShapeInv, Threads, RunPCs, NoKey, Keys, Nothing
<1>3. RoundInv
  BY DEF Init, RoundInv, Threads
<1>4. CommandInv
  BY DEF Init, CommandInv
<1>5. TopicInv /\ CacheInv
  BY DEF Init, TopicInv, CacheInv
<1>q. QED BY <1>2, <1>3, <1>4, <1>5 DEF IInv

\* Every step keeps it.
LEMMA StepKeeps ==
  ASSUME IInv, [Next]_vars
  PROVE IInv'
<1>1. CASE UNCHANGED vars
  BY <1>1 DEF vars, outside, threads, reading, broker, bounds, IInv, ShapeInv, RoundInv, CommandInv,
     TopicInv, CacheInv, caching
<1>2. CASE Next
  <2>1. ShapeInv'
    BY <1>2, BoundsKept, ShapeKept, RoundKept, CommandKept DEF ShapeInv
  <2>2. RoundInv' /\ CommandInv' /\ TopicInv'
    BY <1>2, RoundKept, CommandKept, TopicKept
  <2>3. CacheInv'
    BY <1>2, CacheKept
  <2>q. QED BY <2>1, <2>2, <2>3 DEF IInv
<1>q. QED BY <1>1, <1>2

\* The invariant holds in every reachable state.
THEOREM Invariance == Spec => []IInv
<1>1. Init => IInv
  BY InitEstablishes
<1>2. IInv /\ [Next]_vars => IInv'
  BY StepKeeps
<1>q. QED BY <1>1, <1>2, PTL DEF Spec

\* Whatever fails, is lost or is restarted, a discovery topic that the broker retains can
\* be cleared by a later round or a reset, but for those that a failed round or a dead
\* connection is to blame for (DiscoveryIsTracked).
THEOREM TopicsAreTracked == Spec => []DiscoveryIsTracked
<1>1. IInv => DiscoveryIsTracked
  BY MqttAssumption DEF IInv, ShapeInv, RoundInv, CommandInv, TopicInv, DiscoveryIsTracked, TypeOK
<1>q. QED BY <1>1, Invariance, PTL

\* However the configuration comes and goes, what the cache counts as published for the
\* connection of now the broker has, but for what a dead connection swallowed, a round
\* published for a configuration that Run had not followed, or the end of a page cleared
\* (CachedIsPublished).
THEOREM CacheIsTrue == Spec => []CachedIsPublished
<1>1. IInv => CachedIsPublished
  <2>1. SUFFICES ASSUME IInv, run.key = ConnectionKey(conf)
                 PROVE \A path \in Paths \ (lost \cup cleared) :
                         cache[path] # "none" => states[conf.root][path] = cache[path]
    BY DEF CachedIsPublished
  <2>2. run.key # NoKey /\ run.key[1] = conf.root
    BY <2>1, CacheShape
  <2>q. QED BY <2>1, <2>2 DEF IInv, CacheInv
<1>q. QED BY <1>1, Invariance, PTL

=============================================================================
