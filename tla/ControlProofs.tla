---------------------------- MODULE ControlProofs ----------------------------
(***************************************************************************)
(* Proofs about the control of the browser over DevTools: PageControl, for *)
(* every number of pages, tabs, switches and faults, and SessionLoop, for  *)
(* every bound on events.                                                  *)
(*                                                                         *)
(* A page switch is no failure of the control, a recovery is asked for     *)
(* only after five losses in a row, the list by which tabs are evicted     *)
(* agrees with the tabs kept and with those open, and the tabs of the      *)
(* pages marked "preload" and of the page being shown stay; they follow    *)
(* from the inductive invariant IInv of PageControl.  LoopInv says what    *)
(* the counter of unanswered probes and the timer of the network window    *)
(* still know of the load they belong to.                                  *)
(***************************************************************************)
EXTENDS PageControl, SessionLoop, FiniteSetTheorems, SequenceTheorems, WellFoundedInduction,
        TLAPS

\* The records that preloaders are.
Preloader ==
  [pc : {"start", "look", "open", "book"}, todo : SUBSET Preloaded, id : Targets \cup {0}]

\* The actions a step of Next is one of.
LEMMA NextSteps ==
  ASSUME Next
  PROVE  \/ Look \/ Dial \/ Bind \/ Attach \/ Navigate \/ ConsumeRetarget \/ BookFailure
         \/ Decide \/ SessionEnds \/ Rejected \/ Held \/ ProcessEnds
         \/ \E p \in Pages : ShowPage(p)
         \/ OpenTab \/ BookTab \/ CloseTabs \/ RevealDue \/ RevealShows
         \/ \E i \in DOMAIN preloaders : Preload(i)
  BY DEF Next, Monitor, Switch, Reveal

-----------------------------------------------------------------------------
(* Types.                                                                  *)

\* A step of a preloader changes it alone, and is one of four: it opens a tab, it books the
\* tab it has opened for the next page of its list, it gets on with the list, or ends it.
LEMMA PreloadMoves ==
  ASSUME IInv, NEW i \in DOMAIN preloaders, Preload(i)
  PROVE  /\ i \in 1 .. Len(preloaders) /\ preloaders' \in Seq(Preloader)
         /\ Len(preloaders') = Len(preloaders)
         /\ \A j \in 1 .. Len(preloaders) : j # i => preloaders'[j] = preloaders[j]
         /\ \/ /\ preloaders'[i].pc # "book"
               /\ UNCHANGED <<opened, open, content, tabs, tabUse>>
               /\ UNCHANGED <<switches, faults>> \/ Fault
            \/ /\ opened < MaxTargets /\ opened' = opened + 1 /\ open' = open \cup {opened + 1}
               /\ preloaders'[i].pc = "book" /\ preloaders'[i].id = opened + 1
               /\ \E p \in Preloaded : content' = [content EXCEPT ![opened + 1] = p]
               /\ UNCHANGED <<tabs, tabUse, switches, faults>>
            \/ /\ preloaders[i].pc = "book" /\ preloaders'[i].pc # "book"
               /\ \E p \in Preloaded : /\ tabs' = [tabs EXCEPT ![p] = preloaders[i].id]
                                       /\ tabUse' = <<p>> \o tabUse
               /\ UNCHANGED <<opened, open, content, switches, faults>>
<1>1. preloaders \in Seq(Preloader)
  BY DEF IInv, StateTyped, ActorsTyped, Preloader
<1>2. i \in 1 .. Len(preloaders)
  BY <1>1, LenProperties
<1>3. preloaders[i] \in Preloader
  BY <1>1, <1>2, ElementOfSeq
<1>4. opened \in Targets
  BY DEF IInv, StateTyped, TabsTyped
<1>5. ASSUME NEW r \in Preloader, preloaders' = [preloaders EXCEPT ![i] = r]
      PROVE  /\ preloaders' \in Seq(Preloader) /\ Len(preloaders') = Len(preloaders)
             /\ preloaders'[i] = r
             /\ \A j \in 1 .. Len(preloaders) : j # i => preloaders'[j] = preloaders[j]
  BY <1>1, <1>2, <1>5, ExceptSeq
<1>6. CASE PreloadStarts(i)
  <2>1. PICK r \in Preloader : preloaders' = [preloaders EXCEPT ![i] = r] /\ r.pc # "book"
    <3>1. CASE preloaders' = [preloaders EXCEPT ![i].pc = "look"]
      <4> DEFINE r == [preloaders[i] EXCEPT !.pc = "look"]
      <4>1. r \in Preloader /\ r.pc # "book" /\ preloaders' = [preloaders EXCEPT ![i] = r]
        BY <1>3, <3>1 DEF Preloader
      <4> QED  BY <4>1
    <3>2. CASE preloaders' = [preloaders EXCEPT ![i].pc = "look", ![i].todo = {}]
      <4> DEFINE r == [preloaders[i] EXCEPT !.pc = "look", !.todo = {}]
      <4>1. r \in Preloader /\ r.pc # "book" /\ preloaders' = [preloaders EXCEPT ![i] = r]
        BY <1>3, <3>2 DEF Preloader
      <4> QED  BY <4>1
    <3> QED  BY <1>6, <3>1, <3>2 DEF PreloadStarts
  <2>2. UNCHANGED <<switches, faults>> \/ Fault
    BY <1>6 DEF PreloadStarts, boundVars
  <2> QED  BY <1>2, <1>5, <1>6, <2>1, <2>2 DEF PreloadStarts
<1>7. CASE PreloadLooks(i)
  <2>1. PICK r \in Preloader : preloaders' = [preloaders EXCEPT ![i] = r] /\ r.pc # "book"
    <3>1. PICK p \in Preloaded :
            preloaders' = IF tabs[p] # 0
                          THEN [preloaders EXCEPT ![i].todo = @ \ {p}]
                          ELSE [preloaders EXCEPT ![i].pc = "open"]
      BY <1>7 DEF PreloadLooks
    <3>2. CASE preloaders' = [preloaders EXCEPT ![i].todo = @ \ {p}]
      <4> DEFINE r == [preloaders[i] EXCEPT !.todo = @ \ {p}]
      <4>1. r \in Preloader /\ r.pc # "book" /\ preloaders' = [preloaders EXCEPT ![i] = r]
        BY <1>3, <1>7, <3>2 DEF Preloader, PreloadLooks
      <4> QED  BY <4>1
    <3>3. CASE preloaders' = [preloaders EXCEPT ![i].pc = "open"]
      <4> DEFINE r == [preloaders[i] EXCEPT !.pc = "open"]
      <4>1. r \in Preloader /\ r.pc # "book" /\ preloaders' = [preloaders EXCEPT ![i] = r]
        BY <1>3, <3>3 DEF Preloader
      <4> QED  BY <4>1
    <3> QED  BY <3>1, <3>2, <3>3
  <2> QED  BY <1>2, <1>5, <1>7, <2>1 DEF PreloadLooks, boundVars
<1>8. CASE PreloadOpens(i)
  <2>1. PICK p \in Preloaded :
          \/ /\ opened < MaxTargets
             /\ opened' = opened + 1 /\ open' = open \cup {opened + 1}
             /\ content' = [content EXCEPT ![opened + 1] = p]
             /\ preloaders' = [preloaders EXCEPT ![i].pc = "book", ![i].id = opened + 1]
             /\ UNCHANGED boundVars
          \/ /\ Fault
             /\ preloaders' = [preloaders EXCEPT ![i].pc = "look", ![i].todo = @ \ {p}]
             /\ UNCHANGED <<opened, open, content>>
    BY <1>8 DEF PreloadOpens
  <2>2. UNCHANGED <<tabs, tabUse>>
    BY <1>8 DEF PreloadOpens
  <2>3. CASE opened' = opened + 1 /\ opened < MaxTargets
    <3>1. PICK id \in Targets : id = opened + 1
      BY <1>4, <2>3, TargetsAssumption DEF Targets
    <3> DEFINE r == [preloaders[i] EXCEPT !.pc = "book", !.id = id]
    <3>2. opened' # opened
      BY <1>4, <2>3, TargetsAssumption DEF Targets
    <3>3. preloaders' = [preloaders EXCEPT ![i].pc = "book", ![i].id = id]
      BY <2>1, <3>1, <3>2
    <3>4. r \in Preloader /\ r.pc = "book" /\ r.id = id
            /\ preloaders' = [preloaders EXCEPT ![i] = r]
      BY <1>3, <3>3 DEF Preloader
    <3> HIDE DEF r
    <3>5. /\ preloaders' \in Seq(Preloader) /\ Len(preloaders') = Len(preloaders)
          /\ preloaders'[i].pc = "book" /\ preloaders'[i].id = id
          /\ \A j \in 1 .. Len(preloaders) : j # i => preloaders'[j] = preloaders[j]
      BY <1>5, <3>4
    <3>6. open' = open \cup {opened + 1} /\ content' = [content EXCEPT ![opened + 1] = p]
            /\ UNCHANGED boundVars
      BY <2>1, <3>2
    <3> QED  BY <1>2, <2>2, <2>3, <3>1, <3>5, <3>6 DEF boundVars
  <2>4. CASE Fault /\ preloaders' = [preloaders EXCEPT ![i].pc = "look", ![i].todo = @ \ {p}]
               /\ UNCHANGED <<opened, open, content>>
    <3> DEFINE r == [preloaders[i] EXCEPT !.pc = "look", !.todo = @ \ {p}]
    <3>1. r \in Preloader /\ r.pc # "book" /\ preloaders' = [preloaders EXCEPT ![i] = r]
      BY <1>3, <2>4 DEF Preloader
    <3> HIDE DEF r
    <3> QED  BY <1>2, <1>5, <2>2, <2>4, <3>1
  <2> QED  BY <2>1, <2>3, <2>4
<1>9. CASE PreloadBooks(i)
  <2>1. PICK p \in Preloaded :
          /\ tabs' = [tabs EXCEPT ![p] = preloaders[i].id]
          /\ tabUse' = <<p>> \o tabUse
          /\ preloaders' = [preloaders EXCEPT ![i].pc = "look", ![i].todo = @ \ {p},
                                              ![i].id = 0]
    BY <1>9 DEF PreloadBooks
  <2> DEFINE r == [preloaders[i] EXCEPT !.pc = "look", !.todo = @ \ {p}, !.id = 0]
  <2>2. r \in Preloader /\ r.pc # "book" /\ preloaders' = [preloaders EXCEPT ![i] = r]
    BY <1>3, <2>1 DEF Preloader
  <2> HIDE DEF r
  <2> QED  BY <1>2, <1>5, <1>9, <2>1, <2>2 DEF PreloadBooks, boundVars
<1> QED  BY <1>6, <1>7, <1>8, <1>9 DEF Preload

\* The flags stay flags.
LEMMA FlagsTypedKept ==
  ASSUME IInv, Next
  PROVE  FlagsTyped'
<1> USE DEF IInv, StateTyped, FlagsTyped, tabVars, chromeVars, sessionVars, statusVars, heldVars, boundVars
<1>1. CASE Look
  BY <1>1 DEF Look
<1>2. CASE Dial
  BY <1>2 DEF Dial
<1>3. CASE Bind
  BY <1>3 DEF Bind
<1>4. CASE Attach
  BY <1>4 DEF Attach
<1>5. CASE Navigate
  BY <1>5 DEF Navigate
<1>6. CASE ConsumeRetarget
  BY <1>6 DEF ConsumeRetarget
<1>7. CASE BookFailure
  BY <1>7 DEF BookFailure
<1>8. CASE Decide
  BY <1>8 DEF Decide
<1>9. CASE SessionEnds
  BY <1>9 DEF SessionEnds
<1>10. CASE Rejected
  BY <1>10 DEF Rejected
<1>11. CASE Held
  BY <1>11 DEF Held
<1>12. CASE ProcessEnds
  BY <1>12 DEF ProcessEnds
<1>13. CASE OpenTab
  BY <1>13 DEF OpenTab, ActivateTab, CreateTab, NavigateInstead
<1>14. CASE BookTab
  BY <1>14 DEF BookTab, Retargets
<1>15. CASE CloseTabs
  BY <1>15 DEF CloseTabs
<1>16. CASE RevealDue
  BY <1>16 DEF RevealDue
<1>17. CASE RevealShows
  BY <1>17 DEF RevealShows
<1>18. CASE \E p \in Pages : ShowPage(p)
  BY <1>18 DEF ShowPage
<1>19. CASE \E i \in DOMAIN preloaders : Preload(i)
  BY <1>19 DEF Preload
<1> QED
  BY NextSteps, <1>1, <1>2, <1>3, <1>4, <1>5, <1>6, <1>7, <1>8, <1>9, <1>10,
     <1>11, <1>12, <1>13, <1>14, <1>15, <1>16, <1>17, <1>18, <1>19

\* The counters keep to their ranges.
LEMMA CountsTypedKept ==
  ASSUME IInv, Next
  PROVE  CountsTyped'
<1> USE DEF IInv, StateTyped, CountsTyped, tabVars, chromeVars, sessionVars, statusVars, heldVars, boundVars, GiveUpAt
<1>1. CASE Look
  BY <1>1 DEF Look
<1>2. CASE Dial
  BY <1>2 DEF Dial
<1>3. CASE Bind
  BY <1>3 DEF Bind
<1>4. CASE Attach
  BY <1>4 DEF Attach, FailuresForgotten
<1>5. CASE Navigate
  BY <1>5 DEF Navigate
<1>6. CASE ConsumeRetarget
  BY <1>6 DEF ConsumeRetarget
<1>7. CASE BookFailure
  BY <1>7 DEF BookFailure, UpToFive
<1>8. CASE Decide
  BY <1>8 DEF Decide
<1>9. CASE SessionEnds
  BY <1>9, BoundsAssumption DEF SessionEnds, Fault, UpToFive
<1>10. CASE Rejected
  BY <1>10 DEF Rejected
<1>11. CASE Held
  BY <1>11 DEF Held
<1>12. CASE ProcessEnds
  BY <1>12 DEF ProcessEnds
<1>13. CASE OpenTab
  BY <1>13, BoundsAssumption DEF OpenTab, ActivateTab, CreateTab, NavigateInstead
<1>14. CASE BookTab
  BY <1>14 DEF BookTab
<1>15. CASE CloseTabs
  BY <1>15 DEF CloseTabs
<1>16. CASE RevealDue
  BY <1>16 DEF RevealDue
<1>17. CASE RevealShows
  BY <1>17 DEF RevealShows
<1>18. CASE \E p \in Pages : ShowPage(p)
  BY <1>18, BoundsAssumption DEF ShowPage
<1>19. CASE \E i \in DOMAIN preloaders : Preload(i)
  <2>1. UNCHANGED <<failures, lost>>
    BY <1>19 DEF Preload
  <2>2. UNCHANGED <<switches, faults>> \/ Fault
    BY <1>19, PreloadMoves
  <2> QED  BY <2>1, <2>2, BoundsAssumption DEF Fault
<1> QED
  BY NextSteps, <1>1, <1>2, <1>3, <1>4, <1>5, <1>6, <1>7, <1>8, <1>9, <1>10,
     <1>11, <1>12, <1>13, <1>14, <1>15, <1>16, <1>17, <1>18, <1>19

\* What is known of the tabs keeps its types.
LEMMA TabsTypedKept ==
  ASSUME IInv, Next
  PROVE  TabsTyped'
<1> USE DEF IInv, StateTyped, TabsTyped, tabVars, chromeVars, sessionVars, statusVars, heldVars, boundVars
<1>1. CASE Look
  BY <1>1 DEF Look
<1>2. CASE Dial
  BY <1>2 DEF Dial
<1>3. CASE Bind
  BY <1>3 DEF Bind, ActorsTyped
<1>4. CASE Attach
  BY <1>4 DEF Attach
<1>5. CASE Navigate
  BY <1>5 DEF Navigate
<1>6. CASE ConsumeRetarget
  BY <1>6 DEF ConsumeRetarget
<1>7. CASE BookFailure
  BY <1>7 DEF BookFailure
<1>8. CASE Decide
  BY <1>8 DEF Decide
<1>9. CASE SessionEnds
  BY <1>9 DEF SessionEnds
<1>10. CASE Rejected
  BY <1>10 DEF Rejected
<1>11. CASE Held
  BY <1>11 DEF Held
<1>12. CASE ProcessEnds
  BY <1>12 DEF ProcessEnds
<1>13. CASE OpenTab
  <2>1. CASE ActivateTab
    BY <1>13, <2>1 DEF OpenTab, ActivateTab, ActorsTyped
  <2>2. CASE CreateTab
    BY <1>13, <2>2, TargetsAssumption DEF OpenTab, CreateTab, Targets
  <2>3. CASE NavigateInstead
    BY <1>13, <2>3 DEF OpenTab, NavigateInstead, ActorsTyped
  <2> QED  BY <1>13, <2>1, <2>2, <2>3 DEF OpenTab
<1>14. CASE BookTab
  BY <1>14 DEF BookTab, TabsAfter, ActorsTyped, SwitchInv
<1>15. CASE CloseTabs
  BY <1>15 DEF CloseTabs
<1>16. CASE RevealDue
  BY <1>16 DEF RevealDue
<1>17. CASE RevealShows
  BY <1>17 DEF RevealShows, LiveInv, ActorsTyped
<1>18. CASE \E p \in Pages : ShowPage(p)
  BY <1>18 DEF ShowPage
<1>19. CASE \E i \in DOMAIN preloaders : Preload(i)
  <2>1. PICK i \in DOMAIN preloaders : Preload(i)
    BY <1>19
  <2>2. UNCHANGED <<active, activeTarget, pendingBlank, revealTarget, front>>
    BY <2>1 DEF Preload
  <2>3. preloaders[i].id \in Targets \cup {0}
    <3>1. preloaders \in Seq(Preloader)
      BY DEF ActorsTyped, Preloader
    <3>2. preloaders[i] \in Preloader
      BY <2>1, <3>1, PreloadMoves, ElementOfSeq
    <3> QED  BY <3>2 DEF Preloader
  <2>4. /\ tabs' \in [Pages -> Targets \cup {0}] /\ content' \in [Targets -> Pages \cup {0}]
        /\ opened' \in Targets /\ open' \subseteq Targets
    <3>1. CASE UNCHANGED <<opened, open, content, tabs>>
      BY <3>1
    <3>2. CASE /\ opened < MaxTargets /\ opened' = opened + 1 /\ open' = open \cup {opened + 1}
               /\ \E p \in Preloaded : content' = [content EXCEPT ![opened + 1] = p]
               /\ UNCHANGED tabs
      BY <3>2, PagesAssumption, TargetsAssumption DEF Pages, Targets
    <3>3. CASE /\ \E p \in Preloaded : tabs' = [tabs EXCEPT ![p] = preloaders[i].id]
               /\ UNCHANGED <<opened, open, content>>
      BY <2>3, <3>3, PagesAssumption DEF Pages
    <3> QED  BY <2>1, <3>1, <3>2, <3>3, PreloadMoves
  <2> QED  BY <2>2, <2>4
<1> QED
  BY NextSteps, <1>1, <1>2, <1>3, <1>4, <1>5, <1>6, <1>7, <1>8, <1>9, <1>10,
     <1>11, <1>12, <1>13, <1>14, <1>15, <1>16, <1>17, <1>18, <1>19

\* The monitor, the switch and the preloaders keep their types.
LEMMA ActorsTypedKept ==
  ASSUME IInv, Next
  PROVE  ActorsTyped'
<1> USE DEF IInv, StateTyped, ActorsTyped, TabsTyped, tabVars, chromeVars, sessionVars, statusVars, heldVars, boundVars, GoTo, PCs
<1>1. CASE Look
  BY <1>1 DEF Look
<1>2. CASE Dial
  BY <1>2 DEF Dial
<1>3. CASE Bind
  BY <1>3 DEF Bind
<1>4. CASE Attach
  BY <1>4 DEF Attach, Serving
<1>5. CASE Navigate
  <2>1. preloaders' \in Seq(Preloader)
    <3>1. preloaders \in Seq(Preloader)
      BY DEF Preloader
    <3>2. [pc |-> "start", todo |-> Preloaded, id |-> 0] \in Preloader
      BY DEF Preloader
    <3>3. preloaders' = preloaders
            \/ preloaders' = Append(preloaders, [pc |-> "start", todo |-> Preloaded, id |-> 0])
      BY <1>5 DEF Navigate, StartPreloader
    <3>4. \A e \in Preloader : Append(preloaders, e) \in Seq(Preloader)
      BY <3>1, AppendProperties
    <3> QED  BY <3>1, <3>2, <3>3, <3>4
  <2> QED  BY <1>5, <2>1 DEF Navigate, Serving, Preloader
<1>6. CASE ConsumeRetarget
  BY <1>6 DEF ConsumeRetarget, AfterSession
<1>7. CASE BookFailure
  BY <1>7 DEF BookFailure
<1>8. CASE Decide
  BY <1>8 DEF Decide
<1>9. CASE SessionEnds
  BY <1>9 DEF SessionEnds
<1>10. CASE Rejected
  BY <1>10 DEF Rejected
<1>11. CASE Held
  BY <1>11 DEF Held
<1>12. CASE ProcessEnds
  BY <1>12 DEF ProcessEnds
<1>13. CASE OpenTab
  <2>1. CASE ActivateTab
    BY <1>13, <2>1 DEF OpenTab, ActivateTab
  <2>2. CASE CreateTab
    <3>1. PICK id \in Targets : id = opened + 1
      BY <2>2, TargetsAssumption DEF CreateTab, Targets
    <3>2. sw' = [sw EXCEPT !.pc = "book", !.id = id, !.created = TRUE]
      BY <2>2, <3>1 DEF CreateTab
    <3> QED  BY <1>13, <2>2, <3>2 DEF OpenTab, CreateTab
  <2>3. CASE NavigateInstead
    BY <1>13, <2>3, PagesAssumption DEF OpenTab, NavigateInstead, NoSwitch, Pages
  <2> QED  BY <1>13, <2>1, <2>2, <2>3 DEF OpenTab
<1>14. CASE BookTab
  <2>1. PICK E : sw' = [sw EXCEPT !.pc = "close", !.control = attached, !.evict = E]
                   /\ E = {tabs[p] : p \in Evicted(Touched(sw.page), sw.page)} \ {0, sw.id}
    BY <1>14 DEF BookTab
  <2>2. Evicted(Touched(sw.page), sw.page) \subseteq Pages
    BY DEF Evicted
  <2>3. E \subseteq Targets
    BY <2>1, <2>2
  <2>4. attached \in BOOLEAN
    BY DEF FlagsTyped
  <2> QED  BY <1>14, <2>1, <2>3, <2>4 DEF BookTab
<1>15. CASE CloseTabs
  BY <1>15, PagesAssumption DEF CloseTabs, NoSwitch, Pages
<1>16. CASE RevealDue
  BY <1>16 DEF RevealDue
<1>17. CASE RevealShows
  BY <1>17 DEF RevealShows
<1>18. CASE \E p \in Pages : ShowPage(p)
  <2>1. PICK p \in Pages : sw' = [sw EXCEPT !.pc = "tab", !.page = p, !.id = tabs[p]]
    BY <1>18 DEF ShowPage
  <2>2. UNCHANGED <<mon, reveal, preloaders>>
    BY <1>18 DEF ShowPage
  <2> QED  BY <2>1, <2>2
<1>19. CASE \E i \in DOMAIN preloaders : Preload(i)
  <2>1. preloaders' \in Seq(Preloader)
    BY <1>19, PreloadMoves
  <2>2. UNCHANGED <<mon, reveal, sw>>
    BY <1>19 DEF Preload
  <2> QED  BY <2>1, <2>2 DEF Preloader
<1> QED
  BY NextSteps, <1>1, <1>2, <1>3, <1>4, <1>5, <1>6, <1>7, <1>8, <1>9, <1>10,
     <1>11, <1>12, <1>13, <1>14, <1>15, <1>16, <1>17, <1>18, <1>19

-----------------------------------------------------------------------------
(* The session and its losses.                                             *)

\* A session lives only while the monitor attends to it.
LEMMA LiveInvKept ==
  ASSUME IInv, Next
  PROVE  LiveInv'
<1> USE DEF IInv, LiveInv, StateTyped, ActorsTyped, TabsTyped, At, GoTo, tabVars, chromeVars, sessionVars, statusVars, heldVars, boundVars
<1>1. CASE Look
  BY <1>1 DEF Look
<1>2. CASE Dial
  BY <1>2 DEF Dial, Targets
<1>3. CASE Bind
  BY <1>3 DEF Bind
<1>4. CASE Attach
  BY <1>4 DEF Attach
<1>5. CASE Navigate
  BY <1>5 DEF Navigate
<1>6. CASE ConsumeRetarget
  BY <1>6 DEF ConsumeRetarget, AfterSession
<1>7. CASE BookFailure
  BY <1>7 DEF BookFailure
<1>8. CASE Decide
  BY <1>8 DEF Decide
<1>9. CASE SessionEnds
  BY <1>9 DEF SessionEnds
<1>10. CASE Rejected
  BY <1>10 DEF Rejected
<1>11. CASE Held
  BY <1>11 DEF Held
<1>12. CASE ProcessEnds
  BY <1>12 DEF ProcessEnds
<1>13. CASE OpenTab
  BY <1>13 DEF OpenTab, ActivateTab, CreateTab, NavigateInstead
<1>14. CASE BookTab
  BY <1>14 DEF BookTab
<1>15. CASE CloseTabs
  BY <1>15 DEF CloseTabs
<1>16. CASE RevealDue
  BY <1>16 DEF RevealDue
<1>17. CASE RevealShows
  BY <1>17 DEF RevealShows
<1>18. CASE \E p \in Pages : ShowPage(p)
  BY <1>18 DEF ShowPage
<1>19. CASE \E i \in DOMAIN preloaders : Preload(i)
  BY <1>19 DEF Preload
<1> QED
  BY NextSteps, <1>1, <1>2, <1>3, <1>4, <1>5, <1>6, <1>7, <1>8, <1>9, <1>10,
     <1>11, <1>12, <1>13, <1>14, <1>15, <1>16, <1>17, <1>18, <1>19

\* The mark of a planned end is there for as long as it is needed.
LEMMA PlannedInvKept ==
  ASSUME IInv, Next
  PROVE  PlannedInv'
<1> USE DEF IInv, PlannedInv, LiveInv, StateTyped, ActorsTyped, TabsTyped, At, GoTo, tabVars, chromeVars, sessionVars, statusVars, heldVars, boundVars
<1>1. CASE Look
  BY <1>1 DEF Look
<1>2. CASE Dial
  BY <1>2 DEF Dial
<1>3. CASE Bind
  BY <1>3 DEF Bind
<1>4. CASE Attach
  BY <1>4 DEF Attach
<1>5. CASE Navigate
  BY <1>5 DEF Navigate
<1>6. CASE ConsumeRetarget
  BY <1>6 DEF ConsumeRetarget
<1>7. CASE BookFailure
  BY <1>7 DEF BookFailure
<1>8. CASE Decide
  BY <1>8 DEF Decide
<1>9. CASE SessionEnds
  BY <1>9 DEF SessionEnds
<1>10. CASE Rejected
  BY <1>10 DEF Rejected
<1>11. CASE Held
  BY <1>11 DEF Held
<1>12. CASE ProcessEnds
  BY <1>12 DEF ProcessEnds
<1>13. CASE OpenTab
  <2>1. UNCHANGED <<planned, retarget>>
    BY <1>13 DEF OpenTab
  <2>2. sw'.pc # "close"
    <3>1. CASE ActivateTab
      BY <3>1 DEF ActivateTab
    <3>2. CASE CreateTab
      <4>1. PICK id : sw' = [sw EXCEPT !.pc = "book", !.id = id, !.created = TRUE]
        BY <3>2 DEF CreateTab
      <4> QED  BY <4>1
    <3>3. CASE NavigateInstead
      BY <3>3 DEF NavigateInstead, NoSwitch
    <3> QED  BY <1>13, <3>1, <3>2, <3>3 DEF OpenTab
  <2> QED  BY <2>1, <2>2
<1>14. CASE BookTab
  BY <1>14 DEF BookTab, Retargets
<1>15. CASE CloseTabs
  BY <1>15 DEF CloseTabs, NoSwitch
<1>16. CASE RevealDue
  BY <1>16 DEF RevealDue
<1>17. CASE RevealShows
  BY <1>17 DEF RevealShows
<1>18. CASE \E p \in Pages : ShowPage(p)
  BY <1>18 DEF ShowPage
<1>19. CASE \E i \in DOMAIN preloaders : Preload(i)
  BY <1>19 DEF Preload
<1> QED
  BY NextSteps, <1>1, <1>2, <1>3, <1>4, <1>5, <1>6, <1>7, <1>8, <1>9, <1>10,
     <1>11, <1>12, <1>13, <1>14, <1>15, <1>16, <1>17, <1>18, <1>19

\* Failures are booked for losses only, and every loss is booked once.
LEMMA LossInvKept ==
  ASSUME IInv, Next
  PROVE  LossInv'
<1> USE DEF IInv, LossInv, StateTyped, ActorsTyped, CountsTyped, At, GoTo, GiveUpAt, tabVars, chromeVars, sessionVars, statusVars, heldVars, boundVars
<1>1. CASE Look
  BY <1>1 DEF Look
<1>2. CASE Dial
  BY <1>2 DEF Dial
<1>3. CASE Bind
  BY <1>3 DEF Bind
<1>4. CASE Attach
  BY <1>4 DEF Attach, FailuresForgotten
<1>5. CASE Navigate
  BY <1>5 DEF Navigate
<1>6. CASE ConsumeRetarget
  BY <1>6 DEF ConsumeRetarget, AfterSession
<1>7. CASE BookFailure
  BY <1>7 DEF BookFailure, UpToFive
<1>8. CASE Decide
  BY <1>8 DEF Decide
<1>9. CASE SessionEnds
  BY <1>9 DEF SessionEnds, UpToFive
<1>10. CASE Rejected
  BY <1>10 DEF Rejected
<1>11. CASE Held
  BY <1>11 DEF Held, Gone
<1>12. CASE ProcessEnds
  BY <1>12 DEF ProcessEnds
<1>13. CASE OpenTab
  BY <1>13 DEF OpenTab, ActivateTab, CreateTab, NavigateInstead
<1>14. CASE BookTab
  BY <1>14 DEF BookTab
<1>15. CASE CloseTabs
  BY <1>15 DEF CloseTabs
<1>16. CASE RevealDue
  BY <1>16 DEF RevealDue
<1>17. CASE RevealShows
  BY <1>17 DEF RevealShows
<1>18. CASE \E p \in Pages : ShowPage(p)
  BY <1>18 DEF ShowPage
<1>19. CASE \E i \in DOMAIN preloaders : Preload(i)
  BY <1>19 DEF Preload
<1> QED
  BY NextSteps, <1>1, <1>2, <1>3, <1>4, <1>5, <1>6, <1>7, <1>8, <1>9, <1>10,
     <1>11, <1>12, <1>13, <1>14, <1>15, <1>16, <1>17, <1>18, <1>19

-----------------------------------------------------------------------------
(* The tabs.                                                               *)

Bound == {"enable", "navigate", "serve"}

NewPreloader == [pc |-> "start", todo |-> Preloaded, id |-> 0]

\* What most steps of the monitor do to the bookkeeping of the tabs: nothing; the first
\* navigation of a tab may start a preloader.
Quiet ==
  /\ UNCHANGED <<active, tabs, tabUse, activeTarget, pendingBlank, opened, open, sw>>
  /\ mon'.target = mon.target
  /\ mon'.pc = "bind" => mon.pc = "bind"
  /\ mon'.pc \in Bound => mon.pc \in Bound
  /\ mon'.pc = "navigate" => mon.pc = "navigate" \/ ~navigated
  /\ \/ UNCHANGED <<preloaders, navigated>>
     \/ /\ mon.pc = "navigate" /\ mon'.pc = "serve" /\ navigated'
        /\ preloaders' = preloaders \/ preloaders' = Append(preloaders, NewPreloader)

\* The steps that are not quiet.
LEMMA TabSteps ==
  ASSUME IInv, Next
  PROVE  \/ Quiet \/ Dial \/ Bind \/ OpenTab \/ BookTab \/ CloseTabs
         \/ \E p \in Pages : ShowPage(p)
         \/ \E i \in DOMAIN preloaders : Preload(i)
<1> USE DEF IInv, StateTyped, ActorsTyped, Quiet, Bound, At, GoTo, tabVars, chromeVars, sessionVars
<1>1. CASE Look
  BY <1>1 DEF Look
<1>2. CASE Attach
  BY <1>2 DEF Attach
<1>3. CASE Navigate
  BY <1>3 DEF Navigate, StartPreloader, NewPreloader
<1>4. CASE ConsumeRetarget
  BY <1>4 DEF ConsumeRetarget, AfterSession
<1>5. CASE BookFailure
  BY <1>5 DEF BookFailure
<1>6. CASE Decide
  BY <1>6 DEF Decide
<1>7. CASE SessionEnds
  BY <1>7 DEF SessionEnds
<1>8. CASE Rejected
  BY <1>8 DEF Rejected
<1>9. CASE Held
  BY <1>9 DEF Held
<1>10. CASE ProcessEnds
  BY <1>10 DEF ProcessEnds
<1>11. CASE RevealDue
  BY <1>11 DEF RevealDue
<1>12. CASE RevealShows
  BY <1>12 DEF RevealShows
<1> QED
  BY NextSteps, <1>1, <1>2, <1>3, <1>4, <1>5, <1>6, <1>7, <1>8, <1>9, <1>10, <1>11, <1>12

\* What a switch does to get its tab: it takes the one it has, opens a new one, or gives up.
LEMMA OpenTabMoves ==
  ASSUME IInv, OpenTab
  PROVE  /\ sw.pc = "tab"
         /\ UNCHANGED <<active, tabs, tabUse, activeTarget, pendingBlank, navigated, preloaders>>
         /\ mon' = mon \/ (mon'.pc = "gone" /\ mon'.target = mon.target)
         /\ \/ /\ sw.id \in open /\ sw'.pc = "book" /\ sw'.id = sw.id /\ ~sw'.created
               /\ sw'.page = sw.page /\ sw'.evict = sw.evict
               /\ UNCHANGED <<opened, open>>
            \/ /\ opened < MaxTargets /\ opened' = opened + 1 /\ open' = open \cup {opened + 1}
               /\ sw'.pc = "book" /\ sw'.id = opened + 1 /\ sw'.created
               /\ sw'.page = sw.page /\ sw'.evict = sw.evict
            \/ sw' = NoSwitch /\ UNCHANGED <<opened, open>>
<1> USE DEF IInv, StateTyped, ActorsTyped
<1>1. /\ sw.pc = "tab"
      /\ UNCHANGED <<active, tabs, tabUse, activeTarget, pendingBlank, navigated, preloaders>>
  BY DEF OpenTab, tabVars, sessionVars
<1>2. CASE ActivateTab
  BY <1>1, <1>2 DEF ActivateTab
<1>3. CASE CreateTab
  <2>1. PICK id : id = opened + 1
    OBVIOUS
  <2>2. sw' = [sw EXCEPT !.pc = "book", !.id = id, !.created = TRUE]
    BY <1>3, <2>1 DEF CreateTab
  <2>3. /\ sw'.pc = "book" /\ sw'.id = id /\ sw'.created
        /\ sw'.page = sw.page /\ sw'.evict = sw.evict
    BY <2>2
  <2> QED  BY <1>1, <1>3, <2>1, <2>3 DEF CreateTab
<1>4. CASE NavigateInstead
  BY <1>1, <1>4 DEF NavigateInstead, GoTo
<1> QED  BY <1>2, <1>3, <1>4 DEF OpenTab

\* What a switch books: its own tab, and nothing for the pages that lose theirs, which are
\* neither the page to be shown nor marked "preload".
LEMMA BookTabMoves ==
  ASSUME IInv, BookTab
  PROVE  /\ sw.pc = "book" /\ sw'.pc = "close" /\ sw'.page = sw.page /\ sw'.id = sw.id
         /\ activeTarget' = sw.id
         /\ UNCHANGED <<active, opened, open, mon, preloaders>>
         /\ \E losers \in SUBSET (Pages \ (Preloaded \cup {sw.page})) :
              /\ tabs' = TabsAfter(sw.id, losers)
              /\ tabUse' = Without(Touched(sw.page), losers)
              /\ sw'.evict = {tabs[p] : p \in losers} \ {0, sw.id}
<1> DEFINE losers == Evicted(Touched(sw.page), sw.page)
<1>1. /\ tabs' = TabsAfter(sw.id, losers)
      /\ tabUse' = Without(Touched(sw.page), losers)
      /\ sw' = [sw EXCEPT !.pc = "close", !.control = attached,
                          !.evict = {tabs[p] : p \in losers} \ {0, sw.id}]
  BY DEF BookTab
<1>2. losers \in SUBSET (Pages \ (Preloaded \cup {sw.page}))
  BY DEF Evicted, Evictable
<1> HIDE DEF losers
<1> DEFINE E == {tabs[p] : p \in losers} \ {0, sw.id}
<1>3. sw' = [sw EXCEPT !.pc = "close", !.control = attached, !.evict = E]
  BY <1>1
<1> HIDE DEF E
<1>4. sw'.pc = "close" /\ sw'.page = sw.page /\ sw'.id = sw.id /\ sw'.evict = E
  BY <1>3 DEF IInv, StateTyped, ActorsTyped
<1>5. sw.pc = "book" /\ activeTarget' = sw.id
        /\ UNCHANGED <<active, opened, open, mon, preloaders>>
  BY DEF BookTab, chromeVars
<1> QED  BY <1>1, <1>2, <1>4, <1>5 DEF E

\* The tab that a preloader has opened and not booked yet.
LEMMA HeldTab ==
  ASSUME IInv, NEW i \in DOMAIN preloaders, preloaders[i].pc = "book"
  PROVE  /\ preloaders[i].id \in open /\ preloaders[i].id \in 1 .. opened
         /\ preloaders[i].id # sw.id \/ sw.pc = "idle"
         /\ sw.pc = "close" => preloaders[i].id \notin sw.evict
         /\ \A p \in Pages : tabs[p] # preloaders[i].id
         /\ \A j \in DOMAIN preloaders :
              preloaders[j].pc = "book" /\ preloaders[j].id = preloaders[i].id => j = i
  BY DEF IInv, PreloadInv, Holding, TabInv

\* The number of the next tab is used nowhere.
LEMMA FreshTab ==
  ASSUME IInv
  PROVE  /\ opened \in Nat \ {0} /\ opened + 1 \notin open /\ opened + 1 # sw.id
         /\ opened + 1 \notin sw.evict
         /\ \A p \in Pages : tabs[p] \in Nat /\ tabs[p] <= opened /\ tabs[p] # opened + 1
         /\ \A j \in DOMAIN preloaders :
              preloaders[j].pc = "book" => preloaders[j].id # opened + 1
<1>1. opened \in Nat \ {0} /\ \A p \in Pages : tabs[p] \in Nat
  BY DEF IInv, StateTyped, TabsTyped, Targets
<1>2. /\ open \subseteq 1 .. opened /\ sw.id <= opened
      /\ \A t \in sw.evict : t <= opened
      /\ \A p \in Pages : tabs[p] <= opened
  BY DEF IInv, TabInv, SwitchInv
<1>3. sw.id \in Nat /\ \A t \in sw.evict : t \in Nat
  BY DEF IInv, StateTyped, ActorsTyped, Targets
<1>4. \A j \in DOMAIN preloaders : preloaders[j].pc = "book" => preloaders[j].id \in 1 .. opened
  BY HeldTab
<1>5. opened + 1 \notin open /\ opened + 1 # sw.id /\ opened + 1 \notin sw.evict
  BY <1>1, <1>2, <1>3
<1>6. \A p \in Pages : tabs[p] # opened + 1
  BY <1>1, <1>2
<1>7. \A j \in DOMAIN preloaders : preloaders[j].pc = "book" => preloaders[j].id # opened + 1
  BY <1>1, <1>4
<1> QED  BY <1>1, <1>2, <1>5, <1>6, <1>7

\* A step of a preloader leaves the number of preloaders.
LEMMA PreloadersStay ==
  ASSUME IInv, NEW i \in DOMAIN preloaders, Preload(i)
  PROVE  /\ DOMAIN preloaders' = DOMAIN preloaders
         /\ \A j \in DOMAIN preloaders : j # i => preloaders'[j] = preloaders[j]
<1>1. preloaders \in Seq(Preloader)
  BY DEF IInv, StateTyped, ActorsTyped, Preloader
<1>2. DOMAIN preloaders = 1 .. Len(preloaders)
  BY <1>1, LenProperties
<1>3. DOMAIN preloaders' = 1 .. Len(preloaders')
  BY PreloadMoves, LenProperties
<1> QED  BY <1>2, <1>3, PreloadMoves

\* With one tab more, or none, the open tabs are of those opened.
LEMMA OneTabMore ==
  ASSUME NEW a \in Nat, NEW b, NEW s \in SUBSET (1 .. a), NEW u,
         \/ b = a /\ u = s
         \/ b = a + 1 /\ u = s \cup {a + 1}
  PROVE  b \in Nat /\ a <= b /\ u \subseteq 1 .. b
<1>1. b \in Nat /\ a <= b
  OBVIOUS
<1>2. \A x \in u : x \in s \/ x = b
  OBVIOUS
<1>3. CASE b = a /\ u = s
  BY <1>3
<1>4. CASE b = a + 1
  <2>1. \A x \in s : x \in 1 .. a
    OBVIOUS
  <2>2. \A x \in 1 .. a : x \in 1 .. b
    BY <1>4
  <2>3. b \in 1 .. b
    BY <1>4
  <2> QED  BY <1>1, <1>2, <2>1, <2>2, <2>3
<1> QED  BY <1>3, <1>4

\* Tabs stay below their number, and each is that of one page.
LEMMA TabInvKept ==
  ASSUME IInv, Next
  PROVE  TabInv'
<1>0. /\ opened \in Nat /\ open \subseteq 1 .. opened
      /\ \A p \in Pages : tabs[p] \in Nat /\ tabs[p] <= opened
      /\ \A p, q \in Pages : tabs[p] # 0 /\ tabs[p] = tabs[q] => p = q
      /\ At("bind") => mon.target \in 1 .. opened
  BY DEF IInv, StateTyped, TabsTyped, TabInv, Targets
<1> USE DEF IInv, StateTyped, TabsTyped, ActorsTyped, TabInv, At, Targets, tabVars, chromeVars
<1>1. CASE Quiet
  BY <1>1 DEF Quiet
<1>2. CASE Dial
  BY <1>2 DEF Dial
<1>3. CASE Bind
  BY <1>3 DEF Bind, BoundInv, GoTo
<1>4. CASE OpenTab
  <2> HIDE DEF IInv, StateTyped, TabsTyped, ActorsTyped, TabInv, Targets
  <2>1. tabs' = tabs /\ (At("bind")' => At("bind") /\ mon'.target = mon.target)
    BY <1>4, OpenTabMoves
  <2>2. \/ UNCHANGED <<opened, open>>
        \/ opened' = opened + 1 /\ open' = open \cup {opened + 1}
    BY <1>4, OpenTabMoves
  <2>3. opened' \in Nat /\ opened <= opened' /\ open' \subseteq 1 .. opened'
    BY <1>0, <2>2, OneTabMore
  <2>4. \A p \in Pages : tabs'[p] <= opened'
    BY <1>0, <2>1, <2>3
  <2>5. At("bind")' => mon'.target \in 1 .. opened'
    BY <1>0, <2>1, <2>3
  <2> QED  BY <1>0, <2>1, <2>3, <2>4, <2>5 DEF TabInv
<1>5. CASE BookTab
  <2>1. PICK losers \in SUBSET Pages : tabs' = TabsAfter(sw.id, losers)
    BY <1>5, BookTabMoves
  <2>2. sw.pc = "book" /\ sw.page = active /\ sw.id <= opened /\ sw.id # 0
          /\ \A p \in Pages \ {active} : tabs[p] # sw.id
    BY <1>5, BookTabMoves DEF SwitchInv
  <2>3. \A p \in Pages : tabs'[p] = IF p = active THEN sw.id
                                     ELSE IF p \in losers THEN 0 ELSE tabs[p]
    BY <2>1, <2>2 DEF TabsAfter
  <2>4. UNCHANGED <<opened, open, mon>>
    BY <1>5, BookTabMoves
  <2>5. \A p \in Pages : tabs'[p] <= opened
    BY <2>2, <2>3
  <2>6. \A p, q \in Pages : tabs'[p] # 0 /\ tabs'[p] = tabs'[q] => p = q
    BY <2>2, <2>3
  <2> QED  BY <2>4, <2>5, <2>6
<1>6. CASE CloseTabs
  BY <1>6 DEF CloseTabs
<1>7. CASE \E p \in Pages : ShowPage(p)
  BY <1>7 DEF ShowPage
<1>8. CASE \E i \in DOMAIN preloaders : Preload(i)
  <2>1. PICK i \in DOMAIN preloaders : Preload(i)
    BY <1>8
  <2>2. UNCHANGED <<active, activeTarget, mon, sw>>
    BY <2>1 DEF Preload
  <2>3. CASE UNCHANGED <<opened, open, tabs>>
    BY <2>2, <2>3
  <2>4. CASE /\ opened' = opened + 1 /\ open' = open \cup {opened + 1}
             /\ UNCHANGED tabs
    BY <2>2, <2>4, FreshTab
  <2>5. CASE /\ preloaders[i].pc = "book" /\ UNCHANGED <<opened, open>>
             /\ \E p \in Preloaded : tabs' = [tabs EXCEPT ![p] = preloaders[i].id]
    <3>1. /\ preloaders[i].id \in 1 .. opened
          /\ \A p \in Pages : tabs[p] # preloaders[i].id
      BY <2>1, <2>5, HeldTab
    <3>2. PICK p \in Preloaded : tabs' = [tabs EXCEPT ![p] = preloaders[i].id]
      BY <2>5
    <3>3. \A q \in Pages : tabs'[q] = IF q = p THEN preloaders[i].id ELSE tabs[q]
      BY <3>2
    <3> HIDE DEF IInv, StateTyped, TabsTyped, ActorsTyped
    <3>4. \A q \in Pages : tabs'[q] <= opened
      BY <3>1, <3>3, FreshTab
    <3>5. \A q, r \in Pages : tabs'[q] # 0 /\ tabs'[q] = tabs'[r] => q = r
      BY <3>1, <3>3 DEF IInv
    <3> QED  BY <2>2, <2>5, <3>4, <3>5 DEF IInv
  <2> QED  BY <2>1, <2>3, <2>4, <2>5, PreloadMoves
<1> QED  BY TabSteps, <1>1, <1>2, <1>3, <1>4, <1>5, <1>6, <1>7, <1>8

\* Nothing is recorded before there is an active tab.
LEMMA BoundInvKept ==
  ASSUME IInv, Next
  PROVE  BoundInv'
<1> USE DEF IInv, StateTyped, TabsTyped, ActorsTyped, BoundInv, TabInv, At, Targets, Bound, tabVars, chromeVars
<1>1. CASE Quiet
  BY <1>1 DEF Quiet
<1>2. CASE Dial
  BY <1>2 DEF Dial
<1>3. CASE Bind
  BY <1>3 DEF Bind, GoTo
<1>4. CASE OpenTab
  BY <1>4, OpenTabMoves DEF NoSwitch
<1>5. CASE BookTab
  BY <1>5, BookTabMoves DEF SwitchInv
<1>6. CASE CloseTabs
  BY <1>6 DEF CloseTabs, NoSwitch
<1>7. CASE \E p \in Pages : ShowPage(p)
  BY <1>7 DEF ShowPage
<1>8. CASE \E i \in DOMAIN preloaders : Preload(i)
  BY <1>8 DEF Preload
<1> QED  BY TabSteps, <1>1, <1>2, <1>3, <1>4, <1>5, <1>6, <1>7, <1>8

\* A switch keeps to a tab of its own, and closes tabs that are kept for no page.
LEMMA SwitchInvKept ==
  ASSUME IInv, Next
  PROVE  SwitchInv'
<1> USE DEF IInv, StateTyped, TabsTyped, ActorsTyped, SwitchInv, TabInv, Targets, tabVars, chromeVars
<1>1. CASE Quiet
  BY <1>1 DEF Quiet
<1>2. CASE Dial
  BY <1>2 DEF Dial
<1>3. CASE Bind
  BY <1>3 DEF Bind, BoundInv, At
<1>4. CASE OpenTab
  <2>1. /\ UNCHANGED <<active, tabs>> /\ sw.pc = "tab" /\ sw.page = active
        /\ \A t \in sw.evict : t \in Nat /\ t <= opened
        /\ opened \in Nat /\ sw.id \in Nat
    BY <1>4, OpenTabMoves
  <2>2. CASE /\ sw.id \in open /\ sw'.pc = "book" /\ sw'.id = sw.id
             /\ sw'.page = sw.page /\ sw'.evict = sw.evict
             /\ UNCHANGED <<opened, open>>
    BY <2>1, <2>2
  <2>3. CASE /\ opened' = opened + 1 /\ open' = open \cup {opened + 1}
             /\ sw'.pc = "book" /\ sw'.id = opened + 1
             /\ sw'.page = sw.page /\ sw'.evict = sw.evict
    <3>1. \A p \in Pages : tabs[p] # opened + 1
      BY <2>1
    <3> QED  BY <2>1, <2>3, <3>1
  <2>4. CASE sw' = NoSwitch /\ UNCHANGED <<opened, open>>
    BY <2>1, <2>4 DEF NoSwitch
  <2> QED  BY <1>4, <2>2, <2>3, <2>4, OpenTabMoves
<1>5. CASE BookTab
  BY <1>5, BookTabMoves DEF TabsAfter
<1>6. CASE CloseTabs
  BY <1>6 DEF CloseTabs, NoSwitch
<1>7. CASE \E p \in Pages : ShowPage(p)
  BY <1>7 DEF ShowPage
<1>8. CASE \E i \in DOMAIN preloaders : Preload(i)
  <2>1. PICK i \in DOMAIN preloaders : Preload(i)
    BY <1>8
  <2>2. UNCHANGED <<active, activeTarget, mon, sw>>
    BY <2>1 DEF Preload
  <2>3. CASE UNCHANGED <<opened, open, tabs>>
    BY <2>2, <2>3
  <2>4. CASE /\ opened' = opened + 1 /\ open' = open \cup {opened + 1}
             /\ UNCHANGED tabs
    BY <2>2, <2>4
  <2>5. CASE /\ preloaders[i].pc = "book" /\ UNCHANGED <<opened, open>>
             /\ \E p \in Preloaded : tabs' = [tabs EXCEPT ![p] = preloaders[i].id]
    BY <2>1, <2>2, <2>5, HeldTab, FreshTab
  <2> QED  BY <2>1, <2>3, <2>4, <2>5, PreloadMoves
<1> QED  BY TabSteps, <1>1, <1>2, <1>3, <1>4, <1>5, <1>6, <1>7, <1>8

\* The tab that a preloader has opened is known to it alone until it is booked.
LEMMA PreloadInvKept ==
  ASSUME IInv, Next
  PROVE  PreloadInv'
<1> USE DEF IInv, StateTyped, TabsTyped, ActorsTyped, PreloadInv, Holding, TabInv, Targets, tabVars, chromeVars
<1>1. CASE Quiet
  <2>1. CASE preloaders' = preloaders
    BY <1>1, <2>1 DEF Quiet
  <2>2. CASE preloaders' = Append(preloaders, NewPreloader)
    <3>1. preloaders \in Seq(Preloader) /\ NewPreloader \in Preloader
      BY DEF Preloader, NewPreloader
    <3>2. /\ DOMAIN preloaders' = 1 .. Len(preloaders) + 1 /\ DOMAIN preloaders = 1 .. Len(preloaders)
          /\ Len(preloaders) \in Nat
          /\ \A i \in 1 .. Len(preloaders) : preloaders'[i] = preloaders[i]
          /\ preloaders'[Len(preloaders) + 1] = NewPreloader
      BY <2>2, <3>1, AppendProperties, LenProperties
    <3>3. \A i \in DOMAIN preloaders' : Holding(i)' =>
            i \in DOMAIN preloaders /\ preloaders'[i] = preloaders[i]
      BY <3>2 DEF NewPreloader
    <3> QED  BY <1>1, <3>3 DEF Quiet
  <2> QED  BY <1>1, <2>1, <2>2 DEF Quiet
<1>2. CASE Dial
  BY <1>2 DEF Dial
<1>3. CASE Bind
  BY <1>3 DEF Bind, BoundInv
<1>4. CASE OpenTab
  BY <1>4, OpenTabMoves DEF NoSwitch
<1>5. CASE BookTab
  BY <1>5, BookTabMoves DEF TabsAfter, SwitchInv
<1>6. CASE CloseTabs
  BY <1>6 DEF CloseTabs, NoSwitch
<1>7. CASE \E p \in Pages : ShowPage(p)
  BY <1>7 DEF ShowPage
<1>8. CASE \E i \in DOMAIN preloaders : Preload(i)
  <2>1. PICK i \in DOMAIN preloaders : Preload(i)
    BY <1>8
  <2>2. UNCHANGED <<active, activeTarget, mon, sw>>
    BY <2>1 DEF Preload
  <2>3. /\ DOMAIN preloaders' = DOMAIN preloaders
        /\ \A j \in DOMAIN preloaders : j # i => preloaders'[j] = preloaders[j]
    BY <2>1, PreloadersStay
  <2>4. CASE preloaders'[i].pc # "book" /\ UNCHANGED <<open, tabs>>
    BY <2>2, <2>3, <2>4
  <2>5. CASE /\ opened' = opened + 1 /\ open' = open \cup {opened + 1}
             /\ preloaders'[i].pc = "book" /\ preloaders'[i].id = opened + 1
             /\ UNCHANGED tabs
    <3> HIDE DEF IInv, StateTyped, TabsTyped, ActorsTyped
    <3>1. \A j \in DOMAIN preloaders' :
            /\ j # i => preloaders'[j] = preloaders[j]
            /\ j = i => preloaders'[j].pc = "book" /\ preloaders'[j].id = opened + 1
      BY <2>3, <2>5
    <3>2. /\ \A j \in DOMAIN preloaders : Holding(j) => preloaders[j].id # opened + 1
          /\ \A p \in Pages : tabs[p] # opened + 1
          /\ sw.id # opened + 1 /\ opened + 1 \notin sw.evict
      BY FreshTab
    <3>3. \A j \in DOMAIN preloaders' : Holding(j)' =>
            /\ preloaders'[j].id \in open' /\ (preloaders'[j].id # sw.id \/ sw.pc = "idle")
            /\ (sw.pc = "close" => preloaders'[j].id \notin sw.evict)
            /\ \A p \in Pages : tabs[p] # preloaders'[j].id
      BY <2>3, <2>5, <3>1, <3>2 DEF IInv
    <3>4. \A j, k \in DOMAIN preloaders' :
            Holding(j)' /\ Holding(k)' /\ preloaders'[j].id = preloaders'[k].id => j = k
      BY <2>3, <3>1, <3>2 DEF IInv
    <3> QED  BY <2>2, <2>5, <3>3, <3>4
  <2>6. CASE /\ preloaders[i].pc = "book" /\ preloaders'[i].pc # "book" /\ UNCHANGED open
             /\ \E p \in Preloaded : tabs' = [tabs EXCEPT ![p] = preloaders[i].id]
    <3> HIDE DEF IInv, StateTyped, TabsTyped, ActorsTyped
    <3>1. PICK p \in Preloaded : tabs' = [tabs EXCEPT ![p] = preloaders[i].id]
      BY <2>6
    <3>2. \A q \in Pages : tabs'[q] = preloaders[i].id \/ tabs'[q] = tabs[q]
      BY <3>1 DEF IInv, StateTyped, TabsTyped
    <3>3. \A j \in DOMAIN preloaders' : Holding(j)' => j # i /\ preloaders'[j] = preloaders[j]
      BY <2>3, <2>6
    <3>4. \A j \in DOMAIN preloaders : Holding(j) /\ preloaders[j].id = preloaders[i].id => j = i
      BY <2>1, <2>6, HeldTab
    <3> QED  BY <2>2, <2>3, <2>6, <3>2, <3>3, <3>4 DEF IInv
  <2> QED  BY <2>1, <2>4, <2>5, <2>6, PreloadMoves
<1> QED  BY TabSteps, <1>1, <1>2, <1>3, <1>4, <1>5, <1>6, <1>7, <1>8

-----------------------------------------------------------------------------
(* Lists without some of their entries.                                    *)

\* Going up through the places, the rank grows by one at each of those in K.
LEMMA RankGrows ==
  ASSUME NEW n \in Nat, NEW K \in SUBSET (1 .. n)
  PROVE  /\ IsFiniteSet(K) /\ Cardinality(K) \in Nat /\ Cardinality(K) <= n
         /\ Rank(K, 0) = 0 /\ Rank(K, n) = Cardinality(K)
         /\ \A i \in 0 .. n : Rank(K, i) \in Nat
         /\ \A i \in 1 .. n : Rank(K, i) = Rank(K, i - 1) + One(i \in K)
<1>0. \A j \in K : j \in Int /\ 1 <= j /\ j <= n
  OBVIOUS
<1>1. IsFiniteSet(1 .. n) /\ Cardinality(1 .. n) = n
  BY FS_Interval
<1>2. IsFiniteSet(K) /\ Cardinality(K) \in Nat /\ Cardinality(K) <= n
  BY <1>1, FS_Subset, FS_CardinalityType
<1>3. Rank(K, 0) = 0
  <2>0. \A j \in K : ~(j <= 0)
    BY <1>0
  <2>1. {j \in K : j <= 0} = {}
    BY <2>0
  <2> QED  BY <2>1, FS_EmptySet DEF Rank
<1>4. Rank(K, n) = Cardinality(K)
  <2>1. {j \in K : j <= n} = K
    BY <1>0
  <2> QED  BY <2>1 DEF Rank
<1>5. \A i : IsFiniteSet({j \in K : j <= i})
  BY <1>2, FS_Subset
<1>6. \A i : Rank(K, i) \in Nat
  BY <1>5, FS_CardinalityType DEF Rank
<1>7. ASSUME NEW i \in 1 .. n
      PROVE  Rank(K, i) = Rank(K, i - 1) + One(i \in K)
  <2> DEFINE below == {j \in K : j <= i - 1}
  <2>1. i \notin below /\ IsFiniteSet(below)
    <3>1. ~(i <= i - 1)
      OBVIOUS
    <3> QED  BY <1>5, <3>1
  <2>2. {j \in K : j <= i} = IF i \in K THEN below \cup {i} ELSE below
    <3>1. \A j \in K : j <= i <=> j <= i - 1 \/ j = i
      BY <1>0
    <3>2. i <= i
      OBVIOUS
    <3> QED  BY <3>1, <3>2
  <2>3. Cardinality(below \cup {i}) = Cardinality(below) + 1
    <3> HIDE DEF below
    <3> QED  BY <2>1, FS_AddElement
  <2>4. Cardinality(below) = Rank(K, i - 1)
    BY DEF Rank
  <2>5. Rank(K, i - 1) \in Nat
    BY <1>6
  <2> HIDE DEF below
  <2> QED  BY <2>2, <2>3, <2>4, <2>5 DEF Rank, One
<1> QED  BY <1>2, <1>3, <1>4, <1>6, <1>7

\* Every rank is that of one place only.
LEMMA RankOfOne ==
  ASSUME NEW n \in Nat, NEW K \in SUBSET (1 .. n), NEW i \in K, NEW j \in K,
         Rank(K, i) = Rank(K, j)
  PROVE  i = j
<1>1. ASSUME NEW a \in K, NEW b \in K, a < b PROVE Rank(K, a) # Rank(K, b)
  <2> DEFINE A == {x \in K : x <= a}
  <2> DEFINE B == {x \in K : x <= b}
  <2>1. IsFiniteSet(B)
    BY RankGrows, FS_Subset
  <2>0. \A x \in K : x \in Int
    OBVIOUS
  <2>2. A \in SUBSET B /\ b \in B /\ b \notin A
    <3>1. \A x \in K : x <= a => x <= b
      BY <1>1, <2>0
    <3>2. b <= b /\ ~(b <= a)
      BY <1>1, <2>0
    <3> QED  BY <3>1, <3>2
  <2>3. Cardinality(B) # Cardinality(A)
    <3> HIDE DEF A, B
    <3> QED  BY <2>1, <2>2, FS_Subset
  <2> QED  BY <2>3 DEF Rank
<1>2. i \in Int /\ j \in Int
  OBVIOUS
<1> QED  BY <1>1, <1>2

\* And the rank of a place in K is at least 1, and at most their number.
LEMMA RankInRange ==
  ASSUME NEW n \in Nat, NEW K \in SUBSET (1 .. n), NEW i \in K
  PROVE  Rank(K, i) \in 1 .. Cardinality(K)
<1> DEFINE A == {j \in K : j <= i}
<1>1. IsFiniteSet(K) /\ Cardinality(K) \in Nat
  BY RankGrows
<1>2. A \in SUBSET K /\ A # {}
  OBVIOUS
<1>3. Cardinality(A) \in Nat /\ Cardinality(A) <= Cardinality(K) /\ Cardinality(A) # 0
  <2> HIDE DEF A
  <2> QED  BY <1>1, <1>2, FS_Subset, FS_CardinalityType, FS_EmptySet
<1> QED  BY <1>1, <1>3 DEF Rank

\* Every rank up to the number of places is that of some place: the first with as many at
\* or below it.
LEMMA RankOfSome ==
  ASSUME NEW n \in Nat, NEW K \in SUBSET (1 .. n), NEW k \in 1 .. Cardinality(K)
  PROVE  \E i \in K : Rank(K, i) = k
<1> DEFINE reached == {i \in 0 .. n : Rank(K, i) >= k}
<1>1. /\ Cardinality(K) \in Nat /\ Rank(K, 0) = 0 /\ Rank(K, n) = Cardinality(K)
      /\ \A i \in 0 .. n : Rank(K, i) \in Nat
      /\ \A i \in 1 .. n : Rank(K, i) = Rank(K, i - 1) + One(i \in K)
  BY RankGrows
<1>2. reached \in SUBSET Nat /\ n \in reached
  BY <1>1
<1>3. PICK i \in reached : \A y \in reached : <<y, i>> \notin OpToRel(<, Nat)
  <2> HIDE DEF reached
  <2> QED  BY <1>2, WFMin, NatLessThanWellFounded, Zenon
<1>4. i \in 0 .. n /\ Rank(K, i) >= k
  OBVIOUS
<1>5. \A y \in reached : ~(y < i)
  BY <1>2, <1>3 DEF OpToRel
<1>6. i # 0 /\ k \in Nat
  BY <1>1, <1>4
<1>7. i - 1 \in 0 .. n /\ i \in 1 .. n
  BY <1>4, <1>6
<1>8. ~(Rank(K, i - 1) >= k)
  BY <1>5, <1>7
<1>9. Rank(K, i) = Rank(K, i - 1) + One(i \in K) /\ Rank(K, i - 1) \in Nat
  BY <1>1, <1>7
<1>10. i \in K /\ Rank(K, i) = k
  BY <1>4, <1>6, <1>8, <1>9 DEF One
<1> QED  BY <1>10

Listed(s) == {s[i] : i \in 1 .. Len(s)}

\* What Without leaves of a list: the entries not in S, each as often as it was there.
LEMMA WithoutList ==
  ASSUME NEW T, NEW s \in Seq(T), NEW S
  PROVE  /\ Without(s, S) \in Seq(T) /\ Len(Without(s, S)) <= Len(s)
         /\ Listed(Without(s, S)) = Listed(s) \ S
         /\ \A k, l \in 1 .. Len(Without(s, S)) :
              k # l => \E i, j \in 1 .. Len(s) : /\ i # j
                                                 /\ s[i] = Without(s, S)[k]
                                                 /\ s[j] = Without(s, S)[l]
         /\ (\E i \in 1 .. Len(s) : s[i] \in S) => Len(Without(s, S)) < Len(s)
<1> DEFINE n == Len(s)
<1> DEFINE K == {i \in 1 .. n : s[i] \notin S}
<1> DEFINE m == Cardinality(K)
<1> DEFINE place(k) == CHOOSE i \in K : Rank(K, i) = k
<1> DEFINE t == [k \in 1 .. m |-> s[place(k)]]
<1>1. n \in Nat /\ s \in [1 .. n -> T]
  BY LenProperties
<1>2. K \in SUBSET (1 .. n)
  OBVIOUS
<1>3. Without(s, S) = t
  BY DEF Without
<1>4. IsFiniteSet(K) /\ m \in Nat /\ m <= n
  <2> HIDE DEF K
  <2> QED  BY <1>1, <1>2, RankGrows
<1>5. \A k \in 1 .. m : place(k) \in K /\ Rank(K, place(k)) = k
  <2> HIDE DEF K
  <2> TAKE k \in 1 .. m
  <2>1. \E i \in K : Rank(K, i) = k
    BY <1>1, <1>2, RankOfSome
  <2> QED  BY <2>1
<1>6. t \in [1 .. m -> T] /\ \A k \in 1 .. m : t[k] = s[place(k)]
  <2> HIDE DEF place
  <2>1. \A k \in 1 .. m : s[place(k)] \in T
    BY <1>1, <1>5
  <2> QED  BY <2>1
<1>7. t \in Seq(T) /\ Len(t) = m
  <2> HIDE DEF t, m
  <2> QED  BY <1>4, <1>6
<1>8. {t[k] : k \in 1 .. m} = {s[i] : i \in 1 .. n} \ S
  <2>1. ASSUME NEW k \in 1 .. m PROVE t[k] \in {s[i] : i \in 1 .. n} \ S
    <3> HIDE DEF t, place, m
    <3> QED  BY <1>5, <1>6
  <2>2. ASSUME NEW i \in 1 .. n, s[i] \notin S PROVE \E k \in 1 .. m : t[k] = s[i]
    <3>1. i \in K
      BY <2>2
    <3> HIDE DEF K, place, t, m
    <3>2. Rank(K, i) \in 1 .. m
      BY <1>1, <1>2, <3>1, RankInRange DEF m
    <3>3. place(Rank(K, i)) = i
      BY <1>1, <1>2, <1>5, <3>1, <3>2, RankOfOne
    <3> QED  BY <1>6, <3>2, <3>3
  <2> HIDE DEF t, m, n
  <2> QED  BY <2>1, <2>2
<1>9. ASSUME NEW k \in 1 .. m, NEW l \in 1 .. m, k # l
      PROVE  \E i, j \in 1 .. n : i # j /\ s[i] = t[k] /\ s[j] = t[l]
  <2>1. place(k) # place(l) /\ place(k) \in 1 .. n /\ place(l) \in 1 .. n
    <3> HIDE DEF place, m
    <3> QED  BY <1>2, <1>5, <1>9
  <2> HIDE DEF place, t, m
  <2> QED  BY <1>6, <2>1
<1>10. ASSUME NEW i \in 1 .. n, s[i] \in S PROVE m < n
  <2>1. K \in SUBSET (1 .. n) /\ K # 1 .. n
    BY <1>10
  <2>2. IsFiniteSet(1 .. n) /\ Cardinality(1 .. n) = n
    BY <1>1, FS_Interval
  <2>3. Cardinality(K) # n
    <3> HIDE DEF K
    <3> QED  BY <2>1, <2>2, FS_Subset
  <2> QED  BY <1>1, <1>4, <2>3
<1> HIDE DEF K, m, place, t
<1>11. Listed(t) = Listed(s) \ S
  BY <1>7, <1>8 DEF Listed
<1> QED  BY <1>3, <1>4, <1>7, <1>9, <1>10, <1>11

-----------------------------------------------------------------------------
(* The list of tabs.                                                       *)

Once(s) == \A i, j \in 1 .. Len(s) : s[i] = s[j] => i = j \/ s[i] \in Preloaded

\* A shorter list names pages no more often than the longer one.
LEMMA WithoutOnce ==
  ASSUME NEW s \in Seq(Pages), NEW S, Once(s)
  PROVE  Once(Without(s, S))
<1> DEFINE t == Without(s, S)
<1>1. \A k, l \in 1 .. Len(t) :
        k # l => \E i, j \in 1 .. Len(s) : i # j /\ s[i] = t[k] /\ s[j] = t[l]
  BY WithoutList
<1> HIDE DEF t
<1>2. ASSUME NEW k \in 1 .. Len(t), NEW l \in 1 .. Len(t), t[k] = t[l], k # l
      PROVE  t[k] \in Preloaded
  <2>1. PICK i, j \in 1 .. Len(s) : i # j /\ s[i] = t[k] /\ s[j] = t[l]
    BY <1>1, <1>2
  <2> QED  BY <1>2, <2>1 DEF Once
<1> QED  BY <1>2 DEF Once, t

\* touchTabLocked: the page is named once, at the end; a page that was named makes the list
\* no longer.
LEMMA TouchedList ==
  ASSUME tabUse \in Seq(Pages), NEW p \in Pages
  PROVE  /\ Touched(p) \in Seq(Pages) /\ Listed(Touched(p)) = Listed(tabUse) \cup {p}
         /\ Once(tabUse) => Once(Touched(p))
         /\ Len(Touched(p)) <= Len(tabUse) + 1
         /\ p \in Listed(tabUse) => Len(Touched(p)) <= Len(tabUse)
<1> DEFINE t == Without(tabUse, {p})
<1>1. t \in Seq(Pages) /\ Len(t) <= Len(tabUse) /\ Listed(t) = Listed(tabUse) \ {p}
  <2>1. t \in Seq(Pages) /\ Len(t) <= Len(tabUse)
    BY WithoutList, Zenon
  <2>2. Listed(t) = Listed(tabUse) \ {p}
    BY WithoutList, Zenon
  <2> QED  BY <2>1, <2>2
<1>2. ASSUME p \in Listed(tabUse) PROVE Len(t) < Len(tabUse)
  <2>1. \E i \in 1 .. Len(tabUse) : tabUse[i] \in {p}
    BY <1>2 DEF Listed
  <2> QED  BY <2>1, WithoutList
<1>3. Once(tabUse) => Once(t)
  BY WithoutOnce
<1>4. Touched(p) = Append(t, p)
  BY DEF Touched
<1>5. Len(t) \in Nat /\ Len(tabUse) \in Nat
  BY <1>1, LenProperties
<1> HIDE DEF t
<1>6. /\ Touched(p) \in Seq(Pages) /\ Len(Touched(p)) = Len(t) + 1
      /\ \A i \in 1 .. Len(t) : Touched(p)[i] = t[i]
      /\ Touched(p)[Len(t) + 1] = p
  BY <1>1, <1>4, AppendProperties
<1>7. Listed(Touched(p)) = Listed(t) \cup {p}
  <2>1. \A i \in 1 .. Len(t) + 1 : i \in 1 .. Len(t) \/ i = Len(t) + 1
    BY <1>5
  <2>2. \A i \in 1 .. Len(t) : i \in 1 .. Len(t) + 1
    BY <1>5
  <2>3. Len(t) + 1 \in 1 .. Len(t) + 1
    BY <1>5
  <2> QED  BY <1>6, <2>1, <2>2, <2>3 DEF Listed
<1>8. ASSUME Once(tabUse) PROVE Once(Touched(p))
  <2>1. \A i \in 1 .. Len(t) : t[i] # p
    BY <1>1 DEF Listed
  <2>2. \A i \in 1 .. Len(t) + 1 : i \in 1 .. Len(t) \/ i = Len(t) + 1
    BY <1>5
  <2> QED  BY <1>3, <1>6, <1>8, <2>1, <2>2 DEF Once
<1> QED  BY <1>1, <1>2, <1>5, <1>6, <1>7, <1>8

\* A page put in front is named once more.
LEMMA PutInFront ==
  ASSUME NEW s \in Seq(Pages), NEW p \in Preloaded, Once(s)
  PROVE  LET t == <<p>> \o s
         IN  /\ t \in Seq(Pages) /\ Len(t) = Len(s) + 1
             /\ Listed(t) = Listed(s) \cup {p} /\ Once(t)
<1> DEFINE t == <<p>> \o s
<1>1. p \in Pages /\ <<p>> \in Seq(Pages) /\ Len(<<p>>) = 1 /\ <<p>>[1] = p
  BY PagesAssumption DEF Pages
<1>2. Len(s) \in Nat
  BY LenProperties
<1>3. /\ t \in Seq(Pages) /\ Len(t) = 1 + Len(s)
      /\ \A i \in 1 .. 1 + Len(s) : t[i] = IF i <= 1 THEN p ELSE s[i - 1]
  <2>1. /\ t \in Seq(Pages) /\ Len(t) = Len(<<p>>) + Len(s)
        /\ \A i \in 1 .. Len(<<p>>) + Len(s) :
             t[i] = IF i <= Len(<<p>>) THEN <<p>>[i] ELSE s[i - Len(<<p>>)]
    BY <1>1, ConcatProperties
  <2>2. \A i \in 1 .. 1 + Len(s) : i <= 1 => i = 1
    BY <1>2
  <2> HIDE DEF t
  <2> QED  BY <1>1, <2>1, <2>2
<1> HIDE DEF t
<1>4. t[1] = p /\ \A i \in 1 .. Len(s) : i + 1 \in 1 .. 1 + Len(s) /\ t[i + 1] = s[i]
  BY <1>2, <1>3
<1>5. \A i \in 1 .. 1 + Len(s) : i = 1 \/ (i - 1 \in 1 .. Len(s) /\ t[i] = s[i - 1])
  BY <1>2, <1>3
<1>6. Listed(t) = Listed(s) \cup {p}
  <2>1. 1 \in 1 .. 1 + Len(s)
    BY <1>2
  <2> QED  BY <1>3, <1>4, <1>5, <2>1 DEF Listed
<1>7. Once(t)
  <2>1. ASSUME NEW i \in 1 .. 1 + Len(s), NEW j \in 1 .. 1 + Len(s), t[i] = t[j]
        PROVE  i = j \/ t[i] \in Preloaded
    <3>1. CASE i = 1 \/ j = 1
      BY <1>4, <2>1, <3>1
    <3>2. CASE i # 1 /\ j # 1
      <4>1. i - 1 \in 1 .. Len(s) /\ j - 1 \in 1 .. Len(s)
              /\ t[i] = s[i - 1] /\ t[j] = s[j - 1]
        BY <1>5, <3>2
      <4>2. i - 1 = j - 1 \/ s[i - 1] \in Preloaded
        BY <2>1, <4>1 DEF Once
      <4> QED  BY <4>1, <4>2
    <3> QED  BY <3>1, <3>2
  <2> QED  BY <1>3, <2>1 DEF Once
<1> QED  BY <1>2, <1>3, <1>6, <1>7 DEF t

\* UseInv in terms of Listed and Once.
LEMMA UseInvMeans ==
  UseInv <=> tabUse \in Seq(Pages) /\ {p \in Pages : tabs[p] # 0} = Listed(tabUse) /\ Once(tabUse)
  BY DEF UseInv, Listed, Once

\* The list goes with the tabs: a page is named when it gets a tab, and no more when it has
\* lost it.
LEMMA UseInvKept ==
  ASSUME IInv, Next
  PROVE  UseInv'
<1>0. /\ tabUse \in Seq(Pages) /\ {p \in Pages : tabs[p] # 0} = Listed(tabUse) /\ Once(tabUse)
      /\ tabs \in [Pages -> Targets \cup {0}] /\ active \in Pages
  BY UseInvMeans DEF IInv, StateTyped, TabsTyped
<1> SUFFICES /\ tabUse' \in Seq(Pages) /\ {p \in Pages : tabs'[p] # 0} = Listed(tabUse')
             /\ Once(tabUse')
  BY DEF UseInv, Listed, Once
<1>1. CASE UNCHANGED <<tabs, tabUse>>
  BY <1>0, <1>1
<1>2. CASE Bind
  <2>1. CASE tabs' = [tabs EXCEPT ![active] = mon.target] /\ tabUse' = Touched(active)
    <3>1. mon.target # 0
      BY <1>2 DEF Bind, IInv, TabInv
    <3>2. {p \in Pages : tabs'[p] # 0} = {p \in Pages : tabs[p] # 0} \cup {active}
      BY <1>0, <2>1, <3>1
    <3> QED  BY <1>0, <2>1, <3>2, TouchedList
  <2> QED  BY <1>1, <1>2, <2>1 DEF Bind
<1>3. CASE BookTab
  <2>1. PICK losers \in SUBSET (Pages \ (Preloaded \cup {sw.page})) :
          /\ tabs' = TabsAfter(sw.id, losers)
          /\ tabUse' = Without(Touched(sw.page), losers)
    BY <1>3, BookTabMoves
  <2>2. sw.page \in Pages /\ sw.id # 0
    <3>1. sw.pc = "book" /\ sw.page \in Pages
      BY <1>3, BookTabMoves DEF IInv, StateTyped, ActorsTyped
    <3>2. sw.id \in 1 .. opened
      BY <3>1 DEF IInv, SwitchInv, TabInv
    <3> QED  BY <3>1, <3>2
  <2>3. /\ Touched(sw.page) \in Seq(Pages) /\ Once(Touched(sw.page))
        /\ Listed(Touched(sw.page)) = Listed(tabUse) \cup {sw.page}
    BY <1>0, <2>2, TouchedList
  <2>4. /\ tabUse' \in Seq(Pages) /\ Once(tabUse')
        /\ Listed(tabUse') = Listed(Touched(sw.page)) \ losers
    BY <2>1, <2>3, WithoutList, WithoutOnce DEF Listed
  <2>5. {p \in Pages : tabs'[p] # 0}
          = ({p \in Pages : tabs[p] # 0} \cup {sw.page}) \ losers
    BY <2>1, <2>2 DEF TabsAfter
  <2> QED  BY <1>0, <2>3, <2>4, <2>5
<1>4. CASE \E i \in DOMAIN preloaders : Preload(i)
  <2>1. PICK i \in DOMAIN preloaders : Preload(i)
    BY <1>4
  <2>2. CASE /\ preloaders[i].pc = "book"
             /\ \E p \in Preloaded : /\ tabs' = [tabs EXCEPT ![p] = preloaders[i].id]
                                     /\ tabUse' = <<p>> \o tabUse
    <3>1. PICK p \in Preloaded : /\ tabs' = [tabs EXCEPT ![p] = preloaders[i].id]
                                 /\ tabUse' = <<p>> \o tabUse
      BY <2>2
    <3>2. preloaders[i].id # 0 /\ p \in Pages
      BY <2>1, <2>2, HeldTab, PagesAssumption DEF Pages
    <3>3. {q \in Pages : tabs'[q] # 0} = {q \in Pages : tabs[q] # 0} \cup {p}
      BY <1>0, <3>1, <3>2
    <3>4. /\ tabUse' \in Seq(Pages) /\ Listed(tabUse') = Listed(tabUse) \cup {p}
          /\ Once(tabUse')
      BY <1>0, <3>1, PutInFront
    <3> QED  BY <1>0, <3>3, <3>4
  <2> QED  BY <1>1, <2>1, <2>2, PreloadMoves
<1>5. CASE Quiet \/ Dial \/ OpenTab \/ CloseTabs \/ \E p \in Pages : ShowPage(p)
  <2>1. UNCHANGED <<tabs, tabUse>>
    BY <1>5, OpenTabMoves DEF Quiet, Dial, CloseTabs, ShowPage, tabVars
  <2> QED  BY <1>1, <2>1
<1> QED  BY TabSteps, <1>2, <1>3, <1>4, <1>5

\* No tab is closed that is kept or controlled.
LEMMA OpenInvKept ==
  ASSUME IInv, Next
  PROVE  OpenInv'
<1>0. /\ tabs \in [Pages -> Targets \cup {0}] /\ active \in Pages
      /\ \A p \in Pages : tabs[p] # 0 => tabs[p] \in open
      /\ activeTarget # 0 => activeTarget \in open
      /\ mon.pc = "bind" /\ activeTarget = 0 => mon.target \in open
      /\ sw.pc = "close" => activeTarget = sw.id /\ sw.id \notin sw.evict
  BY DEF IInv, OpenInv, StateTyped, TabsTyped, At
<1> USE DEF OpenInv, At
<1>1. CASE Quiet
  BY <1>0, <1>1 DEF Quiet
<1>2. CASE Dial
  BY <1>0, <1>2 DEF Dial, tabVars, chromeVars, IInv, StateTyped, ActorsTyped
<1>3. CASE Bind
  <2>1. /\ mon.pc = "bind" /\ mon'.pc = "enable" /\ UNCHANGED <<open, sw>>
        /\ IF activeTarget # 0
           THEN UNCHANGED <<activeTarget, tabs>>
           ELSE /\ activeTarget' = mon.target
                /\ \/ UNCHANGED tabs
                   \/ tabs' = [tabs EXCEPT ![active] = mon.target]
    BY <1>3 DEF Bind, GoTo, chromeVars, IInv, StateTyped, ActorsTyped
  <2>2. activeTarget = 0 => sw.pc # "close"
    BY DEF IInv, BoundInv
  <2>3. ASSUME NEW p \in Pages, tabs'[p] # 0 PROVE tabs'[p] \in open
    BY <1>0, <2>1, <2>3
  <2> QED  BY <1>0, <2>1, <2>2, <2>3
<1>4. CASE OpenTab
  BY <1>0, <1>4, OpenTabMoves DEF NoSwitch
<1>5. CASE BookTab
  <2>1. PICK losers : /\ tabs' = TabsAfter(sw.id, losers)
                      /\ sw'.evict = {tabs[p] : p \in losers} \ {0, sw.id}
    BY <1>5, BookTabMoves
  <2>2. /\ sw'.pc = "close" /\ sw'.id = sw.id /\ activeTarget' = sw.id
        /\ UNCHANGED <<open, mon>> /\ sw.id \in open /\ sw.id # 0
    BY <1>5, BookTabMoves DEF IInv, SwitchInv, TabInv
  <2> QED  BY <1>0, <2>1, <2>2 DEF TabsAfter
<1>6. CASE CloseTabs
  <2>1. /\ sw.pc = "close" /\ sw'.pc = "idle" /\ open' = open \ sw.evict
        /\ UNCHANGED <<tabs, activeTarget, mon>>
    BY <1>6 DEF CloseTabs, tabVars, NoSwitch
  <2>2. activeTarget # 0 /\ \A p \in Pages : tabs[p] \notin sw.evict
    BY <2>1 DEF IInv, SwitchInv, BoundInv
  <2> QED  BY <1>0, <2>1, <2>2
<1>7. CASE \E p \in Pages : ShowPage(p)
  BY <1>0, <1>7 DEF ShowPage, chromeVars, IInv, StateTyped, ActorsTyped
<1>8. CASE \E i \in DOMAIN preloaders : Preload(i)
  <2>1. PICK i \in DOMAIN preloaders : Preload(i)
    BY <1>8
  <2>2. UNCHANGED <<activeTarget, mon, sw>>
    BY <2>1 DEF Preload
  <2>3. CASE UNCHANGED tabs /\ (open' = open \/ open' = open \cup {opened + 1})
    BY <1>0, <2>2, <2>3
  <2>4. CASE /\ preloaders[i].pc = "book" /\ UNCHANGED open
             /\ \E p \in Preloaded : tabs' = [tabs EXCEPT ![p] = preloaders[i].id]
    <3>1. preloaders[i].id \in open
      BY <2>1, <2>4, HeldTab
    <3> QED  BY <1>0, <2>2, <2>4, <3>1
  <2> QED  BY <2>1, <2>3, <2>4, PreloadMoves
<1> QED  BY TabSteps, <1>1, <1>2, <1>3, <1>4, <1>5, <1>6, <1>7, <1>8

\* Sums that one part of has not grown.
LEMMA NoMore ==
  ASSUME NEW a \in Nat, NEW b \in Nat, NEW c \in Nat, NEW d \in Nat, NEW o \in Nat,
         NEW x \in Nat, NEW y \in Nat, a + b + c + d <= o, x + y <= b + d
  PROVE  a + x + c + y <= o
  OBVIOUS

\* Sums that have grown by no more than their bound.
LEMMA NoMoreThanBound ==
  ASSUME NEW a \in Nat, NEW b \in Nat, NEW c \in Nat, NEW d \in Nat, NEW o \in Nat,
         NEW x \in Nat, NEW y \in Nat, NEW u \in Nat,
         a + b + c + d <= o, x + y + o <= a + b + u
  PROVE  x + y + c + d <= u
  OBVIOUS

HeldBy == {i \in DOMAIN preloaders : Holding(i)}

\* What the counts are made of.
LEMMA CountsMean ==
  ASSUME IInv
  PROVE  /\ Len(preloaders) \in Nat /\ Len(tabUse) \in Nat /\ opened \in Nat
         /\ navigated \in BOOLEAN /\ sw.created \in BOOLEAN
         /\ IsFiniteSet(pendingBlank) /\ Cardinality(pendingBlank) \in Nat
         /\ IsFiniteSet(HeldBy) /\ Cardinality(HeldBy) \in Nat
         /\ sw.pc \in {"idle", "tab"} => ~sw.created
         /\ sw.pc \in {"tab", "book"} /\ sw.id # 0 /\ ~sw.created => tabs[sw.page] # 0
         /\ mon.pc = "navigate" => ~navigated
         /\ Len(preloaders) + Cardinality(pendingBlank) + One(NewTabHeld) + One(~navigated)
              <= opened
         /\ Len(tabUse) + Cardinality(HeldBy) + One(NewTabHeld) + One(activeTarget = 0)
              <= opened
<1>1. preloaders \in Seq(Preloader) /\ tabUse \in Seq(Pages)
  BY DEF IInv, StateTyped, ActorsTyped, Preloader, UseInv
<1>2. Len(preloaders) \in Nat /\ DOMAIN preloaders = 1 .. Len(preloaders) /\ Len(tabUse) \in Nat
  BY <1>1, LenProperties
<1>3. IsFiniteSet(HeldBy) /\ Cardinality(HeldBy) \in Nat
  <2>1. IsFiniteSet(1 .. Len(preloaders))
    BY <1>2, FS_Interval
  <2>2. HeldBy \in SUBSET (1 .. Len(preloaders))
    BY <1>2 DEF HeldBy
  <2> QED  BY <2>1, <2>2, FS_Subset, FS_CardinalityType
<1>4. IsFiniteSet(pendingBlank) /\ Cardinality(pendingBlank) \in Nat
  <2>1. IsFiniteSet(1 .. MaxTargets)
    BY TargetsAssumption, FS_Interval
  <2>2. pendingBlank \in SUBSET (1 .. MaxTargets)
    BY DEF IInv, StateTyped, TabsTyped, Targets
  <2> QED  BY <2>1, <2>2, FS_Subset, FS_CardinalityType
<1>5. opened \in Nat /\ navigated \in BOOLEAN /\ sw.created \in BOOLEAN
  BY DEF IInv, StateTyped, TabsTyped, FlagsTyped, ActorsTyped, Targets
<1> QED  BY <1>2, <1>3, <1>4, <1>5 DEF IInv, CountInv, HeldBy, At

\* Whoever opens a tab is counted from then on: as a tab held, then as an entry, a blank tab,
\* and the preloader it starts.
LEMMA CountInvKept ==
  ASSUME IInv, Next
  PROVE  CountInv'
<1> DEFINE P == Cardinality(pendingBlank)
<1> DEFINE H == Cardinality(HeldBy)
<1>0. /\ Len(preloaders) \in Nat /\ Len(tabUse) \in Nat /\ opened \in Nat
      /\ navigated \in BOOLEAN /\ sw.created \in BOOLEAN
      /\ IsFiniteSet(pendingBlank) /\ P \in Nat
      /\ IsFiniteSet(HeldBy) /\ H \in Nat
      /\ sw.pc \in {"idle", "tab"} => ~sw.created
      /\ sw.pc \in {"tab", "book"} /\ sw.id # 0 /\ ~sw.created => tabs[sw.page] # 0
      /\ mon.pc = "navigate" => ~navigated
      /\ Len(preloaders) + P + One(NewTabHeld) + One(~navigated) <= opened
      /\ Len(tabUse) + H + One(NewTabHeld) + One(activeTarget = 0) <= opened
  BY CountsMean
<1>k. SUFFICES /\ sw'.pc \in {"idle", "tab"} => ~sw'.created
               /\ sw'.pc \in {"tab", "book"} /\ sw'.id # 0 /\ ~sw'.created => tabs'[sw'.page] # 0
               /\ mon'.pc = "navigate" => ~navigated'
               /\ Len(preloaders') + P' + One(NewTabHeld') + One(~navigated') <= opened'
               /\ Len(tabUse') + H' + One(NewTabHeld') + One(activeTarget' = 0) <= opened'
  BY DEF CountInv, HeldBy, At
<1>h. preloaders' = preloaders => HeldBy' = HeldBy
  BY DEF HeldBy, Holding
<1> HIDE DEF P, H
<1>s. sw' = sw => NewTabHeld' = NewTabHeld
  BY DEF NewTabHeld
<1>t. sw.page \in Pages /\ tabs \in [Pages -> Targets \cup {0}]
  BY DEF IInv, StateTyped, ActorsTyped, TabsTyped
<1>1. CASE Quiet
  <2>1. /\ UNCHANGED <<tabs, tabUse, activeTarget, pendingBlank, opened, sw>>
        /\ mon'.pc = "navigate" => mon.pc = "navigate" \/ ~navigated
    BY <1>1 DEF Quiet
  <2>2. CASE UNCHANGED <<preloaders, navigated>>
    <3>1. P' = P /\ H' = H /\ NewTabHeld' = NewTabHeld
      BY <1>h, <1>s, <2>1, <2>2 DEF P, H
    <3> QED  BY <1>0, <2>1, <2>2, <3>1
  <2>3. CASE /\ mon.pc = "navigate" /\ mon'.pc = "serve" /\ navigated'
             /\ preloaders' = preloaders \/ preloaders' = Append(preloaders, NewPreloader)
    <3>1. Len(preloaders') <= Len(preloaders) + 1 /\ Len(preloaders') \in Nat /\ HeldBy' = HeldBy
      <4>1. CASE preloaders' = preloaders
        BY <1>0, <1>h, <4>1
      <4>2. CASE preloaders' = Append(preloaders, NewPreloader)
        <5>1. preloaders \in Seq(Preloader) /\ NewPreloader \in Preloader
          BY DEF IInv, StateTyped, ActorsTyped, Preloader, NewPreloader
        <5>2. /\ DOMAIN preloaders' = 1 .. Len(preloaders) + 1 /\ Len(preloaders') = Len(preloaders) + 1
              /\ DOMAIN preloaders = 1 .. Len(preloaders)
              /\ \A i \in 1 .. Len(preloaders) : preloaders'[i] = preloaders[i]
              /\ preloaders'[Len(preloaders) + 1] = NewPreloader
          BY <4>2, <5>1, AppendProperties, LenProperties
        <5>3. \A i \in 1 .. Len(preloaders) + 1 :
                i \in 1 .. Len(preloaders) \/ i = Len(preloaders) + 1
          BY <1>0
        <5>4. \A i \in 1 .. Len(preloaders) : i \in 1 .. Len(preloaders) + 1
          BY <1>0
        <5>5. HeldBy' = HeldBy
          BY <5>2, <5>3, <5>4 DEF HeldBy, Holding, NewPreloader
        <5> QED  BY <1>0, <5>2, <5>5
      <4> QED  BY <2>3, <4>1, <4>2
    <3>2. P' = P /\ H' = H /\ NewTabHeld' = NewTabHeld
      BY <1>s, <2>1, <3>1 DEF P, H
    <3>3. One(~navigated) = 1 /\ One(~navigated') = 0
      BY <1>0, <2>3 DEF One
    <3>4. One(NewTabHeld) \in Nat
      BY DEF One
    <3> QED  BY <1>0, <2>1, <2>3, <3>1, <3>2, <3>3, <3>4
  <2> QED  BY <1>1, <2>2, <2>3 DEF Quiet
<1>2. CASE Dial
  <2>1. /\ UNCHANGED <<tabs, tabUse, activeTarget, pendingBlank, opened, preloaders, navigated>>
        /\ sw'.pc = sw.pc /\ sw'.page = sw.page /\ sw'.id = sw.id /\ sw'.created = sw.created
        /\ mon'.pc = "bind"
    BY <1>2 DEF Dial, tabVars, chromeVars, IInv, StateTyped, ActorsTyped
  <2>2. P' = P /\ H' = H /\ NewTabHeld' = NewTabHeld
    BY <1>h, <2>1 DEF P, H, NewTabHeld
  <2> QED  BY <1>0, <2>1, <2>2
<1>3. CASE Bind
  <2>1. /\ mon'.pc = "enable" /\ UNCHANGED <<preloaders, sw, opened>>
        /\ pendingBlank' = pendingBlank \ {mon.target}
        /\ navigated' = (navigated /\ mon.target \notin pendingBlank)
    BY <1>3 DEF Bind, GoTo, chromeVars, IInv, StateTyped, ActorsTyped
  <2>2. H' = H /\ NewTabHeld' = NewTabHeld
    BY <1>h, <1>s, <2>1 DEF H
  <2>3. P' + One(~navigated') <= P + One(~navigated) /\ P' \in Nat
    <3>1. P' = (IF mon.target \in pendingBlank THEN P - 1 ELSE P) /\ P' \in Nat
      BY <1>0, <2>1, FS_RemoveElement, FS_CardinalityType DEF P
    <3> QED  BY <1>0, <2>1, <3>1 DEF One
  <2>4. One(NewTabHeld) \in Nat /\ One(~navigated') \in Nat /\ One(~navigated) \in Nat
    BY DEF One
  <2>5. Len(preloaders) + P' + One(NewTabHeld) + One(~navigated') <= opened
    BY <1>0, <2>3, <2>4, NoMore
  <2>6. CASE activeTarget # 0
    <3>1. UNCHANGED <<activeTarget, tabs, tabUse>>
      BY <1>3, <2>6 DEF Bind
    <3> QED  BY <1>0, <2>1, <2>2, <2>5, <3>1
  <2>7. CASE activeTarget = 0
    <3>1. \A p \in Pages : tabs[p] = 0
      BY <2>7 DEF IInv, BoundInv
    <3>2. active \in Pages /\ mon.target # 0
      BY <1>3 DEF Bind, IInv, StateTyped, TabsTyped, TabInv
    <3>3. /\ activeTarget' = mon.target /\ tabUse' = Touched(active)
          /\ tabs' = [tabs EXCEPT ![active] = mon.target]
      BY <1>3, <2>7, <3>1, <3>2 DEF Bind
    <3>4. Len(tabUse') <= Len(tabUse) + 1 /\ Len(tabUse') \in Nat
      <4>1. tabUse \in Seq(Pages)
        BY DEF IInv, UseInv
      <4> QED  BY <3>2, <3>3, <4>1, TouchedList, LenProperties
    <3>5. One(activeTarget = 0) = 1 /\ One(activeTarget' = 0) = 0
      BY <2>7, <3>2, <3>3 DEF One
    <3>6. Len(tabUse') + H + One(NewTabHeld) + One(activeTarget' = 0) <= opened
      BY <1>0, <2>4, <3>4, <3>5
    <3>7. sw.pc \in {"tab", "book"} /\ sw.id # 0 /\ ~sw.created => tabs'[sw.page] # 0
      BY <1>0, <1>t, <3>1
    <3> QED  BY <1>0, <2>1, <2>2, <2>5, <3>6, <3>7
  <2> QED  BY <2>6, <2>7
<1>4. CASE OpenTab
  <2>1. /\ UNCHANGED <<tabs, tabUse, activeTarget, pendingBlank, navigated, preloaders>>
        /\ sw.pc = "tab" /\ (mon'.pc = mon.pc \/ mon'.pc = "gone")
    BY <1>4, OpenTabMoves
  <2>2. P' = P /\ H' = H
    BY <1>h, <2>1 DEF P, H
  <2>3. One(NewTabHeld) = 0
    BY <2>1 DEF One, NewTabHeld
  <2>4. /\ sw'.pc \in {"idle", "tab"} => ~sw'.created
        /\ sw'.pc \in {"tab", "book"} /\ sw'.id # 0 /\ ~sw'.created => tabs[sw'.page] # 0
        /\ \/ opened' = opened /\ One(NewTabHeld') = 0
           \/ opened' = opened + 1 /\ One(NewTabHeld') = 1
    <3>1. CASE /\ sw.id \in open /\ sw'.pc = "book" /\ sw'.id = sw.id /\ ~sw'.created
               /\ sw'.page = sw.page /\ opened' = opened
      BY <1>0, <2>1, <3>1 DEF One, NewTabHeld
    <3>2. CASE sw'.pc = "book" /\ sw'.created /\ opened' = opened + 1
      BY <3>2 DEF One, NewTabHeld
    <3>3. CASE sw' = NoSwitch /\ opened' = opened
      BY <3>3 DEF One, NewTabHeld, NoSwitch
    <3> QED  BY <1>4, <3>1, <3>2, <3>3, OpenTabMoves
  <2>5. One(~navigated) \in Nat /\ One(activeTarget = 0) \in Nat
    BY DEF One
  <2>6. /\ Len(preloaders) + P + One(NewTabHeld') + One(~navigated) <= opened'
        /\ Len(tabUse) + H + One(NewTabHeld') + One(activeTarget = 0) <= opened'
    BY <1>0, <2>3, <2>4, <2>5
  <2> QED  BY <1>0, <2>1, <2>2, <2>4, <2>6
<1>5. CASE BookTab
  <2>1. /\ sw.pc = "book" /\ sw'.pc = "close" /\ activeTarget' = sw.id
        /\ UNCHANGED <<opened, mon, preloaders>>
    BY <1>5, BookTabMoves
  <2>2. PICK losers : tabUse' = Without(Touched(sw.page), losers)
    BY <1>5, BookTabMoves
  <2>3. /\ navigated' = navigated
        /\ pendingBlank' = IF sw.created THEN pendingBlank \cup {sw.id} ELSE pendingBlank
    BY <1>5 DEF BookTab, sessionVars
  <2>4. sw.id # 0
    BY <2>1 DEF IInv, SwitchInv, TabInv
  <2>5. H' = H /\ One(NewTabHeld') = 0 /\ One(activeTarget' = 0) = 0
    BY <1>h, <2>1, <2>4 DEF H, One, NewTabHeld
  <2>6. One(NewTabHeld) = IF sw.created THEN 1 ELSE 0
    BY <1>0, <2>1 DEF One, NewTabHeld
  <2>7. P' <= P + One(NewTabHeld) /\ P' \in Nat
    <3>1. CASE sw.created
      <4>1. pendingBlank' = pendingBlank \cup {sw.id}
        BY <2>3, <3>1
      <4>2. P' = IF sw.id \in pendingBlank THEN P ELSE P + 1
        BY <1>0, <4>1, FS_AddElement DEF P
      <4> QED  BY <1>0, <2>6, <3>1, <4>2
    <3>2. CASE ~sw.created
      <4>1. P' = P
        BY <2>3, <3>2 DEF P
      <4> QED  BY <1>0, <2>6, <3>2, <4>1
    <3> QED  BY <3>1, <3>2
  <2>8. Len(tabUse') <= Len(tabUse) + One(NewTabHeld) /\ Len(tabUse') \in Nat
    <3>1. tabUse \in Seq(Pages) /\ {p \in Pages : tabs[p] # 0} = Listed(tabUse)
      BY UseInvMeans DEF IInv
    <3>2. /\ Touched(sw.page) \in Seq(Pages) /\ Len(Touched(sw.page)) <= Len(tabUse) + 1
          /\ sw.page \in Listed(tabUse) => Len(Touched(sw.page)) <= Len(tabUse)
      BY <1>t, <3>1, TouchedList
    <3>3. tabUse' \in Seq(Pages) /\ Len(tabUse') <= Len(Touched(sw.page))
      BY <2>2, <3>2, WithoutList
    <3>4. Len(tabUse') \in Nat /\ Len(Touched(sw.page)) \in Nat
      BY <3>2, <3>3, LenProperties
    <3>5. ~sw.created => sw.page \in Listed(tabUse)
      BY <1>0, <1>t, <2>1, <2>4, <3>1
    <3> QED  BY <1>0, <2>6, <3>2, <3>3, <3>4, <3>5
  <2>9. One(NewTabHeld) \in Nat /\ One(~navigated) \in Nat /\ One(activeTarget = 0) \in Nat
    BY DEF One
  <2>10. Len(preloaders) + P' + 0 + One(~navigated) <= opened
    <3>1. PICK p \in Nat : p = P' /\ p <= P + One(NewTabHeld)
      BY <2>7
    <3>2. p <= P + One(NewTabHeld)
      BY <3>1
    <3>3. Len(preloaders) + p + 0 + One(~navigated) <= opened
      BY <1>0, <2>9, <3>2
    <3> QED  BY <3>1, <3>3
  <2>11. Len(tabUse') + H + 0 + 0 <= opened
    <3>1. PICK l \in Nat : l = Len(tabUse') /\ l <= Len(tabUse) + One(NewTabHeld)
      BY <2>8
    <3>2. l <= Len(tabUse) + One(NewTabHeld)
      BY <3>1
    <3>3. l + H + 0 + 0 <= opened
      BY <1>0, <2>9, <3>2
    <3> QED  BY <3>1, <3>3
  <2> QED  BY <1>0, <2>1, <2>3, <2>5, <2>10, <2>11
<1>6. CASE CloseTabs
  <2>1. /\ UNCHANGED <<tabs, tabUse, activeTarget, pendingBlank, opened, preloaders, navigated, mon>>
        /\ sw.pc = "close" /\ sw'.pc = "idle" /\ ~sw'.created
    BY <1>6 DEF CloseTabs, tabVars, NoSwitch
  <2>2. P' = P /\ H' = H /\ NewTabHeld' = NewTabHeld
    BY <1>h, <2>1 DEF P, H, NewTabHeld
  <2> QED  BY <1>0, <2>1, <2>2
<1>7. CASE \E p \in Pages : ShowPage(p)
  <2>1. PICK p \in Pages : ShowPage(p)
    BY <1>7
  <2>2. /\ UNCHANGED <<tabs, tabUse, activeTarget, pendingBlank, opened, preloaders, navigated, mon>>
        /\ sw.pc = "idle" /\ sw' = [sw EXCEPT !.pc = "tab", !.page = p, !.id = tabs[p]]
    BY <2>1 DEF ShowPage, chromeVars, sessionVars
  <2>3. sw'.pc = "tab" /\ sw'.page = p /\ sw'.id = tabs[p] /\ sw'.created = sw.created
    BY <2>2 DEF IInv, StateTyped, ActorsTyped
  <2>4. P' = P /\ H' = H /\ NewTabHeld' = NewTabHeld
    BY <1>h, <2>2, <2>3 DEF P, H, NewTabHeld
  <2> QED  BY <1>0, <2>2, <2>3, <2>4
<1>8. CASE \E i \in DOMAIN preloaders : Preload(i)
  <2>1. PICK i \in DOMAIN preloaders : Preload(i)
    BY <1>8
  <2>2. UNCHANGED <<activeTarget, mon, sw, pendingBlank, navigated>>
    BY <2>1 DEF Preload, sessionVars
  <2>3. /\ Len(preloaders') = Len(preloaders) /\ DOMAIN preloaders' = DOMAIN preloaders
        /\ \A j \in DOMAIN preloaders : j # i => preloaders'[j] = preloaders[j]
    BY <2>1, PreloadMoves, PreloadersStay
  <2>4. P' = P /\ NewTabHeld' = NewTabHeld
    BY <1>s, <2>2 DEF P
  <2>5. \A p \in Pages : tabs[p] # 0 => tabs'[p] # 0
    <3>1. CASE UNCHANGED tabs
      BY <3>1
    <3>2. CASE /\ preloaders[i].pc = "book"
               /\ \E p \in Preloaded : tabs' = [tabs EXCEPT ![p] = preloaders[i].id]
      BY <1>t, <2>1, <3>2, HeldTab
    <3> QED  BY <2>1, <3>1, <3>2, PreloadMoves
  <2>6. /\ opened' \in Nat /\ H' \in Nat /\ Len(tabUse') \in Nat /\ opened <= opened'
        /\ Len(tabUse') + H' + opened <= Len(tabUse) + H + opened'
    <3>1. CASE preloaders'[i].pc # "book" /\ UNCHANGED <<opened, tabUse>>
      <4>1. HeldBy' \in SUBSET HeldBy
        BY <2>3, <3>1 DEF HeldBy, Holding
      <4>2. H' \in Nat /\ H' <= H
        BY <1>0, <4>1, FS_Subset, FS_CardinalityType DEF H
      <4> QED  BY <1>0, <3>1, <4>2
    <3>2. CASE opened' = opened + 1 /\ UNCHANGED tabUse
      <4>1. HeldBy' \in SUBSET (HeldBy \cup {i})
        BY <2>3 DEF HeldBy, Holding
      <4>2. IsFiniteSet(HeldBy \cup {i})
              /\ Cardinality(HeldBy \cup {i}) = IF i \in HeldBy THEN H ELSE H + 1
        BY <1>0, FS_AddElement DEF H
      <4>3. H' \in Nat /\ H' <= H + 1
        BY <1>0, <4>1, <4>2, FS_Subset, FS_CardinalityType DEF H
      <4> QED  BY <1>0, <3>2, <4>3
    <3>3. CASE /\ preloaders[i].pc = "book" /\ preloaders'[i].pc # "book"
               /\ \E p \in Preloaded : tabUse' = <<p>> \o tabUse
               /\ opened' = opened
      <4>1. HeldBy' = HeldBy \ {i} /\ i \in HeldBy
        BY <2>1, <2>3, <3>3 DEF HeldBy, Holding
      <4>2. H' = H - 1 /\ H' \in Nat
        BY <1>0, <4>1, FS_RemoveElement, FS_CardinalityType DEF H
      <4>3. Len(tabUse') = Len(tabUse) + 1
        <5>1. tabUse \in Seq(Pages) /\ Once(tabUse)
          BY UseInvMeans DEF IInv
        <5> QED  BY <3>3, <5>1, PutInFront
      <4> QED  BY <1>0, <3>3, <4>2, <4>3
    <3> QED  BY <2>1, <3>1, <3>2, <3>3, PreloadMoves
  <2>7. One(NewTabHeld) \in Nat /\ One(~navigated) \in Nat /\ One(activeTarget = 0) \in Nat
    BY DEF One
  <2>8. Len(preloaders) + P + One(NewTabHeld) + One(~navigated) <= opened'
    <3> PICK u \in Nat : u = opened' /\ opened <= u
      BY <2>6
    <3> QED  BY <1>0, <2>7
  <2>9. Len(tabUse') + H' + One(NewTabHeld) + One(activeTarget = 0) <= opened'
    <3>1. PICK u \in Nat, x \in Nat, y \in Nat :
                u = opened' /\ x = Len(tabUse') /\ y = H' /\ x + y + opened <= Len(tabUse) + H + u
      BY <2>6
    <3>2. x + y + opened <= Len(tabUse) + H + u
      BY <3>1
    <3>3. x + y + One(NewTabHeld) + One(activeTarget = 0) <= u
      BY <1>0, <2>7, <3>2, NoMoreThanBound
    <3> QED  BY <3>1, <3>3
  <2> QED  BY <1>0, <1>t, <2>2, <2>3, <2>4, <2>5, <2>8, <2>9
<1> QED  BY TabSteps, <1>1, <1>2, <1>3, <1>4, <1>5, <1>6, <1>7, <1>8

-----------------------------------------------------------------------------
(* The invariant.                                                          *)

\* It holds when the process has been started.
LEMMA InitInv ==
  ASSUME Init
  PROVE  IInv
<1>1. FlagsTyped
  BY DEF Init, FlagsTyped
<1>2. TabsTyped
  BY PagesAssumption, TargetsAssumption DEF Init, TabsTyped, Pages, Targets
<1>3. ActorsTyped
  <2>1. preloaders \in Seq(Preloader)
    BY EmptySeq DEF Init
  <2> QED  BY <2>1, PagesAssumption DEF Init, ActorsTyped, PCs, NoSwitch, Pages, Preloader
<1>4. CountsTyped
  BY BoundsAssumption DEF Init, CountsTyped, GiveUpAt
<1>5. LiveInv /\ PlannedInv
  BY DEF Init, LiveInv, PlannedInv
<1>6. LossInv
  BY DEF Init, LossInv, At
<1>7. TabInv
  BY DEF Init, TabInv, At
<1>8. BoundInv
  BY DEF Init, BoundInv, NoSwitch
<1>9. SwitchInv
  BY DEF Init, SwitchInv, NoSwitch
<1>10. PreloadInv
  BY EmptySeq DEF Init, PreloadInv
<1>11. UseInv
  <2>1. \A p \in Pages : tabs[p] = 0
    BY DEF Init
  <2>2. tabUse = <<>>
    BY DEF Init
  <2>3. tabUse \in Seq(Pages) /\ Len(tabUse) = 0
    BY <2>2, EmptySeq
  <2> QED  BY <2>1, <2>3 DEF UseInv
<1>12. OpenInv
  BY DEF Init, OpenInv, At, NoSwitch
<1>13. CountInv
  <2>1. preloaders = <<>> /\ tabUse = <<>> /\ pendingBlank = {} /\ opened = 1
    BY DEF Init
  <2>2. Len(preloaders) = 0 /\ Len(tabUse) = 0 /\ Cardinality(pendingBlank) = 0
    BY <2>1, EmptySeq, FS_EmptySet
  <2>3. Cardinality({i \in DOMAIN preloaders : Holding(i)}) = 0
    <3>1. DOMAIN preloaders = {}
      BY <2>1, EmptySeq
    <3>2. {i \in DOMAIN preloaders : Holding(i)} = {}
      BY <3>1
    <3> QED  BY <3>2, FS_EmptySet
  <2>4. /\ sw.pc = "idle" /\ ~sw.created /\ mon.pc = "look"
        /\ One(NewTabHeld) = 0 /\ One(~navigated) = 1 /\ One(activeTarget = 0) = 1
    BY DEF Init, NoSwitch, One, NewTabHeld
  <2> QED  BY <2>1, <2>2, <2>3, <2>4 DEF CountInv, At
<1> QED
  BY <1>1, <1>2, <1>3, <1>4, <1>5, <1>6, <1>7, <1>8, <1>9, <1>10, <1>11, <1>12, <1>13
  DEF IInv, StateTyped

\* And every step keeps it.
LEMMA StepKeeps ==
  ASSUME IInv, [Next]_vars
  PROVE  IInv'
<1>1. CASE Next
  BY <1>1, FlagsTypedKept, CountsTypedKept, TabsTypedKept, ActorsTypedKept, LiveInvKept,
     PlannedInvKept, LossInvKept, TabInvKept, BoundInvKept, SwitchInvKept, PreloadInvKept,
     UseInvKept, OpenInvKept, CountInvKept
  DEF IInv, StateTyped
<1>2. CASE UNCHANGED vars
  <2> USE <1>2 DEF vars, tabVars, chromeVars, sessionVars, statusVars, heldVars, boundVars
  <2>1. StateTyped'
    BY DEF IInv, StateTyped, FlagsTyped, TabsTyped, ActorsTyped, CountsTyped
  <2>2. LiveInv' /\ PlannedInv'
    BY DEF IInv, LiveInv, PlannedInv
  <2>3. LossInv' /\ BoundInv'
    BY DEF IInv, LossInv, BoundInv, At
  <2>4. TabInv' /\ SwitchInv' /\ PreloadInv'
    BY DEF IInv, TabInv, SwitchInv, PreloadInv, At, Holding
  <2>5. UseInv' /\ OpenInv'
    BY DEF IInv, UseInv, OpenInv, At
  <2>6. CountInv'
    BY DEF IInv, CountInv, At, Holding, NewTabHeld
  <2> QED  BY <2>1, <2>2, <2>3, <2>4, <2>5, <2>6 DEF IInv
<1> QED  BY <1>1, <1>2

\* IInv is an invariant of the specification.
THEOREM Invariance == Spec => []IInv
<1>1. Init => IInv
  BY InitInv
<1>2. IInv /\ [Next]_vars => IInv'
  BY StepKeeps
<1> QED  BY <1>1, <1>2, PTL DEF Spec

-----------------------------------------------------------------------------
(* The theorems.                                                           *)

\* A page switch, which closes the control session, is never booked as a failure of the
\* control, however switches and the monitor interleave: the action property
\* SwitchIsNoFailure.
THEOREM SwitchesAreNoFailures == Spec => SwitchIsNoFailure
<1>1. ASSUME IInv, Next, At("after"), mon'.pc = "book"
      PROVE  ~planned
  <2> USE DEF IInv, StateTyped, ActorsTyped, At, GoTo
  <2>1. CASE ConsumeRetarget
    <3>1. ~retarget
      BY <1>1, <2>1 DEF ConsumeRetarget, AfterSession
    <3> QED  BY <1>1, <3>1 DEF PlannedInv
  <2>2. CASE ~ConsumeRetarget
    <3> USE <1>1, <2>2
    <3>1. CASE Look \/ Dial \/ Bind \/ Attach \/ Navigate
      BY <3>1 DEF Look, Dial, Bind, Attach, Navigate
    <3>2. CASE BookFailure \/ Decide \/ SessionEnds \/ Rejected
      BY <3>2 DEF BookFailure, Decide, SessionEnds, Rejected
    <3>3. CASE Held \/ RevealDue \/ RevealShows
      BY <3>3 DEF Held, RevealDue, RevealShows
    <3>4. CASE ProcessEnds
      BY <3>4 DEF ProcessEnds
    <3>5. CASE OpenTab
      BY <3>5, OpenTabMoves
    <3>6. CASE BookTab
      BY <3>6, BookTabMoves
    <3>7. CASE CloseTabs
      BY <3>7 DEF CloseTabs
    <3>8. CASE \E p \in Pages : ShowPage(p)
      BY <3>8 DEF ShowPage
    <3>9. CASE \E i \in DOMAIN preloaders : Preload(i)
      BY <3>9 DEF Preload
    <3> QED  BY <3>1, <3>2, <3>3, <3>4, <3>5, <3>6, <3>7, <3>8, <3>9, NextSteps
  <2> QED  BY <2>1, <2>2
<1>2. IInv /\ [Next]_vars => [At("after") /\ mon'.pc = "book" => ~planned]_vars
  BY <1>1
<1> QED  BY <1>2, Invariance, PTL DEF Spec, SwitchIsNoFailure

\* A restart for the control's sake is asked for only after five losses in a row:
\* the invariant FiveLossesInARow.
THEOREM RestartsTakeFiveLosses == Spec => []FiveLossesInARow
<1>1. IInv => FiveLossesInARow
  BY DEF IInv, LossInv, FiveLossesInARow
<1> QED  BY <1>1, Invariance, PTL

\* The list by which tabs are evicted names the pages with a tab, and tabs that are kept or
\* controlled are open: the invariant TabsAreConsistent.
THEOREM TabsStayConsistent == Spec => []TabsAreConsistent
<1>1. ASSUME IInv PROVE TabsAreConsistent
  <2>1. /\ Len(preloaders) + Cardinality(pendingBlank) + One(NewTabHeld) + One(~navigated)
             <= opened
        /\ Len(tabUse) + Cardinality(HeldBy) + One(NewTabHeld) + One(activeTarget = 0)
             <= opened
        /\ Len(preloaders) \in Nat /\ Len(tabUse) \in Nat /\ opened \in Nat
        /\ Cardinality(pendingBlank) \in Nat /\ Cardinality(HeldBy) \in Nat
    BY <1>1, CountsMean
  <2>2. One(NewTabHeld) \in Nat /\ One(~navigated) \in Nat /\ One(activeTarget = 0) \in Nat
    BY DEF One
  <2>3. Len(preloaders) <= opened /\ Len(tabUse) <= opened
    BY <2>1, <2>2
  <2>4. TypeOK
    BY <1>1, <2>3 DEF TypeOK, IInv, UseInv
  <2> QED  BY <1>1, <2>4 DEF TabsAreConsistent, IInv, UseInv, OpenInv
<1> QED  BY <1>1, Invariance, PTL

\* The tab of a page marked "preload" and that of the page being shown stay open and kept:
\* the action property PreloadedAndShownStay.
THEOREM NeededTabsStay == Spec => PreloadedAndShownStay
<1>1. ASSUME IInv, Next, NEW p \in Preloaded \cup {active}, tabs[p] # 0, tabs[p] \in open
      PROVE  tabs'[p] # 0 /\ tabs'[p] \in open'
  <2>1. p \in Pages /\ tabs \in [Pages -> Targets \cup {0}]
    BY <1>1, PagesAssumption DEF IInv, StateTyped, TabsTyped, Pages
  <2>2. CASE Quiet \/ Dial \/ (\E q \in Pages : ShowPage(q))
    BY <1>1, <2>2 DEF Quiet, Dial, ShowPage, tabVars, chromeVars
  <2>3. CASE Bind
    BY <1>1, <2>1, <2>3 DEF Bind, chromeVars, IInv, BoundInv
  <2>4. CASE OpenTab
    BY <1>1, <2>4, OpenTabMoves
  <2>5. CASE BookTab
    <3>1. PICK losers \in SUBSET (Pages \ (Preloaded \cup {sw.page})) :
            tabs' = TabsAfter(sw.id, losers)
      BY <1>1, <2>5, BookTabMoves
    <3>2. sw.page = active /\ sw.id \in open /\ sw.id # 0
      BY <1>1, <2>5, BookTabMoves DEF IInv, SwitchInv, TabInv
    <3>3. UNCHANGED open
      BY <1>1, <2>5, BookTabMoves
    <3> QED  BY <1>1, <2>1, <3>1, <3>2, <3>3 DEF TabsAfter
  <2>6. CASE CloseTabs
    BY <1>1, <2>1, <2>6 DEF CloseTabs, tabVars, IInv, SwitchInv
  <2>7. CASE \E i \in DOMAIN preloaders : Preload(i)
    <3>1. PICK i \in DOMAIN preloaders : Preload(i)
      BY <2>7
    <3>2. CASE UNCHANGED tabs /\ (open' = open \/ open' = open \cup {opened + 1})
      BY <1>1, <3>2
    <3>3. CASE /\ preloaders[i].pc = "book" /\ UNCHANGED open
               /\ \E q \in Preloaded : tabs' = [tabs EXCEPT ![q] = preloaders[i].id]
      <4>1. preloaders[i].id \in open /\ preloaders[i].id # 0
        BY <1>1, <3>1, <3>3, HeldTab, FreshTab
      <4> QED  BY <1>1, <2>1, <3>3, <4>1
    <3> QED  BY <1>1, <3>1, <3>2, <3>3, PreloadMoves
  <2> QED  BY <1>1, <2>2, <2>3, <2>4, <2>5, <2>6, <2>7, TabSteps
<1>2. IInv /\ [Next]_vars =>
        [\A p \in Preloaded \cup {active} :
           tabs[p] # 0 /\ tabs[p] \in open => tabs'[p] # 0 /\ tabs'[p] \in open']_vars
  BY <1>1
<1> QED  BY <1>2, Invariance, PTL DEF Spec, PreloadedAndShownStay

-----------------------------------------------------------------------------
(***************************************************************************)
(* The loop of the session                                                 *)
(***************************************************************************)

\* The invariant holds when the loop is entered.
LEMMA LoopStarts == LoopInit => LoopInv
<1> SUFFICES ASSUME LoopInit PROVE LoopInv
  OBVIOUS
<1>1. LoopTypeOK /\ ProbeInv
  <2>1. always \in BOOLEAN /\ networkOn \in BOOLEAN /\ freshLoad \in BOOLEAN
          /\ restartAsked \in BOOLEAN
    BY Zenon DEF LoopInit
  <2> QED BY <2>1, EventsAssumption DEF LoopInit, LoopTypeOK, ProbeInv, FirstTimer, Settled
<1>2. WindowInv
  BY Zenon DEF LoopInit, WindowInv, FirstTimer
<1> QED BY <1>1, <1>2 DEF LoopInv

\* A beat of the heartbeat keeps the types and the count below the silence.
LEMMA BeatKeeps == LoopInv /\ Beat => LoopTypeOK' /\ ProbeInv'
<1> SUFFICES ASSUME LoopInv, Beat PROVE LoopTypeOK' /\ ProbeInv'
  OBVIOUS
<1> USE DEF Beat, LoopInv, LoopTypeOK, ProbeInv, watchVars, timerVars, tokenVars, NextBeat, Settled
<1>1. CASE BeatWhileLoading
  BY <1>1 DEF BeatWhileLoading, StillLoading
<1>2. CASE BeatAnswered
  BY <1>2 DEF BeatAnswered, MayProbe
<1>3. CASE BeatMissed
  <2>1. beats >= 1 /\ missed <= 1 /\ missed <= silent
    BY <1>3 DEF BeatMissed, MayProbe
  <2>2. missed' = missed + 1 /\ silent' = IF silent = 4 THEN silent ELSE silent + 1
    BY <1>3 DEF BeatMissed, CountMissed
  <2>3. beats' = IF missed' = 2 THEN 0 ELSE NextBeat
    BY <1>3 DEF BeatMissed, ClockAtReload
  <2>4. missed' \in 0 .. 2 /\ silent' \in 0 .. 4 /\ missed' <= silent' /\ beats' \in 0 .. 3
    BY <2>1, <2>2, <2>3
  <2>5. page' \in {"answers", "hung", "frozen"} /\ restartAsked' \in BOOLEAN
    BY <1>3, <2>4 DEF BeatMissed
  <2>6. ProbeInv'
    BY <2>2, <2>3, <2>4
  <2> QED BY <2>4, <2>5, <2>6
<1> QED BY <1>1, <1>2, <1>3

\* What the session does with token responses.
TokenStep ==
  TokenRefused \/ TokenFinished \/ TokenFinishedUnheard \/ TakeRefused \/ TakeFinished

\* Responses and their ends keep their types between Chromium, the channel and the loop.
LEMMA TokensTyped ==
  ASSUME LoopInv, TokenStep
  PROVE  /\ unfinished' \subseteq Requests /\ queue' \in Seq(Message)
         /\ tokenFailures' \subseteq Requests /\ late' \subseteq tokenFailures'
         /\ events' \in 0 .. MaxEvents
<1> USE DEF LoopInv, LoopTypeOK
<1>1. ASSUME queue # <<>>
      PROVE  /\ Head(queue) \in Message /\ Head(queue).id \in Requests
             /\ Tail(queue) \in Seq(Message)
  <2>1. queue \in Seq(Message)
    OBVIOUS
  <2>2. Head(queue) \in Message /\ Tail(queue) \in Seq(Message)
    BY <1>1, <2>1, HeadTailProperties, Zenon
  <2> QED BY <2>2 DEF Message
<1>2. ASSUME NEW m \in Message PROVE Append(queue, m) \in Seq(Message)
  BY AppendProperties
<1>3. CASE TokenRefused
  <2>1. events' = events + 1 /\ events < MaxEvents
    BY <1>3 DEF TokenRefused, Event
  <2>2. events' \in 0 .. MaxEvents /\ events' \in Requests
    BY <2>1, EventsAssumption DEF Requests
  <2>3. [kind |-> "refused", id |-> events'] \in Message
    BY <2>2 DEF Message
  <2> QED BY <1>2, <1>3, <2>2, <2>3 DEF TokenRefused
<1>4. CASE TokenFinished
  <2>1. PICK id \in unfinished : /\ unfinished' = unfinished \ {id}
                                 /\ queue' = Append(queue, [kind |-> "finished", id |-> id])
    BY <1>4 DEF TokenFinished
  <2>2. [kind |-> "finished", id |-> id] \in Message
    BY DEF Message
  <2> QED BY <1>2, <1>4, <2>1, <2>2 DEF TokenFinished
<1>5. CASE TokenFinishedUnheard
  BY <1>5 DEF TokenFinishedUnheard
<1>6. CASE TakeRefused
  BY <1>1, <1>6 DEF TakeRefused
<1>7. CASE TakeFinished
  BY <1>1, <1>7 DEF TakeFinished
<1> QED BY <1>3, <1>4, <1>5, <1>6, <1>7 DEF TokenStep

\* Every step keeps the types and the count below the silence.
LEMMA CountKept == LoopInv /\ [LoopNext]_loopVars => LoopTypeOK' /\ ProbeInv'
<1> SUFFICES ASSUME LoopInv, [LoopNext]_loopVars PROVE LoopTypeOK' /\ ProbeInv'
  OBVIOUS
<1> USE EventsAssumption DEF LoopInv, LoopTypeOK, ProbeInv, Event, Settled, beatVars, watchVars,
                             timerVars, tokenVars
<1>1. CASE PageHangs \/ PageRecovers
  BY <1>1 DEF PageHangs, PageRecovers
<1>2. CASE Beat
  BY <1>2, BeatKeeps
<1>3. CASE Navigated
  <2>1. networkOn' \in BOOLEAN /\ freshLoad' \in BOOLEAN
    BY <1>3, Zenon DEF Navigated
  <2>2. timer' \in {"running", "expired", "stopped"}
    BY <1>3 DEF Navigated, WindowReopened
  <2> QED BY <1>3, <2>1, <2>2 DEF Navigated
<1>4. CASE TimerExpires
  BY <1>4 DEF TimerExpires
<1>5. CASE TimerHandled
  BY <1>5 DEF TimerHandled, NoTokenAwaited
<1>6. CASE TokenStep
  <2>1. UNCHANGED <<beatVars, timerVars>>
    BY <1>6 DEF TokenStep, TokenRefused, TokenFinished, TokenFinishedUnheard, TakeRefused,
                TakeFinished
  <2> QED BY <1>6, <2>1, TokensTyped
<1>7. CASE Reattached
  <2>0. unfinished' \subseteq Requests /\ queue' \in Seq(Message)
          /\ tokenFailures' \subseteq Requests /\ late' \subseteq tokenFailures'
    BY <1>7 DEF Reattached
  <2>1. always' \in BOOLEAN /\ networkOn' \in BOOLEAN /\ freshLoad' \in BOOLEAN
    BY <1>7, Zenon DEF Reattached
  <2>2. timer' \in {"running", "expired", "stopped"}
    BY <1>7 DEF Reattached, FirstTimer
  <2>3. beats' = 0 /\ missed' = 0 /\ silent' = 0 /\ events' \in 0 .. MaxEvents
    BY <1>7 DEF Reattached
  <2>4. UNCHANGED <<page, restartAsked>>
    BY <1>7 DEF Reattached
  <2> QED BY <2>0, <2>1, <2>2, <2>3, <2>4
<1>8. CASE UNCHANGED loopVars
  BY <1>8 DEF loopVars
<1> QED BY <1>1, <1>2, <1>3, <1>4, <1>5, <1>6, <1>7, <1>8 DEF LoopNext, TokenStep

\* Every step keeps what the timer knows of the window.
LEMMA WindowKept == LoopInv /\ [LoopNext]_loopVars => WindowInv'
<1> SUFFICES ASSUME LoopInv, [LoopNext]_loopVars PROVE WindowInv'
  OBVIOUS
<1>0. WindowInv
  BY DEF LoopInv
<1> USE <1>0 DEF WindowInv, watchVars, timerVars, tokenVars
<1>1. CASE PageHangs \/ PageRecovers \/ Beat
  BY <1>1 DEF PageHangs, PageRecovers, Beat
<1>3. CASE Navigated
  <2>1. CASE always
    BY <1>3, <2>1, Zenon DEF Navigated
  <2>2. CASE ~always
    <3>1. networkOn' /\ timer' = "running" /\ ~always'
      BY <1>3, <2>2, Zenon DEF Navigated, WindowReopened
    <3> QED BY <3>1
  <2> QED BY <2>1, <2>2
<1>4. CASE TimerExpires
  <2>1. ~freshLoad' /\ ~always
    BY <1>4 DEF TimerExpires
  <2> QED BY <1>4, <2>1 DEF TimerExpires
<1>5. CASE TimerHandled
  <2>1. ~freshLoad /\ ~always
    BY <1>5 DEF TimerHandled
  <2> QED BY <1>5, <2>1 DEF TimerHandled, NoTokenAwaited
<1>6. CASE TokenRefused \/ TokenFinished \/ TokenFinishedUnheard \/ TakeFinished
  BY <1>6 DEF TokenRefused, TokenFinished, TokenFinishedUnheard, TakeFinished
<1>9. CASE TakeRefused
  <2>1. ~networkOn => tokenFailures' \ late' \subseteq tokenFailures \ late
    BY <1>9 DEF TakeRefused
  <2> QED BY <1>9, <2>1 DEF TakeRefused
<1>7. CASE Reattached
  <2>1. networkOn' /\ (always' => timer' = "stopped")
          /\ (~always' => timer' = "running")
    BY <1>7, Zenon DEF Reattached, FirstTimer
  <2> QED BY <2>1
<1>8. CASE UNCHANGED loopVars
  BY <1>8 DEF loopVars
<1> QED BY <1>1, <1>3, <1>4, <1>5, <1>6, <1>7, <1>8, <1>9 DEF LoopNext

\* Every step keeps the invariant.
LEMMA LoopKept == LoopInv /\ [LoopNext]_loopVars => LoopInv'
  BY CountKept, WindowKept DEF LoopInv

\* The invariant holds in every reachable state.
THEOREM LoopInvariance == LoopSpec => []LoopInv
  BY LoopStarts, LoopKept, PTL DEF LoopSpec

\* Chromium's network events are on from the navigation that the loop took last until its
\* window has run out, and until the bodies are read of all rejected token responses that
\* it took with the events on (runDevTools).
THEOREM LoopLoginWatched == LoopSpec => []LoginIsWatched
<1>1. LoopInv => LoginIsWatched
  BY DEF LoopInv, WindowInv, LoginIsWatched
<1> QED BY <1>1, LoopInvariance, PTL

\* No page is reloaded for a silence that another load or session began: the two
\* probes that a reload needs went unanswered since the last navigation (heartbeat).
THEOREM LoopReloadJustified == LoopSpec => ReloadIsJustified
<1>1. LoopInv /\ [LoopNext]_loopVars => [missed' = 2 /\ missed # 2 => silent' >= 2]_loopVars
  <2> SUFFICES ASSUME LoopInv, LoopNext, missed' = 2, missed # 2 PROVE silent' >= 2
    OBVIOUS
  <2>1. BeatMissed
    <3>1. CASE BeatWhileLoading \/ BeatAnswered
      BY <3>1 DEF BeatWhileLoading, BeatAnswered
    <3>2. CASE ~Beat
      BY <3>2 DEF LoopNext, PageHangs, PageRecovers, Navigated, TimerExpires, TimerHandled,
                  TokenRefused, TokenFinished, TokenFinishedUnheard, TakeRefused, TakeFinished,
                  Reattached, beatVars
    <3> QED BY <3>1, <3>2 DEF Beat
  <2>2. missed = 1 /\ missed <= silent /\ silent \in 0 .. 4
    BY <2>1 DEF BeatMissed, CountMissed, MayProbe, NextBeat, Settled, LoopInv, LoopTypeOK, ProbeInv
  <2> QED BY <2>1, <2>2 DEF BeatMissed
<1> QED BY <1>1, LoopInvariance, PTL DEF LoopSpec, ReloadIsJustified

=============================================================================
