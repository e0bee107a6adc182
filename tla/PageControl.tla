------------------------------ MODULE PageControl ------------------------------
(***************************************************************************)
(* One browser process in tab mode: the monitor goroutine that keeps a     *)
(* control session to Chromium (monitorDevTools and the first half of      *)
(* runDevTools in internal/supervisor/cdp.go), the page switches that move *)
(* it to another tab (showPage, switchTab) and the goroutine that reveals  *)
(* a new tab once it has loaded, and the preloaders, which open the pages  *)
(* marked "preload" (tabs.go).                                             *)
(*                                                                         *)
(* They share the browser's tab bookkeeping under b.mu and otherwise       *)
(* run side by side; one step is one section under b.mu or one command to  *)
(* Chromium.  Page switches hold the operation gate, so there is one at a  *)
(* time.  Inserts, edited page addresses and isolated sessions are left    *)
(* out; the loop of an attached session is SessionLoop.                    *)
(***************************************************************************)
EXTENDS Naturals, FiniteSets, Sequences

CONSTANTS
  MaxPages,      \* the kiosk's pages are 1 .. MaxPages
  MaxTabs,       \* maxTabs: tabs kept open
  Preloaded,     \* pages marked "preload", which are never evicted
  MaxTargets,    \* bound on tabs opened
  MaxSwitches,   \* bound on page switches
  MaxFaults      \* bound on failed commands and lost sessions

ASSUME PagesAssumption   == MaxPages \in Nat \ {0} /\ Preloaded \subseteq 1 .. MaxPages
ASSUME TabsAssumption    == MaxTabs \in 1 .. 8
ASSUME TargetsAssumption == MaxTargets \in Nat \ {0}
ASSUME BoundsAssumption  == MaxSwitches \in Nat /\ MaxFaults \in Nat

VARIABLES
  active,        \* b.active
  tabs,          \* b.tabs: the tab kept for each page, 0 for none
  tabUse,        \* b.tabUse: pages with a tab, least recently used first
  activeTarget,  \* b.activeTarget, 0 for none
  retarget,      \* b.retarget
  pendingBlank,  \* b.pendingBlank: new tabs still to be navigated
  revealTarget,  \* b.revealTarget, 0 for none
  opened,        \* number of tabs Chromium has opened; tab 1 is there at the launch
  open,          \* the tabs Chromium has
  front,         \* the tab on the screen
  content,       \* the page loaded in each tab, 0 for about:blank
  mon,           \* the monitor: where it is, the tab it prefers, its session's tab
  live,          \* the session of the monitor is connected
  attached,      \* b.control is that session
  navigated,     \* the monitor's navigated
  preloaders,    \* the preloaders started so far, each with the pages it still has to open
  reveal,        \* the reveal goroutine of the session: none, waiting, showing
  sw,            \* the page switch in progress
  ready,         \* b.readySince is set
  failures,      \* b.controlFailures
  degraded,      \* b.recovery.State is "degraded"
  guard,         \* b.authGuard.Tripped
  stopped,       \* b.manuallyStopped
  planned,       \* history: the session was closed by a page switch
  lost,          \* history: sessions lost or not made since the last that was made
  switches, faults  \* bound counters

tabVars     == <<active, tabs, tabUse, activeTarget, retarget, pendingBlank, revealTarget>>
chromeVars  == <<opened, open, front, content>>
sessionVars == <<live, attached, navigated, reveal, planned, lost>>
statusVars  == <<ready, failures, degraded>>
heldVars    == <<guard, stopped>>
boundVars   == <<switches, faults>>
vars        == <<tabVars, chromeVars, mon, sessionVars, sw, preloaders, statusVars, heldVars,
                 boundVars>>

Pages    == 1 .. MaxPages
Targets  == 1 .. MaxTargets
GiveUpAt == 5
PCs      == {"look", "dial", "bind", "enable", "navigate", "serve", "after", "book",
             "complain", "pause", "recover", "ended", "gone"}
NoSwitch == [pc |-> "idle", page |-> 1, id |-> 0, created |-> FALSE, control |-> FALSE,
             evict |-> {}]

FlagsTyped ==
  /\ retarget \in BOOLEAN /\ live \in BOOLEAN /\ attached \in BOOLEAN /\ navigated \in BOOLEAN
  /\ planned \in BOOLEAN /\ ready \in BOOLEAN /\ degraded \in BOOLEAN
  /\ guard \in BOOLEAN /\ stopped \in BOOLEAN

TabsTyped ==
  /\ active \in Pages
  /\ tabs \in [Pages -> Targets \cup {0}]
  /\ activeTarget \in Targets \cup {0} /\ revealTarget \in Targets \cup {0}
  /\ pendingBlank \subseteq Targets
  /\ opened \in Targets /\ open \subseteq Targets /\ front \in Targets
  /\ content \in [Targets -> Pages \cup {0}]

ActorsTyped ==
  /\ mon \in [pc : PCs, preferred : Targets \cup {0}, target : Targets \cup {0}]
  /\ reveal \in {"none", "waiting", "showing"}
  /\ sw \in [pc : {"idle", "tab", "book", "close"}, page : Pages, id : Targets \cup {0},
             created : BOOLEAN, control : BOOLEAN, evict : SUBSET Targets]
  /\ preloaders \in Seq([pc : {"start", "look", "open", "book"}, todo : SUBSET Preloaded,
                          id : Targets \cup {0}])

CountsTyped ==
  /\ failures \in 0 .. GiveUpAt /\ lost \in 0 .. GiveUpAt
  /\ switches \in 0 .. MaxSwitches /\ faults \in 0 .. MaxFaults

StateTyped == FlagsTyped /\ TabsTyped /\ ActorsTyped /\ CountsTyped

TypeOK ==
  /\ StateTyped
  /\ Len(preloaders) <= opened
  /\ tabUse \in Seq(Pages) /\ Len(tabUse) <= opened

\* start has published the process and reset the bookkeeping; Chromium shows one blank
\* tab.
Init ==
  /\ active = 1
  /\ tabs = [p \in Pages |-> 0] /\ tabUse = <<>>
  /\ activeTarget = 0 /\ retarget = FALSE /\ pendingBlank = {} /\ revealTarget = 0
  /\ opened = 1 /\ open = {1} /\ front = 1 /\ content = [t \in Targets |-> 0]
  /\ mon = [pc |-> "look", preferred |-> 0, target |-> 0]
  /\ live = FALSE /\ attached = FALSE /\ navigated = FALSE /\ reveal = "none"
  /\ planned = FALSE /\ lost = 0
  /\ sw = NoSwitch /\ preloaders = <<>>
  /\ ready = FALSE /\ failures = 0 /\ degraded = FALSE
  /\ guard = FALSE /\ stopped = FALSE
  /\ switches = 0 /\ faults = 0

Fault     == faults < MaxFaults /\ faults' = faults + 1 /\ UNCHANGED switches
GoTo(pc)  == mon' = [mon EXCEPT !.pc = pc]
At(pc)    == mon.pc = pc
Gone      == mon.pc \in {"recover", "ended", "gone"}

UpToFive(n) == IF n < GiveUpAt THEN n + 1 ELSE n

Rank(K, i) == Cardinality({j \in K : j <= i})

\* The entries of the list that are not in S, in their order.
Without(use, S) ==
  LET kept == {i \in 1 .. Len(use) : use[i] \notin S}
  IN  [k \in 1 .. Cardinality(kept) |-> use[CHOOSE i \in kept : Rank(kept, i) = k]]

\* touchTabLocked
Touched(p) == Append(Without(tabUse, {p}), p)

-----------------------------------------------------------------------------
(***************************************************************************)
(* The monitor                                                             *)
(***************************************************************************)

Look ==
  /\ At("look")
  /\ mon' = [mon EXCEPT !.pc = "dial", !.preferred = activeTarget]
  /\ UNCHANGED <<tabVars, chromeVars, sessionVars, sw, statusVars, heldVars, boundVars,
                 preloaders>>

\* dialDevTools: a session to the preferred tab, or to some tab when it is gone.
Dial ==
  /\ At("dial")
  /\ \E t \in open :
       /\ mon.preferred \in open => t = mon.preferred
       /\ mon' = [mon EXCEPT !.pc = "bind", !.target = t]
  /\ live' = TRUE /\ attached' = FALSE /\ planned' = FALSE
  /\ sw' = [sw EXCEPT !.control = FALSE]
  /\ UNCHANGED <<tabVars, chromeVars, navigated, reveal, lost, statusVars, heldVars, boundVars,
                 preloaders>>

\* bindControlTarget: the first session records its tab as that of the active page; a
\* tab that was opened blank is to be navigated.
Bind ==
  /\ At("bind")
  /\ GoTo("enable")
  /\ IF activeTarget # 0
     THEN UNCHANGED <<activeTarget, tabs, tabUse>>
     ELSE /\ activeTarget' = mon.target
          /\ IF tabs[active] # 0
             THEN UNCHANGED <<tabs, tabUse>>
             ELSE tabs' = [tabs EXCEPT ![active] = mon.target] /\ tabUse' = Touched(active)
  /\ pendingBlank' = pendingBlank \ {mon.target}
  /\ navigated' = (navigated /\ mon.target \notin pendingBlank)
  /\ UNCHANGED <<active, retarget, revealTarget, chromeVars, live, attached, reveal, planned,
                 lost, sw, statusVars, heldVars, boundVars, preloaders>>

\* Entering the loop starts the goroutine that reveals a tab still in the background.
Serving == reveal' = IF revealTarget = mon.target THEN "waiting" ELSE "none"

FailuresKept      == UNCHANGED failures             \* weakened form of FailuresForgotten
FailuresForgotten == failures' = 0

\* The domains are enabled and the session becomes b.control.
Attach ==
  /\ At("enable") /\ live
  /\ attached' = TRUE
  /\ FailuresForgotten /\ lost' = 0
  /\ IF navigated
     THEN GoTo("serve") /\ Serving
     ELSE GoTo("navigate") /\ UNCHANGED reveal
  /\ UNCHANGED <<tabVars, chromeVars, live, navigated, planned, sw, ready, degraded, heldVars,
                 boundVars, preloaders>>

\* Every first navigation of a tab starts a preloader, which outlives the session.
StartPreloader ==
  IF Preloaded = {}
  THEN UNCHANGED preloaders
  ELSE preloaders' = Append(preloaders, [pc |-> "start", todo |-> Preloaded, id |-> 0])

\* The tab of the session gets the page that is active now.
Navigate ==
  /\ At("navigate") /\ live /\ ~guard
  /\ content' = [content EXCEPT ![mon.target] = active]
  /\ navigated' = TRUE
  /\ StartPreloader
  /\ ready' = TRUE /\ degraded' = FALSE
  /\ GoTo("serve") /\ Serving
  /\ UNCHANGED <<tabVars, opened, open, front, live, attached, planned, lost, sw, failures,
                 heldVars, boundVars>>

\* The session cannot be made, a command on it fails or it is lost, also because a page
\* switch closed it; or a page that is about to be opened is blocked by the guard.
SessionEnds ==
  /\ mon.pc \in {"dial", "enable", "navigate", "serve"}
  /\ \/ mon.pc # "dial" /\ ~live /\ UNCHANGED boundVars
     \/ At("navigate") /\ guard /\ UNCHANGED boundVars
     \/ Fault
  /\ GoTo("after")
  /\ live' = FALSE /\ reveal' = "none"
  /\ lost' = UpToFive(lost)
  /\ UNCHANGED <<tabVars, chromeVars, attached, navigated, planned, sw, statusVars, heldVars,
                 preloaders>>

\* Home Assistant rejects the session of the page: the loop ends by itself.
Rejected ==
  /\ At("serve") /\ live
  /\ guard' = TRUE
  /\ GoTo("after")
  /\ live' = FALSE /\ reveal' = "none"
  /\ UNCHANGED <<tabVars, chromeVars, attached, navigated, planned, lost, sw, statusVars, stopped,
                 boundVars, preloaders>>

EndsAfterSwitch == IF retarget THEN "ended" ELSE "book"  \* weakened form of AfterSession
AfterSession    == IF retarget THEN "look" ELSE "book"

\* consumeRetarget: a planned switch to another tab is no failure.
ConsumeRetarget ==
  /\ At("after")
  /\ GoTo(AfterSession)
  /\ retarget' = FALSE /\ planned' = (planned /\ ~retarget)
  /\ UNCHANGED <<active, tabs, tabUse, activeTarget, pendingBlank, revealTarget, chromeVars, live,
                 attached, navigated, reveal, lost, sw, statusVars, heldVars, boundVars,
                 preloaders>>

\* A control failure is booked; the fifth in a row since the last session is taken to a
\* recovery, if the browser was ready once and nobody stopped it.
BookFailure ==
  /\ At("book")
  /\ attached' = FALSE
  /\ IF guard
     THEN GoTo("pause") /\ UNCHANGED <<failures, degraded>>
     ELSE /\ failures' = UpToFive(failures)
          /\ degraded' = (degraded \/ ready)
          /\ GoTo(IF ready /\ failures' >= GiveUpAt /\ ~stopped THEN "complain" ELSE "pause")
  /\ UNCHANGED <<tabVars, chromeVars, live, navigated, reveal, planned, lost, sw, ready, heldVars,
                 boundVars, preloaders>>

\* A tripped guard ends the monitor; otherwise it asks for a recovery and ends, or it
\* waits and starts over.
Decide ==
  /\ mon.pc \in {"complain", "pause"}
  /\ GoTo(CASE guard -> "ended" [] ~guard /\ At("complain") -> "recover" [] OTHER -> "look")
  /\ UNCHANGED <<tabVars, chromeVars, sessionVars, sw, statusVars, heldVars, boundVars,
                 preloaders>>

Monitor ==
  Look \/ Dial \/ Bind \/ Attach \/ Navigate \/ ConsumeRetarget \/ BookFailure \/ Decide

\* The guard trips or Stop is called elsewhere; either soon ends the process.
Held ==
  /\ ~Gone
  /\ \/ ~guard /\ guard' = TRUE /\ UNCHANGED stopped
     \/ ~stopped /\ stopped' = TRUE /\ UNCHANGED guard
  /\ UNCHANGED <<tabVars, chromeVars, mon, sessionVars, sw, statusVars, boundVars, preloaders>>

\* The process exits: done is closed and the monitor returns.
ProcessEnds ==
  /\ ~Gone
  /\ GoTo("gone")
  /\ UNCHANGED <<tabVars, chromeVars, sessionVars, sw, statusVars, heldVars, boundVars,
                 preloaders>>

-----------------------------------------------------------------------------
(***************************************************************************)
(* Page switches                                                           *)
(***************************************************************************)

\* showPage: the wanted page becomes active before anything is done for it.
ShowPage(p) ==
  /\ ~Gone /\ ~guard
  /\ sw.pc = "idle" /\ switches < MaxSwitches
  /\ p # active
  /\ switches' = switches + 1
  /\ active' = p
  /\ sw' = [sw EXCEPT !.pc = "tab", !.page = p, !.id = tabs[p]]
  /\ UNCHANGED <<tabs, tabUse, activeTarget, retarget, pendingBlank, revealTarget, chromeVars,
                 mon, sessionVars, statusVars, heldVars, faults, preloaders>>

ActivateTab ==
  /\ sw.id \in open
  /\ front' = sw.id
  /\ sw' = [sw EXCEPT !.pc = "book", !.created = FALSE]
  /\ UNCHANGED <<mon, content, opened, open, faults>>

\* Without a tab, or with one that cannot be activated, a new one is opened blank in
\* the background.
CreateTab ==
  /\ opened < MaxTargets
  /\ \/ sw.id = 0 /\ UNCHANGED faults
     \/ sw.id # 0 /\ faults < MaxFaults /\ faults' = faults + 1
  /\ opened' = opened + 1
  /\ open' = open \cup {opened + 1}
  /\ sw' = [sw EXCEPT !.pc = "book", !.id = opened + 1, !.created = TRUE]
  /\ UNCHANGED <<mon, content, front>>

\* No tab can be had: the page is loaded through b.control, whatever tab that is, or
\* the browser is restarted.
NavigateInstead ==
  /\ faults < MaxFaults /\ faults' = faults + 1
  /\ IF attached /\ live
     THEN content' = [content EXCEPT ![mon.target] = active] /\ UNCHANGED mon
     ELSE GoTo("gone") /\ UNCHANGED content
  /\ sw' = NoSwitch
  /\ UNCHANGED <<opened, open, front>>

\* switchTab, up to the tab it has got from Chromium.
OpenTab ==
  /\ ~Gone
  /\ sw.pc = "tab"
  /\ ActivateTab \/ CreateTab \/ NavigateInstead
  /\ UNCHANGED <<tabVars, sessionVars, statusVars, heldVars, switches, preloaders>>

EvictsPreloaded(use, keep) ==                       \* weakened form of Evictable
  {i \in 1 .. Len(use) : use[i] # keep}

Evictable(use, keep) ==
  {i \in 1 .. Len(use) : use[i] # keep /\ use[i] \notin Preloaded}

\* evictTabsLocked: pages go from the front of the list while there are too many,
\* except those marked preload and the one to be shown.
Evicted(use, keep) ==
  LET surplus == IF Len(use) > MaxTabs THEN Len(use) - MaxTabs ELSE 0
  IN  {p \in Pages : \E i \in Evictable(use, keep) :
                       use[i] = p /\ Rank(Evictable(use, keep), i) <= surplus}

TabsStay(id, losers) ==                             \* weakened form of TabsAfter
  [tabs EXCEPT ![sw.page] = id]

TabsAfter(id, losers) ==
  [p \in Pages |-> IF p = sw.page THEN id ELSE IF p \in losers THEN 0 ELSE tabs[p]]

RetargetsNothing == UNCHANGED retarget              \* weakened form of Retargets
Retargets        == retarget' = TRUE

\* switchTab, under the lock: the tab is recorded, tabs above the limit are forgotten
\* and the monitor is told to move.
BookTab ==
  /\ sw.pc = "book"
  /\ LET use    == Touched(sw.page)
         losers == Evicted(use, sw.page)
     IN  /\ tabUse' = Without(use, losers)
         /\ tabs' = TabsAfter(sw.id, losers)
         /\ sw' = [sw EXCEPT !.pc = "close", !.control = attached,
                             !.evict = {tabs[p] : p \in losers} \ {0, sw.id}]
  /\ pendingBlank' = IF sw.created THEN pendingBlank \cup {sw.id} ELSE pendingBlank
  /\ revealTarget' = IF sw.created THEN sw.id ELSE 0
  /\ activeTarget' = sw.id
  /\ Retargets
  /\ UNCHANGED <<active, chromeVars, mon, sessionVars, statusVars, heldVars, boundVars,
                 preloaders>>

\* The forgotten tabs are closed, and the control session that was read under the lock.
CloseTabs ==
  /\ sw.pc = "close"
  /\ open' = open \ sw.evict
  /\ live' = (live /\ ~sw.control /\ mon.target \notin sw.evict)
  /\ planned' = (planned \/ (live /\ sw.control))
  /\ sw' = NoSwitch
  /\ UNCHANGED <<tabVars, opened, front, content, mon, attached, navigated, reveal, lost,
                 statusVars, heldVars, boundVars, preloaders>>

-----------------------------------------------------------------------------
(***************************************************************************)
(* The reveal of a new tab                                                 *)
(***************************************************************************)

\* revealWhenLoaded: the page has loaded, or long enough was waited for it, and its tab
\* is still the one to be revealed.
RevealDue ==
  /\ reveal = "waiting"
  /\ reveal' = IF revealTarget = mon.target THEN "showing" ELSE "none"
  /\ UNCHANGED <<tabVars, chromeVars, mon, live, attached, navigated, planned, lost, sw,
                 statusVars, heldVars, boundVars, preloaders>>

\* The tab is brought to the front and, if nothing has changed, done.
RevealShows ==
  /\ reveal = "showing" /\ live
  /\ front' = mon.target
  /\ revealTarget' = IF revealTarget = mon.target THEN 0 ELSE revealTarget
  /\ reveal' = "none"
  /\ UNCHANGED <<active, tabs, tabUse, activeTarget, retarget, pendingBlank, opened, open,
                 content, mon, live, attached, navigated, planned, lost, sw, statusVars, heldVars,
                 boundVars, preloaders>>

-----------------------------------------------------------------------------
(***************************************************************************)
(* Preloading                                                              *)
(***************************************************************************)

\* A preloader does nothing when the guard has tripped or Chromium cannot be reached.
PreloadStarts(i) ==
  /\ preloaders[i].pc = "start"
  /\ \/ ~guard /\ preloaders' = [preloaders EXCEPT ![i].pc = "look"] /\ UNCHANGED boundVars
     \/ /\ (guard /\ UNCHANGED boundVars) \/ Fault
        /\ preloaders' = [preloaders EXCEPT ![i].pc = "look", ![i].todo = {}]
  /\ UNCHANGED <<opened, open, content, tabs, tabUse>>

NextPage(i, p) == p \in preloaders[i].todo /\ \A q \in preloaders[i].todo : p <= q

\* The pages are taken in their order; one that has a tab is passed over.
PreloadLooks(i) ==
  /\ preloaders[i].pc = "look"
  /\ \E p \in Preloaded :
       /\ NextPage(i, p)
       /\ preloaders' = IF tabs[p] # 0
                        THEN [preloaders EXCEPT ![i].todo = @ \ {p}]
                        ELSE [preloaders EXCEPT ![i].pc = "open"]
  /\ UNCHANGED <<opened, open, content, tabs, tabUse, boundVars>>

\* A tab is opened in the background with the page in it, or the page is given up.
PreloadOpens(i) ==
  /\ preloaders[i].pc = "open"
  /\ \E p \in Preloaded :
       /\ NextPage(i, p)
       /\ \/ /\ opened < MaxTargets
             /\ opened' = opened + 1 /\ open' = open \cup {opened + 1}
             /\ content' = [content EXCEPT ![opened + 1] = p]
             /\ preloaders' = [preloaders EXCEPT ![i].pc = "book", ![i].id = opened + 1]
             /\ UNCHANGED boundVars
          \/ /\ Fault
             /\ preloaders' = [preloaders EXCEPT ![i].pc = "look", ![i].todo = @ \ {p}]
             /\ UNCHANGED <<opened, open, content>>
  /\ UNCHANGED <<tabs, tabUse>>

\* Under the lock the tab becomes that of the page and the page the first to be evicted,
\* whatever has happened to the page since the look.
PreloadBooks(i) ==
  /\ preloaders[i].pc = "book"
  /\ \E p \in Preloaded :
       /\ NextPage(i, p)
       /\ tabs' = [tabs EXCEPT ![p] = preloaders[i].id]
       /\ tabUse' = <<p>> \o tabUse
       /\ preloaders' = [preloaders EXCEPT ![i].pc = "look", ![i].todo = @ \ {p}, ![i].id = 0]
  /\ UNCHANGED <<opened, open, content, boundVars>>

Preload(i) ==
  /\ ~Gone
  /\ PreloadStarts(i) \/ PreloadLooks(i) \/ PreloadOpens(i) \/ PreloadBooks(i)
  /\ UNCHANGED <<active, activeTarget, retarget, pendingBlank, revealTarget, front, mon,
                 sessionVars, sw, statusVars, heldVars>>

-----------------------------------------------------------------------------

Switch == OpenTab \/ BookTab \/ CloseTabs
Reveal == RevealDue \/ RevealShows

Next ==
  \/ Monitor \/ SessionEnds \/ Rejected \/ Held \/ ProcessEnds
  \/ \E p \in Pages : ShowPage(p)
  \/ Switch
  \/ Reveal
  \/ \E i \in DOMAIN preloaders : Preload(i)

Spec == Init /\ [][Next]_vars

\* The monitor takes its next step, and notices a session that was closed.  Nothing is
\* asked of the other goroutines: what it does must not hang on them.
Fairness ==
  /\ WF_vars(Monitor)
  /\ WF_vars(SessionEnds /\ UNCHANGED faults)

FairSpec == Spec /\ Fairness

-----------------------------------------------------------------------------
(***************************************************************************)
(* Properties                                                              *)
(***************************************************************************)

\* A page switch, which closes the control session, is never booked as a failure of
\* the control: switching pages often cannot restart the browser (consumeRetarget).
SwitchIsNoFailure ==
  [][At("after") /\ mon'.pc = "book" => ~planned]_vars

\* The list by which tabs are evicted names exactly the pages with a tab, those not
\* preloaded once each, and every tab that is kept or to be controlled is one Chromium
\* still has (switchTab, evictTabsLocked, preloadTabs).
TabsAreConsistent ==
  /\ TypeOK
  /\ {p \in Pages : tabs[p] # 0} = {tabUse[i] : i \in 1 .. Len(tabUse)}
  /\ \A i, j \in 1 .. Len(tabUse) :
       tabUse[i] = tabUse[j] => i = j \/ tabUse[i] \in Preloaded
  /\ \A p \in Pages : tabs[p] # 0 => tabs[p] \in open
  /\ activeTarget # 0 => activeTarget \in open

\* The tab of a page marked "preload" and the tab of the page being shown stay open and
\* kept, however switches and preloaders follow each other (evictTabsLocked).
PreloadedAndShownStay ==
  [][\A p \in Preloaded \cup {active} :
       tabs[p] # 0 /\ tabs[p] \in open => tabs'[p] # 0 /\ tabs'[p] \in open']_vars

\* Once faults end, the monitor serves a session again, unless the guard holds the
\* browser, a recovery was asked for or the process is gone.
ControlComesBack ==
  mon.pc # "serve" ~> (mon.pc \in {"serve", "recover", "gone"} \/ guard)

\* The browser is restarted for its control only after five sessions in a row were lost
\* or not made: single losses spread over its life never add up (controlFailures).
FiveLossesInARow == At("recover") => lost = GiveUpAt

-----------------------------------------------------------------------------
(***************************************************************************)
(* The inductive invariant of the proofs                                   *)
(***************************************************************************)

\* The monitor has a session only between dialDevTools and the end of runDevTools.
LiveInv ==
  live => mon.pc \in {"bind", "enable", "navigate", "serve", "gone"} /\ mon.target # 0

\* A session that a switch has closed, or is about to close, leaves the mark that the
\* monitor consumes.
PlannedInv ==
  /\ planned => retarget
  /\ sw.pc = "close" /\ sw.control /\ live => retarget

\* While the guard is not tripped there are never more failures than losses, and one
\* less while a loss has still to be booked.
LossInv ==
  /\ ~guard => failures <= lost
  /\ ~guard /\ mon.pc \in {"after", "book"} => failures < lost \/ lost = GiveUpAt
  /\ ~guard /\ At("complain") => failures = GiveUpAt
  /\ At("recover") => lost = GiveUpAt

\* Tabs are numbered as they are opened, and no two pages share one.
TabInv ==
  /\ open \subseteq 1 .. opened
  /\ \A p \in Pages : tabs[p] <= opened
  /\ \A p, q \in Pages : tabs[p] # 0 /\ tabs[p] = tabs[q] => p = q
  /\ At("bind") => mon.target \in 1 .. opened

\* Before the first session has been bound, or a page switched, nothing has been recorded.
BoundInv ==
  activeTarget = 0 =>
    /\ \A p \in Pages : tabs[p] = 0
    /\ preloaders = <<>>
    /\ sw.pc # "close"
    /\ mon.pc \notin {"enable", "navigate", "serve"}

\* The tab that a switch works on is that of no other page, and those it closes are kept
\* for no page any more.
SwitchInv ==
  /\ sw.pc # "idle" => sw.page = active
  /\ sw.id <= opened
  /\ sw.pc \in {"tab", "book"} /\ sw.id # 0 => \A p \in Pages \ {active} : tabs[p] # sw.id
  /\ sw.pc = "book" => sw.id \in open
  /\ sw.pc = "close" => \A p \in Pages : tabs[p] \notin sw.evict
  /\ \A t \in sw.evict : t <= opened

Holding(i) == preloaders[i].pc = "book"

\* The tab that a preloader has opened is its own until it is booked.
PreloadInv ==
  /\ \A i \in DOMAIN preloaders : Holding(i) =>
       /\ preloaders[i].id \in open
       /\ preloaders[i].id # sw.id \/ sw.pc = "idle"
       /\ sw.pc = "close" => preloaders[i].id \notin sw.evict
       /\ \A p \in Pages : tabs[p] # preloaders[i].id
  /\ \A i, j \in DOMAIN preloaders :
       Holding(i) /\ Holding(j) /\ preloaders[i].id = preloaders[j].id => i = j

\* The list names the pages with a tab, those that are not preloaded once.
UseInv ==
  /\ tabUse \in Seq(Pages)
  /\ {p \in Pages : tabs[p] # 0} = {tabUse[i] : i \in 1 .. Len(tabUse)}
  /\ \A i, j \in 1 .. Len(tabUse) :
       tabUse[i] = tabUse[j] => i = j \/ tabUse[i] \in Preloaded

\* Only a page switch closes tabs, after it has made its own the active one; until then
\* the tab of the first session stays open too.
OpenInv ==
  /\ \A p \in Pages : tabs[p] # 0 => tabs[p] \in open
  /\ activeTarget # 0 => activeTarget \in open
  /\ At("bind") /\ activeTarget = 0 => mon.target \in open
  /\ sw.pc = "close" => activeTarget = sw.id /\ sw.id \notin sw.evict

One(P) == IF P THEN 1 ELSE 0

NewTabHeld == sw.pc = "book" /\ sw.created

\* Every preloader, and every entry of the list, took the opening of a tab of its own; tabs
\* that will start another, or make another entry, are counted before they do.
CountInv ==
  /\ sw.pc \in {"idle", "tab"} => ~sw.created
  /\ sw.pc \in {"tab", "book"} /\ sw.id # 0 /\ ~sw.created => tabs[sw.page] # 0
  /\ At("navigate") => ~navigated
  /\ Len(preloaders) + Cardinality(pendingBlank) + One(NewTabHeld) + One(~navigated) <= opened
  /\ Len(tabUse) + Cardinality({i \in DOMAIN preloaders : Holding(i)}) + One(NewTabHeld)
       + One(activeTarget = 0) <= opened

IInv ==
  /\ StateTyped /\ LiveInv /\ PlannedInv /\ LossInv
  /\ TabInv /\ BoundInv /\ SwitchInv /\ PreloadInv
  /\ UseInv /\ OpenInv /\ CountInv

=============================================================================
