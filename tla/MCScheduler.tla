------------------------------ MODULE MCScheduler ------------------------------
(***************************************************************************)
(* Instances of Scheduler for TLC: a day of four minutes in two hours.      *)
(***************************************************************************)
EXTENDS Scheduler

Kiosk ==
  [pages |-> 3, enabled |-> TRUE, mode |-> "rotation",
   rotation |-> <<>>, timeRules |-> <<>>, inserts |-> <<>>,
   presence |-> "off", timeout |-> 1, powerOff |-> FALSE, tick |-> 2,
   reloadEvery |-> 0, reloadAt |-> Never, reloadCycles |-> 0, growth |-> FALSE]

Insert ==
  [page |-> 3, repeat |-> "interval", every |-> 2, minute |-> 0, times |-> {},
   duration |-> 1, window |-> <<>>, days |-> {}, priority |-> 0, topic |-> "",
   disabled |-> FALSE]

Rule(page, start, end, days) ==
  [page |-> page, start |-> start, end |-> end, days |-> days, disabled |-> FALSE]

\* A rotation with a conditional insert over it, and reloads after full rounds.
Rotating ==
  [Kiosk EXCEPT !.rotation = <<[page |-> 1, duration |-> 1], [page |-> 2, duration |-> 2]>>,
                !.inserts = <<[Insert EXCEPT !.repeat = "hourly", !.minute = 1,
                                             !.topic = "motion"]>>,
                !.reloadCycles = 1]

\* The rotation of one page, to which a rotation may be shortened.
Standing == [Kiosk EXCEPT !.rotation = <<[page |-> 1, duration |-> 1]>>]

\* Overlapping rules, one of them overnight, and a display that is off between.
Timed ==
  [Kiosk EXCEPT !.mode = "time", !.presence = "wake", !.reloadAt = 2, !.growth = TRUE,
                !.timeRules = <<Rule(1, 1, 2, {}), Rule(2, 3, 2, {0})>>]

\* No base programme: inserts of two priorities, and presence required.
Visited ==
  [Kiosk EXCEPT !.enabled = FALSE, !.presence = "require", !.reloadEvery = 3,
                !.inserts = <<Insert, [Insert EXCEPT !.repeat = "times", !.page = 2,
                                         !.times = {0, 1}, !.duration = 2,
                                         !.priority = 1, !.window = <<3, 2>>]>>]

AllConfigs == {Rotating, Standing, Timed, Visited}

AllWishes ==
  {[kind |-> "override", page |-> 2, minutes |-> 2, source |-> "admin", power |-> ""],
   [kind |-> "clear",    page |-> NoPage, minutes |-> 0, source |-> "", power |-> ""],
   [kind |-> "page",     page |-> 3, minutes |-> 0, source |-> "", power |-> ""],
   [kind |-> "display",  page |-> NoPage, minutes |-> 0, source |-> "", power |-> "OFF"]}

\* A rotation that is shortened.
Rotations == {Rotating, Standing}

\* Inserts without a base programme, while somebody has to be present.
OnlyVisited == {Visited}

\* Whenever two rules for different pages are active at once, the Admin page lists them
\* as a conflict (TimeRuleConflicts against activeTimeRule).
ASSUME ConflictsComplete ==
  \A kiosk \in AllConfigs, t \in 0..(Week * DayLen - 1) :
    \A r, q \in ActiveRules(kiosk, t) :
      r < q /\ kiosk.timeRules[r].page # kiosk.timeRules[q].page
      => <<r, q>> \in Conflicts(kiosk)

\* browser.go:737, "A config change may have altered rotation items/order, so the
\* previous rotation position is no longer meaningful": no position of an earlier
\* rotation is looked up in a later one.
RotationPositionIsMeaningful ==
  \A t \in Threads :
    IsAt(t, "extend") => rotation.index \in DOMAIN th[t].snap.rotation

\* browser.go:814, "or less when a rotation or time rule switch is due earlier, so pages
\* change on time": a scheduler asleep shows the page of the time rule of now.
RulesOnTime ==
  Asleep /\ now < wake /\ ~signalled /\ ~changed => RulesSeen(now)

\* browser.go:1417, "When it ends, the base programme's page returns, or the page
\* shown before the insert when the base programme names none": nobody but inserts
\* shows page 2 or 3 here, so they are gone when a round has found none.
InsertGoesAway ==
  Asleep /\ browser.running /\ Status("scheduler").reason = "disabled"
      /\ Wanted(cfg) = "ON"
    => browser.active = 1

=============================================================================
