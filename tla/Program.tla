------------------------------- MODULE Program -------------------------------
(***************************************************************************)
(* What the kiosk shall show when: the calendar arithmetic of time rules   *)
(* and inserts (internal/config/inserts.go, conflicts.go and the time      *)
(* rules of internal/supervisor/browser.go) as pure operators.             *)
(*                                                                         *)
(* A time is a number of minutes since midnight of day 0, a minute being   *)
(* the grain of everything here; Never stands for the zero time.  Pages    *)
(* are numbered from 1, NoPage is the code's -1.  Sun times and time zones *)
(* only choose the minutes that appear in a configuration.                 *)
(***************************************************************************)
EXTENDS Integers, Sequences, FiniteSetsExt, SequencesExt

CONSTANTS
  DayLen,      \* minutes in a day
  HourLen,     \* minutes in an hour
  Week         \* days in a week

ASSUME CalendarAssumption ==
  /\ {DayLen, HourLen, Week} \subseteq Nat \ {0}
  /\ DayLen % HourLen = 0

Never  == -1
NoPage == 0
NoSlot == [index |-> 0, start |-> Never, end |-> Never]

Minutes == 0..(DayLen - 1)
Day(t)     == t \div DayLen
Clock(t)   == t % DayLen
Weekday(d) == d % Week

\* The earlier of two times, either of which may be missing.
Sooner(s, t) == IF s = Never THEN t ELSE IF t = Never THEN s ELSE Min({s, t})

ClampPage(page, count) ==
  IF count = 0 THEN NoPage ELSE IF page < 1 THEN 1 ELSE Min({page, count})

DayMatches(days, weekday) == days = {} \/ weekday \in days

\* [from, to) on the clock, across midnight when it ends before it starts.
InWindow(from, to, m) ==
  IF from <= to THEN from <= m /\ m < to ELSE from <= m \/ m < to

-----------------------------------------------------------------------------
(* Time rules: the first one that covers the moment names the page.        *)

RuleActive(rule, t) ==
  /\ ~rule.disabled
  /\ DayMatches(rule.days, Weekday(Day(t)))
  /\ InWindow(rule.start, rule.end, Clock(t))

\* The window's end, which is tomorrow's for the evening of an overnight rule.
RuleEnds(rule, t) ==
  Day(t) * DayLen + rule.end
    + (IF rule.start > rule.end /\ Clock(t) >= rule.start THEN DayLen ELSE 0)

ActiveRules(kiosk, t) ==
  {r \in DOMAIN kiosk.timeRules : RuleActive(kiosk.timeRules[r], t)}

ClockSegments(from, to) ==
  CASE from = to -> {<<0, DayLen>>}
    [] from < to -> {<<from, to>>}
    [] OTHER     -> {<<from, DayLen>>, <<0, to>>}

DaysOverlap(a, b) == a = {} \/ b = {} \/ a \cap b # {}

TimeRulesOverlap(a, b) ==
  /\ DaysOverlap(a.days, b.days)
  /\ \E x \in ClockSegments(a.start, a.end), y \in ClockSegments(b.start, b.end) :
       x[1] < y[2] /\ y[1] < x[2]

\* The Admin page's warning about two rules for different pages.
Conflicts(kiosk) ==
  LET rules == kiosk.timeRules IN
  {p \in (DOMAIN rules) \X (DOMAIN rules) :
     /\ p[1] < p[2]
     /\ ~rules[p[1]].disabled /\ ~rules[p[2]].disabled
     /\ rules[p[1]].page # rules[p[2]].page
     /\ TimeRulesOverlap(rules[p[1]], rules[p[2]])}

-----------------------------------------------------------------------------
(* Inserts: pages shown for a while on a rhythm, on top of the programme.  *)

\* validateInserts
ValidInsert(insert) ==
  /\ {"repeat", "times", "duration", "priority"} \subseteq DOMAIN insert
  /\ insert.repeat \in {"interval", "hourly", "times"} /\ insert.times \subseteq Minutes
  /\ insert.duration \in Nat /\ insert.priority \in Int

IsList(s) == Len(s) \in Nat /\ s = [i \in 1..Len(s) |-> s[i]]

\* What is numbered in a saved programme, as far as validation and defaults see to it.
ValidProgram(kiosk) ==
  /\ {"pages", "timeout", "tick", "timeRules", "rotation", "inserts"} \subseteq DOMAIN kiosk
  /\ {kiosk.pages, kiosk.timeout, kiosk.tick} \subseteq Nat
  /\ IsList(kiosk.timeRules)
  /\ \A r \in DOMAIN kiosk.timeRules :
       kiosk.timeRules[r].page \in Int /\ kiosk.timeRules[r].end \in Nat
  /\ IsList(kiosk.rotation) /\ \A i \in DOMAIN kiosk.rotation : kiosk.rotation[i].duration \in Nat
  /\ IsList(kiosk.inserts) /\ \A i \in DOMAIN kiosk.inserts : ValidInsert(kiosk.inserts[i])

SlotMinutes(insert) ==
  CASE insert.repeat = "interval" -> {m \in Minutes : m % insert.every = 0}
    [] insert.repeat = "hourly"   -> {m \in Minutes : m % HourLen = insert.minute}
    [] insert.repeat = "times"    -> insert.times

\* A window is a pair of clocks, or empty when there is none.
Allows(insert, day, m) ==
  /\ DayMatches(insert.days, Weekday(day))
  /\ insert.window = <<>> \/ insert.window[1] = insert.window[2]
       \/ InWindow(insert.window[1], insert.window[2], m)

EnabledPage(kiosk, page) == IF page \in 1..kiosk.pages THEN page ELSE NoPage

InsertDuration(insert) == Min({insert.duration, HourLen})

\* Every run of an enabled insert that overlaps [from, to).
InsertSlots(kiosk, from, to) ==
  LET shown == {i \in DOMAIN kiosk.inserts :
                  /\ ~kiosk.inserts[i].disabled
                  /\ EnabledPage(kiosk, kiosk.inserts[i].page) # NoPage}
      runs(i) == {[index |-> i, start |-> d * DayLen + m,
                   end |-> d * DayLen + m + InsertDuration(kiosk.inserts[i])] :
                    d \in {e \in (Day(from) - 1)..Day(to) : e * DayLen < to},
                    m \in SlotMinutes(kiosk.inserts[i])}
  IN {s \in UNION {runs(i) : i \in shown} :
        /\ s.end > from /\ s.start < to
        /\ Allows(kiosk.inserts[s.index], Day(s.start), Clock(s.start))}

Wins(kiosk, a, b) ==
  LET pa == kiosk.inserts[a.index].priority
      pb == kiosk.inserts[b.index].priority
  IN pa > pb \/ (pa = pb /\ a.index <= b.index)

\* The winner among the slots that are running at t.
Winner(kiosk, slots, t) ==
  LET running == {s \in slots : s.start <= t /\ t < s.end}
  IN IF running = {} THEN NoSlot
     ELSE CHOOSE s \in running : \A o \in running : Wins(kiosk, s, o)

ActiveInsert(kiosk, t) == Winner(kiosk, InsertSlots(kiosk, t, t + 1), t)

\* Weakened form of NextInsertChange: the ends are left out.
NextInsertStart(kiosk, t) ==
  LET moments == {m \in {s.start : s \in InsertSlots(kiosk, t, t + 2 * DayLen)} : m > t}
  IN IF moments = {} THEN Never ELSE Min(moments)

NextInsertChange(kiosk, t) ==
  LET slots == InsertSlots(kiosk, t, t + 2 * DayLen)
      moments == {m \in {s.start : s \in slots} \cup {s.end : s \in slots} : m > t}
  IN IF moments = {} THEN Never ELSE Min(moments)

\* Consecutive cuts as pieces with their winner, neighbours with one winner joined.
Pieces(kiosk, slots, cuts) ==
  LET piece(i) == [start |-> cuts[i], end |-> cuts[i + 1],
                   insert |-> Winner(kiosk, slots, cuts[i]).index]
      join(out, s) ==
        IF out # <<>> /\ Last(out).insert = s.insert
        THEN [out EXCEPT ![Len(out)].end = s.end]
        ELSE Append(out, s)
  IN FoldLeft(join, <<>>, [i \in 1..(Len(cuts) - 1) |-> piece(i)])

\* Weakened form of ProgramTimeline: not cut where an insert ends.
TimelineCutAtStarts(kiosk, from, to) ==
  LET slots == InsertSlots(kiosk, from, to)
      inner == {m \in {s.start : s \in slots} : from < m /\ m < to}
  IN Pieces(kiosk, slots, SetToSortSeq(inner \cup {from, to}, <))

\* The timeline of the Admin page: [from, to) cut where anything starts or ends.
ProgramTimeline(kiosk, from, to) ==
  LET slots == InsertSlots(kiosk, from, to)
      inner == {m \in {s.start : s \in slots} \cup {s.end : s \in slots} :
                  from < m /\ m < to}
  IN Pieces(kiosk, slots, SetToSortSeq(inner \cup {from, to}, <))

=============================================================================
