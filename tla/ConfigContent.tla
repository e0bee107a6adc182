---------------------------- MODULE ConfigContent ----------------------------
(***************************************************************************)
(* What internal/config makes of a configuration before it is saved: the    *)
(* schema migration, the migration of a rotation into the sequence of pages, *)
(* page identifiers, and the values that normalize and Repair fill in.       *)
(*                                                                         *)
(* A configuration is a record [version, pages, rotation, rules, mode,      *)
(* enabled, refs, hash].  A page is [id, name, on, url, seconds, mode];      *)
(* `on' says that it is enabled and has an address.  Rotation and time rules *)
(* count the pages that are on, from 1.  An identifier is the sequence of    *)
(* its parts, so that "kitchen_2" is <<"kitchen", 2>>.                       *)
(***************************************************************************)
EXTENDS Integers, Sequences, FiniteSets, SequencesExt

CONSTANTS
  CurrentVersion,   \* 4 in the code
  DefaultSeconds    \* 3600 in the code

NoId == <<>>

OnPages(c) == SelectSeq(c.pages, LAMBDA p : p.on)

Ids(c) == {c.pages[i].id : i \in DOMAIN c.pages}

\* migrateSchema: version 0 stands for an import without one.
MigrateSchema(c) ==
  LET old == c.version < 3 IN
  [c EXCEPT
     !.version = IF c.version < CurrentVersion THEN CurrentVersion ELSE @,
     !.enabled = @ \/ (old /\ c.rules # <<>>),
     !.mode = IF old /\ c.rules # <<>> /\ @ \in {"", "rotation"}
              THEN IF c.rotation = <<>> THEN "time" ELSE "hybrid" ELSE @]

\* Where the sequence of pages has to be built from the rotation.
NeedsSequence(c) ==
  /\ c.rotation # <<>> /\ OnPages(c) # <<>>
  /\ \A i \in DOMAIN c.pages : c.pages[i].id = NoId
  /\ \A i \in DOMAIN c.rotation : c.rotation[i].page \in DOMAIN OnPages(c)
  /\ ~(/\ Len(c.rotation) = Len(OnPages(c))
       /\ \A i \in DOMAIN c.rotation : c.rotation[i].page = i)

SequenceOf(c) ==
  LET shown  == {c.rotation[i].page : i \in DOMAIN c.rotation}
      unused == SelectSeq([i \in DOMAIN OnPages(c) |-> i], LAMBDA i : i \notin shown)
  IN [order |-> [i \in DOMAIN c.rotation |-> c.rotation[i].page] \o unused,
      off   |-> SelectSeq(c.pages, LAMBDA p : ~p.on)]

FirstAt(order, page) == SelectInSeq(order, LAMBDA p : p = page)

\* Weakened form of MigrateSequence: the time rules keep their numbers.
MigrateOnlyPages(c) ==
  LET order == SequenceOf(c).order
      steps == [i \in DOMAIN order |->
                  IF i \in DOMAIN c.rotation
                  THEN [OnPages(c)[order[i]] EXCEPT !.seconds = c.rotation[i].seconds]
                  ELSE OnPages(c)[order[i]]]
  IN IF ~NeedsSequence(c) THEN c
     ELSE [c EXCEPT !.pages = steps \o SequenceOf(c).off,
                    !.rotation = [i \in DOMAIN c.rotation |-> [page |-> i,
                        seconds |-> IF steps[i].seconds = 0 THEN DefaultSeconds
                                    ELSE steps[i].seconds]]]

\* migrateLegacySequence: one page per step of the rotation, the others after it.
MigrateSequence(c) ==
  LET order == SequenceOf(c).order
      steps == [i \in DOMAIN order |->
                  IF i \in DOMAIN c.rotation
                  THEN [OnPages(c)[order[i]] EXCEPT !.seconds = c.rotation[i].seconds]
                  ELSE OnPages(c)[order[i]]]
      moved(rule) == LET at == FirstAt(order, rule.page)
                     IN IF at = 0 THEN rule ELSE [rule EXCEPT !.page = at]
  IN IF ~NeedsSequence(c) THEN c
     ELSE [c EXCEPT !.pages = steps \o SequenceOf(c).off,
                    !.rules = [r \in DOMAIN @ |-> moved(@[r])],
                    !.rotation = [i \in DOMAIN c.rotation |-> [page |-> i,
                        seconds |-> IF steps[i].seconds = 0 THEN DefaultSeconds
                                    ELSE steps[i].seconds]]]

\* uniquePageID: the base, or the base with the first free number from 2 on.
UniqueId(base, used) ==
  IF base \notin used THEN base
  ELSE LET free == {n \in 2..(Cardinality(used) + 2) : Append(base, n) \notin used}
       IN Append(base, CHOOSE n \in free : \A k \in free : n <= k)

\* Weakened form of GivenId: an identifier that is there is kept, even twice.
GivenIdKept(page, used) ==
  IF page.id = NoId THEN UniqueId(<<page.name>>, used) ELSE page.id

\* A page without an identifier is named after its name; a second use is renamed.
GivenId(page, used) ==
  UniqueId(IF page.id = NoId THEN <<page.name>> ELSE page.id, used)

\* normalizeKioskPages: pages in their order; rules and rotation are looked up
\* under the page's number in the whole list.
NormalizePages(c) ==
  LET rules(i) == {r \in DOMAIN c.rules : c.rules[r].page = i /\ ~c.rules[r].disabled}
      items(i) == SelectSeq(c.rotation, LAMBDA x : x.page = i /\ x.seconds > 0)
      filled(i, p, used) ==
        [p EXCEPT !.id = GivenId(p, used),
                  !.mode = IF @ # "" THEN @ ELSE IF rules(i) = {} THEN "duration"
                           ELSE "schedule",
                  !.seconds = IF @ > 0 THEN @ ELSE IF items(i) = <<>> THEN DefaultSeconds
                              ELSE Head(items(i)).seconds]
      add(done, i) ==
        Append(done, filled(i, c.pages[i], {done[k].id : k \in DOMAIN done}))
  IN [c EXCEPT !.pages = FoldLeft(add, <<>>, [i \in DOMAIN c.pages |-> i])]

DemoPage == [id |-> NoId, name |-> "demo", on |-> TRUE, url |-> "demo", seconds |-> 0,
             mode |-> ""]

\* PageURLs falls back to the addresses of before when every page is off, and normalize
\* leaves some: there is always an address by the time the rotation is filled in.
FillIn(c) ==
  LET mode == IF c.mode = "" THEN "rotation" ELSE c.mode
  IN [version |-> c.version, pages |-> c.pages, rules |-> c.rules, enabled |-> c.enabled,
      refs |-> c.refs, hash |-> c.hash, mode |-> mode,
      rotation |-> IF c.rotation = <<>> /\ mode # "time"
                   THEN <<[page |-> 1, seconds |-> DefaultSeconds]>> ELSE c.rotation]

WithPages(c) == IF c.pages = <<>> THEN [c EXCEPT !.pages = <<DemoPage>>] ELSE c

Normalize(c) == FillIn(NormalizePages(MigrateSequence(WithPages(MigrateSchema(c)))))

\* validateRules: the pages that rules name in a condition or an action are there.
RulesValid(c) == c.refs \subseteq Ids(c)

\* Validate, of what is kept here.
Valid(c) == c.version <= CurrentVersion /\ RulesValid(c)

\* Repair of a configuration that the program holds.  It would put a page in when there is
\* no address, but by the same fallback there is one, even with every page off.
Repair(c) == Normalize(c)

-----------------------------------------------------------------------------
(* What a configuration shows, for comparisons.                            *)

UrlOf(c, page) == OnPages(c)[page].url

Programme(c) ==
  [steps |-> [i \in DOMAIN c.rotation |->
                [url |-> UrlOf(c, c.rotation[i].page),
                 seconds |-> IF c.rotation[i].seconds = 0 THEN DefaultSeconds
                             ELSE c.rotation[i].seconds]],
   rules |-> [r \in DOMAIN c.rules |-> UrlOf(c, c.rules[r].page)]]

\* The rotation and the time rules name pages that are there.
InRange(c) ==
  /\ \A i \in DOMAIN c.rotation : c.rotation[i].page \in DOMAIN OnPages(c)
  /\ \A r \in DOMAIN c.rules : c.rules[r].page \in DOMAIN OnPages(c)

=============================================================================
