---------------------------- MODULE MCConfigStore ----------------------------
(***************************************************************************)
(* Instances of ConfigStore for TLC: two requests, a file of an older       *)
(* version, one written by hand and none at all.                            *)
(***************************************************************************)
EXTENDS ConfigStore

Page(name, on) ==
  [id |-> NoId, name |-> name, on |-> on, url |-> name, seconds |-> 0, mode |-> ""]
Step(page) == [page |-> page, seconds |-> 60 + page]
Rule(page) == [page |-> page, disabled |-> FALSE]

Content(version, pages, rotation, rules) ==
  [version |-> version, pages |-> pages, rotation |-> rotation, rules |-> rules,
   mode |-> "", enabled |-> FALSE, refs |-> {}, hash |-> 0]

\* Version 2: the rotation repeats a page, the rules name pages by number.
Legacy == [Content(2, <<Page("b", FALSE), Page("a", TRUE), Page("c", TRUE)>>,
                   <<Step(2), Step(1), Step(2)>>, <<Rule(1), Rule(2)>>) EXCEPT !.hash = 1]
Fresh  == Content(4, <<Page("demo", TRUE)>>, <<[page |-> 1, seconds |-> 3600]>>, <<>>)

\* A file with one identifier twice, and one of a newer version.
Twice == [Content(0, <<Page("a", TRUE), Page("b", TRUE)>>, <<>>, <<Rule(1)>>)
            EXCEPT !.pages[1].id = <<"a">>, !.pages[2].id = <<"a">>]
Newer == Content(5, <<Page("a", TRUE)>>, <<>>, <<>>)

StartFiles  == {Legacy, NoConfig}
ImportFiles == {Twice, Newer}

\* No file and a file that cannot be read.
NoFile       == [file |-> "none"]
BrokenFile   == [file |-> "damaged"]

ChangeNames == {"password", "toggle", "repair"}
Apply(c, change) ==
  CASE change = "password" -> [c EXCEPT !.hash = 3 - (IF @ = 0 THEN 1 ELSE @)]
    [] change = "toggle"   -> [c EXCEPT !.enabled = ~@]
    [] change = "repair"   -> Repair(c)

EditNames == {"mode", "off"}
Edit(c, edit) ==
  CASE edit = "mode" -> [c EXCEPT !.mode = IF @ = "time" THEN "hybrid" ELSE "time"]
    [] edit = "off"  -> [c EXCEPT !.pages[1].on = ~@]

\* server.go:1476, "A save carries the revision it was based on; when the
\* configuration changed since (another browser, Home Assistant, a workflow),
\* refuse unless the user chose to overwrite."
NoChangeIsLost ==
  [][\A t \in Requests :
       /\ IsAt(t, "write") /\ th[t].kind = "save" /\ ~th[t].forced /\ cfg' # cfg /\ Up'
       => th[t].base = Public(cfg)]_vars

\* config.go:1097, "Added a default kiosk page because no active URL was configured": a
\* repaired configuration has a page that is on.
RepairAddsAPage ==
  [][\A t \in Requests :
       RepairNow(t) /\ th'[t].pc = "backup" => OnPages(th'[t].next) # <<>>]_vars

=============================================================================
