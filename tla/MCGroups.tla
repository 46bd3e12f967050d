------------------------------- MODULE MCGroups -------------------------------
(***************************************************************************)
(* A small instance of Groups for TLC.                                     *)
(***************************************************************************)
EXTENDS Groups

\* q1 and its reformatted and re-commented versions, and q2.
Queries == {"q1", "q1 spaced", "q1 commented", "q2"}

Spaceless == [q \in Queries |-> IF q = "q1 spaced" THEN "q1" ELSE q]

Hashed == [q \in Queries |-> IF q = "q2" THEN "q2" ELSE "q1"]

AlertOn(name, expr) == [kind |-> "alerting", name |-> name, expr |-> expr, labels |-> {}]

RecordOn(name, expr) == [kind |-> "recording", name |-> name, expr |-> expr, labels |-> {}]

InGroup(name, interval, labels, rules) ==
    [file |-> "f", name |-> name, interval |-> interval, labels |-> labels, rules |-> rules]

a == AlertOn("a", "q1")

OneMinute == <<"1m0s">>

Group(labels, rules) == InGroup(<<"g">>, <<>>, labels, rules)

\* Names and intervals are strings in pieces: <<"g">> with <<"1", "1m0s">>
\* reads as <<"g", "1">> with <<"1m0s">>.
Plain      == << Group({}, <<a>>) >>
Commented  == << Group({}, <<AlertOn("a", "q1 commented"), RecordOn("r", "q2")>>) >>
Labelled   == << Group({<<"team", "x">>}, <<a>>) >>
Edited     == << Group({}, <<AlertOn("a", "q2")>>) >>
Twice      == << Group({}, <<a>>), InGroup(<<"h">>, <<>>, {}, <<a>>) >>
SameID     == << InGroup(<<"g", "1">>, <<"1m0s">>, {}, <<AlertOn("a", "q2")>>),
                 InGroup(<<"g">>, <<"1", "1m0s">>, {}, <<a>>) >>
Duplicated == << Group({}, <<a, AlertOn("a", "q1 commented")>>) >>
Repeated   == << Group({}, <<a, AlertOn("a", "q1 spaced")>>) >>

AllContents == {Plain, Commented, Labelled, Edited, Twice, SameID, Duplicated, Repeated}
==============================================================================
