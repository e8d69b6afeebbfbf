-------------------------- MODULE MCAccessibility --------------------------
(***************************************************************************)
(* The networks of MCCalculator, asked for all nodes from or to a place.   *)
(***************************************************************************)
EXTENDS Accessibility, MCCalculator

From == [Base EXCEPT !.egress = NoFootpath]

To == [Base EXCEPT !.access = NoFootpath, !.forward = FALSE, !.time = OneOClock + 30]

PlaceQueries ==
    {From,
     [From EXCEPT !.minWait = 0, !.access["b"] = 12, !.maxTotal = 22],
     [From EXCEPT !.maxFirstWait = 2, !.disabled = {2}],
     To,
     [To EXCEPT !.minWait = 0, !.maxTotal = 18],
     [To EXCEPT !.time = OneOClock + 24, !.maxTransfer = 1],
     [From EXCEPT !.access = NoFootpath],
     [To EXCEPT !.egress = NoFootpath]}

\* vehicles, and a second trip that is a vehicle or a line one walks along
PlaceTimetables ==
    {GenerateConnections({s1, s2, s3}, Walk) :
        s1 \in Schedules(1, {<<"a", "b", "c">>, <<"a", "b">>, <<"a", "c", "b", "d">>}, {-1, 3}, {4}),
        s2 \in {[s EXCEPT !.walking = w] : w \in BOOLEAN,
                 s \in Schedules(2, {<<"b", "d">>, <<"c", "b", "d">>, <<"b", "c", "d">>}, {9, 12}, {3})},
        s3 \in Schedules(3, {<<"c", "d">>, <<"b", "a", "d">>, <<"d", "b", "c">>}, {6, 14, 20}, {5})}
=============================================================================
