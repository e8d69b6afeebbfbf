---------------------------- MODULE MCCalculator ----------------------------
(***************************************************************************)
(* Small networks for Calculator: five nodes, three trips, times around    *)
(* one o'clock so that the hour cache matters.                             *)
(***************************************************************************)
EXTENDS CalculatorProperties, TripsAndConnections

MCNodes == {"a", "b", "c", "d", "n"}

MCTrips == 1 .. 3

OneOClock == 3600

\* a trip along path leaving at start, ride seconds between nodes, no dwell
Schedule(uuid, path, start, ride) ==
    [uuid |-> uuid, path |-> path,
     dep |-> [i \in 1 .. Len(path) |-> OneOClock + start + (i - 1) * ride],
     arr |-> [i \in 1 .. Len(path) |-> OneOClock + start + (i - 1) * ride],
     board |-> 1 .. Len(path), unboard |-> 1 .. Len(path), walking |-> FALSE,
     measured |-> TRUE]

Schedules(uuid, paths, starts, rides) ==
    {Schedule(uuid, p, s, r) : p \in paths, s \in starts, r \in rides}

\* b and c are near each other
Walk == [m \in MCNodes |-> [n \in MCNodes |->
            IF m = n THEN 0 ELSE IF {m, n} = {"b", "c"} THEN 2 ELSE -1]]

Base == [forward |-> TRUE, time |-> OneOClock,
         access |-> [n \in MCNodes |-> CASE n = "a" -> 1 [] n = "b" -> 6 [] OTHER -> -1],
         egress |-> [n \in MCNodes |-> CASE n = "d" -> 1 [] n = "c" -> 9 [] OTHER -> -1],
         minWait |-> 2, maxTotal |-> 100, maxTransfer |-> 5,
         maxFirstWait |-> -1, disabled |-> {}]

NoFootpath == [n \in MCNodes |-> -1]

MCQueries ==
    {Base,
     [Base EXCEPT !.minWait = 0, !.access["b"] = 12],
     [Base EXCEPT !.maxTotal = 24, !.maxTransfer = 1],
     [Base EXCEPT !.disabled = {2}],
     [Base EXCEPT !.forward = FALSE, !.time = OneOClock + 30],
     [Base EXCEPT !.forward = FALSE, !.time = OneOClock + 26, !.minWait = 0,
                !.maxTotal = 18],
     [Base EXCEPT !.access = NoFootpath],
     [Base EXCEPT !.egress = NoFootpath]}

MCTimetables ==
    {GenerateConnections({s1, s2, s3}, Walk) :
        s1 \in Schedules(1, {<<"a", "b", "c">>, <<"a", "b">>, <<"a", "c", "b", "d">>}, {-1, 3, 5}, {4}),
        s2 \in Schedules(2, {<<"b", "d">>, <<"c", "b", "d">>, <<"b", "c", "d">>}, {9, 12}, {3, 6}),
        s3 \in Schedules(3, {<<"c", "d">>, <<"b", "a", "d">>, <<"d", "b", "c">>}, {6, 14, 20}, {5})}
-----------------------------------------------------------------------------
(***************************************************************************)
(* A second trip along a line one walks along (no waiting time, and its    *)
(* time counts as walking when the path is measured), and limits on the    *)
(* first wait.                                                             *)
(***************************************************************************)
OnFoot(S) == {[s EXCEPT !.walking = TRUE, !.measured = m] : s \in S, m \in BOOLEAN}

MixedTimetables ==
    {GenerateConnections({s1, s2, s3}, Walk) :
        s1 \in Schedules(1, {<<"a", "b">>, <<"a", "c", "b", "d">>}, {3, 5}, {0, 4}),
        s2 \in OnFoot(Schedules(2, {<<"b", "c">>, <<"c", "b", "d">>, <<"b", "d">>}, {7, 9, 12}, {3})),
        s3 \in Schedules(3, {<<"c", "d">>, <<"b", "a", "d">>}, {8, 14, 20}, {5})}

WaitQueries ==
    {[Base EXCEPT !.maxFirstWait = 2, !.minWait = m] : m \in {0, 2}}

-----------------------------------------------------------------------------
(***************************************************************************)
(* Vehicles that pass n, go on and come back to it, so that journeys have  *)
(* superfluous lines and segments for the optimiser.                       *)
(***************************************************************************)
\* footpaths between the nodes of a set, all of two seconds
LoopWalk(S) == [x \in MCNodes |-> [y \in MCNodes |->
                  IF x = y THEN 0 ELSE IF {x, y} = S THEN 2 ELSE -1]]

LoopBase == [forward |-> TRUE, time |-> OneOClock,
             access |-> [x \in MCNodes |-> IF x = "a" THEN 1 ELSE -1],
             egress |-> [x \in MCNodes |-> IF x = "d" THEN 1 ELSE -1],
             minWait |-> 1, maxTotal |-> 100, maxTransfer |-> 5,
             maxFirstWait |-> -1, disabled |-> {}]

AtN == [x \in MCNodes |-> IF x = "n" THEN 1 ELSE -1]

LoopQueries ==
    {LoopBase,
     [LoopBase EXCEPT !.minWait = 8],
     [LoopBase EXCEPT !.forward = FALSE, !.time = OneOClock + 60],
     [LoopBase EXCEPT !.forward = FALSE, !.time = OneOClock + 60, !.egress = AtN]}

\* the same schedules, and those where n allows no boarding or no unboarding
OrNoBoarding(S) == S \cup {[s EXCEPT !.board = {i \in @ : s.path[i] # "n"}] : s \in S}

OrNoUnboarding(S) == S \cup {[s EXCEPT !.unboard = {i \in @ : s.path[i] # "n"}] : s \in S}

LoopTimetables ==
    {GenerateConnections({s1, s2, s3}, LoopWalk(S)) :
        s1 \in OrNoUnboarding(Schedules(1, {<<"a", "n">>, <<"a", "n", "b">>, <<"a", "n", "b", "c">>},
                                         {9}, {4})),
        s2 \in Schedules(2, {<<"b", "n", "d">>, <<"b", "c">>, <<"b", "n">>, <<"n", "b">>}, {21}, {4}),
        s3 \in OrNoBoarding(Schedules(3, {<<"c", "n">>, <<"n", "d">>, <<"c", "n", "d">>, <<"b", "n", "d">>},
                                       {28, 36}, {4})),
        S \in {{}, {"b", "n"}}}

AllTimetables == MCTimetables \cup MixedTimetables \cup LoopTimetables

AllQueries == MCQueries \cup WaitQueries \cup LoopQueries

-----------------------------------------------------------------------------
\* times rounded to the minute: vehicles of both directions meet between two
\* nodes, each leaving one and reaching the other at the same time
RoundedTimetables ==
    {GenerateConnections(
        {[s1 EXCEPT !.dep[3] = s1.arr[2], !.arr[3] = s1.arr[2], !.dep[2] = s1.arr[2]], s2}, Walk) :
        s1 \in Schedules(1, {<<"a", "d", "c">>}, {3}, {16, 17}),
        s2 \in Schedules(2, {<<"c", "d">>}, {19, 20}, {0})}

RoundedQueries ==
    {[Base EXCEPT !.minWait = m] : m \in {0, 2}}
=============================================================================
