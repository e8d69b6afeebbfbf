----------------------------- MODULE MCRequests -----------------------------
(***************************************************************************)
(* Complete lists of parameters, and lists that lack one pair, with up to  *)
(* two more pairs before or after them: duplicates, texts no conversion    *)
(* accepts, numbers around zero, unknown and empty scenarios, and a name   *)
(* nobody reads.                                                           *)
(* Three nodes: one far away from each point, and OSRM knows no way from   *)
(* the second point to the one far from it.  Three lines of two services,  *)
(* modes and agencies, and scenarios with every kind of list.              *)
(***************************************************************************)
EXTENDS Requests, TLC

MCNodes == <<"a", "b", "c">>
MCPoints == {"home", "work"}

MCBird == "home" :> ("a" :> 100 @@ "b" :> 200 @@ "c" :> 1500) @@
          "work" :> ("a" :> 1300 @@ "b" :> 250 @@ "c" :> 150)
MCWalkTo == "home" :> ("a" :> 120 @@ "b" :> 260 @@ "c" :> 1600) @@
            "work" :> ("a" :> -1 @@ "b" :> 300 @@ "c" :> 200)
MCWalkFrom == "home" :> ("a" :> 120 @@ "b" :> 240 @@ "c" :> 1600) @@
              "work" :> ("a" :> -1 @@ "b" :> 280 @@ "c" :> 200)

Trip(s, l, m, a, p, d) ==
    [service |-> s, line |-> l, mode |-> m, agency |-> a, path |-> p, departures |-> d]

Early == Trip(1, 1, "bus", 1, "p", <<28000, 28700, 29000>>)
Late  == Trip(2, 1, "bus", 1, "p", <<100800, 101200, 104000>>)
Other == Trip(1, 2, "metro", 1, "q", <<28900>>)
Third == Trip(1, 3, "bus", 2, "q", <<29900>>)

MCTrips == {Early, Late, Other, Third}

MCPaths == "p" :> 3 @@ "q" :> 1

Plain == [services |-> {1}, onlyLines |-> {}, onlyModes |-> {}, onlyAgencies |-> {},
          exceptLines |-> {}, exceptModes |-> {}, exceptAgencies |-> {}]

MCScenarios ==
    1 :> [Plain EXCEPT !.services = {1, 2}, !.exceptLines = {3}] @@
    2 :> [Plain EXCEPT !.services = {}] @@
    3 :> [Plain EXCEPT !.onlyLines = {1, 2}, !.exceptModes = {"metro"}] @@
    4 :> [Plain EXCEPT !.onlyModes = {"bus"}, !.onlyAgencies = {1, 2}, !.exceptAgencies = {2}]
-----------------------------------------------------------------------------
MCInteger == "-5" :> -5 @@ "0" :> 0 @@ "1" :> 1 @@ "250" :> 250 @@ "600" :> 600

MCCoordinates == "point" :> "home" @@ "elsewhere" :> "work"

MCUuid == "uuid1" :> 1 @@ "uuid2" :> 2 @@ "uuid3" :> 3 @@ "uuid4" :> 4 @@ "uuid9" :> 9

MCTexts == DOMAIN MCInteger \cup DOMAIN MCCoordinates \cup DOMAIN MCUuid \cup {"north", "true", "nan"}

Pair(n, x) == [name |-> n, text |-> x]

Complete ==
    <<Pair("origin", "point"), Pair("destination", "elsewhere"), Pair("place", "point"),
      Pair("scenario_id", "uuid1"), Pair("time_of_trip", "600")>>

Without(s, k) == SubSeq(s, 1, k - 1) \o SubSeq(s, k + 1, Len(s))

Bases == {Complete} \cup {Without(Complete, k) : k \in DOMAIN Complete}

More ==
    {<<>>} \cup
    {<<Pair(n, x)>> : n \in {"origin", "destination", "place"}, x \in {"elsewhere", "north"}} \cup
    {<<Pair("scenario_id", x)>> : x \in {"uuid2", "uuid3", "uuid4", "uuid9", "nan"}} \cup
    {<<Pair("time_of_trip", x)>> : x \in {"-5", "0", "nan"}} \cup
    {<<Pair("time_type", x)>> : x \in {"0", "1"}} \cup
    {<<Pair("alternatives", x)>> : x \in {"0", "true"}} \cup
    {<<Pair(n, x)>> : n \in {"min_waiting_time", "max_travel_time", "max_first_waiting_time"},
                      x \in {"-5", "0", "1", "nan"}} \cup
    {<<Pair(n, x)>> : n \in {"max_access_travel_time", "max_egress_travel_time"},
                      x \in {"0", "1", "250"}} \cup
    {<<Pair("max_transfer_travel_time", "nan")>>, <<Pair("nobody", "nan")>>}

MCParameterLists ==
    {m \o b \o n : m \in More, b \in Bases, n \in More} \cup
    {b \o m \o n : m \in More, b \in Bases, n \in More}
-----------------------------------------------------------------------------
(***************************************************************************)
(* OD trips, of which one has no node near its origin; results with legs   *)
(* of one and of several segments, a ride of the same line twice, a walk   *)
(* without legs.                                                           *)
(***************************************************************************)
MCOdQueries ==
    {[kind |-> "odTrips", alternatives |-> FALSE, forward |-> f, time |-> 1000,
      origin |-> "home", destination |-> "work", maxAccess |-> 250, maxEgress |-> 250] :
        f \in BOOLEAN}

Path(n, t) == [node |-> n, time |-> t]

MCOdTrips ==
    <<[departure |-> 500, origins |-> {Path("a", 60)}, destinations |-> {Path("c", 30)}],
      [departure |-> 600, origins |-> {}, destinations |-> {Path("b", 30), Path("c", 60)}],
      [departure |-> 700, origins |-> {Path("b", 90)}, destinations |-> {Path("c", 0)}]>>

Ride(t, x, y) == [trip |-> t, start |-> x, end |-> y]

Journey(time, rides) == [travelTime |-> time, legs |-> rides]

MCResults ==
    {Journey(600, <<>>), Journey(1500, <<Ride(Early, 0, 2)>>), Journey(900, <<Ride(Late, 1, 1)>>),
     Journey(2000, <<Ride(Early, 0, 1), Ride(Other, 0, 0), Ride(Late, 1, 2)>>)}
=============================================================================
