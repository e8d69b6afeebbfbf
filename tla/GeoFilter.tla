------------------------------ MODULE GeoFilter ------------------------------
(***************************************************************************)
(* GeoFilter::getAccessibleNodesFootpathsFromPoint, with bird distances    *)
(* (EuclideanGeoFilter) and with the walking durations of an OSRM server   *)
(* (OsrmGeoFilter), and how the server's failures are seen by the caller.  *)
(*                                                                         *)
(* Distances are measured in the seconds they take at the walking speed,   *)
(* rounded as the code rounds them.  A footpath is a record of a node and  *)
(* a time; the order of the footpaths plays no part for the callers.       *)
(***************************************************************************)
EXTENDS Integers, Sequences, FiniteSets

CONSTANTS
    Nodes,      \* the nodes in the order of the map, as a sequence
    Points,     \* the origins, destinations and places of queries
    Bird,       \* [Points -> [nodes -> Nat]]: bird distance
    WalkTo,     \* [Points -> [nodes -> Nat \cup {-1}]]: OSRM's duration from
                \* the point to the node, -1 where it knows of no way (null)
    WalkFrom    \* the same from the node to the point

NodeSet == {Nodes[k] : k \in DOMAIN Nodes}

ASSUME NodesAssumption ==
    /\ Nodes \in Seq(NodeSet)
    /\ \A j, k \in DOMAIN Nodes : Nodes[j] = Nodes[k] => j = k

ASSUME DistancesAssumption ==
    \A p \in Points : \A n \in NodeSet :
        Bird[p][n] \in Nat /\ WalkTo[p][n] \in Nat \cup {-1} /\ WalkFrom[p][n] \in Nat \cup {-1}

\* How OSRM may answer: a table; nothing, or a status other than 200 (both
\* are logged and give no footpaths); 200 without the tables asked for;
\* 200 with a body that is no JSON.
Replies == {"table", "failed", "no tables", "no json"}

\* The nodes within the bird distance.
Near(point, maxTime) == {n \in NodeSet : Bird[point][n] <= maxTime}

EuclideanFootpaths(point, maxTime) ==
    {[node |-> n, time |-> Bird[point][n]] : n \in Near(point, maxTime)}

\* The nodes OSRM is asked about, in the order of the query string.  Which
\* order that is (the one of the map) plays no part: it is some enumeration.
Candidates(point, maxTime) ==
    LET near == Near(point, maxTime) IN
    CHOOSE s \in [1 .. Cardinality(near) -> near] : \A n \in near : \E k \in DOMAIN s : s[k] = n

\* OSRM's durations: with sources=0 one row, from the point to itself and to
\* every candidate; with destinations=0 a row of one number per location.
DurationTable(point, nodes, reversed) ==
    IF reversed
    THEN <<<<0>>>> \o [k \in DOMAIN nodes |-> <<WalkFrom[point][nodes[k]]>>]
    ELSE <<<<0>> \o [k \in DOMAIN nodes |-> WalkTo[point][nodes[k]]]>>

\* faulty: the durations are paired with the candidates from the first on.
RowFootpathsFromFirst(row, nodes, maxTime) ==
    {[node |-> nodes[k], time |-> row[k]] : k \in {j \in DOMAIN nodes : row[j] <= maxTime}}

\* What is kept of the first row: its first number is the point itself.
RowFootpaths(row, nodes, maxTime) ==
    {[node |-> nodes[k - 1], time |-> row[k]] : k \in {j \in 2 .. Len(row) : row[j] <= maxTime}}

\* A null duration cannot be cast to a number: the conversion throws.
HasNull(row) == \E k \in DOMAIN row : row[k] = -1

OsrmThrows(point, maxTime, reversed, reply) ==
    /\ Candidates(point, maxTime) # <<>>
    /\ \/ reply = "no json"
       \/ /\ reply = "table"
          /\ HasNull(DurationTable(point, Candidates(point, maxTime), reversed)[1])

\* What OsrmGeoFilter returns when it does not throw.  OSRM is not asked
\* when there is no candidate.
OsrmFootpaths(point, maxTime, reversed, reply) ==
    LET nodes == Candidates(point, maxTime) IN
    IF nodes = <<>> \/ reply # "table" THEN {}
    ELSE RowFootpaths(DurationTable(point, nodes, reversed)[1], nodes, maxTime)
=============================================================================
