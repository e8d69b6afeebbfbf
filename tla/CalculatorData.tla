--------------------------- MODULE CalculatorData ---------------------------
(***************************************************************************)
(* The data one query of the connection scan algorithm works on: the       *)
(* timetable (the ConnectionSet and the footpaths of the Node objects), the *)
(* query (RouteParameters plus the access and egress footpaths reset()     *)
(* obtained), and the members of Calculator that the forward and the       *)
(* reverse calculation share.                                              *)
(*                                                                         *)
(* A timetable and a query never change while a Calculator runs; they are  *)
(* variables so that one specification covers every timetable of           *)
(* Timetables and every query of Queries.                                  *)
(*                                                                         *)
(* A connection is named by its position in forwardConnections; 0 stands   *)
(* for std::nullopt.  A footpath time of -1 stands for "no footpath".      *)
(***************************************************************************)
EXTENDS Integers, Sequences, FiniteSets

CONSTANTS
    Nodes,          \* the stops of the network
    Trips,          \* the trips of the network
    Timetables,     \* the timetables the specification ranges over
    Queries         \* the queries the specification ranges over

MAX_INT == 2147483647

SHORT_MAX == 32767

SecondsPerHour == 3600

CacheEndHour == 32

\* std::nullopt for an optional connection
NoConnection == 0

\* "not in the map" for a footpath or a NodeTimeDistance
NoPath == -1

(***************************************************************************)
(* The conversion of an int to the short parameter of                      *)
(* getMinWaitingTimeOrDefault: two's complement, 16 bits.                  *)
(***************************************************************************)
AsShort(x) == ((x + SHORT_MAX + 1) % (2 * (SHORT_MAX + 1))) - (SHORT_MAX + 1)

Connection ==
    [trip : Trips, seq : Nat \ {0}, from : Nodes, to : Nodes,
     dep : Nat, arr : Nat, canBoard : BOOLEAN, canUnboard : BOOLEAN,
     minWait : {-1, 0}]

(***************************************************************************)
(* What generateForwardAndReverseConnections leaves behind: conn is sorted *)
(* by departure time, rev (positions of conn) by decreasing arrival time,  *)
(* and the connections of one trip appear in travel order in conn and in   *)
(* the opposite order in rev.  A trip has one connection for each pair of  *)
(* consecutive nodes, all with the minimum waiting time its line's mode    *)
(* gives them.  walk is transferableNodes; the fetcher and the test data   *)
(* give every node a transfer to itself of zero seconds.                   *)
(* measured: the trips whose path has segmentsDistanceMeters.              *)
(***************************************************************************)
IsTimetable(t) ==
    /\ DOMAIN t = {"conn", "rev", "walk", "measured"}
    /\ t.conn \in Seq(Connection)
    /\ t.rev \in Seq(1 .. Len(t.conn))
    /\ Len(t.rev) = Len(t.conn)
    /\ t.walk \in [Nodes -> [Nodes -> Nat \cup {NoPath}]]
    /\ t.measured \subseteq Trips
    /\ \A n \in Nodes : t.walk[n][n] = 0
    /\ \A c \in 1 .. Len(t.conn) : t.conn[c].dep <= t.conn[c].arr
                                   /\ t.conn[c].arr < MAX_INT
    /\ \A c \in 1 .. Len(t.conn) : t.conn[c].seq > 1 =>
         \E d \in 1 .. Len(t.conn) : /\ t.conn[d].trip = t.conn[c].trip
                                    /\ t.conn[d].seq = t.conn[c].seq - 1
    /\ \A c, d \in 1 .. Len(t.conn) :
         /\ c < d => /\ t.conn[c].dep <= t.conn[d].dep
                     /\ t.conn[c].trip = t.conn[d].trip =>
                           t.conn[c].seq < t.conn[d].seq
                           /\ t.conn[c].minWait = t.conn[d].minWait
         /\ t.conn[c].trip = t.conn[d].trip /\ t.conn[d].seq = t.conn[c].seq + 1 =>
                  /\ t.conn[c].to = t.conn[d].from
                  /\ t.conn[c].arr <= t.conn[d].dep
    /\ \A j, k \in 1 .. Len(t.rev) :
         j < k => /\ t.rev[j] # t.rev[k]
                  /\ t.conn[t.rev[j]].arr >= t.conn[t.rev[k]].arr
                  /\ t.conn[t.rev[j]].trip = t.conn[t.rev[k]].trip =>
                        t.rev[j] > t.rev[k]

(***************************************************************************)
(* The parameters after createCommonParameter (clamped to be non-negative, *)
(* a first waiting time of 0 or less becoming -1) with the footpaths from  *)
(* the origin and to the destination.                                      *)
(***************************************************************************)
Query ==
    [forward : BOOLEAN, time : Nat,
     access : [Nodes -> Nat \cup {NoPath}], egress : [Nodes -> Nat \cup {NoPath}],
     minWait : Nat, maxTotal : Nat, maxTransfer : Nat,
     maxFirstWait : Nat \cup {-1}, disabled : SUBSET Trips]

ASSUME TimetablesAssumption == \A t \in Timetables : IsTimetable(t)

\* (a departure in hour 32 is left out: the getter lets it through, the cache has
\* no entry for it, and the vector is read past its end)
ASSUME QueriesAssumption ==
    /\ Queries \subseteq Query
    /\ \A r \in Queries : r.forward => r.time \div SecondsPerHour # CacheEndHour

-----------------------------------------------------------------------------
VARIABLES
    tt,             \* connectionSet and the footpaths of the nodes
    q,              \* parameters, accessFootpaths, egressFootpaths
    pc,             \* which part of calculateSingle is running
    reason,         \* the NoRoutingReason thrown, or "none"
    departureTime,  \* departureTimeSeconds
    arrivalTime,    \* arrivalTimeSeconds
    usable          \* the trips whose tripsQueryOverlay entry is usable

dataVars == <<tt, q>>

Conns == 1 .. Len(tt.conn)

AccessNodes == {n \in Nodes : q.access[n] # NoPath}

EgressNodes == {n \in Nodes : q.egress[n] # NoPath}

\* getMinWaitingTimeOrDefault(parameters.getMinWaitingTimeSeconds())
MinWait(c) ==
    IF tt.conn[c].minWait >= 0 THEN tt.conn[c].minWait ELSE AsShort(q.minWait)

\* trip.line.mode.isTransferable(): the fetcher gives the connections of such
\* lines, and of no others, a minimum waiting time of their own, 0
isTransferable(c) == tt.conn[c].minWait = 0

\* n appears in transferableNodes of m, and m in reverseTransferableNodes of n
Transferable(m, n) == tt.walk[m][n] # NoPath

(***************************************************************************)
(* JourneyStep: the boarding and the unboarding connection and the walk.   *)
(***************************************************************************)
JourneyStep(enter, exit, walk) == [enter |-> enter, exit |-> exit, walk |-> walk]

hasConnections(step) == step.enter # NoConnection /\ step.exit # NoConnection

\* faulty: the iterator before the first connection of the hour
ForwardBeginOffByOne(hour) ==
    Cardinality({c \in Conns : tt.conn[c].dep < hour * SecondsPerHour})

(***************************************************************************)
(* getForwardConnectionsBeginAtDepartureHour: the end when the hour is      *)
(* beyond the cache, else the position after the connections that leave    *)
(* before the hour (conn is sorted by departure).                          *)
(* The iterator cache behind it is the subject of module ConnectionSet.    *)
(***************************************************************************)
ForwardBegin(hour) ==
    IF hour > CacheEndHour
    THEN Len(tt.conn) + 1
    ELSE 1 + Cardinality({c \in Conns : tt.conn[c].dep < hour * SecondsPerHour})

(***************************************************************************)
(* getReverseConnectionsBeginAtArrivalHour: everything when the hour is    *)
(* beyond the cache, else the position after the connections that arrive   *)
(* later than the hour (rev is sorted by decreasing arrival).              *)
(***************************************************************************)
ReverseBegin(hour) ==
    IF hour > CacheEndHour - 1
    THEN 1
    ELSE 1 + Cardinality({j \in Conns :
                            tt.conn[tt.rev[j]].arr > hour * SecondsPerHour})
=============================================================================
