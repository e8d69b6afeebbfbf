------------------------- MODULE TripsAndConnections -------------------------
(***************************************************************************)
(* From trip schedules to the two sorted connection lists: getSchedules()  *)
(* of the trips and connections fetcher and                                *)
(* TransitData::generateForwardAndReverseConnections.                      *)
(*                                                                         *)
(* A schedule is a record: uuid (a number; uuids are only compared), path  *)
(* (the nodes), dep and arr (the departure and arrival time at each node), *)
(* board and unboard (the nodes of the path where each is allowed, as      *)
(* positions), walking (the mode of the line isTransferable()), measured   *)
(* (the path has segment distances).                                       *)
(***************************************************************************)
EXTENDS Integers, Sequences, FiniteSets

\* the connections of one trip, one per pair of consecutive nodes
ConnectionsOf(s) ==
    {[trip |-> s.uuid, seq |-> i, from |-> s.path[i], to |-> s.path[i + 1],
      dep |-> s.dep[i], arr |-> s.arr[i + 1],
      canBoard |-> i \in s.board, canUnboard |-> i + 1 \in s.unboard,
      minWait |-> IF s.walking THEN 0 ELSE -1] : i \in 1 .. Len(s.path) - 1}

\* forward: departure time, trip, sequence
ForwardOrder(a, b) ==
    \/ a.dep < b.dep
    \/ a.dep = b.dep /\ a.trip < b.trip
    \/ a.dep = b.dep /\ a.trip = b.trip /\ a.seq < b.seq

\* reverse: arrival time, trip, sequence, all decreasing
ReverseOrder(a, b) ==
    \/ a.arr > b.arr
    \/ a.arr = b.arr /\ a.trip > b.trip
    \/ a.arr = b.arr /\ a.trip = b.trip /\ a.seq > b.seq

\* a finite set sorted by a total order: rank k is taken by the element with
\* k - 1 smaller ones
Sorted(S, Less(_, _)) ==
    [k \in 1 .. Cardinality(S) |->
        CHOOSE a \in S : Cardinality({b \in S : Less(b, a)}) = k - 1]

\* the timetable of a set of schedules; rev holds positions of conn
GenerateConnections(schedules, walk) ==
    LET conn == Sorted(UNION {ConnectionsOf(s) : s \in schedules}, ForwardOrder)
    IN  [conn |-> conn,
         rev |-> Sorted(DOMAIN conn, LAMBDA c, d : ReverseOrder(conn[c], conn[d])),
         walk |-> walk,
         measured |-> {s.uuid : s \in {s \in schedules : s.measured}}]
=============================================================================
