---------------------------- MODULE ConnectionSet ----------------------------
(***************************************************************************)
(* ConnectionSet: the constructor's generateConnectionsIteratorCache, one  *)
(* action per iteration of its loops, and the two getters that start a     *)
(* scan at an hour.  Only the times of the connections matter.             *)
(*                                                                         *)
(* An iterator is a position; one past the last connection is cend().      *)
(* fwdCache and revCache are indexed from 1: entry h + 1 is for hour h.    *)
(***************************************************************************)
EXTENDS Integers, Sequences, FiniteSets

CONSTANTS
    Departures,     \* the sequences forwardConnections may show, ascending
    Arrivals        \* the sequences reverseConnections may show, descending

BeginHour == 0

EndHour == 32

Hour == 3600

ASSUME DeparturesAssumption ==
    \A d \in Departures : /\ d \in Seq(Nat)
                          /\ \A i, j \in 1 .. Len(d) : i <= j => d[i] <= d[j]

ASSUME ArrivalsAssumption ==
    \A a \in Arrivals : /\ a \in Seq(Nat)
                        /\ \A i, j \in 1 .. Len(a) : i <= j => a[i] >= a[j]

VARIABLES
    dep,            \* departure times of forwardConnections
    arr,            \* arrival times of reverseConnections
    pc,             \* the loop that runs
    ite,            \* its iterator
    currentHour,
    fwdCache,       \* forwardConnectionsBeginIteratorCache
    revCache        \* reverseConnectionsBeginIteratorCache

vars == <<dep, arr, pc, ite, currentHour, fwdCache, revCache>>

Init ==
    /\ dep \in Departures
    /\ arr \in Arrivals
    /\ pc = "forward"
    /\ ite = 1
    /\ currentHour = BeginHour
    /\ fwdCache = <<>>
    /\ revCache = <<>>

-----------------------------------------------------------------------------
\* faulty: a connection exactly on the hour is left to the hour before
ReachesHourLate(t, hour) == t > hour * Hour

\* the condition of the forward while loop
ReachesHour(t, hour) == t >= hour * Hour

\* the body of the while loop: the connection begins one more hour
ForwardPush ==
    /\ pc = "forward" /\ ite <= Len(dep)
    /\ ReachesHour(dep[ite], currentHour)
    /\ fwdCache' = Append(fwdCache, ite)
    /\ currentHour' = currentHour + 1
    /\ UNCHANGED <<dep, arr, pc, ite, revCache>>

\* faulty: the iterator is not advanced
ForwardNextStuck ==
    /\ pc = "forward" /\ ite <= Len(dep)
    /\ ~ ReachesHour(dep[ite], currentHour)
    /\ UNCHANGED vars

ForwardNext ==
    /\ pc = "forward" /\ ite <= Len(dep)
    /\ ~ ReachesHour(dep[ite], currentHour)
    /\ ite' = ite + 1
    /\ UNCHANGED <<dep, arr, pc, currentHour, fwdCache, revCache>>

\* the rest of the hours begin at cend()
ForwardFill ==
    /\ pc = "forward" /\ ite > Len(dep)
    /\ currentHour < EndHour
    /\ fwdCache' = Append(fwdCache, ite)
    /\ currentHour' = currentHour + 1
    /\ UNCHANGED <<dep, arr, pc, ite, revCache>>

\* faulty: the reverse loop starts before the first connection
ForwardDoneBefore ==
    /\ pc = "forward" /\ ite > Len(dep)
    /\ currentHour >= EndHour
    /\ pc' = "reverse"
    /\ ite' = 0
    /\ currentHour' = EndHour - 1
    /\ UNCHANGED <<dep, arr, fwdCache, revCache>>

ForwardDone ==
    /\ pc = "forward" /\ ite > Len(dep)
    /\ currentHour >= EndHour
    /\ pc' = "reverse"
    /\ ite' = 1
    /\ currentHour' = EndHour - 1
    /\ UNCHANGED <<dep, arr, fwdCache, revCache>>

-----------------------------------------------------------------------------
\* faulty: a connection exactly on the hour is left to the hour after
LeavesHourEarly(t, hour) == t < hour * Hour /\ hour > BeginHour

\* the condition of the reverse while loop
LeavesHour(t, hour) == t <= hour * Hour /\ hour > BeginHour

\* insert at begin(): the connection begins one more hour, going back
ReversePush ==
    /\ pc = "reverse" /\ ite <= Len(arr)
    /\ LeavesHour(arr[ite], currentHour)
    /\ revCache' = <<ite>> \o revCache
    /\ currentHour' = currentHour - 1
    /\ UNCHANGED <<dep, arr, pc, ite, fwdCache>>

ReverseNext ==
    /\ pc = "reverse" /\ ite <= Len(arr)
    /\ ~ LeavesHour(arr[ite], currentHour)
    /\ ite' = ite + 1
    /\ UNCHANGED <<dep, arr, pc, currentHour, fwdCache, revCache>>

ReverseFill ==
    /\ pc = "reverse" /\ ite > Len(arr)
    /\ currentHour >= BeginHour
    /\ revCache' = <<ite>> \o revCache
    /\ currentHour' = currentHour - 1
    /\ UNCHANGED <<dep, arr, pc, ite, fwdCache>>

ReverseDone ==
    /\ pc = "reverse" /\ ite > Len(arr)
    /\ currentHour < BeginHour
    /\ pc' = "ready"
    /\ UNCHANGED <<dep, arr, ite, currentHour, fwdCache, revCache>>

Next ==
    \/ ForwardPush \/ ForwardNext \/ ForwardFill \/ ForwardDone
    \/ ReversePush \/ ReverseNext \/ ReverseFill \/ ReverseDone

Spec == Init /\ [][Next]_vars

-----------------------------------------------------------------------------
(***************************************************************************)
(* The getters of the finished set.  For an hour that the test lets        *)
(* through, the code indexes the vector.                                   *)
(***************************************************************************)
IndexesForwardCache(hour) == BeginHour <= hour /\ hour <= EndHour

IndexesReverseCache(hour) == BeginHour <= hour /\ hour <= EndHour - 1

getForwardConnectionsBeginAtDepartureHour(hour) ==
    IF IndexesForwardCache(hour) THEN fwdCache[hour + 1] ELSE Len(dep) + 1

getReverseConnectionsBeginAtArrivalHour(hour) ==
    IF hour < BeginHour THEN Len(arr) + 1
    ELSE IF IndexesReverseCache(hour) THEN revCache[hour + 1] ELSE 1

-----------------------------------------------------------------------------
\* the hours of one service day as the cache knows it
Hours == BeginHour .. EndHour - 1

(***************************************************************************)
(* generateConnectionsIteratorCache keeps valid positions in the caches    *)
(* and its iterator never before the first connection.                     *)
(***************************************************************************)
TypeOK ==
    /\ dep \in Departures /\ arr \in Arrivals
    /\ pc \in {"forward", "reverse", "ready"}
    /\ ite \in Nat \ {0}
    /\ currentHour \in Int
    /\ fwdCache \in Seq(Nat) /\ revCache \in Seq(Nat)

(***************************************************************************)
(* getForwardConnectionsBeginAtDepartureHour: for every hour of the cache  *)
(* the scan begins exactly at the first connection that leaves at or after *)
(* that hour, whatever gaps there are between the connections.             *)
(***************************************************************************)
ForwardBeginExact ==
    pc # "forward" =>
        \A h \in Hours :
            LET p == getForwardConnectionsBeginAtDepartureHour(h)
            IN  /\ h + 1 \in DOMAIN fwdCache
                /\ \A i \in 1 .. Len(dep) : dep[i] >= h * Hour <=> i >= p

(***************************************************************************)
(* getReverseConnectionsBeginAtArrivalHour: no connection that arrives by  *)
(* the hour is skipped (hour 0 begins at the end), and after hour 0 the    *)
(* ones skipped all arrive later.                                          *)
(***************************************************************************)
ReverseBeginExact ==
    pc = "ready" =>
        \A h \in Hours \ {0} :
            LET p == getReverseConnectionsBeginAtArrivalHour(h)
            IN  /\ Len(revCache) = EndHour
                /\ \A i \in 1 .. Len(arr) : arr[i] <= h * Hour <=> i >= p
=============================================================================
