------------------------- MODULE ForwardCalculation -------------------------
(***************************************************************************)
(* Calculator::forwardCalculation: one pass over the connections in        *)
(* departure order that labels every node with its earliest arrival.  One  *)
(* action per way the loop body can go for a connection.                   *)
(***************************************************************************)
EXTENDS CalculatorData

VARIABLES
    fwdPos,         \* the loop's iterator; Len(tt.conn) + 1 is end()
    fwdTime,        \* nodesTentativeTime
    fwdSteps,       \* forwardJourneysSteps
    fwdEgress,      \* exit connection of forwardEgressJourneysSteps, per node
    enter,          \* tripsQueryOverlay[].enterConnection
    egressReached,  \* tentativeEgressNodeArrivalTime; MAX_INT while
                    \* reachedAtLeastOneEgressNode is false
    fwdCount        \* reachableConnectionsCount > 0

fwdVars == <<fwdPos, fwdTime, fwdSteps, fwdEgress, enter, egressReached, fwdCount>>

\* reset(): labels and steps of the nodes reached on foot from the origin
ResetForward ==
    /\ fwdTime' = [n \in Nodes |-> IF n \in AccessNodes
                                   THEN departureTime' + q.access[n] ELSE MAX_INT]
    /\ fwdSteps' = [n \in Nodes |-> JourneyStep(NoConnection, NoConnection, q.access[n])]
    /\ fwdEgress' = [n \in Nodes |-> NoConnection]
    /\ enter' = [t \in Trips |-> NoConnection]
    /\ egressReached' = MAX_INT
    /\ fwdCount' = FALSE

-----------------------------------------------------------------------------
\* departure >= departureTimeSeconds + minAccessTravelTime, and the trip is enabled
FwdConsidered(c) ==
    /\ \E n \in AccessNodes : tt.conn[c].dep >= departureTime + q.access[n]
    /\ tt.conn[c].trip \notin q.disabled

\* faulty: stops as soon as the first egress node cannot be reached earlier
FwdStopTooEarly(c) ==
    \/ egressReached < MAX_INT /\ tt.conn[c].dep > egressReached
    \/ tt.conn[c].dep - departureTime > q.maxTotal

\* the break: every egress node is out of reach of an improvement (departure
\* > tentativeEgressNodeArrivalTime + maxEgressTravelTime), or too late
FwdStop(c) ==
    \/ /\ egressReached < MAX_INT
       /\ EgressNodes # {}
       /\ \A n \in EgressNodes : tt.conn[c].dep > egressReached + q.egress[n]
    \/ tt.conn[c].dep - departureTime > q.maxTotal

nodeWasAccessedFromOrigin(c) ==
    LET n == tt.conn[c].from
    IN  /\ q.maxFirstWait > 0
        /\ n \in AccessNodes
        /\ fwdSteps[n].enter = NoConnection

\* faulty: no waiting time before boarding
FwdReachableNoWait(c) ==
    \/ enter[tt.conn[c].trip] # NoConnection
    \/ fwdTime[tt.conn[c].from] <= tt.conn[c].dep

FwdReachable(c) ==
    LET n == tt.conn[c].from
    IN  /\ \/ enter[tt.conn[c].trip] # NoConnection
           \/ fwdTime[n] <= tt.conn[c].dep - MinWait(c)
        /\ \/ ~ nodeWasAccessedFromOrigin(c)
           \/ tt.conn[c].dep - fwdTime[n] <= q.maxFirstWait

\* the boarding connection of the trip once connection c has been handled
FwdEnter(c) ==
    LET old == enter[tt.conn[c].trip]
    IN  IF tt.conn[c].canBoard /\ old = NoConnection THEN c ELSE old

\* alighting from c, node n is reached earlier than it was
FwdImproves(c, n) ==
    LET m == tt.conn[c].to
    IN  /\ Transferable(m, n)
        /\ m = n \/ fwdTime[n] >= tt.conn[c].arr
        /\ tt.walk[m][n] <= q.maxTransfer
        /\ tt.walk[m][n] + tt.conn[c].arr < fwdTime[n]

Unboard(c) ==
    LET m == tt.conn[c].to
    IN  /\ fwdTime' = [n \in Nodes |-> IF FwdImproves(c, n)
                          THEN tt.walk[m][n] + tt.conn[c].arr ELSE fwdTime[n]]
        /\ fwdSteps' = [n \in Nodes |-> IF FwdImproves(c, n)
                          THEN JourneyStep(FwdEnter(c), c, tt.walk[m][n])
                          ELSE fwdSteps[n]]
        /\ fwdEgress' = IF \/ fwdEgress[m] = NoConnection
                           \/ tt.conn[fwdEgress[m]].arr > tt.conn[c].arr
                        THEN [fwdEgress EXCEPT ![m] = c] ELSE fwdEgress
        /\ egressReached' = IF egressReached = MAX_INT /\ m \in EgressNodes
                            THEN tt.conn[c].arr ELSE egressReached

-----------------------------------------------------------------------------
FwdScanning == pc = "forward" /\ fwdPos \in Conns

ForwardSkip ==
    /\ FwdScanning
    /\ ~ FwdConsidered(fwdPos)
    /\ fwdPos' = fwdPos + 1
    /\ UNCHANGED <<fwdTime, fwdSteps, fwdEgress, enter, egressReached, fwdCount, usable>>

ForwardBreak ==
    /\ FwdScanning
    /\ FwdConsidered(fwdPos)
    /\ FwdStop(fwdPos)
    /\ fwdPos' = Len(tt.conn) + 1
    /\ UNCHANGED <<fwdTime, fwdSteps, fwdEgress, enter, egressReached, fwdCount, usable>>

ForwardPass ==
    /\ FwdScanning
    /\ FwdConsidered(fwdPos) /\ ~ FwdStop(fwdPos)
    /\ ~ FwdReachable(fwdPos)
    /\ fwdPos' = fwdPos + 1
    /\ UNCHANGED <<fwdTime, fwdSteps, fwdEgress, enter, egressReached, fwdCount, usable>>

ForwardRide ==
    LET c == fwdPos
        trip == tt.conn[c].trip
    IN  /\ FwdScanning
        /\ FwdConsidered(c) /\ ~ FwdStop(c)
        /\ FwdReachable(c)
        /\ enter' = [enter EXCEPT ![trip] = FwdEnter(c)]
        /\ usable' = IF enter[trip] # FwdEnter(c) THEN usable \cup {trip} ELSE usable
        /\ IF tt.conn[c].canUnboard /\ FwdEnter(c) # NoConnection
           THEN Unboard(c)
           ELSE UNCHANGED <<fwdTime, fwdSteps, fwdEgress, egressReached>>
        /\ fwdCount' = TRUE
        /\ fwdPos' = fwdPos + 1

ForwardScan ==
    /\ ForwardSkip \/ ForwardBreak \/ ForwardPass \/ ForwardRide
    /\ UNCHANGED <<dataVars, pc, reason, departureTime, arrivalTime>>

-----------------------------------------------------------------------------
\* arrival at the destination when leaving the network at node n
EgressArrival(n) == tt.conn[fwdEgress[n]].arr + q.egress[n]

\* the egress nodes the final loop accepts
EgressCandidates ==
    {n \in EgressNodes : /\ fwdEgress[n] # NoConnection
                         /\ EgressArrival(n) - departureTime <= q.maxTotal
                         /\ EgressArrival(n) < MAX_INT}

IsBestEgress(n) ==
    /\ n \in EgressCandidates
    /\ \A m \in EgressCandidates : EgressArrival(n) <= EgressArrival(m)
=============================================================================
