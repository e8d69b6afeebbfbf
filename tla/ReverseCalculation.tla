------------------------- MODULE ReverseCalculation -------------------------
(***************************************************************************)
(* Calculator::reverseCalculation: one pass over the connections by        *)
(* decreasing arrival that labels every node with the latest moment one    *)
(* can be there and still reach the destination at arrivalTime.  One       *)
(* action per way the loop body can go for a connection.                   *)
(***************************************************************************)
EXTENDS CalculatorData

VARIABLES
    revPos,         \* the loop's iterator, a position of tt.rev
    revTime,        \* nodesReverseTentativeTime
    revSteps,       \* reverseJourneysSteps
    accSteps,       \* reverseAccessJourneysSteps; no connections: not in the map
    exit,           \* tripsQueryOverlay[].exitConnection
    exitWalk,       \* tripsQueryOverlay[].exitConnectionTransferTravelTime
    accessReached,  \* tentativeAccessNodeDepartureTime; -1 while
                    \* reachedAtLeastOneAccessNode is false
    revCount        \* reachableConnectionsCount > 0

revVars == <<revPos, revTime, revSteps, accSteps, exit, exitWalk, accessReached, revCount>>

NoStep == JourneyStep(NoConnection, NoConnection, NoPath)

\* faulty: every node is labelled, egress node or not
EgressLabelsEverywhere(time) == [n \in Nodes |-> time - q.egress[n]]

\* the labels of the nodes from which the destination is reached on foot
EgressLabels(time) ==
    [n \in Nodes |-> IF n \in EgressNodes THEN time - q.egress[n] ELSE -1]

\* reset(): labels and steps of the egress nodes
ResetReverse ==
    /\ revTime' = EgressLabels(arrivalTime')
    /\ revSteps' = [n \in Nodes |-> JourneyStep(NoConnection, NoConnection, q.egress[n])]
    /\ accSteps' = [n \in Nodes |-> NoStep]
    /\ exit' = [t \in Trips |-> NoConnection]
    /\ exitWalk' = [t \in Trips |-> MAX_INT]
    /\ accessReached' = -1
    /\ revCount' = FALSE

-----------------------------------------------------------------------------
\* arrival <= arrivalTimeSeconds - minEgressTravelTime, on a usable, enabled trip
RevConsidered(c) ==
    /\ \E n \in EgressNodes : tt.conn[c].arr <= arrivalTime - q.egress[n]
    /\ tt.conn[c].trip \in usable \ q.disabled

\* faulty: stops as soon as the first access node cannot be left later
RevStopTooEarly(c) ==
    \/ accessReached # -1 /\ tt.conn[c].arr < accessReached
    \/ arrivalTime - tt.conn[c].arr > q.maxTotal

\* the break: no access node can be left later (arrival <
\* tentativeAccessNodeDepartureTime - maxAccessTravelTime), or too early
RevStop(c) ==
    \/ /\ accessReached # -1
       /\ AccessNodes # {}
       /\ \A n \in AccessNodes : tt.conn[c].arr < accessReached - q.access[n]
    \/ arrivalTime - tt.conn[c].arr > q.maxTotal

RevReachable(c) ==
    \/ exit[tt.conn[c].trip] # NoConnection
    \/ revTime[tt.conn[c].to] >= tt.conn[c].arr

\* faulty: forgets that the next vehicle must still be caught
BetterExitUnchecked(c) ==
    LET step == revSteps[tt.conn[c].to]
    IN  /\ step.enter # NoConnection
        /\ step.walk >= 0
        /\ step.walk < exitWalk[tt.conn[c].trip]

\* a connection the rider should rather alight from: the walk that follows is
\* shorter and the next vehicle is still caught
BetterExit(c) ==
    LET step == revSteps[tt.conn[c].to]
    IN  /\ step.enter # NoConnection
        /\ step.walk >= 0
        /\ step.walk < exitWalk[tt.conn[c].trip]
        /\ tt.conn[c].arr + MinWait(step.enter) <= revTime[tt.conn[c].to]

\* c becomes the unboarding connection of its trip
TakesExit(c) ==
    /\ tt.conn[c].canUnboard
    /\ exit[tt.conn[c].trip] = NoConnection \/ BetterExit(c)

\* the unboarding connection of the trip once connection c has been handled
RevExit(c) == IF TakesExit(c) THEN c ELSE exit[tt.conn[c].trip]

\* boarding c, node n may be left no earlier than it could
RevImproves(c, n) ==
    LET m == tt.conn[c].from
        boardBy == tt.conn[c].dep - MinWait(c)
    IN  /\ Transferable(n, m)
        /\ m = n \/ revTime[n] <= boardBy
        /\ tt.walk[n][m] <= q.maxTransfer
        /\ boardBy - tt.walk[n][m] >= revTime[n]

\* faulty: the first boarding recorded is kept
AccessStepFirst(c) ==
    /\ accSteps[tt.conn[c].from].enter = NoConnection
    /\ \/ departureTime = -1
       \/ /\ tt.conn[c].from \in AccessNodes
          /\ tt.conn[c].dep - MinWait(c) - q.access[tt.conn[c].from] >= departureTime

\* c is recorded as the first boarding at its departure node: not before the
\* requested departure, nor after the maximum first waiting time
AccessStep(c) ==
    LET m == tt.conn[c].from
        boardBy == tt.conn[c].dep - MinWait(c)
    IN  /\ \/ accSteps[m].enter = NoConnection
           \/ tt.conn[accSteps[m].enter].dep <= boardBy
        /\ \/ departureTime = -1
           \/ /\ m \in AccessNodes
              /\ boardBy - q.access[m] >= departureTime
              /\ \/ q.maxFirstWait < MinWait(c)
                 \/ tt.conn[c].dep - departureTime - q.access[m] <= q.maxFirstWait

Board(c) ==
    LET m == tt.conn[c].from
        boardBy == tt.conn[c].dep - MinWait(c)
    IN  /\ revTime' = [n \in Nodes |-> IF RevImproves(c, n)
                          THEN boardBy - tt.walk[n][m] ELSE revTime[n]]
        /\ revSteps' = [n \in Nodes |-> IF RevImproves(c, n)
                          THEN JourneyStep(c, RevExit(c), tt.walk[n][m])
                          ELSE revSteps[n]]
        /\ accSteps' = IF AccessStep(c)
                       THEN [accSteps EXCEPT ![m] = JourneyStep(c, RevExit(c), 0)]
                       ELSE accSteps
        /\ accessReached' = IF accessReached = -1 /\ m \in AccessNodes
                            THEN tt.conn[c].dep ELSE accessReached

-----------------------------------------------------------------------------
RevScanning == pc = "reverse" /\ revPos \in Conns

ReverseSkip ==
    /\ RevScanning
    /\ ~ RevConsidered(tt.rev[revPos])
    /\ revPos' = revPos + 1
    /\ UNCHANGED <<revTime, revSteps, accSteps, exit, exitWalk, accessReached, revCount>>

ReverseBreak ==
    /\ RevScanning
    /\ RevConsidered(tt.rev[revPos])
    /\ RevStop(tt.rev[revPos])
    /\ revPos' = Len(tt.rev) + 1
    /\ UNCHANGED <<revTime, revSteps, accSteps, exit, exitWalk, accessReached, revCount>>

\* faulty: an unreachable connection is not passed over
ReversePassStuck ==
    /\ RevScanning
    /\ RevConsidered(tt.rev[revPos]) /\ ~ RevStop(tt.rev[revPos])
    /\ ~ RevReachable(tt.rev[revPos])
    /\ UNCHANGED revVars

ReversePass ==
    /\ RevScanning
    /\ RevConsidered(tt.rev[revPos]) /\ ~ RevStop(tt.rev[revPos])
    /\ ~ RevReachable(tt.rev[revPos])
    /\ revPos' = revPos + 1
    /\ UNCHANGED <<revTime, revSteps, accSteps, exit, exitWalk, accessReached, revCount>>

\* a reachable connection: unboarding, then boarding
RideBack(c) ==
    LET trip == tt.conn[c].trip
    IN  /\ exit' = [exit EXCEPT ![trip] = RevExit(c)]
        /\ exitWalk' = IF TakesExit(c)
                       THEN [exitWalk EXCEPT ![trip] = revSteps[tt.conn[c].to].walk]
                       ELSE exitWalk
        /\ IF tt.conn[c].canBoard /\ RevExit(c) # NoConnection
           THEN Board(c)
           ELSE UNCHANGED <<revTime, revSteps, accSteps, accessReached>>
        /\ revCount' = TRUE
        /\ revPos' = revPos + 1

ReverseRide ==
    LET c == tt.rev[revPos]
    IN  /\ RevScanning
        /\ RevConsidered(c) /\ ~ RevStop(c)
        /\ RevReachable(c)
        /\ RideBack(c)

ReverseScan ==
    /\ ReverseSkip \/ ReverseBreak \/ ReversePass \/ ReverseRide
    /\ UNCHANGED <<dataVars, pc, reason, departureTime, arrivalTime, usable>>

-----------------------------------------------------------------------------
\* the moment to leave the origin to take the first vehicle at node n
AccessDeparture(n) ==
    tt.conn[accSteps[n].enter].dep - q.access[n] - MinWait(accSteps[n].enter)

\* faulty: the maximum travel time is not checked
AccessCandidatesNoLimit ==
    {n \in AccessNodes : accSteps[n].enter # NoConnection /\ AccessDeparture(n) >= 0}

\* the access nodes the final loop accepts
AccessCandidates ==
    {n \in AccessNodes : /\ accSteps[n].enter # NoConnection
                         /\ AccessDeparture(n) >= 0
                         /\ arrivalTime - AccessDeparture(n) <= q.maxTotal}

IsBestAccess(n) ==
    /\ n \in AccessCandidates
    /\ \A m \in AccessCandidates : AccessDeparture(n) >= AccessDeparture(m)
=============================================================================
