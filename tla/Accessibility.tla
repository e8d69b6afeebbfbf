--------------------------- MODULE Accessibility ---------------------------
(***************************************************************************)
(* Calculator::calculateAllNodes: from one place (or to it), every node    *)
(* where a vehicle can be left (or boarded) within the maximum travel      *)
(* time.  The passes are forwardCalculationAllNodes and                    *)
(* reverseCalculationAllNodes; they share the members and most of the loop *)
(* bodies of the passes of calculateSingle.  Then, node by node, the       *)
(* journey is followed to count its transfers.                             *)
(***************************************************************************)
EXTENDS CalculatorProperties

VARIABLES
    todo,       \* the nodes the loop of the journey step has left
    node,       \* resultingNode
    listed      \* the AccessibleNodes, with nodeTime as the answer gives it

listVars == <<todo, node, listed>>

allVars == <<vars, listVars>>

\* reset() is given the origin or the destination only, and has cleared the
\* footpaths of both
OnePlace == IF q.forward THEN EgressNodes = {} ELSE AccessNodes = {}

InitAllNodes ==
    /\ Init
    /\ OnePlace
    /\ todo = {}
    /\ node = CHOOSE n \in Nodes : TRUE
    /\ listed = {}

ResetAllNodes ==
    /\ pc = "reset"
    /\ departureTime' = IF q.forward THEN q.time ELSE -1
    /\ arrivalTime' = IF q.forward THEN -1 ELSE q.time
    /\ ResetForward
    /\ ResetReverse
    /\ IF AccessNodes \cup EgressNodes = {}
       THEN /\ Fail(IF q.forward THEN "NO_ACCESS_AT_ORIGIN" ELSE "NO_ACCESS_AT_DESTINATION")
            /\ UNCHANGED <<fwdPos, revPos, usable>>
       ELSE StartScan
    /\ UNCHANGED <<dataVars, journeyVars, listVars>>

-----------------------------------------------------------------------------
\* forwardCalculationAllNodes: the loop of forwardCalculation, in which no node
\* is an egress node, so that only the maximum travel time breaks it
ForwardAllNodes == ForwardScan /\ UNCHANGED <<revVars, journeyVars, listVars>>

ForwardAllNodesEnd ==
    /\ FwdEnded
    /\ IF fwdCount
       THEN /\ pc' = "list"
            /\ todo' = {n \in Nodes : fwdEgress[n] # NoConnection}
            /\ UNCHANGED reason
       ELSE Fail("NO_SERVICE_FROM_ORIGIN") /\ UNCHANGED todo
    /\ UNCHANGED <<dataVars, departureTime, arrivalTime, usable, fwdVars, revVars,
                   journeyVars, node, listed>>

-----------------------------------------------------------------------------
(***************************************************************************)
(* reverseCalculationAllNodes: the walk from the last node is not taken    *)
(* off before connections are looked at, and only the maximum travel time  *)
(* breaks the loop.                                                        *)
(***************************************************************************)
ConsideredAllNodes(c) ==
    /\ tt.conn[c].arr <= arrivalTime
    /\ tt.conn[c].trip \in usable \ q.disabled

\* faulty: compares the departure
StopAllNodesDeparture(c) == arrivalTime - tt.conn[c].dep >= q.maxTotal

StopAllNodes(c) == arrivalTime - tt.conn[c].arr > q.maxTotal

BackSkip ==
    /\ RevScanning
    /\ ~ ConsideredAllNodes(tt.rev[revPos])
    /\ revPos' = revPos + 1
    /\ UNCHANGED <<revTime, revSteps, accSteps, exit, exitWalk, accessReached, revCount>>

BackBreak ==
    /\ RevScanning
    /\ ConsideredAllNodes(tt.rev[revPos]) /\ StopAllNodes(tt.rev[revPos])
    /\ revPos' = Len(tt.rev) + 1
    /\ UNCHANGED <<revTime, revSteps, accSteps, exit, exitWalk, accessReached, revCount>>

BackPass ==
    /\ RevScanning
    /\ ConsideredAllNodes(tt.rev[revPos]) /\ ~ StopAllNodes(tt.rev[revPos])
    /\ ~ RevReachable(tt.rev[revPos])
    /\ revPos' = revPos + 1
    /\ UNCHANGED <<revTime, revSteps, accSteps, exit, exitWalk, accessReached, revCount>>

BackRide ==
    /\ RevScanning
    /\ ConsideredAllNodes(tt.rev[revPos]) /\ ~ StopAllNodes(tt.rev[revPos])
    /\ RevReachable(tt.rev[revPos])
    /\ RideBack(tt.rev[revPos])

ReverseAllNodes ==
    /\ BackSkip \/ BackBreak \/ BackPass \/ BackRide
    /\ UNCHANGED <<dataVars, pc, reason, departureTime, arrivalTime, usable, fwdVars,
                   journeyVars, listVars>>

ReverseAllNodesEnd ==
    /\ RevEnded
    /\ IF revCount
       THEN /\ pc' = "list"
            /\ todo' = {n \in Nodes : accSteps[n].enter # NoConnection}
            /\ UNCHANGED reason
       ELSE Fail("NO_SERVICE_TO_DESTINATION") /\ UNCHANGED todo
    /\ UNCHANGED <<dataVars, departureTime, arrivalTime, usable, fwdVars, revVars,
                   journeyVars, node, listed>>

-----------------------------------------------------------------------------
(***************************************************************************)
(* forwardJourneyStepAllNodes and reverseJourneyStepAllNodes: a loop over  *)
(* the nodes in the order of a hash map.                                   *)
(***************************************************************************)
\* forwardEgressJourneysSteps of a node: its trip is boarded once and for all
EgressStep(n) == JourneyStep(enter[tt.conn[fwdEgress[n]].trip], fwdEgress[n], 0)

\* faulty: the iterator does not advance
NextNodeAgain ==
    /\ pc = "list"
    /\ \E n \in todo : node' = n /\ cursor' = IF q.forward THEN EgressStep(n) ELSE accSteps[n]
    /\ journey' = <<>>
    /\ pc' = IF q.forward THEN "count" ELSE "journey"
    /\ UNCHANGED <<dataVars, reason, departureTime, arrivalTime, usable, fwdVars, revVars,
                   bestDeparture, accessNode, ignore, result, todo, listed>>

NextNode ==
    /\ pc = "list"
    /\ \E n \in todo :
         /\ node' = n
         /\ todo' = todo \ {n}
         /\ cursor' = IF q.forward THEN EgressStep(n) ELSE accSteps[n]
    /\ journey' = <<>>
    /\ pc' = IF q.forward THEN "count" ELSE "journey"
    /\ UNCHANGED <<dataVars, reason, departureTime, arrivalTime, usable, fwdVars, revVars,
                   bestDeparture, accessNode, ignore, result, listed>>

Return ==
    /\ pc = "list" /\ todo = {}
    /\ pc' = "done"
    /\ UNCHANGED <<dataVars, reason, departureTime, arrivalTime, usable, fwdVars, revVars,
                   journeyVars, listVars>>

numberOfTransfers ==
    Cardinality({k \in DOMAIN journey : /\ hasConnections(journey[k])
                                        /\ ~ isTransferable(journey[k].enter)}) - 1

Accessible(time, travelTime) ==
    [node |-> node, time |-> time, travelTime |-> travelTime, transfers |-> numberOfTransfers]

\* the node is listed when it is within the maximum travel time
List(time, travelTime) ==
    /\ listed' = IF travelTime <= q.maxTotal
                 THEN listed \cup {Accessible(time, travelTime)} ELSE listed
    /\ pc' = "list"
    /\ UNCHANGED <<dataVars, reason, departureTime, arrivalTime, usable, fwdVars, revVars,
                   journeyVars, todo, node>>

\* faulty: the step of the node the leg ends at
FollowBackWrong ==
    /\ pc = "count" /\ hasConnections(cursor)
    /\ journey' = Append(journey, cursor)
    /\ cursor' = fwdSteps[tt.conn[cursor.exit].to]
    /\ UNCHANGED <<dataVars, pc, reason, departureTime, arrivalTime, usable, fwdVars, revVars,
                   bestDeparture, accessNode, ignore, result, listVars>>

\* one leg of the journey from the place, the last one first
FollowBack ==
    /\ pc = "count" /\ hasConnections(cursor)
    /\ journey' = Append(journey, cursor)
    /\ cursor' = fwdSteps[tt.conn[cursor.enter].from]
    /\ UNCHANGED <<dataVars, pc, reason, departureTime, arrivalTime, usable, fwdVars, revVars,
                   bestDeparture, accessNode, ignore, result, listVars>>

ListForward ==
    /\ pc = "count" /\ ~ hasConnections(cursor)
    /\ LET arr == tt.conn[fwdEgress[node]].arr IN List(arr, arr - departureTime)

CloseAllNodes ==
    /\ pc = "journey" /\ ~ hasConnections(cursor)
    /\ IF EndNode(journey) \in EgressNodes
       THEN /\ pc' = "optimize"
            /\ journey' = Append(journey, JourneyStep(NoConnection, NoConnection,
                                                      q.egress[EndNode(journey)]))
            /\ ignore' = {}
            /\ UNCHANGED reason
       ELSE Fail("out_of_range") /\ UNCHANGED <<journey, ignore>>
    /\ UNCHANGED <<dataVars, departureTime, arrivalTime, usable, fwdVars, revVars,
                   bestDeparture, accessNode, cursor, result, listVars>>

\* departureTimeD; getMinWaitingTime() is -1 for a connection without one of
\* its own
departureTimeD(c) == tt.conn[c].dep - tt.conn[c].minWait

\* nodeTime of the answer is the arrival time minus the travel time
ListReverse ==
    /\ pc = "summary"
    /\ LET d == departureTimeD(accSteps[node].enter) IN List(d, arrivalTime - d)

NextAllNodes ==
    \/ ResetAllNodes
    \/ ForwardAllNodes \/ ForwardAllNodesEnd
    \/ ReverseAllNodes \/ ReverseAllNodesEnd
    \/ NextNode \/ Return
    \/ FollowBack \/ ListForward
    \/ FollowStep /\ UNCHANGED listVars
    \/ CloseAllNodes
    \/ OptimizeIteration /\ UNCHANGED listVars
    \/ OptimizeEnd /\ UNCHANGED listVars
    \/ ListReverse

SpecAllNodes == InitAllNodes /\ [][NextAllNodes]_allVars

\* one thread that runs to its end
FairSpecAllNodes == SpecAllNodes /\ WF_allVars(NextAllNodes)

-----------------------------------------------------------------------------
ListedTimes(n) == {r.time : r \in {r \in listed : r.node = n}}

\* reference: the arrivals of vehicles one may leave at node n
NodeArrivals(n) ==
    LET boardable == Boardable
    IN  {tt.conn[x].arr : x \in {x \in Conns : /\ tt.conn[x].to = n
                                             /\ \E b \in boardable : Rides(b, x)}}

(***************************************************************************)
(* accessibilityResponse.yml:102: nodeTime "is the earliest possible       *)
(* arrival time at this node".  calculateAllNodes lists exactly the nodes  *)
(* where a vehicle can be left within the maximum travel time, each with   *)
(* the earliest arrival, although the journey step reads steps that were   *)
(* overwritten while the scan went on.                                     *)
(***************************************************************************)
EarliestListed ==
    pc = "done" /\ q.forward /\ q.maxFirstWait = -1 /\ Progressing =>
        \A n \in Nodes :
            LET within == {a \in NodeArrivals(n) : a - q.time <= q.maxTotal}
            IN  ListedTimes(n) = IF within = {} THEN {} ELSE {Min(within)}

\* reference: the departures of vehicles from node n that lead to the place
NodeDepartures(n) == {tt.conn[e].dep : e \in {e \in Onward : tt.conn[e].from = n}}

(***************************************************************************)
(* calculateAllNodes towards a place: a node is listed only with a         *)
(* departure that leads there in time, which is the latest one up to the   *)
(* minimum waiting time, and every node that can be left within the        *)
(* maximum travel time, that waiting time included, is listed.             *)
(***************************************************************************)
LatestListed ==
    pc = "done" /\ ~ q.forward /\ Progressing =>
        \A n \in Nodes :
            LET times == ListedTimes(n)
                departures == NodeDepartures(n)
            IN  /\ Cardinality(times) <= 1
                /\ \A s \in times : \E d \in departures : s \in {d, d + 1}
                /\ \A d \in departures :
                     /\ arrivalTime - d + q.minWait <= q.maxTotal => times # {}
                     /\ \A s \in times : s > d - q.minWait \/ s >= d

(***************************************************************************)
(* forwardJourneyStepAllNodes: the journey whose transfers are counted can *)
(* be travelled: read backwards, each vehicle is left in time for the next *)
(* one, and the first one is reached on foot from the place.               *)
(***************************************************************************)
CountedJourneyFeasible ==
    pc = "count" =>
        /\ \A k \in DOMAIN journey : Rides(journey[k].enter, journey[k].exit)
        /\ \A k \in 1 .. Len(journey) - 1 : BoardedAfter(journey[k + 1].exit, journey[k].enter)
        /\ ~ hasConnections(cursor) /\ q.maxFirstWait = -1 =>
              BoardedFromOrigin(journey[Len(journey)].enter)

(***************************************************************************)
(* accessibilityResponse.yml:102: towards a place, nodeTime "is the latest *)
(* possible time the user needs to be at the node to take transit": at     *)
(* that time a vehicle that leads to the place has not left yet.           *)
(***************************************************************************)
NodeTimeInTime ==
    pc = "done" /\ ~ q.forward =>
        \A r \in listed : \E d \in NodeDepartures(r.node) : r.time <= d
=============================================================================
