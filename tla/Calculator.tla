----------------------------- MODULE Calculator -----------------------------
(***************************************************************************)
(* Calculator::calculateSingle for one query: reset(), the forward         *)
(* calculation (for a departure time), the reverse calculation from the    *)
(* arrival time found or requested, and reverseJourneyStep, which follows  *)
(* the steps to the destination, optimises the journey and adds it up.     *)
(***************************************************************************)
EXTENDS ForwardCalculation, ReverseCalculation, OptimizeJourney

VARIABLES
    bestDeparture,  \* bestDepartureTime returned by reverseCalculation
    accessNode,     \* bestAccessNode
    cursor,         \* resultingNodeJourneyStep
    journey,        \* the journey under construction
    ignore,         \* ignoreOptimizationNodes
    result          \* the SingleCalculationResult; meaningful when pc = "done"

journeyVars == <<bestDeparture, accessNode, cursor, journey, ignore, result>>

vars == <<dataVars, pc, reason, departureTime, arrivalTime, usable,
          fwdVars, revVars, journeyVars>>

NoResult == [departure |-> -1, arrival |-> -1, inVehicle |-> 0, walking |-> 0,
             waiting |-> 0, firstWaiting |-> -1, transferWaiting |-> 0,
             access |-> -1, egress |-> -1, transferWalking |-> 0, boardings |-> 0]

(***************************************************************************)
(* A Calculator as its constructor leaves it, for some timetable and query *)
(***************************************************************************)
Init ==
    /\ tt \in Timetables
    /\ q \in Queries
    /\ pc = "reset" /\ reason = "none"
    /\ departureTime = 0 /\ arrivalTime = -1
    /\ usable = {}
    /\ fwdPos = 1 /\ fwdCount = FALSE /\ egressReached = MAX_INT
    /\ fwdTime = [n \in Nodes |-> MAX_INT]
    /\ fwdSteps = [n \in Nodes |-> NoStep]
    /\ fwdEgress = [n \in Nodes |-> NoConnection]
    /\ enter = [t \in Trips |-> NoConnection]
    /\ revPos = 1 /\ revCount = FALSE /\ accessReached = -1
    /\ revTime = [n \in Nodes |-> -1]
    /\ revSteps = [n \in Nodes |-> NoStep]
    /\ accSteps = [n \in Nodes |-> NoStep]
    /\ exit = [t \in Trips |-> NoConnection]
    /\ exitWalk = [t \in Trips |-> MAX_INT]
    /\ bestDeparture = -1
    /\ accessNode = CHOOSE n \in Nodes : TRUE
    /\ cursor = NoStep
    /\ journey = <<>>
    /\ ignore = {}
    /\ result = NoResult

Fail(why) == pc' = "failed" /\ reason' = why

-----------------------------------------------------------------------------
(***************************************************************************)
(* reset()                                                                 *)
(***************************************************************************)
NoAccessReason ==
    IF AccessNodes = {} /\ EgressNodes = {} THEN "NO_ACCESS_AT_ORIGIN_AND_DESTINATION"
    ELSE IF AccessNodes = {} THEN "NO_ACCESS_AT_ORIGIN"
    ELSE "NO_ACCESS_AT_DESTINATION"

\* the first scan, from the hour of the time asked for; without a forward pass
\* every trip is usable
StartScan ==
    IF q.forward
    THEN /\ pc' = "forward"
         /\ fwdPos' = ForwardBegin(q.time \div SecondsPerHour)
         /\ usable' = {}
         /\ UNCHANGED <<reason, revPos>>
    ELSE /\ pc' = "reverse"
         /\ revPos' = ReverseBegin(q.time \div SecondsPerHour + 1)
         /\ usable' = Trips
         /\ UNCHANGED <<reason, fwdPos>>

Reset ==
    /\ pc = "reset"
    /\ departureTime' = IF q.forward THEN q.time ELSE -1
    /\ arrivalTime' = IF q.forward THEN -1 ELSE q.time
    /\ ResetForward
    /\ ResetReverse
    /\ IF AccessNodes = {} \/ EgressNodes = {}
       THEN Fail(NoAccessReason) /\ UNCHANGED <<fwdPos, revPos, usable>>
       ELSE StartScan
    /\ UNCHANGED <<dataVars, journeyVars>>

(***************************************************************************)
(* The end of forwardCalculation, and what calculateSingle does with it    *)
(***************************************************************************)
FwdEnded == pc = "forward" /\ fwdPos = Len(tt.conn) + 1

ForwardFail ==
    /\ FwdEnded
    /\ ~ fwdCount \/ EgressCandidates = {}
    /\ Fail(IF fwdCount THEN "NO_ROUTING_FOUND" ELSE "NO_SERVICE_FROM_ORIGIN")
    /\ UNCHANGED <<dataVars, departureTime, arrivalTime, usable, fwdVars, revVars, journeyVars>>

ForwardFound ==
    /\ FwdEnded
    /\ fwdCount
    /\ \E n \in EgressCandidates :
         /\ IsBestEgress(n)
         /\ arrivalTime' = EgressArrival(n)
         /\ revTime' = EgressLabels(EgressArrival(n))
         /\ revPos' = ReverseBegin(EgressArrival(n) \div SecondsPerHour + 1)
    /\ pc' = "reverse"
    /\ UNCHANGED <<dataVars, reason, departureTime, usable, fwdVars, revSteps, accSteps,
                   exit, exitWalk, accessReached, revCount, journeyVars>>

(***************************************************************************)
(* The end of reverseCalculation                                           *)
(***************************************************************************)
RevEnded == pc = "reverse" /\ revPos = Len(tt.rev) + 1

ReverseFail ==
    /\ RevEnded
    /\ ~ revCount \/ AccessCandidates = {}
    /\ Fail(IF revCount THEN "NO_ROUTING_FOUND" ELSE "NO_SERVICE_TO_DESTINATION")
    /\ UNCHANGED <<dataVars, departureTime, arrivalTime, usable, fwdVars, revVars, journeyVars>>

ReverseFound ==
    /\ RevEnded
    /\ revCount
    /\ \E n \in AccessCandidates :
         /\ IsBestAccess(n)
         /\ bestDeparture' = AccessDeparture(n)
         /\ accessNode' = n
         /\ cursor' = accSteps[n]
    /\ journey' = <<>>
    /\ pc' = "journey"
    /\ UNCHANGED <<dataVars, reason, departureTime, arrivalTime, usable, fwdVars, revVars,
                   ignore, result>>

-----------------------------------------------------------------------------
(***************************************************************************)
(* reverseJourneyStep: one action per step followed.  The walk of a step   *)
(* is moved to the leg before it (copyTransferTimeDistance).               *)
(***************************************************************************)
\* faulty: the walk stays with the leg after it
WithWalkKept(legs, walk) == legs

WithWalk(legs, walk) ==
    IF legs = <<>> THEN legs ELSE [legs EXCEPT ![Len(legs)].walk = walk]

FollowStep ==
    /\ pc = "journey"
    /\ hasConnections(cursor)
    /\ journey' = Append(WithWalk(journey, cursor.walk), cursor)
    /\ cursor' = revSteps[tt.conn[cursor.exit].to]
    /\ UNCHANGED <<dataVars, pc, reason, departureTime, arrivalTime, usable, fwdVars,
                   revVars, bestDeparture, accessNode, ignore, result>>

\* the node where the last leg ends; nodesEgress.at() throws when it is none
EndNode(legs) == tt.conn[legs[Len(legs)].exit].to

CloseJourney ==
    /\ pc = "journey"
    /\ ~ hasConnections(cursor)
    /\ IF EndNode(journey) \in EgressNodes
       THEN /\ pc' = "optimize"
            /\ journey' = <<JourneyStep(NoConnection, NoConnection, q.access[accessNode])>>
                          \o journey
                          \o <<JourneyStep(NoConnection, NoConnection,
                                           q.egress[EndNode(journey)])>>
            /\ ignore' = {}
            /\ UNCHANGED reason
       ELSE Fail("out_of_range") /\ UNCHANGED <<journey, ignore>>
    /\ UNCHANGED <<dataVars, departureTime, arrivalTime, usable, fwdVars, revVars,
                   bestDeparture, accessNode, cursor, result>>

\* one iteration of the loop of optimizeJourney; BTS ends the loop
OptimizeIteration ==
    /\ pc = "optimize"
    /\ \E f \in FirstFound(journey, ignore) :
         /\ \E r \in {Repair(journey, ignore, f)} :
              journey' = r.journey /\ ignore' = ignore \cup r.ignored
         /\ pc' = IF f[3] = 2 THEN "summary" ELSE "optimize"
    /\ UNCHANGED <<dataVars, reason, departureTime, arrivalTime, usable, fwdVars, revVars,
                   bestDeparture, accessNode, cursor, result>>

OptimizeEnd ==
    /\ pc = "optimize"
    /\ FirstFound(journey, ignore) = {}
    /\ pc' = "summary"
    /\ UNCHANGED <<dataVars, reason, departureTime, arrivalTime, usable, fwdVars, revVars,
                   journeyVars>>

-----------------------------------------------------------------------------
\* positions of the legs: the first and the last step are the walks
Legs == 2 .. Len(journey) - 1

\* faulty: the transfer walk is left out
transferArrivalTimeNoWalk(k) ==
    IF k = 1 THEN bestDeparture ELSE tt.conn[journey[k].exit].arr

\* transferArrivalTime after step k
transferArrivalTime(k) ==
    IF k = 1 THEN bestDeparture + journey[1].walk
             ELSE tt.conn[journey[k].exit].arr + journey[k].walk

WaitingTime(k) == tt.conn[journey[k].enter].dep - transferArrivalTime(k - 1)

InVehicleTime(k) == tt.conn[journey[k].exit].arr - tt.conn[journey[k].enter].dep

\* transferReadyTime after step k: the boarding buffer of the next leg included
transferReadyTime(k) == transferArrivalTime(k) + MinWait(journey[k + 1].enter)

\* legs on a line one walks along, counted as walking too when measured
WalkedLegs ==
    {k \in Legs : /\ isTransferable(journey[k].enter)
                  /\ tt.conn[journey[k].enter].trip \in tt.measured}

Summarize ==
    /\ pc = "summary"
    /\ LET last == Len(journey)
           walked == MapThenSumSet(InVehicleTime, WalkedLegs)
           transferWalk == MapThenSumSet(LAMBDA k : journey[k].walk, 2 .. last - 2)
       IN  result' =
             [departure |-> bestDeparture,
              arrival |-> tt.conn[journey[last - 1].exit].arr + journey[last].walk,
              inVehicle |-> MapThenSumSet(InVehicleTime, Legs),
              waiting |-> MapThenSumSet(WaitingTime, Legs),
              firstWaiting |-> WaitingTime(2),
              transferWaiting |-> MapThenSumSet(WaitingTime, Legs \ {2}),
              walking |-> journey[1].walk + transferWalk + walked + journey[last].walk,
              access |-> journey[1].walk,
              egress |-> journey[last].walk,
              transferWalking |-> transferWalk + walked,
              boardings |-> Cardinality({k \in Legs : ~ isTransferable(journey[k].enter)})]
    /\ pc' = "done"
    /\ UNCHANGED <<dataVars, reason, departureTime, arrivalTime, usable, fwdVars, revVars,
                   bestDeparture, accessNode, cursor, journey, ignore>>

-----------------------------------------------------------------------------
Next ==
    \/ Reset
    \/ ForwardScan /\ UNCHANGED <<revVars, journeyVars>>
    \/ ForwardFail
    \/ ForwardFound
    \/ ReverseScan /\ UNCHANGED <<fwdVars, journeyVars>>
    \/ ReverseFail
    \/ ReverseFound
    \/ FollowStep
    \/ CloseJourney
    \/ OptimizeIteration
    \/ OptimizeEnd
    \/ Summarize

Spec == Init /\ [][Next]_vars

\* the calculation is one thread that runs to its end
FairSpec == Spec /\ WF_vars(Next)
=============================================================================
