------------------------ MODULE CalculatorProperties ------------------------
(***************************************************************************)
(* What makes the answer to a query right, over the states of Calculator.  *)
(***************************************************************************)
EXTENDS Calculator

Step == [enter : Nat, exit : Nat, walk : Nat \cup {NoPath}]

ForwardTypeOK ==
    /\ fwdPos \in 1 .. Len(tt.conn) + 1
    /\ fwdTime \in [Nodes -> Int]
    /\ fwdSteps \in [Nodes -> Step]
    /\ fwdEgress \in [Nodes -> 0 .. Len(tt.conn)]
    /\ enter \in [Trips -> 0 .. Len(tt.conn)]
    /\ egressReached \in Nat
    /\ fwdCount \in BOOLEAN

ReverseTypeOK ==
    /\ revPos \in 1 .. Len(tt.rev) + 1
    /\ revTime \in [Nodes -> Int]
    /\ revSteps \in [Nodes -> Step]
    /\ accSteps \in [Nodes -> Step]
    /\ exit \in [Trips -> 0 .. Len(tt.conn)]
    /\ exitWalk \in [Trips -> Int]
    /\ accessReached \in Int
    /\ revCount \in BOOLEAN

(***************************************************************************)
(* Every member of Calculator keeps the type the code gives it; positions  *)
(* stay inside the connection lists.                                       *)
(***************************************************************************)
TypeOK ==
    /\ IsTimetable(tt) /\ q \in Query
    /\ pc \in {"reset", "forward", "reverse", "journey", "optimize", "summary",
               "done", "failed"}
    /\ departureTime \in Nat \cup {-1} /\ arrivalTime \in Int
    /\ usable \subseteq Trips
    /\ ForwardTypeOK
    /\ ReverseTypeOK

-----------------------------------------------------------------------------
\* the rider boards e and alights from x, on one vehicle, where both are allowed
Rides(e, x) ==
    /\ e \in Conns /\ x \in Conns
    /\ e <= x
    /\ tt.conn[e].trip = tt.conn[x].trip
    /\ tt.conn[e].canBoard /\ tt.conn[x].canUnboard

(***************************************************************************)
(* forwardCalculation: whatever the order in which connections are         *)
(* scanned, the boarding connection of a trip is one the rider catches     *)
(* (label of its node plus the waiting time is no later than its           *)
(* departure), and every label is what its step says: walking from the     *)
(* origin, or riding that trip from its boarding connection and walking    *)
(* no longer than the maximum transfer time.                               *)
(***************************************************************************)
ForwardLabelsSound ==
    /\ \A t \in Trips : enter[t] # NoConnection =>
         /\ enter[t] \in Conns
         /\ tt.conn[enter[t]].trip = t
         /\ tt.conn[enter[t]].canBoard
         /\ fwdTime[tt.conn[enter[t]].from] + MinWait(enter[t]) <= tt.conn[enter[t]].dep
    /\ \A n \in Nodes :
         IF fwdSteps[n].enter = NoConnection
         THEN \/ fwdTime[n] = MAX_INT
              \/ n \in AccessNodes /\ fwdTime[n] = departureTime + q.access[n]
         ELSE LET e == fwdSteps[n].enter
                  x == fwdSteps[n].exit
              IN  /\ Rides(e, x)
                  /\ e = enter[tt.conn[x].trip]
                  /\ Transferable(tt.conn[x].to, n)
                  /\ fwdSteps[n].walk = tt.walk[tt.conn[x].to][n]
                  /\ fwdSteps[n].walk <= q.maxTransfer
                  /\ fwdTime[n] = tt.conn[x].arr + fwdSteps[n].walk

\* a step from which the destination is reached: ride from e, leave at x in
\* time for what the label of that node promises
LeadsOn(step) ==
    /\ Rides(step.enter, step.exit)
    /\ tt.conn[step.exit].arr <= revTime[tt.conn[step.exit].to]

(***************************************************************************)
(* reverseCalculation: every unboarding connection arrives no later than   *)
(* its node must be left, every label is what its step says, and a node    *)
(* without a step that may still be left (label not negative) is one from  *)
(* which one walks to the destination.  The steps therefore lead to an     *)
(* egress node although they are overwritten while the scan goes on.       *)
(***************************************************************************)
ReverseLabelsSound ==
    /\ \A t \in Trips : exit[t] # NoConnection =>
         /\ exit[t] \in Conns
         /\ tt.conn[exit[t]].trip = t
         /\ tt.conn[exit[t]].canUnboard
         /\ tt.conn[exit[t]].arr <= revTime[tt.conn[exit[t]].to]
    /\ \A n \in Nodes :
         IF revSteps[n].enter = NoConnection
         THEN \/ revTime[n] < 0
              \/ n \in EgressNodes /\ revTime[n] = arrivalTime - q.egress[n]
         ELSE LET m == tt.conn[revSteps[n].enter].from
              IN  /\ LeadsOn(revSteps[n])
                  /\ Transferable(n, m)
                  /\ revSteps[n].walk = tt.walk[n][m]
                  /\ revSteps[n].walk <= q.maxTransfer
                  /\ revTime[n] = tt.conn[revSteps[n].enter].dep
                                  - MinWait(revSteps[n].enter) - revSteps[n].walk
    /\ \A n \in Nodes : accSteps[n].enter # NoConnection =>
         /\ LeadsOn(accSteps[n])
         /\ tt.conn[accSteps[n].enter].from = n

(***************************************************************************)
(* reverseJourneyStep, line 70: nodesEgress.at() is only called with an    *)
(* egress node, so following the steps never ends in std::out_of_range.    *)
(***************************************************************************)
EndsAtEgress == reason # "out_of_range"

\* legs k and k + 1 of a journey: the walk recorded is the footpath between them
\* and the second vehicle is caught after the minimum waiting time
Joined(a, b) ==
    LET m == tt.conn[a.exit].to
        n == tt.conn[b.enter].from
    IN  /\ Transferable(m, n)
        /\ tt.walk[m][n] <= q.maxTransfer
        /\ a.walk = tt.walk[m][n]
        /\ tt.conn[a.exit].arr + a.walk + MinWait(b.enter) <= tt.conn[b.enter].dep

(***************************************************************************)
(* reverseJourneyStep: the journey read back from steps that were written  *)
(* at different moments of the scan can be travelled: each leg is a ride,  *)
(* each transfer walk is a footpath within the limit and leaves the        *)
(* minimum waiting time before the next vehicle.                           *)
(***************************************************************************)
JourneyFeasible ==
    pc = "journey" =>
        /\ \A k \in DOMAIN journey : Rides(journey[k].enter, journey[k].exit)
        /\ \A k \in 1 .. Len(journey) - 1 : Joined(journey[k], journey[k + 1])
        /\ (journey # <<>> /\ hasConnections(cursor)) =>
              Joined([journey[Len(journey)] EXCEPT !.walk = cursor.walk], cursor)

(***************************************************************************)
(* reverseJourneyStep, line 44, "recreate journey": a journey never takes  *)
(* the same ride twice.  Otherwise the steps lead in a circle and the loop *)
(* that follows them does not end.                                         *)
(***************************************************************************)
NoRideTwice ==
    pc = "journey" =>
        \A k, l \in DOMAIN journey : k # l => journey[k].enter # journey[l].enter

(***************************************************************************)
(* calculateSingle: when the forward calculation found an arrival, the     *)
(* reverse calculation that starts from it finds a journey.                *)
(* reverse_calculation.cpp:58 says that after its break there is "no need  *)
(* to parse next connections".                                             *)
(***************************************************************************)
RouteDelivered == q.forward /\ arrivalTime # -1 => pc # "failed"

\* every vehicle takes time between two nodes
Progressing == \A c \in Conns : tt.conn[c].dep < tt.conn[c].arr

\* every line asks for the same waiting time
OneWait == \A c, d \in Conns : MinWait(c) = MinWait(d)

(***************************************************************************)
(* The same without a limit on the first wait, for vehicles that take time *)
(* and lines that all ask for the same waiting time: neither the two       *)
(* breaks of the reverse calculation nor the trips marked usable cut off   *)
(* the route, and the answer arrives exactly when the forward calculation  *)
(* said it would: the reverse calculation and the optimiser lose or invent *)
(* no time.                                                                *)
(***************************************************************************)
ForwardRouteDelivered ==
    q.maxFirstWait = -1 /\ Progressing /\ OneWait =>
        /\ RouteDelivered
        /\ pc = "done" /\ q.forward => result.arrival = arrivalTime

(***************************************************************************)
(* The answer respects the query: it leaves no earlier than asked, arrives *)
(* no later than the arrival time asked for or found, and lasts at most    *)
(* the maximum travel time.                                                *)
(***************************************************************************)
ResultWithinQuery ==
    pc = "done" =>
        /\ q.forward => result.departure >= q.time
        /\ result.arrival <= arrivalTime
        /\ result.arrival - result.departure <= q.maxTotal

\* time on measured walking lines, which the answer counts in both totals
CountedTwice == MapThenSumSet(InVehicleTime, WalkedLegs)

(***************************************************************************)
(* reverseJourneyStep: after the optimiser has cut and moved legs, the     *)
(* parts of the answer still add up to its total travel time, both as      *)
(* vehicle + waiting + walking and leg by leg, and nobody waits a negative *)
(* time.                                                                   *)
(***************************************************************************)
TimesAddUp ==
    pc = "done" =>
        /\ result.arrival - result.departure
             = result.inVehicle + result.waiting + result.walking - CountedTwice
        /\ result.arrival - result.departure
             = result.access + result.firstWaiting + result.inVehicle
               + result.transferWalking - CountedTwice + result.transferWaiting
               + result.egress
        /\ \A k \in Legs : WaitingTime(k) >= 0 /\ InVehicleTime(k) >= 0

(***************************************************************************)
(* parameters.yml:59, min_waiting_time: "The minimum time to wait at a     *)
(* stop/station, in seconds": before every vehicle of the answer the       *)
(* traveller waits at least what the query asked for (up to 32767 seconds: *)
(* getMinWaitingTimeOrDefault takes a short), and is at the stop at the    *)
(* time the answer calls readyToBoardAt, also for legs the optimiser has   *)
(* moved.                                                                  *)
(***************************************************************************)
MinimumWaitKept ==
    pc = "done" =>
        \A k \in Legs :
            /\ transferReadyTime(k - 1) <= tt.conn[journey[k].enter].dep
            /\ q.minWait <= SHORT_MAX /\ ~ isTransferable(journey[k].enter) =>
                   WaitingTime(k) >= q.minWait

\* the legs of the answer, the last one excluded
Transfers == 2 .. Len(journey) - 2

(***************************************************************************)
(* optimizeJourney (line 339: "remove superfluous segments"): after the    *)
(* superfluous parts are cut, each leg starts where the previous one ends, *)
(* or within a footpath of it.                                             *)
(***************************************************************************)
OptimizedLegsConnected ==
    pc = "done" =>
        \A k \in Transfers :
            Transferable(LastNode(journey[k]), FirstNode(journey[k + 1]))

-----------------------------------------------------------------------------
(***************************************************************************)
(* Reference: what can be travelled, by definition, without labels or scan *)
(* order.  Boardable: the connections one can board coming from the        *)
(* origin after any number of rides, the least set that has the first      *)
(* boardings and, with a connection, those one may board after it.         *)
(***************************************************************************)
Enabled == {e \in Conns : tt.conn[e].trip \notin q.disabled}

BoardedFromOrigin(e) ==
    LET n == tt.conn[e].from
        there == q.time + q.access[n]
    IN  /\ n \in AccessNodes
        /\ there + MinWait(e) <= tt.conn[e].dep
        /\ q.maxFirstWait = -1 \/ tt.conn[e].dep - there <= q.maxFirstWait

BoardedAfter(x, e) ==
    LET m == tt.conn[x].to
        n == tt.conn[e].from
    IN  /\ Transferable(m, n)
        /\ tt.walk[m][n] <= q.maxTransfer
        /\ tt.conn[x].arr + tt.walk[m][n] + MinWait(e) <= tt.conn[e].dep

\* boarding e, one may alight and board f
Follows(e, f) == \E x \in Conns : Rides(e, x) /\ BoardedAfter(x, f)

BoardableSets ==
    LET enabled == {e \in Enabled : tt.conn[e].canBoard}
        origin == {e \in enabled : BoardedFromOrigin(e)}
        follows == {p \in enabled \X enabled : Follows(p[1], p[2])}
    IN  {B \in SUBSET enabled : /\ origin \subseteq B
                               /\ \A p \in follows : p[1] \in B => p[2] \in B}

Boardable == LET sets == BoardableSets
             IN  {e \in Enabled : tt.conn[e].canBoard /\ \A B \in sets : e \in B}

\* arrivals at the destination after at least one ride
DestinationArrivals ==
    LET boardable == Boardable
    IN  {tt.conn[x].arr + q.egress[tt.conn[x].to] :
            x \in {x \in Conns : /\ tt.conn[x].to \in EgressNodes
                                 /\ \E b \in boardable : Rides(b, x)}}

\* boarding e, one may alight where the destination is reached by arrivalTime
RidesHome(e) ==
    \E x \in Conns : /\ Rides(e, x)
                     /\ tt.conn[x].to \in EgressNodes
                     /\ tt.conn[x].arr + q.egress[tt.conn[x].to] <= arrivalTime

\* Onward: the connections from which the destination is reached by arrivalTime
\* after any number of rides, the least set that has those of the last ride
\* and, with a connection, those after which one may board it
OnwardSets ==
    LET enabled == {e \in Enabled : tt.conn[e].canBoard}
        last == {e \in enabled : RidesHome(e)}
        follows == {p \in enabled \X enabled : Follows(p[1], p[2])}
    IN  {B \in SUBSET enabled : /\ last \subseteq B
                               /\ \A p \in follows : p[2] \in B => p[1] \in B}

Onward == LET sets == OnwardSets
          IN  {e \in Enabled : tt.conn[e].canBoard /\ \A B \in sets : e \in B}

\* the moments one may leave the origin for such a connection
OriginDepartures ==
    {tt.conn[e].dep - MinWait(e) - q.access[tt.conn[e].from] :
        e \in {e \in Onward : tt.conn[e].from \in AccessNodes}}

(***************************************************************************)
(* forwardCalculation finds the earliest arrival among the journeys with a *)
(* first wait no longer than the maximum ("The maximum time, in seconds,   *)
(* one can wait at first stop/station to consider this trip valid",        *)
(* parameters.yml:94) and none when there is none within the maximum       *)
(* travel time, despite scanning each connection once, keeping one         *)
(* boarding per trip and breaking early.                                   *)
(***************************************************************************)
EarliestValidArrivalFound ==
    LET onTime == {a \in DestinationArrivals : a - q.time <= q.maxTotal}
    IN  /\ Progressing
        /\ FwdEnded
        => {EgressArrival(n) : n \in {n \in EgressCandidates : IsBestEgress(n)}}
             = (IF onTime = {} THEN {} ELSE {Min(onTime)})

(***************************************************************************)
(* The same for the queries without a limit on the first wait.             *)
(***************************************************************************)
EarliestArrivalFound == q.maxFirstWait = -1 => EarliestValidArrivalFound

\* departures that keep the arrival time and respect the query
OnTimeDepartures ==
    {d \in OriginDepartures : /\ d >= 0 /\ d >= departureTime
                             /\ arrivalTime - d <= q.maxTotal}

(***************************************************************************)
(* What reverseCalculation does find: never a departure that is not        *)
(* possible, and one later than the best minus the minimum waiting time    *)
(* (exactly the best without a waiting time), when the best is that far    *)
(* from the earliest departure asked for and from the maximum travel time. *)
(***************************************************************************)
DepartureNearlyLatest ==
    /\ Progressing /\ q.maxFirstWait = -1
    /\ RevEnded
    => LET best == {n \in AccessCandidates : IsBestAccess(n)}
           departures == OnTimeDepartures
       IN  /\ {AccessDeparture(n) : n \in best} \subseteq departures
           /\ \A d \in departures :
                 best = {} => \/ arrivalTime - d + q.minWait > q.maxTotal
                              \/ d < departureTime + q.minWait
           /\ \A n \in best, d \in departures :
                 AccessDeparture(n) > d - q.minWait \/ AccessDeparture(n) >= d

-----------------------------------------------------------------------------
\* what the legs ride, leg by leg
Ridden(legs) ==
    {r \in (DOMAIN legs) \X Conns :
        hasConnections(legs[r[1]]) /\ r[2] \in Segment(legs[r[1]])}

(***************************************************************************)
(* optimizeJourney: an iteration that lets the loop go on shortens what is *)
(* ridden or adds a node to those it will not try again, so the loop ends  *)
(* whatever the journey and whatever the nodes allow.                      *)
(***************************************************************************)
OptimizerProgress ==
    pc = "optimize" =>
        \A f \in FirstFound(journey, ignore) :
            LET repair == Repair(journey, ignore, f)
            IN  \/ f[3] = 2
                \/ Cardinality(Ridden(repair.journey)) < Cardinality(Ridden(journey))
                \/ repair.ignored \ ignore # {}

(***************************************************************************)
(* Every query is answered: the scans, the walk along the steps and the    *)
(* loop of the optimiser all end.                                          *)
(***************************************************************************)
EveryQueryAnswered == <>(pc \in {"done", "failed"})
=============================================================================
