--------------------------- MODULE JourneyProofs ---------------------------
(***************************************************************************)
(* The journey read back from the steps of the reverse calculation can be  *)
(* travelled and ends at an egress node; whatever the optimiser then cuts  *)
(* and moves, the answer keeps to the times and waits of the query, and    *)
(* every iteration of the optimiser makes progress: for every network,     *)
(* timetable and query whose waiting time fits in a short.  Then the two   *)
(* calculations together: the departure of an answer is the latest one up  *)
(* to the waiting time, and an arrival that was found is delivered.        *)
(***************************************************************************)
EXTENDS ArrivalProofs, SequenceTheorems

\* the legs so far, and the step of the node where the last one ends
FollowsSteps ==
    /\ journey \in Seq(Step) /\ cursor \in Step
    /\ hasConnections(cursor) => LeadsOn(cursor)
    /\ \A k \in 1 .. Len(journey) : LeadsOn(journey[k])
    /\ \A k \in 1 .. Len(journey) - 1 : Joined(journey[k], journey[k + 1])
    /\ IF journey = <<>> THEN hasConnections(cursor)
       ELSE cursor = revSteps[tt.conn[journey[Len(journey)].exit].to]

JourneySound == EndsAtEgress /\ (pc = "journey" => FollowsSteps)

JInv == RInv /\ (FitsShort => JourneySound)

\* what reading the steps back relies on
StepsSound == DataOK /\ ReverseTypeOK /\ ReverseLabelsSound

LEMMA SoundSteps == RInv /\ FitsShort => StepsSound
BY DEF RInv, TypeOK, DataOK, StepsSound

LEMMA LeadsOnType ==
    ASSUME DataOK, NEW s, LeadsOn(s)
    PROVE  /\ s.enter \in Conns /\ s.exit \in Conns /\ hasConnections(s)
           /\ tt.conn[s.exit].to \in Nodes /\ tt.conn[s.exit].arr \in Nat
<1>1. s.enter \in Conns /\ s.exit \in Conns
  BY DEF LeadsOn, Rides
<1>2. s.enter \in Nat \ {0} /\ s.exit \in Nat \ {0}
  BY <1>1, ConnectionType
<1> QED
  BY <1>1, <1>2, ConnectionType DEF hasConnections, NoConnection

\* the step of the node where a vehicle is left is caught: its label promises it
LEMMA NextStepJoined ==
    ASSUME StepsSound, NEW s, LeadsOn(s), NEW a, NEW b,
           b = revSteps[tt.conn[s.exit].to], hasConnections(b),
           a.exit = s.exit, a.walk = b.walk
    PROVE  LeadsOn(b) /\ Joined(a, b)
<1> DEFINE m == tt.conn[s.exit].to
           n == tt.conn[b.enter].from
<1>1. DataOK /\ ReverseTypeOK /\ ReverseLabelsSound
  BY DEF StepsSound
<1>2. m \in Nodes /\ tt.conn[s.exit].arr \in Nat /\ revTime[m] \in Int
      /\ tt.conn[s.exit].arr <= revTime[m]
  BY <1>1, LeadsOnType DEF ReverseTypeOK, LeadsOn
<1>3. /\ LeadsOn(b) /\ Transferable(m, n) /\ b.walk = tt.walk[m][n] /\ b.walk <= q.maxTransfer
      /\ revTime[m] = tt.conn[b.enter].dep - MinWait(b.enter) - b.walk
  BY <1>1, <1>2, ReverseParts DEF NodeSound, hasConnections
<1>4. b.enter \in Conns
  BY <1>1, <1>3, LeadsOnType
<1>5. tt.conn[b.enter].dep \in Nat /\ MinWait(b.enter) \in Int /\ n \in Nodes
  BY <1>1, <1>4, ConnectionType, MinWaitType
<1>6. b.walk \in Int
  <2>1. tt.walk[m][n] \in Nat \cup {NoPath}
    BY <1>1, <1>2, <1>5, DataType
  <2>2. \A w \in Nat \cup {NoPath} : w \in Int
    BY DEF NoPath
  <2> HIDE DEF m, n
  <2> QED
    BY <1>3, <2>1, <2>2
<1>7. \A x, r, d, v, w \in Int : x <= r /\ r = d - v - w => x + w + v <= d
  OBVIOUS
<1>8. tt.conn[s.exit].arr + b.walk + MinWait(b.enter) <= tt.conn[b.enter].dep
  <2> DEFINE x == tt.conn[s.exit].arr
             r == revTime[m]
             d == tt.conn[b.enter].dep
             v == MinWait(b.enter)
             w == b.walk
  <2>1. x \in Int /\ r \in Int /\ x <= r
    BY <1>2
  <2>2. d \in Int /\ v \in Int /\ w \in Int
    <3>1. \A i \in Nat : i \in Int
      OBVIOUS
    <3> QED
      BY <1>5, <1>6, <3>1, Zenon
  <2>3. r = d - v - w
    BY <1>3
  <2> HIDE DEF x, r, d, v, w
  <2>4. x + w + v <= d
    BY <1>7, <2>1, <2>2, <2>3
  <2> QED
    BY <2>4 DEF x, d, v, w
<1> QED
  BY <1>3, <1>8 DEF Joined

\* where the steps end, the destination is reached on foot
LEMMA EndsOnFoot ==
    ASSUME StepsSound, NEW s, LeadsOn(s),
           ~ hasConnections(revSteps[tt.conn[s.exit].to])
    PROVE  tt.conn[s.exit].to \in EgressNodes
<1> DEFINE m == tt.conn[s.exit].to
<1>1. DataOK /\ ReverseTypeOK /\ ReverseLabelsSound
  BY DEF StepsSound
<1>2. m \in Nodes /\ tt.conn[s.exit].arr \in Nat /\ revTime[m] \in Int
      /\ tt.conn[s.exit].arr <= revTime[m]
  BY <1>1, LeadsOnType DEF ReverseTypeOK, LeadsOn
<1>3. revSteps[m].enter = NoConnection
  <2>1. revSteps[m].enter # NoConnection => LeadsOn(revSteps[m])
    BY <1>1, <1>2, ReverseParts DEF NodeSound
  <2> QED
    BY <1>1, <2>1, LeadsOnType
<1>4. ~ (revTime[m] < 0)
  BY <1>2
<1> QED
  BY <1>1, <1>2, <1>3, <1>4, ReverseParts DEF NodeSound

LEMMA FollowsFeasible ==
    ASSUME StepsSound, FollowsSteps
    PROVE  JourneyFeasible
<1>1. \A k \in 1 .. Len(journey) : Rides(journey[k].enter, journey[k].exit)
  BY DEF FollowsSteps, LeadsOn
<1>2. ASSUME journey # <<>>, hasConnections(cursor)
      PROVE  Joined([journey[Len(journey)] EXCEPT !.walk = cursor.walk], cursor)
  <2> DEFINE s == journey[Len(journey)]
             a == [s EXCEPT !.walk = cursor.walk]
  <2>1. Len(journey) \in 1 .. Len(journey) /\ s \in Step
    BY <1>2 DEF FollowsSteps
  <2>2. a.exit = s.exit /\ a.walk = cursor.walk
    BY <2>1 DEF Step
  <2>3. LeadsOn(s) /\ cursor = revSteps[tt.conn[s.exit].to]
    BY <1>2, <2>1 DEF FollowsSteps
  <2> HIDE DEF s, a
  <2>4. Joined(a, cursor)
    BY <1>2, <2>2, <2>3, NextStepJoined
  <2> QED
    BY <2>4 DEF s, a
<1>3. DOMAIN journey = 1 .. Len(journey)
  BY DEF FollowsSteps
<1> QED
  BY <1>1, <1>2, <1>3 DEF FollowsSteps, JourneyFeasible

-----------------------------------------------------------------------------
\* the walk of the last leg is set, everything else stays
LEMMA WithWalkLegs ==
    ASSUME NEW legs \in Seq(Step), NEW w \in Nat \cup {NoPath}
    PROVE  LET J == WithWalk(legs, w)
           IN  /\ J \in Seq(Step) /\ Len(J) = Len(legs)
               /\ \A k \in 1 .. Len(legs) : J[k].enter = legs[k].enter /\ J[k].exit = legs[k].exit
               /\ \A k \in 1 .. Len(legs) - 1 : J[k] = legs[k]
               /\ legs # <<>> => J[Len(legs)].walk = w
<1>1. CASE legs = <<>>
  BY <1>1 DEF WithWalk
<1>2. CASE legs # <<>>
  <2> DEFINE last == [legs[Len(legs)] EXCEPT !.walk = w]
             J == WithWalk(legs, w)
  <2>1. Len(legs) \in 1 .. Len(legs) /\ legs[Len(legs)] \in Step
    BY <1>2
  <2>2. /\ last \in Step /\ last.enter = legs[Len(legs)].enter
        /\ last.exit = legs[Len(legs)].exit /\ last.walk = w
    BY <2>1 DEF Step
  <2>3. J = [legs EXCEPT ![Len(legs)] = last]
    BY <1>2 DEF WithWalk
  <2> HIDE DEF last, J
  <2>4. J \in Seq(Step) /\ Len(J) = Len(legs)
    BY <2>1, <2>2, <2>3
  <2>5. \A k \in 1 .. Len(legs) : J[k] = IF k = Len(legs) THEN last ELSE legs[k]
    BY <2>3
  <2> QED
    BY <2>1, <2>2, <2>4, <2>5 DEF J
<1> QED
  BY <1>1, <1>2

LEMMA FollowStepSound ==
    ASSUME StepsSound, JourneySound, FollowStep
    PROVE  JourneySound'
<1>1. /\ DataOK /\ ReverseTypeOK /\ FollowsSteps /\ hasConnections(cursor)
      /\ UNCHANGED <<tt, q, revTime, revSteps, reason>>
      /\ cursor' = revSteps[tt.conn[cursor.exit].to]
      /\ journey' = Append(WithWalk(journey, cursor.walk), cursor)
  BY DEF StepsSound, JourneySound, FollowStep, dataVars, revVars
<1> DEFINE J == WithWalk(journey, cursor.walk)
<1>2. /\ journey \in Seq(Step) /\ cursor \in Step /\ LeadsOn(cursor)
      /\ cursor.walk \in Nat \cup {NoPath}
  BY <1>1 DEF FollowsSteps, Step
<1>3. /\ J \in Seq(Step) /\ Len(J) = Len(journey)
      /\ \A k \in 1 .. Len(journey) : J[k].enter = journey[k].enter /\ J[k].exit = journey[k].exit
      /\ \A k \in 1 .. Len(journey) - 1 : J[k] = journey[k]
      /\ journey # <<>> => J[Len(journey)].walk = cursor.walk
  BY <1>2, WithWalkLegs
<1> HIDE DEF J
<1>4. /\ journey' \in Seq(Step) /\ Len(journey') = Len(journey) + 1
      /\ journey'[Len(journey) + 1] = cursor
      /\ \A k \in 1 .. Len(journey) : journey'[k] = J[k]
      /\ journey' # <<>> /\ Len(journey) \in Nat
  BY <1>1, <1>2, <1>3 DEF J
<1>5. cursor' \in Step
  BY <1>1, <1>2, LeadsOnType DEF ReverseTypeOK
<1>6. hasConnections(cursor') => LeadsOn(cursor')
  <2>1. ASSUME NEW b, b = revSteps[tt.conn[cursor.exit].to], hasConnections(b)
        PROVE  LeadsOn(b)
    <3> DEFINE a == [exit |-> cursor.exit, walk |-> b.walk]
    <3>1. a.exit = cursor.exit /\ a.walk = b.walk
      OBVIOUS
    <3> HIDE DEF a
    <3> QED
      BY <1>2, <2>1, <3>1, NextStepJoined
  <2> QED
    BY <1>1, <2>1
<1>7. \A k \in 1 .. Len(journey) + 1 : LeadsOn(journey'[k])
  <2> SUFFICES ASSUME NEW k \in 1 .. Len(journey) + 1 PROVE LeadsOn(journey'[k])
    OBVIOUS
  <2>1. CASE k = Len(journey) + 1
    BY <1>2, <1>4, <2>1
  <2>2. CASE k # Len(journey) + 1
    <3>1. k \in 1 .. Len(journey)
      BY <1>4, <2>2
    <3>2. /\ LeadsOn(journey[k])
          /\ journey'[k].enter = journey[k].enter /\ journey'[k].exit = journey[k].exit
      BY <1>1, <1>3, <1>4, <3>1 DEF FollowsSteps
    <3> QED
      BY <3>2 DEF LeadsOn
  <2> QED
    BY <2>1, <2>2
<1>8. \A k \in 1 .. Len(journey) : Joined(journey'[k], journey'[k + 1])
  <2> SUFFICES ASSUME NEW k \in 1 .. Len(journey) PROVE Joined(journey'[k], journey'[k + 1])
    OBVIOUS
  <2>1. CASE k = Len(journey)
    <3>1. journey # <<>>
      BY <1>2, <2>1
    <3>2. /\ LeadsOn(journey[k]) /\ cursor = revSteps[tt.conn[journey[k].exit].to]
          /\ J[k].exit = journey[k].exit /\ J[k].walk = cursor.walk
      BY <1>1, <1>3, <2>1, <3>1 DEF FollowsSteps
    <3>3. Joined(J[k], cursor)
      BY <1>1, <3>2, NextStepJoined
    <3> QED
      BY <1>4, <2>1, <3>3
  <2>2. CASE k < Len(journey)
    <3>1. k \in 1 .. Len(journey) - 1 /\ k + 1 \in 1 .. Len(journey)
      BY <1>4, <2>2
    <3>2. Joined(journey[k], journey[k + 1])
      BY <1>1, <3>1 DEF FollowsSteps
    <3>3. /\ journey'[k] = journey[k]
          /\ journey'[k + 1].enter = journey[k + 1].enter
      BY <1>3, <1>4, <3>1
    <3> QED
      BY <3>2, <3>3 DEF Joined
  <2> QED
    BY <1>4, <2>1, <2>2
<1>9. cursor' = revSteps'[tt'.conn[journey'[Len(journey')].exit].to]
  BY <1>1, <1>4
<1>10. FollowsSteps'
  <2>1. (\A k \in 1 .. Len(journey) : LeadsOn(journey[k]))'
    BY <1>1, <1>4, <1>7 DEF LeadsOn, Rides, Conns
  <2>2. (\A k \in 1 .. Len(journey) - 1 : Joined(journey[k], journey[k + 1]))'
    <3>1. 1 .. Len(journey') - 1 = 1 .. Len(journey)
      BY <1>4
    <3> QED
      BY <1>1, <1>8, <3>1 DEF Joined, Transferable, MinWait
  <2>3. (hasConnections(cursor) => LeadsOn(cursor))'
    BY <1>1, <1>6 DEF LeadsOn, Rides, Conns, hasConnections
  <2> QED
    BY <1>4, <1>5, <1>9, <2>1, <2>2, <2>3 DEF FollowsSteps
<1> QED
  BY <1>1, <1>10 DEF JourneySound, EndsAtEgress

\* the journey begins with the step of the best access node
LEMMA ReverseFoundSound ==
    ASSUME RInv, FitsShort, JourneySound, ReverseFound
    PROVE  JourneySound'
<1>1. /\ DataOK /\ ReverseTypeOK /\ ReverseLabelsSound
      /\ UNCHANGED <<tt, q, revTime, revSteps, reason>> /\ journey' = <<>>
  BY DEF RInv, TypeOK, DataOK, ReverseFound, dataVars, revVars
<1>2. PICK n \in AccessCandidates : cursor' = accSteps[n]
  BY DEF ReverseFound
<1>3. n \in Nodes /\ accSteps[n].enter # NoConnection
  BY DEF AccessCandidates, AccessNodes
<1>4. LeadsOn(accSteps[n])
  BY <1>1, <1>3, ReverseParts DEF AccessSound
<1>5. cursor' \in Step /\ hasConnections(cursor')
  BY <1>1, <1>2, <1>3, <1>4, LeadsOnType DEF ReverseTypeOK
<1>6. LeadsOn(cursor)'
  BY <1>1, <1>2, <1>4 DEF LeadsOn, Rides, Conns
<1>7. FollowsSteps'
  BY <1>1, <1>5, <1>6 DEF FollowsSteps, hasConnections
<1> QED
  BY <1>1, <1>7 DEF JourneySound, EndsAtEgress

\* nodesEgress.at() finds the node where the last vehicle is left
LEMMA EndNodeEgress ==
    ASSUME StepsSound, FollowsSteps, ~ hasConnections(cursor)
    PROVE  EndNode(journey) \in EgressNodes
<1>1. journey # <<>> /\ Len(journey) \in 1 .. Len(journey)
  BY DEF FollowsSteps
<1> DEFINE s == journey[Len(journey)]
<1>2. LeadsOn(s) /\ cursor = revSteps[tt.conn[s.exit].to]
  BY <1>1 DEF FollowsSteps
<1>3. tt.conn[s.exit].to \in EgressNodes
  BY <1>2, EndsOnFoot
<1> QED
  BY <1>3 DEF EndNode

LEMMA CloseJourneySound ==
    ASSUME StepsSound, JourneySound, CloseJourney
    PROVE  JourneySound'
<1>1. FollowsSteps /\ ~ hasConnections(cursor)
  BY DEF JourneySound, CloseJourney
<1>2. pc' = "optimize" /\ UNCHANGED reason
  BY <1>1, EndNodeEgress DEF CloseJourney
<1> QED
  BY <1>2 DEF JourneySound, EndsAtEgress

LEMMA NextJInv == JInv /\ [Next]_vars => JInv'
<1> SUFFICES ASSUME JInv, [Next]_vars PROVE JInv'
  OBVIOUS
<1>1. RInv /\ RInv'
  BY NextRInv DEF JInv
<1>2. FitsShort' <=> FitsShort
  BY DEF FitsShort, Next, vars, dataVars, Reset, ForwardScan, ForwardFail, ForwardFound,
         ReverseScan, ReverseFail, ReverseFound, FollowStep, CloseJourney,
         OptimizeIteration, OptimizeEnd, Summarize
<1>3. ASSUME FitsShort PROVE JourneySound'
  <2>1. JourneySound
    BY <1>3 DEF JInv
  <2>2. CASE ReverseFound
    BY <1>1, <1>3, <2>1, <2>2, ReverseFoundSound
  <2>3. CASE FollowStep
    BY <1>1, <1>3, <2>1, <2>3, SoundSteps, FollowStepSound
  <2>4. CASE CloseJourney
    BY <1>1, <1>3, <2>1, <2>4, SoundSteps, CloseJourneySound
  <2>5. CASE UNCHANGED vars
    BY <2>1, <2>5 DEF vars, dataVars, revVars, journeyVars, JourneySound, EndsAtEgress, FollowsSteps,
                      LeadsOn, Rides, Conns, Joined, Transferable, MinWait, hasConnections
  <2>6. CASE \/ Reset \/ ForwardScan \/ ForwardFail \/ ForwardFound \/ ReverseScan \/ ReverseFail
             \/ OptimizeIteration \/ OptimizeEnd \/ Summarize
    <3>1. pc' # "journey"
      <4>1. CASE Reset
        BY <4>1 DEF Reset, StartScan, Fail
      <4>2. CASE ForwardScan
        BY <4>2 DEF ForwardScan, ForwardSkip, ForwardBreak, ForwardPass, ForwardRide, FwdScanning
      <4>3. CASE ReverseScan
        BY <4>3 DEF ReverseScan, ReverseSkip, ReverseBreak, ReversePass, ReverseRide, RevScanning
      <4>4. CASE ForwardFail \/ ForwardFound \/ ReverseFail
        BY <4>4 DEF ForwardFail, ForwardFound, ReverseFail, Fail
      <4>5. CASE OptimizeIteration \/ OptimizeEnd \/ Summarize
        BY <4>5 DEF OptimizeIteration, OptimizeEnd, Summarize
      <4> QED
        BY <2>6, <4>1, <4>2, <4>3, <4>4, <4>5
    <3>2. reason' = reason \/ reason' # "out_of_range"
      <4>1. CASE Reset
        BY <4>1 DEF Reset, StartScan, Fail, NoAccessReason
      <4>2. CASE ForwardScan \/ ReverseScan \/ ForwardFound
        BY <4>2 DEF ForwardScan, ReverseScan, ForwardFound
      <4>3. CASE ForwardFail \/ ReverseFail
        BY <4>3 DEF ForwardFail, ReverseFail, Fail
      <4>4. CASE OptimizeIteration \/ OptimizeEnd \/ Summarize
        BY <4>4 DEF OptimizeIteration, OptimizeEnd, Summarize
      <4> QED
        BY <2>6, <4>1, <4>2, <4>3, <4>4
    <3> QED
      BY <2>1, <3>1, <3>2 DEF JourneySound, EndsAtEgress
  <2> QED
    BY <2>2, <2>3, <2>4, <2>5, <2>6 DEF Next
<1> QED
  BY <1>1, <1>2, <1>3 DEF JInv

LEMMA InitJInv == Init => JInv
BY InitRInv DEF Init, JInv, JourneySound, EndsAtEgress

(***************************************************************************)
(* reverseJourneyStep, for every network, timetable and query whose        *)
(* waiting time fits in a short: the journey read back from steps that     *)
(* were written at different moments of the scan can be travelled, every   *)
(* transfer within the limit and with the waiting time kept.               *)
(***************************************************************************)
THEOREM Feasible == Spec => [](FitsShort => JourneyFeasible)
<1>1. JInv => (FitsShort => JourneyFeasible)
  <2> SUFFICES ASSUME JInv, FitsShort PROVE JourneyFeasible
    OBVIOUS
  <2>1. CASE pc = "journey"
    BY <2>1, SoundSteps, FollowsFeasible DEF JInv, JourneySound
  <2>2. CASE pc # "journey"
    BY <2>2 DEF JourneyFeasible
  <2> QED
    BY <2>1, <2>2
<1> QED
  BY <1>1, InitJInv, NextJInv, PTL DEF Spec

(***************************************************************************)
(* reverseJourneyStep, line 70, for the same queries: following the steps  *)
(* ends at an egress node, so nodesEgress.at() never throws.               *)
(***************************************************************************)
THEOREM EgressReached == Spec => [](FitsShort => EndsAtEgress)
<1>1. JInv => (FitsShort => EndsAtEgress)
  BY DEF JInv, JourneySound
<1> QED
  BY <1>1, InitJInv, NextJInv, PTL DEF Spec

-----------------------------------------------------------------------------
(***************************************************************************)
(* The journeys of calculateAllNodes towards a place, read back from the   *)
(* same kind of steps, once for every node.                                *)
(***************************************************************************)
BackInv ==
    /\ LInv
    /\ FitsShort => JourneySound
    /\ FitsShort /\ ~ q.forward /\ pc \in {"list"} \cup Looking => StepsSound

LEMMA StepsKept ==
    ASSUME StepsSound, DataOK', UNCHANGED <<tt, q, arrivalTime, revVars>>
    PROVE  StepsSound'
<1>1. ReverseTypeOK'
  BY DEF StepsSound, ReverseTypeOK, revVars
<1>2. \A t : ExitSound(t)' <=> ExitSound(t)
  BY DEF ExitSound, revVars, Conns
<1>3. \A n : (NodeSound(n)' <=> NodeSound(n)) /\ (AccessSound(n)' <=> AccessSound(n))
  BY DEF NodeSound, AccessSound, revVars, LeadsOn, Rides, Conns, Transferable, MinWait, EgressNodes
<1>4. (ReverseLabelsSound <=> /\ \A t \in Trips : ExitSound(t)
                              /\ \A n \in Nodes : NodeSound(n)
                              /\ \A n \in Nodes : AccessSound(n))'
  BY ReverseParts, PTL
<1> QED
  BY <1>1, <1>2, <1>3, <1>4, ReverseParts DEF StepsSound

\* the journey of a node begins with its step
LEMMA NextNodeBack ==
    ASSUME BackInv, FitsShort, NextNode
    PROVE  JourneySound'
<1>1. PICK n \in todo :
         /\ UNCHANGED <<tt, q, arrivalTime, revVars, reason>> /\ pc = "list"
         /\ cursor' = (IF q.forward THEN EgressStep(n) ELSE accSteps[n]) /\ journey' = <<>>
         /\ pc' = (IF q.forward THEN "count" ELSE "journey")
  BY DEF NextNode, dataVars
<1>2. EndsAtEgress'
  BY <1>1 DEF BackInv, JourneySound, EndsAtEgress
<1>3. CASE q.forward
  BY <1>1, <1>2, <1>3 DEF JourneySound
<1>4. CASE ~ q.forward
  <2>1. StepsSound /\ BackListing
    BY <1>1, <1>4 DEF BackInv, LInv
  <2>2. n \in Nodes /\ accSteps[n].enter # NoConnection
    BY <2>1 DEF BackListing, BackReached
  <2>3. LeadsOn(accSteps[n]) /\ accSteps[n] \in Step
    BY <2>1, <2>2, ReverseParts DEF StepsSound, AccessSound, ReverseTypeOK
  <2>4. cursor' \in Step /\ hasConnections(cursor')
    BY <1>1, <1>4, <2>1, <2>3, LeadsOnType DEF StepsSound
  <2>5. LeadsOn(cursor)'
    BY <1>1, <1>4, <2>3 DEF LeadsOn, Rides, Conns, revVars
  <2>6. FollowsSteps'
    BY <1>1, <2>4, <2>5 DEF FollowsSteps, hasConnections
  <2> QED
    BY <1>2, <2>6 DEF JourneySound
<1> QED
  BY <1>3, <1>4

LEMMA OptimizingBack ==
    ASSUME BackInv, FitsShort, Optimizing
    PROVE  JourneySound'
<1>1. pc \in Looking
  BY DEF Optimizing, FollowStep, CloseAllNodes, OptimizeIteration, OptimizeEnd, Looking
<1>2. StepsSound /\ JourneySound
  BY <1>1 DEF BackInv, LInv
<1>3. CASE FollowStep
  BY <1>2, <1>3, FollowStepSound
<1>4. CASE CloseAllNodes
  <2>1. FollowsSteps /\ ~ hasConnections(cursor)
    BY <1>2, <1>4 DEF JourneySound, CloseAllNodes
  <2>2. pc' = "optimize" /\ UNCHANGED reason
    BY <1>2, <1>4, <2>1, EndNodeEgress DEF CloseAllNodes
  <2> QED
    BY <1>2, <2>2 DEF JourneySound, EndsAtEgress
<1>5. CASE OptimizeIteration \/ OptimizeEnd
  <2>1. pc' # "journey" /\ UNCHANGED reason
    BY <1>5 DEF OptimizeIteration, OptimizeEnd
  <2> QED
    BY <1>2, <2>1 DEF JourneySound, EndsAtEgress
<1> QED
  BY <1>3, <1>4, <1>5 DEF Optimizing

LEMMA NextBackInv == BackInv /\ [NextAllNodes]_allVars => BackInv'
<1> SUFFICES ASSUME BackInv, [NextAllNodes]_allVars PROVE BackInv'
  OBVIOUS
<1>1. LInv /\ LInv' /\ DataOK'
  BY NextLInv DEF BackInv, LInv
<1>2. /\ UNCHANGED <<tt, q>> /\ (FitsShort' <=> FitsShort)
  BY DEF NextAllNodes, ResetAllNodes, ForwardAllNodes, ForwardScan, ForwardAllNodesEnd,
         ReverseAllNodes, ReverseAllNodesEnd, NextNode, Return, FollowBack, ListForward, List,
         FollowStep, CloseAllNodes, OptimizeIteration, OptimizeEnd, ListReverse, allVars, vars,
         dataVars, FitsShort
<1>3. \/ ResetAllNodes \/ FromPlace \/ ReverseAllNodes \/ ReverseAllNodesEnd \/ NextNode \/ Return
      \/ Optimizing \/ ListReverse \/ UNCHANGED allVars
  BY DEF NextAllNodes, FromPlace, Optimizing
<1>4. ASSUME FitsShort PROVE JourneySound'
  <2>1. JourneySound
    BY <1>4 DEF BackInv
  <2>2. CASE NextNode
    BY <1>4, <2>2, NextNodeBack
  <2>3. CASE Optimizing
    BY <1>4, <2>3, OptimizingBack
  <2>4. CASE UNCHANGED allVars
    BY <2>1, <2>4 DEF allVars, vars, dataVars, revVars, journeyVars, JourneySound, EndsAtEgress,
                      FollowsSteps, LeadsOn, Rides, Conns, Joined, Transferable, MinWait,
                      hasConnections
  <2>5. CASE \/ ResetAllNodes \/ FromPlace \/ ReverseAllNodes \/ ReverseAllNodesEnd \/ Return
             \/ ListReverse
    <3>1. CASE ResetAllNodes
      BY <2>1, <3>1 DEF ResetAllNodes, StartScan, Fail, JourneySound, EndsAtEgress
    <3>2. CASE FromPlace
      <4>1. pc' # "journey"
        BY <3>2 DEF FromPlace, ForwardAllNodes, ForwardScan, ForwardSkip, ForwardBreak,
                    ForwardPass, ForwardRide, FwdScanning, ForwardAllNodesEnd, FollowBack,
                    ListForward, List, Fail
      <4>2. reason' = reason \/ reason' # "out_of_range"
        BY <3>2 DEF FromPlace, ForwardAllNodes, ForwardScan, ForwardAllNodesEnd, FollowBack,
                    ListForward, List, Fail
      <4> QED
        BY <2>1, <4>1, <4>2 DEF JourneySound, EndsAtEgress
    <3>3. CASE ReverseAllNodes
      <4>1. pc' = "reverse" /\ UNCHANGED reason
        BY <3>3 DEF ReverseAllNodes, BackSkip, BackBreak, BackPass, BackRide, RevScanning
      <4> QED
        BY <2>1, <4>1 DEF JourneySound, EndsAtEgress
    <3>4. CASE ReverseAllNodesEnd \/ Return \/ ListReverse
      BY <2>1, <3>4 DEF ReverseAllNodesEnd, Return, ListReverse, List, Fail, JourneySound,
                        EndsAtEgress
    <3> QED
      BY <2>5, <3>1, <3>2, <3>3, <3>4
  <2> QED
    BY <1>3, <2>2, <2>3, <2>4, <2>5
<1>5. ASSUME FitsShort, ~ q.forward, pc' \in {"list"} \cup Looking PROVE StepsSound'
  <2>1. CASE ReverseAllNodesEnd
    <3>1. RInv /\ UNCHANGED <<tt, q, arrivalTime, revVars>>
      BY <1>1, <2>1 DEF ReverseAllNodesEnd, RevEnded, LInv, dataVars
    <3> QED
      BY <1>1, <1>5, <3>1, SoundSteps, StepsKept
  <2>2. CASE NextNode \/ Optimizing \/ ListReverse \/ UNCHANGED allVars
    <3>1. pc \in {"list"} \cup Looking /\ UNCHANGED <<tt, q, arrivalTime, revVars>>
      BY <1>5, <2>2 DEF NextNode, Optimizing, FollowStep, CloseAllNodes, OptimizeIteration,
                        OptimizeEnd, ListReverse, List, Looking, allVars, vars, dataVars
    <3>2. StepsSound
      BY <1>5, <3>1 DEF BackInv
    <3> QED
      BY <1>1, <3>1, <3>2, StepsKept
  <2>3. CASE ResetAllNodes \/ FromPlace \/ ReverseAllNodes \/ Return
    <3>1. CASE ResetAllNodes
      BY <1>5, <3>1 DEF ResetAllNodes, StartScan, Fail, Looking
    <3>2. CASE FromPlace
      BY <1>1, <1>5, <3>2 DEF LInv, FromPlace, ForwardAllNodes, ForwardScan, ForwardSkip,
                              ForwardBreak, ForwardPass, ForwardRide, FwdScanning,
                              ForwardAllNodesEnd, FwdEnded, FollowBack, ListForward
    <3>3. CASE ReverseAllNodes \/ Return
      BY <1>5, <3>3 DEF ReverseAllNodes, BackSkip, BackBreak, BackPass, BackRide, RevScanning,
                        Return, Looking
    <3> QED
      BY <2>3, <3>1, <3>2, <3>3
  <2> QED
    BY <1>3, <2>1, <2>2, <2>3
<1> QED
  BY <1>1, <1>2, <1>4, <1>5 DEF BackInv

LEMMA InitBackInv == InitAllNodes => BackInv
BY InitLInv DEF InitAllNodes, Init, BackInv, JourneySound, EndsAtEgress, Looking

(***************************************************************************)
(* reverseJourneyStepAllNodes, for every network, timetable and query      *)
(* towards a place whose waiting time fits in a short: the journey of each *)
(* node can be travelled, and ends at a node from which the place is       *)
(* reached on foot, so nodesEgress.at() never throws.                      *)
(***************************************************************************)
THEOREM PlaceReached == SpecAllNodes => [](FitsShort => JourneyFeasible /\ EndsAtEgress)
<1>1. BackInv => (FitsShort => JourneyFeasible /\ EndsAtEgress)
  <2> SUFFICES ASSUME BackInv, FitsShort PROVE JourneyFeasible /\ EndsAtEgress
    OBVIOUS
  <2>1. JourneySound
    BY DEF BackInv
  <2>2. CASE pc = "journey"
    <3>1. StepsSound
      BY <2>2 DEF BackInv, LInv, Looking
    <3> QED
      BY <2>1, <2>2, <3>1, FollowsFeasible DEF JourneySound
  <2>3. CASE pc # "journey"
    BY <2>1, <2>3 DEF JourneyFeasible, JourneySound
  <2> QED
    BY <2>2, <2>3
<1> QED
  BY <1>1, InitBackInv, NextBackInv, PTL DEF SpecAllNodes

-----------------------------------------------------------------------------
(***************************************************************************)
(* The times of the journey, while it is read back and while the optimiser *)
(* cuts and moves its legs.  The invariant relates every two legs, not     *)
(* only neighbours: what is true of all pairs stays true when legs between *)
(* them are erased.                                                        *)
(***************************************************************************)
\* a leg rides one vehicle onwards
RideLeg(s) ==
    /\ s.enter \in Conns /\ s.exit \in Conns
    /\ s.enter <= s.exit
    /\ tt.conn[s.enter].trip = tt.conn[s.exit].trip

\* the vehicle of b is caught after the walk of a and the minimum waiting time
Caught(a, b) ==
    /\ a.walk \in Nat
    /\ tt.conn[a.exit].arr + a.walk + MinWait(b.enter) <= tt.conn[b.enter].dep

\* the same after the walk from the origin
CaughtFirst(walk, b) == bestDeparture + walk + MinWait(b.enter) <= tt.conn[b.enter].dep

\* a journey with its access and egress walks
Timed(legs) ==
    /\ legs \in Seq(Step) /\ Len(legs) >= 3
    /\ legs[1].walk \in Nat /\ legs[Len(legs)].walk \in Nat
    /\ legs[1].enter = NoConnection /\ legs[Len(legs)].enter = NoConnection
    /\ \A k \in 2 .. Len(legs) - 1 :
          /\ RideLeg(legs[k])
          /\ CaughtFirst(legs[1].walk, legs[k])
          /\ tt.conn[legs[k].exit].arr + legs[Len(legs)].walk <= arrivalTime
    /\ \A k, l \in 2 .. Len(legs) - 1 : k < l => Caught(legs[k], legs[l])

\* the legs read back so far
TimedSoFar ==
    /\ \A k \in 1 .. Len(journey) : CaughtFirst(q.access[accessNode], journey[k])
    /\ \A k, l \in 1 .. Len(journey) : k < l => Caught(journey[k], journey[l])
    /\ journey = <<>> => CaughtFirst(q.access[accessNode], cursor)

\* the departure chosen keeps to the query
DepartureChosen ==
    /\ bestDeparture \in Int /\ accessNode \in AccessNodes
    /\ arrivalTime - bestDeparture <= q.maxTotal
    /\ q.forward => bestDeparture >= q.time

\* a first boarding is recorded only when one can be there from the origin in time
AccessAllowed(n) ==
    accSteps[n].enter # NoConnection /\ departureTime # -1 =>
        n \in AccessNodes /\ AccessDeparture(n) >= departureTime

ResultTimes ==
    /\ result.departure = bestDeparture
    /\ result.arrival = tt.conn[journey[Len(journey) - 1].exit].arr + journey[Len(journey)].walk

Answering == {"journey", "optimize", "summary", "done"}

Timing ==
    /\ pc # "reset" => departureTime = IF q.forward THEN q.time ELSE -1
    /\ \A n \in Nodes : AccessAllowed(n)
    /\ pc \in Answering => DepartureChosen
    /\ pc = "journey" => TimedSoFar
    /\ pc \in {"optimize", "summary", "done"} => Timed(journey)
    /\ pc = "done" => ResultTimes

TInv == JInv /\ (FitsShort => Timing)

\* the connections of a trip have the same minimum waiting time
LEMMA SameWait ==
    ASSUME DataOK, NEW c \in Conns, NEW d \in Conns, tt.conn[c].trip = tt.conn[d].trip
    PROVE  MinWait(c) = MinWait(d)
<1>1. c \in Nat /\ d \in Nat
  BY ConnectionType
<1>2. \A a, b \in Conns : a < b /\ tt.conn[a].trip = tt.conn[b].trip =>
          tt.conn[a].minWait = tt.conn[b].minWait
  BY DEF DataOK, IsTimetable, Conns
<1>3. tt.conn[c].minWait = tt.conn[d].minWait
  BY <1>1, <1>2
<1> QED
  BY <1>3 DEF MinWait

\* a vehicle that passes a node after the boarding has arrived there before
LEMMA ArrivedBefore ==
    ASSUME DataOK, NEW e \in Conns, NEW c \in Conns, e < c, tt.conn[e].trip = tt.conn[c].trip
    PROVE  \E d \in Conns : /\ tt.conn[d].trip = tt.conn[c].trip /\ e <= d /\ d < c
                            /\ tt.conn[d].to = tt.conn[c].from
<1>1. e \in Nat /\ c \in Nat
  BY ConnectionType
<1>2. \A a \in Conns : tt.conn[a].seq \in Nat \ {0}
  <2>1. tt.conn \in Seq(Connection)
    BY DEF DataOK, IsTimetable
  <2>2. \A a \in Conns : tt.conn[a] \in Connection
    BY <2>1 DEF Conns
  <2> QED
    BY <2>2 DEF Connection
<1>3. tt.conn[e].seq < tt.conn[c].seq
  BY DEF DataOK, IsTimetable, Conns
<1>4. PICK d \in Conns : tt.conn[d].trip = tt.conn[c].trip /\ tt.conn[d].seq = tt.conn[c].seq - 1
  <2>1. tt.conn[c].seq > 1
    BY <1>2, <1>3
  <2> QED
    BY <2>1 DEF DataOK, IsTimetable, Conns
<1>5. tt.conn[c].seq = tt.conn[d].seq + 1
  BY <1>2, <1>4
<1>6. tt.conn[d].to = tt.conn[c].from
  BY <1>4, <1>5 DEF DataOK, IsTimetable, Conns
<1>7. \A a, b \in Conns : a < b /\ tt.conn[a].trip = tt.conn[b].trip => tt.conn[a].seq < tt.conn[b].seq
  BY DEF DataOK, IsTimetable, Conns
<1>8. d \in Nat /\ ~ (d < e) /\ ~ (c < d) /\ c # d
  <2>1. d \in Nat
    BY ConnectionType
  <2>2. d < e => tt.conn[d].seq < tt.conn[e].seq
    BY <1>4, <1>7
  <2>3. c < d => tt.conn[c].seq < tt.conn[d].seq
    BY <1>4, <1>7
  <2>4. tt.conn[c].seq \in Nat /\ tt.conn[d].seq \in Nat /\ tt.conn[e].seq \in Nat
    BY <1>2
  <2> QED
    BY <1>3, <1>5, <2>1, <2>2, <2>3, <2>4
<1> QED
  BY <1>1, <1>4, <1>6, <1>8
-----------------------------------------------------------------------------
(***************************************************************************)
(* What a repair does to the legs: it erases some, and boards the others   *)
(* later or leaves them earlier on the same vehicle                        *)
(***************************************************************************)
Tighter(b, a) ==
    /\ RideLeg(b)
    /\ a.enter <= b.enter /\ b.exit <= a.exit
    /\ tt.conn[b.enter].trip = tt.conn[a.enter].trip
    /\ b.walk = a.walk \/ b.walk = 0

\* from[k]: the position leg k of the new journey had
TightenedBy(new, legs, from) ==
    /\ new \in Seq(Step) /\ Len(new) >= 3
    /\ from \in [1 .. Len(new) -> 1 .. Len(legs)]
    /\ \A k, l \in 1 .. Len(new) : k < l => from[k] < from[l]
    /\ new[1] = legs[1] /\ new[Len(new)] = legs[Len(legs)]
    /\ \A k \in 2 .. Len(new) - 1 :
          from[k] \in 2 .. Len(legs) - 1 /\ Tighter(new[k], legs[from[k]])

Tightened(new, legs) == \E from : TightenedBy(new, legs, from)

\* and a vehicle is left earlier
Shortened(new, legs) ==
    \E from : /\ TightenedBy(new, legs, from)
              /\ \E k \in 2 .. Len(new) - 1 : new[k].exit < legs[from[k]].exit

LEMMA TighterTimes ==
    ASSUME DataOK, NEW a, NEW b, RideLeg(a), Tighter(b, a)
    PROVE  /\ tt.conn[b.exit].arr \in Nat /\ tt.conn[a.exit].arr \in Nat
           /\ tt.conn[b.enter].dep \in Nat /\ tt.conn[a.enter].dep \in Nat
           /\ tt.conn[b.exit].arr <= tt.conn[a.exit].arr
           /\ tt.conn[a.enter].dep <= tt.conn[b.enter].dep
           /\ MinWait(b.enter) = MinWait(a.enter) /\ MinWait(a.enter) \in Int
<1>1. /\ a.enter \in Conns /\ a.exit \in Conns /\ b.enter \in Conns /\ b.exit \in Conns
      /\ a.enter <= b.enter /\ b.exit <= a.exit
      /\ tt.conn[b.enter].trip = tt.conn[a.enter].trip
      /\ tt.conn[b.exit].trip = tt.conn[a.exit].trip
  BY DEF RideLeg, Tighter
<1>2. tt.conn[b.exit].arr <= tt.conn[a.exit].arr /\ tt.conn[a.enter].dep <= tt.conn[b.enter].dep
  BY <1>1, LaterArrival
<1>3. MinWait(b.enter) = MinWait(a.enter) /\ MinWait(a.enter) \in Int
  BY <1>1, SameWait, MinWaitType
<1> QED
  BY <1>1, <1>2, <1>3, ConnectionType

\* earlier there, a shorter walk, and the vehicle leaves later: it is still caught
LEMMA StillCaught ==
    \A i, j, u, v, w, d, e \in Int :
        i + u + w <= d /\ j <= i /\ v <= u /\ d <= e => j + v + w <= e
OBVIOUS

LEMMA TightenedTimed ==
    ASSUME DataOK, bestDeparture \in Int, arrivalTime \in Int,
           NEW legs, NEW new, Timed(legs), Tightened(new, legs)
    PROVE  Timed(new)
<1>1. PICK from : TightenedBy(new, legs, from)
  BY DEF Tightened
<1>2. /\ new \in Seq(Step) /\ Len(new) >= 3 /\ Len(new) \in Nat
      /\ \A k, l \in 1 .. Len(new) : k < l => from[k] < from[l]
      /\ new[1] = legs[1] /\ new[Len(new)] = legs[Len(legs)]
      /\ \A k \in 2 .. Len(new) - 1 :
            from[k] \in 2 .. Len(legs) - 1 /\ Tighter(new[k], legs[from[k]])
  BY <1>1 DEF TightenedBy
<1>3. /\ legs[1].walk \in Nat /\ legs[Len(legs)].walk \in Nat
      /\ legs[1].enter = NoConnection /\ legs[Len(legs)].enter = NoConnection
      /\ \A k \in 2 .. Len(legs) - 1 :
            /\ RideLeg(legs[k])
            /\ CaughtFirst(legs[1].walk, legs[k])
            /\ tt.conn[legs[k].exit].arr + legs[Len(legs)].walk <= arrivalTime
      /\ \A k, l \in 2 .. Len(legs) - 1 : k < l => Caught(legs[k], legs[l])
  BY DEF Timed
<1>4. ASSUME NEW k \in 2 .. Len(new) - 1
      PROVE  /\ RideLeg(new[k])
             /\ CaughtFirst(new[1].walk, new[k])
             /\ tt.conn[new[k].exit].arr + new[Len(new)].walk <= arrivalTime
  <2> DEFINE a == legs[from[k]]
             b == new[k]
  <2>1. /\ RideLeg(a) /\ Tighter(b, a) /\ CaughtFirst(legs[1].walk, a)
        /\ tt.conn[a.exit].arr + legs[Len(legs)].walk <= arrivalTime
    BY <1>2, <1>3
  <2> HIDE DEF a, b
  <2>2. /\ tt.conn[b.exit].arr \in Nat /\ tt.conn[a.exit].arr \in Nat
        /\ tt.conn[b.enter].dep \in Nat /\ tt.conn[a.enter].dep \in Nat
        /\ tt.conn[b.exit].arr <= tt.conn[a.exit].arr
        /\ tt.conn[a.enter].dep <= tt.conn[b.enter].dep
        /\ MinWait(b.enter) = MinWait(a.enter) /\ MinWait(a.enter) \in Int
    BY <2>1, TighterTimes
  <2>3. bestDeparture + legs[1].walk + MinWait(a.enter) <= tt.conn[a.enter].dep
    BY <2>1 DEF CaughtFirst
  <2>4. bestDeparture + legs[1].walk + MinWait(b.enter) <= tt.conn[b.enter].dep
    <3>1. legs[1].walk \in Nat
      BY <1>3, Zenon
    <3>2. bestDeparture + legs[1].walk + MinWait(a.enter) <= tt.conn[b.enter].dep
      <4> DEFINE w == legs[1].walk
                 v == MinWait(a.enter)
                 x == tt.conn[a.enter].dep
                 y == tt.conn[b.enter].dep
      <4>1. w \in Nat /\ v \in Int /\ x \in Nat /\ y \in Nat /\ x <= y
            /\ bestDeparture + w + v <= x
        BY <2>2, <2>3, <3>1
      <4> HIDE DEF w, v, x, y
      <4>2. bestDeparture + w + v <= y
        BY <4>1
      <4> QED
        BY <4>2 DEF w, v, y
    <3> QED
      BY <2>2, <3>2, Zenon
  <2>5. tt.conn[b.exit].arr + legs[Len(legs)].walk <= arrivalTime
    <3> DEFINE w == legs[Len(legs)].walk
               x == tt.conn[a.exit].arr
               y == tt.conn[b.exit].arr
    <3>1. w \in Nat /\ x \in Nat /\ y \in Nat /\ y <= x /\ x + w <= arrivalTime
      BY <1>3, <2>1, <2>2, Zenon
    <3> HIDE DEF w, x, y
    <3>2. y + w <= arrivalTime
      BY <3>1
    <3> QED
      BY <3>2 DEF w, y
  <2> QED
    BY <1>2, <2>1, <2>4, <2>5 DEF CaughtFirst, Tighter, b
<1>5. ASSUME NEW k \in 2 .. Len(new) - 1, NEW l \in 2 .. Len(new) - 1, k < l
      PROVE  Caught(new[k], new[l])
  <2> DEFINE a == legs[from[k]]
             b == new[k]
             c == legs[from[l]]
             d == new[l]
  <2>1. /\ from[k] \in 2 .. Len(legs) - 1 /\ from[l] \in 2 .. Len(legs) - 1
        /\ from[k] < from[l]
    <3>1. k \in 1 .. Len(new) /\ l \in 1 .. Len(new)
      BY <1>2
    <3> QED
      BY <1>2, <1>5, <3>1
  <2>2. /\ RideLeg(a) /\ Tighter(b, a) /\ RideLeg(c) /\ Tighter(d, c) /\ Caught(a, c)
    BY <1>2, <1>3, <2>1
  <2> HIDE DEF a, b, c, d
  <2>3. /\ tt.conn[b.exit].arr \in Nat /\ tt.conn[a.exit].arr \in Nat
        /\ tt.conn[b.exit].arr <= tt.conn[a.exit].arr
    BY <2>2, TighterTimes
  <2>4. /\ tt.conn[d.enter].dep \in Nat /\ tt.conn[c.enter].dep \in Nat
        /\ tt.conn[c.enter].dep <= tt.conn[d.enter].dep
        /\ MinWait(d.enter) = MinWait(c.enter) /\ MinWait(c.enter) \in Int
    BY <2>2, TighterTimes
  <2>5. a.walk \in Nat /\ tt.conn[a.exit].arr + a.walk + MinWait(c.enter) <= tt.conn[c.enter].dep
    BY <2>2 DEF Caught
  <2>6. b.walk \in Nat /\ b.walk <= a.walk
    BY <2>2, <2>5 DEF Tighter
  <2>7. tt.conn[b.exit].arr + b.walk + MinWait(d.enter) <= tt.conn[d.enter].dep
    <3>1. tt.conn[b.exit].arr + b.walk + MinWait(c.enter) <= tt.conn[d.enter].dep
      <4> DEFINE i == tt.conn[a.exit].arr
                 j == tt.conn[b.exit].arr
                 u == a.walk
                 v == b.walk
                 w == MinWait(c.enter)
                 x == tt.conn[c.enter].dep
                 y == tt.conn[d.enter].dep
      <4>1. i \in Int /\ j \in Int /\ j <= i
        BY <2>3
      <4>2. x \in Int /\ y \in Int /\ w \in Int /\ x <= y
        BY <2>4
      <4>3. u \in Int /\ v \in Int /\ v <= u /\ i + u + w <= x
        BY <2>5, <2>6
      <4> HIDE DEF i, j, u, v, w, x, y
      <4>4. j + v + w <= y
        BY <4>1, <4>2, <4>3, StillCaught
      <4> QED
        BY <4>4 DEF j, v, w, y
    <3> QED
      BY <2>4, <3>1, Zenon
  <2> QED
    BY <2>6, <2>7 DEF Caught, b, d
<1> QED
  BY <1>2, <1>3, <1>4, <1>5 DEF Timed

\* legs changed in place
InPlace(new, legs) ==
    /\ new \in Seq(Step) /\ Len(new) = Len(legs)
    /\ new[1] = legs[1] /\ new[Len(new)] = legs[Len(legs)]
    /\ \A k \in 2 .. Len(new) - 1 : Tighter(new[k], legs[k])

LEMMA InPlaceTightens ==
    ASSUME NEW legs, Timed(legs), NEW new, InPlace(new, legs)
    PROVE  /\ Tightened(new, legs)
           /\ (\E k \in 2 .. Len(legs) - 1 : new[k].exit < legs[k].exit) => Shortened(new, legs)
<1> DEFINE from == [k \in 1 .. Len(legs) |-> k]
<1>1. /\ new \in Seq(Step) /\ Len(new) = Len(legs) /\ Len(legs) \in Nat /\ Len(legs) >= 3
      /\ new[1] = legs[1] /\ new[Len(new)] = legs[Len(legs)]
      /\ \A k \in 2 .. Len(new) - 1 : Tighter(new[k], legs[k])
  BY DEF InPlace, Timed
<1>2. from \in [1 .. Len(new) -> 1 .. Len(legs)] /\ \A k \in 1 .. Len(legs) : from[k] = k
  BY <1>1
<1> HIDE DEF from
<1>3. \A k, l \in 1 .. Len(new) : k < l => from[k] < from[l]
  BY <1>1, <1>2
<1>4. \A k \in 2 .. Len(new) - 1 : from[k] \in 2 .. Len(legs) - 1 /\ Tighter(new[k], legs[from[k]])
  BY <1>1, <1>2
<1>5. TightenedBy(new, legs, from)
  BY <1>1, <1>2, <1>3, <1>4 DEF TightenedBy
<1>6. ASSUME NEW k \in 2 .. Len(legs) - 1, new[k].exit < legs[k].exit PROVE Shortened(new, legs)
  BY <1>1, <1>2, <1>5, <1>6 DEF Shortened
<1> QED
  BY <1>5, <1>6 DEF Tightened

\* the legs between positions i and j erased
Erased(legs, i, j) == SubSeq(legs, 1, i) \o SubSeq(legs, j, Len(legs))

LEMMA ErasedLegs ==
    ASSUME NEW legs \in Seq(Step), NEW i \in 1 .. Len(legs), NEW j \in 1 .. Len(legs), i < j
    PROVE  /\ Erased(legs, i, j) \in Seq(Step)
           /\ Len(Erased(legs, i, j)) = i + Len(legs) - j + 1
           /\ \A k \in 1 .. Len(Erased(legs, i, j)) :
                 Erased(legs, i, j)[k] = IF k <= i THEN legs[k] ELSE legs[k + j - i - 1]
<1> DEFINE A == SubSeq(legs, 1, i)
           B == SubSeq(legs, j, Len(legs))
<1>0. Len(legs) \in Nat /\ i \in Nat /\ j \in Nat /\ i <= Len(legs) /\ j <= Len(legs)
  OBVIOUS
<1>1. A \in Seq(Step) /\ Len(A) = i /\ \A k \in 1 .. i : A[k] = legs[k]
  BY <1>0
<1>2. B \in Seq(Step) /\ Len(B) = Len(legs) - j + 1
      /\ \A k \in 1 .. Len(legs) - j + 1 : B[k] = legs[j + k - 1]
  BY <1>0
<1> HIDE DEF A, B
<1>3. A \o B \in Seq(Step) /\ Len(A \o B) = Len(A) + Len(B)
      /\ \A k \in 1 .. Len(A) + Len(B) : (A \o B)[k] = IF k <= Len(A) THEN A[k] ELSE B[k - Len(A)]
  BY <1>1, <1>2, ConcatProperties
<1>4. Len(A) + Len(B) = i + Len(legs) - j + 1
  BY <1>0, <1>1, <1>2
<1>5. ASSUME NEW k \in 1 .. Len(A) + Len(B)
      PROVE  (A \o B)[k] = IF k <= i THEN legs[k] ELSE legs[k + j - i - 1]
  <2>1. CASE k <= i
    BY <1>0, <1>1, <1>2, <1>3, <2>1
  <2>2. CASE ~ (k <= i)
    <3>1. k - i \in 1 .. Len(legs) - j + 1 /\ j + (k - i) - 1 = k + j - i - 1
      BY <1>0, <1>4, <2>2
    <3> QED
      BY <1>0, <1>1, <1>2, <1>3, <2>2, <3>1
  <2> QED
    BY <2>1, <2>2
<1> QED
  BY <1>3, <1>4, <1>5 DEF Erased, A, B

LEMMA ErasedTightens ==
    ASSUME NEW legs, Timed(legs), NEW kept, InPlace(kept, legs),
           NEW i \in 2 .. Len(legs) - 1, NEW j \in 2 .. Len(legs), i < j
    PROVE  /\ Tightened(Erased(kept, i, j), legs)
           /\ kept[i].exit < legs[i].exit => Shortened(Erased(kept, i, j), legs)
<1> DEFINE new == Erased(kept, i, j)
           from == [k \in 1 .. Len(new) |-> IF k <= i THEN k ELSE k + j - i - 1]
<1>1. /\ kept \in Seq(Step) /\ Len(kept) = Len(legs) /\ Len(legs) \in Nat /\ Len(legs) >= 3
      /\ kept[1] = legs[1] /\ kept[Len(legs)] = legs[Len(legs)]
      /\ \A k \in 2 .. Len(legs) - 1 : Tighter(kept[k], legs[k])
  BY DEF InPlace, Timed
<1>2. /\ i \in Nat /\ j \in Nat /\ i >= 2 /\ i < Len(legs) /\ j <= Len(legs)
      /\ i \in 1 .. Len(kept) /\ j \in 1 .. Len(kept)
  BY <1>1
<1>3. /\ new \in Seq(Step) /\ Len(new) = i + Len(legs) - j + 1
      /\ \A k \in 1 .. Len(new) : new[k] = IF k <= i THEN kept[k] ELSE kept[k + j - i - 1]
  <2>1. kept \in Seq(Step) /\ i \in 1 .. Len(kept) /\ j \in 1 .. Len(kept) /\ i < j
    BY <1>1, <1>2
  <2>2. /\ new \in Seq(Step) /\ Len(new) = i + Len(kept) - j + 1
        /\ \A k \in 1 .. Len(new) : new[k] = IF k <= i THEN kept[k] ELSE kept[k + j - i - 1]
    BY <2>1, ErasedLegs, Zenon
  <2> QED
    BY <1>1, <2>2, Zenon
<1>4. Len(new) \in Nat /\ Len(new) >= 3 /\ i < Len(new)
  BY <1>1, <1>2, <1>3
<1>5. \A k \in 1 .. Len(new) : from[k] = IF k <= i THEN k ELSE k + j - i - 1
  OBVIOUS
<1>6. DOMAIN from = 1 .. Len(new) /\ from = [k \in 1 .. Len(new) |-> from[k]]
  OBVIOUS
<1> HIDE DEF new, from
<1>7. \A k \in 1 .. Len(new) : from[k] \in 1 .. Len(legs) /\ new[k] = kept[from[k]]
  <2> SUFFICES ASSUME NEW k \in 1 .. Len(new)
               PROVE  from[k] \in 1 .. Len(legs) /\ new[k] = kept[from[k]]
    OBVIOUS
  <2>1. k \in Nat /\ k >= 1 /\ k <= i + Len(legs) - j + 1
    BY <1>3, <1>4
  <2>2. CASE k <= i
    <3>1. from[k] = k /\ new[k] = kept[k]
      BY <1>3, <1>5, <2>2
    <3>2. k \in 1 .. Len(legs)
      BY <1>1, <1>2, <2>1, <2>2
    <3> QED
      BY <3>1, <3>2
  <2>3. CASE ~ (k <= i)
    <3>1. from[k] = k + j - i - 1 /\ new[k] = kept[k + j - i - 1]
      BY <1>3, <1>5, <2>3
    <3>2. k + j - i - 1 \in 1 .. Len(legs)
      BY <1>1, <1>2, <2>1, <2>3
    <3> QED
      BY <3>1, <3>2
  <2> QED
    BY <2>2, <2>3
<1>8. from \in [1 .. Len(new) -> 1 .. Len(legs)]
  BY <1>6, <1>7
<1>9. \A k, l \in 1 .. Len(new) : k < l => from[k] < from[l]
  <2> SUFFICES ASSUME NEW k \in 1 .. Len(new), NEW l \in 1 .. Len(new), k < l
               PROVE  from[k] < from[l]
    OBVIOUS
  <2>1. k \in Nat /\ l \in Nat /\ k <= k + j - i - 1
    BY <1>2, <1>4
  <2>2. CASE l <= i
    BY <1>2, <1>5, <2>1, <2>2
  <2>3. CASE ~ (l <= i)
    <3>1. from[l] = l + j - i - 1
      BY <1>5, <2>3
    <3>2. from[k] = k \/ from[k] = k + j - i - 1
      BY <1>5
    <3> QED
      BY <1>2, <2>1, <3>1, <3>2
  <2> QED
    BY <2>2, <2>3
<1>10. new[1] = legs[1] /\ new[Len(new)] = legs[Len(legs)]
  <2>1. 1 \in 1 .. Len(new) /\ Len(new) \in 1 .. Len(new)
    BY <1>4
  <2>2. from[1] = 1
    BY <1>2, <1>5, <2>1
  <2>3. from[Len(new)] = Len(legs)
    <3>1. from[Len(new)] = Len(new) + j - i - 1
      BY <1>2, <1>4, <1>5, <2>1
    <3> QED
      BY <1>1, <1>2, <1>3, <3>1
  <2> QED
    BY <1>1, <1>7, <2>1, <2>2, <2>3
<1>11. ASSUME NEW k \in 2 .. Len(new) - 1
       PROVE  from[k] \in 2 .. Len(legs) - 1 /\ Tighter(new[k], legs[from[k]])
  <2>1. k \in 1 .. Len(new)
    BY <1>4
  <2>2. from[k] \in 2 .. Len(legs) - 1
    <3>1. k \in Nat /\ k >= 2 /\ k <= i + Len(legs) - j
      BY <1>1, <1>2, <1>3
    <3>2. from[k] = k \/ from[k] = k + j - i - 1
      BY <1>5, <2>1
    <3>3. k <= i => from[k] = k
      BY <1>5, <2>1
    <3> QED
      BY <1>1, <1>2, <1>5, <2>1, <3>1, <3>2, <3>3
  <2> QED
    BY <1>1, <1>7, <2>1, <2>2
<1>12. TightenedBy(new, legs, from)
  BY <1>3, <1>4, <1>8, <1>9, <1>10, <1>11 DEF TightenedBy
<1>13. ASSUME kept[i].exit < legs[i].exit PROVE Shortened(new, legs)
  <2>1. i \in 2 .. Len(new) - 1 /\ i \in 1 .. Len(new)
    BY <1>2, <1>3, <1>4
  <2>2. from[i] = i /\ new[i] = kept[i]
    BY <1>2, <1>3, <1>5, <2>1
  <2> QED
    BY <1>12, <1>13, <2>1, <2>2 DEF Shortened
<1> QED
  BY <1>12, <1>13 DEF Tightened, new
-----------------------------------------------------------------------------
(***************************************************************************)
(* What the search finds                                                   *)
(***************************************************************************)
LEMMA RideLegSegment ==
    ASSUME DataOK, NEW s, RideLeg(s)
    PROVE  /\ hasConnections(s) /\ s.enter \in Segment(s) /\ s.exit \in Segment(s)
           /\ Segment(s) \in SUBSET Conns
           /\ \A c \in Segment(s) : /\ c \in Conns /\ s.enter <= c /\ c <= s.exit
                                     /\ tt.conn[c].trip = tt.conn[s.enter].trip
<1>1. s.enter \in Nat \ {0} /\ s.exit \in Nat \ {0} /\ s.enter \in Conns /\ s.exit \in Conns
  BY ConnectionType DEF RideLeg
<1>2. hasConnections(s)
  BY <1>1 DEF hasConnections, NoConnection
<1> QED
  BY <1>1, <1>2 DEF RideLeg, Segment

\* boarding later or leaving earlier, on the connections one rides
LEMMA SegmentTighter ==
    ASSUME DataOK, NEW s, RideLeg(s), NEW b, b.enter \in Segment(s), b.exit \in Segment(s),
           b.enter <= b.exit, b.walk = s.walk \/ b.walk = 0
    PROVE  Tighter(b, s)
<1>1. /\ b.enter \in Conns /\ b.exit \in Conns
      /\ s.enter <= b.enter /\ b.exit <= s.exit
      /\ tt.conn[b.enter].trip = tt.conn[s.enter].trip
      /\ tt.conn[b.exit].trip = tt.conn[s.enter].trip
  BY RideLegSegment
<1>2. RideLeg(b)
  BY <1>1 DEF RideLeg
<1> QED
  BY <1>1, <1>2 DEF Tighter

\* a node passed on the way is both arrived at and left on the way
LEMMA NodeBetween ==
    ASSUME DataOK, NEW s, RideLeg(s), NEW n \in InBetween(s)
    PROVE  /\ n # FirstNode(s) /\ n # LastNode(s)
           /\ ArrivalsAt(s, n) # {} /\ DeparturesAt(s, n) # {}
           /\ \A c \in ArrivalsAt(s, n) : c \in Segment(s) /\ c < s.exit
           /\ \A c \in DeparturesAt(s, n) : c \in Segment(s) /\ s.enter < c
<1>1. /\ hasConnections(s) /\ s.enter \in Segment(s) /\ s.exit \in Segment(s)
      /\ \A c \in Segment(s) : /\ c \in Conns /\ s.enter <= c /\ c <= s.exit
                                /\ tt.conn[c].trip = tt.conn[s.enter].trip
  BY RideLegSegment
<1>2. PICK c \in Segment(s) : c # s.enter /\ tt.conn[c].from = n
  BY <1>1 DEF InBetween
<1>3. n # FirstNode(s) /\ n # LastNode(s)
  BY <1>1 DEF InBetween
<1>4. \A a \in Segment(s) : a \in Nat
  BY <1>1, ConnectionType
<1>5. PICK d \in Conns : /\ tt.conn[d].trip = tt.conn[c].trip /\ s.enter <= d /\ d < c
                         /\ tt.conn[d].to = tt.conn[c].from
  <2>1. s.enter < c
    BY <1>1, <1>2, <1>4
  <2> QED
    BY <1>1, <1>2, <2>1, ArrivedBefore
<1>6. d \in ArrivalsAt(s, n)
  <2>1. d \in Nat /\ d <= s.exit
    BY <1>1, <1>2, <1>4, <1>5, ConnectionType
  <2>2. d \in Segment(s)
    BY <1>1, <1>2, <1>5, <2>1 DEF Segment
  <2> QED
    BY <1>2, <1>5, <2>2 DEF ArrivalsAt
<1>7. ASSUME NEW a \in ArrivalsAt(s, n) PROVE a \in Segment(s) /\ a < s.exit
  <2>1. a \in Segment(s) /\ a # s.exit
    BY <1>3 DEF ArrivalsAt, LastNode
  <2> QED
    BY <1>1, <1>4, <2>1
<1>8. ASSUME NEW a \in DeparturesAt(s, n) PROVE a \in Segment(s) /\ s.enter < a
  <2>1. a \in Segment(s) /\ a # s.enter
    BY <1>3 DEF DeparturesAt, FirstNode
  <2> QED
    BY <1>1, <1>4, <2>1
<1>9. c \in DeparturesAt(s, n)
  BY <1>2 DEF DeparturesAt
<1> QED
  BY <1>3, <1>6, <1>7, <1>8, <1>9

\* a set of positions of a leg has a first and a last one
LEMMA SegmentEnds ==
    ASSUME DataOK, NEW s, RideLeg(s), NEW S \in SUBSET Segment(s), S # {}
    PROVE  /\ Min(S) \in S /\ \A c \in S : Min(S) <= c
           /\ Max(S) \in S /\ \A c \in S : c <= Max(S)
<1>1. S \in SUBSET (1 .. Len(tt.conn)) /\ Len(tt.conn) \in Nat
  BY RideLegSegment, DataType DEF Conns
<1>2. S \in SUBSET Nat
  BY <1>1
<1>3. Min(S) \in S /\ \A c \in S : Min(S) <= c
  BY <1>2, LeastNumber
<1>4. Max(S) \in S /\ \A c \in S : c <= Max(S)
  BY <1>1, GreatestNumber
<1> QED
  BY <1>3, <1>4

\* both steps ride a vehicle, and the node is on the way of the one or the other
CaseAt(case, a, b, n) ==
    /\ case \in 1 .. 4
    /\ case # 2 => n \in InBetween(a)
    /\ case \in {2, 4} => n \in InBetween(b)

LEMMA CaseNodesWhere ==
    ASSUME NEW case \in 1 .. 4, NEW a, NEW b, NEW n \in CaseNodes(case, a, b)
    PROVE  hasConnections(a) /\ CaseAt(case, a, b, n)
<1>1. CASE case = 1
  BY <1>1 DEF CaseNodes, InBetween, CaseAt
<1>2. CASE case = 2
  BY <1>2 DEF CaseNodes, InBetween, CaseAt
<1>3. CASE case = 3
  BY <1>3 DEF CaseNodes, InBetween, CaseAt
<1>4. CASE case = 4
  BY <1>4 DEF CaseNodes, InBetween, CaseAt
<1> QED
  BY <1>1, <1>2, <1>3, <1>4

LEMMA FoundWhere ==
    ASSUME DataOK, NEW legs, Timed(legs), NEW skip, NEW f \in Found(legs, skip)
    PROVE  /\ f[1] \in 2 .. Len(legs) - 1 /\ f[2] \in 2 .. Len(legs) - 1
           /\ f[2] < f[1] /\ f[3] \in 1 .. 4
           /\ CaseAt(f[3], legs[f[2]], legs[f[1]], OptimizationNode(legs, skip, f))
           /\ OptimizationNode(legs, skip, f) \notin skip
<1> DEFINE a == legs[f[2]]
           b == legs[f[1]]
           nodes == CaseNodes(f[3], a, b) \ skip
           passed == {c \in Segment(a) : tt.conn[c].from \in nodes}
<1>1. /\ legs \in Seq(Step) /\ Len(legs) \in Nat /\ Len(legs) >= 3
      /\ legs[1].enter = NoConnection /\ legs[Len(legs)].enter = NoConnection
      /\ \A k \in 2 .. Len(legs) - 1 : RideLeg(legs[k])
  BY DEF Timed
<1>2. /\ f[1] \in 1 .. Len(legs) /\ f[2] \in 1 .. Len(legs) /\ f[3] \in 1 .. 4
      /\ f[2] < f[1] /\ hasConnections(b) /\ nodes # {}
  BY <1>1 DEF Found
<1>3. \A n \in nodes : hasConnections(a) /\ CaseAt(f[3], a, b, n)
  BY <1>2, CaseNodesWhere
<1> HIDE DEF nodes
<1>4. hasConnections(a)
  BY <1>2, <1>3
<1>5. f[1] # Len(legs) /\ f[2] # 1
  BY <1>1, <1>2, <1>4 DEF hasConnections
<1>6. f[1] \in 2 .. Len(legs) - 1 /\ f[2] \in 2 .. Len(legs) - 1
  BY <1>1, <1>2, <1>5
<1>7. OptimizationNode(legs, skip, f) =
        IF f[3] = 4 THEN tt.conn[Min(passed)].from ELSE CHOOSE n \in nodes : TRUE
  BY DEF OptimizationNode, nodes
<1>8. OptimizationNode(legs, skip, f) \in nodes
  <2>1. CASE f[3] # 4
    BY <1>2, <1>7, <2>1
  <2>2. CASE f[3] = 4
    <3>1. RideLeg(a)
      BY <1>1, <1>6
    <3>2. PICK n \in nodes : TRUE
      BY <1>2
    <3>3. n \in InBetween(a)
      BY <1>3, <2>2, <3>2 DEF CaseAt
    <3>4. PICK c \in Segment(a) : tt.conn[c].from = n
      BY <3>3 DEF InBetween
    <3>5. passed # {} /\ passed \in SUBSET Segment(a)
      BY <3>2, <3>4
    <3>6. Min(passed) \in passed
      BY <3>1, <3>5, SegmentEnds
    <3> QED
      BY <1>7, <2>2, <3>6
  <2> QED
    BY <2>1, <2>2
<1>9. OptimizationNode(legs, skip, f) \notin skip
  BY <1>8 DEF nodes
<1> QED
  BY <1>2, <1>3, <1>6, <1>8, <1>9
-----------------------------------------------------------------------------
(***************************************************************************)
(* The repairs                                                             *)
(***************************************************************************)
\* every leg is what it was, or tighter
LEMMA ChangedInPlace ==
    ASSUME DataOK, NEW legs, Timed(legs), NEW new \in Seq(Step), Len(new) = Len(legs),
           \A k \in 1 .. Len(legs) :
              new[k] = legs[k] \/ (k \in 2 .. Len(legs) - 1 /\ Tighter(new[k], legs[k]))
    PROVE  InPlace(new, legs)
<1>1. /\ Len(legs) \in Nat /\ Len(legs) >= 3
      /\ \A k \in 2 .. Len(legs) - 1 : RideLeg(legs[k])
  BY DEF Timed
<1>2. new[1] = legs[1] /\ new[Len(new)] = legs[Len(legs)]
  BY <1>1
<1>3. ASSUME NEW k \in 2 .. Len(legs) - 1 PROVE Tighter(new[k], legs[k])
  <2>1. RideLeg(legs[k]) /\ k \in 1 .. Len(legs)
    BY <1>1
  <2>2. CASE new[k] = legs[k]
    <3>1. new[k].enter = legs[k].enter /\ new[k].exit = legs[k].exit /\ new[k].walk = legs[k].walk
      BY <2>2
    <3>2. legs[k].enter \in Segment(legs[k]) /\ legs[k].exit \in Segment(legs[k])
      BY <2>1, RideLegSegment
    <3>3. legs[k].enter <= legs[k].exit
      BY <2>1 DEF RideLeg
    <3> QED
      BY <2>1, <3>1, <3>2, <3>3, SegmentTighter
  <2> QED
    BY <2>1, <2>2
<1> QED
  BY <1>1, <1>2, <1>3 DEF InPlace

\* leaving the vehicle of step i earlier
LEMMA LeavesEarlier ==
    ASSUME DataOK, NEW legs, Timed(legs), NEW i \in 2 .. Len(legs) - 1,
           NEW c \in Segment(legs[i])
    PROVE  LET new == [legs EXCEPT ![i].exit = c]
           IN  /\ InPlace(new, legs)
               /\ new[i].exit = c
<1> DEFINE s == legs[i]
           b == [s EXCEPT !.exit = c]
           new == [legs EXCEPT ![i].exit = c]
<1>1. /\ legs \in Seq(Step) /\ Len(legs) \in Nat /\ i \in 1 .. Len(legs) /\ s \in Step /\ RideLeg(s)
  BY DEF Timed
<1>2. c \in Nat /\ s.enter \in Segment(s) /\ s.enter <= c
  BY <1>1, RideLegSegment, ConnectionType
<1>3. b \in Step /\ b.enter = s.enter /\ b.exit = c /\ b.walk = s.walk
  BY <1>1, <1>2 DEF Step
<1>4. new = [legs EXCEPT ![i] = b]
  OBVIOUS
<1> HIDE DEF s, b, new
<1>5. /\ new \in Seq(Step) /\ Len(new) = Len(legs)
      /\ \A k \in 1 .. Len(legs) : new[k] = IF k = i THEN b ELSE legs[k]
  BY <1>1, <1>3, <1>4
<1>6. Tighter(b, s)
  BY <1>1, <1>2, <1>3, SegmentTighter DEF s
<1>7. \A k \in 1 .. Len(legs) :
         new[k] = legs[k] \/ (k \in 2 .. Len(legs) - 1 /\ Tighter(new[k], legs[k]))
  BY <1>5, <1>6 DEF s
<1>8. InPlace(new, legs)
  BY <1>5, <1>7, ChangedInPlace
<1> QED
  BY <1>1, <1>3, <1>5, <1>8 DEF new

\* the last connection of step i that arrives at the node
LEMMA LastArrival ==
    ASSUME DataOK, NEW s, RideLeg(s), NEW n \in InBetween(s)
    PROVE  Max(ArrivalsAt(s, n)) \in Segment(s) /\ Max(ArrivalsAt(s, n)) < s.exit
<1>1. /\ ArrivalsAt(s, n) # {} /\ ArrivalsAt(s, n) \in SUBSET Segment(s)
      /\ \A c \in ArrivalsAt(s, n) : c \in Segment(s) /\ c < s.exit
  BY NodeBetween
<1>2. Max(ArrivalsAt(s, n)) \in ArrivalsAt(s, n)
  BY <1>1, SegmentEnds
<1> QED
  BY <1>1, <1>2

\* a repair gives up at the node, or something less is ridden
Effect(r, legs, n) ==
    \/ r.journey = legs /\ n \in r.ignored
    \/ Shortened(r.journey, legs)

LEMMA CutSuperfluousLineEffect ==
    ASSUME DataOK, NEW legs, Timed(legs), NEW i \in 2 .. Len(legs) - 1,
           NEW j \in 2 .. Len(legs) - 1, i < j, NEW n \in InBetween(legs[i])
    PROVE  Effect(CutSuperfluousLine(legs, i, j, n), legs, n)
<1> DEFINE c == Max(ArrivalsAt(legs[i], n))
           kept == [legs EXCEPT ![i].exit = c]
           r == CutSuperfluousLine(legs, i, j, n)
<1>1. RideLeg(legs[i]) /\ Len(legs) \in Nat
  BY DEF Timed
<1>2. c \in Segment(legs[i]) /\ c < legs[i].exit
  BY <1>1, LastArrival
<1>3. r = IF ~ tt.conn[c].canUnboard THEN Ignored(legs, n)
          ELSE Repaired(IF j = i + 1
                        THEN SubSeq(kept, 1, i) \o SubSeq(kept, j + 1, Len(kept))
                        ELSE SubSeq(kept, 1, i) \o SubSeq(kept, j, Len(kept)))
  BY DEF CutSuperfluousLine
<1> HIDE DEF c, r
<1>4. InPlace(kept, legs) /\ kept[i].exit = c
  BY <1>2, LeavesEarlier
<1> HIDE DEF kept
<1>5. CASE ~ tt.conn[c].canUnboard
  <2>1. r.journey = legs /\ r.ignored = {n}
    BY <1>3, <1>5 DEF Ignored
  <2> QED
    BY <2>1 DEF Effect, r
<1>6. CASE tt.conn[c].canUnboard
  <2>1. r.journey = IF j = i + 1 THEN Erased(kept, i, j + 1) ELSE Erased(kept, i, j)
    BY <1>3, <1>6 DEF Repaired, Erased
  <2>2. ASSUME NEW l \in 2 .. Len(legs), i < l PROVE Shortened(Erased(kept, i, l), legs)
    BY <1>2, <1>4, <2>2, ErasedTightens
  <2>3. j \in 2 .. Len(legs) /\ j + 1 \in 2 .. Len(legs) /\ i < j + 1
    BY <1>1
  <2>4. Shortened(r.journey, legs)
    <3>1. CASE j = i + 1
      BY <2>1, <2>2, <2>3, <3>1
    <3>2. CASE j # i + 1
      BY <2>1, <2>2, <2>3, <3>2
    <3> QED
      BY <3>1, <3>2
  <2> QED
    BY <2>4 DEF Effect, r
<1> QED
  BY <1>5, <1>6

\* two legs changed
LEMMA TwoChanged ==
    ASSUME DataOK, NEW legs, Timed(legs), NEW i \in 2 .. Len(legs) - 1,
           NEW j \in 2 .. Len(legs) - 1, NEW a \in Step, NEW b \in Step, NEW new,
           Tighter(a, legs[i]), Tighter(b, legs[j]), i # j,
           new = [legs EXCEPT ![i] = a, ![j] = b]
    PROVE  /\ Tightened(new, legs)
           /\ a.exit < legs[i].exit => Shortened(new, legs)
<1>1. /\ legs \in Seq(Step) /\ Len(legs) \in Nat /\ i \in 1 .. Len(legs) /\ j \in 1 .. Len(legs)
  BY DEF Timed
<1>2. /\ new \in Seq(Step) /\ Len(new) = Len(legs)
      /\ \A k \in 1 .. Len(legs) : new[k] = IF k = j THEN b ELSE IF k = i THEN a ELSE legs[k]
  BY <1>1
<1>3. \A k \in 1 .. Len(legs) :
         new[k] = legs[k] \/ (k \in 2 .. Len(legs) - 1 /\ Tighter(new[k], legs[k]))
  BY <1>2
<1>4. InPlace(new, legs)
  BY <1>2, <1>3, ChangedInPlace
<1>5. new[i] = a
  BY <1>1, <1>2
<1> QED
  BY <1>4, <1>5, InPlaceTightens

LEMMA GoneTooFarEffect ==
    ASSUME DataOK, NEW legs, Timed(legs), NEW i \in 2 .. Len(legs) - 1,
           NEW j \in 2 .. Len(legs) - 1, i < j, NEW n \in InBetween(legs[i])
    PROVE  Effect(GoneTooFar(legs, i, j, n), legs, n)
<1> DEFINE c == Max(ArrivalsAt(legs[i], n))
           s == legs[i]
           u == legs[j]
           a == [s EXCEPT !.exit = c]
           b == [u EXCEPT !.walk = 0]
           new == [legs EXCEPT ![i].exit = c, ![j].walk = 0]
           r == GoneTooFar(legs, i, j, n)
<1>1. /\ RideLeg(s) /\ RideLeg(u) /\ s \in Step /\ u \in Step /\ Len(legs) \in Nat /\ i # j
      /\ legs \in Seq(Step) /\ i \in 1 .. Len(legs) /\ j \in 1 .. Len(legs)
  BY DEF Timed
<1>2. c \in Segment(s) /\ c < s.exit
  BY <1>1, LastArrival
<1>3. r = IF ~ tt.conn[c].canUnboard THEN Ignored(legs, n) ELSE Repaired(new)
  BY DEF GoneTooFar
<1> HIDE DEF c, r
<1>4. new = [legs EXCEPT ![i] = a, ![j] = b]
  BY <1>1
<1>5. /\ c \in Nat /\ s.enter \in Segment(s) /\ s.enter <= c
      /\ u.enter \in Segment(u) /\ u.exit \in Segment(u) /\ u.enter <= u.exit
  BY <1>1, <1>2, RideLegSegment, ConnectionType DEF RideLeg
<1>6. /\ a \in Step /\ a.enter = s.enter /\ a.exit = c /\ a.walk = s.walk
      /\ b \in Step /\ b.enter = u.enter /\ b.exit = u.exit /\ b.walk = 0
  BY <1>1, <1>5 DEF Step
<1> HIDE DEF a, b, new, s, u
<1>7. Tighter(a, s)
  BY <1>1, <1>2, <1>5, <1>6, SegmentTighter
<1>8. Tighter(b, u)
  BY <1>1, <1>5, <1>6, SegmentTighter
<1>9. Shortened(new, legs)
  <2>1. Tighter(a, legs[i]) /\ Tighter(b, legs[j]) /\ a.exit < legs[i].exit
    BY <1>2, <1>6, <1>7, <1>8 DEF s, u
  <2> QED
    BY <1>1, <1>4, <1>6, <2>1, TwoChanged
<1>10. CASE ~ tt.conn[c].canUnboard
  <2>1. r.journey = legs /\ r.ignored = {n}
    BY <1>3, <1>10 DEF Ignored
  <2> QED
    BY <2>1 DEF Effect, r
<1>11. CASE tt.conn[c].canUnboard
  <2>1. r.journey = new
    BY <1>3, <1>11 DEF Repaired
  <2> QED
    BY <1>9, <2>1 DEF Effect, r
<1> QED
  BY <1>10, <1>11

LEMMA BoardedTooSoonEffect ==
    ASSUME DataOK, NEW legs, Timed(legs), NEW i \in 2 .. Len(legs) - 1,
           NEW j \in 2 .. Len(legs) - 1, NEW n \in InBetween(legs[j])
    PROVE  LET r == BoardedTooSoon(legs, i, j, n)
           IN  r.journey = legs \/ Tightened(r.journey, legs)
<1> DEFINE c == Max(DeparturesAt(legs[j], n))
           s == legs[j]
           b == [s EXCEPT !.enter = c, !.walk = 0]
           new == [legs EXCEPT ![j].enter = c, ![j].walk = 0]
           r == BoardedTooSoon(legs, i, j, n)
<1>1. /\ RideLeg(s) /\ s \in Step /\ Len(legs) \in Nat
      /\ legs \in Seq(Step) /\ j \in 1 .. Len(legs)
  BY DEF Timed
<1>2. c \in Segment(s)
  <2>1. DeparturesAt(s, n) # {} /\ DeparturesAt(s, n) \in SUBSET Segment(s)
    BY <1>1, NodeBetween
  <2>2. Max(DeparturesAt(s, n)) \in DeparturesAt(s, n)
    BY <1>1, <2>1, SegmentEnds
  <2> QED
    BY <2>1, <2>2
<1>3. r = IF ~ tt.conn[c].canBoard THEN Ignored(legs, n) ELSE Repaired(new)
  BY DEF BoardedTooSoon
<1> HIDE DEF c, r
<1>4. new = [legs EXCEPT ![j] = b]
  BY <1>1
<1>5. c \in Nat /\ s.exit \in Segment(s) /\ c <= s.exit
  BY <1>1, <1>2, RideLegSegment, ConnectionType
<1>6. b \in Step /\ b.enter = c /\ b.exit = s.exit /\ b.walk = 0
  BY <1>1, <1>5 DEF Step
<1> HIDE DEF b, new, s
<1>7. Tighter(b, s)
  BY <1>1, <1>2, <1>5, <1>6, SegmentTighter
<1>8. /\ new \in Seq(Step) /\ Len(new) = Len(legs)
      /\ \A k \in 1 .. Len(legs) : new[k] = IF k = j THEN b ELSE legs[k]
  BY <1>1, <1>4, <1>6
<1>9. \A k \in 1 .. Len(legs) :
         new[k] = legs[k] \/ (k \in 2 .. Len(legs) - 1 /\ Tighter(new[k], legs[k]))
  BY <1>7, <1>8 DEF s
<1>10. Tightened(new, legs)
  BY <1>8, <1>9, ChangedInPlace, InPlaceTightens
<1>11. r.journey = legs \/ r.journey = new
  BY <1>3 DEF Ignored, Repaired
<1> QED
  BY <1>10, <1>11 DEF r

LEMMA CutSuperfluousSegmentEffect ==
    ASSUME DataOK, NEW legs, Timed(legs), NEW i \in 2 .. Len(legs) - 1,
           NEW j \in 2 .. Len(legs) - 1, i < j,
           NEW n \in InBetween(legs[i]), n \in InBetween(legs[j])
    PROVE  Effect(CutSuperfluousSegment(legs, i, j, n), legs, n)
<1> DEFINE s == legs[i]
           u == legs[j]
           A == ArrivalsAt(s, n)
           D == DeparturesAt(u, n)
           exits == {c \in A : \A d \in A : d >= c => tt.conn[d].canUnboard}
           enters == {c \in D : \A d \in D : d >= c => tt.conn[d].canBoard}
           x == Min(exits)
           e == Min(enters)
           a == [s EXCEPT !.exit = x]
           b == [u EXCEPT !.enter = e]
           new == [legs EXCEPT ![i].exit = x, ![j].enter = e]
           r == CutSuperfluousSegment(legs, i, j, n)
<1>1. /\ RideLeg(s) /\ RideLeg(u) /\ s \in Step /\ u \in Step /\ Len(legs) \in Nat /\ i # j
      /\ legs \in Seq(Step) /\ i \in 1 .. Len(legs) /\ j \in 1 .. Len(legs)
  BY DEF Timed
<1>2. /\ A \in SUBSET Segment(s) /\ D \in SUBSET Segment(u) /\ D # {}
      /\ \A c \in A : c < s.exit
  <2>1. A \in SUBSET Segment(s) /\ \A c \in A : c < s.exit
    BY <1>1, NodeBetween
  <2>2. D \in SUBSET Segment(u) /\ D # {}
    BY <1>1, NodeBetween
  <2> QED
    BY <2>1, <2>2
<1>3. /\ r.journey = IF exits = {} \/ enters = {} THEN legs ELSE new
      /\ r.ignored = IF exits = {} \/ enters # D THEN {n} ELSE {}
  BY DEF CutSuperfluousSegment
<1>4. exits \in SUBSET A /\ enters \in SUBSET D
  OBVIOUS
<1> HIDE DEF A, D, exits, enters, r
<1>5. CASE exits = {} \/ enters = {}
  <2>1. r.journey = legs /\ r.ignored = {n}
    BY <1>2, <1>3, <1>5
  <2> QED
    BY <2>1 DEF Effect, r
<1>6. CASE exits # {} /\ enters # {}
  <2>1. x \in exits
    <3>1. exits \in SUBSET Segment(s)
      BY <1>2, <1>4
    <3> QED
      BY <1>1, <1>6, <3>1, SegmentEnds
  <2>2. e \in enters
    <3>1. enters \in SUBSET Segment(u)
      BY <1>2, <1>4
    <3> QED
      BY <1>1, <1>6, <3>1, SegmentEnds
  <2>3. x \in Segment(s) /\ x < s.exit /\ e \in Segment(u)
    BY <1>2, <1>4, <2>1, <2>2
  <2> HIDE DEF x, e
  <2>4. new = [legs EXCEPT ![i] = a, ![j] = b]
    BY <1>1
  <2>5. /\ x \in Nat /\ e \in Nat /\ s.enter \in Segment(s) /\ s.enter <= x
        /\ u.exit \in Segment(u) /\ e <= u.exit
    BY <1>1, <2>3, RideLegSegment, ConnectionType
  <2>6. /\ a \in Step /\ a.enter = s.enter /\ a.exit = x /\ a.walk = s.walk
        /\ b \in Step /\ b.enter = e /\ b.exit = u.exit /\ b.walk = u.walk
    BY <1>1, <2>5 DEF Step
  <2> HIDE DEF a, b, new, s, u
  <2>7. Tighter(a, s)
    BY <1>1, <2>3, <2>5, <2>6, SegmentTighter
  <2>8. Tighter(b, u)
    BY <1>1, <2>3, <2>5, <2>6, SegmentTighter
  <2>9. Tighter(a, legs[i]) /\ Tighter(b, legs[j]) /\ a.exit < legs[i].exit
    BY <2>3, <2>6, <2>7, <2>8 DEF s, u
  <2>10. Shortened(new, legs)
    BY <1>1, <2>4, <2>6, <2>9, TwoChanged
  <2>11. r.journey = new
    BY <1>3, <1>6
  <2> QED
    BY <2>10, <2>11 DEF Effect, r
<1> QED
  BY <1>5, <1>6

LEMMA RepairEffect ==
    ASSUME DataOK, NEW legs, Timed(legs), NEW skip, NEW f \in Found(legs, skip)
    PROVE  LET r == Repair(legs, skip, f)
           IN  /\ r.journey = legs \/ Tightened(r.journey, legs)
               /\ \/ f[3] = 2
                  \/ r.journey = legs /\ r.ignored \ skip # {}
                  \/ Shortened(r.journey, legs)
<1> DEFINE r == Repair(legs, skip, f)
           n == OptimizationNode(legs, skip, f)
           i == f[2]
           j == f[1]
<1>1. /\ j \in 2 .. Len(legs) - 1 /\ i \in 2 .. Len(legs) - 1 /\ i < j /\ f[3] \in 1 .. 4
      /\ CaseAt(f[3], legs[i], legs[j], n) /\ n \notin skip
  BY FoundWhere
<1>2. r = CASE f[3] = 1 -> CutSuperfluousLine(legs, i, j, n)
            [] f[3] = 2 -> BoardedTooSoon(legs, i, j, n)
            [] f[3] = 3 -> GoneTooFar(legs, i, j, n)
            [] f[3] = 4 -> CutSuperfluousSegment(legs, i, j, n)
  BY DEF Repair
<1> HIDE DEF r, n, i, j
<1>3. CASE f[3] = 2
  <2>1. n \in InBetween(legs[j]) /\ r = BoardedTooSoon(legs, i, j, n)
    BY <1>1, <1>2, <1>3 DEF CaseAt
  <2>2. r.journey = legs \/ Tightened(r.journey, legs)
    BY <1>1, <2>1, BoardedTooSoonEffect
  <2> QED
    BY <1>3, <2>2 DEF r
<1>4. CASE f[3] # 2
  <2>1. Effect(r, legs, n)
    <3>1. CASE f[3] = 1
      <4>1. n \in InBetween(legs[i]) /\ r = CutSuperfluousLine(legs, i, j, n)
        BY <1>1, <1>2, <3>1 DEF CaseAt
      <4> QED
        BY <1>1, <4>1, CutSuperfluousLineEffect
    <3>2. CASE f[3] = 3
      <4>1. n \in InBetween(legs[i]) /\ r = GoneTooFar(legs, i, j, n)
        BY <1>1, <1>2, <3>2 DEF CaseAt
      <4> QED
        BY <1>1, <4>1, GoneTooFarEffect
    <3>3. CASE f[3] = 4
      <4>1. /\ n \in InBetween(legs[i]) /\ n \in InBetween(legs[j])
            /\ r = CutSuperfluousSegment(legs, i, j, n)
        BY <1>1, <1>2, <3>3 DEF CaseAt
      <4> QED
        BY <1>1, <4>1, CutSuperfluousSegmentEffect
    <3> QED
      BY <1>1, <1>4, <3>1, <3>2, <3>3
  <2>2. Shortened(r.journey, legs) => Tightened(r.journey, legs)
    BY DEF Shortened, Tightened
  <2> QED
    BY <1>1, <2>1, <2>2 DEF Effect, r
<1> QED
  BY <1>3, <1>4

\* the connections of a tighter leg are among those of the leg it was
LEMMA TighterRides ==
    ASSUME DataOK, NEW a, NEW b, RideLeg(a), Tighter(b, a)
    PROVE  /\ hasConnections(a) /\ Segment(b) \in SUBSET Segment(a)
           /\ a.exit \in Segment(a) /\ (b.exit < a.exit => a.exit \notin Segment(b))
<1>1. /\ hasConnections(a) /\ a.exit \in Segment(a)
      /\ RideLeg(b) /\ a.enter <= b.enter /\ b.exit <= a.exit
      /\ tt.conn[b.enter].trip = tt.conn[a.enter].trip
  BY RideLegSegment DEF Tighter
<1>2. /\ a.enter \in Nat /\ a.exit \in Nat /\ b.enter \in Nat /\ b.exit \in Nat
  BY <1>1, ConnectionType DEF RideLeg
<1>3. ASSUME NEW c \in Segment(b) PROVE c \in Segment(a)
  <2>1. c \in Conns /\ b.enter <= c /\ c <= b.exit /\ tt.conn[c].trip = tt.conn[b.enter].trip
    BY DEF Segment
  <2>2. a.enter <= c /\ c <= a.exit
    BY <1>1, <1>2, <2>1, ConnectionType
  <2> QED
    BY <1>1, <2>1, <2>2 DEF Segment
<1>4. ASSUME b.exit < a.exit PROVE a.exit \notin Segment(b)
  BY <1>2, <1>4 DEF Segment
<1> QED
  BY <1>1, <1>3, <1>4

LEMMA RiddenLess ==
    ASSUME DataOK, NEW legs, Timed(legs), NEW new, Shortened(new, legs)
    PROVE  Cardinality(Ridden(new)) < Cardinality(Ridden(legs))
<1>1. PICK from : /\ TightenedBy(new, legs, from)
                  /\ \E k \in 2 .. Len(new) - 1 : new[k].exit < legs[from[k]].exit
  BY DEF Shortened
<1>2. PICK i \in 2 .. Len(new) - 1 : new[i].exit < legs[from[i]].exit
  BY <1>1
<1>3. /\ new \in Seq(Step) /\ Len(new) >= 3 /\ Len(new) \in Nat
      /\ from \in [1 .. Len(new) -> 1 .. Len(legs)]
      /\ \A k, l \in 1 .. Len(new) : k < l => from[k] < from[l]
      /\ new[1] = legs[1] /\ new[Len(new)] = legs[Len(legs)]
      /\ \A k \in 2 .. Len(new) - 1 :
            from[k] \in 2 .. Len(legs) - 1 /\ Tighter(new[k], legs[from[k]])
  BY <1>1 DEF TightenedBy
<1>4. /\ legs \in Seq(Step) /\ Len(legs) \in Nat
      /\ legs[1].enter = NoConnection /\ legs[Len(legs)].enter = NoConnection
      /\ \A k \in 2 .. Len(legs) - 1 : RideLeg(legs[k])
  BY DEF Timed
<1>5. /\ \A x : x \in 2 .. Len(new) - 1 => x \in 1 .. Len(new)
      /\ \A x : x \in 2 .. Len(legs) - 1 => x \in 1 .. Len(legs)
  BY <1>3, <1>4
<1>6. \A k, l \in 1 .. Len(new) : from[k] = from[l] => k = l
  <2> SUFFICES ASSUME NEW k \in 1 .. Len(new), NEW l \in 1 .. Len(new), from[k] = from[l]
               PROVE  k = l
    OBVIOUS
  <2>1. ~ (k < l) /\ ~ (l < k)
    BY <1>3
  <2> QED
    BY <1>3, <2>1
<1> DEFINE R == Ridden(new)
           L == Ridden(legs)
           g == [r \in R |-> <<from[r[1]], r[2]>>]
<1>7. \A r : r \in R <=> /\ r \in (1 .. Len(new)) \X Conns
                         /\ hasConnections(new[r[1]]) /\ r[2] \in Segment(new[r[1]])
  BY <1>3 DEF Ridden
<1>8. \A r : r \in L <=> /\ r \in (1 .. Len(legs)) \X Conns
                         /\ hasConnections(legs[r[1]]) /\ r[2] \in Segment(legs[r[1]])
  BY <1>4 DEF Ridden
<1>9. L \in SUBSET ((1 .. Len(legs)) \X Conns)
  BY <1>8
<1>10. IsFiniteSet(L)
  <2>1. IsFiniteSet(1 .. Len(legs)) /\ IsFiniteSet(Conns)
    <3>1. Len(tt.conn) \in Int /\ Len(legs) \in Int /\ 1 \in Int
      BY <1>4, DataType
    <3> QED
      BY <3>1, FS_Interval, Zenon DEF Conns
  <2>2. IsFiniteSet((1 .. Len(legs)) \X Conns)
    BY <2>1, FS_Product
  <2> QED
    BY <1>9, <2>2, FS_Subset
<1> HIDE DEF R, L
<1>11. ASSUME NEW r \in R
       PROVE  /\ r[1] \in 2 .. Len(new) - 1 /\ r[2] \in Segment(new[r[1]])
              /\ r = <<r[1], r[2]>> /\ <<from[r[1]], r[2]>> \in L
  <2>1. /\ r[1] \in 1 .. Len(new) /\ r[2] \in Conns /\ r = <<r[1], r[2]>>
        /\ hasConnections(new[r[1]]) /\ r[2] \in Segment(new[r[1]])
    BY <1>7
  <2>2. r[1] # 1 /\ r[1] # Len(new)
    BY <1>3, <1>4, <2>1 DEF hasConnections
  <2>3. r[1] \in 2 .. Len(new) - 1
    BY <1>3, <2>1, <2>2
  <2>4. RideLeg(legs[from[r[1]]]) /\ Tighter(new[r[1]], legs[from[r[1]]])
        /\ from[r[1]] \in 1 .. Len(legs)
    BY <1>3, <1>4, <1>5, <2>3, Zenon
  <2>5. hasConnections(legs[from[r[1]]]) /\ r[2] \in Segment(legs[from[r[1]]])
    BY <2>1, <2>4, TighterRides
  <2>6. <<from[r[1]], r[2]>> \in L
    BY <1>8, <2>1, <2>4, <2>5
  <2> QED
    BY <2>1, <2>3, <2>6
<1>12. g \in [R -> L] /\ \A r \in R : g[r] = <<from[r[1]], r[2]>>
  BY <1>11
<1> HIDE DEF g
<1>13. g \in Injection(R, L)
  <2>1. ASSUME NEW r \in R, NEW s \in R, g[r] = g[s] PROVE r = s
    <3>1. from[r[1]] = from[s[1]] /\ r[2] = s[2]
      BY <1>12, <2>1
    <3>2. /\ r[1] \in 1 .. Len(new) /\ s[1] \in 1 .. Len(new)
          /\ r = <<r[1], r[2]>> /\ s = <<s[1], s[2]>>
      BY <1>11, <1>5, Zenon
    <3>3. r[1] = s[1]
      BY <1>6, <3>1, <3>2
    <3> QED
      BY <3>1, <3>2, <3>3
  <2> QED
    BY <1>12, <2>1 DEF Injection, IsInjective
<1> DEFINE a == legs[from[i]]
           lost == <<from[i], a.exit>>
<1>14. lost \in L
  <2>1. RideLeg(a) /\ Tighter(new[i], a) /\ from[i] \in 1 .. Len(legs)
    BY <1>3, <1>4, <1>5, Zenon
  <2>2. hasConnections(a) /\ a.exit \in Segment(a) /\ a.exit \in Conns
    BY <2>1, TighterRides DEF RideLeg
  <2> QED
    BY <1>8, <2>1, <2>2
<1>15. ASSUME NEW r \in R PROVE g[r] # lost
  <2> SUFFICES ASSUME g[r] = lost PROVE FALSE
    OBVIOUS
  <2>1. from[r[1]] = from[i] /\ r[2] = a.exit
    BY <1>12
  <2>2. r[1] \in 1 .. Len(new) /\ i \in 1 .. Len(new) /\ r[2] \in Segment(new[r[1]])
    BY <1>11, <1>5, Zenon
  <2>3. r[1] = i
    BY <1>6, <2>1, <2>2
  <2>4. RideLeg(a) /\ Tighter(new[i], a) /\ new[i].exit < a.exit
    BY <1>2, <1>3, <1>4
  <2>5. a.exit \notin Segment(new[i])
    BY <2>4, TighterRides
  <2> QED
    BY <2>1, <2>2, <2>3, <2>5
<1>16. g \notin Surjection(R, L)
  BY <1>14, <1>15 DEF Surjection
<1>17. /\ IsFiniteSet(R) /\ Cardinality(R) <= Cardinality(L) /\ Cardinality(R) # Cardinality(L)
  BY <1>10, <1>13, <1>16, FS_Injection
<1>18. Cardinality(R) \in Nat /\ Cardinality(L) \in Nat
  BY <1>10, <1>17, FS_CardinalityType
<1> QED
  BY <1>17, <1>18 DEF R, L
-----------------------------------------------------------------------------
(***************************************************************************)
(* The steps of the calculation keep the times                             *)
(***************************************************************************)
LEMMA TimedFrame ==
    ASSUME UNCHANGED <<tt, q, bestDeparture, arrivalTime>>, Timed(journey')
    PROVE  Timed(journey)'
BY DEF Timed, RideLeg, Conns, CaughtFirst, Caught, MinWait

LEMMA LeadsOnRides ==
    ASSUME DataOK, NEW s, LeadsOn(s)
    PROVE  RideLeg(s) /\ tt.conn[s.enter].dep <= tt.conn[s.exit].arr
<1>1. RideLeg(s)
  BY DEF LeadsOn, Rides, RideLeg
<1>2. tt.conn[s.enter].dep <= tt.conn[s.exit].arr
  BY <1>1, LaterArrival DEF RideLeg
<1> QED
  BY <1>1, <1>2

\* who catches b in time, and c after it, would catch c
LEMMA CaughtOn ==
    ASSUME DataOK, FitsShort, NEW b, NEW c, RideLeg(b), RideLeg(c), Caught(b, c),
           NEW x \in Int, x + MinWait(b.enter) <= tt.conn[b.enter].dep
    PROVE  x + MinWait(c.enter) <= tt.conn[c.enter].dep /\ x <= tt.conn[b.exit].arr
<1> DEFINE w == MinWait(b.enter)
           v == MinWait(c.enter)
           d == tt.conn[b.enter].dep
           e == tt.conn[c.enter].dep
           z == tt.conn[b.exit].arr
           u == b.walk
<1>1. w \in Nat /\ v \in Nat
  BY MinWaitNat DEF RideLeg
<1>2. d \in Nat /\ e \in Nat /\ z \in Nat
  BY ConnectionType DEF RideLeg
<1>3. d <= z
  BY LaterArrival DEF RideLeg
<1>4. u \in Nat /\ z + u + v <= e
  BY DEF Caught
<1>5. x + w <= d
  OBVIOUS
<1> HIDE DEF w, v, d, e, z, u
<1>6. x + v <= e /\ x <= z
  BY <1>1, <1>2, <1>3, <1>4, <1>5
<1> QED
  BY <1>6 DEF v, e, z

\* the departure is that of the best access node
LEMMA ReverseFoundTimes ==
    ASSUME JInv, FitsShort, Timing, ReverseFound
    PROVE  DepartureChosen' /\ TimedSoFar'
<1>1. /\ DataOK /\ ReverseLabelsSound /\ UNCHANGED <<tt, q, arrivalTime>> /\ journey' = <<>>
      /\ pc = "reverse"
  BY DEF JInv, RInv, TypeOK, DataOK, ReverseFound, RevEnded, dataVars
<1>2. PICK n \in AccessCandidates : /\ bestDeparture' = AccessDeparture(n)
                                    /\ accessNode' = n /\ cursor' = accSteps[n]
  BY DEF ReverseFound
<1>3. /\ n \in Nodes /\ n \in AccessNodes /\ accSteps[n].enter # NoConnection
      /\ arrivalTime - AccessDeparture(n) <= q.maxTotal
  BY DEF AccessCandidates, AccessNodes
<1>4. LeadsOn(accSteps[n])
  BY <1>1, <1>3, ReverseParts DEF AccessSound
<1> DEFINE e == accSteps[n].enter
           d == tt.conn[e].dep
           w == MinWait(e)
           a == q.access[n]
<1>5. e \in Conns
  BY <1>1, <1>4, LeadsOnType
<1>6. d \in Int /\ w \in Int /\ a \in Int
  <2>1. a \in Nat \cup {NoPath}
    BY <1>1, <1>3, DataType
  <2>2. a \in Int
    BY <2>1 DEF NoPath
  <2> QED
    BY <1>1, <1>5, <2>2, ConnectionType, MinWaitType
<1>7. AccessDeparture(n) = d - a - w
  BY DEF AccessDeparture
<1> HIDE DEF e, d, w, a
<1>8. AccessDeparture(n) \in Int /\ AccessDeparture(n) + a + w <= d
  BY <1>6, <1>7
<1>9. q.forward => AccessDeparture(n) >= q.time
  <2> SUFFICES ASSUME q.forward PROVE AccessDeparture(n) >= q.time
    OBVIOUS
  <2>1. departureTime = q.time /\ q.time \in Nat
    BY <1>1, DataType DEF Timing
  <2>2. departureTime # -1
    BY <2>1
  <2> QED
    BY <1>3, <2>1, <2>2 DEF Timing, AccessAllowed
<1>10. DepartureChosen'
  BY <1>1, <1>2, <1>3, <1>8, <1>9 DEF DepartureChosen, AccessNodes
<1>11. CaughtFirst(q.access[accessNode], cursor)'
  <2>1. AccessDeparture(n) + q.access[n] + MinWait(accSteps[n].enter) <= tt.conn[accSteps[n].enter].dep
    BY <1>8 DEF e, d, w, a
  <2> QED
    BY <1>1, <1>2, <2>1 DEF CaughtFirst, MinWait
<1>12. TimedSoFar'
  <2>1. Len(journey') = 0
    BY <1>1
  <2>2. \A k \in 1 .. Len(journey') : FALSE
    BY <2>1
  <2> QED
    BY <1>11, <2>2 DEF TimedSoFar
<1> QED
  BY <1>10, <1>12

\* a leg read back: caught after every leg before it
LEMMA FollowStepTimes ==
    ASSUME JInv, FitsShort, Timing, FollowStep
    PROVE  TimedSoFar'
<1> DEFINE walk == q.access[accessNode]
           J == WithWalk(journey, cursor.walk)
           L == Len(journey)
<1>1. /\ RInv /\ DataOK /\ FollowsSteps /\ TimedSoFar /\ DepartureChosen /\ hasConnections(cursor)
      /\ UNCHANGED <<tt, q, bestDeparture, accessNode>>
      /\ journey' = Append(J, cursor)
  BY DEF JInv, RInv, TypeOK, DataOK, JourneySound, FollowStep, dataVars, Timing, Answering
<1>2. /\ journey \in Seq(Step) /\ cursor \in Step /\ LeadsOn(cursor)
      /\ cursor.walk \in Nat \cup {NoPath} /\ L \in Nat
      /\ \A k \in 1 .. L : LeadsOn(journey[k])
      /\ journey # <<>> => cursor = revSteps[tt.conn[journey[L].exit].to]
  BY <1>1 DEF FollowsSteps, Step
<1>3. /\ J \in Seq(Step) /\ Len(J) = L
      /\ \A k \in 1 .. L : J[k].enter = journey[k].enter /\ J[k].exit = journey[k].exit
      /\ \A k \in 1 .. L - 1 : J[k] = journey[k]
      /\ journey # <<>> => J[L].walk = cursor.walk
  BY <1>2, WithWalkLegs
<1> HIDE DEF J
<1>4. /\ Len(journey') = L + 1 /\ journey'[L + 1] = cursor
      /\ \A k \in 1 .. L : journey'[k] = J[k]
  BY <1>1, <1>2, <1>3
<1>5. /\ \A k \in 1 .. L : CaughtFirst(walk, journey[k])
      /\ \A k, l \in 1 .. L : k < l => Caught(journey[k], journey[l])
      /\ journey = <<>> => CaughtFirst(walk, cursor)
  BY <1>1 DEF TimedSoFar
<1>6. bestDeparture \in Int /\ walk \in Int
  <2>1. bestDeparture \in Int /\ accessNode \in Nodes
    BY <1>1 DEF DepartureChosen, AccessNodes
  <2>2. walk \in Nat \cup {NoPath}
    BY <1>1, <2>1, DataType
  <2>3. \A i \in Nat \cup {NoPath} : i \in Int
    BY DEF NoPath
  <2> HIDE DEF walk
  <2> QED
    BY <2>1, <2>2, <2>3
<1> HIDE DEF walk, L
<1>7. ASSUME journey # <<>>
      PROVE  /\ L \in 1 .. L /\ RideLeg(journey[L]) /\ RideLeg(J[L]) /\ RideLeg(cursor)
             /\ Caught(J[L], cursor) /\ J[L].enter = journey[L].enter
  <2>1. L \in 1 .. L
    BY <1>2, <1>7 DEF L
  <2>2. /\ LeadsOn(journey[L]) /\ cursor = revSteps[tt.conn[journey[L].exit].to]
        /\ J[L].exit = journey[L].exit /\ J[L].walk = cursor.walk
        /\ J[L].enter = journey[L].enter
    BY <1>2, <1>3, <1>7, <2>1
  <2>3. Joined(J[L], cursor)
    BY <1>1, <2>2, SoundSteps, NextStepJoined
  <2>4. RideLeg(journey[L]) /\ RideLeg(cursor)
    BY <1>1, <1>2, <2>2, LeadsOnRides
  <2>5. RideLeg(J[L])
    BY <2>2, <2>4 DEF RideLeg
  <2>6. J[L].walk \in Nat
    <3>1. J[L].walk # NoPath
      BY <2>3 DEF Joined, Transferable
    <3> QED
      BY <1>2, <2>2, <3>1
  <2> QED
    BY <2>1, <2>2, <2>3, <2>4, <2>5, <2>6 DEF Joined, Caught
<1>8. ASSUME NEW k \in 1 .. L + 1 PROVE CaughtFirst(walk, journey'[k])
  <2>1. CASE k \in 1 .. L
    <3>1. CaughtFirst(walk, journey[k]) /\ journey'[k].enter = journey[k].enter
      BY <1>3, <1>4, <1>5, <2>1
    <3> QED
      BY <3>1 DEF CaughtFirst
  <2>2. CASE k = L + 1 /\ journey = <<>>
    BY <1>4, <1>5, <2>2
  <2>3. CASE k = L + 1 /\ journey # <<>>
    <3>1. CaughtFirst(walk, journey[L])
      BY <1>5, <1>7, <2>3
    <3> DEFINE x == bestDeparture + walk
    <3>2. x \in Int /\ x + MinWait(J[L].enter) <= tt.conn[J[L].enter].dep
      BY <1>6, <1>7, <2>3, <3>1 DEF CaughtFirst
    <3> HIDE DEF x
    <3>3. x + MinWait(cursor.enter) <= tt.conn[cursor.enter].dep
      BY <1>1, <1>7, <2>3, <3>2, CaughtOn
    <3>4. CaughtFirst(walk, cursor)
      BY <3>3 DEF CaughtFirst, x
    <3> QED
      BY <1>4, <2>3, <3>4
  <2> QED
    BY <1>2, <2>1, <2>2, <2>3
<1>9. ASSUME NEW k \in 1 .. L + 1, NEW l \in 1 .. L + 1, k < l
      PROVE  Caught(journey'[k], journey'[l])
  <2>1. k \in 1 .. L
    BY <1>2, <1>9
  <2>2. CASE l \in 1 .. L
    <3>1. k \in 1 .. L - 1
      BY <1>2, <1>9, <2>2
    <3>2. Caught(journey[k], journey[l]) /\ journey'[k] = journey[k]
          /\ journey'[l].enter = journey[l].enter
      BY <1>3, <1>4, <1>5, <1>9, <2>1, <2>2, <3>1
    <3> QED
      BY <3>2 DEF Caught
  <2>3. CASE l = L + 1
    <3>1. journey # <<>>
      BY <1>2, <2>1 DEF L
    <3>2. CASE k = L
      BY <1>4, <1>7, <2>1, <2>3, <3>1, <3>2
    <3>3. CASE k # L
      <4>1. k \in 1 .. L - 1 /\ k < L
        BY <1>2, <2>1, <3>3
      <4>2. Caught(journey[k], journey[L]) /\ journey'[k] = journey[k]
        BY <1>3, <1>4, <1>5, <1>7, <2>1, <3>1, <4>1
      <4> DEFINE s == journey[k]
                 x == tt.conn[s.exit].arr + s.walk
      <4>3. LeadsOn(s)
        BY <1>2, <2>1
      <4>4. s.walk \in Nat /\ x + MinWait(J[L].enter) <= tt.conn[J[L].enter].dep
        BY <1>7, <3>1, <4>2 DEF Caught
      <4>5. x \in Int
        BY <1>1, <4>3, <4>4, LeadsOnType
      <4> HIDE DEF x
      <4>6. x + MinWait(cursor.enter) <= tt.conn[cursor.enter].dep
        BY <1>1, <1>7, <3>1, <4>4, <4>5, CaughtOn
      <4>7. Caught(s, cursor)
        BY <4>4, <4>6 DEF Caught, x
      <4> QED
        BY <1>4, <2>3, <4>2, <4>7
    <3> QED
      BY <3>2, <3>3
  <2> QED
    BY <1>2, <2>2, <2>3
<1>10. journey' # <<>>
  BY <1>2, <1>4 DEF L
<1>11. (\A k \in 1 .. Len(journey) : CaughtFirst(q.access[accessNode], journey[k]))'
  BY <1>1, <1>4, <1>8 DEF walk, CaughtFirst, MinWait
<1>12. (\A k, l \in 1 .. Len(journey) : k < l => Caught(journey[k], journey[l]))'
  BY <1>1, <1>4, <1>9 DEF Caught, MinWait
<1> QED
  BY <1>10, <1>11, <1>12 DEF TimedSoFar

\* the walk from the node where the steps end arrives in time
LEMMA EgressInTime ==
    ASSUME RInv, FitsShort, NEW s, LeadsOn(s),
           ~ hasConnections(revSteps[tt.conn[s.exit].to])
    PROVE  LET m == tt.conn[s.exit].to
           IN  q.egress[m] \in Nat /\ tt.conn[s.exit].arr + q.egress[m] <= arrivalTime
<1> DEFINE m == tt.conn[s.exit].to
           a == tt.conn[s.exit].arr
           e == q.egress[m]
           r == revTime[m]
<1>1. DataOK /\ ReverseTypeOK /\ ReverseLabelsSound /\ arrivalTime \in Int
  BY DEF RInv, TypeOK, DataOK
<1>2. m \in Nodes /\ a \in Nat /\ r \in Int /\ a <= r
  BY <1>1, LeadsOnType DEF ReverseTypeOK, LeadsOn
<1>3. revSteps[m].enter = NoConnection
  <2>1. revSteps[m].enter # NoConnection => LeadsOn(revSteps[m])
    BY <1>1, <1>2, ReverseParts DEF NodeSound
  <2> QED
    BY <1>1, <2>1, LeadsOnType
<1>4. ~ (r < 0)
  BY <1>2
<1>5. m \in EgressNodes /\ r = arrivalTime - e
  BY <1>1, <1>2, <1>3, <1>4, ReverseParts DEF NodeSound
<1>6. e \in Nat
  <2>1. e \in Nat \cup {NoPath} /\ e # NoPath
    BY <1>1, <1>2, <1>5, DataType DEF EgressNodes
  <2> QED
    BY <2>1
<1> HIDE DEF a, e, r
<1>7. a + e <= arrivalTime
  BY <1>1, <1>2, <1>5, <1>6
<1> QED
  BY <1>6, <1>7 DEF a, e

\* the legs between the walks from the origin and to the destination
LEMMA BetweenWalks ==
    ASSUME NEW legs \in Seq(Step), NEW first \in Step, NEW last \in Step
    PROVE  LET whole == <<first>> \o legs \o <<last>>
               L == Len(legs)
           IN  /\ whole \in Seq(Step) /\ Len(whole) = L + 2
               /\ whole[1] = first /\ whole[L + 2] = last
               /\ \A k \in 2 .. L + 1 : whole[k] = legs[k - 1]
<1> DEFINE F == <<first>>
           G == <<last>>
           H == F \o legs
           L == Len(legs)
<1>1. F \in Seq(Step) /\ Len(F) = 1 /\ F[1] = first /\ G \in Seq(Step) /\ Len(G) = 1 /\ G[1] = last
  OBVIOUS
<1>2. L \in Nat
  OBVIOUS
<1> HIDE DEF F, G
<1>3. /\ H \in Seq(Step) /\ Len(H) = L + 1 /\ H[1] = first
      /\ \A k \in 2 .. L + 1 : H[k] = legs[k - 1]
  <2>1. /\ H \in Seq(Step) /\ Len(H) = Len(F) + Len(legs)
        /\ \A k \in 1 .. Len(F) + Len(legs) : H[k] = IF k <= Len(F) THEN F[k] ELSE legs[k - Len(F)]
    BY <1>1, ConcatProperties, Zenon
  <2> HIDE DEF H
  <2> QED
    BY <1>1, <1>2, <2>1
<1> HIDE DEF H, L
<1>4. /\ H \o G \in Seq(Step) /\ Len(H \o G) = L + 2
      /\ (H \o G)[1] = first /\ (H \o G)[L + 2] = last
      /\ \A k \in 2 .. L + 1 : (H \o G)[k] = legs[k - 1]
  <2>1. /\ H \o G \in Seq(Step) /\ Len(H \o G) = Len(H) + Len(G)
        /\ \A k \in 1 .. Len(H) + Len(G) : (H \o G)[k] = IF k <= Len(H) THEN H[k] ELSE G[k - Len(H)]
    BY <1>1, <1>3, ConcatProperties, Zenon
  <2> QED
    BY <1>1, <1>2, <1>3, <2>1
<1> QED
  BY <1>4 DEF H, F, G, L

LEMMA CloseJourneyTimes ==
    ASSUME JInv, FitsShort, Timing, CloseJourney
    PROVE  pc' = "optimize" /\ Timed(journey)'
<1> DEFINE walk == q.access[accessNode]
           L == Len(journey)
           s == journey[L]
           m == tt.conn[s.exit].to
           first == JourneyStep(NoConnection, NoConnection, walk)
           last == JourneyStep(NoConnection, NoConnection, q.egress[m])
<1>1. /\ RInv /\ DataOK /\ FollowsSteps /\ TimedSoFar /\ DepartureChosen /\ ~ hasConnections(cursor)
      /\ UNCHANGED <<tt, q, bestDeparture, accessNode, arrivalTime>> /\ arrivalTime \in Int
  BY DEF JInv, RInv, TypeOK, DataOK, JourneySound, CloseJourney, dataVars, Timing, Answering
<1>2. /\ journey \in Seq(Step) /\ journey # <<>> /\ L \in Nat /\ L \in 1 .. L
      /\ \A k \in 1 .. L : LeadsOn(journey[k])
  BY <1>1 DEF FollowsSteps
<1>3. LeadsOn(s) /\ cursor = revSteps[m]
  BY <1>1, <1>2 DEF FollowsSteps
<1>4. m \in EgressNodes
  BY <1>1, <1>3, SoundSteps, EndsOnFoot
<1>5. pc' = "optimize" /\ journey' = <<first>> \o journey \o <<last>>
  BY <1>4 DEF CloseJourney, EndNode
<1>6. q.egress[m] \in Nat /\ tt.conn[s.exit].arr + q.egress[m] <= arrivalTime
  BY <1>1, <1>3, EgressInTime
<1>7. walk \in Nat
  <2>1. accessNode \in Nodes /\ walk # NoPath
    BY <1>1 DEF DepartureChosen, AccessNodes
  <2>2. walk \in Nat \cup {NoPath}
    BY <1>1, <2>1, DataType
  <2> QED
    BY <2>1, <2>2
<1>8. /\ first \in Step /\ first.enter = NoConnection /\ first.walk = walk
      /\ last \in Step /\ last.enter = NoConnection /\ last.walk = q.egress[m]
  BY <1>6, <1>7 DEF JourneyStep, Step, NoConnection
<1> HIDE DEF first, last, walk, m, s, L
<1>9. /\ journey' \in Seq(Step) /\ Len(journey') = L + 2
      /\ journey'[1] = first /\ journey'[L + 2] = last
      /\ \A k \in 2 .. L + 1 : journey'[k] = journey[k - 1]
  BY <1>2, <1>5, <1>8, BetweenWalks DEF L
<1>10. /\ \A k \in 1 .. L : CaughtFirst(walk, journey[k])
       /\ \A k, l \in 1 .. L : k < l => Caught(journey[k], journey[l])
  BY <1>1 DEF TimedSoFar, walk, L
<1>11. \A k \in 1 .. L : RideLeg(journey[k])
  BY <1>1, <1>2, LeadsOnRides
<1>12. ASSUME NEW k \in 1 .. L
       PROVE  tt.conn[journey[k].exit].arr + q.egress[m] <= arrivalTime
  <2> DEFINE a == tt.conn[journey[k].exit].arr
             z == tt.conn[s.exit].arr
             e == q.egress[m]
             x == a + journey[k].walk
  <2>1. a \in Nat /\ z \in Nat
    BY <1>1, <1>2, <1>3, LeadsOnType
  <2>2. CASE k = L
    BY <1>6, <2>2 DEF s
  <2>3. CASE k # L
    <3>1. k < L
      BY <1>2, <2>3
    <3>2. Caught(journey[k], s) /\ RideLeg(s)
      BY <1>2, <1>10, <1>11, <3>1 DEF s
    <3>3. journey[k].walk \in Nat /\ x + MinWait(s.enter) <= tt.conn[s.enter].dep
      BY <3>2 DEF Caught
    <3>4. /\ MinWait(s.enter) \in Nat /\ tt.conn[s.enter].dep \in Nat
          /\ tt.conn[s.enter].dep <= z
      BY <1>1, <1>3, <3>2, MinWaitNat, ConnectionType, LeadsOnRides DEF RideLeg
    <3>5. a <= z
      <4> DEFINE u == journey[k].walk
                 w == MinWait(s.enter)
                 d == tt.conn[s.enter].dep
      <4>1. a \in Nat /\ z \in Nat /\ u \in Nat /\ w \in Nat /\ d \in Nat /\ a + u + w <= d /\ d <= z
        BY <2>1, <3>3, <3>4
      <4> HIDE DEF a, z, u, w, d
      <4> QED
        BY <4>1
    <3>6. e \in Nat /\ z + e <= arrivalTime
      BY <1>6
    <3> HIDE DEF a, z, e
    <3>7. a + e <= arrivalTime
      BY <1>1, <2>1, <3>5, <3>6
    <3> QED
      BY <3>7 DEF a, e
  <2> QED
    BY <2>2, <2>3
<1>13. Timed(journey')
  <2>1. Len(journey') >= 3 /\ Len(journey') - 1 = L + 1
    BY <1>2, <1>9
  <2>2. ASSUME NEW k \in 2 .. L + 1
        PROVE  /\ RideLeg(journey'[k])
               /\ CaughtFirst(journey'[1].walk, journey'[k])
               /\ tt.conn[journey'[k].exit].arr + journey'[L + 2].walk <= arrivalTime
    <3>1. k - 1 \in 1 .. L /\ journey'[k] = journey[k - 1]
      BY <1>2, <1>9
    <3> QED
      BY <1>8, <1>9, <1>10, <1>11, <1>12, <3>1
  <2>3. ASSUME NEW k \in 2 .. L + 1, NEW l \in 2 .. L + 1, k < l
        PROVE  Caught(journey'[k], journey'[l])
    <3>1. /\ k - 1 \in 1 .. L /\ l - 1 \in 1 .. L /\ k - 1 < l - 1
          /\ journey'[k] = journey[k - 1] /\ journey'[l] = journey[l - 1]
      BY <1>2, <1>9, <2>3
    <3> QED
      BY <1>10, <3>1
  <2> QED
    BY <1>6, <1>7, <1>8, <1>9, <2>1, <2>2, <2>3 DEF Timed
<1> QED
  BY <1>1, <1>5, <1>13, TimedFrame

\* a first boarding is recorded when the origin can be left in time for it
LEMMA ReverseScanAccess ==
    ASSUME TypeOK, ReverseScan, \A n \in Nodes : AccessAllowed(n)
    PROVE  (\A n \in Nodes : AccessAllowed(n))'
<1>1. DataOK /\ ReverseTypeOK /\ UNCHANGED <<tt, q, departureTime>> /\ departureTime \in Int
  BY DEF TypeOK, DataOK, ReverseScan, dataVars
<1>2. ASSUME NEW n \in Nodes, accSteps'[n] = accSteps[n] PROVE AccessAllowed(n)'
  BY <1>1, <1>2 DEF AccessAllowed, AccessDeparture, AccessNodes, MinWait
<1>3. CASE UNCHANGED accSteps
  BY <1>2, <1>3
<1>4. CASE accSteps' # accSteps
  <2>0. PICK c, m : c = tt.rev[revPos] /\ m = tt.conn[c].from
    OBVIOUS
  <2>1. ReverseRide /\ c \in Conns
    BY <1>1, <1>4, <2>0, DataType DEF ReverseScan, ReverseSkip, ReverseBreak, ReversePass, ReverseRide, RevScanning
  <2>2. Board(c)
    BY <1>4, <2>0, <2>1 DEF ReverseRide, RideBack
  <2>3. AccessStep(c) /\ accSteps' = [accSteps EXCEPT ![m] = JourneyStep(c, RevExit(c), 0)]
    BY <1>4, <2>0, <2>2 DEF Board
  <2>4. m \in Nodes
    BY <1>1, <2>0, <2>1, ConnectionType
  <2>5. accSteps'[m].enter = c /\ \A n \in Nodes : n # m => accSteps'[n] = accSteps[n]
    BY <1>1, <2>3, <2>4 DEF ReverseTypeOK, JourneyStep
  <2>6. AccessAllowed(m)'
    <3> SUFFICES ASSUME departureTime # -1
                 PROVE  /\ m \in AccessNodes
                        /\ tt.conn[c].dep - q.access[m] - MinWait(c) >= departureTime
      BY <1>1, <2>5 DEF AccessAllowed, AccessDeparture, AccessNodes, MinWait
    <3>1. m \in AccessNodes /\ (tt.conn[c].dep - MinWait(c)) - q.access[m] >= departureTime
      BY <2>0, <2>3 DEF AccessStep
    <3> DEFINE d == tt.conn[c].dep
               w == MinWait(c)
               a == q.access[m]
    <3>2. d \in Int /\ w \in Int
      BY <1>1, <2>1, ConnectionType, MinWaitType
    <3>3. a \in Int
      <4>1. a \in Nat \cup {NoPath}
        BY <1>1, <2>4, DataType
      <4>2. \A i \in Nat \cup {NoPath} : i \in Int
        BY DEF NoPath
      <4> HIDE DEF a
      <4> QED
        BY <4>1, <4>2
    <3>4. (d - w) - a >= departureTime
      BY <3>1
    <3> HIDE DEF d, w, a
    <3>5. d - a - w >= departureTime
      BY <1>1, <3>2, <3>3, <3>4
    <3> QED
      BY <3>1, <3>5 DEF d, w, a
  <2>7. ASSUME NEW n \in Nodes PROVE AccessAllowed(n)'
    <3>1. CASE n = m
      BY <2>6, <3>1, <1>1
    <3>2. CASE n # m
      BY <1>2, <2>5, <3>2
    <3> QED
      BY <3>1, <3>2
  <2> QED
    BY <2>7
<1> QED
  BY <1>3, <1>4

LEMMA OptimizeTimes ==
    ASSUME JInv, FitsShort, Timing, OptimizeIteration
    PROVE  Timed(journey)'
<1>1. /\ DataOK /\ Timed(journey) /\ DepartureChosen /\ arrivalTime \in Int
      /\ UNCHANGED <<tt, q, bestDeparture, arrivalTime>>
  BY DEF JInv, RInv, TypeOK, DataOK, OptimizeIteration, dataVars, Timing, Answering
<1>2. PICK f \in FirstFound(journey, ignore) : journey' = Repair(journey, ignore, f).journey
  BY DEF OptimizeIteration
<1>3. f \in Found(journey, ignore)
  BY DEF FirstFound
<1>4. journey' = journey \/ Tightened(journey', journey)
  BY <1>1, <1>2, <1>3, RepairEffect
<1>5. Timed(journey')
  <2>1. bestDeparture \in Int
    BY <1>1 DEF DepartureChosen
  <2> QED
    BY <1>1, <1>4, <2>1, TightenedTimed
<1> QED
  BY <1>1, <1>5, TimedFrame

LEMMA SummarizeTimes ==
    ASSUME Summarize
    PROVE  ResultTimes'
<1>1. /\ result'.departure = bestDeparture
      /\ result'.arrival = tt.conn[journey[Len(journey) - 1].exit].arr + journey[Len(journey)].walk
  BY DEF Summarize
<1>2. UNCHANGED <<tt, bestDeparture, journey>>
  BY DEF Summarize, dataVars
<1> QED
  BY <1>1, <1>2 DEF ResultTimes

\* until the reverse calculation has found an answer
Searching ==
    \/ Reset
    \/ ForwardScan \/ ForwardFail \/ ForwardFound
    \/ ReverseScan \/ ReverseFail

LEMMA SearchingPhase ==
    ASSUME Searching
    PROVE  pc' \notin Answering
<1>1. CASE Reset
  BY <1>1 DEF Reset, StartScan, Fail, Answering
<1>2. CASE ForwardScan
  BY <1>2 DEF ForwardScan, ForwardSkip, ForwardBreak, ForwardPass, ForwardRide, FwdScanning, Answering
<1>3. CASE ReverseScan
  BY <1>3 DEF ReverseScan, ReverseSkip, ReverseBreak, ReversePass, ReverseRide, RevScanning, Answering
<1>4. CASE ForwardFail \/ ForwardFound \/ ReverseFail
  BY <1>4 DEF ForwardFail, ForwardFound, ReverseFail, Fail, Answering
<1> QED
  BY <1>1, <1>2, <1>3, <1>4 DEF Searching

\* only reset() sets the departure time, only the reverse scan the first boardings
LEMMA AccessFrame ==
    ASSUME TypeOK, Timing, [Next]_vars
    PROVE  /\ (pc # "reset" => departureTime = IF q.forward THEN q.time ELSE -1)'
           /\ (\A n \in Nodes : AccessAllowed(n))'
<1>1. CASE Reset
  <2>1. q' = q /\ departureTime' = IF q.forward THEN q.time ELSE -1
    BY <1>1 DEF Reset, dataVars
  <2>2. \A n \in Nodes : accSteps'[n].enter = NoConnection
    BY <1>1 DEF Reset, ResetReverse, NoStep, JourneyStep
  <2> QED
    BY <2>1, <2>2 DEF AccessAllowed
<1>2. CASE ~ Reset
  <2>1. q' = q /\ tt' = tt /\ departureTime' = departureTime
    BY <1>2 DEF Next, vars, dataVars, ForwardScan, ForwardFail, ForwardFound,
         ReverseScan, ReverseFail, ReverseFound, FollowStep, CloseJourney,
         OptimizeIteration, OptimizeEnd, Summarize
  <2>2. pc = "reset" => pc' = "reset"
    BY <1>2 DEF Next, vars, ForwardScan, ForwardSkip, ForwardBreak, ForwardPass, ForwardRide, FwdScanning,
         ForwardFail, ForwardFound, FwdEnded, ReverseScan, ReverseSkip, ReverseBreak, ReversePass,
         ReverseRide, RevScanning, ReverseFail, ReverseFound, RevEnded, FollowStep, CloseJourney,
         OptimizeIteration, OptimizeEnd, Summarize
  <2>3. (pc # "reset" => departureTime = IF q.forward THEN q.time ELSE -1)'
    BY <2>1, <2>2 DEF Timing
  <2>4. (\A n \in Nodes : AccessAllowed(n))'
    <3>1. CASE ReverseScan
      BY <3>1, ReverseScanAccess DEF Timing
    <3>2. CASE ~ ReverseScan
      <4>1. accSteps' = accSteps
        BY <1>2, <3>2 DEF Next, vars, revVars, ForwardScan, ForwardFail, ForwardFound,
             ReverseFail, ReverseFound, FollowStep, CloseJourney,
             OptimizeIteration, OptimizeEnd, Summarize
      <4> QED
        BY <2>1, <4>1 DEF Timing, AccessAllowed, AccessDeparture, AccessNodes, MinWait
    <3> QED
      BY <3>1, <3>2
  <2> QED
    BY <2>3, <2>4
<1> QED
  BY <1>1, <1>2

LEMMA ChosenFrame ==
    ASSUME UNCHANGED <<tt, q, bestDeparture, accessNode, arrivalTime>>, DepartureChosen
    PROVE  DepartureChosen'
BY DEF DepartureChosen, AccessNodes

LEMMA NextTInv == TInv /\ [Next]_vars => TInv'
<1> SUFFICES ASSUME TInv, [Next]_vars PROVE TInv'
  OBVIOUS
<1>1. JInv /\ JInv' /\ TypeOK
  BY NextJInv DEF TInv, JInv, RInv
<1>2. FitsShort' <=> FitsShort
  BY DEF FitsShort, Next, vars, dataVars, Reset, ForwardScan, ForwardFail, ForwardFound,
         ReverseScan, ReverseFail, ReverseFound, FollowStep, CloseJourney,
         OptimizeIteration, OptimizeEnd, Summarize
<1>3. ASSUME FitsShort PROVE Timing'
  <2>1. Timing
    BY <1>3 DEF TInv
  <2>2. /\ (pc # "reset" => departureTime = IF q.forward THEN q.time ELSE -1)'
        /\ (\A n \in Nodes : AccessAllowed(n))'
    BY <1>1, <2>1, AccessFrame
  <2>3. CASE Searching
    <3>1. pc' \notin Answering
      BY <2>3, SearchingPhase
    <3> QED
      BY <2>2, <3>1 DEF Timing, Answering
  <2>4. CASE ReverseFound
    <3>1. pc' = "journey"
      BY <2>4 DEF ReverseFound
    <3> QED
      BY <1>1, <1>3, <2>1, <2>2, <2>4, <3>1, ReverseFoundTimes DEF Timing
  <2>5. CASE FollowStep
    <3>1. /\ pc = "journey" /\ pc' = "journey"
          /\ UNCHANGED <<tt, q, bestDeparture, accessNode, arrivalTime>>
      BY <2>5 DEF FollowStep, dataVars
    <3>2. DepartureChosen'
      BY <2>1, <3>1, ChosenFrame DEF Timing, Answering
    <3> QED
      BY <1>1, <1>3, <2>1, <2>2, <2>5, <3>1, <3>2, FollowStepTimes DEF Timing
  <2>6. CASE CloseJourney
    <3>1. pc = "journey" /\ UNCHANGED <<tt, q, bestDeparture, accessNode, arrivalTime>>
      BY <2>6 DEF CloseJourney, dataVars
    <3>2. DepartureChosen'
      BY <2>1, <3>1, ChosenFrame DEF Timing, Answering
    <3> QED
      BY <1>1, <1>3, <2>1, <2>2, <2>6, <3>2, CloseJourneyTimes DEF Timing
  <2>7. CASE OptimizeIteration
    <3>1. /\ pc = "optimize" /\ pc' \in {"optimize", "summary"}
          /\ UNCHANGED <<tt, q, bestDeparture, accessNode, arrivalTime>>
      BY <2>7 DEF OptimizeIteration, dataVars
    <3>2. DepartureChosen'
      BY <2>1, <3>1, ChosenFrame DEF Timing, Answering
    <3> QED
      BY <1>1, <1>3, <2>1, <2>2, <2>7, <3>1, <3>2, OptimizeTimes DEF Timing
  <2>8. CASE OptimizeEnd
    <3>1. /\ pc = "optimize" /\ pc' = "summary"
          /\ UNCHANGED <<tt, q, bestDeparture, accessNode, arrivalTime, journey>>
      BY <2>8 DEF OptimizeEnd, dataVars, journeyVars
    <3>2. DepartureChosen' /\ Timed(journey')
      BY <2>1, <3>1, ChosenFrame DEF Timing, Answering
    <3> QED
      BY <2>2, <3>1, <3>2, TimedFrame DEF Timing
  <2>9. CASE Summarize
    <3>1. /\ pc = "summary" /\ pc' = "done"
          /\ UNCHANGED <<tt, q, bestDeparture, accessNode, arrivalTime, journey>>
      BY <2>9 DEF Summarize, dataVars
    <3>2. DepartureChosen' /\ Timed(journey')
      BY <2>1, <3>1, ChosenFrame DEF Timing, Answering
    <3>3. ResultTimes'
      BY <2>9, SummarizeTimes
    <3> QED
      BY <2>2, <3>1, <3>2, <3>3, TimedFrame DEF Timing
  <2>10. CASE UNCHANGED vars
    <3>1. UNCHANGED <<tt, q, pc, bestDeparture, accessNode, arrivalTime, journey, cursor, result>>
      BY <2>10 DEF vars, dataVars, journeyVars
    <3>2. (pc \in Answering => DepartureChosen)'
      BY <2>1, <3>1, ChosenFrame DEF Timing
    <3>3. (pc \in {"optimize", "summary", "done"} => Timed(journey))'
      BY <2>1, <3>1, TimedFrame DEF Timing
    <3>4. (pc = "journey" => TimedSoFar)'
      BY <2>1, <3>1 DEF Timing, TimedSoFar, CaughtFirst, Caught, MinWait
    <3>5. (pc = "done" => ResultTimes)'
      BY <2>1, <3>1 DEF Timing, ResultTimes
    <3> QED
      BY <2>2, <3>2, <3>3, <3>4, <3>5 DEF Timing
  <2> QED
    BY <2>3, <2>4, <2>5, <2>6, <2>7, <2>8, <2>9, <2>10 DEF Next, Searching
<1> QED
  BY <1>1, <1>2, <1>3 DEF TInv

LEMMA InitTInv == Init => TInv
<1> SUFFICES ASSUME Init PROVE TInv
  OBVIOUS
<1>1. JInv
  BY InitJInv
<1>2. pc = "reset" /\ \A n \in Nodes : accSteps[n].enter = NoConnection
  BY DEF Init, NoStep, JourneyStep
<1>3. Timing
  BY <1>2 DEF Timing, AccessAllowed, Answering
<1> QED
  BY <1>1, <1>3 DEF TInv

LEMMA AnswerWithinQuery == TInv => (FitsShort => ResultWithinQuery)
<1> SUFFICES ASSUME TInv, FitsShort, pc = "done" PROVE ResultWithinQuery
  BY DEF ResultWithinQuery
<1>1. /\ DataOK /\ arrivalTime \in Int /\ DepartureChosen /\ Timed(journey) /\ ResultTimes
  BY DEF TInv, JInv, RInv, TypeOK, DataOK, Timing, Answering
<1> DEFINE L == Len(journey)
           z == tt.conn[journey[L - 1].exit].arr
           e == journey[L].walk
<1>2. /\ RideLeg(journey[L - 1]) /\ e \in Nat /\ z + e <= arrivalTime
  <2>1. L \in Nat /\ L >= 3
    BY <1>1 DEF Timed
  <2>2. L - 1 \in 2 .. L - 1
    BY <2>1
  <2> QED
    BY <1>1, <2>2 DEF Timed
<1>3. z \in Nat
  BY <1>1, <1>2, ConnectionType DEF RideLeg
<1>4. result.departure = bestDeparture /\ result.arrival = z + e
  BY <1>1 DEF ResultTimes
<1> HIDE DEF z, e
<1>5. /\ bestDeparture \in Int /\ arrivalTime - bestDeparture <= q.maxTotal
      /\ q.forward => bestDeparture >= q.time
  BY <1>1 DEF DepartureChosen
<1>6. q.maxTotal \in Nat
  BY <1>1 DEF DataOK, Query
<1>7. z + e - bestDeparture <= q.maxTotal
  BY <1>1, <1>2, <1>3, <1>5, <1>6
<1>8. result.arrival <= arrivalTime /\ result.arrival - result.departure <= q.maxTotal
  <2>1. result.arrival <= arrivalTime
    BY <1>2, <1>4
  <2>2. result.arrival - result.departure <= q.maxTotal
    BY <1>2, <1>3, <1>4, <1>5, <1>6, <1>7
  <2> QED
    BY <2>1, <2>2
<1>9. q.forward => result.departure >= q.time
  BY <1>4, <1>5, Zenon
<1> QED
  BY <1>8, <1>9, Zenon DEF ResultWithinQuery

LEMMA AnswerWaits == TInv => (FitsShort => MinimumWaitKept)
<1> SUFFICES ASSUME TInv, FitsShort, pc = "done", NEW k \in Legs
             PROVE  /\ transferReadyTime(k - 1) <= tt.conn[journey[k].enter].dep
                    /\ q.minWait <= SHORT_MAX /\ ~ isTransferable(journey[k].enter) =>
                           WaitingTime(k) >= q.minWait
  BY DEF MinimumWaitKept
<1> DEFINE s == journey[k]
           p == journey[k - 1]
           w == MinWait(s.enter)
           d == tt.conn[s.enter].dep
           x == transferArrivalTime(k - 1)
<1>1. /\ DataOK /\ DepartureChosen /\ Timed(journey)
  BY DEF TInv, JInv, RInv, TypeOK, DataOK, Timing, Answering
<1>2. /\ Len(journey) \in Nat /\ k \in 2 .. Len(journey) - 1 /\ k \in Nat /\ RideLeg(s)
  BY <1>1 DEF Timed, Legs
<1>3. d \in Int /\ w \in Int
  BY <1>1, <1>2, ConnectionType, MinWaitType DEF RideLeg
<1>4. x \in Int /\ x + w <= d
  <2>1. CASE k = 2
    <3>1. CaughtFirst(journey[1].walk, s) /\ journey[1].walk \in Nat /\ bestDeparture \in Int
      BY <1>1, <1>2 DEF Timed, DepartureChosen
    <3>2. x = bestDeparture + journey[1].walk
      BY <2>1 DEF transferArrivalTime
    <3> QED
      BY <3>1, <3>2 DEF CaughtFirst
  <2>2. CASE k # 2
    <3>1. k - 1 \in 2 .. Len(journey) - 1 /\ k - 1 < k /\ k - 1 # 1
      BY <1>2, <2>2
    <3>2. Caught(p, s) /\ RideLeg(p)
      BY <1>1, <1>2, <3>1 DEF Timed
    <3>3. x = tt.conn[p.exit].arr + p.walk
      BY <3>1 DEF transferArrivalTime
    <3>4. tt.conn[p.exit].arr \in Nat /\ p.walk \in Nat
      BY <1>1, <3>2, ConnectionType DEF RideLeg, Caught
    <3> QED
      BY <3>2, <3>3, <3>4 DEF Caught
  <2> QED
    BY <2>1, <2>2
<1>5. transferReadyTime(k - 1) = x + w
  <2>1. k - 1 + 1 = k
    BY <1>2
  <2> QED
    BY <2>1, Zenon DEF transferReadyTime
<1>6. WaitingTime(k) = d - x
  BY DEF WaitingTime
<1>7. ASSUME ~ isTransferable(s.enter) PROVE w = q.minWait
  <2>1. tt.conn[s.enter].minWait = -1
    BY <1>1, <1>2, <1>7, ConnectionType DEF RideLeg, isTransferable
  <2>2. w = AsShort(q.minWait)
    BY <2>1 DEF MinWait
  <2> QED
    BY <1>1, <2>2, AsShortValue, DataType DEF FitsShort
<1> HIDE DEF x, w, d
<1>8. d - x >= w
  BY <1>3, <1>4
<1> QED
  BY <1>4, <1>5, <1>6, <1>7, <1>8 DEF d, s

LEMMA LoopProgress == TInv => (FitsShort => OptimizerProgress)
<1> SUFFICES ASSUME TInv, FitsShort, pc = "optimize", NEW f \in FirstFound(journey, ignore)
             PROVE  LET repair == Repair(journey, ignore, f)
                    IN  \/ f[3] = 2
                        \/ Cardinality(Ridden(repair.journey)) < Cardinality(Ridden(journey))
                        \/ repair.ignored \ ignore # {}
  BY DEF OptimizerProgress
<1>1. DataOK /\ Timed(journey)
  BY DEF TInv, JInv, RInv, TypeOK, DataOK, Timing
<1>2. f \in Found(journey, ignore)
  BY DEF FirstFound
<1> DEFINE r == Repair(journey, ignore, f)
<1>3. \/ f[3] = 2
      \/ r.journey = journey /\ r.ignored \ ignore # {}
      \/ Shortened(r.journey, journey)
  BY <1>1, <1>2, RepairEffect
<1> HIDE DEF r
<1>4. Shortened(r.journey, journey) => Cardinality(Ridden(r.journey)) < Cardinality(Ridden(journey))
  BY <1>1, RiddenLess
<1> QED
  BY <1>3, <1>4 DEF r

(***************************************************************************)
(* calculateSingle, for every network, timetable and query whose waiting   *)
(* time fits in a short: after all the optimiser has cut and moved, the    *)
(* answer leaves no earlier than asked, arrives no later than the arrival  *)
(* time asked for or found, and lasts at most the maximum travel time.     *)
(***************************************************************************)
THEOREM WithinQuery == Spec => [](FitsShort => ResultWithinQuery)
BY AnswerWithinQuery, InitTInv, NextTInv, PTL DEF Spec

(***************************************************************************)
(* reverseJourneyStep and optimizeJourney, for the same queries: before    *)
(* every vehicle of the answer there is the minimum waiting time, also for *)
(* a leg that the optimiser boards later, or after one it leaves earlier.  *)
(***************************************************************************)
THEOREM WaitKept == Spec => [](FitsShort => MinimumWaitKept)
BY AnswerWaits, InitTInv, NextTInv, PTL DEF Spec

(***************************************************************************)
(* optimizeJourney, for the same queries: an iteration that lets the loop  *)
(* go on makes what is ridden smaller or ignores one more node, so it can  *)
(* be repeated only finitely often.                                        *)
(***************************************************************************)
THEOREM LoopShrinks == Spec => [](FitsShort => OptimizerProgress)
BY LoopProgress, InitTInv, NextTInv, PTL DEF Spec

-----------------------------------------------------------------------------
(***************************************************************************)
(* calculateSingle: the departure the reverse calculation finds            *)
(***************************************************************************)
\* the queries the theorem is about; after a forward calculation those for which
\* that one is exact
Fitting == FitsShort /\ (q.forward => ArrivalsFit /\ WithinCache)

Aimed == Fitting /\ Progressing /\ q.maxFirstWait = -1

\* a trip is marked usable when it is boarded
Marked ==
    pc = "forward" =>
        /\ q.forward /\ accessReached = -1
        /\ \A t \in Trips : enter[t] # NoConnection => t \in usable

BackPhase == pc = "reverse" /\ Aimed => arrivalTime \in Nat /\ Backwards /\ BackComplete

DInv == AInv /\ TInv /\ Marked /\ BackPhase

LEMMA AimedFixed ==
    ASSUME UNCHANGED <<tt, q>>
    PROVE  Aimed' <=> Aimed
BY DEF Aimed, Fitting, FitsShort, ArrivalsFit, WithinCache, Progressing, Conns, EgressNodes

\* the facts the steps start from
LEMMA DFacts ==
    ASSUME DInv
    PROVE  /\ TypeOK /\ DataOK /\ ForwardTypeOK /\ ReverseTypeOK /\ RInv
           /\ arrivalTime \in Int /\ departureTime \in Int
           /\ FitsShort => Timing
<1>1. RInv /\ TypeOK
  BY DEF DInv, TInv, JInv, RInv
<1> QED
  BY <1>1 DEF TypeOK, DataOK, DInv, TInv

\* what leads on arrives early enough, as a formula that holds after a step too
LEMMA SoughtEarly ==
    DataOK /\ arrivalTime \in Int /\ FitsShort => \A e \in Sought : e \in Conns /\ Early(e)
BY SoughtConns, OnwardEarly

LEMMA InitDInv == Init => DInv
<1> SUFFICES ASSUME Init PROVE DInv
  OBVIOUS
<1>1. AInv /\ TInv /\ pc = "reset"
  BY InitAInv, InitTInv DEF Init
<1> QED
  BY <1>1 DEF DInv, Marked, BackPhase

\* the reverse calculation starts
LEMMA StartedBack ==
    ASSUME DataOK', FitsShort', TypeOK', Untouched', UsableSought', arrivalTime' \in Nat,
           revPos' = ReverseBegin(arrivalTime \div SecondsPerHour + 1)'
    PROVE  Backwards' /\ BackComplete'
<1>1. (DataOK /\ arrivalTime \in Int /\ Untouched /\ UsableSought => Backwards)'
  BY StartBackwards, PTL
<1>2. (DataOK /\ FitsShort /\ arrivalTime \in Nat =>
          \A p : p = ReverseBegin(arrivalTime \div SecondsPerHour + 1) => PassedTo(p))'
  BY BeginPassed, PTL
<1>3. PICK p : p = revPos'
  OBVIOUS
<1>4. PassedTo(p)'
  BY <1>2, <1>3
<1>5. p \in 1 .. Len(tt'.rev) + 1
  BY <1>3 DEF TypeOK, ReverseTypeOK
<1>6. ScanBack(p)'
  BY <1>3, <1>5 DEF ScanBack
<1> QED
  BY <1>1, <1>4, <1>6 DEF BackComplete

LEMMA ResetDInv ==
    ASSUME DInv, Reset
    PROVE  Marked' /\ BackPhase'
<1>1. /\ Restart /\ UNCHANGED <<tt, q>> /\ TypeOK /\ DataOK /\ ResetReverse /\ ResetForward
  BY DFacts, ResetRestarts DEF Restart, dataVars
<1>2. TypeOK' /\ DataOK'
  BY <1>1, ResetType DEF DataOK
<1>3. /\ pc' \in {"forward", "reverse", "failed"}
      /\ pc' = "forward" => q.forward
      /\ pc' = "reverse" =>
            /\ ~ q.forward /\ arrivalTime' = q.time /\ usable' = Trips
            /\ revPos' = ReverseBegin(q.time \div SecondsPerHour + 1)
  BY <1>1 DEF Restart, StartScan, Fail
<1>4. Marked'
  BY <1>1, <1>3 DEF Marked, ResetForward, ResetReverse
<1>5. ASSUME pc' = "reverse", Aimed' PROVE arrivalTime' \in Nat /\ Backwards' /\ BackComplete'
  <2>1. Untouched'
    BY <1>1 DEF ResetReverse, Untouched, NoStep, JourneyStep, EgressLabels, EgressNodes
  <2>2. UsableSought'
    <3>1. (DataOK => \A e \in Sought : tt.conn[e].trip \in Trips)'
      BY SoughtTrips, PTL
    <3> QED
      BY <1>2, <1>3, <1>5, <3>1 DEF UsableSought
  <2>3. arrivalTime' \in Nat
    BY <1>1, <1>3, <1>5, DataType
  <2>4. ReverseBegin(q.time \div SecondsPerHour + 1)
          = ReverseBegin(arrivalTime \div SecondsPerHour + 1)'
    BY <1>1, <1>3, <1>5 DEF ReverseBegin, Conns
  <2>5. FitsShort'
    BY <1>5 DEF Aimed, Fitting
  <2>6. revPos' = ReverseBegin(arrivalTime \div SecondsPerHour + 1)'
    BY <1>3, <1>5, <2>4
  <2>7. Backwards' /\ BackComplete'
    BY <1>2, <2>1, <2>2, <2>3, <2>5, <2>6, StartedBack
  <2> QED
    BY <2>3, <2>7
<1>6. BackPhase'
  BY <1>5 DEF BackPhase
<1> QED
  BY <1>4, <1>6

LEMMA ForwardScanDInv ==
    ASSUME DInv, ForwardScan, UNCHANGED revVars
    PROVE  Marked' /\ BackPhase'
<1>1. /\ pc = "forward" /\ pc' = "forward" /\ UNCHANGED <<tt, q, accessReached>>
      /\ DataOK /\ ForwardTypeOK /\ fwdPos \in Conns
  BY DFacts DEF ForwardScan, ForwardSkip, ForwardBreak, ForwardPass, ForwardRide, FwdScanning,
                dataVars, revVars
<1>2. q.forward /\ accessReached = -1 /\ \A t \in Trips : enter[t] # NoConnection => t \in usable
  BY <1>1 DEF DInv, Marked
<1>3. CASE UNCHANGED <<enter, usable>>
  BY <1>1, <1>2, <1>3 DEF Marked, BackPhase
<1>4. CASE ForwardRide
  <2>1. PICK trip, f : trip = tt.conn[fwdPos].trip /\ f = FwdEnter(fwdPos)
    OBVIOUS
  <2>2. /\ enter' = [enter EXCEPT ![trip] = f]
        /\ usable' = IF enter[trip] # f THEN usable \cup {trip} ELSE usable
    BY <1>4, <2>1 DEF ForwardRide
  <2>3. ASSUME NEW t \in Trips, enter'[t] # NoConnection PROVE t \in usable'
    BY <1>1, <1>2, <2>2, <2>3 DEF ForwardTypeOK
  <2> QED
    BY <1>1, <1>2, <2>3 DEF Marked, BackPhase
<1> QED
  BY <1>3, <1>4 DEF ForwardScan, ForwardSkip, ForwardBreak, ForwardPass

\* what leads to the arrival found has been boarded by the forward calculation
LEMMA FoundBoarded ==
    ASSUME DataOK, ForwardTypeOK, Regular, ForwardExact, FwdEnded,
           NEW n \in EgressCandidates, IsBestEgress(n),
           NEW e \in Boardable, NEW m \in EgressNodes, tt.conn[e].arr + q.egress[m] <= EgressArrival(n)
    PROVE  enter[tt.conn[e].trip] # NoConnection
<1>0. PICK a, ar, w : a = EgressArrival(n) /\ ar = tt.conn[e].arr /\ w = q.egress[m]
  OBVIOUS
<1>1. /\ a \in Nat /\ e \in Conns /\ e \in Nat /\ ar \in Nat /\ w \in Nat /\ ar + w <= a
      /\ tt.conn[e].dep \in Nat /\ tt.conn[e].dep <= ar
      /\ q.maxTotal \in Nat /\ departureTime \in Nat /\ a - departureTime <= q.maxTotal
  <2>1. e \in Conns
    BY BoardableConns
  <2>2. q.maxTotal \in Nat /\ q.time \in Nat /\ departureTime = q.time
    BY DEF DataOK, Query, ForwardExact
  <2>3. w \in Nat
    BY <1>0, DataType DEF EgressNodes
  <2>4. a \in Nat /\ a - departureTime <= q.maxTotal
    BY <1>0, CandidateOnTime DEF EgressCandidates
  <2>5. e \in Nat /\ ar \in Nat /\ tt.conn[e].dep \in Nat /\ tt.conn[e].dep <= ar
    BY <1>0, <2>1, ConnectionType, Sorted
  <2> QED
    BY <1>0, <2>1, <2>2, <2>3, <2>4, <2>5
<1>2. PICK p \in 1 .. Len(tt.conn) + 1 : ScanAt(p) /\ PassedBoardings(p)
  BY DEF ForwardExact, Complete
<1>3. CASE e < p
  BY <1>2, <1>3 DEF PassedBoardings
<1>4. CASE ~ (e < p)
  <2>1. Len(tt.conn) \in Nat
    BY DataType
  <2>2. p \in Nat /\ p <= e /\ p \in Conns
    BY <1>1, <1>4, <2>1 DEF Conns
  <2>3. FwdStop(p)
    BY <1>2, <2>1, <2>2 DEF ScanAt, FwdEnded, Conns
  <2>4. PICK dp : dp = tt.conn[p].dep
    OBVIOUS
  <2>5. dp \in Nat /\ dp <= tt.conn[e].dep
    BY <1>1, <2>2, <2>4, Sorted, ConnectionType
  <2>6. dp <= a /\ ~ (dp - departureTime > q.maxTotal)
    BY <1>1, <2>5
  <2>7. /\ egressReached < MAX_INT
        /\ \A i \in EgressNodes : dp > egressReached + q.egress[i]
    BY <2>3, <2>4, <2>6 DEF FwdStop
  <2>8. PICK k \in EgressNodes : /\ fwdEgress[k] # NoConnection
                                 /\ tt.conn[fwdEgress[k]].arr <= egressReached
    BY <2>7 DEF ForwardExact, EgressMet
  <2>9. k \in Nodes /\ q.egress[k] \in Nat
    BY DataType DEF EgressNodes
  <2>10. fwdEgress[k] \in Conns
    BY <2>8, <2>9 DEF ForwardExact, EgressAlightable, Alightable
  <2>11. tt.conn[fwdEgress[k]].arr \in Nat /\ egressReached \in Nat
    BY <2>10, ConnectionType DEF ForwardTypeOK
  <2>12. EgressArrival(k) \in Nat /\ EgressArrival(k) < a
    <3>1. PICK u, v, r : u = tt.conn[fwdEgress[k]].arr /\ v = q.egress[k] /\ r = egressReached
      OBVIOUS
    <3>2. u \in Nat /\ v \in Nat /\ r \in Nat /\ u <= r /\ dp > r + v
      BY <2>7, <2>8, <2>9, <2>11, <3>1
    <3>3. u + v \in Nat /\ u + v < a
      BY <1>1, <2>5, <2>6, <3>2
    <3> QED
      BY <3>1, <3>3 DEF EgressArrival
  <2>13. k \in EgressCandidates
    <3>1. EgressArrival(k) < MAX_INT
      BY <2>10 DEF Regular, ArrivalsFit, EgressArrival
    <3>2. EgressArrival(k) - departureTime <= q.maxTotal
      BY <1>1, <2>12
    <3> QED
      BY <2>8, <3>1, <3>2 DEF EgressCandidates
  <2>14. a <= EgressArrival(k)
    BY <1>0, <2>13 DEF IsBestEgress
  <2> QED
    BY <1>1, <2>12, <2>14
<1> QED
  BY <1>3, <1>4

LEMMA ForwardFoundDInv ==
    ASSUME DInv, ForwardFound
    PROVE  Marked' /\ BackPhase'
<1>1. /\ FwdEnded /\ pc = "forward" /\ pc' = "reverse"
      /\ UNCHANGED <<tt, q, departureTime, usable, revSteps, accSteps, exit, accessReached>>
  BY DEF ForwardFound, FwdEnded, dataVars
<1>2. /\ TypeOK /\ DataOK /\ ForwardTypeOK /\ RInv /\ NothingLabelled
      /\ q.forward /\ accessReached = -1
      /\ \A t \in Trips : enter[t] # NoConnection => t \in usable
  BY <1>1, DFacts DEF DInv, Marked, RInv
<1>3. TypeOK' /\ DataOK'
  BY <1>1, <1>2, ForwardFoundType DEF DataOK
<1>4. Marked'
  BY <1>1 DEF Marked
<1>5. ASSUME Aimed PROVE arrivalTime' \in Nat /\ Backwards' /\ BackComplete'
  <2>1. Regular /\ ForwardExact /\ FitsShort
    BY <1>1, <1>2, <1>5 DEF Aimed, Fitting, Regular, DInv, AInv
  <2>2. PICK n \in EgressCandidates :
          /\ IsBestEgress(n)
          /\ arrivalTime' = EgressArrival(n)
          /\ revTime' = EgressLabels(EgressArrival(n))
          /\ revPos' = ReverseBegin(EgressArrival(n) \div SecondsPerHour + 1)
    BY DEF ForwardFound
  <2>3. arrivalTime' \in Nat
    BY <1>2, <2>1, <2>2, CandidateOnTime
  <2>4. Untouched'
    BY <1>1, <1>2, <2>2 DEF NothingLabelled, Untouched, EgressLabels, EgressNodes
  <2>5. FitsShort'
    BY <1>1, <2>1 DEF FitsShort
  <2>6. UsableSought'
    <3>1. (DataOK /\ arrivalTime \in Int /\ FitsShort => \A e \in Sought : e \in Conns /\ Early(e))'
      BY SoughtEarly, PTL
    <3> SUFFICES ASSUME NEW e \in Sought' PROVE tt.conn[e].trip \in usable
      BY <1>1 DEF UsableSought
    <3>2. Early(e)'
      BY <1>3, <2>3, <2>5, <3>1
    <3>3. PICK m \in EgressNodes : tt.conn[e].arr + q.egress[m] <= EgressArrival(n)
      BY <1>1, <2>2, <3>2 DEF Early, EgressNodes
    <3>4. e \in Boardable
      BY <1>1, <1>2, BoardableFixed DEF Sought
    <3>5. enter[tt.conn[e].trip] # NoConnection
      BY <1>1, <1>2, <2>1, <2>2, <3>3, <3>4, FoundBoarded
    <3>6. tt.conn[e].trip \in Trips
      BY <1>2, <3>4, BoardableConns, ConnectionType
    <3> QED
      BY <1>2, <3>5, <3>6
  <2>7. ReverseBegin(EgressArrival(n) \div SecondsPerHour + 1)
          = ReverseBegin(arrivalTime \div SecondsPerHour + 1)'
    BY <1>1, <2>2 DEF ReverseBegin, Conns
  <2>8. revPos' = ReverseBegin(arrivalTime \div SecondsPerHour + 1)'
    BY <2>2, <2>7
  <2>9. Backwards' /\ BackComplete'
    BY <1>3, <2>3, <2>4, <2>5, <2>6, <2>8, StartedBack
  <2> QED
    BY <2>3, <2>9
<1>6. BackPhase'
  BY <1>1, <1>5, AimedFixed DEF BackPhase
<1> QED
  BY <1>4, <1>6

LEMMA ReverseScanDInv ==
    ASSUME DInv, ReverseScan
    PROVE  Marked' /\ BackPhase'
<1>1. /\ BackStep /\ pc = "reverse" /\ pc' = "reverse" /\ UNCHANGED <<tt, q, arrivalTime>>
  BY ReverseScanSteps DEF BackStep, RevScanning, dataVars
<1>2. RInv /\ DataOK /\ arrivalTime \in Int
  BY DFacts
<1>3. ASSUME Aimed PROVE arrivalTime' \in Nat /\ Backwards' /\ BackComplete'
  <2>1. arrivalTime \in Nat /\ Backwards /\ BackComplete
    BY <1>1, <1>3 DEF DInv, BackPhase
  <2>2. FitsShort /\ Progressing /\ Unlimited
    BY <1>3 DEF Aimed, Fitting, Unlimited
  <2>3. PICK c : c = tt.rev[revPos]
    OBVIOUS
  <2>4. c \in Conns
    BY <1>1, <1>2, <2>3, DataType DEF BackStep, RevScanning
  <2>5. Early(c) => \E n \in EgressNodes : tt.conn[c].arr <= arrivalTime - q.egress[n]
    <3> SUFFICES ASSUME NEW n \in EgressNodes, tt.conn[c].arr + q.egress[n] <= arrivalTime
                 PROVE  tt.conn[c].arr <= arrivalTime - q.egress[n]
      BY DEF Early
    <3>1. q.egress[n] \in Nat /\ tt.conn[c].arr \in Nat
      BY <1>2, <2>4, DataType, ConnectionType DEF EgressNodes
    <3> QED
      BY <1>2, <3>1
  <2>6. \/ /\ BackMove /\ revPos' = revPos + 1
           /\ \/ ~ (Early(c) /\ tt.conn[c].trip \in usable \ q.disabled)
              \/ ~ RevReachable(c)
        \/ BackMove /\ revPos' = Len(tt.rev) + 1 /\ RevStop(c)
        \/ RevReachable(c) /\ RideBack(c) /\ tt.conn[c].trip \notin q.disabled
    <3>1. ReverseSkip \/ ReverseBreak \/ ReversePass \/ ReverseRide
      BY DEF ReverseScan
    <3>2. CASE ReverseSkip
      BY <2>3, <2>5, <3>2 DEF ReverseSkip, BackMove, RevConsidered
    <3>3. CASE ReverseBreak
      BY <2>3, <3>3 DEF ReverseBreak, BackMove
    <3>4. CASE ReversePass
      BY <2>3, <3>4 DEF ReversePass, BackMove
    <3>5. CASE ReverseRide
      BY <2>3, <3>5 DEF ReverseRide, RevConsidered
    <3> QED
      BY <3>1, <3>2, <3>3, <3>4, <3>5
  <2>7. Backwards' /\ BackComplete'
    BY <1>1, <1>2, <2>1, <2>2, <2>3, <2>6, StepBackwards
  <2> QED
    BY <1>1, <2>1, <2>7
<1> QED
  BY <1>1, <1>3, AimedFixed DEF Marked, BackPhase

LEMMA NextDInv == DInv /\ [Next]_vars => DInv'
<1> SUFFICES ASSUME DInv, [Next]_vars PROVE DInv'
  OBVIOUS
<1>1. AInv' /\ TInv'
  BY NextAInv, NextTInv DEF DInv
<1>2. CASE Afterwards
  BY <1>1, <1>2, AfterwardsFrame DEF DInv, Marked, BackPhase
<1>3. CASE UNCHANGED vars
  <2>1. /\ UNCHANGED <<tt, q, pc, departureTime, arrivalTime, usable, enter>>
        /\ UNCHANGED <<revPos, revTime, revSteps, accSteps, exit, accessReached>>
    BY <1>3 DEF vars, dataVars, fwdVars, revVars
  <2>2. (Backwards => Backwards') /\ (BackComplete => BackComplete')
    <3>1. (Backwards => Backwards') /\ \A p : PassedTo(p) => PassedTo(p)'
      BY <2>1, BackwardsFrame
    <3>2. \A p : ScanBack(p) => ScanBack(p)'
      BY <2>1 DEF ScanBack, RevStop, AccessNodes, Conns
    <3> QED
      BY <3>1, <3>2 DEF BackComplete
  <2>3. BackPhase'
    BY <2>1, <2>2, AimedFixed DEF DInv, BackPhase
  <2>4. Marked'
    BY <2>1 DEF DInv, Marked
  <2> QED
    BY <1>1, <2>3, <2>4 DEF DInv
<1>4. CASE Reset \/ (ForwardScan /\ UNCHANGED revVars) \/ ForwardFound \/ ReverseScan
  BY <1>1, <1>4, ResetDInv, ForwardScanDInv, ForwardFoundDInv, ReverseScanDInv DEF DInv
<1> QED
  BY <1>2, <1>3, <1>4 DEF Next, Afterwards

-----------------------------------------------------------------------------
\* what holds when the reverse calculation ends
BackEnd == RevEnded /\ DInv /\ Aimed

LEMMA EndFacts ==
    ASSUME BackEnd
    PROVE  /\ DataOK /\ ReverseTypeOK /\ ReverseLabelsSound /\ FitsShort /\ Progressing
           /\ q.maxFirstWait = -1 /\ q.maxTotal \in Nat /\ q.minWait \in Nat /\ q.time \in Nat
           /\ arrivalTime \in Nat /\ Backwards /\ BackComplete
           /\ departureTime = (IF q.forward THEN q.time ELSE -1) /\ departureTime \in Int
           /\ \A n \in Nodes : AccessAllowed(n)
<1>1. /\ DataOK /\ ReverseTypeOK /\ RInv /\ (FitsShort => Timing) /\ FitsShort
      /\ Progressing /\ q.maxFirstWait = -1
  BY DFacts DEF BackEnd, Aimed, Fitting
<1>2. q.maxTotal \in Nat /\ q.minWait \in Nat /\ q.time \in Nat
  BY <1>1 DEF DataOK, Query
<1>3. pc = "reverse" /\ arrivalTime \in Nat /\ Backwards /\ BackComplete
  BY DEF BackEnd, RevEnded, DInv, BackPhase
<1>4. departureTime = (IF q.forward THEN q.time ELSE -1) /\ \A n \in Nodes : AccessAllowed(n)
  BY <1>1, <1>3 DEF Timing
<1> QED
  BY <1>1, <1>2, <1>3, <1>4 DEF RInv

\* a first boarding recorded for an access node
Recorded(n) == n \in AccessNodes /\ accSteps[n].enter # NoConnection

LEMMA RecordedTimes ==
    ASSUME BackEnd, NEW n, Recorded(n)
    PROVE  /\ n \in Nodes /\ q.access[n] \in Nat
           /\ accSteps[n].enter \in Onward /\ accSteps[n].enter \in Conns
           /\ tt.conn[accSteps[n].enter].from = n
           /\ AccessDeparture(n) \in Int
           /\ AccessDeparture(n) = BoardBy(accSteps[n].enter) - q.access[n]
           /\ AccessDeparture(n) >= tt.conn[accSteps[n].enter].dep - q.minWait - q.access[n]
           /\ AccessDeparture(n) <= arrivalTime
           /\ AccessDeparture(n) >= departureTime \/ departureTime = -1
<1>0. PICK a : a = accSteps[n].enter
  OBVIOUS
<1>1. /\ DataOK /\ ReverseLabelsSound /\ FitsShort /\ Backwards /\ arrivalTime \in Nat
      /\ q.minWait \in Nat /\ departureTime \in Int /\ \A m \in Nodes : AccessAllowed(m)
  BY EndFacts
<1>2. n \in Nodes /\ a # NoConnection /\ n \in AccessNodes
  BY <1>0 DEF Recorded, AccessNodes
<1>3. q.access[n] \in Nat
  BY <1>1, <1>2, DataType DEF AccessNodes
<1>4. a \in Onward /\ tt.conn[a].from = n
  BY <1>0, <1>1, <1>2, ReverseParts DEF Backwards, ReverseOnward, AccessSound
<1>5. a \in Conns
  BY <1>4, OnwardConns
<1>6. PICK d, w, b, ac : d = tt.conn[a].dep /\ w = MinWait(a) /\ b = BoardBy(a) /\ ac = q.access[n]
  OBVIOUS
<1>7. d \in Nat /\ w \in Nat /\ w <= q.minWait /\ b = d - w /\ ac \in Nat
  BY <1>1, <1>3, <1>5, <1>6, ConnectionType, BoardByType DEF BoardBy
<1>8. AccessDeparture(n) = d - ac - w
  BY <1>0, <1>6 DEF AccessDeparture
<1>9. d <= arrivalTime
  <2>1. PICK m \in EgressNodes : tt.conn[a].arr + q.egress[m] <= arrivalTime
    BY <1>1, <1>4, OnwardEarly DEF Early
  <2>2. PICK ar, eg : ar = tt.conn[a].arr /\ eg = q.egress[m]
    OBVIOUS
  <2>3. ar \in Nat /\ eg \in Nat /\ ar + eg <= arrivalTime /\ d <= ar
    BY <1>1, <1>5, <1>6, <2>1, <2>2, ConnectionType, Sorted, DataType DEF EgressNodes
  <2> QED
    BY <1>1, <1>7, <2>3
<1>10. AccessDeparture(n) >= departureTime \/ departureTime = -1
  BY <1>0, <1>1, <1>2 DEF AccessAllowed
<1>11. /\ d - ac - w \in Int /\ d - ac - w = b - ac /\ d - ac - w >= d - q.minWait - ac
       /\ d - ac - w <= arrivalTime
  BY <1>1, <1>7, <1>9
<1> QED
  BY <1>0, <1>2, <1>3, <1>4, <1>5, <1>6, <1>8, <1>10, <1>11

\* the candidates of the final loop are departures that can be travelled
LEMMA CandidateDeparture ==
    ASSUME BackEnd, NEW n \in AccessCandidates
    PROVE  /\ Recorded(n) /\ AccessDeparture(n) \in OnTimeDepartures
           /\ AccessDeparture(n) \in Nat /\ AccessDeparture(n) <= arrivalTime
<1>0. PICK a, s : a = accSteps[n].enter /\ s = AccessDeparture(n)
  OBVIOUS
<1>1. /\ Recorded(n) /\ s >= 0 /\ arrivalTime - s <= q.maxTotal /\ n \in AccessNodes
  BY <1>0 DEF AccessCandidates, Recorded
<1>2. /\ a \in Onward /\ tt.conn[a].from = n /\ s \in Int /\ s = BoardBy(a) - q.access[n]
      /\ s <= arrivalTime /\ (s >= departureTime \/ departureTime = -1)
  BY <1>0, <1>1, RecordedTimes
<1>3. s \in OriginDepartures
  BY <1>1, <1>2 DEF OriginDepartures, BoardBy
<1>4. s >= departureTime
  BY <1>1, <1>2
<1> QED
  BY <1>0, <1>1, <1>2, <1>3, <1>4 DEF OnTimeDepartures

\* a departure that can be travelled is known, up to the minimum waiting time, or is
\* that close to the earliest departure asked for (when lines ask for different
\* waiting times)
LEMMA DepartureKnown ==
    ASSUME BackEnd, NEW d \in OnTimeDepartures
    PROVE  \/ \E n : Recorded(n) /\ (AccessDeparture(n) > d - q.minWait \/ AccessDeparture(n) >= d)
           \/ departureTime # -1 /\ d < departureTime + q.minWait /\ ~ OneWait
<1>1. /\ DataOK /\ ReverseLabelsSound /\ FitsShort /\ Backwards /\ arrivalTime \in Nat
      /\ q.minWait \in Nat /\ q.maxTotal \in Nat /\ q.time \in Nat /\ departureTime \in Int
      /\ departureTime = IF q.forward THEN q.time ELSE -1
      /\ q.maxFirstWait = -1 /\ BackComplete
  BY EndFacts
<1>2. PICK e \in Onward : /\ tt.conn[e].from \in AccessNodes
                          /\ d = tt.conn[e].dep - MinWait(e) - q.access[tt.conn[e].from]
  BY DEF OnTimeDepartures, OriginDepartures
<1>3. PICK n, b, de, ae, ac, w : /\ n = tt.conn[e].from /\ b = BoardBy(e) /\ de = tt.conn[e].dep
                                 /\ ae = tt.conn[e].arr /\ ac = q.access[n] /\ w = MinWait(e)
  OBVIOUS
<1>4. /\ e \in Conns /\ e \in MayBoard /\ n \in AccessNodes /\ n \in Nodes
      /\ w \in Nat /\ de \in Nat /\ ae \in Nat /\ ac \in Nat
      /\ de <= ae /\ b = de - w /\ w <= q.minWait
  <2>1. e \in Conns /\ e \in MayBoard
    BY OnwardConns
  <2>2. n \in AccessNodes /\ n \in Nodes /\ ac \in Nat
    BY <1>1, <1>2, <1>3, DataType DEF AccessNodes
  <2>3. w \in Nat /\ de \in Nat /\ ae \in Nat /\ de <= ae /\ b = de - w /\ w <= q.minWait
    BY <1>1, <1>3, <2>1, ConnectionType, Sorted, BoardByType DEF BoardBy
  <2> QED
    BY <2>1, <2>2, <2>3
<1>5. /\ d = de - w - ac /\ d \in Int /\ d >= departureTime /\ arrivalTime - d <= q.maxTotal
      /\ d = b - ac /\ d <= de
  BY <1>2, <1>3, <1>4 DEF OnTimeDepartures
<1>6. Leavable(e)
  BY <1>3, <1>4, <1>5 DEF Leavable
<1>7. e \in Sought
  <2>1. CASE q.forward
    <3>1. q.time + ac + w <= de
      BY <1>1, <1>4, <1>5, <2>1
    <3>2. BoardedFromOrigin(e)
      BY <1>1, <1>3, <1>4, <3>1 DEF BoardedFromOrigin
    <3> QED
      BY <1>4, <2>1, <3>2, FromOrigin DEF Sought
  <2> QED
    BY <2>1 DEF Sought
<1>8. PICK p : ScanBack(p) /\ PassedTo(p)
  BY <1>1 DEF BackComplete
<1>9. CASE Met(e, p)
  <2>1. PICK a : a = accSteps[n].enter
    OBVIOUS
  <2>2. a # NoConnection /\ Nearly(a, e)
    BY <1>3, <1>6, <1>7, <1>8, <1>9, <2>1 DEF PassedTo, PassedOnward, Heeded
  <2>3. Recorded(n)
    BY <1>4, <2>1, <2>2 DEF Recorded
  <2>4. PICK s, da, ba : s = AccessDeparture(n) /\ da = tt.conn[a].dep /\ ba = BoardBy(a)
    OBVIOUS
  <2>5. s \in Int /\ s = ba - ac /\ s >= da - q.minWait - ac /\ a \in Conns
    BY <1>3, <2>1, <2>3, <2>4, RecordedTimes
  <2>6. da \in Nat /\ ba \in Int
    BY <1>1, <2>4, <2>5, ConnectionType, BoardByType
  <2>7. da > b \/ ba >= b
    BY <1>3, <2>2, <2>4 DEF Nearly
  <2>8. s > d - q.minWait \/ s >= d
    BY <1>1, <1>4, <1>5, <2>5, <2>6, <2>7
  <2> QED
    BY <2>3, <2>4, <2>8
<1>10. CASE ~ Met(e, p)
  <2>1. PICK c, r : c = tt.rev[p] /\ r = tt.conn[c].arr
    OBVIOUS
  <2>2. c \in Conns /\ RevStop(c) /\ ae <= r
    BY <1>1, <1>3, <1>4, <1>8, <1>10, <2>1, EndMet DEF BackEnd
  <2>3. r \in Nat
    BY <1>1, <2>1, <2>2, ConnectionType
  <2>4. ~ (arrivalTime - r > q.maxTotal)
    BY <1>1, <1>4, <1>5, <2>2, <2>3
  <2>5. accessReached # -1 /\ \A k \in AccessNodes : r < accessReached - q.access[k]
    BY <2>1, <2>2, <2>4 DEF RevStop
  <2>6. AccessMet
    BY <1>1 DEF Backwards
  <2>7. PICK c0 \in Conns :
           /\ tt.conn[c0].from \in AccessNodes /\ tt.conn[c0].dep = accessReached
           /\ Leavable(c0) => /\ accSteps[tt.conn[c0].from].enter # NoConnection
                              /\ tt.conn[accSteps[tt.conn[c0].from].enter].dep >= accessReached
    BY <2>5, <2>6 DEF AccessMet
  <2>8. PICK m, am, z, bz : /\ m = tt.conn[c0].from /\ am = q.access[m] /\ z = accessReached
                            /\ bz = BoardBy(c0)
    OBVIOUS
  <2>9. m \in AccessNodes /\ am \in Nat /\ z \in Nat /\ r < z - am /\ bz \in Int /\ bz >= z - q.minWait
    <3>1. m \in AccessNodes
      BY <2>7, <2>8
    <3>2. am \in Nat
      BY <1>1, <2>8, <3>1, DataType DEF AccessNodes
    <3>3. z \in Nat /\ bz \in Int /\ bz >= z - q.minWait
      BY <1>1, <2>7, <2>8, ConnectionType, BoardByType
    <3> QED
      BY <2>5, <2>8, <3>1, <3>2, <3>3
  <2>10. d < z - am
    BY <1>4, <1>5, <2>2, <2>3, <2>9
  <2>11. CASE Leavable(c0)
    <3>1. PICK a : a = accSteps[m].enter
      OBVIOUS
    <3>2. Recorded(m) /\ tt.conn[a].dep >= z
      BY <2>7, <2>8, <2>9, <2>11, <3>1 DEF Recorded
    <3>3. PICK s, da : s = AccessDeparture(m) /\ da = tt.conn[a].dep
      OBVIOUS
    <3>4. s \in Int /\ s >= da - q.minWait - am /\ a \in Conns
      BY <2>8, <3>1, <3>2, <3>3, RecordedTimes
    <3>5. da \in Nat /\ da >= z
      BY <1>1, <3>2, <3>3, <3>4, ConnectionType
    <3>6. s > d - q.minWait
      BY <1>1, <1>5, <2>9, <2>10, <3>4, <3>5
    <3> QED
      BY <3>2, <3>3, <3>6
  <2>12. CASE ~ Leavable(c0)
    <3>1. departureTime # -1 /\ ~ (bz - am >= departureTime)
      BY <2>8, <2>9, <2>12 DEF Leavable
    <3>2. d < departureTime + q.minWait
      BY <1>1, <1>5, <2>9, <2>10, <3>1
    <3>3. ASSUME OneWait PROVE FALSE
      <4>1. MinWait(c0) = w
        BY <1>3, <1>4, <2>7, <3>3 DEF OneWait
      <4>2. bz = z - w
        BY <2>7, <2>8, <4>1 DEF BoardBy
      <4> QED
        BY <1>1, <1>4, <1>5, <2>2, <2>3, <2>9, <3>1, <4>2
    <3> QED
      BY <3>1, <3>2, <3>3
  <2> QED
    BY <2>11, <2>12
<1> QED
  BY <1>9, <1>10

\* among candidates there is a best one
LEMMA BestExists ==
    ASSUME BackEnd, AccessCandidates # {}
    PROVE  \E n \in AccessCandidates : IsBestAccess(n)
<1> DEFINE T == {arrivalTime - AccessDeparture(n) : n \in AccessCandidates}
<1>1. arrivalTime \in Nat
  BY EndFacts
<1>2. \A n \in AccessCandidates : AccessDeparture(n) \in Nat /\ AccessDeparture(n) <= arrivalTime
  BY CandidateDeparture
<1>3. T \in SUBSET Nat /\ T # {}
  BY <1>1, <1>2
<1>4. Min(T) \in T /\ \A t \in T : Min(T) <= t
  <2> HIDE DEF T
  <2> QED
    BY <1>3, LeastNumber
<1>5. PICK n \in AccessCandidates : Min(T) = arrivalTime - AccessDeparture(n)
  BY <1>4
<1>6. \A m \in AccessCandidates : arrivalTime - AccessDeparture(n) <= arrivalTime - AccessDeparture(m)
  BY <1>4, <1>5
<1>7. \A m \in AccessCandidates : AccessDeparture(n) >= AccessDeparture(m)
  BY <1>1, <1>2, <1>6
<1> QED
  BY <1>7 DEF IsBestAccess

(***************************************************************************)
(* reverseCalculation, for every network, timetable and query without a    *)
(* limit on the first wait whose waiting time fits in a short (after a     *)
(* forward calculation, one whose arrivals fit in an int and whose hour is *)
(* in the cache): when every vehicle takes time between two nodes, the     *)
(* departure it finds can be travelled and is the latest one up to the     *)
(* minimum waiting time, although it handles each connection once, looks   *)
(* only at the trips the forward calculation has boarded, starts at the    *)
(* hour and stops early; and it finds none only when every departure is    *)
(* within that waiting time of a limit of the query.                       *)
(***************************************************************************)
THEOREM DepartureLatest ==
    Spec => [](FitsShort /\ (q.forward => ArrivalsFit /\ WithinCache) => DepartureNearlyLatest)
<1>1. ASSUME DInv, Fitting, Progressing, q.maxFirstWait = -1, RevEnded,
             NEW best, best = {n \in AccessCandidates : IsBestAccess(n)}
      PROVE  /\ {AccessDeparture(n) : n \in best} \subseteq OnTimeDepartures
             /\ \A d \in OnTimeDepartures :
                  best = {} => \/ arrivalTime - d + q.minWait > q.maxTotal
                               \/ d < departureTime + q.minWait
             /\ \A n \in best, d \in OnTimeDepartures :
                  AccessDeparture(n) > d - q.minWait \/ AccessDeparture(n) >= d
  <2>1. BackEnd
    BY <1>1 DEF BackEnd, Aimed
  <2>2. /\ arrivalTime \in Nat /\ q.minWait \in Nat /\ q.maxTotal \in Nat /\ q.time \in Nat
        /\ departureTime \in Int /\ departureTime = (IF q.forward THEN q.time ELSE -1)
    BY <2>1, EndFacts
  <2>3. {AccessDeparture(n) : n \in best} \subseteq OnTimeDepartures
    BY <1>1, <2>1, CandidateDeparture
  <2>4. \A d \in OnTimeDepartures : d \in Int /\ d >= 0 /\ arrivalTime - d <= q.maxTotal
    <3> SUFFICES ASSUME NEW d \in OnTimeDepartures PROVE d \in Int
      BY DEF OnTimeDepartures
    <3>1. PICK e \in Onward : /\ tt.conn[e].from \in AccessNodes
                              /\ d = tt.conn[e].dep - MinWait(e) - q.access[tt.conn[e].from]
      BY DEF OnTimeDepartures, OriginDepartures
    <3>2. DataOK /\ FitsShort /\ e \in Conns
      BY <2>1, EndFacts, OnwardConns
    <3>3. tt.conn[e].dep \in Nat /\ MinWait(e) \in Nat /\ q.access[tt.conn[e].from] \in Nat
      BY <3>1, <3>2, ConnectionType, MinWaitNat, DataType DEF AccessNodes
    <3> QED
      BY <3>1, <3>3
  <2>5. ASSUME NEW d \in OnTimeDepartures, best = {}
        PROVE  arrivalTime - d + q.minWait > q.maxTotal \/ d < departureTime + q.minWait
    <3>1. AccessCandidates = {}
      BY <1>1, <2>1, <2>5, BestExists
    <3>2. SUFFICES ASSUME NEW n, Recorded(n),
                          AccessDeparture(n) > d - q.minWait \/ AccessDeparture(n) >= d
                   PROVE  arrivalTime - d + q.minWait > q.maxTotal \/ d < departureTime + q.minWait
      BY <2>1, DepartureKnown
    <3>3. PICK s : s = AccessDeparture(n)
      OBVIOUS
    <3>4. s \in Int /\ (s >= departureTime \/ departureTime = -1) /\ (s > d - q.minWait \/ s >= d)
      BY <2>1, <3>2, <3>3, RecordedTimes
    <3>5. ~ (s >= 0 /\ arrivalTime - s <= q.maxTotal)
      BY <3>1, <3>2, <3>3 DEF AccessCandidates, Recorded
    <3>6. d \in Int /\ d >= 0 /\ arrivalTime - d <= q.maxTotal
      BY <2>4
    <3> QED
      BY <2>2, <3>4, <3>5, <3>6
  <2>6. ASSUME NEW n \in best, NEW d \in OnTimeDepartures
        PROVE  AccessDeparture(n) > d - q.minWait \/ AccessDeparture(n) >= d
    <3>1. PICK s : s = AccessDeparture(n)
      OBVIOUS
    <3>2. Recorded(n) /\ s \in Nat /\ arrivalTime - s <= q.maxTotal
      BY <1>1, <2>1, <3>1, CandidateDeparture DEF AccessCandidates
    <3>3. s >= departureTime \/ departureTime = -1
      BY <2>1, <3>1, <3>2, RecordedTimes
    <3>4. d \in Int /\ d >= 0 /\ arrivalTime - d <= q.maxTotal
      BY <2>4
    <3>5. CASE departureTime # -1 /\ d < departureTime + q.minWait
      BY <2>2, <3>1, <3>2, <3>3, <3>4, <3>5
    <3>6. ASSUME NEW m, Recorded(m), AccessDeparture(m) > d - q.minWait \/ AccessDeparture(m) >= d
          PROVE  s > d - q.minWait \/ s >= d
      <4>1. PICK u : u = AccessDeparture(m)
        OBVIOUS
      <4>2. u \in Int /\ (u > d - q.minWait \/ u >= d)
        BY <2>1, <3>6, <4>1, RecordedTimes
      <4>3. (u >= 0 /\ arrivalTime - u <= q.maxTotal) => s >= u
        BY <1>1, <3>1, <3>6, <4>1 DEF IsBestAccess, AccessCandidates, Recorded
      <4>4. s >= u
        BY <2>2, <3>2, <4>2, <4>3
      <4> QED
        BY <2>2, <3>2, <3>4, <4>2, <4>4
    <3> QED
      BY <2>1, <3>1, <3>5, <3>6, DepartureKnown
  <2> QED
    BY <2>3, <2>5, <2>6
<1>2. DInv => (FitsShort /\ (q.forward => ArrivalsFit /\ WithinCache) => DepartureNearlyLatest)
  BY <1>1 DEF Fitting, DepartureNearlyLatest
<1> QED
  BY <1>2, InitDInv, NextDInv, PTL DEF Spec

-----------------------------------------------------------------------------
(***************************************************************************)
(* Where the journey arrives, whatever the optimiser cuts and moves        *)
(***************************************************************************)
\* the vehicle of a leg can be boarded, there or before, coming from the origin
OnBoard(s) == \E b \in Boardable : b <= s.enter /\ tt.conn[b].trip = tt.conn[s.enter].trip

AllowedExits(legs) == \A k \in 2 .. Len(legs) - 1 : tt.conn[legs[k].exit].canUnboard

LastStop(legs) == tt.conn[legs[Len(legs) - 1].exit].to

\* a journey with its access and egress walks, from the origin to the destination
Arriving(legs) ==
    /\ \A k \in 2 .. Len(legs) - 1 : OnBoard(legs[k])
    /\ AllowedExits(legs)
    /\ LastStop(legs) \in EgressNodes
    /\ legs[Len(legs)].walk = q.egress[LastStop(legs)]

SameEnd(new, legs) == AllowedExits(new) /\ LastStop(new) = LastStop(legs)

LEMMA OnBoardTighter ==
    ASSUME DataOK, NEW a, NEW b, RideLeg(a), Tighter(b, a), OnBoard(a)
    PROVE  OnBoard(b)
<1>1. PICK e \in Boardable : e <= a.enter /\ tt.conn[e].trip = tt.conn[a.enter].trip
  BY DEF OnBoard
<1>2. /\ a.enter <= b.enter /\ tt.conn[b.enter].trip = tt.conn[a.enter].trip
      /\ a.enter \in Conns /\ b.enter \in Conns
  BY DEF Tighter, RideLeg
<1>3. e \in Nat /\ a.enter \in Nat /\ b.enter \in Nat
  BY <1>2, BoardableConns, ConnectionType
<1>4. e <= b.enter
  BY <1>1, <1>2, <1>3
<1> QED
  BY <1>1, <1>2, <1>4 DEF OnBoard

LEMMA TightenedArriving ==
    ASSUME DataOK, NEW legs, Timed(legs), Arriving(legs), NEW new, Tightened(new, legs),
           SameEnd(new, legs)
    PROVE  Arriving(new)
<1>1. PICK from : TightenedBy(new, legs, from)
  BY DEF Tightened
<1>2. /\ new[Len(new)] = legs[Len(legs)]
      /\ \A k \in 2 .. Len(new) - 1 :
            from[k] \in 2 .. Len(legs) - 1 /\ Tighter(new[k], legs[from[k]])
  BY <1>1 DEF TightenedBy
<1>3. \A k \in 2 .. Len(legs) - 1 : RideLeg(legs[k]) /\ OnBoard(legs[k])
  BY DEF Timed, Arriving
<1>4. \A k \in 2 .. Len(new) - 1 : OnBoard(new[k])
  BY <1>2, <1>3, OnBoardTighter
<1>5. /\ AllowedExits(new) /\ LastStop(new) \in EgressNodes
      /\ new[Len(new)].walk = q.egress[LastStop(new)]
  BY <1>2 DEF SameEnd, Arriving
<1> QED
  BY <1>4, <1>5 DEF Arriving

\* a repair that leaves the last leg where it was left
LEMMA ExitsKept ==
    ASSUME NEW legs, Timed(legs), AllowedExits(legs), NEW new, Len(new) = Len(legs),
           \A k \in 2 .. Len(legs) - 1 :
              \/ new[k].exit = legs[k].exit
              \/ k # Len(legs) - 1 /\ tt.conn[new[k].exit].canUnboard
    PROVE  SameEnd(new, legs)
<1>1. Len(legs) \in Nat /\ Len(legs) >= 3
  BY DEF Timed
<1>2. Len(legs) - 1 \in 2 .. Len(legs) - 1
  BY <1>1
<1>3. new[Len(legs) - 1].exit = legs[Len(legs) - 1].exit
  BY <1>2
<1>4. AllowedExits(new)
  BY DEF AllowedExits
<1> QED
  BY <1>3, <1>4 DEF SameEnd, LastStop

\* the legs between positions i and l erased
LEMMA ErasedEnd ==
    ASSUME NEW legs \in Seq(Step), AllowedExits(legs), NEW i \in 2 .. Len(legs) - 1,
           NEW l \in 2 .. Len(legs), i < l
    PROVE  /\ AllowedExits(Erased(legs, i, l))
           /\ LastStop(Erased(legs, i, l)) =
                 IF l = Len(legs) THEN tt.conn[legs[i].exit].to ELSE LastStop(legs)
<1>1. PICK new, n, m : new = Erased(legs, i, l) /\ n = Len(legs) /\ m = Len(new)
  OBVIOUS
<1>2. /\ n \in Nat /\ i \in Nat /\ l \in Nat /\ 2 <= i /\ i < n /\ i < l /\ l <= n
      /\ i \in 1 .. Len(legs) /\ l \in 1 .. Len(legs)
  BY <1>1
<1>3. /\ m = i + n - l + 1
      /\ \A k \in 1 .. m : new[k] = IF k <= i THEN legs[k] ELSE legs[k + l - i - 1]
  BY <1>1, <1>2, ErasedLegs
<1>4. m \in Nat /\ 1 <= i /\ i <= m - 1 /\ m - 1 \in 1 .. m
  BY <1>2, <1>3
<1>5. ASSUME NEW k \in 2 .. m - 1 PROVE tt.conn[new[k].exit].canUnboard
  <2>1. k \in 1 .. m
    BY <1>4
  <2>2. CASE k <= i
    <3>1. k \in 2 .. n - 1 /\ new[k] = legs[k]
      BY <1>2, <1>3, <1>4, <2>1, <2>2
    <3> QED
      BY <1>1, <3>1 DEF AllowedExits
  <2>3. CASE ~ (k <= i)
    <3>1. k + l - i - 1 \in 2 .. n - 1 /\ new[k] = legs[k + l - i - 1]
      BY <1>2, <1>3, <1>4, <2>1, <2>3
    <3> QED
      BY <1>1, <3>1 DEF AllowedExits
  <2> QED
    BY <2>2, <2>3
<1>6. new[m - 1] = IF l = n THEN legs[i] ELSE legs[n - 1]
  <2>1. CASE l = n
    <3>1. m - 1 = i
      BY <1>2, <1>3, <2>1
    <3> QED
      BY <1>2, <1>3, <1>4, <2>1, <3>1
  <2>2. CASE l # n
    <3>1. ~ (m - 1 <= i) /\ (m - 1) + l - i - 1 = n - 1
      BY <1>2, <1>3, <2>2
    <3> QED
      BY <1>3, <1>4, <2>2, <3>1
  <2> QED
    BY <2>1, <2>2
<1> QED
  BY <1>1, <1>5, <1>6 DEF AllowedExits, LastStop

\* the node the last of these connections arrives at
LEMMA LastArrivalAt ==
    ASSUME DataOK, NEW s, RideLeg(s), NEW n \in InBetween(s)
    PROVE  Max(ArrivalsAt(s, n)) \in Segment(s) /\ tt.conn[Max(ArrivalsAt(s, n))].to = n
<1>1. ArrivalsAt(s, n) # {} /\ ArrivalsAt(s, n) \in SUBSET Segment(s)
  BY NodeBetween
<1>2. Max(ArrivalsAt(s, n)) \in ArrivalsAt(s, n)
  BY <1>1, SegmentEnds
<1> QED
  BY <1>1, <1>2 DEF ArrivalsAt

\* leg i is left at c, the others are what they were
LeftAt(new, legs, i, c) ==
    /\ new \in Seq(Step) /\ Len(new) = Len(legs) /\ new[i].exit = c
    /\ \A k \in 2 .. Len(legs) - 1 : k # i => new[k] = legs[k]

LEMMA ExitChanged ==
    ASSUME NEW legs \in Seq(Step), NEW i \in 2 .. Len(legs) - 1, NEW c \in Nat
    PROVE  LeftAt([legs EXCEPT ![i].exit = c], legs, i, c)
<1>0. PICK new : new = [legs EXCEPT ![i].exit = c]
  OBVIOUS
<1>1. PICK s, b : s = legs[i] /\ b = [s EXCEPT !.exit = c]
  OBVIOUS
<1>2. i \in 1 .. Len(legs) /\ s \in Step
  BY <1>1
<1>3. b \in Step /\ b.exit = c
  BY <1>1, <1>2 DEF Step
<1>4. new = [legs EXCEPT ![i] = b]
  BY <1>0, <1>1
<1>5. LeftAt(new, legs, i, c)
  BY <1>2, <1>3, <1>4 DEF LeftAt
<1> QED
  BY <1>0, <1>5

EndsAt(s, n) == LastNode(s) = n

LEMMA CutSuperfluousLineEnd ==
    ASSUME DataOK, NEW legs, Timed(legs), AllowedExits(legs), NEW i \in 2 .. Len(legs) - 1,
           NEW j \in 2 .. Len(legs) - 1, i < j, NEW n \in InBetween(legs[i]),
           EndsAt(legs[j], n)
    PROVE  LET r == CutSuperfluousLine(legs, i, j, n)
           IN  r.journey = legs \/ SameEnd(r.journey, legs)
<1> DEFINE r == CutSuperfluousLine(legs, i, j, n)
<1>1. PICK c, kept : c = Max(ArrivalsAt(legs[i], n)) /\ kept = [legs EXCEPT ![i].exit = c]
  OBVIOUS
<1>2. RideLeg(legs[i]) /\ Len(legs) \in Nat /\ legs \in Seq(Step)
  BY DEF Timed
<1>3. c \in Segment(legs[i]) /\ tt.conn[c].to = n
  BY <1>1, <1>2, LastArrivalAt
<1>4. c \in Nat
  BY <1>2, <1>3, RideLegSegment, ConnectionType
<1>5. r = IF ~ tt.conn[c].canUnboard THEN Ignored(legs, n)
          ELSE Repaired(IF j = i + 1 THEN Erased(kept, i, j + 1) ELSE Erased(kept, i, j))
  BY <1>1 DEF CutSuperfluousLine, Erased
<1> HIDE DEF r
<1>9. LeftAt(kept, legs, i, c)
  BY <1>1, <1>2, <1>4, ExitChanged
<1>6. /\ kept \in Seq(Step) /\ Len(kept) = Len(legs) /\ kept[i].exit = c
      /\ \A k \in 2 .. Len(legs) - 1 : k # i => kept[k] = legs[k]
  BY <1>9 DEF LeftAt
<1>7. CASE ~ tt.conn[c].canUnboard
  BY <1>5, <1>7 DEF Ignored, r
<1>8. CASE tt.conn[c].canUnboard
  <2>1. AllowedExits(kept)
    BY <1>6, <1>8 DEF AllowedExits
  <2>2. r.journey = IF j = i + 1 THEN Erased(kept, i, j + 1) ELSE Erased(kept, i, j)
    BY <1>5, <1>8 DEF Repaired
  <2>3. ASSUME NEW l \in 2 .. Len(legs), i < l
        PROVE  /\ AllowedExits(Erased(kept, i, l))
               /\ LastStop(Erased(kept, i, l)) =
                     IF l = Len(legs) THEN n ELSE LastStop(kept)
    <3>1. i \in 2 .. Len(kept) - 1 /\ l \in 2 .. Len(kept)
      BY <1>6
    <3> QED
      BY <1>3, <1>6, <2>1, <2>3, <3>1, ErasedEnd
  <2>4. LastStop(kept) = LastStop(legs)
    <3>1. Len(legs) - 1 \in 2 .. Len(legs) - 1 /\ Len(legs) - 1 # i
      BY <1>2
    <3> QED
      BY <1>6, <3>1 DEF LastStop
  <2>5. j + 1 = Len(legs) => n = LastStop(legs)
    <3> SUFFICES ASSUME j + 1 = Len(legs) PROVE n = LastStop(legs)
      OBVIOUS
    <3>1. Len(legs) - 1 = j
      BY <1>2
    <3> QED
      BY <3>1 DEF LastStop, LastNode, EndsAt
  <2>6. /\ j \in 2 .. Len(legs) /\ j + 1 \in 2 .. Len(legs) /\ i < j + 1 /\ j # Len(legs)
    BY <1>2
  <2>7. SameEnd(r.journey, legs)
    <3>1. CASE j = i + 1
      BY <2>2, <2>3, <2>4, <2>5, <2>6, <3>1 DEF SameEnd
    <3>2. CASE j # i + 1
      BY <2>2, <2>3, <2>4, <2>6, <3>2 DEF SameEnd
    <3> QED
      BY <3>1, <3>2
  <2> QED
    BY <2>7 DEF r
<1> QED
  BY <1>7, <1>8

LEMMA GoneTooFarEnd ==
    ASSUME DataOK, NEW legs, Timed(legs), AllowedExits(legs), NEW i \in 2 .. Len(legs) - 1,
           NEW j \in 2 .. Len(legs) - 1, i < j, NEW n \in InBetween(legs[i])
    PROVE  LET r == GoneTooFar(legs, i, j, n)
           IN  r.journey = legs \/ SameEnd(r.journey, legs)
<1> DEFINE r == GoneTooFar(legs, i, j, n)
<1>1. PICK c, new : c = Max(ArrivalsAt(legs[i], n))
                    /\ new = [legs EXCEPT ![i].exit = c, ![j].walk = 0]
  OBVIOUS
<1>2. RideLeg(legs[i]) /\ Len(legs) \in Nat /\ legs \in Seq(Step)
  BY DEF Timed
<1>3. r = IF ~ tt.conn[c].canUnboard THEN Ignored(legs, n) ELSE Repaired(new)
  BY <1>1 DEF GoneTooFar
<1> HIDE DEF r
<1>4. CASE ~ tt.conn[c].canUnboard
  BY <1>3, <1>4 DEF Ignored, r
<1>5. CASE tt.conn[c].canUnboard
  <2>1. c \in Nat
    BY <1>1, <1>2, LastArrivalAt, RideLegSegment, ConnectionType
  <2>2. PICK kept : kept = [legs EXCEPT ![i].exit = c]
    OBVIOUS
  <2>3. /\ kept \in Seq(Step) /\ Len(kept) = Len(legs) /\ kept[i].exit = c
        /\ \A k \in 2 .. Len(legs) - 1 : k # i => kept[k] = legs[k]
    BY <1>2, <2>1, <2>2, ExitChanged DEF LeftAt
  <2>4. PICK u, b : u = kept[j] /\ b = [u EXCEPT !.walk = 0]
    OBVIOUS
  <2>5. j \in 1 .. Len(kept) /\ u \in Step
    BY <1>2, <2>3, <2>4
  <2>6. b \in Step /\ b.exit = u.exit
    BY <2>4, <2>5 DEF Step
  <2>7. new = [kept EXCEPT ![j] = b]
    BY <1>1, <2>2, <2>4
  <2>8. Len(new) = Len(legs) /\ \A k \in 2 .. Len(legs) - 1 : new[k].exit = kept[k].exit
    BY <1>2, <2>3, <2>4, <2>5, <2>6, <2>7
  <2>9. \A k \in 2 .. Len(legs) - 1 :
           \/ new[k].exit = legs[k].exit
           \/ k # Len(legs) - 1 /\ tt.conn[new[k].exit].canUnboard
    <3>1. i # Len(legs) - 1
      BY <1>2
    <3> QED
      BY <1>5, <2>3, <2>8, <3>1
  <2>10. SameEnd(new, legs)
    BY <2>8, <2>9, ExitsKept
  <2> QED
    BY <1>3, <1>5, <2>10 DEF Repaired, r
<1> QED
  BY <1>4, <1>5

LEMMA BoardedTooSoonEnd ==
    ASSUME DataOK, NEW legs, Timed(legs), AllowedExits(legs), NEW i,
           NEW j \in 2 .. Len(legs) - 1, NEW n
    PROVE  LET r == BoardedTooSoon(legs, i, j, n)
           IN  r.journey = legs \/ SameEnd(r.journey, legs)
<1> DEFINE r == BoardedTooSoon(legs, i, j, n)
<1>1. PICK c, new : c = Max(DeparturesAt(legs[j], n))
                    /\ new = [legs EXCEPT ![j].enter = c, ![j].walk = 0]
  OBVIOUS
<1>2. Len(legs) \in Nat /\ legs \in Seq(Step)
  BY DEF Timed
<1>3. r = IF ~ tt.conn[c].canBoard THEN Ignored(legs, n) ELSE Repaired(new)
  BY <1>1 DEF BoardedTooSoon
<1>4. PICK s, b : s = legs[j] /\ b = [s EXCEPT !.enter = c, !.walk = 0]
  OBVIOUS
<1>5. s \in Step /\ j \in 1 .. Len(legs)
  BY <1>2, <1>4
<1>6. b.exit = s.exit
  BY <1>4, <1>5 DEF Step
<1>7. new = [legs EXCEPT ![j] = b]
  BY <1>1, <1>2, <1>4, <1>5
<1>8. Len(new) = Len(legs) /\ \A k \in 2 .. Len(legs) - 1 : new[k].exit = legs[k].exit
  BY <1>2, <1>4, <1>5, <1>6, <1>7
<1>9. SameEnd(new, legs)
  BY <1>8, ExitsKept
<1>10. r.journey = legs \/ r.journey = new
  BY <1>3 DEF Ignored, Repaired
<1> QED
  BY <1>9, <1>10

LEMMA CutSuperfluousSegmentEnd ==
    ASSUME DataOK, NEW legs, Timed(legs), AllowedExits(legs), NEW i \in 2 .. Len(legs) - 1,
           NEW j \in 2 .. Len(legs) - 1, i < j, NEW n \in InBetween(legs[i])
    PROVE  LET r == CutSuperfluousSegment(legs, i, j, n)
           IN  r.journey = legs \/ SameEnd(r.journey, legs)
<1> DEFINE r == CutSuperfluousSegment(legs, i, j, n)
           A == ArrivalsAt(legs[i], n)
           D == DeparturesAt(legs[j], n)
           exits == {c \in A : \A d \in A : d >= c => tt.conn[d].canUnboard}
           enters == {c \in D : \A d \in D : d >= c => tt.conn[d].canBoard}
<1>1. RideLeg(legs[i]) /\ Len(legs) \in Nat /\ legs \in Seq(Step)
  BY DEF Timed
<1>2. PICK x, e, new : x = Min(exits) /\ e = Min(enters)
                       /\ new = [legs EXCEPT ![i].exit = x, ![j].enter = e]
  OBVIOUS
<1>3. r.journey = IF exits = {} \/ enters = {} THEN legs ELSE new
  BY <1>2 DEF CutSuperfluousSegment
<1>4. A \in SUBSET Segment(legs[i])
  BY <1>1, NodeBetween
<1>5. exits \in SUBSET A /\ \A c \in exits : c \in A /\ (c >= c => tt.conn[c].canUnboard)
  OBVIOUS
<1> HIDE DEF r, A, D, exits, enters
<1>6. ASSUME exits # {} PROVE SameEnd(new, legs)
  <2>1. exits \in SUBSET Segment(legs[i])
    BY <1>4, <1>5
  <2>2. x \in exits
    BY <1>1, <1>2, <1>6, <2>1, SegmentEnds
  <2>3. x \in Nat
    BY <1>1, <2>1, <2>2, RideLegSegment, ConnectionType
  <2>4. tt.conn[x].canUnboard
    BY <1>5, <2>2, <2>3
  <2>5. PICK kept : kept = [legs EXCEPT ![i].exit = x]
    OBVIOUS
  <2>6. /\ kept \in Seq(Step) /\ Len(kept) = Len(legs) /\ kept[i].exit = x
        /\ \A k \in 2 .. Len(legs) - 1 : k # i => kept[k] = legs[k]
    BY <1>1, <2>3, <2>5, ExitChanged DEF LeftAt
  <2>7. PICK u, b : u = kept[j] /\ b = [u EXCEPT !.enter = e]
    OBVIOUS
  <2>8. j \in 1 .. Len(kept) /\ u \in Step
    BY <1>1, <2>6, <2>7
  <2>9. b.exit = u.exit
    BY <2>7, <2>8 DEF Step
  <2>10. new = [kept EXCEPT ![j] = b]
    BY <1>2, <2>5, <2>7
  <2>11. Len(new) = Len(legs) /\ \A k \in 2 .. Len(legs) - 1 : new[k].exit = kept[k].exit
    BY <1>1, <2>6, <2>7, <2>8, <2>9, <2>10
  <2>12. \A k \in 2 .. Len(legs) - 1 :
            \/ new[k].exit = legs[k].exit
            \/ k # Len(legs) - 1 /\ tt.conn[new[k].exit].canUnboard
    <3>1. i # Len(legs) - 1
      BY <1>1
    <3> QED
      BY <2>4, <2>6, <2>11, <3>1
  <2> QED
    BY <2>11, <2>12, ExitsKept
<1> QED
  BY <1>3, <1>6 DEF r

\* CSL cuts back to the node where the later leg ends
LEMMA FoundLast ==
    ASSUME NEW legs, NEW skip, NEW f \in Found(legs, skip), f[3] = 1
    PROVE  EndsAt(legs[f[1]], OptimizationNode(legs, skip, f))
<1>1. PICK nodes : nodes = CaseNodes(f[3], legs[f[2]], legs[f[1]]) \ skip
  OBVIOUS
<1>2. nodes # {} /\ nodes \subseteq {LastNode(legs[f[1]])}
  BY <1>1 DEF Found, CaseNodes
<1>3. OptimizationNode(legs, skip, f) = CHOOSE n \in nodes : TRUE
  BY <1>1 DEF OptimizationNode
<1> QED
  BY <1>2, <1>3 DEF EndsAt

LEMMA RepairEnd ==
    ASSUME DataOK, NEW legs, Timed(legs), AllowedExits(legs), NEW skip, NEW f \in Found(legs, skip)
    PROVE  LET r == Repair(legs, skip, f)
           IN  r.journey = legs \/ SameEnd(r.journey, legs)
<1> DEFINE r == Repair(legs, skip, f)
           n == OptimizationNode(legs, skip, f)
           i == f[2]
           j == f[1]
<1>1. /\ j \in 2 .. Len(legs) - 1 /\ i \in 2 .. Len(legs) - 1 /\ i < j /\ f[3] \in 1 .. 4
      /\ CaseAt(f[3], legs[i], legs[j], n)
  BY FoundWhere
<1>2. r = CASE f[3] = 1 -> CutSuperfluousLine(legs, i, j, n)
            [] f[3] = 2 -> BoardedTooSoon(legs, i, j, n)
            [] f[3] = 3 -> GoneTooFar(legs, i, j, n)
            [] f[3] = 4 -> CutSuperfluousSegment(legs, i, j, n)
  BY DEF Repair
<1>3. f[3] = 1 => EndsAt(legs[j], n)
  BY FoundLast
<1> HIDE DEF r, n, i, j
<1>4. CASE f[3] = 1
  <2>1. n \in InBetween(legs[i]) /\ r = CutSuperfluousLine(legs, i, j, n)
    BY <1>1, <1>2, <1>4 DEF CaseAt
  <2> QED
    BY <1>1, <1>3, <1>4, <2>1, CutSuperfluousLineEnd DEF r
<1>5. CASE f[3] = 2
  <2>1. r = BoardedTooSoon(legs, i, j, n)
    BY <1>2, <1>5
  <2> QED
    BY <1>1, <2>1, BoardedTooSoonEnd DEF r
<1>6. CASE f[3] = 3
  <2>1. n \in InBetween(legs[i]) /\ r = GoneTooFar(legs, i, j, n)
    BY <1>1, <1>2, <1>6 DEF CaseAt
  <2> QED
    BY <1>1, <2>1, GoneTooFarEnd DEF r
<1>7. CASE f[3] = 4
  <2>1. n \in InBetween(legs[i]) /\ r = CutSuperfluousSegment(legs, i, j, n)
    BY <1>1, <1>2, <1>7 DEF CaseAt
  <2> QED
    BY <1>1, <2>1, CutSuperfluousSegmentEnd DEF r
<1> QED
  BY <1>1, <1>4, <1>5, <1>6, <1>7

-----------------------------------------------------------------------------
(***************************************************************************)
(* calculateSingle: the route the forward calculation found is delivered   *)
(***************************************************************************)
Earliest == arrivalTime \in OnTimeArrivals /\ \A a \in OnTimeArrivals : arrivalTime <= a

\* the first boardings are counted
Counted == (\E n \in Nodes : accSteps[n].enter # NoConnection) => revCount

NothingFound == q.forward /\ pc = "forward" => arrivalTime = -1

\* every vehicle of the legs read back can be boarded coming from the origin, and
\* what the steps board leads to the destination
ReadBack ==
    /\ ReverseOnward
    /\ \A k \in 1 .. Len(journey) : journey[k].enter \in Boardable
    /\ journey = <<>> => cursor.enter \in Boardable

Closed == {"optimize", "summary", "done"}

Delivering ==
    Aimed /\ q.forward =>
        /\ pc = "reverse" \/ pc \in Answering => Earliest
        /\ pc = "journey" => ReadBack
        /\ pc \in Closed => Arriving(journey)
        /\ pc = "failed" /\ OneWait => arrivalTime = -1

RouteInv == DInv /\ Counted /\ NothingFound /\ Delivering

\* whatever is boardable and leads on is reached from a first boarding that does
LEMMA HomeFromOrigin ==
    ASSUME NEW b \in Boardable, b \in Onward
    PROVE  \E e \in Onward : BoardedFromOrigin(e)
<1> DEFINE Z == {f \in MayBoard : f \in Onward => \E e \in Onward : BoardedFromOrigin(e)}
<1>1. Z \subseteq MayBoard /\ \A f \in MayBoard : BoardedFromOrigin(f) => f \in Z
  OBVIOUS
<1>2. \A f, g \in MayBoard : Follows(f, g) /\ f \in Z => g \in Z
  <2> SUFFICES ASSUME NEW f \in MayBoard, NEW g \in MayBoard, Follows(f, g), f \in Z, g \in Onward
               PROVE  f \in Onward
    OBVIOUS
  <2>1. \A B \in OnwardSets : f \in B
    BY OnwardLeast, OnwardClosed
  <2> QED
    BY <2>1, OnwardLeast
<1>3. b \in Z
  <2> HIDE DEF Z
  <2>1. Z \in BoardableSets
    BY <1>1, <1>2, ClosedSet
  <2> QED
    BY <2>1, BoardableLeast
<1> QED
  BY <1>3

LEMMA EarliestFixed ==
    ASSUME UNCHANGED <<tt, q, arrivalTime>>
    PROVE  Earliest' <=> Earliest
<1>1. Boardable' = Boardable /\ \A e, x : Rides(e, x)' <=> Rides(e, x)
  BY BoardableFixed DEF Rides, Conns
<1>2. DestinationArrivals' = DestinationArrivals
  BY <1>1 DEF DestinationArrivals, Conns, EgressNodes
<1> QED
  BY <1>2 DEF Earliest, OnTimeArrivals

\* the reverse calculation does not fail when it starts from an arrival found
LEMMA BackFinds ==
    ASSUME BackEnd, q.forward, OneWait, Earliest, Counted
    PROVE  revCount /\ AccessCandidates # {}
<1>1. /\ DataOK /\ FitsShort /\ arrivalTime \in Nat /\ departureTime = q.time /\ q.time \in Nat
      /\ q.maxTotal \in Nat /\ arrivalTime - q.time <= q.maxTotal
  BY EndFacts DEF Earliest, OnTimeArrivals
<1>2. PICK x \in Conns : /\ Alightable(x) /\ tt.conn[x].to \in EgressNodes
                         /\ arrivalTime = tt.conn[x].arr + q.egress[tt.conn[x].to]
  BY DestinationArrivalOf DEF Earliest, OnTimeArrivals
<1>3. PICK b \in Boardable : Rides(b, x)
  BY <1>2 DEF Alightable
<1>4. b \in Onward
  <2>1. tt.conn[x].arr + q.egress[tt.conn[x].to] <= arrivalTime
    BY <1>1, <1>2
  <2>2. LeadsHome(x) /\ b \in MayBoard
    BY <1>2, <2>1, BoardableConns DEF LeadsHome
  <2> QED
    BY <1>3, <2>2, OnwardRide
<1>5. PICK e \in Onward : BoardedFromOrigin(e)
  BY <1>4, HomeFromOrigin
<1>6. PICK n, d, w, ac : /\ n = tt.conn[e].from /\ d = tt.conn[e].dep /\ w = MinWait(e)
                         /\ ac = q.access[n]
  OBVIOUS
<1>7. /\ n \in AccessNodes /\ d \in Nat /\ w \in Nat /\ ac \in Nat /\ q.time + ac + w <= d
  <2>1. e \in Conns /\ n \in AccessNodes /\ q.time + ac + w <= d
    BY <1>5, <1>6, OnwardConns DEF BoardedFromOrigin
  <2>2. d \in Nat /\ w \in Nat /\ ac \in Nat
    BY <1>1, <1>6, <2>1, ConnectionType, BoardByType, DataType DEF AccessNodes
  <2> QED
    BY <2>1, <2>2
<1>8. d - w - ac \in OnTimeDepartures
  <2>1. d - w - ac \in OriginDepartures
    BY <1>6, <1>7 DEF OriginDepartures
  <2>2. d - w - ac >= 0 /\ d - w - ac >= departureTime /\ arrivalTime - (d - w - ac) <= q.maxTotal
    BY <1>1, <1>7
  <2> QED
    BY <2>1, <2>2 DEF OnTimeDepartures
<1>9. PICK m : Recorded(m)
  BY <1>8, DepartureKnown
<1>10. PICK s : s = AccessDeparture(m)
  OBVIOUS
<1>11. s \in Int /\ s >= departureTime /\ m \in Nodes
  BY <1>1, <1>9, <1>10, RecordedTimes
<1>12. s >= 0 /\ arrivalTime - s <= q.maxTotal
  BY <1>1, <1>11
<1>13. m \in AccessCandidates
  BY <1>9, <1>10, <1>12 DEF AccessCandidates, Recorded
<1>14. revCount
  BY <1>9, <1>11 DEF Recorded, Counted
<1> QED
  BY <1>13, <1>14

-----------------------------------------------------------------------------
LEMMA ForwardFoundEarliest ==
    ASSUME DInv, Aimed, ForwardFound
    PROVE  Earliest'
<1>1. FwdEnded /\ pc = "forward" /\ UNCHANGED <<tt, q>>
  BY DEF ForwardFound, FwdEnded, dataVars
<1>2. DataOK /\ ForwardTypeOK /\ q.forward
  BY <1>1, DFacts DEF DInv, Marked
<1>3. Regular /\ ForwardExact
  BY <1>1, <1>2 DEF Aimed, Fitting, Regular, DInv, AInv
<1>4. PICK n \in EgressCandidates : IsBestEgress(n) /\ arrivalTime' = EgressArrival(n)
  BY DEF ForwardFound
<1>5. PICK a : a = EgressArrival(n)
  OBVIOUS
<1>6. a \in OnTimeArrivals
  BY <1>2, <1>3, <1>5, CandidateOnTime
<1>7. ASSUME NEW b \in OnTimeArrivals PROVE a <= b
  <2>1. PICK m \in EgressCandidates : EgressArrival(m) <= b
    BY <1>1, <1>2, <1>3, ArrivalCovered
  <2>2. PICK c : c = EgressArrival(m)
    OBVIOUS
  <2>3. a \in Nat /\ c \in Nat /\ a <= c /\ c <= b
    BY <1>2, <1>3, <1>4, <1>5, <2>1, <2>2, CandidateOnTime DEF IsBestEgress
  <2>4. b \in Int
    <3>1. PICK x \in Conns : /\ Alightable(x) /\ tt.conn[x].to \in EgressNodes
                             /\ b = tt.conn[x].arr + q.egress[tt.conn[x].to]
      BY DestinationArrivalOf DEF OnTimeArrivals
    <3>2. tt.conn[x].arr \in Nat /\ q.egress[tt.conn[x].to] \in Nat
      BY <1>2, <3>1, ArrivalOf
    <3> QED
      BY <3>1, <3>2
  <2> QED
    BY <2>3, <2>4
<1>8. OnTimeArrivals' = OnTimeArrivals
  <2>1. Boardable' = Boardable /\ \A e, x : Rides(e, x)' <=> Rides(e, x)
    BY <1>1, BoardableFixed DEF Rides, Conns
  <2>2. DestinationArrivals' = DestinationArrivals
    BY <1>1, <2>1 DEF DestinationArrivals, Conns, EgressNodes
  <2> QED
    BY <1>1, <2>2 DEF OnTimeArrivals
<1> QED
  BY <1>4, <1>5, <1>6, <1>7, <1>8 DEF Earliest

\* what the steps board depends on nothing else
LEMMA OnwardFrame ==
    ASSUME ReverseOnward, UNCHANGED <<tt, q, arrivalTime, exit, revSteps, accSteps>>
    PROVE  ReverseOnward'
BY OnwardFixed DEF ReverseOnward

LEMMA ReverseFoundReadBack ==
    ASSUME DInv, Aimed, q.forward, ReverseFound
    PROVE  ReadBack'
<1>1. /\ BackEnd /\ UNCHANGED <<tt, q, arrivalTime, exit, revSteps, accSteps>> /\ journey' = <<>>
  BY DEF ReverseFound, BackEnd, dataVars, revVars
<1>2. PICK n \in AccessCandidates : cursor' = accSteps[n]
  BY DEF ReverseFound
<1>3. PICK e, d, w, ac : /\ e = accSteps[n].enter /\ d = tt.conn[e].dep /\ w = MinWait(e)
                         /\ ac = q.access[n]
  OBVIOUS
<1>4. /\ DataOK /\ FitsShort /\ Backwards /\ departureTime = q.time /\ q.time \in Nat
      /\ q.maxFirstWait = -1
  BY <1>1, EndFacts
<1>5. Recorded(n) /\ n \in AccessNodes
  BY DEF AccessCandidates, Recorded
<1>6. /\ ac \in Nat /\ e \in Onward /\ tt.conn[e].from = n
      /\ AccessDeparture(n) >= departureTime \/ departureTime = -1
  BY <1>1, <1>3, <1>5, RecordedTimes
<1>7. e \in MayBoard /\ d \in Nat /\ w \in Nat
  <2>1. e \in MayBoard /\ e \in Conns
    BY <1>6, OnwardConns
  <2> QED
    BY <1>3, <1>4, <2>1, ConnectionType, BoardByType
<1>8. d - ac - w >= q.time
  BY <1>3, <1>4, <1>6 DEF AccessDeparture
<1>9. q.time + ac + w <= d
  BY <1>4, <1>6, <1>7, <1>8
<1>10. BoardedFromOrigin(e)
  BY <1>3, <1>4, <1>5, <1>6, <1>9 DEF BoardedFromOrigin
<1>11. e \in Boardable /\ Boardable' = Boardable
  BY <1>1, <1>7, <1>10, FromOrigin, BoardableFixed
<1>12. ReverseOnward'
  BY <1>1, <1>4, OnwardFrame DEF Backwards
<1>13. cursor'.enter \in Boardable'
  BY <1>2, <1>3, <1>11
<1>14. \A k \in 1 .. Len(journey') : FALSE
  <2>1. Len(journey') = 0
    BY <1>1
  <2> QED
    BY <2>1
<1> QED
  BY <1>12, <1>13, <1>14 DEF ReadBack

LEMMA FollowStepReadBack ==
    ASSUME DInv, Aimed, pc = "journey", ReadBack, FollowStep
    PROVE  ReadBack'
<1> DEFINE J == WithWalk(journey, cursor.walk)
           L == Len(journey)
<1>1. /\ RInv /\ FitsShort /\ FollowsSteps /\ hasConnections(cursor)
      /\ UNCHANGED <<tt, q, arrivalTime, exit, revSteps, accSteps>>
      /\ journey' = Append(J, cursor)
  BY DEF DInv, TInv, JInv, JourneySound, Aimed, Fitting, FollowStep, dataVars, revVars
<1>2. DataOK
  BY DFacts
<1>3. /\ journey \in Seq(Step) /\ cursor \in Step /\ LeadsOn(cursor)
      /\ cursor.walk \in Nat \cup {NoPath} /\ L \in Nat
      /\ \A k \in 1 .. L : LeadsOn(journey[k])
      /\ journey # <<>> => cursor = revSteps[tt.conn[journey[L].exit].to]
  BY <1>1 DEF FollowsSteps, Step
<1>4. /\ J \in Seq(Step) /\ Len(J) = L
      /\ \A k \in 1 .. L : J[k].enter = journey[k].enter /\ J[k].exit = journey[k].exit
      /\ journey # <<>> => J[L].walk = cursor.walk
  BY <1>3, WithWalkLegs
<1> HIDE DEF J
<1>5. /\ Len(journey') = L + 1 /\ journey'[L + 1] = cursor
      /\ \A k \in 1 .. L : journey'[k] = J[k]
  BY <1>1, <1>3, <1>4
<1>6. /\ ReverseOnward /\ \A k \in 1 .. L : journey[k].enter \in Boardable
      /\ journey = <<>> => cursor.enter \in Boardable
  BY DEF ReadBack
<1>7. cursor.enter \in Boardable
  <2> SUFFICES ASSUME journey # <<>> PROVE cursor.enter \in Boardable
    BY <1>6
  <2>1. L \in 1 .. L
    BY <1>3
  <2>2. PICK s, c : s = journey[L] /\ c = cursor
    OBVIOUS
  <2>3. /\ LeadsOn(s) /\ c = revSteps[tt.conn[s.exit].to] /\ s.enter \in Boardable
        /\ J[L].exit = s.exit /\ J[L].walk = c.walk
    BY <1>3, <1>4, <1>6, <2>1, <2>2
  <2>4. Joined(J[L], c)
    BY <1>1, <2>2, <2>3, SoundSteps, NextStepJoined
  <2>5. s.exit \in Conns /\ tt.conn[s.exit].to \in Nodes /\ c.enter # NoConnection
    BY <1>1, <1>2, <1>3, <2>2, <2>3, LeadsOnType DEF hasConnections
  <2>6. c.enter \in MayBoard
    BY <1>6, <2>3, <2>5, OnwardConns DEF ReverseOnward
  <2>7. BoardedAfter(s.exit, c.enter)
    BY <2>3, <2>4 DEF Joined, BoardedAfter
  <2>8. Follows(s.enter, c.enter)
    BY <2>3, <2>5, <2>7 DEF Follows, LeadsOn
  <2>9. c.enter \in Boardable
    BY <2>3, <2>6, <2>8, AfterRide
  <2> QED
    BY <2>2, <2>9
<1>8. Boardable' = Boardable /\ ReverseOnward'
  BY <1>1, <1>6, BoardableFixed, OnwardFrame
<1>9. \A k \in 1 .. Len(journey') : journey'[k].enter \in Boardable'
  BY <1>3, <1>4, <1>5, <1>6, <1>7, <1>8
<1>10. journey' # <<>>
  BY <1>3, <1>5
<1> QED
  BY <1>8, <1>9, <1>10 DEF ReadBack

LEMMA ArrivingFrame ==
    ASSUME UNCHANGED <<tt, q>>, Arriving(journey')
    PROVE  Arriving(journey)'
<1>1. Boardable' = Boardable
  BY BoardableFixed
<1> QED
  BY <1>1 DEF Arriving, OnBoard, AllowedExits, LastStop, EgressNodes

\* the journey read back rides from the origin to the destination
LEMMA CloseJourneyArriving ==
    ASSUME DInv, Aimed, ReadBack, CloseJourney
    PROVE  pc' = "optimize" /\ Arriving(journey)'
<1> DEFINE walk == q.access[accessNode]
           L == Len(journey)
           s == journey[L]
           m == tt.conn[s.exit].to
           first == JourneyStep(NoConnection, NoConnection, walk)
           last == JourneyStep(NoConnection, NoConnection, q.egress[m])
<1>1. /\ RInv /\ FitsShort /\ FollowsSteps /\ ~ hasConnections(cursor) /\ DepartureChosen
      /\ UNCHANGED <<tt, q>> /\ JInv /\ Timing
  BY DEF DInv, TInv, JInv, JourneySound, Aimed, Fitting, CloseJourney, dataVars, Timing, Answering
<1>2. DataOK
  BY DFacts
<1>3. /\ journey \in Seq(Step) /\ journey # <<>> /\ L \in Nat /\ L \in 1 .. L
      /\ \A k \in 1 .. L : LeadsOn(journey[k])
  BY <1>1 DEF FollowsSteps
<1>4. LeadsOn(s) /\ cursor = revSteps[m]
  BY <1>1, <1>3 DEF FollowsSteps
<1>5. m \in EgressNodes
  BY <1>1, <1>4, SoundSteps, EndsOnFoot
<1>6. pc' = "optimize" /\ journey' = <<first>> \o journey \o <<last>>
  BY <1>5 DEF CloseJourney, EndNode
<1>7. walk \in Nat /\ q.egress[m] \in Nat
  BY <1>1, <1>2, <1>5, DataType DEF DepartureChosen, AccessNodes, EgressNodes
<1>8. first \in Step /\ last \in Step /\ last.walk = q.egress[m]
  BY <1>7 DEF JourneyStep, Step, NoConnection
<1> HIDE DEF first, last, m, s, L
<1>9. /\ Len(journey') = L + 2 /\ journey'[L + 2] = last
      /\ \A k \in 2 .. L + 1 : journey'[k] = journey[k - 1]
  BY <1>3, <1>6, <1>8, BetweenWalks DEF L
<1>10. Len(journey') - 1 = L + 1 /\ journey'[L + 1] = s
  <2>1. L + 1 \in 2 .. L + 1 /\ (L + 1) - 1 = L
    BY <1>3
  <2> QED
    BY <1>3, <1>9, <2>1 DEF s
<1>11. ASSUME NEW k \in 2 .. L + 1
       PROVE  OnBoard(journey'[k]) /\ tt.conn[journey'[k].exit].canUnboard
  <2>1. PICK a : a = journey[k - 1]
    OBVIOUS
  <2>2. k - 1 \in 1 .. L
    BY <1>3
  <2>3. journey'[k] = a /\ LeadsOn(a) /\ a.enter \in Boardable
    BY <1>3, <1>9, <2>1, <2>2 DEF ReadBack, L
  <2>4. a.enter \in Nat
    BY <1>2, <2>3, BoardableConns, ConnectionType
  <2> QED
    BY <2>3, <2>4 DEF OnBoard, LeadsOn, Rides
<1>12. Arriving(journey')
  <2>1. LastStop(journey') = m
    BY <1>10 DEF LastStop, m
  <2> QED
    BY <1>5, <1>8, <1>9, <1>10, <1>11, <2>1 DEF Arriving, AllowedExits
<1> QED
  BY <1>1, <1>6, <1>12, ArrivingFrame

\* no repair of the optimiser moves the end of the journey
LEMMA OptimizeArriving ==
    ASSUME DInv, Aimed, pc = "optimize", Arriving(journey), OptimizeIteration
    PROVE  Arriving(journey)'
<1>1. /\ DataOK /\ Timed(journey) /\ UNCHANGED <<tt, q>> /\ FitsShort
      /\ AllowedExits(journey)
  BY DFacts DEF Aimed, Fitting, OptimizeIteration, dataVars, Timing, Answering, Arriving
<1>2. PICK f \in FirstFound(journey, ignore) : journey' = Repair(journey, ignore, f).journey
  BY DEF OptimizeIteration
<1>3. f \in Found(journey, ignore)
  BY DEF FirstFound
<1>4. journey' = journey \/ Tightened(journey', journey)
  BY <1>1, <1>2, <1>3, RepairEffect
<1>5. journey' = journey \/ SameEnd(journey', journey)
  BY <1>1, <1>2, <1>3, RepairEnd
<1>6. Arriving(journey')
  BY <1>1, <1>4, <1>5, TightenedArriving
<1> QED
  BY <1>1, <1>6, ArrivingFrame

-----------------------------------------------------------------------------
LEMMA CountedNext ==
    ASSUME Counted, [Next]_vars
    PROVE  Counted'
<1>1. CASE Reset
  BY <1>1 DEF Reset, ResetReverse, NoStep, JourneyStep, Counted
<1>2. CASE ReverseScan
  BY <1>2 DEF ReverseScan, ReverseSkip, ReverseBreak, ReversePass, ReverseRide, RideBack, Counted
<1>3. CASE ~ Reset /\ ~ ReverseScan
  <2>1. UNCHANGED <<accSteps, revCount>>
    <3>1. CASE Afterwards
      BY <3>1, AfterwardsFrame DEF revVars
    <3>2. CASE ~ Afterwards
      BY <1>3, <3>2 DEF Next, Afterwards, vars, revVars, ForwardFound
    <3> QED
      BY <3>1, <3>2
  <2> QED
    BY <2>1 DEF Counted
<1> QED
  BY <1>1, <1>2, <1>3

LEMMA NothingFoundNext ==
    ASSUME NothingFound, [Next]_vars
    PROVE  NothingFound'
<1>1. CASE Reset
  BY <1>1 DEF Reset, dataVars, NothingFound
<1>2. CASE ForwardScan
  BY <1>2 DEF ForwardScan, ForwardSkip, ForwardBreak, ForwardPass, ForwardRide, FwdScanning,
              dataVars, NothingFound
<1>3. CASE ForwardFound \/ ReverseScan
  BY <1>3 DEF ForwardFound, ReverseScan, ReverseSkip, ReverseBreak, ReversePass, ReverseRide,
              RevScanning, NothingFound
<1>4. CASE Afterwards
  BY <1>4, AfterwardsFrame DEF NothingFound
<1>5. CASE UNCHANGED vars
  BY <1>5 DEF vars, dataVars, NothingFound
<1> QED
  BY <1>1, <1>2, <1>3, <1>4, <1>5 DEF Next, Afterwards

LEMMA DeliveringScan ==
    ASSUME RouteInv, Reset \/ (ForwardScan /\ UNCHANGED revVars) \/ ForwardFound \/ ReverseScan
    PROVE  Delivering'
<1>1. UNCHANGED <<tt, q>>
  BY DEF Reset, ForwardScan, ForwardFound, ReverseScan, dataVars
<1>2. Aimed' <=> Aimed
  BY <1>1, AimedFixed
<1> SUFFICES ASSUME Aimed, q.forward
             PROVE  /\ (pc = "reverse" \/ pc \in Answering => Earliest)'
                    /\ (pc = "journey" => ReadBack)'
                    /\ (pc \in Closed => Arriving(journey))'
                    /\ (pc = "failed" /\ OneWait => arrivalTime = -1)'
  BY <1>1, <1>2 DEF Delivering
<1>3. pc' \notin Answering /\ pc' \notin Closed /\ pc' # "journey"
  <2>1. pc' \notin Answering
    BY SearchingPhase DEF Searching
  <2> QED
    BY <2>1 DEF Answering, Closed
<1>4. CASE Reset
  <2>1. pc' # "reverse" /\ arrivalTime' = -1
    BY <1>4 DEF Reset, StartScan, Fail
  <2> QED
    BY <1>3, <2>1
<1>5. CASE ForwardScan /\ UNCHANGED revVars
  <2>1. pc' = "forward"
    BY <1>5 DEF ForwardScan, ForwardSkip, ForwardBreak, ForwardPass, ForwardRide, FwdScanning
  <2> QED
    BY <1>3, <2>1
<1>6. CASE ForwardFound
  <2>1. pc' = "reverse"
    BY <1>6 DEF ForwardFound
  <2> QED
    BY <1>3, <1>6, <2>1, ForwardFoundEarliest DEF RouteInv
<1>7. CASE ReverseScan
  <2>1. pc = "reverse" /\ pc' = "reverse" /\ UNCHANGED <<tt, q, arrivalTime>>
    BY <1>7 DEF ReverseScan, ReverseSkip, ReverseBreak, ReversePass, ReverseRide, RevScanning, dataVars
  <2>2. Earliest
    BY <2>1 DEF RouteInv, Delivering
  <2> QED
    BY <1>3, <2>1, <2>2, EarliestFixed
<1> QED
  BY <1>4, <1>5, <1>6, <1>7

LEMMA DeliveringAfter ==
    ASSUME RouteInv, Afterwards
    PROVE  Delivering'
<1>1. /\ UNCHANGED <<tt, q, departureTime, arrivalTime, usable, fwdVars, revVars>>
      /\ UNCHANGED <<exit, revSteps, accSteps>>
  BY AfterwardsFrame DEF revVars
<1>2. (Aimed' <=> Aimed) /\ (Earliest' <=> Earliest)
  BY <1>1, AimedFixed, EarliestFixed
<1> SUFFICES ASSUME Aimed, q.forward
             PROVE  /\ (pc = "reverse" \/ pc \in Answering => Earliest)'
                    /\ (pc = "journey" => ReadBack)'
                    /\ (pc \in Closed => Arriving(journey))'
                    /\ (pc = "failed" /\ OneWait => arrivalTime = -1)'
  BY <1>1, <1>2 DEF Delivering
<1>3. /\ DInv /\ Counted /\ NothingFound
      /\ pc = "reverse" \/ pc \in Answering => Earliest
      /\ pc = "journey" => ReadBack
      /\ pc \in Closed => Arriving(journey)
  BY DEF RouteInv, Delivering
<1>4. CASE ForwardFail
  <2>1. pc = "forward" /\ pc' = "failed"
    BY <1>4 DEF ForwardFail, FwdEnded, Fail
  <2> QED
    BY <1>1, <1>3, <2>1 DEF NothingFound, Answering, Closed
<1>5. CASE ReverseFail
  <2>1. RevEnded /\ pc = "reverse" /\ pc' = "failed" /\ ~ (revCount /\ AccessCandidates # {})
    BY <1>5 DEF ReverseFail, RevEnded, Fail
  <2>2. OneWait' <=> OneWait
    BY <1>1 DEF OneWait, Conns, MinWait
  <2>3. ~ OneWait
    BY <1>3, <2>1, BackFinds DEF BackEnd
  <2> QED
    BY <2>1, <2>2, <2>3 DEF Answering, Closed
<1>6. CASE ReverseFound
  <2>1. pc = "reverse" /\ pc' = "journey"
    BY <1>6 DEF ReverseFound, RevEnded
  <2> QED
    BY <1>2, <1>3, <1>6, <2>1, ReverseFoundReadBack DEF Closed
<1>7. CASE FollowStep
  <2>1. pc = "journey" /\ pc' = "journey"
    BY <1>7 DEF FollowStep
  <2> QED
    BY <1>2, <1>3, <1>7, <2>1, FollowStepReadBack DEF Closed, Answering
<1>8. CASE CloseJourney
  <2>1. pc = "journey"
    BY <1>8 DEF CloseJourney
  <2>2. pc' = "optimize" /\ Arriving(journey)'
    BY <1>3, <1>8, <2>1, CloseJourneyArriving
  <2> QED
    BY <1>2, <1>3, <2>1, <2>2 DEF Closed, Answering
<1>9. CASE OptimizeIteration
  <2>1. pc = "optimize" /\ pc' \in {"optimize", "summary"}
    BY <1>9 DEF OptimizeIteration
  <2>2. Arriving(journey)'
    BY <1>3, <1>9, <2>1, OptimizeArriving DEF Closed
  <2> QED
    BY <1>2, <1>3, <2>1, <2>2 DEF Closed, Answering
<1>10. CASE OptimizeEnd \/ Summarize
  <2>1. pc \in {"optimize", "summary"} /\ pc' \in {"summary", "done"} /\ UNCHANGED journey
    BY <1>10 DEF OptimizeEnd, Summarize, journeyVars
  <2>2. Arriving(journey)'
    BY <1>1, <1>3, <2>1, ArrivingFrame DEF Closed
  <2> QED
    BY <1>2, <1>3, <2>1, <2>2 DEF Closed, Answering
<1> QED
  BY <1>4, <1>5, <1>6, <1>7, <1>8, <1>9, <1>10 DEF Afterwards

LEMMA NextRouteInv == RouteInv /\ [Next]_vars => RouteInv'
<1> SUFFICES ASSUME RouteInv, [Next]_vars PROVE RouteInv'
  OBVIOUS
<1>1. DInv' /\ Counted' /\ NothingFound'
  BY NextDInv, CountedNext, NothingFoundNext DEF RouteInv
<1>2. CASE UNCHANGED vars
  <2>1. /\ UNCHANGED <<tt, q, pc, arrivalTime, journey, cursor>>
        /\ UNCHANGED <<exit, revSteps, accSteps>>
    BY <1>2 DEF vars, dataVars, revVars, journeyVars
  <2>2. /\ (Aimed' <=> Aimed) /\ (Earliest' <=> Earliest) /\ (OneWait' <=> OneWait)
        /\ Arriving(journey) => Arriving(journey)'
    <3>1. OneWait' <=> OneWait
      BY <2>1 DEF OneWait, Conns, MinWait
    <3> QED
      BY <2>1, <3>1, AimedFixed, EarliestFixed, ArrivingFrame
  <2>3. ReadBack => ReadBack'
    BY <2>1, OnwardFrame, BoardableFixed DEF ReadBack
  <2>4. Delivering'
    BY <2>1, <2>2, <2>3 DEF RouteInv, Delivering
  <2> QED
    BY <1>1, <2>4 DEF RouteInv
<1>3. CASE Reset \/ (ForwardScan /\ UNCHANGED revVars) \/ ForwardFound \/ ReverseScan
  BY <1>1, <1>3, DeliveringScan DEF RouteInv
<1>4. CASE Afterwards
  BY <1>1, <1>4, DeliveringAfter DEF RouteInv
<1> QED
  BY <1>2, <1>3, <1>4 DEF Next, Afterwards

LEMMA InitRouteInv == Init => RouteInv
<1> SUFFICES ASSUME Init PROVE RouteInv
  OBVIOUS
<1>1. DInv /\ pc = "reset" /\ \A n \in Nodes : accSteps[n].enter = NoConnection
  BY InitDInv DEF Init, NoStep, JourneyStep
<1> QED
  BY <1>1 DEF RouteInv, Counted, NothingFound, Delivering, Answering, Closed

\* a journey that arrives earlier than the earliest one does not exist
LEMMA ArrivesWhenFound ==
    ASSUME RouteInv, Aimed, q.forward, pc = "done"
    PROVE  result.arrival = arrivalTime
<1>1. /\ DataOK /\ FitsShort /\ Earliest /\ Arriving(journey) /\ Timed(journey) /\ ResultTimes
      /\ arrivalTime \in Int /\ TInv
  <2>1. DInv /\ Earliest /\ Arriving(journey)
    BY DEF RouteInv, Delivering, Answering, Closed
  <2> QED
    BY <2>1, DFacts DEF Timing, Aimed, Fitting, DInv
<1>2. PICK L, s, x, m : /\ L = Len(journey) /\ s = journey[L - 1] /\ x = s.exit
                        /\ m = tt.conn[x].to
  OBVIOUS
<1>3. L \in Nat /\ L >= 3 /\ L - 1 \in 2 .. L - 1
  <2>1. L \in Nat /\ L >= 3
    BY <1>1, <1>2 DEF Timed
  <2> QED
    BY <2>1
<1>4. RideLeg(s) /\ OnBoard(s) /\ tt.conn[x].canUnboard
  BY <1>1, <1>2, <1>3 DEF Timed, Arriving, AllowedExits
<1>5. m \in EgressNodes /\ journey[L].walk = q.egress[m]
  BY <1>1, <1>2 DEF Arriving, LastStop
<1>6. PICK b \in Boardable : b <= s.enter /\ tt.conn[b].trip = tt.conn[s.enter].trip
  BY <1>4 DEF OnBoard
<1>7. Rides(b, x)
  <2>1. b \in Conns /\ tt.conn[b].canBoard
    BY BoardableConns
  <2>2. /\ s.enter \in Conns /\ x \in Conns /\ s.enter <= x
        /\ tt.conn[s.enter].trip = tt.conn[x].trip
    BY <1>2, <1>4 DEF RideLeg
  <2>3. b \in Nat /\ s.enter \in Nat /\ x \in Nat
    BY <1>1, <2>1, <2>2, ConnectionType
  <2>4. b <= x
    BY <1>6, <2>2, <2>3
  <2> QED
    BY <1>4, <1>6, <2>1, <2>2, <2>4 DEF Rides
<1>8. Alightable(x)
  BY <1>4, <1>2, <1>7 DEF Alightable, RideLeg
<1>9. PICK a : a = tt.conn[x].arr + q.egress[m]
  OBVIOUS
<1>10. result.arrival = a
  BY <1>1, <1>2, <1>5, <1>9 DEF ResultTimes
<1>11. a \in DestinationArrivals /\ a \in Nat
  <2>1. tt.conn[x].to \in EgressNodes
    BY <1>2, <1>5
  <2>2. /\ tt.conn[x].arr \in Nat /\ q.egress[tt.conn[x].to] \in Nat
        /\ tt.conn[x].arr + q.egress[tt.conn[x].to] \in DestinationArrivals
    BY <1>1, <1>8, <2>1, ArrivalOf
  <2>3. PICK u, v : u = tt.conn[x].arr /\ v = q.egress[m]
    OBVIOUS
  <2>4. u \in Nat /\ v \in Nat /\ a = u + v /\ u + v \in DestinationArrivals
    BY <1>2, <1>9, <2>2, <2>3
  <2> QED
    BY <2>4
<1>12. a <= arrivalTime
  BY <1>1, <1>10, AnswerWithinQuery DEF ResultWithinQuery
<1>13. a \in OnTimeArrivals
  <2>1. arrivalTime - q.time <= q.maxTotal
    BY <1>1 DEF Earliest, OnTimeArrivals
  <2>2. q.time \in Nat /\ q.maxTotal \in Nat
    BY <1>1 DEF DataOK, Query
  <2>3. a - q.time <= q.maxTotal
    BY <1>1, <1>11, <1>12, <2>1, <2>2
  <2> QED
    BY <1>11, <2>3 DEF OnTimeArrivals
<1>14. arrivalTime <= a
  BY <1>1, <1>13 DEF Earliest
<1> QED
  BY <1>1, <1>10, <1>11, <1>12, <1>14

(***************************************************************************)
(* calculateSingle, for every network, timetable and query without a limit *)
(* on the first wait whose waiting time fits in a short, whose arrivals    *)
(* fit in an int and whose hour is in the cache: when every vehicle takes  *)
(* time between two nodes and every line asks for the same waiting time,   *)
(* an arrival found by the forward calculation is answered with a journey, *)
(* although the reverse calculation looks only at the trips marked usable  *)
(* and stops early, and the journey arrives exactly then, although the     *)
(* reverse calculation chose other vehicles and the optimiser has cut and  *)
(* moved its legs.                                                         *)
(***************************************************************************)
THEOREM RouteArrives ==
    Spec => [](FitsShort /\ ArrivalsFit /\ WithinCache => ForwardRouteDelivered)
<1>1. RouteInv => (FitsShort /\ ArrivalsFit /\ WithinCache => ForwardRouteDelivered)
  <2> SUFFICES ASSUME RouteInv, FitsShort, ArrivalsFit, WithinCache, q.maxFirstWait = -1,
                      Progressing, OneWait, q.forward
               PROVE  /\ arrivalTime # -1 => pc # "failed"
                      /\ pc = "done" => result.arrival = arrivalTime
    BY DEF ForwardRouteDelivered, RouteDelivered
  <2>1. Aimed
    BY DEF Aimed, Fitting
  <2>2. pc = "failed" => arrivalTime = -1
    BY <2>1 DEF RouteInv, Delivering
  <2> QED
    BY <2>1, <2>2, ArrivesWhenFound
<1> QED
  BY <1>1, InitRouteInv, NextRouteInv, PTL DEF Spec
=============================================================================
