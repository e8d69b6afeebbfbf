-------------------------- MODULE CalculatorProofs --------------------------
(***************************************************************************)
(* Type correctness of Calculator for every network, timetable and query,  *)
(* the facts about connections that the other proofs rest on, and the      *)
(* soundness of the labels of the forward and of the reverse calculation   *)
(* (for the reverse one: of queries whose waiting time fits in a short).   *)
(***************************************************************************)
EXTENDS CalculatorProperties, FiniteSetTheorems, WellFoundedInduction, TLAPS

\* large numbers are only seen through these facts
LEMMA LargeNumbers == MAX_INT \in Nat /\ SHORT_MAX \in Nat
BY SMT DEF MAX_INT, SHORT_MAX

\* the data of one query
DataOK == IsTimetable(tt) /\ q \in Query

\* a connection and what its fields are
LEMMA ConnectionType ==
    ASSUME DataOK, NEW c \in Conns
    PROVE  /\ tt.conn[c].trip \in Trips
           /\ tt.conn[c].from \in Nodes /\ tt.conn[c].to \in Nodes
           /\ tt.conn[c].dep \in Nat /\ tt.conn[c].arr \in Nat
           /\ tt.conn[c].canBoard \in BOOLEAN /\ tt.conn[c].canUnboard \in BOOLEAN
           /\ tt.conn[c].minWait \in -1 .. SHORT_MAX
           /\ tt.conn[c].minWait \in {-1, 0}
           /\ c \in Nat \ {0}
<1>1. tt.conn \in Seq(Connection)
  BY DEF DataOK, IsTimetable
<1>2. tt.conn[c] \in Connection
  BY <1>1 DEF Conns
<1>3. tt.conn[c].canBoard \in BOOLEAN /\ tt.conn[c].canUnboard \in BOOLEAN
  BY <1>2, Zenon DEF Connection
<1>4. /\ tt.conn[c].trip \in Trips
      /\ tt.conn[c].from \in Nodes /\ tt.conn[c].to \in Nodes
      /\ tt.conn[c].dep \in Nat /\ tt.conn[c].arr \in Nat
      /\ tt.conn[c].minWait \in {-1, 0}
  BY <1>2 DEF Connection
<1>5. c \in Nat \ {0}
  BY <1>1 DEF Conns
<1>6. tt.conn[c].minWait \in -1 .. SHORT_MAX
  BY <1>4, LargeNumbers
<1> QED
  BY <1>3, <1>4, <1>5, <1>6

LEMMA DataType ==
    ASSUME DataOK
    PROVE  /\ Len(tt.conn) \in Nat /\ Len(tt.rev) = Len(tt.conn)
           /\ \A j \in Conns : tt.rev[j] \in Conns
           /\ \A m, n \in Nodes : tt.walk[m][n] \in Nat \cup {NoPath}
           /\ \A n \in Nodes : q.access[n] \in Nat \cup {NoPath}
                               /\ q.egress[n] \in Nat \cup {NoPath}
           /\ q.time \in Nat /\ q.forward \in BOOLEAN
           /\ q.maxTransfer \in Nat /\ q.minWait \in Nat
<1>1. /\ tt.conn \in Seq(Connection) /\ tt.rev \in Seq(1 .. Len(tt.conn))
      /\ Len(tt.rev) = Len(tt.conn)
      /\ tt.walk \in [Nodes -> [Nodes -> Nat \cup {NoPath}]]
  BY DEF DataOK, IsTimetable
<1>2. \A j \in Conns : tt.rev[j] \in Conns
  <2>1. tt.rev \in [1 .. Len(tt.rev) -> 1 .. Len(tt.conn)]
    BY <1>1
  <2> QED
    BY <1>1, <2>1, Zenon DEF Conns
<1>3. /\ q.access \in [Nodes -> Nat \cup {NoPath}] /\ q.egress \in [Nodes -> Nat \cup {NoPath}]
      /\ q.time \in Nat /\ q.forward \in BOOLEAN
      /\ q.maxTransfer \in Nat /\ q.minWait \in Nat
  BY DEF DataOK, Query
<1> QED
  BY <1>1, <1>2, <1>3

\* a value that fits a short keeps its value
LEMMA AsShortValue ==
    \A x \in Nat : AsShort(x) \in Int /\ (x <= SHORT_MAX => AsShort(x) = x)
BY SMT DEF AsShort, SHORT_MAX

LEMMA MinWaitType ==
    ASSUME DataOK, NEW c \in Conns
    PROVE  MinWait(c) \in Int
<1>1. tt.conn[c].minWait \in -1 .. SHORT_MAX /\ q.minWait \in Nat
  BY ConnectionType, DataType
<1>2. AsShort(q.minWait) \in Int
  BY <1>1, AsShortValue
<1>3. \A x \in -1 .. SHORT_MAX : x \in Int
  BY LargeNumbers
<1> QED
  BY <1>1, <1>2, <1>3 DEF MinWait

LEMMA Count ==
    ASSUME NEW n \in Nat, NEW S \in SUBSET (1 .. n)
    PROVE  Cardinality(S) \in 0 .. n
<1>1. IsFiniteSet(1 .. n) /\ Cardinality(1 .. n) = n
  BY FS_Interval
<1>2. IsFiniteSet(S) /\ Cardinality(S) <= Cardinality(1 .. n)
  BY <1>1, FS_Subset
<1>3. Cardinality(S) \in Nat
  BY <1>2, FS_CardinalityType
<1> QED
  BY <1>1, <1>2, <1>3

LEMMA BeginType ==
    ASSUME DataOK, NEW hour \in Int
    PROVE  /\ ForwardBegin(hour) \in 1 .. Len(tt.conn) + 1
           /\ ReverseBegin(hour) \in 1 .. Len(tt.rev) + 1
<1> DEFINE F == {c \in Conns : tt.conn[c].dep < hour * SecondsPerHour}
           R == {j \in Conns : tt.conn[tt.rev[j]].arr > hour * SecondsPerHour}
<1>1. F \in SUBSET (1 .. Len(tt.conn)) /\ R \in SUBSET (1 .. Len(tt.conn))
  BY DEF Conns
<1>2. Len(tt.conn) \in Nat /\ Len(tt.rev) = Len(tt.conn)
  BY DataType
<1>3. Cardinality(F) \in 0 .. Len(tt.conn) /\ Cardinality(R) \in 0 .. Len(tt.conn)
  BY <1>1, <1>2, Count
<1> HIDE DEF F, R
<1>4. 1 + Cardinality(F) \in 1 .. Len(tt.conn) + 1 /\ 1 + Cardinality(R) \in 1 .. Len(tt.rev) + 1
  BY <1>2, <1>3
<1> QED
  BY <1>2, <1>4 DEF ForwardBegin, ReverseBegin, F, R, CacheEndHour

\* what Min and Max give
LEMMA LeastNumber ==
    ASSUME NEW S \in SUBSET Nat, S # {}
    PROVE  Min(S) \in S /\ \A a \in S : Min(S) <= a
<1> DEFINE R == {p \in Nat \X Nat : p[1] < p[2]}
<1>0. IsWellFoundedOn(R, Nat)
  BY NatLessThanWellFounded, Zenon DEF OpToRel
<1>1. PICK x \in S : \A y \in S : ~ (<<y, x>> \in R)
  <2> HIDE DEF R
  <2> QED
    BY <1>0, WFMin
<1>2. \A y \in S : x <= y
  <2>1. \A y, z \in Nat : y < z => <<y, z>> \in R
    OBVIOUS
  <2>2. x \in Nat /\ \A y \in S : y \in Nat
    OBVIOUS
  <2>3. \A y \in S : ~ (y < x)
    BY <1>1, <2>1, <2>2
  <2> QED
    BY <2>2, <2>3
<1> QED
  BY <1>2 DEF Min

LEMMA GreatestNumber ==
    ASSUME NEW N \in Nat, NEW S \in SUBSET (1 .. N), S # {}
    PROVE  Max(S) \in S /\ \A a \in S : a <= Max(S)
<1> DEFINE T == {N - a : a \in S}
<1>1. T \in SUBSET Nat /\ T # {}
  OBVIOUS
<1>2. Min(T) \in T /\ \A b \in T : Min(T) <= b
  <2> HIDE DEF T
  <2> QED
    BY <1>1, LeastNumber
<1>3. PICK x \in S : Min(T) = N - x
  BY <1>2
<1>4. \A a \in S : N - x <= N - a
  BY <1>2, <1>3
<1>5. \A a \in S : a \in Nat
  OBVIOUS
<1>6. \A a \in S : x >= a
  BY <1>4, <1>5
<1>7. \E y \in S : \A a \in S : y >= a
  BY <1>6
<1>8. Max(S) \in S /\ \A a \in S : Max(S) >= a
  BY <1>7, Zenon DEF Max
<1> QED
  BY <1>5, <1>8

-----------------------------------------------------------------------------
LEMMA InitType == Init => TypeOK
<1> SUFFICES ASSUME Init PROVE TypeOK
  OBVIOUS
<1>1. DataOK
  BY TimetablesAssumption, QueriesAssumption DEF Init, DataOK
<1>2. Len(tt.conn) \in Nat /\ Len(tt.rev) = Len(tt.conn)
  BY <1>1, DataType
<1>3. NoStep \in Step
  BY DEF NoStep, JourneyStep, Step, NoConnection, NoPath
<1>0. fwdCount \in BOOLEAN /\ revCount \in BOOLEAN
  BY Zenon DEF Init
<1>4. ForwardTypeOK
  BY <1>0, <1>2, <1>3, LargeNumbers DEF Init, ForwardTypeOK, NoConnection
<1>5. ReverseTypeOK
  BY <1>0, <1>2, <1>3, LargeNumbers DEF Init, ReverseTypeOK, NoConnection
<1> QED
  BY <1>1, <1>4, <1>5 DEF Init, TypeOK, DataOK

\* reset(), whatever makes it fail: with two places or, for all nodes, with one
Restart ==
    /\ departureTime' = IF q.forward THEN q.time ELSE -1
    /\ arrivalTime' = IF q.forward THEN -1 ELSE q.time
    /\ ResetForward /\ ResetReverse
    /\ (pc' = "failed" /\ UNCHANGED <<fwdPos, revPos, usable>>) \/ StartScan
    /\ UNCHANGED dataVars

LEMMA ResetRestarts == Reset => Restart
BY DEF Reset, Restart, Fail

\* reset() gives every label and step its first value
LEMMA ResetType ==
    ASSUME TypeOK, Restart
    PROVE  TypeOK'
<1>1. DataOK
  BY DEF TypeOK, DataOK
<1>2. /\ tt' = tt /\ q' = q /\ Len(tt.conn) \in Nat
      /\ q.time \in Nat /\ q.forward \in BOOLEAN
      /\ \A n \in Nodes : q.access[n] \in Nat \cup {NoPath}
                          /\ q.egress[n] \in Nat \cup {NoPath}
  BY <1>1, DataType DEF Restart, StartScan, dataVars
<1>3. departureTime' \in Nat \cup {-1} /\ arrivalTime' \in Int
  BY <1>2 DEF Restart, StartScan
<1>4. \A w \in Nat \cup {NoPath} : JourneyStep(NoConnection, NoConnection, w) \in Step
  BY DEF JourneyStep, Step, NoConnection, NoPath
<1>5. NoStep \in Step
  BY <1>4 DEF NoStep, NoPath
<1>6. q.time \div SecondsPerHour \in Int /\ q.time \div SecondsPerHour + 1 \in Int
  BY <1>2 DEF SecondsPerHour
<1>7. /\ fwdPos' \in 1 .. Len(tt.conn) + 1
      /\ revPos' \in 1 .. Len(tt.rev) + 1
  BY <1>1, <1>6, BeginType DEF Restart, StartScan, TypeOK, ForwardTypeOK, ReverseTypeOK
<1>8. usable' \subseteq Trips
  BY DEF Restart, StartScan, TypeOK
<1>9. ForwardTypeOK'
  <2>1. ResetForward
    BY DEF Restart, StartScan
  <2>2. fwdTime' \in [Nodes -> Int]
    BY <1>2, <1>3, <2>1, LargeNumbers DEF ResetForward, NoPath, AccessNodes
  <2>3. fwdSteps' \in [Nodes -> Step]
    BY <1>2, <1>4, <2>1 DEF ResetForward
  <2>4. fwdCount' \in BOOLEAN
    BY <2>1, Zenon DEF ResetForward
  <2> QED
    BY <1>2, <1>7, <2>1, <2>2, <2>3, <2>4, LargeNumbers DEF ResetForward, ForwardTypeOK, NoConnection
<1>10. ReverseTypeOK'
  <2>1. ResetReverse
    BY DEF Restart, StartScan
  <2>2. revTime' \in [Nodes -> Int]
    BY <1>2, <1>3, <2>1 DEF ResetReverse, EgressLabels, NoPath
  <2>3. revSteps' \in [Nodes -> Step] /\ accSteps' \in [Nodes -> Step]
    BY <1>2, <1>4, <1>5, <2>1 DEF ResetReverse
  <2>4. revCount' \in BOOLEAN
    BY <2>1, Zenon DEF ResetReverse
  <2> QED
    BY <1>2, <1>7, <2>1, <2>2, <2>3, <2>4, LargeNumbers DEF ResetReverse, ReverseTypeOK, NoConnection
<1>11. pc' \in {"forward", "reverse", "failed"}
  BY DEF Restart, StartScan, Fail
<1> QED
  BY <1>1, <1>2, <1>3, <1>8, <1>9, <1>10, <1>11 DEF TypeOK, DataOK

-----------------------------------------------------------------------------
\* the boarding connection kept for the trip of c
LEMMA FwdEnterType ==
    ASSUME TypeOK, NEW c \in Conns
    PROVE  FwdEnter(c) \in 0 .. Len(tt.conn)
<1>1. DataOK
  BY DEF TypeOK, DataOK
<1>2. tt.conn[c].trip \in Trips /\ Len(tt.conn) \in Nat
  BY <1>1, ConnectionType, DataType
<1> QED
  BY <1>2 DEF FwdEnter, TypeOK, ForwardTypeOK, Conns

\* alighting from a connection keeps the types of the labels
LEMMA UnboardType ==
    ASSUME TypeOK, NEW c \in Conns, Unboard(c)
    PROVE  /\ fwdTime' \in [Nodes -> Int]
           /\ fwdSteps' \in [Nodes -> Step]
           /\ fwdEgress' \in [Nodes -> 0 .. Len(tt.conn)]
           /\ egressReached' \in Nat
<1>1. DataOK /\ ForwardTypeOK
  BY DEF TypeOK, DataOK
<1>2. /\ tt.conn[c].to \in Nodes /\ tt.conn[c].arr \in Nat
      /\ Len(tt.conn) \in Nat /\ c \in 0 .. Len(tt.conn) /\ c \in Nat
  BY <1>1, ConnectionType, DataType DEF Conns
<1>3. \A n \in Nodes : tt.walk[tt.conn[c].to][n] \in Nat \cup {NoPath}
  BY <1>1, <1>2, DataType
<1>4. fwdTime' \in [Nodes -> Int]
  <2>1. \A n \in Nodes : tt.walk[tt.conn[c].to][n] + tt.conn[c].arr \in Int
    BY <1>2, <1>3 DEF NoPath
  <2> QED
    BY <1>1, <2>1 DEF Unboard, ForwardTypeOK
<1>5. FwdEnter(c) \in Nat
  BY <1>2, FwdEnterType
<1>6. \A w \in Nat \cup {NoPath} : JourneyStep(FwdEnter(c), c, w) \in Step
  BY <1>2, <1>5 DEF JourneyStep, Step
<1>7. fwdSteps' \in [Nodes -> Step]
  BY <1>1, <1>3, <1>6 DEF Unboard, ForwardTypeOK
<1>8. fwdEgress' \in [Nodes -> 0 .. Len(tt.conn)]
  BY <1>1, <1>2 DEF Unboard, ForwardTypeOK
<1>9. egressReached' \in Nat
  BY <1>1, <1>2 DEF Unboard, ForwardTypeOK
<1> QED
  BY <1>4, <1>7, <1>8, <1>9

LEMMA ForwardScanType ==
    ASSUME TypeOK, ForwardScan, UNCHANGED <<revVars, journeyVars>>
    PROVE  TypeOK'
<1>1. DataOK /\ ForwardTypeOK /\ ReverseTypeOK
  BY DEF TypeOK, DataOK
<1>2. /\ tt' = tt /\ q' = q /\ UNCHANGED <<pc, departureTime, arrivalTime>>
      /\ fwdPos \in Conns /\ Len(tt.conn) \in Nat
  BY <1>1, DataType
     DEF ForwardScan, ForwardSkip, ForwardBreak, ForwardPass, ForwardRide, FwdScanning, dataVars
<1>3. ReverseTypeOK'
  BY <1>1, <1>2 DEF ReverseTypeOK, revVars
<1>4. CASE ForwardSkip \/ ForwardBreak \/ ForwardPass
  <2>1. /\ fwdPos' \in 1 .. Len(tt.conn) + 1
        /\ UNCHANGED <<fwdTime, fwdSteps, fwdEgress, enter, egressReached, fwdCount, usable>>
    BY <1>2, <1>4 DEF ForwardSkip, ForwardBreak, ForwardPass, Conns
  <2> QED
    BY <1>1, <1>2, <1>3, <2>1 DEF TypeOK, DataOK, ForwardTypeOK
<1>5. CASE ForwardRide
  <2> DEFINE c == fwdPos
             trip == tt.conn[c].trip
  <2>1. /\ fwdPos' \in 1 .. Len(tt.conn) + 1 /\ fwdCount' \in BOOLEAN
        /\ trip \in Trips
    BY <1>1, <1>2, <1>5, ConnectionType DEF ForwardRide, Conns
  <2>2. enter' \in [Trips -> 0 .. Len(tt.conn)]
    BY <1>1, <1>2, <1>5, <2>1, FwdEnterType DEF ForwardRide, ForwardTypeOK
  <2>3. usable' \subseteq Trips
    BY <1>5, <2>1 DEF ForwardRide, TypeOK
  <2>4. /\ fwdTime' \in [Nodes -> Int]
        /\ fwdSteps' \in [Nodes -> Step]
        /\ fwdEgress' \in [Nodes -> 0 .. Len(tt.conn)]
        /\ egressReached' \in Nat
    <3>1. CASE Unboard(c)
      BY <1>2, <3>1, UnboardType
    <3>2. CASE UNCHANGED <<fwdTime, fwdSteps, fwdEgress, egressReached>>
      BY <1>1, <3>2 DEF ForwardTypeOK
    <3> QED
      BY <1>5, <3>1, <3>2 DEF ForwardRide
  <2>5. ForwardTypeOK'
    BY <1>2, <2>1, <2>2, <2>4 DEF ForwardTypeOK
  <2> QED
    BY <1>1, <1>2, <1>3, <2>3, <2>5 DEF TypeOK, DataOK
<1> QED
  BY <1>4, <1>5 DEF ForwardScan

-----------------------------------------------------------------------------
\* the unboarding connection kept for the trip of c
LEMMA RevExitType ==
    ASSUME TypeOK, NEW c \in Conns
    PROVE  RevExit(c) \in 0 .. Len(tt.conn)
<1>1. DataOK
  BY DEF TypeOK, DataOK
<1>2. tt.conn[c].trip \in Trips /\ Len(tt.conn) \in Nat
  BY <1>1, ConnectionType, DataType
<1> QED
  BY <1>2 DEF RevExit, TypeOK, ReverseTypeOK, Conns

\* boarding a connection keeps the types of the labels
LEMMA BoardType ==
    ASSUME TypeOK, NEW c \in Conns, Board(c)
    PROVE  /\ revTime' \in [Nodes -> Int]
           /\ revSteps' \in [Nodes -> Step]
           /\ accSteps' \in [Nodes -> Step]
           /\ accessReached' \in Int
<1>1. DataOK /\ ReverseTypeOK
  BY DEF TypeOK, DataOK
<1>2. /\ tt.conn[c].from \in Nodes /\ tt.conn[c].dep \in Nat /\ MinWait(c) \in Int
      /\ Len(tt.conn) \in Nat /\ c \in Nat /\ RevExit(c) \in Nat
  BY <1>1, ConnectionType, DataType, MinWaitType, RevExitType
<1>3. \A n \in Nodes : tt.walk[n][tt.conn[c].from] \in Nat \cup {NoPath}
  BY <1>1, <1>2, DataType
<1>4. revTime' \in [Nodes -> Int]
  <2>1. \A n \in Nodes : tt.conn[c].dep - MinWait(c) - tt.walk[n][tt.conn[c].from] \in Int
    <3>1. \A d \in Nat, w \in Int, x \in Nat \cup {NoPath} : d - w - x \in Int
      BY DEF NoPath
    <3> QED
      BY <1>2, <1>3, <3>1
  <2> QED
    BY <1>1, <2>1 DEF Board, ReverseTypeOK
<1>5. \A w \in Nat \cup {NoPath} : JourneyStep(c, RevExit(c), w) \in Step
  BY <1>2 DEF JourneyStep, Step
<1>6. revSteps' \in [Nodes -> Step] /\ accSteps' \in [Nodes -> Step]
  BY <1>1, <1>3, <1>5 DEF Board, ReverseTypeOK
<1>7. accessReached' \in Int
  BY <1>1, <1>2 DEF Board, ReverseTypeOK
<1> QED
  BY <1>4, <1>6, <1>7

\* a step of the loop of either reverse calculation: the iterator moves on, past
\* a connection or to the end, or a reachable connection is handled
BackMove ==
    /\ revPos' \in {revPos + 1, Len(tt.rev) + 1}
    /\ UNCHANGED <<revTime, revSteps, accSteps, exit, exitWalk, accessReached, revCount>>

BackStep ==
    /\ RevScanning
    /\ BackMove \/ (RevReachable(tt.rev[revPos]) /\ RideBack(tt.rev[revPos]))
    /\ UNCHANGED <<dataVars, pc, departureTime, arrivalTime, usable>>

LEMMA ReverseScanSteps == ReverseScan => BackStep
BY DEF ReverseScan, BackStep, BackMove, ReverseSkip, ReverseBreak, ReversePass, ReverseRide

LEMMA BackStepType ==
    ASSUME TypeOK, BackStep, UNCHANGED fwdVars
    PROVE  TypeOK'
<1>1. DataOK /\ ForwardTypeOK /\ ReverseTypeOK
  BY DEF TypeOK, DataOK
<1>2. /\ tt' = tt /\ q' = q /\ UNCHANGED <<pc, departureTime, arrivalTime, usable>>
      /\ revPos \in Conns /\ Len(tt.conn) \in Nat /\ Len(tt.rev) = Len(tt.conn)
      /\ tt.rev[revPos] \in Conns
  BY <1>1, DataType
     DEF BackStep, RevScanning, dataVars
<1>3. ForwardTypeOK'
  BY <1>1, <1>2 DEF ForwardTypeOK, fwdVars
<1>4. CASE BackMove
  <2>1. /\ revPos' \in 1 .. Len(tt.rev) + 1
        /\ UNCHANGED <<revTime, revSteps, accSteps, exit, exitWalk, accessReached, revCount>>
    BY <1>2, <1>4 DEF BackMove, Conns
  <2> QED
    BY <1>1, <1>2, <1>3, <2>1 DEF TypeOK, DataOK, ReverseTypeOK
<1>5. CASE RideBack(tt.rev[revPos])
  <2> DEFINE c == tt.rev[revPos]
             trip == tt.conn[c].trip
  <2>1. /\ revPos' \in 1 .. Len(tt.rev) + 1 /\ revCount' \in BOOLEAN
        /\ trip \in Trips /\ tt.conn[c].to \in Nodes
    BY <1>1, <1>2, <1>5, ConnectionType DEF RideBack, Conns
  <2>2. exit' \in [Trips -> 0 .. Len(tt.conn)]
    BY <1>1, <1>2, <1>5, <2>1, RevExitType DEF RideBack, ReverseTypeOK
  <2>3. exitWalk' \in [Trips -> Int]
    <3>1. revSteps[tt.conn[c].to].walk \in Int
      <4>1. revSteps[tt.conn[c].to] \in Step
        BY <1>1, <2>1 DEF ReverseTypeOK
      <4>2. \A s \in Step : s.walk \in Int
        BY DEF Step, NoPath
      <4> QED
        BY <4>1, <4>2
    <3> QED
      BY <1>1, <1>5, <2>1, <3>1 DEF RideBack, ReverseTypeOK
  <2>4. /\ revTime' \in [Nodes -> Int]
        /\ revSteps' \in [Nodes -> Step]
        /\ accSteps' \in [Nodes -> Step]
        /\ accessReached' \in Int
    <3>1. CASE Board(c)
      BY <1>2, <3>1, BoardType
    <3>2. CASE UNCHANGED <<revTime, revSteps, accSteps, accessReached>>
      BY <1>1, <3>2 DEF ReverseTypeOK
    <3> QED
      BY <1>5, <3>1, <3>2 DEF RideBack
  <2>5. ReverseTypeOK'
    BY <1>2, <2>1, <2>2, <2>3, <2>4 DEF ReverseTypeOK
  <2> QED
    BY <1>1, <1>2, <1>3, <2>5 DEF TypeOK, DataOK
<1> QED
  BY <1>4, <1>5 DEF BackStep

LEMMA ReverseScanType ==
    ASSUME TypeOK, ReverseScan, UNCHANGED <<fwdVars, journeyVars>>
    PROVE  TypeOK'
BY ReverseScanSteps, BackStepType

-----------------------------------------------------------------------------
\* the arrival the reverse calculation starts from
LEMMA ForwardFoundType ==
    ASSUME TypeOK, ForwardFound
    PROVE  TypeOK'
<1>1. DataOK /\ ForwardTypeOK /\ ReverseTypeOK
  BY DEF TypeOK, DataOK
<1>2. /\ tt' = tt /\ q' = q /\ pc' = "reverse"
      /\ UNCHANGED <<departureTime, usable, fwdVars, revSteps, accSteps, exit, exitWalk,
                     accessReached, revCount>>
  BY DEF ForwardFound, dataVars
<1>3. PICK n \in EgressCandidates :
        /\ arrivalTime' = EgressArrival(n)
        /\ revTime' = EgressLabels(EgressArrival(n))
        /\ revPos' = ReverseBegin(EgressArrival(n) \div SecondsPerHour + 1)
  BY DEF ForwardFound
<1>4. n \in Nodes /\ fwdEgress[n] \in Conns
  BY <1>1, DataType DEF EgressCandidates, EgressNodes, ForwardTypeOK, NoConnection, Conns
<1>5. EgressArrival(n) \in Int
  <2>1. tt.conn[fwdEgress[n]].arr \in Nat
    BY <1>1, <1>4, ConnectionType
  <2>2. q.egress[n] \in Nat \cup {NoPath}
    BY <1>1, <1>4, DataType
  <2> QED
    BY <2>1, <2>2 DEF EgressArrival, NoPath
<1>6. EgressArrival(n) \div SecondsPerHour + 1 \in Int
  BY <1>5 DEF SecondsPerHour
<1>7. revPos' \in 1 .. Len(tt.rev) + 1
  BY <1>1, <1>3, <1>6, BeginType
<1>8. revTime' \in [Nodes -> Int]
  <2>1. \A m \in Nodes : q.egress[m] \in Nat \cup {NoPath}
    BY <1>1, DataType
  <2> QED
    BY <1>3, <1>5, <2>1 DEF EgressLabels, NoPath
<1>9. ForwardTypeOK' /\ ReverseTypeOK'
  BY <1>1, <1>2, <1>7, <1>8 DEF ForwardTypeOK, ReverseTypeOK, fwdVars
<1> QED
  BY <1>1, <1>2, <1>3, <1>5, <1>9 DEF TypeOK, DataOK

\* what follows the scans leaves their results alone
Afterwards ==
    \/ ForwardFail \/ ReverseFail \/ ReverseFound \/ FollowStep \/ CloseJourney
    \/ OptimizeIteration \/ OptimizeEnd \/ Summarize

LEMMA AfterwardsFrame ==
    ASSUME Afterwards
    PROVE  /\ UNCHANGED <<tt, q, departureTime, arrivalTime, usable, fwdVars, revVars>>
           /\ pc' \in {"journey", "optimize", "summary", "done", "failed"}
BY DEF Afterwards, ForwardFail, ReverseFail, ReverseFound, FollowStep, CloseJourney,
       OptimizeIteration, OptimizeEnd, Summarize, Fail, dataVars

LEMMA NextType == TypeOK /\ [Next]_vars => TypeOK'
<1> SUFFICES ASSUME TypeOK, [Next]_vars PROVE TypeOK'
  OBVIOUS
<1>1. CASE Afterwards
  BY <1>1, AfterwardsFrame DEF TypeOK, ForwardTypeOK, ReverseTypeOK, fwdVars, revVars
<1>2. CASE UNCHANGED vars
  BY <1>2 DEF vars, dataVars, TypeOK, ForwardTypeOK, ReverseTypeOK, fwdVars, revVars
<1> QED
  BY <1>1, <1>2, ResetRestarts, ResetType, ForwardScanType, ForwardFoundType, ReverseScanType
     DEF Next, Afterwards

(***************************************************************************)
(* For every network, timetable and query: the iterators stay inside the   *)
(* connection lists (the hour caches give valid places to begin), and the  *)
(* labels, steps and overlays hold connections and times.                  *)
(***************************************************************************)
THEOREM TypeCorrect == Spec => []TypeOK
BY InitType, NextType, PTL DEF Spec

-----------------------------------------------------------------------------
(***************************************************************************)
(* The forward calculation                                                 *)
(***************************************************************************)

\* a trip is boarded at a connection the scan has passed
EnterPassed == pc = "forward" => \A t \in Trips : enter[t] < fwdPos

\* ForwardLabelsSound, by trip and by node
EnterSound(t) ==
    enter[t] # NoConnection =>
        /\ enter[t] \in Conns
        /\ tt.conn[enter[t]].trip = t
        /\ tt.conn[enter[t]].canBoard
        /\ fwdTime[tt.conn[enter[t]].from] + MinWait(enter[t]) <= tt.conn[enter[t]].dep

StepSound(n) ==
    IF fwdSteps[n].enter = NoConnection
    THEN \/ fwdTime[n] = MAX_INT
         \/ n \in AccessNodes /\ fwdTime[n] = departureTime + q.access[n]
    ELSE LET e == fwdSteps[n].enter
             x == fwdSteps[n].exit
         IN  /\ Rides(e, x)
             /\ e = enter[tt.conn[x].trip]
             /\ Transferable(tt.conn[x].to, n)
             /\ fwdSteps[n].walk = tt.walk[tt.conn[x].to][n]
             /\ fwdSteps[n].walk <= q.maxTransfer
             /\ fwdTime[n] = tt.conn[x].arr + fwdSteps[n].walk

LEMMA SoundParts ==
    ForwardLabelsSound <=> /\ \A t \in Trips : EnterSound(t)
                           /\ \A n \in Nodes : StepSound(n)
BY DEF ForwardLabelsSound, EnterSound, StepSound

FInv == TypeOK /\ EnterPassed /\ ForwardLabelsSound

LEMMA InitFInv == Init => FInv
<1> SUFFICES ASSUME Init PROVE FInv
  OBVIOUS
<1>1. TypeOK
  BY InitType
<1>2. EnterPassed
  BY DEF Init, EnterPassed
<1>3. \A t \in Trips : EnterSound(t)
  BY DEF Init, EnterSound
<1>4. \A n \in Nodes : StepSound(n)
  BY DEF Init, StepSound, NoStep, JourneyStep
<1> QED
  BY <1>1, <1>2, <1>3, <1>4, SoundParts DEF FInv

LEMMA ResetFInv ==
    ASSUME TypeOK, Restart
    PROVE  EnterPassed' /\ ForwardLabelsSound'
<1>1. ResetForward /\ UNCHANGED <<tt, q>> /\ TypeOK'
  BY ResetType DEF Restart, dataVars
<1>2. EnterPassed'
  <2>1. fwdPos' \in Nat \ {0}
    BY <1>1, DataType DEF TypeOK, ForwardTypeOK, DataOK
  <2> QED
    BY <1>1, <2>1 DEF ResetForward, EnterPassed, NoConnection
<1>3. (\A t \in Trips : EnterSound(t))'
  BY <1>1 DEF ResetForward, EnterSound
<1>4. (\A n \in Nodes : StepSound(n))'
  BY <1>1 DEF ResetForward, StepSound, JourneyStep, AccessNodes
<1> QED
  BY <1>2, <1>3, <1>4, SoundParts, PTL

-----------------------------------------------------------------------------
\* arithmetic of the labels
LEMMA LabelArithmetic ==
    /\ \A a, b, w, d \in Int : a <= d - w /\ b <= a => b + w <= d
    /\ \A a, b, w, d \in Int : a + w <= d /\ b <= a => b + w <= d
    /\ \A a, b \in Int : a + b = b + a
OBVIOUS

\* alighting never raises a label
LEMMA UnboardLowers ==
    ASSUME TypeOK, NEW c \in Conns, Unboard(c), NEW n \in Nodes
    PROVE  fwdTime'[n] <= fwdTime[n]
<1>1. DataOK /\ fwdTime \in [Nodes -> Int]
  BY DEF TypeOK, DataOK, ForwardTypeOK
<1>2. tt.conn[c].to \in Nodes /\ tt.conn[c].arr \in Nat
  BY <1>1, ConnectionType
<1>3. tt.walk[tt.conn[c].to][n] \in Int
  BY <1>1, <1>2, DataType DEF NoPath
<1>4. \A a, b, f \in Int : a + b < f => a + b <= f
  OBVIOUS
<1>5. CASE FwdImproves(c, n)
  <2>1. fwdTime'[n] = tt.walk[tt.conn[c].to][n] + tt.conn[c].arr
    BY <1>5 DEF Unboard
  <2>2. tt.walk[tt.conn[c].to][n] + tt.conn[c].arr < fwdTime[n]
    BY <1>5 DEF FwdImproves
  <2>3. fwdTime[n] \in Int
    BY <1>1
  <2> QED
    BY <1>2, <1>3, <2>1, <2>2, <2>3
<1>6. CASE ~ FwdImproves(c, n)
  BY <1>1, <1>6 DEF Unboard
<1> QED
  BY <1>5, <1>6

LEMMA RideFInv ==
    ASSUME FInv, ForwardRide, UNCHANGED <<dataVars, pc, departureTime>>
    PROVE  EnterPassed' /\ ForwardLabelsSound'
<1> DEFINE c == fwdPos
           trip == tt.conn[c].trip
<1>1. /\ TypeOK /\ DataOK /\ ForwardTypeOK /\ c \in Conns /\ pc = "forward"
      /\ tt' = tt /\ q' = q
  BY DEF FInv, TypeOK, DataOK, ForwardRide, FwdScanning, dataVars
<1>2. /\ trip \in Trips /\ tt.conn[c].from \in Nodes /\ tt.conn[c].to \in Nodes
      /\ tt.conn[c].dep \in Nat /\ tt.conn[c].arr \in Nat
      /\ tt.conn[c].canBoard \in BOOLEAN /\ tt.conn[c].canUnboard \in BOOLEAN
      /\ c \in Nat \ {0} /\ MinWait(c) \in Int
  BY <1>1, ConnectionType, MinWaitType
<1>3. /\ FwdReachable(c)
      /\ enter' = [enter EXCEPT ![trip] = FwdEnter(c)]
      /\ fwdPos' = fwdPos + 1
      /\ \/ tt.conn[c].canUnboard /\ FwdEnter(c) # NoConnection /\ Unboard(c)
         \/ UNCHANGED <<fwdTime, fwdSteps>>
  BY DEF ForwardRide
<1>4. \A t \in Trips : enter[t] \in Nat /\ enter[t] < c /\ EnterSound(t)
  BY <1>1, SoundParts DEF FInv, EnterPassed, ForwardTypeOK
<1>5. /\ enter' \in [Trips -> Nat] /\ enter'[trip] = FwdEnter(c)
      /\ \A t \in Trips : t # trip => enter'[t] = enter[t]
      /\ \A t \in Trips : enter[t] # NoConnection => enter'[t] = enter[t]
      /\ FwdEnter(c) \in {NoConnection, c, enter[trip]}
  <2>1. FwdEnter(c) \in {c, enter[trip]}
    BY DEF FwdEnter
  <2>2. enter[trip] # NoConnection => FwdEnter(c) = enter[trip]
    BY DEF FwdEnter
  <2> QED
    BY <1>1, <1>2, <1>3, <1>4, <2>1, <2>2 DEF ForwardTypeOK
<1>6. EnterPassed'
  BY <1>2, <1>3, <1>4, <1>5 DEF EnterPassed
<1>7. \A n \in Nodes : fwdTime[n] \in Int /\ fwdTime'[n] \in Int /\ fwdTime'[n] <= fwdTime[n]
  <2>1. fwdTime \in [Nodes -> Int]
    BY <1>1 DEF ForwardTypeOK
  <2>2. CASE Unboard(c)
    BY <1>1, <2>1, <2>2, UnboardType, UnboardLowers
  <2>3. CASE UNCHANGED <<fwdTime, fwdSteps>>
    BY <2>1, <2>3
  <2> QED
    BY <1>3, <2>2, <2>3
<1>8. \A t \in Trips : EnterSound(t)'
  <2> SUFFICES ASSUME NEW t \in Trips, enter'[t] # NoConnection
               PROVE  /\ enter'[t] \in Conns
                      /\ tt.conn[enter'[t]].trip = t
                      /\ tt.conn[enter'[t]].canBoard
                      /\ fwdTime'[tt.conn[enter'[t]].from] + MinWait(enter'[t])
                            <= tt.conn[enter'[t]].dep
    BY <1>1 DEF EnterSound, Conns, MinWait
  <2>1. CASE enter[t] # NoConnection
    <3>1. /\ enter'[t] = enter[t] /\ enter[t] \in Conns
          /\ tt.conn[enter[t]].trip = t
          /\ tt.conn[enter[t]].canBoard
          /\ fwdTime[tt.conn[enter[t]].from] + MinWait(enter[t]) <= tt.conn[enter[t]].dep
      BY <1>4, <1>5, <2>1 DEF EnterSound
    <3>2. /\ tt.conn[enter[t]].from \in Nodes /\ tt.conn[enter[t]].dep \in Nat
          /\ MinWait(enter[t]) \in Int
      BY <1>1, <3>1, ConnectionType, MinWaitType
    <3>3. fwdTime'[tt.conn[enter[t]].from] + MinWait(enter[t]) <= tt.conn[enter[t]].dep
      BY <1>7, <3>1, <3>2, LabelArithmetic
    <3> QED
      BY <3>1, <3>3
  <2>2. CASE enter[t] = NoConnection
    <3>1. t = trip /\ enter'[t] = c /\ tt.conn[c].canBoard
      BY <1>5, <2>2 DEF FwdEnter
    <3>2. fwdTime[tt.conn[c].from] <= tt.conn[c].dep - MinWait(c)
      BY <1>3, <2>2, <3>1 DEF FwdReachable
    <3>3. fwdTime'[tt.conn[c].from] + MinWait(c) <= tt.conn[c].dep
      BY <1>2, <1>7, <3>2, LabelArithmetic
    <3> QED
      BY <1>1, <3>1, <3>3
  <2> QED
    BY <2>1, <2>2
<1>9. \A n \in Nodes : StepSound(n)'
  <2> SUFFICES ASSUME NEW n \in Nodes PROVE StepSound(n)'
    OBVIOUS
  <2>1. CASE fwdSteps'[n] = fwdSteps[n] /\ fwdTime'[n] = fwdTime[n]
    <3>1. StepSound(n)
      BY SoundParts DEF FInv
    <3>2. CASE fwdSteps[n].enter = NoConnection
      BY <1>1, <2>1, <3>1, <3>2 DEF StepSound, AccessNodes
    <3>3. CASE fwdSteps[n].enter # NoConnection
      <4> DEFINE e == fwdSteps[n].enter
                 x == fwdSteps[n].exit
      <4>1. /\ Rides(e, x) /\ e = enter[tt.conn[x].trip]
            /\ Transferable(tt.conn[x].to, n)
            /\ fwdSteps[n].walk = tt.walk[tt.conn[x].to][n]
            /\ fwdSteps[n].walk <= q.maxTransfer
            /\ fwdTime[n] = tt.conn[x].arr + fwdSteps[n].walk
        BY <3>1, <3>3 DEF StepSound
      <4>2. tt.conn[x].trip \in Trips
        BY <1>1, <4>1, ConnectionType DEF Rides
      <4>3. e = enter'[tt.conn[x].trip]
        BY <1>5, <3>3, <4>1, <4>2
      <4>4. Rides(e, x)' /\ Transferable(tt.conn[x].to, n)'
        BY <1>1, <2>1, <4>1 DEF Rides, Conns, Transferable
      <4> QED
        BY <1>1, <2>1, <3>3, <4>1, <4>3, <4>4 DEF StepSound
    <3> QED
      BY <3>2, <3>3
  <2>2. CASE /\ tt.conn[c].canUnboard /\ FwdEnter(c) # NoConnection /\ Unboard(c)
             /\ FwdImproves(c, n)
    <3>1. /\ fwdSteps'[n] = JourneyStep(FwdEnter(c), c, tt.walk[tt.conn[c].to][n])
          /\ fwdTime'[n] = tt.walk[tt.conn[c].to][n] + tt.conn[c].arr
      BY <2>2 DEF Unboard
    <3>2. /\ fwdSteps'[n].enter = FwdEnter(c) /\ fwdSteps'[n].exit = c
          /\ fwdSteps'[n].walk = tt.walk[tt.conn[c].to][n]
      BY <3>1 DEF JourneyStep
    <3>3. Transferable(tt.conn[c].to, n) /\ tt.walk[tt.conn[c].to][n] <= q.maxTransfer
      BY <2>2 DEF FwdImproves
    <3>4. fwdTime'[n] = tt.conn[c].arr + tt.walk[tt.conn[c].to][n]
      <4>1. tt.walk[tt.conn[c].to][n] \in Int
        BY <1>1, <1>2, DataType DEF NoPath
      <4> QED
        BY <1>2, <3>1, <4>1, LabelArithmetic
    <3>5. Rides(FwdEnter(c), c)
      <4>1. CASE FwdEnter(c) = c
        <5>1. tt.conn[c].canBoard
          <6>1. enter[trip] # c
            BY <1>2, <1>4
          <6> QED
            BY <4>1, <6>1 DEF FwdEnter
        <5> QED
          BY <1>1, <1>2, <2>2, <4>1, <5>1 DEF Rides
      <4>2. CASE FwdEnter(c) = enter[trip]
        BY <1>1, <1>2, <1>4, <2>2, <4>2 DEF Rides, EnterSound
      <4> QED
        BY <1>5, <2>2, <4>1, <4>2
    <3> QED
      BY <1>1, <1>5, <2>2, <3>2, <3>3, <3>4, <3>5 DEF StepSound, Rides, Conns, Transferable
  <2>3. /\ Unboard(c) /\ ~ FwdImproves(c, n) => fwdSteps'[n] = fwdSteps[n] /\ fwdTime'[n] = fwdTime[n]
        /\ UNCHANGED <<fwdTime, fwdSteps>> => fwdSteps'[n] = fwdSteps[n] /\ fwdTime'[n] = fwdTime[n]
    BY DEF Unboard
  <2> QED
    BY <1>3, <2>1, <2>2, <2>3
<1> QED
  BY <1>6, <1>8, <1>9 DEF ForwardLabelsSound, EnterSound, StepSound

-----------------------------------------------------------------------------
\* the other steps of the forward calculation only move the iterator forward
LEMMA ForwardScanFInv ==
    ASSUME FInv, ForwardScan
    PROVE  EnterPassed' /\ ForwardLabelsSound'
<1>1. UNCHANGED <<dataVars, pc, departureTime>>
  BY DEF ForwardScan
<1>2. CASE ForwardRide
  BY <1>1, <1>2, RideFInv
<1>3. CASE ForwardSkip \/ ForwardBreak \/ ForwardPass
  <2>1. UNCHANGED <<fwdTime, fwdSteps, enter>>
    BY <1>3 DEF ForwardSkip, ForwardBreak, ForwardPass
  <2>2. EnterPassed'
    <3>1. /\ fwdPos \in Conns /\ fwdPos \in Nat /\ Len(tt.conn) \in Nat
          /\ \A t \in Trips : enter[t] \in Nat /\ enter[t] < fwdPos
      <4>1. DataOK /\ fwdPos \in Conns /\ pc = "forward"
        BY <1>3 DEF FInv, TypeOK, DataOK, ForwardSkip, ForwardBreak, ForwardPass, FwdScanning
      <4> QED
        BY <4>1, ConnectionType, DataType DEF FInv, EnterPassed, TypeOK, ForwardTypeOK
    <3>2. fwdPos' \in Nat /\ fwdPos' >= fwdPos
      BY <1>3, <3>1 DEF ForwardSkip, ForwardBreak, ForwardPass, Conns
    <3> QED
      BY <2>1, <3>1, <3>2 DEF EnterPassed
  <2>3. ForwardLabelsSound'
    BY <1>1, <2>1 DEF FInv, ForwardLabelsSound, dataVars, MinWait, Conns, AccessNodes,
                      Rides, Transferable
  <2> QED
    BY <2>2, <2>3
<1> QED
  BY <1>2, <1>3 DEF ForwardScan

\* nothing after the forward calculation writes what it left
LEMMA FrameFInv ==
    ASSUME FInv, UNCHANGED <<tt, q, departureTime, fwdVars>>, pc' = pc \/ pc' # "forward"
    PROVE  EnterPassed' /\ ForwardLabelsSound'
<1>1. UNCHANGED <<tt, q, departureTime, fwdPos, fwdTime, fwdSteps, enter>>
  BY DEF fwdVars
<1>2. EnterPassed'
  BY <1>1 DEF FInv, EnterPassed
<1>3. ForwardLabelsSound'
  <2>1. \A t : EnterSound(t)' <=> EnterSound(t)
    BY <1>1 DEF EnterSound, MinWait, Conns
  <2>2. \A n : StepSound(n)' <=> StepSound(n)
    BY <1>1 DEF StepSound, AccessNodes, Rides, Conns, Transferable
  <2>3. (ForwardLabelsSound <=> (\A t \in Trips : EnterSound(t)) /\ \A n \in Nodes : StepSound(n))'
    BY SoundParts, PTL
  <2> QED
    BY <2>1, <2>2, <2>3, SoundParts DEF FInv
<1> QED
  BY <1>2, <1>3

LEMMA NextFInv == FInv /\ [Next]_vars => FInv'
<1> SUFFICES ASSUME FInv, [Next]_vars PROVE FInv'
  OBVIOUS
<1>1. TypeOK'
  BY NextType DEF FInv
<1>2. EnterPassed' /\ ForwardLabelsSound'
  <2>1. CASE Reset
    BY <2>1, ResetRestarts, ResetFInv DEF FInv
  <2>2. CASE ForwardScan
    BY <2>2, ForwardScanFInv
  <2>3. CASE Afterwards
    BY <2>3, AfterwardsFrame, FrameFInv
  <2>4. CASE ReverseScan /\ UNCHANGED <<fwdVars, journeyVars>>
    BY <2>4, FrameFInv DEF ReverseScan, dataVars
  <2>5. CASE ForwardFound
    BY <2>5, FrameFInv DEF ForwardFound, dataVars
  <2>6. CASE UNCHANGED vars
    BY <2>6, FrameFInv DEF vars, dataVars
  <2> QED
    BY <2>1, <2>2, <2>3, <2>4, <2>5, <2>6 DEF Next, Afterwards
<1> QED
  BY <1>1, <1>2 DEF FInv

(***************************************************************************)
(* forwardCalculation, for every network, timetable and query: the         *)
(* boarding connection of a trip is one the rider catches, and every label *)
(* is what its step says, whatever was overwritten since.                  *)
(***************************************************************************)
THEOREM ForwardSound == Spec => []ForwardLabelsSound
<1>1. FInv => ForwardLabelsSound
  BY DEF FInv
<1> QED
  BY <1>1, InitFInv, NextFInv, PTL DEF Spec

-----------------------------------------------------------------------------
(***************************************************************************)
(* The reverse calculation                                                 *)
(***************************************************************************)

\* the waiting time of the query keeps its value in getMinWaitingTimeOrDefault
FitsShort == q.minWait <= SHORT_MAX

\* the overlays and steps are as reset() leaves them
NothingLabelled ==
    pc \in {"reset", "forward"} =>
        /\ \A t \in Trips : exit[t] = NoConnection
        /\ \A n \in Nodes : revSteps[n].enter = NoConnection /\ accSteps[n].enter = NoConnection

\* a trip is left at a connection the scan has passed
ExitPassed ==
    pc = "reverse" =>
        \A t \in Trips : exit[t] # NoConnection =>
            \E j \in Conns : j < revPos /\ tt.rev[j] = exit[t]

\* ReverseLabelsSound, by trip, by node and by access node
ExitSound(t) ==
    exit[t] # NoConnection =>
        /\ exit[t] \in Conns
        /\ tt.conn[exit[t]].trip = t
        /\ tt.conn[exit[t]].canUnboard
        /\ tt.conn[exit[t]].arr <= revTime[tt.conn[exit[t]].to]

NodeSound(n) ==
    IF revSteps[n].enter = NoConnection
    THEN \/ revTime[n] < 0
         \/ n \in EgressNodes /\ revTime[n] = arrivalTime - q.egress[n]
    ELSE LET m == tt.conn[revSteps[n].enter].from
         IN  /\ LeadsOn(revSteps[n])
             /\ Transferable(n, m)
             /\ revSteps[n].walk = tt.walk[n][m]
             /\ revSteps[n].walk <= q.maxTransfer
             /\ revTime[n] = tt.conn[revSteps[n].enter].dep
                             - MinWait(revSteps[n].enter) - revSteps[n].walk

AccessSound(n) ==
    accSteps[n].enter # NoConnection =>
        /\ LeadsOn(accSteps[n])
        /\ tt.conn[accSteps[n].enter].from = n

LEMMA ReverseParts ==
    ReverseLabelsSound <=> /\ \A t \in Trips : ExitSound(t)
                           /\ \A n \in Nodes : NodeSound(n)
                           /\ \A n \in Nodes : AccessSound(n)
BY DEF ReverseLabelsSound, ExitSound, NodeSound, AccessSound

RInv == TypeOK /\ NothingLabelled /\ ExitPassed /\ (FitsShort => ReverseLabelsSound)

LEMMA InitRInv == Init => RInv
<1> SUFFICES ASSUME Init PROVE RInv
  OBVIOUS
<1>1. TypeOK
  BY InitType
<1>2. NothingLabelled /\ ExitPassed
  BY DEF Init, NothingLabelled, ExitPassed, NoStep, JourneyStep
<1>3. \A t \in Trips : ExitSound(t)
  BY DEF Init, ExitSound
<1>4. \A n \in Nodes : NodeSound(n) /\ AccessSound(n)
  BY DEF Init, NodeSound, AccessSound, NoStep, JourneyStep
<1> QED
  BY <1>1, <1>2, <1>3, <1>4, ReverseParts DEF RInv

LEMMA ResetRInv ==
    ASSUME TypeOK, Restart
    PROVE  NothingLabelled' /\ ExitPassed' /\ ReverseLabelsSound'
<1>1. ResetReverse /\ UNCHANGED <<tt, q>>
  BY DEF Restart, dataVars
<1>2. /\ \A t \in Trips : exit'[t] = NoConnection
      /\ \A n \in Nodes : revSteps'[n].enter = NoConnection /\ accSteps'[n].enter = NoConnection
  BY <1>1 DEF ResetReverse, JourneyStep, NoStep
<1>3. NothingLabelled' /\ ExitPassed'
  BY <1>2 DEF NothingLabelled, ExitPassed
<1>4. \A n \in Nodes : revTime'[n] = IF n \in EgressNodes THEN arrivalTime' - q.egress[n] ELSE -1
  BY <1>1 DEF ResetReverse, EgressLabels
<1>5. ReverseLabelsSound'
  BY <1>1, <1>2, <1>4 DEF ReverseLabelsSound, EgressNodes
<1> QED
  BY <1>3, <1>5

LEMMA FoundRInv ==
    ASSUME RInv, ForwardFound
    PROVE  NothingLabelled' /\ ExitPassed' /\ ReverseLabelsSound'
<1>1. /\ UNCHANGED <<tt, q, exit, revSteps, accSteps>> /\ pc = "forward" /\ pc' = "reverse"
  BY DEF ForwardFound, FwdEnded, dataVars
<1>2. /\ \A t \in Trips : exit'[t] = NoConnection
      /\ \A n \in Nodes : revSteps'[n].enter = NoConnection /\ accSteps'[n].enter = NoConnection
  BY <1>1 DEF RInv, NothingLabelled
<1>3. NothingLabelled' /\ ExitPassed'
  BY <1>1, <1>2 DEF NothingLabelled, ExitPassed
<1>4. \A n \in Nodes : revTime'[n] = IF n \in EgressNodes THEN arrivalTime' - q.egress[n] ELSE -1
  BY DEF ForwardFound, EgressLabels
<1>5. ReverseLabelsSound'
  BY <1>1, <1>2, <1>4 DEF ReverseLabelsSound, EgressNodes
<1> QED
  BY <1>3, <1>5

-----------------------------------------------------------------------------
LEMMA MinWaitNat ==
    ASSUME DataOK, FitsShort, NEW c \in Conns
    PROVE  MinWait(c) \in Nat
<1>1. tt.conn[c].minWait \in -1 .. SHORT_MAX /\ q.minWait \in Nat
  BY ConnectionType, DataType
<1>2. AsShort(q.minWait) \in Nat
  BY <1>1, AsShortValue DEF FitsShort
<1>3. \A x \in -1 .. SHORT_MAX : x >= 0 => x \in Nat
  BY LargeNumbers
<1> QED
  BY <1>1, <1>2, <1>3 DEF MinWait

\* the connections of a trip are met in the opposite order of travel
LEMMA RevOrder ==
    ASSUME DataOK, NEW j \in Conns, NEW k \in Conns, j < k,
           tt.conn[tt.rev[j]].trip = tt.conn[tt.rev[k]].trip
    PROVE  tt.rev[j] > tt.rev[k]
<1>1. /\ \A a, b \in 1 .. Len(tt.rev) :
           a < b => (tt.conn[tt.rev[a]].trip = tt.conn[tt.rev[b]].trip => tt.rev[a] > tt.rev[b])
      /\ Len(tt.rev) = Len(tt.conn)
  BY DEF DataOK, IsTimetable
<1> QED
  BY <1>1 DEF Conns

\* every connection has a place in the reverse list
LEMMA RevOnto ==
    ASSUME DataOK, NEW c \in Conns
    PROVE  \E j \in Conns : tt.rev[j] = c
<1>1. /\ tt.rev \in [Conns -> Conns]
      /\ \A j, k \in Conns : j < k => tt.rev[j] # tt.rev[k]
  <2>1. /\ tt.rev \in Seq(1 .. Len(tt.conn)) /\ Len(tt.rev) = Len(tt.conn)
        /\ \A j, k \in 1 .. Len(tt.rev) : j < k => tt.rev[j] # tt.rev[k]
    BY DEF DataOK, IsTimetable
  <2>2. tt.rev \in [1 .. Len(tt.rev) -> 1 .. Len(tt.conn)]
    BY <2>1
  <2> QED
    BY <2>1, <2>2, Zenon DEF Conns
<1>2. Len(tt.conn) \in Nat
  BY DataType
<1>3. \A j, k \in Conns : tt.rev[j] = tt.rev[k] => j = k
  <2> SUFFICES ASSUME NEW j \in Conns, NEW k \in Conns, tt.rev[j] = tt.rev[k] PROVE j = k
    OBVIOUS
  <2>1. ~ (j < k) /\ ~ (k < j)
    BY <1>1
  <2>2. j \in Nat /\ k \in Nat
    BY ConnectionType
  <2> QED
    BY <2>1, <2>2
<1>4. tt.rev \in Injection(Conns, Conns)
  BY <1>1, <1>3 DEF Injection, IsInjective
<1>5. IsFiniteSet(Conns)
  BY <1>2, FS_Interval DEF Conns
<1>6. tt.rev \in Surjection(Conns, Conns)
  BY <1>4, <1>5, FS_Injection
<1> QED
  BY <1>6 DEF Surjection

\* a later connection of a trip arrives later
LEMMA LaterArrival ==
    ASSUME DataOK, NEW c \in Conns, NEW d \in Conns, c <= d,
           tt.conn[c].trip = tt.conn[d].trip
    PROVE  /\ tt.conn[c].arr <= tt.conn[d].arr /\ tt.conn[c].dep <= tt.conn[d].dep
           /\ tt.conn[c].dep <= tt.conn[d].arr
<1>1. PICK j \in Conns : tt.rev[j] = c
  BY RevOnto
<1>2. PICK k \in Conns : tt.rev[k] = d
  BY RevOnto
<1>3. /\ j \in Nat /\ k \in Nat /\ c \in Nat /\ d \in Nat
      /\ tt.conn[c].arr \in Nat /\ tt.conn[d].arr \in Nat
      /\ tt.conn[c].dep \in Nat /\ tt.conn[d].dep \in Nat
  BY ConnectionType
<1>4. tt.conn[c].arr <= tt.conn[d].arr
  <2>1. CASE k < j
    <3>1. /\ \A a, b \in 1 .. Len(tt.rev) : a < b => tt.conn[tt.rev[a]].arr >= tt.conn[tt.rev[b]].arr
          /\ Len(tt.rev) = Len(tt.conn)
      BY DEF DataOK, IsTimetable
    <3>2. tt.conn[tt.rev[k]].arr >= tt.conn[tt.rev[j]].arr
      BY <2>1, <3>1 DEF Conns
    <3> QED
      BY <1>1, <1>2, <1>3, <3>2
  <2>2. CASE j < k
    <3>1. tt.rev[j] > tt.rev[k]
      BY <1>1, <1>2, <2>2, RevOrder
    <3> QED
      BY <1>1, <1>2, <1>3, <3>1
  <2>3. CASE j = k
    BY <1>1, <1>2, <1>3, <2>3
  <2> QED
    BY <1>3, <2>1, <2>2, <2>3
<1>5. tt.conn[c].dep <= tt.conn[d].dep
  <2>1. c < d => tt.conn[c].dep <= tt.conn[d].dep
    BY DEF DataOK, IsTimetable, Conns
  <2> QED
    BY <1>3, <2>1
<1>6. tt.conn[d].dep <= tt.conn[d].arr
  BY DEF DataOK, IsTimetable, Conns
<1> QED
  BY <1>3, <1>4, <1>5, <1>6

\* boarding never lowers a label
LEMMA BoardRaises ==
    ASSUME TypeOK, NEW c \in Conns, Board(c), NEW n \in Nodes
    PROVE  revTime'[n] >= revTime[n]
<1>1. revTime \in [Nodes -> Int]
  BY DEF TypeOK, ReverseTypeOK
<1>2. CASE RevImproves(c, n)
  BY <1>2 DEF Board, RevImproves
<1>3. CASE ~ RevImproves(c, n)
  BY <1>1, <1>3 DEF Board
<1> QED
  BY <1>2, <1>3

\* the unboarding connection of the trip of c after c: it is not before c and
\* arrives in time
LEMMA RevExitSound ==
    ASSUME RInv, FitsShort, RevScanning, RevReachable(tt.rev[revPos]),
           RevExit(tt.rev[revPos]) # NoConnection
    PROVE  LET c == tt.rev[revPos]
               x == RevExit(c)
           IN  /\ x \in Conns /\ x >= c
               /\ tt.conn[x].trip = tt.conn[c].trip
               /\ tt.conn[x].canUnboard
               /\ tt.conn[x].arr <= revTime[tt.conn[x].to]
<1> DEFINE c == tt.rev[revPos]
           x == RevExit(c)
           trip == tt.conn[c].trip
<1>1. DataOK /\ ReverseTypeOK /\ revPos \in Conns /\ c \in Conns /\ pc = "reverse"
  BY DataType DEF RInv, TypeOK, DataOK, RevScanning
<1>2. /\ trip \in Trips /\ tt.conn[c].to \in Nodes /\ tt.conn[c].arr \in Nat /\ c \in Nat
      /\ revTime[tt.conn[c].to] \in Int
  BY <1>1, ConnectionType DEF ReverseTypeOK
<1>3. ReverseLabelsSound
  BY DEF RInv
<1>4. CASE TakesExit(c)
  <2>1. x = c /\ tt.conn[c].canUnboard
    BY <1>4 DEF RevExit, TakesExit
  <2>2. tt.conn[c].arr <= revTime[tt.conn[c].to]
    <3>1. CASE exit[trip] = NoConnection
      BY <1>2, <3>1 DEF RevReachable
    <3>2. CASE BetterExit(c)
      <4> DEFINE e == revSteps[tt.conn[c].to].enter
      <4>1. e # NoConnection /\ tt.conn[c].arr + MinWait(e) <= revTime[tt.conn[c].to]
        BY <3>2 DEF BetterExit
      <4>2. e \in Conns
        BY <1>2, <1>3, <4>1, ReverseParts DEF NodeSound, LeadsOn, Rides
      <4>3. MinWait(e) \in Nat
        BY <1>1, <4>2, MinWaitNat
      <4>4. \A a, w \in Nat, r \in Int : a + w <= r => a <= r
        OBVIOUS
      <4> QED
        BY <1>2, <4>1, <4>3, <4>4
    <3> QED
      BY <1>4, <3>1, <3>2 DEF TakesExit
  <2> QED
    BY <1>1, <1>2, <2>1, <2>2
<1>5. CASE ~ TakesExit(c)
  <2>1. x = exit[trip] /\ exit[trip] # NoConnection
    BY <1>5 DEF RevExit
  <2>2. /\ x \in Conns /\ tt.conn[x].trip = trip /\ tt.conn[x].canUnboard
        /\ tt.conn[x].arr <= revTime[tt.conn[x].to]
    BY <1>2, <1>3, <2>1, ReverseParts DEF ExitSound
  <2>3. PICK j \in Conns : j < revPos /\ tt.rev[j] = x
    BY <1>1, <1>2, <2>1 DEF RInv, ExitPassed
  <2>4. x > c
    BY <1>1, <2>2, <2>3, RevOrder
  <2>5. x \in Nat
    BY <1>1, <2>2, ConnectionType
  <2> QED
    BY <1>2, <2>2, <2>4, <2>5
<1> QED
  BY <1>4, <1>5

\* a reachable connection: one lemma for both kinds of reverse calculation
LEMMA RideSound ==
    ASSUME RInv, FitsShort, RevScanning, RevReachable(tt.rev[revPos]),
           RideBack(tt.rev[revPos]), UNCHANGED <<dataVars, arrivalTime>>
    PROVE  ReverseLabelsSound'
<1> DEFINE c == tt.rev[revPos]
           x == RevExit(c)
           trip == tt.conn[c].trip
           m == tt.conn[c].from
           boardBy == tt.conn[c].dep - MinWait(c)
<1>1. /\ TypeOK /\ DataOK /\ ReverseTypeOK /\ revPos \in Conns /\ c \in Conns
      /\ tt' = tt /\ q' = q /\ arrivalTime' = arrivalTime
  BY DataType DEF RInv, TypeOK, DataOK, RevScanning, dataVars
<1>2. trip \in Trips /\ m \in Nodes /\ c \in Nat \ {0}
  BY <1>1, ConnectionType
<1>3. /\ exit' = [exit EXCEPT ![trip] = x]
      /\ \/ tt.conn[c].canBoard /\ x # NoConnection /\ Board(c)
         \/ UNCHANGED <<revTime, revSteps, accSteps>>
  BY DEF RideBack
<1>4. ReverseLabelsSound
  BY DEF RInv
<1>5. x # NoConnection =>
        /\ x \in Conns /\ x >= c
        /\ tt.conn[x].trip = trip
        /\ tt.conn[x].canUnboard
        /\ tt.conn[x].arr <= revTime[tt.conn[x].to]
  BY RevExitSound
<1>6. \A n \in Nodes : revTime[n] \in Int /\ revTime'[n] \in Int /\ revTime'[n] >= revTime[n]
  <2>1. revTime \in [Nodes -> Int]
    BY <1>1 DEF ReverseTypeOK
  <2>2. CASE Board(c)
    BY <1>1, <2>1, <2>2, BoardType, BoardRaises
  <2>3. CASE UNCHANGED <<revTime, revSteps, accSteps>>
    BY <2>1, <2>3
  <2> QED
    BY <1>3, <2>2, <2>3
<1>7. \A y \in Conns : tt.conn[y].arr <= revTime[tt.conn[y].to] =>
                           tt.conn[y].arr <= revTime'[tt.conn[y].to]
  <2>1. \A a, b, d \in Int : a <= b /\ d >= b => a <= d
    OBVIOUS
  <2>2. \A y \in Conns : tt.conn[y].to \in Nodes /\ tt.conn[y].arr \in Int
    BY <1>1, ConnectionType
  <2> QED
    BY <1>6, <2>1, <2>2
<1>8. \A t \in Trips : ExitSound(t)'
  <2> SUFFICES ASSUME NEW t \in Trips, exit'[t] # NoConnection
               PROVE  /\ exit'[t] \in Conns
                      /\ tt.conn[exit'[t]].trip = t
                      /\ tt.conn[exit'[t]].canUnboard
                      /\ tt.conn[exit'[t]].arr <= revTime'[tt.conn[exit'[t]].to]
    BY <1>1 DEF ExitSound, Conns
  <2>1. exit'[t] = IF t = trip THEN x ELSE exit[t]
    BY <1>1, <1>3 DEF ReverseTypeOK
  <2>2. CASE t = trip
    BY <1>5, <1>7, <2>1, <2>2
  <2>3. CASE t # trip
    BY <1>4, <1>7, <2>1, <2>3, ReverseParts DEF ExitSound
  <2> QED
    BY <2>2, <2>3
<1>9. tt.conn[c].canBoard /\ x # NoConnection =>
        Rides(c, x) /\ tt.conn[x].arr <= revTime'[tt.conn[x].to]
  BY <1>1, <1>2, <1>5, <1>7 DEF Rides
<1>10. \A n \in Nodes : NodeSound(n)'
  <2> SUFFICES ASSUME NEW n \in Nodes PROVE NodeSound(n)'
    OBVIOUS
  <2>1. CASE revSteps'[n] = revSteps[n] /\ revTime'[n] = revTime[n]
    <3>1. NodeSound(n)
      BY <1>4, ReverseParts
    <3>2. CASE revSteps[n].enter = NoConnection
      BY <1>1, <2>1, <3>1, <3>2 DEF NodeSound, EgressNodes
    <3>3. CASE revSteps[n].enter # NoConnection
      <4>1. LeadsOn(revSteps[n])'
        <5>1. LeadsOn(revSteps[n])
          BY <3>1, <3>3 DEF NodeSound
        <5> DEFINE s == revSteps[n]
        <5>2. Rides(s.enter, s.exit) /\ tt.conn[s.exit].arr <= revTime'[tt.conn[s.exit].to]
          BY <1>7, <5>1 DEF LeadsOn, Rides
        <5> QED
          BY <1>1, <2>1, <5>2 DEF LeadsOn, Rides, Conns
      <4> QED
        BY <1>1, <2>1, <3>1, <3>3, <4>1 DEF NodeSound, Transferable, MinWait
    <3> QED
      BY <3>2, <3>3
  <2>2. CASE /\ tt.conn[c].canBoard /\ x # NoConnection /\ Board(c)
             /\ RevImproves(c, n)
    <3>1. /\ revSteps'[n] = JourneyStep(c, x, tt.walk[n][m])
          /\ revTime'[n] = boardBy - tt.walk[n][m]
      BY <2>2 DEF Board
    <3>2. revSteps'[n].enter = c /\ revSteps'[n].exit = x /\ revSteps'[n].walk = tt.walk[n][m]
      <4>1. PICK s : s = revSteps'[n]
        OBVIOUS
      <4>2. s = [enter |-> c, exit |-> x, walk |-> tt.walk[n][m]]
        BY <3>1, <4>1 DEF JourneyStep
      <4>3. s.enter = c /\ s.exit = x /\ s.walk = tt.walk[n][m]
        BY <4>2
      <4> QED
        BY <4>1, <4>3
    <3>3. Transferable(n, m) /\ tt.walk[n][m] <= q.maxTransfer
      BY <2>2 DEF RevImproves
    <3>4. LeadsOn(revSteps[n])'
      BY <1>1, <1>9, <2>2, <3>2 DEF LeadsOn, Rides, Conns
    <3>5. c # NoConnection
      BY <1>2 DEF NoConnection
    <3> QED
      BY <1>1, <3>1, <3>2, <3>3, <3>4, <3>5 DEF NodeSound, Transferable, MinWait
  <2>3. /\ Board(c) /\ ~ RevImproves(c, n) => revSteps'[n] = revSteps[n] /\ revTime'[n] = revTime[n]
        /\ UNCHANGED <<revTime, revSteps>> => revSteps'[n] = revSteps[n] /\ revTime'[n] = revTime[n]
    BY DEF Board
  <2> QED
    BY <1>3, <2>1, <2>2, <2>3
<1>11. \A n \in Nodes : AccessSound(n)'
  <2> SUFFICES ASSUME NEW n \in Nodes, accSteps'[n].enter # NoConnection
               PROVE  /\ Rides(accSteps'[n].enter, accSteps'[n].exit)
                      /\ tt.conn[accSteps'[n].exit].arr <= revTime'[tt.conn[accSteps'[n].exit].to]
                      /\ tt.conn[accSteps'[n].enter].from = n
    BY <1>1 DEF AccessSound, LeadsOn, Rides, Conns
  <2>1. CASE accSteps'[n] = accSteps[n]
    BY <1>4, <1>7, <2>1, ReverseParts DEF AccessSound, LeadsOn, Rides
  <2>2. CASE /\ tt.conn[c].canBoard /\ x # NoConnection /\ n = m
             /\ accSteps'[n] = JourneyStep(c, x, 0)
    BY <1>1, <1>2, <1>5, <1>7, <2>2 DEF Rides, JourneyStep
  <2>3. \/ accSteps'[n] = accSteps[n]
        \/ tt.conn[c].canBoard /\ x # NoConnection /\ n = m /\ accSteps'[n] = JourneyStep(c, x, 0)
    <3>1. accSteps \in [Nodes -> Step]
      BY <1>1 DEF ReverseTypeOK
    <3> QED
      BY <1>3, <3>1 DEF Board
  <2> QED
    BY <2>1, <2>2, <2>3
<1> QED
  BY <1>8, <1>10, <1>11 DEF ReverseLabelsSound, ExitSound, NodeSound, AccessSound

LEMMA RidePassed ==
    ASSUME RInv, RevScanning, RideBack(tt.rev[revPos]), UNCHANGED <<dataVars, pc>>
    PROVE  ExitPassed'
<1> DEFINE c == tt.rev[revPos]
           trip == tt.conn[c].trip
<1>1. /\ TypeOK /\ DataOK /\ ReverseTypeOK /\ revPos \in Conns /\ c \in Conns
      /\ tt' = tt /\ pc = "reverse" /\ revPos' = revPos + 1
      /\ exit' = [exit EXCEPT ![trip] = RevExit(c)]
  BY DataType DEF RInv, TypeOK, DataOK, RevScanning, RideBack, dataVars
<1>2. revPos \in Nat /\ \A j \in Conns : j \in Nat
  BY <1>1, ConnectionType
<1> SUFFICES ASSUME NEW t \in Trips, exit'[t] # NoConnection
             PROVE  \E j \in Conns : j < revPos + 1 /\ tt.rev[j] = exit'[t]
  BY <1>1 DEF ExitPassed, Conns
<1>3. CASE exit'[t] = c
  BY <1>1, <1>2, <1>3
<1>4. CASE exit'[t] = exit[t]
  <2>1. PICK j \in Conns : j < revPos /\ tt.rev[j] = exit[t]
    BY <1>1, <1>4 DEF RInv, ExitPassed
  <2>2. j < revPos + 1
    BY <1>2, <2>1
  <2> QED
    BY <1>4, <2>1, <2>2
<1> QED
  BY <1>1, <1>3, <1>4 DEF RevExit, ReverseTypeOK

-----------------------------------------------------------------------------
\* a move of the iterator leaves the labels alone
LEMMA BackStepRInv ==
    ASSUME RInv, BackStep
    PROVE  NothingLabelled' /\ ExitPassed' /\ (FitsShort => ReverseLabelsSound')
<1>1. UNCHANGED <<dataVars, pc, arrivalTime>> /\ RevScanning /\ pc = "reverse"
  BY DEF BackStep, RevScanning
<1>2. NothingLabelled'
  BY <1>1 DEF NothingLabelled
<1>3. CASE RevReachable(tt.rev[revPos]) /\ RideBack(tt.rev[revPos])
  BY <1>1, <1>2, <1>3, RideSound, RidePassed
<1>4. CASE BackMove
  <2>1. UNCHANGED <<revTime, revSteps, accSteps, exit>>
    BY <1>4 DEF BackMove
  <2>2. revPos \in Nat /\ revPos' \in Nat /\ revPos' >= revPos /\ \A j \in Conns : j \in Nat
    <3>1. DataOK /\ revPos \in Conns
      BY <1>1 DEF RInv, TypeOK, DataOK, RevScanning
    <3>2. revPos \in Nat /\ Len(tt.rev) = Len(tt.conn) /\ Len(tt.conn) \in Nat
      BY <3>1, ConnectionType, DataType
    <3> QED
      BY <1>4, <3>1, <3>2 DEF BackMove, Conns
  <2>3. ExitPassed'
    <3>1. \A j \in Conns : j < revPos => j < revPos'
      BY <2>2
    <3> QED
      BY <1>1, <2>1, <3>1 DEF RInv, ExitPassed, dataVars, Conns
  <2>4. FitsShort => ReverseLabelsSound'
    BY <1>1, <2>1 DEF RInv, ReverseLabelsSound, dataVars, LeadsOn, Rides, Conns, MinWait,
                      EgressNodes, Transferable
  <2> QED
    BY <1>2, <2>3, <2>4
<1> QED
  BY <1>3, <1>4 DEF BackStep

\* steps that leave the reverse labels alone
LEMMA FrameRInv ==
    ASSUME RInv, UNCHANGED <<tt, q, revVars>>,
           arrivalTime' = arrivalTime,
           pc' = pc \/ pc' \notin {"reset", "forward", "reverse"}
    PROVE  NothingLabelled' /\ ExitPassed' /\ (FitsShort => ReverseLabelsSound')
<1>1. UNCHANGED <<tt, q, arrivalTime, revPos, revTime, revSteps, accSteps, exit>>
  BY DEF revVars
<1>2. NothingLabelled' /\ ExitPassed'
  BY <1>1 DEF RInv, NothingLabelled, ExitPassed, Conns
<1>3. FitsShort => ReverseLabelsSound'
  <2>1. \A t : ExitSound(t)' <=> ExitSound(t)
    BY <1>1 DEF ExitSound, Conns
  <2>2. \A n : (NodeSound(n)' <=> NodeSound(n)) /\ (AccessSound(n)' <=> AccessSound(n))
    BY <1>1 DEF NodeSound, AccessSound, LeadsOn, Rides, Conns, MinWait, EgressNodes, Transferable
  <2>3. (ReverseLabelsSound <=> /\ \A t \in Trips : ExitSound(t)
                                /\ \A n \in Nodes : NodeSound(n)
                                /\ \A n \in Nodes : AccessSound(n))'
    BY ReverseParts, PTL
  <2> QED
    BY <2>1, <2>2, <2>3, ReverseParts DEF RInv
<1> QED
  BY <1>2, <1>3

LEMMA NextRInv == RInv /\ [Next]_vars => RInv'
<1> SUFFICES ASSUME RInv, [Next]_vars PROVE RInv'
  OBVIOUS
<1>1. TypeOK'
  BY NextType DEF RInv
<1>2. FitsShort' <=> FitsShort
  BY DEF FitsShort, Next, vars, dataVars, Reset, ForwardScan, ForwardFail, ForwardFound,
         ReverseScan, ReverseFail, ReverseFound, FollowStep, CloseJourney,
         OptimizeIteration, OptimizeEnd, Summarize
<1>3. NothingLabelled' /\ ExitPassed' /\ (FitsShort => ReverseLabelsSound')
  <2>1. CASE Reset
    BY <2>1, ResetRestarts, ResetRInv DEF RInv
  <2>2. CASE ForwardScan /\ UNCHANGED <<revVars, journeyVars>>
    BY <2>2, FrameRInv DEF ForwardScan, dataVars
  <2>3. CASE Afterwards
    BY <2>3, AfterwardsFrame, FrameRInv
  <2>4. CASE ReverseScan
    BY <2>4, ReverseScanSteps, BackStepRInv
  <2>5. CASE ForwardFound
    BY <2>5, FoundRInv
  <2>6. CASE UNCHANGED vars
    BY <2>6, FrameRInv DEF vars, dataVars
  <2> QED
    BY <2>1, <2>2, <2>3, <2>4, <2>5, <2>6 DEF Next, Afterwards
<1> QED
  BY <1>1, <1>2, <1>3 DEF RInv

(***************************************************************************)
(* reverseCalculation, for every network, timetable and query whose        *)
(* waiting time fits in a short: every unboarding connection arrives       *)
(* before its node must be left, and every label is what its step says,    *)
(* whatever was overwritten since.  (A longer waiting time may be negative *)
(* as a short, and the test for a better unboarding connection is wrong    *)
(* then.)                                                                  *)
(***************************************************************************)
THEOREM ReverseSound == Spec => [](FitsShort => ReverseLabelsSound)
<1>1. RInv => (FitsShort => ReverseLabelsSound)
  BY DEF RInv
<1> QED
  BY <1>1, InitRInv, NextRInv, PTL DEF Spec
=============================================================================
