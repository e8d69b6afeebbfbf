--------------------------- MODULE ArrivalProofs ---------------------------
(***************************************************************************)
(* The forward calculation finds the earliest arrival, at the destination  *)
(* of a query and at every node one can go to from a place, and the        *)
(* reverse calculation the latest departure, up to the waiting time, from  *)
(* every node one can come to a place from: for every network, timetable   *)
(* and query whose times do not overflow.  The labels are held against     *)
(* the journeys that can be travelled (Boardable from the origin, Onward   *)
(* to the destination), which know neither labels nor the order of the     *)
(* scan.                                                                   *)
(***************************************************************************)
EXTENDS Accessibility, CalculatorProofs

(***************************************************************************)
(* The least set Boardable                                                 *)
(***************************************************************************)
\* the connections that may be boarded at all
MayBoard == {e \in Enabled : tt.conn[e].canBoard}

\* alighting from x is possible after some boarding
Alightable(x) == x \in Conns /\ \E b \in Boardable : Rides(b, x)

\* what a member of BoardableSets is
LEMMA ClosedSet ==
    ASSUME NEW B
    PROVE  B \in BoardableSets <=>
              /\ B \subseteq MayBoard
              /\ \A e \in MayBoard : BoardedFromOrigin(e) => e \in B
              /\ \A e, f \in MayBoard : Follows(e, f) /\ e \in B => f \in B
<1> DEFINE origin == {e \in MayBoard : BoardedFromOrigin(e)}
           follows == {p \in MayBoard \X MayBoard : Follows(p[1], p[2])}
<1>1. B \in BoardableSets <=> /\ B \subseteq MayBoard /\ origin \subseteq B
                              /\ \A p \in follows : p[1] \in B => p[2] \in B
  BY DEF BoardableSets, MayBoard
<1>2. (\A p \in follows : p[1] \in B => p[2] \in B)
         <=> \A e, f \in MayBoard : Follows(e, f) /\ e \in B => f \in B
  <2>1. ASSUME \A p \in follows : p[1] \in B => p[2] \in B,
               NEW e \in MayBoard, NEW f \in MayBoard, Follows(e, f), e \in B
        PROVE  f \in B
    <3> DEFINE p == <<e, f>>
    <3>1. p \in follows /\ p[1] = e /\ p[2] = f
      BY <2>1
    <3> QED
      BY <2>1, <3>1
  <2>2. ASSUME \A e, f \in MayBoard : Follows(e, f) /\ e \in B => f \in B,
               NEW p \in follows, p[1] \in B
        PROVE  p[2] \in B
    BY <2>2
  <2> QED
    BY <2>1, <2>2
<1>3. origin \subseteq B <=> \A e \in MayBoard : BoardedFromOrigin(e) => e \in B
  OBVIOUS
<1> HIDE DEF origin, follows
<1> QED
  BY <1>1, <1>2, <1>3

LEMMA ClosedSets ==
    \A B : B \in BoardableSets <=>
              /\ B \subseteq MayBoard
              /\ \A e \in MayBoard : BoardedFromOrigin(e) => e \in B
              /\ \A e, f \in MayBoard : Follows(e, f) /\ e \in B => f \in B
BY ClosedSet

LEMMA BoardableLeast ==
    /\ Boardable \subseteq MayBoard
    /\ \A B \in BoardableSets : Boardable \subseteq B
    /\ \A e \in MayBoard : (\A B \in BoardableSets : e \in B) => e \in Boardable
BY DEF Boardable, MayBoard

LEMMA FromOrigin ==
    ASSUME NEW e \in MayBoard, BoardedFromOrigin(e)
    PROVE  e \in Boardable
<1>1. \A B \in BoardableSets : e \in B
  BY ClosedSet
<1> QED
  BY <1>1, BoardableLeast

LEMMA AfterRide ==
    ASSUME NEW e \in Boardable, NEW f \in MayBoard, Follows(e, f)
    PROVE  f \in Boardable
<1>1. e \in MayBoard
  BY BoardableLeast
<1>2. \A B \in BoardableSets : f \in B
  BY <1>1, BoardableLeast, ClosedSet
<1> QED
  BY <1>2, BoardableLeast

\* nothing else is boardable
LEMMA BoardableUnfolded ==
    ASSUME NEW e \in Boardable
    PROVE  BoardedFromOrigin(e) \/ \E b \in Boardable : Follows(b, e)
<1> DEFINE B == {f \in MayBoard : BoardedFromOrigin(f) \/ \E b \in Boardable : Follows(b, f)}
<1>1. B \subseteq Boardable
  BY FromOrigin, AfterRide
<1>2. \A f, g \in MayBoard : Follows(f, g) /\ f \in B => g \in B
  BY <1>1
<1>3. B \subseteq MayBoard /\ \A f \in MayBoard : BoardedFromOrigin(f) => f \in B
  OBVIOUS
<1>4. B \in BoardableSets
  <2> HIDE DEF B
  <2> QED
    BY <1>2, <1>3, ClosedSet
<1>5. e \in B
  <2> HIDE DEF B
  <2> QED
    BY <1>4, BoardableLeast
<1> QED
  BY <1>5

LEMMA BoardableConns ==
    ASSUME NEW e \in Boardable
    PROVE  e \in MayBoard /\ e \in Conns /\ tt.conn[e].canBoard /\ tt.conn[e].trip \notin q.disabled
BY BoardableLeast DEF MayBoard, Enabled

\* what can be travelled depends on the timetable and the query alone
LEMMA BoardableFixed ==
    ASSUME UNCHANGED <<tt, q>>
    PROVE  Boardable' = Boardable /\ \A x : Alightable(x)' <=> Alightable(x)
<1>1. \A e, x : Rides(e, x)' <=> Rides(e, x)
  BY DEF Rides, Conns
<1>2. \A e : /\ e \in MayBoard' <=> e \in MayBoard
             /\ BoardedFromOrigin(e)' <=> BoardedFromOrigin(e)
  BY DEF MayBoard, Enabled, Conns, BoardedFromOrigin, AccessNodes, MinWait
<1>3. \A e, x : BoardedAfter(x, e)' <=> BoardedAfter(x, e)
  BY DEF BoardedAfter, Transferable, MinWait
<1>4. \A e, f : Follows(e, f)' <=> Follows(e, f)
  BY <1>1, <1>3 DEF Follows, Conns
<1>5. \A B : B \in BoardableSets' <=> B \in BoardableSets
  <2>1. (\A B : B \in BoardableSets <=>
              /\ B \subseteq MayBoard
              /\ \A e \in MayBoard : BoardedFromOrigin(e) => e \in B
              /\ \A e, f \in MayBoard : Follows(e, f) /\ e \in B => f \in B)'
    BY ClosedSets, PTL
  <2> QED
    BY <1>2, <1>4, <2>1, ClosedSets
<1>6. \A e : e \in Boardable' <=> e \in Boardable
  <2>1. (\A e : e \in Boardable <=> e \in MayBoard /\ \A B \in BoardableSets : e \in B)'
    BY DEF Boardable, MayBoard
  <2>2. \A e : e \in Boardable <=> e \in MayBoard /\ \A B \in BoardableSets : e \in B
    BY DEF Boardable, MayBoard
  <2> QED
    BY <1>2, <1>5, <2>1, <2>2
<1> QED
  BY <1>1, <1>6 DEF Alightable, Conns

-----------------------------------------------------------------------------
(***************************************************************************)
(* Time and order: the connections are sorted by departure                 *)
(***************************************************************************)
LEMMA Sorted ==
    ASSUME DataOK, NEW c \in Conns
    PROVE  /\ tt.conn[c].dep <= tt.conn[c].arr /\ tt.conn[c].arr < MAX_INT
           /\ \A d \in Conns : c <= d => tt.conn[c].dep <= tt.conn[d].dep
<1>1. /\ tt.conn[c].dep <= tt.conn[c].arr /\ tt.conn[c].arr < MAX_INT
      /\ \A d \in Conns : c < d => tt.conn[c].dep <= tt.conn[d].dep
  BY DEF DataOK, IsTimetable, Conns
<1>2. \A d \in Conns : c <= d => c < d \/ c = d
  BY ConnectionType
<1>3. tt.conn[c].dep <= tt.conn[c].dep
  BY ConnectionType
<1> QED
  BY <1>1, <1>2, <1>3

LEMMA WalkType ==
    ASSUME DataOK, NEW m \in Nodes, NEW n \in Nodes
    PROVE  tt.walk[m][n] \in Int /\ (Transferable(m, n) => tt.walk[m][n] \in Nat)
<1>1. tt.walk[m][n] \in Nat \cup {NoPath}
  BY DataType
<1>2. \A w \in Nat \cup {NoPath} : w \in Int /\ (w # NoPath => w \in Nat)
  BY DEF NoPath
<1> QED
  BY <1>1, <1>2 DEF Transferable

\* the queries the theorem is about: the waiting time keeps its value in a short,
\* no arrival overflows an int, and the hour is one the cache of iterators has
ArrivalsFit == \A x \in Conns, n \in EgressNodes : tt.conn[x].arr + q.egress[n] < MAX_INT

WithinCache == q.time \div SecondsPerHour < CacheEndHour

Regular ==
    /\ FitsShort /\ ArrivalsFit /\ WithinCache /\ Progressing
    /\ q.maxFirstWait = -1

\* boarding f after leaving e's vehicle at x
LEMMA AfterTimes ==
    ASSUME DataOK, FitsShort, NEW e \in Conns, NEW x \in Conns, NEW f \in Conns,
           Rides(e, x), BoardedAfter(x, f)
    PROVE  /\ tt.conn[e].dep <= tt.conn[x].dep /\ tt.conn[x].arr <= tt.conn[f].dep
           /\ tt.conn[e].dep <= tt.conn[f].dep
<1> DEFINE w == tt.walk[tt.conn[x].to][tt.conn[f].from]
<1>1. /\ tt.conn[e].dep \in Nat /\ tt.conn[x].dep \in Nat /\ tt.conn[x].arr \in Nat
      /\ tt.conn[f].dep \in Nat /\ MinWait(f) \in Nat
  BY ConnectionType, MinWaitNat
<1>2. tt.conn[e].dep <= tt.conn[x].dep /\ tt.conn[x].dep <= tt.conn[x].arr
  BY Sorted DEF Rides
<1>3. w \in Nat
  <2>1. w \in Nat \cup {NoPath} /\ w # NoPath
    BY ConnectionType, DataType DEF BoardedAfter, Transferable
  <2> QED
    BY <2>1
<1>4. tt.conn[x].arr + w + MinWait(f) <= tt.conn[f].dep
  BY DEF BoardedAfter
<1> HIDE DEF w
<1> QED
  BY <1>1, <1>2, <1>3, <1>4

\* a connection that leaves after some access node is reached
Late(e) == \E n \in AccessNodes : tt.conn[e].dep >= q.time + q.access[n]

LEMMA LateOnwards ==
    ASSUME DataOK, NEW e \in Conns, NEW f \in Conns, Late(e), tt.conn[e].dep <= tt.conn[f].dep
    PROVE  Late(f)
<1>1. PICK n \in AccessNodes : tt.conn[e].dep >= q.time + q.access[n]
  BY DEF Late
<1>2. q.access[n] \in Nat /\ q.time \in Nat
  BY DataType DEF AccessNodes
<1>3. tt.conn[e].dep \in Nat /\ tt.conn[f].dep \in Nat
  BY ConnectionType
<1>4. tt.conn[f].dep >= q.time + q.access[n]
  BY <1>1, <1>2, <1>3
<1> QED
  BY <1>4 DEF Late

LEMMA BoardableLate ==
    ASSUME DataOK, FitsShort, NEW e \in Boardable
    PROVE  Late(e)
<1> DEFINE B == {f \in MayBoard : Late(f)}
<1>1. ASSUME NEW f \in MayBoard, BoardedFromOrigin(f) PROVE Late(f)
  <2>1. f \in Conns
    BY DEF MayBoard, Enabled
  <2>2. /\ tt.conn[f].from \in AccessNodes
        /\ q.time + q.access[tt.conn[f].from] + MinWait(f) <= tt.conn[f].dep
    BY <1>1 DEF BoardedFromOrigin
  <2>3. q.access[tt.conn[f].from] \in Nat /\ q.time \in Nat
    BY <2>2, DataType DEF AccessNodes
  <2>4. tt.conn[f].dep \in Nat /\ MinWait(f) \in Nat
    BY <2>1, ConnectionType, MinWaitNat
  <2>5. tt.conn[f].dep >= q.time + q.access[tt.conn[f].from]
    BY <2>2, <2>3, <2>4
  <2> QED
    BY <2>2, <2>5 DEF Late
<1>2. ASSUME NEW f \in MayBoard, NEW g \in MayBoard, Follows(f, g), Late(f)
      PROVE  Late(g)
  <2>1. f \in Conns /\ g \in Conns
    BY DEF MayBoard, Enabled
  <2>2. PICK x \in Conns : Rides(f, x) /\ BoardedAfter(x, g)
    BY <1>2 DEF Follows
  <2>3. tt.conn[f].dep <= tt.conn[g].dep
    BY <2>1, <2>2, AfterTimes
  <2> QED
    BY <1>2, <2>1, <2>3, LateOnwards
<1>3. B \in BoardableSets
  <2>1. /\ B \subseteq MayBoard
        /\ \A f \in MayBoard : BoardedFromOrigin(f) => f \in B
        /\ \A f, g \in MayBoard : Follows(f, g) /\ f \in B => g \in B
    BY <1>1, <1>2
  <2> HIDE DEF B
  <2> QED
    BY <2>1, ClosedSet
<1>4. e \in B
  <2> HIDE DEF B
  <2> QED
    BY <1>3, BoardableLeast
<1> QED
  BY <1>4

\* where one alights is late too, and on an enabled trip
LEMMA AlightableLate ==
    ASSUME DataOK, FitsShort, NEW x, Alightable(x)
    PROVE  x \in Conns /\ Late(x) /\ tt.conn[x].trip \notin q.disabled
<1>1. PICK b \in Boardable : Rides(b, x)
  BY DEF Alightable
<1>2. x \in Conns /\ b \in Conns /\ b <= x /\ tt.conn[b].trip = tt.conn[x].trip
  BY <1>1 DEF Rides
<1>3. Late(b) /\ tt.conn[b].trip \notin q.disabled
  BY BoardableLate, BoardableConns
<1>4. tt.conn[b].dep <= tt.conn[x].dep
  BY <1>2, Sorted
<1> QED
  BY <1>2, <1>3, <1>4, LateOnwards

\* what the iterator of the hour passes over leaves before the hour
LEMMA BeginPasses ==
    ASSUME DataOK, NEW hour \in Nat, hour < CacheEndHour, NEW c \in Conns, c < ForwardBegin(hour)
    PROVE  tt.conn[c].dep < hour * SecondsPerHour
<1> DEFINE F == {d \in Conns : tt.conn[d].dep < hour * SecondsPerHour}
<1>1. ForwardBegin(hour) = 1 + Cardinality(F)
  BY DEF ForwardBegin, CacheEndHour
<1>2. SUFFICES ASSUME ~ (tt.conn[c].dep < hour * SecondsPerHour) PROVE FALSE
  OBVIOUS
<1>3. c \in Nat \ {0} /\ tt.conn[c].dep \in Nat /\ hour * SecondsPerHour \in Nat
  BY ConnectionType DEF SecondsPerHour
<1>4. F \subseteq 1 .. c - 1
  <2> SUFFICES ASSUME NEW d \in F PROVE d \in 1 .. c - 1
    OBVIOUS
  <2>1. d \in Conns /\ d \in Nat \ {0} /\ tt.conn[d].dep \in Nat
    BY ConnectionType
  <2>2. ~ (c <= d)
    <3>1. c <= d => tt.conn[c].dep <= tt.conn[d].dep
      BY <2>1, Sorted
    <3> QED
      BY <1>2, <1>3, <2>1, <3>1
  <2> QED
    BY <1>3, <2>1, <2>2
<1>5. c - 1 \in Nat
  BY <1>3
<1>6. Cardinality(F) \in 0 .. c - 1
  <2> HIDE DEF F
  <2> QED
    BY <1>4, <1>5, Count
<1> HIDE DEF F
<1> QED
  BY <1>1, <1>3, <1>6

-----------------------------------------------------------------------------
(***************************************************************************)
(* The invariant: nothing is recorded that cannot be travelled, and        *)
(* nothing the scan has passed is forgotten                                *)
(***************************************************************************)
\* alighting from x is known at its node and at the nodes one walks to
Accounted(x) ==
    LET m == tt.conn[x].to
    IN  /\ fwdEgress[m] # NoConnection /\ tt.conn[fwdEgress[m]].arr <= tt.conn[x].arr
        /\ \A n \in Nodes : Transferable(m, n) /\ tt.walk[m][n] <= q.maxTransfer =>
               fwdTime[n] <= tt.conn[x].arr + tt.walk[m][n]

\* the connections before position p are dealt with
PassedBoardings(p) == \A e \in Boardable : e < p => enter[tt.conn[e].trip] # NoConnection

PassedRides(p) == \A x \in Conns : x < p /\ Alightable(x) => Accounted(x)

\* the scan has come to p, or has stopped there
ScanAt(p) == p = fwdPos \/ (fwdPos = Len(tt.conn) + 1 /\ p \in Conns /\ FwdStop(p))

Complete == \E p \in 1 .. Len(tt.conn) + 1 : ScanAt(p) /\ PassedBoardings(p) /\ PassedRides(p)

EnterBoardable(t) == enter[t] # NoConnection => enter[t] \in Boardable

EgressAlightable(n) ==
    fwdEgress[n] # NoConnection => Alightable(fwdEgress[n]) /\ tt.conn[fwdEgress[n]].to = n

\* the break looks at a time at which an egress node is indeed reached
EgressMet ==
    egressReached < MAX_INT =>
        \E m \in EgressNodes : /\ fwdEgress[m] # NoConnection
                               /\ tt.conn[fwdEgress[m]].arr <= egressReached

AccessKept == \A n \in AccessNodes : fwdTime[n] <= q.time + q.access[n]

ForwardExact ==
    /\ departureTime = q.time
    /\ \A t \in Trips : EnterBoardable(t)
    /\ \A n \in Nodes : EgressAlightable(n)
    /\ EgressMet
    /\ AccessKept
    /\ Complete

AInv == FInv /\ (Regular /\ pc = "forward" => ForwardExact)

\* the facts the scan's steps start from
LEMMA ScanFacts ==
    ASSUME AInv, Regular, pc = "forward", fwdPos \in Conns
    PROVE  /\ DataOK /\ ForwardTypeOK /\ FitsShort /\ ForwardExact
           /\ PassedBoardings(fwdPos) /\ PassedRides(fwdPos)
           /\ \A t \in Trips : enter[t] \in Nat /\ enter[t] < fwdPos /\ EnterSound(t)
           /\ \A n \in Nodes : fwdTime[n] \in Int /\ StepSound(n)
           /\ fwdPos \in Nat \ {0} /\ fwdPos # Len(tt.conn) + 1 /\ Len(tt.conn) \in Nat
           /\ tt.conn[fwdPos].trip \in Trips
           /\ tt.conn[fwdPos].from \in Nodes /\ tt.conn[fwdPos].to \in Nodes
           /\ tt.conn[fwdPos].dep \in Nat /\ tt.conn[fwdPos].arr \in Nat
           /\ MinWait(fwdPos) \in Nat
<1>1. DataOK /\ ForwardTypeOK /\ FitsShort /\ ForwardExact
  BY DEF AInv, FInv, TypeOK, DataOK, Regular
<1>2. /\ fwdPos \in Nat \ {0} /\ Len(tt.conn) \in Nat
      /\ tt.conn[fwdPos].trip \in Trips
      /\ tt.conn[fwdPos].from \in Nodes /\ tt.conn[fwdPos].to \in Nodes
      /\ tt.conn[fwdPos].dep \in Nat /\ tt.conn[fwdPos].arr \in Nat
      /\ MinWait(fwdPos) \in Nat
  BY <1>1, ConnectionType, DataType, MinWaitNat
<1>3. fwdPos # Len(tt.conn) + 1
  BY <1>2 DEF Conns
<1>4. PassedBoardings(fwdPos) /\ PassedRides(fwdPos)
  BY <1>1, <1>3 DEF ForwardExact, Complete, ScanAt
<1>5. \A t \in Trips : enter[t] \in Nat /\ enter[t] < fwdPos /\ EnterSound(t)
  BY <1>1, SoundParts DEF AInv, FInv, EnterPassed, ForwardTypeOK
<1>6. \A n \in Nodes : fwdTime[n] \in Int /\ StepSound(n)
  BY <1>1, SoundParts DEF AInv, FInv, ForwardTypeOK
<1> QED
  BY <1>1, <1>2, <1>3, <1>4, <1>5, <1>6

\* a connection the rider catches by the labels can be boarded
LEMMA CaughtBoardable ==
    ASSUME AInv, Regular, pc = "forward", fwdPos \in Conns,
           tt.conn[fwdPos].canBoard, tt.conn[fwdPos].trip \notin q.disabled,
           fwdTime[tt.conn[fwdPos].from] <= tt.conn[fwdPos].dep - MinWait(fwdPos)
    PROVE  fwdPos \in Boardable
<1> DEFINE c == fwdPos
           n == tt.conn[c].from
<1>1. /\ DataOK /\ ForwardTypeOK /\ FitsShort /\ ForwardExact
      /\ n \in Nodes /\ tt.conn[c].dep \in Nat /\ MinWait(c) \in Nat /\ fwdTime[n] \in Int
      /\ StepSound(n)
  BY ScanFacts
<1>2. c \in MayBoard
  BY DEF MayBoard, Enabled
<1>3. CASE fwdSteps[n].enter = NoConnection
  <2>1. fwdTime[n] # MAX_INT
    <3>1. tt.conn[c].dep <= tt.conn[c].arr /\ tt.conn[c].arr < MAX_INT /\ tt.conn[c].arr \in Nat
      BY <1>1, Sorted, ConnectionType
    <3> QED
      BY <1>1, <3>1, LargeNumbers
  <2>2. n \in AccessNodes /\ fwdTime[n] = departureTime + q.access[n] /\ departureTime = q.time
    BY <1>1, <1>3, <2>1 DEF StepSound, ForwardExact
  <2>3. q.time \in Nat /\ q.access[n] \in Nat
    BY <1>1, <2>2, DataType DEF AccessNodes
  <2>4. q.time + q.access[n] + MinWait(c) <= tt.conn[c].dep
    BY <1>1, <2>2, <2>3
  <2>5. BoardedFromOrigin(c)
    BY <2>2, <2>4 DEF BoardedFromOrigin, Regular
  <2> QED
    BY <1>2, <2>5, FromOrigin
<1>4. CASE fwdSteps[n].enter # NoConnection
  <2> DEFINE e == fwdSteps[n].enter
             x == fwdSteps[n].exit
             w == tt.walk[tt.conn[x].to][n]
  <2>1. /\ Rides(e, x) /\ e = enter[tt.conn[x].trip] /\ Transferable(tt.conn[x].to, n)
        /\ fwdSteps[n].walk = w /\ w <= q.maxTransfer /\ fwdTime[n] = tt.conn[x].arr + w
    BY <1>1, <1>4 DEF StepSound
  <2>2. x \in Conns /\ tt.conn[x].trip \in Trips /\ tt.conn[x].arr \in Nat /\ tt.conn[x].to \in Nodes
    BY <1>1, <2>1, ConnectionType DEF Rides
  <2>3. e \in Boardable
    BY <1>1, <1>4, <2>1, <2>2 DEF ForwardExact, EnterBoardable
  <2>4. w \in Int
    BY <1>1, <2>2, WalkType
  <2>5. tt.conn[x].arr + w + MinWait(c) <= tt.conn[c].dep
    <3>1. \A a, v, d \in Nat, i, f \in Int : f = a + i /\ f <= d - v => a + i + v <= d
      OBVIOUS
    <3>2. fwdTime[n] = tt.conn[x].arr + w /\ fwdTime[n] <= tt.conn[c].dep - MinWait(c)
      BY <2>1
    <3> HIDE DEF w, x, n, c
    <3> QED
      BY <1>1, <2>2, <2>4, <3>1, <3>2
  <2>6. BoardedAfter(x, c)
    BY <2>1, <2>5 DEF BoardedAfter
  <2>7. Follows(e, c)
    BY <2>1, <2>2, <2>6 DEF Follows
  <2> HIDE DEF e
  <2> QED
    BY <1>2, <2>3, <2>7, AfterRide
<1> QED
  BY <1>3, <1>4

\* conversely, a boardable connection is caught by the labels
LEMMA BoardableCaught ==
    ASSUME AInv, Regular, pc = "forward", fwdPos \in Conns, fwdPos \in Boardable
    PROVE  fwdTime[tt.conn[fwdPos].from] <= tt.conn[fwdPos].dep - MinWait(fwdPos)
<1> DEFINE c == fwdPos
           n == tt.conn[c].from
<1>1. /\ DataOK /\ FitsShort /\ ForwardExact /\ PassedRides(c)
      /\ n \in Nodes /\ tt.conn[c].dep \in Nat /\ MinWait(c) \in Nat /\ fwdTime[n] \in Int
      /\ c \in Nat
  BY ScanFacts
<1>2. CASE BoardedFromOrigin(c)
  <2>1. n \in AccessNodes /\ q.time + q.access[n] + MinWait(c) <= tt.conn[c].dep
    BY <1>2 DEF BoardedFromOrigin
  <2>2. fwdTime[n] <= q.time + q.access[n]
    BY <1>1, <2>1 DEF ForwardExact, AccessKept
  <2>3. q.time \in Nat /\ q.access[n] \in Nat
    BY <1>1, <2>1, DataType DEF AccessNodes
  <2> QED
    BY <1>1, <2>1, <2>2, <2>3
<1>3. CASE \E b \in Boardable : Follows(b, c)
  <2>1. PICK b \in Boardable, x \in Conns : Rides(b, x) /\ BoardedAfter(x, c)
    BY <1>3 DEF Follows
  <2> DEFINE m == tt.conn[x].to
             w == tt.walk[m][n]
  <2>2. /\ Transferable(m, n) /\ w <= q.maxTransfer
        /\ tt.conn[x].arr + w + MinWait(c) <= tt.conn[c].dep
    BY <2>1 DEF BoardedAfter
  <2>3. x < c
    <3>1. x \in Nat /\ tt.conn[x].dep \in Nat /\ tt.conn[x].arr \in Nat
      BY <1>1, ConnectionType
    <3>2. tt.conn[x].arr <= tt.conn[c].dep
      BY <1>1, <2>1, AfterTimes, BoardableConns
    <3>3. tt.conn[x].dep < tt.conn[x].arr
      BY DEF Regular, Progressing
    <3>4. c <= x => tt.conn[c].dep <= tt.conn[x].dep
      BY <1>1, Sorted
    <3> QED
      BY <1>1, <3>1, <3>2, <3>3, <3>4
  <2>4. Alightable(x)
    BY <2>1 DEF Alightable
  <2>5. Accounted(x)
    BY <1>1, <2>3, <2>4 DEF PassedRides
  <2>6. fwdTime[n] <= tt.conn[x].arr + w
    BY <1>1, <2>2, <2>5 DEF Accounted
  <2>7. tt.conn[x].arr \in Nat /\ w \in Int
    BY <1>1, ConnectionType, WalkType
  <2> HIDE DEF w
  <2> QED
    BY <1>1, <2>2, <2>6, <2>7
<1> QED
  BY <1>2, <1>3, BoardableUnfolded

-----------------------------------------------------------------------------
(***************************************************************************)
(* The steps of the scan                                                   *)
(***************************************************************************)
\* a connection nobody boards or alights from can be passed over
LEMMA DeadPassed ==
    ASSUME AInv, Regular, pc = "forward", fwdPos \in Conns,
           fwdPos \notin Boardable, ~ Alightable(fwdPos)
    PROVE  PassedBoardings(fwdPos + 1) /\ PassedRides(fwdPos + 1)
<1>1. DataOK /\ PassedBoardings(fwdPos) /\ PassedRides(fwdPos) /\ fwdPos \in Nat
  BY ScanFacts
<1>2. \A d \in Nat : d < fwdPos + 1 => d < fwdPos \/ d = fwdPos
  BY <1>1
<1>3. \A d \in Conns : d \in Nat
  BY <1>1, ConnectionType
<1>4. PassedBoardings(fwdPos + 1)
  BY <1>1, <1>2, <1>3, BoardableConns DEF PassedBoardings
<1>5. PassedRides(fwdPos + 1)
  BY <1>1, <1>2, <1>3 DEF PassedRides
<1> QED
  BY <1>4, <1>5

\* a connection that is not considered
LEMMA SkipDead ==
    ASSUME AInv, Regular, pc = "forward", fwdPos \in Conns, ~ FwdConsidered(fwdPos)
    PROVE  fwdPos \notin Boardable /\ ~ Alightable(fwdPos)
<1>1. DataOK /\ FitsShort /\ departureTime = q.time
  BY ScanFacts DEF ForwardExact
<1>2. ~ Late(fwdPos) \/ tt.conn[fwdPos].trip \in q.disabled
  BY <1>1 DEF FwdConsidered, Late
<1>3. fwdPos \notin Boardable
  BY <1>1, <1>2, BoardableLate, BoardableConns
<1>4. ~ Alightable(fwdPos)
  BY <1>1, <1>2, AlightableLate
<1> QED
  BY <1>3, <1>4

\* a connection that is not reachable
LEMMA PassDead ==
    ASSUME AInv, Regular, pc = "forward", fwdPos \in Conns, ~ FwdReachable(fwdPos)
    PROVE  fwdPos \notin Boardable /\ ~ Alightable(fwdPos)
<1>1. /\ PassedBoardings(fwdPos) /\ fwdPos \in Nat /\ DataOK
  BY ScanFacts
<1>2. q.maxFirstWait = -1
  BY DEF Regular
<1>3. ~ nodeWasAccessedFromOrigin(fwdPos)
  BY <1>2 DEF nodeWasAccessedFromOrigin
<1>4. /\ enter[tt.conn[fwdPos].trip] = NoConnection
      /\ ~ (fwdTime[tt.conn[fwdPos].from] <= tt.conn[fwdPos].dep - MinWait(fwdPos))
  BY <1>3 DEF FwdReachable
<1>5. fwdPos \notin Boardable
  BY <1>4, BoardableCaught
<1>6. ~ Alightable(fwdPos)
  <2> SUFFICES ASSUME Alightable(fwdPos) PROVE FALSE
    OBVIOUS
  <2>1. PICK b \in Boardable : Rides(b, fwdPos)
    BY DEF Alightable
  <2>2. b \in Conns /\ b <= fwdPos /\ tt.conn[b].trip = tt.conn[fwdPos].trip /\ b \in Nat
    BY <1>1, <2>1, ConnectionType DEF Rides
  <2>3. b < fwdPos
    BY <1>1, <1>5, <2>2
  <2> QED
    BY <1>1, <1>4, <2>2, <2>3 DEF PassedBoardings
<1> QED
  BY <1>5, <1>6

\* after a boarding that the scan knows of, the rider is on the vehicle
LEMMA AlightableRidden ==
    ASSUME AInv, Regular, pc = "forward", fwdPos \in Conns
    PROVE  /\ fwdPos \in Boardable => FwdEnter(fwdPos) # NoConnection
           /\ Alightable(fwdPos) => FwdEnter(fwdPos) # NoConnection /\ tt.conn[fwdPos].canUnboard
<1>1. /\ PassedBoardings(fwdPos) /\ fwdPos \in Nat \ {0} /\ DataOK
  BY ScanFacts
<1>2. ASSUME fwdPos \in Boardable PROVE FwdEnter(fwdPos) # NoConnection
  <2>1. tt.conn[fwdPos].canBoard
    BY <1>2, BoardableConns
  <2> QED
    BY <1>1, <2>1 DEF FwdEnter, NoConnection
<1>3. ASSUME Alightable(fwdPos)
      PROVE  FwdEnter(fwdPos) # NoConnection /\ tt.conn[fwdPos].canUnboard
  <2>1. PICK b \in Boardable : Rides(b, fwdPos)
    BY <1>3 DEF Alightable
  <2>2. /\ b \in Conns /\ b <= fwdPos /\ tt.conn[b].trip = tt.conn[fwdPos].trip /\ b \in Nat
        /\ tt.conn[fwdPos].canUnboard
    BY <1>1, <2>1, ConnectionType DEF Rides
  <2>3. CASE b = fwdPos
    BY <1>2, <2>2, <2>3
  <2>4. CASE b < fwdPos
    <3>1. enter[tt.conn[fwdPos].trip] # NoConnection
      BY <1>1, <2>2, <2>4 DEF PassedBoardings
    <3> QED
      BY <2>2, <3>1 DEF FwdEnter
  <2> QED
    BY <1>1, <2>2, <2>3, <2>4
<1> QED
  BY <1>2, <1>3

\* the connection a trip is boarded at, before and after c is handled
LEMMA EnterRidden ==
    ASSUME AInv, Regular, pc = "forward", fwdPos \in Conns,
           FwdConsidered(fwdPos), FwdReachable(fwdPos), FwdEnter(fwdPos) # NoConnection
    PROVE  /\ FwdEnter(fwdPos) \in Boardable
           /\ tt.conn[fwdPos].canUnboard => Rides(FwdEnter(fwdPos), fwdPos)
<1> DEFINE c == fwdPos
           trip == tt.conn[c].trip
<1>1. /\ DataOK /\ ForwardExact /\ trip \in Trips /\ c \in Nat \ {0}
      /\ enter[trip] \in Nat /\ enter[trip] < c /\ EnterSound(trip)
  BY ScanFacts
<1>2. CASE enter[trip] # NoConnection
  <2>1. FwdEnter(c) = enter[trip]
    BY <1>2 DEF FwdEnter
  <2>2. enter[trip] \in Boardable
    BY <1>1, <1>2 DEF ForwardExact, EnterBoardable
  <2>3. /\ enter[trip] \in Conns /\ tt.conn[enter[trip]].trip = trip /\ tt.conn[enter[trip]].canBoard
    BY <1>1, <1>2 DEF EnterSound
  <2> QED
    BY <1>1, <2>1, <2>2, <2>3 DEF Rides
<1>3. CASE enter[trip] = NoConnection
  <2>1. FwdEnter(c) = c /\ tt.conn[c].canBoard
    BY <1>3 DEF FwdEnter
  <2>2. fwdTime[tt.conn[c].from] <= tt.conn[c].dep - MinWait(c)
    BY <1>3 DEF FwdReachable
  <2>3. c \in Boardable
    BY <2>1, <2>2, CaughtBoardable DEF FwdConsidered
  <2> QED
    BY <1>1, <2>1, <2>3 DEF Rides
<1> QED
  BY <1>2, <1>3

\* alighting from c: the arrivals recorded only become earlier
LEMMA UnboardEgress ==
    ASSUME TypeOK, NEW c \in Conns, Unboard(c)
    PROVE  /\ fwdEgress'[tt.conn[c].to] # NoConnection
           /\ tt.conn[fwdEgress'[tt.conn[c].to]].arr <= tt.conn[c].arr
           /\ \A n \in Nodes :
                 /\ fwdEgress'[n] = fwdEgress[n] \/ (n = tt.conn[c].to /\ fwdEgress'[n] = c)
                 /\ fwdEgress[n] # NoConnection =>
                       /\ fwdEgress'[n] # NoConnection
                       /\ tt.conn[fwdEgress'[n]].arr <= tt.conn[fwdEgress[n]].arr
<1> DEFINE m == tt.conn[c].to
<1>1. /\ DataOK /\ fwdEgress \in [Nodes -> 0 .. Len(tt.conn)] /\ Len(tt.conn) \in Nat
  BY DataType DEF TypeOK, DataOK, ForwardTypeOK
<1>2. m \in Nodes /\ tt.conn[c].arr \in Nat /\ c \in Nat \ {0}
  BY <1>1, ConnectionType
<1>3. \A n \in Nodes : fwdEgress[n] # NoConnection =>
          fwdEgress[n] \in Conns /\ tt.conn[fwdEgress[n]].arr \in Nat
  <2>1. \A n \in Nodes : fwdEgress[n] # NoConnection => fwdEgress[n] \in Conns
    BY <1>1 DEF Conns, NoConnection
  <2> QED
    BY <1>1, <2>1, ConnectionType
<1>4. CASE fwdEgress[m] = NoConnection \/ tt.conn[fwdEgress[m]].arr > tt.conn[c].arr
  <2>1. fwdEgress' = [fwdEgress EXCEPT ![m] = c]
    BY <1>4 DEF Unboard
  <2>2. \A n \in Nodes : fwdEgress'[n] = IF n = m THEN c ELSE fwdEgress[n]
    BY <1>1, <2>1
  <2> HIDE DEF m
  <2>3. fwdEgress'[m] = c /\ c # NoConnection
    BY <1>2, <2>2 DEF NoConnection
  <2>4. fwdEgress[m] # NoConnection => tt.conn[c].arr <= tt.conn[fwdEgress[m]].arr
    BY <1>2, <1>3, <1>4
  <2> QED
    BY <1>2, <1>3, <2>2, <2>3, <2>4 DEF m
<1>5. CASE ~ (fwdEgress[m] = NoConnection \/ tt.conn[fwdEgress[m]].arr > tt.conn[c].arr)
  <2>1. fwdEgress' = fwdEgress
    BY <1>5 DEF Unboard
  <2>2. fwdEgress[m] # NoConnection /\ tt.conn[fwdEgress[m]].arr <= tt.conn[c].arr
    BY <1>2, <1>3, <1>5
  <2>3. \A n \in Nodes : fwdEgress[n] # NoConnection =>
            tt.conn[fwdEgress[n]].arr <= tt.conn[fwdEgress[n]].arr
    BY <1>3
  <2> QED
    BY <2>1, <2>2, <2>3
<1> QED
  BY <1>4, <1>5

\* and the nodes one walks to are labelled
LEMMA UnboardLabels ==
    ASSUME TypeOK, NEW c \in Conns, Unboard(c), NEW n \in Nodes,
           Transferable(tt.conn[c].to, n), tt.walk[tt.conn[c].to][n] <= q.maxTransfer
    PROVE  fwdTime'[n] <= tt.conn[c].arr + tt.walk[tt.conn[c].to][n]
<1> DEFINE m == tt.conn[c].to
           w == tt.walk[m][n]
<1>1. DataOK /\ fwdTime[n] \in Int /\ fwdTime'[n] = IF FwdImproves(c, n) THEN w + tt.conn[c].arr ELSE fwdTime[n]
  BY DEF TypeOK, DataOK, ForwardTypeOK, Unboard
<1>2. m \in Nodes /\ tt.conn[c].arr \in Nat
  BY <1>1, ConnectionType
<1>3. w \in Nat
  BY <1>1, <1>2, WalkType
<1>4. CASE FwdImproves(c, n)
  <2> HIDE DEF w
  <2> QED
    BY <1>1, <1>2, <1>3, <1>4 DEF w
<1>5. CASE ~ FwdImproves(c, n)
  <2>1. ~ (m = n \/ fwdTime[n] >= tt.conn[c].arr) \/ ~ (w + tt.conn[c].arr < fwdTime[n])
    BY <1>5 DEF FwdImproves
  <2>2. \A a, v \in Nat, f \in Int : ~ (f >= a) \/ ~ (v + a < f) => f <= a + v
    OBVIOUS
  <2>3. fwdTime[n] <= tt.conn[c].arr + w
    <3> HIDE DEF w, m
    <3> QED
      BY <1>1, <1>2, <1>3, <2>1, <2>2
  <2> QED
    BY <1>1, <1>5, <2>3
<1> QED
  BY <1>4, <1>5

\* what is accounted for stays so while labels and arrivals only become earlier
LEMMA AccountedKept ==
    ASSUME DataOK, ForwardTypeOK, ForwardTypeOK', UNCHANGED <<tt, q>>,
           \A n \in Nodes : fwdTime'[n] <= fwdTime[n],
           \A n \in Nodes : fwdEgress[n] # NoConnection =>
                 /\ fwdEgress'[n] # NoConnection
                 /\ tt.conn[fwdEgress'[n]].arr <= tt.conn[fwdEgress[n]].arr,
           NEW x \in Conns, Accounted(x)
    PROVE  Accounted(x)'
<1> DEFINE m == tt.conn[x].to
<1>1. m \in Nodes /\ tt.conn[x].arr \in Nat
  BY ConnectionType
<1>2. fwdEgress[m] # NoConnection /\ tt.conn[fwdEgress[m]].arr <= tt.conn[x].arr
  BY DEF Accounted
<1>3. fwdEgress'[m] # NoConnection /\ tt.conn[fwdEgress'[m]].arr <= tt.conn[x].arr
  <2>1. fwdEgress[m] \in Conns /\ fwdEgress'[m] \in Conns
    <3>1. fwdEgress[m] \in 0 .. Len(tt.conn) /\ fwdEgress'[m] \in 0 .. Len(tt.conn)
      BY <1>1 DEF ForwardTypeOK
    <3>2. Len(tt.conn) \in Nat /\ fwdEgress'[m] # NoConnection
      BY <1>1, <1>2, DataType
    <3> HIDE DEF m
    <3> QED
      BY <1>2, <3>1, <3>2 DEF Conns, NoConnection
  <2>2. tt.conn[fwdEgress[m]].arr \in Nat /\ tt.conn[fwdEgress'[m]].arr \in Nat
    BY <2>1, ConnectionType
  <2>3. \A a, b, c \in Nat : a <= b /\ b <= c => a <= c
    OBVIOUS
  <2> QED
    BY <1>1, <1>2, <2>2, <2>3
<1>4. ASSUME NEW n \in Nodes, Transferable(m, n), tt.walk[m][n] <= q.maxTransfer
      PROVE  fwdTime'[n] <= tt.conn[x].arr + tt.walk[m][n]
  <2>1. fwdTime[n] <= tt.conn[x].arr + tt.walk[m][n]
    BY <1>4 DEF Accounted
  <2>2. fwdTime[n] \in Int /\ fwdTime'[n] \in Int /\ tt.walk[m][n] \in Int
    BY <1>1, WalkType DEF ForwardTypeOK
  <2>3. tt.conn[x].arr + tt.walk[m][n] \in Int
    BY <1>1, <2>2
  <2>4. \A a, b, c \in Int : a <= b /\ b <= c => a <= c
    OBVIOUS
  <2> QED
    BY <2>1, <2>2, <2>3, <2>4
<1> QED
  BY <1>3, <1>4 DEF Accounted, Transferable
\* a reachable connection
LEMMA RideExact ==
    ASSUME AInv, Regular, ForwardRide, UNCHANGED <<tt, q, pc, departureTime>>, TypeOK'
    PROVE  ForwardExact'
<1> DEFINE c == fwdPos
           trip == tt.conn[c].trip
<1>1. /\ TypeOK /\ pc = "forward" /\ c \in Conns /\ FwdConsidered(c) /\ FwdReachable(c)
      /\ enter' = [enter EXCEPT ![trip] = FwdEnter(c)] /\ fwdPos' = c + 1
      /\ \/ tt.conn[c].canUnboard /\ FwdEnter(c) # NoConnection /\ Unboard(c)
         \/ /\ ~ (tt.conn[c].canUnboard /\ FwdEnter(c) # NoConnection)
            /\ UNCHANGED <<fwdTime, fwdEgress, egressReached>>
  BY DEF AInv, FInv, ForwardRide, FwdScanning
<1>2. /\ DataOK /\ ForwardTypeOK /\ ForwardTypeOK' /\ FitsShort /\ ForwardExact
      /\ PassedBoardings(c) /\ PassedRides(c)
      /\ trip \in Trips /\ tt.conn[c].to \in Nodes /\ tt.conn[c].arr \in Nat
      /\ c \in Nat \ {0} /\ Len(tt.conn) \in Nat
  BY <1>1, ScanFacts DEF TypeOK
<1>3. /\ Boardable' = Boardable /\ Conns' = Conns
      /\ \A x : Alightable(x)' <=> Alightable(x)
  BY BoardableFixed DEF Conns
<1>4. \A t \in Trips : enter'[t] = IF t = trip THEN FwdEnter(c) ELSE enter[t]
  BY <1>1, <1>2 DEF ForwardTypeOK
<1>5. FwdEnter(c) # NoConnection =>
         FwdEnter(c) \in Boardable /\ (tt.conn[c].canUnboard => Rides(FwdEnter(c), c))
  BY <1>1, EnterRidden
<1>6. \A t \in Trips : enter[t] # NoConnection => enter'[t] # NoConnection
  BY <1>4 DEF FwdEnter
<1>7. \A t \in Trips : EnterBoardable(t)'
  BY <1>2, <1>3, <1>4, <1>5 DEF ForwardExact, EnterBoardable
<1>8. \A n \in Nodes : /\ fwdTime[n] \in Int /\ fwdTime'[n] \in Int
                       /\ fwdTime'[n] <= fwdTime[n]
  <2>1. \A n \in Nodes : fwdTime[n] \in Int /\ fwdTime'[n] \in Int
    BY <1>2 DEF ForwardTypeOK
  <2>2. CASE Unboard(c)
    BY <1>1, <2>1, <2>2, UnboardLowers
  <2>3. CASE UNCHANGED <<fwdTime, fwdEgress, egressReached>>
    BY <2>1, <2>3
  <2> QED
    BY <1>1, <2>2, <2>3
<1>9. \A n \in Nodes : fwdEgress[n] # NoConnection =>
          /\ fwdEgress'[n] # NoConnection
          /\ tt.conn[fwdEgress'[n]].arr <= tt.conn[fwdEgress[n]].arr
  <2>1. CASE Unboard(c)
    BY <1>1, <2>1, UnboardEgress
  <2>2. CASE UNCHANGED <<fwdTime, fwdEgress, egressReached>>
    <3>1. \A n \in Nodes : fwdEgress[n] # NoConnection => fwdEgress[n] \in Conns
      BY <1>2 DEF ForwardTypeOK, Conns, NoConnection
    <3>2. \A n \in Nodes : fwdEgress[n] # NoConnection => tt.conn[fwdEgress[n]].arr \in Nat
      BY <1>2, <3>1, ConnectionType
    <3> QED
      BY <2>2, <3>2
  <2> QED
    BY <1>1, <2>1, <2>2
<1>10. \A n \in Nodes : EgressAlightable(n)'
  <2>1. CASE Unboard(c) /\ tt.conn[c].canUnboard /\ FwdEnter(c) # NoConnection
    <3>1. Alightable(c)
      BY <1>1, <1>5, <2>1 DEF Alightable
    <3>2. \A n \in Nodes : fwdEgress'[n] = fwdEgress[n] \/ (n = tt.conn[c].to /\ fwdEgress'[n] = c)
      BY <1>1, <2>1, UnboardEgress
    <3> QED
      BY <1>2, <1>3, <3>1, <3>2 DEF ForwardExact, EgressAlightable
  <2>2. CASE UNCHANGED <<fwdTime, fwdEgress, egressReached>>
    BY <1>2, <1>3, <2>2 DEF ForwardExact, EgressAlightable
  <2> QED
    BY <1>1, <2>1, <2>2
<1>11. EgressMet'
  <2> SUFFICES ASSUME egressReached' < MAX_INT
               PROVE  \E m \in EgressNodes : /\ fwdEgress'[m] # NoConnection
                                             /\ tt.conn[fwdEgress'[m]].arr <= egressReached'
    BY DEF EgressMet, EgressNodes
  <2>1. CASE egressReached' = egressReached
    <3>1. PICK m \in EgressNodes : /\ fwdEgress[m] # NoConnection
                                   /\ tt.conn[fwdEgress[m]].arr <= egressReached
      BY <1>2, <2>1 DEF ForwardExact, EgressMet
    <3>2. m \in Nodes /\ fwdEgress'[m] # NoConnection
          /\ tt.conn[fwdEgress'[m]].arr <= tt.conn[fwdEgress[m]].arr
      BY <1>9, <3>1 DEF EgressNodes
    <3>3. fwdEgress[m] \in Conns /\ fwdEgress'[m] \in Conns
      <4>1. fwdEgress[m] \in 0 .. Len(tt.conn) /\ fwdEgress'[m] \in 0 .. Len(tt.conn)
        BY <1>2, <3>2 DEF ForwardTypeOK
      <4> QED
        BY <1>2, <3>1, <3>2, <4>1 DEF Conns, NoConnection
    <3>4. tt.conn[fwdEgress[m]].arr \in Nat /\ tt.conn[fwdEgress'[m]].arr \in Nat
          /\ egressReached \in Nat
      BY <1>2, <3>3, ConnectionType DEF ForwardTypeOK
    <3>5. tt.conn[fwdEgress'[m]].arr <= egressReached
      BY <3>1, <3>2, <3>4
    <3> QED
      BY <2>1, <3>1, <3>2, <3>5
  <2>2. CASE egressReached' # egressReached
    <3>1. Unboard(c) /\ tt.conn[c].to \in EgressNodes /\ egressReached' = tt.conn[c].arr
      BY <1>1, <2>2 DEF Unboard
    <3>2. /\ fwdEgress'[tt.conn[c].to] # NoConnection
          /\ tt.conn[fwdEgress'[tt.conn[c].to]].arr <= tt.conn[c].arr
      BY <1>1, <3>1, UnboardEgress
    <3> QED
      BY <3>1, <3>2
  <2> QED
    BY <2>1, <2>2
<1>12. AccessKept'
  <2> SUFFICES ASSUME NEW n \in AccessNodes PROVE fwdTime'[n] <= q.time + q.access[n]
    BY DEF AccessKept, AccessNodes
  <2>1. n \in Nodes /\ q.time \in Nat /\ q.access[n] \in Nat
    BY <1>2, DataType DEF AccessNodes
  <2>2. fwdTime[n] <= q.time + q.access[n]
    BY <1>2 DEF ForwardExact, AccessKept
  <2> QED
    BY <1>8, <2>1, <2>2
<1>13. ASSUME NEW d \in Conns, d < c + 1 PROVE d < c \/ d = c
  BY <1>2, <1>13, ConnectionType
<1>14. \A e \in Boardable : e < c + 1 => enter'[tt.conn[e].trip] # NoConnection
  <2> SUFFICES ASSUME NEW e \in Boardable, e < c + 1 PROVE enter'[tt.conn[e].trip] # NoConnection
    OBVIOUS
  <2>1. e \in Conns /\ tt.conn[e].trip \in Trips
    BY <1>2, BoardableConns, ConnectionType
  <2>2. CASE e < c
    BY <1>2, <1>6, <2>1, <2>2 DEF PassedBoardings
  <2>3. CASE e = c
    BY <1>1, <1>2, <1>4, <2>3, AlightableRidden
  <2> QED
    BY <1>13, <2>1, <2>2, <2>3
<1>15. \A x \in Conns : x < c + 1 /\ Alightable(x) => Accounted(x)'
  <2> SUFFICES ASSUME NEW x \in Conns, x < c + 1, Alightable(x) PROVE Accounted(x)'
    OBVIOUS
  <2>1. CASE x < c
    <3>1. Accounted(x)
      BY <1>2, <2>1 DEF PassedRides
    <3> QED
      BY <1>2, <1>8, <1>9, <3>1, AccountedKept
  <2>2. CASE x = c
    <3>1. Unboard(c)
      BY <1>1, <2>2, AlightableRidden
    <3>2. /\ fwdEgress'[tt.conn[c].to] # NoConnection
          /\ tt.conn[fwdEgress'[tt.conn[c].to]].arr <= tt.conn[c].arr
      BY <1>1, <3>1, UnboardEgress
    <3>3. \A n \in Nodes : Transferable(tt.conn[c].to, n) /\ tt.walk[tt.conn[c].to][n] <= q.maxTransfer =>
              fwdTime'[n] <= tt.conn[c].arr + tt.walk[tt.conn[c].to][n]
      BY <1>1, <3>1, UnboardLabels
    <3> QED
      BY <2>2, <3>2, <3>3 DEF Accounted, Transferable
  <2> QED
    BY <1>13, <2>1, <2>2
<1>16. Complete'
  <2>1. c + 1 \in 1 .. Len(tt.conn) + 1
    BY <1>1, <1>2 DEF Conns
  <2>2. PICK p \in 1 .. Len(tt.conn) + 1 : p = c + 1
    BY <2>1
  <2>3. p = fwdPos'
    BY <1>1, <2>2
  <2>4. (\A e \in Boardable' : e < p => enter'[tt'.conn[e].trip] # NoConnection)
        /\ \A x \in Conns' : x < p /\ Alightable(x)' => Accounted(x)'
    BY <1>3, <1>14, <1>15, <2>2
  <2> QED
    BY <2>3, <2>4 DEF Complete, ScanAt, PassedBoardings, PassedRides
<1> QED
  BY <1>2, <1>7, <1>10, <1>11, <1>12, <1>16 DEF ForwardExact

\* the steps that record nothing: what the iterator passes is dead, or the rest is
LEMMA MoveExact ==
    ASSUME AInv, Regular, pc = "forward", fwdPos \in Conns,
           UNCHANGED <<tt, q, pc, departureTime, fwdTime, fwdEgress, enter, egressReached>>,
           \/ fwdPos' = fwdPos + 1 /\ (~ FwdConsidered(fwdPos) \/ ~ FwdReachable(fwdPos))
           \/ fwdPos' = Len(tt.conn) + 1 /\ FwdStop(fwdPos)
    PROVE  ForwardExact'
<1>1. /\ ForwardExact /\ PassedBoardings(fwdPos) /\ PassedRides(fwdPos)
      /\ fwdPos \in Nat \ {0} /\ Len(tt.conn) \in Nat
  BY ScanFacts
<1>2. /\ Boardable' = Boardable /\ Conns' = Conns
      /\ \A x : Alightable(x)' <=> Alightable(x)
  BY BoardableFixed DEF Conns
<1>3. \A t \in Trips : EnterBoardable(t)'
  BY <1>1, <1>2 DEF ForwardExact, EnterBoardable
<1>4. \A n \in Nodes : EgressAlightable(n)'
  BY <1>1, <1>2 DEF ForwardExact, EgressAlightable
<1>5. EgressMet' /\ AccessKept'
  BY <1>1 DEF ForwardExact, EgressMet, AccessKept, EgressNodes, AccessNodes
<1>6. \A x : Accounted(x)' <=> Accounted(x)
  BY DEF Accounted, Transferable
<1>7. ASSUME NEW p \in 1 .. Len(tt.conn) + 1, PassedBoardings(p), PassedRides(p),
             p = fwdPos' \/ (fwdPos' = Len(tt.conn) + 1 /\ p \in Conns /\ FwdStop(p))
      PROVE  Complete'
  <2>1. FwdStop(p)' <=> FwdStop(p)
    BY DEF FwdStop, EgressNodes
  <2>2. p = fwdPos' \/ (fwdPos' = Len(tt'.conn) + 1 /\ p \in Conns' /\ FwdStop(p)')
    BY <1>2, <1>7, <2>1
  <2>3. (\A e \in Boardable' : e < p => enter'[tt'.conn[e].trip] # NoConnection)
        /\ \A x \in Conns' : x < p /\ Alightable(x)' => Accounted(x)'
    BY <1>2, <1>6, <1>7 DEF PassedBoardings, PassedRides
  <2>4. p \in 1 .. Len(tt'.conn) + 1
    OBVIOUS
  <2> QED
    BY <2>2, <2>3, <2>4 DEF Complete, ScanAt, PassedBoardings, PassedRides
<1>8. CASE fwdPos' = fwdPos + 1 /\ (~ FwdConsidered(fwdPos) \/ ~ FwdReachable(fwdPos))
  <2>1. fwdPos \notin Boardable /\ ~ Alightable(fwdPos)
    BY <1>8, SkipDead, PassDead
  <2>2. PassedBoardings(fwdPos + 1) /\ PassedRides(fwdPos + 1)
    BY <2>1, DeadPassed
  <2>3. PICK p \in 1 .. Len(tt.conn) + 1 : p = fwdPos + 1
    BY <1>1 DEF Conns
  <2>4. PassedBoardings(p) /\ PassedRides(p) /\ p = fwdPos'
    BY <1>8, <2>2, <2>3
  <2>5. Complete'
    BY <1>7, <2>4
  <2> QED
    BY <1>1, <1>3, <1>4, <1>5, <2>5 DEF ForwardExact
<1>9. CASE fwdPos' = Len(tt.conn) + 1 /\ FwdStop(fwdPos)
  <2>1. fwdPos \in 1 .. Len(tt.conn) + 1
    BY <1>1 DEF Conns
  <2>2. Complete'
    BY <1>1, <1>7, <1>9, <2>1
  <2> QED
    BY <1>1, <1>3, <1>4, <1>5, <2>2 DEF ForwardExact
<1> QED
  BY <1>8, <1>9

LEMMA ScanExact ==
    ASSUME AInv, Regular, ForwardScan, TypeOK'
    PROVE  ForwardExact'
<1>1. UNCHANGED <<tt, q, pc, departureTime>>
  BY DEF ForwardScan, dataVars
<1>2. CASE ForwardRide
  BY <1>1, <1>2, RideExact
<1>3. CASE ForwardSkip \/ ForwardPass \/ ForwardBreak
  <2>1. /\ pc = "forward" /\ fwdPos \in Conns
        /\ UNCHANGED <<fwdTime, fwdEgress, enter, egressReached>>
        /\ \/ fwdPos' = fwdPos + 1 /\ (~ FwdConsidered(fwdPos) \/ ~ FwdReachable(fwdPos))
           \/ fwdPos' = Len(tt.conn) + 1 /\ FwdStop(fwdPos)
    BY <1>3 DEF ForwardSkip, ForwardPass, ForwardBreak, FwdScanning
  <2> QED
    BY <1>1, <2>1, MoveExact
<1> QED
  BY <1>2, <1>3 DEF ForwardScan

\* reset(): the iterator begins where nothing that can be boarded is passed over
LEMMA ResetExact ==
    ASSUME TypeOK, TypeOK', Regular, Restart, pc' = "forward"
    PROVE  ForwardExact'
<1>1. /\ DataOK /\ ResetForward /\ q.forward /\ UNCHANGED <<tt, q>>
      /\ departureTime' = q.time
      /\ fwdPos' = ForwardBegin(q.time \div SecondsPerHour)
      /\ FitsShort /\ WithinCache
  BY DEF TypeOK, DataOK, Restart, StartScan, dataVars, Regular
<1>2. /\ Boardable' = Boardable /\ Conns' = Conns
      /\ \A x : Alightable(x)' <=> Alightable(x)
  BY <1>1, BoardableFixed DEF Conns
<1>3. /\ \A t \in Trips : enter'[t] = NoConnection
      /\ \A n \in Nodes : fwdEgress'[n] = NoConnection
      /\ \A n \in AccessNodes : fwdTime'[n] = q.time + q.access[n]
      /\ egressReached' = MAX_INT
  BY <1>1 DEF ResetForward, AccessNodes
<1>4. (\A t \in Trips : EnterBoardable(t)') /\ \A n \in Nodes : EgressAlightable(n)'
  BY <1>3 DEF EnterBoardable, EgressAlightable
<1>5. EgressMet' /\ AccessKept'
  <2>1. \A n \in AccessNodes : q.time + q.access[n] \in Nat
    BY <1>1, DataType DEF AccessNodes
  <2> QED
    BY <1>1, <1>3, <2>1, LargeNumbers DEF EgressMet, AccessKept, AccessNodes
<1>6. ASSUME NEW c \in Conns, Late(c) PROVE ~ (c < fwdPos')
  <2> DEFINE hour == q.time \div SecondsPerHour
  <2>1. q.time \in Nat
    BY <1>1, DataType
  <2>2. hour \in Nat /\ hour * SecondsPerHour <= q.time /\ hour < CacheEndHour
    BY <1>1, <2>1, SMT DEF SecondsPerHour, WithinCache
  <2>3. PICK n \in AccessNodes : tt.conn[c].dep >= q.time + q.access[n]
    BY <1>6 DEF Late
  <2>4. q.access[n] \in Nat /\ tt.conn[c].dep \in Nat
    BY <1>1, DataType, ConnectionType DEF AccessNodes
  <2>5. ~ (tt.conn[c].dep < hour * SecondsPerHour)
    <3>1. hour * SecondsPerHour \in Nat
      BY <2>2 DEF SecondsPerHour
    <3> DEFINE h == hour * SecondsPerHour
    <3> HIDE DEF h
    <3>2. h \in Nat /\ h <= q.time
      BY <2>2, <3>1 DEF h
    <3>3. ~ (tt.conn[c].dep < h)
      BY <2>1, <2>3, <2>4, <3>2
    <3> QED
      BY <3>3 DEF h
  <2> HIDE DEF hour
  <2>6. ~ (c < ForwardBegin(hour))
    BY <1>1, <2>2, <2>5, BeginPasses
  <2> QED
    BY <1>1, <2>6 DEF hour
<1>7. \A e \in Boardable : ~ (e < fwdPos')
  BY <1>1, <1>6, BoardableLate, BoardableConns
<1>8. \A x \in Conns : Alightable(x) => ~ (x < fwdPos')
  BY <1>1, <1>6, AlightableLate
<1>9. Complete'
  <2>1. fwdPos' \in 1 .. Len(tt'.conn) + 1
    BY DEF TypeOK, ForwardTypeOK
  <2>2. \E p \in 1 .. Len(tt'.conn) + 1 :
           /\ p = fwdPos'
           /\ \A e \in Boardable' : e < p => enter'[tt'.conn[e].trip] # NoConnection
           /\ \A x \in Conns' : x < p /\ Alightable(x)' => Accounted(x)'
    BY <1>2, <1>7, <1>8, <2>1
  <2> QED
    BY <2>2 DEF Complete, ScanAt, PassedBoardings, PassedRides
<1> QED
  BY <1>1, <1>4, <1>5, <1>9 DEF ForwardExact

LEMMA RegularFixed ==
    ASSUME UNCHANGED <<tt, q>>
    PROVE  Regular' <=> Regular
BY DEF Regular, FitsShort, ArrivalsFit, WithinCache, Progressing, Conns, EgressNodes

LEMMA InitAInv == Init => AInv
BY InitFInv DEF Init, AInv

LEMMA NextAInv == AInv /\ [Next]_vars => AInv'
<1> SUFFICES ASSUME AInv, [Next]_vars PROVE AInv'
  OBVIOUS
<1>1. FInv' /\ TypeOK /\ TypeOK'
  BY NextFInv DEF AInv, FInv
<1>2. UNCHANGED <<tt, q>>
  BY DEF Next, vars, dataVars, Reset, ForwardScan, ForwardFail, ForwardFound,
         ReverseScan, ReverseFail, ReverseFound, FollowStep, CloseJourney,
         OptimizeIteration, OptimizeEnd, Summarize
<1>3. Regular' <=> Regular
  BY <1>2, RegularFixed
<1>4. ASSUME Regular, pc' = "forward" PROVE ForwardExact'
  <2>1. CASE Reset
    BY <1>1, <1>4, <2>1, ResetRestarts, ResetExact
  <2>2. CASE ForwardScan
    BY <1>1, <1>4, <2>2, ScanExact
  <2>3. CASE Afterwards
    BY <1>4, <2>3, AfterwardsFrame
  <2>4. CASE ReverseScan \/ ForwardFound
    BY <1>4, <2>4 DEF ReverseScan, ReverseSkip, ReverseBreak, ReversePass, ReverseRide,
                      RevScanning, ForwardFound
  <2>5. CASE UNCHANGED vars
    <3>1. /\ UNCHANGED <<tt, q, pc, departureTime, fwdPos, fwdTime, fwdEgress, enter, egressReached>>
          /\ ForwardExact
      BY <1>4, <2>5 DEF vars, dataVars, fwdVars, AInv
    <3>2. /\ Boardable' = Boardable /\ Conns' = Conns
          /\ \A x : Alightable(x)' <=> Alightable(x)
      BY <3>1, BoardableFixed DEF Conns
    <3>3. (\A t \in Trips : EnterBoardable(t)') /\ \A n \in Nodes : EgressAlightable(n)'
      BY <3>1, <3>2 DEF ForwardExact, EnterBoardable, EgressAlightable
    <3>4. EgressMet' /\ AccessKept'
      BY <3>1 DEF ForwardExact, EgressMet, AccessKept, EgressNodes, AccessNodes
    <3>5. \A x : Accounted(x)' <=> Accounted(x)
      BY <3>1 DEF Accounted, Transferable
    <3>6. \A p : ScanAt(p)' <=> ScanAt(p)
      BY <3>1, <3>2 DEF ScanAt, FwdStop, EgressNodes
    <3>7. \A p : /\ PassedBoardings(p)' <=> PassedBoardings(p)
                 /\ PassedRides(p)' <=> PassedRides(p)
      BY <3>1, <3>2, <3>5 DEF PassedBoardings, PassedRides
    <3>8. Complete'
      BY <3>1, <3>6, <3>7 DEF ForwardExact, Complete
    <3> QED
      BY <3>1, <3>3, <3>4, <3>8 DEF ForwardExact
  <2> QED
    BY <2>1, <2>2, <2>3, <2>4, <2>5 DEF Next, Afterwards
<1> QED
  BY <1>1, <1>3, <1>4 DEF AInv

-----------------------------------------------------------------------------
(***************************************************************************)
(* The end of the scan                                                     *)
(***************************************************************************)
\* the arrivals at the destination within the maximum travel time
OnTimeArrivals == {a \in DestinationArrivals : a - q.time <= q.maxTotal}

LEMMA ArrivalOf ==
    ASSUME DataOK, NEW x, Alightable(x), tt.conn[x].to \in EgressNodes
    PROVE  /\ x \in Conns /\ tt.conn[x].arr \in Nat /\ q.egress[tt.conn[x].to] \in Nat
           /\ tt.conn[x].arr + q.egress[tt.conn[x].to] \in DestinationArrivals
<1>1. x \in Conns
  BY DEF Alightable
<1>2. tt.conn[x].arr \in Nat /\ q.egress[tt.conn[x].to] \in Nat
  BY <1>1, ConnectionType, DataType DEF EgressNodes
<1>3. tt.conn[x].arr + q.egress[tt.conn[x].to] \in DestinationArrivals
  BY <1>1 DEF DestinationArrivals, Alightable
<1> QED
  BY <1>1, <1>2, <1>3

LEMMA DestinationArrivalOf ==
    ASSUME NEW a \in DestinationArrivals
    PROVE  \E x \in Conns : /\ Alightable(x) /\ tt.conn[x].to \in EgressNodes
                            /\ a = tt.conn[x].arr + q.egress[tt.conn[x].to]
BY DEF DestinationArrivals, Alightable

\* the candidates of the final loop are real arrivals
LEMMA CandidateOnTime ==
    ASSUME DataOK, ForwardExact, NEW n \in EgressCandidates
    PROVE  EgressArrival(n) \in OnTimeArrivals /\ EgressArrival(n) \in Nat
<1>1. /\ n \in Nodes /\ n \in EgressNodes /\ fwdEgress[n] # NoConnection
      /\ EgressArrival(n) - departureTime <= q.maxTotal
  BY DEF EgressCandidates, EgressNodes
<1>2. Alightable(fwdEgress[n]) /\ tt.conn[fwdEgress[n]].to = n /\ departureTime = q.time
  BY <1>1 DEF ForwardExact, EgressAlightable
<1>3. EgressArrival(n) \in DestinationArrivals /\ EgressArrival(n) \in Nat
  BY <1>1, <1>2, ArrivalOf DEF EgressArrival
<1> QED
  BY <1>1, <1>2, <1>3 DEF OnTimeArrivals
\* no arrival is earlier than all candidates: what was scanned is recorded, and
\* what was left out when the scan stopped arrives later, or too late
LEMMA ArrivalCovered ==
    ASSUME DataOK, ForwardTypeOK, Regular, ForwardExact, FwdEnded, NEW a \in OnTimeArrivals
    PROVE  \E n \in EgressCandidates : EgressArrival(n) <= a
<1>1. PICK x \in Conns : /\ Alightable(x) /\ tt.conn[x].to \in EgressNodes
                         /\ a = tt.conn[x].arr + q.egress[tt.conn[x].to]
  BY DestinationArrivalOf DEF OnTimeArrivals
<1>2. PICK p \in 1 .. Len(tt.conn) + 1 : ScanAt(p) /\ PassedRides(p)
  BY DEF ForwardExact, Complete
<1>3. /\ a - q.time <= q.maxTotal /\ departureTime = q.time /\ q.time \in Nat /\ q.maxTotal \in Nat
      /\ tt.conn[x].arr \in Nat /\ tt.conn[x].dep \in Nat /\ x \in Nat /\ Len(tt.conn) \in Nat
      /\ q.egress[tt.conn[x].to] \in Nat
  <2>1. q.maxTotal \in Nat
    BY DEF DataOK, Query
  <2> QED
    BY <1>1, <2>1, ConnectionType, DataType DEF OnTimeArrivals, ForwardExact, EgressNodes
<1> DEFINE arr == tt.conn[x].arr
           walk == q.egress[tt.conn[x].to]
<1>a. arr \in Nat /\ walk \in Nat /\ a = arr + walk
  BY <1>1, <1>3
<1> HIDE DEF arr, walk
<1>b. a \in Nat /\ arr <= a
  BY <1>a
<1>4. ASSUME NEW n \in EgressNodes, fwdEgress[n] # NoConnection, EgressArrival(n) <= a
      PROVE  \E m \in EgressCandidates : EgressArrival(m) <= a
  <2>1. n \in Nodes /\ q.egress[n] \in Nat
    BY DataType DEF EgressNodes
  <2>2. fwdEgress[n] \in Conns
    BY <1>4, <2>1 DEF ForwardExact, EgressAlightable, Alightable
  <2>3. EgressArrival(n) < MAX_INT
    BY <2>2 DEF Regular, ArrivalsFit, EgressArrival
  <2>4. tt.conn[fwdEgress[n]].arr \in Nat
    BY <2>2, ConnectionType
  <2>5. EgressArrival(n) \in Nat /\ a \in Nat
    BY <1>b, <2>1, <2>4 DEF EgressArrival
  <2>6. EgressArrival(n) - departureTime <= q.maxTotal
    BY <1>3, <1>4, <2>5
  <2>7. n \in EgressCandidates
    BY <1>4, <2>3, <2>6 DEF EgressCandidates
  <2> QED
    BY <1>4, <2>7
<1>5. CASE x < p
  <2>1. Accounted(x)
    BY <1>1, <1>2, <1>5 DEF PassedRides
  <2> DEFINE n == tt.conn[x].to
  <2>2. fwdEgress[n] # NoConnection /\ tt.conn[fwdEgress[n]].arr <= tt.conn[x].arr
    BY <2>1 DEF Accounted
  <2>3. n \in Nodes /\ n \in EgressNodes
    BY <1>1 DEF EgressNodes
  <2>4. fwdEgress[n] \in Conns
    BY <2>2, <2>3 DEF ForwardExact, EgressAlightable, Alightable
  <2>5. tt.conn[fwdEgress[n]].arr \in Nat
    BY <2>4, ConnectionType
  <2>6. EgressArrival(n) <= a
    <3>1. tt.conn[fwdEgress[n]].arr <= arr /\ EgressArrival(n) = tt.conn[fwdEgress[n]].arr + walk
      BY <2>2 DEF EgressArrival, arr, walk
    <3>2. \A i, j, k \in Nat : i <= j => i + k <= j + k
      OBVIOUS
    <3> HIDE DEF n
    <3> QED
      BY <1>a, <2>5, <3>1, <3>2
  <2> QED
    BY <1>4, <2>2, <2>3, <2>6
<1>6. CASE ~ (x < p)
  <2>1. p \in Nat /\ p <= x /\ p \in Conns
    BY <1>1, <1>3, <1>6 DEF Conns
  <2>2. FwdStop(p)
    BY <1>2, <1>3, <2>1 DEF ScanAt, FwdEnded, Conns
  <2>3. /\ tt.conn[p].dep \in Nat /\ tt.conn[p].dep <= tt.conn[x].dep
        /\ tt.conn[x].dep <= tt.conn[x].arr
    BY <1>1, <2>1, Sorted, ConnectionType
  <2>4. ~ (tt.conn[p].dep - departureTime > q.maxTotal)
    <3>1. \A d, e, i, j, t, w \in Nat : d <= e /\ e <= i /\ i <= j /\ j - t <= w => ~ (d - t > w)
      OBVIOUS
    <3>2. tt.conn[x].dep <= arr
      BY <2>3 DEF arr
    <3> QED
      BY <1>3, <1>a, <1>b, <2>3, <3>1, <3>2
  <2>5. /\ egressReached < MAX_INT
        /\ \A n \in EgressNodes : tt.conn[p].dep > egressReached + q.egress[n]
    BY <2>2, <2>4 DEF FwdStop
  <2>6. PICK m \in EgressNodes : /\ fwdEgress[m] # NoConnection
                                 /\ tt.conn[fwdEgress[m]].arr <= egressReached
    BY <2>5 DEF ForwardExact, EgressMet
  <2>7. m \in Nodes /\ q.egress[m] \in Nat
    BY DataType DEF EgressNodes
  <2>8. fwdEgress[m] \in Conns
    BY <2>6, <2>7 DEF ForwardExact, EgressAlightable, Alightable
  <2>9. tt.conn[fwdEgress[m]].arr \in Nat /\ egressReached \in Nat
    BY <2>8, ConnectionType DEF ForwardTypeOK
  <2>10. EgressArrival(m) <= a
    <3>1. tt.conn[p].dep > egressReached + q.egress[m]
      BY <2>5
    <3>2. tt.conn[x].dep <= arr
      BY <2>3 DEF arr
    <3>3. tt.conn[p].dep <= a
      <4>1. \A d, e, i, j \in Nat : d <= e /\ e <= i /\ i <= j => d <= j
        OBVIOUS
      <4>2. /\ tt.conn[p].dep \in Nat /\ tt.conn[x].dep \in Nat /\ arr \in Nat /\ a \in Nat
            /\ tt.conn[p].dep <= tt.conn[x].dep /\ tt.conn[x].dep <= arr /\ arr <= a
        BY <1>3, <1>a, <1>b, <2>3, <3>2
      <4> QED
        BY <4>1, <4>2, Zenon
    <3>4. tt.conn[fwdEgress[m]].arr + q.egress[m] <= a
      <4>1. \A d, j, r, w, u \in Nat : d > r + w /\ d <= j /\ u <= r => u + w <= j
        OBVIOUS
      <4> QED
        BY <1>b, <2>3, <2>6, <2>7, <2>9, <3>1, <3>3, <4>1
    <3> QED
      BY <3>4 DEF EgressArrival
  <2> QED
    BY <1>4, <2>6, <2>10
<1> QED
  BY <1>5, <1>6

LEMMA ExactFound ==
    ASSUME DataOK, ForwardTypeOK, Regular, ForwardExact, FwdEnded
    PROVE  {EgressArrival(n) : n \in {n \in EgressCandidates : IsBestEgress(n)}}
              = (IF OnTimeArrivals = {} THEN {} ELSE {Min(OnTimeArrivals)})
<1> DEFINE best == {EgressArrival(n) : n \in {n \in EgressCandidates : IsBestEgress(n)}}
<1>1. \A n \in EgressCandidates : EgressArrival(n) \in OnTimeArrivals /\ EgressArrival(n) \in Nat
  BY CandidateOnTime
<1>2. CASE OnTimeArrivals = {}
  <2>1. EgressCandidates = {}
    BY <1>1, <1>2
  <2>2. best = {}
    BY <2>1
  <2> QED
    BY <1>2, <2>2
<1>3. CASE OnTimeArrivals # {}
  <2> DEFINE first == Min(OnTimeArrivals)
  <2>1. OnTimeArrivals \in SUBSET Nat
    <3> SUFFICES ASSUME NEW a \in OnTimeArrivals PROVE a \in Nat
      OBVIOUS
    <3>1. PICK x \in Conns : /\ tt.conn[x].to \in EgressNodes
                             /\ a = tt.conn[x].arr + q.egress[tt.conn[x].to]
      BY DestinationArrivalOf DEF OnTimeArrivals
    <3>2. tt.conn[x].arr \in Nat /\ q.egress[tt.conn[x].to] \in Nat
      BY <3>1, ConnectionType, DataType DEF EgressNodes
    <3> QED
      BY <3>1, <3>2
  <2>2. first \in OnTimeArrivals /\ \A a \in OnTimeArrivals : first <= a
    BY <1>3, <2>1, LeastNumber
  <2> HIDE DEF first
  <2>3. first \in Nat /\ \A a \in OnTimeArrivals : a \in Nat
    BY <2>1, <2>2
  <2>4. PICK n \in EgressCandidates : EgressArrival(n) <= first
    BY <2>2, ArrivalCovered
  <2>5. EgressArrival(n) = first
    BY <1>1, <2>2, <2>3, <2>4
  <2>6. IsBestEgress(n)
    BY <1>1, <2>2, <2>5 DEF IsBestEgress
  <2>7. ASSUME NEW m \in EgressCandidates, IsBestEgress(m) PROVE EgressArrival(m) = first
    <3>1. EgressArrival(m) <= first
      BY <2>5, <2>7 DEF IsBestEgress
    <3> QED
      BY <1>1, <2>2, <2>3, <3>1
  <2>8. best = {first}
    BY <2>5, <2>6, <2>7
  <2> QED
    BY <1>3, <2>8 DEF first
<1> QED
  BY <1>2, <1>3

(***************************************************************************)
(* forwardCalculation, for every network, timetable and query without a    *)
(* limit on the first wait, as long as the waiting time fits in a short,   *)
(* no arrival overflows an int, and the hour asked for is in the cache:    *)
(* when every vehicle takes time between two nodes, the calculation finds  *)
(* exactly the earliest arrival that can be travelled within the maximum   *)
(* travel time, although it handles each connection once, keeps one        *)
(* boarding per trip, starts at the hour and stops early.                  *)
(***************************************************************************)
THEOREM EarliestArrival ==
    Spec => [](FitsShort /\ ArrivalsFit /\ WithinCache => EarliestArrivalFound)
<1>1. AInv => (FitsShort /\ ArrivalsFit /\ WithinCache => EarliestArrivalFound)
  <2> SUFFICES ASSUME AInv, FitsShort, ArrivalsFit, WithinCache, q.maxFirstWait = -1,
                      Progressing, FwdEnded
               PROVE  {EgressArrival(n) : n \in {n \in EgressCandidates : IsBestEgress(n)}}
                         = (IF OnTimeArrivals = {} THEN {} ELSE {Min(OnTimeArrivals)})
    BY DEF EarliestArrivalFound, EarliestValidArrivalFound, OnTimeArrivals
  <2>1. Regular
    BY DEF Regular
  <2>2. DataOK /\ ForwardTypeOK /\ ForwardExact
    BY <2>1 DEF AInv, FInv, TypeOK, DataOK, FwdEnded
  <2> QED
    BY <2>1, <2>2, ExactFound
<1> QED
  BY <1>1, InitAInv, NextAInv, PTL DEF Spec
-----------------------------------------------------------------------------
(***************************************************************************)
(* All nodes from a place                                                  *)
(***************************************************************************)
\* a vehicle left at a node is one the scan has boarded
EgressBoarded(n) ==
    fwdEgress[n] # NoConnection =>
        /\ Rides(enter[tt.conn[fwdEgress[n]].trip], fwdEgress[n])
        /\ tt.conn[fwdEgress[n]].to = n

AllBoarded == \A n \in Nodes : EgressBoarded(n)

LEMMA RideBoarded ==
    ASSUME FInv, AllBoarded, ForwardRide, UNCHANGED <<tt, q, pc>>
    PROVE  AllBoarded'
<1> DEFINE c == fwdPos
           trip == tt.conn[c].trip
<1>1. /\ TypeOK /\ DataOK /\ ForwardTypeOK /\ pc = "forward" /\ c \in Conns
      /\ enter' = [enter EXCEPT ![trip] = FwdEnter(c)]
      /\ \/ tt.conn[c].canUnboard /\ FwdEnter(c) # NoConnection /\ Unboard(c)
         \/ UNCHANGED fwdEgress
  BY DEF FInv, TypeOK, DataOK, ForwardRide, FwdScanning
<1>2. trip \in Trips /\ tt.conn[c].to \in Nodes /\ c \in Nat \ {0}
  BY <1>1, ConnectionType
<1>3. \A t \in Trips : enter'[t] = IF t = trip THEN FwdEnter(c) ELSE enter[t]
  BY <1>1, <1>2 DEF ForwardTypeOK
<1>4. \A t \in Trips : enter[t] # NoConnection => enter'[t] = enter[t]
  BY <1>3 DEF FwdEnter
<1>5. \A e, x : Rides(e, x)' <=> Rides(e, x)
  BY DEF Rides, Conns
<1>6. ASSUME tt.conn[c].canUnboard, FwdEnter(c) # NoConnection
      PROVE  Rides(enter'[trip], c)
  <2>1. enter'[trip] = FwdEnter(c)
    BY <1>2, <1>3
  <2>2. CASE enter[trip] # NoConnection
    <3>1. FwdEnter(c) = enter[trip]
      BY <2>2 DEF FwdEnter
    <3>2. EnterSound(trip) /\ enter[trip] < c /\ enter[trip] \in Nat
      BY <1>1, <1>2, SoundParts DEF FInv, EnterPassed, ForwardTypeOK
    <3>3. /\ enter[trip] \in Conns /\ tt.conn[enter[trip]].trip = trip
          /\ tt.conn[enter[trip]].canBoard
      BY <2>2, <3>2 DEF EnterSound
    <3>4. enter[trip] <= c
      BY <1>2, <3>2
    <3> QED
      BY <1>1, <1>6, <2>1, <3>1, <3>3, <3>4 DEF Rides
  <2>3. CASE enter[trip] = NoConnection
    <3>1. FwdEnter(c) = c /\ tt.conn[c].canBoard
      BY <1>6, <2>3 DEF FwdEnter
    <3> QED
      BY <1>1, <1>2, <1>6, <2>1, <3>1 DEF Rides
  <2> QED
    BY <2>2, <2>3
<1>7. ASSUME NEW n \in Nodes, fwdEgress'[n] = fwdEgress[n], fwdEgress'[n] # NoConnection
      PROVE  EgressBoarded(n)'
  <2>1. PICK x : x = fwdEgress[n]
    OBVIOUS
  <2>2. Rides(enter[tt.conn[x].trip], x) /\ tt.conn[x].to = n
    BY <1>7, <2>1 DEF AllBoarded, EgressBoarded
  <2>3. tt.conn[x].trip \in Trips /\ enter[tt.conn[x].trip] # NoConnection
    BY <1>1, <2>2, ConnectionType DEF Rides, NoConnection
  <2>4. enter'[tt.conn[x].trip] = enter[tt.conn[x].trip]
    BY <1>4, <2>3
  <2> QED
    BY <1>5, <1>7, <2>1, <2>2, <2>4 DEF EgressBoarded
<1> SUFFICES ASSUME NEW n \in Nodes, fwdEgress'[n] # NoConnection PROVE EgressBoarded(n)'
  BY DEF AllBoarded, EgressBoarded
<1>8. CASE fwdEgress'[n] = fwdEgress[n]
  BY <1>7, <1>8
<1>9. CASE fwdEgress'[n] # fwdEgress[n]
  <2>1. tt.conn[c].canUnboard /\ FwdEnter(c) # NoConnection /\ Unboard(c)
    BY <1>1, <1>9
  <2>2. n = tt.conn[c].to /\ fwdEgress'[n] = c
    BY <1>1, <1>9, <2>1, UnboardEgress
  <2> QED
    BY <1>5, <1>6, <2>1, <2>2 DEF EgressBoarded
<1> QED
  BY <1>8, <1>9

LEMMA ScanBoarded ==
    ASSUME FInv, AllBoarded, ForwardScan
    PROVE  AllBoarded'
<1>1. UNCHANGED <<tt, q, pc>>
  BY DEF ForwardScan, dataVars
<1>2. CASE ForwardRide
  BY <1>1, <1>2, RideBoarded
<1>3. CASE ForwardSkip \/ ForwardBreak \/ ForwardPass
  BY <1>1, <1>3 DEF ForwardSkip, ForwardBreak, ForwardPass, AllBoarded, EgressBoarded, Rides, Conns
<1> QED
  BY <1>2, <1>3 DEF ForwardScan

-----------------------------------------------------------------------------
\* the arrival recorded for a node
Arrival(n) == tt.conn[fwdEgress[n]].arr

\* nodes where a vehicle can be left in time are known with their first arrival
NodeExact(n) ==
    /\ EgressAlightable(n)
    /\ \A x \in Conns :
         Alightable(x) /\ tt.conn[x].to = n /\ tt.conn[x].arr - q.time <= q.maxTotal =>
             fwdEgress[n] # NoConnection /\ Arrival(n) <= tt.conn[x].arr

ArrivalsExact == \A n \in Nodes : NodeExact(n)

\* when the scan has ended: only the maximum travel time stopped it
LEMMA EndExact ==
    ASSUME DataOK, ForwardTypeOK, ForwardExact, FwdEnded, EgressNodes = {}
    PROVE  ArrivalsExact
<1> SUFFICES ASSUME NEW x \in Conns, Alightable(x), tt.conn[x].arr - q.time <= q.maxTotal
             PROVE  LET n == tt.conn[x].to
                    IN  fwdEgress[n] # NoConnection /\ Arrival(n) <= tt.conn[x].arr
  BY DEF ArrivalsExact, NodeExact, ForwardExact
<1>1. PICK p \in 1 .. Len(tt.conn) + 1 : ScanAt(p) /\ PassedRides(p)
  BY DEF ForwardExact, Complete
<1>2. /\ departureTime = q.time /\ q.time \in Nat /\ q.maxTotal \in Nat
      /\ tt.conn[x].arr \in Nat /\ tt.conn[x].dep \in Nat /\ x \in Nat /\ Len(tt.conn) \in Nat
      /\ tt.conn[x].dep <= tt.conn[x].arr
  BY ConnectionType, DataType, Sorted DEF ForwardExact, DataOK, Query
<1>3. x < p
  <2> SUFFICES ASSUME ~ (x < p) PROVE FALSE
    OBVIOUS
  <2>1. p <= x /\ p # Len(tt.conn) + 1
    BY <1>1, <1>2 DEF Conns
  <2>2. p \in Conns /\ FwdStop(p)
    BY <1>1, <2>1 DEF ScanAt, FwdEnded
  <2>3. tt.conn[p].dep - departureTime > q.maxTotal
    BY <2>2 DEF FwdStop
  <2>4. tt.conn[p].dep <= tt.conn[x].dep /\ tt.conn[p].dep \in Nat
    BY <2>1, <2>2, Sorted, ConnectionType
  <2>5. \A a, d, e, t, m \in Nat : d <= a /\ e <= d /\ e - t > m => ~ (a - t <= m)
    OBVIOUS
  <2> QED
    BY <1>2, <2>3, <2>4, <2>5
<1>4. Accounted(x)
  BY <1>1, <1>3 DEF PassedRides
<1> QED
  BY <1>4 DEF Accounted, Arrival

-----------------------------------------------------------------------------
(***************************************************************************)
(* After the scan: what the loop over the nodes reads, the journey it      *)
(* follows and the list it makes                                           *)
(***************************************************************************)
Labelled ==
    /\ DataOK /\ ForwardTypeOK /\ departureTime = q.time
    /\ \A t \in Trips : EnterSound(t)
    /\ \A n \in Nodes : StepSound(n)
    /\ AllBoarded

LEMMA LabelledKept ==
    ASSUME Labelled, UNCHANGED <<tt, q, departureTime, fwdVars>>
    PROVE  Labelled' /\ (ArrivalsExact => ArrivalsExact')
<1>1. UNCHANGED <<fwdPos, fwdTime, fwdSteps, fwdEgress, enter, egressReached, fwdCount>>
  BY DEF fwdVars
<1>2. \A e, x : Rides(e, x)' <=> Rides(e, x)
  BY DEF Rides, Conns
<1>3. \A c : MinWait(c)' = MinWait(c)
  BY DEF MinWait
<1>4. DataOK' /\ ForwardTypeOK' /\ departureTime' = q'.time
  BY <1>1 DEF Labelled, DataOK, ForwardTypeOK
<1>5. \A t \in Trips : EnterSound(t)'
  BY <1>1, <1>3 DEF Labelled, EnterSound, Conns
<1>6. \A n \in Nodes : StepSound(n)'
  BY <1>1, <1>2 DEF Labelled, StepSound, AccessNodes, Transferable
<1>7. AllBoarded'
  BY <1>1, <1>2 DEF Labelled, AllBoarded, EgressBoarded
<1>8. ASSUME ArrivalsExact PROVE ArrivalsExact'
  <2>1. \A x : Alightable(x)' <=> Alightable(x)
    BY BoardableFixed
  <2>2. \A n \in Nodes : NodeExact(n)'
    BY <1>1, <1>8, <2>1 DEF ArrivalsExact, NodeExact, EgressAlightable, Arrival, Conns
  <2> QED
    BY <2>2 DEF ArrivalsExact
<1> QED
  BY <1>4, <1>5, <1>6, <1>7, <1>8 DEF Labelled

\* a leg of the journey that is counted, and how it is reached
Boarded(leg) ==
    Rides(leg.enter, leg.exit) /\ leg.enter = enter[tt.conn[leg.exit].trip]

FollowsBack ==
    /\ journey \in Seq(Step)
    /\ \A k \in DOMAIN journey : Boarded(journey[k])
    /\ \A k \in 1 .. Len(journey) - 1 : BoardedAfter(journey[k + 1].exit, journey[k].enter)
    /\ cursor \in Step
    /\ IF journey = <<>> THEN Boarded(cursor)
       ELSE cursor = fwdSteps[tt.conn[journey[Len(journey)].enter].from]

\* a step of the labels has both connections or none
LEMMA StepBoarded ==
    ASSUME Labelled, NEW n \in Nodes
    PROVE  /\ fwdSteps[n] \in Step
           /\ hasConnections(fwdSteps[n]) => Boarded(fwdSteps[n])
           /\ ~ hasConnections(fwdSteps[n]) => fwdSteps[n].enter = NoConnection
<1>1. fwdSteps[n] \in Step /\ StepSound(n)
  BY DEF Labelled, ForwardTypeOK
<1>2. ASSUME fwdSteps[n].enter # NoConnection
      PROVE  Boarded(fwdSteps[n]) /\ fwdSteps[n].exit \in Conns
  BY <1>1, <1>2 DEF StepSound, Boarded, Rides
<1>3. \A c \in Conns : c # NoConnection
  BY ConnectionType DEF Labelled, NoConnection
<1> QED
  BY <1>1, <1>2, <1>3 DEF hasConnections

\* what the label of the node a leg is boarded at says of it
LEMMA LegCaught ==
    ASSUME Labelled, NEW leg, Boarded(leg)
    PROVE  /\ leg.enter \in Conns /\ tt.conn[leg.enter].from \in Nodes
           /\ fwdTime[tt.conn[leg.enter].from] + MinWait(leg.enter) <= tt.conn[leg.enter].dep
<1> DEFINE e == leg.enter
           t == tt.conn[leg.exit].trip
<1>1. DataOK /\ e \in Conns /\ leg.exit \in Conns /\ e = enter[t]
  BY DEF Labelled, Boarded, Rides
<1>2. t \in Trips /\ tt.conn[e].from \in Nodes /\ e # NoConnection
  BY <1>1, ConnectionType DEF NoConnection
<1>3. EnterSound(t)
  BY <1>2 DEF Labelled
<1>4. fwdTime[tt.conn[enter[t]].from] + MinWait(enter[t]) <= tt.conn[enter[t]].dep
  BY <1>1, <1>2, <1>3 DEF EnterSound
<1> HIDE DEF t
<1> QED
  BY <1>1, <1>2, <1>4

\* the leg before it is left in time
LEMMA LegAfter ==
    ASSUME Labelled, NEW leg, Boarded(leg),
           hasConnections(fwdSteps[tt.conn[leg.enter].from])
    PROVE  BoardedAfter(fwdSteps[tt.conn[leg.enter].from].exit, leg.enter)
<1>1. PICK e : e = leg.enter
  OBVIOUS
<1>2. PICK n \in Nodes : n = tt.conn[e].from
  BY <1>1, LegCaught
<1>3. e \in Conns /\ fwdTime[n] + MinWait(e) <= tt.conn[e].dep
  BY <1>1, <1>2, LegCaught
<1>4. PICK x : x = fwdSteps[n].exit
  OBVIOUS
<1>5. fwdSteps[n].enter # NoConnection /\ StepSound(n) /\ DataOK
  BY <1>1, <1>2 DEF hasConnections, Labelled
<1>6. /\ x \in Conns /\ Transferable(tt.conn[x].to, n)
      /\ tt.walk[tt.conn[x].to][n] <= q.maxTransfer
      /\ fwdTime[n] = tt.conn[x].arr + tt.walk[tt.conn[x].to][n]
  BY <1>4, <1>5 DEF StepSound, Rides
<1>7. tt.conn[x].arr + tt.walk[tt.conn[x].to][n] + MinWait(e) <= tt.conn[e].dep
  BY <1>3, <1>6
<1>8. BoardedAfter(x, e)
  BY <1>2, <1>6, <1>7 DEF BoardedAfter
<1> QED
  BY <1>1, <1>2, <1>4, <1>8

\* the first leg is reached on foot
LEMMA LegFromOrigin ==
    ASSUME Labelled, FitsShort, q.maxFirstWait = -1, NEW leg, Boarded(leg),
           fwdSteps[tt.conn[leg.enter].from].enter = NoConnection
    PROVE  BoardedFromOrigin(leg.enter)
<1>1. PICK e : e = leg.enter
  OBVIOUS
<1>2. PICK n \in Nodes : n = tt.conn[e].from
  BY <1>1, LegCaught
<1>3. e \in Conns /\ fwdTime[n] + MinWait(e) <= tt.conn[e].dep
  BY <1>1, <1>2, LegCaught
<1>4. DataOK /\ StepSound(n) /\ departureTime = q.time /\ fwdTime[n] \in Int
  BY DEF Labelled, ForwardTypeOK
<1>5. /\ MinWait(e) \in Nat /\ tt.conn[e].dep \in Nat /\ tt.conn[e].arr \in Nat
      /\ tt.conn[e].dep <= tt.conn[e].arr /\ tt.conn[e].arr < MAX_INT
  BY <1>3, <1>4, MinWaitNat, ConnectionType, Sorted
<1>6. fwdTime[n] # MAX_INT
  BY <1>3, <1>4, <1>5, LargeNumbers
<1>7. n \in AccessNodes /\ fwdTime[n] = q.time + q.access[n]
  BY <1>1, <1>2, <1>4, <1>6 DEF StepSound
<1>8. q.time + q.access[n] + MinWait(e) <= tt.conn[e].dep
  BY <1>3, <1>7
<1>9. BoardedFromOrigin(e)
  BY <1>2, <1>7, <1>8 DEF BoardedFromOrigin
<1> QED
  BY <1>1, <1>9

LEMMA CountedFeasible ==
    ASSUME Labelled, FollowsBack, FitsShort
    PROVE  CountedJourneyFeasible
<1>1. ASSUME ~ hasConnections(cursor), q.maxFirstWait = -1
      PROVE  BoardedFromOrigin(journey[Len(journey)].enter)
  <2>1. journey # <<>>
    <3> SUFFICES ASSUME journey = <<>> PROVE FALSE
      OBVIOUS
    <3>1. cursor.enter \in Conns /\ cursor.exit \in Conns
      BY DEF FollowsBack, Boarded, Rides
    <3> QED
      BY <1>1, <3>1, ConnectionType DEF hasConnections, Labelled, NoConnection
  <2>2. Len(journey) \in DOMAIN journey
    BY <2>1 DEF FollowsBack
  <2>3. PICK leg : leg = journey[Len(journey)]
    OBVIOUS
  <2>4. Boarded(leg) /\ cursor = fwdSteps[tt.conn[leg.enter].from]
    BY <2>1, <2>2, <2>3 DEF FollowsBack
  <2>5. tt.conn[leg.enter].from \in Nodes
    BY <2>4, LegCaught
  <2>6. fwdSteps[tt.conn[leg.enter].from].enter = NoConnection
    BY <1>1, <2>4, <2>5, StepBoarded
  <2>7. BoardedFromOrigin(leg.enter)
    BY <1>1, <2>4, <2>6, LegFromOrigin
  <2> QED
    BY <2>3, <2>7
<1> QED
  BY <1>1 DEF CountedJourneyFeasible, FollowsBack, Boarded

\* the nodes the loop goes over, and those it is done with
Reached == {n \in Nodes : fwdEgress[n] # NoConnection}

Taken == Reached \ (todo \cup IF pc = "count" THEN {node} ELSE {})

Listing ==
    /\ todo \subseteq Reached
    /\ pc = "count" => node \in Reached \ todo
    /\ pc = "done" => todo = {}
    /\ \A n \in Nodes :
         ListedTimes(n) = IF n \in Taken /\ Arrival(n) - q.time <= q.maxTotal
                          THEN {Arrival(n)} ELSE {}

(***************************************************************************)
(* The invariant: nothing is said of the calculations towards a place, but *)
(* that they follow no journey back.                                       *)
(***************************************************************************)
PInv ==
    /\ DataOK /\ OnePlace
    /\ pc = "reset" => TypeOK /\ listed = {}
    /\ pc = "forward" => q.forward /\ AInv /\ AllBoarded /\ departureTime = q.time /\ listed = {}
    /\ q.forward => pc \in {"reset", "forward", "list", "count", "done", "failed"}
    /\ q.forward /\ pc \in {"list", "count", "done"} =>
          Labelled /\ Listing /\ (Regular => ArrivalsExact)
    /\ pc = "count" => q.forward /\ FollowsBack

LEMMA InitPInv == InitAllNodes => PInv
<1> SUFFICES ASSUME InitAllNodes PROVE PInv
  OBVIOUS
<1>1. TypeOK /\ pc = "reset" /\ listed = {} /\ q \in Queries
  BY InitType DEF InitAllNodes, Init
<1>2. DataOK
  BY <1>1 DEF TypeOK, DataOK
<1>3. OnePlace
  BY DEF InitAllNodes
<1> QED
  BY <1>1, <1>2, <1>3 DEF PInv

\* the steps of the loop leave the data and the labels alone
LEMMA DataKept ==
    ASSUME PInv, UNCHANGED <<tt, q>>
    PROVE  DataOK' /\ OnePlace' /\ q'.forward = q.forward /\ (Regular' <=> Regular)
BY RegularFixed DEF PInv, DataOK, OnePlace, EgressNodes, AccessNodes

LEMMA ResetPInv ==
    ASSUME PInv, ResetAllNodes
    PROVE  PInv'
<1>1. TypeOK /\ Restart /\ listed' = listed /\ listed = {} /\ UNCHANGED <<tt, q>> /\ pc = "reset"
  BY DEF PInv, ResetAllNodes, Restart, Fail, listVars, dataVars
<1>2. TypeOK' /\ EnterPassed' /\ ForwardLabelsSound'
  BY <1>1, ResetType, ResetFInv
<1>3. DataOK' /\ OnePlace' /\ q'.forward = q.forward /\ (Regular' <=> Regular)
  BY <1>1, DataKept
<1>4. /\ pc' \in {"forward", "reverse", "failed"}
      /\ q.forward => pc' \in {"forward", "failed"}
      /\ pc' = "forward" => q.forward /\ departureTime' = q'.time
  BY <1>1 DEF Restart, StartScan
<1>5. AllBoarded'
  BY <1>1 DEF Restart, ResetForward, AllBoarded, EgressBoarded
<1>6. AInv'
  BY <1>1, <1>2, <1>3, ResetExact DEF AInv, FInv
<1> QED
  BY <1>1, <1>3, <1>4, <1>5, <1>6 DEF PInv

LEMMA ForwardPInv ==
    ASSUME PInv, ForwardAllNodes
    PROVE  PInv'
<1>1. /\ ForwardScan /\ UNCHANGED <<revVars, journeyVars, listed>>
      /\ UNCHANGED <<tt, q, pc, departureTime>> /\ pc = "forward"
  BY DEF ForwardAllNodes, ForwardScan, ForwardSkip, ForwardBreak, ForwardPass, ForwardRide,
         FwdScanning, dataVars, listVars
<1>2. AInv /\ FInv /\ TypeOK /\ AllBoarded
  BY <1>1 DEF PInv, AInv, FInv
<1>3. TypeOK' /\ EnterPassed' /\ ForwardLabelsSound' /\ AllBoarded'
  BY <1>1, <1>2, ForwardScanType, ForwardScanFInv, ScanBoarded
<1>4. DataOK' /\ OnePlace' /\ q'.forward = q.forward /\ (Regular' <=> Regular)
  BY <1>1, DataKept
<1>5. AInv'
  BY <1>1, <1>2, <1>3, <1>4, ScanExact DEF AInv, FInv
<1> QED
  BY <1>1, <1>3, <1>4, <1>5 DEF PInv

LEMMA ForwardEndPInv ==
    ASSUME PInv, ForwardAllNodesEnd
    PROVE  PInv'
<1>1. /\ UNCHANGED <<tt, q, departureTime, fwdVars, node, listed>> /\ pc = "forward" /\ FwdEnded
      /\ \/ pc' = "list" /\ todo' = Reached
         \/ pc' = "failed"
  BY DEF ForwardAllNodesEnd, FwdEnded, dataVars, Fail, Reached
<1>2. DataOK' /\ OnePlace' /\ q'.forward = q.forward /\ (Regular' <=> Regular)
  BY <1>1, DataKept
<1>3. /\ q.forward /\ AInv /\ AllBoarded /\ departureTime = q.time /\ listed = {} /\ OnePlace
      /\ DataOK /\ ForwardTypeOK /\ ForwardLabelsSound
  BY <1>1 DEF PInv, AInv, FInv, TypeOK
<1>4. Labelled
  BY <1>3, SoundParts DEF Labelled
<1>5. Regular => ArrivalsExact
  BY <1>1, <1>3, EndExact DEF AInv, OnePlace
<1>6. Labelled' /\ (Regular' => ArrivalsExact')
  BY <1>1, <1>2, <1>4, <1>5, LabelledKept
<1>7. ASSUME pc' = "list" PROVE Listing'
  <2>1. todo' = Reached' /\ Taken' = {} /\ \A n : ListedTimes(n)' = {}
    BY <1>1, <1>3, <1>7 DEF Reached, Taken, ListedTimes, fwdVars
  <2> QED
    BY <1>7, <2>1 DEF Listing
<1> QED
  BY <1>1, <1>2, <1>6, <1>7 DEF PInv

LEMMA NextNodePInv ==
    ASSUME PInv, NextNode
    PROVE  PInv'
<1>1. PICK n \in todo :
         /\ UNCHANGED <<tt, q, departureTime, fwdVars, listed>> /\ pc = "list"
         /\ node' = n /\ todo' = todo \ {n} /\ journey' = <<>>
         /\ cursor' = (IF q.forward THEN EgressStep(n) ELSE accSteps[n])
         /\ pc' = (IF q.forward THEN "count" ELSE "journey")
  BY DEF NextNode, dataVars
<1>2. DataOK' /\ OnePlace' /\ q'.forward = q.forward /\ (Regular' <=> Regular)
  BY <1>1, DataKept
<1>3. CASE ~ q.forward
  BY <1>1, <1>2, <1>3 DEF PInv
<1>4. CASE q.forward
  <2>1. Labelled /\ Listing /\ (Regular => ArrivalsExact)
    BY <1>1, <1>4 DEF PInv
  <2>2. Labelled' /\ (Regular' => ArrivalsExact')
    BY <1>1, <1>2, <2>1, LabelledKept
  <2>3. n \in Nodes /\ fwdEgress[n] # NoConnection /\ n \in Reached
    BY <2>1 DEF Listing, Reached
  <2>4. /\ Reached' = Reached /\ \A m : Arrival(m)' = Arrival(m)
        /\ \A m : ListedTimes(m)' = ListedTimes(m)
    BY <1>1 DEF Reached, Arrival, ListedTimes, fwdVars
  <2>5. Taken' = Taken
    BY <1>1, <1>4, <2>3, <2>4 DEF Taken
  <2>6. Listing'
    BY <1>1, <1>4, <2>1, <2>3, <2>4, <2>5 DEF Listing
  <2>7. FollowsBack'
    <3>1. PICK x : x = fwdEgress[n]
      OBVIOUS
    <3>2. cursor' = JourneyStep(enter[tt.conn[x].trip], x, 0)
      BY <1>1, <1>4, <3>1 DEF EgressStep
    <3>3. Rides(enter[tt.conn[x].trip], x)
      BY <2>1, <2>3, <3>1 DEF Labelled, AllBoarded, EgressBoarded
    <3>4. Boarded(cursor')
      BY <3>2, <3>3 DEF Boarded, JourneyStep
    <3>5. Boarded(cursor)'
      BY <1>1, <3>4 DEF Boarded, Rides, Conns, fwdVars
    <3>6. cursor' \in Step
      <4>1. enter[tt.conn[x].trip] \in Nat /\ x \in Nat
        BY <2>1, <3>3, ConnectionType DEF Labelled, Rides
      <4> QED
        BY <3>2, <4>1 DEF JourneyStep, Step
    <3> QED
      BY <1>1, <3>5, <3>6 DEF FollowsBack
  <2> QED
    BY <1>1, <1>2, <1>4, <2>2, <2>6, <2>7 DEF PInv
<1> QED
  BY <1>3, <1>4

LEMMA ReturnPInv ==
    ASSUME PInv, Return
    PROVE  PInv'
<1>1. /\ UNCHANGED <<tt, q, departureTime, fwdVars, todo, node, listed>>
      /\ pc = "list" /\ todo = {} /\ pc' = "done"
  BY DEF Return, dataVars, listVars
<1>2. DataOK' /\ OnePlace' /\ q'.forward = q.forward /\ (Regular' <=> Regular)
  BY <1>1, DataKept
<1>3. ASSUME q.forward PROVE Labelled' /\ Listing' /\ (Regular' => ArrivalsExact')
  <2>1. Labelled /\ Listing /\ (Regular => ArrivalsExact)
    BY <1>1, <1>3 DEF PInv
  <2>2. Labelled' /\ (Regular' => ArrivalsExact')
    BY <1>1, <1>2, <2>1, LabelledKept
  <2>3. /\ Reached' = Reached /\ \A m : Arrival(m)' = Arrival(m)
        /\ \A m : ListedTimes(m)' = ListedTimes(m)
    BY <1>1 DEF Reached, Arrival, ListedTimes, fwdVars
  <2>4. Taken' = Taken
    BY <1>1, <2>3 DEF Taken
  <2>5. Listing'
    BY <1>1, <2>1, <2>3, <2>4 DEF Listing
  <2> QED
    BY <2>2, <2>5
<1> QED
  BY <1>1, <1>2, <1>3 DEF PInv

LEMMA FollowBackPInv ==
    ASSUME PInv, FollowBack
    PROVE  PInv'
<1>1. /\ UNCHANGED <<tt, q, departureTime, fwdVars, todo, node, listed>>
      /\ pc = "count" /\ pc' = "count" /\ hasConnections(cursor)
      /\ journey' = Append(journey, cursor)
      /\ cursor' = fwdSteps[tt.conn[cursor.enter].from]
  BY DEF FollowBack, dataVars, listVars
<1>2. DataOK' /\ OnePlace' /\ q'.forward = q.forward /\ (Regular' <=> Regular)
  BY <1>1, DataKept
<1>3. q.forward /\ FollowsBack /\ Labelled /\ Listing /\ (Regular => ArrivalsExact)
  BY <1>1 DEF PInv
<1>4. Labelled' /\ (Regular' => ArrivalsExact')
  BY <1>1, <1>2, <1>3, LabelledKept
<1>5. Listing'
  <2>1. /\ Reached' = Reached /\ \A m : Arrival(m)' = Arrival(m)
        /\ \A m : ListedTimes(m)' = ListedTimes(m)
    BY <1>1 DEF Reached, Arrival, ListedTimes, fwdVars
  <2>2. Taken' = Taken
    BY <1>1, <2>1 DEF Taken
  <2> QED
    BY <1>1, <1>3, <2>1, <2>2 DEF Listing
<1>6. FollowsBack'
  <2>1. journey \in Seq(Step) /\ cursor \in Step /\ Len(journey) \in Nat
    BY <1>3 DEF FollowsBack
  <2>2. /\ journey' \in Seq(Step) /\ Len(journey') = Len(journey) + 1 /\ journey' # <<>>
        /\ DOMAIN journey' = 1 .. Len(journey) + 1
        /\ \A k \in 1 .. Len(journey) : journey'[k] = journey[k]
        /\ journey'[Len(journey) + 1] = cursor
    BY <1>1, <2>1
  <2>3. Boarded(cursor)
    <3>1. CASE journey = <<>>
      BY <1>3, <3>1 DEF FollowsBack
    <3>2. CASE journey # <<>>
      <4>1. PICK leg : leg = journey[Len(journey)]
        OBVIOUS
      <4>2. Boarded(leg) /\ cursor = fwdSteps[tt.conn[leg.enter].from]
        BY <1>3, <2>1, <3>2, <4>1 DEF FollowsBack
      <4> QED
        BY <1>1, <1>3, <4>2, LegCaught, StepBoarded
    <3> QED
      BY <3>1, <3>2
  <2>4. ASSUME journey # <<>>
        PROVE  BoardedAfter(cursor.exit, journey[Len(journey)].enter)
    <3>1. PICK leg : leg = journey[Len(journey)]
      OBVIOUS
    <3>2. Boarded(leg) /\ cursor = fwdSteps[tt.conn[leg.enter].from]
      BY <1>3, <2>1, <2>4, <3>1 DEF FollowsBack
    <3> QED
      BY <1>1, <1>3, <3>1, <3>2, LegAfter
  <2>5. \A k \in DOMAIN journey' : Boarded(journey'[k])
    <3> SUFFICES ASSUME NEW k \in 1 .. Len(journey) + 1 PROVE Boarded(journey'[k])
      BY <2>2
    <3>1. CASE k \in 1 .. Len(journey)
      BY <1>3, <2>1, <2>2, <3>1 DEF FollowsBack
    <3>2. CASE k = Len(journey) + 1
      BY <2>2, <2>3, <3>2
    <3> QED
      BY <2>1, <3>1, <3>2
  <2>6. \A k \in 1 .. Len(journey) : BoardedAfter(journey'[k + 1].exit, journey'[k].enter)
    <3> SUFFICES ASSUME NEW k \in 1 .. Len(journey)
                 PROVE  BoardedAfter(journey'[k + 1].exit, journey'[k].enter)
      OBVIOUS
    <3>1. CASE k = Len(journey)
      <4>1. journey # <<>>
        BY <2>1, <3>1
      <4> QED
        BY <2>2, <2>4, <3>1, <4>1
    <3>2. CASE k # Len(journey)
      <4>1. k \in 1 .. Len(journey) - 1 /\ k + 1 \in 1 .. Len(journey)
        BY <2>1, <3>2
      <4>2. BoardedAfter(journey[k + 1].exit, journey[k].enter)
        BY <1>3, <4>1 DEF FollowsBack
      <4> QED
        BY <2>2, <4>1, <4>2
    <3> QED
      BY <3>1, <3>2
  <2>7. \A k \in DOMAIN journey' : Boarded(journey[k])'
    BY <1>1, <2>5 DEF Boarded, Rides, Conns, fwdVars
  <2>8. \A k \in 1 .. Len(journey') - 1 : BoardedAfter(journey[k + 1].exit, journey[k].enter)'
    <3>1. Len(journey') - 1 = Len(journey)
      BY <2>1, <2>2
    <3> QED
      BY <1>1, <2>6, <3>1 DEF BoardedAfter, Transferable, MinWait
  <2>9. cursor' \in Step
    BY <1>1, <1>3, <2>3, LegCaught, StepBoarded
  <2>10. cursor' = fwdSteps'[tt'.conn[journey'[Len(journey')].enter].from]
    BY <1>1, <2>2 DEF fwdVars
  <2> QED
    BY <2>2, <2>7, <2>8, <2>9, <2>10 DEF FollowsBack
<1> QED
  BY <1>1, <1>2, <1>3, <1>4, <1>5, <1>6 DEF PInv

LEMMA ListForwardPInv ==
    ASSUME PInv, ListForward
    PROVE  PInv'
<1>1. /\ UNCHANGED <<tt, q, departureTime, fwdVars, todo, node>>
      /\ pc = "count" /\ pc' = "list"
      /\ listed' = IF Arrival(node) - departureTime <= q.maxTotal
                   THEN listed \cup {Accessible(Arrival(node), Arrival(node) - departureTime)}
                   ELSE listed
  BY DEF ListForward, List, dataVars, Arrival
<1>2. DataOK' /\ OnePlace' /\ q'.forward = q.forward /\ (Regular' <=> Regular)
  BY <1>1, DataKept
<1>3. /\ q.forward /\ Labelled /\ Listing /\ (Regular => ArrivalsExact)
      /\ departureTime = q.time
  BY <1>1 DEF PInv, Labelled
<1>4. Labelled' /\ (Regular' => ArrivalsExact')
  BY <1>1, <1>2, <1>3, LabelledKept
<1>5. Reached' = Reached /\ \A m : Arrival(m)' = Arrival(m)
  BY <1>1 DEF Reached, Arrival, fwdVars
<1>6. node \in Reached \ todo /\ Taken' = Taken \cup {node} /\ node \notin Taken
  BY <1>1, <1>3, <1>5 DEF Listing, Taken
<1>7. ASSUME NEW n \in Nodes
      PROVE  ListedTimes(n)' = IF n \in Taken' /\ Arrival(n)' - q'.time <= q'.maxTotal
                               THEN {Arrival(n)'} ELSE {}
  <2>1. ListedTimes(n) = IF n \in Taken /\ Arrival(n) - q.time <= q.maxTotal
                         THEN {Arrival(n)} ELSE {}
    BY <1>3 DEF Listing
  <2>2. CASE n = node /\ Arrival(node) - q.time <= q.maxTotal
    <3>1. PICK r : r = Accessible(Arrival(node), Arrival(node) - departureTime)
      OBVIOUS
    <3>2. r.node = node /\ r.time = Arrival(node) /\ listed' = listed \cup {r}
      BY <1>1, <1>3, <2>2, <3>1 DEF Accessible
    <3>3. ListedTimes(n)' = ListedTimes(n) \cup {Arrival(node)}
      BY <2>2, <3>2 DEF ListedTimes
    <3> QED
      BY <1>1, <1>5, <1>6, <2>1, <2>2, <3>3
  <2>3. CASE n = node /\ ~ (Arrival(node) - q.time <= q.maxTotal)
    <3>1. ListedTimes(n)' = ListedTimes(n)
      BY <1>1, <1>3, <2>3 DEF ListedTimes
    <3> QED
      BY <1>1, <1>5, <1>6, <2>1, <2>3, <3>1
  <2>4. CASE n # node
    <3>1. ListedTimes(n)' = ListedTimes(n)
      BY <1>1, <1>3, <2>4 DEF ListedTimes, Accessible
    <3> QED
      BY <1>1, <1>5, <1>6, <2>1, <2>4, <3>1
  <2> QED
    BY <2>2, <2>3, <2>4
<1>8. Listing'
  BY <1>1, <1>3, <1>5, <1>7 DEF Listing
<1> QED
  BY <1>1, <1>2, <1>3, <1>4, <1>8 DEF PInv

\* the steps of a calculation towards a place
TowardsPlace ==
    \/ ReverseAllNodes \/ ReverseAllNodesEnd \/ FollowStep \/ CloseAllNodes
    \/ OptimizeIteration \/ OptimizeEnd \/ ListReverse

LEMMA TowardsPInv ==
    ASSUME PInv, TowardsPlace
    PROVE  PInv'
<1>1. /\ UNCHANGED <<tt, q>> /\ pc \in {"reverse", "journey", "optimize", "summary"}
      /\ pc' \in {"reverse", "journey", "optimize", "summary", "list", "failed"}
  BY DEF TowardsPlace, ReverseAllNodes, BackSkip, BackBreak, BackPass, BackRide, RevScanning,
         ReverseAllNodesEnd, RevEnded, FollowStep, CloseAllNodes, OptimizeIteration,
         OptimizeEnd, ListReverse, List, Fail, dataVars
<1>2. DataOK' /\ OnePlace' /\ q'.forward = q.forward
  BY <1>1, DataKept
<1>3. ~ q.forward
  BY <1>1 DEF PInv
<1> QED
  BY <1>1, <1>2, <1>3 DEF PInv

LEMMA StutterPInv ==
    ASSUME PInv, UNCHANGED allVars
    PROVE  PInv'
<1>1. /\ UNCHANGED vars
      /\ UNCHANGED <<tt, q, pc, departureTime, fwdVars, enter, fwdSteps, fwdEgress>>
      /\ UNCHANGED <<journey, cursor, todo, node, listed>>
  BY DEF allVars, vars, dataVars, fwdVars, journeyVars, listVars
<1>2. DataOK' /\ OnePlace' /\ q'.forward = q.forward /\ (Regular' <=> Regular)
  BY <1>1, DataKept
<1>3. (TypeOK => TypeOK') /\ (AInv => AInv')
  BY <1>1, NextType, NextAInv
<1>4. AllBoarded => AllBoarded'
  BY <1>1 DEF AllBoarded, EgressBoarded, Rides, Conns
<1>5. /\ Labelled => Labelled'
      /\ Labelled /\ ArrivalsExact => ArrivalsExact'
  BY <1>1, LabelledKept
<1>6. Listing => Listing'
  <2>1. /\ Reached' = Reached /\ \A m : Arrival(m)' = Arrival(m)
        /\ \A m : ListedTimes(m)' = ListedTimes(m)
    BY <1>1 DEF Reached, Arrival, ListedTimes
  <2>2. Taken' = Taken
    BY <1>1, <2>1 DEF Taken
  <2> QED
    BY <1>1, <2>1, <2>2 DEF Listing
<1>7. FollowsBack => FollowsBack'
  BY <1>1 DEF FollowsBack, Boarded, Rides, Conns, BoardedAfter, Transferable, MinWait
<1> QED
  BY <1>1, <1>2, <1>3, <1>4, <1>5, <1>6, <1>7 DEF PInv

LEMMA NextPInv == PInv /\ [NextAllNodes]_allVars => PInv'
<1> SUFFICES ASSUME PInv, [NextAllNodes]_allVars PROVE PInv'
  OBVIOUS
<1>1. \/ ResetAllNodes \/ ForwardAllNodes \/ ForwardAllNodesEnd \/ NextNode \/ Return
      \/ FollowBack \/ ListForward \/ TowardsPlace \/ UNCHANGED allVars
  BY DEF NextAllNodes, TowardsPlace
<1> QED
  BY <1>1, ResetPInv, ForwardPInv, ForwardEndPInv, NextNodePInv, ReturnPInv, FollowBackPInv,
     ListForwardPInv, TowardsPInv, StutterPInv

\* what the labels say of the arrivals at a node
LEMMA NodeFound ==
    ASSUME DataOK, NEW n \in Nodes, NodeExact(n)
    PROVE  LET within == {a \in NodeArrivals(n) : a - q.time <= q.maxTotal}
           IN  (IF n \in Reached /\ Arrival(n) - q.time <= q.maxTotal THEN {Arrival(n)} ELSE {})
                 = (IF within = {} THEN {} ELSE {Min(within)})
<1> DEFINE within == {a \in NodeArrivals(n) : a - q.time <= q.maxTotal}
<1>1. NodeArrivals(n) = {tt.conn[x].arr : x \in {x \in Conns : tt.conn[x].to = n /\ Alightable(x)}}
  BY DEF NodeArrivals, Alightable
<1>2. \A a \in within : \E x \in Conns :
          Alightable(x) /\ tt.conn[x].to = n /\ a = tt.conn[x].arr /\ a - q.time <= q.maxTotal
  BY <1>1
<1>3. \A x \in Conns : tt.conn[x].arr \in Nat
  BY ConnectionType
<1>4. within \in SUBSET Nat
  BY <1>2, <1>3
<1>5. CASE n \in Reached /\ Arrival(n) - q.time <= q.maxTotal
  <2>1. Alightable(fwdEgress[n]) /\ tt.conn[fwdEgress[n]].to = n
    BY <1>5 DEF NodeExact, EgressAlightable, Reached
  <2>2. Arrival(n) \in within
    BY <1>1, <1>5, <2>1 DEF Arrival, Alightable
  <2>3. \A a \in within : Arrival(n) <= a
    BY <1>2 DEF NodeExact
  <2> HIDE DEF within
  <2>4. Min(within) \in within /\ \A a \in within : Min(within) <= a
    BY <1>4, <2>2, LeastNumber
  <2>5. Min(within) = Arrival(n)
    <3>1. Min(within) \in Nat /\ Arrival(n) \in Nat
      BY <1>4, <2>2, <2>4
    <3> QED
      BY <2>2, <2>3, <2>4, <3>1
  <2> QED
    BY <1>5, <2>2, <2>5 DEF within
<1>6. CASE ~ (n \in Reached /\ Arrival(n) - q.time <= q.maxTotal)
  <2>1. within = {}
    <3> SUFFICES ASSUME NEW a \in within PROVE FALSE
      OBVIOUS
    <3>1. PICK x \in Conns :
             Alightable(x) /\ tt.conn[x].to = n /\ a = tt.conn[x].arr /\ a - q.time <= q.maxTotal
      BY <1>2
    <3>2. fwdEgress[n] # NoConnection /\ Arrival(n) <= a
      BY <3>1 DEF NodeExact
    <3>3. fwdEgress[n] \in Conns
      BY <3>2 DEF NodeExact, EgressAlightable, Alightable
    <3>4. Arrival(n) \in Nat /\ a \in Nat /\ q.time \in Nat /\ q.maxTotal \in Nat
      BY <1>3, <3>1, <3>3 DEF Arrival, DataOK, Query
    <3>5. Arrival(n) - q.time <= q.maxTotal
      BY <3>1, <3>2, <3>4
    <3> QED
      BY <1>6, <3>2, <3>5 DEF Reached
  <2> QED
    BY <1>6, <2>1
<1> QED
  BY <1>5, <1>6

(***************************************************************************)
(* calculateAllNodes from a place, for every network, timetable and query  *)
(* without a limit on the first wait whose waiting time fits in a short    *)
(* and whose hour is in the cache: when every vehicle takes time between   *)
(* two nodes, exactly the nodes where a vehicle can be left within the     *)
(* maximum travel time are listed, each with the earliest arrival.         *)
(***************************************************************************)
THEOREM NodesEarliest == SpecAllNodes => [](FitsShort /\ WithinCache => EarliestListed)
<1>1. PInv => (FitsShort /\ WithinCache => EarliestListed)
  <2> SUFFICES ASSUME PInv, FitsShort, WithinCache, pc = "done", q.forward,
                      q.maxFirstWait = -1, Progressing, NEW n \in Nodes
               PROVE  LET within == {a \in NodeArrivals(n) : a - q.time <= q.maxTotal}
                      IN  ListedTimes(n) = IF within = {} THEN {} ELSE {Min(within)}
    BY DEF EarliestListed
  <2>1. Regular
    BY DEF PInv, OnePlace, Regular, ArrivalsFit
  <2>2. DataOK /\ Listing /\ NodeExact(n)
    BY <2>1 DEF PInv, ArrivalsExact
  <2>3. Taken = Reached
    BY <2>2 DEF Listing, Taken
  <2>4. ListedTimes(n) = IF n \in Reached /\ Arrival(n) - q.time <= q.maxTotal
                         THEN {Arrival(n)} ELSE {}
    BY <2>2, <2>3 DEF Listing
  <2> QED
    BY <2>2, <2>4, NodeFound
<1> QED
  BY <1>1, InitPInv, NextPInv, PTL DEF SpecAllNodes

(***************************************************************************)
(* forwardJourneyStepAllNodes, for every network, timetable and query      *)
(* whose waiting time fits in a short: the journey whose transfers are     *)
(* counted can be travelled, read backwards from any node, although its    *)
(* steps were written at different moments of the scan.                    *)
(***************************************************************************)
THEOREM CountedFeasibly == SpecAllNodes => [](FitsShort => CountedJourneyFeasible)
<1>1. PInv => (FitsShort => CountedJourneyFeasible)
  <2> SUFFICES ASSUME PInv, FitsShort, pc = "count" PROVE CountedJourneyFeasible
    BY DEF CountedJourneyFeasible
  <2>1. Labelled /\ FollowsBack
    BY DEF PInv
  <2> QED
    BY <2>1, CountedFeasible
<1> QED
  BY <1>1, InitPInv, NextPInv, PTL DEF SpecAllNodes

-----------------------------------------------------------------------------
(***************************************************************************)
(* The least set Onward                                                    *)
(***************************************************************************)
\* what a member of OnwardSets is
LEMMA OnwardClosed ==
    \A B : B \in OnwardSets <=>
              /\ B \subseteq MayBoard
              /\ \A e \in MayBoard : RidesHome(e) => e \in B
              /\ \A e, f \in MayBoard : Follows(e, f) /\ f \in B => e \in B
<1> SUFFICES ASSUME NEW B
             PROVE  B \in OnwardSets <=>
                       /\ B \subseteq MayBoard
                       /\ \A e \in MayBoard : RidesHome(e) => e \in B
                       /\ \A e, f \in MayBoard : Follows(e, f) /\ f \in B => e \in B
  OBVIOUS
<1> DEFINE last == {e \in MayBoard : RidesHome(e)}
           follows == {p \in MayBoard \X MayBoard : Follows(p[1], p[2])}
<1>1. B \in OnwardSets <=> /\ B \subseteq MayBoard /\ last \subseteq B
                           /\ \A p \in follows : p[2] \in B => p[1] \in B
  BY DEF OnwardSets, MayBoard
<1>2. (\A p \in follows : p[2] \in B => p[1] \in B)
         <=> \A e, f \in MayBoard : Follows(e, f) /\ f \in B => e \in B
  <2>1. ASSUME \A p \in follows : p[2] \in B => p[1] \in B,
               NEW e \in MayBoard, NEW f \in MayBoard, Follows(e, f), f \in B
        PROVE  e \in B
    <3> DEFINE p == <<e, f>>
    <3>1. p \in follows /\ p[1] = e /\ p[2] = f
      BY <2>1
    <3> QED
      BY <2>1, <3>1
  <2>2. ASSUME \A e, f \in MayBoard : Follows(e, f) /\ f \in B => e \in B,
               NEW p \in follows, p[2] \in B
        PROVE  p[1] \in B
    BY <2>2
  <2> QED
    BY <2>1, <2>2
<1>3. last \subseteq B <=> \A e \in MayBoard : RidesHome(e) => e \in B
  OBVIOUS
<1> HIDE DEF last, follows
<1> QED
  BY <1>1, <1>2, <1>3

LEMMA OnwardLeast ==
    /\ Onward \subseteq MayBoard
    /\ \A B \in OnwardSets : Onward \subseteq B
    /\ \A e \in MayBoard : (\A B \in OnwardSets : e \in B) => e \in Onward
BY DEF Onward, MayBoard

LEMMA OnwardConns ==
    ASSUME NEW e \in Onward
    PROVE  e \in MayBoard /\ e \in Conns /\ tt.conn[e].canBoard /\ tt.conn[e].trip \notin q.disabled
BY OnwardLeast DEF MayBoard, Enabled

\* alighting from x, the destination is reached by arrivalTime on foot, or after
\* another ride
LeadsHome(x) ==
    /\ x \in Conns
    /\ \/ /\ tt.conn[x].to \in EgressNodes
          /\ tt.conn[x].arr + q.egress[tt.conn[x].to] <= arrivalTime
       \/ \E f \in Onward : BoardedAfter(x, f)

LEMMA OnwardRide ==
    ASSUME NEW e \in MayBoard, NEW x, Rides(e, x), LeadsHome(x)
    PROVE  e \in Onward
<1>1. x \in Conns
  BY DEF LeadsHome
<1>2. CASE tt.conn[x].to \in EgressNodes /\ tt.conn[x].arr + q.egress[tt.conn[x].to] <= arrivalTime
  <2>1. RidesHome(e)
    BY <1>1, <1>2 DEF RidesHome
  <2>2. \A B \in OnwardSets : e \in B
    BY <2>1, OnwardClosed
  <2> QED
    BY <2>2, OnwardLeast
<1>3. CASE \E f \in Onward : BoardedAfter(x, f)
  <2>1. PICK f \in Onward : BoardedAfter(x, f)
    BY <1>3
  <2>2. Follows(e, f) /\ f \in MayBoard
    BY <1>1, <2>1, OnwardLeast DEF Follows
  <2>3. \A B \in OnwardSets : e \in B
    BY <2>1, <2>2, OnwardLeast, OnwardClosed
  <2> QED
    BY <2>3, OnwardLeast
<1> QED
  BY <1>2, <1>3 DEF LeadsHome

\* nothing else leads on
LEMMA OnwardUnfolded ==
    ASSUME NEW e \in Onward
    PROVE  \E x \in Conns : Rides(e, x) /\ LeadsHome(x)
<1> DEFINE B == {f \in MayBoard : \E x \in Conns : Rides(f, x) /\ LeadsHome(x)}
<1>1. B \subseteq Onward
  BY OnwardRide
<1>2. \A f \in MayBoard : RidesHome(f) => f \in B
  BY DEF RidesHome, LeadsHome
<1>3. ASSUME NEW f \in MayBoard, NEW g \in MayBoard, Follows(f, g), g \in B PROVE f \in B
  <2>1. PICK x \in Conns : Rides(f, x) /\ BoardedAfter(x, g)
    BY <1>3 DEF Follows
  <2>2. LeadsHome(x)
    BY <1>1, <1>3, <2>1 DEF LeadsHome
  <2> QED
    BY <2>1, <2>2
<1>4. B \subseteq MayBoard
  OBVIOUS
<1> HIDE DEF B
<1>5. B \in OnwardSets
  BY <1>2, <1>3, <1>4, OnwardClosed
<1>6. e \in B
  BY <1>5, OnwardLeast
<1> QED
  BY <1>6 DEF B

\* what leads on depends on the timetable, the query and the arrival time alone
LEMMA OnwardFixed ==
    ASSUME UNCHANGED <<tt, q, arrivalTime>>
    PROVE  Onward' = Onward /\ \A x : LeadsHome(x)' <=> LeadsHome(x)
<1>1. \A e, x : Rides(e, x)' <=> Rides(e, x)
  BY DEF Rides, Conns
<1>2. \A e : e \in MayBoard' <=> e \in MayBoard
  BY DEF MayBoard, Enabled, Conns
<1>3. \A e, x : BoardedAfter(x, e)' <=> BoardedAfter(x, e)
  BY DEF BoardedAfter, Transferable, MinWait
<1>4. \A e, f : Follows(e, f)' <=> Follows(e, f)
  BY <1>1, <1>3 DEF Follows, Conns
<1>5. \A e : RidesHome(e)' <=> RidesHome(e)
  BY <1>1 DEF RidesHome, Conns, EgressNodes
<1>6. \A B : B \in OnwardSets' <=> B \in OnwardSets
  <2>1. (\A B : B \in OnwardSets <=>
              /\ B \subseteq MayBoard
              /\ \A e \in MayBoard : RidesHome(e) => e \in B
              /\ \A e, f \in MayBoard : Follows(e, f) /\ f \in B => e \in B)'
    BY OnwardClosed, PTL
  <2> QED
    BY <1>2, <1>4, <1>5, <2>1, OnwardClosed
<1>7. \A e : e \in Onward' <=> e \in Onward
  <2>1. (\A e : e \in Onward <=> e \in MayBoard /\ \A B \in OnwardSets : e \in B)'
    BY DEF Onward, MayBoard
  <2>2. \A e : e \in Onward <=> e \in MayBoard /\ \A B \in OnwardSets : e \in B
    BY DEF Onward, MayBoard
  <2> QED
    BY <1>2, <1>6, <2>1, <2>2
<1>8. Onward' = Onward
  BY <1>7
<1> QED
  BY <1>3, <1>8 DEF LeadsHome, Conns, EgressNodes

-----------------------------------------------------------------------------
\* early enough for one of the egress walks
Early(e) == \E n \in EgressNodes : tt.conn[e].arr + q.egress[n] <= arrivalTime

LEMMA EarlyBefore ==
    ASSUME DataOK, arrivalTime \in Int, NEW e \in Conns, NEW f \in Conns, Early(f),
           tt.conn[e].arr <= tt.conn[f].arr
    PROVE  Early(e)
<1>1. PICK n \in EgressNodes : tt.conn[f].arr + q.egress[n] <= arrivalTime
  BY DEF Early
<1>2. q.egress[n] \in Nat
  BY DataType DEF EgressNodes
<1>3. tt.conn[e].arr \in Nat /\ tt.conn[f].arr \in Nat
  BY ConnectionType
<1>4. tt.conn[e].arr + q.egress[n] <= arrivalTime
  BY <1>1, <1>2, <1>3
<1> QED
  BY <1>4 DEF Early

LEMMA OnwardEarly ==
    ASSUME DataOK, arrivalTime \in Int, FitsShort
    PROVE  /\ \A e \in Onward : Early(e)
           /\ \A x : LeadsHome(x) => Early(x)
<1> DEFINE B == {f \in MayBoard : Early(f)}
<1>1. ASSUME NEW f \in MayBoard, RidesHome(f) PROVE Early(f)
  <2>1. PICK x \in Conns : /\ Rides(f, x) /\ tt.conn[x].to \in EgressNodes
                           /\ tt.conn[x].arr + q.egress[tt.conn[x].to] <= arrivalTime
    BY <1>1 DEF RidesHome
  <2>2. Early(x) /\ f \in Conns /\ tt.conn[f].arr <= tt.conn[x].arr
    BY <2>1, LaterArrival DEF Early, Rides
  <2> QED
    BY <2>2, EarlyBefore
<1>2. ASSUME NEW x \in Conns, NEW g \in Conns, BoardedAfter(x, g), Early(g)
      PROVE  Early(x)
  <2>1. tt.conn[x].arr <= tt.conn[g].arr
    <3> DEFINE w == tt.walk[tt.conn[x].to][tt.conn[g].from]
    <3>1. w \in Nat
      BY <1>2, ConnectionType, WalkType DEF BoardedAfter
    <3>2. tt.conn[x].arr + w + MinWait(g) <= tt.conn[g].dep
      BY <1>2 DEF BoardedAfter
    <3>3. tt.conn[g].dep <= tt.conn[g].arr
      BY Sorted
    <3>4. /\ tt.conn[g].dep \in Nat /\ tt.conn[g].arr \in Nat /\ tt.conn[x].arr \in Nat
          /\ MinWait(g) \in Nat
      BY ConnectionType, MinWaitNat
    <3> HIDE DEF w
    <3> QED
      BY <3>1, <3>2, <3>3, <3>4
  <2> QED
    BY <1>2, <2>1, EarlyBefore
<1>3. ASSUME NEW f \in MayBoard, NEW g \in MayBoard, Follows(f, g), Early(g)
      PROVE  Early(f)
  <2>1. f \in Conns /\ g \in Conns
    BY DEF MayBoard, Enabled
  <2>2. PICK x \in Conns : Rides(f, x) /\ BoardedAfter(x, g)
    BY <1>3 DEF Follows
  <2>3. Early(x)
    BY <1>2, <1>3, <2>1, <2>2
  <2>4. tt.conn[f].arr <= tt.conn[x].arr
    BY <2>1, <2>2, LaterArrival DEF Rides
  <2> QED
    BY <2>1, <2>3, <2>4, EarlyBefore
<1>4. /\ B \subseteq MayBoard
      /\ \A f \in MayBoard : RidesHome(f) => f \in B
      /\ \A f, g \in MayBoard : Follows(f, g) /\ g \in B => f \in B
  BY <1>1, <1>3
<1>5. B \in OnwardSets
  <2> HIDE DEF B
  <2> QED
    BY <1>4, OnwardClosed
<1>6. \A e \in Onward : Early(e)
  <2>1. Onward \subseteq B
    <3> HIDE DEF B
    <3> QED
      BY <1>5, OnwardLeast
  <2> QED
    BY <2>1
<1>7. ASSUME NEW x, LeadsHome(x) PROVE Early(x)
  <2>1. CASE tt.conn[x].to \in EgressNodes /\ tt.conn[x].arr + q.egress[tt.conn[x].to] <= arrivalTime
    BY <2>1 DEF Early
  <2>2. CASE \E f \in Onward : BoardedAfter(x, f)
    <3>1. PICK f \in Onward : BoardedAfter(x, f)
      BY <2>2
    <3> QED
      BY <1>2, <1>6, <1>7, <3>1, OnwardConns DEF LeadsHome
  <2> QED
    BY <1>7, <2>1, <2>2 DEF LeadsHome
<1> QED
  BY <1>6, <1>7

-----------------------------------------------------------------------------
(***************************************************************************)
(* Soundness: what the reverse calculation records leads to the            *)
(* destination                                                             *)
(***************************************************************************)
ReverseOnward ==
    /\ \A t \in Trips : exit[t] # NoConnection => LeadsHome(exit[t])
    /\ \A n \in Nodes : revSteps[n].enter # NoConnection => revSteps[n].enter \in Onward
    /\ \A n \in Nodes : accSteps[n].enter # NoConnection => accSteps[n].enter \in Onward

\* alighting in time for the label of the node leads on
LEMMA LabelLeadsHome ==
    ASSUME DataOK, FitsShort, arrivalTime \in Int, revTime \in [Nodes -> Int],
           ReverseLabelsSound, ReverseOnward,
           NEW c \in Conns, tt.conn[c].arr <= revTime[tt.conn[c].to]
    PROVE  LeadsHome(c)
<1> DEFINE n == tt.conn[c].to
<1>1. n \in Nodes /\ tt.conn[c].arr \in Nat /\ revTime[n] \in Int
  BY ConnectionType
<1>2. NodeSound(n)
  BY <1>1, ReverseParts
<1>3. CASE revSteps[n].enter = NoConnection
  <2>1. ~ (revTime[n] < 0)
    BY <1>1
  <2>2. n \in EgressNodes /\ revTime[n] = arrivalTime - q.egress[n]
    BY <1>2, <1>3, <2>1 DEF NodeSound
  <2>3. q.egress[n] \in Nat
    BY <1>1, <2>2, DataType DEF EgressNodes
  <2>4. \A a, w \in Nat, t \in Int : a <= t - w => a + w <= t
    OBVIOUS
  <2>5. tt.conn[c].arr + q.egress[n] <= arrivalTime
    BY <1>1, <2>2, <2>3, <2>4
  <2> QED
    BY <2>2, <2>5 DEF LeadsHome
<1>4. CASE revSteps[n].enter # NoConnection
  <2>1. PICK f : f = revSteps[n].enter
    OBVIOUS
  <2>2. PICK m : m = tt.conn[f].from
    OBVIOUS
  <2>3. /\ f \in Conns /\ Transferable(n, m) /\ tt.walk[n][m] <= q.maxTransfer
        /\ revTime[n] = tt.conn[f].dep - MinWait(f) - tt.walk[n][m]
    BY <1>2, <1>4, <2>1, <2>2 DEF NodeSound, LeadsOn, Rides
  <2>4. PICK w : w = tt.walk[n][m]
    OBVIOUS
  <2>5. w \in Nat /\ tt.conn[f].dep \in Nat /\ MinWait(f) \in Nat
    BY <1>1, <2>2, <2>3, <2>4, WalkType, ConnectionType, MinWaitNat
  <2>6. \A a, d, v, u \in Nat : a <= d - v - u => a + u + v <= d
    OBVIOUS
  <2>7. tt.conn[c].arr + w + MinWait(f) <= tt.conn[f].dep
    BY <1>1, <2>3, <2>4, <2>5, <2>6
  <2>8. BoardedAfter(c, f)
    BY <2>2, <2>3, <2>4, <2>7 DEF BoardedAfter
  <2>9. f \in Onward
    BY <1>1, <1>4, <2>1 DEF ReverseOnward
  <2> QED
    BY <2>8, <2>9 DEF LeadsHome
<1> QED
  BY <1>3, <1>4

\* the step of a reachable connection, for both kinds of reverse calculation
LEMMA RideOnward ==
    ASSUME RInv, FitsShort, RevScanning, RevReachable(tt.rev[revPos]),
           tt.conn[tt.rev[revPos]].trip \notin q.disabled,
           RideBack(tt.rev[revPos]), UNCHANGED <<dataVars, arrivalTime>>, ReverseOnward
    PROVE  /\ ReverseOnward'
           /\ RevExit(tt.rev[revPos]) # NoConnection => LeadsHome(RevExit(tt.rev[revPos]))
<1>0. PICK c, x, trip, m : c = tt.rev[revPos] /\ x = RevExit(c) /\ trip = tt.conn[c].trip
                           /\ m = tt.conn[c].from
  OBVIOUS
<1>1. /\ TypeOK /\ DataOK /\ ReverseTypeOK /\ revPos \in Conns /\ c \in Conns
      /\ tt' = tt /\ q' = q /\ arrivalTime' = arrivalTime /\ arrivalTime \in Int
      /\ ReverseLabelsSound
  BY <1>0, DataType DEF RInv, TypeOK, DataOK, RevScanning, dataVars
<1>2. trip \in Trips /\ m \in Nodes /\ c \in Nat \ {0} /\ revTime \in [Nodes -> Int]
  BY <1>0, <1>1, ConnectionType DEF ReverseTypeOK
<1>3. /\ exit' = [exit EXCEPT ![trip] = x]
      /\ \/ tt.conn[c].canBoard /\ x # NoConnection /\ Board(c)
         \/ UNCHANGED <<revTime, revSteps, accSteps>>
  BY <1>0 DEF RideBack
<1>4. x # NoConnection =>
        /\ x \in Conns /\ x >= c
        /\ tt.conn[x].trip = trip
        /\ tt.conn[x].canUnboard
        /\ tt.conn[x].arr <= revTime[tt.conn[x].to]
  BY <1>0, RevExitSound
<1>5. x # NoConnection => LeadsHome(x)
  BY <1>1, <1>2, <1>4, LabelLeadsHome
<1>6. Onward' = Onward /\ \A y : LeadsHome(y)' <=> LeadsHome(y)
  BY <1>1, OnwardFixed
<1>7. tt.conn[c].canBoard /\ x # NoConnection => c \in Onward
  <2> SUFFICES ASSUME tt.conn[c].canBoard, x # NoConnection PROVE c \in Onward
    OBVIOUS
  <2>1. c \in MayBoard
    BY <1>0, <1>1 DEF MayBoard, Enabled
  <2>2. Rides(c, x)
    BY <1>0, <1>1, <1>2, <1>4 DEF Rides
  <2> QED
    BY <1>5, <2>1, <2>2, OnwardRide
<1>8. ASSUME NEW t \in Trips, exit'[t] # NoConnection PROVE LeadsHome(exit'[t])
  <2>1. exit'[t] = IF t = trip THEN x ELSE exit[t]
    BY <1>1, <1>3 DEF ReverseTypeOK
  <2> QED
    BY <1>5, <1>8, <2>1 DEF ReverseOnward
<1>9. ASSUME NEW n \in Nodes, revSteps'[n].enter # NoConnection PROVE revSteps'[n].enter \in Onward
  <2>1. CASE revSteps'[n] = revSteps[n]
    BY <1>9, <2>1 DEF ReverseOnward
  <2>2. CASE tt.conn[c].canBoard /\ x # NoConnection /\ Board(c) /\ RevImproves(c, n)
    <3>1. revSteps'[n].enter = c
      BY <2>2 DEF Board, JourneyStep
    <3> QED
      BY <1>7, <2>2, <3>1
  <2>3. Board(c) /\ ~ RevImproves(c, n) => revSteps'[n] = revSteps[n]
    BY DEF Board
  <2> QED
    BY <1>3, <2>1, <2>2, <2>3
<1>10. ASSUME NEW n \in Nodes, accSteps'[n].enter # NoConnection PROVE accSteps'[n].enter \in Onward
  <2>1. accSteps \in [Nodes -> Step]
    BY <1>1 DEF ReverseTypeOK
  <2>2. \/ accSteps'[n] = accSteps[n]
        \/ tt.conn[c].canBoard /\ x # NoConnection /\ accSteps'[n] = JourneyStep(c, x, 0)
    BY <1>0, <1>3, <2>1 DEF Board
  <2> QED
    BY <1>7, <1>10, <2>2 DEF ReverseOnward, JourneyStep
<1>11. ReverseOnward'
  BY <1>6, <1>8, <1>9, <1>10 DEF ReverseOnward
<1> QED
  BY <1>0, <1>5, <1>11

-----------------------------------------------------------------------------
(***************************************************************************)
(* Completeness: the connections the reverse calculation has to find, and  *)
(* what it knows of those it has met                                       *)
(***************************************************************************)
\* after a forward calculation only the trips it found usable are looked at
Sought == IF q.forward THEN Onward \cap Boardable ELSE Onward

SoughtExit(x) == LeadsHome(x) /\ \E e \in Sought : Rides(e, x)

\* e is one of the connections before position p of the reverse list
Met(e, p) == \E j \in Conns : j < p /\ tt.rev[j] = e

\* when one must be at the node to board e
BoardBy(e) == tt.conn[e].dep - MinWait(e)

\* e can be the first boarding of a journey that leaves when asked for
Leavable(e) ==
    LET n == tt.conn[e].from
    IN  departureTime = -1 \/ (n \in AccessNodes /\ BoardBy(e) - q.access[n] >= departureTime)

\* first boarding a is hardly worse than e
Nearly(a, e) ==
    \/ tt.conn[a].dep > BoardBy(e)
    \/ BoardBy(a) >= BoardBy(e) /\ tt.conn[a].dep >= tt.conn[e].dep

\* boarding e is known at the nodes one walks from, and as a first boarding
Heeded(e) ==
    LET m == tt.conn[e].from
    IN  /\ \A n \in Nodes : Transferable(n, m) /\ tt.walk[n][m] <= q.maxTransfer =>
              revTime[n] >= BoardBy(e) - tt.walk[n][m]
        /\ Leavable(e) => accSteps[m].enter # NoConnection /\ Nearly(accSteps[m].enter, e)

PassedOnward(p) == \A e \in Sought : Met(e, p) => Heeded(e)

PassedExits(p) ==
    \A x \in Conns : SoughtExit(x) /\ Met(x, p) => exit[tt.conn[x].trip] # NoConnection

\* walking to the destination is never forgotten
EgressKept == \A n \in EgressNodes : revTime[n] >= arrivalTime - q.egress[n]

\* the break looks at the departure of a vehicle from an access node, which is
\* recorded when one can be there in time
AccessMet ==
    IF accessReached = -1
    THEN \A n \in AccessNodes : accSteps[n].enter = NoConnection
    ELSE \E c \in Conns :
           LET n == tt.conn[c].from
           IN  /\ n \in AccessNodes /\ tt.conn[c].dep = accessReached
               /\ Leavable(c) => /\ accSteps[n].enter # NoConnection
                                 /\ tt.conn[accSteps[n].enter].dep >= accessReached

UsableSought == \A e \in Sought : tt.conn[e].trip \in usable

LEMMA SoughtConns ==
    ASSUME NEW e \in Sought
    PROVE  e \in Onward /\ e \in Conns /\ tt.conn[e].canBoard /\ tt.conn[e].trip \notin q.disabled
BY OnwardConns DEF Sought

LEMMA SoughtFixed ==
    ASSUME UNCHANGED <<tt, q, arrivalTime>>
    PROVE  Sought' = Sought /\ \A x : SoughtExit(x)' <=> SoughtExit(x)
<1>1. Sought' = Sought
  BY OnwardFixed, BoardableFixed DEF Sought
<1>2. \A e, x : Rides(e, x)' <=> Rides(e, x)
  BY DEF Rides, Conns
<1> QED
  BY <1>1, <1>2, OnwardFixed DEF SoughtExit

\* the journeys looked for go on with connections looked for
LEMMA SoughtFollows ==
    ASSUME NEW e \in Sought, NEW x \in Conns, Rides(e, x), NEW f \in Onward, BoardedAfter(x, f)
    PROVE  f \in Sought
<1>1. CASE q.forward
  <2>1. e \in Boardable /\ f \in MayBoard /\ Follows(e, f)
    BY <1>1, OnwardConns DEF Sought, Follows
  <2> QED
    BY <1>1, <2>1, AfterRide DEF Sought
<1> QED
  BY <1>1 DEF Sought

LEMMA SoughtConsidered ==
    ASSUME DataOK, arrivalTime \in Int, FitsShort, UsableSought, NEW c \in Conns,
           c \in Sought \/ SoughtExit(c)
    PROVE  Early(c) /\ tt.conn[c].trip \in usable \ q.disabled
<1>1. CASE c \in Sought
  BY <1>1, SoughtConns, OnwardEarly DEF UsableSought
<1>2. CASE SoughtExit(c)
  <2>1. PICK e \in Sought : Rides(e, c)
    BY <1>2 DEF SoughtExit
  <2>2. tt.conn[e].trip = tt.conn[c].trip
    BY <2>1 DEF Rides
  <2> QED
    BY <1>2, <2>1, <2>2, SoughtConns, OnwardEarly DEF UsableSought, SoughtExit
<1> QED
  BY <1>1, <1>2

\* the order of the reverse list
LEMMA MetLater ==
    ASSUME DataOK, NEW p \in Conns, NEW f \in Conns, tt.conn[f].arr > tt.conn[tt.rev[p]].arr
    PROVE  Met(f, p)
<1>1. PICK j \in Conns : tt.rev[j] = f
  BY RevOnto
<1>2. tt.rev[p] \in Conns /\ j \in Nat /\ p \in Nat
  BY ConnectionType, DataType
<1>3. tt.conn[f].arr \in Nat /\ tt.conn[tt.rev[p]].arr \in Nat
  BY <1>2, ConnectionType
<1>4. p < j => tt.conn[tt.rev[p]].arr >= tt.conn[tt.rev[j]].arr
  BY DEF DataOK, IsTimetable, Conns
<1>5. j < p
  BY <1>1, <1>2, <1>3, <1>4
<1> QED
  BY <1>1, <1>5 DEF Met

LEMMA MetOnTrip ==
    ASSUME DataOK, NEW p \in Conns, NEW x \in Conns, x > tt.rev[p],
           tt.conn[x].trip = tt.conn[tt.rev[p]].trip
    PROVE  Met(x, p)
<1>1. PICK j \in Conns : tt.rev[j] = x
  BY RevOnto
<1>2. tt.rev[p] \in Conns /\ j \in Nat /\ p \in Nat
  BY ConnectionType, DataType
<1>3. tt.rev[p] \in Nat /\ x \in Nat
  BY <1>2, ConnectionType
<1>4. p < j => tt.rev[p] > tt.rev[j]
  BY <1>1, RevOrder
<1>5. j < p
  BY <1>1, <1>2, <1>3, <1>4
<1> QED
  BY <1>1, <1>5 DEF Met

LEMMA MetNext ==
    ASSUME DataOK, NEW p \in Conns, NEW e, Met(e, p + 1)
    PROVE  Met(e, p) \/ e = tt.rev[p]
<1>1. PICK j \in Conns : j < p + 1 /\ tt.rev[j] = e
  BY DEF Met
<1>2. j \in Nat /\ p \in Nat
  BY ConnectionType
<1>3. j < p \/ j = p
  BY <1>1, <1>2
<1> QED
  BY <1>1, <1>3 DEF Met

LEMMA BoardByType ==
    ASSUME DataOK, FitsShort, NEW e \in Conns
    PROVE  /\ BoardBy(e) \in Int /\ BoardBy(e) <= tt.conn[e].dep
           /\ BoardBy(e) >= tt.conn[e].dep - q.minWait
           /\ MinWait(e) \in Nat /\ MinWait(e) <= q.minWait
<1>1. tt.conn[e].dep \in Nat /\ MinWait(e) \in Nat /\ q.minWait \in Nat
  BY ConnectionType, MinWaitNat, DataType
<1>2. MinWait(e) <= q.minWait
  <2>1. tt.conn[e].minWait \in {-1, 0}
    BY ConnectionType
  <2>2. AsShort(q.minWait) = q.minWait
    BY <1>1, AsShortValue DEF FitsShort
  <2> QED
    BY <1>1, <2>1, <2>2 DEF MinWait
<1> QED
  BY <1>1, <1>2 DEF BoardBy

LEMMA NearlyKept ==
    ASSUME DataOK, FitsShort, NEW a \in Conns, NEW b \in Conns, NEW e \in Conns,
           Nearly(a, e), BoardBy(b) >= tt.conn[a].dep
    PROVE  Nearly(b, e)
<1>1. PICK da, db, de, ba, bb, be :
        /\ da = tt.conn[a].dep /\ db = tt.conn[b].dep /\ de = tt.conn[e].dep
        /\ ba = BoardBy(a) /\ bb = BoardBy(b) /\ be = BoardBy(e)
  OBVIOUS
<1>2. /\ da \in Int /\ db \in Int /\ de \in Int /\ ba \in Int /\ bb \in Int /\ be \in Int
      /\ ba <= da /\ bb <= db /\ be <= de /\ bb >= da
  BY <1>1, BoardByType, ConnectionType
<1>3. da > be \/ (ba >= be /\ da >= de)
  BY <1>1 DEF Nearly
<1>4. db > be \/ (bb >= be /\ db >= de)
  BY <1>2, <1>3
<1> QED
  BY <1>1, <1>4 DEF Nearly

-----------------------------------------------------------------------------
(***************************************************************************)
(* A step of the scan                                                      *)
(***************************************************************************)
\* alighting where it is useful is possible in time for the label
LEMMA SoughtReachable ==
    ASSUME DataOK, FitsShort, Progressing, arrivalTime \in Int, revTime \in [Nodes -> Int],
           EgressKept, NEW p \in Conns, PassedOnward(p), SoughtExit(tt.rev[p])
    PROVE  revTime[tt.conn[tt.rev[p]].to] >= tt.conn[tt.rev[p]].arr
<1>0. PICK c, n, a : c = tt.rev[p] /\ n = tt.conn[c].to /\ a = tt.conn[c].arr
  OBVIOUS
<1>1. c \in Conns /\ n \in Nodes /\ a \in Nat /\ revTime[n] \in Int /\ LeadsHome(c)
  BY <1>0, DataType, ConnectionType DEF SoughtExit
<1>2. CASE n \in EgressNodes /\ a + q.egress[n] <= arrivalTime
  <2>1. q.egress[n] \in Nat
    BY <1>1, <1>2, DataType DEF EgressNodes
  <2>2. revTime[n] >= arrivalTime - q.egress[n]
    BY <1>2 DEF EgressKept
  <2>3. \A r, t \in Int, w, b \in Nat : r >= t - w /\ b + w <= t => r >= b
    OBVIOUS
  <2> QED
    BY <1>0, <1>1, <1>2, <2>1, <2>2, <2>3
<1>3. CASE \E f \in Onward : BoardedAfter(c, f)
  <2>1. PICK f \in Onward : BoardedAfter(c, f)
    BY <1>3
  <2>2. PICK e \in Sought : Rides(e, c)
    BY <1>0 DEF SoughtExit
  <2>3. f \in Sought /\ f \in Conns
    BY <1>1, <2>1, <2>2, SoughtFollows, OnwardConns
  <2>4. PICK m, w, d, v : m = tt.conn[f].from /\ w = tt.walk[n][m] /\ d = tt.conn[f].dep /\ v = MinWait(f)
    OBVIOUS
  <2>5. Transferable(n, m) /\ w <= q.maxTransfer /\ a + w + v <= d
    BY <1>0, <2>1, <2>4 DEF BoardedAfter
  <2>6. m \in Nodes /\ w \in Nat /\ d \in Nat /\ v \in Nat
    BY <1>1, <2>3, <2>4, <2>5, ConnectionType, WalkType, MinWaitNat
  <2>7. d < tt.conn[f].arr /\ tt.conn[f].arr \in Nat
    BY <2>3, <2>4, ConnectionType DEF Progressing
  <2>8. tt.conn[f].arr > a
    BY <1>1, <2>5, <2>6, <2>7
  <2>9. Met(f, p)
    BY <1>0, <2>3, <2>8, MetLater
  <2>10. revTime[n] >= BoardBy(f) - w
    BY <1>1, <2>3, <2>4, <2>5, <2>9 DEF PassedOnward, Heeded
  <2>11. BoardBy(f) = d - v
    BY <2>4 DEF BoardBy
  <2>12. \A r \in Int : r >= (d - v) - w => r >= a
    BY <1>1, <2>5, <2>6
  <2> QED
    BY <1>0, <1>1, <2>10, <2>11, <2>12
<1> QED
  BY <1>0, <1>1, <1>2, <1>3 DEF LeadsHome

\* a connection looked for is reachable, and its trip is left
LEMMA SoughtRidden ==
    ASSUME DataOK, FitsShort, Progressing, arrivalTime \in Int, revTime \in [Nodes -> Int],
           EgressKept, NEW p \in Conns, PassedOnward(p), PassedExits(p),
           NEW c, c = tt.rev[p], c \in Sought \/ SoughtExit(c)
    PROVE  RevReachable(c) /\ RevExit(c) # NoConnection
<1>1. c \in Conns /\ c \in Nat \ {0} /\ c # NoConnection
  BY DataType, ConnectionType DEF NoConnection
<1>2. CASE SoughtExit(c)
  <2>1. revTime[tt.conn[c].to] >= tt.conn[c].arr
    BY <1>2, SoughtReachable
  <2>2. tt.conn[c].canUnboard
    BY <1>2 DEF SoughtExit, Rides
  <2> QED
    BY <1>1, <2>1, <2>2 DEF RevReachable, RevExit, TakesExit
<1>3. CASE c \in Sought /\ ~ SoughtExit(c)
  <2>1. PICK x \in Conns : Rides(c, x) /\ LeadsHome(x)
    BY <1>3, SoughtConns, OnwardUnfolded
  <2>2. SoughtExit(x)
    BY <1>3, <2>1 DEF SoughtExit
  <2>3. c <= x /\ c # x /\ tt.conn[x].trip = tt.conn[c].trip /\ x \in Nat
    BY <1>3, <2>1, <2>2, ConnectionType DEF Rides
  <2>4. x > c
    BY <1>1, <2>3
  <2>5. Met(x, p)
    BY <2>1, <2>3, <2>4, MetOnTrip
  <2>6. exit[tt.conn[c].trip] # NoConnection
    BY <2>1, <2>2, <2>3, <2>5 DEF PassedExits
  <2> QED
    BY <1>1, <2>6 DEF RevReachable, RevExit
<1> QED
  BY <1>2, <1>3

\* labels only grow: what is known stays known
LabelsGrow ==
    /\ \A n \in Nodes : revTime[n] \in Int /\ revTime'[n] \in Int /\ revTime'[n] >= revTime[n]
    /\ \A t \in Trips : exit[t] # NoConnection => exit'[t] # NoConnection
    /\ \A n \in Nodes : accSteps[n].enter # NoConnection =>
          /\ accSteps[n].enter \in Conns
          /\ accSteps'[n].enter \in Conns /\ accSteps'[n].enter # NoConnection
          /\ \/ accSteps'[n].enter = accSteps[n].enter
             \/ BoardBy(accSteps'[n].enter) >= tt.conn[accSteps[n].enter].dep

LEMMA RideGrows ==
    ASSUME RInv, FitsShort, RevScanning, RevReachable(tt.rev[revPos]),
           RideBack(tt.rev[revPos]), UNCHANGED <<dataVars, arrivalTime>>
    PROVE  LabelsGrow
<1>0. PICK c, x, trip, m : c = tt.rev[revPos] /\ x = RevExit(c) /\ trip = tt.conn[c].trip
                           /\ m = tt.conn[c].from
  OBVIOUS
<1>1. /\ TypeOK /\ DataOK /\ ReverseTypeOK /\ revPos \in Conns /\ c \in Conns /\ ReverseLabelsSound
  BY <1>0, DataType DEF RInv, TypeOK, DataOK, RevScanning, dataVars
<1>2. trip \in Trips /\ m \in Nodes /\ c \in Nat \ {0} /\ c # NoConnection
  BY <1>0, <1>1, ConnectionType DEF NoConnection
<1>3. /\ exit' = [exit EXCEPT ![trip] = x]
      /\ \/ tt.conn[c].canBoard /\ x # NoConnection /\ Board(c)
         \/ UNCHANGED <<revTime, revSteps, accSteps>>
  BY <1>0 DEF RideBack
<1>4. \A n \in Nodes : revTime[n] \in Int /\ revTime'[n] \in Int /\ revTime'[n] >= revTime[n]
  <2>1. revTime \in [Nodes -> Int]
    BY <1>1 DEF ReverseTypeOK
  <2>2. CASE Board(c)
    BY <1>1, <2>1, <2>2, BoardType, BoardRaises
  <2>3. CASE UNCHANGED <<revTime, revSteps, accSteps>>
    BY <2>1, <2>3
  <2> QED
    BY <1>3, <2>2, <2>3
<1>5. ASSUME NEW t \in Trips, exit[t] # NoConnection PROVE exit'[t] # NoConnection
  <2>1. exit'[t] = IF t = trip THEN x ELSE exit[t]
    BY <1>1, <1>3 DEF ReverseTypeOK
  <2>2. t = trip => x # NoConnection
    BY <1>0, <1>2, <1>5 DEF RevExit
  <2> QED
    BY <1>5, <2>1, <2>2
<1>6. ASSUME NEW n \in Nodes, accSteps[n].enter # NoConnection
      PROVE  /\ accSteps[n].enter \in Conns
             /\ accSteps'[n].enter \in Conns /\ accSteps'[n].enter # NoConnection
             /\ \/ accSteps'[n].enter = accSteps[n].enter
                \/ BoardBy(accSteps'[n].enter) >= tt.conn[accSteps[n].enter].dep
  <2>1. accSteps[n].enter \in Conns
    BY <1>1, <1>6, ReverseParts DEF AccessSound, LeadsOn, Rides
  <2>2. CASE accSteps'[n] = accSteps[n]
    BY <1>6, <2>1, <2>2
  <2>3. CASE n = m /\ AccessStep(c) /\ accSteps'[n] = JourneyStep(c, x, 0)
    <3>1. accSteps'[n].enter = c
      BY <2>3 DEF JourneyStep
    <3>2. tt.conn[accSteps[m].enter].dep <= BoardBy(c)
      BY <1>0, <1>6, <2>3 DEF AccessStep, BoardBy
    <3>3. tt.conn[accSteps[m].enter].dep \in Nat /\ BoardBy(c) \in Int
      BY <1>1, <2>1, <2>3, ConnectionType, BoardByType
    <3>4. \A i \in Nat, j \in Int : i <= j => j >= i
      OBVIOUS
    <3> QED
      BY <1>1, <1>2, <2>1, <2>3, <3>1, <3>2, <3>3, <3>4
  <2>4. accSteps \in [Nodes -> Step]
    BY <1>1 DEF ReverseTypeOK
  <2>5. accSteps'[n] = accSteps[n] \/ (n = m /\ AccessStep(c) /\ accSteps'[n] = JourneyStep(c, x, 0))
    BY <1>0, <1>3, <2>4 DEF Board
  <2> QED
    BY <2>2, <2>3, <2>5
<1> QED
  BY <1>4, <1>5, <1>6 DEF LabelsGrow

LEMMA LeavableFixed ==
    ASSUME UNCHANGED <<tt, q, departureTime>>
    PROVE  /\ \A e : Leavable(e)' <=> Leavable(e)
           /\ \A a, e : Nearly(a, e)' <=> Nearly(a, e)
           /\ \A e : BoardBy(e)' = BoardBy(e)
BY DEF Leavable, Nearly, BoardBy, MinWait, AccessNodes

LEMMA HeededKept ==
    ASSUME DataOK, FitsShort, UNCHANGED <<tt, q, departureTime>>, LabelsGrow,
           NEW e \in Conns, Heeded(e)
    PROVE  Heeded(e)'
<1>1. PICK m : m = tt.conn[e].from
  OBVIOUS
<1>2. m \in Nodes /\ BoardBy(e) \in Int
  BY <1>1, ConnectionType, BoardByType
<1>3. ASSUME NEW n \in Nodes, Transferable(n, m), tt.walk[n][m] <= q.maxTransfer
      PROVE  revTime'[n] >= BoardBy(e) - tt.walk[n][m]
  <2>1. revTime[n] >= BoardBy(e) - tt.walk[n][m]
    BY <1>1, <1>3 DEF Heeded
  <2>2. tt.walk[n][m] \in Int
    BY <1>2, WalkType
  <2>3. \A r, s, b, w \in Int : r >= b - w /\ s >= r => s >= b - w
    OBVIOUS
  <2> QED
    BY <1>2, <2>1, <2>2, <2>3 DEF LabelsGrow
<1>4. ASSUME Leavable(e) PROVE accSteps'[m].enter # NoConnection /\ Nearly(accSteps'[m].enter, e)
  <2>1. accSteps[m].enter # NoConnection /\ Nearly(accSteps[m].enter, e)
    BY <1>1, <1>4 DEF Heeded
  <2>2. PICK a, b : a = accSteps[m].enter /\ b = accSteps'[m].enter
    OBVIOUS
  <2>3. a \in Conns /\ b \in Conns /\ b # NoConnection /\ (b = a \/ BoardBy(b) >= tt.conn[a].dep)
    BY <1>2, <2>1, <2>2 DEF LabelsGrow
  <2> QED
    BY <2>1, <2>2, <2>3, NearlyKept
<1> QED
  BY <1>1, <1>3, <1>4, LeavableFixed DEF Heeded, Transferable

\* no first boarding is refused for the time waited before it
Unlimited == q.maxFirstWait = -1 \/ departureTime = -1

LEMMA BoardHeeds ==
    ASSUME DataOK, ReverseTypeOK, FitsShort, Unlimited, NEW c \in Conns, Board(c),
           UNCHANGED <<tt, q, departureTime>>,
           \A n \in Nodes : accSteps[n].enter # NoConnection => accSteps[n].enter \in Conns
    PROVE  Heeded(c)'
<1>0. PICK m, b : m = tt.conn[c].from /\ b = BoardBy(c)
  OBVIOUS
<1>1. m \in Nodes /\ b \in Int /\ c # NoConnection /\ tt.conn[c].dep \in Nat /\ MinWait(c) \in Nat
  BY <1>0, ConnectionType, BoardByType DEF NoConnection
<1>2. ASSUME NEW n \in Nodes, Transferable(n, m), tt.walk[n][m] <= q.maxTransfer
      PROVE  revTime'[n] >= b - tt.walk[n][m]
  <2>1. PICK w, r : w = tt.walk[n][m] /\ r = revTime[n]
    OBVIOUS
  <2>2. w \in Nat /\ r \in Int
    BY <1>1, <1>2, <2>1, WalkType DEF ReverseTypeOK
  <2>3. CASE RevImproves(c, n)
    <3>1. revTime'[n] = b - w
      BY <1>0, <2>1, <2>3 DEF Board, BoardBy
    <3> QED
      BY <1>1, <2>1, <2>2, <3>1
  <2>4. CASE ~ RevImproves(c, n)
    <3>1. revTime'[n] = r
      BY <2>1, <2>4 DEF Board
    <3>2. ~ (r <= b) \/ ~ (b - w >= r)
      BY <1>0, <1>2, <2>1, <2>4 DEF RevImproves, BoardBy
    <3>3. r >= b - w
      BY <1>1, <2>2, <3>2
    <3> QED
      BY <2>1, <3>1, <3>3
  <2> QED
    BY <2>3, <2>4
<1>3. ASSUME Leavable(c) PROVE accSteps'[m].enter # NoConnection /\ Nearly(accSteps'[m].enter, c)
  <2>1. accSteps \in [Nodes -> Step]
    BY DEF ReverseTypeOK
  <2>2. CASE AccessStep(c)
    <3>1. accSteps'[m].enter = c
      BY <1>0, <1>1, <2>1, <2>2 DEF Board, JourneyStep
    <3>2. Nearly(c, c)
      BY <1>0, <1>1 DEF Nearly
    <3> QED
      BY <1>1, <3>1, <3>2
  <2>3. CASE ~ AccessStep(c)
    <3>1. accSteps' = accSteps
      BY <2>3 DEF Board
    <3>2. \/ departureTime = -1
          \/ /\ m \in AccessNodes /\ b - q.access[m] >= departureTime
             /\ q.maxFirstWait < MinWait(c)
      BY <1>0, <1>1, <1>3 DEF Leavable, Unlimited
    <3>3. /\ accSteps[m].enter # NoConnection
          /\ ~ (tt.conn[accSteps[m].enter].dep <= b)
      BY <1>0, <2>3, <3>2 DEF AccessStep, BoardBy
    <3>4. tt.conn[accSteps[m].enter].dep \in Nat
      BY <1>1, <3>3, ConnectionType
    <3>5. tt.conn[accSteps[m].enter].dep > b
      BY <1>1, <3>3, <3>4
    <3> QED
      BY <1>0, <3>1, <3>3, <3>5 DEF Nearly
  <2> QED
    BY <2>2, <2>3
<1> QED
  BY <1>0, <1>2, <1>3, LeavableFixed DEF Heeded, Transferable

PassedTo(p) == PassedOnward(p) /\ PassedExits(p)

Backwards == ReverseOnward /\ EgressKept /\ AccessMet /\ UsableSought

\* an access node boarded at is one the break may rely on
LEMMA RideAccessMet ==
    ASSUME RInv, FitsShort, Unlimited, RevScanning, RevReachable(tt.rev[revPos]),
           RideBack(tt.rev[revPos]), UNCHANGED <<dataVars, arrivalTime, departureTime>>,
           AccessMet, LabelsGrow
    PROVE  AccessMet'
<1>0. PICK c, x, m : c = tt.rev[revPos] /\ x = RevExit(c) /\ m = tt.conn[c].from
  OBVIOUS
<1>1. /\ DataOK /\ ReverseTypeOK /\ c \in Conns /\ m \in Nodes /\ tt.conn[c].dep \in Nat
      /\ tt' = tt /\ q' = q /\ departureTime' = departureTime /\ accSteps \in [Nodes -> Step]
  BY <1>0, DataType, ConnectionType DEF RInv, TypeOK, DataOK, RevScanning, dataVars, ReverseTypeOK
<1>2. Board(c) \/ UNCHANGED <<accSteps, accessReached>>
  BY <1>0 DEF RideBack
<1>3. CASE UNCHANGED <<accSteps, accessReached>>
  BY <1>1, <1>3, LeavableFixed DEF AccessMet, AccessNodes, Conns
<1>4. CASE Board(c) /\ accessReached # -1
  <2>1. accessReached' = accessReached
    BY <1>4 DEF Board
  <2>2. PICK d \in Conns :
           /\ tt.conn[d].from \in AccessNodes /\ tt.conn[d].dep = accessReached
           /\ Leavable(d) => /\ accSteps[tt.conn[d].from].enter # NoConnection
                             /\ tt.conn[accSteps[tt.conn[d].from].enter].dep >= accessReached
    BY <1>4 DEF AccessMet
  <2>3. PICK n : n = tt.conn[d].from
    OBVIOUS
  <2>4. n \in Nodes /\ accessReached \in Nat
    BY <1>1, <2>2, <2>3, ConnectionType
  <2>5. ASSUME Leavable(d)
        PROVE  accSteps'[n].enter # NoConnection /\ tt.conn[accSteps'[n].enter].dep >= accessReached
    <3>1. PICK a, b : a = accSteps[n].enter /\ b = accSteps'[n].enter
      OBVIOUS
    <3>2. a # NoConnection /\ tt.conn[a].dep >= accessReached
      BY <2>2, <2>3, <2>5, <3>1
    <3>3. a \in Conns /\ b \in Conns /\ b # NoConnection /\ (b = a \/ BoardBy(b) >= tt.conn[a].dep)
      BY <2>4, <3>1, <3>2 DEF LabelsGrow
    <3>4. /\ tt.conn[a].dep \in Nat /\ tt.conn[b].dep \in Nat /\ BoardBy(b) \in Int
          /\ BoardBy(b) <= tt.conn[b].dep
      BY <1>1, <3>3, ConnectionType, BoardByType
    <3>5. tt.conn[b].dep >= accessReached
      BY <2>4, <3>2, <3>3, <3>4
    <3> QED
      BY <3>1, <3>3, <3>5
  <2>6. AccessNodes' = AccessNodes /\ Conns' = Conns /\ (Leavable(d)' <=> Leavable(d))
    BY <1>1, LeavableFixed DEF AccessNodes, Conns
  <2> QED
    BY <1>1, <1>4, <2>1, <2>2, <2>3, <2>5, <2>6 DEF AccessMet
<1>5. CASE Board(c) /\ accessReached = -1
  <2>1. \A n \in AccessNodes : accSteps[n].enter = NoConnection
    BY <1>5 DEF AccessMet
  <2>2. CASE m \in AccessNodes
    <3>1. accessReached' = tt.conn[c].dep
      BY <1>0, <1>5, <2>2 DEF Board
    <3>2. accessReached' # -1
      BY <1>1, <3>1
    <3>3. ASSUME Leavable(c)
          PROVE  accSteps'[m].enter # NoConnection /\ tt.conn[accSteps'[m].enter].dep >= accessReached'
      <4>1. AccessStep(c)
        <5>1. MinWait(c) \in Nat
          BY <1>1, MinWaitNat
        <5>2. -1 < MinWait(c)
          BY <5>1
        <5> QED
          BY <1>0, <2>1, <2>2, <3>3, <5>2 DEF AccessStep, Leavable, Unlimited, BoardBy
      <4>2. accSteps'[m].enter = c
        BY <1>0, <1>1, <1>5, <4>1 DEF Board, JourneyStep
      <4> QED
        BY <1>1, <3>1, <4>2, ConnectionType DEF NoConnection
    <3>4. AccessNodes' = AccessNodes /\ Conns' = Conns /\ (Leavable(c)' <=> Leavable(c))
      BY <1>1, LeavableFixed DEF AccessNodes, Conns
    <3> QED
      BY <1>0, <1>1, <2>2, <3>1, <3>2, <3>3, <3>4 DEF AccessMet
  <2>3. CASE m \notin AccessNodes
    <3>1. accessReached' = -1
      BY <1>0, <1>5, <2>3 DEF Board
    <3>2. \A n \in Nodes : n # m => accSteps'[n] = accSteps[n]
      BY <1>0, <1>1, <1>5 DEF Board
    <3>3. AccessNodes' = AccessNodes /\ \A n \in AccessNodes : n \in Nodes /\ n # m
      BY <1>1, <2>3 DEF AccessNodes
    <3> QED
      BY <2>1, <3>1, <3>2, <3>3 DEF AccessMet
  <2> QED
    BY <2>2, <2>3
<1> QED
  BY <1>2, <1>3, <1>4, <1>5

\* a reachable connection
LEMMA RideBackwards ==
    ASSUME RInv, FitsShort, Progressing, Unlimited, RevScanning, RevReachable(tt.rev[revPos]),
           tt.conn[tt.rev[revPos]].trip \notin q.disabled,
           RideBack(tt.rev[revPos]), UNCHANGED <<dataVars, arrivalTime, departureTime, usable>>,
           Backwards, PassedTo(revPos)
    PROVE  Backwards' /\ revPos' = revPos + 1 /\ \A p : p = revPos + 1 => PassedTo(p)'
<1>0. PICK c, x, trip : c = tt.rev[revPos] /\ x = RevExit(c) /\ trip = tt.conn[c].trip
  OBVIOUS
<1>1. /\ DataOK /\ ReverseTypeOK /\ c \in Conns /\ trip \in Trips /\ revPos \in Conns
      /\ tt' = tt /\ q' = q /\ departureTime' = departureTime /\ arrivalTime' = arrivalTime
      /\ arrivalTime \in Int /\ revTime \in [Nodes -> Int] /\ usable' = usable
      /\ ReverseLabelsSound
  BY <1>0, DataType, ConnectionType DEF RInv, TypeOK, DataOK, RevScanning, dataVars, ReverseTypeOK
<1>2. LabelsGrow
  BY RideGrows
<1>3. ReverseOnward'
  BY RideOnward DEF Backwards
<1>4. AccessMet'
  BY <1>2, RideAccessMet DEF Backwards
<1>5. /\ Sought' = Sought /\ (\A y : SoughtExit(y)' <=> SoughtExit(y)) /\ Conns' = Conns
      /\ EgressNodes' = EgressNodes /\ \A e, p : Met(e, p)' <=> Met(e, p)
  BY <1>1, SoughtFixed DEF Conns, EgressNodes, Met
<1>6. UsableSought'
  BY <1>1, <1>5 DEF Backwards, UsableSought
<1>7. EgressKept'
  <2> SUFFICES ASSUME NEW n \in EgressNodes PROVE revTime'[n] >= arrivalTime - q.egress[n]
    BY <1>1, <1>5 DEF EgressKept
  <2>1. n \in Nodes /\ q.egress[n] \in Nat
    BY <1>1, DataType DEF EgressNodes
  <2>2. revTime[n] >= arrivalTime - q.egress[n]
    BY DEF Backwards, EgressKept
  <2>3. \A r, s, t \in Int, w \in Nat : r >= t - w /\ s >= r => s >= t - w
    OBVIOUS
  <2> QED
    BY <1>1, <1>2, <2>1, <2>2, <2>3 DEF LabelsGrow
<1>8. revPos' = revPos + 1 /\ exit' = [exit EXCEPT ![trip] = x]
  BY <1>0 DEF RideBack
<1>9. c \in Sought \/ SoughtExit(c) => x # NoConnection
  BY <1>0, <1>1, SoughtRidden DEF Backwards, PassedTo
<1>10. ASSUME NEW e \in Sought, Met(e, revPos + 1) PROVE Heeded(e)'
  <2>1. e \in Conns
    BY SoughtConns
  <2>2. CASE Met(e, revPos)
    BY <1>1, <1>2, <2>1, <2>2, HeededKept DEF PassedTo, PassedOnward
  <2>3. CASE e = c
    <3>1. x # NoConnection /\ tt.conn[c].canBoard
      BY <1>9, <2>3, SoughtConns
    <3>2. Board(c)
      BY <1>0, <3>1 DEF RideBack
    <3>3. \A n \in Nodes : accSteps[n].enter # NoConnection => accSteps[n].enter \in Conns
      BY <1>2 DEF LabelsGrow
    <3> QED
      BY <1>1, <2>3, <3>2, <3>3, BoardHeeds
  <2> QED
    BY <1>0, <1>1, <1>10, <2>2, <2>3, MetNext
<1>11. ASSUME NEW y \in Conns, SoughtExit(y), Met(y, revPos + 1)
       PROVE  exit'[tt.conn[y].trip] # NoConnection
  <2>1. tt.conn[y].trip \in Trips
    BY <1>1, ConnectionType
  <2>2. CASE Met(y, revPos)
    BY <1>2, <1>11, <2>1, <2>2 DEF PassedTo, PassedExits, LabelsGrow
  <2>3. CASE y = c
    <3>1. exit'[trip] = x
      BY <1>1, <1>8 DEF ReverseTypeOK
    <3> QED
      BY <1>0, <1>9, <1>11, <2>3, <3>1
  <2> QED
    BY <1>0, <1>1, <1>11, <2>2, <2>3, MetNext
<1>12. ASSUME NEW p, p = revPos + 1 PROVE PassedTo(p)'
  <2>1. PassedOnward(p)'
    BY <1>5, <1>10, <1>12 DEF PassedOnward
  <2>2. PassedExits(p)'
    BY <1>1, <1>5, <1>11, <1>12 DEF PassedExits
  <2> QED
    BY <2>1, <2>2 DEF PassedTo
<1> QED
  BY <1>3, <1>4, <1>6, <1>7, <1>8, <1>12 DEF Backwards

\* a step that leaves the labels alone
LEMMA BackwardsFrame ==
    ASSUME UNCHANGED <<tt, q, arrivalTime, departureTime, usable, revTime, revSteps, accSteps,
                       exit, accessReached>>
    PROVE  /\ Backwards => Backwards'
           /\ \A p : PassedTo(p) => PassedTo(p)'
<1>1. /\ Sought' = Sought /\ (\A y : SoughtExit(y)' <=> SoughtExit(y)) /\ Conns' = Conns
      /\ EgressNodes' = EgressNodes /\ AccessNodes' = AccessNodes
      /\ \A e, p : Met(e, p)' <=> Met(e, p)
  BY SoughtFixed DEF Conns, EgressNodes, AccessNodes, Met
<1>2. Onward' = Onward /\ (\A x : LeadsHome(x)' <=> LeadsHome(x)) /\ \A e : Leavable(e)' <=> Leavable(e)
  BY OnwardFixed, LeavableFixed
<1>3. ReverseOnward => ReverseOnward'
  BY <1>2 DEF ReverseOnward
<1>4. EgressKept /\ AccessMet /\ UsableSought => EgressKept' /\ AccessMet' /\ UsableSought'
  BY <1>1, <1>2 DEF EgressKept, AccessMet, UsableSought
<1>5. \A e : Heeded(e)' <=> Heeded(e)
  BY LeavableFixed DEF Heeded, Transferable
<1>6. ASSUME NEW p, PassedTo(p) PROVE PassedTo(p)'
  <2>1. PassedOnward(p)'
    BY <1>1, <1>5, <1>6 DEF PassedTo, PassedOnward
  <2>2. PassedExits(p)'
    BY <1>1, <1>6 DEF PassedTo, PassedExits
  <2> QED
    BY <2>1, <2>2 DEF PassedTo
<1> QED
  BY <1>3, <1>4, <1>6 DEF Backwards

\* a connection that is not considered, or not reachable, is none of those looked for
LEMMA PassBackwards ==
    ASSUME RInv, FitsShort, Progressing, RevScanning, Backwards, PassedTo(revPos),
           \/ ~ (Early(tt.rev[revPos]) /\ tt.conn[tt.rev[revPos]].trip \in usable \ q.disabled)
           \/ ~ RevReachable(tt.rev[revPos])
    PROVE  PassedTo(revPos + 1)
<1>0. PICK c : c = tt.rev[revPos]
  OBVIOUS
<1>1. /\ DataOK /\ ReverseTypeOK /\ c \in Conns /\ revPos \in Conns
      /\ arrivalTime \in Int /\ revTime \in [Nodes -> Int]
  BY <1>0, DataType DEF RInv, TypeOK, DataOK, RevScanning, ReverseTypeOK
<1>2. c \notin Sought /\ ~ SoughtExit(c)
  <2>1. c \in Sought \/ SoughtExit(c) => Early(c) /\ tt.conn[c].trip \in usable \ q.disabled
    BY <1>1, SoughtConsidered DEF Backwards
  <2>2. c \in Sought \/ SoughtExit(c) => RevReachable(c)
    BY <1>0, <1>1, SoughtRidden DEF Backwards, PassedTo
  <2> QED
    BY <1>0, <2>1, <2>2
<1>3. PassedOnward(revPos + 1)
  BY <1>0, <1>1, <1>2, MetNext DEF PassedTo, PassedOnward
<1>4. PassedExits(revPos + 1)
  BY <1>0, <1>1, <1>2, MetNext DEF PassedTo, PassedExits
<1> QED
  BY <1>3, <1>4 DEF PassedTo


-----------------------------------------------------------------------------
(***************************************************************************)
(* The whole scan: where it starts, its steps, and its end                 *)
(***************************************************************************)
\* what the iterator of the hour passes over arrives after the hour
LEMMA ReverseBeginPasses ==
    ASSUME DataOK, NEW hour \in Nat, NEW j \in Conns, j < ReverseBegin(hour)
    PROVE  tt.conn[tt.rev[j]].arr > hour * SecondsPerHour
<1> DEFINE R == {k \in Conns : tt.conn[tt.rev[k]].arr > hour * SecondsPerHour}
<1>1. j \in Nat \ {0} /\ tt.conn[tt.rev[j]].arr \in Nat /\ hour * SecondsPerHour \in Nat
  BY ConnectionType, DataType DEF SecondsPerHour
<1>2. ReverseBegin(hour) = 1 + Cardinality(R)
  BY <1>1 DEF ReverseBegin, CacheEndHour
<1>3. SUFFICES ASSUME ~ (tt.conn[tt.rev[j]].arr > hour * SecondsPerHour) PROVE FALSE
  OBVIOUS
<1>4. R \subseteq 1 .. j - 1
  <2> SUFFICES ASSUME NEW k \in R PROVE k \in 1 .. j - 1
    OBVIOUS
  <2>1. k \in Conns /\ k \in Nat \ {0} /\ tt.conn[tt.rev[k]].arr \in Nat
    BY ConnectionType, DataType
  <2>2. j < k => tt.conn[tt.rev[j]].arr >= tt.conn[tt.rev[k]].arr
    BY <2>1 DEF DataOK, IsTimetable, Conns
  <2>3. k # j /\ ~ (j < k)
    BY <1>1, <1>3, <2>1, <2>2
  <2> QED
    BY <1>1, <2>1, <2>3
<1>5. j - 1 \in Nat
  BY <1>1
<1>6. Cardinality(R) \in 0 .. j - 1
  <2> HIDE DEF R
  <2> QED
    BY <1>4, <1>5, Count
<1> HIDE DEF R
<1> QED
  BY <1>1, <1>2, <1>6

\* nothing looked for is passed over
LEMMA BeginPassed ==
    DataOK /\ FitsShort /\ arrivalTime \in Nat =>
        \A p : p = ReverseBegin(arrivalTime \div SecondsPerHour + 1) => PassedTo(p)
<1> SUFFICES ASSUME DataOK, FitsShort, arrivalTime \in Nat, NEW p,
                    p = ReverseBegin(arrivalTime \div SecondsPerHour + 1)
             PROVE  PassedTo(p)
  OBVIOUS
<1>1. PICK hour : hour = arrivalTime \div SecondsPerHour + 1
  OBVIOUS
<1>2. hour \in Nat /\ hour * SecondsPerHour > arrivalTime
  BY <1>1 DEF SecondsPerHour
<1>3. ASSUME NEW e \in Conns, Met(e, p), Early(e) PROVE FALSE
  <2>1. PICK j \in Conns : j < p /\ tt.rev[j] = e
    BY <1>3 DEF Met
  <2>2. tt.conn[e].arr > hour * SecondsPerHour
    BY <1>1, <1>2, <2>1, ReverseBeginPasses
  <2>3. PICK n \in EgressNodes : tt.conn[e].arr + q.egress[n] <= arrivalTime
    BY <1>3 DEF Early
  <2>4. q.egress[n] \in Nat /\ tt.conn[e].arr \in Nat /\ hour * SecondsPerHour \in Int
    BY <1>2, ConnectionType, DataType DEF EgressNodes, SecondsPerHour
  <2> QED
    BY <1>2, <2>2, <2>3, <2>4
<1>4. \A e \in Sought : e \in Conns /\ Early(e)
  BY SoughtConns, OnwardEarly
<1>5. \A x \in Conns : SoughtExit(x) => Early(x)
  BY OnwardEarly DEF SoughtExit
<1> QED
  BY <1>3, <1>4, <1>5 DEF PassedTo, PassedOnward, PassedExits

\* the labels the scan starts from
Untouched ==
    /\ \A t \in Trips : exit[t] = NoConnection
    /\ \A n \in Nodes : revSteps[n].enter = NoConnection /\ accSteps[n].enter = NoConnection
    /\ revTime = EgressLabels(arrivalTime)
    /\ accessReached = -1

LEMMA StartBackwards ==
    DataOK /\ arrivalTime \in Int /\ Untouched /\ UsableSought => Backwards
<1> SUFFICES ASSUME DataOK, arrivalTime \in Int, Untouched, UsableSought PROVE Backwards
  OBVIOUS
<1>1. ReverseOnward
  BY DEF Untouched, ReverseOnward
<1>2. EgressKept
  <2> SUFFICES ASSUME NEW n \in EgressNodes PROVE revTime[n] >= arrivalTime - q.egress[n]
    BY DEF EgressKept
  <2>1. n \in Nodes /\ q.egress[n] \in Nat
    BY DataType DEF EgressNodes
  <2>2. revTime[n] = arrivalTime - q.egress[n]
    BY <2>1 DEF Untouched, EgressLabels
  <2> QED
    BY <2>1, <2>2
<1>3. AccessMet
  BY DEF Untouched, AccessMet, AccessNodes
<1> QED
  BY <1>1, <1>2, <1>3 DEF Backwards

\* the loop is at position p, or has been left there
ScanBack(p) ==
    /\ p \in 1 .. Len(tt.rev) + 1
    /\ p = revPos \/ (revPos = Len(tt.rev) + 1 /\ p \in Conns /\ RevStop(tt.rev[p]))

BackComplete == \E p : ScanBack(p) /\ PassedTo(p)

LEMMA StepBackwards ==
    ASSUME RInv, FitsShort, Progressing, Unlimited, BackStep, Backwards, BackComplete,
           LET c == tt.rev[revPos]
           IN  \/ /\ BackMove /\ revPos' = revPos + 1
                  /\ \/ ~ (Early(c) /\ tt.conn[c].trip \in usable \ q.disabled)
                     \/ ~ RevReachable(c)
               \/ BackMove /\ revPos' = Len(tt.rev) + 1 /\ RevStop(c)
               \/ RevReachable(c) /\ RideBack(c) /\ tt.conn[c].trip \notin q.disabled
    PROVE  Backwards' /\ BackComplete'
<1>0. PICK c : c = tt.rev[revPos]
  OBVIOUS
<1>1. /\ RevScanning /\ revPos \in Conns /\ DataOK /\ Len(tt.conn) \in Nat /\ Len(tt.rev) = Len(tt.conn)
      /\ revPos \in 1 .. Len(tt.conn)
      /\ UNCHANGED <<dataVars, arrivalTime, departureTime, usable>> /\ UNCHANGED <<tt, q>>
  BY DataType DEF RInv, TypeOK, DataOK, BackStep, RevScanning, dataVars, Conns
<1>2. PassedTo(revPos)
  <2>1. revPos # Len(tt.rev) + 1
    BY <1>1
  <2> QED
    BY <2>1 DEF BackComplete, ScanBack
<1>3. revPos + 1 \in 1 .. Len(tt.rev) + 1
  BY <1>1
<1>4. CASE RevReachable(c) /\ RideBack(c) /\ tt.conn[c].trip \notin q.disabled
  <2>1. Backwards' /\ revPos' = revPos + 1 /\ \A p : p = revPos + 1 => PassedTo(p)'
    BY <1>0, <1>1, <1>2, <1>4, RideBackwards
  <2>2. PICK p : p = revPos + 1
    OBVIOUS
  <2>3. ScanBack(p)' /\ PassedTo(p)'
    BY <1>1, <1>3, <2>1, <2>2 DEF ScanBack
  <2> QED
    BY <2>1, <2>3 DEF BackComplete
<1>5. CASE BackMove
  <2>1. UNCHANGED <<revTime, revSteps, accSteps, exit, accessReached>>
    BY <1>5 DEF BackMove
  <2>2. Backwards' /\ \A p : PassedTo(p) => PassedTo(p)'
    BY <1>1, <2>1, BackwardsFrame
  <2>3. CASE /\ revPos' = revPos + 1
             /\ \/ ~ (Early(c) /\ tt.conn[c].trip \in usable \ q.disabled)
                \/ ~ RevReachable(c)
    <3>1. PICK p : p = revPos + 1
      OBVIOUS
    <3>2. PassedTo(p)'
      BY <1>0, <1>1, <1>2, <2>2, <2>3, <3>1, PassBackwards
    <3>3. ScanBack(p)'
      BY <1>1, <1>3, <2>3, <3>1 DEF ScanBack
    <3> QED
      BY <2>2, <3>2, <3>3 DEF BackComplete
  <2>4. CASE revPos' = Len(tt.rev) + 1 /\ RevStop(c)
    <3>1. PICK p : p = revPos
      OBVIOUS
    <3>2. PassedTo(p)'
      BY <1>2, <2>2, <3>1
    <3>3. RevStop(c)'
      BY <1>1, <2>1, <2>4 DEF RevStop, AccessNodes
    <3>4. p \in 1 .. Len(tt.rev) + 1
      BY <1>1, <3>1
    <3>5. ScanBack(p)'
      BY <1>0, <1>1, <2>4, <3>1, <3>3, <3>4 DEF ScanBack, Conns
    <3> QED
      BY <2>2, <3>2, <3>5 DEF BackComplete
  <2>5. (revPos' = revPos + 1 /\ (\/ ~ (Early(c) /\ tt.conn[c].trip \in usable \ q.disabled)
                                  \/ ~ RevReachable(c)))
          \/ (revPos' = Len(tt.rev) + 1 /\ RevStop(c))
          \/ (RevReachable(c) /\ RideBack(c) /\ tt.conn[c].trip \notin q.disabled)
    BY <1>0
  <2> QED
    BY <1>4, <2>3, <2>4, <2>5
<1> QED
  BY <1>0, <1>4, <1>5

-----------------------------------------------------------------------------
(***************************************************************************)
(* calculateAllNodes towards a place                                       *)
(***************************************************************************)
\* the first boarding recorded for a node leads to the place and is hardly worse
\* than any other that is not beyond the maximum travel time
NodeLatest(n) ==
    /\ accSteps[n].enter # NoConnection =>
          accSteps[n].enter \in Onward /\ tt.conn[accSteps[n].enter].from = n
    /\ \A e \in Onward : tt.conn[e].from = n =>
          \/ arrivalTime - tt.conn[e].arr > q.maxTotal
          \/ accSteps[n].enter # NoConnection /\ Nearly(accSteps[n].enter, e)

DeparturesLatest == \A n \in Nodes : NodeLatest(n)

\* what the scan has met when it ends
LEMMA EndMet ==
    ASSUME DataOK, RevEnded, NEW p, ScanBack(p), NEW e \in Conns, ~ Met(e, p)
    PROVE  /\ p \in Conns /\ tt.rev[p] \in Conns /\ RevStop(tt.rev[p])
           /\ tt.conn[e].arr <= tt.conn[tt.rev[p]].arr
<1>1. Len(tt.conn) \in Nat /\ Len(tt.rev) = Len(tt.conn)
  BY DataType
<1>2. PICK j \in Conns : tt.rev[j] = e
  BY RevOnto
<1>3. p # Len(tt.rev) + 1
  <2>1. j < Len(tt.rev) + 1
    BY <1>1 DEF Conns
  <2> QED
    BY <1>2, <2>1 DEF Met
<1>4. p \in Conns /\ RevStop(tt.rev[p]) /\ tt.rev[p] \in Conns
  BY <1>3, DataType DEF RevEnded, ScanBack
<1>5. ~ (tt.conn[e].arr > tt.conn[tt.rev[p]].arr)
  BY <1>4, MetLater
<1>6. tt.conn[e].arr \in Nat /\ tt.conn[tt.rev[p]].arr \in Nat
  BY <1>4, ConnectionType
<1> QED
  BY <1>4, <1>5, <1>6

LEMMA EndLatest ==
    ASSUME RInv, RevEnded, ~ q.forward, AccessNodes = {}, departureTime = -1, FitsShort,
           Backwards, BackComplete
    PROVE  DeparturesLatest
<1>0. DataOK
  BY DEF RInv, TypeOK, DataOK
<1>1. DataOK /\ ReverseLabelsSound /\ arrivalTime \in Int /\ q.maxTotal \in Nat
  BY <1>0 DEF RInv, TypeOK, DataOK, Query
<1> SUFFICES ASSUME NEW n \in Nodes PROVE NodeLatest(n)
  BY DEF DeparturesLatest
<1>2. accSteps[n].enter # NoConnection =>
         accSteps[n].enter \in Onward /\ tt.conn[accSteps[n].enter].from = n
  BY <1>1, ReverseParts DEF Backwards, ReverseOnward, AccessSound
<1>3. ASSUME NEW e \in Onward, tt.conn[e].from = n
      PROVE  \/ arrivalTime - tt.conn[e].arr > q.maxTotal
             \/ accSteps[n].enter # NoConnection /\ Nearly(accSteps[n].enter, e)
  <2>1. PICK p : ScanBack(p) /\ PassedTo(p)
    BY DEF BackComplete
  <2>2. e \in Sought /\ e \in Conns
    BY OnwardConns DEF Sought
  <2>3. CASE Met(e, p)
    BY <1>3, <2>1, <2>2, <2>3 DEF PassedTo, PassedOnward, Heeded, Leavable
  <2>4. CASE ~ Met(e, p)
    <3>1. PICK c : c = tt.rev[p]
      OBVIOUS
    <3>2. c \in Conns /\ RevStop(c) /\ tt.conn[e].arr <= tt.conn[c].arr
      BY <1>1, <2>1, <2>2, <2>4, <3>1, EndMet
    <3>3. arrivalTime - tt.conn[c].arr > q.maxTotal
      BY <3>2 DEF RevStop
    <3>4. tt.conn[e].arr \in Nat /\ tt.conn[c].arr \in Nat
      BY <1>1, <2>2, <3>2, ConnectionType
    <3> QED
      BY <1>1, <3>2, <3>3, <3>4
  <2> QED
    BY <2>3, <2>4
<1> QED
  BY <1>2, <1>3 DEF NodeLatest

-----------------------------------------------------------------------------
\* the nodes the loop goes over, and those it is done with
BackReached == {n \in Nodes : accSteps[n].enter # NoConnection}

Looking == {"journey", "optimize", "summary"}

BackTaken == BackReached \ (todo \cup IF pc \in Looking THEN {node} ELSE {})

Departure(n) == departureTimeD(accSteps[n].enter)

BackListing ==
    /\ todo \subseteq BackReached
    /\ pc \in Looking => node \in BackReached \ todo
    /\ pc = "done" => todo = {}
    /\ \A n \in Nodes :
         ListedTimes(n) = IF n \in BackTaken /\ arrivalTime - Departure(n) <= q.maxTotal
                          THEN {Departure(n)} ELSE {}

(***************************************************************************)
(* The invariant: the counterpart of PInv for the calculations towards a   *)
(* place.                                                                  *)
(***************************************************************************)
LInv ==
    /\ DataOK /\ OnePlace
    /\ pc \in {"forward", "count"} => q.forward
    /\ pc \in {"reverse"} \cup Looking => ~ q.forward
    /\ pc = "reset" => RInv /\ listed = {}
    /\ pc = "reverse" =>
          /\ RInv /\ listed = {} /\ departureTime = -1 /\ arrivalTime \in Nat
          /\ FitsShort /\ Progressing => Backwards /\ BackComplete
    /\ ~ q.forward /\ pc \in {"list", "done"} \cup Looking =>
          /\ arrivalTime \in Nat /\ BackListing
          /\ FitsShort /\ Progressing => DeparturesLatest

LEMMA InitLInv == InitAllNodes => LInv
<1> SUFFICES ASSUME InitAllNodes PROVE LInv
  OBVIOUS
<1>1. RInv /\ pc = "reset" /\ listed = {} /\ OnePlace
  BY InitRInv DEF InitAllNodes, Init
<1>2. DataOK
  BY <1>1 DEF RInv, TypeOK, DataOK
<1> QED
  BY <1>1, <1>2 DEF LInv, Looking

LEMMA SoughtTrips == DataOK => \A e \in Sought : tt.conn[e].trip \in Trips
BY SoughtConns, ConnectionType

LEMMA PlaceKept ==
    ASSUME LInv, UNCHANGED <<tt, q>>
    PROVE  /\ DataOK' /\ OnePlace' /\ q'.forward = q.forward
           /\ (FitsShort' <=> FitsShort) /\ (Progressing' <=> Progressing)
BY DEF LInv, DataOK, OnePlace, EgressNodes, AccessNodes, FitsShort, Progressing, Conns

LEMMA ResetLInv ==
    ASSUME LInv, ResetAllNodes
    PROVE  LInv'
<1>1. /\ RInv /\ TypeOK /\ Restart /\ listed' = listed /\ listed = {} /\ UNCHANGED <<tt, q>>
      /\ pc = "reset"
  BY DEF LInv, RInv, ResetAllNodes, Restart, Fail, listVars, dataVars
<1>2. TypeOK' /\ NothingLabelled' /\ ExitPassed' /\ ReverseLabelsSound'
  BY <1>1, ResetType, ResetRInv
<1>3. /\ DataOK' /\ OnePlace' /\ q'.forward = q.forward
      /\ (FitsShort' <=> FitsShort) /\ (Progressing' <=> Progressing)
  BY <1>1, PlaceKept
<1>4. /\ pc' \in {"forward", "reverse", "failed"}
      /\ pc' = "forward" => q.forward
      /\ pc' = "reverse" =>
            /\ ~ q.forward /\ departureTime' = -1 /\ arrivalTime' = q.time /\ usable' = Trips
            /\ revPos' = ReverseBegin(q.time \div SecondsPerHour + 1)
  BY <1>1 DEF Restart, StartScan
<1>5. ASSUME pc' = "reverse", FitsShort PROVE Backwards' /\ BackComplete'
  <2>1. Untouched'
    <3>1. ResetReverse
      BY <1>1 DEF Restart
    <3> QED
      BY <1>1, <3>1 DEF ResetReverse, Untouched, NoStep, JourneyStep, EgressLabels, EgressNodes
  <2>2. UsableSought'
    <3>1. (DataOK => \A e \in Sought : tt.conn[e].trip \in Trips)'
      BY SoughtTrips, PTL
    <3> QED
      BY <1>3, <1>4, <1>5, <3>1 DEF UsableSought
  <2>3. arrivalTime' \in Nat /\ arrivalTime' \in Int
    BY <1>1, <1>4, <1>5, DataType DEF LInv
  <2>4. Backwards'
    <3>1. (DataOK /\ arrivalTime \in Int /\ Untouched /\ UsableSought => Backwards)'
      BY StartBackwards, PTL
    <3> QED
      BY <1>3, <2>1, <2>2, <2>3, <3>1
  <2>5. BackComplete'
    <3>1. (DataOK /\ FitsShort /\ arrivalTime \in Nat =>
              \A p : p = ReverseBegin(arrivalTime \div SecondsPerHour + 1) => PassedTo(p))'
      BY BeginPassed, PTL
    <3>2. PICK p : p = revPos'
      OBVIOUS
    <3>3. ReverseBegin(q.time \div SecondsPerHour + 1)
            = ReverseBegin(arrivalTime \div SecondsPerHour + 1)'
      BY <1>1, <1>4, <1>5 DEF ReverseBegin, Conns
    <3>4. PassedTo(p)'
      BY <1>3, <1>4, <1>5, <2>3, <3>1, <3>2, <3>3
    <3>5. ScanBack(p)'
      <4>1. p \in 1 .. Len(tt'.rev) + 1
        BY <1>2, <3>2 DEF TypeOK, ReverseTypeOK
      <4> QED
        BY <3>2, <4>1 DEF ScanBack
    <3> QED
      BY <3>4, <3>5 DEF BackComplete
  <2> QED
    BY <2>4, <2>5
<1>6. RInv' /\ (pc' = "reverse" => arrivalTime' \in Nat)
  BY <1>1, <1>2, <1>4, DataType DEF RInv, LInv
<1> QED
  BY <1>1, <1>3, <1>4, <1>5, <1>6 DEF LInv, Looking

LEMMA ReverseLInv ==
    ASSUME LInv, ReverseAllNodes
    PROVE  LInv'
<1>1. /\ BackStep /\ UNCHANGED fwdVars /\ pc = "reverse" /\ pc' = "reverse" /\ listed' = listed
      /\ UNCHANGED <<tt, q, arrivalTime, departureTime>>
  BY DEF ReverseAllNodes, BackSkip, BackBreak, BackPass, BackRide, BackStep, BackMove, RevScanning,
         dataVars, listVars
<1>2. /\ RInv /\ TypeOK /\ ~ q.forward /\ departureTime = -1 /\ arrivalTime \in Nat /\ DataOK
      /\ OnePlace /\ listed = {} /\ (FitsShort /\ Progressing => Backwards /\ BackComplete)
  BY <1>1 DEF LInv, RInv
<1>3. TypeOK' /\ NothingLabelled' /\ ExitPassed' /\ (FitsShort => ReverseLabelsSound')
  BY <1>1, <1>2, BackStepType, BackStepRInv
<1>4. /\ DataOK' /\ OnePlace' /\ q'.forward = q.forward
      /\ (FitsShort' <=> FitsShort) /\ (Progressing' <=> Progressing)
  BY <1>1, PlaceKept
<1>5. ASSUME FitsShort, Progressing PROVE Backwards' /\ BackComplete'
  <2>1. PICK c : c = tt.rev[revPos]
    OBVIOUS
  <2>2. c \in Conns
    BY <1>1, <1>2, <2>1, DataType DEF BackStep, RevScanning
  <2>3. Early(c) => tt.conn[c].arr <= arrivalTime
    <3> SUFFICES ASSUME NEW n \in EgressNodes, tt.conn[c].arr + q.egress[n] <= arrivalTime
                 PROVE  tt.conn[c].arr <= arrivalTime
      BY DEF Early
    <3>1. q.egress[n] \in Nat /\ tt.conn[c].arr \in Nat
      BY <1>2, <2>2, DataType, ConnectionType DEF EgressNodes
    <3> QED
      BY <1>2, <3>1
  <2>4. \/ /\ BackMove /\ revPos' = revPos + 1
           /\ \/ ~ (Early(c) /\ tt.conn[c].trip \in usable \ q.disabled)
              \/ ~ RevReachable(c)
        \/ BackMove /\ revPos' = Len(tt.rev) + 1 /\ RevStop(c)
        \/ RevReachable(c) /\ RideBack(c) /\ tt.conn[c].trip \notin q.disabled
    <3>1. BackSkip \/ BackBreak \/ BackPass \/ BackRide
      BY DEF ReverseAllNodes
    <3>2. CASE BackSkip
      BY <2>1, <2>3, <3>2 DEF BackSkip, BackMove, ConsideredAllNodes
    <3>3. CASE BackBreak
      BY <2>1, <3>3 DEF BackBreak, BackMove, StopAllNodes, RevStop
    <3>4. CASE BackPass
      BY <2>1, <3>4 DEF BackPass, BackMove
    <3>5. CASE BackRide
      BY <2>1, <3>5 DEF BackRide, ConsideredAllNodes
    <3> QED
      BY <3>1, <3>2, <3>3, <3>4, <3>5
  <2>5. Unlimited
    BY <1>2 DEF Unlimited
  <2> QED
    BY <1>1, <1>2, <1>5, <2>1, <2>4, <2>5, StepBackwards
<1>6. RInv'
  BY <1>3, <1>4 DEF RInv
<1> QED
  BY <1>1, <1>2, <1>4, <1>5, <1>6 DEF LInv, Looking

-----------------------------------------------------------------------------
\* once the labels are final, they are read only
LEMMA LatestKept ==
    ASSUME UNCHANGED <<tt, q, arrivalTime, accSteps>>
    PROVE  /\ DeparturesLatest => DeparturesLatest'
           /\ BackReached' = BackReached
           /\ \A n : Departure(n)' = Departure(n)
<1>1. Onward' = Onward /\ \A a, e : Nearly(a, e)' <=> Nearly(a, e)
  BY OnwardFixed DEF Nearly, BoardBy, MinWait
<1>2. \A n : NodeLatest(n)' <=> NodeLatest(n)
  BY <1>1 DEF NodeLatest
<1> QED
  BY <1>2 DEF DeparturesLatest, BackReached, Departure, departureTimeD

LEMMA ReverseEndLInv ==
    ASSUME LInv, ReverseAllNodesEnd
    PROVE  LInv'
<1>1. /\ UNCHANGED <<tt, q, arrivalTime, accSteps, listed>> /\ pc = "reverse" /\ RevEnded
      /\ \/ pc' = "list" /\ todo' = BackReached
         \/ pc' = "failed"
  BY DEF ReverseAllNodesEnd, RevEnded, dataVars, revVars, Fail, BackReached
<1>2. /\ RInv /\ ~ q.forward /\ departureTime = -1 /\ arrivalTime \in Nat /\ OnePlace
      /\ listed = {} /\ (FitsShort /\ Progressing => Backwards /\ BackComplete)
  BY <1>1 DEF LInv
<1>3. /\ DataOK' /\ OnePlace' /\ q'.forward = q.forward
      /\ (FitsShort' <=> FitsShort) /\ (Progressing' <=> Progressing)
  BY <1>1, PlaceKept
<1>4. FitsShort /\ Progressing => DeparturesLatest'
  BY <1>1, <1>2, EndLatest, LatestKept DEF OnePlace
<1>5. ASSUME pc' = "list" PROVE BackListing'
  <2>1. todo' = BackReached' /\ BackTaken' = {} /\ \A n : ListedTimes(n)' = {}
    BY <1>1, <1>2, <1>5, LatestKept DEF BackTaken, ListedTimes
  <2> QED
    BY <1>5, <2>1 DEF BackListing, Looking
<1> QED
  BY <1>1, <1>2, <1>3, <1>4, <1>5 DEF LInv, Looking

\* the steps between NextNode and ListReverse: nothing is listed, no node taken up
Optimizing ==
    \/ FollowStep /\ UNCHANGED listVars
    \/ CloseAllNodes
    \/ OptimizeIteration /\ UNCHANGED listVars
    \/ OptimizeEnd /\ UNCHANGED listVars

LEMMA OptimizingLInv ==
    ASSUME LInv, Optimizing
    PROVE  LInv'
<1>1. /\ UNCHANGED <<tt, q, arrivalTime, accSteps, listed, todo, node>>
      /\ pc \in Looking /\ pc' \in Looking \cup {"failed"}
  BY DEF Optimizing, FollowStep, CloseAllNodes, OptimizeIteration, OptimizeEnd, Fail, Looking,
         dataVars, revVars, listVars
<1>2. ~ q.forward /\ arrivalTime \in Nat /\ BackListing /\ (FitsShort /\ Progressing => DeparturesLatest)
  BY <1>1 DEF LInv
<1>3. /\ DataOK' /\ OnePlace' /\ q'.forward = q.forward
      /\ (FitsShort' <=> FitsShort) /\ (Progressing' <=> Progressing)
  BY <1>1, PlaceKept
<1>4. ASSUME pc' \in Looking PROVE BackListing'
  <2>1. BackTaken' = BackTaken /\ \A n : ListedTimes(n)' = ListedTimes(n)
    BY <1>1, <1>4, LatestKept DEF BackTaken, ListedTimes
  <2> QED
    BY <1>1, <1>2, <1>4, <2>1, LatestKept DEF BackListing, Looking
<1>5. FitsShort /\ Progressing => DeparturesLatest'
  BY <1>1, <1>2, LatestKept
<1> QED
  BY <1>1, <1>2, <1>3, <1>4, <1>5 DEF LInv, Looking

LEMMA NextNodeLInv ==
    ASSUME LInv, NextNode
    PROVE  LInv'
<1>1. PICK n \in todo :
         /\ UNCHANGED <<tt, q, arrivalTime, accSteps, listed>> /\ pc = "list"
         /\ node' = n /\ todo' = todo \ {n}
         /\ pc' = (IF q.forward THEN "count" ELSE "journey")
  BY DEF NextNode, dataVars, revVars
<1>2. /\ DataOK' /\ OnePlace' /\ q'.forward = q.forward
      /\ (FitsShort' <=> FitsShort) /\ (Progressing' <=> Progressing)
  BY <1>1, PlaceKept
<1>3. CASE q.forward
  BY <1>1, <1>2, <1>3 DEF LInv, Looking
<1>4. CASE ~ q.forward
  <2>1. arrivalTime \in Nat /\ BackListing /\ (FitsShort /\ Progressing => DeparturesLatest)
    BY <1>1, <1>4 DEF LInv
  <2>2. n \in BackReached /\ BackReached' = BackReached
    BY <1>1, <2>1, LatestKept DEF BackListing
  <2>3. BackTaken' = BackTaken /\ \A m : ListedTimes(m)' = ListedTimes(m)
    BY <1>1, <1>4, <2>1, <2>2 DEF BackListing, BackTaken, ListedTimes, Looking
  <2>4. BackListing'
    BY <1>1, <1>4, <2>1, <2>2, <2>3, LatestKept DEF BackListing, Looking
  <2>5. FitsShort /\ Progressing => DeparturesLatest'
    BY <1>1, <2>1, LatestKept
  <2> QED
    BY <1>1, <1>2, <1>4, <2>1, <2>4, <2>5 DEF LInv, Looking
<1> QED
  BY <1>3, <1>4

LEMMA ListReverseLInv ==
    ASSUME LInv, ListReverse
    PROVE  LInv'
<1>1. /\ UNCHANGED <<tt, q, arrivalTime, accSteps, todo, node>>
      /\ pc = "summary" /\ pc' = "list"
      /\ listed' = IF arrivalTime - Departure(node) <= q.maxTotal
                   THEN listed \cup {Accessible(Departure(node), arrivalTime - Departure(node))}
                   ELSE listed
  BY DEF ListReverse, List, dataVars, revVars, Departure
<1>2. /\ DataOK' /\ OnePlace' /\ q'.forward = q.forward
      /\ (FitsShort' <=> FitsShort) /\ (Progressing' <=> Progressing)
  BY <1>1, PlaceKept
<1>3. ~ q.forward /\ arrivalTime \in Nat /\ BackListing /\ (FitsShort /\ Progressing => DeparturesLatest)
  BY <1>1 DEF LInv, Looking
<1>4. (FitsShort /\ Progressing => DeparturesLatest') /\ BackReached' = BackReached
      /\ \A m : Departure(m)' = Departure(m)
  BY <1>1, <1>3, LatestKept
<1>5. node \in BackReached \ todo /\ BackTaken' = BackTaken \cup {node} /\ node \notin BackTaken
  BY <1>1, <1>3, <1>4 DEF BackListing, BackTaken, Looking
<1>6. ASSUME NEW n \in Nodes
      PROVE  ListedTimes(n)' = IF n \in BackTaken' /\ arrivalTime' - Departure(n)' <= q'.maxTotal
                               THEN {Departure(n)'} ELSE {}
  <2>1. ListedTimes(n) = IF n \in BackTaken /\ arrivalTime - Departure(n) <= q.maxTotal
                         THEN {Departure(n)} ELSE {}
    BY <1>3 DEF BackListing
  <2>2. CASE n = node /\ arrivalTime - Departure(node) <= q.maxTotal
    <3>1. PICK r : r = Accessible(Departure(node), arrivalTime - Departure(node))
      OBVIOUS
    <3>2. r.node = node /\ r.time = Departure(node) /\ listed' = listed \cup {r}
      BY <1>1, <2>2, <3>1 DEF Accessible
    <3>3. ListedTimes(n)' = ListedTimes(n) \cup {Departure(node)}
      BY <2>2, <3>2 DEF ListedTimes
    <3> QED
      BY <1>1, <1>4, <1>5, <2>1, <2>2, <3>3
  <2>3. CASE n = node /\ ~ (arrivalTime - Departure(node) <= q.maxTotal)
    <3>1. ListedTimes(n)' = ListedTimes(n)
      BY <1>1, <2>3 DEF ListedTimes
    <3> QED
      BY <1>1, <1>4, <1>5, <2>1, <2>3, <3>1
  <2>4. CASE n # node
    <3>1. ListedTimes(n)' = ListedTimes(n)
      BY <1>1, <2>4 DEF ListedTimes, Accessible
    <3> QED
      BY <1>1, <1>4, <1>5, <2>1, <2>4, <3>1
  <2> QED
    BY <2>2, <2>3, <2>4
<1>7. BackListing'
  BY <1>1, <1>3, <1>4, <1>6 DEF BackListing, Looking
<1> QED
  BY <1>1, <1>2, <1>3, <1>4, <1>7 DEF LInv, Looking

LEMMA ReturnLInv ==
    ASSUME LInv, Return
    PROVE  LInv'
<1>1. /\ UNCHANGED <<tt, q, arrivalTime, accSteps, listed, todo, node>>
      /\ pc = "list" /\ todo = {} /\ pc' = "done"
  BY DEF Return, dataVars, revVars, listVars
<1>2. /\ DataOK' /\ OnePlace' /\ q'.forward = q.forward
      /\ (FitsShort' <=> FitsShort) /\ (Progressing' <=> Progressing)
  BY <1>1, PlaceKept
<1>3. ASSUME ~ q.forward
      PROVE  arrivalTime' \in Nat /\ BackListing' /\ (FitsShort /\ Progressing => DeparturesLatest')
  <2>1. arrivalTime \in Nat /\ BackListing /\ (FitsShort /\ Progressing => DeparturesLatest)
    BY <1>1, <1>3 DEF LInv
  <2>2. BackTaken' = BackTaken /\ \A m : ListedTimes(m)' = ListedTimes(m)
    BY <1>1, LatestKept DEF BackTaken, ListedTimes, Looking
  <2> QED
    BY <1>1, <2>1, <2>2, LatestKept DEF BackListing, Looking
<1> QED
  BY <1>1, <1>2, <1>3 DEF LInv, Looking

\* the steps of a calculation from a place
FromPlace == ForwardAllNodes \/ ForwardAllNodesEnd \/ FollowBack \/ ListForward

LEMMA FromPlaceLInv ==
    ASSUME LInv, FromPlace
    PROVE  LInv'
<1>1. /\ UNCHANGED <<tt, q>> /\ pc \in {"forward", "count"}
      /\ pc' \in {"forward", "count", "list", "failed"}
  BY DEF FromPlace, ForwardAllNodes, ForwardScan, ForwardSkip, ForwardBreak, ForwardPass,
         ForwardRide, FwdScanning, ForwardAllNodesEnd, FwdEnded, FollowBack, ListForward, List,
         Fail, dataVars
<1>2. DataOK' /\ OnePlace' /\ q'.forward = q.forward
  BY <1>1, PlaceKept
<1>3. q.forward
  BY <1>1 DEF LInv
<1> QED
  BY <1>1, <1>2, <1>3 DEF LInv, Looking

LEMMA StutterLInv ==
    ASSUME LInv, UNCHANGED allVars
    PROVE  LInv'
<1>1. /\ UNCHANGED vars /\ UNCHANGED <<tt, q, pc, departureTime, arrivalTime, usable>>
      /\ UNCHANGED <<revPos, revTime, revSteps, accSteps, exit, accessReached>>
      /\ UNCHANGED <<todo, node, listed>>
  BY DEF allVars, vars, dataVars, revVars, listVars
<1>2. /\ DataOK' /\ OnePlace' /\ q'.forward = q.forward
      /\ (FitsShort' <=> FitsShort) /\ (Progressing' <=> Progressing)
  BY <1>1, PlaceKept
<1>3. RInv => RInv'
  BY <1>1, NextRInv
<1>4. (Backwards => Backwards') /\ (BackComplete => BackComplete')
  <2>1. (Backwards => Backwards') /\ \A p : PassedTo(p) => PassedTo(p)'
    BY <1>1, BackwardsFrame
  <2>2. \A p : ScanBack(p) => ScanBack(p)'
    BY <1>1 DEF ScanBack, RevStop, AccessNodes, Conns
  <2> QED
    BY <2>1, <2>2 DEF BackComplete
<1>5. BackListing => BackListing'
  <2>1. BackTaken' = BackTaken /\ \A m : ListedTimes(m)' = ListedTimes(m)
    BY <1>1, LatestKept DEF BackTaken, ListedTimes
  <2> QED
    BY <1>1, <2>1, LatestKept DEF BackListing
<1>6. DeparturesLatest => DeparturesLatest'
  BY <1>1, LatestKept
<1> QED
  BY <1>1, <1>2, <1>3, <1>4, <1>5, <1>6 DEF LInv

LEMMA NextLInv == LInv /\ [NextAllNodes]_allVars => LInv'
<1> SUFFICES ASSUME LInv, [NextAllNodes]_allVars PROVE LInv'
  OBVIOUS
<1>1. \/ ResetAllNodes \/ FromPlace \/ ReverseAllNodes \/ ReverseAllNodesEnd \/ NextNode \/ Return
      \/ Optimizing \/ ListReverse \/ UNCHANGED allVars
  BY DEF NextAllNodes, FromPlace, Optimizing
<1> QED
  BY <1>1, ResetLInv, FromPlaceLInv, ReverseLInv, ReverseEndLInv, NextNodeLInv, ReturnLInv,
     OptimizingLInv, ListReverseLInv, StutterLInv

\* what the labels say of the departures from a node
LEMMA NodeListed ==
    ASSUME DataOK, FitsShort, arrivalTime \in Nat, NEW n \in Nodes, NodeLatest(n), NEW times,
           times = IF n \in BackReached /\ arrivalTime - Departure(n) <= q.maxTotal
                   THEN {Departure(n)} ELSE {}
    PROVE  /\ Cardinality(times) <= 1
           /\ \A s \in times : \E d \in NodeDepartures(n) : s \in {d, d + 1}
           /\ \A d \in NodeDepartures(n) :
                /\ arrivalTime - d + q.minWait <= q.maxTotal => times # {}
                /\ \A s \in times : s > d - q.minWait \/ s >= d
<1>0. PICK a, s : a = accSteps[n].enter /\ s = Departure(n)
  OBVIOUS
<1>1. q.maxTotal \in Nat /\ q.minWait \in Nat
  BY DEF DataOK, Query
<1>2. Cardinality(times) <= 1
  <2>1. times = {} \/ \E u : times = {u}
    OBVIOUS
  <2>2. Cardinality({}) = 0 /\ \A u : Cardinality({u}) = 1
    BY FS_EmptySet, FS_Singleton
  <2>3. Cardinality(times) = 0 \/ Cardinality(times) = 1
    BY <2>1, <2>2, Zenon
  <2> QED
    BY <2>3
<1>3. n \in BackReached =>
        /\ a # NoConnection /\ a \in Onward /\ a \in Conns /\ tt.conn[a].from = n
        /\ tt.conn[a].dep \in Nat /\ s \in {tt.conn[a].dep, tt.conn[a].dep + 1}
  <2> SUFFICES ASSUME n \in BackReached
               PROVE  /\ a # NoConnection /\ a \in Onward /\ a \in Conns /\ tt.conn[a].from = n
                      /\ tt.conn[a].dep \in Nat /\ s \in {tt.conn[a].dep, tt.conn[a].dep + 1}
    OBVIOUS
  <2>1. a # NoConnection /\ a \in Onward /\ tt.conn[a].from = n
    BY <1>0 DEF BackReached, NodeLatest
  <2>2. a \in Conns
    BY <2>1, OnwardConns
  <2>3. tt.conn[a].dep \in Nat /\ tt.conn[a].minWait \in {-1, 0}
    BY <2>2, ConnectionType
  <2>4. s = tt.conn[a].dep - tt.conn[a].minWait
    BY <1>0 DEF Departure, departureTimeD
  <2>5. s \in {tt.conn[a].dep, tt.conn[a].dep + 1}
    BY <2>3, <2>4
  <2> QED
    BY <2>1, <2>2, <2>3, <2>5
<1>4. \A u \in times : u = s /\ n \in BackReached /\ arrivalTime - s <= q.maxTotal
  BY <1>0
<1>5. \A u \in times : \E d \in NodeDepartures(n) : u \in {d, d + 1}
  <2> SUFFICES ASSUME NEW u \in times PROVE \E d \in NodeDepartures(n) : u \in {d, d + 1}
    OBVIOUS
  <2>1. tt.conn[a].dep \in NodeDepartures(n)
    BY <1>3, <1>4 DEF NodeDepartures
  <2> QED
    BY <1>3, <1>4, <2>1
<1>6. ASSUME NEW d \in NodeDepartures(n)
      PROVE  /\ arrivalTime - d + q.minWait <= q.maxTotal => times # {}
             /\ \A u \in times : u > d - q.minWait \/ u >= d
  <2>1. PICK e \in Onward : tt.conn[e].from = n /\ d = tt.conn[e].dep
    BY DEF NodeDepartures
  <2>2. PICK b, ar : b = BoardBy(e) /\ ar = tt.conn[e].arr
    OBVIOUS
  <2>3. /\ e \in Conns /\ d \in Nat /\ b \in Int /\ b >= d - q.minWait /\ b <= d
        /\ ar \in Nat /\ d <= ar
    <3>1. e \in Conns
      BY OnwardConns
    <3> QED
      BY <2>1, <2>2, <3>1, ConnectionType, BoardByType, Sorted
  <2>4. \/ arrivalTime - ar > q.maxTotal
        \/ a # NoConnection /\ Nearly(a, e)
    BY <1>0, <2>1, <2>2 DEF NodeLatest
  <2>5. CASE arrivalTime - ar > q.maxTotal
    <3>1. ~ (arrivalTime - d + q.minWait <= q.maxTotal)
      BY <1>1, <2>3, <2>5
    <3>2. ASSUME NEW u \in times PROVE u >= d
      <4>1. u \in Int /\ arrivalTime - u <= q.maxTotal
        BY <1>3, <1>4
      <4> QED
        BY <1>1, <2>3, <2>5, <4>1
    <3> QED
      BY <3>1, <3>2
  <2>6. CASE a # NoConnection /\ Nearly(a, e)
    <3>1. n \in BackReached
      BY <1>0, <2>6 DEF BackReached
    <3>2. tt.conn[a].dep > b \/ tt.conn[a].dep >= d
      BY <2>1, <2>2, <2>6 DEF Nearly
    <3>3. PICK da : da = tt.conn[a].dep
      OBVIOUS
    <3>4. da \in Nat /\ s \in Nat /\ s >= da /\ (da > b \/ da >= d)
      BY <1>3, <3>1, <3>2, <3>3
    <3>5. s > d - q.minWait \/ s >= d
      BY <1>1, <2>3, <3>4
    <3>6. arrivalTime - d + q.minWait <= q.maxTotal => arrivalTime - s <= q.maxTotal
      BY <1>1, <2>3, <3>5, <3>4
    <3>7. arrivalTime - d + q.minWait <= q.maxTotal => s \in times
      BY <1>0, <3>1, <3>6
    <3> QED
      BY <1>4, <3>5, <3>7
  <2> QED
    BY <2>4, <2>5, <2>6
<1> QED
  BY <1>2, <1>5, <1>6

(***************************************************************************)
(* calculateAllNodes towards a place, for every network, timetable and     *)
(* query whose waiting time fits in a short: when every vehicle takes time *)
(* between two nodes, a node is listed only with a departure that leads to *)
(* the place in time, the latest one up to the minimum waiting time, and   *)
(* every node that can be left within the maximum travel time, that        *)
(* waiting time included, is listed.                                       *)
(***************************************************************************)
THEOREM NodesLatest == SpecAllNodes => [](FitsShort => LatestListed)
<1>1. LInv => (FitsShort => LatestListed)
  <2> SUFFICES ASSUME LInv, FitsShort, pc = "done", ~ q.forward, Progressing, NEW n \in Nodes
               PROVE  LET times == ListedTimes(n)
                          departures == NodeDepartures(n)
                      IN  /\ Cardinality(times) <= 1
                          /\ \A s \in times : \E d \in departures : s \in {d, d + 1}
                          /\ \A d \in departures :
                               /\ arrivalTime - d + q.minWait <= q.maxTotal => times # {}
                               /\ \A s \in times : s > d - q.minWait \/ s >= d
    BY DEF LatestListed
  <2>1. DataOK /\ arrivalTime \in Nat /\ BackListing /\ DeparturesLatest
    BY DEF LInv
  <2>2. BackTaken = BackReached
    BY <2>1 DEF BackListing, BackTaken, Looking
  <2>3. PICK times : times = ListedTimes(n)
    OBVIOUS
  <2>4. times = IF n \in BackReached /\ arrivalTime - Departure(n) <= q.maxTotal
                THEN {Departure(n)} ELSE {}
    BY <2>1, <2>2, <2>3 DEF BackListing
  <2> QED
    BY <2>1, <2>3, <2>4, NodeListed DEF DeparturesLatest
<1> QED
  BY <1>1, InitLInv, NextLInv, PTL DEF SpecAllNodes
=============================================================================
