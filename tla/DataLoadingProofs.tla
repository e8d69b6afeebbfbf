------------------------- MODULE DataLoadingProofs -------------------------
(***************************************************************************)
(* The iterator cache is right for every list of connections (TypeOK,      *)
(* ForwardBeginExact and ReverseBeginExact of ConnectionSet), and the      *)
(* footpaths of the nodes for whatever their files hold (ListsConverse of  *)
(* NodesFetcher).                                                          *)
(***************************************************************************)
EXTENDS DataLoading, SelectionProofs, SequenceTheorems

\* the first h entries of the forward cache point where their hour begins
ForwardExactUpTo(h) ==
    \A k \in 0 .. h - 1 : \A x \in 1 .. Len(dep) :
        dep[x] >= k * Hour <=> x >= fwdCache[k + 1]

(***************************************************************************)
(* The forward loops: currentHour entries so far, and every connection     *)
(* already passed leaves before currentHour.                               *)
(***************************************************************************)
ForwardInv ==
    pc = "forward" =>
        /\ currentHour = Len(fwdCache)
        /\ ite \in 1 .. Len(dep) + 1
        /\ ForwardExactUpTo(currentHour)
        /\ \A x \in 1 .. ite - 1 : dep[x] < currentHour * Hour

\* after them the cache has an exact entry for each of its hours
ForwardDoneInv ==
    pc # "forward" =>
        /\ Len(fwdCache) >= EndHour
        /\ ForwardExactUpTo(Len(fwdCache))

(***************************************************************************)
(* The reverse loops fill the hours from the last down to currentHour + 1; *)
(* every connection already passed arrives after currentHour, unless that  *)
(* is the first hour, at which the while loop stops.                       *)
(***************************************************************************)
ReverseInv ==
    pc # "forward" =>
        /\ currentHour \in -1 .. EndHour - 1
        /\ Len(revCache) = EndHour - 1 - currentHour
        /\ ite \in 1 .. Len(arr) + 1
        /\ currentHour = -1 => ite = Len(arr) + 1
        /\ pc = "ready" => currentHour = -1
        /\ currentHour > 0 => \A x \in 1 .. ite - 1 : arr[x] > currentHour * Hour
        /\ \A h \in currentHour + 1 .. EndHour - 1 : h > 0 =>
              \A x \in 1 .. Len(arr) :
                  arr[x] <= h * Hour <=> x >= revCache[h - currentHour]

IInv ==
    /\ TypeOK
    /\ pc = "forward" => revCache = <<>>
    /\ ForwardInv
    /\ ForwardDoneInv
    /\ ReverseInv

\* what the assumptions say of the two lists of a state
LEMMA SortedLists ==
    ASSUME TypeOK
    PROVE  /\ dep \in Seq(Nat) /\ arr \in Seq(Nat)
           /\ \A x, j \in 1 .. Len(dep) : x <= j => dep[x] <= dep[j]
           /\ \A x, j \in 1 .. Len(arr) : x <= j => arr[x] >= arr[j]
BY DeparturesAssumption, ArrivalsAssumption DEF TypeOK

LEMMA InitIInv == Init => IInv
<1> SUFFICES ASSUME Init PROVE IInv
  OBVIOUS
<1>1. TypeOK
  BY DEF Init, TypeOK, BeginHour
<1> QED
  BY <1>1, SortedLists
     DEF Init, IInv, ForwardInv, ForwardDoneInv, ReverseInv, ForwardExactUpTo, BeginHour

(***************************************************************************)
(* A push: the entry is exact because the list is sorted, whether ite is   *)
(* the first connection that reaches the hour or the end of the list.      *)
(***************************************************************************)
LEMMA ForwardEntry ==
    ASSUME IInv, pc = "forward",
           ite <= Len(dep) => dep[ite] >= currentHour * Hour,
           fwdCache' = Append(fwdCache, ite), currentHour' = currentHour + 1,
           UNCHANGED <<dep, arr, pc, ite, revCache>>
    PROVE  IInv'
<1>1. /\ TypeOK /\ ForwardInv /\ revCache = <<>>
      /\ currentHour = Len(fwdCache) /\ ite \in 1 .. Len(dep) + 1
      /\ ForwardExactUpTo(currentHour)
      /\ \A x \in 1 .. ite - 1 : dep[x] < currentHour * Hour
  BY DEF IInv, ForwardInv
<1>2. TypeOK'
  BY <1>1 DEF TypeOK
<1>3. /\ dep \in Seq(Nat)
      /\ \A x, j \in 1 .. Len(dep) : x <= j => dep[x] <= dep[j]
  BY <1>1, SortedLists
<1>4. /\ fwdCache \in Seq(Nat) /\ currentHour \in Nat
      /\ Len(fwdCache') = currentHour + 1
      /\ fwdCache'[currentHour + 1] = ite
      /\ \A k \in 1 .. currentHour : fwdCache'[k] = fwdCache[k]
  BY <1>1 DEF TypeOK
<1>5. ForwardExactUpTo(currentHour)'
  <2> SUFFICES ASSUME NEW k \in 0 .. currentHour, NEW x \in 1 .. Len(dep)
               PROVE  dep[x] >= k * Hour <=> x >= fwdCache'[k + 1]
    BY <1>4 DEF ForwardExactUpTo
  <2>1. CASE k < currentHour
    <3>1. k \in 0 .. currentHour - 1 /\ k + 1 \in 1 .. currentHour
      BY <1>4, <2>1
    <3> QED
      BY <1>1, <1>4, <3>1 DEF ForwardExactUpTo
  <2>2. CASE k = currentHour
    <3>1. fwdCache'[k + 1] = ite
      BY <1>4, <2>2
    <3>2. ASSUME x >= ite PROVE dep[x] >= k * Hour
      <4>1. dep[ite] <= dep[x] /\ ite \in 1 .. Len(dep)
        BY <1>1, <1>3, <3>2
      <4>2. dep[ite] \in Nat /\ dep[x] \in Nat
        BY <1>3, <4>1
      <4> QED
        BY <1>4, <2>2, <4>1, <4>2 DEF Hour
    <3>3. ASSUME ~ (x >= ite) PROVE ~ (dep[x] >= k * Hour)
      <4>1. x \in 1 .. ite - 1 /\ dep[x] \in Nat
        BY <1>1, <1>3, <3>3
      <4> QED
        BY <1>1, <1>4, <2>2, <4>1 DEF Hour
    <3> QED
      BY <3>1, <3>2, <3>3
  <2> QED
    BY <1>4, <2>1, <2>2
<1>6. \A x \in 1 .. ite - 1 : dep[x] < (currentHour + 1) * Hour
  <2> SUFFICES ASSUME NEW x \in 1 .. ite - 1
               PROVE  dep[x] < (currentHour + 1) * Hour
    OBVIOUS
  <2>1. dep[x] \in Nat /\ dep[x] < currentHour * Hour
    BY <1>1, <1>3
  <2> QED
    BY <1>4, <2>1 DEF Hour
<1> QED
  BY <1>1, <1>2, <1>4, <1>5, <1>6
     DEF IInv, ForwardInv, ForwardDoneInv, ReverseInv

(***************************************************************************)
(* The same, going back, for the entry put before the others.              *)
(***************************************************************************)
LEMMA ReverseEntry ==
    ASSUME IInv, pc = "reverse", currentHour >= 0,
           ite <= Len(arr) => currentHour > 0 /\ arr[ite] <= currentHour * Hour,
           revCache' = <<ite>> \o revCache, currentHour' = currentHour - 1,
           UNCHANGED <<dep, arr, pc, ite, fwdCache>>
    PROVE  IInv'
<1>1. TypeOK /\ ForwardDoneInv /\ ReverseInv
  BY DEF IInv
<1>2. TypeOK'
  BY <1>1 DEF TypeOK
<1>3. /\ arr \in Seq(Nat)
      /\ \A x, j \in 1 .. Len(arr) : x <= j => arr[x] >= arr[j]
  BY <1>1, SortedLists
<1>4. /\ revCache \in Seq(Nat) /\ ite \in 1 .. Len(arr) + 1
      /\ currentHour \in 0 .. EndHour - 1
      /\ Len(revCache) = EndHour - 1 - currentHour
      /\ currentHour > 0 => \A x \in 1 .. ite - 1 : arr[x] > currentHour * Hour
      /\ \A h \in currentHour + 1 .. EndHour - 1 : h > 0 =>
            \A x \in 1 .. Len(arr) :
                arr[x] <= h * Hour <=> x >= revCache[h - currentHour]
  BY <1>1 DEF TypeOK, ReverseInv, EndHour
<1>5. /\ Len(revCache') = EndHour - 1 - currentHour'
      /\ revCache'[1] = ite
      /\ \A k \in 1 .. Len(revCache) : revCache'[k + 1] = revCache[k]
  BY <1>4 DEF EndHour
<1>6. \A h \in currentHour .. EndHour - 1 : h > 0 =>
         \A x \in 1 .. Len(arr) :
             arr[x] <= h * Hour <=> x >= revCache'[h - currentHour']
  <2> SUFFICES ASSUME NEW h \in currentHour .. EndHour - 1, h > 0,
                      NEW x \in 1 .. Len(arr)
               PROVE  arr[x] <= h * Hour <=> x >= revCache'[h - currentHour']
    OBVIOUS
  <2>1. CASE h > currentHour
    <3>1. /\ h \in currentHour + 1 .. EndHour - 1
          /\ h - currentHour \in 1 .. Len(revCache)
          /\ h - currentHour' = (h - currentHour) + 1
      BY <1>4, <2>1 DEF EndHour
    <3> QED
      BY <1>4, <1>5, <3>1
  <2>2. CASE h = currentHour
    <3>1. revCache'[h - currentHour'] = ite
      BY <1>4, <1>5, <2>2 DEF EndHour
    <3>2. ASSUME x >= ite PROVE arr[x] <= h * Hour
      <4>1. arr[ite] >= arr[x] /\ ite \in 1 .. Len(arr)
        BY <1>3, <1>4, <3>2
      <4>2. arr[ite] \in Nat /\ arr[x] \in Nat
        BY <1>3, <4>1
      <4> QED
        BY <1>4, <2>2, <4>1, <4>2 DEF Hour, EndHour
    <3>3. ASSUME ~ (x >= ite) PROVE ~ (arr[x] <= h * Hour)
      <4>1. x \in 1 .. ite - 1 /\ arr[x] \in Nat
        BY <1>3, <1>4, <3>3
      <4> QED
        BY <1>4, <2>2, <4>1 DEF Hour, EndHour
    <3> QED
      BY <3>1, <3>2, <3>3
  <2> QED
    BY <1>4, <2>1, <2>2 DEF EndHour
<1>7. currentHour' > 0 => \A x \in 1 .. ite - 1 : arr[x] > currentHour' * Hour
  <2> SUFFICES ASSUME currentHour' > 0, NEW x \in 1 .. ite - 1
               PROVE  arr[x] > currentHour' * Hour
    OBVIOUS
  <2>1. arr[x] \in Nat /\ arr[x] > currentHour * Hour
    BY <1>3, <1>4
  <2> QED
    BY <1>4, <2>1 DEF Hour, EndHour
<1>8. \A h \in currentHour' + 1 .. EndHour - 1 : h > 0 =>
         \A x \in 1 .. Len(arr') :
             arr'[x] <= h * Hour <=> x >= revCache'[h - currentHour']
  <2>1. currentHour' + 1 = currentHour
    BY <1>4 DEF EndHour
  <2> QED
    BY <1>6, <2>1
<1>9. /\ currentHour' \in -1 .. EndHour - 1
      /\ ite' \in 1 .. Len(arr') + 1
      /\ currentHour' = -1 => ite' = Len(arr') + 1
      /\ pc' = "reverse"
  BY <1>4 DEF EndHour
<1>10. ReverseInv'
  BY <1>5, <1>7, <1>8, <1>9 DEF ReverseInv
<1> QED
  BY <1>1, <1>2, <1>10 DEF IInv, ForwardInv, ForwardDoneInv, ForwardExactUpTo

-----------------------------------------------------------------------------
(***************************************************************************)
(* The invariant is inductive: every iteration of the four loops keeps it. *)
(***************************************************************************)
LEMMA NextIInv == IInv /\ [Next]_vars => IInv'
<1> SUFFICES ASSUME IInv, [Next]_vars PROVE IInv'
  OBVIOUS
<1>1. /\ TypeOK
      /\ dep \in Seq(Nat) /\ arr \in Seq(Nat)
  BY SortedLists DEF IInv
<1>2. CASE ForwardPush
  BY <1>2, ForwardEntry DEF ForwardPush, ReachesHour
<1>3. CASE ForwardFill
  BY <1>1, <1>3, ForwardEntry DEF ForwardFill, TypeOK
<1>4. CASE ForwardNext
  <2>1. TypeOK' /\ revCache' = <<>> /\ pc' = "forward"
    BY <1>1, <1>4 DEF ForwardNext, TypeOK, IInv
  <2>2. \A x \in 1 .. ite : dep[x] < currentHour * Hour
    <3> SUFFICES ASSUME NEW x \in 1 .. ite PROVE dep[x] < currentHour * Hour
      OBVIOUS
    <3>1. CASE x = ite
      <4>1. dep[ite] \in Nat /\ currentHour \in Int
        BY <1>1, <1>4 DEF ForwardNext, TypeOK
      <4> QED
        BY <1>4, <3>1, <4>1 DEF ForwardNext, ReachesHour, Hour
    <3>2. CASE x # ite
      BY <1>1, <1>4, <3>2 DEF ForwardNext, IInv, ForwardInv, TypeOK
    <3> QED
      BY <3>1, <3>2
  <2> QED
    BY <1>1, <1>4, <2>1, <2>2
       DEF ForwardNext, IInv, ForwardInv, ForwardDoneInv, ReverseInv, ForwardExactUpTo, TypeOK
<1>5. CASE ForwardDone
  <2>1. TypeOK' /\ pc' = "reverse" /\ revCache' = <<>> /\ currentHour' = EndHour - 1
    BY <1>1, <1>5 DEF ForwardDone, TypeOK, IInv, EndHour
  <2>2. ForwardDoneInv'
    BY <1>5 DEF ForwardDone, IInv, ForwardInv, ForwardDoneInv, ForwardExactUpTo
  <2>3. ReverseInv'
    BY <1>1, <1>5, <2>1 DEF ForwardDone, ReverseInv, EndHour
  <2> QED
    BY <2>1, <2>2, <2>3 DEF IInv, ForwardInv
<1>6. CASE ReversePush
  BY <1>1, <1>6, ReverseEntry DEF ReversePush, LeavesHour, TypeOK, BeginHour
<1>7. CASE ReverseFill
  BY <1>1, <1>7, ReverseEntry DEF ReverseFill, TypeOK, BeginHour
<1>8. CASE ReverseNext
  <2>1. TypeOK' /\ pc' = "reverse" /\ pc = "reverse"
    BY <1>1, <1>8 DEF ReverseNext, TypeOK
  <2>2. ForwardDoneInv'
    BY <1>8 DEF ReverseNext, IInv, ForwardDoneInv, ForwardExactUpTo
  <2>3. currentHour > 0 => \A x \in 1 .. ite : arr[x] > currentHour * Hour
    <3> SUFFICES ASSUME currentHour > 0, NEW x \in 1 .. ite
                 PROVE  arr[x] > currentHour * Hour
      OBVIOUS
    <3>1. CASE x = ite
      <4>1. arr[ite] \in Nat /\ currentHour \in Int
        BY <1>1, <1>8 DEF ReverseNext, TypeOK
      <4> QED
        BY <1>8, <3>1, <4>1 DEF ReverseNext, LeavesHour, Hour, BeginHour
    <3>2. CASE x # ite
      BY <1>1, <1>8, <3>2 DEF ReverseNext, IInv, ReverseInv, TypeOK
    <3> QED
      BY <3>1, <3>2
  <2>4. ReverseInv'
    BY <1>1, <1>8, <2>1, <2>3 DEF ReverseNext, IInv, ReverseInv, TypeOK
  <2> QED
    BY <2>1, <2>2, <2>4 DEF IInv, ForwardInv
<1>9. CASE ReverseDone
  <2>1. TypeOK' /\ pc' = "ready"
    BY <1>1, <1>9 DEF ReverseDone, TypeOK
  <2>2. ForwardDoneInv'
    BY <1>9 DEF ReverseDone, IInv, ForwardDoneInv, ForwardExactUpTo
  <2>3. ReverseInv'
    BY <1>1, <1>9, <2>1 DEF ReverseDone, IInv, ReverseInv, TypeOK, BeginHour, EndHour
  <2> QED
    BY <2>1, <2>2, <2>3 DEF IInv, ForwardInv
<1>10. CASE UNCHANGED vars
  BY <1>10 DEF vars, IInv, TypeOK, ForwardInv, ForwardDoneInv, ReverseInv, ForwardExactUpTo
<1> QED
  BY <1>2, <1>3, <1>4, <1>5, <1>6, <1>7, <1>8, <1>9, <1>10 DEF Next

\* loading builds the set by steps of ConnectionSet, from its initial state
LEMMA BuildsSet == LoadSpec => Spec
<1>1. LoadInit => Init
  BY DEF LoadInit
<1>2. [LoadNext]_loadVars => [Next]_vars
  BY DEF LoadNext, FetchNodes, BuildSet, loadVars
<1> QED
  BY <1>1, <1>2, PTL DEF LoadSpec, Spec

LEMMA SpecIInv == LoadSpec => []IInv
<1>1. Spec => []IInv
  BY InitIInv, NextIInv, PTL DEF Spec
<1> QED
  BY <1>1, BuildsSet, PTL

-----------------------------------------------------------------------------
(***************************************************************************)
(* generateConnectionsIteratorCache keeps its iterators and its caches     *)
(* within their types, for every set of connections.                       *)
(***************************************************************************)
THEOREM TypeCorrect == LoadSpec => []TypeOK
<1>1. IInv => TypeOK
  BY DEF IInv
<1> QED
  BY <1>1, SpecIInv, PTL

(***************************************************************************)
(* For every list of connections and every hour of the cache, the getter   *)
(* begins the forward scan at the first connection of that hour or later.  *)
(***************************************************************************)
THEOREM ForwardExact == LoadSpec => []ForwardBeginExact
<1>1. IInv => ForwardBeginExact
  <2> SUFFICES ASSUME IInv, pc # "forward", NEW h \in Hours
               PROVE  LET p == getForwardConnectionsBeginAtDepartureHour(h)
                      IN  /\ h + 1 \in DOMAIN fwdCache
                          /\ \A x \in 1 .. Len(dep) : dep[x] >= h * Hour <=> x >= p
    BY DEF ForwardBeginExact
  <2>1. /\ fwdCache \in Seq(Nat) /\ Len(fwdCache) >= EndHour
        /\ ForwardExactUpTo(Len(fwdCache))
    BY DEF IInv, TypeOK, ForwardDoneInv
  <2>2. /\ h \in 0 .. Len(fwdCache) - 1 /\ h + 1 \in DOMAIN fwdCache
        /\ getForwardConnectionsBeginAtDepartureHour(h) = fwdCache[h + 1]
    BY <2>1 DEF Hours, BeginHour, EndHour, IndexesForwardCache,
                getForwardConnectionsBeginAtDepartureHour
  <2> QED
    BY <2>1, <2>2 DEF ForwardExactUpTo
<1> QED
  BY <1>1, SpecIInv, PTL

(***************************************************************************)
(* The same for the reverse scan and the hours after the first.            *)
(***************************************************************************)
THEOREM ReverseExact == LoadSpec => []ReverseBeginExact
<1>1. IInv => ReverseBeginExact
  <2> SUFFICES ASSUME IInv, pc = "ready", NEW h \in Hours \ {0}
               PROVE  LET p == getReverseConnectionsBeginAtArrivalHour(h)
                      IN  /\ Len(revCache) = EndHour
                          /\ \A x \in 1 .. Len(arr) : arr[x] <= h * Hour <=> x >= p
    BY DEF ReverseBeginExact
  <2>1. currentHour = -1 /\ Len(revCache) = EndHour
    BY DEF IInv, ReverseInv, EndHour
  <2>2. /\ h \in currentHour + 1 .. EndHour - 1 /\ h > 0
        /\ h - currentHour = h + 1
        /\ getReverseConnectionsBeginAtArrivalHour(h) = revCache[h + 1]
    BY <2>1 DEF Hours, BeginHour, EndHour, IndexesReverseCache,
                getReverseConnectionsBeginAtArrivalHour
  <2> QED
    BY <2>1, <2>2 DEF IInv, ReverseInv
<1> QED
  BY <1>1, SpecIInv, PTL

-----------------------------------------------------------------------------
(***************************************************************************)
(* The nodes and their footpaths.  Lists are only seen as sets: To(n) of   *)
(* the footpaths from n, From(m) of those to m.                            *)
(***************************************************************************)
To(n) == ToSet(ts[n].to)

From(m) == ToSet(ts[m].from)

Paths == {Footpath(m, x) : m \in Known, x \in WalkingTimes}

FilesOK == files \in NodeFiles

\* what the file of n puts on the reverse list of m
Backward(m, n) == {Footpath(n, e.time) : e \in {e \in ToSet(Valid(n)) : e.node = m}}

LEMMA SameFootpath ==
    ASSUME NEW m, NEW n, NEW x, NEW y
    PROVE  /\ Footpath(m, x).node = m /\ Footpath(m, x).time = x
           /\ Footpath(m, x) = Footpath(n, y) <=> m = n /\ x = y
BY DEF Footpath

\* a sequence whose elements are in a set
LEMMA InSeq ==
    ASSUME NEW S, NEW T, NEW s \in Seq(T), \A e \in ToSet(s) : e \in S
    PROVE  s \in Seq(S)
<1>1. Len(s) \in Nat /\ s \in [1 .. Len(s) -> T] /\ DOMAIN s = 1 .. Len(s)
  OBVIOUS
<1>2. \A k \in 1 .. Len(s) : s[k] \in S
  BY <1>1 DEF ToSet
<1>3. s \in [1 .. Len(s) -> S]
  BY <1>1, <1>2
<1> QED
  BY <1>1, <1>3

LEMMA ZeroTime == 0 \in WalkingTimes
BY DEF WalkingTimes

LEMMA ValidEntries ==
    ASSUME FilesOK, NEW n \in Known
    PROVE  /\ Valid(n) \in Seq(Paths)
           /\ \A e \in ToSet(Valid(n)) : e.node \in Known /\ e = Footpath(e.node, e.time)
<1>1. PICK s : s = files[n].entries
  OBVIOUS
<1>2. s \in Seq(ToSet(s)) /\ \A e \in ToSet(s) : e = Footpath(e.node, e.time)
  BY <1>1, FilesAssumption DEF FilesOK, Known
<1>3. PICK P : P = {k \in DOMAIN s : s[k].node \in Known}
  OBVIOUS
<1>4. PICK v : v = At(s, P)
  OBVIOUS
<1>5. Valid(n) = v
  BY <1>1, <1>3, <1>4 DEF Valid
<1>6. v \in Seq(ToSet(s)) /\ ToSet(v) = {s[p] : p \in P}
  <2>1. P \in SUBSET DOMAIN s
    BY <1>3
  <2> QED
    <3>1. PICK T : T = ToSet(s)
      OBVIOUS
    <3>2. At(s, P) \in Seq(T) /\ {At(s, P)[k] : k \in DOMAIN At(s, P)} = {s[p] : p \in P}
      BY <1>2, <2>1, <3>1, AtSelects
    <3> QED
      BY <1>4, <3>1, <3>2 DEF ToSet
<1>7. ASSUME NEW e \in ToSet(v)
      PROVE  e.node \in Known /\ e = Footpath(e.node, e.time) /\ e \in Paths
  <2>1. e \in ToSet(s) /\ e.node \in Known
    BY <1>3, <1>6 DEF ToSet
  <2>2. e.time \in WalkingTimes
    <3>1. e.time \in {x.time : x \in ToSet(files[n].entries)}
      BY <1>1, <2>1
    <3> QED
      BY <3>1, Zenon DEF WalkingTimes
  <2> QED
    BY <1>2, <2>1, <2>2 DEF Paths
<1>8. v \in Seq(Paths)
  BY <1>6, <1>7, InSeq
<1> QED
  BY <1>5, <1>7, <1>8

\* a footpath is put on the reverse list of m for n exactly when n has it to m
LEMMA ReverseOf ==
    ASSUME FilesOK, NEW m, NEW n \in Known, NEW k, NEW x
    PROVE  Footpath(k, x) \in Backward(m, n) <=> k = n /\ Footpath(m, x) \in ToSet(Valid(n))
<1>1. \A e \in ToSet(Valid(n)) : e = Footpath(e.node, e.time)
  BY ValidEntries
<1>2. ASSUME Footpath(k, x) \in Backward(m, n)
      PROVE  k = n /\ Footpath(m, x) \in ToSet(Valid(n))
  <2>1. PICK e \in ToSet(Valid(n)) : e.node = m /\ Footpath(k, x) = Footpath(n, e.time)
    BY <1>2 DEF Backward
  <2>2. k = n /\ x = e.time
    BY <2>1, SameFootpath
  <2> QED
    BY <1>1, <2>1, <2>2
<1>3. ASSUME k = n, Footpath(m, x) \in ToSet(Valid(n))
      PROVE  Footpath(k, x) \in Backward(m, n)
  BY <1>3, SameFootpath DEF Backward
<1> QED
  BY <1>2, <1>3

LEMMA SetOfConcat ==
    ASSUME NEW T, NEW a \in Seq(T), NEW b \in Seq(T)
    PROVE  a \o b \in Seq(T) /\ ToSet(a \o b) = ToSet(a) \cup ToSet(b)
<1>1. a \o b \in Seq(T)
  BY ConcatProperties
<1>2. Range(a \o b) = Range(a) \cup Range(b)
  BY RangeConcatenation
<1> QED
  BY <1>1, <1>2 DEF ToSet, Range

\* the reverse list of m after the file of n
LEMMA ReverseList ==
    ASSUME FilesOK, NEW m \in Known, NEW n \in Known, ts[m].from \in Seq(Paths)
    PROVE  /\ WithReverse(m, n) \in Seq(Paths)
           /\ ToSet(WithReverse(m, n)) = From(m) \cup Backward(m, n)
<1>1. PICK v : v = Valid(n)
  OBVIOUS
<1>2. v \in Seq(Paths)
  BY <1>1, ValidEntries
<1>3. PICK P : P = {k \in DOMAIN v : v[k].node = m}
  OBVIOUS
<1>4. PICK w : w = At(v, P)
  OBVIOUS
<1>5. w \in Seq(Paths) /\ ToSet(w) = {v[p] : p \in P}
  <2>1. P \in SUBSET DOMAIN v
    BY <1>3
  <2> QED
    <3>1. At(v, P) \in Seq(Paths) /\ {At(v, P)[k] : k \in DOMAIN At(v, P)} = {v[p] : p \in P}
      BY <1>2, <2>1, AtSelects
    <3> QED
      BY <1>4, <3>1 DEF ToSet
<1>6. ToSet(w) = {e \in ToSet(v) : e.node = m}
  BY <1>3, <1>5 DEF ToSet
<1>7. PICK r : r = [k \in DOMAIN w |-> Footpath(n, w[k].time)]
  OBVIOUS
<1>8. WithReverse(m, n) = ts[m].from \o r
  BY <1>1, <1>3, <1>4, <1>7 DEF WithReverse
<1>9. ToSet(r) = Backward(m, n)
  <2>1. ToSet(r) = {Footpath(n, e.time) : e \in ToSet(w)}
    BY <1>7 DEF ToSet
  <2> QED
    BY <1>1, <1>6, <2>1 DEF Backward
<1>10. r \in Seq(Paths)
  <2>1. Len(w) \in Nat /\ DOMAIN w = 1 .. Len(w)
    BY <1>5
  <2>2. \A k \in DOMAIN w : w[k].time \in WalkingTimes
    BY <1>5, <2>1, SameFootpath DEF Paths
  <2>3. \A k \in DOMAIN w : Footpath(n, w[k].time) \in Paths
    BY <2>2 DEF Paths
  <2>4. PICK d \in Nat : d = Len(w)
    BY <2>1
  <2>5. r \in [1 .. d -> Paths]
    BY <1>7, <2>1, <2>3, <2>4
  <2> QED
    BY <2>5
<1>11. PICK f \in Seq(Paths) : f = ts[m].from
  OBVIOUS
<1>12. f \o r \in Seq(Paths) /\ ToSet(f \o r) = ToSet(f) \cup ToSet(r)
  BY <1>10, SetOfConcat
<1> QED
  BY <1>8, <1>9, <1>11, <1>12 DEF From

ListsType ==
    /\ FilesOK
    /\ ts \in [Known -> [to : Seq(Paths), from : Seq(Paths)]]
    /\ i \in Nat \ {0}
    /\ \/ reading \in {"read", "sort"} /\ ret = "none"
       \/ reading = "returned" /\ ret \in {"0", "EBADMSG", "throw"}

\* a list is empty until the file of its node has been read
OwnList == \A n \in Known : ts[n].to \in {<<>>, Valid(n)}

\* a footpath is on the reverse list of its end, at every moment
ForwardListed == \A m, n \in Known : \A x : Footpath(m, x) \in To(n) => Footpath(n, x) \in From(m)

\* and, unless a file failed, only real footpaths are, and nodes themselves
BackListed ==
    ret \in {"none", "0"} =>
        \A m, n \in Known : \A x : Footpath(n, x) \in From(m) =>
            \/ Footpath(m, x) \in To(n)
            \/ m = n /\ x = 0 /\ files[n].state = "complete"

\* the node whose file has been read is on its own reverse list
SelfListed(k) ==
    files[Uuids[k]].state = "complete" => Footpath(Uuids[k], 0) \in From(Uuids[k])

SelvesListed ==
    /\ reading = "read" => \A k \in 1 .. Len(Uuids) : k < i => SelfListed(k)
    /\ reading = "sort" \/ ret = "0" => \A k \in 1 .. Len(Uuids) : SelfListed(k)

NInv == ListsType /\ OwnList /\ ForwardListed /\ BackListed /\ SelvesListed

LEMMA InitNInv == LoadInit => NInv
<1> SUFFICES ASSUME LoadInit PROVE NInv
  OBVIOUS
<1>1. /\ files \in NodeFiles /\ i = 1 /\ reading = "read" /\ ret = "none"
      /\ ts = [n \in Known |-> [to |-> <<>>, from |-> <<>>]]
  BY DEF LoadInit, NodesInit
<1>2. \A n \in Known : ts[n].to = <<>> /\ ts[n].from = <<>>
  BY <1>1
<1>3. \A n \in Known : To(n) = {} /\ From(n) = {}
  BY <1>2 DEF To, From, ToSet
<1>4. ListsType
  <2>1. <<>> \in Seq(Paths)
    BY EmptySeq
  <2> QED
    BY <1>1, <2>1 DEF ListsType, FilesOK
<1>5. OwnList /\ ForwardListed /\ BackListed
  BY <1>2, <1>3 DEF OwnList, ForwardListed, BackListed
<1>6. SelvesListed
  BY <1>1, FilesAssumption DEF SelvesListed
<1> QED
  BY <1>4, <1>5, <1>6 DEF NInv

\* Paths and the valid entries depend on the files only
LEMMA SamePaths ==
    ASSUME UNCHANGED files
    PROVE  Paths' = Paths /\ \A n : Valid(n)' = Valid(n)
BY DEF Paths, WalkingTimes, Valid

\* a file that is read to its end
LEMMA ReadFileNInv ==
    ASSUME NInv, reading = "read", i <= Len(Uuids), NEW n, n = Uuids[i], ReadFile(n),
           UNCHANGED files
    PROVE  NInv'
<1>1. ListsType /\ OwnList /\ ForwardListed /\ BackListed /\ SelvesListed
  BY DEF NInv
<1>2. /\ FilesOK /\ i \in Nat \ {0} /\ ret = "none"
      /\ \A m \in Known : ts[m].to \in Seq(Paths) /\ ts[m].from \in Seq(Paths)
  BY <1>1 DEF ListsType
<1>3. /\ Len(Uuids) \in Nat /\ \A k \in 1 .. Len(Uuids) : Uuids[k] \in Known
      /\ n \in Known
  <2>1. Len(Uuids) \in Nat /\ \A k \in 1 .. Len(Uuids) : Uuids[k] \in Known
    BY FilesAssumption DEF Known, ToSet
  <2> QED
    BY <1>2, <2>1
<1>4. /\ files[n].state = "complete" /\ i' = i + 1 /\ reading' = "read" /\ ret' = "none"
      /\ ts' = [m \in Known |->
                  [to |-> IF m = n THEN Valid(n) ELSE ts[m].to,
                   from |-> WithReverse(m, n) \o IF m = n THEN <<Footpath(n, 0)>> ELSE <<>>]]
  BY <1>2 DEF ReadFile
<1>5. Paths' = Paths /\ \A m : Valid(m)' = Valid(m)
  BY SamePaths
<1>6. ASSUME NEW m \in Known
      PROVE  /\ ts'[m] \in [to : Seq(Paths), from : Seq(Paths)]
             /\ ts'[m].to = IF m = n THEN Valid(n) ELSE ts[m].to
             /\ ToSet(ts'[m].from) = From(m) \cup Backward(m, n) \cup
                                       IF m = n THEN {Footpath(n, 0)} ELSE {}
  <2>1. PICK self : self = IF m = n THEN <<Footpath(n, 0)>> ELSE <<>>
    OBVIOUS
  <2>2. self \in Seq(Paths) /\ ToSet(self) = IF m = n THEN {Footpath(n, 0)} ELSE {}
    <3>1. CASE m = n
      <4>1. Footpath(n, 0) \in Paths
        BY <1>3, ZeroTime DEF Paths
      <4>2. self = <<Footpath(n, 0)>>
        BY <2>1, <3>1
      <4> QED
        BY <3>1, <4>1, <4>2 DEF ToSet
    <3>2. CASE m # n
      <4>1. self = <<>>
        BY <2>1, <3>2
      <4> QED
        BY <3>2, <4>1, EmptySeq DEF ToSet
    <3> QED
      BY <3>1, <3>2
  <2>3. PICK w \in Seq(Paths) : w = WithReverse(m, n) /\ ToSet(w) = From(m) \cup Backward(m, n)
    BY <1>2, <1>3, ReverseList
  <2>4. w \o self \in Seq(Paths) /\ ToSet(w \o self) = ToSet(w) \cup ToSet(self)
    BY <2>2, SetOfConcat
  <2>5. ts'[m].to = (IF m = n THEN Valid(n) ELSE ts[m].to) /\ ts'[m].from = w \o self
    BY <1>4, <2>1, <2>3
  <2>6. ts'[m].to \in Seq(Paths)
    BY <1>2, <1>3, <2>5, ValidEntries
  <2>7. ts'[m] \in [to : Seq(Paths), from : Seq(Paths)]
    <3>1. ts'[m] = [to |-> ts'[m].to, from |-> ts'[m].from]
      BY <1>4
    <3> QED
      BY <2>4, <2>5, <2>6, <3>1
  <2> QED
    BY <2>2, <2>3, <2>4, <2>5, <2>7
<1>7. \A m \in Known : To(m)' = IF m = n THEN ToSet(Valid(n)) ELSE To(m)
  BY <1>6 DEF To
<1>8. \A m \in Known : From(m)' = From(m) \cup Backward(m, n) \cup
                                    IF m = n THEN {Footpath(n, 0)} ELSE {}
  BY <1>6 DEF From
<1>9. ListsType'
  <2>1. ts' \in [Known -> [to : Seq(Paths), from : Seq(Paths)]]
    BY <1>4, <1>6
  <2>2. i' \in Nat \ {0}
    BY <1>2, <1>4
  <2> QED
    BY <1>2, <1>4, <1>5, <2>1, <2>2 DEF ListsType, FilesOK
<1>10. OwnList'
  BY <1>1, <1>5, <1>6 DEF OwnList
<1>11. ForwardListed'
  <2> SUFFICES ASSUME NEW m \in Known, NEW k \in Known, NEW x, Footpath(m, x) \in To(k)'
               PROVE  Footpath(k, x) \in From(m)'
    BY DEF ForwardListed
  <2>1. CASE k = n
    <3>1. Footpath(m, x) \in ToSet(Valid(n))
      BY <1>7, <2>1
    <3>2. Footpath(k, x) \in Backward(m, n)
      BY <1>2, <1>3, <2>1, <3>1, ReverseOf
    <3> QED
      BY <1>8, <3>2
  <2>2. CASE k # n
    <3>1. Footpath(k, x) \in From(m)
      BY <1>1, <1>7, <2>2 DEF ForwardListed
    <3> QED
      BY <1>8, <3>1
  <2> QED
    BY <2>1, <2>2
<1>12. BackListed'
  <2> SUFFICES ASSUME NEW m \in Known, NEW k \in Known, NEW x, Footpath(k, x) \in From(m)'
               PROVE  \/ Footpath(m, x) \in To(k)'
                      \/ m = k /\ x = 0 /\ files[k].state = "complete"
    BY DEF BackListed
  <2>1. CASE Footpath(k, x) \in From(m)
    <3>1. CASE Footpath(m, x) \in To(k)
      <4>1. CASE k = n
        <5>1. ts[k].to # <<>>
          BY <3>1 DEF To, ToSet
        <5>2. ts[k].to = Valid(k)
          BY <1>1, <5>1 DEF OwnList
        <5> QED
          BY <1>7, <3>1, <4>1, <5>2 DEF To
      <4>2. CASE k # n
        BY <1>7, <3>1, <4>2
      <4> QED
        BY <4>1, <4>2
    <3>2. CASE m = k /\ x = 0 /\ files[k].state = "complete"
      BY <3>2
    <3> QED
      BY <1>1, <1>2, <2>1, <3>1, <3>2 DEF BackListed
  <2>2. CASE Footpath(k, x) \in Backward(m, n)
    <3>1. k = n /\ Footpath(m, x) \in ToSet(Valid(n))
      BY <1>2, <1>3, <2>2, ReverseOf
    <3> QED
      BY <1>7, <3>1
  <2>3. CASE m = n /\ Footpath(k, x) = Footpath(n, 0)
    BY <1>4, <2>3, SameFootpath
  <2> QED
    BY <1>8, <2>1, <2>2, <2>3
<1>13. SelvesListed'
  <2> SUFFICES ASSUME NEW k \in 1 .. Len(Uuids), k < i + 1, files[Uuids[k]].state = "complete"
               PROVE  Footpath(Uuids[k], 0) \in From(Uuids[k])'
    BY <1>4 DEF SelvesListed, SelfListed
  <2>1. CASE k = i
    BY <1>3, <1>8, <2>1
  <2>2. CASE k # i
    <3>1. k < i
      BY <1>2, <2>2
    <3>2. Footpath(Uuids[k], 0) \in From(Uuids[k])
      BY <1>1, <3>1 DEF SelvesListed, SelfListed
    <3> QED
      BY <1>3, <1>8, <3>2
  <2> QED
    BY <2>1, <2>2
<1> QED
  BY <1>9, <1>10, <1>11, <1>12, <1>13 DEF NInv

\* a file that fails: the reverse lists have got its entries
LEMMA FailFileNInv ==
    ASSUME NInv, reading = "read", NEW n \in Known, FailFile(n), UNCHANGED files
    PROVE  NInv'
<1>1. ListsType /\ OwnList /\ ForwardListed
  BY DEF NInv
<1>2. /\ FilesOK /\ i \in Nat \ {0}
      /\ \A m \in Known : ts[m].to \in Seq(Paths) /\ ts[m].from \in Seq(Paths)
  BY <1>1 DEF ListsType
<1>3. /\ i' = i /\ reading' = "returned" /\ ret' \in {"EBADMSG", "throw"}
      /\ ts' = [m \in Known |-> [ts[m] EXCEPT !.from = WithReverse(m, n)]]
  BY DEF FailFile
<1>4. Paths' = Paths /\ \A m : Valid(m)' = Valid(m)
  BY SamePaths
<1>5. ASSUME NEW m \in Known
      PROVE  /\ ts'[m] \in [to : Seq(Paths), from : Seq(Paths)]
             /\ ts'[m].to = ts[m].to
             /\ From(m) \subseteq ToSet(ts'[m].from)
  <2>1. PICK w \in Seq(Paths) : w = WithReverse(m, n) /\ ToSet(w) = From(m) \cup Backward(m, n)
    BY <1>2, ReverseList
  <2>2. ts[m] \in [to : Seq(Paths), from : Seq(Paths)]
    BY <1>1 DEF ListsType
  <2>3. ts'[m] = [ts[m] EXCEPT !.from = w]
    BY <1>3, <2>1
  <2> QED
    BY <2>1, <2>2, <2>3
<1>6. \A m \in Known : To(m)' = To(m) /\ From(m) \subseteq From(m)'
  BY <1>5 DEF To, From
<1>7. ListsType'
  <2>1. ts' \in [Known -> [to : Seq(Paths), from : Seq(Paths)]]
    BY <1>3, <1>5
  <2> QED
    BY <1>2, <1>3, <1>4, <2>1 DEF ListsType, FilesOK
<1>8. OwnList'
  BY <1>1, <1>4, <1>5 DEF OwnList
<1>9. ForwardListed'
  BY <1>1, <1>6 DEF ForwardListed
<1>10. BackListed' /\ SelvesListed'
  BY <1>3 DEF BackListed, SelvesListed
<1> QED
  BY <1>7, <1>8, <1>9, <1>10 DEF NInv

\* the lists stay: a missing file, and the copies after the sort
LEMMA SameListsNInv ==
    ASSUME NInv, UNCHANGED <<files, ts>>, i' \in Nat \ {0},
           \/ reading' \in {"read", "sort"} /\ ret' = "none"
           \/ reading' = "returned" /\ ret' \in {"0", "EBADMSG", "throw"},
           ret' = ret \/ ret = "none",
           SelvesListed'
    PROVE  NInv'
<1>1. ListsType /\ OwnList /\ ForwardListed /\ BackListed
  BY DEF NInv
<1>2. Paths' = Paths /\ \A m : Valid(m)' = Valid(m)
  BY SamePaths
<1>3. \A m : To(m)' = To(m) /\ From(m)' = From(m)
  BY DEF To, From
<1>4. ListsType'
  BY <1>1, <1>2 DEF ListsType, FilesOK
<1>5. OwnList' /\ ForwardListed'
  BY <1>1, <1>2, <1>3 DEF OwnList, ForwardListed
<1>6. BackListed'
  BY <1>1, <1>3 DEF BackListed
<1> QED
  BY <1>4, <1>5, <1>6 DEF NInv

LEMMA NodesNextNInv ==
    ASSUME NInv, NodesNext
    PROVE  NInv'
<1>1. ListsType /\ SelvesListed
  BY DEF NInv
<1>2. /\ i \in Nat \ {0} /\ Len(Uuids) \in Nat
      /\ \A k \in 1 .. Len(Uuids) : Uuids[k] \in Known
  <2>1. Len(Uuids) \in Nat /\ \A k \in 1 .. Len(Uuids) : Uuids[k] \in Known
    BY FilesAssumption DEF Known, ToSet
  <2> QED
    BY <1>1, <2>1 DEF ListsType
<1>3. CASE ReadNext
  <2>1. PICK n : n = Uuids[i]
    OBVIOUS
  <2>2. /\ reading = "read" /\ i <= Len(Uuids) /\ n \in Known /\ UNCHANGED files
        /\ ReadFile(n) \/ SkipFile(n) \/ FailFile(n)
    BY <1>2, <1>3, <2>1 DEF ReadNext
  <2>3. CASE ReadFile(n)
    BY <2>1, <2>2, <2>3, ReadFileNInv
  <2>4. CASE FailFile(n)
    BY <2>2, <2>4, FailFileNInv
  <2>5. CASE SkipFile(n)
    <3>1. /\ files[n].state = "missing" /\ i' = i + 1 /\ UNCHANGED <<ts, reading, ret>>
      BY <2>5 DEF SkipFile
    <3>2. SelvesListed'
      <4> SUFFICES ASSUME NEW k \in 1 .. Len(Uuids), k < i + 1,
                          files[Uuids[k]].state = "complete"
                   PROVE  Footpath(Uuids[k], 0) \in From(Uuids[k])
        <5>1. ret = "none"
          BY <1>1, <2>2 DEF ListsType
        <5>2. \A m : From(m)' = From(m)
          BY <3>1 DEF From
        <5> QED
          BY <2>2, <3>1, <5>1, <5>2 DEF SelvesListed, SelfListed
      <4>1. k # i
        BY <2>1, <3>1
      <4>2. k < i
        BY <1>2, <4>1
      <4> QED
        BY <1>1, <2>2, <4>2 DEF SelvesListed, SelfListed
    <3>3. i' \in Nat \ {0}
      BY <1>2, <3>1
    <3>4. ret' = "none" /\ reading' = "read"
      BY <1>1, <2>2, <3>1 DEF ListsType
    <3> QED
      BY <2>2, <3>1, <3>2, <3>3, <3>4, SameListsNInv
  <2> QED
    BY <2>2, <2>3, <2>4, <2>5
<1>4. CASE AllRead
  <2>1. /\ reading = "read" /\ i > Len(Uuids) /\ reading' = "sort" /\ i' = 1
        /\ UNCHANGED <<files, ts, ret>>
    BY <1>4 DEF AllRead
  <2>2. ret = "none"
    BY <1>1, <2>1 DEF ListsType
  <2>3. SelvesListed'
    <3>1. \A k \in 1 .. Len(Uuids) : k < i
      BY <1>2, <2>1
    <3>2. \A m : From(m)' = From(m)
      BY <2>1 DEF From
    <3> QED
      BY <1>1, <2>1, <3>1, <3>2 DEF SelvesListed, SelfListed
  <2> QED
    BY <2>1, <2>2, <2>3, SameListsNInv
<1>5. CASE SortNext
  <2>1. reading = "sort" /\ UNCHANGED files /\ ret = "none"
    BY <1>1, <1>5 DEF SortNext, ListsType
  <2>2. ts' = ts
    <3>1. CASE UNCHANGED ts
      BY <3>1
    <3>2. CASE /\ i <= Len(Uuids)
               /\ ts' = [ts EXCEPT ![Uuids[i]] = [to |-> Rearranged(@.to),
                                                  from |-> Rearranged(@.from)]]
      <4>1. PICK n \in Known : n = Uuids[i]
        BY <1>2, <3>2
      <4>2. ts \in [Known -> [to : Seq(Paths), from : Seq(Paths)]]
        BY <1>1 DEF ListsType
      <4>3. \A s \in Seq(Paths) : Rearranged(s) = s
        BY DEF Rearranged
      <4>4. ts[n].to \in Seq(Paths) /\ ts[n].from \in Seq(Paths)
        BY <4>2
      <4>5. [to |-> Rearranged(ts[n].to), from |-> Rearranged(ts[n].from)] = ts[n]
        <5>1. ts[n] = [to |-> ts[n].to, from |-> ts[n].from]
          BY <4>2
        <5> QED
          BY <4>3, <4>4, <5>1
      <4>6. ts' = [ts EXCEPT ![n] = [to |-> Rearranged(ts[n].to), from |-> Rearranged(ts[n].from)]]
        BY <3>2, <4>1, <4>2
      <4> QED
        BY <4>2, <4>5, <4>6
    <3> QED
      BY <1>5, <3>1, <3>2 DEF SortNext
  <2>3. /\ \/ i' = i + 1 /\ reading' = "sort" /\ ret' = "none"
           \/ i' = i /\ reading' = "returned" /\ ret' = "0"
    BY <1>5, <2>1 DEF SortNext
  <2>4. SelvesListed'
    <3>1. \A m : From(m)' = From(m)
      BY <2>2 DEF From
    <3> QED
      BY <1>1, <2>1, <2>3, <3>1 DEF SelvesListed, SelfListed
  <2>5. i' \in Nat \ {0}
    BY <1>2, <2>3
  <2> QED
    BY <2>1, <2>2, <2>3, <2>4, <2>5, SameListsNInv
<1> QED
  BY <1>3, <1>4, <1>5 DEF NodesNext

LEMMA LoadNextNInv == NInv /\ [LoadNext]_loadVars => NInv'
<1> SUFFICES ASSUME NInv, [LoadNext]_loadVars PROVE NInv'
  OBVIOUS
<1>1. CASE FetchNodes
  BY <1>1, NodesNextNInv DEF FetchNodes
<1>2. CASE UNCHANGED nodesVars
  <2>1. UNCHANGED <<files, ts, i, reading, ret>>
    BY <1>2 DEF nodesVars
  <2>2. ListsType /\ SelvesListed
    BY DEF NInv
  <2>3. SelvesListed'
    <3>1. \A m : From(m)' = From(m)
      BY <2>1 DEF From
    <3> QED
      BY <2>1, <2>2, <3>1 DEF SelvesListed, SelfListed
  <2> QED
    BY <2>1, <2>2, <2>3, SameListsNInv DEF ListsType
<1> QED
  BY <1>1, <1>2 DEF LoadNext, BuildSet, loadVars

LEMMA ConverseLists == NInv => ListsConverse
<1> SUFFICES ASSUME NInv PROVE ListsConverse
  OBVIOUS
<1>1. ListsType /\ OwnList /\ ForwardListed /\ BackListed /\ SelvesListed
  BY DEF NInv
<1>2. ASSUME NEW n \in Known, NEW k \in DOMAIN ts[n].to
      PROVE  /\ ts[n].to[k].node \in Known
             /\ Listed(ts[ts[n].to[k].node].from, n, ts[n].to[k].time)
  <2>1. ts[n].to[k] \in Paths /\ ts[n].to[k] \in To(n)
    <3>1. ts[n].to \in Seq(Paths)
      BY <1>1 DEF ListsType
    <3> QED
      BY <3>1 DEF To, ToSet
  <2>2. PICK m \in Known, x \in WalkingTimes : ts[n].to[k] = Footpath(m, x)
    BY <2>1 DEF Paths
  <2>3. Footpath(n, x) \in From(m)
    BY <1>1, <2>1, <2>2 DEF ForwardListed
  <2>4. ts[n].to[k].node = m /\ ts[n].to[k].time = x
    BY <2>2, SameFootpath
  <2> QED
    BY <2>3, <2>4 DEF Listed, From
<1>3. ASSUME ret = "0", NEW m \in Known, NEW n \in Known, NEW x \in WalkingTimes
      PROVE  Listed(ts[m].from, n, x) <=>
                \/ Listed(ts[n].to, m, x)
                \/ m = n /\ x = 0 /\ files[n].state = "complete"
  <2>1. Listed(ts[m].from, n, x) =>
          \/ Listed(ts[n].to, m, x)
          \/ m = n /\ x = 0 /\ files[n].state = "complete"
    BY <1>1, <1>3 DEF BackListed, Listed, To, From
  <2>2. Listed(ts[n].to, m, x) => Listed(ts[m].from, n, x)
    BY <1>1 DEF ForwardListed, Listed, To, From
  <2>3. ASSUME m = n, x = 0, files[n].state = "complete"
        PROVE  Listed(ts[m].from, n, x)
    <3>1. PICK k \in 1 .. Len(Uuids) : Uuids[k] = n
      BY FilesAssumption DEF Known, ToSet
    <3>2. Footpath(n, 0) \in From(n)
      BY <1>1, <1>3, <2>3, <3>1 DEF SelvesListed, SelfListed
    <3> QED
      BY <2>3, <3>2 DEF Listed, From
  <2> QED
    BY <2>1, <2>2, <2>3
<1> QED
  BY <1>2, <1>3 DEF ListsConverse

(***************************************************************************)
(* getNodes: for any number of nodes and whatever their files hold, a      *)
(* footpath of a forward calculation is one of the reverse calculation at  *)
(* every moment, and when all files have been read the lists are converse. *)
(***************************************************************************)
THEOREM FootpathsConverse == LoadSpec => []ListsConverse
<1>1. LoadSpec => []NInv
  BY InitNInv, LoadNextNInv, PTL DEF LoadSpec
<1> QED
  BY <1>1, ConverseLists, PTL
=============================================================================
