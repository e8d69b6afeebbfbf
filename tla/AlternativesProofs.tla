------------------------- MODULE AlternativesProofs -------------------------
(***************************************************************************)
(* What alternativesRouting tries when no bound cuts the search short, the *)
(* bounds, and the distinctness of the alternatives, for every offer of    *)
(* journeys and every query, whatever calculateSingle answers: nothing is  *)
(* assumed of which journey it returns or of when it fails.                *)
(***************************************************************************)
EXTENDS AlternativesRouting, SelectionProofs, SequenceTheorems

-----------------------------------------------------------------------------
(***************************************************************************)
(* What the combinations are.                                              *)
(***************************************************************************)

\* the lines at some positions of a vector
LEMMA AtLines ==
    ASSUME NEW T, NEW v \in Seq(T), NEW P \in SUBSET DOMAIN v
    PROVE  At(v, P) \in Seq(T) /\ LinesOf(At(v, P)) = {v[p] : p \in P}
BY AtSelects DEF LinesOf

\* sorting keeps the lines
LEMMA SortedKeeps ==
    ASSUME NEW v \in Seq(Nat)
    PROVE  SortedLines(v) \in Seq(Nat) /\ LinesOf(SortedLines(v)) = LinesOf(v)
<1> DEFINE P == DOMAIN v
           R == {w \in P \X P : v[w[1]] < v[w[2]] \/ (v[w[1]] = v[w[2]] /\ w[1] < w[2])}
           rank(p) == Cardinality({r \in P : v[r] < v[p] \/ (v[r] = v[p] /\ r < p)})
           chosen(k) == CHOOSE p \in P : rank(p) = k - 1
<1>1. /\ Len(v) \in Nat /\ P = 1 .. Len(v) /\ IsFiniteSet(P) /\ Cardinality(P) = Len(v)
      /\ \A p \in P : v[p] \in Nat /\ p \in Nat
  BY Positions
<1>2. Orders(R, P)
  <2>1. \A x, y \in P : <<x, y>> \in R <=> v[x] < v[y] \/ (v[x] = v[y] /\ x < y)
    OBVIOUS
  <2> HIDE DEF R, P
  <2>2. \A x \in P : <<x, x>> \notin R
    BY <2>1, <1>1
  <2>3. ASSUME NEW x \in P, NEW y \in P, NEW z \in P, <<x, y>> \in R, <<y, z>> \in R
        PROVE  <<x, z>> \in R
    <3>1. /\ v[x] \in Nat /\ v[y] \in Nat /\ v[z] \in Nat /\ x \in Nat /\ y \in Nat /\ z \in Nat
      BY <1>1
    <3>2. /\ v[x] < v[y] \/ (v[x] = v[y] /\ x < y)
          /\ v[y] < v[z] \/ (v[y] = v[z] /\ y < z)
      BY <2>1, <2>3
    <3>3. v[x] < v[z] \/ (v[x] = v[z] /\ x < z)
      BY <3>1, <3>2
    <3> QED
      BY <2>1, <3>3
  <2>4. ASSUME NEW x \in P, NEW y \in P
        PROVE  x = y \/ <<x, y>> \in R \/ <<y, x>> \in R
    <3>1. v[x] \in Nat /\ v[y] \in Nat /\ x \in Nat /\ y \in Nat
      BY <1>1
    <3>2. \/ x = y
          \/ v[x] < v[y] \/ (v[x] = v[y] /\ x < y)
          \/ v[y] < v[x] \/ (v[y] = v[x] /\ y < x)
      BY <3>1
    <3> QED
      BY <2>1, <3>2
  <2> QED
    BY <2>2, <2>3, <2>4 DEF Orders
<1>3. \A p \in P : Before(R, P, p) = {r \in P : v[r] < v[p] \/ (v[r] = v[p] /\ r < p)}
  BY DEF Before
<1> HIDE DEF R
<1>4. /\ \A p \in P : rank(p) \in Nat /\ rank(p) + 1 \in 1 .. Len(v)
      /\ \A p, r \in P : rank(p) = rank(r) => p = r
      /\ \A k \in 1 .. Len(v) : \E p \in P : rank(p) = k - 1
  <2>1. \A p \in P : rank(p) = Cardinality(Before(R, P, p))
    BY <1>3
  <2> HIDE DEF rank, P
  <2>2. Numbered(R, P)
    BY <1>1, <1>2, Ranked
  <2> QED
    BY <1>1, <2>1, <2>2 DEF Numbered
<1>5. SortedLines(v) = [k \in P |-> v[chosen(k)]]
  BY DEF SortedLines
<1> HIDE DEF rank
<1>6. \A k \in P : chosen(k) \in P /\ rank(chosen(k)) = k - 1
  BY <1>1, <1>4
<1> HIDE DEF chosen, P
<1>7. \A p \in P : \E k \in P : chosen(k) = p
  <2> SUFFICES ASSUME NEW p \in P PROVE \E k \in P : chosen(k) = p
    OBVIOUS
  <2>1. PICK k \in P : k = rank(p) + 1
    BY <1>1, <1>4
  <2>2. rank(p) = k - 1
    BY <2>1, <1>4
  <2> QED
    BY <2>2, <1>4, <1>6
<1>8. LinesOf(SortedLines(v)) = LinesOf(v)
  <2>1. LinesOf(SortedLines(v)) = {v[chosen(k)] : k \in P}
    BY <1>5 DEF LinesOf
  <2>2. LinesOf(v) = {v[p] : p \in P}
    BY DEF LinesOf, P
  <2> QED
    BY <2>1, <2>2, <1>6, <1>7
<1>9. SortedLines(v) \in [1 .. Len(v) -> Nat]
  BY <1>1, <1>5, <1>6
<1> QED
  BY <1>1, <1>8, <1>9

\* of sets of the same size, the one with the smallest element not in both
LEMMA EarlierTransitive ==
    ASSUME NEW P \in SUBSET Nat, NEW R \in SUBSET Nat, NEW Q \in SUBSET Nat,
           NEW p \in P \ R, \A y \in R \ P : p < y,
           NEW r \in R \ Q, \A y \in Q \ R : r < y
    PROVE  \E x \in P \ Q : \A y \in Q \ P : x < y
<1>1. CASE p < r
  <2>1. p \in P \ Q
    BY <1>1
  <2>2. \A y \in Q \ P : p < y
    BY <1>1
  <2> QED
    BY <2>1, <2>2
<1>2. CASE ~ (p < r)
  <2>1. r < p
    BY <1>2
  <2>2. r \in P \ Q
    BY <2>1
  <2>3. \A y \in Q \ P : r < y
    BY <2>1
  <2> QED
    BY <2>2, <2>3
<1> QED
  BY <1>1, <1>2

LEMMA EarlierTotal ==
    ASSUME NEW P \in SUBSET Nat, NEW Q \in SUBSET Nat, IsFiniteSet(P), IsFiniteSet(Q),
           Cardinality(P) = Cardinality(Q), P # Q
    PROVE  \/ \E x \in P \ Q : \A y \in Q \ P : x < y
           \/ \E x \in Q \ P : \A y \in P \ Q : x < y
<1>1. P \ Q # {}
  <2> SUFFICES ASSUME P \in SUBSET Q PROVE FALSE
    OBVIOUS
  <2> QED
    BY FS_Subset
<1>2. Q \ P # {}
  <2> SUFFICES ASSUME Q \in SUBSET P PROVE FALSE
    OBVIOUS
  <2> QED
    BY FS_Subset
<1>3. PICK p \in P \ Q : \A x \in P \ Q : p <= x
  BY <1>1, LeastOne
<1>4. PICK r \in Q \ P : \A x \in Q \ P : r <= x
  BY <1>2, LeastOne
<1>5. p < r \/ r < p
  BY <1>3, <1>4
<1>6. CASE p < r
  <2>1. \A y \in Q \ P : p < y
    BY <1>4, <1>6
  <2> QED
    BY <2>1
<1>7. CASE r < p
  <2>1. \A y \in P \ Q : r < y
    BY <1>3, <1>7
  <2> QED
    BY <2>1
<1> QED
  BY <1>5, <1>6, <1>7

LEMMA EarlierOrders ==
    ASSUME NEW D \in SUBSET Nat, IsFiniteSet(D), NEW S \in SUBSET (SUBSET D)
    PROVE  Orders({w \in S \X S : EarlierSubset(w[1], w[2])}, S)
<1> DEFINE R == {w \in S \X S : EarlierSubset(w[1], w[2])}
<1>1. \A P \in S : P \in SUBSET Nat /\ IsFiniteSet(P) /\ Cardinality(P) \in Nat
  BY FS_Subset, FS_CardinalityType
<1>2. \A P, Q \in S : <<P, Q>> \in R <=> EarlierSubset(P, Q)
  OBVIOUS
<1> HIDE DEF R
<1>3. ASSUME NEW P \in S PROVE <<P, P>> \notin R
  <2>1. ~ EarlierSubset(P, P)
    BY <1>1 DEF EarlierSubset
  <2> QED
    BY <1>2, <2>1
<1>4. ASSUME NEW P \in S, NEW Q \in S, NEW T \in S, <<P, Q>> \in R, <<Q, T>> \in R
      PROVE  <<P, T>> \in R
  <2>1. EarlierSubset(P, Q) /\ EarlierSubset(Q, T)
    BY <1>2, <1>4
  <2>2. /\ Cardinality(P) \in Nat /\ Cardinality(Q) \in Nat /\ Cardinality(T) \in Nat
        /\ P \in SUBSET Nat /\ Q \in SUBSET Nat /\ T \in SUBSET Nat
    BY <1>1
  <2>3. CASE Cardinality(P) < Cardinality(T)
    BY <2>3, <1>2 DEF EarlierSubset
  <2>4. CASE ~ (Cardinality(P) < Cardinality(T))
    <3>1. /\ Cardinality(P) <= Cardinality(Q) /\ Cardinality(Q) <= Cardinality(T)
      BY <2>1, <2>2 DEF EarlierSubset
    <3>2. /\ Cardinality(P) = Cardinality(Q) /\ Cardinality(Q) = Cardinality(T)
          /\ ~ (Cardinality(P) < Cardinality(Q)) /\ ~ (Cardinality(Q) < Cardinality(T))
      BY <2>2, <2>4, <3>1
    <3>3. PICK p \in P \ Q : \A y \in Q \ P : p < y
      BY <2>1, <3>2 DEF EarlierSubset
    <3>4. PICK r \in Q \ T : \A y \in T \ Q : r < y
      BY <2>1, <3>2 DEF EarlierSubset
    <3>5. \E x \in P \ T : \A y \in T \ P : x < y
      BY <2>2, <3>3, <3>4, EarlierTransitive
    <3> QED
      BY <3>2, <3>5, <1>2 DEF EarlierSubset
  <2> QED
    BY <2>3, <2>4
<1>5. ASSUME NEW P \in S, NEW Q \in S, P # Q
      PROVE  <<P, Q>> \in R \/ <<Q, P>> \in R
  <2>1. /\ Cardinality(P) \in Nat /\ Cardinality(Q) \in Nat
        /\ P \in SUBSET Nat /\ Q \in SUBSET Nat /\ IsFiniteSet(P) /\ IsFiniteSet(Q)
    BY <1>1
  <2>2. CASE Cardinality(P) # Cardinality(Q)
    <3>1. Cardinality(P) < Cardinality(Q) \/ Cardinality(Q) < Cardinality(P)
      BY <2>1, <2>2
    <3> QED
      BY <3>1, <1>2 DEF EarlierSubset
  <2>3. CASE Cardinality(P) = Cardinality(Q)
    <3>1. \/ \E x \in P \ Q : \A y \in Q \ P : x < y
          \/ \E x \in Q \ P : \A y \in P \ Q : x < y
      BY <1>5, <2>1, <2>3, EarlierTotal
    <3> QED
      BY <2>3, <3>1, <1>2 DEF EarlierSubset
  <2> QED
    BY <2>2, <2>3
<1>6. Orders(R, S)
  BY <1>3, <1>4, <1>5 DEF Orders
<1> QED
  BY <1>6 DEF R

\* every choice of lines is among the combinations
LEMMA CombinationsComplete ==
    ASSUME NEW v \in Seq(Nat)
    PROVE  /\ Combinations(v) \in Seq(Seq(Nat))
           /\ \A more \in SUBSET LinesOf(v) : more # {} =>
                 \E k \in DOMAIN Combinations(v) : LinesOf(Combinations(v)[k]) = more
<1> DEFINE S == (SUBSET DOMAIN v) \ {{}}
           R == {w \in S \X S : EarlierSubset(w[1], w[2])}
           rank(P) == Cardinality({Q \in S : EarlierSubset(Q, P)})
           chosen(k) == CHOOSE P \in S : rank(P) = k - 1
<1>1. DOMAIN v \in SUBSET Nat /\ IsFiniteSet(DOMAIN v)
  BY Positions
<1>2. IsFiniteSet(S)
  <2>1. IsFiniteSet(SUBSET DOMAIN v)
    BY <1>1, FS_SUBSET
  <2>2. S \in SUBSET (SUBSET DOMAIN v)
    OBVIOUS
  <2> HIDE DEF S
  <2> QED
    BY <2>1, <2>2, FS_Subset
<1>3. \A P \in S : P \in SUBSET DOMAIN v
  OBVIOUS
<1>4. \A P : P \in SUBSET DOMAIN v /\ P # {} => P \in S
  OBVIOUS
<1>5. Combinations(v) = [k \in 1 .. Cardinality(S) |-> At(v, chosen(k))]
  BY DEF Combinations
<1> HIDE DEF S
<1>6. \A P \in S : rank(P) = Cardinality(Before(R, S, P))
  <2>1. \A P \in S : Before(R, S, P) = {Q \in S : EarlierSubset(Q, P)}
    BY DEF Before
  <2> QED
    BY <2>1
<1>7. Numbered(R, S)
  <2>1. S \in SUBSET (SUBSET DOMAIN v)
    BY <1>3
  <2>2. Orders(R, S)
    BY <1>1, <2>1, EarlierOrders
  <2> HIDE DEF R
  <2> QED
    BY <1>2, <2>2, Ranked
<1> HIDE DEF R, rank
<1>8. /\ Cardinality(S) \in Nat
      /\ \A P \in S : rank(P) \in Nat /\ rank(P) + 1 \in 1 .. Cardinality(S)
      /\ \A P, Q \in S : rank(P) = rank(Q) => P = Q
      /\ \A k \in 1 .. Cardinality(S) : \E P \in S : rank(P) = k - 1
  BY <1>6, <1>7 DEF Numbered
<1>9. \A k \in 1 .. Cardinality(S) : chosen(k) \in S /\ rank(chosen(k)) = k - 1
  BY <1>8
<1> HIDE DEF chosen
<1>10. \A P \in S : \E k \in 1 .. Cardinality(S) : chosen(k) = P
  <2> SUFFICES ASSUME NEW P \in S PROVE \E k \in 1 .. Cardinality(S) : chosen(k) = P
    OBVIOUS
  <2>1. PICK k \in 1 .. Cardinality(S) : k = rank(P) + 1
    BY <1>8
  <2>2. rank(P) = k - 1
    BY <2>1, <1>8
  <2> QED
    BY <2>2, <1>8, <1>9
<1>11. \A k \in 1 .. Cardinality(S) : At(v, chosen(k)) \in Seq(Nat)
  BY <1>3, <1>9, AtLines
<1>12. Combinations(v) \in [1 .. Cardinality(S) -> Seq(Nat)]
  BY <1>5, <1>11
<1>13. ASSUME NEW more \in SUBSET LinesOf(v), more # {}
       PROVE  \E k \in DOMAIN Combinations(v) : LinesOf(Combinations(v)[k]) = more
  <2> DEFINE P == {p \in DOMAIN v : v[p] \in more}
  <2>1. P \in SUBSET DOMAIN v /\ P # {} /\ more = {v[p] : p \in P}
    BY <1>13 DEF LinesOf
  <2> HIDE DEF P
  <2>2. PICK k \in 1 .. Cardinality(S) : chosen(k) = P
    BY <1>4, <1>10, <2>1
  <2>3. k \in DOMAIN Combinations(v) /\ Combinations(v)[k] = At(v, P)
    BY <1>5, <2>2
  <2>4. LinesOf(At(v, P)) = {v[p] : p \in P}
    BY <2>1, AtLines
  <2> QED
    BY <2>1, <2>3, <2>4
<1>14. Combinations(v) \in Seq(Seq(Nat))
  BY <1>8, <1>12, IsASeq
<1> QED
  BY <1>13, <1>14

\* what is queued for a journey found with some lines excluded
LEMMA WithExcludedComplete ==
    ASSUME NEW v \in Seq(Nat), NEW c \in Seq(Nat)
    PROVE  /\ WithExcluded(v, c) \in Seq(Seq(Nat))
           /\ \A more \in SUBSET LinesOf(v) : more # {} =>
                 \E k \in DOMAIN WithExcluded(v, c) :
                    LinesOf(WithExcluded(v, c)[k]) = LinesOf(c) \cup more
<1>1. PICK all : all = Combinations(v)
  OBVIOUS
<1>2. /\ all \in Seq(Seq(Nat))
      /\ \A more \in SUBSET LinesOf(v) : more # {} =>
            \E k \in DOMAIN all : LinesOf(all[k]) = more
  BY <1>1, CombinationsComplete
<1>3. WithExcluded(v, c) = [k \in DOMAIN all |-> SortedLines(all[k] \o c)]
  BY <1>1 DEF WithExcluded
<1>4. ASSUME NEW k \in DOMAIN all
      PROVE  /\ SortedLines(all[k] \o c) \in Seq(Nat)
             /\ LinesOf(SortedLines(all[k] \o c)) = LinesOf(c) \cup LinesOf(all[k])
  <2>1. all[k] \in Seq(Nat)
    BY <1>2
  <2>2. PICK a \in Seq(Nat) : a = all[k]
    BY <2>1
  <2>3. /\ a \o c \in Seq(Nat)
        /\ Len(a) \in Nat /\ Len(c) \in Nat /\ Len(a \o c) = Len(a) + Len(c)
        /\ \A l \in 1 .. Len(a) + Len(c) :
              (a \o c)[l] = IF l <= Len(a) THEN a[l] ELSE c[l - Len(a)]
    BY ConcatProperties
  <2>4. LinesOf(a \o c) = LinesOf(c) \cup LinesOf(a)
    <3>1. /\ DOMAIN a = 1 .. Len(a) /\ DOMAIN c = 1 .. Len(c)
          /\ DOMAIN (a \o c) = 1 .. Len(a) + Len(c)
      BY <2>3
    <3>2. ASSUME NEW l \in 1 .. Len(a) + Len(c)
          PROVE  \/ \E m \in 1 .. Len(a) : (a \o c)[l] = a[m]
                 \/ \E m \in 1 .. Len(c) : (a \o c)[l] = c[m]
      <4>1. CASE l <= Len(a)
        BY <2>3, <4>1
      <4>2. CASE ~ (l <= Len(a))
        <5>1. l - Len(a) \in 1 .. Len(c)
          BY <2>3, <4>2
        <5> QED
          BY <2>3, <4>2, <5>1
      <4> QED
        BY <4>1, <4>2
    <3>3. ASSUME NEW m \in 1 .. Len(a)
          PROVE  \E l \in 1 .. Len(a) + Len(c) : (a \o c)[l] = a[m]
      <4>1. m \in 1 .. Len(a) + Len(c) /\ m <= Len(a)
        BY <2>3
      <4> QED
        BY <2>3, <4>1
    <3>4. ASSUME NEW m \in 1 .. Len(c)
          PROVE  \E l \in 1 .. Len(a) + Len(c) : (a \o c)[l] = c[m]
      <4>1. PICK l \in 1 .. Len(a) + Len(c) : l = Len(a) + m
        BY <2>3
      <4>2. ~ (l <= Len(a)) /\ l - Len(a) = m
        BY <2>3, <4>1
      <4> QED
        BY <2>3, <4>2
    <3>5. /\ LinesOf(a \o c) = {(a \o c)[l] : l \in 1 .. Len(a) + Len(c)}
          /\ LinesOf(a) = {a[l] : l \in 1 .. Len(a)}
          /\ LinesOf(c) = {c[l] : l \in 1 .. Len(c)}
      BY <3>1 DEF LinesOf
    <3> QED
      BY <3>2, <3>3, <3>4, <3>5
  <2> QED
    BY <2>2, <2>3, <2>4, SortedKeeps
<1>5. WithExcluded(v, c) \in [1 .. Len(all) -> Seq(Nat)] /\ Len(all) \in Nat
  BY <1>2, <1>3, <1>4
<1>6. WithExcluded(v, c) \in Seq(Seq(Nat))
  <2>1. PICK n \in Nat : n = Len(all)
    BY <1>5
  <2>2. WithExcluded(v, c) \in [1 .. n -> Seq(Nat)]
    BY <1>5, <2>1
  <2> QED
    BY <2>2, IsASeq
<1>7. ASSUME NEW more \in SUBSET LinesOf(v), more # {}
      PROVE  \E k \in DOMAIN WithExcluded(v, c) :
                LinesOf(WithExcluded(v, c)[k]) = LinesOf(c) \cup more
  <2>1. PICK k \in DOMAIN all : LinesOf(all[k]) = more
    BY <1>2, <1>7
  <2> QED
    BY <1>3, <1>4, <2>1
<1> QED
  BY <1>6, <1>7

-----------------------------------------------------------------------------
Asked == offer \in Offers /\ q \in Request

LEMMA OfferedJourney ==
    ASSUME Asked, NEW j \in offer
    PROVE  /\ j \in Journey /\ j.lines \in Seq(Nat)
           /\ j.dep \in Nat /\ j.arr \in Nat /\ j.dep <= j.arr
           /\ j # NoJourney
<1>1. j \in Journey /\ j.dep <= j.arr
  BY OffersAssumption DEF Asked
<1>2. j.lines \in Seq(Nat) /\ j.dep \in Nat /\ j.arr \in Nat
  BY <1>1 DEF Journey
<1>3. j # NoJourney
  BY <1>1, <1>2 DEF NoJourney
<1> QED
  BY <1>1, <1>2, <1>3

-----------------------------------------------------------------------------
(***************************************************************************)
(* The invariant of the loop.                                              *)
(***************************************************************************)
\* queued and not worked off yet
Pending(c) == \E k \in i .. Len(allCombinations) : allCombinations[k] = c

QueueType ==
    /\ Asked
    /\ pc \in {"begin", "loop", "done", "failed"}
    /\ i \in Nat \ {0}
    /\ allCombinations \in Seq(Seq(Nat))
    /\ alternatives \in Seq(Journey) /\ excluded \in Seq(Seq(Nat))
    /\ Len(excluded) = Len(alternatives)
    /\ calls \in Seq(SUBSET Nat)
    /\ alternativeSequence \in Nat /\ alternativesCalculatedCount \in Nat
    /\ pc = "begin" => i = 1 /\ alternatives = <<>> /\ calls = <<>>
    /\ pc = "done" => i > Len(allCombinations)

\* the lines excluded for a reported journey were excluded in a calculation, and
\* whatever lines of it are excluded as well, the combination has been considered
Considered ==
    pc \in {"loop", "done"} =>
        \A k \in DOMAIN alternatives :
            /\ Covered(LinesOf(excluded[k]))
            /\ \A more \in SUBSET LinesOf(alternatives[k].lines) : more # {} =>
                  \E c \in alreadyCalculated : LinesOf(c) = LinesOf(excluded[k]) \cup more

\* what has been considered is covered, unless it waits or a bound stops it
NothingLost ==
    pc \in {"loop", "done"} /\ MayCalculate =>
        \A c \in alreadyCalculated : Covered(LinesOf(c)) \/ Pending(c)

QInv == QueueType /\ Considered /\ NothingLost

LEMMA InitQInv == Init => QInv
<1> SUFFICES ASSUME Init PROVE QInv
  OBVIOUS
<1>1. QueueType
  <2>1. Asked
    BY RequestsAssumption DEF Init, Asked
  <2> QED
    BY <2>1 DEF Init, QueueType
<1>2. Considered /\ NothingLost
  BY DEF Init, Considered, NothingLost
<1> QED
  BY <1>1, <1>2 DEF QInv

\* the calls made and the failures noted stay
LEMMA CoveredKept ==
    ASSUME \A n \in DOMAIN calls : n \in DOMAIN calls' /\ calls'[n] = calls[n],
           failedCombinations \subseteq failedCombinations', NEW choice, Covered(choice)
    PROVE  Covered(choice)'
BY DEF Covered

\* one iteration adds the lines it excludes to the calls
LEMMA CallMade ==
    ASSUME QueueType, NEW j, Calculation(j), NEW e, e = allCombinations[i]
    PROVE  /\ e \in Seq(Nat)
           /\ calls' \in Seq(SUBSET Nat) /\ Len(calls) \in Nat /\ Len(calls') = Len(calls) + 1
           /\ \A n \in DOMAIN calls : n \in DOMAIN calls' /\ calls'[n] = calls[n]
           /\ Covered(LinesOf(e))'
<1>1. /\ i \in 1 .. Len(allCombinations) /\ allCombinations \in Seq(Seq(Nat))
      /\ calls \in Seq(SUBSET Nat) /\ calls' = Append(calls, LinesOf(e))
  BY DEF QueueType, Calculation
<1>2. e \in Seq(Nat)
  BY <1>1, ElementOfSeq
<1>3. LinesOf(e) \in SUBSET Nat
  <2>1. \A n \in DOMAIN e : e[n] \in Nat
    BY <1>2, ElementOfSeq
  <2> QED
    BY <2>1 DEF LinesOf
<1>4. PICK x \in SUBSET Nat : x = LinesOf(e)
  BY <1>3
<1>5. /\ calls' \in Seq(SUBSET Nat) /\ Len(calls) \in Nat /\ Len(calls') = Len(calls) + 1
      /\ \A n \in DOMAIN calls : n \in DOMAIN calls' /\ calls'[n] = calls[n]
      /\ Len(calls) + 1 \in DOMAIN calls' /\ calls'[Len(calls) + 1] = x
  BY <1>1, <1>4
<1>6. Covered(LinesOf(e))'
  BY <1>4, <1>5 DEF Covered
<1> QED
  BY <1>2, <1>5, <1>6

\* the first calculation: everything considered waits
LEMMA FirstQInv ==
    ASSUME QInv, FirstCalculation
    PROVE  QInv'
<1>1. QueueType /\ pc = "begin" /\ i = 1 /\ calls = <<>>
  BY DEF QInv, QueueType, FirstCalculation
<1>2. PICK j \in offer :
         /\ alternatives' = <<j>>
         /\ allCombinations' = WithExcluded(j.lines, <<>>)
         /\ alreadyCalculated' = LinesOf(WithExcluded(j.lines, <<>>))
  BY DEF FirstCalculation
<1>3. /\ excluded' = <<(<<>>)>> /\ alternativeSequence' = alternativeSequence + 1
      /\ alternativesCalculatedCount' = alternativesCalculatedCount + 1
      /\ pc' = "loop" /\ calls' = Append(calls, {}) /\ UNCHANGED <<offer, q, i>>
  BY DEF FirstCalculation
<1>4. Asked /\ j \in Journey /\ j.lines \in Seq(Nat)
  BY <1>1, OfferedJourney DEF QueueType
<1>5. /\ calls' \in Seq(SUBSET Nat)
      /\ 1 \in DOMAIN calls' /\ calls'[1] = {}
  BY <1>1, <1>3
<1>6. PICK new : new = WithExcluded(j.lines, <<>>)
  OBVIOUS
<1>7. /\ new \in Seq(Seq(Nat))
      /\ \A more \in SUBSET LinesOf(j.lines) : more # {} =>
            \E k \in DOMAIN new : LinesOf(new[k]) = LinesOf(<<>>) \cup more
  <2>1. PICK none \in Seq(Nat) : none = <<>>
    BY EmptySeq
  <2>2. PICK lines \in Seq(Nat) : lines = j.lines
    BY <1>4
  <2>3. /\ WithExcluded(lines, none) \in Seq(Seq(Nat))
        /\ \A more \in SUBSET LinesOf(lines) : more # {} =>
              \E k \in DOMAIN WithExcluded(lines, none) :
                 LinesOf(WithExcluded(lines, none)[k]) = LinesOf(none) \cup more
    BY WithExcludedComplete
  <2> QED
    BY <1>6, <2>1, <2>2, <2>3
<1>8. QueueType'
  <2>1. /\ alternatives' \in Seq(Journey) /\ excluded' \in Seq(Seq(Nat))
        /\ Len(alternatives') = 1 /\ Len(excluded') = 1
    BY <1>2, <1>3, <1>4
  <2>2. Asked'
    BY <1>3, <1>4 DEF Asked
  <2> QED
    BY <1>1, <1>2, <1>3, <1>5, <1>6, <1>7, <2>1, <2>2 DEF QueueType
<1>10. LinesOf(<<>>) = {}
  BY DEF LinesOf
<1>11. Considered'
  <2>1. /\ DOMAIN alternatives' = {1} /\ alternatives'[1] = j /\ excluded'[1] = <<>>
    BY <1>2, <1>3
  <2>2. Covered({})'
    BY <1>5 DEF Covered
  <2>3. ASSUME NEW more \in SUBSET LinesOf(j.lines), more # {}
        PROVE  \E c \in alreadyCalculated' : LinesOf(c) = {} \cup more
    <3>1. PICK k \in DOMAIN new : LinesOf(new[k]) = {} \cup more
      BY <1>7, <1>10, <2>3
    <3>2. new[k] \in alreadyCalculated'
      BY <1>2, <1>6 DEF LinesOf
    <3> QED
      BY <3>1, <3>2
  <2>4. \A k \in DOMAIN alternatives' : k = 1
    BY <2>1
  <2> QED
    BY <1>10, <2>1, <2>2, <2>3, <2>4 DEF Considered
<1>12. NothingLost'
  <2> SUFFICES ASSUME NEW c \in alreadyCalculated' PROVE Pending(c)'
    BY DEF NothingLost
  <2>1. PICK k \in DOMAIN new : c = new[k]
    BY <1>2, <1>6 DEF LinesOf
  <2>2. k \in 1 .. Len(new)
    BY <1>7, <2>1
  <2> QED
    BY <1>1, <1>2, <1>3, <1>6, <2>1, <2>2 DEF Pending
<1> QED
  BY <1>8, <1>11, <1>12 DEF QInv

\* after an iteration, which covers its own combination, what waited still waits
\* or is the combination itself
LEMMA StillAccounted ==
    ASSUME QueueType, NEW j, Calculation(j),
           failedCombinations \subseteq failedCombinations',
           NEW e, e = allCombinations[i], Covered(LinesOf(e))',
           Len(allCombinations') \in Nat, Len(allCombinations) <= Len(allCombinations'),
           \A k \in 1 .. Len(allCombinations) : allCombinations'[k] = allCombinations[k],
           NEW c, Covered(LinesOf(c)) \/ Pending(c)
    PROVE  Covered(LinesOf(c))' \/ Pending(c)'
<1>1. i \in Nat /\ i' = i + 1 /\ Len(allCombinations) \in Nat
  BY DEF QueueType, Calculation
<1>2. CASE Covered(LinesOf(c))
  BY <1>2, CallMade, CoveredKept
<1>3. CASE Pending(c)
  <2>1. PICK k \in i .. Len(allCombinations) : allCombinations[k] = c
    BY <1>3 DEF Pending
  <2>2. CASE k = i
    BY <2>1, <2>2
  <2>3. CASE k # i
    <3>1. k \in i + 1 .. Len(allCombinations') /\ k \in 1 .. Len(allCombinations)
      BY <1>1, <2>1, <2>3
    <3> QED
      BY <1>1, <2>1, <3>1 DEF Pending
  <2> QED
    BY <2>2, <2>3
<1> QED
  BY <1>2, <1>3

\* an iteration that reports nothing
LEMMA NothingFoundQInv ==
    ASSUME QInv, NEW j, Calculation(j),
           UNCHANGED <<allCombinations, alreadyCalculated, alternatives,
                       excluded, alternativeSequence>>,
           failedCombinations \subseteq failedCombinations'
    PROVE  QInv'
<1>1. QueueType /\ Considered /\ NothingLost
  BY DEF QInv
<1>2. /\ pc = "loop" /\ i <= Len(allCombinations) /\ MayCalculate
      /\ i' = i + 1 /\ alternativesCalculatedCount' = alternativesCalculatedCount + 1
      /\ UNCHANGED <<offer, q, pc>>
  BY DEF Calculation
<1>3. PICK e : e = allCombinations[i]
  OBVIOUS
<1>4. /\ calls' \in Seq(SUBSET Nat) /\ Covered(LinesOf(e))'
      /\ \A n \in DOMAIN calls : n \in DOMAIN calls' /\ calls'[n] = calls[n]
  BY <1>1, <1>3, CallMade
<1>6. QueueType'
  <2>1. Asked'
    BY <1>1, <1>2 DEF QueueType, Asked
  <2>2. i' \in Nat /\ alternativesCalculatedCount' \in Nat
    BY <1>1, <1>2 DEF QueueType
  <2> QED
    BY <1>1, <1>2, <1>4, <2>1, <2>2 DEF QueueType
<1>8. Considered'
  <2> SUFFICES ASSUME NEW k \in DOMAIN alternatives
               PROVE  /\ Covered(LinesOf(excluded[k]))'
                      /\ \A more \in SUBSET LinesOf(alternatives[k].lines) : more # {} =>
                            \E c \in alreadyCalculated : LinesOf(c) = LinesOf(excluded[k]) \cup more
    BY DEF Considered
  <2>1. PICK x : x = excluded[k]
    OBVIOUS
  <2>2. /\ Covered(LinesOf(x))
        /\ \A more \in SUBSET LinesOf(alternatives[k].lines) : more # {} =>
              \E c \in alreadyCalculated : LinesOf(c) = LinesOf(excluded[k]) \cup more
    BY <1>1, <1>2, <2>1 DEF Considered
  <2>3. Covered(LinesOf(x))'
    BY <1>4, <2>2, CoveredKept
  <2>4. x = excluded'[k]
    BY <2>1
  <2> QED
    BY <2>2, <2>3, <2>4
<1>9. NothingLost'
  <2> SUFFICES ASSUME NEW c \in alreadyCalculated PROVE Covered(LinesOf(c))' \/ Pending(c)'
    BY DEF NothingLost
  <2>1. Covered(LinesOf(c)) \/ Pending(c)
    BY <1>1, <1>2 DEF NothingLost
  <2>2. Len(allCombinations) \in Nat
    BY <1>1 DEF QueueType
  <2> QED
    BY <1>1, <1>2, <1>3, <1>4, <2>1, <2>2, StillAccounted
<1> QED
  BY <1>6, <1>8, <1>9 DEF QInv

\* an iteration that reports a journey: what it adds waits, holds a failed
\* combination or has been met
LEMMA NewAlternativeQInv ==
    ASSUME QInv, NewAlternative
    PROVE  QInv'
<1>1. QueueType /\ Considered /\ NothingLost
  BY DEF QInv
<1>2. PICK j \in offer : \E new :
         /\ IsNew(j) /\ Calculation(j)
         /\ alternatives' = Append(alternatives, j)
         /\ new = WithExcluded(j.lines, allCombinations[i])
         /\ allCombinations' = allCombinations \o
               At(new, {k \in NotCalculated(new) : ~ MatchesFailed(new[k])})
         /\ alreadyCalculated' = alreadyCalculated \cup LinesOf(new)
  BY DEF NewAlternative
<1>a. PICK new :
         /\ new = WithExcluded(j.lines, allCombinations[i])
         /\ allCombinations' = allCombinations \o
               At(new, {k \in NotCalculated(new) : ~ MatchesFailed(new[k])})
         /\ alreadyCalculated' = alreadyCalculated \cup LinesOf(new)
  BY <1>2
<1>3. /\ excluded' = Append(excluded, allCombinations[i])
      /\ alternativeSequence' = alternativeSequence + 1
      /\ UNCHANGED failedCombinations
  BY DEF NewAlternative
<1>4. /\ pc = "loop" /\ i <= Len(allCombinations) /\ MayCalculate
      /\ i' = i + 1 /\ alternativesCalculatedCount' = alternativesCalculatedCount + 1
      /\ UNCHANGED <<offer, q, pc>>
  BY <1>2 DEF Calculation
<1>5. PICK e : e = allCombinations[i]
  OBVIOUS
<1>6. /\ Asked /\ i \in Nat \ {0} /\ allCombinations \in Seq(Seq(Nat)) /\ Len(allCombinations) \in Nat
      /\ alternatives \in Seq(Journey) /\ excluded \in Seq(Seq(Nat))
      /\ Len(excluded) = Len(alternatives) /\ Len(alternatives) \in Nat
      /\ alternativeSequence \in Nat /\ alternativesCalculatedCount \in Nat
  BY <1>1 DEF QueueType
<1>7. /\ e \in Seq(Nat)
      /\ calls' \in Seq(SUBSET Nat) /\ Covered(LinesOf(e))'
      /\ \A n \in DOMAIN calls : n \in DOMAIN calls' /\ calls'[n] = calls[n]
  BY <1>1, <1>2, <1>5, CallMade
<1>9. j \in Journey /\ j.lines \in Seq(Nat)
  BY <1>6, OfferedJourney
<1>11. /\ new \in Seq(Seq(Nat))
       /\ \A more \in SUBSET LinesOf(j.lines) : more # {} =>
             \E k \in DOMAIN new : LinesOf(new[k]) = LinesOf(e) \cup more
  <2>1. PICK lines \in Seq(Nat) : lines = j.lines
    BY <1>9
  <2>2. /\ WithExcluded(lines, e) \in Seq(Seq(Nat))
        /\ \A more \in SUBSET LinesOf(lines) : more # {} =>
              \E k \in DOMAIN WithExcluded(lines, e) :
                 LinesOf(WithExcluded(lines, e)[k]) = LinesOf(e) \cup more
    BY <1>7, WithExcludedComplete
  <2>3. new = WithExcluded(lines, e)
    BY <1>a, <1>5, <2>1
  <2> QED
    BY <2>1, <2>2, <2>3
<1>12. PICK P : P = {k \in NotCalculated(new) : ~ MatchesFailed(new[k])}
  OBVIOUS
<1>13. PICK added : added = At(new, P)
  OBVIOUS
<1>14. added \in Seq(Seq(Nat)) /\ LinesOf(added) = {new[p] : p \in P}
  <2>1. P \in SUBSET DOMAIN new
    BY <1>12 DEF NotCalculated
  <2> QED
    BY <1>11, <1>13, <2>1, AtLines
<1>15. allCombinations' = allCombinations \o added
  BY <1>a, <1>12, <1>13
<1>16. /\ allCombinations' \in Seq(Seq(Nat)) /\ Len(added) \in Nat
       /\ Len(allCombinations') = Len(allCombinations) + Len(added)
       /\ \A k \in 1 .. Len(allCombinations) + Len(added) :
             allCombinations'[k] = IF k <= Len(allCombinations) THEN allCombinations[k]
                                   ELSE added[k - Len(allCombinations)]
  <2>1. PICK old \in Seq(Seq(Nat)), add \in Seq(Seq(Nat)) : old = allCombinations /\ add = added
    BY <1>6, <1>14
  <2>2. /\ old \o add \in Seq(Seq(Nat)) /\ Len(add) \in Nat
        /\ Len(old \o add) = Len(old) + Len(add)
        /\ \A k \in 1 .. Len(old) + Len(add) :
              (old \o add)[k] = IF k <= Len(old) THEN old[k] ELSE add[k - Len(old)]
    BY ConcatProperties
  <2> QED
    BY <1>15, <2>1, <2>2
<1>17. /\ \A k \in 1 .. Len(allCombinations) : allCombinations'[k] = allCombinations[k]
       /\ Len(allCombinations') \in Nat /\ Len(allCombinations) <= Len(allCombinations')
  BY <1>6, <1>16
<1>18. /\ alternatives' \in Seq(Journey) /\ excluded' \in Seq(Seq(Nat))
       /\ Len(alternatives') = Len(alternatives) + 1 /\ Len(excluded') = Len(excluded) + 1
       /\ DOMAIN alternatives' = 1 .. Len(alternatives) + 1
       /\ alternatives'[Len(alternatives) + 1] = j /\ excluded'[Len(alternatives) + 1] = e
       /\ \A k \in 1 .. Len(alternatives) :
             alternatives'[k] = alternatives[k] /\ excluded'[k] = excluded[k]
  BY <1>2, <1>3, <1>5, <1>6, <1>7, <1>9
<1>19. QueueType'
  <2>1. Asked'
    BY <1>4, <1>6 DEF Asked
  <2>2. /\ i' \in Nat \ {0} /\ alternativesCalculatedCount' \in Nat
        /\ alternativeSequence' \in Nat
        /\ Len(excluded') = Len(alternatives') /\ pc' = "loop"
    BY <1>1, <1>3, <1>4, <1>6, <1>18 DEF QueueType
  <2> QED
    BY <1>7, <1>16, <1>18, <2>1, <2>2 DEF QueueType
<1>21. Considered'
  <2> SUFFICES ASSUME NEW k \in DOMAIN alternatives'
               PROVE  /\ Covered(LinesOf(excluded[k]))'
                      /\ \A more \in SUBSET LinesOf(alternatives'[k].lines) : more # {} =>
                            \E c \in alreadyCalculated' : LinesOf(c) = LinesOf(excluded'[k]) \cup more
    BY DEF Considered
  <2>1. CASE k = Len(alternatives) + 1
    <3>1. alternatives'[k] = j /\ excluded'[k] = e
      BY <1>18, <2>1
    <3>2. ASSUME NEW more \in SUBSET LinesOf(j.lines), more # {}
          PROVE  \E c \in alreadyCalculated' : LinesOf(c) = LinesOf(e) \cup more
      <4>1. PICK l \in DOMAIN new : LinesOf(new[l]) = LinesOf(e) \cup more
        BY <1>11, <3>2
      <4>2. new[l] \in alreadyCalculated'
        BY <1>a DEF LinesOf
      <4> QED
        BY <4>1, <4>2
    <3> QED
      BY <1>7, <3>1, <3>2
  <2>2. CASE k # Len(alternatives) + 1
    <3>1. /\ k \in DOMAIN alternatives
          /\ alternatives'[k] = alternatives[k] /\ excluded'[k] = excluded[k]
      <4>1. k \in 1 .. Len(alternatives)
        BY <1>6, <1>18, <2>2
      <4> QED
        BY <1>6, <1>18, <4>1
    <3>2. PICK x : x = excluded[k]
      OBVIOUS
    <3>3. /\ Covered(LinesOf(x))
          /\ \A more \in SUBSET LinesOf(alternatives[k].lines) : more # {} =>
                \E c \in alreadyCalculated : LinesOf(c) = LinesOf(x) \cup more
      BY <1>1, <1>4, <3>1, <3>2 DEF Considered
    <3>4. Covered(LinesOf(x))'
      BY <1>3, <1>7, <3>3, CoveredKept
    <3> QED
      BY <1>a, <3>1, <3>2, <3>3, <3>4
  <2> QED
    BY <2>1, <2>2
<1>22. ASSUME NEW c \in alreadyCalculated PROVE Covered(LinesOf(c))' \/ Pending(c)'
  <2>1. Covered(LinesOf(c)) \/ Pending(c)
    BY <1>1, <1>4 DEF NothingLost
  <2> QED
    BY <1>1, <1>2, <1>3, <1>5, <1>7, <1>17, <2>1, StillAccounted
<1>23. ASSUME NEW c \in LinesOf(new), c \notin alreadyCalculated
       PROVE  Covered(LinesOf(c))' \/ Pending(c)'
  <2>1. PICK l \in {k \in DOMAIN new : new[k] = c} :
           \A k \in {k \in DOMAIN new : new[k] = c} : l <= k
    <3>1. /\ {k \in DOMAIN new : new[k] = c} # {}
          /\ {k \in DOMAIN new : new[k] = c} \in SUBSET Nat
      BY <1>11 DEF LinesOf
    <3> QED
      BY <3>1, LeastOne
  <2>2. l \in NotCalculated(new) /\ new[l] = c
    <3>1. l \in DOMAIN new /\ new[l] = c /\ DOMAIN new = 1 .. Len(new) /\ Len(new) \in Nat
      BY <1>11, <2>1
    <3>2. ASSUME NEW k \in 1 .. l - 1 PROVE new[k] # new[l]
      <4>1. k \in DOMAIN new /\ ~ (l <= k)
        BY <3>1
      <4> QED
        BY <2>1, <3>1, <4>1
    <3> QED
      BY <1>23, <3>1, <3>2 DEF NotCalculated
  <2>3. CASE MatchesFailed(c)
    <3>1. PICK f \in failedCombinations : LinesOf(f) \subseteq LinesOf(c)
      BY <2>3 DEF MatchesFailed
    <3> QED
      BY <1>3, <3>1 DEF Covered
  <2>4. CASE ~ MatchesFailed(c)
    <3>1. l \in P
      BY <1>12, <2>2, <2>4
    <3>2. c \in LinesOf(added)
      BY <1>14, <2>2, <3>1
    <3>3. PICK m \in 1 .. Len(added) : added[m] = c
      BY <1>14, <3>2 DEF LinesOf
    <3>4. PICK n \in Nat, d \in Nat : /\ n = Len(allCombinations) /\ d = Len(added)
                                     /\ Len(allCombinations') = n + d
      BY <1>6, <1>16
    <3>5. PICK k \in Nat : k = n + m /\ m \in 1 .. d
      BY <3>4
    <3>6. /\ k \in 1 .. n + d /\ ~ (k <= n) /\ k - n = m /\ k \in i + 1 .. n + d
      BY <1>4, <1>6, <3>4, <3>5
    <3>7. allCombinations'[k] = c
      BY <1>16, <3>3, <3>4, <3>6
    <3> QED
      BY <1>4, <3>4, <3>6, <3>7 DEF Pending
  <2> QED
    BY <2>3, <2>4
<1>24. NothingLost'
  BY <1>a, <1>22, <1>23 DEF NothingLost
<1> QED
  BY <1>19, <1>21, <1>24 DEF QInv

LEMMA NextQInv == QInv /\ [Next]_vars => QInv'
<1> SUFFICES ASSUME QInv, [Next]_vars PROVE QInv'
  OBVIOUS
<1>1. QueueType /\ Considered /\ NothingLost
  BY DEF QInv
<1>2. CASE FirstCalculation
  BY <1>2, FirstQInv
<1>3. CASE CalculationFails
  BY <1>3, NothingFoundQInv DEF CalculationFails
<1>4. CASE NothingNew
  BY <1>4, NothingFoundQInv DEF NothingNew
<1>5. CASE NewAlternative
  BY <1>5, NewAlternativeQInv
<1>6. CASE FirstFails \/ IterationPassed \/ Report \/ UNCHANGED vars
  <2>1. /\ UNCHANGED <<offer, q, allCombinations, alreadyCalculated, failedCombinations,
                       alternatives, excluded, alternativeSequence,
                       alternativesCalculatedCount>>
        /\ UNCHANGED calls \/ (pc' = "failed" /\ calls' = Append(calls, {}))
        /\ \/ pc' = "failed" /\ i' = i
           \/ pc = "loop" /\ pc' = "loop" /\ ~ MayCalculate /\ i' = i + 1
           \/ pc = "loop" /\ pc' = "done" /\ i > Len(allCombinations) /\ i' = i
           \/ pc' = pc /\ i' = i
    BY <1>6 DEF FirstFails, IterationPassed, Report, vars
  <2>2. QueueType'
    <3>1. Asked'
      BY <1>1, <2>1 DEF QueueType, Asked
    <3>2. i' \in Nat \ {0}
      BY <1>1, <2>1 DEF QueueType
    <3>3. calls' \in Seq(SUBSET Nat)
      <4>1. calls \in Seq(SUBSET Nat) /\ {} \in SUBSET Nat
        BY <1>1 DEF QueueType
      <4>2. Append(calls, {}) \in Seq(SUBSET Nat)
        BY <4>1, AppendProperties
      <4> QED
        BY <2>1, <4>1, <4>2
    <3> QED
      BY <1>1, <2>1, <3>1, <3>2, <3>3 DEF QueueType
  <2>4. MayCalculate' <=> MayCalculate
    BY <2>1 DEF MayCalculate
  <2>5. pc' \in {"loop", "done"} => pc \in {"loop", "done"}
    BY <2>1
  <2>6. Considered'
    <3> SUFFICES ASSUME NEW k \in DOMAIN alternatives, pc \in {"loop", "done"}
                 PROVE  /\ Covered(LinesOf(excluded[k]))'
                        /\ \A more \in SUBSET LinesOf(alternatives[k].lines) : more # {} =>
                              \E c \in alreadyCalculated : LinesOf(c) = LinesOf(excluded[k]) \cup more
      BY <2>1, <2>5 DEF Considered
    <3>1. PICK x : x = excluded[k]
      OBVIOUS
    <3>2. /\ Covered(LinesOf(x))
          /\ \A more \in SUBSET LinesOf(alternatives[k].lines) : more # {} =>
                \E c \in alreadyCalculated : LinesOf(c) = LinesOf(excluded[k]) \cup more
      BY <1>1, <3>1 DEF Considered
    <3>3. Covered(LinesOf(x))' /\ x = excluded'[k]
      BY <2>1, <3>1, <3>2, CoveredKept
    <3> QED
      BY <3>2, <3>3
  <2>7. NothingLost'
    <3> SUFFICES ASSUME NEW c \in alreadyCalculated, pc' \in {"loop", "done"}, MayCalculate
                 PROVE  Covered(LinesOf(c))' \/ Pending(c)'
      BY <2>1, <2>4 DEF NothingLost
    <3>1. i' = i
      BY <2>1
    <3>2. Covered(LinesOf(c)) \/ Pending(c)
      BY <1>1, <2>5 DEF NothingLost
    <3>3. Pending(c) => Pending(c)'
      BY <2>1, <3>1 DEF Pending
    <3>4. Covered(LinesOf(c)) => Covered(LinesOf(c))'
      BY <2>1, CoveredKept
    <3> QED
      BY <3>2, <3>3, <3>4
  <2> QED
    BY <2>2, <2>6, <2>7 DEF QInv
<1> QED
  BY <1>2, <1>3, <1>4, <1>5, <1>6 DEF Next

LEMMA AllCovered == QInv => EveryChoiceTried
<1> SUFFICES ASSUME QInv, pc = "done", MayCalculate, NEW k \in DOMAIN alternatives,
                    NEW more \in SUBSET LinesOf(alternatives[k].lines)
             PROVE  Covered(LinesOf(excluded[k]) \cup more)
  BY DEF EveryChoiceTried
<1>1. QueueType /\ Considered /\ NothingLost
  BY DEF QInv
<1>2. CASE more = {}
  BY <1>1, <1>2 DEF Considered
<1>3. CASE more # {}
  <2>1. PICK c \in alreadyCalculated : LinesOf(c) = LinesOf(excluded[k]) \cup more
    BY <1>1, <1>3 DEF Considered
  <2>2. ~ Pending(c)
    BY <1>1 DEF QueueType, Pending
  <2> QED
    BY <1>1, <2>1, <2>2 DEF NothingLost
<1> QED
  BY <1>2, <1>3

LEMMA SpecQInv == Spec => []QInv
BY InitQInv, NextQInv, PTL DEF Spec

(***************************************************************************)
(* alternativesRouting: unless a bound stops it, the search excludes every *)
(* choice of lines of every journey reported in a calculation of its own,  *)
(* save those that exclude all the lines of a calculation that failed, for *)
(* every offer of journeys, every query and every way calculateSingle may  *)
(* answer.                                                                 *)
(***************************************************************************)
THEOREM ChoicesTried == Spec => []EveryChoiceTried
BY AllCovered, SpecQInv, PTL

-----------------------------------------------------------------------------
(***************************************************************************)
(* The bounds and the distinctness.                                        *)
(***************************************************************************)
\* the two counters run one ahead of what they count
CountersAhead ==
    /\ pc = "begin" => /\ alternatives = <<>> /\ calls = <<>>
                       /\ alternativeSequence = 1 /\ alternativesCalculatedCount = 1
    /\ pc \in {"loop", "done"} => /\ alternativeSequence = Len(alternatives) + 1
                                  /\ alternativesCalculatedCount = Len(calls) + 1

\* alreadyFoundLines holds the lines of what is reported
FoundReported == \A k \in DOMAIN alternatives : alternatives[k].lines \in foundLines

IInv == CountersAhead /\ FoundReported /\ ReportedOnce /\ BoundsKept

LEMMA InitIInv == Init => IInv
BY DEF Init, IInv, CountersAhead, FoundReported, ReportedOnce, BoundsKept

\* the first journey: nothing to compare it with
LEMMA FirstIInv ==
    ASSUME QueueType, IInv, FirstCalculation
    PROVE  IInv'
<1>1. CountersAhead /\ pc = "begin" /\ Asked
  BY DEF IInv, FirstCalculation, QueueType
<1>2. PICK j \in offer : alternatives' = <<j>> /\ foundLines' = {j.lines}
  BY DEF FirstCalculation
<1>3. /\ calls' = <<{}>> /\ alternativeSequence' = 2 /\ alternativesCalculatedCount' = 2
      /\ pc' = "loop" /\ q' = q
  BY <1>1 DEF FirstCalculation, CountersAhead
<1>4. j \in Journey
  BY <1>1, OfferedJourney
<1>5. /\ alternatives' \in Seq(Journey) /\ Len(alternatives') = 1
      /\ DOMAIN alternatives' = {1} /\ alternatives'[1] = j
  BY <1>2, <1>4
<1>6. CountersAhead'
  <2>1. Len(calls') = 1
    BY <1>3
  <2> QED
    BY <1>3, <1>5, <2>1 DEF CountersAhead
<1>7. FoundReported' /\ ReportedOnce' /\ BoundsKept'
  <2>1. Len(calls') = 1
    BY <1>3
  <2> QED
    BY <1>2, <1>3, <1>5, <2>1 DEF FoundReported, ReportedOnce, BoundsKept
<1> QED
  BY <1>6, <1>7 DEF IInv

\* an iteration that reports nothing
LEMMA CalculationIInv ==
    ASSUME QueueType, IInv, NEW j, Calculation(j),
           UNCHANGED <<foundLines, alternatives, alternativeSequence>>
    PROVE  IInv'
<1>1. /\ CountersAhead /\ FoundReported /\ ReportedOnce /\ BoundsKept
      /\ pc = "loop" /\ MayCalculate
  BY DEF IInv, Calculation
<1>2. /\ Len(calls) \in Nat /\ Len(calls') = Len(calls) + 1
      /\ alternativesCalculatedCount' = alternativesCalculatedCount + 1
      /\ UNCHANGED <<q, pc>>
  BY CallMade DEF Calculation
<1>3. q.maxAlternatives \in Nat /\ Len(calls) + 1 < q.maxAlternatives
  BY <1>1 DEF QueueType, Asked, CountersAhead, MayCalculate, Request
<1>4. CountersAhead'
  BY <1>1, <1>2 DEF CountersAhead
<1>5. FoundReported' /\ ReportedOnce'
  BY <1>1 DEF FoundReported, ReportedOnce
<1>6. BoundsKept'
  BY <1>1, <1>2, <1>3 DEF BoundsKept
<1> QED
  BY <1>4, <1>5, <1>6 DEF IInv

\* an iteration that reports a journey: its lines are not among those found
LEMMA NewAlternativeIInv ==
    ASSUME QueueType, IInv, NewAlternative
    PROVE  IInv'
<1>1. PICK j \in offer : /\ IsNew(j) /\ Calculation(j)
                         /\ alternatives' = Append(alternatives, j)
                         /\ foundLines' = foundLines \cup {j.lines}
  BY DEF NewAlternative
<1>2. /\ CountersAhead /\ FoundReported /\ ReportedOnce /\ BoundsKept
      /\ pc = "loop" /\ MayCalculate
  BY <1>1 DEF IInv, Calculation
<1>3. /\ Len(calls) \in Nat /\ Len(calls') = Len(calls) + 1
      /\ alternativesCalculatedCount' = alternativesCalculatedCount + 1
      /\ alternativeSequence' = alternativeSequence + 1
      /\ UNCHANGED <<q, pc>>
  BY <1>1, CallMade DEF Calculation, NewAlternative
<1>4. j \in Journey /\ j.lines # <<>> /\ j.lines \notin foundLines
  BY <1>1, OfferedJourney DEF QueueType, IsNew
<1>5. /\ alternatives' \in Seq(Journey)
      /\ Len(alternatives) \in Nat /\ Len(alternatives') = Len(alternatives) + 1
      /\ DOMAIN alternatives = 1 .. Len(alternatives)
      /\ DOMAIN alternatives' = 1 .. Len(alternatives) + 1
      /\ alternatives'[Len(alternatives) + 1] = j
      /\ \A k \in 1 .. Len(alternatives) : alternatives'[k] = alternatives[k]
  BY <1>1, <1>4 DEF QueueType
<1>6. /\ q.maxAlternatives \in Nat /\ q.maxValid \in Nat
      /\ Len(calls) + 1 < q.maxAlternatives /\ Len(alternatives) + 1 <= q.maxValid
  BY <1>2, <1>5 DEF QueueType, Asked, CountersAhead, MayCalculate, Request
<1>7. CountersAhead'
  BY <1>2, <1>3, <1>5 DEF CountersAhead
<1>8. FoundReported'
  BY <1>1, <1>2, <1>5 DEF FoundReported
<1>9. ReportedOnce'
  <2> SUFFICES ASSUME NEW k \in DOMAIN alternatives', NEW l \in DOMAIN alternatives', k < l
               PROVE  /\ alternatives'[l].lines # <<>>
                      /\ alternatives'[k].lines # alternatives'[l].lines
    BY DEF ReportedOnce
  <2>1. CASE l = Len(alternatives) + 1
    <3>1. k \in DOMAIN alternatives /\ alternatives'[k] = alternatives[k]
      BY <2>1, <1>5
    <3> QED
      BY <2>1, <3>1, <1>2, <1>4, <1>5 DEF FoundReported
  <2>2. CASE l # Len(alternatives) + 1
    <3>1. /\ k \in DOMAIN alternatives /\ alternatives'[k] = alternatives[k]
          /\ l \in DOMAIN alternatives /\ alternatives'[l] = alternatives[l]
      BY <2>2, <1>5
    <3> QED
      BY <3>1, <1>2 DEF ReportedOnce
  <2> QED
    BY <2>1, <2>2
<1>10. BoundsKept'
  BY <1>3, <1>5, <1>6 DEF BoundsKept
<1> QED
  BY <1>7, <1>8, <1>9, <1>10 DEF IInv

LEMMA NextIInv == QueueType /\ IInv /\ [Next]_vars => IInv'
<1> SUFFICES ASSUME QueueType, IInv, [Next]_vars PROVE IInv'
  OBVIOUS
<1>1. CountersAhead /\ FoundReported /\ ReportedOnce /\ BoundsKept
  BY DEF IInv
<1>2. CASE FirstFails
  <2>1. /\ calls' = <<{}>> /\ alternatives' = <<>> /\ pc' = "failed"
    BY <1>1, <1>2 DEF FirstFails, CountersAhead
  <2>2. CountersAhead'
    BY <2>1 DEF CountersAhead
  <2>3. FoundReported' /\ ReportedOnce' /\ BoundsKept'
    BY <2>1 DEF FoundReported, ReportedOnce, BoundsKept
  <2> QED
    BY <2>2, <2>3 DEF IInv
<1>3. CASE FirstCalculation
  BY <1>3, FirstIInv
<1>4. CASE CalculationFails
  BY <1>4, CalculationIInv DEF CalculationFails
<1>5. CASE NothingNew
  BY <1>5, CalculationIInv DEF NothingNew
<1>6. CASE NewAlternative
  BY <1>6, NewAlternativeIInv
<1>7. CASE IterationPassed \/ Report \/ UNCHANGED vars
  <2>1. /\ UNCHANGED <<q, foundLines, alternatives, alternativeSequence,
                       alternativesCalculatedCount, calls>>
        /\ pc' = pc \/ (pc = "loop" /\ pc' = "done")
    BY <1>7 DEF IterationPassed, Report, vars
  <2>2. CountersAhead'
    BY <1>1, <2>1 DEF CountersAhead
  <2>3. FoundReported' /\ ReportedOnce' /\ BoundsKept'
    BY <1>1, <2>1 DEF FoundReported, ReportedOnce, BoundsKept
  <2> QED
    BY <2>2, <2>3 DEF IInv
<1> QED
  BY <1>2, <1>3, <1>4, <1>5, <1>6, <1>7 DEF Next

LEMMA SpecIInv == Spec => []IInv
<1>1. QInv => QueueType
  BY DEF QInv
<1> QED
  BY <1>1, SpecQInv, InitIInv, NextIInv, PTL DEF Spec

(***************************************************************************)
(* alternativesRouting reports no lines twice, for every offer and query.  *)
(***************************************************************************)
THEOREM Once == Spec => []ReportedOnce
<1>1. IInv => ReportedOnce
  BY DEF IInv
<1> QED
  BY <1>1, SpecIInv, PTL

(***************************************************************************)
(* alternativesRouting keeps both bounds, whatever their values.           *)
(***************************************************************************)
THEOREM Bounded == Spec => []BoundsKept
<1>1. IInv => BoundsKept
  BY DEF IInv
<1> QED
  BY <1>1, SpecIInv, PTL
=============================================================================
