--------------------------- MODULE SelectionProofs ---------------------------
(***************************************************************************)
(* What At selects.  Positions, sets of positions and lines are numbered   *)
(* by counting what comes before: in a finite ordered set every number of  *)
(* predecessors below its size belongs to exactly one element.             *)
(***************************************************************************)
EXTENDS Selection, FiniteSetTheorems, WellFoundedInduction, TLAPS

\* a set of natural numbers has a least one
LEMMA LeastOne ==
    ASSUME NEW S \in SUBSET Nat, S # {}
    PROVE  \E m \in S : \A x \in S : m <= x
<1> DEFINE R == {p \in Nat \X Nat : p[1] < p[2]}
<1>1. IsWellFoundedOn(R, Nat)
  BY NatLessThanWellFounded, Zenon DEF OpToRel
<1>2. PICK m \in S : \A y \in S : ~ (<<y, m>> \in R)
  <2> HIDE DEF R
  <2> QED
    BY <1>1, WFMin
<1>3. \A y, z \in Nat : y < z => <<y, z>> \in R
  OBVIOUS
<1>4. \A y \in S : ~ (y < m)
  BY <1>2, <1>3
<1> QED
  BY <1>4

\* a strict total order on S
Orders(R, S) ==
    /\ \A x \in S : <<x, x>> \notin R
    /\ \A x, y, z \in S : <<x, y>> \in R /\ <<y, z>> \in R => <<x, z>> \in R
    /\ \A x, y \in S : x = y \/ <<x, y>> \in R \/ <<y, x>> \in R

Before(R, S, x) == {y \in S : <<y, x>> \in R}

\* each number of predecessors below the size is that of exactly one element
Numbered(R, S) ==
    /\ Cardinality(S) \in Nat
    /\ \A x \in S : /\ Cardinality(Before(R, S, x)) \in Nat
                    /\ Cardinality(Before(R, S, x)) + 1 \in 1 .. Cardinality(S)
    /\ \A x, y \in S : Cardinality(Before(R, S, x)) = Cardinality(Before(R, S, y)) => x = y
    /\ \A k \in 1 .. Cardinality(S) : \E x \in S : Cardinality(Before(R, S, x)) = k - 1

LEMMA Ranked ==
    ASSUME NEW S, IsFiniteSet(S), NEW R, Orders(R, S)
    PROVE  Numbered(R, S)
<1> DEFINE B(x) == Before(R, S, x)
           n == Cardinality(S)
<1>1. n \in Nat
  BY FS_CardinalityType
<1>2. \A x \in S : B(x) \in SUBSET S /\ x \notin B(x)
  BY DEF Before, Orders
<1>3. \A x \in S : /\ IsFiniteSet(B(x)) /\ Cardinality(B(x)) \in Nat
                   /\ Cardinality(B(x)) <= n /\ Cardinality(B(x)) # n
  <2> SUFFICES ASSUME NEW x \in S
               PROVE  /\ IsFiniteSet(B(x)) /\ Cardinality(B(x)) \in Nat
                      /\ Cardinality(B(x)) <= n /\ Cardinality(B(x)) # n
    OBVIOUS
  <2>1. B(x) \in SUBSET S /\ x \notin B(x)
    BY <1>2
  <2> HIDE DEF B
  <2>2. /\ IsFiniteSet(B(x)) /\ Cardinality(B(x)) <= n
        /\ n = Cardinality(B(x)) => S = B(x)
    BY <2>1, FS_Subset
  <2> QED
    BY <2>1, <2>2, FS_CardinalityType
<1>4. \A x \in S : Cardinality(B(x)) + 1 \in 1 .. n
  <2> HIDE DEF n, B
  <2> QED
    BY <1>1, <1>3
<1>5. ASSUME NEW x \in S, NEW y \in S, <<x, y>> \in R
      PROVE  Cardinality(B(x)) # Cardinality(B(y))
  <2>1. B(x) \in SUBSET B(y) /\ x \in B(y) /\ x \notin B(x)
    BY <1>2, <1>5 DEF Before, Orders
  <2> HIDE DEF B
  <2> QED
    BY <2>1, <1>3, FS_Subset
<1>6. \A x, y \in S : Cardinality(B(x)) = Cardinality(B(y)) => x = y
  BY <1>5 DEF Orders
<1> DEFINE f == [x \in S |-> Cardinality(B(x)) + 1]
<1>7. f \in Injection(S, 1 .. n)
  <2>1. f \in [S -> 1 .. n]
    BY <1>4
  <2>2. \A x, y \in S : f[x] = f[y] => x = y
    <3> SUFFICES ASSUME NEW x \in S, NEW y \in S, f[x] = f[y] PROVE x = y
      OBVIOUS
    <3>1. Cardinality(B(x)) + 1 = Cardinality(B(y)) + 1
      OBVIOUS
    <3>2. Cardinality(B(x)) \in Nat /\ Cardinality(B(y)) \in Nat
      BY <1>3
    <3> HIDE DEF B, f
    <3>3. Cardinality(B(x)) = Cardinality(B(y))
      BY <3>1, <3>2
    <3> QED
      BY <3>3, <1>6
  <2> HIDE DEF f, n
  <2> QED
    BY <2>1, <2>2 DEF Injection, IsInjective
<1>8. f \in Surjection(S, 1 .. n)
  <2>1. IsFiniteSet(1 .. n) /\ Cardinality(1 .. n) = n
    <3>1. 1 \in Int /\ n \in Int
      BY <1>1
    <3> HIDE DEF n
    <3>2. IsFiniteSet(1 .. n) /\ Cardinality(1 .. n) = IF 1 > n THEN 0 ELSE n - 1 + 1
      BY <3>1, FS_Interval, Zenon
    <3> QED
      BY <3>2, <1>1
  <2>2. Cardinality(S) = Cardinality(1 .. n)
    BY <2>1
  <2> HIDE DEF f, n
  <2> QED
    BY <1>7, <2>1, <2>2, FS_Injection
<1>9. \A k \in 1 .. n : \E x \in S : Cardinality(B(x)) = k - 1
  <2> SUFFICES ASSUME NEW k \in 1 .. n PROVE \E x \in S : Cardinality(B(x)) = k - 1
    OBVIOUS
  <2>1. PICK x \in S : f[x] = k
    <3> HIDE DEF f, n
    <3> QED
      BY <1>8 DEF Surjection
  <2>2. Cardinality(B(x)) + 1 = k
    BY <2>1
  <2>3. Cardinality(B(x)) \in Nat
    BY <1>3
  <2> HIDE DEF B
  <2> QED
    BY <2>2, <2>3
<1> QED
  BY <1>1, <1>3, <1>4, <1>6, <1>9 DEF Numbered

\* the elements of s at the positions P, all of them and no others
LEMMA AtPositions ==
    ASSUME NEW s, NEW P \in SUBSET Nat, IsFiniteSet(P)
    PROVE  /\ Cardinality(P) \in Nat
           /\ DOMAIN At(s, P) = 1 .. Cardinality(P)
           /\ \A k \in 1 .. Cardinality(P) : \E p \in P : At(s, P)[k] = s[p]
           /\ \A p \in P : \E k \in 1 .. Cardinality(P) : At(s, P)[k] = s[p]
<1> DEFINE R == {w \in P \X P : w[1] < w[2]}
           rank(p) == Cardinality({r \in P : r < p})
           chosen(k) == CHOOSE p \in P : rank(p) = k - 1
<1>1. Orders(R, P)
  BY DEF Orders
<1>2. \A p \in P : Before(R, P, p) = {r \in P : r < p}
  BY DEF Before
<1> HIDE DEF R
<1>3. /\ Cardinality(P) \in Nat
      /\ \A p \in P : rank(p) \in Nat /\ rank(p) + 1 \in 1 .. Cardinality(P)
      /\ \A p, r \in P : rank(p) = rank(r) => p = r
      /\ \A k \in 1 .. Cardinality(P) : \E p \in P : rank(p) = k - 1
  <2>1. \A p \in P : rank(p) = Cardinality(Before(R, P, p))
    BY <1>2
  <2> HIDE DEF rank
  <2>2. Numbered(R, P)
    BY <1>1, Ranked
  <2> QED
    BY <2>1, <2>2 DEF Numbered
<1>4. At(s, P) = [k \in 1 .. Cardinality(P) |-> s[chosen(k)]]
  BY DEF At
<1> HIDE DEF rank
<1>5. \A k \in 1 .. Cardinality(P) : chosen(k) \in P /\ rank(chosen(k)) = k - 1
  BY <1>3
<1> HIDE DEF chosen
<1>6. \A p \in P : \E k \in 1 .. Cardinality(P) : chosen(k) = p
  <2> SUFFICES ASSUME NEW p \in P PROVE \E k \in 1 .. Cardinality(P) : chosen(k) = p
    OBVIOUS
  <2>1. PICK k \in 1 .. Cardinality(P) : k = rank(p) + 1
    BY <1>3
  <2>2. rank(p) = k - 1
    BY <2>1, <1>3
  <2> QED
    BY <2>2, <1>3, <1>5
<1>7. \A k \in 1 .. Cardinality(P) : At(s, P)[k] = s[chosen(k)]
  BY <1>4
<1>8. \A k \in 1 .. Cardinality(P) : \E p \in P : At(s, P)[k] = s[p]
  BY <1>5, <1>7
<1>9. \A p \in P : \E k \in 1 .. Cardinality(P) : At(s, P)[k] = s[p]
  BY <1>6, <1>7
<1> QED
  BY <1>3, <1>4, <1>8, <1>9

\* the positions of a sequence
LEMMA Positions ==
    ASSUME NEW T, NEW v \in Seq(T)
    PROVE  /\ Len(v) \in Nat /\ DOMAIN v = 1 .. Len(v)
           /\ IsFiniteSet(1 .. Len(v)) /\ Cardinality(1 .. Len(v)) = Len(v)
<1>1. Len(v) \in Nat /\ DOMAIN v = 1 .. Len(v) /\ 1 \in Int /\ Len(v) \in Int
  OBVIOUS
<1>2. /\ IsFiniteSet(1 .. Len(v))
      /\ Cardinality(1 .. Len(v)) = IF 1 > Len(v) THEN 0 ELSE Len(v) - 1 + 1
  BY <1>1, FS_Interval, Zenon
<1> QED
  BY <1>1, <1>2

\* the elements of a sequence at some of its positions, as a set
LEMMA AtSelects ==
    ASSUME NEW T, NEW v \in Seq(T), NEW P \in SUBSET DOMAIN v
    PROVE  /\ At(v, P) \in Seq(T)
           /\ {At(v, P)[k] : k \in DOMAIN At(v, P)} = {v[p] : p \in P}
<1>1. /\ Len(v) \in Nat /\ DOMAIN v = 1 .. Len(v) /\ IsFiniteSet(1 .. Len(v))
      /\ v \in [1 .. Len(v) -> T]
  BY Positions
<1>2. P \in SUBSET Nat /\ IsFiniteSet(P)
  BY <1>1, FS_Subset
<1>3. /\ Cardinality(P) \in Nat
      /\ DOMAIN At(v, P) = 1 .. Cardinality(P)
      /\ \A k \in 1 .. Cardinality(P) : \E p \in P : At(v, P)[k] = v[p]
      /\ \A p \in P : \E k \in 1 .. Cardinality(P) : At(v, P)[k] = v[p]
  BY <1>2, AtPositions
<1>4. PICK a, n : a = At(v, P) /\ n = Cardinality(P)
  OBVIOUS
<1>5. /\ n \in Nat /\ DOMAIN a = 1 .. n
      /\ \A k \in 1 .. n : \E p \in P : a[k] = v[p]
      /\ \A p \in P : \E k \in 1 .. n : a[k] = v[p]
      /\ a = [k \in 1 .. n |-> a[k]]
  BY <1>3, <1>4 DEF At
<1>6. a \in [1 .. n -> T]
  BY <1>1, <1>5
<1>7. a \in Seq(T)
  BY <1>5, <1>6
<1>8. {a[k] : k \in 1 .. n} = {v[p] : p \in P}
  BY <1>5
<1> QED
  BY <1>4, <1>5, <1>7, <1>8
=============================================================================
