------------------------ MODULE AlternativesRouting ------------------------
(***************************************************************************)
(* Calculator::alternativesRouting: after the best journey, calculations   *)
(* with more and more combinations of its lines excluded.                  *)
(*                                                                         *)
(* calculateSingle is abstract here (module Calculator has its detail): it *)
(* returns any journey the timetable offers that avoids the excluded lines *)
(* and respects the maximum travel time, or it fails.  It may fail though  *)
(* there is such a journey, and find one when more lines are excluded: the *)
(* limit on the first wait does that to the reverse pass (RouteDelivered). *)
(* Lines are numbers, the uids they are sorted by; a LineVector is a       *)
(* sorted sequence, in which a line ridden twice appears twice.            *)
(***************************************************************************)
EXTENDS Integers, Sequences, FiniteSets, Selection

CONSTANTS
    Offers,     \* the sets of journeys a timetable may offer
    Requests    \* the queries; maxAlternatives and maxValid are 200 and 50 in
                \* the code and small here, so that both bounds are met

Journey == [lines : Seq(Nat), dep : Nat, arr : Nat]

Request == [forward : BOOLEAN, time : Nat, maxTotal : Nat,
            maxAlternatives : Nat, maxValid : Nat]

\* getMinAlternativeMaxTravelTimeSeconds
MinMaxTravelTime == 1800

\* getAlternativesMaxAddedTravelTimeSeconds
MaxAddedTravelTime == 3600

ASSUME OffersAssumption ==
    \A offer \in Offers : \A j \in offer :
        /\ j \in Journey /\ j.dep <= j.arr
        /\ \A a, b \in DOMAIN j.lines : a <= b => j.lines[a] <= j.lines[b]

ASSUME RequestsAssumption == Requests \subseteq Request

VARIABLES
    offer,          \* the journeys the timetable offers for the query
    q,              \* parameters
    pc,             \* "begin", "loop", "done", or "failed" when the first
                    \* calculation throws
    limit,          \* maxTravelTime of alternativeParameters
    i,              \* the position in allCombinations
    allCombinations,
    alreadyCalculated,
    failedCombinations,
    foundLines,     \* alreadyFoundLines
    alternatives,   \* the journeys reported
    excluded,       \* history: the combination each of them was found with
    alternativeSequence,
    alternativesCalculatedCount,
    calls,          \* history: the lines excluded in each call of calculateSingle
    total           \* totalAlternativesCalculated

vars == <<offer, q, pc, limit, i, allCombinations, alreadyCalculated, failedCombinations,
          foundLines, alternatives, excluded, alternativeSequence,
          alternativesCalculatedCount, calls, total>>

LinesOf(v) == {v[k] : k \in DOMAIN v}

NoJourney == [lines |-> <<>>, dep |-> 1, arr |-> 0]

Init ==
    /\ offer \in Offers
    /\ q \in Requests
    /\ pc = "begin"
    /\ limit = q.maxTotal
    /\ i = 1
    /\ allCombinations = <<>> /\ alreadyCalculated = {} /\ failedCombinations = {}
    /\ foundLines = {} /\ alternatives = <<>> /\ excluded = <<>>
    /\ alternativeSequence = 1 /\ alternativesCalculatedCount = 1
    /\ calls = <<>> /\ total = 0

-----------------------------------------------------------------------------
(***************************************************************************)
(* The outcomes of calculateSingle with some lines excluded and a maximum  *)
(* travel time, which counts from the departure time, or to the arrival    *)
(* time, asked for.  NoJourney is the NoRoutingFoundException.             *)
(***************************************************************************)
Valid(j, max) ==
    IF q.forward THEN j.dep >= q.time /\ j.arr - q.time <= max
    ELSE j.arr <= q.time /\ q.time - j.dep <= max

calculateSingle(except, max) ==
    {NoJourney} \cup {j \in offer : LinesOf(j.lines) \cap except = {} /\ Valid(j, max)}

totalTravelTime(j) == j.arr - j.dep

LeastOf(a, b) == IF a <= b THEN a ELSE b

\* the ratio 1.75 is applied in floating point and truncated
MaxTravelTime(j) ==
    LET wait == IF q.forward THEN j.dep - q.time ELSE 0
        ratio == (7 * totalTravelTime(j)) \div 4 + wait
        added == totalTravelTime(j) + MaxAddedTravelTime
    IN  LeastOf(q.maxTotal, IF ratio < MinMaxTravelTime THEN MinMaxTravelTime
                            ELSE LeastOf(ratio, added))

-----------------------------------------------------------------------------
(***************************************************************************)
(* Combinations: the non-empty subsets of the positions of a vector, first *)
(* by size, then in lexicographic order.                                   *)
(***************************************************************************)
SortedLines(v) ==
    [k \in DOMAIN v |->
        v[CHOOSE p \in DOMAIN v :
            Cardinality({r \in DOMAIN v : v[r] < v[p] \/ (v[r] = v[p] /\ r < p)}) = k - 1]]

EarlierSubset(P, R) ==
    \/ Cardinality(P) < Cardinality(R)
    \/ /\ Cardinality(P) = Cardinality(R)
       /\ \E p \in P \ R : \A r \in R \ P : p < r

Combinations(v) ==
    LET subsets == (SUBSET DOMAIN v) \ {{}}
    IN  [k \in 1 .. Cardinality(subsets) |->
            At(v, CHOOSE P \in subsets :
                    Cardinality({R \in subsets : EarlierSubset(R, P)}) = k - 1)]

\* the combinations of the lines of a journey, each with those excluded for it
WithExcluded(v, combination) ==
    [k \in DOMAIN Combinations(v) |-> SortedLines(Combinations(v)[k] \o combination)]

\* faulty: one common line is taken for a match
MatchesFailedAny(combination) ==
    \E f \in failedCombinations : LinesOf(f) \cap LinesOf(combination) # {}

\* the combination excludes all that a failed one excluded
MatchesFailed(combination) ==
    \E f \in failedCombinations : LinesOf(f) \subseteq LinesOf(combination)

\* the positions of the combinations not met before
NotCalculated(new) ==
    {k \in DOMAIN new : /\ new[k] \notin alreadyCalculated
                        /\ \A l \in 1 .. k - 1 : new[l] # new[k]}

-----------------------------------------------------------------------------
\* the exception of the first calculation leaves alternativesRouting
FirstFails ==
    /\ pc = "begin"
    /\ NoJourney \in calculateSingle({}, q.maxTotal)
    /\ calls' = Append(calls, {})
    /\ pc' = "failed"
    /\ UNCHANGED <<offer, q, limit, i, allCombinations, alreadyCalculated,
                   failedCombinations, foundLines, alternatives, excluded,
                   alternativeSequence, alternativesCalculatedCount, total>>

\* the first journey, and the combinations of its lines
FirstCalculation ==
    /\ pc = "begin"
    /\ \E j \in offer :
         /\ j \in calculateSingle({}, q.maxTotal)
         /\ limit' = MaxTravelTime(j)
         /\ alternatives' = <<j>>
         /\ foundLines' = {j.lines}
         /\ allCombinations' = WithExcluded(j.lines, <<>>)
         /\ alreadyCalculated' = LinesOf(WithExcluded(j.lines, <<>>))
    /\ excluded' = <<(<<>>)>>
    /\ alternativeSequence' = alternativeSequence + 1
    /\ alternativesCalculatedCount' = alternativesCalculatedCount + 1
    /\ calls' = Append(calls, {})
    /\ pc' = "loop"
    /\ UNCHANGED <<offer, q, i, failedCombinations, total>>

\* faulty: one alternative too many
MayCalculateOneMore ==
    /\ alternativesCalculatedCount < q.maxAlternatives
    /\ alternativeSequence - 1 <= q.maxValid

MayCalculate ==
    /\ alternativesCalculatedCount < q.maxAlternatives
    /\ alternativeSequence - 1 < q.maxValid

\* one iteration that calculates; j is its result
Calculation(j) ==
    /\ pc = "loop" /\ i <= Len(allCombinations) /\ MayCalculate
    /\ j \in calculateSingle(LinesOf(allCombinations[i]), limit)
    /\ i' = i + 1
    /\ calls' = Append(calls, LinesOf(allCombinations[i]))
    /\ alternativesCalculatedCount' = alternativesCalculatedCount + 1
    /\ UNCHANGED <<offer, q, pc, limit, total>>

CalculationFails ==
    /\ Calculation(NoJourney)
    /\ failedCombinations' = failedCombinations \cup {allCombinations[i]}
    /\ UNCHANGED <<allCombinations, alreadyCalculated, foundLines, alternatives,
                   excluded, alternativeSequence>>

\* faulty: lines found before are reported again
IsNewForgetful(j) == j # NoJourney /\ j.lines # <<>>

IsNew(j) == j # NoJourney /\ j.lines # <<>> /\ j.lines \notin foundLines

NothingNew ==
    /\ \E j \in offer : ~ IsNew(j) /\ Calculation(j)
    /\ UNCHANGED <<allCombinations, alreadyCalculated, failedCombinations, foundLines,
                   alternatives, excluded, alternativeSequence>>

NewAlternative ==
    /\ \E j \in offer :
         /\ IsNew(j) /\ Calculation(j)
         /\ alternatives' = Append(alternatives, j)
         /\ foundLines' = foundLines \cup {j.lines}
         /\ LET new == WithExcluded(j.lines, allCombinations[i])
            IN  /\ allCombinations' = allCombinations \o
                      At(new, {k \in NotCalculated(new) : ~ MatchesFailed(new[k])})
                /\ alreadyCalculated' = alreadyCalculated \cup LinesOf(new)
    /\ excluded' = Append(excluded, allCombinations[i])
    /\ alternativeSequence' = alternativeSequence + 1
    /\ UNCHANGED failedCombinations

\* the iterations after a bound is reached do nothing
IterationPassed ==
    /\ pc = "loop" /\ i <= Len(allCombinations) /\ ~ MayCalculate
    /\ i' = i + 1
    /\ UNCHANGED <<offer, q, pc, limit, allCombinations, alreadyCalculated,
                   failedCombinations, foundLines, alternatives, excluded,
                   alternativeSequence, alternativesCalculatedCount, calls, total>>

Report ==
    /\ pc = "loop" /\ i > Len(allCombinations)
    /\ total' = alternativesCalculatedCount
    /\ pc' = "done"
    /\ UNCHANGED <<offer, q, limit, i, allCombinations, alreadyCalculated,
                   failedCombinations, foundLines, alternatives, excluded,
                   alternativeSequence, alternativesCalculatedCount, calls>>

Next ==
    \/ FirstFails \/ FirstCalculation
    \/ CalculationFails \/ NothingNew \/ NewAlternative \/ IterationPassed
    \/ Report

Spec == Init /\ [][Next]_vars

-----------------------------------------------------------------------------
\* a choice of lines was excluded in a calculation, or it excludes all the
\* lines of a calculation that failed
Covered(choice) ==
    \/ \E n \in DOMAIN calls : calls[n] = choice
    \/ \E f \in failedCombinations : LinesOf(f) \subseteq choice

(***************************************************************************)
(* alternativesRouting: when no bound stopped the search, every choice of  *)
(* lines of every journey reported was excluded in a calculation, together *)
(* with those excluded for the journey itself.  The one exception are the  *)
(* choices that exclude all the lines of a calculation that failed: what   *)
(* was met before or stands later in a queue that grows while it is worked *)
(* off is not forgotten, and what is skipped once needs no second look.    *)
(***************************************************************************)
EveryChoiceTried ==
    pc = "done" /\ MayCalculate =>
        \A k \in DOMAIN alternatives :
            \A more \in SUBSET LinesOf(alternatives[k].lines) :
                Covered(LinesOf(excluded[k]) \cup more)

(***************************************************************************)
(* alternativesRouting: no two journeys reported use the same lines, and   *)
(* only the first may use none, however often a combination leads back to  *)
(* lines found before.                                                     *)
(***************************************************************************)
ReportedOnce ==
    \A k, l \in DOMAIN alternatives :
        k < l => /\ alternatives[l].lines # <<>>
                 /\ alternatives[k].lines # alternatives[l].lines

(***************************************************************************)
(* parameters.hpp:194 and 198: the search stops before maxAlternatives     *)
(* calculations and reports no more than maxValid journeys, although the   *)
(* counters start at 1 and are tested one off.                             *)
(***************************************************************************)
BoundsKept ==
    /\ Len(alternatives) > 1 => Len(alternatives) <= q.maxValid
    /\ Len(calls) > 1 => Len(calls) < q.maxAlternatives
=============================================================================
