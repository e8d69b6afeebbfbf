---------------------------- MODULE RouteSummary ----------------------------
(***************************************************************************)
(* The handler of /v2/summary after its parameters: alternativesRouting,   *)
(* then ResultToV2SummaryResponse, which goes through the alternatives and *)
(* counts the boardings of every line.                                     *)
(***************************************************************************)
EXTENDS AlternativesRouting

VARIABLES
    processed,      \* how many alternatives the accumulator has seen
    lineSummaries,  \* its map: from lines to their count
    answer          \* what is sent: nbRoutes (-1 before) and lines

summaryVars == <<processed, lineSummaries, answer>>

NoLines == [l \in {} |-> 0]

SummaryInit ==
    /\ Init
    /\ processed = 0 /\ lineSummaries = NoLines
    /\ answer = [nbRoutes |-> -1, lines |-> NoLines]

Boardings(steps, l) == Cardinality({k \in DOMAIN steps : steps[k] = l})

\* processSingleCalculationResult: the first boarding of a line makes its
\* summary with a count of 1, every other one adds 1.
WithBoardings(summaries, steps) ==
    [l \in DOMAIN summaries \cup LinesOf(steps) |->
        (IF l \in DOMAIN summaries THEN summaries[l] ELSE 0) + Boardings(steps, l)]

\* The calculation of the alternatives.
Route == Next /\ UNCHANGED summaryVars

\* faulty: the accumulator is made anew for every alternative
ProcessAnew ==
    /\ pc = "done" /\ processed < Len(alternatives)
    /\ lineSummaries' = WithBoardings(NoLines, alternatives[processed + 1].lines)
    /\ processed' = processed + 1
    /\ UNCHANGED <<vars, answer>>

Process ==
    /\ pc = "done" /\ processed < Len(alternatives)
    /\ lineSummaries' = WithBoardings(lineSummaries, alternatives[processed + 1].lines)
    /\ processed' = processed + 1
    /\ UNCHANGED <<vars, answer>>

\* resultToJsonString
Summarise ==
    /\ pc = "done" /\ processed = Len(alternatives) /\ answer.nbRoutes = -1
    /\ answer' = [nbRoutes |-> Len(alternatives), lines |-> lineSummaries]
    /\ UNCHANGED <<vars, processed, lineSummaries>>

\* noRoutingFoundResponse: a success with no route
NothingFound ==
    /\ pc = "failed" /\ answer.nbRoutes = -1
    /\ answer' = [nbRoutes |-> 0, lines |-> NoLines]
    /\ UNCHANGED <<vars, processed, lineSummaries>>

SummaryNext == Route \/ Process \/ Summarise \/ NothingFound

SummarySpec == SummaryInit /\ [][SummaryNext]_<<vars, summaryVars>>

-----------------------------------------------------------------------------
Answered == answer.nbRoutes # -1

Using(l) == {k \in DOMAIN alternatives : l \in LinesOf(alternatives[k].lines)}

\* some alternative rides the line twice
RiddenTwice(l) == \E k \in DOMAIN alternatives : Boardings(alternatives[k].lines, l) > 1

(***************************************************************************)
(* The summary announces the alternatives there are and lists the lines    *)
(* they use.  What docs/APIv2/summaryResponse.yml:77 says of               *)
(* alternativeCount, "Number of alternatives in which this line appears",  *)
(* is true of a line exactly when no alternative rides it twice:           *)
(* processSingleCalculationResult counts boardings.                        *)
(***************************************************************************)
CountAsDocumented ==
    Answered =>
      /\ answer.nbRoutes = Len(alternatives)
      /\ DOMAIN answer.lines = {l \in UNION {LinesOf(j.lines) : j \in offer} : Using(l) # {}}
      /\ \A l \in DOMAIN answer.lines :
            answer.lines[l] = Cardinality(Using(l)) <=> ~ RiddenTwice(l)
=============================================================================
