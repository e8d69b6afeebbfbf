------------------------------- MODULE Requests -------------------------------
(***************************************************************************)
(* From the parameters of a request to the calculations made for it: the   *)
(* handlers of /v2/route, /v2/summary and /v2/accessibility read the       *)
(* parameters, make a Calculator and let it calculate, once or again and   *)
(* again.  A calculation of OD trips starts with its parameters.           *)
(***************************************************************************)
EXTENDS OdTripsRouting

vars == <<parametersVars, resetsVars, odTripsVars>>

Init ==
    /\ \/ ParametersInit
       \/ /\ request = "odTrips" /\ parameters = <<>> /\ pos = 1 /\ pass = "over"
          /\ points = [name \in {} |-> ""] /\ alternatives = FALSE
          /\ common = Defaults /\ outcome = "accepted"
    /\ ResetsInit
    /\ OdTripsInit

ReadParameters ==
    pc = "parse" /\ ParametersNext /\ UNCHANGED <<resetsVars, odTripsVars>>

\* The parameters are refused: the answer is getResponseCode.
Refused ==
    /\ pc = "parse" /\ pass = "done" /\ outcome # "accepted"
    /\ pc' = "thrown" /\ thrown' = getResponseCode(outcome)
    /\ UNCHANGED <<parametersVars, query, scenario, euclidean, calc, resetFilters, replies, except,
                   calls, odTripsVars>>

\* The query is made of the parameters; the list is not looked at again.
Accepted ==
    /\ pc = "parse" /\ pass = "done" /\ outcome = "accepted"
    /\ query' = QueryOf
    /\ \E u \in common.scenario : scenario' = Scenarios[u]
    /\ parameters' = <<>> /\ pos' = 1 /\ points' = [name \in {} |-> ""]
    /\ alternatives' = FALSE /\ common' = Defaults
    /\ pass' = "over" /\ pc' = "call"
    /\ UNCHANGED <<request, outcome, euclidean, calc, resetFilters, replies, except, thrown,
                   calls, odTripsVars>>

CalculateNext ==
    /\ query.kind # "odTrips"
    /\ FirstCalculation \/ AlternativeCalculation \/ \E found \in BOOLEAN : Calculate(found)
    /\ UNCHANGED <<parametersVars, odTripsVars>>

OdTrip == OdTripsNext /\ UNCHANGED parametersVars

Next == ReadParameters \/ Refused \/ Accepted \/ CalculateNext \/ OdTrip

Spec == Init /\ [][Next]_vars
=============================================================================
