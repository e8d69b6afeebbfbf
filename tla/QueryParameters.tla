--------------------------- MODULE QueryParameters ---------------------------
(***************************************************************************)
(* RouteParameters::createRouteODParameter and                             *)
(* AccessibilityParameters::createAccessibilityParameter: the list of      *)
(* (name, text) pairs of a request is read twice, first for the points     *)
(* (and the alternatives flag), then by createCommonParameter, and either  *)
(* becomes the parameters of a query or a ParameterException, which        *)
(* getResponseCode turns into the error code of the answer.                *)
(*                                                                         *)
(* Texts are opaque; what the conversions of the code make of them is      *)
(* given by functions whose domains are the texts they accept.             *)
(***************************************************************************)
EXTENDS Integers, Sequences

CONSTANTS
    Texts,          \* the values of the parameters, as received
    Integer,        \* std::stoi, a function from the texts it converts
    Coordinates,    \* the points, a function from the texts that are two
                    \* numbers with a comma between
    Uuid,           \* uuidGenerator, a function from the texts that are uuids
    Scenarios,      \* the scenarios of the data, a function from uuids to
                    \* records of their lists as sets
    ParameterLists  \* the lists of pairs a request may bring

MAX_INT == 2147483647

ASSUME ConversionsAssumption ==
    /\ DOMAIN Integer \subseteq Texts /\ DOMAIN Uuid \subseteq Texts
    /\ DOMAIN Coordinates \subseteq Texts
    /\ \A text \in DOMAIN Integer : Integer[text] \in -MAX_INT .. MAX_INT

ASSUME ListsAssumption == ParameterLists \subseteq Seq([name : STRING, text : Texts])

VARIABLES
    request,    \* "route" or "accessibility"; "odTrips" is no request of
                \* the server and has no parameters to read
    parameters, \* the pairs received
    pos,        \* the pair to be read next
    pass,       \* "points", "common", "done" once there is an outcome, "over"
                \* when the parameters are handed on
    points,     \* the points read: a function from names to points
    alternatives,
    common,     \* the local variables of createCommonParameter
    outcome     \* "accepted", or the type of the exception thrown

parametersVars == <<request, parameters, pos, pass, points, alternatives, common, outcome>>

\* The points a request must have, in the order they are asked for.
PointNames(kind) == IF kind = "route" THEN <<"origin", "destination">> ELSE <<"place">>

IsPoint(kind, name) == \E k \in DOMAIN PointNames(kind) : PointNames(kind)[k] = name

INVALID(name) ==
    CASE name = "origin" -> "INVALID_ORIGIN"
      [] name = "destination" -> "INVALID_DESTINATION"
      [] name = "place" -> "INVALID_PLACE"

\* faulty: the type of the branch above, copied.
MISSINGCopied(name) == IF name = "place" THEN "MISSING_PLACE" ELSE "MISSING_ORIGIN"

MISSING(name) ==
    CASE name = "origin" -> "MISSING_ORIGIN"
      [] name = "destination" -> "MISSING_DESTINATION"
      [] name = "place" -> "MISSING_PLACE"

\* The default values; scenario is a set of at most one element.
Defaults ==
    [scenario |-> {}, time_of_trip |-> -1, forward |-> TRUE,
     min_waiting_time |-> 180, max_travel_time |-> MAX_INT,
     max_access_travel_time |-> 1200, max_egress_travel_time |-> 1200,
     max_transfer_travel_time |-> 1200, max_first_waiting_time |-> 1800]

Numeric ==
    {"time_of_trip", "min_waiting_time", "max_travel_time", "max_access_travel_time",
     "max_egress_travel_time", "max_transfer_travel_time", "max_first_waiting_time"}

\* faulty: zero is taken for a limit.
AdjustedZeroLimits(name, n) ==
    CASE name = "time_of_trip" -> IF n < 0 THEN -1 ELSE n
      [] name = "min_waiting_time" -> IF n < 0 THEN 0 ELSE n
      [] OTHER -> IF n < 0 THEN MAX_INT ELSE n

\* What the branch of a numeric parameter keeps of the number n.
Adjusted(name, n) ==
    CASE name = "time_of_trip" -> IF n < 0 THEN -1 ELSE n
      [] name = "min_waiting_time" -> IF n < 0 THEN 0 ELSE n
      [] name = "max_first_waiting_time" -> IF n <= 0 THEN -1 ELSE n
      [] OTHER -> IF n <= 0 THEN MAX_INT ELSE n

-----------------------------------------------------------------------------
ParametersInit ==
    /\ request \in {"route", "accessibility"}
    /\ parameters \in ParameterLists
    /\ pos = 1 /\ pass = "points"
    /\ points = [name \in {} |-> ""] /\ alternatives = FALSE
    /\ common = Defaults
    /\ outcome = "none"

Name == parameters[pos].name
Text == parameters[pos].text

\* The scenarios with a service in their servicesList.
Served == {u \in DOMAIN Scenarios : Scenarios[u].services # {}}

\* The texts that are the uuid of a scenario.
KnownScenario == {x \in DOMAIN Uuid : Uuid[x] \in DOMAIN Scenarios}

\* The pairs at which createCommonParameter throws.
Wrong(pair) ==
    \/ pair.name \in Numeric /\ pair.text \notin DOMAIN Integer
    \/ pair.name = "scenario_id" /\ pair.text \notin KnownScenario

Throw(type) ==
    /\ outcome' = type /\ pass' = "done"
    /\ UNCHANGED <<request, parameters, pos, points, alternatives, common>>

\* One round of the loop over the pairs for origin, destination and
\* alternatives, or for place.
ReadPoint ==
    /\ pass = "points" /\ pos <= Len(parameters)
    /\ \/ /\ IsPoint(request, Name) /\ Text \notin DOMAIN Coordinates
          /\ Throw(INVALID(Name))
       \/ /\ IsPoint(request, Name) => Text \in DOMAIN Coordinates
          /\ points' = IF IsPoint(request, Name)
                       THEN [p \in DOMAIN points \cup {Name} |->
                               IF p = Name THEN Coordinates[Text] ELSE points[p]]
                       ELSE points
          /\ alternatives' = (alternatives \/ (/\ request = "route" /\ Name = "alternatives"
                                               /\ Text \in {"true", "1"}))
          /\ pos' = pos + 1
          /\ UNCHANGED <<request, parameters, pass, common, outcome>>

\* The validation of the points, in their order, and the call of
\* createCommonParameter, which starts over with the first pair.
CheckPoints ==
    /\ pass = "points" /\ pos > Len(parameters)
    /\ \/ \E k \in DOMAIN PointNames(request) :
            /\ PointNames(request)[k] \notin DOMAIN points
            /\ \A j \in 1 .. k - 1 : PointNames(request)[j] \in DOMAIN points
            /\ Throw(MISSING(PointNames(request)[k]))
       \/ /\ \A k \in DOMAIN PointNames(request) : PointNames(request)[k] \in DOMAIN points
          /\ pass' = "common" /\ pos' = 1
          /\ UNCHANGED <<request, parameters, points, alternatives, common, outcome>>

\* faulty: a later time_type takes an earlier one back.
ReadCommonTakenBack ==
    /\ pass = "common" /\ pos <= Len(parameters)
    /\ \/ /\ Name \in Numeric /\ Text \notin DOMAIN Integer
          /\ Throw("INVALID_NUMERICAL_DATA")
       \/ /\ Name = "scenario_id" /\ Text \notin KnownScenario
          /\ Throw("INVALID_SCENARIO")
       \/ /\ ~Wrong(parameters[pos])
          /\ common' = CASE Name \in Numeric ->
                             [common EXCEPT ![Name] = Adjusted(Name, Integer[Text])]
                        [] Name = "scenario_id" -> [common EXCEPT !.scenario = {Uuid[Text]}]
                        [] Name = "time_type" -> [common EXCEPT !.forward = (Text # "1")]
                        [] OTHER -> common
          /\ pos' = pos + 1
          /\ UNCHANGED <<request, parameters, pass, points, alternatives, outcome>>

\* One round of the loop of createCommonParameter.
ReadCommon ==
    /\ pass = "common" /\ pos <= Len(parameters)
    /\ \/ /\ Name \in Numeric /\ Text \notin DOMAIN Integer
          /\ Throw("INVALID_NUMERICAL_DATA")
       \/ /\ Name = "scenario_id" /\ Text \notin KnownScenario
          /\ Throw("INVALID_SCENARIO")
       \/ /\ ~Wrong(parameters[pos])
          /\ common' = CASE Name \in Numeric ->
                             [common EXCEPT ![Name] = Adjusted(Name, Integer[Text])]
                        [] Name = "scenario_id" -> [common EXCEPT !.scenario = {Uuid[Text]}]
                        [] Name = "time_type" /\ Text = "1" -> [common EXCEPT !.forward = FALSE]
                        [] OTHER -> common
          /\ pos' = pos + 1
          /\ UNCHANGED <<request, parameters, pass, points, alternatives, outcome>>

\* faulty: the services of the scenario are not looked at.
CheckCommonAnyServices ==
    /\ pass = "common" /\ pos > Len(parameters)
    /\ Throw(IF common.scenario = {} THEN "MISSING_SCENARIO"
             ELSE IF common.time_of_trip < 0 THEN "MISSING_TIME_OF_TRIP"
             ELSE "accepted")

\* The validation at the end of createCommonParameter.
CheckCommon ==
    /\ pass = "common" /\ pos > Len(parameters)
    /\ Throw(IF common.scenario = {} THEN "MISSING_SCENARIO"
             ELSE IF common.scenario \cap Served = {} THEN "EMPTY_SCENARIO"
             ELSE IF common.time_of_trip < 0 THEN "MISSING_TIME_OF_TRIP"
             ELSE "accepted")

ParametersNext == ReadPoint \/ CheckPoints \/ ReadCommon \/ CheckCommon

\* The error code of the answer to a request whose parameters are refused.
getResponseCode(type) ==
    CASE type = "EMPTY_SCENARIO" -> "EMPTY_SCENARIO"
      [] type = "MISSING_SCENARIO" -> "MISSING_PARAM_SCENARIO"
      [] type = "MISSING_ORIGIN" -> "MISSING_PARAM_ORIGIN"
      [] type = "MISSING_DESTINATION" -> "MISSING_PARAM_DESTINATION"
      [] type = "MISSING_TIME_OF_TRIP" -> "MISSING_PARAM_TIME_OF_TRIP"
      [] type \in {"INVALID_SCENARIO", "INVALID_ORIGIN", "INVALID_DESTINATION",
                   "INVALID_NUMERICAL_DATA"} -> type
      [] OTHER -> "PARAM_ERROR_UNKNOWN"

-----------------------------------------------------------------------------
(* What a list of pairs means, without reading it pair by pair. *)

Places(n) == {k \in DOMAIN parameters : parameters[k].name = n}

Given(n) == Places(n) # {}

\* The text that counts: the last one given.
LastText(n) ==
    parameters[CHOOSE k \in Places(n) : \A j \in Places(n) : j <= k].text

\* A request is accepted exactly when every pair that its kind of query
\* reads can be read, the points, the scenario and the time are given, the
\* scenario has a service and the last time given is not negative.  The
\* order of the pairs, and what else the list holds, play no part.
AcceptedWhenComplete ==
    pass = "done" =>
      (outcome = "accepted" <=>
        /\ \A k \in DOMAIN parameters : ~Wrong(parameters[k])
        /\ \A k \in DOMAIN parameters :
              IsPoint(request, parameters[k].name) => parameters[k].text \in DOMAIN Coordinates
        /\ \A k \in DOMAIN PointNames(request) : Given(PointNames(request)[k])
        /\ Given("scenario_id") /\ Uuid[LastText("scenario_id")] \in Served
        /\ Given("time_of_trip") /\ Integer[LastText("time_of_trip")] >= 0)

\* The parameters of an accepted request are those of the last pair of each
\* name, or the defaults; only time_type and alternatives cannot be taken
\* back by a later pair.
LastPairCounts ==
    (pass = "done" /\ outcome = "accepted") =>
      /\ common.scenario = {Uuid[LastText("scenario_id")]}
      /\ \A n \in Numeric :
           common[n] = IF Given(n) THEN Adjusted(n, Integer[LastText(n)]) ELSE Defaults[n]
      /\ common.forward = (\A k \in Places("time_type") : parameters[k].text # "1")
      /\ \A k \in DOMAIN PointNames(request) :
           points[PointNames(request)[k]] = Coordinates[LastText(PointNames(request)[k])]
      /\ alternatives <=> /\ request = "route"
                          /\ \E k \in Places("alternatives") :
                               parameters[k].text \in {"true", "1"}

\* What the calculation takes for granted of an accepted request: a time
\* that is not negative, limits that are positive (an absent limit is
\* MAX_INT, or -1 for the first waiting time), a waiting time that is not
\* negative, and a scenario with a service.
CalculatorCanRely ==
    (pass = "done" /\ outcome = "accepted") =>
      /\ common.scenario # {} /\ common.scenario \subseteq Served
      /\ common.time_of_trip \in 0 .. MAX_INT
      /\ common.min_waiting_time \in 0 .. MAX_INT
      /\ common.max_first_waiting_time = -1 \/ common.max_first_waiting_time \in 1 .. MAX_INT
      /\ \A n \in {"max_travel_time", "max_access_travel_time", "max_egress_travel_time",
                   "max_transfer_travel_time"} : common[n] \in 1 .. MAX_INT

\* A refused route request is told what is wrong with it: a code that names
\* a parameter is only given when the list has a wrong pair of that name or
\* none at all, and the unknown error never.
ErrorNamesTheCause ==
    (pass = "done" /\ outcome # "accepted" /\ request = "route") =>
      LET code == getResponseCode(outcome)
          WrongPoint(n) == \E k \in Places(n) : parameters[k].text \notin DOMAIN Coordinates
      IN \/ code = "INVALID_ORIGIN" /\ WrongPoint("origin")
         \/ code = "INVALID_DESTINATION" /\ WrongPoint("destination")
         \/ code = "MISSING_PARAM_ORIGIN" /\ ~Given("origin")
         \/ code = "MISSING_PARAM_DESTINATION" /\ ~Given("destination")
         \/ /\ code = "INVALID_NUMERICAL_DATA"
            /\ \E n \in Numeric : \E k \in Places(n) : Wrong(parameters[k])
         \/ /\ code = "INVALID_SCENARIO"
            /\ \E k \in Places("scenario_id") : Wrong(parameters[k])
         \/ code = "MISSING_PARAM_SCENARIO" /\ ~Given("scenario_id")
         \/ code = "EMPTY_SCENARIO" /\ Given("scenario_id") /\ Uuid[LastText("scenario_id")] \notin Served
         \/ /\ code = "MISSING_PARAM_TIME_OF_TRIP"
            /\ Given("time_of_trip") => Integer[LastText("time_of_trip")] < 0
=============================================================================
