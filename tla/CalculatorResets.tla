-------------------------- MODULE CalculatorResets --------------------------
(***************************************************************************)
(* Calculator::reset and the calculations that follow each other on one    *)
(* Calculator: a request with alternatives calls calculateSingle again and *)
(* again, keeping the footpaths (resetAccessPaths is false) and choosing   *)
(* other lines to exclude; odTripsRouting calls it for every OD trip and   *)
(* keeps the filters after the first success (resetFilters is false).      *)
(* What a calculation computes is modelled in module Calculator; here it   *)
(* only leaves its traces in the fields of the Calculator.                 *)
(***************************************************************************)
EXTENDS GeoFilter, QueryParameters

CONSTANTS
    Trips,      \* the trips of the data: records of service, line, mode, agency
    OdQueries,  \* what OD trips are calculated with: see Query
    OdTrips,    \* the OD trips of the data, as a sequence
    MaxCalls    \* bound on the calculations of one Calculator

Query == [kind : {"route", "odTrips", "accessibility"}, alternatives : BOOLEAN,
          forward : BOOLEAN, time : Nat,
          origin : Points, destination : Points, maxAccess : Nat, maxEgress : Nat]

ASSUME QueriesAssumption ==
    \A o \in OdQueries : o \in Query /\ o.kind = "odTrips"

ASSUME MaxCallsAssumption == MaxCalls \in Nat

VARIABLES
    query,          \* what the parameters ask for, or NoQuery before
    scenario,       \* its scenario
    euclidean,      \* which filter the server was started with
    calc,           \* the fields of the Calculator
    resetFilters,   \* the local variable of odTripsRouting
    replies,        \* history: OSRM's answers for access and egress
    except,         \* history: the lines the last calculation excludes
    pc,             \* "parse" the parameters, "call" calculateSingle, "ready"
                    \* (reset is done), "done" or "thrown"
    thrown,         \* the exception that left reset
    calls           \* calculations so far

resetsVars == <<query, scenario, euclidean, calc, resetFilters, replies, except, pc, thrown, calls>>

Lines == {t.line : t \in Trips}

NoTrip == [departure |-> -1, origins |-> {}, destinations |-> {}]

\* The constructor.
NewCalculator ==
    [odTrip |-> NoTrip, accessFootpaths |-> {}, egressFootpaths |-> {},
     nodesAccess |-> {}, nodesEgress |-> {},
     departureTime |-> 0, arrivalTime |-> -1,
     minAccess |-> 0, maxAccess |-> 0, minEgress |-> 0, maxEgress |-> 0,
     tentative |-> [n \in {} |-> 0], reverseTentative |-> [n \in {} |-> 0],
     forwardSteps |-> {}, reverseSteps |-> {}, overlay |-> "clean",
     connectionSet |-> {}, disabled |-> {}]

-----------------------------------------------------------------------------
(* Filters *)

\* Whether getConnectionsForScenario takes a trip into the scenario's set.
\* The lists onlyNodes and exceptNodes are not looked at.
InScenario(trip, s) ==
    /\ s.services = {} \/ trip.service \in s.services
    /\ s.onlyLines = {} \/ trip.line \in s.onlyLines
    /\ s.onlyModes = {} \/ trip.mode \in s.onlyModes
    /\ s.onlyAgencies = {} \/ trip.agency \in s.onlyAgencies
    /\ trip.line \notin s.exceptLines
    /\ trip.mode \notin s.exceptModes
    /\ trip.agency \notin s.exceptAgencies

getConnectionsForScenario(s) == {t \in Trips : InScenario(t, s)}

\* Calculator::resetFilters.  Of the lists of the parameters only
\* exceptLines is ever filled; the others are empty and disable nothing.
ResetFilters(c, s, exceptLines) ==
    LET trips == getConnectionsForScenario(s) IN
    [c EXCEPT !.connectionSet = trips,
              !.disabled = {t \in trips : t.line \in exceptLines}]

-----------------------------------------------------------------------------
(* Calculator::reset *)

Throws(point, maxTime, reply) ==
    ~euclidean /\ OsrmThrows(point, maxTime, FALSE, reply)

Filtered(point, maxTime, reply) ==
    IF euclidean THEN EuclideanFootpaths(point, maxTime)
    ELSE OsrmFootpaths(point, maxTime, FALSE, reply)

\* resetAccessFootpaths: the nodes of the OD trip, or those near the origin.
AccessFootpaths(c, reply) ==
    IF c.odTrip # NoTrip THEN c.odTrip.origins
    ELSE Filtered(query.origin, query.maxAccess, reply)

\* resetEgressFootpaths: the same, from the destination.
EgressFootpaths(c, reply) ==
    IF c.odTrip # NoTrip THEN c.odTrip.destinations
    ELSE Filtered(query.destination, query.maxEgress, reply)

NodesOf(footpaths) == {f.node : f \in footpaths}

TimesOf(footpaths) == {f.time : f \in footpaths}

Least(times) ==
    IF times = {} THEN MAX_INT ELSE CHOOSE x \in times : \A y \in times : x <= y

Greatest(times) ==
    IF times = {} THEN -1 ELSE CHOOSE x \in times : \A y \in times : x >= y

TimeAt(footpaths, n) == (CHOOSE f \in footpaths : f.node = n).time

HasOrigin == query.kind # "accessibility" \/ query.forward

HasDestination == query.kind # "accessibility" \/ ~query.forward

\* The first lines: the fields all calculations start over with.
Cleared(c, resetAccessPaths) ==
    [c EXCEPT !.accessFootpaths = IF resetAccessPaths THEN {} ELSE @,
              !.egressFootpaths = IF resetAccessPaths THEN {} ELSE @,
              !.overlay = "clean", !.forwardSteps = {}, !.reverseSteps = {},
              !.departureTime = IF ~query.forward THEN -1
                                ELSE IF c.odTrip # NoTrip THEN c.odTrip.departure
                                ELSE query.time,
              !.arrivalTime = IF query.forward THEN -1 ELSE query.time,
              !.minAccess = MAX_INT, !.maxAccess = -1,
              !.minEgress = MAX_INT, !.maxEgress = -1]

\* The part for a query with an origin.
WithAccess(c, resetAccessPaths, reply) ==
    LET footpaths == IF resetAccessPaths THEN AccessFootpaths(c, reply) ELSE c.accessFootpaths IN
    [c EXCEPT !.accessFootpaths = footpaths, !.nodesAccess = footpaths,
              !.forwardSteps = NodesOf(footpaths),
              !.tentative = [n \in NodeSet |-> IF n \in NodesOf(footpaths)
                                               THEN c.departureTime + TimeAt(footpaths, n)
                                               ELSE MAX_INT],
              !.minAccess = Least(TimesOf(footpaths)),
              !.maxAccess = Greatest(TimesOf(footpaths))]

\* faulty: the tentative times of the calculation before are kept.
WithEgressTimesKept(c, resetAccessPaths, reply) ==
    LET footpaths == IF resetAccessPaths THEN EgressFootpaths(c, reply) ELSE c.egressFootpaths IN
    [c EXCEPT !.egressFootpaths = footpaths, !.nodesEgress = footpaths,
              !.reverseSteps = NodesOf(footpaths),
              !.reverseTentative = [n \in NodeSet |->
                 IF n \in NodesOf(footpaths) THEN c.arrivalTime - TimeAt(footpaths, n)
                 ELSE IF n \in DOMAIN @ THEN @[n] ELSE -1],
              !.minEgress = Least(TimesOf(footpaths)),
              !.maxEgress = Greatest(TimesOf(footpaths))]

\* The part for a query with a destination.
WithEgress(c, resetAccessPaths, reply) ==
    LET footpaths == IF resetAccessPaths THEN EgressFootpaths(c, reply) ELSE c.egressFootpaths IN
    [c EXCEPT !.egressFootpaths = footpaths, !.nodesEgress = footpaths,
              !.reverseSteps = NodesOf(footpaths),
              !.reverseTentative = [n \in NodeSet |-> IF n \in NodesOf(footpaths)
                                                      THEN c.arrivalTime - TimeAt(footpaths, n)
                                                      ELSE -1],
              !.minEgress = Least(TimesOf(footpaths)),
              !.maxEgress = Greatest(TimesOf(footpaths))]

Footpaths(c, resetAccessPaths, r) ==
    LET cleared == Cleared(c, resetAccessPaths)
        access == IF HasOrigin THEN WithAccess(cleared, resetAccessPaths, r.access) ELSE cleared
    IN IF HasDestination THEN WithEgress(access, resetAccessPaths, r.egress) ELSE access

\* The exception, if any: of the filters, or because no node is near a point.
\* An OD trip without nodes throws nothing.
ResetThrows(c, resetAccessPaths, r) ==
    LET new == Footpaths(c, resetAccessPaths, r)
        asks == resetAccessPaths /\ c.odTrip = NoTrip
        noAccess == HasOrigin /\ new.accessFootpaths = {}
        noEgress == HasDestination /\ new.egressFootpaths = {}
    IN IF ~asks THEN "none"
       ELSE IF \/ HasOrigin /\ Throws(query.origin, query.maxAccess, r.access)
               \/ HasDestination /\ Throws(query.destination, query.maxEgress, r.egress)
            THEN "PARAM_ERROR_UNKNOWN"
       ELSE IF noAccess /\ noEgress THEN "NO_ACCESS_AT_ORIGIN_AND_DESTINATION"
       ELSE IF noAccess THEN "NO_ACCESS_AT_ORIGIN"
       ELSE IF noEgress THEN "NO_ACCESS_AT_DESTINATION"
       ELSE "none"

Reset(c, resetAccessPaths, doResetFilters, exceptLines, r) ==
    LET new == Footpaths(c, resetAccessPaths, r)
    IN IF doResetFilters THEN ResetFilters(new, scenario, exceptLines) ELSE new

-----------------------------------------------------------------------------
NoQuery == [kind |-> "none"]

\* A server that is going to read a request, or a calculation of OD trips.
ResetsInit ==
    /\ euclidean \in BOOLEAN
    /\ \/ request # "odTrips" /\ pc = "parse" /\ query = NoQuery /\ scenario = NoQuery
       \/ /\ request = "odTrips" /\ pc = "call" /\ OdTrips # <<>>
          /\ query \in OdQueries
          /\ scenario \in {Scenarios[u] : u \in Served}
    /\ calc = NewCalculator
    /\ resetFilters = TRUE
    /\ replies = [access |-> "table", egress |-> "table"]
    /\ except = {} /\ thrown = "none" /\ calls = 0

\* What the accepted parameters ask for: accessibility has its place as the
\* origin or as the destination.
QueryOf ==
    [kind |-> request, alternatives |-> alternatives,
     forward |-> common.forward, time |-> common.time_of_trip,
     origin |-> points[IF request = "route" THEN "origin" ELSE "place"],
     destination |-> points[IF request = "route" THEN "destination" ELSE "place"],
     maxAccess |-> common.max_access_travel_time,
     maxEgress |-> common.max_egress_travel_time]

\* calculateSingle or calculateAllNodes up to the end of reset.
Prepare(c, resetAccessPaths, doResetFilters, exceptLines, r) ==
    /\ pc = "call"
    /\ calls' = calls + 1 /\ replies' = r /\ except' = exceptLines
    /\ thrown' = ResetThrows(c, resetAccessPaths, r)
    /\ \/ /\ thrown' = "none" /\ pc' = "ready"
          /\ calc' = Reset(c, resetAccessPaths, doResetFilters, exceptLines, r)
       \/ /\ thrown' # "none" /\ pc' = "thrown"
          /\ calc' = c
    /\ UNCHANGED <<query, scenario, euclidean, resetFilters>>

\* The only calculation of an accessibility request, the first of a route.
FirstCalculation ==
    /\ query.kind # "odTrips" /\ calls = 0
    /\ \E a, e \in Replies : Prepare(calc, TRUE, TRUE, {}, [access |-> a, egress |-> e])

\* alternativesRouting calls calculateSingle(alternativeParameters, false, true).
AlternativeCalculation ==
    /\ query.kind = "route" /\ calls \in 1 .. MaxCalls - 1
    /\ \E lines \in SUBSET Lines \ {{}} : Prepare(calc, FALSE, TRUE, lines, replies)

\* odTripsRouting sets odTripGlob and calls
\* calculateSingle(odTripParameters, true, resetFilters).
OdTripCalculation ==
    /\ query.kind = "odTrips" /\ calls < Len(OdTrips)
    /\ Prepare([calc EXCEPT !.odTrip = OdTrips[calls + 1]], TRUE, resetFilters, {}, replies)

\* The calculation leaves new tentative times, steps and trip data behind,
\* and an arrival time, whether it finds a route or throws; the caller goes
\* on for alternatives, except after a first failure, and for OD trips.
Calculate(found) ==
    /\ pc = "ready"
    /\ \E m \in NodeSet :
         calc' = [calc EXCEPT
              !.overlay = "used",
              !.tentative = [n \in DOMAIN @ |-> IF n = m THEN 0 ELSE @[n]],
              !.reverseTentative = [n \in DOMAIN @ |-> IF n = m THEN 0 ELSE @[n]],
              !.forwardSteps = @ \cup {m}, !.reverseSteps = @ \cup {m},
              !.arrivalTime = IF found /\ query.forward THEN 0 ELSE @]
    /\ pc' = IF query.kind = "odTrips" \/ (query.alternatives /\ (found \/ calls > 1))
             THEN "call" ELSE "done"
    /\ resetFilters' = (resetFilters /\ ~found)
    /\ UNCHANGED <<query, scenario, euclidean, replies, except, thrown, calls>>

-----------------------------------------------------------------------------
(***************************************************************************)
(* Properties                                                              *)
(***************************************************************************)

\* Whatever ran on the Calculator before, a calculation starts from the
\* state in which a new Calculator would start it: no tentative time, step,
\* trip datum, footpath, filter or travel time limit is left over, although
\* alternatives keep the footpaths and OD trips keep the filters.
NothingLeftOver ==
    pc = "ready" =>
      calc = Reset([NewCalculator EXCEPT !.odTrip = calc.odTrip], TRUE, TRUE, except, replies)

\* A footpath has the walking duration of its own node, within the limit of
\* the query, and no node within the limit is left out once OSRM answered.
FootpathsOfTheirNodes ==
    (pc = "ready" /\ query.kind # "odTrips" /\ HasOrigin /\ ~euclidean) =>
      calc.accessFootpaths =
        {[node |-> n, time |-> WalkTo[query.origin][n]] :
           n \in {m \in NodeSet : /\ Bird[query.origin][m] <= query.maxAccess
                                  /\ WalkTo[query.origin][m] <= query.maxAccess}}
=============================================================================
