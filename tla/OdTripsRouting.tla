--------------------------- MODULE OdTripsRouting ---------------------------
(***************************************************************************)
(* Calculator::odTripsRouting: one calculation per OD trip of the data, on *)
(* one Calculator (OdTripCalculation of CalculatorResets); the legs of     *)
(* each result are added to the profiles of lines and paths.  The          *)
(* parameters OdTripLegacyParameters are constants: one batch, the whole   *)
(* sample, no attribute, data source or period to match, profiles asked    *)
(* for.  Expansion factors are whole numbers here.                         *)
(***************************************************************************)
EXTENDS CalculatorResets, FiniteSets, FiniteSetsExt

CONSTANTS
    Paths,      \* [paths -> Nat]: nodesRef.size() - 1, the number of segments
    Results,    \* what calculateSingle may return: travelTime and legs, where
                \* a leg is a trip and its first and last connection index
    Factors     \* the expansion factors of OD trips

\* demandByHourOfDay has an entry for every hour from 0 to 28.
Hours == 0 .. 28

\* A trip has the departures of its connections (connectionDepartureTimes).
ASSUME DataAssumption ==
    /\ \A t \in Trips : t.path \in DOMAIN Paths /\ Len(t.departures) = Paths[t.path]
    /\ \A r \in Results : \A k \in DOMAIN r.legs :
         /\ r.legs[k].trip \in Trips
         /\ 0 <= r.legs[k].start /\ r.legs[k].start <= r.legs[k].end
         /\ r.legs[k].end < Len(r.legs[k].trip.departures)

VARIABLES
    demand,             \* the expansion factor of each OD trip
    legs,               \* the legs still to be added
    connectionIndex,    \* the next connection of the first of them, or -1
    lineProfiles, pathProfiles, pathTotalProfiles,
    maximumSegmentHourlyDemand, maximumSegmentTotalDemand, totalTravelTimeSeconds,
    odTrips             \* json["odTrips"]: status and, as history, the result

profileVars == <<lineProfiles, pathProfiles, pathTotalProfiles,
                 maximumSegmentHourlyDemand, maximumSegmentTotalDemand>>

odTripsVars == <<demand, legs, connectionIndex, profileVars, totalTravelTimeSeconds, odTrips>>

Segments(p) == 0 .. Paths[p] - 1

OdTripsInit ==
    /\ demand \in IF request = "odTrips" THEN [DOMAIN OdTrips -> Factors] ELSE {<<>>}
    /\ legs = <<>> /\ connectionIndex = -1
    /\ lineProfiles = [l \in Lines |-> 0]
    /\ pathProfiles = [p \in {} |-> 0] /\ pathTotalProfiles = [p \in {} |-> 0]
    /\ maximumSegmentHourlyDemand = 0 /\ maximumSegmentTotalDemand = 0
    /\ totalTravelTimeSeconds = 0 /\ odTrips = <<>>

\* The next round of the loop, up to the end of reset.
NextOdTrip == legs = <<>> /\ OdTripCalculation /\ UNCHANGED odTripsVars

\* calculateSingle throws NoRoutingFoundException.
NotRouted ==
    /\ query.kind = "odTrips" /\ Calculate(FALSE)
    /\ odTrips' = Append(odTrips, [status |-> "no_routing_found", legs |-> <<>>])
    /\ UNCHANGED <<demand, legs, connectionIndex, profileVars, totalTravelTimeSeconds>>

Allowed(r) == \A k \in DOMAIN r.legs : r.legs[k].trip \in calc.connectionSet \ calc.disabled

\* calculateSingle returns a result, riding trips it may ride; its legs are
\* added next.
Routed ==
    /\ query.kind = "odTrips" /\ Calculate(TRUE)
    /\ \E r \in Results :
         /\ Allowed(r)
         /\ odTrips' = Append(odTrips, [status |-> "success", legs |-> r.legs])
         /\ legs' = r.legs
         /\ totalTravelTimeSeconds' =
              totalTravelTimeSeconds + IF r.legs = <<>> THEN 0 ELSE demand[calls] * r.travelTime
    /\ UNCHANGED <<demand, connectionIndex, profileVars>>

Leg == Head(legs)

\* The part of the loop over the legs before its inner loop: the line's
\* demand, and empty profiles for a path met for the first time.
BeginLeg ==
    /\ legs # <<>> /\ connectionIndex = -1
    /\ lineProfiles' = [lineProfiles EXCEPT ![Leg.trip.line] = @ + demand[calls]]
    /\ LET p == Leg.trip.path
           paths == DOMAIN pathProfiles \cup {p}
       IN /\ pathProfiles' = [x \in paths |->
                IF x \in DOMAIN pathProfiles THEN pathProfiles[x]
                ELSE [s \in Segments(x) |-> [h \in Hours |-> 0]]]
          /\ pathTotalProfiles' = [x \in paths |->
                IF x \in DOMAIN pathTotalProfiles THEN pathTotalProfiles[x]
                ELSE [s \in Segments(x) |-> 0]]
    /\ connectionIndex' = Leg.start
    /\ UNCHANGED <<resetsVars, demand, legs, maximumSegmentHourlyDemand, maximumSegmentTotalDemand,
                   totalTravelTimeSeconds, odTrips>>

\* connectionDepartureTimes counts from 0
DepartureHour(trip, index) == trip.departures[index + 1] \div 3600

\* the running maximum, compared with the demand just added to
Greater(a, b) == IF a < b THEN b ELSE a

\* faulty: the last connection of a leg is left out
LegGoesOnShort == connectionIndex < Leg.end

LegGoesOn == connectionIndex <= Leg.end

\* One connection of the leg.  An hour past the profile is written outside
\* of the vector, which is undefined: the model stops there.
AddConnection ==
    /\ legs # <<>> /\ connectionIndex >= 0 /\ LegGoesOn
    /\ LET p == Leg.trip.path
           s == connectionIndex
           h == DepartureHour(Leg.trip, s)
           hourly == pathProfiles[p][s][h]
           total == pathTotalProfiles[p][s]
       IN /\ h \in Hours
          /\ pathProfiles' = [pathProfiles EXCEPT ![p][s][h] = @ + demand[calls]]
          /\ pathTotalProfiles' = [pathTotalProfiles EXCEPT ![p][s] = @ + demand[calls]]
          /\ maximumSegmentHourlyDemand' =
               Greater(maximumSegmentHourlyDemand, hourly + demand[calls])
          /\ maximumSegmentTotalDemand' =
               Greater(maximumSegmentTotalDemand, total + demand[calls])
    /\ connectionIndex' = connectionIndex + 1
    /\ UNCHANGED <<resetsVars, demand, legs, lineProfiles, totalTravelTimeSeconds, odTrips>>

EndLeg ==
    /\ legs # <<>> /\ connectionIndex >= 0 /\ ~LegGoesOn
    /\ legs' = Tail(legs) /\ connectionIndex' = -1
    /\ UNCHANGED <<resetsVars, demand, profileVars, totalTravelTimeSeconds, odTrips>>

Return ==
    /\ query.kind = "odTrips" /\ pc = "call" /\ legs = <<>> /\ calls = Len(OdTrips)
    /\ pc' = "done"
    /\ UNCHANGED <<query, scenario, euclidean, calc, resetFilters, replies, except, thrown, calls,
                   odTripsVars>>

OdTripsNext ==
    NextOdTrip \/ NotRouted \/ Routed \/ BeginLeg \/ AddConnection \/ EndLeg \/ Return

-----------------------------------------------------------------------------
Sum(f) == MapThenSumSet(LAMBDA x : f[x], DOMAIN f)

LegsOf(k, p, s) ==
    Cardinality({j \in DOMAIN odTrips[k].legs :
        /\ odTrips[k].legs[j].trip.path = p
        /\ odTrips[k].legs[j].start <= s /\ s <= odTrips[k].legs[j].end})

(***************************************************************************)
(* The profiles returned are the load of the OD trips: over a segment of a *)
(* path pass as many people as the OD trips routed over it stand for, no   *)
(* matter in how many legs, by which trips and in which hours, and lines   *)
(* are used by the people of the legs that ride them.  At every moment of  *)
(* the loop the total of a segment is the sum of its hours, and the two    *)
(* maxima, kept while demands are added, are those of the profiles.        *)
(***************************************************************************)
LoadConserved ==
    LET hourly == UNION {UNION {{pathProfiles[p][s][h] : h \in Hours} : s \in Segments(p)} :
                           p \in DOMAIN pathProfiles}
        total == UNION {{pathTotalProfiles[p][s] : s \in Segments(p)} :
                           p \in DOMAIN pathTotalProfiles}
    IN /\ maximumSegmentHourlyDemand = Max(hourly \cup {0})
       /\ maximumSegmentTotalDemand = Max(total \cup {0})
       /\ \A p \in DOMAIN pathProfiles : \A s \in Segments(p) :
            pathTotalProfiles[p][s] = Sum(pathProfiles[p][s])
       /\ (query.kind = "odTrips" /\ pc = "done") =>
            /\ Len(odTrips) = Len(demand)
            /\ \A p \in DOMAIN Paths : \A s \in Segments(p) :
                 (IF p \in DOMAIN pathTotalProfiles THEN pathTotalProfiles[p][s] ELSE 0) =
                   Sum([k \in DOMAIN odTrips |-> demand[k] * LegsOf(k, p, s)])
            /\ \A l \in Lines :
                 lineProfiles[l] =
                   Sum([k \in DOMAIN odTrips |->
                          demand[k] * Cardinality({n \in DOMAIN odTrips[k].legs :
                                                     odTrips[k].legs[n].trip.line = l})])
=============================================================================
