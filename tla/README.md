# A verification development for trRouting

trRouting answers public transit queries: it loads a network and its schedules
from a data cache, serves HTTP requests, and computes journeys with the
connection scan algorithm (CSA).  This directory holds TLA+ modules that model
its core, TLC configurations that check them on small instances, and TLAPS proofs
of what holds for every instance.  `PROJECT.json` is the index: which definition
models which lines, what each run checks, which mutation of the code each
property detects, the findings, and the hazards the properties are aimed at.

Paths below are relative to the repository; `csa/` abbreviates
`connection_scan_algorithm/src/`.

## 1. The system

| Component | State it keeps | Operations | What makes it correct |
|---|---|---|---|
| Forward calculation (`csa/forward_calculation.cpp`) | `nodesTentativeTime`, `forwardJourneysSteps`, `forwardEgressJourneysSteps`, enter connection and `usable` of every trip | one scan over the connections by departure, with an early break | the arrival found is the earliest one that can be travelled |
| Reverse calculation (`csa/reverse_calculation.cpp`) | `nodesReverseTentativeTime`, `reverseJourneysSteps`, `reverseAccessJourneysSteps`, exit connection and exit walk of every trip | one scan by decreasing arrival, two early breaks | it delivers the route the forward pass found, leaving as late as possible |
| Calculator control (`csa/calculator.cpp`, `csa/resets.cpp`) | departure and arrival time, access and egress footpaths, the trip filters | `reset`, `calculateSingle`, `calculateSingleReverse`, `calculateAllNodes` | every query is answered, with a journey or one reason |
| Journey reconstruction (`csa/reverse_journey.cpp`) | the journey | follow the steps, optimise, add up | the journey can be travelled and its times add up |
| Optimiser (`csa/optimize_journey.cpp`) | `ignoreOptimizationNodes` | search for a case, four repairs, loop | ends; leaves a connected journey |
| Connection sets (`src/connection_set.cpp`) | hour caches of iterators | build, look up | a scan starts at the first connection of the hour |
| Timetable generation (`src/transit_data.cpp`, `src/trips_and_connections_cache_fetcher.cpp`) | forward and reverse connections | build from trips, sort | both orders keep the connections of a trip in order |
| Transit data (`src/transit_data.cpp`, `src/*_cache_fetcher.cpp`) | ten collections that refer to each other | `loadAllData`, `update*` | nothing refers to objects that no longer exist; the status tells the truth |
| Scenario connection cache (`src/connection_cache.cpp`) | one or all sets, by scenario, under a shared mutex | `get`, `set` | a request gets the set of its scenario |
| HTTP server (`csa/transit_routing_http_server.cpp`) | `dataStatus`, the thread pool | `/updateCache`, `/v2/route`, `/v2/summary`, `/v2/accessibility` | requests and updates do not disturb each other |
| Alternatives (`csa/alternatives_routing.cpp`) | combinations of excluded lines | `alternativesRouting` | ends; nothing is left untried without a reason; no alternative twice; the bounds are kept |
| Accessibility (the `AllNodes` variants) | as the calculations | `calculateAllNodes` | every node within reach is listed with its best time |
| Parameters (`csa/parameters/`) | the query | two passes over the pairs, checks, errors | every list of pairs gives a query in range or the error that is in it |
| Footpaths from points (`csa/resets.cpp`, `src/osrmgeofilter.cpp`, `src/euclideangeofilter.cpp`) | `accessFootpaths`, `egressFootpaths`, kept between calculations | ask OSRM, or measure | each duration belongs to its node; nothing is left over from the calculation before |
| OD trips (`csa/od_trips_routing.cpp`) | profiles of lines and paths, two maxima, `odTripGlob` | one calculation per OD trip | the profiles are the load of the legs |
| Summary (`csa/result_to_v2_summary.cpp`) | counts per line | go through the alternatives | it lists the lines used, and counts them as the API says |
| Node files (`src/nodes_cache_fetcher.cpp`) | footpaths and reverse footpaths of every node | read, sort | both directions hold the same footpaths |
| Other result conversion, program options | – | formatting, I/O | – |

Interactions.  `main()` constructs `TransitData` (which loads everything), takes
the status once, and starts the server.  A routing handler tests the status,
parses the parameters (keeping a reference to a `Scenario` inside `TransitData`),
makes a `Calculator`, which asks `TransitData` for the scenario's
`ConnectionSet` – through the cache, the only part protected by a mutex – asks the
geographical filter for footpaths, and runs the forward pass, then the reverse pass on the trips the forward pass
marked usable, then the reconstruction.  `/updateCache` runs the `update*`
operations of `TransitData` in the same pool of threads, without a lock.

Hard behaviours.  Inside one calculation: labels, boarding and unboarding
connections that are overwritten while older steps still refer to them; early
breaks decided by values that are still changing; two passes that must agree.
Between calculations: threads that look, build and store in the cache; updates
that destroy objects under requests; fetches that fail half way and a status
nobody renews.  Between the calculations of one request: a Calculator that keeps
footpaths for alternatives and filters for OD trips.  Before them: pairs in no
particular order, and a routing service that may fail or know no way.  `PROJECT.json` lists them with their lines under `hazards`.

## 2. Modules

```
CalculatorData          timetable, query, shared members of Calculator
  ForwardCalculation    forwardCalculation, one action per connection scanned
  ReverseCalculation    reverseCalculation, likewise
  OptimizeJourney       the cases and repairs of optimizeJourney
    Calculator          the composition: reset .. summary of one query
      CalculatorProperties   what makes its answer right, with reference definitions
        MCCalculator         instances (with TripsAndConnections)
        CalculatorProofs     theorems: types, the labels of both passes
          ArrivalProofs        the forward pass finds the earliest arrivals, the
                               reverse pass the latest departures (with Accessibility)
            JourneyProofs      the journey, the optimiser and the times of the answer;
                               the two passes together
        Accessibility        calculateAllNodes -> MCAccessibility
Selection               what a loop with a test copies of a vector -> SelectionProofs
AlternativesRouting     the loop around calculateSingle -> AlternativesProofs
  RouteSummary          the summary made of the alternatives -> MCAlternatives
TripsAndConnections     from trips to the two sorted lists
QueryParameters         from the pairs of a request to a query or an error
GeoFilter               footpaths from a point: OSRM and as the crow flies
  CalculatorResets      what a calculation keeps of the one before
    OdTripsRouting      one calculation per OD trip, profiles
      Requests          the composition: one request from its pairs on
                        -> MCRequests, RequestsProofs
NodesFetcher            the footpaths between nodes, from the node files
ConnectionSet           the hour caches
  DataLoading           the composition of the two
                        -> MCDataLoading, DataLoadingProofs
TransitData             collections, references, fetchers, update*
  TransitServer         main(), the handlers, the cache -> TransitServerProofs
ConnectionRegistry      what the cache promises (abstract) -> TransitServerProofs
```

**Calculator.**  `tt` (timetable) and `q` (query) are variables fixed by `Init`,
so one run covers every timetable and query of its instance and the theorems
cover all.  A connection is its position in `forwardConnections`; 0 is
`std::nullopt`.  The variables are the members of `Calculator` that the passes
write (the comment of each names the member), plus the iterators.  Each
iteration of a scan is exactly one of four actions – `Skip` (a test failed
before the connection is looked at), `Break`, `Pass` (not reachable), `Ride` –
and `Ride` includes everything the iteration does: boarding, unboarding and the
labels of all nodes in walking distance.  `Reset`, `ForwardFail`/`ForwardFound`,
`ReverseFail`/`ReverseFound` are what happens between the loops;
`FollowStep`/`CloseJourney` walk along the steps, `OptimizeIteration`/
`OptimizeEnd` are the loop of the optimiser, `Summarize` computes the totals.
Where the code takes the best of several nodes in the order of a hash map, the
action takes any best one.  The waiting time is narrowed to 16 bits as in the
code.

*Abstractions.*  Distances, leg objects and texts are left out; the trips a query
may not ride are its set `disabled`, and the footpaths from a point are part of the
query (how both are made is in `CalculatorResets` and `GeoFilter`).  Every node
has a footpath of zero seconds to itself, as the cache files and the fetcher's
own addition provide.  Times are below `INT_MAX`; departures in hour 32 are left
out of the calculator's queries: the getter accepts that hour although the cache
has no entry for it.

**Accessibility.**  `calculateAllNodes` uses the members and the actions of
`Calculator`.  The forward pass over all nodes is the scan of `ForwardCalculation`
without any egress node, which is what the code's second copy of the loop amounts
to: no best egress time and no break on it.  The reverse pass differs in two
tests, so `ConsideredAllNodes` and `StopAllNodes` are its own and `BackRide` shares
`RideBack`.  Then the nodes are taken one by one (`NextNode`, in any order, as the
code iterates over a hash map), the steps of each are followed to count transfers,
and the node is listed if it is within the limits.

**AlternativesRouting.**  The loop over combinations of excluded lines.
`calculateSingle` is abstract here: it returns any journey a timetable offers (`Offers`)
that avoids the excluded lines and keeps the query and the maximum travel time, which is
what `ResultWithinQuery` and the filters say of an answer, or it fails.  No more is
assumed: the calculator may fail although such a journey exists (`route_lost`), may
succeed when one more line is excluded, and need not answer the same question twice in the
same way, since an update may come between two calculations.  The model keeps the queue `allCombinations`, the sets of
combinations calculated and failed, the sets of lines found, the two counters and
the bounds as the code does, and enumerates combinations in the order of
`combinations.hpp`; `excluded` and `calls` (the lines excluded in each calculation) are
history.  `At` (module `Selection`, also
used by `NodesFetcher`) gives the elements of a vector at chosen positions, in order,
which is what `generate` and the loops with a `continue` copy.

**TripsAndConnections.**  Trips with times, and with stops that allow no
boarding or unboarding, become connections as in `getSchedules`, sorted with the
comparators of `generateForwardAndReverseConnections`.  All timetables of the
calculator runs are made by it, and TLC evaluates `IsTimetable` on each: this is
what the passes, and the proofs, rely on.  Besides the two orders it says that a trip
has a connection for every pair of consecutive nodes, and that all of them have the
minimum waiting time of the line's mode: none of its own (-1) or 0.

**RouteSummary.**  The handler of `/v2/summary` after its parameters: it runs
`AlternativesRouting` and then the accumulator over the alternatives found.

**Requests** composes what happens to one request.  `QueryParameters` reads the list
of pairs twice, as the code does (points and `alternatives` first, the rest second),
one pair per action, with the conversions as tables from texts to values; every early
exception is an outcome, and `getResponseCode` maps it to what the client is told.
`GeoFilter` makes footpaths from a table of durations that OSRM answers in the order
of the candidates (`Candidates`, some enumeration of the nodes `Near` the point: the
order of the code is that of a hash map), with the point itself first; the answers that
fail (no connection, no table, a null) are `Replies`.  `CalculatorResets` has the fields of a Calculator that
outlive a calculation; `Reset` has the code's flags `resetAccessPaths` and
`doResetFilters`, and `Calculate` leaves arbitrary used labels behind.
`getConnectionsForScenario` and `ResetFilters` select trips by the lists of a
scenario.  `OdTripsRouting` adds the legs of each result to the profiles, one
connection per action.  The durations towards and from a point are different tables
(`WalkTo`, `WalkFrom`), because the code asks for one direction only.

**ConnectionSet.**  The two loops that fill the caches, one action per iteration,
and the getters with the tests the code makes.

**NodesFetcher** reads the file of one node per action.  A file is missing, complete,
fails to be read or has an entry without a valid uuid, which throws; entries for unknown
nodes are skipped, and reverse footpaths are added at the nodes an entry names.
**DataLoading** runs it and then `ConnectionSet`, as the start of the server and
its first request do.

**TransitData and TransitServer.**  Of a collection the model keeps whether it is
empty, how often it was cleared (its generation) and which generations of other
collections it refers to; a reference to an older generation dangles.  A fetch
may deliver everything, part of it before an error, or nothing (`MaxFaults`
bounds the latter two); where a fetcher looks up objects with `at()` it cannot
deliver without them.  An exception leaves `getNodes` (a malformed uuid in the file of a
node) and `updateSchedules`, and with them the load or the update.  A thread runs one handler; every access to shared state is
a step of its own, so that look, build and store of a connection set interleave
with other threads and with updates.  A request for alternatives (`NextAlternative`)
looks its set up again for each of them.  `handler` says which of the three routing
resources a thread serves: they differ in what they answer when there is no route,
and accessibility has no alternatives.  `cacheAll` chooses between the two kinds
of cache.  `AskedNames` is the set of names an update may list, and `MaxCalculations`
bounds the alternatives of a request.  `FilterThrows` is a geographical filter that
throws inside a calculation: the handler answers an unknown error.  A race inside one collection (undefined behaviour in C++) is not
modelled: collections change as wholes.

**ConnectionRegistry** is the promise of `getConnectionsForScenario` without cache and
races: a thread gets a set made for its scenario, now or while somebody kept it.
`TransitServer!ImplementsRegistry` instantiates it: what a thread holds is the set it
computed or was given while it calculates (`Holds`), what is kept is what the cache or
a thread holds (`Kept`), and what is loaded is the generation of the connections.

## 3. Runs

Passing runs:

* `calculator` – five nodes, three trips, timetables made of short paths around
  one o'clock (so that the hour cache cuts some connections off), lines one walks
  along, vehicles that pass a node, go on and come back, and stops that allow no
  boarding or unboarding; departure and arrival queries, with and without waiting
  time, tight limits, a disabled trip, no access, no egress, limited first wait.
  Three trips with two transfers are the least that has a label overwritten after
  a later step was built on it, a replaced unboarding connection and both breaks;
  each of the four repairs of the optimiser is made and refused.
  The labels of both passes are sound in every state; the earliest arrival and
  (up to the waiting time) the latest departure equal reference definitions that
  know nothing of labels and scan order; the reverse pass delivers the route the
  forward pass found; every iteration of the optimiser makes progress; the journey can
  be travelled, its times add up, and every query is answered.
* `accessibility` – the timetables and queries of the calculator, without
  destination (or origin): the nodes listed are exactly those within reach
  with their earliest (latest) times, the transfers counted are those of a
  journey that can be travelled, and every query is answered.
* `alternatives` – every choice of seven journeys over four lines (one rides a line
  twice, one rides none), five queries, and every way the calculations may answer or fail:
  no set of lines is reported twice, the bounds on alternatives and calculations are kept,
  and when no bound stopped the search, every choice of lines of a reported journey was
  excluded in a calculation of its own, together with what was excluded for that journey,
  unless it contains all the lines of a calculation that failed (`EveryChoiceTried`).  The
  summary of the same search lists exactly the lines used, and its counts are what the API
  description says exactly for the lines no alternative rides twice
  (`CountAsDocumented`).  Four lines are enough for combinations that repeat, fail, contain
  a failed one and lead back to lines found before.
* `server_threads` – two threads, two scenarios, both kinds of cache, an update of
  the schedules, requests for routes with up to two calculations: each calculation
  gets the set of its scenario, the cache implements `ConnectionRegistry`, no thread
  gets stuck (deadlock is checked) and every handler returns, although with the cache
  of one scenario the threads evict each other's set.  Two threads and two scenarios
  are the least in which a set is replaced between the look and the store of another.
* `server_reload` – one thread (summary and accessibility requests), two updates and
  two faults anywhere in loading or updating: after a successful load and after a
  reload of everything, nothing that routing reads dangles.
* `requests` – complete lists of pairs and lists that lack one, with up to two more
  pairs before or after: what is accepted is what is complete and readable, the last
  pair of a name counts, the numbers are in the range the calculator relies on, and a
  refused request is told a cause that is in its list.  Then up to three calculations
  on one Calculator, with both filters and every failure of OSRM: each starts as on a
  new Calculator, with nothing left of the footpaths and filters before, and walks
  footpaths with the durations of their nodes.  And three OD trips over shared paths:
  the profiles are the load of the legs and the maxima are those of the profiles.
  Three calculations are the least in which a second one follows a failed one.
* `data_loading` – three nodes whose files are missing, complete or fail, with
  up to two entries each: the footpaths of the two directions are the converse of each
  other, also after an error half way (as far as the forward lists go).  Then all
  sorted lists of up to two times at the edges of hours and of the cache: every entry
  of the hour caches is exact.  Loading ends.

Violation runs each show one disagreement between the code and what its
comments, messages or API description say:

| Run | What TLC finds |
|---|---|
| `route_lost` | a limit on the first wait makes the reverse pass lose the route the forward pass found |
| `legs_connected` | cutting a superfluous line over several legs leaves legs that do not meet |
| `ride_twice` | connections of zero seconds in both directions and no waiting time make the steps of two nodes refer to each other: the reconstruction goes round |
| `served_set_live` | after an update a cached set of destroyed connections is served |
| `node_time` | the time an accessibility answer gives for a node is one second after the departure, because -1 (inherit) is subtracted as if it were a waiting time |

Met while modelling, and not given a run of their own:

* a departure in hour 32 is accepted by the getter of the hour cache, which has no
  entry for it (`src/connection_set.cpp:13`);
* the number of alternatives calculated that is reported exceeds the number of
  calculations by one; a limit clamped to the fastest travel time plus an hour is counted
  from the time asked for (`csa/alternatives_routing.cpp:131`);
* `alternativeCount` of a line counts boardings, where `docs/APIv2/summaryResponse.yml:77`
  says "Number of alternatives in which this line appears": a line ridden twice in one
  alternative counts twice, and `CountAsDocumented` says that only then the two differ;
* the search for alternatives skips the combinations that contain a failed one
  (`csa/alternatives_routing.cpp:235`) as if excluding more lines could only fail again.
  The calculator may fail for another reason, the limit on the first wait (1800 s by
  default), and find a route when one more line is excluded; such an alternative is lost.
  `EveryChoiceTried` therefore says which choices are tried, not that the best journeys
  are found;
* the lists of nodes of a scenario are read and never used
  (`src/transit_data.cpp:385`, marked FIXME there);
* a missing or unreadable place of an accessibility request has no case in
  `getResponseCode` and is answered `PARAM_ERROR_UNKNOWN`, where
  `docs/APIv2/accessibilityResponse.yml:14` lists codes of its own;
* the durations of egress are asked for from the destination to the nodes
  (`csa/resets.cpp:213`), where `docs/APIv2/parameters.yml:73` says "from the last
  stop/station";
* the footpaths of a node are "sorted" into the order they have: the copy does not use
  the index vector (`src/nodes_cache_fetcher.cpp:199`), and the footpath of a node to
  itself is appended where the comment of line 161 wants it first;
* profiles of OD trips have the hours 0 to 28, connections leave up to hour 32 and
  later (`csa/od_trips_routing.cpp:185`, `:332`);
* an update with only wrong names is answered with success
  (`csa/transit_routing_http_server.cpp:266`), and `dataStatus` is never renewed (`:128`);
* a read error of a fetcher whose collection keeps something can end as READY.

`EarliestArrivalFound`, `ForwardRouteDelivered` and `DepartureNearlyLatest` are the strongest
forms found that hold; their stronger versions are the ones violated above, or not what the code
computes:

* the limit on the first wait is also applied to riders who are on board already;
* the early exit of the reverse pass compares with the first boarding at an access node even
  when that boarding is then refused as too early.  If all lines ask for the same waiting
  time this loses nothing; otherwise it may.  Leave at *T* with 3 seconds of waiting: a
  walking line (no wait) from access node *a* (0 s) leaves at *T* and is at *b* at *T*+1,
  where a vehicle leaves at *T*+4 and is at *d* at *T*+10; another vehicle leaves access node
  *c* (1 s) at *T*+3, one second too early, is at *d* at *T*+9 and goes on at *T*+14, where it
  can be boarded, so that its trip is usable.  The reverse pass meets the boarding at *c*,
  refuses it, and ends at the walking line, which arrives before *T*+3 less the longest
  access walk.  Hence `OneWait` in `ForwardRouteDelivered`;
* with vehicles that take no time between two nodes the same property fails, hence
  `Progressing`;
* departures are compared after a waiting time has been taken off, so that the latest one
  is known only up to it, and close to midnight a departure that would have to leave before
  the day begins is not taken: a reverse pass that finds nothing may leave those.

`MinimumWaitKept` is about waiting times that fit in a short, because that is what
`getMinWaitingTimeOrDefault` takes; `TimesAddUp` subtracts the time on walking lines
once, because the code counts it both as walking and as time in a vehicle.  The two optimality properties assume that each
vehicle takes time between two nodes (`Progressing`): with connections of zero
seconds the scan order among equal times may miss a journey.  The instances of
`EveryQueryAnswered` have no circle of connections of zero seconds; `ride_twice`
shows what happens with one.

*Fairness.*  `FairSpec` of the calculator and `FairLoadSpec` add weak fairness of the
next-state relation: a calculation, or loading, is a loop of one thread that takes no
lock and waits for nobody, so it goes on as long as the process runs.  `FairSpec` of
`TransitServer` adds weak fairness of the steps of each handler (`HandlerStep`): a
handler runs on a thread of the pool, which the operating system schedules until the
handler returns, and the mutex of the cache is held within single steps only, so no
step can be blocked for good.  Nothing is assumed of the arrival of requests or updates.

*Deadlock* is not checked where the system ends: a calculation or construction
that is finished, and a server whose constructor threw.

## 4. Theorems

All proofs are for arbitrary constants – nodes, trips, timetables, queries,
lists of times, lists of pairs, threads, scenarios, numbers of faults and updates –
under the named assumptions: timetables are as `IsTimetable` says
(`TimetablesAssumption`), queries are in range (`QueriesAssumption`), lists of times are
sorted, the lists of pairs are sequences of pairs (`ListsAssumption`), the sequence of
nodes names each node of the network (`NodesAssumption`), node files hold sequences of
footpaths (`FilesAssumption`), and the journeys
offered arrive after they leave and list their lines in order (`OffersAssumption`).

**The calculator**

* `CalculatorProofs`: `TypeCorrect`, by induction with `TypeOK` itself: iterators stay
  inside the lists, no label holds anything but a time, no step anything but
  connections.  It needs `IsTimetable`, the bounds of the hour cache
  (`BeginType`, through the cardinality of the connections before the hour) and a
  lemma per kind of scan action.
* `CalculatorProofs`: `ForwardSound` and `ReverseSound`.  Both invariants (`FInv`, `RInv`)
  add to the types and to the labels what ties them to the position of the scan:
  the connection in which a trip was boarded (`EnterPassed`), or is left
  (`ExitPassed`), is one the scan has passed, so that in a step built now the boarding
  comes before the unboarding; and before the reverse pass nothing is labelled
  (`NothingLabelled`).  The crux is that a label only improves: overwriting it keeps
  catchable what was caught before.  `ReverseSound` is about waiting times that fit in
  a short (`FitsShort`): parsing only bounds `min_waiting_time` below, a longer one may
  become negative in `getMinWaitingTimeOrDefault`, and the test for a better
  unboarding connection is then wrong.
* `ArrivalProofs`: `EarliestArrival` (`EarliestArrivalFound`): the arrival found is the
  earliest of all journeys.  The reference, `Boardable`, is the least set of connections
  that holds what can be caught on foot from the origin and is closed under riding on
  and changing; being a least set it needs no induction over journeys.  The invariant
  `AInv` (`ForwardExact`) says that whatever the scan has boarded or left is boardable or
  can be alighted at in the reference, that the time the early exit looks at is one an
  egress node is really reached at, and that every boardable connection and ride before the
  position of the scan (or of its early exit) is accounted for by a label at least as
  early (`Complete`).  The first direction is minimality – what the scan boards lies in
  every closed set –, the second shows that the connections accounted for form a closed set
  as far as an arrival could still be improved.  It holds for queries whose waiting time fits in
  a short, whose arrivals fit in an `int` (`ArrivalsFit`: a label of `MAX_INT` means
  "not reached") and that do not begin beyond the last hour of the cache
  (`WithinCache`: there the getter returns the end of the list); the property itself
  assumes `Progressing` and no limit on the first wait.
* `ArrivalProofs`: `NodesEarliest` (`EarliestListed`) and `CountedFeasibly`
  (`CountedJourneyFeasible`), for `SpecAllNodes`: all nodes from a place.  The scan is that
  of `ForwardCalculation`, so its lemmas are used as they are; `reset()` with one place
  and with two is one action to the proofs (`Restart`).  When the scan has ended, no egress
  node can have stopped it, and `ForwardExact` says that every node left in time is known
  with its first arrival (`ArrivalsExact`).  The invariant `PInv` carries this through the
  loop over the nodes: what is listed are the nodes taken so far, each once and if within
  the limit (`Listing`), and the journey followed back is made of labels whose boarding
  connection is still the one of its trip (`FollowsBack`; `AllBoarded` says so of the
  vehicles left at the nodes).  The same hypotheses as above, without `ArrivalsFit`, which
  is about egress nodes.
* `ArrivalProofs`: `NodesLatest` (`LatestListed`), for `SpecAllNodes`: all nodes towards a
  place.  The reference `Onward` mirrors `Boardable`: the least set of connections that holds
  those one can ride to a node from which the place is reached on foot in time, and is
  closed under boarding before it.  `Backwards` says that whatever the reverse pass has
  labelled lies in it; `BackComplete` that every connection of it before the position of the
  scan, or of its exit (`ScanBack`), is accounted for (`PassedTo`): its trip is known
  with a place to leave it, and the label of its node, and the step recorded there, are at
  most a waiting time worse (`Heeded`, `Nearly`).  The slack is the code's: a recorded
  departure is compared with one from which the waiting time was subtracted.  `LInv` carries
  what holds when the scan has ended (`DeparturesLatest`) through the loop over the nodes
  (`BackListing`).
* `JourneyProofs`: `Feasible` (`JourneyFeasible`) and `EgressReached` (`EndsAtEgress`)
  for waiting times that fit in a short.  The invariant `JInv` adds `FollowsSteps`: the
  cursor of the reconstruction is a step of the reverse pass, so the next leg can be caught
  from the last one and a cursor without connections stands at an egress node.
* `JourneyProofs`, for the same queries: `WithinQuery` (`ResultWithinQuery`), `WaitKept`
  (`MinimumWaitKept`) and `LoopShrinks` (`OptimizerProgress`).  That each leg is caught after
  the one before it is not preserved by the optimiser, which erases legs; the invariant
  `TInv` says it of *every two* legs (`Timed`: earlier leg, its walk, the waiting time,
  later leg), of the walk from the origin and every leg, and of every leg and the walk to
  the destination.  All four repairs come down to one relation, `Tightened`: the new
  legs are some of the old ones, in order, boarded later or left earlier on the same
  vehicle, with their walk or none.  It keeps `Timed` (`TightenedTimed`), because a later
  connection of a trip arrives later and has the same waiting time, and when a vehicle is
  left earlier (`Shortened`) the rides map one to one into the old ones and miss one
  (`RiddenLess`).  That a repair always finds a connection to leave or board at is
  `NodeBetween`: a node passed on the way is arrived at on the way.  Where the legs end
  up in space is another matter: `legs_connected` shows that they need not meet.
* `JourneyProofs`: `PlaceReached`, `JourneyFeasible` and `EndsAtEgress` for the journeys of
  `SpecAllNodes` towards a place.  All that reading back needs of the steps is
  `StepsSound`, which holds from the end of the scan on; `BackInv` keeps it for every node
  taken.
* `JourneyProofs`: `DepartureLatest` (`DepartureNearlyLatest`), the latest departure of one
  query, with the hypotheses of `EarliestArrival` if it asks for a departure.  The lemmas on `Onward` are those of
  `NodesLatest`, for the connections *sought* (`Sought`): after a forward pass, only the ones
  one can board coming from the origin, because only the trips marked usable are scanned.
  `DInv` joins the invariants of the two passes with `Marked` (the trips of what was boarded
  are usable) and `BackPhase`; `FoundBoarded` shows that at the hand-over every trip that
  is sought is marked.
* `JourneyProofs`: `RouteArrives` (`ForwardRouteDelivered`): the reverse pass never loses the
  route the forward pass found, and after all repairs the answer arrives exactly at the
  arrival found.  That it is found (`BackFinds`): the journey of the earliest arrival is in
  `Sought`, its first boarding is reached from the origin, and with one waiting time for all
  lines the early exit cannot come before it.  That it arrives then and not earlier: the
  last vehicle of the answer can be boarded from the origin (`OnBoard`), so leaving
  it before the arrival found would be an earlier arrival, which `Earliest` excludes; the optimiser
  leaves the node of the last stop as it is (`RepairEnd`) and keeps every leg on a
  vehicle that can be boarded (`TightenedArriving`).  The invariant is `RouteInv`.

**Requests**

* `RequestsProofs`: `RequestAcceptedWhenComplete`, `RequestLastPairCounts`,
  `RequestCalculatorCanRely` and `RequestErrorNamesTheCause`, for lists of pairs of any
  length.  The properties are about requests that are read; the invariant `ReadingInv`
  says in each of the two passes what the fields hold of the pairs read so far (the last
  one of a name), and that everything read so far was readable.
* `RequestsProofs`: `CalculatorNothingLeftOver` and
  `CalculatorFootpathsOfTheirNodes`, for any number of calculations and every answer of
  OSRM.  `ResetsInv` adds that a first calculation resets everything, so that what an
  alternative keeps (footpaths) and what an OD trip keeps (filters) was made for the same
  query; the pairing of durations with nodes needs `AccessFound`: the footpaths kept are
  those of an answer of OSRM for this origin.

**Data and server**

* `DataLoadingProofs`: `TypeCorrect`, `ForwardExact`, `ReverseExact`.  The
  exactness of the caches is not inductive: the invariant `IInv` says, while a
  loop runs, that each entry made is exact, that the iterator is past
  everything earlier than the current hour, and how long the cache is; the
  sortedness of the list makes an entry exact.  A load of everything builds a set as
  `ConnectionSet` says (`BuildsSet`), which carries this over to `LoadSpec`.
* `DataLoadingProofs`: `FootpathsConverse` (`ListsConverse`), for any number of nodes and
  whatever their files hold.  The reverse list of a node grows with the files of others,
  so the invariant `NInv` is about the files read so far: the list of a node is empty or
  that of its own file (`OwnList`); the reverse lists have every footpath of the lists
  (`ForwardListed`) and, unless a file failed, nothing else but nodes themselves
  (`BackListed`); and a node whose file was read to the end is on its own reverse list
  (`SelvesListed`).
* `TransitServerProofs`: `TypeCorrect` and `OwnScenario`.  What a thread uses may come
  from the cache, so the invariant adds that every entry is labelled with its
  own scenario (`SetsLabelled`), and that a thread keeps its scenario from the
  look to the use.
* `TransitServerProofs`: `ReloadLeavesNoDangling` (`ReloadConsistent`), after a
  successful load for any number of threads, and after an update of everything by the only
  thread, for any number of updates and faults.  `ReloadInv` says, for each step of loading or of a reload of
  everything, which collections already refer to the current generations of those fetched
  before them; the order of the fetches is what makes it true.
* `TransitServerProofs`: `Refines` (`ImplementsRegistry`).  One lemma per action of the
  registry: the look that finds a set is a `Reuse`, because a cache entry is labelled with
  its scenario; building is a `Make`; the store may drop the set of another scenario and is
  a `Forget`, which must not drop what a thread holds; the end of a calculation and the
  step to the next alternative are a `Release`; an update is a `Reload` or nothing.
* `AlternativesProofs`: `Once` (`ReportedOnce`) and `Bounded` (`BoundsKept`).  That
  no set of lines is reported twice needs `FoundReported`: what was reported is
  among the sets found so far, which is what the loop compares with.  The bounds
  need `CountersAhead`: the counters run ahead of the lists they bound.
* `AlternativesProofs`: `ChoicesTried` (`EveryChoiceTried`), about a queue that grows while
  it is worked off and skips combinations, whatever `calculateSingle` answers.  The
  invariant `QInv` says that every set of lines of a journey reported, added to what was
  excluded for it, has been considered – queued at some time, or skipped – (`Considered`),
  and that what has been considered is covered, that is calculated or found to contain a
  failed combination, unless it still waits in the queue or a bound stops the loop
  (`NothingLost`).  It rests on two facts: the combinations `generate` numbers by their
  predecessors are all sets of the lines (`CombinationsComplete`), and calls made and
  failures noted stay (`CoveredKept`).
* `SelectionProofs`: what `At` selects (`AtSelects`): the positions are numbered one to
  one by the count of smaller ones, so that nothing is dropped or repeated.  Both
  `CombinationsComplete` and `NInv` use it.

Only model-checked, and why:

* liveness (`EveryQueryAnswered`, `RequestsAnswered`, `LoadEnds`): out of the prover's reach;
* `TimesAddUp` and `LoadConserved` are about sums, what a fold computes for every input: an
  induction over data, which the provers cannot do;
* `CountAsDocumented`: the counts are accumulated over the alternatives, likewise.

## 5. Not modelled, and the plan

Not modelled, and why:

* result conversion other than the summary: it formats the values `Summarize` and
  `Accessible` have;
* program options and clocks: the options that matter are constants or variables;
* the HTTP library, vendored: a pool of threads that run handlers;
* the trip-based prototype: its own makefile, not part of the build;
* households and places: their fetchers are commented out of the build;
* `forwardJourneyStep` beyond its exceptions: its journey is thrown away by
  `calculateSingle`;
* races inside one collection (undefined behaviour for every reader) and the text of
  responses.

Next, in this order:

1. An abstract query service (one atomic answer per request) and the calculator
   shown to implement it: `EarliestArrival`, `DepartureLatest` and `RouteArrives` are
   what its answer has to say.
2. The strongest condition on waiting times under which the reverse pass loses no route:
   `OneWait` is sufficient, not necessary.
