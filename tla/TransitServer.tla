---------------------------- MODULE TransitServer ----------------------------
(***************************************************************************)
(* The HTTP server: main() loads the data, keeps its status and serves     *)
(* requests with Threads.  A thread runs one handler at a time; between    *)
(* two steps of a handler other threads may run.  The handlers of          *)
(* /v2/route, /v2/summary and /v2/accessibility take similar steps on the  *)
(* shared state (the calculation itself is module Calculator); the other   *)
(* one is /updateCache.                                                    *)
(***************************************************************************)
EXTENDS TransitData

CONSTANTS
    Threads,        \* the thread pool
    Scenarios,      \* the uuids requests may name
    Handlers,       \* the routing resources that are asked for
    AskedNames,     \* the names updateCache requests may hold
    MaxNames,       \* bound on the names of one updateCache request
    MaxUpdates,     \* bound on the updateCache requests
    MaxCalculations \* bound on the calculations of one request (maxAlternatives)

\* (a set of no scenario is NoSet)
ASSUME ScenariosAssumption == "none" \notin Scenarios

ASSUME HandlersAssumption == Handlers \subseteq {"route", "summary", "accessibility"}

Names == Collections \cup {"all", "wrong"}

ASSUME NamesAssumption == AskedNames \subseteq Names

ASSUME BoundsAssumption ==
    MaxNames \in Nat /\ MaxUpdates \in Nat /\ MaxCalculations \in Nat \ {0}

VARIABLES
    phase,          \* "load", "serve", or "dead" when the constructor threw
    loading,        \* how many collections loadAllData has loaded
    loadStatus,     \* what loadAllData returned
    dataStatus,     \* the variable of main()
    cacheAll,       \* the program option cacheAllConnectionSets
    cache,          \* scenarioConnectionCache, as a function on its uuids
    pc,             \* per thread, the next step of its handler
    handler,        \* per thread, the handler of its routing request
    req,            \* per thread, the scenario asked for
    names,          \* per thread, cacheNames of its updateCache request
    nameI,          \* per thread, the next of those names
    todo,           \* per thread, the collections the current name has left
    scn,            \* per thread, the reference to the Scenario object
    set,            \* per thread, connectionSet of its Calculator
    response,       \* per thread, the last response sent
    updates,        \* updateCache requests so far
    calculations    \* per thread, the calculations of its request so far

serverVars == <<phase, loading, loadStatus, dataStatus, cacheAll>>

threadVars == <<pc, handler, req, names, nameI, todo, scn, set, response, updates, calculations>>

vars == <<dataVars, serverVars, cache, threadVars>>

\* a ConnectionSet: the scenario it was made for and what it refers to
NoSet == [scenario |-> "none", made |-> {}]

Init ==
    /\ DataInit
    /\ phase = "load" /\ loading = 0
    /\ loadStatus = "none" /\ dataStatus = "none"
    /\ cacheAll \in BOOLEAN
    /\ cache = [s \in {} |-> NoSet]
    /\ pc = [t \in Threads |-> "idle"]
    /\ handler \in [Threads -> Handlers]
    /\ req \in [Threads -> Scenarios]
    /\ names = [t \in Threads |-> <<>>]
    /\ nameI = [t \in Threads |-> 1]
    /\ todo = [t \in Threads |-> <<>>]
    /\ scn = [t \in Threads |-> 0]
    /\ set = [t \in Threads |-> NoSet]
    /\ response = [t \in Threads |-> "none"]
    /\ updates = 0
    /\ calculations = [t \in Threads |-> 1]

-----------------------------------------------------------------------------
(***************************************************************************)
(* main(): the constructor of TransitData, one collection per step, then   *)
(* the status that all requests will see.                                  *)
(***************************************************************************)
LoadNext ==
    /\ phase = "load"
    /\ loading < Len(LoadOrder) /\ LoadGoesOn(ret)
    /\ Update(LoadOrder[loading + 1])
    /\ loading' = loading + 1
    /\ UNCHANGED <<phase, loadStatus, dataStatus, cacheAll, cache, threadVars>>

LoadThrows ==
    /\ phase = "load" /\ ret = "throw"
    /\ phase' = "dead"
    /\ UNCHANGED <<dataVars, loading, loadStatus, dataStatus, cacheAll, cache, threadVars>>

StartServer ==
    /\ phase = "load" /\ ret # "throw"
    /\ loading = Len(LoadOrder) \/ ~ LoadGoesOn(ret)
    /\ loadStatus' = IF LoadGoesOn(ret) THEN getDataStatus ELSE "DATA_READ_ERROR"
    /\ dataStatus' = getDataStatus
    /\ phase' = "serve"
    /\ UNCHANGED <<dataVars, loading, cacheAll, cache, threadVars>>

-----------------------------------------------------------------------------
(***************************************************************************)
(* /updateCache.  A name is a collection, "all" or wrong (and ignored).    *)
(***************************************************************************)
\* faulty: paths are reloaded before the lines they refer to
UpdateAllOrderSwapped ==
    <<"dataSources", "persons", "odTrips", "agencies", "services", "nodes",
      "paths", "lines", "scenarios", "trips">>

\* the order of the tests in the handler's loop
UpdateAllOrder ==
    <<"dataSources", "persons", "odTrips", "agencies", "services", "nodes",
      "lines", "paths", "scenarios", "trips">>

\* what one name updates
UpdatesOf(name) ==
    IF name = "all" THEN UpdateAllOrder
    ELSE IF name \in Collections THEN <<name>> ELSE <<>>

\* requests of at most MaxNames names
NameLists == UNION {[1 .. k -> AskedNames] : k \in 0 .. MaxNames}

UpdateReceived(t) ==
    /\ phase = "serve" /\ pc[t] = "idle"
    /\ updates < MaxUpdates
    /\ updates' = updates + 1
    /\ \E list \in NameLists : names' = [names EXCEPT ![t] = list]
    /\ nameI' = [nameI EXCEPT ![t] = 1]
    /\ pc' = [pc EXCEPT ![t] = "update"]
    /\ UNCHANGED <<dataVars, serverVars, cache, handler, req, todo, scn, set, response, calculations>>

\* the next iteration of the loop over the names
UpdateName(t) ==
    /\ pc[t] = "update" /\ todo[t] = <<>>
    /\ nameI[t] <= Len(names[t])
    /\ todo' = [todo EXCEPT ![t] = UpdatesOf(names[t][nameI[t]])]
    /\ nameI' = [nameI EXCEPT ![t] = @ + 1]
    /\ UNCHANGED <<dataVars, serverVars, cache, pc, handler, req, names, scn, set, response, updates, calculations>>

\* the return code is ignored, an exception leaves the handler
UpdateNext(t) ==
    /\ pc[t] = "update" /\ todo[t] # <<>>
    /\ Update(Head(todo[t]))
    /\ IF ret' = "throw"
       THEN /\ pc' = [pc EXCEPT ![t] = "idle"]
            /\ todo' = [todo EXCEPT ![t] = <<>>]
            /\ response' = [response EXCEPT ![t] = "none"]
       ELSE /\ todo' = [todo EXCEPT ![t] = Tail(@)]
            /\ UNCHANGED <<pc, response>>
    /\ UNCHANGED <<serverVars, cache, handler, req, names, nameI, scn, set, updates, calculations>>

\* any list of names is a success; when all are wrong, pop_back() on an empty
\* string leaves a broken one: undefined, a response or an exception
UpdateAnswered(t) ==
    /\ pc[t] = "update" /\ todo[t] = <<>>
    /\ nameI[t] > Len(names[t])
    /\ pc' = [pc EXCEPT ![t] = "idle"]
    /\ \E what \in {"success", "error", "none"} :
         /\ what = "error" <=> names[t] = <<>>
         /\ what = "none" => \A k \in DOMAIN names[t] : names[t][k] = "wrong"
         /\ response' = [response EXCEPT ![t] = what]
    /\ UNCHANGED <<dataVars, serverVars, cache, handler, req, names, nameI, todo, scn, set, updates, calculations>>

-----------------------------------------------------------------------------
(***************************************************************************)
(* The routing handlers                                                    *)
(***************************************************************************)
Answer(t, what) ==
    /\ pc' = [pc EXCEPT ![t] = "idle"]
    /\ response' = [response EXCEPT ![t] = what]

RouteReceived(t) ==
    /\ phase = "serve" /\ pc[t] = "idle"
    /\ \E h \in Handlers : handler' = [handler EXCEPT ![t] = h]
    /\ \E s \in Scenarios : req' = [req EXCEPT ![t] = s]
    /\ names' = [names EXCEPT ![t] = <<>>]
    /\ IF dataStatus # "READY" THEN Answer(t, "data_error")
       ELSE pc' = [pc EXCEPT ![t] = "parse"] /\ UNCHANGED response
    /\ calculations' = [calculations EXCEPT ![t] = 1]
    /\ UNCHANGED <<dataVars, serverVars, cache, nameI, todo, scn, set, updates>>

\* createCommonParameter keeps a reference to the Scenario
ScenarioFound(t) ==
    /\ pc[t] = "parse"
    /\ filled["scenarios"]
    /\ scn' = [scn EXCEPT ![t] = gen["scenarios"]]
    /\ pc' = [pc EXCEPT ![t] = "get"]
    /\ UNCHANGED <<dataVars, serverVars, cache, handler, req, names, nameI, todo, set, response, updates, calculations>>

\* unknown scenario, or another parameter is wrong
ParameterError(t) ==
    /\ pc[t] = "parse"
    /\ Answer(t, "query_error")
    /\ UNCHANGED <<dataVars, serverVars, cache, handler, req, names, nameI, todo, scn, set, updates, calculations>>

\* the three noRoutingFoundResponse: a summary without routes is a success
NotFound(h) == IF h = "summary" THEN "success" ELSE "no_routing_found"

\* reset() finds no access or egress footpath
NoAccess(t) ==
    /\ pc[t] = "get"
    /\ Answer(t, NotFound(handler[t]))
    /\ UNCHANGED <<dataVars, serverVars, cache, handler, req, names, nameI, todo, scn, set, updates, calculations>>

\* the geofilter throws (OSRM has no duration for a node): caught as "..."
FilterThrows(t) ==
    /\ pc[t] = "get"
    /\ Answer(t, "query_error")
    /\ UNCHANGED <<dataVars, serverVars, cache, handler, req, names, nameI, todo, scn, set, updates, calculations>>

(***************************************************************************)
(* getConnectionsForScenario: look in the cache, else build the set from   *)
(* forwardConnections and reverseConnections, and store it.  Only the look *)
(* and the store hold the cache's mutex.                                   *)
(***************************************************************************)
CacheHit(t) ==
    /\ pc[t] \in {"get", "again"} /\ req[t] \in DOMAIN cache
    /\ set' = [set EXCEPT ![t] = cache[req[t]]]
    /\ pc' = [pc EXCEPT ![t] = "use"]
    /\ UNCHANGED <<dataVars, serverVars, cache, handler, req, names, nameI, todo, scn, response, updates, calculations>>

\* faulty: the set is stored without being built
CacheMissUnbuilt(t) ==
    /\ pc[t] \in {"get", "again"} /\ req[t] \notin DOMAIN cache
    /\ pc' = [pc EXCEPT ![t] = "store"]
    /\ UNCHANGED <<dataVars, serverVars, cache, handler, req, names, nameI, todo, scn, set, response, updates, calculations>>

CacheMiss(t) ==
    /\ pc[t] \in {"get", "again"} /\ req[t] \notin DOMAIN cache
    /\ pc' = [pc EXCEPT ![t] = "compute"]
    /\ UNCHANGED <<dataVars, serverVars, cache, handler, req, names, nameI, todo, scn, set, response, updates, calculations>>

Compute(t) ==
    /\ pc[t] = "compute"
    /\ set' = [set EXCEPT ![t] = [scenario |-> req[t], made |-> refs["forward"]]]
    /\ pc' = [pc EXCEPT ![t] = "store"]
    /\ UNCHANGED <<dataVars, serverVars, cache, handler, req, names, nameI, todo, scn, response, updates, calculations>>

\* faulty: lastUuid is left as it was
CacheSetOneUuidKept(s, x) == [u \in DOMAIN cache \cup {s} |-> x]

\* ScenarioConnectionCacheOne::set and ScenarioConnectionCacheAll::set
CacheSetOne(s, x) == [u \in {s} |-> x]

CacheSetAll(s, x) ==
    [u \in DOMAIN cache \cup {s} |-> IF u = s THEN x ELSE cache[u]]

\* faulty: the set is looked up again instead of being kept
StoreThenLook(t) ==
    /\ pc[t] = "store"
    /\ cache' = IF cacheAll THEN CacheSetAll(req[t], set[t]) ELSE CacheSetOne(req[t], set[t])
    /\ pc' = [pc EXCEPT ![t] = "again"]
    /\ UNCHANGED <<dataVars, serverVars, handler, req, names, nameI, todo, scn, set, response, updates, calculations>>

Store(t) ==
    /\ pc[t] = "store"
    /\ cache' = IF cacheAll THEN CacheSetAll(req[t], set[t]) ELSE CacheSetOne(req[t], set[t])
    /\ pc' = [pc EXCEPT ![t] = "use"]
    /\ UNCHANGED <<dataVars, serverVars, handler, req, names, nameI, todo, scn, set, response, updates, calculations>>

(***************************************************************************)
(* alternativesRouting: one more calculateSingle for the next combination. *)
(* It keeps the footpaths but asks for the connections of the scenario     *)
(* again, so an update may come between two alternatives of one answer.    *)
(***************************************************************************)
NextAlternative(t) ==
    /\ pc[t] = "use" /\ handler[t] # "accessibility"
    /\ calculations[t] < MaxCalculations
    /\ calculations' = [calculations EXCEPT ![t] = @ + 1]
    /\ pc' = [pc EXCEPT ![t] = "again"]
    /\ UNCHANGED <<dataVars, serverVars, cache, handler, req, names, nameI, todo, scn, set, response, updates>>

\* the three answers, with a result or without
RouteAnswered(t) ==
    /\ pc[t] = "use" /\ handler[t] = "route"
    /\ \E what \in {"success", NotFound("route")} : Answer(t, what)
    /\ UNCHANGED <<dataVars, serverVars, cache, handler, req, names, nameI, todo, scn, set, updates, calculations>>

SummaryAnswered(t) ==
    /\ pc[t] = "use" /\ handler[t] = "summary"
    /\ Answer(t, "success")
    /\ UNCHANGED <<dataVars, serverVars, cache, handler, req, names, nameI, todo, scn, set, updates, calculations>>

AccessibilityAnswered(t) ==
    /\ pc[t] = "use" /\ handler[t] = "accessibility"
    /\ \E what \in {"success", NotFound("accessibility")} : Answer(t, what)
    /\ UNCHANGED <<dataVars, serverVars, cache, handler, req, names, nameI, todo, scn, set, updates, calculations>>

\* a step of the handler that thread t runs
HandlerStep(t) ==
    \/ UpdateName(t) \/ UpdateNext(t) \/ UpdateAnswered(t)
    \/ ScenarioFound(t) \/ ParameterError(t) \/ NoAccess(t) \/ FilterThrows(t)
    \/ CacheHit(t) \/ CacheMiss(t) \/ Compute(t) \/ Store(t) \/ NextAlternative(t)
    \/ RouteAnswered(t) \/ SummaryAnswered(t) \/ AccessibilityAnswered(t)

Next ==
    \/ LoadNext \/ LoadThrows \/ StartServer
    \/ \E t \in Threads : UpdateReceived(t) \/ RouteReceived(t) \/ HandlerStep(t)

Spec == Init /\ [][Next]_vars

\* a thread of the pool that runs a handler is scheduled until it returns; the
\* mutex of the cache is held within single steps only
FairSpec == Spec /\ \A t \in Threads : WF_vars(HandlerStep(t))

-----------------------------------------------------------------------------
ConnectionSets ==
    [scenario : Scenarios, made : SUBSET (Collections \X Nat)]

Waiting == {"get", "again", "compute", "store", "use"}

(***************************************************************************)
(* The state of main(), of TransitData and of every request thread keeps   *)
(* its type; in particular what enters the cache is a finished set of a    *)
(* scenario somebody asked for.                                            *)
(***************************************************************************)
TypeOK ==
    /\ gen \in [Collections -> Nat]
    /\ filled \in [Collections -> BOOLEAN]
    /\ refs \in [Collections \cup {"forward"} -> SUBSET (Collections \X Nat)]
    /\ ret \in {"ok", "missing", "error", "throw"}
    /\ loading \in 0 .. Len(LoadOrder)
    /\ phase \in {"load", "serve", "dead"}
    /\ DOMAIN cache \subseteq Scenarios
    /\ \A s \in DOMAIN cache : cache[s] \in ConnectionSets
    /\ pc \in [Threads -> {"idle", "update", "parse"} \cup Waiting]
    /\ handler \in [Threads -> Handlers]
    /\ req \in [Threads -> Scenarios]
    /\ names \in [Threads -> Seq(Names)]
    /\ nameI \in [Threads -> Nat \ {0}]
    /\ todo \in [Threads -> Seq(Collections)]
    /\ scn \in [Threads -> Nat]
    /\ set \in [Threads -> ConnectionSets \cup {NoSet}]
    /\ calculations \in [Threads -> Nat]

(***************************************************************************)
(* getConnectionsForScenario: whatever threads look, build and store at    *)
(* the same time, for both kinds of cache and across updates, a request is *)
(* calculated with the connections of the scenario it names.               *)
(***************************************************************************)
OwnScenarioServed ==
    \A t \in Threads : pc[t] = "use" => set[t].scenario = req[t]

\* what routing reads; persons and od_trips are read by nobody in the server
RoutingData == {"nodes", "agencies", "services", "lines", "paths", "scenarios", "trips", "forward"}

(***************************************************************************)
(* After loadAllData said READY, and after an update of "all" by the only  *)
(* thread whose schedules could be read, nothing that routing reads refers *)
(* to an object that was destroyed: the two orders reload each collection  *)
(* after those it refers to, and failing fetches do not change that.       *)
(***************************************************************************)
ReloadConsistent ==
    \/ phase = "serve" /\ updates = 0 /\ loadStatus = "READY"
    \/ \E t \in Threads : /\ Threads = {t}
                           /\ pc[t] = "update" /\ todo[t] = <<>>
                           /\ nameI[t] > Len(names[t])
                           /\ names[t] = <<"all">> /\ ret = "ok"
    => \A c \in RoutingData : Live(c)

(***************************************************************************)
(* transit_routing_http_server.cpp:264, after the updates: "Reinit some    *)
(* data after the update".  The connection set a request is calculated     *)
(* with consists of connections that still exist.                          *)
(***************************************************************************)
ServedSetLive ==
    \A t \in Threads : pc[t] = "use" => \A r \in set[t].made : gen[r[1]] = r[2]

(***************************************************************************)
(* Every request is answered (or its handler ends with an exception): two  *)
(* threads that evict each other's scenario from the cache, and updates in *)
(* between, do not keep a handler from returning.                          *)
(***************************************************************************)
RequestsAnswered ==
    \A t \in Threads : pc[t] # "idle" ~> pc[t] = "idle"

(***************************************************************************)
(* The refinement mapping: a thread holds its set from the moment it is    *)
(* built or found until the calculation is over, and the sets kept are     *)
(* those that the cache or a thread points to (shared_ptr).                *)
(***************************************************************************)
Holds(t) == pc[t] \in {"store", "use"}

Kept ==
    {cache[s] : s \in DOMAIN cache} \cup {set[t] : t \in {u \in Threads : Holds(u)}}

Registry ==
    INSTANCE ConnectionRegistry
    WITH Clients <- Threads, Ids <- Scenarios, Nothing <- NoSet,
         Contents <- SUBSET (Collections \X Nat),
         asked <- req, kept <- Kept, loaded <- refs["forward"],
         held <- [t \in Threads |-> IF Holds(t) THEN set[t] ELSE NoSet]

(***************************************************************************)
(* getConnectionsForScenario with its cache, whose look and store are      *)
(* separate steps, implements the registry: whatever other threads store   *)
(* or an update reloads in between, a thread gets a set made for its       *)
(* scenario, now or while somebody kept it.                                *)
(***************************************************************************)
ImplementsRegistry == Registry!Spec
=============================================================================
