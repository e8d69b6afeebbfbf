------------------------- MODULE TransitServerProofs -------------------------
(***************************************************************************)
(* For every number of threads and scenarios, for both kinds of cache and  *)
(* whatever updates run in between: TypeOK, OwnScenarioServed, that a full *)
(* update leaves no dangling reference (ReloadConsistent), and that the    *)
(* server implements ConnectionRegistry.                                   *)
(***************************************************************************)
EXTENDS TransitServer, TLAPS

(***************************************************************************)
(* A set is labelled with the scenario it was built for when it enters the *)
(* cache and when a thread holds it, so the one a thread uses is its own.  *)
(***************************************************************************)
SetsLabelled ==
    /\ \A s \in DOMAIN cache : cache[s].scenario = s
    /\ \A t \in Threads : pc[t] \in {"store", "use"} =>
          set[t] \in ConnectionSets /\ set[t].scenario = req[t]

IInv == TypeOK /\ SetsLabelled

-----------------------------------------------------------------------------
LEMMA CollectionNames ==
    Collections = {"nodes", "dataSources", "persons", "odTrips", "agencies", "services",
                   "lines", "paths", "scenarios", "trips"}
BY DEF Collections

LEMMA Orders ==
    /\ LoadOrder \in Seq(Collections)
    /\ UpdateAllOrder \in Seq(Collections)
BY CollectionNames DEF LoadOrder, UpdateAllOrder

\* the types of the variables of TransitData
DataTypeOK ==
    /\ gen \in [Collections -> Nat]
    /\ filled \in [Collections -> BOOLEAN]
    /\ refs \in [Collections \cup {"forward"} -> SUBSET (Collections \X Nat)]
    /\ ret \in {"ok", "missing", "error", "throw"}

LEMMA RefsToType ==
    ASSUME DataTypeOK, NEW S \in SUBSET Collections
    PROVE  RefsTo(S) \subseteq Collections \X Nat
BY DEF RefsTo, DataTypeOK

\* a fetcher keeps the types, whatever it finds in the files
LEMMA FetchType ==
    ASSUME DataTypeOK, NEW c \in Collections, NEW codes \in SUBSET (Codes \cup {"throw"}),
           NEW needed, NEW held \in SUBSET Collections, Fetch(c, codes, needed, held)
    PROVE  DataTypeOK'
<1>1. RefsTo(held) \in SUBSET (Collections \X Nat)
  BY RefsToType
<1>2. PICK code \in codes, some \in BOOLEAN :
        /\ ret' = code
        /\ gen' = [gen EXCEPT ![c] = @ + 1]
        /\ filled' = [filled EXCEPT ![c] = some]
        /\ refs' = [refs EXCEPT ![c] = IF some THEN RefsTo(held) ELSE {}]
  BY DEF Fetch
<1>3. ret' \in {"ok", "missing", "error", "throw"}
  BY <1>2 DEF Codes
<1>4. gen' \in [Collections -> Nat]
  BY <1>2 DEF DataTypeOK
<1>5. filled' \in [Collections -> BOOLEAN]
  BY <1>2, Zenon DEF DataTypeOK
<1>6. refs' \in [Collections \cup {"forward"} -> SUBSET (Collections \X Nat)]
  BY <1>1, <1>2 DEF DataTypeOK
<1> QED
  BY <1>3, <1>4, <1>5, <1>6 DEF DataTypeOK

LEMMA OdTripsType ==
    ASSUME DataTypeOK, getOdTrips
    PROVE  DataTypeOK'
<1> DEFINE held == {"dataSources", "persons", "nodes"}
<1>1. "odTrips" \in Collections /\ RefsTo(held) \in SUBSET (Collections \X Nat)
  BY CollectionNames, RefsToType
<1>2. PICK some \in BOOLEAN :
        /\ ret' = "ok" /\ gen' = gen
        /\ filled' = [filled EXCEPT !["odTrips"] = @ \/ some]
        /\ refs' = [refs EXCEPT !["odTrips"] = @ \cup IF some THEN RefsTo(held) ELSE {}]
  BY DEF getOdTrips
<1>3. filled' \in [Collections -> BOOLEAN]
  BY <1>2, Zenon DEF DataTypeOK
<1>4. (refs["odTrips"] \cup IF some THEN RefsTo(held) ELSE {}) \in SUBSET (Collections \X Nat)
  <2>1. refs["odTrips"] \in SUBSET (Collections \X Nat)
    BY <1>1 DEF DataTypeOK
  <2> QED
    BY <1>1, <2>1
<1>5. refs' \in [Collections \cup {"forward"} -> SUBSET (Collections \X Nat)]
  BY <1>2, <1>4 DEF DataTypeOK
<1> QED
  BY <1>2, <1>3, <1>5 DEF DataTypeOK

LEMMA SchedulesType ==
    ASSUME DataTypeOK, updateSchedules
    PROVE  DataTypeOK'
<1> DEFINE held == {"lines", "agencies", "services", "paths", "nodes"}
           made(some) == IF some THEN {<<"trips", gen["trips"] + 1>>} ELSE {}
<1>1. /\ "trips" \in Collections /\ "paths" \in Collections
      /\ RefsTo(held) \in SUBSET (Collections \X Nat)
  BY CollectionNames, RefsToType
<1>2. PICK code \in {"ok", "error", "throw"}, some \in BOOLEAN :
        /\ ret' = code
        /\ gen' = [gen EXCEPT !["trips"] = @ + 1]
        /\ filled' = [filled EXCEPT !["trips"] = some]
        /\ refs' = [refs EXCEPT !["trips"] = IF some THEN RefsTo(held) ELSE {},
                                !["paths"] = @ \cup made(some),
                                !["forward"] = IF code = "ok" THEN made(some) ELSE @]
  BY DEF updateSchedules
<1>3. made(some) \in SUBSET (Collections \X Nat)
  BY <1>1 DEF DataTypeOK
<1> HIDE DEF held, made
<1>4. gen' \in [Collections -> Nat]
  BY <1>1, <1>2 DEF DataTypeOK
<1>5. filled' \in [Collections -> BOOLEAN]
  BY <1>2, Zenon DEF DataTypeOK
<1>6. refs' \in [Collections \cup {"forward"} -> SUBSET (Collections \X Nat)]
  <2>1. \A x \in Collections \cup {"forward"} : refs'[x] \in SUBSET (Collections \X Nat)
    BY <1>1, <1>2, <1>3 DEF DataTypeOK
  <2>2. refs' = [x \in Collections \cup {"forward"} |-> refs'[x]]
    BY <1>2 DEF DataTypeOK
  <2> QED
    BY <2>1, <2>2
<1> QED
  BY <1>2, <1>4, <1>5, <1>6 DEF DataTypeOK

LEMMA UpdateType ==
    ASSUME DataTypeOK, NEW c \in Collections, Update(c)
    PROVE  DataTypeOK'
<1> USE CollectionNames
<1>1. CASE getNodes
  BY <1>1, FetchType DEF getNodes
<1>2. CASE getDataSources
  BY <1>2, FetchType DEF getDataSources
<1>3. CASE getPersons
  BY <1>3, FetchType DEF getPersons, Codes
<1>4. CASE getAgencies
  BY <1>4, FetchType DEF getAgencies
<1>5. CASE getServices
  BY <1>5, FetchType DEF getServices
<1>6. CASE getLines
  BY <1>6, FetchType DEF getLines
<1>7. CASE getPaths
  BY <1>7, FetchType DEF getPaths
<1>8. CASE getScenarios
  BY <1>8, FetchType DEF getScenarios
<1> QED
  BY <1>1, <1>2, <1>3, <1>4, <1>5, <1>6, <1>7, <1>8, OdTripsType, SchedulesType DEF Update

-----------------------------------------------------------------------------
LEMMA InitIInv == Init => IInv
<1> SUFFICES ASSUME Init PROVE IInv
  OBVIOUS
<1>1. DataTypeOK /\ loading \in 0 .. Len(LoadOrder)
  BY Orders DEF Init, DataInit, DataTypeOK
<1> QED
  BY <1>1 DEF Init, IInv, TypeOK, DataTypeOK, SetsLabelled

\* the steps of main() leave the threads and the cache alone
LEMMA MainIInv ==
    ASSUME IInv, LoadNext \/ LoadThrows \/ StartServer
    PROVE  IInv'
<1>1. DataTypeOK /\ loading \in 0 .. Len(LoadOrder)
  BY DEF IInv, TypeOK, DataTypeOK
<1>2. DataTypeOK' /\ loading' \in 0 .. Len(LoadOrder)
  <2>1. CASE LoadNext
    <3>1. /\ loading + 1 \in 1 .. Len(LoadOrder)
          /\ Update(LoadOrder[loading + 1]) /\ loading' = loading + 1
      BY <1>1, <2>1, Orders DEF LoadNext
    <3>2. LoadOrder[loading + 1] \in Collections
      BY <3>1, Orders
    <3> QED
      BY <1>1, <3>1, <3>2, UpdateType
  <2>2. CASE LoadThrows \/ StartServer
    BY <1>1, <2>2 DEF LoadThrows, StartServer, DataTypeOK, dataVars
  <2> QED
    BY <2>1, <2>2
<1>3. phase' \in {"load", "serve", "dead"}
  BY DEF IInv, TypeOK, LoadNext, LoadThrows, StartServer
<1>4. UNCHANGED <<cache, threadVars>>
  BY DEF LoadNext, LoadThrows, StartServer
<1> QED
  BY <1>2, <1>3, <1>4 DEF IInv, TypeOK, DataTypeOK, SetsLabelled, threadVars

(***************************************************************************)
(* /updateCache touches neither the cache nor the sets that threads hold.  *)
(***************************************************************************)
LEMMA UpdateIInv ==
    ASSUME IInv, NEW t \in Threads,
           UpdateReceived(t) \/ UpdateName(t) \/ UpdateNext(t) \/ UpdateAnswered(t)
    PROVE  IInv'
<1>1. TypeOK /\ SetsLabelled /\ DataTypeOK
  BY DEF IInv, TypeOK, DataTypeOK
<1>2. DataTypeOK' /\ UNCHANGED <<phase, loading>>
  <2>1. CASE UpdateNext(t)
    <3>1. Head(todo[t]) \in Collections /\ Update(Head(todo[t]))
      BY <1>1, <2>1 DEF UpdateNext, TypeOK
    <3> QED
      BY <1>1, <2>1, <3>1, UpdateType DEF UpdateNext, serverVars
  <2>2. CASE ~ UpdateNext(t)
    BY <1>1, <2>2 DEF UpdateReceived, UpdateName, UpdateAnswered, DataTypeOK, dataVars, serverVars
  <2> QED
    BY <2>1, <2>2
<1>3. /\ UNCHANGED <<cache, handler, req, scn, set, calculations>>
      /\ pc' = pc \/ pc' = [pc EXCEPT ![t] = "update"] \/ pc' = [pc EXCEPT ![t] = "idle"]
  BY DEF UpdateReceived, UpdateName, UpdateNext, UpdateAnswered
<1>4. names' \in [Threads -> Seq(Names)]
  <2>1. CASE UpdateReceived(t)
    <3>1. NameLists \subseteq Seq(Names)
      BY BoundsAssumption, NamesAssumption DEF NameLists
    <3> QED
      BY <1>1, <2>1, <3>1 DEF UpdateReceived, TypeOK
  <2>2. CASE ~ UpdateReceived(t)
    BY <1>1, <2>2 DEF UpdateName, UpdateNext, UpdateAnswered, TypeOK
  <2> QED
    BY <2>1, <2>2
<1>5. nameI' \in [Threads -> Nat \ {0}]
  BY <1>1 DEF UpdateReceived, UpdateName, UpdateNext, UpdateAnswered, TypeOK
<1>6. todo' \in [Threads -> Seq(Collections)]
  <2>1. CASE UpdateName(t)
    <3>1. \A n : UpdatesOf(n) \in Seq(Collections)
      BY Orders DEF UpdatesOf
    <3> QED
      BY <1>1, <2>1, <3>1 DEF UpdateName, TypeOK
  <2>2. CASE UpdateNext(t)
    <3>1. Tail(todo[t]) \in Seq(Collections) /\ <<>> \in Seq(Collections)
      BY <1>1, <2>2 DEF UpdateNext, TypeOK
    <3> QED
      BY <1>1, <2>2, <3>1 DEF UpdateNext, TypeOK
  <2>3. CASE UpdateReceived(t) \/ UpdateAnswered(t)
    BY <1>1, <2>3 DEF UpdateReceived, UpdateAnswered, TypeOK
  <2> QED
    BY <2>1, <2>2, <2>3
<1>7. TypeOK'
  BY <1>1, <1>2, <1>3, <1>4, <1>5, <1>6 DEF TypeOK, DataTypeOK
<1>8. SetsLabelled'
  BY <1>1, <1>3 DEF SetsLabelled, TypeOK
<1> QED
  BY <1>7, <1>8 DEF IInv

-----------------------------------------------------------------------------
\* the routing handlers leave the data and the update requests alone
LEMMA RouteFrame ==
    ASSUME TypeOK, NEW t \in Threads,
           \/ RouteReceived(t) \/ ScenarioFound(t) \/ ParameterError(t) \/ NoAccess(t) \/ FilterThrows(t)
           \/ CacheHit(t) \/ CacheMiss(t) \/ Compute(t) \/ Store(t) \/ NextAlternative(t)
           \/ RouteAnswered(t) \/ SummaryAnswered(t) \/ AccessibilityAnswered(t)
    PROVE  /\ UNCHANGED <<dataVars, phase, loading, nameI, todo>>
           /\ names' \in [Threads -> Seq(Names)] /\ calculations' \in [Threads -> Nat]
<1>1. UNCHANGED <<dataVars, phase, loading, nameI, todo>>
  BY DEF RouteReceived, ScenarioFound, ParameterError, NoAccess, FilterThrows,
         CacheHit, CacheMiss, Compute, Store, NextAlternative, RouteAnswered, SummaryAnswered,
         AccessibilityAnswered, serverVars
<1>2. names' = names \/ names' = [names EXCEPT ![t] = <<>>]
  BY DEF RouteReceived, ScenarioFound, ParameterError, NoAccess, FilterThrows,
         CacheHit, CacheMiss, Compute, Store, NextAlternative, RouteAnswered, SummaryAnswered,
         AccessibilityAnswered
<1>3. \/ calculations' = calculations
      \/ calculations' = [calculations EXCEPT ![t] = 1]
      \/ calculations' = [calculations EXCEPT ![t] = @ + 1]
  BY DEF RouteReceived, ScenarioFound, ParameterError, NoAccess, FilterThrows,
         CacheHit, CacheMiss, Compute, Store, NextAlternative, RouteAnswered, SummaryAnswered,
         AccessibilityAnswered
<1>4. names' \in [Threads -> Seq(Names)]
  <2>1. <<>> \in Seq(Names)
    OBVIOUS
  <2> QED
    BY <1>2, <2>1 DEF TypeOK
<1>5. calculations' \in [Threads -> Nat]
  <2>1. calculations \in [Threads -> Nat]
    BY DEF TypeOK
  <2>2. calculations[t] \in Nat /\ calculations[t] + 1 \in Nat
    BY <2>1
  <2> QED
    BY <1>3, <2>1, <2>2
<1> QED
  BY <1>1, <1>4, <1>5

(***************************************************************************)
(* The steps that neither give a thread a set nor fill the cache.          *)
(***************************************************************************)
LEMMA RequestIInv ==
    ASSUME IInv, NEW t \in Threads,
           \/ RouteReceived(t) \/ ScenarioFound(t) \/ ParameterError(t) \/ NoAccess(t) \/ FilterThrows(t)
           \/ CacheMiss(t) \/ NextAlternative(t)
           \/ RouteAnswered(t) \/ SummaryAnswered(t) \/ AccessibilityAnswered(t)
    PROVE  IInv'
<1>1. TypeOK /\ SetsLabelled
  BY DEF IInv
<1>2. /\ UNCHANGED <<dataVars, phase, loading, nameI, todo>>
      /\ names' \in [Threads -> Seq(Names)] /\ calculations' \in [Threads -> Nat]
  BY <1>1, RouteFrame
<1>3. UNCHANGED <<cache, set>>
  BY DEF RouteReceived, ScenarioFound, ParameterError, NoAccess, FilterThrows, CacheMiss, NextAlternative,
         RouteAnswered, SummaryAnswered, AccessibilityAnswered
<1>4. \/ pc' = [pc EXCEPT ![t] = "idle"] \/ pc' = [pc EXCEPT ![t] = "parse"]
      \/ pc' = [pc EXCEPT ![t] = "get"] \/ pc' = [pc EXCEPT ![t] = "compute"]
      \/ pc' = [pc EXCEPT ![t] = "again"]
  BY DEF RouteReceived, ScenarioFound, ParameterError, NoAccess, FilterThrows, CacheMiss, NextAlternative,
         RouteAnswered, SummaryAnswered, AccessibilityAnswered, Answer
<1>5. \/ req' = req
      \/ \E s \in Scenarios : req' = [req EXCEPT ![t] = s]
  BY DEF RouteReceived, ScenarioFound, ParameterError, NoAccess, FilterThrows, CacheMiss, NextAlternative,
         RouteAnswered, SummaryAnswered, AccessibilityAnswered
<1>6. scn' \in [Threads -> Nat]
  <2>1. gen["scenarios"] \in Nat
    BY <1>1, CollectionNames DEF TypeOK
  <2> QED
    BY <1>1, <2>1
       DEF RouteReceived, ScenarioFound, ParameterError, NoAccess, FilterThrows, CacheMiss, NextAlternative,
         RouteAnswered, SummaryAnswered, AccessibilityAnswered, TypeOK
<1>7. pc' \in [Threads -> {"idle", "update", "parse"} \cup Waiting] /\ req' \in [Threads -> Scenarios]
  <2>1. pc \in [Threads -> {"idle", "update", "parse"} \cup Waiting] /\ req \in [Threads -> Scenarios]
    BY <1>1 DEF TypeOK
  <2>2. {"idle", "parse", "get", "compute", "again"} \subseteq {"idle", "update", "parse"} \cup Waiting
    BY DEF Waiting
  <2>3. pc' \in [Threads -> {"idle", "update", "parse"} \cup Waiting]
    BY <1>4, <2>1, <2>2
  <2>4. req' \in [Threads -> Scenarios]
    BY <1>5, <2>1
  <2> QED
    BY <2>3, <2>4
<1>8. handler' \in [Threads -> Handlers]
  BY <1>1
     DEF RouteReceived, ScenarioFound, ParameterError, NoAccess, FilterThrows, CacheMiss, NextAlternative,
         RouteAnswered, SummaryAnswered, AccessibilityAnswered, TypeOK
<1>9. TypeOK'
  BY <1>1, <1>2, <1>3, <1>6, <1>7, <1>8 DEF TypeOK, dataVars
<1>10. \A u \in Threads : pc'[u] \in {"store", "use"} => u # t /\ pc'[u] = pc[u] /\ req'[u] = req[u]
  BY <1>1, <1>4, <1>5 DEF TypeOK
<1>11. SetsLabelled'
  BY <1>1, <1>3, <1>10 DEF SetsLabelled
<1> QED
  BY <1>9, <1>11 DEF IInv

(***************************************************************************)
(* getConnectionsForScenario: a hit, a new set and its storing.            *)
(***************************************************************************)
LEMMA GetConnectionsIInv ==
    ASSUME IInv, NEW t \in Threads, CacheHit(t) \/ Compute(t) \/ Store(t)
    PROVE  IInv'
<1>1. TypeOK /\ SetsLabelled
  BY DEF IInv
<1>2. /\ UNCHANGED <<dataVars, phase, loading, nameI, todo>>
      /\ names' \in [Threads -> Seq(Names)] /\ calculations' \in [Threads -> Nat]
  BY <1>1, RouteFrame
<1>3. /\ UNCHANGED <<handler, req, scn>>
      /\ pc' = [pc EXCEPT ![t] = "use"] \/ pc' = [pc EXCEPT ![t] = "store"]
  BY DEF CacheHit, Compute, Store
<1>4. pc' \in [Threads -> {"idle", "update", "parse"} \cup Waiting]
  BY <1>1, <1>3 DEF TypeOK, Waiting
<1>5. \A u \in Threads \ {t} : pc'[u] = pc[u]
  BY <1>1, <1>3 DEF TypeOK
<1>6. CASE CacheHit(t)
  <2>1. /\ set' = [set EXCEPT ![t] = cache[req[t]]] /\ cache' = cache
        /\ req[t] \in DOMAIN cache
    BY <1>6 DEF CacheHit
  <2>2. cache[req[t]] \in ConnectionSets /\ cache[req[t]].scenario = req[t]
    BY <1>1, <2>1 DEF TypeOK, SetsLabelled
  <2>3. TypeOK'
    BY <1>1, <1>2, <1>3, <1>4, <2>1, <2>2 DEF TypeOK, dataVars
  <2>4. SetsLabelled'
    BY <1>1, <1>3, <1>5, <2>1, <2>2 DEF TypeOK, SetsLabelled
  <2> QED
    BY <2>3, <2>4 DEF IInv
<1>7. CASE Compute(t)
  <2> DEFINE new == [scenario |-> req[t], made |-> refs["forward"]]
  <2>1. set' = [set EXCEPT ![t] = new] /\ cache' = cache
    BY <1>7 DEF Compute
  <2>2. new \in ConnectionSets /\ new.scenario = req[t]
    BY <1>1 DEF TypeOK, ConnectionSets
  <2> HIDE DEF new
  <2>3. TypeOK'
    BY <1>1, <1>2, <1>3, <1>4, <2>1, <2>2 DEF TypeOK, dataVars
  <2>4. SetsLabelled'
    BY <1>1, <1>3, <1>5, <2>1, <2>2 DEF TypeOK, SetsLabelled
  <2> QED
    BY <2>3, <2>4 DEF IInv
<1>8. CASE Store(t)
  <2>1. /\ set' = set /\ pc[t] = "store"
        /\ \/ cache' = CacheSetAll(req[t], set[t])
           \/ cache' = CacheSetOne(req[t], set[t])
    BY <1>8 DEF Store
  <2>2. set[t] \in ConnectionSets /\ set[t].scenario = req[t] /\ req[t] \in Scenarios
    BY <1>1, <2>1 DEF SetsLabelled, TypeOK
  <2>3. /\ DOMAIN cache' \subseteq Scenarios
        /\ \A s \in DOMAIN cache' : cache'[s] \in ConnectionSets /\ cache'[s].scenario = s
    BY <1>1, <2>1, <2>2 DEF SetsLabelled, TypeOK, CacheSetOne, CacheSetAll
  <2>4. TypeOK'
    BY <1>1, <1>2, <1>3, <1>4, <2>1, <2>3 DEF TypeOK, dataVars
  <2>5. SetsLabelled'
    BY <1>1, <1>3, <1>5, <2>1, <2>2, <2>3 DEF TypeOK, SetsLabelled
  <2> QED
    BY <2>4, <2>5 DEF IInv
<1> QED
  BY <1>6, <1>7, <1>8

LEMMA NextIInv == IInv /\ [Next]_vars => IInv'
<1> SUFFICES ASSUME IInv, [Next]_vars PROVE IInv'
  OBVIOUS
<1>1. CASE UNCHANGED vars
  BY <1>1 DEF vars, dataVars, serverVars, threadVars, IInv, TypeOK, SetsLabelled
<1> QED
  BY <1>1, MainIInv, UpdateIInv, RequestIInv, GetConnectionsIInv DEF Next, HandlerStep

LEMMA SpecIInv == Spec => []IInv
BY InitIInv, NextIInv, PTL DEF Spec

-----------------------------------------------------------------------------
(***************************************************************************)
(* TransitData and the handlers keep their types through any interleaving  *)
(* of requests and updates.                                                *)
(***************************************************************************)
THEOREM TypeCorrect == Spec => []TypeOK
<1>1. IInv => TypeOK
  BY DEF IInv
<1> QED
  BY <1>1, SpecIInv, PTL

(***************************************************************************)
(* getConnectionsForScenario, for every number of threads and scenarios    *)
(* and both caches: every request is calculated with its own scenario.     *)
(***************************************************************************)
THEOREM OwnScenario == Spec => []OwnScenarioServed
<1>1. IInv => OwnScenarioServed
  BY DEF IInv, SetsLabelled, OwnScenarioServed
<1> QED
  BY <1>1, SpecIInv, PTL

-----------------------------------------------------------------------------
(***************************************************************************)
(* Reloading.  A pass over the collections (loadAllData, or an update of   *)
(* "all") has renewed a set S of them so far: what those hold refers to    *)
(* present objects of collections in S only, which the rest of the pass    *)
(* will leave alone.  forward is renewed with trips, when those are read.  *)
(***************************************************************************)
RefersTo(c, S) == \A r \in refs[c] : r[1] \in S /\ gen[r[1]] = r[2]

Renewed(S) ==
    /\ \A c \in RoutingData \cap S : RefersTo(c, S)
    /\ "trips" \in S /\ LoadGoesOn(ret) => RefersTo("forward", S)

\* c may be reloaded next: the collections it will refer to are renewed.
Ready(c, S) ==
    /\ c \in Collections \ S /\ "trips" \notin S
    /\ c = "lines" => "agencies" \in S
    /\ c = "paths" => {"lines", "nodes"} \subseteq S
    /\ c = "scenarios" => {"services", "lines", "agencies", "nodes"} \subseteq S
    /\ c = "trips" => {"lines", "agencies", "services", "paths", "nodes"} \subseteq S

\* a fetcher leaves references to renewed collections, and to no others
LEMMA FetchRenews ==
    ASSUME DataTypeOK, NEW S, Renewed(S), NEW c \in Collections \ S, "trips" \notin S, c # "trips",
           NEW codes, NEW needed, NEW held, c \in RoutingData => held \subseteq S,
           Fetch(c, codes, needed, held)
    PROVE  Renewed(S \cup {c})'
<1>1. PICK some \in BOOLEAN :
        /\ gen' = [gen EXCEPT ![c] = @ + 1]
        /\ refs' = [refs EXCEPT ![c] = IF some THEN RefsTo(held) ELSE {}]
  BY DEF Fetch
<1>2. \A d \in Collections \ {c} : gen'[d] = gen[d]
  BY <1>1 DEF DataTypeOK
<1>3. ASSUME NEW b \in RoutingData \cap S, NEW r \in refs'[b]
      PROVE  r[1] \in S /\ gen'[r[1]] = r[2]
  <2>1. r \in refs[b] /\ b # c
    BY <1>1, <1>3 DEF DataTypeOK
  <2>2. b \in Collections \cup {"forward"}
    BY CollectionNames DEF RoutingData
  <2>3. r[1] \in S /\ gen[r[1]] = r[2] /\ r[1] \in Collections
    <3>1. r \in Collections \X Nat
      BY <2>1, <2>2 DEF DataTypeOK
    <3> QED
      BY <2>1, <3>1 DEF Renewed, RefersTo
  <2> QED
    BY <1>2, <2>3
<1>4. ASSUME c \in RoutingData, NEW r \in refs'[c]
      PROVE  r[1] \in S /\ gen'[r[1]] = r[2]
  <2>1. r \in RefsTo(held)
    BY <1>1, <1>4 DEF DataTypeOK
  <2>2. PICK d \in held : r = <<d, gen[d]>>
    BY <2>1 DEF RefsTo
  <2>3. d \in S /\ d # c
    BY <1>4, <2>2
  <2>4. gen'[d] = gen[d]
    BY <1>1, <2>3 DEF DataTypeOK
  <2> QED
    BY <2>2, <2>3, <2>4
<1>5. \A b \in RoutingData \cap (S \cup {c}) : RefersTo(b, S \cup {c})'
  BY <1>3, <1>4 DEF RefersTo
<1>6. "trips" \notin S \cup {c}
  OBVIOUS
<1> QED
  BY <1>5, <1>6 DEF Renewed

\* updateSchedules renews trips, tells the paths, and makes the connections
LEMMA SchedulesRenews ==
    ASSUME DataTypeOK, NEW S, Renewed(S), Ready("trips", S), updateSchedules
    PROVE  Renewed(S \cup {"trips"})'
<1> DEFINE held == {"lines", "agencies", "services", "paths", "nodes"}
           made(some) == IF some THEN {<<"trips", gen["trips"] + 1>>} ELSE {}
<1>1. PICK code \in {"ok", "error", "throw"}, some \in BOOLEAN :
        /\ ret' = code
        /\ gen' = [gen EXCEPT !["trips"] = @ + 1]
        /\ refs' = [refs EXCEPT !["trips"] = IF some THEN RefsTo(held) ELSE {},
                                !["paths"] = @ \cup made(some),
                                !["forward"] = IF code = "ok" THEN made(some) ELSE @]
  BY DEF updateSchedules
<1>2. held \subseteq S /\ "trips" \notin S /\ held \subseteq Collections /\ "trips" \notin held
  BY CollectionNames DEF Ready
<1>3. /\ gen'["trips"] = gen["trips"] + 1
      /\ \A d \in Collections \ {"trips"} : gen'[d] = gen[d]
  BY <1>1, CollectionNames DEF DataTypeOK
<1>4. \A r \in made(some) : r[1] = "trips" /\ gen'[r[1]] = r[2]
  BY <1>3
<1>5. \A r \in RefsTo(held) : r[1] \in S /\ gen'[r[1]] = r[2]
  BY <1>2, <1>3 DEF RefsTo
<1>6. /\ refs'["trips"] = IF some THEN RefsTo(held) ELSE {}
      /\ refs'["paths"] = refs["paths"] \cup made(some)
      /\ code = "ok" => refs'["forward"] = made(some)
      /\ \A b \in Collections \ {"trips", "paths"} : refs'[b] = refs[b]
  <2> HIDE DEF held, made
  <2>1. DOMAIN refs = Collections \cup {"forward"}
    BY DEF DataTypeOK
  <2> QED
    BY <1>1, <2>1, CollectionNames
<1>7. ASSUME NEW b \in RoutingData \cap S, NEW r \in refs[b]
      PROVE  r[1] \in S /\ gen'[r[1]] = r[2]
  <2>1. r[1] \in S /\ gen[r[1]] = r[2]
    BY <1>7 DEF Renewed, RefersTo
  <2>2. r \in Collections \X Nat
    BY <1>7, CollectionNames DEF DataTypeOK, RoutingData
  <2> QED
    BY <1>2, <1>3, <2>1, <2>2
<1>8. "paths" \in RoutingData \cap S
  BY <1>2 DEF RoutingData
<1> HIDE DEF held, made
<1>9. ASSUME NEW b \in RoutingData \cap (S \cup {"trips"}), NEW r \in refs'[b]
      PROVE  r[1] \in S \cup {"trips"} /\ gen'[r[1]] = r[2]
  <2>1. CASE b = "trips"
    BY <1>5, <1>6, <1>9, <2>1
  <2>2. CASE b = "paths"
    BY <1>4, <1>6, <1>7, <1>8, <1>9, <2>2
  <2>3. CASE b = "forward"
    \* forward is no collection, so that S does not hold it
    <3>1. CASE code = "ok"
      BY <1>4, <1>6, <1>9, <2>3, <3>1
    <3>2. CASE code # "ok"
      <4>1. refs'["forward"] = refs["forward"]
        BY <1>1, <3>2 DEF DataTypeOK
      <4> QED
        BY <1>7, <1>9, <2>3, <4>1
    <3> QED
      BY <3>1, <3>2
  <2>4. CASE b \notin {"trips", "paths", "forward"}
    <3>1. b \in Collections \ {"trips", "paths"} /\ b \in RoutingData \cap S
      BY <2>4, CollectionNames DEF RoutingData
    <3>2. r \in refs[b]
      BY <1>6, <1>9, <3>1
    <3> QED
      BY <1>7, <3>1, <3>2
  <2> QED
    BY <2>1, <2>2, <2>3, <2>4
<1>10. LoadGoesOn(ret)' => code = "ok"
  BY <1>1 DEF LoadGoesOn
<1>11. LoadGoesOn(ret)' => \A r \in refs'["forward"] : r[1] \in S \cup {"trips"} /\ gen'[r[1]] = r[2]
  BY <1>4, <1>6, <1>10
<1> QED
  BY <1>9, <1>11 DEF Renewed, RefersTo

\* a pass goes on
LEMMA UpdateRenews ==
    ASSUME DataTypeOK, NEW S, Renewed(S), NEW c, Ready(c, S), Update(c)
    PROVE  Renewed(S \cup {c})'
<1>1. c \in Collections \ S /\ "trips" \notin S
  BY DEF Ready
<1>2. CASE c = "nodes" /\ getNodes
  BY <1>1, <1>2, FetchRenews DEF getNodes
<1>3. CASE c = "dataSources" /\ getDataSources
  BY <1>1, <1>3, FetchRenews DEF getDataSources
<1>4. CASE c = "persons" /\ getPersons
  <2>1. c \notin RoutingData /\ c # "trips"
    BY <1>4 DEF RoutingData
  <2> QED
    BY <1>1, <1>4, <2>1, FetchRenews DEF getPersons
<1>5. CASE c = "odTrips" /\ getOdTrips
  <2>1. gen' = gen /\ \A b \in RoutingData : refs'[b] = refs[b]
    BY <1>5, CollectionNames DEF getOdTrips, DataTypeOK, RoutingData
  <2>2. RoutingData \cap (S \cup {c}) = RoutingData \cap S /\ "trips" \notin S \cup {c}
    BY <1>1, <1>5 DEF RoutingData
  <2> QED
    BY <2>1, <2>2 DEF Renewed, RefersTo
<1>6. CASE c = "agencies" /\ getAgencies
  BY <1>1, <1>6, FetchRenews DEF getAgencies
<1>7. CASE c = "services" /\ getServices
  BY <1>1, <1>7, FetchRenews DEF getServices
<1>8. CASE c = "lines" /\ getLines
  <2>1. {"agencies"} \subseteq S
    BY <1>8 DEF Ready
  <2> QED
    BY <1>1, <1>8, <2>1, FetchRenews DEF getLines
<1>9. CASE c = "paths" /\ getPaths
  <2>1. {"lines", "nodes"} \subseteq S
    BY <1>9 DEF Ready
  <2> QED
    BY <1>1, <1>9, <2>1, FetchRenews DEF getPaths
<1>10. CASE c = "scenarios" /\ getScenarios
  <2>1. {"services", "lines", "agencies", "nodes"} \subseteq S
    BY <1>10 DEF Ready
  <2> QED
    BY <1>1, <1>10, <2>1, FetchRenews DEF getScenarios
<1>11. CASE c = "trips" /\ updateSchedules
  BY <1>11, SchedulesRenews
<1> QED
  BY <1>2, <1>3, <1>4, <1>5, <1>6, <1>7, <1>8, <1>9, <1>10, <1>11 DEF Update

\* the first k collections of an order
Prefix(order, k) == {order[i] : i \in 1 .. k}

\* a pass in this order reloads each collection after those it refers to
GoodOrder(order) ==
    /\ order \in Seq(Collections) /\ Len(order) = 10
    /\ \A k \in 0 .. 9 : Ready(order[k + 1], Prefix(order, k))
    /\ Prefix(order, 10) = Collections

\* a list whose numbers are 1 to 10 and whose every place is looked at
LEMMA GoodOrders == GoodOrder(LoadOrder) /\ GoodOrder(UpdateAllOrder)
<1>1. \A k \in 0 .. 9 : k = 0 \/ k = 1 \/ k = 2 \/ k = 3 \/ k = 4 \/ k = 5 \/ k = 6 \/ k = 7 \/ k = 8 \/ k = 9
  OBVIOUS
<1>2. GoodOrder(LoadOrder)
  <2>1. Len(LoadOrder) = 10
    BY DEF LoadOrder
  <2>2. Prefix(LoadOrder, 10) = Collections
    BY CollectionNames DEF Prefix, LoadOrder
  <2>3. ASSUME NEW k \in 0 .. 9 PROVE Ready(LoadOrder[k + 1], Prefix(LoadOrder, k))
    BY <1>1, CollectionNames DEF Ready, Prefix, LoadOrder
  <2> QED
    BY <2>1, <2>2, <2>3, Orders DEF GoodOrder
<1>3. GoodOrder(UpdateAllOrder)
  <2>1. Len(UpdateAllOrder) = 10
    BY DEF UpdateAllOrder
  <2>2. Prefix(UpdateAllOrder, 10) = Collections
    BY CollectionNames DEF Prefix, UpdateAllOrder
  <2>3. ASSUME NEW k \in 0 .. 9 PROVE Ready(UpdateAllOrder[k + 1], Prefix(UpdateAllOrder, k))
    BY <1>1, CollectionNames DEF Ready, Prefix, UpdateAllOrder
  <2> QED
    BY <2>1, <2>2, <2>3, Orders DEF GoodOrder
<1> QED
  BY <1>2, <1>3

\* one more collection of an order is renewed
LEMMA PassGoesOn ==
    ASSUME DataTypeOK, NEW order, GoodOrder(order), NEW k \in 0 .. 9,
           Renewed(Prefix(order, k)), Update(order[k + 1])
    PROVE  Renewed(Prefix(order, k + 1))'
<1>1. PICK S, c : S = Prefix(order, k) /\ c = order[k + 1]
  OBVIOUS
<1>2. Ready(c, S) /\ Renewed(S) /\ Update(c)
  BY <1>1 DEF GoodOrder
<1>3. Renewed(S \cup {c})'
  BY <1>2, UpdateRenews
<1>4. Prefix(order, k + 1) = S \cup {c}
  <2>1. \A i \in 1 .. k + 1 : i \in 1 .. k \/ i = k + 1
    OBVIOUS
  <2> QED
    BY <1>1, <2>1 DEF Prefix
<1> QED
  BY <1>3, <1>4

\* the update of "all" by the only thread has come to the k-th collection
PassOfAll(t) ==
    \/ nameI[t] = 1 /\ todo[t] = <<>>
    \/ /\ nameI[t] = 2
       /\ \E k \in 0 .. 10 :
            /\ Len(todo[t]) = 10 - k
            /\ \A i \in 1 .. 10 - k : todo[t][i] = UpdateAllOrder[k + i]
            /\ Renewed(Prefix(UpdateAllOrder, k))

ReloadInv ==
    /\ phase = "load" => \A t \in Threads : pc[t] = "idle"
    /\ \A t \in Threads : pc[t] # "update" => todo[t] = <<>>
    /\ updates \in Nat
    /\ updates = 0 => \A t \in Threads : pc[t] # "update"
    /\ phase = "load" => Renewed(Prefix(LoadOrder, loading))
    /\ (phase = "serve" /\ updates = 0 /\ loadStatus = "READY") =>
         Renewed(Collections) /\ LoadGoesOn(ret)
    /\ \A t \in Threads :
         (Threads = {t} /\ pc[t] = "update" /\ names[t] = <<"all">>) => PassOfAll(t)

\* whoever leaves the data alone leaves it renewed
LEMMA RenewedSame ==
    ASSUME UNCHANGED <<gen, refs, ret>>, NEW S, Renewed(S)
    PROVE  Renewed(S)'
BY DEF Renewed, RefersTo

\* everything is renewed: nothing that routing reads dangles
LEMMA RenewedLive ==
    ASSUME Renewed(Collections), LoadGoesOn(ret), NEW c \in RoutingData
    PROVE  Live(c)
<1>1. c \in Collections \/ c = "forward"
  BY CollectionNames DEF RoutingData
<1>2. "trips" \in Collections
  BY CollectionNames
<1> QED
  BY <1>1, <1>2 DEF Renewed, RefersTo, Live

\* nothing is loaded at the start
LEMMA InitReload == Init => ReloadInv
<1> SUFFICES ASSUME Init PROVE ReloadInv
  OBVIOUS
<1>1. /\ phase = "load" /\ loading = 0 /\ updates = 0
      /\ pc = [t \in Threads |-> "idle"] /\ todo = [t \in Threads |-> <<>>]
  BY DEF Init
<1>2. Prefix(LoadOrder, loading) = {}
  BY <1>1 DEF Prefix
<1>3. Renewed(Prefix(LoadOrder, loading))
  BY <1>2 DEF Renewed
<1> QED
  BY <1>1, <1>3 DEF ReloadInv

\* loadAllData is such a pass
LEMMA MainReload ==
    ASSUME IInv, ReloadInv, LoadNext \/ LoadThrows \/ StartServer
    PROVE  ReloadInv'
<1>1. /\ phase = "load" /\ UNCHANGED threadVars
      /\ DataTypeOK /\ loading \in 0 .. Len(LoadOrder)
      /\ \A t \in Threads : pc[t] = "idle" /\ todo[t] = <<>>
      /\ Renewed(Prefix(LoadOrder, loading))
  BY DEF LoadNext, LoadThrows, StartServer, IInv, TypeOK, DataTypeOK, ReloadInv
<1>2. /\ \A t \in Threads : pc'[t] = "idle" /\ todo'[t] = <<>>
      /\ updates' = updates /\ updates \in Nat
  BY <1>1 DEF threadVars, ReloadInv
<1>3. CASE LoadNext
  <2>1. /\ loading \in 0 .. 9 /\ Update(LoadOrder[loading + 1]) /\ loading' = loading + 1
        /\ phase' = "load"
    BY <1>1, <1>3, GoodOrders DEF LoadNext, GoodOrder
  <2>2. PICK k : k = loading
    OBVIOUS
  <2>3. Renewed(Prefix(LoadOrder, k + 1))'
    BY <1>1, <2>1, <2>2, GoodOrders, PassGoesOn
  <2>4. Renewed(Prefix(LoadOrder, loading))'
    BY <2>1, <2>2, <2>3
  <2> QED
    BY <1>2, <2>1, <2>4 DEF ReloadInv
<1>4. CASE LoadThrows
  BY <1>2, <1>4 DEF LoadThrows, ReloadInv
<1>5. CASE StartServer
  <2>1. /\ phase' = "serve" /\ UNCHANGED <<gen, refs, ret>>
        /\ loading = Len(LoadOrder) \/ ~ LoadGoesOn(ret)
        /\ loadStatus' = IF LoadGoesOn(ret) THEN getDataStatus ELSE "DATA_READ_ERROR"
    BY <1>5 DEF StartServer, dataVars
  <2>2. LoadGoesOn(ret)' = LoadGoesOn(ret)
    BY <2>1
  <2>3. LoadGoesOn(ret) => Renewed(Collections)'
    <3>1. LoadGoesOn(ret) => Renewed(Collections)
      BY <1>1, <2>1, GoodOrders DEF GoodOrder
    <3> QED
      BY <2>1, <3>1, RenewedSame
  <2>4. loadStatus' = "READY" => LoadGoesOn(ret)
    BY <2>1
  <2> QED
    BY <1>2, <2>1, <2>2, <2>3, <2>4 DEF ReloadInv
<1> QED
  BY <1>3, <1>4, <1>5

\* so is an update of "all", when nobody else runs
LEMMA UpdateReload ==
    ASSUME IInv, ReloadInv, NEW t \in Threads,
           UpdateReceived(t) \/ UpdateName(t) \/ UpdateNext(t) \/ UpdateAnswered(t)
    PROVE  ReloadInv'
<1>1. TypeOK /\ DataTypeOK
  BY DEF IInv, TypeOK, DataTypeOK
<1>2. /\ phase' = phase /\ loadStatus' = loadStatus /\ phase # "load"
      /\ updates' = updates \/ updates' = updates + 1
  BY DEF UpdateReceived, UpdateName, UpdateNext, UpdateAnswered, serverVars, ReloadInv
<1>3. updates' \in Nat /\ updates' # 0
  BY <1>2 DEF UpdateReceived, UpdateName, UpdateNext, UpdateAnswered, ReloadInv
<1>4. \A u \in Threads \ {t} : pc'[u] = pc[u] /\ todo'[u] = todo[u]
  BY <1>1 DEF UpdateReceived, UpdateName, UpdateNext, UpdateAnswered, TypeOK
<1>5. pc'[t] # "update" => todo'[t] = <<>>
  <2>1. CASE UpdateReceived(t) \/ UpdateName(t)
    BY <1>1, <2>1 DEF UpdateReceived, UpdateName, TypeOK
  <2>2. CASE UpdateNext(t)
    BY <1>1, <2>2 DEF UpdateNext, TypeOK
  <2>3. CASE UpdateAnswered(t)
    BY <1>1, <2>3 DEF UpdateAnswered, TypeOK
  <2> QED
    BY <2>1, <2>2, <2>3
<1>6. ASSUME Threads = {t}, pc'[t] = "update", names'[t] = <<"all">>
      PROVE  PassOfAll(t)'
  <2>1. CASE UpdateReceived(t)
    <3>1. nameI'[t] = 1 /\ todo'[t] = todo[t] /\ pc[t] = "idle"
      BY <1>1, <2>1 DEF UpdateReceived, TypeOK
    <3> QED
      BY <3>1 DEF PassOfAll, ReloadInv
  <2>2. CASE UpdateName(t)
    <3>1. /\ pc[t] = "update" /\ todo[t] = <<>> /\ names[t] = <<"all">>
          /\ nameI[t] <= 1 /\ nameI[t] \in Nat \ {0}
          /\ todo' = [todo EXCEPT ![t] = UpdatesOf(names[t][nameI[t]])]
          /\ nameI' = [nameI EXCEPT ![t] = @ + 1]
      BY <1>1, <1>6, <2>2 DEF UpdateName, TypeOK
    <3>2. nameI[t] = 1 /\ names[t][1] = "all"
      BY <3>1
    <3>3. todo'[t] = UpdateAllOrder /\ nameI'[t] = 2
      BY <1>1, <3>1, <3>2 DEF UpdatesOf, TypeOK
    <3>4. Renewed(Prefix(UpdateAllOrder, 0))'
      BY DEF Prefix, Renewed
    <3>5. 0 \in 0 .. 10 /\ Len(todo'[t]) = 10 - 0 /\ \A i \in 1 .. 10 - 0 : todo'[t][i] = UpdateAllOrder[0 + i]
      BY <3>3, GoodOrders DEF GoodOrder
    <3> QED
      BY <3>3, <3>4, <3>5 DEF PassOfAll
  <2>3. CASE UpdateNext(t)
    <3>1. /\ pc[t] = "update" /\ todo[t] # <<>> /\ names[t] = <<"all">> /\ nameI' = nameI
          /\ Update(Head(todo[t])) /\ todo[t] \in Seq(Collections)
      BY <1>1, <1>6, <2>3 DEF UpdateNext, TypeOK
    <3>2. todo'[t] = Tail(todo[t])
      BY <1>1, <1>6, <2>3 DEF UpdateNext, TypeOK
    <3>3. PassOfAll(t)
      BY <1>6, <3>1 DEF ReloadInv
    <3>4. nameI[t] = 2
      BY <3>1, <3>3 DEF PassOfAll
    <3>5. PICK k \in 0 .. 10 :
            /\ Len(todo[t]) = 10 - k
            /\ \A i \in 1 .. 10 - k : todo[t][i] = UpdateAllOrder[k + i]
            /\ Renewed(Prefix(UpdateAllOrder, k))
      BY <3>1, <3>3 DEF PassOfAll
    <3>6. k \in 0 .. 9 /\ Head(todo[t]) = UpdateAllOrder[k + 1]
      <4>1. Len(todo[t]) # 0
        BY <3>1
      <4> QED
        BY <3>1, <3>5, <4>1
    <3>7. Renewed(Prefix(UpdateAllOrder, k + 1))'
      BY <1>1, <3>1, <3>5, <3>6, GoodOrders, PassGoesOn
    <3>8. /\ k + 1 \in 0 .. 10 /\ Len(todo'[t]) = 10 - (k + 1)
          /\ \A i \in 1 .. 10 - (k + 1) : todo'[t][i] = UpdateAllOrder[(k + 1) + i]
      <4>1. /\ Len(Tail(todo[t])) = Len(todo[t]) - 1
            /\ \A i \in 1 .. Len(todo[t]) - 1 : Tail(todo[t])[i] = todo[t][i + 1]
        BY <3>1
      <4>2. \A i \in 1 .. 10 - (k + 1) : i + 1 \in 1 .. 10 - k /\ k + (i + 1) = (k + 1) + i
        BY <3>6
      <4> QED
        BY <3>2, <3>5, <3>6, <4>1, <4>2
    <3>9. nameI'[t] = 2
      BY <3>1, <3>4
    <3> QED
      BY <3>7, <3>8, <3>9 DEF PassOfAll
  <2>4. CASE UpdateAnswered(t)
    BY <1>1, <1>6, <2>4 DEF UpdateAnswered, TypeOK
  <2> QED
    BY <2>1, <2>2, <2>3, <2>4
<1>7. \A u \in Threads : (Threads = {u} /\ pc'[u] = "update" /\ names'[u] = <<"all">>) => PassOfAll(u)'
  <2>1. ASSUME NEW u \in Threads, Threads = {u} PROVE u = t
    BY <2>1
  <2> QED
    BY <1>6, <2>1
<1>8. \A u \in Threads : pc'[u] # "update" => todo'[u] = <<>>
  BY <1>4, <1>5 DEF ReloadInv
<1> QED
  BY <1>2, <1>3, <1>7, <1>8 DEF ReloadInv

\* the routing handlers only read the data
LEMMA RouteReload ==
    ASSUME IInv, ReloadInv, NEW t \in Threads,
           \/ RouteReceived(t) \/ ScenarioFound(t) \/ ParameterError(t) \/ NoAccess(t) \/ FilterThrows(t)
           \/ CacheHit(t) \/ CacheMiss(t) \/ Compute(t) \/ Store(t) \/ NextAlternative(t)
           \/ RouteAnswered(t) \/ SummaryAnswered(t) \/ AccessibilityAnswered(t)
    PROVE  ReloadInv'
<1>1. TypeOK
  BY DEF IInv
<1>2. UNCHANGED <<gen, refs, ret, phase, loading, nameI, todo>>
  BY <1>1, RouteFrame DEF dataVars
<1>3. UNCHANGED <<loadStatus, updates>>
  BY DEF RouteReceived, ScenarioFound, ParameterError, NoAccess, FilterThrows,
         CacheHit, CacheMiss, Compute, Store, NextAlternative, RouteAnswered, SummaryAnswered,
         AccessibilityAnswered, serverVars
<1>4. /\ phase # "load" /\ pc[t] # "update" /\ pc'[t] # "update"
      /\ \A u \in Threads \ {t} : pc'[u] = pc[u]
  BY <1>1 DEF RouteReceived, ScenarioFound, ParameterError, NoAccess, FilterThrows,
         CacheHit, CacheMiss, Compute, Store, NextAlternative, RouteAnswered, SummaryAnswered,
         AccessibilityAnswered, Answer, TypeOK, ReloadInv
<1>5. \A u \in Threads : pc'[u] # "update" => pc[u] # "update"
  BY <1>4
<1>6. \A u \in Threads : Threads = {u} => pc'[u] # "update"
  BY <1>4
<1>7. (phase' = "serve" /\ updates' = 0 /\ loadStatus' = "READY") => Renewed(Collections)' /\ LoadGoesOn(ret)'
  <2>1. LoadGoesOn(ret)' = LoadGoesOn(ret)
    BY <1>2
  <2> QED
    BY <1>2, <1>3, <2>1, RenewedSame DEF ReloadInv
<1>8. \A u \in Threads : pc'[u] # "update" => todo'[u] = <<>>
  BY <1>2, <1>5 DEF ReloadInv
<1>9. updates' = 0 => \A u \in Threads : pc'[u] # "update"
  BY <1>3, <1>4 DEF ReloadInv
<1>10. updates' \in Nat /\ phase' # "load"
  BY <1>2, <1>3, <1>4 DEF ReloadInv
<1> QED
  BY <1>6, <1>7, <1>8, <1>9, <1>10 DEF ReloadInv

\* every step
LEMMA NextReload == IInv /\ ReloadInv /\ [Next]_vars => ReloadInv'
<1> SUFFICES ASSUME IInv, ReloadInv, [Next]_vars PROVE ReloadInv'
  OBVIOUS
<1>1. CASE UNCHANGED vars
  <2>1. UNCHANGED <<gen, refs, ret, phase, loading, loadStatus, updates, pc, names, nameI, todo>>
    BY <1>1 DEF vars, dataVars, serverVars, threadVars
  <2>2. \A S : Renewed(S) => Renewed(S)'
    BY <2>1, RenewedSame
  <2>3. \A t \in Threads : PassOfAll(t) => PassOfAll(t)'
    BY <2>1, <2>2 DEF PassOfAll
  <2> QED
    BY <2>1, <2>2, <2>3 DEF ReloadInv
<1> QED
  BY <1>1, MainReload, UpdateReload, RouteReload DEF Next, HandlerStep

(***************************************************************************)
(* TransitData, after loading and after an update of "all" by the only     *)
(* thread, whatever any fetch delivers: nothing that routing reads refers  *)
(* to an object that is gone.                                              *)
(***************************************************************************)
THEOREM ReloadLeavesNoDangling == Spec => []ReloadConsistent
<1>1. IInv /\ ReloadInv => ReloadConsistent
  <2> SUFFICES ASSUME IInv, ReloadInv,
                      \/ phase = "serve" /\ updates = 0 /\ loadStatus = "READY"
                      \/ \E t \in Threads : /\ Threads = {t}
                                            /\ pc[t] = "update" /\ todo[t] = <<>>
                                            /\ nameI[t] > Len(names[t])
                                            /\ names[t] = <<"all">> /\ ret = "ok"
               PROVE  \A c \in RoutingData : Live(c)
    BY DEF ReloadConsistent
  <2>1. CASE phase = "serve" /\ updates = 0 /\ loadStatus = "READY"
    BY <2>1, RenewedLive DEF ReloadInv
  <2>2. ASSUME NEW t \in Threads, Threads = {t}, pc[t] = "update", todo[t] = <<>>,
               nameI[t] > Len(names[t]), names[t] = <<"all">>, ret = "ok"
        PROVE  \A c \in RoutingData : Live(c)
    <3>1. PassOfAll(t) /\ nameI[t] # 1 /\ Len(todo[t]) = 0
      BY <2>2 DEF ReloadInv
    <3>2. PICK k \in 0 .. 10 : Len(todo[t]) = 10 - k /\ Renewed(Prefix(UpdateAllOrder, k))
      BY <3>1 DEF PassOfAll
    <3>3. k = 10
      BY <3>1, <3>2
    <3>4. Renewed(Collections) /\ LoadGoesOn(ret)
      BY <2>2, <3>2, <3>3, GoodOrders DEF GoodOrder, LoadGoesOn
    <3> QED
      BY <3>4, RenewedLive
  <2> QED
    BY <2>1, <2>2
<1> QED
  BY <1>1, InitIInv, NextIInv, InitReload, NextReload, PTL DEF Spec
-----------------------------------------------------------------------------
(***************************************************************************)
(* The server implements ConnectionRegistry: every step is one of the      *)
(* registry's, by the types and the labels above.                          *)
(***************************************************************************)
\* the registry's held: the set of each thread that has one
Held == [t \in Threads |-> IF Holds(t) THEN set[t] ELSE NoSet]

\* a thread that holds a set holds one of its own scenario
LEMMA HeldSets ==
    ASSUME IInv, NEW t \in Threads, Holds(t)
    PROVE  Held[t] = set[t] /\ set[t] # NoSet /\ set[t] \in Kept
<1>1. set[t].scenario = req[t] /\ req[t] \in Scenarios
  BY DEF IInv, SetsLabelled, TypeOK, Holds
<1>2. set[t] # NoSet
  BY <1>1, ScenariosAssumption DEF NoSet
<1> QED
  BY <1>2 DEF Held, Kept

(***************************************************************************)
(* Loading, updating and the steps of a handler before and after it has a  *)
(* set: to the registry, at most a reload.                                 *)
(***************************************************************************)
LEMMA OutsideStep ==
    ASSUME IInv', UNCHANGED <<cache, set, req>>, \A u \in Threads : Holds(u)' = Holds(u)
    PROVE  Registry!Reload
<1>1. Held' = Held
  BY DEF Held
<1>2. Kept' = Kept
  BY DEF Kept
<1>3. refs'["forward"] \in SUBSET (Collections \X Nat)
  BY DEF IInv, TypeOK
<1> QED
  BY <1>1, <1>2, <1>3 DEF Registry!Reload, Held

LEMMA InitRefines == Init => Registry!Init
<1> SUFFICES ASSUME Init PROVE Registry!Init
  OBVIOUS
<1>1. \A t \in Threads : ~ Holds(t)
  BY DEF Init, Holds
<1>2. Kept = {} /\ Held = [t \in Threads |-> NoSet]
  BY <1>1 DEF Init, Kept, Held
<1>3. refs["forward"] \in SUBSET (Collections \X Nat)
  BY DEF Init, DataInit
<1> QED
  BY <1>2, <1>3 DEF Registry!Init, Init, Held

LEMMA AskStep ==
    ASSUME IInv, NEW t \in Threads, RouteReceived(t)
    PROVE  Registry!Ask(t)
<1>1. /\ UNCHANGED <<dataVars, cache, set>> /\ pc[t] = "idle"
      /\ pc' = [pc EXCEPT ![t] = "idle"] \/ pc' = [pc EXCEPT ![t] = "parse"]
      /\ \E s \in Scenarios : req' = [req EXCEPT ![t] = s]
  BY DEF RouteReceived, Answer
<1>2. pc \in [Threads -> {"idle", "update", "parse"} \cup Waiting]
  BY DEF IInv, TypeOK
<1>3. ~ Holds(t) /\ \A u \in Threads : Holds(u)' = Holds(u)
  BY <1>1, <1>2 DEF Holds
<1>4. Held' = Held /\ Held[t] = NoSet
  BY <1>1, <1>3 DEF Held
<1>5. Kept' = Kept
  BY <1>1, <1>3 DEF Kept
<1>6. refs' = refs
  BY <1>1 DEF dataVars
<1> QED
  BY <1>1, <1>4, <1>5, <1>6 DEF Registry!Ask, Held

LEMMA MakeStep ==
    ASSUME IInv, NEW t \in Threads, Compute(t)
    PROVE  Registry!Make(t)
<1> DEFINE new == [scenario |-> req[t], made |-> refs["forward"]]
<1>1. /\ UNCHANGED <<dataVars, cache, req>> /\ pc[t] = "compute"
      /\ pc' = [pc EXCEPT ![t] = "store"] /\ set' = [set EXCEPT ![t] = new]
  BY DEF Compute
<1>2. /\ pc \in [Threads -> {"idle", "update", "parse"} \cup Waiting]
      /\ set \in [Threads -> ConnectionSets \cup {NoSet}]
  BY DEF IInv, TypeOK
<1> HIDE DEF new
<1>3. /\ ~ Holds(t) /\ Holds(t)' /\ set'[t] = new
      /\ \A u \in Threads \ {t} : Holds(u)' = Holds(u) /\ set'[u] = set[u]
  BY <1>1, <1>2 DEF Holds
<1>4. Held[t] = NoSet /\ Held' = [Held EXCEPT ![t] = new]
  BY <1>3 DEF Held
<1>5. Kept' = Kept \cup {new}
  BY <1>1, <1>3 DEF Kept
<1>6. refs' = refs /\ Held'[t] = new
  BY <1>1, <1>4 DEF dataVars, Held
<1> QED
  BY <1>1, <1>4, <1>5, <1>6 DEF Registry!Make, Held, new

LEMMA ReuseStep ==
    ASSUME IInv, NEW t \in Threads, CacheHit(t)
    PROVE  Registry!Reuse(t)
<1> DEFINE x == cache[req[t]]
<1>1. /\ UNCHANGED <<dataVars, cache, req>> /\ pc[t] \in {"get", "again"}
      /\ req[t] \in DOMAIN cache
      /\ pc' = [pc EXCEPT ![t] = "use"] /\ set' = [set EXCEPT ![t] = x]
  BY DEF CacheHit
<1>2. /\ pc \in [Threads -> {"idle", "update", "parse"} \cup Waiting]
      /\ set \in [Threads -> ConnectionSets \cup {NoSet}]
      /\ x.scenario = req[t] /\ x \in Kept
  BY <1>1 DEF IInv, TypeOK, SetsLabelled, Kept
<1>3. /\ ~ Holds(t) /\ Holds(t)' /\ set'[t] = x
      /\ \A u \in Threads \ {t} : Holds(u)' = Holds(u) /\ set'[u] = set[u]
  BY <1>1, <1>2 DEF Holds
<1>4. Kept' = Kept
  <2>1. Kept' = Kept \cup {x}
    BY <1>1, <1>3 DEF Kept
  <2> QED
    BY <1>2, <2>1
<1> HIDE DEF x
<1>5. Held[t] = NoSet /\ Held' = [Held EXCEPT ![t] = x]
  BY <1>3 DEF Held
<1>6. refs' = refs
  BY <1>1 DEF dataVars
<1> QED
  BY <1>1, <1>2, <1>4, <1>5, <1>6 DEF Registry!Reuse, Held

LEMMA ForgetStep ==
    ASSUME IInv, NEW t \in Threads, Store(t)
    PROVE  Registry!Forget
<1>1. /\ UNCHANGED <<dataVars, set, req>> /\ pc[t] = "store" /\ pc' = [pc EXCEPT ![t] = "use"]
      /\ \/ cache' = CacheSetAll(req[t], set[t])
         \/ cache' = CacheSetOne(req[t], set[t])
  BY DEF Store
<1>2. pc \in [Threads -> {"idle", "update", "parse"} \cup Waiting]
  BY DEF IInv, TypeOK
<1>3. Holds(t) /\ \A u \in Threads : Holds(u)' = Holds(u)
  BY <1>1, <1>2 DEF Holds
<1>4. Held' = Held
  BY <1>1, <1>3 DEF Held
<1>5. \A s \in DOMAIN cache' : cache'[s] = set[t] \/ (s \in DOMAIN cache /\ cache'[s] = cache[s])
  BY <1>1 DEF CacheSetAll, CacheSetOne
<1>6. Kept' \in SUBSET Kept
  <2>1. {cache'[s] : s \in DOMAIN cache'} \subseteq Kept
    BY <1>3, <1>5 DEF Kept
  <2>2. {set'[u] : u \in {v \in Threads : Holds(v)'}} \subseteq Kept
    BY <1>1, <1>3 DEF Kept
  <2> QED
    BY <2>1, <2>2 DEF Kept
<1>7. \A u \in Threads : Held[u] # NoSet => Held[u] \in Kept'
  <2> SUFFICES ASSUME NEW u \in Threads, Held[u] # NoSet PROVE Held[u] \in Kept'
    OBVIOUS
  <2>1. Holds(u) /\ Held[u] = set[u]
    BY DEF Held
  <2> QED
    BY <1>1, <1>3, <2>1 DEF Kept
<1>8. refs' = refs
  BY <1>1 DEF dataVars
<1> QED
  BY <1>1, <1>4, <1>6, <1>7, <1>8 DEF Registry!Forget, Held

LEMMA ReleaseStep ==
    ASSUME IInv, NEW t \in Threads,
           NextAlternative(t) \/ RouteAnswered(t) \/ SummaryAnswered(t) \/ AccessibilityAnswered(t)
    PROVE  Registry!Release(t)
<1>1. /\ UNCHANGED <<dataVars, cache, set, req>> /\ pc[t] = "use"
      /\ pc' = [pc EXCEPT ![t] = "again"] \/ pc' = [pc EXCEPT ![t] = "idle"]
  BY DEF NextAlternative, RouteAnswered, SummaryAnswered, AccessibilityAnswered, Answer
<1>2. pc \in [Threads -> {"idle", "update", "parse"} \cup Waiting]
  BY DEF IInv, TypeOK
<1>3. Holds(t) /\ ~ Holds(t)' /\ \A u \in Threads \ {t} : Holds(u)' = Holds(u)
  BY <1>1, <1>2 DEF Holds
<1>4. Held' = [Held EXCEPT ![t] = NoSet]
  BY <1>1, <1>3 DEF Held
<1>5. Kept' \in SUBSET Kept
  BY <1>1, <1>3 DEF Kept
<1>6. refs' = refs
  BY <1>1 DEF dataVars
<1>7. Held[t] # NoSet
  BY <1>3, HeldSets
<1> QED
  BY <1>1, <1>4, <1>5, <1>6, <1>7 DEF Registry!Release, Held

(***************************************************************************)
(* The rest: the data may change, what threads hold does not.              *)
(***************************************************************************)
LEMMA RestStep ==
    ASSUME IInv, IInv', NEW t \in Threads,
           \/ UpdateReceived(t) \/ UpdateName(t) \/ UpdateNext(t) \/ UpdateAnswered(t)
           \/ ScenarioFound(t) \/ ParameterError(t) \/ NoAccess(t) \/ FilterThrows(t)
           \/ CacheMiss(t)
    PROVE  Registry!Reload
<1>1. UNCHANGED <<cache, set, req>>
  BY DEF UpdateReceived, UpdateName, UpdateNext, UpdateAnswered, ScenarioFound,
         ParameterError, NoAccess, FilterThrows, CacheMiss
<1>2. /\ pc[t] \in {"idle", "update", "parse", "get", "again"}
      /\ pc' = pc \/ \E p \in {"idle", "update", "get", "compute"} : pc' = [pc EXCEPT ![t] = p]
  BY DEF UpdateReceived, UpdateName, UpdateNext, UpdateAnswered, ScenarioFound,
         ParameterError, NoAccess, FilterThrows, CacheMiss, Answer
<1>3. pc \in [Threads -> {"idle", "update", "parse"} \cup Waiting]
  BY DEF IInv, TypeOK
<1>4. \A u \in Threads : Holds(u)' = Holds(u)
  BY <1>2, <1>3 DEF Holds
<1> QED
  BY <1>1, <1>4, OutsideStep

LEMMA NextRefines ==
    IInv /\ IInv' /\ [Next]_vars => [Registry!Next]_Registry!registryVars
<1> SUFFICES ASSUME IInv, IInv', [Next]_vars
             PROVE  [Registry!Next]_Registry!registryVars
  OBVIOUS
<1>1. CASE LoadNext \/ LoadThrows \/ StartServer \/ UNCHANGED vars
  <2>1. UNCHANGED <<cache, pc, set, req>>
    BY <1>1 DEF LoadNext, LoadThrows, StartServer, vars, threadVars
  <2>2. \A u \in Threads : Holds(u)' = Holds(u)
    BY <2>1 DEF Holds
  <2> QED
    BY <2>1, <2>2, OutsideStep DEF Registry!Next
<1>2. CASE \E t \in Threads : UpdateReceived(t) \/ RouteReceived(t) \/ HandlerStep(t)
  <2>1. PICK t \in Threads : UpdateReceived(t) \/ RouteReceived(t) \/ HandlerStep(t)
    BY <1>2
  <2>2. \/ Registry!Ask(t) \/ Registry!Make(t) \/ Registry!Reuse(t) \/ Registry!Release(t)
        \/ Registry!Forget \/ Registry!Reload
    BY <2>1, AskStep, MakeStep, ReuseStep, ForgetStep, ReleaseStep, RestStep DEF HandlerStep
  <2> QED
    BY <2>2 DEF Registry!Next
<1> QED
  BY <1>1, <1>2 DEF Next

(***************************************************************************)
(* getConnectionsForScenario, looking and storing in separate steps, never *)
(* gives a thread a set that was not made for its scenario or that nobody  *)
(* kept since it was made: the server implements the registry.             *)
(***************************************************************************)
THEOREM Refines == Spec => ImplementsRegistry
BY SpecIInv, InitRefines, NextRefines, PTL DEF Spec, ImplementsRegistry, Registry!Spec
=============================================================================
