----------------------------- MODULE TransitData -----------------------------
(***************************************************************************)
(* TransitData: the collections loaded from the data cache, the objects of *)
(* other collections they refer to, and the update* operations.  Of the    *)
(* content of a collection only whether it is empty matters.               *)
(*                                                                         *)
(* A collection that is cleared destroys its objects: its generation goes  *)
(* up.  A reference is a collection with the generation of the object it   *)
(* was taken from, and dangles once that generation has passed.  trips     *)
(* stands for trips and connections, which are cleared together; forward   *)
(* for forwardConnections and reverseConnections.                          *)
(***************************************************************************)
EXTENDS Integers, Sequences, FiniteSets

CONSTANT MaxFaults      \* bound on the fetches that do not deliver everything

ASSUME MaxFaultsAssumption == MaxFaults \in Nat

Collections ==
    {"nodes", "dataSources", "persons", "odTrips", "agencies", "services",
     "lines", "paths", "scenarios", "trips"}

VARIABLES
    gen,        \* per collection, how often it has been cleared
    filled,     \* per collection, size() > 0
    refs,       \* per collection and for forward, the references held
    ret,        \* the last return code: "ok", "missing" (-ENOENT), "error"
                \* (the other codes) or "throw" (an exception escaped)
    faults      \* fetches so far that did not deliver everything

dataVars == <<gen, filled, refs, ret, faults>>

DataInit ==
    /\ gen = [c \in Collections |-> 0]
    /\ filled = [c \in Collections |-> FALSE]
    /\ refs = [c \in Collections \cup {"forward"} |-> {}]
    /\ ret = "ok"
    /\ faults = 0

\* references to the present objects of a set of collections
RefsTo(S) == {<<d, gen[d]>> : d \in {d \in S : filled[d]}}

\* nothing of S refers to destroyed objects
Live(c) == \A r \in refs[c] : gen[r[1]] = r[2]

-----------------------------------------------------------------------------
(***************************************************************************)
(* The fetchers.  Each clears its collection first, except getOdTrips,     *)
(* which only adds.  A missing file leaves it empty; an error on the way   *)
(* keeps what was read before it.                                          *)
(***************************************************************************)
Codes == {"ok", "missing", "error"}

\* the objects left are all, some or none of the file's; an object needs those
\* it looks up with at() (needed), and their absence is no fault of its file
Delivers(code, some, needed) ==
    /\ code = "missing" => ~ some
    /\ some => \A d \in needed : filled[d]
    /\ IF (code = "ok" /\ some) \/ \E d \in needed : ~ filled[d]
       THEN UNCHANGED faults
       ELSE faults < MaxFaults /\ faults' = faults + 1

\* a fetcher of collection c, whose objects keep references to those of held
Fetch(c, codes, needed, held) ==
    \E code \in codes, some \in BOOLEAN :
        /\ Delivers(code, some, needed)
        /\ ret' = code
        /\ gen' = [gen EXCEPT ![c] = @ + 1]
        /\ filled' = [filled EXCEPT ![c] = some]
        /\ refs' = [refs EXCEPT ![c] = IF some THEN RefsTo(held) ELSE {}]

\* The footpaths between nodes are reloaded with them; a malformed uuid in the
\* file of a node throws an exception that is not caught, with the nodes read.
getNodes ==
    \/ Fetch("nodes", Codes, {}, {})
    \/ Fetch("nodes", {"throw"}, {}, {}) /\ filled'["nodes"]

getDataSources == Fetch("dataSources", Codes, {}, {})

\* the files of persons are looked for per data source, and never missed
getPersons == Fetch("persons", {"ok"}, {"dataSources"}, {"dataSources"})

getOdTrips ==
    \E some \in BOOLEAN :
        /\ Delivers("ok", some, {"dataSources"})
        /\ ret' = "ok"
        /\ filled' = [filled EXCEPT !["odTrips"] = @ \/ some]
        /\ refs' = [refs EXCEPT !["odTrips"] =
              @ \cup IF some THEN RefsTo({"dataSources", "persons", "nodes"}) ELSE {}]
        /\ UNCHANGED gen

getAgencies == Fetch("agencies", Codes, {}, {})

getServices == Fetch("services", Codes, {}, {})

getLines == Fetch("lines", Codes, {"agencies"}, {"agencies"})

\* (a path may be without nodes)
getPaths == Fetch("paths", Codes, {"lines"}, {"lines", "nodes"})

\* what a scenario names and is not there is left out of its lists
getScenarios == Fetch("scenarios", Codes, {}, {"services", "lines", "agencies", "nodes"})

(***************************************************************************)
(* updateSchedules: missing or broken line files are passed over, so that  *)
(* getSchedules returns 0; it returns -1 for a trip with more times than   *)
(* its path has nodes, and at() throws for an unknown service or path.     *)
(* The paths are told about the trips.  Only a 0 is followed by            *)
(* generateForwardAndReverseConnections.                                   *)
(***************************************************************************)
updateSchedules ==
    \E code \in {"ok", "error", "throw"}, some \in BOOLEAN :
        LET made == IF some THEN {<<"trips", gen["trips"] + 1>>} ELSE {}
        IN  /\ Delivers(code, some, {"lines", "services", "paths"})
            /\ ret' = code
            /\ gen' = [gen EXCEPT !["trips"] = @ + 1]
            /\ filled' = [filled EXCEPT !["trips"] = some]
            /\ refs' = [refs EXCEPT
                  !["trips"] = IF some
                               THEN RefsTo({"lines", "agencies", "services", "paths", "nodes"})
                               ELSE {},
                  !["paths"] = @ \cup made,
                  !["forward"] = IF code = "ok" THEN made ELSE @]

\* update<Collection>()
Update(c) ==
    \/ c = "nodes" /\ getNodes
    \/ c = "dataSources" /\ getDataSources
    \/ c = "persons" /\ getPersons
    \/ c = "odTrips" /\ getOdTrips
    \/ c = "agencies" /\ getAgencies
    \/ c = "services" /\ getServices
    \/ c = "lines" /\ getLines
    \/ c = "paths" /\ getPaths
    \/ c = "scenarios" /\ getScenarios
    \/ c = "trips" /\ updateSchedules

-----------------------------------------------------------------------------
\* loadAllData: the order, and the codes that end it
LoadOrder ==
    <<"nodes", "dataSources", "persons", "odTrips", "agencies", "services",
      "lines", "paths", "scenarios", "trips">>

LoadGoesOn(code) == code \in {"ok", "missing"}

\* getDataStatus looks for an empty collection in this order
StatusOrder ==
    <<"agencies", "services", "nodes", "lines", "paths", "scenarios", "trips">>

getDataStatus ==
    LET empty == {i \in DOMAIN StatusOrder : ~ filled[StatusOrder[i]]}
    IN  IF empty = {} THEN "READY"
        ELSE StatusOrder[CHOOSE i \in empty : \A j \in empty : i <= j]
=============================================================================
