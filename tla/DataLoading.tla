----------------------------- MODULE DataLoading -----------------------------
(***************************************************************************)
(* From the files to what a calculation scans: TransitData::loadAllData    *)
(* reads the nodes with their footpaths, and when that succeeds a set of   *)
(* connections with its hour caches is built for the first request.  The   *)
(* collections in between are in module TransitData.                       *)
(***************************************************************************)
EXTENDS ConnectionSet, NodesFetcher

CONSTANT Loads      \* what may be loaded: node files, departures, arrivals

ASSUME LoadsAssumption == Loads \subseteq NodeFiles \X Departures \X Arrivals

LoadInit ==
    /\ \E load \in Loads : files = load[1] /\ dep = load[2] /\ arr = load[3]
    /\ NodesInit /\ Init

FetchNodes == NodesNext /\ UNCHANGED vars

\* Only a server whose data could be read builds sets.
BuildSet == reading = "returned" /\ ret = "0" /\ Next /\ UNCHANGED nodesVars

LoadNext == FetchNodes \/ BuildSet

loadVars == <<vars, nodesVars>>

LoadSpec == LoadInit /\ [][LoadNext]_loadVars

FairLoadSpec == LoadSpec /\ WF_loadVars(LoadNext)

-----------------------------------------------------------------------------
(***************************************************************************)
(* Loading ends, with finished hour caches or with an error: getNodes and  *)
(* generateConnectionsIteratorCache have nested loops whose iterators are  *)
(* advanced in one branch only.                                            *)
(***************************************************************************)
LoadEnds == <>(pc = "ready" \/ ret \in {"EBADMSG", "throw"})
=============================================================================
