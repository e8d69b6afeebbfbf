------------------------- MODULE ConnectionRegistry -------------------------
(***************************************************************************)
(* What TransitData::getConnectionsForScenario promises to the threads     *)
(* that call it, without a cache and its races: a thread gets a set made   *)
(* for the scenario it names, either made now from the connections loaded  *)
(* now, or one that is still kept.  A set that nobody keeps is gone.  It   *)
(* is not promised that a set kept is up to date.                          *)
(***************************************************************************)
CONSTANTS
    Clients,        \* the threads
    Ids,            \* uuids of scenarios
    Contents,       \* what forwardConnections may consist of
    Nothing         \* held by a thread without a set

VARIABLES
    asked,          \* per thread, the scenario it names
    held,           \* per thread, the set it has, or Nothing
    kept,           \* the sets that exist
    loaded          \* the connections loaded

registryVars == <<asked, held, kept, loaded>>

Sets == [scenario : Ids, made : Contents]

Init ==
    /\ asked \in [Clients -> Ids]
    /\ held = [t \in Clients |-> Nothing]
    /\ kept = {}
    /\ loaded \in Contents

\* a request names a scenario
Ask(t) ==
    /\ held[t] = Nothing
    /\ \E s \in Ids : asked' = [asked EXCEPT ![t] = s]
    /\ UNCHANGED <<held, kept, loaded>>

\* a set is made for the scenario of t
Make(t) ==
    /\ held[t] = Nothing
    /\ held' = [held EXCEPT ![t] = [scenario |-> asked[t], made |-> loaded]]
    /\ kept' = kept \cup {held'[t]}
    /\ UNCHANGED <<asked, loaded>>

\* a set for the scenario of t exists
Reuse(t) ==
    /\ held[t] = Nothing
    /\ \E x \in kept : x.scenario = asked[t] /\ held' = [held EXCEPT ![t] = x]
    /\ UNCHANGED <<asked, kept, loaded>>

\* the calculation with the set is over; the set may go
Release(t) ==
    /\ held[t] # Nothing
    /\ held' = [held EXCEPT ![t] = Nothing]
    /\ kept' \in SUBSET kept
    /\ UNCHANGED <<asked, loaded>>

\* the registry keeps fewer sets, never one that a thread has not got
Forget ==
    /\ kept' \in SUBSET kept
    /\ \A t \in Clients : held[t] # Nothing => held[t] \in kept'
    /\ UNCHANGED <<asked, held, loaded>>

Reload ==
    /\ loaded' \in Contents
    /\ UNCHANGED <<asked, held, kept>>

Next ==
    \/ \E t \in Clients : Ask(t) \/ Make(t) \/ Reuse(t) \/ Release(t)
    \/ Forget \/ Reload

Spec == Init /\ [][Next]_registryVars
=============================================================================
