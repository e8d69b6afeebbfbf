--------------------------- MODULE MCDataLoading ---------------------------
(***************************************************************************)
(* Three nodes; the file of each is missing, complete or fails, and has up *)
(* to two entries: other nodes, the node itself or one that does not exist.*)
(* With every choice of files one list of connections, and with one choice *)
(* of files all lists with times at the edges of the hours and the cache.  *)
(***************************************************************************)
EXTENDS DataLoading

CONSTANT MaxLen     \* bound on the number of connections

MCUuids == <<"a", "b", "c">>

Entries == {<<>>} \cup
    {<<Footpath(x, 300), Footpath(y, 120)>> : x \in {"a", "b", "c"}, y \in {"a", "c", "gone"}}

MCNodeFiles ==
    [{"a", "b", "c"} ->
       [state : {"complete", "broken", "no uuid"}, entries : Entries] \cup
       {[state |-> "missing", entries |-> <<>>]}]

NoNodeFile == [n \in {"a", "b", "c"} |-> [state |-> "missing", entries |-> <<>>]]

Times == {0, 3599, 3600, 7201, 31 * 3600, 31 * 3600 + 1, 33 * 3600}

Sequences(S) == UNION {[1 .. k -> S] : k \in 0 .. MaxLen}

MCDepartures == {d \in Sequences(Times) : \A j, k \in DOMAIN d : j <= k => d[j] <= d[k]}

MCArrivals == {a \in Sequences(Times) : \A j, k \in DOMAIN a : j <= k => a[j] >= a[k]}

MCLoads ==
    (MCNodeFiles \X {<<>>} \X {<<>>}) \cup ({NoNodeFile} \X MCDepartures \X MCArrivals)
=============================================================================
