----------------------------- MODULE NodesFetcher -----------------------------
(***************************************************************************)
(* CacheFetcher::getNodes: the nodes of the collection file, then one file *)
(* per node with the nodes it can be walked to.  Reading the file of a     *)
(* node fills its own list and appends to the reverse lists of others, so  *)
(* what a node ends up with depends on all files and on where a failure    *)
(* stops the reading.  Module TransitData sees the whole as one update.    *)
(***************************************************************************)
EXTENDS Integers, Sequences, SequencesExt, Selection

CONSTANTS
    Uuids,      \* the uuids in the order of the map, as a sequence
    NodeFiles   \* what the files of the nodes may hold

\* A file: missing, read to its end, one whose reading fails after the
\* entries (a kj::Exception), or one with a text that is no uuid after them.
FileStates == {"missing", "complete", "broken", "no uuid"}

Footpath(n, time) == [node |-> n, time |-> time]

ASSUME FilesAssumption ==
    /\ Uuids \in Seq(ToSet(Uuids))
    /\ \A f \in NodeFiles : \A n \in ToSet(Uuids) :
         /\ f[n].state \in FileStates
         /\ f[n].entries \in Seq(ToSet(f[n].entries))
         /\ \A e \in ToSet(f[n].entries) : e = Footpath(e.node, e.time)

VARIABLES
    files,      \* per uuid, its file: state and entries (to, time)
    ts,         \* the nodes: per uuid, transferableNodes (to) and
                \* reverseTransferableNodes (from)
    i,          \* the node whose file is read next
    reading,    \* "read", "sort", "returned"
    ret         \* "none", "0", "EBADMSG" or "throw"

nodesVars == <<files, ts, i, reading, ret>>

Known == ToSet(Uuids)

\* The collection file has been read: the nodes exist, their lists are empty.
NodesInit ==
    /\ files \in NodeFiles
    /\ ts = [n \in Known |-> [to |-> <<>>, from |-> <<>>]]
    /\ i = 1 /\ reading = "read" /\ ret = "none"

\* The entries of a file that name a node: others are logged and skipped.
Valid(n) ==
    LET entries == files[n].entries
    IN  At(entries, {k \in DOMAIN entries : entries[k].node \in Known})

\* The reverse list of m after the loop over the entries of n's file.
WithReverse(m, n) ==
    LET towards == At(Valid(n), {k \in DOMAIN Valid(n) : Valid(n)[k].node = m})
    IN  ts[m].from \o [k \in DOMAIN towards |-> Footpath(n, towards[k].time)]

\* faulty: both lists of the node are cleared before its own are filled.
ReadFileCleared(n) ==
    /\ files[n].state = "complete"
    /\ ts' = [m \in Known |->
                IF m = n THEN [to |-> Valid(n), from |-> <<Footpath(n, 0)>>]
                ELSE [ts[m] EXCEPT !.from = WithReverse(m, n)]]
    /\ i' = i + 1
    /\ UNCHANGED <<reading, ret>>

\* A file that is read to its end: the node's own list is set, and the node
\* itself is put at the end of its reverse list.
ReadFile(n) ==
    /\ files[n].state = "complete"
    /\ ts' = [m \in Known |->
                [to |-> IF m = n THEN Valid(n) ELSE ts[m].to,
                 from |-> WithReverse(m, n) \o IF m = n THEN <<Footpath(n, 0)>> ELSE <<>>]]
    /\ i' = i + 1
    /\ UNCHANGED <<reading, ret>>

\* A missing file is logged; the node keeps empty lists.
SkipFile(n) ==
    /\ files[n].state = "missing"
    /\ i' = i + 1
    /\ UNCHANGED <<ts, reading, ret>>

\* A file whose reading fails: the reverse lists of others already have its
\* entries, its own list is still empty, and the files after it are not read.
FailFile(n) ==
    /\ files[n].state \in {"broken", "no uuid"}
    /\ ts' = [m \in Known |-> [ts[m] EXCEPT !.from = WithReverse(m, n)]]
    /\ ret' = IF files[n].state = "broken" THEN "EBADMSG" ELSE "throw"
    /\ reading' = "returned"
    /\ UNCHANGED i

ReadNext ==
    /\ reading = "read" /\ i <= Len(Uuids)
    /\ ReadFile(Uuids[i]) \/ SkipFile(Uuids[i]) \/ FailFile(Uuids[i])
    /\ UNCHANGED files

AllRead ==
    /\ reading = "read" /\ i > Len(Uuids)
    /\ reading' = "sort" /\ i' = 1
    /\ UNCHANGED <<files, ts, ret>>

\* The copy after the sort of the indexes.  sortedIdx is only used for its
\* size: the entry copied in place k is the k-th one, not the one sorted
\* there.
Rearranged(list) == [k \in DOMAIN list |-> list[k]]

SortNext ==
    /\ reading = "sort"
    /\ \/ /\ i <= Len(Uuids)
          /\ ts' = [ts EXCEPT ![Uuids[i]] = [to |-> Rearranged(@.to), from |-> Rearranged(@.from)]]
          /\ i' = i + 1
          /\ UNCHANGED <<reading, ret>>
       \/ /\ i > Len(Uuids)
          /\ reading' = "returned" /\ ret' = "0"
          /\ UNCHANGED <<ts, i>>
    /\ UNCHANGED files

NodesNext == ReadNext \/ AllRead \/ SortNext

-----------------------------------------------------------------------------
Listed(list, n, time) == Footpath(n, time) \in ToSet(list)

WalkingTimes == {0} \cup UNION {{e.time : e \in ToSet(files[n].entries)} : n \in Known}

\* At every moment, and after a failure too, a footpath of a forward
\* calculation is one of the reverse calculation and leads to a node that
\* exists.  When all files have been read, the reverse lists are the
\* converse of the lists: the reverse calculation walks the footpaths of the
\* forward one.  In addition a node with a file has itself in its reverse list.
ListsConverse ==
    /\ \A n \in Known : \A k \in DOMAIN ts[n].to :
         LET e == ts[n].to[k] IN e.node \in Known /\ Listed(ts[e.node].from, n, e.time)
    /\ ret = "0" =>
         \A m, n \in Known : \A x \in WalkingTimes :
           Listed(ts[m].from, n, x) <=>
             \/ Listed(ts[n].to, m, x)
             \/ m = n /\ x = 0 /\ files[n].state = "complete"
=============================================================================
