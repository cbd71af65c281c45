------------------------------- MODULE Query -------------------------------
(***************************************************************************)
(* The read path: Engine.Query (internal/query), the sparse index and the  *)
(* bloom cache (internal/index), one query at a time, over the keys and    *)
(* files of Storage.  A step is one read of pebble, one test of the cache  *)
(* or one block file opened; what other goroutines do comes in between.    *)
(* Time is counted in hours, as in BlockIDs.                               *)
(***************************************************************************)
EXTENDS Storage, Sequences

CONSTANTS
    MaxParallel,    \* concurrent block reads
    CacheSize,      \* filters the bloom cache has room for; 0 is "no limit"
    MaxQueries      \* bound: queries made

ASSUME ParallelAssumption == MaxParallel \in Nat \ {0}

ASSUME CacheAssumption == CacheSize \in Nat

VARIABLES
    timestamp,  \* per event: the hour of its timestamp
    qpc,        \* where Query is
    qkey, qfrom, qto,   \* the request: a key hash and the hours [qfrom, qto)
    cand,       \* candidate blocks from the index, not yet filtered
    tasks,      \* blocks to read, no reader started
    readers,    \* blocks being read
    rows,       \* rows found, <<block, event>>
    failed,     \* some reader returned an error
    cached,     \* bloom cache: per block, the keys of the filter it holds
    order,      \* bloom cache: blocks, most recently used first
    queries,
    due         \* history: matching rows that were committed when the query began

requestVars == <<qkey, qfrom, qto>>
cacheVars == <<cached, order>>
queryVars == <<timestamp, qpc, requestVars, cand, tasks, readers, rows, failed, cacheVars, queries,
               due>>

QueryInit ==
    /\ qpc = "idle" /\ qkey \in Keys /\ qfrom = 0 /\ qto = 0
    /\ cand = {} /\ tasks = {} /\ readers = {} /\ rows = {} /\ failed = FALSE
    /\ cached = [id \in BlockIDs |-> {}] /\ order = <<>>
    /\ queries = 0 /\ due = {}
-----------------------------------------------------------------------------
(* SparseIndex.Lookup: a block covers [id, id + 1). *)

\* Mutant: the upper bound of the range is taken for the block's end.
Lookup_WholeBlock(k, from, to) ==
    {id \in BlockIDs : <<k, id>> \in idx /\ id + 1 < to /\ id + 1 > from}

Lookup(k, from, to) ==
    {id \in BlockIDs : <<k, id>> \in idx /\ id < to /\ id + 1 > from}

Matching(id, k, from, to) ==
    {<<id, e>> : e \in {x \in block[id] :
                          KeyHash[x] = k /\ from <= timestamp[x] /\ timestamp[x] < to}}

QueryStart(k, from, to) ==
    /\ qpc = "idle" /\ queries < MaxQueries /\ from < to
    /\ queries' = queries + 1
    /\ qkey' = k /\ qfrom' = from /\ qto' = to
    /\ cand' = Lookup(k, from, to)
    /\ rows' = {} /\ failed' = FALSE
    /\ due' = UNION {Matching(id, k, from, to) : id \in blk}
    /\ qpc' = "bloom"
    /\ UNCHANGED <<storageVars, timestamp, tasks, readers, cacheVars>>
-----------------------------------------------------------------------------
(* BloomCache.Test *)

InCache(id) == \E i \in DOMAIN order : order[i] = id

\* Evict the oldest until there is room, then put the new filter in front.
Evicted == IF CacheSize > 0 /\ Len(order) >= CacheSize
           THEN SubSeq(order, 1, CacheSize - 1)
           ELSE order

Load(id) ==
    /\ cached' = [cached EXCEPT ![id] = bloom[id]]
    /\ order' = <<id>> \o Evicted

\* list.MoveToFront, for the element at position i.
MoveToFront(i) ==
    [j \in DOMAIN order |-> CASE j = 1 -> order[i] [] j \in 2..i -> order[j - 1] [] OTHER -> order[j]]

\* Mutant: PushFront in place of MoveToFront leaves the old element in the list.
Touch_Pushed(id) ==
    /\ order' = <<id>> \o order
    /\ UNCHANGED cached

Touch(id) ==
    /\ \E i \in DOMAIN order : order[i] = id /\ order' = MoveToFront(i)
    /\ UNCHANGED cached

\* A filter may claim a key it does not have.
MayContain(filter) == {TRUE} \cup {FALSE : x \in {qkey} \ filter}

Candidate(id) == id \in cand /\ \A x \in cand : id <= x

\* The outcome of a test for the first candidate: on to its metadata, or drop it.
Filter(id, present) ==
    /\ cand' = IF present THEN cand ELSE cand \ {id}
    /\ qpc' = IF present THEN "meta" ELSE "bloom"

QueryTestCached ==
    /\ qpc = "bloom"
    /\ \E id \in cand :
        /\ Candidate(id) /\ InCache(id)
        /\ Touch(id)
        /\ \E present \in MayContain(cached[id]) : Filter(id, present)
    /\ UNCHANGED <<storageVars, timestamp, requestVars, tasks, readers, rows, failed, queries, due>>

QueryTestLoaded ==
    /\ qpc = "bloom"
    /\ \E id \in cand :
        /\ Candidate(id) /\ ~InCache(id) /\ id \notin torn
        /\ IF bloom[id] = {}
             THEN Filter(id, FALSE) /\ UNCHANGED cacheVars
             ELSE Load(id) /\ \E present \in MayContain(bloom[id]) : Filter(id, present)
    /\ UNCHANGED <<storageVars, timestamp, requestVars, tasks, readers, rows, failed, queries, due>>

\* A bloom file that is still being written cannot be decoded.
QueryTestFails ==
    /\ qpc = "bloom"
    /\ \E id \in cand : Candidate(id) /\ ~InCache(id) /\ id \in torn
    /\ qpc' = "idle"
    /\ cand' = {} /\ tasks' = {}
    /\ UNCHANGED <<storageVars, timestamp, requestVars, readers, rows, failed, cacheVars, queries, due>>

QueryGetMeta ==
    /\ qpc = "meta"
    /\ \E id \in cand :
        /\ Candidate(id)
        /\ cand' = cand \ {id}
        /\ tasks' = IF id \in blk THEN tasks \cup {id} ELSE tasks
    /\ qpc' = "bloom"
    /\ UNCHANGED <<storageVars, timestamp, requestVars, readers, rows, failed, cacheVars, queries, due>>

\* An error other than ErrNotFound ends the query.
QueryMetaFails ==
    /\ qpc = "meta"
    /\ qpc' = "idle"
    /\ cand' = {} /\ tasks' = {}
    /\ UNCHANGED <<storageVars, timestamp, requestVars, readers, rows, failed, cacheVars, queries, due>>
-----------------------------------------------------------------------------
(* The readers, at most MaxParallel at a time, and ReadBlock. *)

QueryFiltered ==
    /\ qpc = "bloom" /\ cand = {}
    /\ qpc' = "read"
    /\ UNCHANGED <<storageVars, timestamp, requestVars, cand, tasks, readers, rows, failed,
                   cacheVars, queries, due>>

StartReader ==
    /\ qpc = "read" /\ Cardinality(readers) < MaxParallel
    /\ \E id \in tasks :
        /\ \A x \in tasks : id <= x
        /\ tasks' = tasks \ {id}
        /\ readers' = readers \cup {id}
    /\ UNCHANGED <<storageVars, timestamp, qpc, requestVars, cand, rows, failed, cacheVars, queries, due>>

\* Once open, the file keeps its rows.
ReadBlock(id) ==
    /\ qpc = "read" /\ id \in readers
    /\ readers' = readers \ {id}
    /\ IF Exists(id)
         THEN rows' = rows \cup Matching(id, qkey, qfrom, qto) /\ UNCHANGED failed
         ELSE failed' = TRUE /\ UNCHANGED rows
    /\ UNCHANGED <<storageVars, timestamp, qpc, requestVars, cand, tasks, cacheVars, queries, due>>

QueryReturns == qpc = "read" /\ tasks = {} /\ readers = {}

QueryEnd ==
    /\ QueryReturns
    /\ qpc' = "idle"
    /\ UNCHANGED <<storageVars, timestamp, requestVars, cand, tasks, readers, rows, failed,
                   cacheVars, queries, due>>

QueryStep ==
    \/ QueryTestCached \/ QueryTestLoaded \/ QueryTestFails
    \/ QueryGetMeta \/ QueryMetaFails \/ QueryFiltered \/ StartReader \/ QueryEnd
    \/ \E id \in BlockIDs : ReadBlock(id)
    \/ \E k \in Keys, from \in Hours, to \in 1..MaxHour + 1 : QueryStart(k, from, to)

\* The process ends: the cache goes with it.
QueryResets ==
    /\ qpc' = "idle" /\ cand' = {} /\ tasks' = {} /\ readers' = {}
    /\ rows' = {} /\ failed' = FALSE
    /\ order' = <<>>
    /\ UNCHANGED <<timestamp, requestVars, cached, queries, due>>
-----------------------------------------------------------------------------
\* The hour of the block is in the range asked for.
InRange(id) == qfrom <= id /\ id < qto

(* The variables of the read path stay within their types, and the bloom     *)
(* cache holds one filter per block and no more than it has room for.        *)
QueryTypeOK ==
    /\ timestamp \in [Events -> Hours]
    /\ qpc \in {"idle", "bloom", "meta", "read"}
    /\ qkey \in Keys /\ qfrom \in Hours /\ qto \in 0..MaxHour + 1
    /\ cand \subseteq BlockIDs /\ tasks \subseteq BlockIDs /\ readers \subseteq BlockIDs
    /\ rows \subseteq BlockIDs \X Events /\ due \subseteq BlockIDs \X Events /\ failed \in BOOLEAN
    /\ cached \in [BlockIDs -> SUBSET Keys] /\ order \in Seq(BlockIDs)
    /\ CacheSize > 0 => Len(order) <= CacheSize
    /\ \A i, j \in DOMAIN order : order[i] = order[j] => i = j
=============================================================================
