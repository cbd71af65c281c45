---------------------------- MODULE Query_proofs ----------------------------
(***************************************************************************)
(* Proofs about queries, beside the writer of the shard (WriterQuery) and  *)
(* beside the reaper and the janitor (TTLQuery), for any events, keys,     *)
(* hours, retention period, parallelism and size of the bloom cache.  What *)
(* is proved of the writer and of the loops without queries is used as it  *)
(* stands: a query changes nothing of theirs.                              *)
(***************************************************************************)
EXTENDS WriterQuery, TTLQuery, ShardWriter_proofs, TTL_proofs

\* A leaf that names no prover is one for Zenon.
USE ZenonT(120)

\* What a query needs of a block: the cache, if it has the filter, included.
Readable(id) ==
    /\ id \in blk /\ Exists(id)
    /\ KeysOf(block[id]) \X {id} \subseteq idx
    /\ KeysOf(block[id]) \subseteq bloom[id]
    /\ InCache(id) => KeysOf(block[id]) \subseteq cached[id]

\* The row x is on its way to the result: its block has not been dropped.
Tracked(x) ==
    /\ x \in Matching(x[1], qkey, qfrom, qto)
    /\ x[1] \in cand \cup tasks \cup readers \/ x \in rows

\* What is left of a query at its steps.
Filtered ==
    /\ qpc = "read" => cand = {}
    /\ qpc # "read" => readers = {}
    /\ qpc = "idle" => tasks = {}

\* Beside the writer: a cached filter has the keys of the block that is
\* committed, or being sealed, under a BlockID used once.
CacheFilled ==
    /\ \A id \in BlockIDs \ attempted : bloom[id] = {} /\ ~InCache(id)
    /\ \A id \in blk \ reused : InCache(id) => KeysOf(block[id]) \subseteq cached[id]
    /\ Sealing /\ openedAt \notin reused =>
          IF pc \in {"put", "idx"} THEN InCache(openedAt) => KeysOf(mem) \subseteq cached[openedAt]
          ELSE bloom[openedAt] = {} /\ ~InCache(openedAt)

WriterTracked ==
    qpc # "idle" => \A x \in due : InRange(x[1]) /\ x[1] \notin reused => x[1] \in blk /\ Tracked(x)

WriterQueryInv ==
    /\ QueryTypeOK /\ Filtered /\ CacheFilled /\ WriterTracked
    /\ tasks \cup readers \subseteq blk
    /\ OpenSucceeds

\* Beside the loops: the initial blocks have all rows and all keys.
Whole ==
    /\ torn = {} /\ idxSynced = idx
    /\ \A id \in blk : Keys \X {id} \subseteq idx /\ (~Expired(id) => block[id] = Events
         /\ bloom[id] = Keys)
    /\ \A id \in BlockIDs : bloom[id] \in {{}, Keys}
    /\ \A id \in BlockIDs : InCache(id) => cached[id] = Keys

TTLTracked ==
    qpc # "idle" =>
        /\ \A x \in due : InRange(x[1]) /\ ~Expired(x[1]) => x[1] \in blk /\ Tracked(x)
        /\ \A id \in cand \cup tasks \cup readers : InRange(id)
        /\ \A id \in tasks \cup readers : Expired(id) \/ id \in blk

TTLQueryInv == QueryTypeOK /\ Filtered /\ Whole /\ TTLTracked /\ OpenFailsOnlyIfExpired
-----------------------------------------------------------------------------
(* A step of a query keeps what the shard has.                               *)
LEMMA QueryFrame == ASSUME QueryStep PROVE UNCHANGED <<storageVars, timestamp>>
BY DEF QueryStep, QueryTestCached, QueryTestLoaded, QueryTestFails, QueryMetaFails, QueryGetMeta,
       QueryFiltered,
       StartReader, QueryEnd, ReadBlock, QueryStart

(* Matching is what it was while the file and the timestamps are.            *)
LEMMA MatchingFrame ==
    ASSUME UNCHANGED <<block, timestamp>>, NEW id, NEW k, NEW from, NEW to
    PROVE  Matching(id, k, from, to)' = Matching(id, k, from, to)
BY DEF Matching

(* Key and range are the query's from its start to its end.                  *)
LEMMA RequestFrame ==
    ASSUME QueryStep, qpc # "idle" PROVE UNCHANGED <<qkey, qfrom, qto, due>>
BY DEF QueryStep, QueryTestCached, QueryTestLoaded, QueryTestFails, QueryMetaFails, QueryGetMeta,
       QueryFiltered,
       StartReader, QueryEnd, ReadBlock, QueryStart, requestVars

(* A row that matches has its key among those of the block.                  *)
LEMMA MatchingKey ==
    ASSUME NEW id, NEW k, NEW from, NEW to, NEW x \in Matching(id, k, from, to)
    PROVE  x[1] = id /\ k \in KeysOf(block[id])
BY SMTT(30) DEF Matching, KeysOf

(* The index has every readable block of the range that has a matching row.  *)
LEMMA StartTracks ==
    ASSUME QueryTypeOK, NEW k \in Keys, NEW from \in Hours, NEW to \in 1..MaxHour + 1,
           QueryStart(k, from, to), NEW x \in due', InRange(x[1])', Readable(x[1]), x[1] \in BlockIDs
    PROVE  Tracked(x)'
<1>1. PICK id \in blk : x \in Matching(id, k, from, to)
  BY DEF QueryStart
<1>2. x[1] = id /\ k \in KeysOf(block[id])
  BY <1>1, MatchingKey
<1>3. <<k, id>> \in idx
  BY <1>2 DEF Readable
<1>4. id < to /\ id + 1 > from
  BY SMTT(30), <1>2, HourAssumption DEF InRange, QueryStart, BlockIDs, Hours
<1>5. x[1] \in cand'
  BY <1>2, <1>3, <1>4 DEF QueryStart, Lookup
<1>6. x \in Matching(x[1], qkey, qfrom, qto)'
  BY <1>1, <1>2 DEF Matching, QueryStart, storageVars, fileVars
<1> QED
  BY <1>5, <1>6 DEF Tracked

(* The test of the bloom filter, cached or loaded, lets a block pass that    *)
(* has a matching row.                                                       *)
LEMMA BloomTracks ==
    ASSUME QueryTestCached \/ QueryTestLoaded, NEW x, Readable(x[1]), Tracked(x)
    PROVE  Tracked(x)'
<1>1. qkey \in KeysOf(block[x[1]])
  BY MatchingKey DEF Tracked
<1>2. UNCHANGED <<block, timestamp, qkey, qfrom, qto, tasks, readers, rows>>
  BY DEF QueryTestCached, QueryTestLoaded, storageVars, fileVars, requestVars
<1>3. x \in Matching(x[1], qkey, qfrom, qto)'
  BY <1>2, MatchingFrame DEF Tracked
<1>4. ASSUME NEW id \in cand, NEW filter, NEW present \in MayContain(filter), Filter(id, present),
             id = x[1] => qkey \in filter
      PROVE  x[1] \in cand => x[1] \in cand'
  BY <1>4 DEF Filter, MayContain
<1>5. x[1] \in cand => x[1] \in cand'
  <2>1. CASE QueryTestCached
    BY <1>1, <1>4, <2>1 DEF QueryTestCached, Readable
  <2>2. CASE QueryTestLoaded
    BY <1>1, <1>4, <2>2 DEF QueryTestLoaded, Readable, Filter
  <2> QED
    BY <2>1, <2>2
<1> QED
  BY <1>2, <1>3, <1>5 DEF Tracked

(* Metadata, readers and files: a readable block becomes a task, then is     *)
(* read.                                                                     *)
LEMMA ReadTracks ==
    ASSUME QueryGetMeta \/ QueryFiltered \/ StartReader \/ \E id \in BlockIDs : ReadBlock(id),
           NEW x, Readable(x[1]), Tracked(x)
    PROVE  Tracked(x)'
<1>1. UNCHANGED <<block, timestamp, qkey, qfrom, qto>>
  BY DEF QueryGetMeta, QueryFiltered, StartReader, ReadBlock, storageVars, fileVars, requestVars
<1>2. x \in Matching(x[1], qkey, qfrom, qto)'
  BY <1>1, MatchingFrame DEF Tracked
<1>3. CASE QueryGetMeta
  BY <1>2, <1>3 DEF QueryGetMeta, Tracked, Readable
<1>4. CASE QueryFiltered \/ StartReader
  BY <1>2, <1>4 DEF QueryFiltered, StartReader, Tracked
<1>5. ASSUME NEW id \in BlockIDs, ReadBlock(id) PROVE Tracked(x)'
  BY <1>2, <1>5 DEF ReadBlock, Tracked, Readable
<1> QED
  BY <1>3, <1>4, <1>5

(* Rows are due to a query in the blocks that are committed at its start.    *)
LEMMA StartDue ==
    ASSUME QueryStep, qpc = "idle", qpc' # "idle", NEW x \in due' PROVE x[1] \in blk
<1>1. PICK k \in Keys, from \in Hours, to \in 1..MaxHour + 1 : QueryStart(k, from, to)
  BY DEF QueryStep, QueryTestCached, QueryTestLoaded, QueryTestFails, QueryMetaFails, QueryGetMeta,
         QueryFiltered, StartReader, QueryEnd, QueryReturns, ReadBlock
<1>2. PICK id \in blk : x \in Matching(id, k, from, to)
  BY <1>1 DEF QueryStart
<1> QED
  BY <1>2, MatchingKey

(* A step of a query loses no row of a readable block of its range.          *)
LEMMA QueryTracks ==
    ASSUME QueryTypeOK, QueryStep, qpc' # "idle", NEW x \in due', InRange(x[1])',
           Readable(x[1]), x[1] \in BlockIDs, qpc # "idle" /\ x \in due /\ InRange(x[1])
             => Tracked(x)
    PROVE  Tracked(x)'
<1>1. CASE qpc = "idle"
  <2>1. \E k \in Keys, from \in Hours, to \in 1..MaxHour + 1 : QueryStart(k, from, to)
    BY <1>1 DEF QueryStep, QueryTestCached, QueryTestLoaded, QueryTestFails, QueryMetaFails,
                QueryGetMeta,
                QueryFiltered, StartReader, QueryEnd, QueryReturns, ReadBlock
  <2> QED
    BY <2>1, StartTracks
<1>2. CASE qpc # "idle"
  <2>1. Tracked(x)
    BY <1>2, RequestFrame DEF InRange
  <2>2. ~QueryTestFails /\ ~QueryMetaFails /\ ~QueryEnd
    BY DEF QueryTestFails, QueryMetaFails, QueryEnd
  <2>3. ~\E k \in Keys, from \in Hours, to \in 1..MaxHour + 1 : QueryStart(k, from, to)
    BY <1>2 DEF QueryStart
  <2> QED
    BY <2>1, <2>2, <2>3, BloomTracks, ReadTracks DEF QueryStep
<1> QED
  BY <1>1, <1>2
-----------------------------------------------------------------------------
(* MoveToFront, for an element of the list, permutes the list.               *)
LEMMA MoveToFrontSeq ==
    ASSUME order \in Seq(BlockIDs), NEW i \in DOMAIN order,
           \A a, b \in DOMAIN order : order[a] = order[b] => a = b
    PROVE  /\ MoveToFront(i) \in Seq(BlockIDs) /\ DOMAIN MoveToFront(i) = DOMAIN order
           /\ Len(MoveToFront(i)) = Len(order)
           /\ \A a, b \in DOMAIN order : MoveToFront(i)[a] = MoveToFront(i)[b] => a = b
           /\ \A a \in DOMAIN order : \E b \in DOMAIN order : MoveToFront(i)[a] = order[b]
<1> DEFINE m == MoveToFront(i)
           src(j) == IF j = 1 THEN i ELSE IF j \in 2..i THEN j - 1 ELSE j
<1>1. DOMAIN order = 1..Len(order) /\ Len(order) \in Nat
  BY SMTT(30)
<1>2. \A j \in DOMAIN order : src(j) \in DOMAIN order /\ m[j] = order[src(j)]
  BY SMTT(30), <1>1 DEF MoveToFront
<1>3. \A a, b \in DOMAIN order : src(a) = src(b) => a = b
  BY SMTT(30), <1>1
<1>4. DOMAIN m = 1..Len(order)
  BY <1>1 DEF MoveToFront
<1>5. m \in [1..Len(order) -> BlockIDs]
  BY SMTT(30), <1>1, <1>2, <1>4 DEF MoveToFront
<1>6. m \in Seq(BlockIDs) /\ Len(m) = Len(order)
  BY SMTT(30), <1>1, <1>5
<1> HIDE DEF m, src
<1>7. \A a, b \in DOMAIN order : m[a] = m[b] => a = b
  BY <1>2, <1>3
<1>8. \A a \in DOMAIN order : \E b \in DOMAIN order : m[a] = order[b]
  BY <1>2
<1> QED
  BY <1>1, <1>4, <1>6, <1>7, <1>8 DEF m

(* A filter loaded into the cache comes in front of what eviction leaves.    *)
LEMMA LoadSeq ==
    ASSUME order \in Seq(BlockIDs), NEW id \in BlockIDs, ~InCache(id),
           CacheSize > 0 => Len(order) <= CacheSize,
           \A a, b \in DOMAIN order : order[a] = order[b] => a = b,
           NEW list, list = <<id>> \o Evicted
    PROVE  /\ list \in Seq(BlockIDs) /\ (CacheSize > 0 => Len(list) <= CacheSize)
           /\ \A a, b \in DOMAIN list : list[a] = list[b] => a = b
           /\ \A a \in DOMAIN list : list[a] = id \/ \E b \in DOMAIN order : list[a] = order[b]
<1>1. PICK n \in 0..Len(order) : Evicted = SubSeq(order, 1, n) /\ (CacheSize > 0 => n < CacheSize)
  <2>1. CASE CacheSize > 0 /\ Len(order) >= CacheSize
    BY SMTT(30), <2>1, CacheAssumption DEF Evicted
  <2>2. CASE ~(CacheSize > 0 /\ Len(order) >= CacheSize)
    <3>1. Evicted = SubSeq(order, 1, Len(order))
      BY SMTT(30), <2>2 DEF Evicted
    <3> QED
      BY SMTT(30), <2>2, <3>1, CacheAssumption
  <2> QED
    BY <2>1, <2>2
<1>2. Evicted \in Seq(BlockIDs) /\ Len(Evicted) = n /\ \A a \in 1..n : Evicted[a] = order[a]
  BY SMTT(30), <1>1
<1>3. list \in Seq(BlockIDs) /\ Len(list) = n + 1 /\ list[1] = id
      /\ \A a \in 2..n + 1 : list[a] = order[a - 1]
  BY SMTT(30), <1>2
<1>4. DOMAIN list = 1..n + 1
  BY SMTT(30), <1>3
<1>5. \A a \in 2..n + 1 : list[a] # id
  BY SMTT(30), <1>3 DEF InCache
<1>6. ASSUME NEW a \in DOMAIN list, NEW b \in DOMAIN list, list[a] = list[b] PROVE a = b
  <2>1. CASE a = 1 \/ b = 1
    BY SMTT(30), <1>3, <1>4, <1>5, <1>6, <2>1
  <2>2. CASE a # 1 /\ b # 1
    <3>1. a - 1 \in DOMAIN order /\ b - 1 \in DOMAIN order /\ order[a - 1] = order[b - 1]
      BY SMTT(30), <1>3, <1>4, <1>6, <2>2
    <3>2. a - 1 = b - 1
      BY <3>1
    <3> QED
      BY SMTT(30), <1>4, <3>2
  <2> QED
    BY <2>1, <2>2
<1>7. \A a \in DOMAIN list : list[a] = id \/ \E b \in DOMAIN order : list[a] = order[b]
  BY SMTT(30), <1>3, <1>4
<1>8. CacheSize > 0 => Len(list) <= CacheSize
  BY SMTT(30), <1>1, <1>3, CacheAssumption
<1> QED
  BY <1>3, <1>6, <1>7, <1>8

(* What the bloom cache holds after a step of a query it held before, or it  *)
(* is the filter of a whole bloom file.                                      *)
LEMMA CacheStep ==
    ASSUME QueryTypeOK, QueryStep, NEW id, InCache(id)'
    PROVE  \/ InCache(id) /\ cached'[id] = cached[id]
           \/ bloom[id] # {} /\ id \notin torn /\ cached'[id] = bloom[id]
<1> USE DEF QueryTypeOK
<1>1. CASE QueryTestCached
  <2>1. PICK i \in DOMAIN order : order' = MoveToFront(i)
    BY <1>1 DEF QueryTestCached, Touch
  <2>2. InCache(id)
    BY SMTT(30), <2>1, MoveToFrontSeq DEF InCache
  <2> QED
    BY <1>1, <2>2 DEF QueryTestCached, Touch
<1>2. CASE QueryTestLoaded
  <2>1. PICK c \in cand : /\ ~InCache(c) /\ c \notin torn
                          /\ \/ UNCHANGED cacheVars
                             \/ bloom[c] # {} /\ Load(c)
    BY <1>2 DEF QueryTestLoaded
  <2>2. CASE UNCHANGED cacheVars
    BY <2>2 DEF cacheVars, InCache
  <2>3. CASE bloom[c] # {} /\ Load(c)
    <3>1. \A a \in DOMAIN order' : order'[a] = c \/ \E b \in DOMAIN order : order'[a] = order[b]
      <4>1. c \in BlockIDs /\ order' = <<c>> \o Evicted
        BY <2>3 DEF Load
      <4> QED
        BY <2>1, <4>1, LoadSeq
    <3>2. id = c \/ InCache(id)
      BY <3>1 DEF InCache
    <3> QED
      BY SMTT(30), <2>1, <2>3, <3>2 DEF Load
  <2> QED
    BY <2>1, <2>2, <2>3
<1>3. CASE UNCHANGED cacheVars
  BY <1>3 DEF cacheVars, InCache
<1> QED
  BY <1>1, <1>2, <1>3 DEF QueryStep, QueryTestFails, QueryMetaFails, QueryGetMeta, QueryFiltered,
                          StartReader,
                          QueryEnd, ReadBlock, QueryStart

(* A row that matches is a row of the block.                                 *)
LEMMA MatchingType ==
    ASSUME block \in [BlockIDs -> SUBSET Events], NEW id \in BlockIDs, NEW k, NEW from, NEW to
    PROVE  Matching(id, k, from, to) \subseteq BlockIDs \X Events
BY SMTT(30) DEF Matching

(* A step of a query keeps the types, and the cache within its size.         *)
LEMMA QueryTypeStep == ASSUME StorageTypeOK, QueryTypeOK, QueryStep PROVE QueryTypeOK'
<1>0. UNCHANGED <<storageVars, timestamp>>
  BY QueryFrame
<1>1. CASE QueryTestCached
  <2>1. PICK i \in DOMAIN order : order' = MoveToFront(i)
    BY <1>1 DEF QueryTestCached, Touch
  <2>2. order' \in Seq(BlockIDs) /\ Len(order') = Len(order)
        /\ \A a, b \in DOMAIN order' : order'[a] = order'[b] => a = b
    <3>1. /\ order \in Seq(BlockIDs)
          /\ \A a, b \in DOMAIN order : order[a] = order[b] => a = b
      BY DEF QueryTypeOK
    <3> QED
      BY <2>1, <3>1, MoveToFrontSeq
  <2>3. cand' \subseteq BlockIDs /\ qpc' \in {"meta", "bloom"} /\ UNCHANGED cached
    BY <1>1 DEF QueryTestCached, Touch, Filter, QueryTypeOK
  <2> QED
    BY <1>1, <2>2, <2>3 DEF QueryTestCached, QueryTypeOK, requestVars
<1>2. CASE QueryTestLoaded
  <2>1. PICK c \in cand : ~InCache(c) /\ (UNCHANGED cacheVars \/ Load(c))
    BY <1>2 DEF QueryTestLoaded
  <2>2. c \in BlockIDs
    BY DEF QueryTypeOK
  <2>3. /\ order' \in Seq(BlockIDs) /\ (CacheSize > 0 => Len(order') <= CacheSize)
        /\ \A a, b \in DOMAIN order' : order'[a] = order'[b] => a = b
    <3>1. CASE UNCHANGED cacheVars
      BY <3>1 DEF QueryTypeOK, cacheVars
    <3>2. CASE Load(c)
      BY <2>1, <2>2, <3>2, LoadSeq DEF QueryTypeOK, Load
    <3> QED
      BY <2>1, <3>1, <3>2
  <2>4. cached' \in [BlockIDs -> SUBSET Keys]
    BY <2>1, <2>2 DEF QueryTypeOK, cacheVars, Load, StorageTypeOK
  <2>5. cand' \subseteq BlockIDs /\ qpc' \in {"meta", "bloom"}
    BY <1>2 DEF QueryTestLoaded, Filter, QueryTypeOK
  <2> QED
    BY <1>2, <2>3, <2>4, <2>5 DEF QueryTestLoaded, QueryTypeOK, requestVars
<1>3. CASE QueryTestFails \/ QueryMetaFails \/ QueryGetMeta \/ QueryFiltered
              \/ StartReader \/ QueryEnd
  BY <1>3 DEF QueryTestFails, QueryMetaFails, QueryGetMeta, QueryFiltered, StartReader, QueryEnd,
              QueryTypeOK, requestVars, cacheVars
<1>4. ASSUME NEW id \in BlockIDs, ReadBlock(id) PROVE QueryTypeOK'
  <2>1. rows' \subseteq BlockIDs \X Events /\ failed' \in BOOLEAN
    BY <1>4, MatchingType DEF ReadBlock, QueryTypeOK, StorageTypeOK
  <2> QED
    BY <1>4, <2>1 DEF ReadBlock, QueryTypeOK, requestVars, cacheVars
<1>5. ASSUME NEW k \in Keys, NEW from \in Hours, NEW to \in 1..MaxHour + 1, QueryStart(k, from, to)
      PROVE  QueryTypeOK'
  <2>1. due' \subseteq BlockIDs \X Events
    <3>1. \A id \in blk : Matching(id, k, from, to) \subseteq BlockIDs \X Events
      BY MatchingType DEF StorageTypeOK
    <3> QED
      BY <1>5, <3>1 DEF QueryStart
  <2>2. to \in 0..MaxHour + 1
    BY SMTT(30), HourAssumption
  <2>3. cand' \subseteq BlockIDs
    BY <1>5 DEF QueryStart, Lookup
  <2> QED
    BY <1>5, <2>1, <2>2, <2>3 DEF QueryStart, QueryTypeOK, cacheVars
<1> QED
  BY <1>1, <1>2, <1>3, <1>4, <1>5 DEF QueryStep

(* The candidates are gone when the blocks are read, and the readers when    *)
(* the query is over.                                                        *)
LEMMA FilteredStep == ASSUME Filtered, QueryStep PROVE Filtered'
<1>1. CASE QueryTestCached \/ QueryTestLoaded
  <2>1. qpc = "bloom" /\ qpc' \in {"meta", "bloom"} /\ UNCHANGED readers
    BY <1>1 DEF QueryTestCached, QueryTestLoaded, Filter
  <2> QED
    BY <2>1 DEF Filtered
<1>2. CASE ~QueryTestCached /\ ~QueryTestLoaded
  BY <1>2 DEF Filtered, QueryStep, QueryTestFails, QueryMetaFails, QueryGetMeta, QueryFiltered,
              StartReader,
              QueryEnd, QueryReturns, ReadBlock, QueryStart
<1> QED
  BY <1>1, <1>2

(* The cache is empty when the process starts.                               *)
LEMMA EmptyCache ==
    /\ <<>> \in Seq(BlockIDs) /\ Len(<<>>) = 0
    /\ CacheSize > 0 => Len(<<>>) <= CacheSize
    /\ \A i, j \in DOMAIN <<>> : <<>>[i] = <<>>[j] => i = j
    /\ \A i \in DOMAIN <<>> : FALSE
BY SMTT(30), CacheAssumption

(* What a process leaves to the next one has its type.                       *)
LEMMA ResetTypes == ASSUME QueryTypeOK, QueryResets PROVE QueryTypeOK'
<1>1. failed' \in BOOLEAN
  BY DEF QueryResets
<1>2. order' = <<>>
  BY DEF QueryResets
<1>3. /\ order' \in Seq(BlockIDs)
      /\ CacheSize > 0 => Len(order') <= CacheSize
      /\ \A i, j \in DOMAIN order' : order'[i] = order'[j] => i = j
  BY <1>2, EmptyCache
<1> QED
  BY <1>1, <1>3 DEF QueryTypeOK, QueryResets, requestVars

(* The queries' variables have their types at the start.                     *)
LEMMA QueryInitTypes ==
    ASSUME QueryInit, timestamp \in [Events -> Hours] PROVE QueryTypeOK
<1>1. 0 \in Hours /\ 0 \in 0..MaxHour + 1
  BY SMTT(30), HourAssumption DEF Hours
<1>2. /\ order \in Seq(BlockIDs)
      /\ CacheSize > 0 => Len(order) <= CacheSize
      /\ \A i, j \in DOMAIN order : order[i] = order[j] => i = j
  BY EmptyCache DEF QueryInit
<1>3. failed \in BOOLEAN
  BY DEF QueryInit
<1>4. cached \in [BlockIDs -> SUBSET Keys]
  BY DEF QueryInit
<1> QED
  BY <1>1, <1>2, <1>3, <1>4 DEF QueryTypeOK, QueryInit
-----------------------------------------------------------------------------
(* Queries beside the writer *)

(* A query changes nothing of the writer: a step of both is one of the       *)
(* writer, or none of it.                                                    *)
LEMMA SysStep == ASSUME [SysNext]_sysVars PROVE [Next]_vars
<1>1. CASE SysNext
  <2>1. CASE QueryStep /\ UNCHANGED <<writerVars, boundVars, history>>
    BY <2>1, QueryFrame DEF vars
  <2> QED
    BY <1>1, <2>1 DEF SysNext, StampedPush, Next
<1>2. CASE UNCHANGED sysVars
  BY <1>2 DEF sysVars
<1> QED
  BY <1>1, <1>2

(* A step that is neither of Seal nor a crash leaves files and metadata      *)
(* alone.                                                                    *)
LEMMA NoSealFrame ==
    ASSUME \/ Select(FALSE) \/ Select(TRUE) \/ DrainAll \/ NothingToSeal \/ SealStart
           \/ \E e \in Events : FlushNextSeq(e) \/ FlushEvent(e) \/ FlushEventFails(e) \/ Push(e)
           \/ Stop \/ Start \/ Clock \/ UNCHANGED vars
    PROVE  UNCHANGED <<blk, block, bloom, torn>>
BY DEF Select, DrainAll, NothingToSeal, SealStart, FlushNextSeq, FlushEvent,
       FlushEventFails, Push,
       Stop, Start, Clock, Tick, WALNextSeq, WALSet, vars, storageVars, pebbleVars, fileVars

(* Seal writes under the BlockID of the memtable only, and commits no other. *)
LEMMA SealFrame ==
    ASSUME StorageTypeOK, Seal
    PROVE  /\ \A id \in BlockIDs \ {openedAt} : block'[id] = block[id] /\ bloom'[id] = bloom[id]
           /\ blk \subseteq blk' /\ blk' \subseteq blk \cup {openedAt}
           /\ UNCHANGED <<attempted, reused>>
<1> USE DEF SealContinues, SealFails, pebbleVars, fileVars, history
<1>1. CASE SealWriteTmp \/ SealPutIdx \/ SealCommit
  BY <1>1 DEF SealWriteTmp, SealPutIdx, SealCommit, PutIdxBatch, SealBatch
<1>2. CASE SealCreateBloom \/ SealWriteBloom \/ SealPut
  BY <1>2 DEF SealCreateBloom, SealWriteBloom, SealPut, CreateBloom, WriteBloom,
              RemoveBloom, Put,
              StorageTypeOK
<1> QED
  BY <1>1, <1>2 DEF Seal

(* Exit and crash leave the files alone, and the metadata, which pebble      *)
(* writes with Sync.                                                         *)
LEMMA DownFrame ==
    ASSUME Exit \/ Crash
    PROVE  UNCHANGED <<blk, block, bloom, torn, attempted, reused>> /\ pc' = "down"
BY DEF Exit, Crash, Down, PebbleCrash, fileVars

(* The file of a committed block whose BlockID no second Seal uses stays.    *)
LEMMA CommittedKept ==
    ASSUME IInv, [Next]_vars
    PROVE  /\ blk \subseteq blk' /\ reused \subseteq reused'
           /\ \A id \in blk \ reused : block'[id] = block[id]
<1>1. CASE Seal
  BY <1>1, SealFrame DEF IInv, TypeOK, StorageTypeOK, Written, Seal, SealWriteTmp,
                         SealCreateBloom, SealWriteBloom, SealPut,
                         SealPutIdx, SealCommit, Sealing
<1>2. CASE Exit \/ Crash
  BY <1>2, DownFrame
<1>3. CASE ~Seal /\ ~Exit /\ ~Crash
  <2>1. UNCHANGED <<blk, block>>
    BY <1>3, NoSealFrame DEF Next, Run
  <2>2. reused \subseteq reused'
    BY <1>3 DEF Next, Run, Select, DrainAll, NothingToSeal, SealStart, FlushNextSeq,
                FlushEvent,
                FlushEventFails, Push, Stop, Start, Clock, history, vars
  <2> QED
    BY <2>1, <2>2
<1> QED
  BY <1>1, <1>2, <1>3

(* The filters of the cache stay right while files change beside the query.  *)
LEMMA CacheFilledStep ==
    ASSUME IInv, CacheFilled, [Next]_vars, UNCHANGED order, UNCHANGED cached
    PROVE  CacheFilled'
<1>0. StorageTypeOK /\ openedAt \in BlockIDs /\ blk \subseteq BlockIDs /\ reused \subseteq attempted
  BY DEF IInv, TypeOK, StorageTypeOK, BlockIDs
<1>1. \A id : InCache(id)' <=> InCache(id)
  BY DEF InCache
<1>2. CASE Seal
  <2>1. Sealing /\ openedAt \in attempted /\ (openedAt \in blk => openedAt \in reused)
    BY <1>2 DEF IInv, Written, Seal, SealWriteTmp, SealCreateBloom, SealWriteBloom, SealPut,
                SealPutIdx, SealCommit, Sealing
  <2>2. /\ \A id \in BlockIDs \ {openedAt} : block'[id] = block[id] /\ bloom'[id] = bloom[id]
        /\ blk \subseteq blk' /\ blk' \subseteq blk \cup {openedAt}
             /\ UNCHANGED <<attempted, reused>>
    BY <1>0, <1>2, SealFrame
  <2>3. \A id \in BlockIDs \ attempted' : bloom'[id] = {} /\ ~InCache(id)'
    BY <1>1, <2>1, <2>2 DEF CacheFilled
  <2>4. ASSUME NEW id \in blk' \ reused', InCache(id)' PROVE KeysOf(block[id])' \subseteq cached'[id]
    <3>1. CASE id \in blk
      <4>1. id \in blk \ reused /\ InCache(id) /\ block'[id] = block[id]
        BY <1>0, <1>1, <2>1, <2>2, <2>4, <3>1
      <4> QED
        BY <4>1 DEF CacheFilled, KeysOf
    <3>2. CASE id \notin blk
      <4>1. id = openedAt /\ pc = "idx" /\ UNCHANGED block
        BY <1>2, <2>2, <2>4, <3>2 DEF Seal, SealWriteTmp, SealCreateBloom, SealWriteBloom,
            SealPut,
            SealPutIdx, SealCommit, SealFails, PutIdxBatch, pebbleVars, fileVars
      <4>2. block[openedAt] = mem
        BY <4>1 DEF IInv, Written
      <4> QED
        BY <1>1, <2>1, <2>2, <2>4, <4>1, <4>2 DEF CacheFilled, KeysOf
    <3> QED
      BY <3>1, <3>2
  <2>5. CASE ~Sealing'
    BY <2>3, <2>4, <2>5 DEF CacheFilled
  <2>6. CASE Sealing'
    <3>1. UNCHANGED <<openedAt, mem>>
      BY <1>2, <2>6 DEF Seal, SealWriteTmp, SealCreateBloom, SealWriteBloom, SealPut,
                        SealPutIdx,
                        SealCommit, SealFails, SealContinues, sealCurrentEnd, AfterFlush, Sealing
    <3>2. \/ pc' \notin {"put", "idx"} /\ pc \notin {"put", "idx"}
               /\ bloom'[openedAt] \in {bloom[openedAt], {}}
          \/ pc' \in {"put", "idx"} /\ pc \in {"put", "idx"}
          \/ pc' = "put" /\ pc = "bloomWrite"
      BY <1>0, <1>2, <2>6 DEF Seal, SealWriteTmp, SealCreateBloom, SealWriteBloom,
          SealPut, SealPutIdx,
          SealCommit, SealFails, SealContinues, sealCurrentEnd, AfterFlush, Sealing, CreateBloom,
          StorageTypeOK, fileVars
    <3>3. openedAt \notin reused =>
             IF pc' \in {"put", "idx"} THEN InCache(openedAt)
               => KeysOf(mem) \subseteq cached[openedAt]
             ELSE bloom'[openedAt] = {} /\ ~InCache(openedAt)
      BY <2>1, <3>2 DEF CacheFilled
    <3> QED
      BY <1>1, <2>2, <2>3, <2>4, <3>1, <3>3 DEF CacheFilled, KeysOf
  <2> QED
    BY <2>5, <2>6
<1>3. CASE Exit \/ Crash
  <2>1. UNCHANGED <<blk, block, bloom, attempted, reused>> /\ ~Sealing'
    BY <1>3, DownFrame DEF Sealing
  <2> QED
    BY <1>1, <2>1 DEF CacheFilled, KeysOf
<1>4. CASE SealStart
  <2>1. UNCHANGED <<blk, block, bloom>>
    BY <1>4, NoSealFrame
  <2>2. /\ attempted' = attempted \cup {openedAt}
             /\ reused' = reused \cup (attempted \cap {openedAt})
        /\ pc' = "tmp" /\ UNCHANGED openedAt
    BY <1>4 DEF SealStart
  <2> QED
    BY <1>0, <1>1, <2>1, <2>2 DEF CacheFilled, KeysOf
<1>5. CASE ~Seal /\ ~Exit /\ ~Crash /\ ~SealStart
  <2>1. UNCHANGED <<blk, block, bloom>>
    BY <1>5, NoSealFrame DEF Next, Run
  <2>2. UNCHANGED <<attempted, reused>> /\ (~Sealing' \/ (Sealing
          /\ UNCHANGED <<pc, mem, openedAt>>))
    BY <1>5 DEF Next, Run, Select, DrainAll, NothingToSeal, AfterFlush, FlushNextSeq,
                FlushEvent,
                FlushEventFails, Push, Stop, Start, Clock, history, writerVars, vars, Sealing
  <2> QED
    BY <1>1, <2>1, <2>2 DEF CacheFilled, KeysOf
<1> QED
  BY <1>2, <1>3, <1>4, <1>5

(* A filter that the query itself loads is right.                            *)
LEMMA CacheFilledQuery ==
    ASSUME IInv, QueryTypeOK, CacheFilled, QueryStep, UNCHANGED vars PROVE CacheFilled'
<1>0. UNCHANGED <<blk, block, bloom, attempted, reused, pc, mem, openedAt>>
  BY DEF vars, storageVars, pebbleVars, fileVars, writerVars, history
<1>1. \A id \in blk \ reused : KeysOf(block[id]) \subseteq bloom[id]
  BY DEF IInv, SealedComplete, Complete
<1>2. pc \in {"put", "idx"} => bloom[openedAt] = KeysOf(mem)
  BY DEF IInv, Written
<1>3. ASSUME NEW id, bloom[id] = {}, ~InCache(id) PROVE ~InCache(id)'
  BY <1>3, CacheStep
<1>4. ASSUME NEW id, NEW S, S \subseteq bloom[id], InCache(id)
               => S \subseteq cached[id], InCache(id)'
      PROVE  S \subseteq cached'[id]
  BY <1>4, CacheStep
<1>5. \A id \in BlockIDs \ attempted : bloom[id] = {} /\ ~InCache(id)'
  BY <1>3 DEF CacheFilled
<1>6. \A id \in blk \ reused : InCache(id)' => KeysOf(block[id]) \subseteq cached'[id]
  BY <1>1, <1>4 DEF CacheFilled
<1>7. ASSUME Sealing, NEW id, id = openedAt, id \notin reused
      PROVE  IF pc \in {"put", "idx"} THEN InCache(id)' => KeysOf(mem) \subseteq cached'[id]
             ELSE bloom[id] = {} /\ ~InCache(id)'
  <2>1. CASE pc \in {"put", "idx"}
    <3>1. KeysOf(mem) \subseteq bloom[id] /\ (InCache(id) => KeysOf(mem) \subseteq cached[id])
      BY <1>2, <1>7, <2>1 DEF CacheFilled
    <3> QED
      BY <1>4, <2>1, <3>1
  <2>2. CASE pc \notin {"put", "idx"}
    <3>1. bloom[id] = {} /\ ~InCache(id)
      BY <1>7, <2>2 DEF CacheFilled
    <3> QED
      BY <1>3, <2>2, <3>1
  <2> QED
    BY <2>1, <2>2
<1> QED
  BY <1>0, <1>5, <1>6, <1>7 DEF CacheFilled, Sealing, KeysOf, InCache

(* A committed block whose BlockID was used once is readable.                *)
LEMMA CompleteReadable ==
    ASSUME IInv, CacheFilled, NEW id \in blk \ reused PROVE Readable(id)
<1>1. Complete(id) /\ idxSynced \subseteq idx
  BY DEF IInv, SealedComplete, TypeOK, StorageTypeOK
<1> QED
  BY <1>1 DEF Complete, Readable, CacheFilled

(* A query loses no row, whatever its own step.                              *)
LEMMA WriterTrackedQuery ==
    ASSUME IInv, WriterQueryInv, QueryStep, UNCHANGED vars PROVE WriterTracked'
<1> SUFFICES ASSUME qpc' # "idle", NEW x \in due', InRange(x[1])', x[1] \notin reused'
             PROVE  x[1] \in blk' /\ Tracked(x)'
  BY DEF WriterTracked
<1>0. QueryTypeOK /\ CacheFilled /\ WriterTracked /\ UNCHANGED <<blk, reused>>
        /\ blk \subseteq BlockIDs
  BY DEF WriterQueryInv, IInv, TypeOK, StorageTypeOK, vars, storageVars, pebbleVars, history
<1>1. x[1] \in blk
  <2>1. CASE qpc = "idle"
    BY <2>1, StartDue
  <2>2. CASE qpc # "idle"
    BY <1>0, <2>2, RequestFrame DEF WriterTracked, InRange
  <2> QED
    BY <2>1, <2>2
<1>2. Readable(x[1])
  BY <1>0, <1>1, CompleteReadable
<1>3. qpc # "idle" /\ x \in due /\ InRange(x[1]) => Tracked(x)
  BY <1>0 DEF WriterTracked
<1> QED
  BY <1>0, <1>1, <1>2, <1>3, QueryTracks

(* Nor does it while the writer works: pushes stamp events that no block has *)
(* yet, and Seal leaves the blocks of the query alone.                       *)
LEMMA WriterTrackedStep ==
    ASSUME IInv, WriterTracked, [Next]_vars,
           UNCHANGED <<qpc, requestVars, cand, tasks, readers, rows, due>>,
           \A e \in pushed : timestamp'[e] = timestamp[e]
    PROVE  WriterTracked'
<1> SUFFICES ASSUME qpc # "idle", NEW x \in due, InRange(x[1])', x[1] \notin reused'
             PROVE  x[1] \in blk' /\ Tracked(x)'
  BY DEF WriterTracked
<1>1. InRange(x[1]) /\ x[1] \notin reused
  BY CommittedKept DEF InRange, requestVars
<1>2. x[1] \in blk /\ Tracked(x)
  BY <1>1 DEF WriterTracked
<1>3. x[1] \in blk' /\ block'[x[1]] = block[x[1]]
  BY <1>1, <1>2, CommittedKept
<1>4. block[x[1]] \subseteq pushed
  BY <1>2 DEF IInv, Places, TypeOK, StorageTypeOK
<1>5. x \in Matching(x[1], qkey, qfrom, qto)'
  BY <1>2, <1>3, <1>4 DEF Tracked, Matching, requestVars
<1> QED
  BY <1>2, <1>3, <1>5 DEF Tracked

(* A query opens the files of committed blocks, and they are there.          *)
LEMMA OpensQuery ==
    ASSUME IInv, WriterQueryInv, QueryStep, UNCHANGED vars
    PROVE  tasks' \cup readers' \subseteq blk /\ OpenSucceeds'
<1>1. tasks \cup readers \subseteq blk /\ ~failed /\ \A id \in blk : Exists(id)
  BY DEF WriterQueryInv, OpenSucceeds, IInv, Written
<1>2. CASE \E id \in BlockIDs : ReadBlock(id)
  BY <1>1, <1>2 DEF ReadBlock, OpenSucceeds
<1>3. CASE \E k \in Keys, from \in Hours, to \in 1..MaxHour + 1 : QueryStart(k, from, to)
  BY <1>1, <1>3 DEF QueryStart, OpenSucceeds
<1>4. CASE QueryTestCached \/ QueryTestLoaded
  <2>1. UNCHANGED <<tasks, readers, failed>>
    BY <1>4 DEF QueryTestCached, QueryTestLoaded
  <2> QED
    BY <1>1, <2>1 DEF OpenSucceeds
<1>5. CASE QueryTestFails \/ QueryMetaFails \/ QueryGetMeta \/ QueryFiltered
              \/ StartReader \/ QueryEnd
  <2>1. tasks' \cup readers' \subseteq tasks \cup readers \cup blk /\ UNCHANGED failed
    BY <1>5 DEF QueryTestFails, QueryMetaFails, QueryGetMeta, QueryFiltered, StartReader, QueryEnd
  <2> QED
    BY <1>1, <2>1 DEF OpenSucceeds
<1> QED
  BY <1>2, <1>3, <1>4, <1>5 DEF QueryStep

(* A step of the writer, while no query takes one.                           *)
LEMMA WriterQueryStep ==
    ASSUME IInv, WriterQueryInv, [Next]_vars, timestamp' \in [Events -> Hours],
           UNCHANGED <<qpc, requestVars, cand, tasks, readers, rows, failed, cacheVars, queries, due>>,
           \A e \in pushed : timestamp'[e] = timestamp[e]
    PROVE  WriterQueryInv'
<1>1. QueryTypeOK'
  BY DEF WriterQueryInv, QueryTypeOK, requestVars, cacheVars
<1>2. CacheFilled'
  BY CacheFilledStep DEF WriterQueryInv, cacheVars
<1>3. WriterTracked'
  BY WriterTrackedStep DEF WriterQueryInv
<1>4. tasks' \cup readers' \subseteq blk' /\ OpenSucceeds'
  BY CommittedKept DEF WriterQueryInv, OpenSucceeds
<1>5. Filtered'
  BY DEF WriterQueryInv, Filtered
<1> QED
  BY <1>1, <1>2, <1>3, <1>4, <1>5 DEF WriterQueryInv

(* The process ends, and with it the query and the cache.                    *)
LEMMA WriterQueryDown ==
    ASSUME IInv, WriterQueryInv, Exit \/ Crash, QueryResets PROVE WriterQueryInv'
<1>1. QueryTypeOK'
  BY ResetTypes DEF WriterQueryInv
<1>2. CacheFilled'
  <2>1. \A id : ~InCache(id)'
    BY SMTT(30) DEF InCache, QueryResets
  <2> QED
    BY <2>1, DownFrame DEF WriterQueryInv, CacheFilled, Sealing
<1>3. WriterTracked' /\ OpenSucceeds' /\ tasks' \cup readers' \subseteq blk'
  BY DEF QueryResets, WriterTracked, OpenSucceeds
<1>4. Filtered'
  BY DEF QueryResets, Filtered
<1> QED
  BY <1>1, <1>2, <1>3, <1>4 DEF WriterQueryInv

(* Every step of the writer and of a query keeps the invariant.              *)
LEMMA SysNextInv == ASSUME IInv, WriterQueryInv, [SysNext]_sysVars PROVE WriterQueryInv'
<1>0. [Next]_vars
  BY SysStep
<1>t. timestamp \in [Events -> Hours]
  BY DEF WriterQueryInv, QueryTypeOK
<1>1. CASE QueryStep /\ UNCHANGED <<writerVars, boundVars, history>>
  <2>1. UNCHANGED vars
    BY <1>1, QueryFrame DEF vars
  <2>2. StorageTypeOK /\ UNCHANGED blk
    BY <2>1 DEF IInv, TypeOK, vars, storageVars, pebbleVars
  <2>3. QueryTypeOK' /\ Filtered' /\ CacheFilled'
    BY <1>1, <2>1, <2>2, QueryTypeStep, FilteredStep, CacheFilledQuery DEF WriterQueryInv
  <2> QED
    BY <1>1, <2>1, <2>2, <2>3, WriterTrackedQuery, OpensQuery DEF WriterQueryInv
<1>2. CASE UNCHANGED queryVars
  BY <1>0, <1>t, <1>2, WriterQueryStep DEF queryVars
<1>3. CASE (Exit \/ Crash) /\ QueryResets
  BY <1>3, WriterQueryDown
<1>4. ASSUME NEW e \in Events, NEW t \in Hours, StampedPush(e, t) PROVE WriterQueryInv'
  <2>1. timestamp' \in [Events -> Hours]
    BY <1>t, <1>4 DEF StampedPush
  <2>2. \A x \in pushed : timestamp'[x] = timestamp[x]
    BY <1>t, <1>4 DEF StampedPush, Push, IInv, TypeOK
  <2> QED
    BY <1>0, <1>4, <2>1, <2>2, WriterQueryStep DEF StampedPush
<1> QED
  BY <1>1, <1>2, <1>3, <1>4 DEF SysNext, sysVars

(* The writer does beside queries what it does without them: what is proved  *)
(* of Spec holds of SysSpec.                                                 *)
THEOREM QueriesHarmless == SysSpec => Spec
<1>1. SysInit => Init
  BY DEF SysInit
<1>2. [SysNext]_sysVars => [Next]_vars
  BY SysStep
<1> QED
  BY <1>1, <1>2, PTL DEF SysSpec, Spec

(* The invariant holds in every state of the writer and its queries.         *)
THEOREM WriterQueryInvariant == SysSpec => []WriterQueryInv
<1>1. SysInit => WriterQueryInv
  <2> SUFFICES ASSUME SysInit PROVE WriterQueryInv
    OBVIOUS
  <2> USE DEF SysInit
  <2>1. QueryTypeOK
    <3>1. timestamp \in [Events -> Hours]
      BY SMTT(30), HourAssumption DEF Hours
    <3> QED
      BY <3>1, QueryInitTypes
  <2>2. CacheFilled
    <3>1. \A id : ~InCache(id)
      BY EmptyCache DEF QueryInit, InCache
    <3>2. ~Sealing /\ blk = {} /\ \A id \in BlockIDs : bloom[id] = {}
      BY DEF Init, StorageInit, Sealing
    <3> QED
      BY <3>1, <3>2 DEF CacheFilled
  <2> QED
    BY <2>1, <2>2 DEF QueryInit, WriterQueryInv, WriterTracked, OpenSucceeds, Filtered
<1>2. IInv /\ WriterQueryInv /\ [SysNext]_sysVars => WriterQueryInv'
  BY SysNextInv
<1>3. SysSpec => []IInv
  BY QueriesHarmless, Invariant, PTL
<1> QED
  BY <1>1, <1>2, <1>3, PTL DEF SysSpec

(* Beside the writer, the variables of the read path stay within their       *)
(* types, and the bloom cache holds one filter per block and no more than it *)
(* has room for.                                                             *)
THEOREM QueryTypeCorrect == SysSpec => []QueryTypeOK
<1>1. WriterQueryInv => QueryTypeOK
  BY DEF WriterQueryInv
<1> QED
  BY <1>1, WriterQueryInvariant, PTL

(* A query that returns has found every matching row that was committed when *)
(* it began, in the blocks of its range whose BlockID one Seal has used,     *)
(* whatever the writer seals and the cache evicts meanwhile.                 *)
THEOREM QueryFindsCommitted == SysSpec => []CommittedFound
<1>1. WriterQueryInv => CommittedFound
  <2> SUFFICES ASSUME WriterQueryInv, QueryReturns, NEW x \in due, InRange(x[1]), x[1] \notin reused
               PROVE  x \in rows
    BY DEF CommittedFound
  <2>1. Tracked(x)
    BY DEF WriterQueryInv, WriterTracked, QueryReturns
  <2>2. cand = {}
    BY DEF WriterQueryInv, Filtered, QueryReturns
  <2> QED
    BY <2>1, <2>2 DEF Tracked, QueryReturns
<1> QED
  BY <1>1, WriterQueryInvariant, PTL

(* No reader of a query fails to open the file of a block that the metadata  *)
(* lists.                                                                    *)
THEOREM QueryOpens == SysSpec => []OpenSucceeds
<1>1. WriterQueryInv => OpenSucceeds
  BY DEF WriterQueryInv
<1> QED
  BY <1>1, WriterQueryInvariant, PTL
-----------------------------------------------------------------------------
(* Queries beside the reaper and the janitor *)

(* A query changes nothing of the loops either.                              *)
LEMMA TTLQueryStep == ASSUME [TTLQueryNext]_ttlQueryVars PROVE [TTLNext]_ttlAllVars
<1>1. CASE QueryStep /\ UNCHANGED ttlVars
  BY <1>1, QueryFrame DEF ttlAllVars
<1>2. CASE ~(QueryStep /\ UNCHANGED ttlVars)
  BY <1>2 DEF TTLQueryNext, TTLNext, ttlQueryVars, ttlAllVars
<1> QED
  BY <1>1, <1>2

(* The loops add no block, take no index entry and empty filters as a whole. *)
LEMMA LoopStorage ==
    ASSUME StorageTypeOK, [TTLNext]_ttlAllVars, idxSynced = idx, torn = {}
    PROVE  /\ blk' \subseteq blk /\ UNCHANGED idx /\ idxSynced' = idx /\ torn' = {}
           /\ \A id \in BlockIDs : bloom'[id] \in {bloom[id], {}}
           /\ hour' \in {hour, hour + 1}
<1> USE DEF storageVars, pebbleVars, fileVars
<1>1. CASE Reaper
  <2>1. CASE ReaperDeleteBloom
    BY <1>1, <2>1 DEF ReaperDeleteBloom, RemoveBloom, WriteBloom, ReaperContinues, ReaperFails,
                      StorageTypeOK
  <2>2. CASE ReaperDeleteBlock \/ ReaperFails
    BY <2>2 DEF ReaperDeleteBlock, RemoveBlock, Put, ReaperContinues, ReaperFails
  <2>3. CASE ReaperDeleteOrphan \/ ReaperDeleteMeta
    BY <2>3 DEF ReaperDeleteOrphan, ReaperDeleteMeta, DeleteBlockAndExpiry, Synced,
                ReaperContinues,
                ReaperFails
  <2> QED
    BY <1>1, <2>1, <2>2, <2>3 DEF Reaper, ReaperScan, ReaperGetMeta, ReaperEnd,
           ReaperContinues
<1>2. CASE Janitor
  <2>1. CASE JanitorDeleteOrphan \/ JanitorDeleteMeta
    BY <2>1 DEF JanitorDeleteOrphan, JanitorDeleteMeta, DeleteBlockAndExpiry, Synced,
                JanitorContinues, JanitorFails
  <2> QED
    BY <1>2, <2>1 DEF Janitor, JanitorScan, JanitorGetMeta, JanitorExists, JanitorEnd,
                      JanitorContinues, JanitorFails
<1>3. CASE TTLCrash \/ (Tick /\ UNCHANGED ttlVars) \/ UNCHANGED ttlAllVars
  BY <1>3 DEF TTLCrash, PebbleCrash, Tick, ttlAllVars
<1> QED
  BY <1>1, <1>2, <1>3 DEF TTLNext

(* What has expired stays expired.                                           *)
LEMMA ExpiredStays ==
    ASSUME hour \in Hours, hour' \in {hour, hour + 1}, NEW id \in BlockIDs, Expired(id)
    PROVE  Expired(id)'
BY SMTT(30), ExpiryHourNat, HourAssumption DEF Expired, Hours, ExpiryHour

(* A block that has not expired is readable.                                 *)
LEMMA WholeReadable ==
    ASSUME StorageTypeOK, Whole, NEW id \in blk, ~Expired(id) PROVE Readable(id)
<1>1. block[id] = Events /\ bloom[id] = Keys /\ Keys \X {id} \subseteq idx /\ id \in BlockIDs
  BY DEF Whole, StorageTypeOK
<1>2. KeysOf(Events) \subseteq Keys
  BY KeysOfType
<1> QED
  BY <1>1, <1>2, RowAssumption DEF Readable, Exists, Whole

(* The loops leave the other blocks as they are.                             *)
LEMMA WholeStep ==
    ASSUME StorageTypeOK, TTLInv, Whole, [TTLNext]_ttlAllVars, UNCHANGED cached,
           UNCHANGED order \/ order' = <<>>
    PROVE  Whole'
<1>0. /\ blk' \subseteq blk /\ UNCHANGED idx /\ idxSynced' = idx /\ torn' = {}
      /\ \A id \in BlockIDs : bloom'[id] \in {bloom[id], {}}
      /\ hour' \in {hour, hour + 1} /\ hour \in Hours /\ blk \subseteq BlockIDs
  BY LoopStorage DEF Whole, StorageTypeOK
<1>1. ASSUME NEW id \in blk'
      PROVE  Keys \X {id} \subseteq idx' /\ (~Expired(id)' => block'[id] = Events
               /\ bloom'[id] = Keys)
  BY <1>0, StepUntouched, ExpiredStays DEF Whole
<1>2. \A id \in BlockIDs : bloom'[id] \in {{}, Keys}
  BY <1>0 DEF Whole
<1>3. \A id \in BlockIDs : InCache(id)' => cached'[id] = Keys
  <2>1. \A id : InCache(id)' => InCache(id)
    BY EmptyCache DEF InCache
  <2> QED
    BY <2>1 DEF Whole
<1> QED
  BY <1>0, <1>1, <1>2, <1>3 DEF Whole

(* So does a query; it loads filters that are whole.                         *)
LEMMA WholeQuery == ASSUME QueryTypeOK, Whole, QueryStep PROVE Whole'
<1>1. UNCHANGED <<hour, torn, idx, idxSynced, blk, block, bloom>>
  BY QueryFrame DEF storageVars, pebbleVars, fileVars
<1>2. ASSUME NEW id \in BlockIDs, InCache(id)' PROVE cached'[id] = Keys
  BY <1>2, CacheStep DEF Whole
<1> QED
  BY <1>1, <1>2 DEF Whole, Expired, ExpiryHour

(* A query loses no row of a block that has not expired.                     *)
LEMMA DueTrackedQuery ==
    ASSUME StorageTypeOK, TTLQueryInv, QueryStep, qpc' # "idle",
           NEW x \in due', InRange(x[1])', ~Expired(x[1])'
    PROVE  x[1] \in blk /\ Tracked(x)'
<1>0. QueryTypeOK /\ Whole /\ TTLTracked /\ ~Expired(x[1]) /\ blk \subseteq BlockIDs
  BY QueryFrame DEF TTLQueryInv, StorageTypeOK, Expired, ExpiryHour, storageVars
<1>1. x[1] \in blk
  <2>1. CASE qpc = "idle"
    BY <2>1, StartDue
  <2>2. CASE qpc # "idle"
    BY <1>0, <2>2, RequestFrame DEF TTLTracked, InRange
  <2> QED
    BY <2>1, <2>2
<1>2. Readable(x[1])
  BY <1>0, <1>1, WholeReadable
<1>3. qpc # "idle" /\ x \in due /\ InRange(x[1]) => Tracked(x)
  BY <1>0 DEF TTLTracked
<1> QED
  BY <1>0, <1>1, <1>2, <1>3, QueryTracks

(* A query works on blocks of its range, and opens those that have metadata  *)
(* or had it and expired.                                                    *)
LEMMA WorkQuery ==
    ASSUME QueryTypeOK, Filtered, TTLTracked, QueryStep, qpc' # "idle"
    PROVE  /\ \A id \in cand' \cup tasks' \cup readers' : InRange(id)'
           /\ \A id \in tasks' \cup readers' : Expired(id) \/ id \in blk
<1>1. CASE \E k \in Keys, from \in Hours, to \in 1..MaxHour + 1 : QueryStart(k, from, to)
  <2>1. PICK k \in Keys, from \in Hours, to \in 1..MaxHour + 1 : QueryStart(k, from, to)
    BY <1>1
  <2>2. tasks' = {} /\ readers' = {}
    BY <2>1 DEF QueryStart, Filtered
  <2>3. ASSUME NEW id \in cand' PROVE from <= id /\ id < to
    BY SMTT(30), <2>1, <2>3, HourAssumption DEF QueryStart, Lookup, BlockIDs, Hours
  <2> QED
    BY <2>1, <2>2, <2>3 DEF QueryStart, InRange
<1>2. CASE qpc # "idle"
  <2>1. UNCHANGED <<qfrom, qto>>
    BY <1>2, RequestFrame
  <2>2. /\ cand' \cup tasks' \cup readers' \subseteq cand \cup tasks \cup readers
        /\ tasks' \cup readers' \subseteq tasks \cup readers \cup blk
    <3>1. CASE QueryTestCached \/ QueryTestLoaded
      <4>1. UNCHANGED <<tasks, readers>> /\ cand' \subseteq cand
        BY <3>1 DEF QueryTestCached, QueryTestLoaded, Filter
      <4> QED
        BY <4>1
    <3>2. CASE ~QueryTestCached /\ ~QueryTestLoaded
      BY <1>2, <3>2 DEF QueryStep, QueryTestFails, QueryMetaFails, QueryGetMeta, QueryFiltered,
                        StartReader,
                        QueryEnd, ReadBlock, QueryStart
    <3> QED
      BY <3>1, <3>2
  <2> QED
    BY <1>2, <2>1, <2>2 DEF TTLTracked, InRange
<1>3. CASE qpc = "idle"
  BY <1>1, <1>3 DEF QueryStep, QueryTestCached, QueryTestLoaded, QueryTestFails, QueryMetaFails,
                    QueryGetMeta,
                    QueryFiltered, StartReader, QueryEnd, QueryReturns, ReadBlock
<1> QED
  BY <1>2, <1>3

(* A reader fails only on a block that has expired.                          *)
LEMMA FailsQuery ==
    ASSUME StorageTypeOK, TTLQueryInv, QueryStep
    PROVE  OpenFailsOnlyIfExpired'
<1> SUFFICES ASSUME failed' PROVE \E id \in BlockIDs : InRange(id)' /\ Expired(id)
  BY QueryFrame DEF OpenFailsOnlyIfExpired, Expired, ExpiryHour, storageVars
<1>0. ~\E k \in Keys, from \in Hours, to \in 1..MaxHour + 1 : QueryStart(k, from, to)
  BY DEF QueryStart
<1>1. UNCHANGED <<qfrom, qto>>
  BY <1>0 DEF QueryStep, QueryTestCached, QueryTestLoaded, QueryTestFails, QueryMetaFails,
              QueryGetMeta,
              QueryFiltered,
              StartReader, QueryEnd, ReadBlock, requestVars
<1>2. CASE failed
  BY <1>1, <1>2 DEF TTLQueryInv, OpenFailsOnlyIfExpired, InRange
<1>3. CASE ~failed
  <2>1. PICK id \in BlockIDs : ReadBlock(id)
    BY <1>0, <1>3 DEF QueryStep, QueryTestCached, QueryTestLoaded, QueryTestFails, QueryMetaFails,
                      QueryGetMeta,
                      QueryFiltered, StartReader, QueryEnd
  <2>2. qpc # "idle" /\ id \in readers /\ ~Exists(id)
    BY <1>3, <2>1 DEF ReadBlock
  <2>3. InRange(id) /\ (Expired(id) \/ id \in blk)
    BY <2>2 DEF TTLQueryInv, TTLTracked
  <2>4. Expired(id)
    BY <2>2, <2>3, WholeReadable DEF TTLQueryInv, Readable
  <2> QED
    BY <1>1, <2>3, <2>4 DEF InRange
<1> QED
  BY <1>2, <1>3

(* While no query takes a step, the loops lose it no row.                    *)
LEMMA TTLTrackedStep ==
    ASSUME StorageTypeOK, TTLInv, TTLQueryInv, [TTLNext]_ttlAllVars, UNCHANGED queryVars
    PROVE  TTLTracked' /\ OpenFailsOnlyIfExpired'
<1>0. /\ UNCHANGED <<timestamp, qpc, qkey, qfrom, qto, cand, tasks, readers, rows, failed, due>>
      /\ QueryTypeOK /\ TTLTracked /\ OpenFailsOnlyIfExpired
  BY DEF queryVars, requestVars, TTLQueryInv
<1>1. \A id : InRange(id)' <=> InRange(id)
  BY <1>0 DEF InRange
<1>2. \A id \in BlockIDs : Expired(id) => Expired(id)'
  BY LoopStorage, ExpiredStays DEF TTLQueryInv, Whole, StorageTypeOK
<1>3. ASSUME qpc # "idle", NEW x \in due, InRange(x[1]), ~Expired(x[1])'
      PROVE  x[1] \in blk' /\ Tracked(x)'
  <2>1. x[1] \in BlockIDs
    BY <1>0 DEF QueryTypeOK
  <2>2. x[1] \in blk /\ Tracked(x)
    BY <1>0, <1>2, <1>3, <2>1 DEF TTLTracked
  <2>3. x[1] \in blk' /\ block'[x[1]] = block[x[1]]
    BY <1>3, <2>2, StepUntouched
  <2> QED
    BY <1>0, <2>2, <2>3 DEF Tracked, Matching
<1>4. ASSUME qpc # "idle", NEW id \in tasks \cup readers, ~Expired(id)' PROVE id \in blk'
  <2>1. id \in blk
    BY <1>0, <1>2, <1>4 DEF TTLTracked, QueryTypeOK
  <2> QED
    BY <1>4, <2>1, StepUntouched
<1>5. TTLTracked'
  BY <1>0, <1>1, <1>3, <1>4 DEF TTLTracked
<1> QED
  BY <1>0, <1>1, <1>2, <1>5 DEF OpenFailsOnlyIfExpired

(* Every step of the loops and of a query keeps the invariant.               *)
LEMMA TTLQueryNextInv ==
    ASSUME StorageTypeOK, TTLInv, TTLQueryInv, [TTLQueryNext]_ttlQueryVars PROVE TTLQueryInv'
<1>0. [TTLNext]_ttlAllVars /\ QueryTypeOK /\ Filtered /\ Whole /\ TTLTracked
  BY TTLQueryStep DEF TTLQueryInv
<1>1. CASE QueryStep
  <2>1. UNCHANGED <<hour, blk>>
    BY <1>1, QueryFrame DEF storageVars, pebbleVars
  <2>2. TTLTracked'
    <3>1. qpc' # "idle" => \A x \in due' : InRange(x[1])' /\ ~Expired(x[1])' => x[1] \in blk
            /\ Tracked(x)'
      BY <1>1, DueTrackedQuery
    <3>2. qpc' # "idle" => /\ \A id \in cand' \cup tasks' \cup readers' : InRange(id)'
                          /\ \A id \in tasks' \cup readers' : Expired(id) \/ id \in blk
      BY <1>0, <1>1, WorkQuery
    <3> QED
      BY <2>1, <3>1, <3>2 DEF TTLTracked, Expired, ExpiryHour
  <2> QED
    BY <1>0, <1>1, <2>2, QueryTypeStep, FilteredStep, WholeQuery, FailsQuery DEF TTLQueryInv
<1>2. CASE UNCHANGED queryVars
  <2>1. QueryTypeOK' /\ Filtered'
    BY <1>0, <1>2 DEF QueryTypeOK, Filtered, queryVars, requestVars, cacheVars
  <2>2. Whole'
    BY <1>0, <1>2, WholeStep DEF queryVars, cacheVars
  <2> QED
    BY <1>0, <1>2, <2>1, <2>2, TTLTrackedStep DEF TTLQueryInv
<1>3. CASE QueryResets
  <2>1. QueryTypeOK' /\ Filtered'
    BY <1>0, <1>3, ResetTypes DEF Filtered, QueryResets
  <2>2. Whole'
    BY <1>0, <1>3, WholeStep DEF QueryResets
  <2> QED
    BY <1>3, <2>1, <2>2 DEF TTLQueryInv, TTLTracked, OpenFailsOnlyIfExpired, QueryResets
<1> QED
  BY <1>1, <1>2, <1>3 DEF TTLQueryNext, ttlQueryVars

(* The loops do beside queries what they do without them: what is proved of  *)
(* TTLSpec holds of TTLQuerySpec.                                            *)
THEOREM TTLQueriesHarmless == TTLQuerySpec => TTLSpec
<1>1. TTLQueryInit => TTLInit
  BY DEF TTLQueryInit
<1>2. [TTLQueryNext]_ttlQueryVars => [TTLNext]_ttlAllVars
  BY TTLQueryStep
<1> QED
  BY <1>1, <1>2, PTL DEF TTLQuerySpec, TTLSpec, ttlAllVars

(* The invariant holds in every state of the loops and the queries.          *)
THEOREM TTLQueryInvariant == TTLQuerySpec => []TTLQueryInv
<1>1. TTLQueryInit => TTLQueryInv
  <2> SUFFICES ASSUME TTLQueryInit PROVE TTLQueryInv
    OBVIOUS
  <2>1. QueryTypeOK
    BY QueryInitTypes DEF TTLQueryInit
  <2>2. Whole
    <3>1. \A id : ~InCache(id)
      BY EmptyCache DEF TTLQueryInit, QueryInit, InCache
    <3>2. \A id \in BlockIDs : /\ bloom[id] = IF id \in blk THEN Keys ELSE {}
                              /\ block[id] = IF id \in blk THEN Events ELSE {}
      BY DEF TTLQueryInit, TTLInit
    <3>3. torn = {} /\ idxSynced = idx /\ idx = Keys \X blk /\ blk \subseteq BlockIDs
      BY DEF TTLQueryInit, TTLInit
    <3> QED
      BY <3>1, <3>2, <3>3 DEF Whole
  <2>3. Filtered /\ TTLTracked /\ OpenFailsOnlyIfExpired
    BY DEF TTLQueryInit, QueryInit, Filtered, TTLTracked, OpenFailsOnlyIfExpired
  <2> QED
    BY <2>1, <2>2, <2>3 DEF TTLQueryInv
<1>2. StorageTypeOK /\ TTLInv /\ TTLQueryInv /\ [TTLQueryNext]_ttlQueryVars => TTLQueryInv'
  BY TTLQueryNextInv
<1>3. TTLTypeOK => StorageTypeOK
  BY DEF TTLTypeOK
<1> QED
  BY <1>1, <1>2, <1>3, TTLQueriesHarmless, TTLInvariant, TTLTypeCorrect, PTL DEF TTLQuerySpec

(* Also beside the loops the variables of the read path stay within their    *)
(* types and the bloom cache within its size.                                *)
THEOREM TTLQueryTypeCorrect == TTLQuerySpec => []QueryTypeOK
<1>1. TTLQueryInv => QueryTypeOK
  BY DEF TTLQueryInv
<1> QED
  BY <1>1, TTLQueryInvariant, PTL

(* A query that returns without an error has found every matching row of the *)
(* blocks of its range that have not expired, whatever the reaper and the    *)
(* janitor delete meanwhile.                                                 *)
THEOREM QueryFindsUnexpired == TTLQuerySpec => []UnexpiredFound
<1>1. TTLQueryInv => UnexpiredFound
  <2> SUFFICES ASSUME TTLQueryInv, QueryReturns, NEW x \in due, InRange(x[1]), ~Expired(x[1])
               PROVE  x \in rows
    BY DEF UnexpiredFound
  <2>1. Tracked(x)
    BY DEF TTLQueryInv, TTLTracked, QueryReturns
  <2>2. cand = {}
    BY DEF TTLQueryInv, Filtered, QueryReturns
  <2> QED
    BY <2>1, <2>2 DEF Tracked, QueryReturns
<1> QED
  BY <1>1, TTLQueryInvariant, PTL

(* Only an expired block of its range makes a query fail: one that the       *)
(* reaper deletes between the reading of its metadata and the opening of its *)
(* file.                                                                     *)
THEOREM QueryFailsOnlyOnExpired == TTLQuerySpec => []OpenFailsOnlyIfExpired
<1>1. TTLQueryInv => OpenFailsOnlyIfExpired
  BY DEF TTLQueryInv
<1> QED
  BY <1>1, TTLQueryInvariant, PTL
=============================================================================
