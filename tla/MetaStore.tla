----------------------------- MODULE MetaStore -----------------------------
(***************************************************************************)
(* The metadata of all shards in one pebble database (internal/meta): keys *)
(* are byte strings in one order, and every list is a range of keys.  Each *)
(* shard sees the store that Storage describes, and nothing of the others. *)
(*                                                                         *)
(* A byte is a digit of base Base, 256 in the code.  A name before the     *)
(* zero byte is its rank among the six, an hour in a BlockID one symbol.   *)
(***************************************************************************)
EXTENDS Integers, FiniteSets, Sequences, Functions

CONSTANTS
    Base,               \* values of a byte
    Shards,             \* the shards in use
    Events, Keys, KeyHash, RetentionHours, MaxHour,     \* as in Storage
    OpenHours,          \* the hours at which blocks are opened
    MaxAppends,         \* bound: sequence numbers handed out to a shard
    MaxKeys             \* bound: keys in the database, counters not counted

ASSUME BaseAssumption == Base \in Nat /\ Base >= 2

\* The last shard is left out: the end of its WAL range is the start of shard 0's.
ASSUME ShardAssumption == Shards \subseteq 0 .. (Base * Base - 2)

ASSUME KeyAssumption == KeyHash \in [Events -> Keys]

ASSUME HourAssumption ==
    /\ MaxHour \in Nat /\ RetentionHours \in Nat \ {0}
    /\ OpenHours \subseteq 0 .. MaxHour

VARIABLES
    db,         \* pebble: its keys and their values, as readers see them
    disk,       \* what of it survives a crash
    pending,    \* per shard: the number WALAppend has for the event, or None
    seen,       \* per shard: what the functions that read return
    appended    \* history, per shard: the events appended since the last truncation

vars == <<db, disk, pending, seen, appended>>

None == -1
-----------------------------------------------------------------------------
(* keys.go *)

\* binary.BigEndian: the numbers of two, four and eight bytes.
Values16 == Base * Base
Values32 == Values16 * Values16
Values64 == Values32 * Values32

PutUint16(n) == <<(n \div Base) % Base, n % Base>>

PutUint32(n) == PutUint16(n \div Values16) \o PutUint16(n % Values16)

PutUint64(n) == PutUint32(n \div Values32) \o PutUint32(n % Values32)

\* Hashes, sequence numbers and hours are numbers of eight bytes.
ASSUME NumberAssumption ==
    /\ MaxAppends \in Nat /\ MaxAppends <= Values64
    /\ MaxHour + RetentionHours + 1 < Values64
    /\ Keys \subseteq 0 .. (Values64 - 1)

Uint16(bytes) == Base * bytes[1] + bytes[2]

Uint32(bytes) == Values16 * Uint16(SubSeq(bytes, 1, 2)) + Uint16(SubSeq(bytes, 3, 4))

Uint64(bytes) == Values32 * Uint32(SubSeq(bytes, 1, 4)) + Uint32(SubSeq(bytes, 5, 8))

Colon == <<58>>

prefixBlock == <<1, 0>>
prefixExpiry == <<2, 0>>
prefixIdx == <<3, 0>>
prefixMigr == <<4, 0>>
prefixSeq == <<5, 0>>
prefixWAL == <<6, 0>>

\* Mutant: the upper bound is a copy of the lower one.
Increment_Missing(prefix) == prefix

\* The first key after those that start with prefix.
Increment(prefix) == [prefix EXCEPT ![Len(prefix)] = @ + 1]

\* Mutant: the low byte of the number comes first.
WALKey_LittleEndian(shard, seq) ==
    prefixWAL \o PutUint16(shard) \o [i \in 1 .. 8 |-> PutUint64(seq)[9 - i]]

WALKey(shard, seq) == prefixWAL \o PutUint16(shard) \o PutUint64(seq)

WALKeyStart(shard) == WALKey(shard, 0)

WALKeyEnd(shard) == WALKey((shard + 1) % Values16, 0)

ParseWALKey(key) == [shard |-> Uint16(SubSeq(key, 3, 4)), seq |-> Uint64(SubSeq(key, 5, 12))]

\* The shard at a fixed width (four hexadecimal digits), then the hour.
BlockIDFromShardAndHour(shard, hour) == PutUint16(shard) \o <<hour>>

BlockKey(id) == prefixBlock \o id

IdxKeyPrefix(eventType, keyHash) == prefixIdx \o <<eventType>> \o PutUint64(keyHash) \o Colon

IdxKey(eventType, keyHash, id) == IdxKeyPrefix(eventType, keyHash) \o id

ParseIdxKey(key) == SubSeq(key, 13, Len(key))

ExpiryKey(unixHour, id) == prefixExpiry \o PutUint64(unixHour) \o Colon \o id

ExpiryKeyUpperBound(unixHour) == prefixExpiry \o PutUint64(unixHour + 1)

ParseExpiryKey(key) == [hour |-> Uint64(SubSeq(key, 3, 10)), id |-> SubSeq(key, 12, Len(key))]

WALSeqKey(shard) == prefixSeq \o PutUint16(shard)

MigrationKey(id) == prefixMigr \o id

ParseMigrationKey(key) == SubSeq(key, 3, Len(key))

\* event.go: the event type and a byte of the hash.
ShardFor(keyHash, eventType) == eventType * Base + (keyHash % Base)

EventType(shard) == shard \div Base
-----------------------------------------------------------------------------
(* block.go *)

encodeBlockMeta(m) ==
    PutUint16(m.shard) \o PutUint64(m.openedAt) \o PutUint64(m.sealedAt)
        \o <<m.tier>> \o PutUint64(m.size) \o PutUint32(m.checksum)

decodeBlockMeta(buf) ==
    [shard |-> Uint16(SubSeq(buf, 1, 2)), openedAt |-> Uint64(SubSeq(buf, 3, 10)),
     sealedAt |-> Uint64(SubSeq(buf, 11, 18)), tier |-> buf[19],
     size |-> Uint64(SubSeq(buf, 20, 27)), checksum |-> Uint32(SubSeq(buf, 28, 31))]
-----------------------------------------------------------------------------
(* pebble: bytes.Compare, iterators and batches. *)

Before(a, b) ==
    \E i \in DOMAIN b :
        /\ i \in DOMAIN a => a[i] < b[i]
        /\ \A j \in 1 .. (i - 1) : j \in DOMAIN a /\ a[j] = b[j]

\* The keys an iterator with these bounds visits.  (Bound to a variable, the
\* bounds are evaluated only once.)
Visited(store, lower, upper) ==
    UNION {{key \in DOMAIN store : ~Before(key, range[1]) /\ Before(key, range[2])} :
              range \in {<<lower, upper>>}}

\* The database without the keys in gone and with the pairs in put.
Batch(gone, put) ==
    [key \in DOMAIN put \cup (DOMAIN db \ gone) |-> IF key \in DOMAIN put THEN put[key] ELSE db[key]]

\* The log is written in order: a commit with Sync makes all before it durable.
CommitSync(gone, put) == db' = Batch(gone, put) /\ disk' = db'

CommitNoSync(gone, put) == db' = Batch(gone, put) /\ UNCHANGED disk

Set(key, val) == [k \in {key} |-> val]

Nothing == [key \in {} |-> <<>>]
-----------------------------------------------------------------------------
(* What the functions of the package that read return; where the order does *)
(* not matter to the callers, as a set.                                     *)

\* The keys that WALScan reads and that DeleteRange deletes.
WALRange(store, shard) == Visited(store, WALKeyStart(shard), WALKeyEnd(shard))

\* In the order of the keys.
WALScan(shard) ==
    LET range == WALRange(db, shard)
        keys == CHOOSE keys \in Bijection(1 .. Cardinality(range), range) :
                    \A m, n \in DOMAIN keys : m < n => Before(keys[m], keys[n])
    IN  [n \in DOMAIN keys |-> db[keys[n]]]

FindOrphanedWALShards ==
    {shard \in {ParseWALKey(key).shard : key \in Visited(db, prefixWAL, Increment(prefixWAL))} :
        WALRange(db, shard) # {}}

\* A set with the metadata, or none.
GetBlockMeta(id) == {decodeBlockMeta(db[key]) : key \in {BlockKey(id)} \cap DOMAIN db}

ScanExpiredEntries(nowHour) ==
    {ParseExpiryKey(key) : key \in Visited(db, prefixExpiry, ExpiryKeyUpperBound(nowHour))}

IdxLookupBlocks(store, eventType, keyHash) ==
    LET prefix == IdxKeyPrefix(eventType, keyHash)
    IN  {ParseIdxKey(key) : key \in Visited(store, prefix, Increment(prefix))}

GetMigrationMeta(id) ==
    {[dstTier |-> db[key][1], inProgress |-> db[key][2] = 1] : key \in {MigrationKey(id)} \cap DOMAIN db}

ScanInProgressMigrations ==
    {ParseMigrationKey(key) : key \in Visited(db, prefixMigr, Increment(prefixMigr))}
-----------------------------------------------------------------------------
(* What a shard sees through them. *)

\* The numbers handed out so far.
Count(shard) ==
    IF WALSeqKey(shard) \in DOMAIN db THEN Uint64(db[WALSeqKey(shard)]) + 1 ELSE 0

\* What Seal passes: sizes and times by example.
SealedMeta(shard, hour) ==
    [shard |-> shard, openedAt |-> hour, sealedAt |-> hour + 1, tier |-> 0, size |-> 5, checksum |-> 7]

LastHour == MaxHour + RetentionHours

KeysOf(shard) == {k \in Keys : ShardFor(k, EventType(shard)) = shard}

HourOf(id) == id[3]

\* The expiry entries of the shard, if they are returned from their hour on.
Expiries(shard) ==
    {<<entry.hour, HourOf(entry.id)>> : entry \in
        {x \in ScanExpiredEntries(LastHour) :
            /\ x.id \in {BlockIDFromShardAndHour(shard, hour) : hour \in OpenHours}
            /\ x \in ScanExpiredEntries(x.hour) /\ x \notin ScanExpiredEntries(x.hour - 1)}}

Indexed(store, shard) ==
    UNION {{<<k, HourOf(id)>> : id \in IdxLookupBlocks(store, EventType(shard), k)} :
              k \in KeysOf(shard)}

\* What the shard sees of the database through the functions that read it.
View(shard) ==
    [walSeq |-> Count(shard),
     wal |-> IF shard \notin FindOrphanedWALShards THEN {}
             ELSE {[seq |-> ParseWALKey(key).seq + 1, event |-> db[key][1]] : key \in WALRange(db, shard)},
     blk |-> {hour \in OpenHours :
                 SealedMeta(shard, hour) \in GetBlockMeta(BlockIDFromShardAndHour(shard, hour))},
     exp |-> Expiries(shard),
     idx |-> Indexed(db, shard),
     idxSynced |-> Indexed(disk, shard)]
-----------------------------------------------------------------------------
(* What the functions that write do.  The functions of one shard are called *)
(* by its writer, one at a time.                                            *)

BlockIDs == {BlockIDFromShardAndHour(shard, hour) : shard \in Shards, hour \in OpenHours}

Init ==
    /\ db = Nothing /\ disk = db
    /\ pending = [shard \in Shards |-> None]
    /\ seen = [shard \in Shards |-> View(shard)]
    /\ appended = [shard \in Shards |-> <<>>]

\* The bound on the keys of the next state.
Fits == Cardinality({key \in DOMAIN db' : SubSeq(key, 1, 2) # prefixSeq}) <= MaxKeys

WALNextSeq(shard) ==
    /\ pending[shard] = None
    /\ Count(shard) < MaxAppends
    /\ CommitSync({}, Set(WALSeqKey(shard), PutUint64(Count(shard))))
    /\ pending' = [pending EXCEPT ![shard] = Count(shard)]
    /\ UNCHANGED appended

\* The second half of WALAppend.
WALAppend(shard, e) ==
    /\ pending[shard] # None
    /\ CommitSync({}, Set(WALKey(shard, pending[shard]), <<e>>))
    /\ pending' = [pending EXCEPT ![shard] = None]
    /\ appended' = [appended EXCEPT ![shard] = Append(@, <<e>>)]

WALTruncate(shard) ==
    /\ pending[shard] = None
    /\ CommitSync(WALRange(db, shard), Nothing)
    /\ appended' = [appended EXCEPT ![shard] = <<>>]
    /\ UNCHANGED pending

PutIdxBatch(shard, keyHashes, id) ==
    /\ pending[shard] = None
    /\ CommitNoSync({}, [key \in {IdxKey(EventType(shard), k, id) : k \in keyHashes} |-> <<>>])
    /\ UNCHANGED <<pending, appended>>

SealPuts(shard, hour) ==
    LET id == BlockIDFromShardAndHour(shard, hour)
    IN  [key \in {BlockKey(id), ExpiryKey(hour + RetentionHours, id)} |->
            IF key = BlockKey(id) THEN encodeBlockMeta(SealedMeta(shard, hour)) ELSE <<>>]

\* Mutant: the last batch of Seal is not synced either.
SealBatch_NoSync(shard, hour) ==
    /\ pending[shard] = None
    /\ CommitNoSync(WALRange(db, shard), SealPuts(shard, hour))
    /\ appended' = [appended EXCEPT ![shard] = <<>>]
    /\ UNCHANGED pending

SealBatch(shard, hour) ==
    /\ pending[shard] = None
    /\ CommitSync(WALRange(db, shard), SealPuts(shard, hour))
    /\ appended' = [appended EXCEPT ![shard] = <<>>]
    /\ UNCHANGED pending

\* The reaper and the janitor pass on what ScanExpiredEntries returned.
DeleteBlockAndExpiry(entry) ==
    /\ CommitSync({BlockKey(entry.id), ExpiryKey(entry.hour, entry.id)}, Nothing)
    /\ UNCHANGED <<pending, appended>>

PutMigrationMeta(id, dstTier, inProgress) ==
    /\ CommitSync({}, Set(MigrationKey(id), <<dstTier, IF inProgress THEN 1 ELSE 0>>))
    /\ UNCHANGED <<pending, appended>>

DeleteMigrationMeta(id) ==
    /\ MigrationKey(id) \in DOMAIN db
    /\ CommitSync({MigrationKey(id)}, Nothing)
    /\ UNCHANGED <<pending, appended>>

\* pebble writes its log out by itself.
LogWritten == disk' = db /\ UNCHANGED <<db, pending, appended>>

Crash ==
    /\ db' = disk /\ UNCHANGED disk
    /\ pending' = [shard \in Shards |-> None]
    /\ UNCHANGED appended

ShardWrites(shard) ==
    \/ WALNextSeq(shard) \/ WALTruncate(shard)
    \/ \E e \in Events : KeyHash[e] \in KeysOf(shard) /\ WALAppend(shard, e)
    \/ \E hour \in OpenHours :
        \/ \E keyHashes \in SUBSET KeysOf(shard) \ {{}} :
              PutIdxBatch(shard, keyHashes, BlockIDFromShardAndHour(shard, hour))
        \/ SealBatch(shard, hour)

Write ==
    \/ \E shard \in Shards : ShardWrites(shard) /\ Fits
    \/ \E entry \in ScanExpiredEntries(LastHour) : DeleteBlockAndExpiry(entry)
    \/ \E id \in BlockIDs :
        \/ PutMigrationMeta(id, 1, TRUE) /\ Fits
        \/ DeleteMigrationMeta(id)
    \/ LogWritten \/ Crash

\* Calls that change nothing are left to stuttering.
Next ==
    /\ Write
    /\ <<db, disk, pending>>' # <<db, disk, pending>>
    /\ seen' = [shard \in Shards |-> View(shard)']

Spec == Init /\ [][Next]_vars
-----------------------------------------------------------------------------
Store(shard) == INSTANCE Storage WITH
    walSeq <- seen[shard].walSeq, wal <- seen[shard].wal,
    blk <- seen[shard].blk, exp <- seen[shard].exp,
    idx <- seen[shard].idx, idxSynced <- seen[shard].idxSynced,
    hour <- 0, torn <- {},
    block <- [hour \in 0 .. MaxHour |-> {}], bloom <- [hour \in 0 .. MaxHour |-> {}]

(* Every shard has a store of its own in the one database: what the scans    *)
(* and the lookups return for it changes as Storage says, by the calls made  *)
(* for that shard only, whatever the other shards, the migrations and a      *)
(* crash do, and across a carry in a shard, a number or an hour.             *)
ImplementsStorage ==
    /\ \A shard \in Shards : Store(shard)!StorageInit
    /\ [][\A shard \in Shards : [Store(shard)!PebbleNext]_(Store(shard)!pebbleVars)]_vars

(* "WALScan returns all WAL entries for shard in seq order", and this is the *)
(* order of WALAppend: all since the last truncation and no others, also     *)
(* when the numbers carry, when a crash has left a gap in them, and when the *)
(* neighbouring shard appends and truncates between.                         *)
ScanInSeqOrder == \A shard \in Shards : WALScan(shard) = appended[shard]

(* "ScanInProgressMigrations returns all block IDs with a migration key      *)
(* present": the scan and the lookup by BlockID agree.                       *)
MigrationsFound ==
    ScanInProgressMigrations = {id \in BlockIDs : GetMigrationMeta(id) # {}}
=============================================================================
