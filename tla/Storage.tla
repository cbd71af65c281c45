------------------------------ MODULE Storage ------------------------------
(***************************************************************************)
(* What one shard keeps outside the process's memory, and the operations   *)
(* that change it: the pebble keys (internal/meta) and the .block and      *)
(* .bloom files of the hot tier (internal/tier).  The shard is fixed, so a *)
(* BlockID is the hour at which the block was opened.                      *)
(***************************************************************************)
EXTENDS Integers, FiniteSets

CONSTANTS
    Events,             \* the events written to the shard
    Keys,               \* key hashes (xxHash64 of the partition key)
    KeyHash,            \* KeyHash[e]: the key hash of event e
    RetentionHours,     \* retention period in hours
    MaxHour             \* bound: the clock stops here

ASSUME KeyAssumption == KeyHash \in [Events -> Keys]

ASSUME HourAssumption == MaxHour \in Nat /\ RetentionHours \in Nat \ {0}

Hours == 0..MaxHour

BlockIDs == Hours

VARIABLES
    hour,       \* the wall clock, in hours
    walSeq,     \* seq key: sequence numbers handed out so far
    wal,        \* wal keys: the shard's entries, [seq, event]
    blk,        \* blk keys: the blocks with metadata
    exp,        \* exp keys: <<expiry hour, block>>
    idx,        \* idx keys as readers see them: <<key hash, block>>
    idxSynced,  \* the idx keys that survive a crash
    block,      \* .block files: the rows; {} is "no file"
    bloom,      \* .bloom files: the keys they contain; {} is "no file"
    torn        \* .bloom files created but not yet completely written

pebbleVars == <<walSeq, wal, blk, exp, idx, idxSynced>>
fileVars == <<block, bloom, torn>>
storageVars == <<hour, pebbleVars, fileVars>>

StorageInit ==
    /\ hour = 0
    /\ walSeq = 0 /\ wal = {}
    /\ blk = {} /\ exp = {} /\ idx = {} /\ idxSynced = {}
    /\ block = [id \in BlockIDs |-> {}]
    /\ bloom = [id \in BlockIDs |-> {}]
    /\ torn = {}

Tick ==
    /\ hour < MaxHour
    /\ hour' = hour + 1
    /\ UNCHANGED <<pebbleVars, fileVars>>
-----------------------------------------------------------------------------
(* pebble.  Its log is written in order, so a commit with Sync also makes  *)
(* every earlier commit durable; a crash keeps any part of the commits     *)
(* made with NoSync since.                                                 *)

Synced == idxSynced' = idx

\* Mutant: the incremented number is not stored.
WALNextSeq_NotStored ==
    /\ Synced
    /\ UNCHANGED <<walSeq, wal, blk, exp, idx>>

WALNextSeq ==
    /\ walSeq' = walSeq + 1
    /\ Synced
    /\ UNCHANGED <<wal, blk, exp, idx>>

\* The second half of WALAppend, under the last sequence number handed out.
WALSet(e) ==
    /\ wal' = {w \in wal : w.seq # walSeq} \cup {[seq |-> walSeq, event |-> e]}
    /\ Synced
    /\ UNCHANGED <<walSeq, blk, exp, idx>>

PutIdxBatch(keys, id) ==
    /\ idx' = idx \cup {<<k, id>> : k \in keys}
    /\ UNCHANGED <<walSeq, wal, blk, exp, idxSynced>>

ExpiryHour(id) == id + RetentionHours

\* One batch: the shard's WAL goes, the block's metadata and expiry key come.
SealBatch(id) ==
    /\ wal' = {}
    /\ blk' = blk \cup {id}
    /\ exp' = exp \cup {<<ExpiryHour(id), id>>}
    /\ Synced
    /\ UNCHANGED <<walSeq, idx>>

\* Mutant: the two keys are not deleted in one batch, and the second delete is lost.
DeleteBlockAndExpiry_Half(h, id) ==
    /\ exp' = exp \ {<<h, id>>}
    /\ Synced
    /\ UNCHANGED <<walSeq, wal, blk, idx>>

DeleteBlockAndExpiry(h, id) ==
    /\ blk' = blk \ {id}
    /\ exp' = exp \ {<<h, id>>}
    /\ Synced
    /\ UNCHANGED <<walSeq, wal, idx>>

\* Mutant: the exclusive upper bound is taken as inclusive.
ScanExpiredEntries_Inclusive(now) == {x \in exp : x[1] <= now + 1}

\* Mutant: the scan stops before the current hour.
ScanExpiredEntries_Exclusive(now) == {x \in exp : x[1] < now}

ScanExpiredEntries(now) == {x \in exp : x[1] <= now}

\* For use in recovery cleanup; nothing calls it.
WALTruncate ==
    /\ wal' = {}
    /\ Synced
    /\ UNCHANGED <<walSeq, blk, exp, idx>>

\* pebble writes its log out by itself, or for a commit of another shard.
LogSynced == Synced /\ UNCHANGED <<walSeq, wal, blk, exp, idx>>

PebbleCrash ==
    /\ idx' \in {S \in SUBSET idx : idxSynced \subseteq S}
    /\ idxSynced' = idx'
    /\ UNCHANGED <<walSeq, wal, blk, exp>>

\* What pebble may do for the shard: the promise that MetaStore keeps.
PebbleNext ==
    \/ WALNextSeq \/ WALTruncate \/ LogSynced \/ PebbleCrash
    \/ \E e \in Events : WALSet(e)
    \/ \E id \in BlockIDs :
        \/ SealBatch(id)
        \/ \E keys \in SUBSET Keys : PutIdxBatch(keys, id)
        \/ \E h \in 0 .. (MaxHour + RetentionHours) : DeleteBlockAndExpiry(h, id)

PebbleSpec == StorageInit /\ [][PebbleNext]_pebbleVars
-----------------------------------------------------------------------------
(* Files.  The block appears whole, by rename; the bloom file is created   *)
(* under its final name and then filled.                                   *)

KeysOf(rows) == {KeyHash[e] : e \in rows}

Put(id, rows) ==
    /\ block' = [block EXCEPT ![id] = rows]
    /\ UNCHANGED <<bloom, torn>>

CreateBloom(id) ==
    /\ bloom' = [bloom EXCEPT ![id] = {}]
    /\ torn' = torn \cup {id}
    /\ UNCHANGED block

WriteBloom(id, keys) ==
    /\ bloom' = [bloom EXCEPT ![id] = keys]
    /\ torn' = torn \ {id}
    /\ UNCHANGED block

RemoveBloom(id) == WriteBloom(id, {})

RemoveBlock(id) == Put(id, {})

Exists(id) == block[id] # {}
-----------------------------------------------------------------------------
WalEvents == {w.event : w \in wal}

StorageTypeOK ==
    /\ hour \in Hours
    /\ walSeq \in Nat
    /\ wal \subseteq [seq : Nat, event : Events]
    /\ blk \subseteq BlockIDs
    /\ exp \subseteq Nat \X BlockIDs
    /\ idx \subseteq Keys \X BlockIDs
    /\ idxSynced \subseteq idx
    /\ block \in [BlockIDs -> SUBSET Events]
    /\ bloom \in [BlockIDs -> SUBSET Keys]
    /\ torn \subseteq BlockIDs
=============================================================================
