---------------------------- MODULE ShardWriter ----------------------------
(***************************************************************************)
(* The write path of one shard: clients push events into the ring buffer,  *)
(* the ShardWriter goroutine moves them to the WAL and the memtable, and   *)
(* seals the memtable into a block when the hour changes, when it is full  *)
(* or when it is stopped (internal/ingestion/writer.go,                    *)
(* internal/block/sealer.go).  The process may crash between any two       *)
(* durable effects and starts again without replaying the WAL; each write  *)
(* to pebble or to a file may fail.                                        *)
(*                                                                         *)
(* The ring buffer is the queue that RingBuf implements.  The rows of a    *)
(* memtable, a WAL or a block are kept as sets: nothing here depends on    *)
(* their order.                                                            *)
(***************************************************************************)
EXTENDS Storage

CONSTANTS
    RingBufSize,        \* capacity of the ring buffer
    MaxBlockRows,       \* a memtable of this many rows has MaxBlockBytes
    IdxChunkSize,       \* idx keys per NoSync batch
    MaxFaults,          \* bound: failing writes
    MaxStarts           \* bound: times the process starts

ASSUME LimitAssumption == IdxChunkSize \in Nat \ {0} /\ MaxFaults \in Nat

VARIABLES
    pc,         \* where the writer goroutine is; "down": no process
    ring,       \* pushed, not drained
    batch,      \* drained by flushAndMaybeSeal, not yet appended
    cur,        \* the events between WALNextSeq and the WAL entry (at most one)
    stop,       \* stopCh is closed
    force,      \* forceSeal
    mem,        \* the memtable
    openedAt,   \* the hour at which the memtable's block was opened
    sealedAt,   \* the hour at which the running Seal was triggered
    todo,       \* key hashes whose idx keys are not yet written
    faults, starts,
    pushed,         \* history: events whose Push returned nil
    beforeStop,     \* history: those pushed before this process's Stop
    logged,         \* history: events WALAppend has written
    dropped,        \* history: events in memory that a crash, an exit or a failed Seal discarded
    overwritten,    \* history: rows of block files that Put replaced
    attempted,      \* history: blocks that some Seal has worked on
    reused,         \* history: blocks that two Seals have worked on
    early           \* history: blocks sealed in the hour they were opened

writerVars == <<pc, ring, batch, cur, stop, force, mem, openedAt, sealedAt, todo>>
boundVars == <<faults, starts>>
history == <<pushed, beforeStop, logged, dropped, overwritten, attempted, reused, early>>
vars == <<storageVars, writerVars, boundVars, history>>

Init ==
    /\ StorageInit
    /\ pc = "select" /\ stop = FALSE /\ force = FALSE
    /\ ring = {} /\ batch = {} /\ cur = {} /\ mem = {} /\ todo = {}
    /\ openedAt = hour /\ sealedAt = hour
    /\ faults = 0 /\ starts = 1
    /\ pushed = {} /\ beforeStop = {} /\ logged = {} /\ dropped = {} /\ overwritten = {}
    /\ attempted = {} /\ reused = {} /\ early = {}

Fault == faults < MaxFaults /\ faults' = faults + 1 /\ UNCHANGED starts
-----------------------------------------------------------------------------
(* The callers: ShardWriter.Write and ShardWriter.Stop. *)

Push(e) ==
    /\ pc # "down"
    /\ e \notin pushed
    /\ Cardinality(ring) < RingBufSize
    /\ ring' = ring \cup {e}
    /\ pushed' = pushed \cup {e}
    /\ UNCHANGED <<storageVars, pc, batch, cur, stop, force, mem, openedAt, sealedAt, todo,
                   boundVars, beforeStop, logged, dropped, overwritten,
                   attempted, reused, early>>

Stop ==
    /\ pc # "down" /\ ~stop
    /\ stop' = TRUE
    /\ beforeStop' = pushed
    /\ UNCHANGED <<storageVars, pc, ring, batch, cur, force, mem, openedAt, sealedAt, todo,
                   boundVars, pushed, logged, dropped, overwritten,
                   attempted, reused, early>>
-----------------------------------------------------------------------------
(* run and flushAndMaybeSeal *)

\* select: the ticker, or stopCh once it is closed.
Select(f) ==
    /\ pc = "select"
    /\ f => stop
    /\ force' = f
    /\ pc' = "drain"
    /\ UNCHANGED <<storageVars, ring, batch, cur, stop, mem, openedAt, sealedAt, todo,
                   boundVars, history>>

\* Mutant: a second round of pops forgets the first.
DrainAll_Forgets ==
    /\ pc = "drain"
    /\ batch' = IF ring = {} THEN batch ELSE ring
    /\ ring' = {}
    /\ pc' = IF ring = {} THEN "flush" ELSE "drain"
    /\ UNCHANGED <<storageVars, cur, stop, force, mem, openedAt, sealedAt, todo,
                   boundVars, history>>

\* Mutant: a full ring is taken for an empty one.
DrainAll_FullIsEmpty ==
    /\ pc = "drain"
    /\ LET popped == IF Cardinality(ring) = RingBufSize THEN {} ELSE ring IN
         /\ batch' = batch \cup popped
         /\ ring' = ring \ popped
         /\ pc' = IF popped = {} THEN "flush" ELSE "drain"
    /\ UNCHANGED <<storageVars, cur, stop, force, mem, openedAt, sealedAt, todo,
                   boundVars, history>>

\* DrainAll pops until it finds the ring empty; pushes go on meanwhile.
DrainAll ==
    /\ pc = "drain"
    /\ batch' = batch \cup ring
    /\ ring' = {}
    /\ pc' = IF ring = {} THEN "flush" ELSE "drain"
    /\ UNCHANGED <<storageVars, cur, stop, force, mem, openedAt, sealedAt, todo,
                   boundVars, history>>

FlushNextSeq(e) ==
    /\ pc = "flush" /\ e \in batch /\ cur = {}
    /\ WALNextSeq
    /\ cur' = {e}
    /\ UNCHANGED <<hour, fileVars, pc, ring, batch, stop, force, mem, openedAt, sealedAt, todo,
                   boundVars, history>>

\* memtable.Append
MemtableAppend(e) ==
    /\ mem' = mem \cup {e}
    /\ batch' = batch \ {e}
    /\ cur' = {}

FlushEvent(e) ==
    /\ pc = "flush" /\ e \in cur
    /\ WALSet(e)
    /\ MemtableAppend(e)
    /\ logged' = logged \cup {e}
    /\ UNCHANGED <<hour, fileVars, pc, ring, stop, force, openedAt, sealedAt, todo, boundVars,
                   pushed, beforeStop, dropped, overwritten, attempted, reused, early>>

\* An error of WALAppend is logged; the event goes into the memtable anyway.
FlushEventFails(e) ==
    /\ pc = "flush" /\ e \in batch /\ cur \subseteq {e}
    /\ Fault
    /\ MemtableAppend(e)
    /\ UNCHANGED <<storageVars, pc, ring, stop, force, openedAt, sealedAt, todo, history>>

\* Mutant: a seal becomes due one hour late.
hourChanged_Late == hour > openedAt + 1

hourChanged == hour # openedAt

sizeExceeded == Cardinality(mem) >= MaxBlockRows

\* Mutant: the stop path forgets to force the seal.
SealDue_NotForced == hourChanged \/ sizeExceeded

\* One of the three triggers fires.
SealDue == force \/ hourChanged \/ sizeExceeded

\* Mutant: run goes back to select after the final flush.
AfterFlush_Loops == "select"

AfterFlush == IF force THEN "done" ELSE "select"

NothingToSeal ==
    /\ pc = "flush" /\ batch = {}
    /\ mem = {} \/ ~SealDue
    /\ pc' = AfterFlush
    /\ UNCHANGED <<storageVars, ring, batch, cur, stop, force, mem, openedAt, sealedAt, todo,
                   boundVars, history>>

SealStart ==
    /\ pc = "flush" /\ batch = {}
    /\ mem # {} /\ SealDue
    /\ sealedAt' = hour
    /\ pc' = "tmp"
    /\ attempted' = attempted \cup {openedAt}
    /\ reused' = reused \cup (attempted \cap {openedAt})
    /\ early' = early \cup ({hour} \cap {openedAt})
    /\ UNCHANGED <<storageVars, ring, batch, cur, stop, force, mem, openedAt, todo,
                   boundVars, pushed, beforeStop, logged, dropped, overwritten>>
-----------------------------------------------------------------------------
(* block.Seal, called by sealCurrent, which discards the memtable whether  *)
(* Seal succeeds or fails and opens the next block at the hour of sealing. *)

\* Mutant: the next block is opened at the following hour.
sealCurrentEnd_RoundsUp ==
    /\ mem' = {}
    /\ openedAt' = sealedAt + 1
    /\ todo' = {}
    /\ pc' = AfterFlush
    /\ UNCHANGED <<ring, batch, cur, stop, force, sealedAt>>

\* Mutant: the next block keeps the hour of the sealed one.
sealCurrentEnd_SameHour ==
    /\ mem' = {}
    /\ todo' = {}
    /\ pc' = AfterFlush
    /\ UNCHANGED <<ring, batch, cur, stop, force, openedAt, sealedAt>>

\* Mutant: the memtable is not reset.
sealCurrentEnd_NotReset ==
    /\ openedAt' = sealedAt
    /\ todo' = {}
    /\ pc' = AfterFlush
    /\ UNCHANGED <<ring, batch, cur, stop, force, mem, sealedAt>>

sealCurrentEnd ==
    /\ mem' = {}
    /\ openedAt' = sealedAt
    /\ todo' = {}
    /\ pc' = AfterFlush
    /\ UNCHANGED <<ring, batch, cur, stop, force, sealedAt>>

SealFails ==
    /\ Fault
    /\ sealCurrentEnd
    /\ dropped' = dropped \cup mem
    /\ UNCHANGED <<hour, pebbleVars, pushed, beforeStop, logged, overwritten, attempted, reused,
                   early>>

SealContinues(next) ==
    /\ pc' = next
    /\ UNCHANGED <<hour, ring, batch, cur, stop, force, mem, openedAt, sealedAt, boundVars>>

SealWriteTmp ==
    /\ pc = "tmp"
    /\ \/ /\ SealContinues("bloom")
          /\ UNCHANGED <<pebbleVars, fileVars, todo, history>>
       \/ SealFails /\ UNCHANGED fileVars

SealCreateBloom ==
    /\ pc = "bloom"
    /\ \/ /\ CreateBloom(openedAt)
          /\ SealContinues("bloomWrite")
          /\ UNCHANGED <<pebbleVars, todo, history>>
       \/ SealFails /\ UNCHANGED fileVars

SealWriteBloom ==
    /\ pc = "bloomWrite"
    /\ \/ /\ WriteBloom(openedAt, KeysOf(mem))
          /\ SealContinues("put")
          /\ UNCHANGED <<pebbleVars, todo, history>>
       \/ RemoveBloom(openedAt) /\ SealFails

\* Mutant: an error of store.Put is ignored.
SealPut_ErrorIgnored ==
    /\ pc = "put"
    /\ todo' = KeysOf(mem)
    /\ SealContinues("idx")
    /\ UNCHANGED <<pebbleVars, fileVars, history>>

SealPut ==
    /\ pc = "put"
    /\ \/ /\ Put(openedAt, mem)
          /\ overwritten' = overwritten \cup (block[openedAt] \ mem)
          /\ todo' = KeysOf(mem)
          /\ SealContinues("idx")
          /\ UNCHANGED <<pebbleVars, pushed, beforeStop, logged, dropped, attempted, reused, early>>
       \/ RemoveBloom(openedAt) /\ SealFails

SealPutIdx ==
    /\ pc = "idx" /\ todo # {}
    /\ \/ \E chunk \in SUBSET todo :
             /\ \/ Cardinality(chunk) = IdxChunkSize
                \/ Cardinality(chunk) < IdxChunkSize /\ chunk = todo
             /\ PutIdxBatch(chunk, openedAt)
             /\ todo' = todo \ chunk
             /\ SealContinues("idx")
             /\ UNCHANGED <<fileVars, history>>
       \/ SealFails /\ UNCHANGED fileVars

\* Mutant: the loop over the chunks ends early.
SealCommit_ChunkLeft ==
    /\ pc = "idx"
    /\ \/ /\ SealBatch(openedAt)
          /\ sealCurrentEnd
          /\ UNCHANGED <<hour, fileVars, boundVars, history>>
       \/ SealFails /\ UNCHANGED fileVars

SealCommit ==
    /\ pc = "idx" /\ todo = {}
    /\ \/ /\ SealBatch(openedAt)
          /\ sealCurrentEnd
          /\ UNCHANGED <<hour, fileVars, boundVars, history>>
       \/ SealFails /\ UNCHANGED fileVars

Seal ==
    \/ SealWriteTmp \/ SealCreateBloom \/ SealWriteBloom
    \/ SealPut \/ SealPutIdx \/ SealCommit
-----------------------------------------------------------------------------
(* The process: exit after Stop, crash, and start. *)

\* Nothing in memory survives.
Down ==
    /\ pc' = "down"
    /\ ring' = {} /\ batch' = {} /\ cur' = {} /\ mem' = {} /\ todo' = {}
    /\ dropped' = dropped \cup ring \cup batch \cup mem
    /\ UNCHANGED <<hour, fileVars, stop, force, openedAt, sealedAt, boundVars,
                   pushed, beforeStop, logged, overwritten, attempted, reused, early>>

\* After Stop returns the server closes pebble.
Exit == pc = "done" /\ Down /\ Synced /\ UNCHANGED <<walSeq, wal, blk, exp, idx>>

Crash == pc # "down" /\ Down /\ PebbleCrash

\* NewShardWriter.  Nothing reads the WAL.
Start ==
    /\ pc = "down" /\ starts < MaxStarts
    /\ starts' = starts + 1
    /\ pc' = "select"
    /\ stop' = FALSE /\ force' = FALSE
    /\ openedAt' = hour
    /\ beforeStop' = {}
    /\ UNCHANGED <<storageVars, ring, batch, cur, mem, sealedAt, todo, faults,
                   pushed, logged, dropped, overwritten, attempted, reused, early>>

Clock ==
    /\ Tick
    /\ UNCHANGED <<writerVars, boundVars, history>>
-----------------------------------------------------------------------------
Run ==
    \/ Select(FALSE) \/ Select(TRUE) \/ DrainAll \/ NothingToSeal \/ SealStart \/ Seal
    \/ \E e \in Events : FlushNextSeq(e) \/ FlushEvent(e) \/ FlushEventFails(e)

Next ==
    \/ Run \/ Stop \/ Exit \/ Crash \/ Start \/ Clock
    \/ \E e \in Events : Push(e)

Spec == Init /\ [][Next]_vars

\* The goroutine is scheduled and its ticker fires; select chooses among the
\* ready cases at random, so a closed stopCh is chosen in the end.
Fairness == WF_vars(Run) /\ SF_vars(Select(TRUE))

FairSpec == Spec /\ Fairness
-----------------------------------------------------------------------------
Sealing == pc \in {"tmp", "bloom", "bloomWrite", "put", "idx"}

\* Rows that queries can reach: in the file of a block that has metadata.
Committed == UNION {block[id] : id \in blk}

\* A reader that starts from the index finds every row of the block.
Complete(id) ==
    /\ Exists(id) /\ id \notin torn
    /\ KeysOf(block[id]) \subseteq bloom[id]
    /\ KeysOf(block[id]) \X {id} \subseteq idxSynced
    /\ <<ExpiryHour(id), id>> \in exp

Lost == dropped \cup overwritten

(* Every variable of the write path stays within its type. *)
TypeOK ==
    /\ StorageTypeOK
    /\ pc \in {"select", "drain", "flush", "tmp", "bloom", "bloomWrite", "put", "idx",
               "done", "down"}
    /\ ring \subseteq Events /\ batch \subseteq Events /\ mem \subseteq Events
    /\ cur \subseteq batch
    /\ stop \in BOOLEAN /\ force \in BOOLEAN
    /\ openedAt \in Hours /\ sealedAt \in Hours
    /\ todo \subseteq KeysOf(mem)
    /\ faults \in 0..MaxFaults /\ starts \in Nat
    /\ pushed \subseteq Events /\ beforeStop \subseteq pushed /\ logged \subseteq pushed
    /\ dropped \subseteq pushed /\ overwritten \subseteq pushed
    /\ attempted \subseteq BlockIDs /\ reused \subseteq attempted /\ early \subseteq attempted

(* Every event that Push accepted is in memory on its way to a block, is in  *)
(* the file of a committed block, or was lost for one of the two reasons the *)
(* code has: the memory was discarded, or a later Put replaced the file.     *)
Accounted == pushed \subseteq ring \cup batch \cup mem \cup Committed \cup Lost

(* An event that WALAppend wrote stays in the WAL as long as it is only in   *)
(* the memtable: no later append reuses its sequence number and nothing      *)
(* truncates the WAL before the block's metadata is committed, also when     *)
(* entries of an earlier process are still in the WAL.                       *)
MemtableLogged == mem \cap logged \subseteq WalEvents

(* A block with metadata whose BlockID only one Seal has used can be read:   *)
(* its file exists, the bloom filter is whole and has every key of the file, *)
(* every key has an index entry that survives a crash, and the expiry key    *)
(* that lets the reaper find the block is there.                             *)
SealedComplete == \A id \in blk \ reused : Complete(id)

(* When Stop returns, what was pushed before Stop was called has left the    *)
(* ring and the memtable: it is in a committed block, unless it is lost.     *)
StopSeals == pc = "done" => beforeStop \subseteq Committed \cup Lost

(* A block that was sealed after the end of its hour is never written again: *)
(* not by a later Seal, not by one that fails, not after a restart.          *)
SealedOnTimeImmutable ==
    [][\A id \in blk \ early : block'[id] = block[id] /\ bloom'[id] = bloom[id]]_vars

AbstractShard == INSTANCE Shard WITH
    Event <- Events, Block <- BlockIDs,
    accepted <- ring \cup batch, open <- mem,
    visible <- [id \in BlockIDs |-> IF id \in blk THEN block[id] ELSE {}]

(* The shard does for its clients what Shard says: a block becomes visible   *)
(* with all rows of one memtable at once, and afterwards changes only when a *)
(* later memtable replaces it as a whole, however Seal's writes to the file, *)
(* the index and pebble interleave with pushes, failures and crashes.        *)
ImplementsShard == AbstractShard!ShardSpec

(* README: the data is append-only, it is never changed, only added, and     *)
(* removed in whole blocks.  A row of a committed block stays there.         *)
AppendOnly == [][\A id \in blk : block[id] \subseteq block'[id]]_vars

(* FindOrphanedWALShards: entries left in the WAL by a crash are replayed.   *)
(* So an event once written to the WAL is in the WAL or in a block.          *)
LoggedRecoverable == logged \subseteq WalEvents \cup Committed

(* The writer drains the ring: backpressure ends as long as it runs.         *)
RingDrained == \A e \in Events : e \in ring /\ pc # "done" ~> e \notin ring \/ pc = "done"

(* Also without further pushes, an event of a memtable whose hour has passed *)
(* gets into a committed block, unless it is lost, because its Seal fails or *)
(* a later one replaces the block, or the process dies first.                *)
HourSealed ==
    \A e \in Events :
        e \in mem /\ hour # openedAt ~> e \in Committed \cup Lost \/ pc = "down"

(* Stop returns (or the process dies first).                                 *)
StopReturns == stop ~> pc \in {"done", "down"}
=============================================================================
