------------------------- MODULE ShardWriter_proofs -------------------------
(***************************************************************************)
(* Theorems about the write path of a shard for any events, keys, limits   *)
(* and retention period, and any number of hours, failing writes and       *)
(* restarts: the inductive invariant and why every step keeps it, the      *)
(* safety properties of ShardWriter, and that it implements Shard.         *)
(***************************************************************************)
EXTENDS ShardWriter, TLAPS

\* A leaf that names no prover is one for Zenon.
USE ZenonT(120)

\* An event is in one place of the memory, and was pushed before it is anywhere.
Places ==
    /\ ring \cup batch \cup mem \subseteq pushed
    /\ \A id \in BlockIDs : block[id] \subseteq pushed
    /\ ring \cap batch = {}
    /\ (ring \cup batch) \cap logged = {}

\* The last sequence number is free from WALNextSeq until the entry is set.
SeqFresh ==
    \A w \in wal : w.seq <= walSeq /\ (cur # {} => w.seq < walSeq)

\* What the writer has dealt with when it is at a step.
Phases ==
    /\ pc \notin {"drain", "flush"} => batch = {}
    /\ Sealing => mem # {}
    /\ pc = "done" => force /\ mem = {}
    /\ force => stop
    /\ force /\ pc \notin {"select", "drain", "down"} => ring \cap beforeStop = {}

\* What the running Seal has written so far.
Written ==
    /\ Sealing => openedAt \in attempted /\ (openedAt \in blk => openedAt \in reused)
    /\ pc \in {"put", "idx"} => openedAt \notin torn /\ bloom[openedAt] = KeysOf(mem)
    /\ pc = "idx" => block[openedAt] = mem /\ (KeysOf(mem) \ todo) \X {openedAt} \subseteq idx
    /\ blk \subseteq attempted
    /\ \A id \in blk : Exists(id)

\* A block sealed after its hour lies before the block being written.
Past(id) ==
    /\ id < hour
    /\ \/ pc = "down"
       \/ id < openedAt
       \/ Sealing /\ id = openedAt /\ id < sealedAt /\ id \notin blk

InOrder ==
    /\ openedAt <= hour
    /\ Sealing => openedAt <= sealedAt /\ sealedAt <= hour
    /\ \A id \in attempted \ early : Past(id)

IInv ==
    /\ TypeOK /\ Places /\ SeqFresh /\ Phases /\ Written /\ InOrder
    /\ Accounted /\ MemtableLogged /\ SealedComplete
-----------------------------------------------------------------------------
(* Key hashes of events are keys, and more events have more of them.         *)
LEMMA KeysOfType ==
    /\ \A S \in SUBSET Events : KeysOf(S) \subseteq Keys
    /\ \A S, T : S \subseteq T => KeysOf(S) \subseteq KeysOf(T)
BY KeyAssumption DEF KeysOf

(* A step that leaves the storage alone leaves what is committed alone.      *)
LEMMA StorageFrame ==
    ASSUME StorageTypeOK, UNCHANGED storageVars
    PROVE  /\ StorageTypeOK'
           /\ Committed' = Committed /\ WalEvents' = WalEvents
           /\ \A id : Complete(id)' <=> Complete(id)
           /\ \A id : Exists(id)' <=> Exists(id)
BY DEF StorageTypeOK, storageVars, pebbleVars, fileVars, Committed, WalEvents, Complete, Exists

(* So does a step that leaves the metadata and the block files alone.        *)
LEMMA CommittedFrame == ASSUME UNCHANGED <<blk, block>> PROVE Committed' = Committed
BY DEF Committed

(* The events in the WAL are those of its entries.                           *)
LEMMA WalFrame == ASSUME UNCHANGED wal PROVE WalEvents' = WalEvents
BY DEF WalEvents

(* A block stays complete while its files stay and no durable key goes.      *)
LEMMA CompleteStays ==
    ASSUME NEW id, Complete(id), block'[id] = block[id], bloom'[id] = bloom[id],
           id \in torn' => id \in torn, idxSynced \subseteq idxSynced', exp \subseteq exp'
    PROVE  Complete(id)'
BY DEF Complete, Exists

(* The invariant holds at the start.                                         *)
LEMMA InitInv == Init => IInv
<1> SUFFICES ASSUME Init PROVE IInv
  OBVIOUS
<1> USE DEF Init, StorageInit
<1>0. hour \in Hours /\ StorageTypeOK
  <2>1. hour \in Hours
    BY SMTT(30), HourAssumption DEF Hours
  <2>2. block \in [BlockIDs -> SUBSET Events] /\ bloom \in [BlockIDs -> SUBSET Keys]
    OBVIOUS
  <2> QED
    BY <2>1, <2>2 DEF StorageTypeOK
<1>1. TypeOK
  <2>1. faults \in 0..MaxFaults /\ starts \in Nat
    BY SMTT(30), LimitAssumption
  <2>2. openedAt \in Hours /\ sealedAt \in Hours
    BY <1>0
  <2>3. stop \in BOOLEAN /\ force \in BOOLEAN
    OBVIOUS
  <2> QED
    BY <1>0, <2>1, <2>2, <2>3 DEF TypeOK
<1>2. Places /\ SeqFresh /\ Phases /\ Written
  BY DEF Places, SeqFresh, Phases, Written, Sealing
<1>3. InOrder /\ Accounted /\ MemtableLogged /\ SealedComplete
  BY SMTT(30) DEF InOrder, Sealing, Accounted, MemtableLogged, SealedComplete
<1> QED
  BY <1>1, <1>2, <1>3 DEF IInv

(* Push: a new event is in the ring and nowhere else.                        *)
LEMMA PushInv == ASSUME IInv, NEW e \in Events, Push(e) PROVE IInv'
<1> USE DEF IInv, Push, writerVars, boundVars, history
<1>0. StorageTypeOK
  BY DEF TypeOK
<1>1. TypeOK'
  BY <1>0, StorageFrame DEF TypeOK
<1>2. Places'
  BY DEF Places, TypeOK, storageVars, fileVars
<1>3. SeqFresh' /\ MemtableLogged'
  BY <1>0, StorageFrame DEF SeqFresh, MemtableLogged, storageVars, pebbleVars
<1>4. Phases'
  BY DEF Phases, Sealing, TypeOK
<1>5. Written' /\ InOrder'
  BY DEF Written, InOrder, Past, Sealing, Exists, storageVars, pebbleVars, fileVars
<1>6. Accounted'
  BY <1>0, StorageFrame DEF Accounted, Lost
<1>7. SealedComplete'
  BY <1>0, StorageFrame DEF SealedComplete, storageVars, pebbleVars
<1> QED
  BY <1>1, <1>2, <1>3, <1>4, <1>5, <1>6, <1>7

(* Stop: from here on beforeStop is what was pushed so far.                  *)
LEMMA StopInv == ASSUME IInv, Stop PROVE IInv'
<1> USE DEF IInv, Stop, writerVars, boundVars, history
<1>0. StorageTypeOK
  BY DEF TypeOK
<1>1. TypeOK'
  BY <1>0, StorageFrame DEF TypeOK
<1>2. Places' /\ SeqFresh'
  BY DEF Places, SeqFresh, storageVars, pebbleVars, fileVars
<1>4. Phases'
  BY DEF Phases, Sealing
<1>5. Written' /\ InOrder'
  BY DEF Written, InOrder, Past, Sealing, Exists, storageVars, pebbleVars, fileVars
<1>6. Accounted' /\ MemtableLogged'
  BY <1>0, StorageFrame DEF Accounted, Lost, MemtableLogged
<1>7. SealedComplete'
  BY <1>0, StorageFrame DEF SealedComplete, storageVars, pebbleVars
<1> QED
  BY <1>1, <1>2, <1>4, <1>5, <1>6, <1>7

(* Select, DrainAll and the end of a flush move events from the ring to the  *)
(* batch at most; the flush starts only when the ring was found empty, and   *)
(* the goroutine ends only with an empty memtable.                           *)
LEMMA LoopInv ==
    ASSUME IInv, Select(FALSE) \/ Select(TRUE) \/ DrainAll \/ NothingToSeal PROVE IInv'
<1> USE DEF IInv, Select, DrainAll, NothingToSeal, AfterFlush, writerVars, boundVars, history
<1>0. StorageTypeOK /\ UNCHANGED storageVars
  BY DEF TypeOK
<1>1. TypeOK'
  BY <1>0, StorageFrame DEF TypeOK
<1>2. Places' /\ SeqFresh'
  BY DEF Places, SeqFresh, storageVars, pebbleVars, fileVars
<1>4. Phases'
  BY SMTT(30) DEF Phases, Sealing, SealDue
<1>5. Written' /\ InOrder'
  BY DEF Written, InOrder, Past, Sealing, Exists, storageVars, pebbleVars, fileVars
<1>6. Accounted' /\ MemtableLogged'
  BY <1>0, StorageFrame DEF Accounted, Lost, MemtableLogged
<1>7. SealedComplete'
  BY <1>0, StorageFrame DEF SealedComplete, storageVars, pebbleVars
<1> QED
  BY <1>1, <1>2, <1>4, <1>5, <1>6, <1>7

(* WALNextSeq: the new sequence number is above every entry of the WAL.      *)
LEMMA FlushNextSeqInv == ASSUME IInv, NEW e \in Events, FlushNextSeq(e) PROVE IInv'
<1> USE DEF IInv, FlushNextSeq, WALNextSeq, Synced, fileVars, boundVars, history
<1>1. TypeOK'
  BY SMTT(30) DEF TypeOK, StorageTypeOK
<1>2. Places' /\ Phases'
  BY DEF Places, Phases, Sealing
<1>3. SeqFresh'
  BY SMTT(30) DEF SeqFresh, TypeOK, StorageTypeOK
<1>4. Written' /\ InOrder'
  BY DEF Written, InOrder, Past, Sealing, Exists
<1>5. Accounted' /\ MemtableLogged'
  BY CommittedFrame, WalFrame DEF Accounted, Lost, MemtableLogged
<1>6. SealedComplete'
  BY CompleteStays DEF SealedComplete, TypeOK, StorageTypeOK
<1> QED
  BY <1>1, <1>2, <1>3, <1>4, <1>5, <1>6

(* The event moves from the batch to the memtable: what WALAppend did and    *)
(* what it does when it fails.                                               *)
LEMMA FlushEventInv ==
    ASSUME IInv, NEW e \in Events, FlushEvent(e) \/ FlushEventFails(e) PROVE IInv'
<1> USE DEF IInv, MemtableAppend, boundVars, history
<1>1. UNCHANGED <<hour, block, bloom, torn, blk, exp, idx, walSeq, pc, ring, stop, force, openedAt,
                  sealedAt, todo, starts, pushed, beforeStop, dropped, overwritten, attempted,
                  reused, early>>
  BY DEF FlushEvent, FlushEventFails, WALSet, Fault, storageVars, pebbleVars, fileVars
<1>2. pc = "flush" /\ e \in batch /\ cur' = {} /\ batch' = batch \ {e} /\ mem' = mem \cup {e}
  BY DEF FlushEvent, FlushEventFails, TypeOK
<1>3. idxSynced \subseteq idxSynced' /\ idxSynced' \subseteq idx'
  BY DEF FlushEvent, FlushEventFails, WALSet, Synced, storageVars, pebbleVars, TypeOK, StorageTypeOK
<1>4. e \notin ring /\ e \notin logged /\ e \in pushed
  BY <1>2 DEF Places
<1>5. faults' \in 0..MaxFaults /\ wal' \subseteq [seq : Nat, event : Events]
      /\ logged' \subseteq logged \cup {e}
  BY SMTT(30), <1>1, LimitAssumption
  DEF FlushEvent, FlushEventFails, WALSet, Fault, storageVars, pebbleVars, TypeOK, StorageTypeOK
<1>6. TypeOK'
  <2>1. StorageTypeOK'
    BY <1>1, <1>3, <1>5 DEF TypeOK, StorageTypeOK
  <2>2. todo' \subseteq KeysOf(mem')
    BY <1>1, <1>2, KeysOfType DEF TypeOK
  <2>3. logged' \subseteq pushed'
    BY <1>1, <1>4, <1>5 DEF TypeOK
  <2> QED
    BY <1>1, <1>2, <1>5, <2>1, <2>2, <2>3 DEF TypeOK
<1>7. Places'
  BY <1>1, <1>2, <1>4, <1>5 DEF Places
<1>8. SeqFresh'
  BY SMTT(30), <1>1, <1>2 DEF SeqFresh, FlushEvent, FlushEventFails, WALSet, storageVars,
                    pebbleVars,
                    TypeOK, StorageTypeOK
<1>9. Phases' /\ Written' /\ InOrder'
  BY <1>1, <1>2 DEF Phases, Written, InOrder, Past, Sealing, Exists
<1>10. Accounted'
  BY <1>1, <1>2, CommittedFrame DEF Accounted, Lost
<1>11. MemtableLogged'
  <2>1. CASE FlushEvent(e)
    <3>1. \A w \in wal : w.seq # walSeq
      BY SMTT(30), <2>1 DEF FlushEvent, SeqFresh, TypeOK, StorageTypeOK
    <3>2. wal' = wal \cup {[seq |-> walSeq, event |-> e]}
      BY <2>1, <3>1 DEF FlushEvent, WALSet
    <3>3. logged' = logged \cup {e}
      BY <2>1 DEF FlushEvent
    <3> QED
      BY <1>2, <3>2, <3>3 DEF MemtableLogged, WalEvents
  <2>2. CASE FlushEventFails(e)
    BY <1>2, <1>4, <2>2, WalFrame DEF FlushEventFails, MemtableLogged, storageVars, pebbleVars
  <2> QED
    BY <2>1, <2>2
<1>12. SealedComplete'
  BY <1>1, <1>3, CompleteStays DEF SealedComplete
<1> QED
  BY <1>6, <1>7, <1>8, <1>9, <1>10, <1>11, <1>12

(* A seal is triggered: the block is attempted, for the first time or again. *)
LEMMA SealStartInv == ASSUME IInv, SealStart PROVE IInv'
<1> USE DEF IInv, SealStart, boundVars
<1>0. StorageTypeOK /\ UNCHANGED storageVars /\ openedAt \in BlockIDs /\ hour \in Hours
  BY DEF TypeOK, StorageTypeOK, BlockIDs
<1>1. TypeOK'
  BY <1>0, StorageFrame DEF TypeOK
<1>2. Places' /\ SeqFresh' /\ Phases'
  BY DEF Places, SeqFresh, Phases, Sealing, storageVars, pebbleVars, fileVars
<1>3. Written'
  BY DEF Written, Sealing, Exists, storageVars, pebbleVars, fileVars
<1>4. InOrder'
  <2>1. hour \in Int /\ openedAt \in Int /\ openedAt <= hour
    <3>1. hour \in Int /\ openedAt \in Int
      BY SMTT(30), <1>0, HourAssumption DEF BlockIDs, Hours
    <3> QED
      BY <3>1 DEF InOrder
  <2>2. \A id \in attempted \ early : id < openedAt /\ id < hour
    BY DEF InOrder, Past, Sealing
  <2>3. openedAt \notin early' => openedAt < hour /\ openedAt \notin attempted
    <3>1. openedAt \notin early' => openedAt # hour /\ openedAt \notin early
      OBVIOUS
    <3>2. ~(openedAt < openedAt) /\ (openedAt # hour => openedAt < hour)
      BY SMTT(30), <2>1
    <3> QED
      BY <2>2, <3>1, <3>2
  <2>4. openedAt \notin early' => openedAt \notin blk
    BY <2>3 DEF Written
  <2>5. \A id \in attempted' \ early' : Past(id)'
    BY <2>1, <2>2, <2>3, <2>4 DEF Past, Sealing, storageVars, pebbleVars
  <2> QED
    BY SMTT(30), <2>1, <2>5 DEF InOrder, storageVars
<1>5. Accounted' /\ MemtableLogged'
  BY <1>0, StorageFrame DEF Accounted, Lost, MemtableLogged
<1>6. SealedComplete'
  BY <1>0, StorageFrame DEF SealedComplete, storageVars, pebbleVars
<1> QED
  BY <1>1, <1>2, <1>3, <1>4, <1>5, <1>6
-----------------------------------------------------------------------------
(* A failing Seal: the memtable is dropped, at most the bloom file of the    *)
(* block goes, and the next block is opened at the hour of sealing.          *)
LEMMA SealFailsInv ==
    ASSUME IInv, Sealing, SealFails,
           UNCHANGED fileVars \/ (pc \in {"bloomWrite", "put"} /\ RemoveBloom(openedAt))
    PROVE  IInv'
<1> USE DEF IInv, SealFails, sealCurrentEnd, AfterFlush
<1>1. UNCHANGED <<hour, walSeq, wal, blk, exp, idx, idxSynced, block>>
      /\ (UNCHANGED <<bloom, torn>> \/ RemoveBloom(openedAt))
  BY DEF pebbleVars, fileVars, RemoveBloom, WriteBloom
<1>2. StorageTypeOK'
  BY <1>1 DEF RemoveBloom, WriteBloom, TypeOK, StorageTypeOK
<1>3. TypeOK'
  BY SMTT(30), <1>2, LimitAssumption DEF TypeOK, Fault, Places
<1>4. Places' /\ SeqFresh'
  BY <1>1 DEF Places, SeqFresh
<1>5. Phases'
  BY <1>1 DEF Phases, Sealing
<1>6. Written'
  BY <1>1 DEF Written, Sealing, Exists
<1>7. InOrder'
  <2>1. hour \in Int /\ openedAt \in Int /\ sealedAt \in Int
    BY SMTT(30), HourAssumption DEF TypeOK, StorageTypeOK, Hours
  <2>2. attempted \subseteq Int
    BY SMTT(30), HourAssumption DEF TypeOK, BlockIDs, Hours
  <2> QED
    BY SMTT(30), <1>1, <2>1, <2>2 DEF InOrder, Past, Sealing
<1>8. Accounted' /\ MemtableLogged'
  BY <1>1, CommittedFrame DEF Accounted, Lost, MemtableLogged
<1>9. SealedComplete'
  <2>1. \A id \in blk \ reused : id # openedAt /\ id \in BlockIDs
    BY DEF Written, TypeOK, StorageTypeOK
  <2>2. \A id \in BlockIDs : id # openedAt => bloom'[id] = bloom[id] /\ (id \in torn'
          => id \in torn)
    BY <1>1 DEF RemoveBloom, WriteBloom, TypeOK, StorageTypeOK
  <2> QED
    BY <1>1, <2>1, <2>2, CompleteStays DEF SealedComplete
<1> QED
  BY <1>3, <1>4, <1>5, <1>6, <1>7, <1>8, <1>9

(* The steps of Seal before the block is in place change no committed block  *)
(* that only one Seal has used.                                              *)
LEMMA SealBloomInv ==
    ASSUME IInv, UNCHANGED <<pebbleVars, todo, history>>,
           \/ pc = "tmp" /\ SealContinues("bloom") /\ UNCHANGED fileVars
           \/ pc = "bloom" /\ CreateBloom(openedAt) /\ SealContinues("bloomWrite")
           \/ pc = "bloomWrite" /\ WriteBloom(openedAt, KeysOf(mem)) /\ SealContinues("put")
    PROVE  IInv'
<1> USE DEF IInv, SealContinues, boundVars, history
<1>1. UNCHANGED <<hour, walSeq, wal, blk, exp, idx, idxSynced, block>>
  BY DEF pebbleVars, fileVars, CreateBloom, WriteBloom
<1>2. openedAt \in BlockIDs /\ KeysOf(mem) \subseteq Keys
  BY KeysOfType DEF TypeOK, BlockIDs
<1>3. StorageTypeOK'
  BY <1>1, <1>2 DEF CreateBloom, WriteBloom, fileVars, TypeOK, StorageTypeOK
<1>4. TypeOK'
  BY <1>3 DEF TypeOK
<1>5. Places' /\ SeqFresh'
  BY <1>1 DEF Places, SeqFresh
<1>6. Phases'
  BY SMTT(30), <1>1 DEF Phases, Sealing
<1>7. Written'
  BY <1>1, <1>2 DEF Written, Sealing, Exists, WriteBloom, TypeOK, StorageTypeOK
<1>8. InOrder'
  BY <1>1 DEF InOrder, Past, Sealing
<1>9. Accounted' /\ MemtableLogged'
  BY <1>1, CommittedFrame, WalFrame DEF Accounted, Lost, MemtableLogged
<1>10. SealedComplete'
  <2>1. \A id \in blk \ reused : id # openedAt /\ id \in BlockIDs
    BY DEF Written, Sealing, TypeOK, StorageTypeOK
  <2>2. \A id \in BlockIDs : id # openedAt => bloom'[id] = bloom[id] /\ (id \in torn'
          => id \in torn)
    BY <1>1 DEF CreateBloom, WriteBloom, fileVars, TypeOK, StorageTypeOK
  <2> QED
    BY <1>1, <2>1, <2>2, CompleteStays DEF SealedComplete
<1> QED
  BY <1>4, <1>5, <1>6, <1>7, <1>8, <1>9, <1>10

(* store.Put: the file is the memtable; what it replaces is overwritten.     *)
LEMMA SealPutInv ==
    ASSUME IInv, pc = "put", Put(openedAt, mem), SealContinues("idx"), todo' = KeysOf(mem),
           overwritten' = overwritten \cup (block[openedAt] \ mem),
           UNCHANGED <<pebbleVars, pushed, beforeStop, logged, dropped, attempted, reused, early>>
    PROVE  IInv'
<1> USE DEF IInv, SealContinues, boundVars
<1>1. UNCHANGED <<hour, walSeq, wal, blk, exp, idx, idxSynced, bloom, torn>>
      /\ block' = [block EXCEPT ![openedAt] = mem]
  BY DEF pebbleVars, Put
<1>2. openedAt \in BlockIDs /\ DOMAIN block = BlockIDs /\ blk \subseteq BlockIDs
  BY DEF TypeOK, StorageTypeOK, BlockIDs
<1>3. StorageTypeOK'
  BY <1>1, <1>2 DEF TypeOK, StorageTypeOK
<1>4. TypeOK'
  BY <1>1, <1>2, <1>3 DEF TypeOK, Places
<1>5. Places' /\ SeqFresh'
  BY <1>1, <1>2 DEF Places, SeqFresh
<1>6. Phases'
  BY <1>1 DEF Phases, Sealing
<1>7. Written'
  BY <1>1, <1>2 DEF Written, Phases, Sealing, Exists
<1>8. InOrder' /\ MemtableLogged'
  BY <1>1, WalFrame DEF InOrder, Past, Sealing, MemtableLogged
<1>9. Accounted'
  <2>1. Committed \subseteq Committed' \cup mem \cup (block[openedAt] \ mem)
    BY <1>1, <1>2 DEF Committed
  <2> QED
    BY <1>1, <2>1 DEF Accounted, Lost
<1>10. SealedComplete'
  <2>1. \A id \in blk \ reused : id # openedAt
    BY DEF Written, Sealing
  <2> QED
    BY <1>1, <1>2, <2>1, CompleteStays DEF SealedComplete
<1> QED
  BY <1>4, <1>5, <1>6, <1>7, <1>8, <1>9, <1>10
-----------------------------------------------------------------------------
(* PutIdxBatch: the keys of the chunk have left todo and are in the index.   *)
LEMMA SealPutIdxInv ==
    ASSUME IInv, pc = "idx", NEW chunk \in SUBSET todo, PutIdxBatch(chunk, openedAt),
           todo' = todo \ chunk, SealContinues("idx"), UNCHANGED <<fileVars, history>>
    PROVE  IInv'
<1> USE DEF IInv, SealContinues, boundVars, history
<1>1. UNCHANGED <<hour, walSeq, wal, blk, exp, idxSynced, block, bloom, torn>>
      /\ idx' = idx \cup {<<k, openedAt>> : k \in chunk}
  BY DEF PutIdxBatch, fileVars
<1>2. openedAt \in BlockIDs /\ chunk \subseteq Keys
  BY KeysOfType DEF TypeOK, BlockIDs
<1>3. StorageTypeOK'
  BY SMTT(30), <1>1, <1>2 DEF TypeOK, StorageTypeOK
<1>4. TypeOK'
  BY <1>3 DEF TypeOK
<1>5. Places' /\ SeqFresh'
  BY <1>1 DEF Places, SeqFresh
<1>6. Phases'
  BY <1>1 DEF Phases, Sealing
<1>7. Written'
  <2>1. (KeysOf(mem) \ todo') \X {openedAt} \subseteq idx'
    BY SMTT(30), <1>1 DEF Written
  <2> QED
    BY <1>1, <2>1 DEF Written, Sealing, Exists
<1>8. InOrder'
  BY <1>1 DEF InOrder, Past, Sealing
<1>9. Accounted' /\ MemtableLogged'
  BY <1>1, CommittedFrame, WalFrame DEF Accounted, Lost, MemtableLogged
<1>10. SealedComplete'
  BY <1>1, CompleteStays DEF SealedComplete
<1> QED
  BY <1>4, <1>5, <1>6, <1>7, <1>8, <1>9, <1>10

(* The seal batch: the block is committed with all it needs to be read, and  *)
(* the WAL goes with the memtable that it covers.                            *)
LEMMA SealCommitInv ==
    ASSUME IInv, pc = "idx", todo = {}, SealBatch(openedAt), sealCurrentEnd,
           UNCHANGED <<hour, fileVars, boundVars, history>>
    PROVE  IInv'
<1> USE DEF IInv, SealBatch, Synced, sealCurrentEnd, AfterFlush, boundVars, history, fileVars
<1>1. openedAt \in BlockIDs /\ ExpiryHour(openedAt) \in Nat
  BY SMTT(30), HourAssumption DEF TypeOK, BlockIDs, Hours, ExpiryHour
<1>2. StorageTypeOK'
  BY SMTT(30), <1>1 DEF TypeOK, StorageTypeOK
<1>3. TypeOK'
  <2>1. /\ pc' \in {"select", "done"} /\ mem' = {} /\ todo' = {}
        /\ openedAt' \in Hours /\ sealedAt' \in Hours
    BY DEF TypeOK, StorageTypeOK
  <2> QED
    BY <1>2, <2>1 DEF TypeOK, KeysOf
<1>4. Places' /\ SeqFresh'
  BY DEF Places, SeqFresh
<1>5. Phases'
  BY DEF Phases, Sealing
<1>6. Written'
  BY DEF Written, Phases, Sealing, Exists
<1>7. InOrder'
  <2>1. hour \in Int /\ openedAt \in Int /\ sealedAt \in Int
    BY SMTT(30), HourAssumption DEF TypeOK, StorageTypeOK, Hours
  <2>2. attempted \subseteq Int
    BY SMTT(30), HourAssumption DEF TypeOK, BlockIDs, Hours
  <2> QED
    BY SMTT(30), <2>1, <2>2 DEF InOrder, Past, Sealing
<1>8. Accounted' /\ MemtableLogged'
  <2>1. Committed' = Committed \cup block[openedAt] /\ block[openedAt] = mem
    BY DEF Committed, Written
  <2> QED
    BY <2>1 DEF Accounted, Lost, MemtableLogged
<1>9. SealedComplete'
  <2>1. \A id \in blk \ reused : Complete(id)'
    BY CompleteStays DEF SealedComplete, TypeOK, StorageTypeOK
  <2>2. ASSUME NEW id, id = openedAt PROVE Complete(id)'
    <3>1. block'[id] = mem /\ mem # {} /\ id \notin torn' /\ bloom'[id] = KeysOf(mem)
      BY <2>2 DEF Written, Phases, Sealing
    <3>2. KeysOf(mem) \X {id} \subseteq idxSynced'
      BY <2>2 DEF Written
    <3> QED
      BY <2>2, <3>1, <3>2 DEF Complete, Exists
  <2> QED
    BY <2>1, <2>2 DEF SealedComplete
<1> QED
  BY <1>3, <1>4, <1>5, <1>6, <1>7, <1>8, <1>9

(* Exit and crash: the memory is dropped, what is committed stays.           *)
LEMMA DownInv == ASSUME IInv, Exit \/ Crash PROVE IInv'
<1> USE DEF IInv, Down, boundVars, fileVars
<1>1. Down /\ UNCHANGED <<walSeq, wal, blk, exp>>
      /\ idx' \subseteq idx /\ idxSynced \subseteq idxSynced' /\ idxSynced' = idx'
  BY DEF Exit, Crash, PebbleCrash, Synced, TypeOK, StorageTypeOK
<1>2. TypeOK'
  <2>1. StorageTypeOK'
    BY <1>1 DEF TypeOK, StorageTypeOK
  <2> QED
    BY <1>1, <2>1 DEF TypeOK, Places
<1>3. Places' /\ SeqFresh'
  BY <1>1 DEF Places, SeqFresh
<1>4. Phases'
  BY <1>1 DEF Phases, Sealing
<1>5. Written' /\ InOrder'
  BY <1>1 DEF Written, InOrder, Past, Sealing, Exists
<1>6. Accounted' /\ MemtableLogged'
  BY <1>1, CommittedFrame DEF Accounted, Lost, MemtableLogged
<1>7. SealedComplete'
  BY <1>1, CompleteStays DEF SealedComplete
<1> QED
  BY <1>2, <1>3, <1>4, <1>5, <1>6, <1>7

(* A new process opens its block at the current hour, after every block that *)
(* was sealed after its hour.                                                *)
LEMMA StartInv == ASSUME IInv, Start PROVE IInv'
<1> USE DEF IInv, Start
<1>0. StorageTypeOK /\ UNCHANGED storageVars /\ hour \in Hours
  BY DEF TypeOK, StorageTypeOK
<1>1. TypeOK'
  <2>1. StorageTypeOK'
    BY <1>0, StorageFrame
  <2>2. openedAt' \in Hours /\ starts' \in Nat
    BY SMTT(30), <1>0 DEF TypeOK
  <2>3. stop' \in BOOLEAN /\ force' \in BOOLEAN
    OBVIOUS
  <2> QED
    BY <2>1, <2>2, <2>3 DEF TypeOK
<1>2. Places' /\ SeqFresh' /\ Phases'
  BY DEF Places, SeqFresh, Phases, Sealing, storageVars, pebbleVars, fileVars
<1>3. Written'
  BY DEF Written, Sealing, Exists, storageVars, pebbleVars, fileVars
<1>4. InOrder'
  BY SMTT(30), <1>0, HourAssumption DEF InOrder, Past, Sealing, Hours, storageVars
<1>5. Accounted' /\ MemtableLogged'
  BY <1>0, StorageFrame DEF Accounted, Lost, MemtableLogged
<1>6. SealedComplete'
  BY <1>0, StorageFrame DEF SealedComplete, storageVars, pebbleVars
<1> QED
  BY <1>1, <1>2, <1>3, <1>4, <1>5, <1>6

(* The clock only advances.                                                  *)
LEMMA ClockInv == ASSUME IInv, Clock PROVE IInv'
<1> USE DEF IInv, Clock, Tick, pebbleVars, fileVars, writerVars, boundVars, history
<1>1. TypeOK'
  BY SMTT(30), HourAssumption DEF TypeOK, StorageTypeOK, Hours
<1>2. Places' /\ SeqFresh' /\ Phases' /\ Written'
  BY DEF Places, SeqFresh, Phases, Written, Sealing, Exists
<1>3. InOrder'
  <2>1. hour \in Int /\ openedAt \in Int /\ sealedAt \in Int /\ attempted \subseteq Int
    BY SMTT(30), HourAssumption DEF TypeOK, StorageTypeOK, BlockIDs, Hours
  <2> QED
    BY SMTT(30), <2>1 DEF InOrder, Past, Sealing
<1>4. Accounted' /\ MemtableLogged'
  BY CommittedFrame, WalFrame DEF Accounted, Lost, MemtableLogged
<1>5. SealedComplete'
  BY CompleteStays DEF SealedComplete
<1> QED
  BY <1>1, <1>2, <1>3, <1>4, <1>5

(* A stuttering step changes nothing the invariant speaks of.                *)
LEMMA StutterInv == ASSUME IInv, UNCHANGED vars PROVE IInv'
<1> USE DEF IInv, vars, storageVars, pebbleVars, fileVars, writerVars, boundVars, history
<1>1. TypeOK'
  <2>1. StorageTypeOK'
    BY StorageFrame DEF TypeOK
  <2> QED
    BY <2>1 DEF TypeOK, KeysOf
<1>2. Places' /\ SeqFresh' /\ Phases' /\ Written' /\ InOrder'
  BY DEF Places, SeqFresh, Phases, Written, InOrder, Past, Sealing, Exists
<1>3. Accounted' /\ MemtableLogged'
  BY CommittedFrame, WalFrame DEF Accounted, Lost, MemtableLogged
<1>4. SealedComplete'
  BY CompleteStays DEF SealedComplete
<1> QED
  BY <1>1, <1>2, <1>3, <1>4

(* Seal as a whole: its steps, each of which may fail.                       *)
LEMMA SealInv == ASSUME IInv, Seal PROVE IInv'
<1>1. CASE SealWriteTmp
  BY <1>1, SealBloomInv, SealFailsInv DEF SealWriteTmp, Sealing
<1>2. CASE SealCreateBloom
  BY <1>2, SealBloomInv, SealFailsInv DEF SealCreateBloom, Sealing
<1>3. CASE SealWriteBloom
  BY <1>3, SealBloomInv, SealFailsInv DEF SealWriteBloom, Sealing
<1>4. CASE SealPut
  BY <1>4, SealPutInv, SealFailsInv DEF SealPut, Sealing
<1>5. CASE SealPutIdx
  BY <1>5, SealPutIdxInv, SealFailsInv DEF SealPutIdx, Sealing
<1>6. CASE SealCommit
  BY <1>6, SealCommitInv, SealFailsInv DEF SealCommit, Sealing
<1> QED
  BY <1>1, <1>2, <1>3, <1>4, <1>5, <1>6 DEF Seal

(* The invariant is inductive.                                               *)
LEMMA NextInv == IInv /\ [Next]_vars => IInv'
BY PushInv, StopInv, LoopInv, FlushNextSeqInv, FlushEventInv, SealStartInv, SealInv, DownInv,
   StartInv, ClockInv, StutterInv
DEF Next, Run
-----------------------------------------------------------------------------
(* The inductive invariant holds in every reachable state.                   *)
THEOREM Invariant == Spec => []IInv
BY InitInv, NextInv, PTL DEF Spec

(* Every variable of the write path stays within its type.                   *)
THEOREM TypeCorrect == Spec => []TypeOK
<1>1. IInv => TypeOK
  BY DEF IInv
<1> QED
  BY <1>1, Invariant, PTL

(* No event that Push accepted disappears without one of the two reasons the *)
(* code has for it: discarded memory, or a block file replaced by a later.   *)
THEOREM NoneUnaccounted == Spec => []Accounted
<1>1. IInv => Accounted
  BY DEF IInv
<1> QED
  BY <1>1, Invariant, PTL

(* An event that WALAppend wrote is in the WAL while it is in the memtable.  *)
THEOREM MemtableIsLogged == Spec => []MemtableLogged
<1>1. IInv => MemtableLogged
  BY DEF IInv
<1> QED
  BY <1>1, Invariant, PTL

(* A committed block whose BlockID one Seal has used has its file, its whole *)
(* bloom filter, its durable index entries and its expiry key.               *)
THEOREM SealedIsComplete == Spec => []SealedComplete
<1>1. IInv => SealedComplete
  BY DEF IInv
<1> QED
  BY <1>1, Invariant, PTL

(* When Stop returns, what was pushed before it is committed or lost.        *)
THEOREM StopHasSealed == Spec => []StopSeals
<1>1. IInv => StopSeals
  BY DEF IInv, StopSeals, Phases, Accounted, TypeOK
<1> QED
  BY <1>1, Invariant, PTL

(* A step writes no file of a block that is committed and was sealed after   *)
(* its hour: the running Seal works on a later block.                        *)
LEMMA StepImmutable ==
    ASSUME IInv, [Next]_vars, NEW id \in blk \ early
    PROVE  block'[id] = block[id] /\ bloom'[id] = bloom[id]
<1>1. CASE UNCHANGED <<block, bloom>>
  BY <1>1
<1>2. Sealing => id # openedAt
  <2>1. Past(id) /\ openedAt \in Int
    BY SMTT(30), HourAssumption DEF IInv, InOrder, Written, TypeOK, Hours
  <2> QED
    BY SMTT(30), <2>1 DEF Past, Sealing
<1>3. CASE Seal
  <2>1. id # openedAt /\ id \in BlockIDs /\ DOMAIN block = BlockIDs /\ DOMAIN bloom = BlockIDs
    BY <1>2, <1>3 DEF Seal, SealWriteTmp, SealCreateBloom, SealWriteBloom, SealPut, SealPutIdx,
                      SealCommit, Sealing, IInv, TypeOK, StorageTypeOK
  <2> QED
    BY <1>3, <2>1 DEF Seal, SealWriteTmp, SealCreateBloom, SealWriteBloom, SealPut, SealPutIdx,
                      SealCommit, CreateBloom, WriteBloom, RemoveBloom, Put, fileVars
<1>4. CASE ~Seal
  BY <1>1, <1>4 DEF Next, Run, Push, Stop, Select, DrainAll, FlushNextSeq, FlushEvent,
                    FlushEventFails, NothingToSeal, SealStart, Exit, Crash, Down, Start, Clock,
                    Tick, vars, storageVars, fileVars
<1> QED
  BY <1>3, <1>4

(* A block that was sealed after the end of its hour is never written again, *)
(* by a later Seal, by one that fails, or after a restart.                   *)
THEOREM OnTimeIsImmutable == Spec => SealedOnTimeImmutable
<1>1. IInv /\ [Next]_vars =>
        [\A id \in blk \ early : block'[id] = block[id] /\ bloom'[id] = bloom[id]]_vars
  BY StepImmutable
<1> QED
  BY <1>1, Invariant, PTL DEF Spec, SealedOnTimeImmutable
-----------------------------------------------------------------------------
(* The refinement.  The rows of Shard's blocks are those of committed ones.  *)
Visible == [id \in BlockIDs |-> IF id \in blk THEN block[id] ELSE {}]

\* The step is one of Shard's, or leaves what Shard speaks of alone.
ShardStep == AbstractShard!ShardNext \/ UNCHANGED <<ring \cup batch, mem, Visible>>

(* While neither the metadata nor the files change, nor do visible rows.     *)
LEMMA VisibleFrame == ASSUME UNCHANGED <<blk, block>> PROVE Visible' = Visible
BY DEF Visible

(* Push is Accept: the event is new, so it is nowhere else.                  *)
LEMMA PushStep == ASSUME IInv, NEW e \in Events, Push(e) PROVE ShardStep
<1>1. Visible' = Visible
  BY VisibleFrame DEF Push, storageVars, pebbleVars, fileVars
<1>2. e \notin (ring \cup batch) \cup mem \cup UNION {Visible[id] : id \in BlockIDs}
  BY DEF IInv, Places, Push, Visible
<1>3. AbstractShard!Accept(e)
  BY <1>1, <1>2 DEF AbstractShard!Accept, Visible, Push
<1> QED
  BY <1>3 DEF ShardStep, AbstractShard!ShardNext

(* Appending to the memtable is Insert, with or without the WAL entry.       *)
LEMMA FlushStep ==
    ASSUME IInv, NEW e \in Events, FlushEvent(e) \/ FlushEventFails(e) PROVE ShardStep
<1>1. Visible' = Visible
  BY VisibleFrame DEF FlushEvent, FlushEventFails, WALSet, storageVars, pebbleVars, fileVars
<1>2. e \in batch /\ e \notin ring
  BY DEF IInv, TypeOK, Places, FlushEvent, FlushEventFails
<1>3. AbstractShard!Insert(e)
  BY <1>1, <1>2
  DEF AbstractShard!Insert, Visible, FlushEvent, FlushEventFails, MemtableAppend
<1> QED
  BY <1>3 DEF ShardStep, AbstractShard!ShardNext

(* A Seal that fails is Discard.                                             *)
LEMMA SealFailsStep ==
    ASSUME SealFails, UNCHANGED fileVars \/ RemoveBloom(openedAt) PROVE ShardStep
<1>1. Visible' = Visible
  BY VisibleFrame DEF SealFails, pebbleVars, fileVars, RemoveBloom, WriteBloom
<1>2. AbstractShard!Discard
  BY <1>1 DEF AbstractShard!Discard, Visible, SealFails, sealCurrentEnd
<1> QED
  BY <1>2 DEF ShardStep, AbstractShard!ShardNext

(* store.Put is Replace for a block that is committed already, and otherwise *)
(* invisible.                                                                *)
LEMMA PutStep ==
    ASSUME IInv, pc = "put", Put(openedAt, mem), SealContinues("idx"), UNCHANGED pebbleVars
    PROVE  ShardStep
<1>1. openedAt \in BlockIDs /\ DOMAIN block = BlockIDs /\ mem # {}
  BY DEF IInv, TypeOK, StorageTypeOK, BlockIDs, Phases, Sealing
<1>2. UNCHANGED <<ring, batch, mem, blk>> /\ block' = [block EXCEPT ![openedAt] = mem]
  BY DEF SealContinues, Put, pebbleVars
<1>3. CASE openedAt \in blk
  <2>1. Visible[openedAt] # {}
    BY <1>1, <1>3 DEF IInv, Written, Exists, Visible
  <2>2. Visible' = [Visible EXCEPT ![openedAt] = mem]
    BY <1>1, <1>2, <1>3 DEF Visible
  <2>3. \E id \in BlockIDs : AbstractShard!Replace(id)
    <3>1. PICK id \in BlockIDs : id = openedAt
      BY <1>1
    <3>2. AbstractShard!Replace(id)
      BY <1>1, <1>2, <2>1, <2>2, <3>1 DEF AbstractShard!Replace, Visible
    <3> QED
      BY <3>2
  <2> QED
    BY <2>3 DEF ShardStep, AbstractShard!ShardNext
<1>4. CASE openedAt \notin blk
  <2>1. Visible' = Visible
    BY <1>1, <1>2, <1>4 DEF Visible
  <2> QED
    BY <1>2, <2>1 DEF ShardStep
<1> QED
  BY <1>3, <1>4

(* The seal batch is Commit for a new block; for a replaced one the memtable *)
(* only ends.                                                                *)
LEMMA CommitStep ==
    ASSUME IInv, pc = "idx", SealBatch(openedAt), sealCurrentEnd, UNCHANGED fileVars
    PROVE  ShardStep
<1>1. openedAt \in BlockIDs /\ mem # {} /\ block[openedAt] = mem
  BY DEF IInv, TypeOK, BlockIDs, Phases, Written, Sealing
<1>2. UNCHANGED <<ring, batch, block>> /\ blk' = blk \cup {openedAt} /\ mem' = {}
  BY DEF SealBatch, sealCurrentEnd, fileVars
<1>3. CASE openedAt \in blk
  <2>1. Visible' = Visible
    BY <1>2, <1>3 DEF Visible
  <2>2. AbstractShard!Discard
    BY <1>2, <2>1 DEF AbstractShard!Discard, Visible
  <2> QED
    BY <2>2 DEF ShardStep, AbstractShard!ShardNext
<1>4. CASE openedAt \notin blk
  <2>1. Visible[openedAt] = {} /\ Visible' = [Visible EXCEPT ![openedAt] = mem]
    BY <1>1, <1>2, <1>4 DEF Visible
  <2>2. \E id \in BlockIDs : AbstractShard!Commit(id)
    <3>1. PICK id \in BlockIDs : id = openedAt
      BY <1>1
    <3>2. AbstractShard!Commit(id)
      BY <1>1, <1>2, <2>1, <3>1 DEF AbstractShard!Commit, Visible
    <3> QED
      BY <3>2
  <2> QED
    BY <2>2 DEF ShardStep, AbstractShard!ShardNext
<1> QED
  BY <1>3, <1>4

(* The end of the process is Lose.                                           *)
LEMMA DownStep == ASSUME Exit \/ Crash PROVE ShardStep
<1>1. Visible' = Visible
  BY VisibleFrame DEF Exit, Crash, Down, PebbleCrash, fileVars
<1>2. AbstractShard!Lose
  BY <1>1 DEF AbstractShard!Lose, Visible, Exit, Crash, Down
<1> QED
  BY <1>2 DEF ShardStep, AbstractShard!ShardNext

(* The steps that Shard does not see.                                        *)
LEMMA HiddenStep ==
    ASSUME \/ Stop \/ Start \/ Clock \/ UNCHANGED vars
           \/ Select(FALSE) \/ Select(TRUE) \/ DrainAll \/ NothingToSeal \/ SealStart
           \/ \E e \in Events : FlushNextSeq(e)
    PROVE  ShardStep
<1>1. UNCHANGED <<blk, block, mem, ring \cup batch>>
  BY DEF Stop, Start, Clock, Tick, Select, DrainAll, NothingToSeal, SealStart, FlushNextSeq,
         WALNextSeq, vars, writerVars, storageVars, pebbleVars, fileVars
<1> QED
  <2>1. Visible' = Visible
    BY <1>1, VisibleFrame
  <2> QED
    BY <1>1, <2>1 DEF ShardStep

(* The steps of Seal: only Put and the seal batch are visible.               *)
LEMMA SealStep == ASSUME IInv, Seal PROVE ShardStep
<1>1. ASSUME NEW pc1, SealContinues(pc1), UNCHANGED <<blk, block>> PROVE ShardStep
  BY <1>1, VisibleFrame DEF SealContinues, ShardStep
<1>2. CASE SealWriteTmp \/ SealCreateBloom \/ SealWriteBloom
  BY <1>1, <1>2, SealFailsStep DEF SealWriteTmp, SealCreateBloom, SealWriteBloom, CreateBloom,
                                   WriteBloom, pebbleVars, fileVars
<1>3. CASE SealPut
  BY <1>3, PutStep, SealFailsStep DEF SealPut
<1>4. CASE SealPutIdx
  BY <1>1, <1>4, SealFailsStep DEF SealPutIdx, PutIdxBatch, fileVars
<1>5. CASE SealCommit
  BY <1>5, CommitStep, SealFailsStep DEF SealCommit
<1> QED
  BY <1>2, <1>3, <1>4, <1>5 DEF Seal

(* The write path implements Shard: Push is Accept, the append to the        *)
(* memtable Insert, the seal batch Commit, and Put over a committed block    *)
(* Replace; a failed Seal discards and the end of the process loses.         *)
THEOREM Refinement == Spec => ImplementsShard
<1>1. Init => AbstractShard!ShardInit
  BY DEF Init, StorageInit, AbstractShard!ShardInit
<1>2. IInv /\ [Next]_vars => [AbstractShard!ShardNext]_(AbstractShard!shardVars)
  <2> SUFFICES ASSUME IInv, [Next]_vars PROVE ShardStep
    BY DEF ShardStep, Visible, AbstractShard!shardVars
  <2> QED
    BY PushStep, FlushStep, SealStep, DownStep, HiddenStep DEF Next, Run
<1> QED
  BY <1>1, <1>2, Invariant, PTL DEF Spec, ImplementsShard, AbstractShard!ShardSpec
=============================================================================
