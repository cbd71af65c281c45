----------------------------- MODULE TTL_proofs -----------------------------
(***************************************************************************)
(* Proofs about the reaper and the janitor for any number of blocks, any   *)
(* retention period and any number of errors and crashes: neither touches  *)
(* a block before its expiry hour, and a block file never loses the keys   *)
(* by which it is found.  What is shown of a step of the loops then holds  *)
(* as it stands beside the writer of the shard, on the same keys and files *)
(* (ShardTTL).                                                             *)
(***************************************************************************)
EXTENDS ShardTTL, TLAPS

\* A leaf that names no prover is one for Zenon.
USE ZenonT(120)
-----------------------------------------------------------------------------
(* The reaper and the janitor alone *)

ttlAllVars == <<storageVars, ttlVars>>

\* An entry that a scan may have returned by now.
Due(x) == x \in Entry /\ x[1] = ExpiryHour(x[2]) /\ x[1] <= hour

\* What the storage has: every block with metadata has its expiry key, and
\* expiry keys carry the hour that Seal computed.
Keyed ==
    /\ hour \in Nat /\ blk \subseteq BlockIDs
    /\ DOMAIN block = BlockIDs /\ DOMAIN bloom = BlockIDs
    /\ \A x \in exp : x \in Entry /\ x[1] = ExpiryHour(x[2])
    /\ \A id \in blk : <<ExpiryHour(id), id>> \in exp

\* The loops work on entries that were due when they scanned, and still are.
Working ==
    /\ \A x \in rtodo \cup jtodo : Due(x)
    /\ rpc \in {"orphan", "block", "bloom", "meta"} => Due(rcur)
    /\ jpc \in {"orphan", "exists", "meta"} => Due(jcur)

TTLInv == Keyed /\ Working

\* What a step of a loop may do to the storage: the clock stands still, and
\* at most one entry that is due loses its keys or a file.
Touches(x) ==
    /\ hour' = hour
    /\ DOMAIN block' = BlockIDs /\ DOMAIN bloom' = BlockIDs
    /\ blk \ {x[2]} \subseteq blk' /\ blk' \subseteq blk
    /\ exp \ {x} \subseteq exp' /\ exp' \subseteq exp
    /\ <<ExpiryHour(x[2]), x[2]>> \notin exp' => x[2] \notin blk'
    /\ \A id \in BlockIDs : id # x[2] => block'[id] = block[id] /\ bloom'[id] = bloom[id]
-----------------------------------------------------------------------------
(* The expiry hour of a block is a natural number.                           *)
LEMMA ExpiryHourNat == \A id \in BlockIDs : ExpiryHour(id) \in Nat
BY SMTT(30), HourAssumption DEF ExpiryHour, BlockIDs, Hours

(* The invariant holds at the start, whatever blocks there are.              *)
LEMMA TTLInitInv == TTLInit => TTLInv
<1> SUFFICES ASSUME TTLInit PROVE TTLInv
  OBVIOUS
<1>1. Keyed
  BY SMTT(30), HourAssumption, ExpiryHourNat DEF TTLInit, Keyed, Entry, BlockIDs, Hours
<1>2. Working
  BY DEF TTLInit, Loops, Working
<1> QED
  BY <1>1, <1>2 DEF TTLInv

(* A step that touches a due entry keeps the metadata keyed.                 *)
LEMMA TouchesKeyed ==
    ASSUME TTLInv, NEW x, Due(x), Touches(x) PROVE Keyed'
BY SMTT(30) DEF TTLInv, Keyed, Due, Touches, Entry

(* DeleteBlockAndExpiry takes both keys of an entry in one commit.           *)
LEMMA DeleteTouches ==
    ASSUME TTLInv, NEW x, Due(x), DeleteBlockAndExpiry(x[1], x[2]), UNCHANGED <<hour, fileVars>>
    PROVE  Touches(x)
BY SMTT(30) DEF TTLInv, Keyed, Due, Entry, Touches, DeleteBlockAndExpiry, fileVars

(* The two removals of LocalStore.Delete reach only the files of the entry.  *)
LEMMA RemoveTouches ==
    ASSUME TTLInv, NEW x, Due(x), RemoveBlock(x[2]) \/ RemoveBloom(x[2]),
             UNCHANGED <<hour, pebbleVars>>
    PROVE  Touches(x)
BY DEF TTLInv, Keyed, Due, Entry, Touches, RemoveBlock, RemoveBloom, Put, WriteBloom, pebbleVars

(* What is due stays due while the clock stands still or advances.           *)
LEMMA DueStays ==
    ASSUME NEW x, Due(x), hour \in Nat, hour' = hour \/ hour' = hour + 1 PROVE Due(x)'
BY SMTT(30), ExpiryHourNat DEF Due, Entry

(* A step of the reaper leaves the storage alone or touches its due entry.   *)
LEMMA ReaperStorage ==
    ASSUME TTLInv, Reaper
    PROVE  UNCHANGED storageVars \/ (Due(rcur) /\ Touches(rcur))
<1>1. CASE ReaperScan \/ ReaperGetMeta \/ ReaperEnd
  BY <1>1 DEF ReaperScan, ReaperGetMeta, ReaperEnd, ReaperContinues, storageVars
<1>2. CASE ReaperDeleteOrphan
  <2>1. Due(rcur)
    BY <1>2 DEF ReaperDeleteOrphan, TTLInv, Working
  <2> QED
    BY <1>2, <2>1, DeleteTouches DEF ReaperDeleteOrphan, storageVars
<1>3. CASE ReaperDeleteBlock
  <2>1. Due(rcur)
    BY <1>3 DEF ReaperDeleteBlock, TTLInv, Working
  <2> QED
    BY <1>3, <2>1, RemoveTouches DEF ReaperDeleteBlock, ReaperContinues, ReaperFails
<1>4. CASE ReaperDeleteBloom
  <2>1. Due(rcur)
    BY <1>4 DEF ReaperDeleteBloom, TTLInv, Working
  <2> QED
    BY <1>4, <2>1, RemoveTouches DEF ReaperDeleteBloom, ReaperContinues, ReaperFails
<1>5. CASE ReaperDeleteMeta
  <2>1. Due(rcur)
    BY <1>5 DEF ReaperDeleteMeta, TTLInv, Working
  <2> QED
    BY <1>5, <2>1, DeleteTouches DEF ReaperDeleteMeta, ReaperContinues, ReaperFails
<1> QED
  BY <1>1, <1>2, <1>3, <1>4, <1>5 DEF Reaper

(* A step of the janitor leaves the storage alone or touches its due entry.  *)
LEMMA JanitorStorage ==
    ASSUME TTLInv, Janitor
    PROVE  UNCHANGED storageVars \/ (Due(jcur) /\ Touches(jcur))
<1>1. CASE JanitorScan \/ JanitorGetMeta \/ JanitorExists \/ JanitorEnd
  BY <1>1 DEF JanitorScan, JanitorGetMeta, JanitorExists, JanitorEnd, JanitorContinues,
              JanitorFails, storageVars
<1>2. CASE JanitorDeleteOrphan
  <2>1. Due(jcur)
    BY <1>2 DEF JanitorDeleteOrphan, TTLInv, Working
  <2> QED
    BY <1>2, <2>1, DeleteTouches DEF JanitorDeleteOrphan, storageVars
<1>3. CASE JanitorDeleteMeta
  <2>1. Due(jcur)
    BY <1>3 DEF JanitorDeleteMeta, TTLInv, Working
  <2> QED
    BY <1>3, <2>1, DeleteTouches DEF JanitorDeleteMeta, JanitorContinues, JanitorFails
<1> QED
  BY <1>1, <1>2, <1>3 DEF Janitor

(* Either way the metadata stays keyed and the clock stands still.           *)
LEMMA LoopKeyed ==
    ASSUME TTLInv, Reaper \/ Janitor PROVE Keyed' /\ hour' = hour
<1>1. CASE UNCHANGED storageVars
  BY <1>1 DEF TTLInv, Keyed, storageVars, pebbleVars, fileVars, ExpiryHour, Entry
<1>2. CASE \E x : Due(x) /\ Touches(x)
  BY <1>2, TouchesKeyed DEF Touches
<1> QED
  BY <1>1, <1>2, ReaperStorage, JanitorStorage

(* A scan returns only entries that are due.                                 *)
LEMMA ScanDue == ASSUME Keyed, NEW x \in ScanExpiredEntries(hour) PROVE Due(x)
BY DEF Keyed, ScanExpiredEntries, Due

(* The reaper goes on working on entries that are due.                       *)
LEMMA ReaperWorking == ASSUME TTLInv, Reaper PROVE Working'
<1>1. hour' = hour
  BY LoopKeyed
<1>2. \A x : Due(x)' <=> Due(x)
  BY <1>1 DEF Due
<1>3. CASE ReaperScan
  BY <1>2, <1>3, ScanDue DEF ReaperScan, TTLInv, Working, janitorVars
<1>4. CASE ReaperGetMeta
  BY <1>2, <1>4 DEF ReaperGetMeta, First, TTLInv, Working, janitorVars
<1>5. CASE ReaperDeleteOrphan \/ ReaperEnd
  BY <1>2, <1>5 DEF ReaperDeleteOrphan, ReaperEnd, ReaperContinues, TTLInv, Working, janitorVars
<1>6. CASE ReaperDeleteBlock \/ ReaperDeleteBloom \/ ReaperDeleteMeta
  BY <1>2, <1>6 DEF ReaperDeleteBlock, ReaperDeleteBloom, ReaperDeleteMeta, ReaperContinues,
                    ReaperFails, TTLInv, Working, janitorVars
<1> QED
  BY <1>3, <1>4, <1>5, <1>6 DEF Reaper

(* So does the janitor.                                                      *)
LEMMA JanitorWorking == ASSUME TTLInv, Janitor PROVE Working'
<1>1. hour' = hour
  BY LoopKeyed
<1>2. \A x : Due(x)' <=> Due(x)
  BY <1>1 DEF Due
<1>3. CASE JanitorScan
  BY <1>2, <1>3, ScanDue DEF JanitorScan, TTLInv, Working, reaperVars
<1>4. CASE JanitorGetMeta
  BY <1>2, <1>4 DEF JanitorGetMeta, First, TTLInv, Working, reaperVars
<1>5. CASE JanitorDeleteOrphan \/ JanitorEnd
  BY <1>2, <1>5 DEF JanitorDeleteOrphan, JanitorEnd, JanitorContinues, TTLInv, Working, reaperVars
<1>6. CASE JanitorExists \/ JanitorDeleteMeta
  BY <1>2, <1>6 DEF JanitorExists, JanitorDeleteMeta, JanitorContinues, JanitorFails,
                    TTLInv, Working, reaperVars
<1> QED
  BY <1>3, <1>4, <1>5, <1>6 DEF Janitor

(* A crash, a tick of the clock and a stuttering step keep the invariant.    *)
LEMMA OtherInv ==
    ASSUME TTLInv, TTLCrash \/ (Tick /\ UNCHANGED ttlVars) \/ UNCHANGED ttlAllVars PROVE TTLInv'
<1>1. hour' = hour \/ hour' = hour + 1
  BY DEF TTLCrash, Tick, ttlAllVars, storageVars
<1>2. UNCHANGED <<blk, exp, block, bloom>>
  BY DEF TTLCrash, PebbleCrash, Tick, ttlAllVars, storageVars, pebbleVars, fileVars
<1>3. Keyed'
  BY SMTT(30), <1>1, <1>2 DEF TTLInv, Keyed
<1>4. \A x : Due(x) => Due(x)'
  BY <1>1, DueStays DEF TTLInv, Keyed
<1>5. Working'
  BY <1>4 DEF TTLInv, Working, TTLCrash, Restart, ttlAllVars, ttlVars, reaperVars, janitorVars
<1> QED
  BY <1>3, <1>5 DEF TTLInv

(* The invariant is inductive.                                               *)
LEMMA TTLNextInv == TTLInv /\ [TTLNext]_ttlAllVars => TTLInv'
BY LoopKeyed, ReaperWorking, JanitorWorking, OtherInv DEF TTLNext, TTLInv

(* Every block with metadata has its expiry key, and the two loops only ever *)
(* work on entries whose expiry hour has come.                               *)
THEOREM TTLInvariant == TTLSpec => []TTLInv
BY TTLInitInv, TTLNextInv, PTL DEF TTLSpec, ttlAllVars

(* What one step does to a block that is not expired afterwards: nothing.    *)
LEMMA StepUntouched ==
    ASSUME TTLInv, [TTLNext]_ttlAllVars, NEW id \in blk, ~Expired(id)'
    PROVE  /\ id \in blk' /\ <<ExpiryHour(id), id>> \in exp'
           /\ block'[id] = block[id] /\ bloom'[id] = bloom[id]
<1>1. CASE UNCHANGED <<blk, exp, block, bloom>>
  BY <1>1 DEF TTLInv, Keyed
<1>2. ASSUME NEW x, Due(x), Touches(x)
      PROVE  /\ id \in blk' /\ <<ExpiryHour(id), id>> \in exp'
             /\ block'[id] = block[id] /\ bloom'[id] = bloom[id]
  <2>1. id # x[2]
    BY <1>2 DEF Due, Touches, Expired
  <2>2. <<ExpiryHour(id), id>> # x
    BY SMTT(30), <2>1
  <2> QED
    BY <1>2, <2>1, <2>2 DEF Touches, TTLInv, Keyed
<1>3. CASE Reaper \/ Janitor
  BY <1>1, <1>2, <1>3, ReaperStorage, JanitorStorage DEF storageVars, pebbleVars, fileVars
<1>4. CASE TTLCrash \/ (Tick /\ UNCHANGED ttlVars) \/ UNCHANGED ttlAllVars
  BY <1>1, <1>4 DEF TTLCrash, PebbleCrash, Tick, ttlAllVars, storageVars, pebbleVars, fileVars
<1> QED
  BY <1>3, <1>4 DEF TTLNext

(* Neither loop touches the keys or the files of a block before its expiry   *)
(* hour, for any retention period and any number of errors and crashes.      *)
THEOREM NeverEarly == TTLSpec => UnexpiredUntouched
<1>1. TTLInv /\ [TTLNext]_ttlAllVars =>
        [\A id \in blk : ~Expired(id)' =>
            /\ id \in blk' /\ <<ExpiryHour(id), id>> \in exp'
            /\ block'[id] = block[id] /\ bloom'[id] = bloom[id]]_ttlAllVars
  BY StepUntouched
<1> QED
  BY <1>1, TTLInvariant, PTL DEF TTLSpec, UnexpiredUntouched, ttlAllVars
-----------------------------------------------------------------------------
(* Without read errors of GetBlockMeta, the loops drop the keys of a block   *)
(* only once its file is gone.                                               *)
FileFirst ==
    /\ readErrors = 0
    /\ \A id \in BlockIDs : Exists(id) => id \in blk
    /\ rpc = "orphan" => rcur[2] \notin blk
    /\ rpc \in {"bloom", "meta"} => ~Exists(rcur[2])
    /\ jpc = "orphan" => jcur[2] \notin blk
    /\ jpc = "meta" => ~Exists(jcur[2])

(* FileFirst holds at the start: every file has its metadata.                *)
LEMMA InitFileFirst == TTLInit => FileFirst
BY DEF TTLInit, Loops, FileFirst, Exists

(* A step of the reaper keeps the file first: it removes the file, and only  *)
(* then the keys.                                                            *)
LEMMA ReaperFileFirst == ASSUME MaxReadErrors = 0, TTLInv, FileFirst, Reaper PROVE FileFirst'
<1>0. ~ReadError
  BY SMTT(30) DEF ReadError, FileFirst
<1> USE DEF FileFirst, Exists
<1>1. CASE ReaperScan \/ ReaperEnd
  BY <1>1 DEF ReaperScan, ReaperEnd, ReaperContinues, storageVars, pebbleVars, fileVars,
              janitorVars, errorVars
<1>2. CASE ReaperGetMeta
  BY <1>0, <1>2 DEF ReaperGetMeta, storageVars, pebbleVars, fileVars, janitorVars, errorVars
<1>3. CASE ReaperDeleteOrphan
  <2>1. rcur[2] \notin blk
    BY <1>3 DEF ReaperDeleteOrphan
  <2>2. blk' = blk /\ block' = block
    BY <1>3, <2>1 DEF ReaperDeleteOrphan, DeleteBlockAndExpiry, pebbleVars, fileVars
  <2> QED
    BY <1>3, <2>2 DEF ReaperDeleteOrphan, janitorVars, errorVars, Error
<1>4. CASE ReaperFails
  BY <1>4 DEF ReaperFails, Error, storageVars, pebbleVars, fileVars, janitorVars
<1>5. CASE ReaperDeleteBlock /\ ~ReaperFails
  <2>1. rcur[2] \in BlockIDs /\ DOMAIN block = BlockIDs
    BY <1>5 DEF ReaperDeleteBlock, TTLInv, Working, Keyed, Due, Entry
  <2>2. blk' = blk /\ block' = [block EXCEPT ![rcur[2]] = {}]
    BY <1>5 DEF ReaperDeleteBlock, RemoveBlock, Put, pebbleVars
  <2>3. jpc = "meta" => jcur[2] \in BlockIDs
    BY DEF TTLInv, Working, Due, Entry
  <2> QED
    BY <1>5, <2>1, <2>2, <2>3 DEF ReaperDeleteBlock, ReaperContinues, janitorVars, errorVars
<1>6. CASE ReaperDeleteBloom /\ ~ReaperFails
  BY <1>6 DEF ReaperDeleteBloom, ReaperContinues, RemoveBloom, WriteBloom, pebbleVars,
              janitorVars, errorVars
<1>7. CASE ReaperDeleteMeta /\ ~ReaperFails
  <2>1. ~Exists(rcur[2])
    BY <1>7 DEF ReaperDeleteMeta
  <2> QED
    BY <1>7, <2>1 DEF ReaperDeleteMeta, DeleteBlockAndExpiry, ReaperContinues, fileVars,
                      janitorVars, errorVars
<1> QED
  BY <1>1, <1>2, <1>3, <1>4, <1>5, <1>6, <1>7
  DEF Reaper, ReaperDeleteBlock, ReaperDeleteBloom, ReaperDeleteMeta

(* A step of the janitor keeps the file first: it looks for the file before  *)
(* it drops the keys, and a file that is gone does not come back.            *)
LEMMA JanitorFileFirst == ASSUME MaxReadErrors = 0, TTLInv, FileFirst, Janitor PROVE FileFirst'
<1>0. ~ReadError
  BY SMTT(30) DEF ReadError, FileFirst
<1> USE DEF FileFirst, Exists
<1>1. CASE JanitorScan \/ JanitorEnd
  BY <1>1 DEF JanitorScan, JanitorEnd, JanitorContinues, storageVars, pebbleVars, fileVars,
              reaperVars, errorVars
<1>2. CASE JanitorGetMeta
  BY <1>0, <1>2 DEF JanitorGetMeta, storageVars, pebbleVars, fileVars, reaperVars, errorVars
<1>3. CASE JanitorDeleteOrphan
  <2>1. jcur[2] \notin blk
    BY <1>3 DEF JanitorDeleteOrphan
  <2>2. blk' = blk /\ block' = block
    BY <1>3, <2>1 DEF JanitorDeleteOrphan, DeleteBlockAndExpiry, pebbleVars, fileVars
  <2> QED
    BY <1>3, <2>2 DEF JanitorDeleteOrphan, reaperVars, errorVars, Error
<1>4. CASE JanitorFails
  BY <1>4 DEF JanitorFails, Error, storageVars, pebbleVars, fileVars, reaperVars
<1>5. CASE JanitorExists /\ ~JanitorFails
  BY <1>5 DEF JanitorExists, JanitorContinues, pebbleVars, fileVars, reaperVars, errorVars
<1>6. CASE JanitorDeleteMeta /\ ~JanitorFails
  <2>1. ~Exists(jcur[2])
    BY <1>6 DEF JanitorDeleteMeta
  <2> QED
    BY <1>6, <2>1 DEF JanitorDeleteMeta, DeleteBlockAndExpiry, JanitorContinues, fileVars,
                      reaperVars, errorVars
<1> QED
  BY <1>1, <1>2, <1>3, <1>4, <1>5, <1>6 DEF Janitor, JanitorExists, JanitorDeleteMeta

(* A crash between the steps, the clock and a stuttering step keep it too.   *)
LEMMA OtherFileFirst ==
    ASSUME FileFirst, TTLCrash \/ (Tick
             /\ UNCHANGED ttlVars) \/ UNCHANGED ttlAllVars PROVE FileFirst'
BY DEF FileFirst, Exists, TTLCrash, Restart, PebbleCrash, Tick, ttlAllVars, storageVars, pebbleVars,
       fileVars, ttlVars, reaperVars, janitorVars, errorVars

(* While GetBlockMeta fails on no block that has metadata, a block file      *)
(* always has the metadata and the expiry key by which the reaper finds it   *)
(* again, whatever deletions fail and whenever the process crashes.          *)
THEOREM NeverLeaked == ASSUME MaxReadErrors = 0 PROVE TTLSpec => []BlockNotLeaked
<1>1. TTLInv /\ FileFirst /\ [TTLNext]_ttlAllVars => FileFirst'
  BY ReaperFileFirst, JanitorFileFirst, OtherFileFirst DEF TTLNext
<1>2. TTLInv /\ FileFirst => BlockNotLeaked
  BY DEF TTLInv, Keyed, FileFirst, BlockNotLeaked
<1> QED
  BY <1>1, <1>2, InitFileFirst, TTLInvariant, PTL DEF TTLSpec, ttlAllVars
-----------------------------------------------------------------------------
(* A step of either loop keeps the storage within its types.                 *)
LEMMA StorageType ==
    ASSUME TTLTypeOK, [TTLNext]_ttlAllVars PROVE StorageTypeOK'
<1> USE DEF TTLTypeOK, StorageTypeOK, BlockIDs
<1>1. CASE UNCHANGED storageVars
  BY <1>1 DEF storageVars, pebbleVars, fileVars
<1>2. ASSUME NEW x, DeleteBlockAndExpiry(x[1], x[2]), UNCHANGED <<hour, fileVars>>
      PROVE  StorageTypeOK'
  BY <1>2 DEF DeleteBlockAndExpiry, Synced, fileVars
<1>3. ASSUME NEW id, RemoveBlock(id) \/ RemoveBloom(id), UNCHANGED <<hour, pebbleVars>>
      PROVE  StorageTypeOK'
  BY <1>3 DEF RemoveBlock, RemoveBloom, Put, WriteBloom, pebbleVars
<1>4. CASE Tick
  BY SMTT(30), <1>4, HourAssumption DEF Tick, Hours, pebbleVars, fileVars
<1>5. CASE TTLCrash
  BY <1>5 DEF TTLCrash, PebbleCrash, fileVars
<1>6. CASE Reaper
  BY <1>1, <1>2, <1>3, <1>6
  DEF Reaper, ReaperScan, ReaperGetMeta, ReaperDeleteOrphan, ReaperDeleteBlock, ReaperDeleteBloom,
      ReaperDeleteMeta, ReaperEnd, ReaperFails, ReaperContinues, storageVars
<1>7. CASE Janitor
  BY <1>1, <1>2, <1>7
  DEF Janitor, JanitorScan, JanitorGetMeta, JanitorDeleteOrphan, JanitorExists, JanitorDeleteMeta,
      JanitorEnd, JanitorFails, JanitorContinues, storageVars
<1> QED
  BY <1>1, <1>4, <1>5, <1>6, <1>7 DEF TTLNext, ttlAllVars

(* The counts of errors and crashes stay within their bounds.                *)
LEMMA ErrorsType ==
    ASSUME TTLTypeOK, [TTLNext]_ttlAllVars
    PROVE  errors' \in 0..MaxErrors /\ readErrors' \in 0..MaxReadErrors
             /\ crashes' \in 0..MaxCrashes
<1> USE FaultAssumption DEF TTLTypeOK
<1>1. CASE UNCHANGED errorVars
  BY <1>1 DEF errorVars
<1>2. CASE Error \/ ReadError
  BY SMTT(30), <1>2 DEF Error, ReadError
<1>3. CASE TTLCrash
  BY SMTT(30), <1>3 DEF TTLCrash
<1>4. CASE Reaper
  BY <1>1, <1>2, <1>4
  DEF Reaper, ReaperScan, ReaperGetMeta, ReaperDeleteOrphan, ReaperDeleteBlock, ReaperDeleteBloom,
      ReaperDeleteMeta, ReaperEnd, ReaperFails, ReaperContinues
<1>5. CASE Janitor
  BY <1>1, <1>2, <1>5
  DEF Janitor, JanitorScan, JanitorGetMeta, JanitorDeleteOrphan, JanitorExists, JanitorDeleteMeta,
      JanitorEnd, JanitorFails, JanitorContinues
<1> QED
  BY <1>1, <1>3, <1>4, <1>5 DEF TTLNext, ttlAllVars, ttlVars

(* The loops' own variables stay within their types.                         *)
LEMMA LoopsType ==
    ASSUME TTLTypeOK, [TTLNext]_ttlAllVars
    PROVE  /\ rpc' \in {"idle", "loop", "orphan", "block", "bloom", "meta"}
           /\ jpc' \in {"idle", "loop", "orphan", "exists", "meta"}
           /\ rtodo' \subseteq Entry /\ rcur' \in Entry
           /\ jtodo' \subseteq Entry /\ jcur' \in Entry
<1> USE DEF TTLTypeOK
<1>1. ScanExpiredEntries(hour) \subseteq Entry
  BY DEF ScanExpiredEntries, StorageTypeOK, Entry
<1>2. CASE Reaper
  BY <1>1, <1>2
  DEF Reaper, ReaperScan, ReaperGetMeta, ReaperDeleteOrphan, ReaperDeleteBlock, ReaperDeleteBloom,
      ReaperDeleteMeta, ReaperEnd, ReaperFails, ReaperContinues, janitorVars
<1>3. CASE Janitor
  BY <1>1, <1>3
  DEF Janitor, JanitorScan, JanitorGetMeta, JanitorDeleteOrphan, JanitorExists, JanitorDeleteMeta,
      JanitorEnd, JanitorFails, JanitorContinues, reaperVars
<1>4. CASE TTLCrash \/ UNCHANGED ttlVars
  BY <1>4 DEF TTLCrash, Restart, ttlVars, reaperVars, janitorVars
<1> QED
  BY <1>2, <1>3, <1>4 DEF TTLNext, ttlAllVars

(* The variables of the storage and of the two loops stay within their types *)
(* for any retention period and any bounds on the faults.                    *)
THEOREM TTLTypeCorrect == TTLSpec => []TTLTypeOK
<1>1. TTLInit => TTLTypeOK
  <2> SUFFICES ASSUME TTLInit PROVE TTLTypeOK
    OBVIOUS
  <2>1. StorageTypeOK
    <3>1. blk \subseteq BlockIDs /\ exp \subseteq Nat \X BlockIDs
      BY SMTT(30), ExpiryHourNat DEF TTLInit
    <3>2. idx \subseteq Keys \X BlockIDs /\ idxSynced \subseteq idx
      BY <3>1 DEF TTLInit
    <3>3. block \in [BlockIDs -> SUBSET Events] /\ bloom \in [BlockIDs -> SUBSET Keys]
      BY DEF TTLInit
    <3> QED
      BY <3>1, <3>2, <3>3 DEF TTLInit, StorageTypeOK
  <2>2. None \in Entry
    BY SMTT(30), HourAssumption DEF None, Entry, BlockIDs, Hours
  <2> QED
    BY SMTT(30), <2>1, <2>2, FaultAssumption DEF TTLInit, Loops, TTLTypeOK
<1>2. TTLTypeOK /\ [TTLNext]_ttlAllVars => TTLTypeOK'
  BY StorageType, ErrorsType, LoopsType DEF TTLTypeOK
<1> QED
  BY <1>1, <1>2, PTL DEF TTLSpec, ttlAllVars
-----------------------------------------------------------------------------
(* The writer, the reaper and the janitor of a shard together, for any      *)
(* events, keys, limits and retention period, and any number of errors,     *)
(* hours and restarts                                                       *)

Shapes ==
    /\ hour \in Hours /\ openedAt \in Hours /\ sealedAt \in Hours
    /\ idxSynced \subseteq idx

\* A BlockID that is committed while a Seal works on it is in use again.
Marked ==
    /\ blk \subseteq attempted
    /\ Sealing => mem # {} /\ openedAt \in attempted /\ (openedAt \in blk => openedAt \in reused)

\* What the running Seal has written, and the loops may not touch yet.
Kept ==
    ~Expired(openedAt) =>
        /\ pc \in {"put", "idx"} => openedAt \notin torn /\ bloom[openedAt] = KeysOf(mem)
        /\ pc = "idx" =>
              block[openedAt] = mem /\ (KeysOf(mem) \ todo) \X {openedAt} \subseteq idx

SysInv == TTLInv /\ Shapes /\ Marked /\ Kept /\ UnexpiredReadable
-----------------------------------------------------------------------------
(* The invariant holds at the start.                                         *)
LEMMA SystemInitInv == SystemInit => SysInv
<1> SUFFICES ASSUME SystemInit PROVE SysInv
  OBVIOUS
<1> USE DEF SystemInit, Init, StorageInit, Loops
<1>1. Shapes
  BY SMTT(30), HourAssumption DEF Shapes, Hours
<1>2. TTLInv
  BY DEF TTLInv, Keyed, Working
<1>3. Marked /\ Kept /\ UnexpiredReadable
  BY DEF Marked, Kept, UnexpiredReadable, Sealing
<1> QED
  BY <1>1, <1>2, <1>3 DEF SysInv

(* A block stays complete while its files stay and no durable key goes.      *)
LEMMA CompleteKept ==
    ASSUME NEW id, Complete(id), block'[id] = block[id], bloom'[id] = bloom[id],
           id \in torn' => id \in torn, idxSynced \subseteq idxSynced',
           <<ExpiryHour(id), id>> \in exp'
    PROVE  Complete(id)'
BY DEF Complete, Exists

(* The loops write no index entry and make the written ones durable.         *)
LEMMA LoopFrame ==
    ASSUME Shapes, Reaper \/ Janitor
    PROVE  /\ idx' = idx /\ idxSynced \subseteq idxSynced' /\ idxSynced' \subseteq idx'
           /\ torn' \subseteq torn
<1> USE DEF Shapes
<1>1. CASE UNCHANGED storageVars
  BY <1>1 DEF storageVars, pebbleVars, fileVars
<1>2. ASSUME NEW x, DeleteBlockAndExpiry(x[1], x[2]), UNCHANGED fileVars
      PROVE  /\ idx' = idx /\ idxSynced \subseteq idxSynced' /\ idxSynced' \subseteq idx'
             /\ torn' \subseteq torn
  BY <1>2 DEF DeleteBlockAndExpiry, Synced, fileVars
<1>3. ASSUME NEW id, RemoveBlock(id) \/ RemoveBloom(id), UNCHANGED pebbleVars
      PROVE  /\ idx' = idx /\ idxSynced \subseteq idxSynced' /\ idxSynced' \subseteq idx'
             /\ torn' \subseteq torn
  <2>1. idx' = idx /\ idxSynced' = idxSynced
    BY <1>3 DEF pebbleVars
  <2>2. torn' \subseteq torn
    BY <1>3 DEF RemoveBlock, RemoveBloom, Put, WriteBloom
  <2> QED
    BY <2>1, <2>2
<1>4. CASE Reaper
  <2>1. CASE ReaperScan \/ ReaperGetMeta \/ ReaperEnd \/ ReaperFails
    BY <1>1, <2>1 DEF ReaperScan, ReaperGetMeta, ReaperEnd, ReaperFails, ReaperContinues,
           storageVars
  <2>2. CASE ReaperDeleteOrphan
    BY <1>1, <1>2, <2>2 DEF ReaperDeleteOrphan, storageVars
  <2>3. CASE ReaperDeleteBlock \/ ReaperDeleteBloom
    BY <1>3, <2>1, <2>3 DEF ReaperDeleteBlock, ReaperDeleteBloom
  <2>4. CASE ReaperDeleteMeta
    BY <1>2, <2>1, <2>4 DEF ReaperDeleteMeta
  <2> QED
    BY <1>4, <2>1, <2>2, <2>3, <2>4 DEF Reaper
<1>5. CASE Janitor
  <2>1. CASE JanitorScan \/ JanitorGetMeta \/ JanitorExists \/ JanitorEnd \/ JanitorFails
    BY <1>1, <2>1 DEF JanitorScan, JanitorGetMeta, JanitorExists, JanitorEnd, JanitorFails,
                      JanitorContinues, storageVars
  <2>2. CASE JanitorDeleteOrphan
    BY <1>1, <1>2, <2>2 DEF JanitorDeleteOrphan, storageVars
  <2>3. CASE JanitorDeleteMeta
    BY <1>2, <2>1, <2>3 DEF JanitorDeleteMeta, JanitorContinues
  <2> QED
    BY <1>5, <2>1, <2>2, <2>3 DEF Janitor
<1> QED
  BY <1>4, <1>5

(* A step of the loops changes nothing of a block that is not expired, the   *)
(* one being sealed included.                                                *)
LEMMA LoopUntouched ==
    ASSUME SysInv, Reaper \/ Janitor, NEW id \in BlockIDs, ~Expired(id)
    PROVE  /\ block'[id] = block[id] /\ bloom'[id] = bloom[id]
           /\ <<ExpiryHour(id), id>> \in exp => <<ExpiryHour(id), id>> \in exp'
<1>1. CASE UNCHANGED storageVars
  BY <1>1 DEF storageVars, pebbleVars, fileVars
<1>2. ASSUME NEW x, Due(x), Touches(x)
      PROVE  /\ block'[id] = block[id] /\ bloom'[id] = bloom[id]
             /\ <<ExpiryHour(id), id>> \in exp => <<ExpiryHour(id), id>> \in exp'
  <2>1. id # x[2]
    BY <1>2 DEF Due, Expired
  <2>2. <<ExpiryHour(id), id>> # x
    BY SMTT(30), <2>1
  <2> QED
    BY <1>2, <2>1, <2>2 DEF Touches
<1> QED
  BY <1>1, <1>2, ReaperStorage, JanitorStorage DEF SysInv

(* The reaper and the janitor beside the writer.                             *)
LEMMA LoopsInv == ASSUME SysInv, TTLLoops PROVE SysInv'
<1> USE DEF SysInv, TTLLoops
<1>1. TTLInv' /\ hour' = hour
  BY LoopKeyed, ReaperWorking, JanitorWorking DEF TTLInv
<1>2. UNCHANGED <<pc, mem, todo, openedAt, sealedAt, attempted, reused>>
  BY DEF writerVars, history
<1>3. /\ idx' = idx /\ idxSynced \subseteq idxSynced' /\ idxSynced' \subseteq idx'
      /\ torn' \subseteq torn
  BY LoopFrame
<1>4. blk' \subseteq blk /\ blk \subseteq BlockIDs
  <2>1. blk \subseteq BlockIDs
    BY DEF TTLInv, Keyed
  <2> QED
    BY <2>1, ReaperStorage, JanitorStorage DEF Touches, storageVars, pebbleVars
<1>5. Shapes' /\ Marked'
  BY <1>1, <1>2, <1>3, <1>4 DEF Shapes, Marked, Sealing
<1>6. Kept'
  <2> SUFFICES ASSUME ~Expired(openedAt) PROVE Kept'
    BY <1>1, <1>2 DEF Kept, Expired
  <2>1. openedAt \in BlockIDs
    BY DEF Shapes, BlockIDs
  <2>2. block'[openedAt] = block[openedAt] /\ bloom'[openedAt] = bloom[openedAt]
    BY <2>1, LoopUntouched
  <2> QED
    BY <1>2, <1>3, <2>2 DEF Kept
<1>7. UnexpiredReadable'
  <2> SUFFICES ASSUME NEW id \in blk' \ reused', ~Expired(id)' PROVE Complete(id)'
    BY DEF UnexpiredReadable
  <2>1. id \in blk \ reused /\ ~Expired(id) /\ id \in BlockIDs
    BY <1>1, <1>2, <1>4 DEF Expired
  <2>2. Complete(id) /\ <<ExpiryHour(id), id>> \in exp
    BY <2>1 DEF UnexpiredReadable, TTLInv, Keyed
  <2> QED
    BY <1>3, <2>1, <2>2, LoopUntouched, CompleteKept
<1> QED
  BY <1>1, <1>5, <1>6, <1>7
-----------------------------------------------------------------------------
(* What the loops have scanned stays due while only the writer steps.        *)
LEMMA WorkingStays ==
    ASSUME TTLInv, UNCHANGED ttlVars, hour' = hour \/ hour' = hour + 1 PROVE Working'
<1>1. \A x : Due(x) => Due(x)'
  BY DueStays DEF TTLInv, Keyed
<1> QED
  BY <1>1 DEF TTLInv, Working, ttlVars, reaperVars, janitorVars

(* Steps of the callers and of the flush: no Seal is running, or none of its *)
(* variables changes.                                                        *)
LEMMA QuietInv ==
    ASSUME SysInv, UNCHANGED <<ttlVars, hour, blk, exp, idx, block, bloom, torn>>,
           idxSynced' = idxSynced \/ idxSynced' = idx,
           UNCHANGED <<openedAt, sealedAt, attempted, reused>>,
           (~Sealing /\ ~Sealing') \/ UNCHANGED <<pc, mem, todo>>
    PROVE  SysInv'
<1> USE DEF SysInv
<1>1. TTLInv'
  BY WorkingStays DEF TTLInv, Keyed
<1>2. Shapes' /\ Marked'
  BY DEF Shapes, Marked, Sealing
<1>3. Kept'
  BY DEF Kept, Sealing, Expired
<1>4. UnexpiredReadable'
  BY CompleteKept DEF UnexpiredReadable, Shapes, Expired, TTLInv, Keyed
<1> QED
  BY <1>1, <1>2, <1>3, <1>4

(* The quiet steps of the writer.                                            *)
LEMMA WriterQuiet ==
    ASSUME SysInv, UNCHANGED ttlVars,
           \/ Stop \/ Select(FALSE) \/ Select(TRUE) \/ DrainAll \/ NothingToSeal
           \/ \E e \in Events : Push(e) \/ FlushNextSeq(e) \/ FlushEvent(e) \/ FlushEventFails(e)
    PROVE  SysInv'
<1>1. CASE Stop \/ \E e \in Events : Push(e)
  <2>1. UNCHANGED <<storageVars, openedAt, sealedAt, attempted, reused, pc, mem, todo>>
    BY <1>1 DEF Stop, Push
  <2>2. UNCHANGED <<hour, blk, exp, idx, idxSynced, block, bloom, torn>>
    BY <2>1 DEF storageVars, pebbleVars, fileVars
  <2> QED
    BY <2>1, <2>2, QuietInv
<1>2. CASE Select(FALSE) \/ Select(TRUE) \/ DrainAll \/ NothingToSeal
  BY <1>2, QuietInv DEF Select, DrainAll, NothingToSeal, AfterFlush, Sealing, storageVars,
                        pebbleVars, fileVars, history
<1>3. ASSUME NEW e \in Events, FlushNextSeq(e) \/ FlushEvent(e) \/ FlushEventFails(e)
      PROVE  SysInv'
  BY <1>3, QuietInv DEF FlushNextSeq, FlushEvent, FlushEventFails, WALNextSeq, WALSet, Synced,
                        Sealing, storageVars, pebbleVars, fileVars, history
<1> QED
  BY <1>1, <1>2, <1>3

(* A seal is triggered: a BlockID that was used before is marked.            *)
LEMMA SealStartSys == ASSUME SysInv, UNCHANGED ttlVars, SealStart PROVE SysInv'
<1> USE DEF SysInv, SealStart
<1>1. UNCHANGED <<hour, blk, exp, idx, idxSynced, block, bloom, torn>>
  BY DEF storageVars, pebbleVars, fileVars
<1>2. TTLInv'
  BY <1>1, WorkingStays DEF TTLInv, Keyed
<1>3. Shapes' /\ Marked' /\ Kept'
  BY <1>1 DEF Shapes, Marked, Kept, Sealing
<1>4. UnexpiredReadable'
  BY <1>1, CompleteKept DEF UnexpiredReadable, Expired, TTLInv, Keyed
<1> QED
  BY <1>2, <1>3, <1>4

(* The file steps of Seal reach only the block being sealed, which no reader *)
(* relies on: if it is committed its BlockID is in use again.                *)
LEMMA SealFiles ==
    ASSUME SysInv, Sealing, UNCHANGED <<ttlVars, hour, blk, exp, idxSynced, reused>>,
           idx \subseteq idx',
           DOMAIN block' = BlockIDs, DOMAIN bloom' = BlockIDs,
           \A id \in BlockIDs : id # openedAt =>
              block'[id] = block[id] /\ bloom'[id] = bloom[id] /\ (id \in torn' => id \in torn)
    PROVE  TTLInv' /\ UnexpiredReadable'
<1> USE DEF SysInv
<1>1. TTLInv'
  BY WorkingStays DEF TTLInv, Keyed
<1>2. UnexpiredReadable'
  <2> SUFFICES ASSUME NEW id \in blk' \ reused', ~Expired(id)' PROVE Complete(id)'
    BY DEF UnexpiredReadable
  <2>1. id \in blk \ reused /\ ~Expired(id) /\ id \in BlockIDs /\ id # openedAt
    BY DEF Expired, TTLInv, Keyed, Marked
  <2>2. Complete(id) /\ <<ExpiryHour(id), id>> \in exp
    BY <2>1 DEF UnexpiredReadable, TTLInv, Keyed
  <2> QED
    BY <2>1, <2>2, CompleteKept
<1> QED
  BY <1>1, <1>2

(* A failing Seal.                                                           *)
LEMMA SealFailsSys ==
    ASSUME SysInv, Sealing, UNCHANGED ttlVars, SealFails,
             UNCHANGED fileVars \/ RemoveBloom(openedAt)
    PROVE  SysInv'
<1>1. UNCHANGED <<hour, blk, exp, idx, idxSynced, block, attempted, reused>>
  BY DEF SealFails, pebbleVars, fileVars, RemoveBloom, WriteBloom
<1>2. DOMAIN block' = BlockIDs /\ DOMAIN bloom' = BlockIDs
      /\ \A id \in BlockIDs : id # openedAt => bloom'[id] = bloom[id] /\ (id \in torn'
           => id \in torn)
  BY <1>1 DEF fileVars, RemoveBloom, WriteBloom, SysInv, TTLInv, Keyed
<1>3. TTLInv' /\ UnexpiredReadable'
  BY <1>1, <1>2, SealFiles
<1>4. Shapes' /\ Marked' /\ Kept'
  BY <1>1 DEF SysInv, Shapes, Marked, Kept, Sealing, SealFails, sealCurrentEnd, AfterFlush
<1> QED
  BY <1>3, <1>4 DEF SysInv

(* The steps of Seal before the seal batch.                                  *)
LEMMA SealWritesSys ==
    ASSUME SysInv, UNCHANGED ttlVars,
           \/ /\ UNCHANGED <<pebbleVars, todo, history>>
              /\ \/ pc = "tmp" /\ SealContinues("bloom") /\ UNCHANGED fileVars
                 \/ pc = "bloom" /\ CreateBloom(openedAt) /\ SealContinues("bloomWrite")
                 \/ pc = "bloomWrite" /\ WriteBloom(openedAt, KeysOf(mem)) /\ SealContinues("put")
           \/ /\ pc = "put" /\ Put(openedAt, mem) /\ SealContinues("idx") /\ todo' = KeysOf(mem)
              /\ UNCHANGED <<pebbleVars, attempted, reused>>
           \/ /\ pc = "idx" /\ SealContinues("idx") /\ UNCHANGED <<fileVars, history>>
              /\ \E chunk \in SUBSET todo : PutIdxBatch(chunk, openedAt) /\ todo' = todo \ chunk
    PROVE  SysInv'
<1>0. openedAt \in BlockIDs /\ DOMAIN block = BlockIDs /\ DOMAIN bloom = BlockIDs
  BY DEF SysInv, Shapes, BlockIDs, TTLInv, Keyed
<1>1. UNCHANGED <<hour, blk, exp, idxSynced, mem, openedAt, sealedAt, attempted, reused>>
      /\ idx \subseteq idx' /\ Sealing /\ Sealing'
  BY DEF SealContinues, PutIdxBatch, pebbleVars, history, Sealing
<1>2. DOMAIN block' = BlockIDs /\ DOMAIN bloom' = BlockIDs
      /\ \A id \in BlockIDs : id # openedAt =>
            block'[id] = block[id] /\ bloom'[id] = bloom[id] /\ (id \in torn' => id \in torn)
  BY <1>0 DEF fileVars, CreateBloom, WriteBloom, Put
<1>3. TTLInv' /\ UnexpiredReadable'
  BY <1>1, <1>2, SealFiles
<1>4. Shapes' /\ Marked'
  BY <1>1 DEF SysInv, Shapes, Marked
<1>5. Kept'
  <2>1. CASE pc \in {"tmp", "bloom"}
    <3>1. pc' \in {"bloom", "bloomWrite"}
      BY <2>1 DEF SealContinues
    <3> QED
      BY <3>1 DEF Kept
  <2>2. CASE pc = "bloomWrite"
    <3>1. pc' = "put" /\ WriteBloom(openedAt, KeysOf(mem))
      BY <2>2 DEF SealContinues
    <3>2. openedAt \notin torn' /\ bloom'[openedAt] = KeysOf(mem)
      BY <1>0, <3>1 DEF WriteBloom
    <3>3. openedAt' = openedAt /\ KeysOf(mem)' = KeysOf(mem)
      BY <1>1 DEF KeysOf
    <3> QED
      BY <3>1, <3>2, <3>3 DEF Kept
  <2>3. CASE pc = "put"
    BY <1>0, <1>1, <2>3 DEF SysInv, Kept, SealContinues, Put, Expired
  <2>4. CASE pc = "idx"
    <3>1. PICK chunk \in SUBSET todo : PutIdxBatch(chunk, openedAt) /\ todo' = todo \ chunk
      BY <2>4
    <3>2. UNCHANGED <<block, bloom, torn>> /\ idx' = idx \cup {<<k, openedAt>> : k \in chunk}
      BY <2>4, <3>1 DEF PutIdxBatch, fileVars
    <3>3. (KeysOf(mem) \ todo) \X {openedAt} \subseteq idx =>
             (KeysOf(mem) \ todo') \X {openedAt} \subseteq idx'
      <4> SUFFICES ASSUME (KeysOf(mem) \ todo) \X {openedAt} \subseteq idx,
                          NEW k \in KeysOf(mem) \ todo'
                   PROVE  <<k, openedAt>> \in idx'
        BY SMTT(30)
      <4>1. CASE k \in chunk
        BY <3>2, <4>1
      <4>2. CASE k \notin chunk
        <5>1. k \in KeysOf(mem) \ todo
          BY <3>1, <4>2
        <5> QED
          BY <3>2, <5>1
      <4> QED
        BY <4>1, <4>2
    <3> QED
      BY <1>1, <2>4, <3>2, <3>3 DEF SysInv, Kept, Expired
  <2> QED
    BY <2>1, <2>2, <2>3, <2>4
<1> QED
  BY <1>3, <1>4, <1>5 DEF SysInv

(* The seal batch: a block that is not expired yet has all its parts, and    *)
(* its metadata comes with its expiry key, whatever the reaper has deleted.  *)
LEMMA SealCommitSys ==
    ASSUME SysInv, UNCHANGED ttlVars, pc = "idx", todo = {}, SealBatch(openedAt), sealCurrentEnd,
           UNCHANGED <<hour, fileVars, boundVars, history>>
    PROVE  SysInv'
<1> USE DEF SysInv, SealBatch, Synced, sealCurrentEnd, AfterFlush, fileVars, history
<1>1. openedAt \in BlockIDs /\ <<ExpiryHour(openedAt), openedAt>> \in Entry
  BY ExpiryHourNat DEF Shapes, BlockIDs, Entry
<1>2. TTLInv'
  <2>1. Keyed'
    <3>1. /\ hour' = hour /\ block' = block /\ bloom' = bloom
          /\ blk' = blk \cup {openedAt}
          /\ exp' = exp \cup {<<ExpiryHour(openedAt), openedAt>>}
      OBVIOUS
    <3>2. \A x \in exp' : x \in Entry /\ x[1] = ExpiryHour(x[2])
      BY SMTT(30), <1>1, <3>1 DEF TTLInv, Keyed
    <3>3. \A id \in blk' : <<ExpiryHour(id), id>> \in exp'
      BY <3>1 DEF TTLInv, Keyed
    <3> QED
      BY <1>1, <3>1, <3>2, <3>3 DEF TTLInv, Keyed, ExpiryHour, Entry
  <2> QED
    BY <2>1, WorkingStays DEF TTLInv
<1>3. Shapes' /\ Kept'
  BY DEF Shapes, Kept
<1>4. Marked'
  BY DEF Marked, Sealing
<1>5. UnexpiredReadable'
  <2> SUFFICES ASSUME NEW id \in blk' \ reused', ~Expired(id)' PROVE Complete(id)'
    BY DEF UnexpiredReadable
  <2>1. ~Expired(id)
    BY DEF Expired
  <2>2. CASE id = openedAt
    <3>1. block'[id] = mem /\ mem # {} /\ id \notin torn' /\ bloom'[id] = KeysOf(mem)
      BY <2>1, <2>2 DEF Kept, Marked, Sealing
    <3>2. KeysOf(mem) \X {id} \subseteq idxSynced'
      BY <2>1, <2>2 DEF Kept
    <3> QED
      BY <2>2, <3>1, <3>2 DEF Complete, Exists
  <2>3. CASE id # openedAt
    <3>1. id \in blk \ reused
      BY <2>3
    <3>2. Complete(id) /\ <<ExpiryHour(id), id>> \in exp'
      BY <2>1, <3>1 DEF UnexpiredReadable, TTLInv, Keyed
    <3> QED
      BY <3>2, CompleteKept DEF Shapes
  <2> QED
    BY <2>2, <2>3
<1> QED
  BY <1>2, <1>3, <1>4, <1>5

(* Seal as a whole.                                                          *)
LEMMA SealSys == ASSUME SysInv, UNCHANGED ttlVars, Seal PROVE SysInv'
<1>1. CASE SealWriteTmp \/ SealCreateBloom \/ SealWriteBloom
  <2>1. CASE SealWriteTmp
    BY <2>1, SealWritesSys, SealFailsSys DEF SealWriteTmp, Sealing
  <2>2. CASE SealCreateBloom
    BY <2>2, SealWritesSys, SealFailsSys DEF SealCreateBloom, Sealing
  <2>3. CASE SealWriteBloom
    BY <2>3, SealWritesSys, SealFailsSys DEF SealWriteBloom, Sealing
  <2> QED
    BY <1>1, <2>1, <2>2, <2>3
<1>2. CASE SealPut
  BY <1>2, SealWritesSys, SealFailsSys DEF SealPut, Sealing
<1>3. CASE SealPutIdx
  BY <1>3, SealWritesSys, SealFailsSys DEF SealPutIdx, Sealing
<1>4. CASE SealCommit
  BY <1>4, SealCommitSys, SealFailsSys DEF SealCommit, Sealing
<1> QED
  BY <1>1, <1>2, <1>3, <1>4 DEF Seal

(* The end of the process ends the loops too.                                *)
LEMMA ProcessEndsSys == ASSUME SysInv, ProcessEnds PROVE SysInv'
<1> USE DEF SysInv, Down, fileVars
<1>1. Down /\ UNCHANGED <<hour, blk, exp, block, bloom, torn>>
      /\ idxSynced \subseteq idxSynced' /\ idxSynced' = idx'
  BY DEF ProcessEnds, Exit, Crash, PebbleCrash, Synced, Shapes
<1>2. Keyed'
  BY <1>1 DEF TTLInv, Keyed
<1>3. Working'
  <2>1. rpc' = "idle" /\ jpc' = "idle" /\ rtodo' = {} /\ jtodo' = {}
    BY DEF ProcessEnds, Restart
  <2> QED
    BY <2>1 DEF Working
<1>4. Shapes' /\ Marked' /\ Kept'
  BY <1>1 DEF Shapes, Marked, Kept, Sealing
<1>5. UnexpiredReadable'
  BY <1>1, CompleteKept DEF UnexpiredReadable, Expired, TTLInv, Keyed
<1> QED
  BY <1>2, <1>3, <1>4, <1>5 DEF TTLInv

(* A new process has no Seal running.                                        *)
LEMMA StartSys == ASSUME SysInv, UNCHANGED ttlVars, Start PROVE SysInv'
<1> USE DEF SysInv, Start
<1>1. UNCHANGED <<hour, blk, exp, idx, idxSynced, block, bloom, torn>>
  BY DEF storageVars, pebbleVars, fileVars
<1>2. TTLInv'
  <2>1. Keyed'
    BY <1>1 DEF TTLInv, Keyed
  <2>2. Working'
    BY <1>1, WorkingStays
  <2> QED
    BY <2>1, <2>2 DEF TTLInv
<1>3. Shapes' /\ Marked' /\ Kept'
  BY <1>1 DEF Shapes, Marked, Kept, Sealing
<1>4. UnexpiredReadable'
  BY <1>1, CompleteKept DEF UnexpiredReadable, Expired, TTLInv, Keyed
<1> QED
  BY <1>2, <1>3, <1>4

(* As the clock advances, blocks expire and none becomes unexpired.          *)
LEMMA ClockSys == ASSUME SysInv, UNCHANGED ttlVars, Clock PROVE SysInv'
<1> USE DEF SysInv, Clock, Tick, pebbleVars, fileVars, writerVars, history
<1>1. TTLInv'
  <2>1. Keyed'
    BY SMTT(30) DEF TTLInv, Keyed
  <2> QED
    BY <2>1, WorkingStays DEF TTLInv
<1>2. Shapes' /\ Marked'
  BY SMTT(30), HourAssumption DEF Shapes, Marked, Sealing, Hours
<1>3. ASSUME NEW id \in BlockIDs, ~Expired(id)' PROVE ~Expired(id)
  <2>1. ExpiryHour(id) \in Nat /\ hour \in Nat /\ hour' = hour + 1
    BY SMTT(30), ExpiryHourNat, HourAssumption DEF Shapes, Hours
  <2>2. ~(ExpiryHour(id) <= hour + 1)
    BY <1>3, <2>1 DEF Expired
  <2> QED
    BY SMTT(30), <2>1, <2>2 DEF Expired
<1>4. Kept'
  <2>1. openedAt \in BlockIDs /\ (~Expired(openedAt)' => ~Expired(openedAt))
    BY <1>3 DEF Shapes, BlockIDs, Expired
  <2> QED
    BY <2>1 DEF Kept
<1>5. UnexpiredReadable'
  BY <1>3, CompleteKept DEF UnexpiredReadable, TTLInv, Keyed
<1> QED
  BY <1>1, <1>2, <1>4, <1>5

(* The invariant is inductive.                                               *)
LEMMA SystemNextInv == SysInv /\ [SystemNext]_allVars => SysInv'
<1> SUFFICES ASSUME SysInv, [SystemNext]_allVars PROVE SysInv'
  OBVIOUS
<1>1. CASE UNCHANGED allVars
  BY <1>1, QuietInv DEF allVars, vars, storageVars, pebbleVars, fileVars, writerVars, history
<1>2. CASE Writer
  BY <1>2, WriterQuiet, SealStartSys, SealSys, StartSys, ClockSys DEF Writer, Run
<1>3. CASE TTLLoops
  BY <1>3, LoopsInv
<1>4. CASE ProcessEnds
  BY <1>4, ProcessEndsSys
<1>5. CASE \E e \in Events : Write(e)
  BY <1>5, WriterQuiet DEF Write
<1> QED
  BY <1>1, <1>2, <1>3, <1>4, <1>5 DEF SystemNext

(* The writer, the reaper and the janitor keep the invariant together.       *)
THEOREM SystemInvariant == SystemSpec => []SysInv
BY SystemInitInv, SystemNextInv, PTL DEF SystemSpec

(* A committed block that is not expired, and whose BlockID one Seal has     *)
(* used, can be read completely, whatever the loops delete meanwhile.        *)
THEOREM UnexpiredIsReadable == SystemSpec => []UnexpiredReadable
<1>1. SysInv => UnexpiredReadable
  BY DEF SysInv
<1> QED
  BY <1>1, SystemInvariant, PTL

(* Every block with metadata has the expiry key by which the reaper finds    *)
(* it, also when its BlockID is sealed again while the reaper deletes it.    *)
THEOREM BlocksCanExpire == SystemSpec => []BlocksExpire
<1>1. SysInv => BlocksExpire
  BY DEF SysInv, TTLInv, Keyed, BlocksExpire
<1> QED
  BY <1>1, SystemInvariant, PTL
=============================================================================
