-------------------------------- MODULE TTL --------------------------------
(***************************************************************************)
(* The reaper and the janitor (internal/ttl): two goroutines that scan the *)
(* expiry keys and delete what has expired, each from its own snapshot of  *)
(* the keys, with no lock between them.  A step is one call that reads or  *)
(* changes pebble or a file; any of them may fail, and a crash ends both   *)
(* loops, which start again with the process.                              *)
(***************************************************************************)
EXTENDS Storage

CONSTANTS
    MaxErrors,      \* bound: failing deletions
    MaxReadErrors,  \* bound: GetBlockMeta calls that fail on a block that has metadata
    MaxCrashes      \* bound: crashes

ASSUME FaultAssumption == MaxErrors \in Nat /\ MaxReadErrors \in Nat /\ MaxCrashes \in Nat

VARIABLES
    rpc, rtodo, rcur,   \* the reaper: next step, entries left, entry at hand
    jpc, jtodo, jcur,   \* the janitor: the same
    errors, readErrors, crashes

reaperVars == <<rpc, rtodo, rcur>>
janitorVars == <<jpc, jtodo, jcur>>
errorVars == <<errors, readErrors, crashes>>
ttlVars == <<reaperVars, janitorVars, errorVars>>

Entry == Nat \X BlockIDs

\* The empty entry.
None == <<0, 0>>

Loops ==
    /\ rpc = "idle" /\ rtodo = {} /\ rcur = None
    /\ jpc = "idle" /\ jtodo = {} /\ jcur = None
    /\ errors = 0 /\ readErrors = 0 /\ crashes = 0

Error == errors < MaxErrors /\ errors' = errors + 1 /\ UNCHANGED <<readErrors, crashes>>

ReadError ==
    /\ readErrors < MaxReadErrors
    /\ readErrors' = readErrors + 1
    /\ UNCHANGED <<errors, crashes>>

\* Entries come in the order of their keys: expiry hour, then BlockID.
First(todo, x) ==
    /\ x \in todo
    /\ \A y \in todo : x[1] < y[1] \/ (x[1] = y[1] /\ x[2] <= y[2])
-----------------------------------------------------------------------------
(* Reaper.RunOnce *)

ReaperScan ==
    /\ rpc = "idle"
    /\ rtodo' = ScanExpiredEntries(hour)
    /\ rpc' = "loop"
    /\ UNCHANGED <<storageVars, rcur, janitorVars, errorVars>>

\* GetBlockMeta: every error is taken to mean that the block is gone.
ReaperGetMeta ==
    /\ rpc = "loop"
    /\ \E x \in rtodo :
        /\ First(rtodo, x)
        /\ rcur' = x
        /\ rtodo' = rtodo \ {x}
        /\ \/ /\ rpc' = IF x[2] \in blk THEN "block" ELSE "orphan"
              /\ UNCHANGED errorVars
           \/ x[2] \in blk /\ rpc' = "orphan" /\ ReadError
    /\ UNCHANGED <<storageVars, janitorVars>>

\* The error of this deletion is ignored.
ReaperDeleteOrphan ==
    /\ rpc = "orphan"
    /\ rpc' = "loop"
    /\ \/ DeleteBlockAndExpiry(rcur[1], rcur[2]) /\ UNCHANGED errorVars
       \/ Error /\ UNCHANGED pebbleVars
    /\ UNCHANGED <<hour, fileVars, rtodo, rcur, janitorVars>>

\* An error ends the cycle.
ReaperFails ==
    /\ Error
    /\ rpc' = "idle" /\ rtodo' = {}
    /\ UNCHANGED <<storageVars, rcur, janitorVars>>

ReaperContinues(next) ==
    /\ rpc' = next
    /\ UNCHANGED <<hour, rtodo, rcur, janitorVars, errorVars>>

\* Step (a), store.Delete: the block file, then the bloom file.
ReaperDeleteBlock ==
    /\ rpc = "block"
    /\ \/ RemoveBlock(rcur[2]) /\ ReaperContinues("bloom") /\ UNCHANGED pebbleVars
       \/ ReaperFails

ReaperDeleteBloom ==
    /\ rpc = "bloom"
    /\ \/ RemoveBloom(rcur[2]) /\ ReaperContinues("meta") /\ UNCHANGED pebbleVars
       \/ ReaperFails

\* Step (b)
ReaperDeleteMeta ==
    /\ rpc = "meta"
    /\ \/ /\ DeleteBlockAndExpiry(rcur[1], rcur[2])
          /\ ReaperContinues("loop")
          /\ UNCHANGED fileVars
       \/ ReaperFails

ReaperEnd ==
    /\ rpc = "loop" /\ rtodo = {}
    /\ ReaperContinues("idle")
    /\ UNCHANGED <<pebbleVars, fileVars>>

Reaper ==
    \/ ReaperScan \/ ReaperGetMeta \/ ReaperDeleteOrphan \/ ReaperDeleteBlock
    \/ ReaperDeleteBloom \/ ReaperDeleteMeta \/ ReaperEnd
-----------------------------------------------------------------------------
(* Janitor.RunOnce *)

JanitorScan ==
    /\ jpc = "idle"
    /\ jtodo' = ScanExpiredEntries(hour)
    /\ jpc' = "loop"
    /\ UNCHANGED <<storageVars, jcur, reaperVars, errorVars>>

JanitorGetMeta ==
    /\ jpc = "loop"
    /\ \E x \in jtodo :
        /\ First(jtodo, x)
        /\ jcur' = x
        /\ jtodo' = jtodo \ {x}
        /\ \/ /\ jpc' = IF x[2] \in blk THEN "exists" ELSE "orphan"
              /\ UNCHANGED errorVars
           \/ x[2] \in blk /\ jpc' = "orphan" /\ ReadError
    /\ UNCHANGED <<storageVars, reaperVars>>

JanitorDeleteOrphan ==
    /\ jpc = "orphan"
    /\ jpc' = "loop"
    /\ \/ DeleteBlockAndExpiry(jcur[1], jcur[2]) /\ UNCHANGED errorVars
       \/ Error /\ UNCHANGED pebbleVars
    /\ UNCHANGED <<hour, fileVars, jtodo, jcur, reaperVars>>

JanitorFails ==
    /\ Error
    /\ jpc' = "idle" /\ jtodo' = {}
    /\ UNCHANGED <<storageVars, jcur, reaperVars>>

JanitorContinues(next) ==
    /\ jpc' = next
    /\ UNCHANGED <<hour, fileVars, jtodo, jcur, reaperVars, errorVars>>

\* Mutant: the file's presence is not looked at.
JanitorExists_Ignored ==
    /\ jpc = "exists"
    /\ \/ JanitorContinues("meta") /\ UNCHANGED pebbleVars
       \/ JanitorFails

JanitorExists ==
    /\ jpc = "exists"
    /\ \/ /\ JanitorContinues(IF Exists(jcur[2]) THEN "loop" ELSE "meta")
          /\ UNCHANGED pebbleVars
       \/ JanitorFails

JanitorDeleteMeta ==
    /\ jpc = "meta"
    /\ \/ DeleteBlockAndExpiry(jcur[1], jcur[2]) /\ JanitorContinues("loop")
       \/ JanitorFails

JanitorEnd ==
    /\ jpc = "loop" /\ jtodo = {}
    /\ JanitorContinues("idle")
    /\ UNCHANGED pebbleVars

Janitor ==
    \/ JanitorScan \/ JanitorGetMeta \/ JanitorDeleteOrphan
    \/ JanitorExists \/ JanitorDeleteMeta \/ JanitorEnd
-----------------------------------------------------------------------------
\* Server.Run starts both loops anew after a crash.
Restart ==
    /\ rpc' = "idle" /\ rtodo' = {} /\ jpc' = "idle" /\ jtodo' = {}
    /\ UNCHANGED <<rcur, jcur>>

TTLCrash ==
    /\ crashes < MaxCrashes
    /\ crashes' = crashes + 1
    /\ Restart /\ PebbleCrash
    /\ UNCHANGED <<hour, fileVars, errors, readErrors>>

\* At the start some hours have passed, and any of their blocks are sealed.
TTLInit ==
    /\ hour \in Hours
    /\ walSeq = 0 /\ wal = {}
    /\ blk \in SUBSET {id \in BlockIDs : id < hour}
    /\ exp = {<<ExpiryHour(id), id>> : id \in blk}
    /\ idx = Keys \X blk /\ idxSynced = idx
    /\ block = [id \in BlockIDs |-> IF id \in blk THEN Events ELSE {}]
    /\ bloom = [id \in BlockIDs |-> IF id \in blk THEN Keys ELSE {}]
    /\ torn = {}
    /\ Loops

TTLNext ==
    \/ Reaper \/ Janitor \/ TTLCrash
    \/ Tick /\ UNCHANGED ttlVars

TTLSpec == TTLInit /\ [][TTLNext]_<<storageVars, ttlVars>>

\* Both loops run for as long as the process does: their tickers fire.
TTLFairSpec ==
    /\ TTLSpec
    /\ WF_<<storageVars, ttlVars>>(Reaper)
    /\ WF_<<storageVars, ttlVars>>(Janitor)
-----------------------------------------------------------------------------
Expired(id) == ExpiryHour(id) <= hour

(* The variables of the two loops stay within their types. *)
TTLTypeOK ==
    /\ StorageTypeOK
    /\ rpc \in {"idle", "loop", "orphan", "block", "bloom", "meta"}
    /\ jpc \in {"idle", "loop", "orphan", "exists", "meta"}
    /\ rtodo \subseteq Entry /\ rcur \in Entry
    /\ jtodo \subseteq Entry /\ jcur \in Entry
    /\ errors \in 0..MaxErrors /\ readErrors \in 0..MaxReadErrors
    /\ crashes \in 0..MaxCrashes

(* Neither loop touches the metadata, the expiry key or the files of a block *)
(* before its expiry hour, whatever it scanned and however late it acts.     *)
UnexpiredUntouched ==
    [][\A id \in blk : ~Expired(id)' =>
            /\ id \in blk' /\ <<ExpiryHour(id), id>> \in exp'
            /\ block'[id] = block[id] /\ bloom'[id] = bloom[id]]_<<storageVars, ttlVars>>

(* A block file always has its metadata and its expiry key, by which the     *)
(* reaper finds it again after an error or a crash: the file goes first.     *)
BlockNotLeaked ==
    \A id \in BlockIDs : Exists(id) => id \in blk /\ <<ExpiryHour(id), id>> \in exp

(* An expired block is reclaimed in spite of errors and crashes between the  *)
(* steps: its file, its metadata and its expiry key are gone in the end.     *)
ExpiredReclaimed ==
    \A id \in BlockIDs :
        id \in blk /\ Expired(id) ~> id \notin blk /\ ~Exists(id) /\ <<ExpiryHour(id), id>> \notin exp

(* Blocks are deleted after the retention period: no file of an expired      *)
(* block stays for ever, the bloom file included.                            *)
FilesReclaimed ==
    \A id \in BlockIDs : id \in blk /\ Expired(id) ~> ~Exists(id) /\ bloom[id] = {}
=============================================================================
