----------------------------- MODULE ShardTTL ------------------------------
(***************************************************************************)
(* One process of the server: the writer of a shard, the reaper and the    *)
(* janitor, over the same pebble keys and files and with no lock between   *)
(* them.  They start together (Server.Run) and a crash or the exit of the  *)
(* process ends all three.                                                 *)
(***************************************************************************)
EXTENDS ShardWriter, TTL

VARIABLE pushHour   \* history: the hour at which an event was pushed

allVars == <<vars, ttlVars, pushHour>>

SystemInit ==
    /\ Init
    /\ Loops
    /\ pushHour = [e \in Events |-> 0]

Write(e) ==
    /\ Push(e)
    /\ pushHour' = [pushHour EXCEPT ![e] = hour]
    /\ UNCHANGED ttlVars

Writer ==
    /\ Run \/ Stop \/ Start \/ Clock
    /\ UNCHANGED <<ttlVars, pushHour>>

TTLLoops ==
    /\ pc # "down"
    /\ Reaper \/ Janitor
    /\ UNCHANGED <<writerVars, boundVars, history, pushHour>>

ProcessEnds ==
    /\ Exit \/ Crash
    /\ Restart
    /\ UNCHANGED <<errorVars, pushHour>>

SystemNext ==
    \/ Writer \/ TTLLoops \/ ProcessEnds
    \/ \E e \in Events : Write(e)

SystemSpec == SystemInit /\ [][SystemNext]_allVars
-----------------------------------------------------------------------------
(* A committed block that is not yet expired, and whose BlockID no second    *)
(* Seal has used, can be read completely, whatever the reaper and the        *)
(* janitor are doing and from however old a scan.                            *)
UnexpiredReadable == \A id \in blk \ reused : ~Expired(id) => Complete(id)

(* Every block with metadata has the expiry key by which the reaper finds    *)
(* it, also when its BlockID is sealed again while the reaper deletes it.    *)
BlocksExpire == \A id \in blk : <<ExpiryHour(id), id>> \in exp

(* retention_period: blocks are deleted after this period.  The reaper       *)
(* deletes no row that was written less than the retention period ago.       *)
RetentionKept ==
    [][\A id \in BlockIDs : \A e \in block[id] :
            block'[id] = {} => pushHour[e] + RetentionHours <= hour]_allVars

(* README: data is deleted in whole blocks.  When the metadata of a block is *)
(* deleted while no Seal is writing that shard, the file is gone too.        *)
DeletedWhole == [][\A id \in blk : id \notin blk' /\ ~Sealing => ~Exists(id)]_allVars
=============================================================================
