---------------------------- MODULE WriterQuery ----------------------------
(***************************************************************************)
(* Queries beside the writer of the shard: a query reads pebble and files  *)
(* that a Seal is writing, crashes and restarts of the process included.   *)
(***************************************************************************)
EXTENDS ShardWriter, Query

CONSTANT MaxSkew    \* bound: hours between an event's own timestamp and its arrival

sysVars == <<vars, queryVars>>

SysInit ==
    /\ Init
    /\ QueryInit
    /\ timestamp = [e \in Events |-> 0]

\* ResolveTimestamp: the client's timestamp, or the server's clock.
StampedPush(e, t) ==
    /\ Push(e)
    /\ t - hour \in -MaxSkew..MaxSkew
    /\ timestamp' = [timestamp EXCEPT ![e] = t]
    /\ UNCHANGED <<qpc, requestVars, cand, tasks, readers, rows, failed, cacheVars, queries, due>>

SysNext ==
    \/ pc # "down" /\ QueryStep /\ UNCHANGED <<writerVars, boundVars, history>>
    \/ (Run \/ Stop \/ Start \/ Clock) /\ UNCHANGED queryVars
    \/ (Exit \/ Crash) /\ QueryResets
    \/ \E e \in Events, t \in Hours : StampedPush(e, t)

SysSpec == SysInit /\ [][SysNext]_sysVars
-----------------------------------------------------------------------------
(* A query that returns has found every matching row that was committed when *)
(* it began, in the blocks whose hour is in the range asked for and whose    *)
(* BlockID only one Seal has used: index, bloom filter (cached, loaded or    *)
(* evicted), metadata and file agree while the writer seals other blocks.    *)
CommittedFound ==
    QueryReturns => \A x \in due : InRange(x[1]) /\ x[1] \notin reused => x \in rows

(* A block that passed the filters can be opened: Put makes the file visible *)
(* before SealBatch makes the metadata visible, also when a block is sealed  *)
(* again.                                                                    *)
OpenSucceeds == ~failed

(* Engine.Query returns the matching events: those with the key and with a   *)
(* timestamp in [From, To).                                                  *)
QueryFindsMatching == QueryReturns => \A x \in due : x[1] \notin reused => x \in rows

(* BloomCache.Test returns true if the key might be in the block's filter:   *)
(* a cached filter has every key of the committed block.                     *)
CacheCurrent ==
    \A id \in blk : InCache(id) /\ ~Sealing => KeysOf(block[id]) \subseteq cached[id]
=============================================================================
