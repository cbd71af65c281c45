------------------------------- MODULE Shard -------------------------------
(***************************************************************************)
(* What a shard promises to its writers and readers, without the steps by  *)
(* which it keeps it: events are accepted, gathered in a memtable, and     *)
(* become visible block by block, all rows of the memtable at once.  It    *)
(* also says what is not promised: a block may be replaced by a later      *)
(* memtable, and what is not yet visible may be lost.                      *)
(***************************************************************************)
CONSTANTS Event, Block

VARIABLES
    accepted,   \* accepted events on their way to the memtable
    open,       \* the memtable
    visible     \* per block: the rows that queries can reach; {} is "no block"

shardVars == <<accepted, open, visible>>

ShardInit ==
    /\ accepted = {} /\ open = {}
    /\ visible = [id \in Block |-> {}]

Accept(e) ==
    /\ e \notin accepted \cup open \cup UNION {visible[id] : id \in Block}
    /\ accepted' = accepted \cup {e}
    /\ UNCHANGED <<open, visible>>

Insert(e) ==
    /\ e \in accepted
    /\ accepted' = accepted \ {e}
    /\ open' = open \cup {e}
    /\ UNCHANGED visible

\* The memtable becomes a block.
Commit(id) ==
    /\ open # {} /\ visible[id] = {}
    /\ visible' = [visible EXCEPT ![id] = open]
    /\ open' = {}
    /\ UNCHANGED accepted

\* The memtable takes the place of a block, whose rows are gone ...
Replace(id) ==
    /\ open # {} /\ visible[id] # {}
    /\ visible' = [visible EXCEPT ![id] = open]
    /\ UNCHANGED <<accepted, open>>

\* ... and ends when this is committed, or when sealing fails.
Discard ==
    /\ open' = {}
    /\ UNCHANGED <<accepted, visible>>

\* The process ends.
Lose ==
    /\ accepted' = {} /\ open' = {}
    /\ UNCHANGED visible

ShardNext ==
    \/ \E e \in Event : Accept(e) \/ Insert(e)
    \/ \E id \in Block : Commit(id) \/ Replace(id)
    \/ Discard \/ Lose

ShardSpec == ShardInit /\ [][ShardNext]_shardVars
=============================================================================
