------------------------------ MODULE TTLQuery -----------------------------
(***************************************************************************)
(* Queries beside the reaper and the janitor: files and metadata disappear *)
(* between the steps of a query.                                           *)
(***************************************************************************)
EXTENDS TTL, Query

\* A sealed block has rows.
ASSUME RowAssumption == Events # {}

ttlQueryVars == <<storageVars, ttlVars, queryVars>>

TTLQueryInit ==
    /\ TTLInit
    /\ QueryInit
    /\ timestamp \in [Events -> Hours]

TTLQueryNext ==
    \/ QueryStep /\ UNCHANGED ttlVars
    \/ (Reaper \/ Janitor \/ (Tick /\ UNCHANGED ttlVars)) /\ UNCHANGED queryVars
    \/ TTLCrash /\ QueryResets

TTLQuerySpec == TTLQueryInit /\ [][TTLQueryNext]_ttlQueryVars
-----------------------------------------------------------------------------
(* A query that returns without an error has found every matching row of the *)
(* blocks that have not expired, whatever the reaper deletes meanwhile and   *)
(* although deleted blocks stay in the index and in the bloom cache.         *)
UnexpiredFound ==
    QueryReturns /\ ~failed =>
        \A x \in due : InRange(x[1]) /\ ~Expired(x[1]) => x \in rows

(* A query fails to open a file only if a block of its range has expired:    *)
(* the reaper deletes it between the reading of its metadata and the opening *)
(* of its file, and no other step takes a file from under a reader.          *)
OpenFailsOnlyIfExpired == failed => \E id \in BlockIDs : InRange(id) /\ Expired(id)
=============================================================================
