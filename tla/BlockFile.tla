----------------------------- MODULE BlockFile -----------------------------
(***************************************************************************)
(* The .block files of one shard, byte layout included: Seal writes one    *)
(* under a temporary name and renames it (internal/block/sealer.go),       *)
(* LocalStore deletes it or migrates it to another tier                    *)
(* (internal/tier/local.go).  A crash of the machine keeps of a file that  *)
(* was not synced any part from its start; a rename survives it.  The      *)
(* .bloom files are Storage's.                                             *)
(***************************************************************************)
EXTENDS BlockFormat, FiniteSets, FiniteSetsExt

CONSTANTS
    Blocks,         \* BlockIDs of the shard: hours
    Batches,        \* what a memtable may hold: rows in the order of arrival
    MaxCalls        \* bound: calls of Seal, Delete and Migrate, and crashes

ASSUME BlocksAssumption == Blocks \in SUBSET Nat /\ Blocks # {}

\* The length of a payload fits in the 32 bits it is written in.
ASSUME BatchesAssumption ==
    \A rows \in Batches :
        /\ rows \in Seq(Event)
        /\ \A i \in DOMAIN rows : ((Len(rows[i].payload) \div 256) \div 256) \div 256 < 256

\* A zstd frame is never empty.
ASSUME ZstdAssumption ==
    \A rows \in Batches : \A mt \in Sort(Memtable(rows)) :
        \A n \in 1..3 : Columns(mt)[n].len \in Nat \ {0}

VARIABLES
    hot, warm,  \* per block: its file in the tier
    spc, sid,   \* where Seal is, and its BlockID
    srows, tmp, \* its memtable, in the order of arrival, and its temporary file
    mpc, mid, mtmp,     \* Migrate: where it is, its block and temporary file
    calls,
    versions,   \* history: per block, the memtables that Put gave a file
    last,       \* history: per block, the one of them put last
    reaped,     \* history: blocks deleted by the reaper since the last Put
    crossed     \* history: blocks that Seal put again while Migrate moved them

sealVars == <<spc, sid, srows, tmp>>
migrateVars == <<mpc, mid, mtmp>>
historyVars == <<versions, last, reaped, crossed>>
tierVars == <<hot, warm, historyVars>>
fileVars == <<sealVars, migrateVars, tierVars, calls>>

\* A file: its sections, and whether they were synced.
File(sections, synced) == [sections |-> sections, synced |-> synced]

NoFile == File(<<>>, TRUE)

NoRows == <<>>

FileInit ==
    /\ hot = [id \in Blocks |-> NoFile] /\ warm = hot
    /\ spc = "idle" /\ sid = Min(Blocks)
    /\ srows = NoRows /\ tmp = NoFile
    /\ mpc = "idle" /\ mid = Min(Blocks) /\ mtmp = NoFile
    /\ calls = 0
    /\ versions = [id \in Blocks |-> {}] /\ last = [id \in Blocks |-> NoRows]
    /\ reaped = {} /\ crossed = {}

Called == calls < MaxCalls /\ calls' = calls + 1
-----------------------------------------------------------------------------
(* Seal *)

\* Mutant: Seal goes on without waiting for the disk.
Synced_Skipped(sections) == File(sections, FALSE)

\* f.Sync
Synced(sections) == File(sections, TRUE)

\* The temporary file, which nobody else opens, is written to its end and synced;
\* os.Create truncates what a crash may have left under its name.  The clock
\* does not go back, so neither do BlockIDs.
SealWrite(id, rows) ==
    /\ spc = "idle" /\ id >= sid
    /\ Called
    /\ sid' = id /\ srows' = rows
    /\ \E mt \in Sort(Memtable(rows)) :
        tmp' = Synced(BlockImage(mt))
    /\ spc' = "synced"
    /\ UNCHANGED <<migrateVars, tierVars>>

SealEnd ==
    /\ spc' = "idle" /\ tmp' = NoFile
    /\ srows' = NoRows
    /\ UNCHANGED sid

Migrating(id) == mpc # "idle" /\ mid = id

SealPut ==
    /\ spc = "synced"
    /\ hot' = [hot EXCEPT ![sid] = tmp]
    /\ versions' = [versions EXCEPT ![sid] = @ \cup {srows}]
    /\ last' = [last EXCEPT ![sid] = srows]
    /\ reaped' = reaped \ {sid}
    /\ crossed' = IF Migrating(sid) THEN crossed \cup {sid} ELSE crossed \ {sid}
    /\ SealEnd
    /\ UNCHANGED <<migrateVars, warm, calls>>

\* Every error path up to Put removes the temporary file.
SealFails ==
    /\ spc # "idle"
    /\ SealEnd
    /\ UNCHANGED <<migrateVars, tierVars, calls>>

Seal ==
    \/ \E id \in Blocks, rows \in Batches : SealWrite(id, rows)
    \/ SealPut \/ SealFails
-----------------------------------------------------------------------------
(* Delete, called by the reaper for the tier of the metadata, which is hot. *)

Delete(id) ==
    /\ versions[id] # {} /\ id \notin reaped
    /\ Called
    /\ hot' = [hot EXCEPT ![id] = NoFile]
    /\ reaped' = reaped \cup {id}
    /\ UNCHANGED <<sealVars, migrateVars, warm, versions, last, crossed>>
-----------------------------------------------------------------------------
(* Migrate from hot to warm.  copyFile reads the file it opened, and syncs  *)
(* the copy.                                                                *)

MigrateCopy(id) ==
    /\ mpc = "idle" /\ hot[id] # NoFile
    /\ Called
    /\ mid' = id /\ mtmp' = Synced(hot[id].sections)
    /\ mpc' = "copied"
    /\ UNCHANGED <<sealVars, tierVars>>

MigratePut ==
    /\ mpc = "copied"
    /\ warm' = [warm EXCEPT ![mid] = mtmp]
    /\ mtmp' = NoFile
    /\ mpc' = "put"
    /\ UNCHANGED <<sealVars, mid, hot, historyVars, calls>>

MigrateEnd == mpc' = "idle" /\ mtmp' = NoFile /\ mid' = Min(Blocks)

\* Migrate ends before it deletes: the source is what Seal made of it.
SourceKept ==
    /\ crossed' = {id \in crossed : ~Migrating(id)}
    /\ UNCHANGED <<versions, last, reaped>>

\* Put fails: the copy is removed and the source kept.
MigratePutFails ==
    /\ mpc = "copied"
    /\ MigrateEnd /\ SourceKept
    /\ UNCHANGED <<sealVars, hot, warm, calls>>

\* Mutant: the source is deleted before the copy is in place.
MigrateDelete_First ==
    /\ mpc \in {"copied", "put"}
    /\ hot' = [hot EXCEPT ![mid] = NoFile]
    /\ IF mpc = "put" THEN MigrateEnd ELSE UNCHANGED migrateVars
    /\ UNCHANGED <<sealVars, warm, historyVars, calls>>

MigrateDelete ==
    /\ mpc = "put"
    /\ hot' = [hot EXCEPT ![mid] = NoFile]
    /\ MigrateEnd
    /\ UNCHANGED <<sealVars, warm, historyVars, calls>>

MigrateDeleteFails ==
    /\ mpc = "put"
    /\ MigrateEnd /\ SourceKept
    /\ UNCHANGED <<sealVars, hot, warm, calls>>

Migrate ==
    \/ \E id \in Blocks : MigrateCopy(id)
    \/ MigratePut \/ MigratePutFails \/ MigrateDelete \/ MigrateDeleteFails
-----------------------------------------------------------------------------
\* What the crash may leave of a file.
Remains(file) ==
    IF file.synced THEN {file}
    ELSE {File(SubSeq(file.sections, 1, n), TRUE) : n \in DOMAIN file.sections}

\* Temporary files that stay behind are never opened again.
FileCrash ==
    /\ Called
    /\ hot' \in {f \in [Blocks -> UNION {Remains(hot[id]) : id \in Blocks}] :
                    \A id \in Blocks : f[id] \in Remains(hot[id])}
    /\ SealEnd /\ MigrateEnd /\ SourceKept
    /\ UNCHANGED warm

FileNext ==
    \/ Seal \/ Migrate
    \/ \E id \in Blocks : Delete(id)
-----------------------------------------------------------------------------
\* The rows of the file, if the reader's checks accept it.
RowsOf(file) ==
    UNION {{[i \in DOMAIN c.keyHashes |->
               [keyHash |-> c.keyHashes[i], timestamp |-> c.timestamps[i], payload |-> p[i]]] :
                 c \in ReadFilterColumns(file, f), p \in ReadPayloads(file, f)} :
              f \in DecodeFooter(file)}

\* s at the positions in S has the rows that t has at those in T, each as often.
SameRows(s, S, t, T) ==
    \A row \in {s[i] : i \in S} \cup {t[i] : i \in T} :
        Cardinality({i \in S : s[i] = row}) = Cardinality({i \in T : t[i] = row})

\* One of the versions is whole in one of the tiers.
InATier(id, vs) ==
    \E file \in {hot[id], warm[id]} : \E rows \in RowsOf(file.sections) :
        \E version \in vs : SameRows(rows, DOMAIN rows, version, DOMAIN version)

Live(id) == versions[id] # {} /\ id \notin reaped

(* Migrate copies the block to the other tier, "then deletes from src": of a *)
(* block that has been sealed and that the reaper has not deleted, the       *)
(* memtable sealed last is at every moment whole in one tier, whatever fails *)
(* and wherever the process or the machine stops, also after a Seal that     *)
(* uses the BlockID again.  Only if that Seal puts its file between the copy *)
(* and the delete of one Migrate is it no more than some version of it:      *)
(* Migrate then deletes a file that it has not copied.                       *)
BlockKept ==
    \A id \in Blocks : Live(id) =>
        InATier(id, IF id \in crossed THEN versions[id] ELSE {last[id]})

(* The same without the exception, which does not hold: nothing keeps Seal   *)
(* from putting the block while Migrate moves it.                            *)
LastKept == \A id \in Blocks : Live(id) => InATier(id, {last[id]})
=============================================================================
