------------------------------ MODULE ReadPath ------------------------------
(***************************************************************************)
(* A query from its block readers to the client: ReadBlock                 *)
(* (internal/query/block_reader.go), one goroutine per block, over the     *)
(* files of BlockFile while Seal replaces, the reaper deletes and Migrate  *)
(* moves them, and then the merge and the stream of QueryStream.  The      *)
(* blocks to read are given; how they are found is Query's.                *)
(***************************************************************************)
EXTENDS BlockFile, QueryStream

CONSTANTS
    QueryKey,       \* the key hash asked for
    From, To,       \* the time range [From, To)
    MaxParallel     \* concurrent block reads

VARIABLE reader     \* per block of the query: its goroutine

readVars == <<reader, streamVars>>

vars == <<fileVars, readVars>>

\* A reader: where it is, the file it has open, the set of positions of the rows
\* that match, and the events it returns.
Reader(pc, fd, match, events) == [pc |-> pc, fd |-> fd, match |-> match, events |-> events]

NoReaders == [id \in {} |-> Reader("open", <<>>, {}, <<>>)]

Init == FileInit /\ StreamInit /\ reader = NoReaders
-----------------------------------------------------------------------------
Matches(keyHash, timestamp) == keyHash = QueryKey /\ From <= timestamp /\ timestamp < To

\* The blocks that have been put so far become the tasks.
QueryStart ==
    /\ stage = "request"
    /\ stage' = "read"
    /\ reader' = [id \in {x \in Blocks : versions[x] # {}} |-> Reader("open", <<>>, {}, <<>>)]
    /\ UNCHANGED <<fileVars, slices, pos, result, start, sent>>

Unfinished(id) == reader[id].pc \notin {"done", "failed"}

\* The loop over the tasks waits for the semaphore before it starts the next reader.
Started(id) ==
    Cardinality({x \in DOMAIN reader : x < id /\ Unfinished(x)}) < MaxParallel

ReadOpen(id) ==
    /\ reader[id].pc = "open" /\ Started(id)
    /\ reader' = [reader EXCEPT ![id] =
                    IF hot[id] = NoFile THEN Reader("failed", <<>>, {}, <<>>)
                    ELSE Reader("filter", hot[id].sections, {}, <<>>)]
    /\ UNCHANGED <<fileVars, streamVars>>

\* Footer, header and the first two columns.
FilterColumns(file) ==
    IF FileSize(file) < HeaderSize + FooterSize \/ DecodeHeader(file) = {} THEN {}
    ELSE UNION {ReadFilterColumns(file, footer) : footer \in DecodeFooter(file)}

MatchIdx(c) == {i \in DOMAIN c.keyHashes : Matches(c.keyHashes[i], c.timestamps[i])}

ReadFilter(id) ==
    /\ reader[id].pc = "filter"
    /\ LET columns == FilterColumns(reader[id].fd)
       IN  \/ columns = {} /\ reader' = [reader EXCEPT ![id].pc = "failed"]
           \/ \E c \in columns :
                reader' = [reader EXCEPT ![id] =
                            IF MatchIdx(c) = {} THEN Reader("done", <<>>, {}, <<>>)
                            ELSE Reader("payload", @.fd, MatchIdx(c), <<>>)]
    /\ UNCHANGED <<fileVars, streamVars>>

\* The one sequence that goes through the positions from the first to the last.
InOrder(positions) ==
    {idx \in Bijection(1..Cardinality(positions), positions) :
        \A m, n \in DOMAIN idx : m < n => idx[m] < idx[n]}

EventsAt(idx, c, payloads) ==
    [n \in DOMAIN idx |-> [keyHash |-> c.keyHashes[idx[n]],
                           timestamp |-> c.timestamps[idx[n]],
                           payload |-> payloads[idx[n]]]]

\* The third column of file, for the rows found in the first two of fd; a
\* position without payload is skipped.
ReadPayloadFrom(id, file) ==
    /\ reader[id].pc = "payload"
    /\ LET payloads == UNION {ReadPayloads(file, footer) : footer \in DecodeFooter(file)}
       IN  \/ payloads = {} /\ reader' = [reader EXCEPT ![id].pc = "failed"]
           \/ \E c \in FilterColumns(reader[id].fd), p \in payloads :
                \E idx \in InOrder({i \in reader[id].match : i <= Len(p)}) :
                  reader' = [reader EXCEPT ![id] = Reader("done", <<>>, {}, EventsAt(idx, c, p))]
    /\ UNCHANGED <<fileVars, streamVars>>

\* Mutant: the path is opened again for the payloads.
ReadPayload_Reopens(id) == ReadPayloadFrom(id, hot[id].sections)

ReadPayload(id) == ReadPayloadFrom(id, reader[id].fd)

ReadBlock(id) == ReadOpen(id) \/ ReadFilter(id) \/ ReadPayload(id)

\* Query waits for every reader.
ReadersDone == \A id \in DOMAIN reader : ~Unfinished(id)

Failed == \E id \in DOMAIN reader : reader[id].pc = "failed"

Results == [id \in DOMAIN reader |-> reader[id].events]

QueryCollects ==
    /\ ReadersDone
    /\ IF Failed THEN QueryFails ELSE QueryMerges(Results)
    /\ reader' = NoReaders
    /\ UNCHANGED fileVars
-----------------------------------------------------------------------------
\* Once the readers are done, what happens to the files cannot reach this query;
\* what happens to them without a query happens before it.
FilesMatter == stage = "request" \/ (stage = "read" /\ ~ReadersDone)

\* The process ends, and the stream with it.
Crash ==
    /\ FilesMatter /\ FileCrash
    /\ stage' = IF stage = "read" THEN "broken" ELSE stage
    /\ reader' = NoReaders
    /\ UNCHANGED <<slices, pos, result, start, sent>>

Next ==
    \/ FilesMatter /\ FileNext /\ UNCHANGED readVars
    \/ Stream /\ UNCHANGED <<fileVars, reader>>
    \/ QueryStart \/ QueryCollects \/ Crash
    \/ \E id \in DOMAIN reader : ReadBlock(id)

Spec == Init /\ [][Next]_vars
-----------------------------------------------------------------------------
(* "Returns all events matching keyHash within [from, to)": a reader that    *)
(* ends without an error has exactly the matching rows of one version of its *)
(* block, each with its own payload and in the order of timestamps, although *)
(* it reads the file in several steps while Seal, the reaper and Migrate     *)
(* replace or remove it.                                                     *)
ReadsOneVersion ==
    \A id \in DOMAIN reader : reader[id].pc = "done" =>
        LET events == reader[id].events
        IN  /\ \E version \in versions[id] :
                  SameRows(events, DOMAIN events, version,
                           {i \in DOMAIN version : Matches(version[i].keyHash, version[i].timestamp)})
            /\ \A m, n \in DOMAIN events : m < n => events[m].timestamp <= events[n].timestamp

(* A reader fails only because there is no file when it opens it: a file that *)
(* bears its final name passes every check of ReadBlock, also after a crash   *)
(* of the machine, because Seal syncs it before the rename.                   *)
OpenedFileDecodes ==
    \A id \in DOMAIN reader : reader[id].pc = "failed" => reader[id].fd = <<>>
=============================================================================
