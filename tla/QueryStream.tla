---------------------------- MODULE QueryStream ----------------------------
(***************************************************************************)
(* The end of a query.  MergeEvents merges the sorted results of the block *)
(* readers (internal/query/merger.go), and QueryServer.Query streams the   *)
(* merged events in batches (internal/grpc/query_server.go).  All rows of  *)
(* one query have the same key hash, so rows are compared by timestamp; a  *)
(* row is named by the slice it comes from and its position there.  What   *)
(* the engine does between the request and the merge is ReadPath's.        *)
(***************************************************************************)
EXTENDS Integers, Sequences, FiniteSets

CONSTANT BatchSize     \* queryBatchSize

ASSUME BatchAssumption == BatchSize \in Nat \ {0}

VARIABLES
    slices,     \* the readers' results, by block: events, sorted and not empty
    pos,        \* per slice: the rows already popped
    result,     \* the merged rows
    stage,      \* where the handler is
    start,      \* the loop variable of the batch loop
    sent        \* the responses the stream accepted

streamVars == <<slices, pos, result, stage, start, sent>>

StreamInit ==
    /\ slices = <<>> /\ pos = <<>> /\ result = <<>>
    /\ stage = "request"
    /\ start = 0
    /\ sent = <<>>
-----------------------------------------------------------------------------
Response(events, isLast, total, error) ==
    [events |-> events, isLast |-> isLast, total |-> total, error |-> error]

\* stream.Send delivers the response and the handler goes on to stage then,
\* or it fails and the handler returns the error.
Send(response, then) ==
    \/ sent' = Append(sent, response) /\ stage' = then
    \/ sent' = sent /\ stage' = "broken"

terminalError == Response(<<>>, TRUE, 0, TRUE)

\* The request is invalid.
QueryInvalid ==
    /\ stage = "request"
    /\ Send(terminalError, "returned")
    /\ UNCHANGED <<slices, pos, result, start>>

\* The engine returns an error.
QueryFails ==
    /\ stage = "read"
    /\ Send(terminalError, "returned")
    /\ UNCHANGED <<slices, pos, result, start>>

\* The engine merges the results that are not empty.
NotEmpty(results) == {i \in DOMAIN results : results[i] # <<>>}

QueryMerges(results) ==
    /\ stage = "read"
    /\ slices' = [i \in NotEmpty(results) |-> results[i]]
    /\ pos' = [i \in NotEmpty(results) |-> 0]
    /\ stage' = "merge"
    /\ UNCHANGED <<result, start, sent>>
-----------------------------------------------------------------------------
\* Mutant: the test for a next row stops one row early.
Heap_LastRowLeft == {i \in DOMAIN slices : pos[i] = 0 \/ pos[i] + 1 < Len(slices[i])}

\* The slices whose next row is in the heap.
Heap == {i \in DOMAIN slices : pos[i] < Len(slices[i])}

Top(i) == slices[i][pos[i] + 1].timestamp

\* heap.Pop takes a least row, any one of equal rows.
MergePop ==
    /\ stage = "merge"
    /\ \E i \in Heap :
        /\ \A j \in Heap : Top(i) <= Top(j)
        /\ result' = Append(result, <<i, pos[i] + 1>>)
        /\ pos' = [pos EXCEPT ![i] = @ + 1]
    /\ UNCHANGED <<slices, stage, start, sent>>

MergeEnd ==
    /\ stage = "merge" /\ Heap = {}
    /\ stage' = "send"
    /\ UNCHANGED <<slices, pos, result, start, sent>>
-----------------------------------------------------------------------------
\* Mutant: a batch that ends exactly at the end is not seen as the last.
SendBatch_LastMissed ==
    /\ stage = "send" /\ start < Len(result)
    /\ LET end == IF start + BatchSize > Len(result) THEN Len(result) ELSE start + BatchSize
           isLast == start + BatchSize > Len(result)
       IN  Send(Response(SubSeq(result, start + 1, end), isLast,
                         IF isLast THEN Len(result) ELSE 0, FALSE), "send")
    /\ start' = start + BatchSize
    /\ UNCHANGED <<slices, pos, result>>

SendBatch ==
    /\ stage = "send" /\ start < Len(result)
    /\ LET end == IF start + BatchSize > Len(result) THEN Len(result) ELSE start + BatchSize
           isLast == end = Len(result)
       IN  Send(Response(SubSeq(result, start + 1, end), isLast,
                         IF isLast THEN Len(result) ELSE 0, FALSE), "send")
    /\ start' = start + BatchSize
    /\ UNCHANGED <<slices, pos, result>>

\* After the loop: an empty result has its own terminal response.
SendEnd ==
    /\ stage = "send" /\ start >= Len(result)
    /\ IF result = <<>>
       THEN Send(Response(<<>>, TRUE, 0, FALSE), "returned")
       ELSE stage' = "returned" /\ UNCHANGED sent
    /\ UNCHANGED <<slices, pos, result, start>>

Stream == QueryInvalid \/ MergePop \/ MergeEnd \/ SendBatch \/ SendEnd
-----------------------------------------------------------------------------
Rows == UNION {{i} \X DOMAIN slices[i] : i \in DOMAIN slices}

TimestampOf(row) == slices[row[1]][row[2]].timestamp

(* "Output is sorted by (KeyHash, Timestamp). No deduplication is performed." *)
(* What MergeEvents returns has every row of every slice exactly once, in     *)
(* the order of timestamps, and the rows of one block in the block's order,   *)
(* whichever of several equal rows the heap gives first.                      *)
MergedInOrder ==
    stage = "send" =>
        /\ Len(result) = Cardinality(Rows)
        /\ {result[n] : n \in DOMAIN result} = Rows
        /\ \A m, n \in DOMAIN result : m < n =>
            /\ TimestampOf(result[m]) <= TimestampOf(result[n])
            /\ result[m][1] = result[n][1] => result[m][2] < result[n][2]

\* The position in the result of the first event of response n.
Offset(n) == BatchSize * (n - 1)

(* "The final message always has is_last=true and carries the total count":   *)
(* no response follows a terminal one, a handler that returns without a       *)
(* broken stream has sent one, and then the responses carry the merged        *)
(* events, each once and in order, and their number, unless it is an error.   *)
OneTerminal ==
    /\ \A n \in DOMAIN sent : sent[n].isLast => n = Len(sent)
    /\ stage = "returned" =>
        /\ sent # <<>> /\ sent[Len(sent)].isLast
        /\ sent[Len(sent)].total = Len(result)
        /\ \A n \in DOMAIN sent : \A k \in DOMAIN sent[n].events :
               sent[n].events[k] = result[Offset(n) + k]
        /\ Offset(Len(sent)) + Len(sent[Len(sent)].events) = Len(result)
=============================================================================
