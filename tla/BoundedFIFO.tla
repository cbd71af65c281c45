---------------------------- MODULE BoundedFIFO ----------------------------
(***************************************************************************)
(* What a shard's ring buffer promises to the code around it: a FIFO queue *)
(* that holds at most Size events.  The queue is described by its history: *)
(* the events that went in, in order, and the events that came out.        *)
(***************************************************************************)
EXTENDS Naturals, Sequences

CONSTANTS Event, Size

VARIABLES enqueued, dequeued

fifoVars == <<enqueued, dequeued>>

FifoInit ==
    /\ enqueued = <<>>
    /\ dequeued = <<>>

Enqueue(e) ==
    /\ Len(enqueued) - Len(dequeued) < Size
    /\ enqueued' = Append(enqueued, e)
    /\ UNCHANGED dequeued

Dequeue ==
    /\ Len(dequeued) < Len(enqueued)
    /\ dequeued' = Append(dequeued, enqueued[Len(dequeued) + 1])
    /\ UNCHANGED enqueued

FifoNext == Dequeue \/ \E e \in Event : Enqueue(e)

FifoSpec == FifoInit /\ [][FifoNext]_fifoVars
=============================================================================
