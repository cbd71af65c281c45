------------------------------ MODULE RingBuf ------------------------------
(***************************************************************************)
(* The ring buffer between the gRPC streams and a shard's writer goroutine *)
(* (internal/ingestion/ringbuf.go), one atomic load, atomic store or slot  *)
(* access per step.  The type is written for one producer; Producers is a  *)
(* parameter because several streams may hold the same ShardWriter.        *)
(***************************************************************************)
EXTENDS Integers, Sequences

CONSTANTS
    Producers,      \* goroutines that call Push
    RingBufSize,    \* WriterConfig.RingBufSize, rounded up by NewRingBuf
    CounterMod,     \* head and tail are counters modulo CounterMod (2^64)
    MaxPush         \* bound: calls of Push per producer

\* Smallest power of two that is at least n, and 1 for n <= 1.
nextPow2(n) ==
    IF n <= 1
    THEN 1
    ELSE 2 ^ (CHOOSE k \in 1..n : 2 ^ k >= n /\ 2 ^ (k - 1) < n)

Size == nextPow2(RingBufSize)

\* The counters wrap at a multiple of the size that is larger than the size.
ASSUME SizeAssumption ==
    /\ Size \in Nat \ {0}
    /\ CounterMod \in Nat
    /\ \E k \in 2..CounterMod : CounterMod = k * Size

ASSUME PushAssumption == MaxPush \in Nat

\* The n-th event that producer p pushes.
Event == Producers \X (1..MaxPush)

VARIABLES
    buf,        \* the slots
    head,       \* next write position
    tail,       \* next read position
    ppc,        \* where each producer is in Push
    phead,      \* each producer's local copy of head
    pushes,     \* calls of Push made by each producer
    cpc,        \* where the consumer is in Pop
    chead,      \* the consumer's local copy of head
    ctail,      \* the consumer's local copy of tail
    cevent,     \* the event the consumer has read from its slot
    accepted,   \* history: events whose Push returned nil, in order
    popped      \* history: events Pop returned, in order

producerVars == <<ppc, phead, pushes>>
consumerVars == <<cpc, chead, ctail, cevent>>
vars == <<buf, head, tail, producerVars, consumerVars, accepted, popped>>

Slot(i) == i % Size

NoEvent == <<>>

\* uint64 subtraction of two counters, as in Push and RingBuf.Len
Distance(h, t) == (h - t) % CounterMod

Init ==
    /\ buf = [i \in 0..Size - 1 |-> NoEvent]
    /\ head = 0 /\ tail = 0
    /\ ppc = [p \in Producers |-> "idle"]
    /\ phead = [p \in Producers |-> 0]
    /\ pushes = [p \in Producers |-> 0]
    /\ cpc = "idle" /\ chead = 0 /\ ctail = 0 /\ cevent = NoEvent
    /\ accepted = <<>> /\ popped = <<>>
-----------------------------------------------------------------------------
(* Push *)

PushLoadHead(p) ==
    /\ \/ ppc[p] = "idle" /\ pushes[p] < MaxPush
          /\ pushes' = [pushes EXCEPT ![p] = @ + 1]
       \/ ppc[p] = "retry" /\ UNCHANGED pushes
    /\ phead' = [phead EXCEPT ![p] = head]
    /\ ppc' = [ppc EXCEPT ![p] = "tail"]
    /\ UNCHANGED <<buf, head, tail, consumerVars, accepted, popped>>

\* Mutant: the full test lets one event too many in.
PushLoadTail_OffByOne(p) ==
    /\ ppc[p] = "tail"
    /\ ppc' = [ppc EXCEPT ![p] =
                  IF Distance(phead[p], tail) <= Size THEN "slot" ELSE "full"]
    /\ UNCHANGED <<buf, head, tail, phead, pushes, consumerVars, accepted, popped>>

PushLoadTail(p) ==
    /\ ppc[p] = "tail"
    /\ ppc' = [ppc EXCEPT ![p] =
                  IF Distance(phead[p], tail) < Size THEN "slot" ELSE "full"]
    /\ UNCHANGED <<buf, head, tail, phead, pushes, consumerVars, accepted, popped>>

\* The buffer was full: give up if the context is done, else try again.
PushFull(p) ==
    /\ ppc[p] = "full"
    /\ \E next \in {"idle", "retry"} : ppc' = [ppc EXCEPT ![p] = next]
    /\ UNCHANGED <<buf, head, tail, phead, pushes, consumerVars, accepted, popped>>

PushWriteSlot(p) ==
    /\ ppc[p] = "slot"
    /\ buf' = [buf EXCEPT ![Slot(phead[p])] = <<p, pushes[p]>>]
    /\ ppc' = [ppc EXCEPT ![p] = "store"]
    /\ UNCHANGED <<head, tail, phead, pushes, consumerVars, accepted, popped>>

PushStoreHead(p) ==
    /\ ppc[p] = "store"
    /\ head' = (phead[p] + 1) % CounterMod
    /\ accepted' = Append(accepted, <<p, pushes[p]>>)
    /\ ppc' = [ppc EXCEPT ![p] = "idle"]
    /\ UNCHANGED <<buf, tail, phead, pushes, consumerVars, popped>>

Push(p) ==
    \/ PushLoadHead(p) \/ PushLoadTail(p) \/ PushFull(p)
    \/ PushWriteSlot(p) \/ PushStoreHead(p)
-----------------------------------------------------------------------------
(* Pop; DrainAll is Pop again and again until the buffer is empty. *)

PopLoadHead ==
    /\ cpc = "idle"
    /\ chead' = head
    /\ cpc' = "tail"
    /\ UNCHANGED <<buf, head, tail, producerVars, ctail, cevent, accepted, popped>>

\* Mutant: Pop does not test for an empty buffer.
PopLoadTail_NoEmptyTest ==
    /\ cpc = "tail"
    /\ ctail' = tail
    /\ cpc' = "read"
    /\ UNCHANGED <<buf, head, tail, producerVars, chead, cevent, accepted, popped>>

\* Mutant: positions are compared after masking, so full looks empty.
PopLoadTail_MaskedEmpty ==
    /\ cpc = "tail"
    /\ ctail' = tail
    /\ cpc' = IF Slot(tail) = Slot(chead) THEN "idle" ELSE "read"
    /\ UNCHANGED <<buf, head, tail, producerVars, chead, cevent, accepted, popped>>

PopLoadTail ==
    /\ cpc = "tail"
    /\ ctail' = tail
    /\ cpc' = IF tail = chead THEN "idle" ELSE "read"
    /\ UNCHANGED <<buf, head, tail, producerVars, chead, cevent, accepted, popped>>

PopReadSlot ==
    /\ cpc = "read"
    /\ cevent' = buf[Slot(ctail)]
    /\ cpc' = "store"
    /\ UNCHANGED <<buf, head, tail, producerVars, chead, ctail, accepted, popped>>

PopStoreTail ==
    /\ cpc = "store"
    /\ tail' = (ctail + 1) % CounterMod
    /\ popped' = Append(popped, cevent)
    /\ cpc' = "idle"
    /\ UNCHANGED <<buf, head, producerVars, chead, ctail, cevent, accepted>>

Pop == PopLoadHead \/ PopLoadTail \/ PopReadSlot \/ PopStoreTail
-----------------------------------------------------------------------------
Next == Pop \/ \E p \in Producers : Push(p)

Spec == Init /\ [][Next]_vars

(* The writer goroutine's ticker keeps draining, and a goroutine inside    *)
(* Push keeps running.  Nothing makes a client call Push again.            *)
Fairness ==
    /\ WF_vars(Pop)
    /\ \A p \in Producers : WF_vars(ppc[p] # "idle" /\ Push(p))

FairSpec == Spec /\ Fairness
-----------------------------------------------------------------------------
(* The slots, the wrapping counters and the copies of them that Push and  *)
(* Pop hold stay within their types.                                       *)
TypeOK ==
    /\ buf \in [0..Size - 1 -> Event \cup {NoEvent}]
    /\ head \in 0..CounterMod - 1
    /\ tail \in 0..CounterMod - 1
    /\ ppc \in [Producers -> {"idle", "retry", "tail", "full", "slot", "store"}]
    /\ phead \in [Producers -> 0..CounterMod - 1]
    /\ pushes \in [Producers -> 0..MaxPush]
    /\ cpc \in {"idle", "tail", "read", "store"}
    /\ chead \in 0..CounterMod - 1
    /\ ctail \in 0..CounterMod - 1
    /\ cevent \in Event \cup {NoEvent}
    /\ accepted \in Seq(Event)
    /\ popped \in Seq(Event)

(* Pop hands out the accepted events in the order Push accepted them, each *)
(* once: what has come out is a prefix of what went in (DrainAll: "all     *)
(* available events in FIFO order").                                       *)
PopsInOrder ==
    /\ Len(popped) <= Len(accepted)
    /\ \A i \in 1..Len(popped) : popped[i] = accepted[i]

(* An event that Push accepted and Pop has not returned is still in its    *)
(* slot, and there are never more of them than slots: no Push overwrites   *)
(* an event the consumer has not taken.                                    *)
PendingIntact ==
    /\ Len(accepted) - Len(popped) <= Size
    /\ \A i \in Len(popped)..Len(accepted) - 1 : buf[Slot(i)] = accepted[i + 1]

(* The plain accesses to a slot never race: while a producer writes a slot *)
(* neither the consumer reads it nor another producer writes it, although  *)
(* only head and tail are atomic.                                          *)
NoSlotRace ==
    \A p \in Producers : ppc[p] = "slot" =>
        /\ ~(cpc = "read" /\ Slot(ctail) = Slot(phead[p]))
        /\ \A q \in Producers \ {p} :
              ~(ppc[q] = "slot" /\ Slot(phead[q]) = Slot(phead[p]))

(* An accepted event is eventually popped by the draining writer. *)
AcceptedIsPopped ==
    \A n \in 1..MaxPush : Len(accepted) >= n ~> Len(popped) >= n

(* A Push that found the buffer full returns in the end: the spinning      *)
(* producer does not keep the consumer from making room.                   *)
PushReturns ==
    \A p \in Producers : ppc[p] = "full" ~> ppc[p] = "idle"

(* The ring buffer implements a bounded FIFO queue: Push takes effect when *)
(* it stores head, Pop when it stores tail.                                *)
Fifo == INSTANCE BoundedFIFO WITH enqueued <- accepted, dequeued <- popped

ImplementsFIFO == Fifo!FifoSpec
=============================================================================
