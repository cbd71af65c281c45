-------------------------- MODULE Ingestion_proofs --------------------------
(***************************************************************************)
(* Proofs about the ingestion service for any number of streams, shards,   *)
(* batches and hours and any capacity of the rings: one writer per shard,  *)
(* and, of shards whose streams do not push at the same time, no           *)
(* acknowledged event forgotten, and all that was acknowledged before Stop *)
(* through Seal when Stop returns.                                         *)
(***************************************************************************)
EXTENDS Ingestion, TLAPS

\* A leaf that names no prover is one for Zenon.
USE ZenonT(120)

\* TypeOK by the parts that change together.
HandlerType ==
    /\ spc \in [Streams -> {"recv", "next", "create", "push", "store", "closed"}]
    /\ sent \in 0..MaxBatches /\ num \in [Streams -> 0..MaxBatches]
    /\ batch \in [Streams -> SUBSET Shards] /\ left \in [Streams -> SUBSET Shards]
    /\ cur \in [Streams -> Shards \cup {NoShard}]
    /\ hold \in [Streams -> Writer \cup {NoWriter}] /\ phead \in [Streams -> Nat]
    /\ \A s \in Streams : spc[s] \in {"push", "store"} => hold[s] \in Writer

MapType ==
    /\ writers \in [Shards -> Writer \cup {NoWriter}] /\ made \in [Shards -> 0..MaxWriters]
    /\ wstate \in [Writer -> {"none", "running", "stopping", "done"}]

RingType ==
    /\ buf \in [Writer -> [0..RingBufSize - 1 -> Event \cup {NoEvent}]]
    /\ head \in [Writer -> Nat] /\ tail \in [Writer -> Nat] /\ raced \subseteq Shards

SealType ==
    /\ mem \in [Writer -> SUBSET (Event \cup {NoEvent})]
    /\ openedAt \in [Writer -> Hours] /\ hour \in Hours
    /\ block \in [Shards -> [Hours -> SUBSET (Event \cup {NoEvent})]]
    /\ lost \subseteq Event \cup {NoEvent} /\ faults \in Nat

ServerType ==
    /\ acked \subseteq Event /\ ackedAtStop \subseteq acked
    /\ srv \in {"serving", "waiting", "graceful", "stopped", "failed", "closed"}
    /\ snap \subseteq Writer

\* Where an event is, once it was pushed.
Gone == Sealed \cup lost
Held == Gone \cup UNION {InRing(w) \cup mem[w] : w \in Writer}

Busy == {"next", "create", "push", "store"}

\* A handler inside a batch: the shards it is done with have the event.
Handling ==
    \A s \in Streams : spc[s] \in Busy =>
        /\ num[s] \in 1..MaxBatches
        /\ \A x \in batch[s] \ left[s] : x \notin raced => <<num[s], x>> \in Held

\* A handler inside a shard: the writer it holds is the one in the map.
Holding ==
    \A s \in Streams :
        /\ spc[s] \in {"create", "push", "store"} => cur[s] \in Shards
        /\ spc[s] \in {"push", "store"} => hold[s] \in Writer /\ hold[s] = writers[cur[s]]

\* The map has the writers that were created, each under its shard.
Mapped ==
    /\ \A x \in Shards : writers[x] # NoWriter => writers[x][1] = x /\ wstate[writers[x]] # "none"
    /\ \A w \in Writer : wstate[w] # "none" => writers[w[1]] = w

\* A Push between its loads and its store: without a race its head is still the
\* ring's, and there is still room.
Storing ==
    /\ \A s \in Streams : spc[s] = "store" /\ cur[s] \notin raced =>
          phead[s] = head[hold[s]] /\ head[hold[s]] - tail[hold[s]] < RingBufSize
    /\ \A r, s \in Streams :
          r # s /\ spc[r] = "store" /\ spc[s] = "store" /\ hold[r] = hold[s] => cur[s] \in raced

\* A ring has events of its shard only, and without a race never more than fit.
Rings ==
    \A w \in Writer :
        /\ w[1] \notin raced => tail[w] <= head[w] /\ head[w] - tail[w] <= RingBufSize
        /\ \A i \in 0..RingBufSize - 1 : buf[w][i] \in Event => buf[w][i][2] = w[1]

\* Only writers that were created have events.
Stored == \A w \in Writer : wstate[w] = "none" => head[w] = tail[w] /\ mem[w] = {}

\* What Stop has still to seal is with a writer it waits for.
Stopping ==
    /\ srv \in {"serving", "failed"} => \A w \in Writer : wstate[w] \in {"none", "running"}
    /\ Up => \A e \in ackedAtStop : OneProducer(e) =>
          e \in Gone \/ \E w \in snap : wstate[w] # "done" /\ e \in InRing(w) \cup mem[w]
    /\ srv \in {"serving", "failed"} => snap = {} /\ ackedAtStop = {}
    /\ srv \in {"graceful", "stopped"} => \A w \in snap : wstate[w] = "done"

IInv ==
    /\ TypeOK
    /\ Handling /\ Holding /\ Mapped /\ Storing /\ Rings /\ Stored /\ Stopping /\ AckedHeld
-----------------------------------------------------------------------------
(* The empty tuple, which stands for an absent writer, is no writer.         *)
LEMMA NoWriterIsNone == NoWriter \notin Writer
BY SMTT(30) DEF NoWriter, Writer

(* A position has a slot of the ring.                                        *)
LEMMA SlotOf == \A n \in Nat : n % RingBufSize \in 0..RingBufSize - 1
BY SMTT(30), RingAssumption

(* A number is so many laps and a remainder.                                 *)
LEMMA DivMod ==
    ASSUME NEW m \in Nat \ {0}, NEW n \in Int
    PROVE  \E q \in Int, r \in 0..m - 1 : n = m * q + r /\ n % m = r
<1>1. n % m \in 0..m - 1 /\ n \div m \in Int /\ n = m * (n \div m) + (n % m)
  BY SMT
<1> QED
  BY <1>1

(* Multiplication distributes over differences.                              *)
LEMMA Distribute ==
    ASSUME NEW x \in Int, NEW y \in Int, NEW z \in Int
    PROVE  x * (y - z) = x * y - x * z
BY SMT

(* Two positions less than a lap apart are in different slots.               *)
LEMMA SlotsApart ==
    ASSUME NEW m \in Nat \ {0}, NEW i \in Nat, NEW j \in Nat, i < j, j - i < m
    PROVE  i % m # j % m
<1> SUFFICES ASSUME i % m = j % m PROVE FALSE
  OBVIOUS
<1>0. i \in Int /\ j \in Int
  BY SMTT(30)
<1>1. PICK a \in Int, r \in 0..m - 1 : i = m * a + r /\ i % m = r
  BY <1>0, DivMod
<1>2. PICK b \in Int, t \in 0..m - 1 : j = m * b + t /\ j % m = t
  BY <1>0, DivMod
<1>3. j - i = m * (b - a)
  <2>1. r = t
    BY <1>1, <1>2
  <2> QED
    BY SMTT(30), <1>1, <1>2, <2>1, Distribute
<1>4. \/ b - a >= 1 /\ m * (b - a) >= m
      \/ b - a <= 0 /\ m * (b - a) <= 0
  BY ONLY m \in Nat \ {0}, a \in Int, b \in Int
<1> QED
  BY SMTT(30), <1>3, <1>4

(* TypeOK is the conjunction of its parts.                                   *)
LEMMA TypeParts == TypeOK <=> HandlerType /\ MapType /\ RingType /\ SealType /\ ServerType
BY DEF TypeOK, HandlerType, MapType, RingType, SealType, ServerType

(* The same after a step.                                                    *)
LEMMA TypePartsNext ==
    TypeOK' <=> HandlerType' /\ MapType' /\ RingType' /\ SealType' /\ ServerType'
BY DEF TypeOK, HandlerType, MapType, RingType, SealType, ServerType

(* AckedHeld in terms of Held.                                               *)
LEMMA AckedHeldIs ==
    /\ AckedHeld <=> (Up => \A e \in acked : OneProducer(e) => e \in Held)
    /\ AckedHeld' <=> (Up' => \A e \in acked' : OneProducer(e)' => e \in Held')
BY DEF AckedHeld, Held, Gone

(* The service with nothing in memory has the invariant: at the start, and   *)
(* when the process has ended.                                               *)
LEMMA InitInv == Init => IInv
<1> SUFFICES ASSUME Init PROVE IInv
  OBVIOUS
<1>1. TypeOK
  <2>1. HandlerType /\ MapType
    BY SMTT(30), BatchesAssumption, WritersAssumption DEF Init, HandlerType, MapType
  <2>2. RingType /\ SealType /\ ServerType
    BY SMTT(30), HoursAssumption DEF Init, RingType, SealType, ServerType, Hours
  <2> QED
    BY <2>1, <2>2, TypeParts
<1>2. Handling /\ Holding /\ Storing
  BY DEF Init, Handling, Holding, Storing, Busy
<1>3. Mapped
  BY NoWriterIsNone DEF Init, Mapped
<1>4. Rings /\ Stored
  BY SMTT(30), RingAssumption DEF Init, Rings, Stored, NoEvent, Event
<1>5. Stopping /\ AckedHeld
  BY DEF Init, Stopping, AckedHeld
<1> QED
  BY <1>1, <1>2, <1>3, <1>4, <1>5 DEF IInv

(* Shutdown leaves the process without memory.                               *)
LEMMA ShutdownInv == IInv /\ Shutdown => IInv'
<1> SUFFICES ASSUME IInv, Shutdown PROVE IInv'
  OBVIOUS
<1>1. TypeOK'
  <2>1. HandlerType' /\ MapType'
    BY SMTT(30), BatchesAssumption, WritersAssumption, TypeParts DEF IInv, Shutdown, HandlerType,
           MapType
  <2>2. RingType' /\ SealType' /\ ServerType'
    BY SMTT(30), HoursAssumption, TypeParts DEF IInv, Shutdown, RunEnds, RingType, SealType,
           ServerType, Hours
  <2> QED
    BY <2>1, <2>2, TypePartsNext
<1>2. Handling' /\ Holding' /\ Storing'
  BY DEF Shutdown, Handling, Holding, Storing, Busy
<1>3. Mapped'
  BY NoWriterIsNone DEF Shutdown, Mapped
<1>4. Rings' /\ Stored'
  BY SMTT(30), RingAssumption DEF Shutdown, Rings, Stored, NoEvent, Event
<1>5. Stopping' /\ AckedHeld'
  BY DEF Shutdown, RunEnds, Up, Stopping, AckedHeld
<1> QED
  BY <1>1, <1>2, <1>3, <1>4, <1>5 DEF IInv
-----------------------------------------------------------------------------
(* A step of a stream that touches neither the map nor a writer nor the      *)
(* server keeps what the invariant says of those.                            *)
LEMMA StreamStep ==
    ASSUME IInv, UNCHANGED <<writerVars, serverVars, hour, acked>>
    PROVE  /\ MapType' /\ RingType' /\ SealType' /\ ServerType'
           /\ Mapped' /\ Rings' /\ Stored' /\ Stopping' /\ AckedHeld'
           /\ Held' = Held /\ UNCHANGED <<writers, head, tail, raced>>
<1>1. UNCHANGED <<writers, made, wstate, buf, head, tail, raced, mem, openedAt, block, lost,
                  faults, srv, snap, ackedAtStop, hour, acked>>
  BY DEF writerVars, mapVars, ringVars, sealVars, serverVars
<1>2. Held' = Held /\ Gone' = Gone /\ \A w \in Writer : InRing(w)' = InRing(w)
  BY SMTT(30), <1>1 DEF Held, Gone, Sealed, InRing
<1>3. MapType' /\ RingType' /\ SealType' /\ ServerType'
  BY <1>1, TypeParts DEF IInv, MapType, RingType, SealType, ServerType
<1>4. Mapped' /\ Rings' /\ Stored'
  BY <1>1 DEF IInv, Mapped, Rings, Stored
<1>5. Stopping'
  BY <1>1, <1>2, TypeParts DEF IInv, Stopping, Up, OneProducer, ServerType
<1>6. AckedHeld'
  BY <1>1, <1>2, AckedHeldIs DEF IInv, Up, OneProducer
<1> QED
  BY <1>1, <1>2, <1>3, <1>4, <1>5, <1>6

(* It keeps the invariant if it does so for its own stream.                  *)
LEMMA OneStream ==
    ASSUME IInv, NEW s \in Streams, UNCHANGED <<writerVars, serverVars, hour, acked>>,
           HandlerType', spc'[s] # "store",
           \A r \in Streams \ {s} :
              /\ spc'[r] = spc[r] /\ num'[r] = num[r] /\ batch'[r] = batch[r]
              /\ left'[r] = left[r] /\ cur'[r] = cur[r] /\ hold'[r] = hold[r]
              /\ phead'[r] = phead[r],
           spc'[s] \in Busy =>
              /\ num'[s] \in 1..MaxBatches
              /\ \A x \in batch'[s] \ left'[s] : x \notin raced => <<num'[s], x>> \in Held,
           spc'[s] \in {"create", "push"} => cur'[s] \in Shards,
           spc'[s] = "push" => hold'[s] \in Writer /\ hold'[s] = writers[cur'[s]]
    PROVE  IInv'
<1>1. Handling'
  BY StreamStep DEF IInv, Handling
<1>2. Holding'
  BY StreamStep DEF IInv, Holding
<1>3. Storing'
  BY SMTT(30), StreamStep DEF IInv, Storing
<1>4. TypeOK'
  BY StreamStep, TypePartsNext
<1> QED
  BY <1>1, <1>2, <1>3, <1>4, StreamStep DEF IInv

(* A stream that opens or closes has no batch.                               *)
LEMMA OpenCloseInv ==
    ASSUME IInv, NEW s \in Streams, Open(s) \/ Close(s) PROVE IInv'
<1>1. UNCHANGED <<sent, num, batch, left, cur, hold, phead, writerVars, serverVars, hour, acked>>
  BY DEF Open, Close
<1>2. /\ spc' \in [Streams -> {"recv", "next", "create", "push", "store", "closed"}]
      /\ spc'[s] \in {"recv", "closed"} /\ \A r \in Streams \ {s} : spc'[r] = spc[r]
  BY TypeParts DEF IInv, HandlerType, Open, Close
<1>3. HandlerType'
  BY <1>1, <1>2, TypeParts DEF IInv, HandlerType
<1> QED
  BY <1>1, <1>2, <1>3, OneStream DEF Busy

(* A batch is received: all its shards are still to be written.              *)
LEMMA RecvInv ==
    ASSUME IInv, NEW s \in Streams, NEW shards \in SUBSET Shards, Recv(s, shards) PROVE IInv'
<1> USE BatchesAssumption
<1>1. UNCHANGED <<cur, hold, phead, writerVars, serverVars, hour, acked>>
  BY DEF Recv
<1>2. HandlerType'
  BY SMTT(30), TypeParts DEF IInv, HandlerType, Recv
<1>3. /\ spc'[s] = "next" /\ num'[s] \in 1..MaxBatches /\ batch'[s] = left'[s]
      /\ \A r \in Streams \ {s} :
            spc'[r] = spc[r] /\ num'[r] = num[r] /\ batch'[r] = batch[r] /\ left'[r] = left[r]
  BY SMTT(30), TypeParts DEF IInv, HandlerType, Recv
<1> QED
  BY <1>1, <1>2, <1>3, OneStream DEF Busy

(* getOrCreateWriter takes the writer from the map, if there is one.         *)
LEMMA LookupInv ==
    ASSUME IInv, NEW s \in Streams, NEW x \in Shards, Lookup(s, x) PROVE IInv'
<1>1. UNCHANGED <<sent, num, batch, left, phead, writerVars, serverVars, hour, acked>>
  BY DEF Lookup
<1>2. writers[x] \in Writer \cup {NoWriter}
  BY TypeParts DEF IInv, MapType
<1>3. HandlerType'
  BY <1>1, <1>2, TypeParts DEF IInv, HandlerType, Lookup
<1>4. /\ cur'[s] = x /\ hold'[s] = writers[x]
      /\ spc'[s] = IF writers[x] = NoWriter THEN "create" ELSE "push"
      /\ \A r \in Streams \ {s} : spc'[r] = spc[r] /\ cur'[r] = cur[r] /\ hold'[r] = hold[r]
  BY TypeParts DEF IInv, HandlerType, Lookup
<1>5. spc[s] = "next" /\ num[s] \in 1..MaxBatches
        /\ \A y \in batch[s] \ left[s] : y \notin raced => <<num[s], y>> \in Held
  BY DEF Lookup, IInv, Handling, Busy
<1> QED
  BY <1>1, <1>2, <1>3, <1>4, <1>5, OneStream

(* A handler that returns is in no batch and no shard.                       *)
LEMMA ReturnType ==
    ASSUME IInv, NEW s \in Streams, NEW pc \in {"recv", "closed"}, Return(s, pc),
           UNCHANGED <<sent, phead>>
    PROVE  /\ HandlerType' /\ spc'[s] = pc
           /\ \A r \in Streams \ {s} :
                 /\ spc'[r] = spc[r] /\ num'[r] = num[r] /\ batch'[r] = batch[r]
                 /\ left'[r] = left[r] /\ cur'[r] = cur[r] /\ hold'[r] = hold[r]
                 /\ phead'[r] = phead[r]
<1>1. /\ spc'[s] = pc
      /\ \A r \in Streams \ {s} :
            /\ spc'[r] = spc[r] /\ num'[r] = num[r] /\ batch'[r] = batch[r]
            /\ left'[r] = left[r] /\ cur'[r] = cur[r] /\ hold'[r] = hold[r]
            /\ phead'[r] = phead[r]
  BY TypeParts DEF IInv, HandlerType, Return
<1>2. HandlerType'
  BY SMTT(30), <1>1, BatchesAssumption, TypeParts DEF IInv, HandlerType, Return
<1> QED
  BY <1>1, <1>2

(* A stream that breaks off forgets its batch, which is not acknowledged.    *)
LEMMA CancelSendFailsInv ==
    ASSUME IInv, NEW s \in Streams, Cancel(s) \/ SendFails(s) PROVE IInv'
<1>1. Return(s, "closed") /\ UNCHANGED <<sent, phead, writerVars, serverVars, hour, acked>>
  BY DEF Cancel, SendFails
<1> QED
  BY <1>1, ReturnType, OneStream DEF Busy

(* The answer: every shard of the batch has its event.                       *)
LEMMA SendInv ==
    ASSUME IInv, NEW s \in Streams, Send(s) PROVE IInv'
<1>1. /\ Return(s, "recv") /\ UNCHANGED <<sent, phead, writerVars, serverVars, hour>>
      /\ acked' = acked \cup {<<num[s], x>> : x \in batch[s]}
      /\ spc[s] = "next" /\ left[s] = {}
  BY DEF Send
<1>2. UNCHANGED <<writers, made, wstate, buf, head, tail, raced, mem, openedAt, block, lost,
                  faults, srv, snap, ackedAtStop, hour>>
  BY <1>1 DEF writerVars, mapVars, ringVars, sealVars, serverVars
<1>3. Held' = Held /\ Gone' = Gone /\ \A w \in Writer : InRing(w)' = InRing(w)
  BY SMTT(30), <1>2 DEF Held, Gone, Sealed, InRing
<1>4. \A x \in batch[s] : /\ <<num[s], x>> \in Event
                          /\ OneProducer(<<num[s], x>>) => <<num[s], x>> \in Held
  BY <1>1, TypeParts DEF IInv, HandlerType, Handling, Busy, Event, OneProducer
<1>5. HandlerType' /\ MapType' /\ RingType' /\ SealType'
  BY <1>1, <1>2, ReturnType, TypeParts DEF IInv, MapType, RingType, SealType
<1>6. ServerType'
  BY <1>1, <1>2, <1>4, TypeParts DEF IInv, ServerType
<1>7. AckedHeld'
  BY <1>1, <1>2, <1>3, <1>4, AckedHeldIs DEF IInv, Up, OneProducer
<1>8. Stopping'
  BY <1>2, <1>3, TypeParts DEF IInv, Stopping, Up, OneProducer, ServerType
<1>9. Mapped' /\ Rings' /\ Stored'
  BY <1>2 DEF IInv, Mapped, Rings, Stored
<1>10. Handling'
  BY <1>1, <1>2, <1>3, ReturnType DEF IInv, Handling, Busy
<1>11. Holding' /\ Storing'
  BY SMTT(30), <1>1, <1>2, ReturnType DEF IInv, Holding, Storing
<1> QED
  BY <1>5, <1>6, <1>7, <1>8, <1>9, <1>10, <1>11, TypePartsNext DEF IInv
-----------------------------------------------------------------------------
(* The second look at the map: a writer is created only where there is none. *)
LEMMA CreateInv ==
    ASSUME IInv, NEW s \in Streams, Create(s) PROVE IInv'
<1> DEFINE x == cur[s]
<1>1. /\ x \in Shards /\ spc[s] = "create"
      /\ UNCHANGED <<sent, num, batch, left, cur, phead, buf, head, tail, raced, mem, block,
                     lost, faults, srv, snap, ackedAtStop, hour, acked>>
      /\ spc' = [spc EXCEPT ![s] = "push"]
  BY DEF Create, IInv, Holding, ringVars, serverVars
<1>2. CASE writers[x] = NoWriter
  <2> DEFINE w == <<x, made[x] + 1>>
  <2>1. /\ made[x] \in 0..MaxWriters /\ made[x] < MaxWriters
        /\ made' = [made EXCEPT ![x] = @ + 1]
        /\ hold' = [hold EXCEPT ![s] = w] /\ writers' = [writers EXCEPT ![x] = w]
        /\ wstate' = [wstate EXCEPT ![w] = "running"]
        /\ openedAt' = [openedAt EXCEPT ![w] = hour]
    BY <1>1, <1>2, TypeParts DEF Create, NewShardWriter, IInv, MapType
  <2>2. w \in Writer /\ w[1] = x
    BY SMTT(30), <1>1, <2>1, WritersAssumption DEF Writer
  <2> HIDE DEF w
  <2>3. wstate[w] = "none"
    BY <1>1, <1>2, <2>2, NoWriterIsNone DEF IInv, Mapped
  <2>4. /\ spc'[s] = "push" /\ hold'[s] = w
        /\ \A r \in Streams \ {s} : spc'[r] = spc[r] /\ hold'[r] = hold[r]
        /\ writers'[x] = w /\ \A y \in Shards \ {x} : writers'[y] = writers[y]
        /\ wstate'[w] = "running" /\ \A v \in Writer \ {w} : wstate'[v] = wstate[v]
    BY <1>1, <2>1, <2>2, TypeParts DEF IInv, HandlerType, MapType
  <2>5. HandlerType'
    BY <1>1, <2>1, <2>2, TypeParts DEF IInv, HandlerType
  <2>6. MapType'
    BY SMTT(30), <1>1, <2>1, <2>2, WritersAssumption, TypeParts DEF IInv, MapType
  <2>7. RingType' /\ SealType' /\ ServerType'
    BY <1>1, <2>1, <2>2, TypeParts DEF IInv, RingType, SealType, ServerType
  <2>8. Held' = Held /\ Gone' = Gone /\ \A v \in Writer : InRing(v)' = InRing(v)
    BY SMTT(30), <1>1 DEF Held, Gone, Sealed, InRing
  <2>9. Handling'
    BY <1>1, <2>4, <2>8 DEF IInv, Handling, Busy
  <2>10. Holding'
    BY <1>1, <1>2, <2>2, <2>4, NoWriterIsNone DEF IInv, Holding
  <2>11. Mapped'
    <3>1. ASSUME NEW y \in Shards, writers'[y] # NoWriter
          PROVE  writers'[y][1] = y /\ wstate'[writers'[y]] # "none"
      BY SMTT(30), <1>1, <2>2, <2>3, <2>4, <3>1, TypeParts DEF IInv, MapType, Mapped
    <3>2. ASSUME NEW v \in Writer, wstate'[v] # "none"
          PROVE  writers'[v[1]] = v
      BY <1>1, <1>2, <2>2, <2>4, <3>2, NoWriterIsNone DEF IInv, Mapped, Writer
    <3> QED
      BY <3>1, <3>2 DEF Mapped
  <2>12. Storing'
    BY <1>1, <2>4 DEF IInv, Storing
  <2>13. Rings' /\ Stored'
    BY <1>1, <2>2, <2>4 DEF IInv, Rings, Stored
  <2>14. Stopping'
    BY <1>1, <2>2, <2>3, <2>4, <2>8, TypeParts DEF IInv, Stopping, Up, OneProducer, ServerType
  <2>15. AckedHeld'
    BY <1>1, <2>8, AckedHeldIs DEF IInv, Up, OneProducer
  <2> QED
    BY <2>5, <2>6, <2>7, <2>9, <2>10, <2>11, <2>12, <2>13, <2>14, <2>15, TypePartsNext DEF IInv
<1>3. CASE writers[x] # NoWriter
  <2>1. hold' = [hold EXCEPT ![s] = writers[x]] /\ UNCHANGED <<writers, made, wstate, openedAt>>
    BY <1>3 DEF Create, mapVars
  <2>2. writers[x] \in Writer
    BY <1>1, <1>3, TypeParts DEF IInv, MapType
  <2>3. HandlerType'
    BY <1>1, <2>1, <2>2, TypeParts DEF IInv, HandlerType
  <2>4. UNCHANGED <<writerVars, serverVars, hour, acked>>
    BY <1>1, <2>1 DEF writerVars, mapVars, ringVars, sealVars, serverVars
  <2>5. /\ spc'[s] = "push" /\ hold'[s] = writers[x] /\ cur'[s] = x
        /\ \A r \in Streams \ {s} : spc'[r] = spc[r] /\ hold'[r] = hold[r]
    BY <1>1, <2>1, TypeParts DEF IInv, HandlerType
  <2>6. num[s] \in 1..MaxBatches
        /\ \A y \in batch[s] \ left[s] : y \notin raced => <<num[s], y>> \in Held
    BY <1>1 DEF IInv, Handling, Busy
  <2> QED
    BY <1>1, <2>2, <2>3, <2>4, <2>5, <2>6, OneStream
<1> QED
  BY <1>2, <1>3

(* Push has loaded the head of a ring with room.  If another stream is at    *)
(* the same point with the same ring, both have the same shard, which counts *)
(* as raced from here.                                                       *)
LEMMA PushLoadInv ==
    ASSUME IInv, NEW s \in Streams, PushLoad(s) PROVE IInv'
<1>1. /\ UNCHANGED <<sent, num, batch, left, cur, hold, writers, made, wstate, buf, head, tail,
                     mem, openedAt, block, lost, faults, srv, snap, ackedAtStop, hour, acked>>
      /\ spc[s] = "push" /\ spc' = [spc EXCEPT ![s] = "store"]
      /\ phead' = [phead EXCEPT ![s] = head[hold[s]]]
      /\ head[hold[s]] - tail[hold[s]] \in 0..RingBufSize - 1
  BY DEF PushLoad, Room, mapVars, sealVars, serverVars
<1>2. raced' = raced \cup {cur[r] : r \in {r \in Streams : spc[r] = "store" /\ hold[r] = hold[s]}}
  BY DEF PushLoad
<1>3. /\ hold[s] \in Writer /\ cur[s] \in Shards /\ hold[s] = writers[cur[s]]
      /\ head[hold[s]] \in Nat /\ tail[hold[s]] \in Nat
  BY <1>1, TypeParts DEF IInv, Holding, RingType
<1>4. /\ spc'[s] = "store" /\ phead'[s] = head[hold[s]]
      /\ \A r \in Streams \ {s} : spc'[r] = spc[r] /\ phead'[r] = phead[r]
  BY <1>1, TypeParts DEF IInv, HandlerType
<1>5. raced \subseteq raced' /\ raced' \subseteq Shards
  BY <1>2, TypeParts DEF IInv, RingType, Holding
<1>6. Held' = Held /\ Gone' = Gone /\ \A w \in Writer : InRing(w)' = InRing(w)
  BY SMTT(30), <1>1 DEF Held, Gone, Sealed, InRing
<1>7. HandlerType'
  BY <1>1, <1>3, <1>4, TypeParts DEF IInv, HandlerType
<1>8. MapType' /\ RingType' /\ SealType' /\ ServerType'
  BY <1>1, <1>5, TypeParts DEF IInv, MapType, RingType, SealType, ServerType
<1>9. Handling'
  BY <1>1, <1>4, <1>5, <1>6 DEF IInv, Handling, Busy
<1>10. Holding'
  BY <1>1, <1>3, <1>4 DEF IInv, Holding
<1>11. Mapped' /\ Stored'
  BY <1>1 DEF IInv, Mapped, Stored
<1>12. Storing'
  <2>1. ASSUME NEW r \in Streams, spc'[r] = "store", cur'[r] \notin raced'
        PROVE  phead'[r] = head'[hold'[r]] /\ head'[hold'[r]] - tail'[hold'[r]] < RingBufSize
    <3>1. CASE r = s
      BY SMTT(30), <1>1, <1>3, <1>4, <3>1, RingAssumption
    <3>2. CASE r # s
      BY <1>1, <1>4, <1>5, <2>1, <3>2 DEF IInv, Storing
    <3> QED
      BY <3>1, <3>2
  <2>2. ASSUME NEW r \in Streams \ {s}, spc[r] = "store", hold[r] = hold[s]
        PROVE  cur[r] \in raced' /\ cur[s] = cur[r]
    <3>1. hold[r] = writers[cur[r]] /\ cur[r] \in Shards
      BY <2>2 DEF IInv, Holding
    <3>2. cur[r] = hold[s][1] /\ cur[s] = hold[s][1]
      BY <1>3, <2>2, <3>1, NoWriterIsNone DEF IInv, Mapped
    <3> QED
      BY <1>2, <2>2, <3>2
  <2>3. ASSUME NEW r \in Streams, NEW t \in Streams, r # t, spc'[r] = "store",
               spc'[t] = "store", hold'[r] = hold'[t]
        PROVE  cur'[t] \in raced'
    <3>1. CASE r # s /\ t # s
      BY <1>1, <1>4, <1>5, <2>3, <3>1 DEF IInv, Storing
    <3>2. CASE r = s \/ t = s
      BY SMTT(30), <1>1, <1>4, <2>2, <2>3, <3>2
    <3> QED
      BY <3>1, <3>2
  <2> QED
    BY <2>1, <2>3 DEF Storing
<1>13. Rings'
  BY <1>1, <1>5 DEF IInv, Rings
<1>14. Stopping'
  BY <1>1, <1>5, <1>6, TypeParts DEF IInv, Stopping, Up, OneProducer, ServerType
<1>15. AckedHeld'
  BY <1>1, <1>5, <1>6, AckedHeldIs DEF IInv, Up, OneProducer
<1> QED
  BY <1>7, <1>8, <1>9, <1>10, <1>11, <1>12, <1>13, <1>14, <1>15, TypePartsNext DEF IInv

(* Push writes the slot and the head.  Without a race the slot is none of    *)
(* those that hold an event, so the ring gains the event and loses nothing;  *)
(* with one, the events it may lose are of the raced shard.                  *)
LEMMA PushStoreInv ==
    ASSUME IInv, NEW s \in Streams, PushStore(s) PROVE IInv'
<1>0. PICK w \in Writer : w = hold[s]
  BY DEF PushStore, IInv, Holding
<1> DEFINE x == cur[s]
           e == <<num[s], x>>
           slot == phead[s] % RingBufSize
<1>1. /\ UNCHANGED <<sent, num, batch, writers, made, wstate, tail, raced,
                     mem, openedAt, block, lost, faults, srv, snap, ackedAtStop, hour, acked>>
      /\ spc[s] = "store" /\ spc' = [spc EXCEPT ![s] = "next"]
      /\ buf' = [buf EXCEPT ![w][slot] = e]
      /\ head' = [head EXCEPT ![w] = phead[s] + 1]
      /\ left' = [left EXCEPT ![s] = @ \ {x}]
      /\ cur' = [cur EXCEPT ![s] = NoShard] /\ hold' = [hold EXCEPT ![s] = NoWriter]
      /\ phead' = [phead EXCEPT ![s] = 0]
  BY <1>0 DEF PushStore, mapVars, sealVars, serverVars
<1>2. /\ w \in Writer /\ x \in Shards /\ w = writers[x] /\ phead[s] \in Nat
      /\ num[s] \in 1..MaxBatches
  BY <1>0, <1>1, TypeParts DEF IInv, Holding, HandlerType, Handling, Busy
<1>3. w[1] = x /\ wstate[w] # "none"
  BY <1>2, NoWriterIsNone DEF IInv, Mapped
<1>4. e \in Event /\ e[2] = x /\ slot \in 0..RingBufSize - 1
  BY <1>2, SlotOf DEF Event
<1>5. x \notin raced => /\ phead[s] = head[w] /\ tail[w] <= head[w]
                        /\ head[w] - tail[w] < RingBufSize
  BY <1>0, <1>1, <1>2, <1>3 DEF IInv, Storing, Rings
<1> HIDE DEF x, e, slot
<1>6. /\ head'[w] = phead[s] + 1 /\ \A v \in Writer \ {w} : head'[v] = head[v] /\ buf'[v] = buf[v]
      /\ buf'[w][slot] = e /\ \A i \in 0..RingBufSize - 1 : i # slot => buf'[w][i] = buf[w][i]
  BY <1>1, <1>2, <1>4, TypeParts DEF IInv, RingType
<1>7. /\ spc'[s] = "next" /\ left'[s] = left[s] \ {x}
      /\ \A r \in Streams \ {s} :
            /\ spc'[r] = spc[r] /\ left'[r] = left[r] /\ cur'[r] = cur[r]
            /\ hold'[r] = hold[r] /\ phead'[r] = phead[r]
  BY <1>1, TypeParts DEF IInv, HandlerType
<1>8. ASSUME x \notin raced
      PROVE  e \in InRing(w)' /\ \A f \in InRing(w) : f \in InRing(w)'
  <2>1. head[w] \in Nat /\ tail[w] \in Nat /\ tail'[w] = tail[w] /\ head'[w] = head[w] + 1
    BY <1>1, <1>2, <1>5, <1>6, <1>8, TypeParts DEF IInv, RingType
  <2>2. head[w] \in tail'[w]..head'[w] - 1 /\ slot = head[w] % RingBufSize
    BY SMTT(30), <1>5, <1>8, <2>1 DEF slot
  <2>3. e \in InRing(w)'
    BY <1>6, <2>2 DEF InRing
  <2>4. ASSUME NEW i \in tail[w]..head[w] - 1
        PROVE  buf[w][i % RingBufSize] \in InRing(w)'
    <3>1. i \in Nat /\ i < head[w] /\ head[w] - i < RingBufSize /\ i \in tail'[w]..head'[w] - 1
      BY SMTT(30), <1>5, <1>8, <2>1, <2>4, RingAssumption
    <3>2. i % RingBufSize # slot
      BY <2>1, <2>2, <3>1, SlotsApart, RingAssumption
    <3>3. buf'[w][i % RingBufSize] = buf[w][i % RingBufSize]
      BY <1>6, <3>1, <3>2, SlotOf
    <3> QED
      BY <3>1, <3>3 DEF InRing
  <2> QED
    BY <2>3, <2>4 DEF InRing
<1>9. \A v \in Writer \ {w} : InRing(v)' = InRing(v)
  BY <1>1, <1>6 DEF InRing
<1>10. \A f \in InRing(w) : f \in Event => f[2] = x
  <2> SUFFICES ASSUME NEW i \in tail[w]..head[w] - 1, buf[w][i % RingBufSize] \in Event
               PROVE  buf[w][i % RingBufSize][2] = x
    BY DEF InRing
  <2>1. i \in Nat
    BY SMTT(30), <1>2, TypeParts DEF IInv, RingType
  <2> QED
    BY <1>2, <1>3, <2>1, SlotOf DEF IInv, Rings
<1>11. Gone' = Gone
  BY SMTT(30), <1>1 DEF Gone, Sealed
<1>12. ASSUME NEW f \in Event, OneProducer(f), NEW v \in Writer, f \in InRing(v)
       PROVE  f \in InRing(v)'
  <2>1. CASE v # w
    BY <1>9, <1>12, <2>1
  <2>2. CASE v = w
    BY <1>8, <1>10, <1>12, <2>2 DEF OneProducer
  <2> QED
    BY <2>1, <2>2
<1>13. \A f \in Event : OneProducer(f) /\ f \in Held => f \in Held'
  BY SMTT(30), <1>1, <1>11, <1>12 DEF Held
<1>14. x \notin raced => e \in Held'
  BY SMTT(30), <1>2, <1>8 DEF Held
<1>15. HandlerType'
  BY <1>1, <1>7, TypeParts DEF IInv, HandlerType
<1>16. RingType'
  BY SMTT(30), <1>1, <1>2, <1>4, TypeParts DEF IInv, RingType
<1>17. MapType' /\ SealType' /\ ServerType'
  BY <1>1, TypeParts DEF IInv, MapType, SealType, ServerType
<1>18. Handling'
  <2> SUFFICES ASSUME NEW r \in Streams, spc'[r] \in Busy
               PROVE  /\ num'[r] \in 1..MaxBatches
                      /\ \A y \in batch'[r] \ left'[r] : y \notin raced' => <<num'[r], y>> \in Held'
    BY DEF Handling
  <2>1. spc[r] \in Busy
    BY <1>1, <1>7 DEF Busy
  <2>2. /\ num[r] \in 1..MaxBatches /\ batch[r] \subseteq Shards
        /\ \A y \in batch[r] \ left[r] : y \notin raced => <<num[r], y>> \in Held
    BY <2>1, TypeParts DEF IInv, Handling, HandlerType
  <2>3. \A y \in batch[r] : <<num[r], y>> \in Event
          /\ (OneProducer(<<num[r], y>>) <=> y \notin raced)
    BY <2>2 DEF Event, OneProducer
  <2>4. CASE r = s
    BY <1>1, <1>7, <1>13, <1>14, <2>2, <2>3, <2>4 DEF e
  <2>5. CASE r # s
    BY <1>1, <1>7, <1>13, <2>2, <2>3, <2>5
  <2> QED
    BY <2>4, <2>5
<1>19. Holding'
  BY <1>1, <1>7 DEF IInv, Holding
<1>20. Mapped' /\ Stored'
  BY <1>1, <1>2, <1>3, <1>6 DEF IInv, Mapped, Stored
<1>21. Storing'
  <2>1. ASSUME NEW r \in Streams, spc'[r] = "store", cur'[r] \notin raced'
        PROVE  phead'[r] = head'[hold'[r]] /\ head'[hold'[r]] - tail'[hold'[r]] < RingBufSize
    <3>1. r # s /\ spc[r] = "store" /\ cur[r] \notin raced /\ hold[r] \in Writer
      BY SMTT(30), <1>1, <1>7, <2>1 DEF IInv, Holding
    <3>2. hold[r] # w
      BY <1>0, <1>1, <3>1 DEF IInv, Storing
    <3> QED
      BY SMTT(30), <1>1, <1>6, <1>7, <3>1, <3>2 DEF IInv, Storing
  <2>2. ASSUME NEW r \in Streams, NEW t \in Streams, r # t, spc'[r] = "store",
               spc'[t] = "store", hold'[r] = hold'[t]
        PROVE  cur'[t] \in raced'
    <3>1. r # s /\ t # s
      BY <1>7, <2>2
    <3> QED
      BY SMTT(30), <1>1, <1>7, <2>2, <3>1 DEF IInv, Storing
  <2> QED
    BY <2>1, <2>2 DEF Storing
<1>22. Rings'
  <2> SUFFICES ASSUME NEW v \in Writer
               PROVE  /\ v[1] \notin raced =>
                            tail'[v] <= head'[v] /\ head'[v] - tail'[v] <= RingBufSize
                      /\ \A i \in 0..RingBufSize - 1 : buf'[v][i] \in Event => buf'[v][i][2] = v[1]
    BY <1>1 DEF Rings
  <2>1. CASE v # w
    BY SMTT(30), <1>1, <1>6, <2>1 DEF IInv, Rings
  <2>2. CASE v = w
    <3>1. v[1] \notin raced => tail'[v] <= head'[v] /\ head'[v] - tail'[v] <= RingBufSize
      <4>1. head[w] \in Nat /\ tail[w] \in Nat /\ tail'[w] = tail[w]
        BY <1>1, <1>2, TypeParts DEF IInv, RingType
      <4> QED
        BY SMTT(30), <1>3, <1>5, <1>6, <2>2, <4>1, RingAssumption
    <3>2. \A i \in 0..RingBufSize - 1 : buf'[v][i] \in Event => buf'[v][i][2] = v[1]
      BY <1>3, <1>4, <1>6, <2>2 DEF IInv, Rings
    <3> QED
      BY <3>1, <3>2
  <2> QED
    BY <2>1, <2>2
<1>23. Stopping'
  <2>1. ackedAtStop \subseteq Event /\ snap \subseteq Writer
    BY TypeParts DEF IInv, ServerType
  <2>2. ASSUME Up, NEW f \in ackedAtStop, OneProducer(f), f \notin Gone
        PROVE  \E v \in snap : wstate[v] # "done" /\ f \in InRing(v)' \cup mem[v]
    <3>1. PICK v \in snap : wstate[v] # "done" /\ f \in InRing(v) \cup mem[v]
      BY <2>2 DEF IInv, Stopping
    <3> QED
      BY <1>12, <2>1, <2>2, <3>1
  <2> QED
    BY <1>1, <1>11, <2>2 DEF IInv, Stopping, Up, OneProducer
<1>24. AckedHeld'
  <2>1. acked \subseteq Event
    BY TypeParts DEF IInv, ServerType
  <2>2. Up => \A f \in acked : OneProducer(f) => f \in Held'
    BY <1>13, <2>1, AckedHeldIs DEF IInv
  <2> QED
    BY <1>1, <2>2, AckedHeldIs DEF Up, OneProducer
<1> QED
  BY <1>15, <1>16, <1>17, <1>18, <1>19, <1>20, <1>21, <1>22, <1>23, <1>24, TypePartsNext DEF IInv
-----------------------------------------------------------------------------
(* A step that leaves the streams and the map alone and takes no event from  *)
(* what is held keeps what the invariant says of handlers and answers.       *)
LEMMA WriterStep ==
    ASSUME IInv, UNCHANGED <<sent, handlerVars, writers, raced, acked>>, Up,
           \A f \in Event : f \in Held => f \in Held'
    PROVE  HandlerType' /\ Handling' /\ Holding' /\ AckedHeld'
<1>1. UNCHANGED <<sent, spc, num, batch, left, cur, hold, phead>>
  BY DEF handlerVars
<1>2. HandlerType'
  BY <1>1, TypeParts DEF IInv, HandlerType
<1>3. Handling'
  <2> SUFFICES ASSUME NEW s \in Streams, spc[s] \in Busy
               PROVE  /\ num[s] \in 1..MaxBatches
                      /\ \A x \in batch[s] \ left[s] : x \notin raced => <<num[s], x>> \in Held'
    BY <1>1 DEF Handling
  <2>1. /\ num[s] \in 1..MaxBatches /\ batch[s] \subseteq Shards
        /\ \A x \in batch[s] \ left[s] : x \notin raced => <<num[s], x>> \in Held
    BY TypeParts DEF IInv, Handling, HandlerType
  <2>2. \A x \in batch[s] : <<num[s], x>> \in Event
    BY <2>1 DEF Event
  <2> QED
    BY <2>1, <2>2
<1>4. Holding'
  BY <1>1 DEF IInv, Holding
<1>5. AckedHeld'
  <2>1. acked \subseteq Event
    BY TypeParts DEF IInv, ServerType
  <2>2. \A e \in acked : OneProducer(e) => e \in Held'
    BY <2>1, AckedHeldIs DEF IInv
  <2> QED
    BY <2>2, AckedHeldIs DEF OneProducer
<1> QED
  BY <1>2, <1>3, <1>4, <1>5

(* A Pop moves the oldest event of the ring to the memtable.                 *)
LEMMA PopInv ==
    ASSUME IInv, NEW w \in Writer, Pop(w) PROVE IInv'
<1> DEFINE e == buf[w][tail[w] % RingBufSize]
<1>1. /\ UNCHANGED <<sent, handlerVars, writers, made, wstate, buf, head, raced, openedAt, block,
                     lost, faults, srv, snap, ackedAtStop, hour, acked>>
      /\ Up /\ wstate[w] # "none" /\ tail[w] # head[w]
      /\ mem' = [mem EXCEPT ![w] = @ \cup {e}]
      /\ tail' = [tail EXCEPT ![w] = @ + 1]
  BY DEF Pop, mapVars, serverVars
<1>2. UNCHANGED <<spc, cur, hold, phead>>
  BY <1>1 DEF handlerVars
<1>3. /\ head[w] \in Nat /\ tail[w] \in Nat /\ tail[w] % RingBufSize \in 0..RingBufSize - 1
      /\ e \in Event \cup {NoEvent}
  BY SlotOf, TypeParts DEF IInv, RingType
<1> HIDE DEF e
<1>4. /\ tail'[w] = tail[w] + 1 /\ mem'[w] = mem[w] \cup {e}
      /\ \A v \in Writer \ {w} : tail'[v] = tail[v] /\ mem'[v] = mem[v]
  BY <1>1, TypeParts DEF IInv, RingType, SealType
<1>5. \A f \in InRing(w) : f \in InRing(w)' \/ f = e
  <2> SUFFICES ASSUME NEW i \in tail[w]..head[w] - 1
               PROVE  buf[w][i % RingBufSize] \in InRing(w)' \/ buf[w][i % RingBufSize] = e
    BY DEF InRing
  <2>1. CASE i = tail[w]
    BY <2>1 DEF e
  <2>2. CASE i # tail[w]
    <3>1. i \in tail'[w]..head'[w] - 1
      BY SMTT(30), <1>1, <1>3, <1>4, <2>2
    <3> QED
      BY <1>1, <3>1 DEF InRing
  <2> QED
    BY <2>1, <2>2
<1>6. \A v \in Writer \ {w} : InRing(v)' = InRing(v)
  BY <1>1, <1>4 DEF InRing
<1>7. \A v \in Writer : \A f \in InRing(v) \cup mem[v] : f \in InRing(v)' \cup mem'[v]
  BY SMTT(30), <1>4, <1>5, <1>6
<1>8. Gone' = Gone
  BY SMTT(30), <1>1 DEF Gone, Sealed
<1>9. HandlerType' /\ Handling' /\ Holding' /\ AckedHeld'
  <2>1. \A f \in Event : f \in Held => f \in Held'
    BY <1>7, <1>8 DEF Held
  <2> QED
    BY <1>1, <2>1, WriterStep
<1>10. MapType' /\ ServerType'
  BY <1>1, TypeParts DEF IInv, MapType, ServerType
<1>11. RingType'
  BY SMTT(30), <1>1, <1>3, TypeParts DEF IInv, RingType
<1>12. SealType'
  BY <1>1, <1>3, TypeParts DEF IInv, SealType
<1>13. Mapped' /\ Stored'
  BY <1>1, <1>4 DEF IInv, Mapped, Stored
<1>14. Rings'
  <2> SUFFICES ASSUME NEW v \in Writer
               PROVE  v[1] \notin raced =>
                         tail'[v] <= head'[v] /\ head'[v] - tail'[v] <= RingBufSize
    BY <1>1 DEF IInv, Rings
  <2>1. v[1] \notin raced => tail[v] <= head[v] /\ head[v] - tail[v] <= RingBufSize
    BY DEF IInv, Rings
  <2>2. CASE v = w
    BY SMTT(30), <1>1, <1>3, <1>4, <2>1, <2>2, RingAssumption
  <2>3. CASE v # w
    BY <1>1, <1>4, <2>1, <2>3
  <2> QED
    BY <2>2, <2>3
<1>15. Storing'
  <2>1. ASSUME NEW s \in Streams, spc[s] = "store", cur[s] \notin raced
        PROVE  phead[s] = head[hold[s]] /\ head[hold[s]] - tail'[hold[s]] < RingBufSize
    <3>1. /\ phead[s] = head[hold[s]] /\ head[hold[s]] - tail[hold[s]] < RingBufSize
          /\ hold[s] \in Writer
      BY <2>1 DEF IInv, Storing, Holding
    <3>2. CASE hold[s] = w
      BY SMTT(30), <1>3, <1>4, <3>1, <3>2, RingAssumption
    <3>3. CASE hold[s] # w
      BY <1>4, <3>1, <3>3
    <3> QED
      BY <3>2, <3>3
  <2> QED
    BY <1>1, <1>2, <2>1 DEF IInv, Storing
<1>16. Stopping'
  <2>1. snap \subseteq Writer
    BY TypeParts DEF IInv, ServerType
  <2>2. ASSUME NEW f \in ackedAtStop, OneProducer(f), f \notin Gone
        PROVE  \E v \in snap : wstate[v] # "done" /\ f \in InRing(v)' \cup mem'[v]
    <3>1. PICK v \in snap : wstate[v] # "done" /\ f \in InRing(v) \cup mem[v]
      BY <1>1, <2>2 DEF IInv, Stopping
    <3> QED
      BY <1>7, <2>1, <3>1
  <2> QED
    BY <1>1, <1>8, <2>2 DEF IInv, Stopping, Up, OneProducer
<1> QED
  BY <1>9, <1>10, <1>11, <1>12, <1>13, <1>14, <1>15, <1>16, TypePartsNext DEF IInv

(* A Seal puts the memtable into a block or loses it, and a block that it    *)
(* replaces is lost: nothing vanishes unaccounted for.                       *)
LEMMA SealMoves ==
    ASSUME IInv, NEW w \in Writer, sealCurrent(w), UNCHANGED hour
    PROVE  /\ Gone \subseteq Gone' /\ mem[w] \subseteq Gone'
           /\ mem'[w] = {} /\ \A v \in Writer \ {w} : mem'[v] = mem[v]
           /\ SealType'
<1>1. /\ w[1] \in Shards /\ openedAt[w] \in Hours /\ hour \in Hours
      /\ mem[w] \subseteq Event \cup {NoEvent} /\ lost \subseteq Event \cup {NoEvent}
      /\ block \in [Shards -> [Hours -> SUBSET (Event \cup {NoEvent})]] /\ faults \in Nat
  BY TypeParts DEF IInv, SealType, Writer
<1>2. mem' = [mem EXCEPT ![w] = {}] /\ openedAt' = [openedAt EXCEPT ![w] = hour]
  BY DEF sealCurrent
<1>3. mem'[w] = {} /\ \A v \in Writer \ {w} : mem'[v] = mem[v]
  BY <1>2, TypeParts DEF IInv, SealType
<1>4. CASE /\ block' = [block EXCEPT ![w[1]][openedAt[w]] = mem[w]]
           /\ lost' = lost \cup block[w[1]][openedAt[w]]
           /\ UNCHANGED faults
  <2>1. /\ block'[w[1]][openedAt[w]] = mem[w]
        /\ \A x \in Shards, h \in Hours :
              x # w[1] \/ h # openedAt[w] => block'[x][h] = block[x][h]
    BY <1>1, <1>4
  <2>2. mem[w] \subseteq Gone'
    BY SMTT(30), <1>1, <2>1 DEF Gone, Sealed
  <2>3. ASSUME NEW x \in Shards, NEW h \in Hours, NEW f \in block[x][h] PROVE f \in Gone'
    <3>1. CASE x = w[1] /\ h = openedAt[w]
      BY <1>4, <3>1 DEF Gone
    <3>2. CASE x # w[1] \/ h # openedAt[w]
      BY SMTT(30), <2>1, <3>2 DEF Gone, Sealed
    <3> QED
      BY <3>1, <3>2
  <2>4. Gone \subseteq Gone'
    BY SMTT(30), <1>4, <2>3 DEF Gone, Sealed
  <2>5. SealType'
    BY <1>1, <1>2, <1>4, TypeParts DEF IInv, SealType
  <2> QED
    BY <1>3, <2>2, <2>4, <2>5
<1>5. CASE faults' = faults + 1 /\ lost' = lost \cup mem[w] /\ UNCHANGED block
  <2>1. Gone \subseteq Gone' /\ mem[w] \subseteq Gone'
    BY SMTT(30), <1>5 DEF Gone, Sealed
  <2>2. SealType'
    BY SMTT(30), <1>1, <1>2, <1>5, TypeParts DEF IInv, SealType
  <2> QED
    BY <1>3, <2>1, <2>2
<1> QED
  BY <1>4, <1>5 DEF sealCurrent

(* A writer whose ring is empty gives its memtable away; it may end with it. *)
LEMMA SealedInv ==
    ASSUME IInv, NEW w \in Writer, Up, tail[w] = head[w], wstate[w] \in {"running", "stopping"},
           UNCHANGED <<sent, handlerVars, mapVars, ringVars, serverVars, hour, acked>>,
           Gone \subseteq Gone', mem[w] \subseteq Gone', mem'[w] = {},
           \A v \in Writer \ {w} : mem'[v] = mem[v], SealType',
           \/ UNCHANGED wstate
           \/ wstate[w] = "stopping" /\ wstate' = [wstate EXCEPT ![w] = "done"]
    PROVE  IInv'
<1>1. /\ UNCHANGED <<spc, cur, hold, phead, writers, made, buf, head, tail, raced, srv, snap,
                     ackedAtStop, acked>>
  BY DEF handlerVars, mapVars, ringVars, serverVars
<1>2. /\ wstate' \in [Writer -> {"none", "running", "stopping", "done"}]
      /\ \A v \in Writer \ {w} : wstate'[v] = wstate[v]
      /\ wstate'[w] # "none" /\ (wstate'[w] = wstate[w] \/ wstate'[w] = "done")
  BY TypeParts DEF IInv, MapType
<1>3. InRing(w) = {} /\ \A v \in Writer : InRing(v)' = InRing(v)
  <2>1. tail[w]..head[w] - 1 = {}
    BY SMTT(30), TypeParts DEF IInv, RingType
  <2> QED
    BY <1>1, <2>1 DEF InRing
<1>4. HandlerType' /\ Handling' /\ Holding' /\ AckedHeld'
  <2>1. \A f \in Event : f \in Held => f \in Held'
    <3> SUFFICES ASSUME NEW f \in Event, f \in Held, f \notin Gone' PROVE f \in Held'
      BY DEF Held
    <3>1. PICK v \in Writer : f \in InRing(v) \cup mem[v]
      BY DEF Held
    <3>2. v # w
      BY <1>3, <3>1
    <3> QED
      BY <1>3, <3>1, <3>2 DEF Held
  <2> QED
    BY <1>1, <2>1, WriterStep
<1>5. MapType' /\ RingType' /\ ServerType'
  BY <1>1, <1>2, TypeParts DEF IInv, MapType, RingType, ServerType
<1>6. Mapped'
  <2>1. ASSUME NEW x \in Shards, writers[x] # NoWriter
        PROVE  writers[x][1] = x /\ wstate'[writers[x]] # "none"
    <3>1. writers[x] \in Writer /\ writers[x][1] = x /\ wstate[writers[x]] # "none"
      BY SMTT(30), <2>1, TypeParts DEF IInv, Mapped, MapType
    <3> QED
      BY <1>2, <3>1
  <2>2. ASSUME NEW v \in Writer, wstate'[v] # "none" PROVE writers[v[1]] = v
    BY <1>2, <2>2 DEF IInv, Mapped
  <2> QED
    BY <1>1, <2>1, <2>2 DEF Mapped
<1>7. Storing' /\ Rings'
  BY <1>1 DEF IInv, Storing, Rings
<1>8. Stored'
  BY <1>1, <1>2 DEF IInv, Stored
<1>9. Stopping'
  <2>1. snap \subseteq Writer
    BY TypeParts DEF IInv, ServerType
  <2>2. ASSUME NEW f \in ackedAtStop, OneProducer(f), f \notin Gone'
        PROVE  \E v \in snap : wstate'[v] # "done" /\ f \in InRing(v)' \cup mem'[v]
    <3>1. PICK v \in snap : wstate[v] # "done" /\ f \in InRing(v) \cup mem[v]
      BY <2>2 DEF IInv, Stopping
    <3>2. v # w
      BY <1>3, <2>2, <3>1
    <3> QED
      BY <1>2, <1>3, <2>1, <3>1, <3>2
  <2>3. srv \in {"serving", "failed"} => UNCHANGED wstate
    BY DEF IInv, Stopping
  <2>4. srv \in {"graceful", "stopped"} => \A v \in snap : wstate'[v] = "done"
    BY <1>2, <2>1 DEF IInv, Stopping
  <2> QED
    BY <1>1, <2>2, <2>3, <2>4 DEF IInv, Stopping, Up, OneProducer
<1> QED
  BY <1>4, <1>5, <1>6, <1>7, <1>8, <1>9, TypePartsNext DEF IInv

(* A Seal by the ticker, for the hour or the size of the memtable.           *)
LEMMA SealInv ==
    ASSUME IInv, NEW w \in Writer, Seal(w) PROVE IInv'
BY SealMoves, SealedInv DEF Seal

(* The Seal of a writer that is told to stop, with which it ends.            *)
LEMMA FinalSealInv ==
    ASSUME IInv, NEW w \in Writer, FinalSeal(w) PROVE IInv'
<1>1. CASE mem[w] = {}
  <2>1. UNCHANGED <<mem, openedAt, block, lost, faults, hour>>
    BY <1>1 DEF FinalSeal, sealVars
  <2>2. Gone' = Gone /\ SealType'
    BY SMTT(30), <2>1, TypeParts DEF IInv, Gone, Sealed, SealType
  <2> QED
    BY <1>1, <2>1, <2>2, SealedInv DEF FinalSeal
<1>2. CASE mem[w] # {}
  BY <1>2, SealMoves, SealedInv DEF FinalSeal
<1> QED
  BY <1>1, <1>2
-----------------------------------------------------------------------------
(* A step that leaves the streams and the writers alone keeps the invariant  *)
(* if it does so for the server's part.                                      *)
LEMMA ServerStep ==
    ASSUME IInv, UNCHANGED <<sent, handlerVars, writerVars, acked>>, Up, hour' \in Hours,
           ServerType', Stopping'
    PROVE  IInv'
<1>1. UNCHANGED <<spc, cur, hold, phead, writers, made, wstate, buf, head, tail, raced,
                  mem, openedAt, block, lost, faults>>
  BY DEF handlerVars, writerVars, mapVars, ringVars, sealVars
<1>2. Held' = Held
  BY SMTT(30), <1>1 DEF Held, Gone, Sealed, InRing
<1>3. HandlerType' /\ Handling' /\ Holding' /\ AckedHeld'
  BY <1>1, <1>2, WriterStep
<1>4. MapType' /\ RingType' /\ SealType'
  BY <1>1, TypeParts DEF IInv, MapType, RingType, SealType
<1>5. Mapped' /\ Storing' /\ Rings' /\ Stored'
  BY <1>1 DEF IInv, Mapped, Storing, Rings, Stored
<1> QED
  BY <1>3, <1>4, <1>5, TypePartsNext DEF IInv

(* What Stopping says of a writer's events does not change with them.        *)
LEMMA WritersKept ==
    ASSUME IInv, UNCHANGED writerVars
    PROVE  /\ Gone' = Gone /\ UNCHANGED <<wstate, mem, raced>>
           /\ \A w \in Writer : InRing(w)' = InRing(w)
<1>1. UNCHANGED <<wstate, buf, head, tail, raced, mem, block, lost>>
  BY DEF writerVars, mapVars, ringVars, sealVars
<1> QED
  BY SMTT(30), <1>1 DEF Gone, Sealed, InRing

(* An hour passes.                                                           *)
LEMMA TickInv == ASSUME IInv, Tick PROVE IInv'
<1>1. /\ UNCHANGED <<sent, handlerVars, writerVars, srv, snap, ackedAtStop, acked>> /\ Up
      /\ hour' = hour + 1 /\ hour < MaxHour
  BY DEF Tick, serverVars
<1>2. hour' \in Hours
  BY SMTT(30), <1>1, HoursAssumption, TypeParts DEF IInv, SealType, Hours
<1>3. ServerType'
  BY <1>1, TypeParts DEF IInv, ServerType
<1>4. Stopping'
  BY <1>1, WritersKept, TypeParts DEF IInv, Stopping, Up, OneProducer, ServerType
<1> QED
  BY <1>1, <1>2, <1>3, <1>4, ServerStep

(* The snapshot that Stop takes has the writer of every acknowledged event.  *)
LEMMA StopBeginInv ==
    ASSUME IInv, StopBegin PROVE IInv'
<1>1. /\ UNCHANGED <<sent, handlerVars, writerVars, hour, acked>>
      /\ srv = "serving" /\ srv' = "waiting" /\ ackedAtStop' = acked
      /\ snap' = {writers[x] : x \in Shards} \ {NoWriter}
  BY DEF StopBegin
<1>2. ServerType'
  BY <1>1, TypeParts DEF IInv, ServerType, MapType
<1>3. hour' \in Hours /\ Up
  BY <1>1, TypeParts DEF IInv, SealType, Up
<1>4. ASSUME NEW e \in acked, OneProducer(e), e \notin Gone
      PROVE  \E w \in snap' : wstate[w] # "done" /\ e \in InRing(w) \cup mem[w]
  <2>1. PICK w \in Writer : e \in InRing(w) \cup mem[w]
    BY <1>3, <1>4, AckedHeldIs DEF IInv, Held
  <2>2. wstate[w] # "none"
    <3>1. head[w] = tail[w] => InRing(w) = {}
      <4>1. head[w] = tail[w] => tail[w]..head[w] - 1 = {}
        BY SMTT(30), TypeParts DEF IInv, RingType
      <4> QED
        BY <4>1 DEF InRing
    <3> QED
      BY <2>1, <3>1 DEF IInv, Stored
  <2>3. wstate[w] # "done"
    BY <1>1 DEF IInv, Stopping
  <2>4. w[1] \in Shards /\ writers[w[1]] = w
    BY <2>2 DEF IInv, Mapped, Writer
  <2> QED
    BY <1>1, <2>1, <2>3, <2>4, NoWriterIsNone
<1>5. Stopping'
  <2>1. snap' \subseteq Writer
    BY <1>2 DEF ServerType
  <2>2. ASSUME NEW e \in ackedAtStop', OneProducer(e), e \notin Gone'
        PROVE  \E w \in snap' : wstate'[w] # "done" /\ e \in InRing(w)' \cup mem'[w]
    BY <1>1, <1>4, <2>1, <2>2, WritersKept
  <2> QED
    BY <1>1, <2>2, WritersKept DEF Stopping, OneProducer
<1> QED
  BY <1>1, <1>2, <1>3, <1>5, ServerStep

(* Stop tells a writer of its snapshot to end.                               *)
LEMMA StopWriterInv ==
    ASSUME IInv, NEW w \in Writer, StopWriter(w) PROVE IInv'
<1>1. /\ UNCHANGED <<sent, handlerVars, spc, cur, hold, phead, writers, made, buf, head, tail,
                     raced, mem, openedAt, block, lost, faults, srv, snap, ackedAtStop, hour,
                     acked>>
      /\ wstate' = [wstate EXCEPT ![w] = "stopping"]
      /\ Up /\ w \in snap /\ wstate[w] = "running"
  BY DEF StopWriter, handlerVars, mapVars, ringVars, sealVars, serverVars
<1>2. /\ wstate' \in [Writer -> {"none", "running", "stopping", "done"}]
      /\ wstate'[w] = "stopping" /\ \A v \in Writer \ {w} : wstate'[v] = wstate[v]
  BY <1>1, TypeParts DEF IInv, MapType
<1>3. Held' = Held /\ Gone' = Gone /\ \A v \in Writer : InRing(v)' = InRing(v)
  BY SMTT(30), <1>1 DEF Held, Gone, Sealed, InRing
<1>4. HandlerType' /\ Handling' /\ Holding' /\ AckedHeld'
  BY <1>1, <1>3, WriterStep
<1>5. MapType' /\ RingType' /\ SealType' /\ ServerType'
  BY <1>1, <1>2, TypeParts DEF IInv, MapType, RingType, SealType, ServerType
<1>6. Mapped'
  BY <1>1, <1>2, TypeParts DEF IInv, MapType, Mapped
<1>7. Storing' /\ Rings'
  BY <1>1 DEF IInv, Storing, Rings
<1>8. Stored'
  BY <1>1, <1>2 DEF IInv, Stored
<1>9. Stopping'
  <2>1. snap \subseteq Writer
    BY TypeParts DEF IInv, ServerType
  <2>2. srv \notin {"serving", "failed", "graceful", "stopped"}
    BY <1>1, <2>1 DEF IInv, Stopping
  <2>3. \A v \in snap : wstate'[v] = "done" <=> wstate[v] = "done"
    BY <1>1, <1>2, <2>1
  <2> QED
    BY <1>1, <1>3, <2>1, <2>2, <2>3 DEF IInv, Stopping, Up, OneProducer
<1> QED
  BY <1>4, <1>5, <1>6, <1>7, <1>8, <1>9, TypePartsNext DEF IInv

(* The rest of the lifecycle only moves srv.                                 *)
LEMMA LifecycleInv ==
    ASSUME IInv, StopEnd \/ GracefulStop \/ ServeFails PROVE IInv'
<1>1. /\ UNCHANGED <<sent, handlerVars, writerVars, snap, ackedAtStop, hour, acked>>
      /\ srv' \in {"graceful", "stopped", "failed"} /\ Up
  BY DEF StopEnd, GracefulStop, ServeFails, Up
<1>2. /\ srv' = "failed" => srv = "serving"
      /\ srv' \in {"graceful", "stopped"} => \A w \in snap : wstate[w] = "done"
  BY DEF StopEnd, GracefulStop, ServeFails, IInv, Stopping
<1>3. ServerType' /\ hour' \in Hours
  BY <1>1, TypeParts DEF IInv, ServerType, SealType
<1>4. Stopping'
  BY <1>1, <1>2, WritersKept, TypeParts DEF IInv, Stopping, OneProducer, ServerType
<1> QED
  BY <1>1, <1>3, <1>4, ServerStep

(* Steps of others, and a batch that is refused, change nothing here.        *)
LEMMA StutterInv == ASSUME IInv, UNCHANGED vars PROVE IInv'
<1>1. UNCHANGED <<writerVars, serverVars, hour, acked>>
  BY DEF vars
<1>2. UNCHANGED <<sent, spc, num, batch, left, cur, hold, phead>>
  BY DEF vars, handlerVars
<1>3. HandlerType'
  BY <1>2, TypeParts DEF IInv, HandlerType
<1>4. Handling' /\ Holding' /\ Storing'
  BY <1>1, <1>2, StreamStep DEF IInv, Handling, Holding, Storing
<1> QED
  BY <1>1, <1>3, <1>4, StreamStep, TypePartsNext DEF IInv

(* Every step of the service keeps the invariant.                            *)
LEMMA NextInv == IInv /\ [Next]_vars => IInv'
<1> SUFFICES ASSUME IInv, [Next]_vars PROVE IInv'
  OBVIOUS
<1>1. ASSUME NEW s \in Streams, Client(s) PROVE IInv'
  <2>1. RecvInvalid(s) => UNCHANGED vars
    BY DEF RecvInvalid
  <2> QED
    BY <1>1, <2>1, OpenCloseInv, RecvInv, CancelSendFailsInv, StutterInv DEF Client
<1>2. ASSUME NEW s \in Streams, Handle(s) PROVE IInv'
  BY <1>2, LookupInv, CreateInv, PushLoadInv, PushStoreInv, SendInv DEF Handle
<1>3. ASSUME NEW w \in Writer, Pop(w) \/ Seal(w) \/ FinalSeal(w) \/ StopWriter(w) PROVE IInv'
  BY <1>3, PopInv, SealInv, FinalSealInv, StopWriterInv
<1> QED
  BY <1>1, <1>2, <1>3, StopBeginInv, LifecycleInv, ShutdownInv, TickInv, StutterInv DEF Next
-----------------------------------------------------------------------------
(* The invariant, for any number of streams, shards, batches and hours and   *)
(* any capacity of the rings, with running Seals, failing ones, and streams  *)
(* that push at the same time.                                               *)
THEOREM Invariant == Spec => []IInv
BY InitInv, NextInv, PTL DEF Spec

(* Every variable of the service stays within its type.                      *)
THEOREM TypeCorrect == Spec => []TypeOK
<1>1. IInv => TypeOK
  BY DEF IInv
<1> QED
  BY <1>1, Invariant, PTL

(* getOrCreateWriter never makes a second writer for a shard, however many   *)
(* streams race for it: what was created is what the map has.                *)
THEOREM OneWriter == Spec => []OneWriterPerShard
<1>1. IInv => OneWriterPerShard
  BY DEF IInv, Mapped, OneWriterPerShard
<1> QED
  BY <1>1, Invariant, PTL

(* As long as the process runs, an acknowledged event is in a block, a       *)
(* memtable or a ring, or was lost by Seal, if the streams of its shard did  *)
(* not push at the same time: Push takes no slot that holds an event.        *)
THEOREM AckedIsHeld == Spec => []AckedHeld
<1>1. IInv => AckedHeld
  BY DEF IInv
<1> QED
  BY <1>1, Invariant, PTL

(* When Stop returns, what was acknowledged before it is in a block or was   *)
(* lost by Seal, with the same proviso: Stop finds every writer that holds   *)
(* such an event in the map, and waits for its last Seal.                    *)
THEOREM StopSeals == Spec => []StopSealsAcked
<1>1. IInv => StopSealsAcked
  <2> SUFFICES ASSUME IInv, srv \in {"graceful", "stopped"}, NEW e \in ackedAtStop, OneProducer(e)
               PROVE  e \in Gone
    BY DEF StopSealsAcked, Gone
  <2> QED
    BY DEF IInv, Stopping, Up
<1> QED
  BY <1>1, Invariant, PTL
=============================================================================
