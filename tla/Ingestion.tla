----------------------------- MODULE Ingestion -----------------------------
(***************************************************************************)
(* The gRPC ingestion service and the shutdown of the server: streams that *)
(* write batches concurrently (internal/grpc/ingestion_server.go), the map *)
(* of shard writers they share, and the sequence Stop, GracefulStop, Close *)
(* (internal/grpc/server.go, internal/server/server.go).                   *)
(*                                                                         *)
(* Streams push into the ring of a writer without a lock, so a Push is two *)
(* steps here: the loads, and the slot and the store.  (RingBuf has every  *)
(* access as a step, and the wrap-around of the counters.)  The writer     *)
(* goroutine pops, and seals as in module Shard, which ShardWriter is      *)
(* shown to implement: a memtable becomes a block, with the loss of an     *)
(* earlier block of the same hour, or is discarded.                        *)
(* A batch has at most one event per shard.                                *)
(***************************************************************************)
EXTENDS Integers, FiniteSets

CONSTANTS
    Streams,        \* client streams
    Shards,
    RingBufSize,    \* capacity of a writer's ring buffer, rounded up
    MaxBlockRows,   \* rows of a memtable that is sealed within its hour
    MaxBatches,     \* bound: batches received, numbered from 1
    MaxWriters,     \* bound: writers made for a shard
    MaxPos,         \* bound: ring positions, for a DrainAll that does not end
    MaxHour,        \* bound: hours that pass
    MaxFaults       \* bound: Seals that fail

ASSUME BatchesAssumption == MaxBatches \in Nat
ASSUME RingAssumption == RingBufSize \in Nat \ {0}
ASSUME WritersAssumption == MaxWriters \in Nat
ASSUME HoursAssumption == MaxHour \in Nat

\* The writers made for a shard are numbered.
Writer == Shards \X (1..MaxWriters)

NoWriter == <<>>
NoShard == <<>>
NoEvent == <<>>

\* The event for a shard in a batch.
Event == (1..MaxBatches) \X Shards

Hours == 0..MaxHour

VARIABLES
    spc,        \* per stream: where Write and handleBatch are
    sent,       \* batches received
    num,        \* per stream: the number of its current batch
    batch,      \* per stream: shards of the current batch
    left,       \* per stream: shards of the batch not yet written
    cur,        \* per stream: the shard at hand
    hold,       \* per stream: the writer getOrCreateWriter returned
    phead,      \* per stream: the head that its Push loaded
    writers,    \* the map: shard -> writer
    made,       \* per shard: writers made for it
    wstate,     \* per writer: "none", "running", "stopping" (stopCh closed), "done"
    buf,        \* per writer: the slots of its ring
    head, tail, \* per writer: next write and next read position of its ring
    mem,        \* per writer: what it has popped and not sealed
    openedAt,   \* per writer: the hour of its memtable, and so its BlockID
    block,      \* per shard and BlockID: the rows of the committed block
    hour,       \* the clock
    srv,        \* the server's lifecycle
    snap,       \* the writers Stop found in the map
    acked,      \* history: events of batches answered without error
    ackedAtStop,\* history: those answered before Stop read the map
    raced,      \* history: shards whose ring two streams pushed into at once
    lost,       \* history: rows of discarded memtables and of replaced blocks
    faults      \* Seals that have failed

handlerVars == <<spc, num, batch, left, cur, hold, phead>>
mapVars == <<writers, made>>
ringVars == <<buf, head, tail, raced>>
sealVars == <<mem, openedAt, block, lost, faults>>
writerVars == <<mapVars, wstate, ringVars, sealVars>>
serverVars == <<srv, snap, ackedAtStop>>
vars == <<sent, handlerVars, writerVars, serverVars, hour, acked>>

Init ==
    /\ spc = [s \in Streams |-> "closed"] /\ num = [s \in Streams |-> 0]
    /\ batch = [s \in Streams |-> {}] /\ left = [s \in Streams |-> {}]
    /\ cur = [s \in Streams |-> NoShard]
    /\ hold = [s \in Streams |-> NoWriter] /\ phead = [s \in Streams |-> 0]
    /\ writers = [x \in Shards |-> NoWriter] /\ made = [x \in Shards |-> 0]
    /\ wstate = [w \in Writer |-> "none"]
    /\ buf = [w \in Writer |-> [i \in 0..RingBufSize - 1 |-> NoEvent]]
    /\ head = [w \in Writer |-> 0] /\ tail = [w \in Writer |-> 0]
    /\ mem = [w \in Writer |-> {}] /\ openedAt = [w \in Writer |-> 0]
    /\ snap = {}
    /\ block = [x \in Shards |-> [h \in Hours |-> {}]]
    /\ hour = 0 /\ srv = "serving"
    /\ sent = 0 /\ faults = 0
    /\ acked = {} /\ ackedAtStop = {} /\ raced = {} /\ lost = {}

Up == srv # "closed"
-----------------------------------------------------------------------------
(* A stream: IngestionServer.Write and handleBatch. *)

\* GracefulStop refuses new streams.
Open(s) ==
    /\ srv \in {"serving", "waiting"} /\ spc[s] = "closed"
    /\ spc' = [spc EXCEPT ![s] = "recv"]
    /\ UNCHANGED <<sent, num, batch, left, cur, hold, phead, writerVars, serverVars, hour, acked>>

\* io.EOF, or an error of the connection.
Close(s) ==
    /\ Up /\ spc[s] = "recv"
    /\ spc' = [spc EXCEPT ![s] = "closed"]
    /\ UNCHANGED <<sent, num, batch, left, cur, hold, phead, writerVars, serverVars, hour, acked>>

Recv(s, shards) ==
    /\ Up /\ spc[s] = "recv" /\ sent < MaxBatches
    /\ sent' = sent + 1
    /\ num' = [num EXCEPT ![s] = sent + 1]
    /\ batch' = [batch EXCEPT ![s] = shards]
    /\ left' = [left EXCEPT ![s] = shards]
    /\ spc' = [spc EXCEPT ![s] = "next"]
    /\ UNCHANGED <<cur, hold, phead, writerVars, serverVars, hour, acked>>

\* An event_type above 255: the whole batch is answered with an error.
RecvInvalid(s) == Up /\ spc[s] = "recv" /\ UNCHANGED vars

\* getOrCreateWriter, under RLock.  The shards come in the order of a map.
Lookup(s, x) ==
    /\ Up /\ spc[s] = "next" /\ x \in left[s]
    /\ cur' = [cur EXCEPT ![s] = x]
    /\ hold' = [hold EXCEPT ![s] = writers[x]]
    /\ spc' = [spc EXCEPT ![s] = IF writers[x] = NoWriter THEN "create" ELSE "push"]
    /\ UNCHANGED <<sent, num, batch, left, phead, writerVars, serverVars, hour, acked>>

\* handleBatch returns, and its local variables are gone.
Return(s, pc) ==
    /\ spc' = [spc EXCEPT ![s] = pc]
    /\ num' = [num EXCEPT ![s] = 0]
    /\ batch' = [batch EXCEPT ![s] = {}] /\ left' = [left EXCEPT ![s] = {}]
    /\ cur' = [cur EXCEPT ![s] = NoShard] /\ hold' = [hold EXCEPT ![s] = NoWriter]

NewShardWriter(s, x) ==
    /\ made[x] < MaxWriters
    /\ made' = [made EXCEPT ![x] = @ + 1]
    /\ writers' = [writers EXCEPT ![x] = <<x, made[x] + 1>>]
    /\ hold' = [hold EXCEPT ![s] = <<x, made[x] + 1>>]
    /\ wstate' = [wstate EXCEPT ![<<x, made[x] + 1>>] = "running"]
    /\ openedAt' = [openedAt EXCEPT ![<<x, made[x] + 1>>] = hour]

\* Mutant: no second look at the map.
Create_NoRecheck(s) ==
    /\ Up /\ spc[s] = "create"
    /\ NewShardWriter(s, cur[s])
    /\ spc' = [spc EXCEPT ![s] = "push"]
    /\ UNCHANGED <<sent, num, batch, left, cur, phead, ringVars, mem, block, lost, faults,
                   serverVars, hour, acked>>

\* getOrCreateWriter, under Lock.
Create(s) ==
    /\ Up /\ spc[s] = "create"
    /\ IF writers[cur[s]] = NoWriter
         THEN NewShardWriter(s, cur[s])
         ELSE /\ hold' = [hold EXCEPT ![s] = writers[cur[s]]]
              /\ UNCHANGED <<mapVars, wstate, openedAt>>
    /\ spc' = [spc EXCEPT ![s] = "push"]
    /\ UNCHANGED <<sent, num, batch, left, cur, phead, ringVars, mem, block, lost, faults,
                   serverVars, hour, acked>>

\* head - tail < len(buf), of two uint64: a head behind the tail leaves no room.
Room(w) == head[w] - tail[w] \in 0..RingBufSize - 1

\* ShardWriter.Write: Push loads head and tail.  No lock keeps another stream
\* out, and a stopped writer's ring takes events as well.
PushLoad(s) ==
    /\ Up /\ spc[s] = "push" /\ Room(hold[s])
    /\ phead' = [phead EXCEPT ![s] = head[hold[s]]]
    /\ raced' = raced \cup {cur[r] : r \in {r \in Streams : spc[r] = "store" /\ hold[r] = hold[s]}}
    /\ spc' = [spc EXCEPT ![s] = "store"]
    /\ UNCHANGED <<sent, num, batch, left, cur, hold, mapVars, wstate, buf, head, tail, sealVars,
                   serverVars, hour, acked>>

\* Push writes the slot and stores the head it loaded, plus one.
PushStore(s) ==
    /\ Up /\ spc[s] = "store"
    /\ buf' = [buf EXCEPT ![hold[s]][phead[s] % RingBufSize] = <<num[s], cur[s]>>]
    /\ head' = [head EXCEPT ![hold[s]] = phead[s] + 1]
    /\ left' = [left EXCEPT ![s] = @ \ {cur[s]}]
    /\ cur' = [cur EXCEPT ![s] = NoShard] /\ hold' = [hold EXCEPT ![s] = NoWriter]
    /\ phead' = [phead EXCEPT ![s] = 0]
    /\ spc' = [spc EXCEPT ![s] = "next"]
    /\ UNCHANGED <<sent, num, batch, mapVars, wstate, tail, raced, sealVars, serverVars, hour,
                   acked>>

\* The stream's context ends while Push waits for room; the error response
\* of the batch can no longer be sent.
Cancel(s) ==
    /\ Up /\ spc[s] = "push" /\ ~Room(hold[s])
    /\ Return(s, "closed")
    /\ UNCHANGED <<sent, phead, writerVars, serverVars, hour, acked>>

\* Mutant: the answer does not wait for the writes.
Send_Early(s) ==
    /\ Up /\ spc[s] = "next"
    /\ acked' = acked \cup {<<num[s], x>> : x \in batch[s]}
    /\ Return(s, "recv")
    /\ UNCHANGED <<sent, phead, writerVars, serverVars, hour>>

Send(s) ==
    /\ Up /\ spc[s] = "next" /\ left[s] = {}
    /\ acked' = acked \cup {<<num[s], x>> : x \in batch[s]}
    /\ Return(s, "recv")
    /\ UNCHANGED <<sent, phead, writerVars, serverVars, hour>>

SendFails(s) ==
    /\ Up /\ spc[s] = "next" /\ left[s] = {}
    /\ Return(s, "closed")
    /\ UNCHANGED <<sent, phead, writerVars, serverVars, hour, acked>>

Handle(s) == Create(s) \/ PushLoad(s) \/ PushStore(s) \/ Send(s) \/ \E x \in Shards : Lookup(s, x)

Client(s) ==
    \/ Open(s) \/ Close(s) \/ RecvInvalid(s) \/ Cancel(s) \/ SendFails(s)
    \/ \E shards \in SUBSET Shards \ {{}} : Recv(s, shards)
-----------------------------------------------------------------------------
(* A writer goroutine: run and flushAndMaybeSeal. *)

\* Mutant: a full ring is taken for an empty one.
Pop_FullIsEmpty(w) ==
    /\ Up /\ wstate[w] \in {"running", "stopping"}
    /\ (head[w] - tail[w]) % RingBufSize # 0 /\ tail[w] < MaxPos
    /\ mem' = [mem EXCEPT ![w] = @ \cup {buf[w][tail[w] % RingBufSize]}]
    /\ tail' = [tail EXCEPT ![w] = @ + 1]
    /\ UNCHANGED <<sent, handlerVars, mapVars, wstate, buf, head, raced, openedAt, block, lost,
                   faults, serverVars, hour, acked>>

\* One Pop of DrainAll, and the Append of its event to the memtable, which
\* only this goroutine uses.  With the head behind the tail there is no end.
Pop(w) ==
    /\ Up /\ wstate[w] \in {"running", "stopping"}
    /\ tail[w] # head[w] /\ tail[w] < MaxPos
    /\ mem' = [mem EXCEPT ![w] = @ \cup {buf[w][tail[w] % RingBufSize]}]
    /\ tail' = [tail EXCEPT ![w] = @ + 1]
    /\ UNCHANGED <<sent, handlerVars, mapVars, wstate, buf, head, raced, openedAt, block, lost,
                   faults, serverVars, hour, acked>>

\* sealCurrent: Put replaces a block of the same BlockID, also if Seal fails after
\* it; any other Seal that fails leaves the blocks as they are.  The memtable is
\* gone either way.
sealCurrent(w) ==
    /\ \/ /\ block' = [block EXCEPT ![w[1]][openedAt[w]] = mem[w]]
          /\ lost' = lost \cup block[w[1]][openedAt[w]]
          /\ UNCHANGED faults
       \/ /\ faults < MaxFaults
          /\ faults' = faults + 1
          /\ lost' = lost \cup mem[w]
          /\ UNCHANGED block
    /\ mem' = [mem EXCEPT ![w] = {}]
    /\ openedAt' = [openedAt EXCEPT ![w] = hour]

\* A flush by the ticker that has drained the ring.
Seal(w) ==
    /\ Up /\ wstate[w] \in {"running", "stopping"} /\ tail[w] = head[w] /\ mem[w] # {}
    /\ openedAt[w] # hour \/ Cardinality(mem[w]) >= MaxBlockRows
    /\ sealCurrent(w)
    /\ UNCHANGED <<sent, handlerVars, mapVars, wstate, ringVars, serverVars, hour, acked>>

\* The flush on stopCh, after which the goroutine ends.
FinalSeal(w) ==
    /\ Up /\ wstate[w] = "stopping" /\ tail[w] = head[w]
    /\ IF mem[w] = {} THEN UNCHANGED sealVars ELSE sealCurrent(w)
    /\ wstate' = [wstate EXCEPT ![w] = "done"]
    /\ UNCHANGED <<sent, handlerVars, mapVars, ringVars, serverVars, hour, acked>>

Tick ==
    /\ Up /\ hour < MaxHour
    /\ hour' = hour + 1
    /\ UNCHANGED <<sent, handlerVars, writerVars, serverVars, acked>>
-----------------------------------------------------------------------------
(* Shutdown, once the context of Server.Run is cancelled. *)

\* IngestionServer.Stop: the writers in the map, under Lock.
StopBegin ==
    /\ srv = "serving"
    /\ srv' = "waiting"
    /\ snap' = {writers[x] : x \in Shards} \ {NoWriter}
    /\ ackedAtStop' = acked
    /\ UNCHANGED <<sent, handlerVars, writerVars, hour, acked>>

StopWriter(w) ==
    /\ Up /\ w \in snap /\ wstate[w] = "running"
    /\ wstate' = [wstate EXCEPT ![w] = "stopping"]
    /\ UNCHANGED <<sent, handlerVars, mapVars, ringVars, sealVars, serverVars, hour, acked>>

\* Mutant: Stop does not wait for the writers.
StopEnd_NoWait ==
    /\ srv = "waiting"
    /\ srv' = "graceful"
    /\ UNCHANGED <<sent, handlerVars, writerVars, snap, ackedAtStop, hour, acked>>

StopEnd ==
    /\ srv = "waiting" /\ \A w \in snap : wstate[w] = "done"
    /\ srv' = "graceful"
    /\ UNCHANGED <<sent, handlerVars, writerVars, snap, ackedAtStop, hour, acked>>

\* GracefulStop returns when every stream has ended.
GracefulStop ==
    /\ srv = "graceful" /\ \A s \in Streams : spc[s] = "closed"
    /\ srv' = "stopped"
    /\ UNCHANGED <<sent, handlerVars, writerVars, snap, ackedAtStop, hour, acked>>

\* Serve returns an error: Run ends without stopping the writers.
ServeFails ==
    /\ srv = "serving"
    /\ srv' = "failed"
    /\ UNCHANGED <<sent, handlerVars, writerVars, snap, ackedAtStop, hour, acked>>

\* Mutant: Run waits for its goroutines without a timeout.
RunEnds_NoTimeout == srv \in {"stopped", "failed"} /\ srv' = "closed"

\* Server.Run: the goroutines have ended, or the timeout of the shutdown.
RunEnds == srv \in {"waiting", "graceful", "stopped", "failed"} /\ srv' = "closed"

\* Shutdown closes pebble and the process ends; what it had in memory is gone.
Shutdown ==
    /\ RunEnds
    /\ spc' = [s \in Streams |-> "closed"] /\ num' = [s \in Streams |-> 0]
    /\ batch' = [s \in Streams |-> {}] /\ left' = [s \in Streams |-> {}]
    /\ cur' = [s \in Streams |-> NoShard]
    /\ hold' = [s \in Streams |-> NoWriter] /\ phead' = [s \in Streams |-> 0]
    /\ writers' = [x \in Shards |-> NoWriter] /\ made' = [x \in Shards |-> 0]
    /\ wstate' = [w \in Writer |-> "none"]
    /\ buf' = [w \in Writer |-> [i \in 0..RingBufSize - 1 |-> NoEvent]]
    /\ head' = [w \in Writer |-> 0] /\ tail' = [w \in Writer |-> 0]
    /\ mem' = [w \in Writer |-> {}] /\ openedAt' = [w \in Writer |-> 0]
    /\ snap' = {}
    /\ UNCHANGED <<sent, raced, block, lost, faults, ackedAtStop, hour, acked>>
-----------------------------------------------------------------------------
Next ==
    \/ \E s \in Streams : Client(s) \/ Handle(s)
    \/ \E w \in Writer : Pop(w) \/ Seal(w) \/ FinalSeal(w) \/ StopWriter(w)
    \/ StopBegin \/ StopEnd \/ GracefulStop \/ ServeFails \/ Shutdown \/ Tick

Spec == Init /\ [][Next]_vars

Work == (\E s \in Streams : Handle(s)) \/ (\E w \in Writer : Pop(w))

\* Some handler or writer that can go on does, and the timer of Run fires once
\* the context is cancelled.  This is less than the Go scheduler gives, which
\* runs every goroutine, and enough, since batches are bounded.  Nothing is
\* assumed of the clients.  A step of Work changes spc or tail, and Next sets
\* srv to "closed" in Shutdown only, so the two conditions are fairness of
\* these actions.
FairSpec == Spec /\ WF_<<spc, tail>>(Work) /\ WF_srv(srv # "failed" /\ RunEnds)
-----------------------------------------------------------------------------
(* Every variable of the service stays within its type. *)
TypeOK ==
    /\ spc \in [Streams -> {"recv", "next", "create", "push", "store", "closed"}]
    /\ sent \in 0..MaxBatches /\ num \in [Streams -> 0..MaxBatches]
    /\ batch \in [Streams -> SUBSET Shards] /\ left \in [Streams -> SUBSET Shards]
    /\ cur \in [Streams -> Shards \cup {NoShard}]
    /\ hold \in [Streams -> Writer \cup {NoWriter}] /\ phead \in [Streams -> Nat]
    /\ \A s \in Streams : spc[s] \in {"push", "store"} => hold[s] \in Writer
    /\ writers \in [Shards -> Writer \cup {NoWriter}] /\ made \in [Shards -> 0..MaxWriters]
    /\ wstate \in [Writer -> {"none", "running", "stopping", "done"}]
    /\ buf \in [Writer -> [0..RingBufSize - 1 -> Event \cup {NoEvent}]]
    /\ head \in [Writer -> Nat] /\ tail \in [Writer -> Nat]
    /\ mem \in [Writer -> SUBSET (Event \cup {NoEvent})]
    /\ openedAt \in [Writer -> Hours] /\ hour \in Hours
    /\ block \in [Shards -> [Hours -> SUBSET (Event \cup {NoEvent})]]
    /\ lost \subseteq Event \cup {NoEvent} /\ faults \in Nat
    /\ acked \subseteq Event /\ ackedAtStop \subseteq acked /\ raced \subseteq Shards
    /\ srv \in {"serving", "waiting", "graceful", "stopped", "failed", "closed"}
    /\ snap \subseteq Writer

\* What the ring holds.
InRing(w) == {buf[w][i % RingBufSize] : i \in tail[w]..head[w] - 1}

Sealed == UNION {UNION {block[x][h] : h \in Hours} : x \in Shards}

\* No two streams have pushed into the ring of the event's shard at once: the
\* ring buffer is written for one producer (see PopsInOrder of RingBuf).
OneProducer(e) == e[2] \notin raced

(* Streams that race to the first event of a shard end up with one writer:   *)
(* two would hand out the same WAL sequence numbers and BlockIDs.            *)
OneWriterPerShard ==
    \A v, w \in Writer : wstate[v] # "none" /\ wstate[w] # "none" /\ v[1] = w[1] => v = w

(* What was acknowledged before Stop read the map has been through Seal when *)
(* Stop returns, however many streams and writers there are: it is in a      *)
(* committed block, or was lost to a Seal that failed or to a later block    *)
(* with the same BlockID.  It is not left in a ring or a memtable.  Said of  *)
(* shards whose streams did not push at the same time.                       *)
StopSealsAcked ==
    srv \in {"graceful", "stopped"} =>
        \A e \in ackedAtStop : OneProducer(e) => e \in Sealed \cup lost

(* While the process runs, an acknowledged event is in a ring, a memtable or *)
(* a committed block, or was lost to a Seal that failed or to a later block  *)
(* with the same BlockID, provided the streams of its shard did not push at  *)
(* the same time.                                                            *)
AckedHeld ==
    Up => \A e \in acked : OneProducer(e) =>
        e \in Sealed \cup lost \cup UNION {InRing(w) \cup mem[w] : w \in Writer}

(* The same without the proviso on the streams: two streams that load the    *)
(* same head write the same slot.                                            *)
AckedHeldAlways ==
    Up => acked \subseteq Sealed \cup lost \cup UNION {InRing(w) \cup mem[w] : w \in Writer}

(* gRPC Run: the writers are sealed first, to guarantee the durability of    *)
(* the data regardless of when clients disconnect.  So after a graceful stop *)
(* every acknowledged event is in a sealed block, unless a Seal lost it.     *)
AckedDurable == srv = "stopped" => \A e \in acked : OneProducer(e) => e \in Sealed \cup lost

(* Backpressure ends: while serving, a handler gets through its batch, if no *)
(* ring was pushed into by two streams at once.                              *)
BatchAnswered ==
    \A s \in Streams :
        spc[s] = "push" ~> spc[s] \in {"recv", "closed"} \/ srv # "serving" \/ raced # {}

(* The server shuts down, whatever the clients do and even if a writer never *)
(* ends.                                                                     *)
ShutdownEnds == srv = "waiting" ~> srv = "closed"
=============================================================================
