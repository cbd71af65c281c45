# A TLA+ model of BBDB

BBDB is an append-only event store. gRPC streams write batches of events; each
event goes to a shard; a shard's writer goroutine moves events from a ring
buffer to a write-ahead log (WAL) and a memtable, and seals the memtable into an
immutable block file with a bloom filter, index keys, metadata and an expiry
key. A reaper and a janitor delete expired blocks. Queries go from the index
over the bloom cache and the metadata to the block files, and stream the merged
rows back.

This directory models those parts in TLA+, checks them with TLC on small
instances, and proves with TLAPS, for every value of the constants, the safety of
the ring buffer, the write path, the TTL loops, these two together, the ingestion
service, queries beside the writer and beside the TTL loops, the read path from
the bytes of a block file to the client, and the metadata store from the bytes of
its keys to what each shard sees. `PROJECT.json` has the
machine-readable side: which lines each definition models, the runs, the
mutants, the findings, the hazards and the theorems.

## Inventory

| Part | Source (`src/`) | Module |
|---|---|---|
| Ring buffer | `internal/ingestion/ringbuf.go` | `RingBuf`, `BoundedFIFO` (abstract), `RingBuf_proofs` |
| Shard writer, memtable, sealer | `internal/ingestion/writer.go`, `internal/block/{sealer,memtable}.go` | `ShardWriter`, `Shard` (abstract), `ShardWriter_proofs` |
| What one shard stores | `internal/meta`, `internal/tier/local.go` | `Storage` |
| Metadata store, WAL recovery, migration state | `internal/meta` | `MetaStore`, `MetaStore_lemmas`, `MetaStore_proofs` |
| Block file format, memtable columns | `internal/block/{format,memtable}.go` | `BlockFormat`, `ReadPath_proofs` |
| Block files in the tiers | `internal/block/sealer.go`, `internal/tier/local.go` | `BlockFile` |
| Reaper and janitor | `internal/ttl` | `TTL`, `TTL_proofs` |
| Writer beside the TTL loops | `internal/server/server.go` | `ShardTTL`, `TTL_proofs` |
| Ingestion service, shutdown | `internal/grpc/{ingestion_server,server}.go`, `internal/server/server.go` | `Ingestion`, `Ingestion_proofs` |
| Index, bloom cache, query engine | `internal/index`, `internal/query/query.go` | `Query` |
| Queries beside the writer / beside the TTL loops | | `WriterQuery`, `TTLQuery`, `Query_proofs` |
| Block reader, merge and query service | `internal/query/{block_reader,merger}.go`, `internal/grpc/query_server.go` | `ReadPath`, `QueryStream`, `ReadPath_proofs` |
| Authentication, request IDs, configuration, logging, `main` | | not modelled |

`MCxxx` modules give TLC the constants that are functions or sets of records;
the `.cfg` files give the others their values.

The parts meet in two places. Everything durable of a shard is `Storage`, which
`ShardWriter`, `TTL` and `Query` extend, so that `ShardTTL`, `WriterQuery` and
`TTLQuery` compose them over the same keys and files. Below it, `MetaStore`
shows that one ordered key space for all shards gives each of them the keys that
`Storage` has, and `BlockFormat`, `BlockFile` and `ReadPath` show that a block
file with its real layout gives readers the rows that `Query` takes from it.

## Modules

**RingBuf.** One step is one atomic load, atomic store or plain slot access of
`Push` or `Pop`. `head` and `tail` are counters modulo `CounterMod` (2^64 in the
code), so that wrap-around happens within the bounds. `Producers` is a
parameter: the type is written for one producer.

**Storage.** The state outside the process, for one shard. A BlockID is the hour
at which the block was opened. `idx` is what readers see of the index,
`idxSynced` what survives a crash: the index is written with `NoSync`, and any
later `Sync` commit makes it durable because pebble's log is sequential. A block
file appears whole (rename); a bloom file is created under its final name and
then filled (`torn` in between). `PebbleSpec` is what the keys alone may do.

**MetaStore.** All shards in one pebble database: keys are byte strings built as
in `keys.go`, every scan is a range of keys between the bounds the code
computes, and `db` and `disk` are what readers see and what survives a crash. A
byte is a digit of base `Base`, so that carries and ends of ranges come up with
small numbers; a number of eight bytes is two of four, and so on. `seen` records
what the functions that read return, and `ImplementsStorage` maps it, for each
shard, to `Storage`.

**ShardWriter.** `Select` is the `select` of `run`; `DrainAll`, `FlushNextSeq`,
`FlushEvent`, `NothingToSeal` and `SealStart` are `flushAndMaybeSeal`; the
`Seal...` actions are the durable effects of `block.Seal` in order, each of
which may fail (`MaxFaults`) with the clean-up of its error path, followed by
the end of `sealCurrent`, which discards the memtable either way. `Crash` may
come between any two steps; `Start` opens a new process, without WAL replay, as
in the code. Rows are sets, since nothing here depends on their order. The
ring is the queue that `RingBuf` implements for one producer.

**Shard.** What the write path promises: an event is accepted, inserted into the
memtable, and becomes visible with all of its memtable at once. What it does not
promise is there too: `Replace` (a later memtable takes the place of a block),
`Discard` (a failed Seal) and `Lose` (the end of the process).

**BlockFormat.** The memtable's columns, their sort, and the file made of them:
header, compressed columns with their length prefixes, and footer, with the sizes
and offsets of the code. A file is a sequence of sections; a byte range that is
not exactly a section does not decode. zstd is external: only the length of its
output matters (`ZstdLen`).

**BlockFile.** The files of the hot and the warm tier under `Seal` (temporary
file, sync, rename), `LocalStore.Delete` and `LocalStore.Migrate`, with failing
calls, and crashes of the machine that cut a file that was not synced. `last` is
the memtable a block was put with last, and `crossed` has the blocks that Seal
put while `Migrate` was moving them: the copy that goes to the other tier is
then the older one, and the delete that follows removes the newer.

**ReadPath.** `ReadBlock`, one goroutine per block and at most `MaxParallel`,
each read of the open file a step, over the files of `BlockFile`; then
`QueryStream`: `MergeEvents` pops a least row, any one among equals, and
`QueryServer.Query` sends batches. Every `Send` may fail.

**TTL.** Both `RunOnce` loops, one pebble or file operation per step, each
working on its own scan of the expiry keys. `ReadError` is a `GetBlockMeta`
that fails although the block has metadata. `ShardTTL` composes them with
`ShardWriter` over the same storage.

**Ingestion.** Streams run `handleBatch` and `getOrCreateWriter` with its two
lock sections. `Push` is two steps, the loads and the store, with nothing that
keeps another stream out of the same ring; `raced` has the shards where this
happened. A writer goroutine pops, seals when the hour has changed or the
memtable is large (`Seal`) and once more on Stop (`FinalSeal`). What `sealCurrent`
does is what `Shard` allows: the memtable becomes the block of its hour, in the
place of an earlier one, or is discarded (`MaxFaults`); `lost` has the rows of
both. The server goes through `Stop`, `GracefulStop` and `Shutdown`, or through
`ServeFails`.

**Query.** One query at a time: lookup, bloom test (cached or loaded), metadata,
then readers, at most `MaxParallel` at once. An error of the filter or of the
metadata ends the query (`QueryTestFails`, `QueryMetaFails`). The cache counts filters instead of
bytes. A bloom test of an absent key may answer either way.

## Runs

Passing runs:

| Run | Shows | Bounds |
|---|---|---|
| `ringbuf_spsc` | FIFO order, no overwritten or raced slot, refinement of `BoundedFIFO`, progress | 2 slots, counters modulo 4, 7 pushes: the counters wrap and the ring is full and empty repeatedly |
| `shardwriter` | events are accounted for; the WAL covers the memtable; committed blocks are complete; Stop seals; blocks sealed after their hour are final; refinement of `Shard` | 3 events (two share a key), 3 hours, 1 fault, 2 process lifetimes: a block is sealed by hour, by size and by Stop, twice in one hour, and across a restart |
| `shardwriter_live` | the ring drains, a row whose hour has passed is committed or lost to a failing or a later Seal, Stop returns | 2 events, 2 hours, 1 fault |
| `ttl` | only expired blocks are touched, no block file loses its keys, all expired blocks are reclaimed | 4 hours, retention 2, 1 error, 1 crash |
| `shardttl` | unexpired blocks readable, every block has an expiry key | 2 events, 3 hours, retention 1, 1 read error, 1 lifetime |
| `ingestion` | one writer per shard, acknowledged events held, Stop brings them through Seal, batches get answered, shutdown ends | 2 streams, 1 shard, ring of 1, 2 batches, 2 hours, blocks of 1 row, 1 failing Seal: both streams race for the writer and for the ring, a second Seal replaces the first one's block |
| `writerquery` | committed rows in range are found, opens succeed, cache limit | 2 events that carry the hour of their arrival, 2 hours, 2 lifetimes, 2 queries, cache of 1 |
| `ttlquery` | unexpired rows are found, only expiry makes a query fail | 3 hours, timestamps of any hour, 2 queries, 1 crash |
| `readpath` | the memtable sealed last is whole in one tier; a reader returns the matching rows of one version; a file under its final name decodes; the rows reach the client once, in order, with one terminal message | 3 blocks, 3 memtables (unsorted, equal, empty-payload and out-of-range rows), 4 calls of Seal, Delete, Migrate or crashes, batches of 2: results on and off a batch boundary |
| `metastore` | WAL scans are whole and in order, migrations are found, refinement of `Storage` by each shard | bytes of two values, 2 shards with a carry between them, 3 sequence numbers per shard, 3 keys beside the counters, blocks of 2 hours |

The safety properties of `ingestion` were also checked with 2 shards and with 3
batches (up to 2.2 million states); its run has one shard, which keeps the
liveness properties affordable, and the theorems are about any number.

`CHECK_DEADLOCK FALSE` is set where the system may stop for good (a process that
is down and not started again, a handler that has returned, a clock and a supply
of events that end at their bound). Every property of a passing run has a
mutant, a plausible bug in a mapped definition, under which TLC finds it violated.

Runs that end in a violation show where the code differs from what its
documentation says; the quotes are in `PROJECT.json`:

| Run | What happens |
|---|---|
| `ringbuf_mpsc` | two streams of one shard share a single-producer ring, and accepted events are lost or come out twice |
| `shardwriter_append_only` | a second seal in the same hour has the same BlockID and replaces the first block |

Further disagreements are stated as properties in the modules without a run of
their own. Each is violated when it replaces the properties of the named
configuration:

| Property | Configuration | What happens |
|---|---|---|
| `LoggedRecoverable` | `shardwriter.cfg` | WAL entries of a crashed process are deleted by the next seal (`internal/meta/seal.go:10`), although they "must be replayed by the caller" (`internal/meta/recovery.go:10`) |
| `AckedDurable` | `ingestion.cfg` | batches acknowledged after Stop are in no block, although `internal/grpc/server.go:58` seals first "to guarantee data durability regardless of client disconnect timing" |
| `AckedHeldAlways` | `ingestion.cfg` | two streams load the same head of a ring and an acknowledged event is overwritten (`internal/ingestion/ringbuf.go:10`: "single-producer") |
| `LastKept` | `readpath.cfg` | `Migrate` deletes the file that Seal put after the copy was made (`internal/tier/local.go:97`), although it "copies the block to dst tier via a temp file, then deletes from src" (`internal/tier/local.go:78`) |
| `QueryFindsMatching` | `writerquery.cfg` | a committed row in range is missed because its block has another hour (`internal/index/index.go:47`: "Block covers [blockHour, blockHour+1h)") |
| `CacheCurrent` | `writerquery.cfg` | a cached filter is stale after its block is sealed again |
| `RetentionKept` | `shardttl.cfg`, `MaxReadErrors = 0` | a block of an idle shard carries an old hour and expires early |
| `DeletedWhole` | `shardttl.cfg`, `MaxReadErrors = 0` | a BlockID sealed again during its deletion loses its metadata and keeps its file |
| `FilesReclaimed` | `ttl.cfg` | the janitor takes a half-deleted block for an orphan, and after a crash the bloom file stays |
| `ExpiredReclaimed` | `ttl.cfg`, `MaxReadErrors = 1` | a read error is taken for absence and the block file is leaked |

The passing properties are stated so that they exclude exactly these cases:
blocks in `reused` (two seals used the BlockID) or `early` (sealed within their
hour), blocks whose hour is outside the range asked for (`InRange`), events
acknowledged after Stop began (`ackedAtStop`), shards into whose ring two streams
pushed at once (`raced`), and blocks that Seal put while `Migrate` moved them
(`crossed`). A row in `Lost` (`lost` in `Ingestion`) is one that the code gives
up: its Seal failed, and `sealCurrent` discards the memtable all the same, or a
later Seal with the same BlockID replaced its block. `Accounted`, `HourSealed`,
`StopSeals`, `AckedHeld` and `StopSealsAcked` say that rows are lost in no other
way, not that these are not lost.

Reading the code for the model also showed, outside what the properties say:

* the end of the WAL range of shard 0xffff wraps to the start of shard 0's, so
  `WALScan` of that shard returns nothing, against `internal/meta/wal.go:41`;
  `ShardAssumption` leaves that shard out;
* a retention of less than an hour counts as none given, and the default of five
  years is taken (`internal/block/sealer.go:145`);
* `src/README.md` gives the footer 48 bytes and a delta encoding; the code writes
  56 and encodes no deltas; `internal/meta/types.go:42` says xxHash32 where the
  checksum is CRC-32; no reader verifies the body checksum;
* `FindOrphanedWALShards` speaks of "no corresponding block metadata" and reads no
  metadata; `LocalStore.Migrate` moves no bloom file and changes no metadata;
* the event type that a query names is cut to eight bits
  (`internal/grpc/query_server.go:46`), where ingestion rejects a larger one;
* `WALNextSeq` "atomically increments" by a get and a set: this is right because
  a shard has one writer (`OneWriterPerShard`).

## Fairness

* `RingBuf`: weak fairness of `Pop` (the writer's ticker keeps draining) and of
  a producer inside `Push`. Nothing makes a client push.
* `ShardWriter`: weak fairness of the goroutine, and strong fairness of the
  stop case, because Go's `select` chooses at random among ready cases.
* `TTL`: weak fairness of both loops; their tickers fire as long as the process
  runs.
* `Ingestion`: weak fairness of the handlers and the popping writers taken
  together, and of the end of `Run` once its context is cancelled, which the
  shutdown timer brings about. That is less than the scheduler gives, which runs
  every goroutine, and enough, since batches are bounded. Nothing is assumed of
  clients.

Faults, errors and crashes are bounded, so they end; liveness is about what
happens after the last one.

## Proofs

TLC finds errors in small instances; the theorems hold for every value of the
constants. Each component's argument is the same: an inductive invariant,
one lemma per action that preserves it, and the properties as consequences. The
invariants of `ShardWriter`, `ShardTTL`, `Ingestion`, `WriterQuery`, `TTLQuery`,
`ReadPath` and `MetaStore` were also checked with TLC on the instances of their
runs.

**Ring buffer** (`RingBuf_proofs`): for one producer and every
capacity, counter width and number of pushes, `TypeOK`, `PopsInOrder`,
`PendingIntact`, `NoSlotRace` and the refinement of `BoundedFIFO`. The
assumptions are `SizeAssumption` (the counter modulus is a multiple of the
capacity and larger than it, as 2^64 is for a power of two) and
`PushAssumption`. `IInv` adds `head = Len(accepted) % CounterMod` and
`tail = Len(popped) % CounterMod`; that a producer past its load holds the
current `head` and, once past the full test, that there is room; that the
consumer's copy of `head` is the value at some moment since the last pop; and
that the event read is the next one due. The lemmas at the start of the module
have the facts about `%` they need.

**Write path** (`ShardWriter_proofs`): for any events, keys and limits and any
number of hours, failing writes and restarts, all the safety properties of the run `shardwriter` (`TypeOK`,
`Accounted`, `MemtableLogged`, `SealedComplete`, `StopSeals`,
`SealedOnTimeImmutable`) and the refinement of `Shard`. The assumptions are
`KeyAssumption`, `HourAssumption` and `LimitAssumption`. None of the properties
is inductive; `IInv` adds
  * `Places`: an event is in at most one of ring and batch, was pushed before it
    is anywhere, and is not logged before it leaves the batch;
  * `SeqFresh`: between `WALNextSeq` and the entry no WAL entry has the last
    number, so `WALSet` overwrites nothing;
  * `Phases`: what is empty when; in particular, once the flush that Stop forces
    has found the ring empty, only later pushes are in it;
  * `Written`: what the running Seal has written (bloom filter, file, index), and
    that a BlockID that is committed already counts as reused;
  * `InOrder`: the clock, `openedAt` and `sealedAt` are ordered, and every block
    attempted after its hour lies before the block now being written, which is
    why no later Seal reaches it.

In the refinement, the append to the memtable is `Insert`, the seal batch is
`Commit`, and `Put` is invisible unless the block is committed already, when it is
`Replace`.

**TTL loops** (`TTL_proofs`): for any retention and any number of errors and
crashes, `UnexpiredUntouched` and type correctness; and, when `GetBlockMeta`
never fails on a block that has metadata (`MaxReadErrors = 0`),
`BlockNotLeaked`. With such errors it does not hold (see the table above). The
assumptions are `HourAssumption` and `FaultAssumption`. `TTLInv` says that metadata
always has its expiry key (`Keyed`) and that both loops work only on entries that
are due (`Working`);
`FileFirst` adds that a loop about to delete keys has seen the file gone, and
that nothing brings it back.

**Writer and TTL loops together** (second half of `TTL_proofs`): on the same keys and
files, under the assumptions of the two and with read errors too,
`UnexpiredReadable` and `BlocksExpire`. The lemmas about a step of the loops hold
here as they stand. `SysInv` adds to their invariant that a committed BlockID on which a
Seal works counts as reused, and that what the running Seal has written is there
as long as its block is not expired: a loop may delete it afterwards.

**Ingestion service** (`Ingestion_proofs`): for any streams, shards, ring
capacity (`RingAssumption`), block size and number of batches
(`BatchesAssumption`), writers (`WritersAssumption`), hours (`HoursAssumption`)
and failing seals, `OneWriterPerShard`, `AckedHeld`, `StopSealsAcked` and type
correctness. `IInv` adds to them
  * `Mapped`: the map has exactly the writers that were made, so the second test
    under the lock is what makes them unique; `Holding`: a handler's writer is the
    one in the map; `Stored`: only writers that were made have events;
  * `Storing` and `Rings`: of a shard that is not `raced`, a stream between its
    loads and its store is alone, still has the current head, and there is room;
    so the slot it writes holds none of the events between tail and head
    (`SlotsApart`, a fact about `%`), and a ring has events of its shard only;
  * `Handling`: a handler inside a batch has handed over the events of the shards
    it is done with: they are in a ring, a memtable or a block, or lost;
  * `Stopping`: what was acknowledged before Stop and has not been through Seal is
    with a writer of its snapshot that is not done.

**Queries** (`Query_proofs`): for any events, keys, hours, retention, parallelism
(`ParallelAssumption`) and cache size (`CacheAssumption`), zero included. Beside
the writer, with failing seals, crashes and restarts: `QueryTypeOK`,
`CommittedFound` and `OpenSucceeds`. Beside the reaper and the janitor, for a
non-empty set of rows (`RowAssumption`): `QueryTypeOK`, `UnexpiredFound` and
`OpenFailsOnlyIfExpired`. A step of the composed system is, for the writer or the
loops, one of their own steps or a stutter (`QueriesHarmless`,
`TTLQueriesHarmless`), so their theorems are used as they stand. The invariants
add
  * `Tracked`: a row that must be found is in a block that the query still has to
    test, open or read, or is in the result, so no stage drops it;
  * `CacheFilled` beside the writer: a cached filter of a block sealed once has all
    keys of the block, because the filter is whole before the file has its name,
    and a block that no Seal has tried yet is not cached;
  * `Whole` and `TTLTracked` beside the loops: what the query still works on has
    expired or has its file, filter, metadata and index entries.

**Block format** (first part of `ReadPath_proofs`): `ImageDecodes`, for every memtable whose
payloads are shorter than 2^32 bytes and any compressed lengths that are not zero:
the reader's checks accept the file Seal writes, and the footer and the columns
decode to what was encoded. Under it is `PayloadsRoundTrip`, that
`DecompressBytesColumn` inverts `CompressBytesColumn`. What the recursive
definitions compute is shown by the least position at which it would be false
(`NatMin`, `UpTo`), which takes the place of an induction: the byte string of the
payloads from the i-th on starts where the ones before it end.

**Read path** (`ReadPath_proofs`): for any blocks (`BlocksAssumption`), memtables
(`BatchesAssumption`: payloads fit the 32 bits of their length; `ZstdAssumption`: a
compressed column is not empty), range, parallelism, batch size
(`BatchAssumption`) and number of calls and crashes, all the properties of the run
`readpath`. `ReadPathInv` has four parts:
  * `FileInv`: a file under its final name is the synced image of a sorted version
    of its block, so is the copy of a migration that is under way, and a block that
    is not reaped has one of them in a tier. A crash leaves such files as they are,
    which is what the sync before the rename is for;
  * `LastInv`: a file in the hot tier is an image of the memtable put last, and so
    is, unless Seal put the block meanwhile, the copy of a migration under way and,
    once the source is to be deleted, the file in the warm tier: the delete takes
    nothing that has no copy;
  * `ReaderInv`: what a reader has open is the image of one version, whatever
    happened to the name since; between its two reads its positions are those of
    the rows that match in that image; when it is done it has these rows, in the
    order of timestamps. `SealedFileDecodes` and `EventsOfVersion` take this from
    the block format and from the sort, which may put equal rows in any order;
  * `StreamInv`: the merged rows are those before `pos` in every slice, and none is
    later than a row still in the heap (`Popped`); the responses are the batches
    before `start`, and the last of them is marked exactly when it reaches the end
    of the result (`BatchesSent`).

**Metadata store** (`MetaStore_lemmas`, `MetaStore_proofs`): for any number of
values of a byte (`BaseAssumption`), any shards but the last one
(`ShardAssumption`: the end of its range wraps), any events and hashes
(`KeyAssumption`), hours (`HourAssumption`) and numbers that fit their eight bytes
(`NumberAssumption`), any number of calls by the shards in any order and a crash
between any two, all the properties of the run `metastore`: `ScanInSeqOrder`,
`MigrationsFound` and the refinement of `Storage` by every shard.

`MetaStore_lemmas` goes from the bytes to what a scan returns. A byte string is
joined from parts, and its order is decided by the first part that differs
(`JoinOrder`); from this big-endian numbers of two, four and eight bytes are in
the order of the numbers (`Order64`), WAL keys in that of the shards and then of
the sequence numbers (`WALKeyOrder`), and each parser returns what its key was
made of. Hence the bounds that the code computes enclose the keys they are meant
for (`WALRangeKeys`, `ExpiryRangeKeys`, `IdxRangeKeys`, `NameRange`), and in a
database that has only keys of the six kinds (`KeyInv`) a shard sees its own keys
and nothing else (`ViewForm`). `MetaStore_proofs` adds that the order in which
`WALScan` returns the entries is the only one that increases (`OneEnumeration`).

`IInv` in `MetaStore_proofs` says
  * `KeyInv`, of the database and of the disk: every pair is one that some call
    writes;
  * `DiskInv`: the disk lacks at most index keys, the only ones written without
    Sync, and a crash therefore loses nothing else;
  * `ShardInv`: a number that `WALAppend` has taken is the last one handed out, and
    the entries of the shard are the events appended since the last truncation,
    under increasing numbers below that number, or below the counter when none is
    taken (`Log`). A crash between the two halves of `WALAppend` leaves a gap, so
    the numbers need not be consecutive.

One lemma per call shows that it keeps `IInv` and what it changes for its shard
(`WALNextSeqStep` and so on), another that this is the call of `Storage`
(`WALNextSeqStore` and so on). To the other shards a commit with Sync is
`LogSynced`: it makes their earlier index keys durable and shows nothing else.

Only model-checked: all liveness, since fairness is outside this prover's reach.

## Not modelled

* Authentication, request IDs, configuration, logging and `main`: stateless
  wrappers and wiring.
* Queries over several event types. The type is the high byte of the shard, and
  `Query` is about one shard; a request that names no type asks for the union.
* `PutBlockMeta`, `DeleteBlockMeta`, `PutExpiryKey`, `DeleteExpiryKey`,
  `ScanExpired` and the bloom cache's `Evict`: only tests call them.
* The bits of a bloom filter, xxHash and zstd: libraries.
* A batch with several events for one shard: the events of a batch go to a shard
  one `Push` after the other, as those of successive batches do.
* `json.Marshal` failing on an event (`internal/ingestion/writer.go:113`): it
  cannot, for the fields an event has.
* Query ranges that begin or end within an hour: the models' ranges are of whole
  hours.
* Several concurrent queries over one bloom cache, and its size in bytes.
* Client retries; a clock that steps back; file renames that a power failure
  undoes because the directory is not synced; I/O errors of an open file.

## What could follow

1. Several concurrent queries over one bloom cache, which they lock while one of
   them loads a filter, with the size in bytes.
2. The abstract `Shard` extended by expiry, and implemented by `ShardTTL`.
