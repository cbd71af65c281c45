-------------------------- MODULE MetaStore_proofs --------------------------
(***************************************************************************)
(* Proofs about MetaStore, for any shards, events, hashes and hours, any   *)
(* number of calls by the shards in any order, and crashes between them:   *)
(* scans return what was appended, migrations are found, and each shard    *)
(* has the store that Storage describes.                                   *)
(***************************************************************************)
EXTENDS MetaStore_lemmas

\* A leaf that names no prover is one for Zenon.
USE ZenonT(120)
-----------------------------------------------------------------------------
(* The inductive invariant *)

\* Two databases agree on a key.
Agree(d, f, key) == /\ key \in DOMAIN f <=> key \in DOMAIN d
                    /\ key \in DOMAIN d => f[key] = d[key]

\* What of the database survives a crash: all but some index keys.
DiskInv(d, f) ==
    /\ \A key \in DOMAIN f : key \in DOMAIN d /\ (f[key] = d[key] \/ key[1] = 3)
    /\ \A key \in DOMAIN d : key \in DOMAIN f \/ key[1] = 3

\* The number that is pending is the last one handed out, and the log is as appended.
ShardInv(d, s, p, a) == /\ p # None => CountOf(d, s) = p + 1
                        /\ Log(d, s, p, a)

\* The pairs have the form of one of the calls, the disk is behind in index keys
\* only, and every shard has its log.
StoreInv ==
    /\ KeyInv(db) /\ KeyInv(disk) /\ DiskInv(db, disk)
    /\ pending \in [Shards -> Numbers \cup {None}]
    /\ appended \in [Shards -> Seq(Values)]
    /\ \A s \in Shards : ShardInv(db, s, pending[s], appended[s])

\* The inductive invariant.
IInv == StoreInv /\ seen = [shard \in Shards |-> View(shard)]

\* None is not a sequence number.
LEMMA NoneIsNoNumber ==
  \A n \in Numbers : n # None
  BY SMTT(30), Ranges DEF None

\* The counter does not exceed its bound.
LEMMA CountType ==
  ASSUME NEW d, KeyInv(d), NEW s \in Shards
  PROVE  CountOf(d, s) \in Nat /\ CountOf(d, s) <= MaxAppends
<1>1. CASE WALSeqKey(s) \notin DOMAIN d
  BY SMTT(30), <1>1, Ranges DEF CountOf
<1>2. CASE WALSeqKey(s) \in DOMAIN d
  <2> DEFINE key == WALSeqKey(s)
  <2>1. Pair(key, d[key]) /\ key[1] = 5
    BY <1>2, FirstBytes DEF KeyInv
  <2>2. SeqPair(key, d[key])
    BY SMTT(30), <2>1, PairByName
  <2>3. PICK n \in Numbers : d[key] = PutUint64(n)
    BY <2>2 DEF SeqPair
  <2>4. n \in Nat /\ n < Values64 /\ n < MaxAppends /\ MaxAppends \in Nat
    BY Ranges
  <2>5. Uint64(d[key]) = n
    BY <2>3, <2>4, Read64
  <2> QED BY SMTT(30), <1>2, <2>4, <2>5 DEF CountOf
<1> QED BY <1>1, <1>2

\* What a shard sees through keys that do not change stays.
LEMMA Unchanged ==
  ASSUME NEW d, NEW f, NEW C, \A key : key \notin C => Agree(d, f, key), NEW s \in Shards
  PROVE  /\ WALSeqKey(s) \notin C => CountOf(f, s) = CountOf(d, s)
         /\ (\A n \in Numbers : WALKey(s, n) \notin C) =>
              /\ Nums(f, s) = Nums(d, s) /\ WalOf(f, s) = WalOf(d, s)
              /\ \A n \in Nums(d, s) : f[WALKey(s, n)] = d[WALKey(s, n)]
         /\ (\A h \in OpenHours : BlockKey(ID(s, h)) \notin C) => BlkOf(f, s) = BlkOf(d, s)
         /\ (\A h \in OpenHours : ExpiryKey(h + RetentionHours, ID(s, h)) \notin C) =>
              ExpOf(f, s) = ExpOf(d, s)
         /\ (\A k \in Keys, h \in OpenHours : IdxKey(EventType(s), k, ID(s, h)) \notin C) =>
              IdxOf(f, s) = IdxOf(d, s)
<1>1. WALSeqKey(s) \notin C => CountOf(f, s) = CountOf(d, s)
  BY DEF CountOf, Agree
<1>2. ASSUME \A n \in Numbers : WALKey(s, n) \notin C
      PROVE  /\ Nums(f, s) = Nums(d, s) /\ WalOf(f, s) = WalOf(d, s)
             /\ \A n \in Nums(d, s) : f[WALKey(s, n)] = d[WALKey(s, n)]
  <2>1. Nums(f, s) = Nums(d, s)
    BY <1>2 DEF Nums, Agree
  <2>2. \A n \in Nums(d, s) : f[WALKey(s, n)] = d[WALKey(s, n)]
    BY <1>2 DEF Nums, Agree
  <2>3. WalOf(f, s) = WalOf(d, s)
    BY <2>1, <2>2 DEF WalOf
  <2> QED BY <2>1, <2>2, <2>3
<1>3. (\A h \in OpenHours : BlockKey(ID(s, h)) \notin C) => BlkOf(f, s) = BlkOf(d, s)
  BY DEF BlkOf, Agree
<1>4. (\A h \in OpenHours : ExpiryKey(h + RetentionHours, ID(s, h)) \notin C)
        => ExpOf(f, s) = ExpOf(d, s)
  BY DEF ExpOf, HasExpiry, Agree
<1>5. (\A k \in Keys, h \in OpenHours : IdxKey(EventType(s), k, ID(s, h)) \notin C) =>
         IdxOf(f, s) = IdxOf(d, s)
  BY DEF IdxOf, KeysOf, Agree
<1> QED BY <1>1, <1>2, <1>3, <1>4, <1>5

\* The log stays when its keys and its limit do.
LEMMA LogKept ==
  ASSUME NEW d, NEW f, NEW s \in Shards, NEW p, NEW q, NEW a \in Seq(Values),
         Log(d, s, p, a), Nums(f, s) = Nums(d, s),
         \A n \in Nums(d, s) : f[WALKey(s, n)] = d[WALKey(s, n)],
         Limit(d, s, p) \in Nat, Limit(f, s, q) \in Nat, Limit(d, s, p) <= Limit(f, s, q)
  PROVE  Log(f, s, q, a)
<1>1. PICK F \in [1..Len(a) -> Numbers] :
        /\ \A i, j \in 1..Len(a) : i < j => F[i] < F[j]
        /\ \A n \in Numbers : n \in Nums(d, s) <=> \E i \in 1..Len(a) : n = F[i]
        /\ \A i \in 1..Len(a) : d[WALKey(s, F[i])] = a[i] /\ F[i] < Limit(d, s, p)
  BY DEF Log
<1>2. \A i \in 1..Len(a) : f[WALKey(s, F[i])] = a[i] /\ F[i] < Limit(f, s, q)
  <2> SUFFICES ASSUME NEW i \in 1..Len(a) PROVE f[WALKey(s, F[i])] = a[i] /\ F[i] < Limit(f, s, q)
    OBVIOUS
  <2>1. F[i] \in Numbers /\ F[i] \in Nat
    BY Ranges
  <2>2. F[i] \in Nums(d, s)
    BY <1>1, <2>1
  <2> QED BY SMTT(30), <1>1, <2>1, <2>2
<1> QED BY <1>1, <1>2 DEF Log

\* So does the invariant of a shard when its counter and its entries stay.
LEMMA ShardKept ==
  ASSUME NEW d, NEW f, NEW C, \A key : key \notin C => Agree(d, f, key), NEW s \in Shards,
         NEW p \in Numbers \cup {None}, NEW a \in Seq(Values), KeyInv(d), ShardInv(d, s, p, a),
         WALSeqKey(s) \notin C, \A n \in Numbers : WALKey(s, n) \notin C
  PROVE  ShardInv(f, s, p, a)
<1>1. CountOf(f, s) = CountOf(d, s) /\ CountOf(d, s) \in Nat
  BY Unchanged, CountType
<1>2. Nums(f, s) = Nums(d, s) /\ \A n \in Nums(d, s) : f[WALKey(s, n)] = d[WALKey(s, n)]
  BY Unchanged
<1>3. Limit(f, s, p) = Limit(d, s, p) /\ Limit(d, s, p) \in Nat
  BY <1>1, Ranges DEF Limit
<1>4. Limit(d, s, p) <= Limit(f, s, p)
  BY SMTT(30), <1>3
<1>5. Log(f, s, p, a)
  BY <1>2, <1>3, <1>4, LogKept DEF ShardInv
<1> QED BY <1>1, <1>5 DEF ShardInv

\* A batch changes the keys it deletes or sets and no others.
LEMMA BatchForm ==
  ASSUME NEW gone, NEW put, db' = Batch(gone, put)
  PROVE  /\ DOMAIN db' = DOMAIN put \cup (DOMAIN db \ gone)
         /\ \A key \in DOMAIN put : db'[key] = put[key]
         /\ \A key : key \notin DOMAIN put \cup gone => Agree(db, db', key)
  BY DEF Batch, Agree

\* A batch of pairs of the right form keeps the form of all pairs.
LEMMA BatchKeys ==
  ASSUME NEW gone, NEW put, db' = Batch(gone, put), KeyInv(db),
         \A key \in DOMAIN put : Pair(key, put[key])
  PROVE  KeyInv(db')
<1> SUFFICES ASSUME NEW key \in DOMAIN db' PROVE Pair(key, db'[key])
  BY DEF KeyInv
<1>0. /\ DOMAIN db' = DOMAIN put \cup (DOMAIN db \ gone)
      /\ \A k \in DOMAIN put : db'[k] = put[k]
      /\ \A k : k \notin DOMAIN put \cup gone => Agree(db, db', k)
  BY BatchForm
<1>1. CASE key \in DOMAIN put
  <2>1. db'[key] = put[key]
    BY <1>0, <1>1
  <2> QED BY <1>1, <2>1
<1>2. CASE key \notin DOMAIN put
  <2>1. key \in DOMAIN db /\ key \notin gone
    BY <1>0, <1>2
  <2>2. db'[key] = db[key]
    BY <1>0, <1>2, <2>1 DEF Agree
  <2> QED BY <2>1, <2>2 DEF KeyInv
<1> QED BY <1>1, <1>2

\* A shard without entries has an empty log.
LEMMA EmptyLog ==
  ASSUME NEW d, NEW s \in Shards, Nums(d, s) = {}
  PROVE  ShardInv(d, s, None, <<>>) /\ WalOf(d, s) = {}
<1>1. Len(<<>>) = 0 /\ 1..0 = {} /\ 1..Len(<<>>) = {}
  BY SMTT(30)
<1> DEFINE f == [i \in {} |-> 0]
<1>2. f \in [1..Len(<<>>) -> Numbers]
  BY <1>1
<1> HIDE DEF f
<1>3. Log(d, s, None, <<>>)
  BY <1>1, <1>2 DEF Log
<1>4. WalOf(d, s) = {}
  BY DEF WalOf
<1> QED BY <1>3, <1>4 DEF ShardInv

\* The shard sees the same in both databases.
Same(d, f, s) ==
    /\ CountOf(f, s) = CountOf(d, s) /\ WalOf(f, s) = WalOf(d, s) /\ BlkOf(f, s) = BlkOf(d, s)
    /\ ExpOf(f, s) = ExpOf(d, s) /\ IdxOf(f, s) = IdxOf(d, s)
-----------------------------------------------------------------------------
(* The calls that append *)

\* After a commit with Sync the disk holds the database.
LEMMA SyncedDisk ==
  ASSUME KeyInv(db'), disk' = db'
  PROVE  KeyInv(disk') /\ DiskInv(db', disk')
  BY DEF DiskInv

\* When all changed keys have one name, the keys of the other names stay.
LEMMA OtherNames ==
  ASSUME NEW C, NEW r, \A key \in C : key[1] = r, NEW s \in Shards
  PROVE  /\ r # 5 => WALSeqKey(s) \notin C
         /\ r # 6 => \A n \in Numbers : WALKey(s, n) \notin C
         /\ r # 1 => \A h \in OpenHours : BlockKey(ID(s, h)) \notin C
         /\ r # 2 => \A h \in OpenHours : ExpiryKey(h + RetentionHours, ID(s, h)) \notin C
         /\ r # 3 => \A k \in Keys, h \in OpenHours : IdxKey(EventType(s), k, ID(s, h)) \notin C
  BY SMTT(30), FirstBytes

\* WALNextSeq raises the counter of its shard by one and changes nothing else.
LEMMA WALNextSeqStep ==
  ASSUME StoreInv, NEW s \in Shards, WALNextSeq(s)
  PROVE  /\ StoreInv' /\ disk' = db'
         /\ \A t \in Shards \ {s} : Same(db, db', t)
         /\ CountOf(db', s) = CountOf(db, s) + 1 /\ WalOf(db', s) = WalOf(db, s)
         /\ BlkOf(db', s) = BlkOf(db, s) /\ ExpOf(db', s) = ExpOf(db, s)
              /\ IdxOf(db', s) = IdxOf(db, s)
<1> DEFINE n == CountOf(db, s)
           key == WALSeqKey(s)
           put == Set(key, PutUint64(n))
           C == {key}
<1>1. /\ pending[s] = None /\ n < MaxAppends /\ db' = Batch({}, put) /\ disk' = db'
      /\ pending' = [pending EXCEPT ![s] = n] /\ appended' = appended
  BY DEF WALNextSeq, CommitSync, Count, CountOf
<1>2. n \in Nat /\ n \in Numbers /\ n < Values64
  <2>1. n \in Nat /\ MaxAppends \in Nat
    BY CountType, Ranges DEF StoreInv
  <2> HIDE DEF n
  <2>2. n \in Numbers
    BY SMTT(30), <1>1, <2>1 DEF Numbers
  <2> QED BY <2>1, <2>2, Ranges
<1> HIDE DEF n
<1>3. DOMAIN put = {key} /\ put[key] = PutUint64(n)
  BY DEF Set
<1> HIDE DEF put
<1>4. /\ key \in DOMAIN db' /\ db'[key] = PutUint64(n)
      /\ \A k : k \notin C => Agree(db, db', k)
  <2>1. /\ DOMAIN db' = DOMAIN put \cup (DOMAIN db \ {})
        /\ \A k \in DOMAIN put : db'[k] = put[k]
        /\ \A k : k \notin DOMAIN put \cup {} => Agree(db, db', k)
    BY <1>1, BatchForm
  <2> QED BY <1>3, <2>1
<1>5. KeyInv(db')
  <2>1. \A k \in DOMAIN put : Pair(k, put[k])
    BY <1>2, <1>3 DEF Pair, SeqPair
  <2> QED BY <1>1, <2>1, BatchKeys DEF StoreInv
<1>6. \A k \in C : k[1] = 5
  BY FirstBytes
<1>7. \A t \in Shards \ {s} : WALSeqKey(t) \notin C
  BY KeysDiffer
<1> HIDE DEF C
<1>8. ASSUME NEW t \in Shards
      PROVE  /\ \A m \in Numbers : WALKey(t, m) \notin C
             /\ Nums(db', t) = Nums(db, t) /\ WalOf(db', t) = WalOf(db, t)
             /\ \A m \in Nums(db, t) : db'[WALKey(t, m)] = db[WALKey(t, m)]
             /\ BlkOf(db', t) = BlkOf(db, t) /\ ExpOf(db', t) = ExpOf(db, t)
                  /\ IdxOf(db', t) = IdxOf(db, t)
             /\ t # s => CountOf(db', t) = CountOf(db, t)
  <2>1. /\ \A m \in Numbers : WALKey(t, m) \notin C
        /\ \A h \in OpenHours : /\ BlockKey(ID(t, h)) \notin C
                                /\ ExpiryKey(h + RetentionHours, ID(t, h)) \notin C
        /\ \A k \in Keys, h \in OpenHours : IdxKey(EventType(t), k, ID(t, h)) \notin C
    BY SMTT(30), <1>6, OtherNames
  <2>2. t # s => CountOf(db', t) = CountOf(db, t)
    BY <1>4, <1>7, Unchanged
  <2>3. /\ Nums(db', t) = Nums(db, t) /\ WalOf(db', t) = WalOf(db, t)
        /\ \A m \in Nums(db, t) : db'[WALKey(t, m)] = db[WALKey(t, m)]
    BY <1>4, <2>1, Unchanged
  <2>4. BlkOf(db', t) = BlkOf(db, t) /\ ExpOf(db', t) = ExpOf(db, t) /\ IdxOf(db', t) = IdxOf(db, t)
    BY <1>4, <2>1, Unchanged
  <2> QED BY <2>1, <2>2, <2>3, <2>4
<1>9. CountOf(db', s) = n + 1
  BY <1>2, <1>4, Read64 DEF CountOf
<1>10. ASSUME NEW t \in Shards PROVE ShardInv(db', t, pending'[t], appended'[t])
  <2>1. /\ pending[t] \in Numbers \cup {None} /\ appended[t] \in Seq(Values)
        /\ ShardInv(db, t, pending[t], appended[t]) /\ KeyInv(db)
    BY DEF StoreInv
  <2>2. CASE t # s
    <3>1. pending'[t] = pending[t] /\ appended'[t] = appended[t] /\ WALSeqKey(t) \notin C
      BY <1>1, <1>7, <2>2 DEF StoreInv
    <3>2. ShardInv(db', t, pending[t], appended[t])
      BY <1>4, <1>8, <2>1, <3>1, ShardKept
    <3> QED BY <3>1, <3>2
  <2>3. CASE t = s
    <3>1. pending'[s] = n /\ appended'[s] = appended[s] /\ n # None
      BY <1>1, <1>2, NoneIsNoNumber DEF StoreInv
    <3>2. Limit(db, s, None) = n /\ Limit(db', s, n) = n
      BY <3>1 DEF Limit, n
    <3>3. Log(db, s, None, appended[s])
      BY <1>1, <2>1, <2>3 DEF ShardInv
    <3>4. Limit(db, s, None) \in Nat /\ Limit(db', s, n) \in Nat
            /\ Limit(db, s, None) <= Limit(db', s, n)
      BY SMTT(30), <1>2, <3>2
    <3>5. Log(db', s, n, appended[s])
      BY <1>8, <2>1, <2>3, <3>3, <3>4, LogKept
    <3> QED BY <1>9, <2>3, <3>1, <3>5 DEF ShardInv
  <2> QED BY <2>2, <2>3
<1>11. pending' \in [Shards -> Numbers \cup {None}] /\ appended' \in [Shards -> Seq(Values)]
  BY <1>1, <1>2 DEF StoreInv
<1>12. StoreInv'
  BY <1>1, <1>5, <1>10, <1>11, SyncedDisk DEF StoreInv
<1> QED BY <1>1, <1>8, <1>9, <1>12 DEF Same, n

\* WALAppend adds one entry to its shard, behind all others.
LEMMA WALAppendStep ==
  ASSUME StoreInv, NEW s \in Shards, NEW e \in Events, WALAppend(s, e)
  PROVE  /\ StoreInv' /\ disk' = db'
         /\ \A t \in Shards \ {s} : Same(db, db', t)
         /\ CountOf(db', s) = CountOf(db, s)
         /\ WalOf(db', s) = {w \in WalOf(db, s) : w.seq # CountOf(db, s)}
                              \cup {[seq |-> CountOf(db, s), event |-> e]}
         /\ BlkOf(db', s) = BlkOf(db, s) /\ ExpOf(db', s) = ExpOf(db, s)
              /\ IdxOf(db', s) = IdxOf(db, s)
<1> DEFINE p == pending[s]
           a == appended[s]
           key == WALKey(s, p)
           put == Set(key, <<e>>)
           C == {key}
<1>1. /\ p # None /\ db' = Batch({}, put) /\ disk' = db'
      /\ pending' = [pending EXCEPT ![s] = None]
           /\ appended' = [appended EXCEPT ![s] = Append(@, <<e>>)]
  BY DEF WALAppend, CommitSync
<1>2. /\ p \in Numbers /\ p \in Nat /\ a \in Seq(Values) /\ CountOf(db, s) = p + 1
      /\ Log(db, s, p, a) /\ KeyInv(db)
  BY <1>1, Ranges DEF StoreInv, ShardInv
<1>3. pending'[s] = None /\ appended'[s] = Append(a, <<e>>) /\ <<e>> \in Values
  BY <1>1 DEF StoreInv, Values
<1>4. /\ pending' \in [Shards -> Numbers \cup {None}] /\ appended' \in [Shards -> Seq(Values)]
      /\ \A t \in Shards : t # s => pending'[t] = pending[t] /\ appended'[t] = appended[t]
  BY SMTT(30), <1>1, <1>3 DEF StoreInv
<1> HIDE DEF p, a
<1>5. DOMAIN put = {key} /\ put[key] = <<e>>
  BY DEF Set
<1> HIDE DEF put
<1>6. /\ key \in DOMAIN db' /\ db'[key] = <<e>>
      /\ \A k : k \notin C => Agree(db, db', k)
  <2>1. /\ DOMAIN db' = DOMAIN put \cup (DOMAIN db \ {})
        /\ \A k \in DOMAIN put : db'[k] = put[k]
        /\ \A k : k \notin DOMAIN put \cup {} => Agree(db, db', k)
    BY <1>1, BatchForm
  <2> QED BY <1>5, <2>1
<1>7. KeyInv(db')
  <2>1. \A k \in DOMAIN put : Pair(k, put[k])
    BY <1>2, <1>5 DEF Pair, WALPair
  <2> QED BY <1>1, <1>2, <2>1, BatchKeys
<1>8. \A k \in C : k[1] = 6
  BY <1>2, FirstBytes
<1>9. \A t \in Shards \ {s}, m \in Numbers : WALKey(t, m) \notin C
  BY SMTT(30), <1>2, KeysDiffer
<1>10. \A m \in Numbers : m # p => WALKey(s, m) \notin C
  BY SMTT(30), <1>2, KeysDiffer
<1> HIDE DEF C
<1>11. ASSUME NEW t \in Shards
       PROVE  /\ WALSeqKey(t) \notin C /\ CountOf(db', t) = CountOf(db, t)
              /\ BlkOf(db', t) = BlkOf(db, t) /\ ExpOf(db', t) = ExpOf(db, t)
                   /\ IdxOf(db', t) = IdxOf(db, t)
              /\ t # s => WalOf(db', t) = WalOf(db, t)
  <2>1. /\ WALSeqKey(t) \notin C
        /\ \A h \in OpenHours : /\ BlockKey(ID(t, h)) \notin C
                                /\ ExpiryKey(h + RetentionHours, ID(t, h)) \notin C
        /\ \A k \in Keys, h \in OpenHours : IdxKey(EventType(t), k, ID(t, h)) \notin C
    <3>1. WALSeqKey(t) \notin C
      BY SMTT(30), <1>8, OtherNames
    <3>2. ASSUME NEW h \in OpenHours
          PROVE  BlockKey(ID(t, h)) \notin C /\ ExpiryKey(h + RetentionHours, ID(t, h)) \notin C
      <4>1. BlockKey(ID(t, h))[1] = 1 /\ ExpiryKey(h + RetentionHours, ID(t, h))[1] = 2
        BY FirstBytes
      <4> QED BY SMTT(30), <1>8, <4>1
    <3>3. ASSUME NEW k \in Keys, NEW h \in OpenHours
          PROVE  IdxKey(EventType(t), k, ID(t, h)) \notin C
      <4>1. IdxKey(EventType(t), k, ID(t, h))[1] = 3
        BY FirstBytes
      <4> QED BY SMTT(30), <1>8, <4>1
    <3> QED BY <3>1, <3>2, <3>3
  <2>2. CountOf(db', t) = CountOf(db, t)
    BY <1>6, <2>1, Unchanged
  <2>3. t # s => WalOf(db', t) = WalOf(db, t)
    BY <1>6, <1>9, Unchanged
  <2>4. BlkOf(db', t) = BlkOf(db, t) /\ ExpOf(db', t) = ExpOf(db, t) /\ IdxOf(db', t) = IdxOf(db, t)
    BY <1>6, <2>1, Unchanged
  <2> QED BY <2>1, <2>2, <2>3, <2>4
<1>12. PICK f \in [1..Len(a) -> Numbers] :
         /\ \A i, j \in 1..Len(a) : i < j => f[i] < f[j]
         /\ \A m \in Numbers : m \in Nums(db, s) <=> \E i \in 1..Len(a) : m = f[i]
         /\ \A i \in 1..Len(a) : db[WALKey(s, f[i])] = a[i] /\ f[i] < p
  <2>1. Limit(db, s, p) = p
    BY <1>1 DEF Limit
  <2> QED BY <1>2, <2>1 DEF Log
<1>13. /\ \A m \in Numbers : m \in Nums(db', s) <=> m \in Nums(db, s) \/ m = p
       /\ \A m \in Nums(db, s) : m # p /\ m \in Numbers /\ m \in Nat
            /\ db'[WALKey(s, m)] = db[WALKey(s, m)]
  <2>1. \A m \in Numbers : m # p => Agree(db, db', WALKey(s, m))
    BY <1>6, <1>10
  <2>2. \A m \in Numbers : m # p => (m \in Nums(db', s) <=> m \in Nums(db, s))
    BY <2>1 DEF Nums, Agree
  <2>3. p \in Nums(db', s)
    BY <1>2, <1>6 DEF Nums
  <2>4. \A m \in Nums(db, s) : m \in Numbers /\ m \in Nat /\ WALKey(s, m) \in DOMAIN db
    BY Ranges DEF Nums
  <2>5. \A m \in Nums(db, s) : m # p
    <3> SUFFICES ASSUME p \in Nums(db, s) PROVE FALSE
      OBVIOUS
    <3>1. PICK i \in 1..Len(a) : p = f[i]
      BY <1>2, <1>12
    <3> QED BY SMTT(30), <1>2, <1>12, <3>1
  <2>6. \A m \in Nums(db, s) : db'[WALKey(s, m)] = db[WALKey(s, m)]
    BY <2>1, <2>4, <2>5 DEF Agree
  <2> QED BY <2>2, <2>3, <2>4, <2>5, <2>6
<1>14. Log(db', s, None, Append(a, <<e>>))
  <2> DEFINE b == Append(a, <<e>>)
             N == Len(a)
             g == [i \in 1..(N + 1) |-> IF i = N + 1 THEN p ELSE f[i]]
  <2>1. N \in Nat /\ Len(b) = N + 1 /\ b[N + 1] = <<e>> /\ \A i \in 1..N : b[i] = a[i]
    BY SMTT(30), <1>2, <1>3
  <2> HIDE DEF b, N
  <2>2. \A i \in 1..(N + 1) : i = N + 1 \/ i \in 1..N
    BY SMTT(30), <2>1
  <2>3. \A i \in 1..N : i \in 1..(N + 1) /\ i # N + 1 /\ i < N + 1
    BY SMTT(30), <2>1
  <2>4. \A i \in 1..N : f[i] \in Numbers /\ f[i] \in Nat
    BY Ranges DEF N
  <2>5. g \in [1..(N + 1) -> Numbers] /\ g[N + 1] = p /\ \A i \in 1..N : g[i] = f[i]
    BY SMTT(30), <1>2, <2>1, <2>2, <2>3, <2>4
  <2> HIDE DEF g
  <2>6. \A i, j \in 1..(N + 1) : i < j => g[i] < g[j]
    <3> SUFFICES ASSUME NEW i \in 1..(N + 1), NEW j \in 1..(N + 1), i < j PROVE g[i] < g[j]
      OBVIOUS
    <3>1. i \in 1..N
      BY SMTT(30), <2>1
    <3>2. CASE j \in 1..N
      BY <1>12, <2>5, <3>1, <3>2 DEF N
    <3>3. CASE j = N + 1
      BY <1>12, <2>5, <3>1, <3>3 DEF N
    <3> QED BY <2>2, <3>2, <3>3
  <2>7. \A m \in Numbers : m \in Nums(db', s) <=> \E i \in 1..(N + 1) : m = g[i]
    <3> SUFFICES ASSUME NEW m \in Numbers
                 PROVE  m \in Nums(db', s) <=> \E i \in 1..(N + 1) : m = g[i]
      OBVIOUS
    <3>1. m \in Nums(db', s) <=> (\E i \in 1..N : m = f[i]) \/ m = p
      BY <1>12, <1>13 DEF N
    <3>2. (\E i \in 1..(N + 1) : m = g[i]) <=> (\E i \in 1..N : m = g[i]) \/ m = g[N + 1]
      BY SMTT(30), <2>1, <2>2, <2>3
    <3> QED BY <2>5, <3>1, <3>2
  <2>8. Limit(db', s, None) = p + 1
    BY <1>2, <1>11 DEF Limit
  <2>9. ASSUME NEW i \in 1..(N + 1) PROVE db'[WALKey(s, g[i])] = b[i] /\ g[i] < p + 1
    <3>1. CASE i = N + 1
      BY SMTT(30), <1>2, <1>6, <2>1, <2>5, <3>1
    <3>2. CASE i \in 1..N
      <4>1. g[i] = f[i] /\ f[i] \in Nums(db, s) /\ f[i] < p
        BY <1>12, <2>4, <2>5, <3>2 DEF N
      <4>2. db'[WALKey(s, f[i])] = db[WALKey(s, f[i])]
        BY <1>13, <4>1
      <4>3. db[WALKey(s, f[i])] = a[i]
        BY <1>12, <3>2 DEF N
      <4>4. g[i] < p + 1
        BY SMTT(30), <1>2, <2>4, <3>2, <4>1
      <4> QED BY <2>1, <3>2, <4>1, <4>2, <4>3, <4>4
    <3> QED BY <2>2, <3>1, <3>2
  <2> QED BY <2>1, <2>5, <2>6, <2>7, <2>8, <2>9 DEF Log, b
<1>15. ASSUME NEW t \in Shards PROVE ShardInv(db', t, pending'[t], appended'[t])
  <2>1. CASE t # s
    <3>1. /\ pending[t] \in Numbers \cup {None} /\ appended[t] \in Seq(Values)
          /\ ShardInv(db, t, pending[t], appended[t])
      BY DEF StoreInv
    <3>2. ShardInv(db', t, pending[t], appended[t])
      BY <1>2, <1>6, <1>9, <1>11, <2>1, <3>1, ShardKept
    <3> QED BY <1>4, <2>1, <3>2
  <2>2. CASE t = s
    BY <1>3, <1>14, <2>2 DEF ShardInv
  <2> QED BY <2>1, <2>2
<1>16. StoreInv'
  BY <1>1, <1>4, <1>7, <1>15, SyncedDisk DEF StoreInv
<1>17. WalOf(db', s) = {w \in WalOf(db, s) : w.seq # CountOf(db, s)}
                          \cup {[seq |-> CountOf(db, s), event |-> e]}
  <2> DEFINE old(m) == [seq |-> m + 1, event |-> db[WALKey(s, m)][1]]
             new(m) == [seq |-> m + 1, event |-> db'[WALKey(s, m)][1]]
  <2>1. \A m \in Nums(db, s) : new(m) = old(m) /\ old(m).seq # p + 1
    <3> TAKE m \in Nums(db, s)
    <3>1. new(m) = old(m)
      BY <1>13
    <3>2. m + 1 # p + 1
      BY SMTT(30), <1>2, <1>13
    <3> QED BY <3>1, <3>2
  <2>2. new(p) = [seq |-> p + 1, event |-> e]
    BY SMTT(30), <1>6
  <2>3. WalOf(db', s) = {new(m) : m \in Nums(db', s)} /\ WalOf(db, s) = {old(m) : m \in Nums(db, s)}
    BY DEF WalOf
  <2>4. \A m : m \in Nums(db', s) <=> m \in Nums(db, s) \/ m = p
    BY <1>2, <1>13 DEF Nums
  <2> HIDE DEF new, old
  <2>5. {new(m) : m \in Nums(db', s)} = {old(m) : m \in Nums(db, s)} \cup {new(p)}
    BY <2>1, <2>4
  <2>6. {w \in WalOf(db, s) : w.seq # p + 1} = WalOf(db, s)
    BY <2>1, <2>3
  <2> QED BY <1>2, <2>2, <2>3, <2>5, <2>6
<1> QED BY <1>1, <1>11, <1>16, <1>17 DEF Same
-----------------------------------------------------------------------------
(* The calls that truncate, index, seal and delete *)

\* No key of the shard is among the changed ones.
Untouched(C, s) ==
    /\ WALSeqKey(s) \notin C
    /\ \A n \in Numbers : WALKey(s, n) \notin C
    /\ \A h \in OpenHours : BlockKey(ID(s, h)) \notin C
    /\ \A h \in OpenHours : ExpiryKey(h + RetentionHours, ID(s, h)) \notin C
    /\ \A k \in Keys, h \in OpenHours : IdxKey(EventType(s), k, ID(s, h)) \notin C

\* A shard none of whose keys changes sees what it saw.
LEMMA UntouchedSame ==
  ASSUME NEW d, NEW f, NEW C, \A key : key \notin C
           => Agree(d, f, key), NEW s \in Shards, Untouched(C, s)
  PROVE  Same(d, f, s)
<1>1. CountOf(f, s) = CountOf(d, s)
  BY Unchanged DEF Untouched
<1>2. WalOf(f, s) = WalOf(d, s)
  BY Unchanged DEF Untouched
<1>3. BlkOf(f, s) = BlkOf(d, s)
  BY Unchanged DEF Untouched
<1>4. ExpOf(f, s) = ExpOf(d, s)
  BY Unchanged DEF Untouched
<1>5. IdxOf(f, s) = IdxOf(d, s)
  BY Unchanged DEF Untouched
<1> QED BY <1>1, <1>2, <1>3, <1>4, <1>5 DEF Same

\* The log of a shard none of whose keys changes stays.
LEMMA UntouchedLog ==
  ASSUME StoreInv, NEW C, \A key : key \notin C => Agree(db, db', key), NEW s \in Shards,
         WALSeqKey(s) \notin C, \A n \in Numbers : WALKey(s, n) \notin C,
         pending'[s] = pending[s], appended'[s] = appended[s]
  PROVE  ShardInv(db', s, pending'[s], appended'[s])
<1>1. /\ pending[s] \in Numbers \cup {None} /\ appended[s] \in Seq(Values)
      /\ ShardInv(db, s, pending[s], appended[s]) /\ KeyInv(db)
  BY DEF StoreInv
<1>2. ShardInv(db', s, pending[s], appended[s])
  BY <1>1, ShardKept
<1> QED BY <1>2

\* The keys that WALTruncate and SealBatch delete.
LEMMA RangeOfOne ==
  ASSUME KeyInv(db), NEW s \in Shards
  PROVE  /\ \A n \in Numbers : WALKey(s, n) \in DOMAIN db => WALKey(s, n) \in WALRange(db, s)
         /\ \A key \in WALRange(db, s) : key[1] = 6
         /\ \A t \in Shards \ {s}, n \in Numbers : WALKey(t, n) \notin WALRange(db, s)
<1>1. \A key : key \in WALRange(db, s) <=> \E n \in Nums(db, s) : key = WALKey(s, n)
  BY WALRangeForm
<1>2. \A n \in Nums(db, s) : n \in Numbers
  BY DEF Nums
<1>3. \A n \in Numbers : WALKey(s, n) \in DOMAIN db => WALKey(s, n) \in WALRange(db, s)
  BY <1>1 DEF Nums
<1>4. \A key \in WALRange(db, s) : key[1] = 6
  BY <1>1, <1>2, FirstBytes
<1>5. ASSUME NEW t \in Shards \ {s}, NEW n \in Numbers PROVE WALKey(t, n) \notin WALRange(db, s)
  <2>1. \A m \in Numbers : WALKey(t, n) # WALKey(s, m)
    BY SMTT(30), KeysDiffer
  <2> QED BY <1>1, <1>2, <2>1
<1> QED BY <1>3, <1>4, <1>5

\* WALTruncate deletes the entries of its shard and no other key.
LEMMA WALTruncateStep ==
  ASSUME StoreInv, NEW s \in Shards, WALTruncate(s)
  PROVE  /\ StoreInv' /\ disk' = db'
         /\ \A t \in Shards \ {s} : Same(db, db', t)
         /\ CountOf(db', s) = CountOf(db, s) /\ WalOf(db', s) = {}
         /\ BlkOf(db', s) = BlkOf(db, s) /\ ExpOf(db', s) = ExpOf(db, s)
              /\ IdxOf(db', s) = IdxOf(db, s)
<1> DEFINE C == WALRange(db, s)
<1>1. /\ pending[s] = None /\ db' = Batch(C, Nothing) /\ disk' = db'
      /\ pending' = pending /\ appended' = [appended EXCEPT ![s] = <<>>]
  BY DEF WALTruncate, CommitSync
<1>2. KeyInv(db) /\ pending' \in [Shards -> Numbers \cup {None}]
        /\ appended' \in [Shards -> Seq(Values)]
  BY SMTT(30), <1>1 DEF StoreInv
<1>3. /\ appended'[s] = <<>> /\ pending'[s] = None
      /\ \A t \in Shards : t # s => pending'[t] = pending[t] /\ appended'[t] = appended[t]
  BY <1>1 DEF StoreInv
<1>4. DOMAIN Nothing = {}
  BY DEF Nothing
<1>5. DOMAIN db' = DOMAIN db \ C /\ \A key : key \notin C => Agree(db, db', key)
  <2>1. /\ DOMAIN db' = DOMAIN Nothing \cup (DOMAIN db \ C)
        /\ \A key \in DOMAIN Nothing : db'[key] = Nothing[key]
        /\ \A key : key \notin DOMAIN Nothing \cup C => Agree(db, db', key)
    BY <1>1, BatchForm
  <2> QED BY <1>4, <2>1
<1>6. KeyInv(db')
  <2>1. \A key \in DOMAIN Nothing : Pair(key, Nothing[key])
    BY <1>4
  <2> QED BY <1>1, <1>2, <2>1, BatchKeys
<1>7. /\ \A n \in Numbers : WALKey(s, n) \in DOMAIN db => WALKey(s, n) \in C
      /\ \A key \in C : key[1] = 6
      /\ \A t \in Shards \ {s}, n \in Numbers : WALKey(t, n) \notin C
  BY <1>2, RangeOfOne
<1> HIDE DEF C
<1>8. ASSUME NEW t \in Shards
      PROVE  /\ WALSeqKey(t) \notin C
             /\ \A h \in OpenHours : BlockKey(ID(t, h)) \notin C
             /\ \A h \in OpenHours : ExpiryKey(h + RetentionHours, ID(t, h)) \notin C
             /\ \A k \in Keys, h \in OpenHours : IdxKey(EventType(t), k, ID(t, h)) \notin C
  <2>1. WALSeqKey(t) \notin C
    BY SMTT(30), <1>7, FirstBytes
  <2>2. ASSUME NEW h \in OpenHours
        PROVE  BlockKey(ID(t, h)) \notin C /\ ExpiryKey(h + RetentionHours, ID(t, h)) \notin C
    <3>1. BlockKey(ID(t, h))[1] = 1 /\ ExpiryKey(h + RetentionHours, ID(t, h))[1] = 2
      BY FirstBytes
    <3> QED BY SMTT(30), <1>7, <3>1
  <2>3. ASSUME NEW k \in Keys, NEW h \in OpenHours PROVE IdxKey(EventType(t), k, ID(t, h)) \notin C
    <3>1. IdxKey(EventType(t), k, ID(t, h))[1] = 3
      BY FirstBytes
    <3> QED BY SMTT(30), <1>7, <3>1
  <2> QED BY <2>1, <2>2, <2>3
<1>9. \A t \in Shards \ {s} : Untouched(C, t)
  BY <1>7, <1>8 DEF Untouched
<1>10. \A t \in Shards \ {s} : Same(db, db', t)
  BY <1>5, <1>9, UntouchedSame
<1>11. Nums(db', s) = {}
  BY <1>5, <1>7 DEF Nums
<1>12. ASSUME NEW t \in Shards PROVE ShardInv(db', t, pending'[t], appended'[t])
  <2>1. CASE t # s
    BY <1>3, <1>5, <1>9, <2>1, UntouchedLog DEF Untouched
  <2>2. CASE t = s
    BY <1>3, <1>11, <2>2, EmptyLog
  <2> QED BY <2>1, <2>2
<1>13. StoreInv'
  BY <1>1, <1>2, <1>6, <1>12, SyncedDisk DEF StoreInv
<1>14. CountOf(db', s) = CountOf(db, s) /\ WalOf(db', s) = {}
  <2>1. CountOf(db', s) = CountOf(db, s)
    BY <1>5, <1>8, Unchanged
  <2> QED BY <1>11, <2>1, EmptyLog
<1>15. BlkOf(db', s) = BlkOf(db, s) /\ ExpOf(db', s) = ExpOf(db, s) /\ IdxOf(db', s) = IdxOf(db, s)
  BY <1>5, <1>8, Unchanged
<1> QED BY <1>1, <1>10, <1>13, <1>14, <1>15

\* PutIdxBatch adds index entries to its shard; they may not survive a crash.
LEMMA PutIdxBatchStep ==
  ASSUME StoreInv, NEW s \in Shards, NEW h \in OpenHours, NEW ks \in SUBSET KeysOf(s),
         PutIdxBatch(s, ks, ID(s, h))
  PROVE  /\ StoreInv' /\ disk' = disk
         /\ \A t \in Shards \ {s} : Same(db, db', t)
         /\ CountOf(db', s) = CountOf(db, s) /\ WalOf(db', s) = WalOf(db, s)
         /\ BlkOf(db', s) = BlkOf(db, s) /\ ExpOf(db', s) = ExpOf(db, s)
         /\ IdxOf(db', s) = IdxOf(db, s) \cup {<<k, h>> : k \in ks}
<1> DEFINE I(k) == IdxKey(EventType(s), k, ID(s, h))
           C == {I(k) : k \in ks}
           put == [key \in C |-> <<>>]
<1>1. db' = Batch({}, put) /\ disk' = disk /\ pending' = pending /\ appended' = appended
  BY DEF PutIdxBatch, CommitNoSync
<1>2. \A k \in ks : k \in Keys /\ k \in KeysOf(s)
  BY DEF KeysOf
<1>3. DOMAIN put = C
  OBVIOUS
<1>4. \A key \in C : IdxPair(key)
  BY <1>2 DEF IdxPair
<1>5. ASSUME NEW key \in C PROVE key[1] = 3
  <2>1. PICK k \in ks : key = I(k)
    OBVIOUS
  <2>2. k \in Keys
    BY <1>2
  <2> QED BY <2>1, <2>2, FirstBytes
<1> HIDE DEF put
<1>6. DOMAIN db' = C \cup DOMAIN db /\ \A key : key \notin C => Agree(db, db', key)
  <2>1. /\ DOMAIN db' = DOMAIN put \cup (DOMAIN db \ {})
        /\ \A key \in DOMAIN put : db'[key] = put[key]
        /\ \A key : key \notin DOMAIN put \cup {} => Agree(db, db', key)
    BY <1>1, BatchForm
  <2> HIDE DEF C
  <2> QED BY <1>3, <2>1
<1>7. KeyInv(db')
  <2>1. \A key \in DOMAIN put : Pair(key, put[key])
    BY <1>3, <1>4 DEF Pair
  <2> QED BY <1>1, <2>1, BatchKeys DEF StoreInv
<1>8. \A t \in Shards \ {s}, l \in Keys, g \in OpenHours :
         IdxKey(EventType(t), l, ID(t, g)) \notin C
  <2> SUFFICES ASSUME NEW t \in Shards \ {s}, NEW l \in Keys, NEW g \in OpenHours, NEW k \in ks,
                      IdxKey(EventType(t), l, ID(t, g)) = I(k)
               PROVE  FALSE
    OBVIOUS
  <2>1. k \in Keys
    BY <1>2
  <2> QED BY SMTT(30), <2>1, KeysDiffer
<1>9. \A l \in Keys, g \in OpenHours : IdxKey(EventType(s), l, ID(s, g)) \in C <=> l \in ks /\ g = h
  <2> TAKE l \in Keys, g \in OpenHours
  <2>1. ASSUME NEW k \in ks, IdxKey(EventType(s), l, ID(s, g)) = I(k) PROVE l = k /\ g = h
    <3>1. k \in Keys
      BY <1>2
    <3> QED BY SMTT(30), <2>1, <3>1, KeysDiffer
  <2> QED BY <2>1
<1> HIDE DEF C
<1>10. ASSUME NEW t \in Shards
       PROVE  /\ WALSeqKey(t) \notin C
              /\ \A n \in Numbers : WALKey(t, n) \notin C
              /\ \A g \in OpenHours : BlockKey(ID(t, g)) \notin C
              /\ \A g \in OpenHours : ExpiryKey(g + RetentionHours, ID(t, g)) \notin C
  <2>1. WALSeqKey(t) \notin C
    BY SMTT(30), <1>5, FirstBytes
  <2>2. \A n \in Numbers : WALKey(t, n) \notin C
    BY SMTT(30), <1>5, FirstBytes
  <2>3. ASSUME NEW g \in OpenHours
        PROVE  BlockKey(ID(t, g)) \notin C /\ ExpiryKey(g + RetentionHours, ID(t, g)) \notin C
    <3>1. BlockKey(ID(t, g))[1] = 1 /\ ExpiryKey(g + RetentionHours, ID(t, g))[1] = 2
      BY FirstBytes
    <3> QED BY SMTT(30), <1>5, <3>1
  <2> QED BY <2>1, <2>2, <2>3
<1>11. \A t \in Shards \ {s} : Same(db, db', t)
  <2>1. \A t \in Shards \ {s} : Untouched(C, t)
    BY <1>8, <1>10 DEF Untouched
  <2> QED BY <1>6, <2>1, UntouchedSame
<1>12. ASSUME NEW t \in Shards PROVE ShardInv(db', t, pending'[t], appended'[t])
  BY <1>1, <1>6, <1>10, UntouchedLog
<1>13. DiskInv(db', disk')
  <2>1. DiskInv(db, disk)
    BY DEF StoreInv
  <2>2. ASSUME NEW key \in DOMAIN disk PROVE key \in DOMAIN db'
                 /\ (disk[key] = db'[key] \/ key[1] = 3)
    <3>1. key \in DOMAIN db /\ (disk[key] = db[key] \/ key[1] = 3)
      BY <2>1 DEF DiskInv
    <3>2. CASE key \in C
      BY <1>5, <1>6, <3>2
    <3>3. CASE key \notin C
      BY <1>6, <3>1, <3>3 DEF Agree
    <3> QED BY <3>2, <3>3
  <2>3. ASSUME NEW key \in DOMAIN db' PROVE key \in DOMAIN disk \/ key[1] = 3
    BY <1>5, <1>6, <2>1 DEF DiskInv
  <2> QED BY <1>1, <2>2, <2>3 DEF DiskInv
<1>14. StoreInv'
  BY <1>1, <1>7, <1>12, <1>13 DEF StoreInv
<1>15. CountOf(db', s) = CountOf(db, s) /\ WalOf(db', s) = WalOf(db, s)
  BY <1>6, <1>10, Unchanged
<1>16. BlkOf(db', s) = BlkOf(db, s) /\ ExpOf(db', s) = ExpOf(db, s)
  BY <1>6, <1>10, Unchanged
<1>17. IdxOf(db', s) = IdxOf(db, s) \cup {<<k, h>> : k \in ks}
  <2> DEFINE J(l, g) == IdxKey(EventType(s), l, ID(s, g))
  <2>1. \A l \in KeysOf(s), g \in OpenHours :
          J(l, g) \in DOMAIN db' <=> J(l, g) \in DOMAIN db \/ (l \in ks /\ g = h)
    BY <1>6, <1>9 DEF KeysOf
  <2>2. \A d : IdxOf(d, s) = {x \in KeysOf(s) \X OpenHours : J(x[1], x[2]) \in DOMAIN d}
    BY DEF IdxOf
  <2> HIDE DEF J
  <2>3. \A x \in KeysOf(s) \X OpenHours :
          x \in IdxOf(db', s) <=> x \in IdxOf(db, s) \/ (x[1] \in ks /\ x[2] = h)
    BY <2>1, <2>2
  <2>4. \A x : x \in {<<k, h>> : k \in ks} <=> x \in KeysOf(s) \X OpenHours /\ x[1] \in ks
          /\ x[2] = h
    BY SMTT(30), <1>2
  <2>5. IdxOf(db', s) \subseteq KeysOf(s) \X OpenHours
          /\ IdxOf(db, s) \subseteq KeysOf(s) \X OpenHours
    BY <2>2
  <2> QED BY <2>3, <2>4, <2>5
<1> QED BY <1>1, <1>11, <1>14, <1>15, <1>16, <1>17

\* The keys of the block that SealBatch sets and DeleteBlockAndExpiry deletes.
HourKeys(s, h) == {BlockKey(ID(s, h)), ExpiryKey(h + RetentionHours, ID(s, h))}

\* They are keys of this shard and this hour.
LEMMA HourKeysDiffer ==
  ASSUME NEW s \in Shards, NEW h \in OpenHours, NEW t \in Shards
  PROVE  /\ WALSeqKey(t) \notin HourKeys(s, h)
         /\ \A n \in Numbers : WALKey(t, n) \notin HourKeys(s, h)
         /\ \A g \in OpenHours : BlockKey(ID(t, g)) \in HourKeys(s, h) <=> t = s /\ g = h
         /\ \A g \in OpenHours :
              ExpiryKey(g + RetentionHours, ID(t, g)) \in HourKeys(s, h) <=> t = s /\ g = h
         /\ \A k \in Keys, g \in OpenHours : IdxKey(EventType(t), k, ID(t, g)) \notin HourKeys(s, h)
<1> DEFINE B == BlockKey(ID(s, h))
           X == ExpiryKey(h + RetentionHours, ID(s, h))
<1>1. B[1] = 1 /\ X[1] = 2 /\ HourKeys(s, h) = {B, X}
  BY FirstBytes DEF HourKeys
<1>2. \A key \in HourKeys(s, h) : key[1] = 1 \/ key[1] = 2
  BY <1>1
<1>3. WALSeqKey(t) \notin HourKeys(s, h)
  BY SMTT(30), <1>2, FirstBytes
<1>4. \A n \in Numbers : WALKey(t, n) \notin HourKeys(s, h)
  BY SMTT(30), <1>2, FirstBytes
<1>5. ASSUME NEW g \in OpenHours
      PROVE  /\ BlockKey(ID(t, g)) \in HourKeys(s, h) <=> t = s /\ g = h
             /\ ExpiryKey(g + RetentionHours, ID(t, g)) \in HourKeys(s, h) <=> t = s /\ g = h
  <2>1. BlockKey(ID(t, g))[1] = 1 /\ ExpiryKey(g + RetentionHours, ID(t, g))[1] = 2
    BY FirstBytes
  <2>2. BlockKey(ID(t, g)) = B <=> t = s /\ g = h
    BY SMTT(30), KeysDiffer
  <2>3. ExpiryKey(g + RetentionHours, ID(t, g)) = X <=> t = s /\ g = h
    BY SMTT(30), KeysDiffer
  <2> HIDE DEF B, X
  <2> QED BY SMTT(30), <1>1, <2>1, <2>2, <2>3
<1>6. ASSUME NEW k \in Keys, NEW g \in OpenHours
      PROVE  IdxKey(EventType(t), k, ID(t, g)) \notin HourKeys(s, h)
  <2>1. IdxKey(EventType(t), k, ID(t, g))[1] = 3
    BY FirstBytes
  <2> QED BY SMTT(30), <1>2, <2>1
<1> QED BY <1>3, <1>4, <1>5, <1>6

\* The expiries with one more block.
LEMMA OneMore ==
  ASSUME NEW d, NEW f, NEW s \in Shards, NEW h \in OpenHours,
         \A g \in OpenHours : HasExpiry(f, s, g) <=> HasExpiry(d, s, g) \/ g = h
  PROVE  ExpOf(f, s) = ExpOf(d, s) \cup {<<h + RetentionHours, h>>}
  BY DEF ExpOf

\* And one less.
LEMMA OneLess ==
  ASSUME NEW d, NEW f, NEW s \in Shards, NEW h \in OpenHours,
         \A g \in OpenHours : HasExpiry(f, s, g) <=> HasExpiry(d, s, g) /\ g # h
  PROVE  ExpOf(f, s) = ExpOf(d, s) \ {<<h + RetentionHours, h>>}
  BY SMTT(30) DEF ExpOf

\* The batch of Seal empties the log of the shard and adds the block and its expiry.
LEMMA SealBatchStep ==
  ASSUME StoreInv, NEW s \in Shards, NEW h \in OpenHours, SealBatch(s, h)
  PROVE  /\ StoreInv' /\ disk' = db'
         /\ \A t \in Shards \ {s} : Same(db, db', t)
         /\ CountOf(db', s) = CountOf(db, s) /\ WalOf(db', s) = {}
         /\ BlkOf(db', s) = BlkOf(db, s) \cup {h}
         /\ ExpOf(db', s) = ExpOf(db, s) \cup {<<h + RetentionHours, h>>}
         /\ IdxOf(db', s) = IdxOf(db, s)
<1> DEFINE W == WALRange(db, s)
           K == HourKeys(s, h)
           B == BlockKey(ID(s, h))
           X == ExpiryKey(h + RetentionHours, ID(s, h))
           put == SealPuts(s, h)
           C == K \cup W
<1>1. /\ pending[s] = None /\ db' = Batch(W, put) /\ disk' = db'
      /\ pending' = pending /\ appended' = [appended EXCEPT ![s] = <<>>]
  BY DEF SealBatch, CommitSync
<1>2. KeyInv(db) /\ pending' \in [Shards -> Numbers \cup {None}]
        /\ appended' \in [Shards -> Seq(Values)]
  BY SMTT(30), <1>1 DEF StoreInv
<1>3. /\ appended'[s] = <<>> /\ pending'[s] = None
      /\ \A t \in Shards : t # s => pending'[t] = pending[t] /\ appended'[t] = appended[t]
  BY <1>1 DEF StoreInv
<1>4. DOMAIN put = K /\ put[B] = encodeBlockMeta(SealedMeta(s, h))
  BY DEF SealPuts, HourKeys, ID
<1> HIDE DEF put
<1>5. /\ DOMAIN db' = K \cup (DOMAIN db \ W)
      /\ \A key : key \notin C => Agree(db, db', key)
  <2>1. /\ DOMAIN db' = DOMAIN put \cup (DOMAIN db \ W)
        /\ \A key \in DOMAIN put : db'[key] = put[key]
        /\ \A key : key \notin DOMAIN put \cup W => Agree(db, db', key)
    BY <1>1, BatchForm
  <2> HIDE DEF W, K
  <2> QED BY <1>4, <2>1
<1>6. KeyInv(db')
  <2>1. Pair(B, put[B])
    BY <1>4 DEF Pair, BlockPair
  <2>2. Pair(X, put[X])
    BY DEF Pair, ExpiryPair
  <2>3. \A key \in DOMAIN put : Pair(key, put[key])
    BY <1>4, <2>1, <2>2 DEF HourKeys
  <2> QED BY <1>1, <1>2, <2>3, BatchKeys
<1>7. /\ \A n \in Numbers : WALKey(s, n) \in DOMAIN db => WALKey(s, n) \in W
      /\ \A key \in W : key[1] = 6
      /\ \A t \in Shards \ {s}, n \in Numbers : WALKey(t, n) \notin W
  BY <1>2, RangeOfOne
<1> HIDE DEF W, K
<1>8. ASSUME NEW t \in Shards
      PROVE  /\ WALSeqKey(t) \notin C
             /\ t # s => \A n \in Numbers : WALKey(t, n) \notin C
             /\ \A g \in OpenHours : t # s \/ g # h => BlockKey(ID(t, g)) \notin C
             /\ \A g \in OpenHours : t # s \/ g # h
                  => ExpiryKey(g + RetentionHours, ID(t, g)) \notin C
             /\ \A k \in Keys, g \in OpenHours : IdxKey(EventType(t), k, ID(t, g)) \notin C
  <2>1. /\ WALSeqKey(t) \notin K
        /\ \A n \in Numbers : WALKey(t, n) \notin K
        /\ \A g \in OpenHours : t # s \/ g # h =>
              BlockKey(ID(t, g)) \notin K /\ ExpiryKey(g + RetentionHours, ID(t, g)) \notin K
        /\ \A k \in Keys, g \in OpenHours : IdxKey(EventType(t), k, ID(t, g)) \notin K
    BY HourKeysDiffer DEF K
  <2>2. WALSeqKey(t) \notin W
    BY SMTT(30), <1>7, FirstBytes
  <2>3. ASSUME NEW g \in OpenHours
        PROVE  BlockKey(ID(t, g)) \notin W /\ ExpiryKey(g + RetentionHours, ID(t, g)) \notin W
    <3>1. BlockKey(ID(t, g))[1] = 1 /\ ExpiryKey(g + RetentionHours, ID(t, g))[1] = 2
      BY FirstBytes
    <3> QED BY SMTT(30), <1>7, <3>1
  <2>4. ASSUME NEW k \in Keys, NEW g \in OpenHours PROVE IdxKey(EventType(t), k, ID(t, g)) \notin W
    <3>1. IdxKey(EventType(t), k, ID(t, g))[1] = 3
      BY FirstBytes
    <3> QED BY SMTT(30), <1>7, <3>1
  <2> QED BY <1>7, <2>1, <2>2, <2>3, <2>4
<1>9. \A n \in Numbers : WALKey(s, n) \notin K
  BY HourKeysDiffer DEF K
<1>10. B \in K /\ X \in K
  BY DEF K, HourKeys
<1> HIDE DEF C
<1>11. \A t \in Shards \ {s} : Untouched(C, t)
  BY <1>8 DEF Untouched
<1>12. \A t \in Shards \ {s} : Same(db, db', t)
  BY <1>5, <1>11, UntouchedSame
<1>13. Nums(db', s) = {}
  BY <1>5, <1>7, <1>9 DEF Nums
<1>14. ASSUME NEW t \in Shards PROVE ShardInv(db', t, pending'[t], appended'[t])
  <2>1. CASE t # s
    BY <1>3, <1>5, <1>11, <2>1, UntouchedLog DEF Untouched
  <2>2. CASE t = s
    BY <1>3, <1>13, <2>2, EmptyLog
  <2> QED BY <2>1, <2>2
<1>15. StoreInv'
  BY <1>1, <1>2, <1>6, <1>14, SyncedDisk DEF StoreInv
<1>16. CountOf(db', s) = CountOf(db, s)
  BY <1>5, <1>8, Unchanged
<1>17. WalOf(db', s) = {}
  BY <1>13, EmptyLog
<1>18. IdxOf(db', s) = IdxOf(db, s)
  BY SMTT(30), <1>5, <1>8, Unchanged
<1>19. BlkOf(db', s) = BlkOf(db, s) \cup {h}
  <2>1. \A g \in OpenHours :
          BlockKey(ID(s, g)) \in DOMAIN db' <=> BlockKey(ID(s, g)) \in DOMAIN db \/ g = h
    <3> TAKE g \in OpenHours
    <3>1. CASE g = h
      BY <1>5, <1>10, <3>1
    <3>2. CASE g # h
      BY <1>5, <1>8, <3>2 DEF Agree
    <3> QED BY <3>1, <3>2
  <2> QED BY <2>1 DEF BlkOf
<1>20. ExpOf(db', s) = ExpOf(db, s) \cup {<<h + RetentionHours, h>>}
  <2>1. \A g \in OpenHours : HasExpiry(db', s, g) <=> HasExpiry(db, s, g) \/ g = h
    <3> TAKE g \in OpenHours
    <3>1. CASE g = h
      BY <1>5, <1>10, <3>1 DEF HasExpiry
    <3>2. CASE g # h
      BY <1>5, <1>8, <3>2 DEF Agree, HasExpiry
    <3> QED BY <3>1, <3>2
  <2> QED BY SMTT(30), <2>1, OneMore
<1> QED BY <1>1, <1>12, <1>15, <1>16, <1>17, <1>18, <1>19, <1>20

\* DeleteBlockAndExpiry removes one block and its expiry.
LEMMA DeleteBlockAndExpiryStep ==
  ASSUME StoreInv, NEW s \in Shards, NEW h \in OpenHours, DeleteBlockAndExpiry(Entry(s, h))
  PROVE  /\ StoreInv' /\ disk' = db'
         /\ \A t \in Shards \ {s} : Same(db, db', t)
         /\ CountOf(db', s) = CountOf(db, s) /\ WalOf(db', s) = WalOf(db, s)
         /\ BlkOf(db', s) = BlkOf(db, s) \ {h}
         /\ ExpOf(db', s) = ExpOf(db, s) \ {<<h + RetentionHours, h>>}
         /\ IdxOf(db', s) = IdxOf(db, s)
<1> DEFINE C == HourKeys(s, h)
<1>1. db' = Batch(C, Nothing) /\ disk' = db' /\ pending' = pending /\ appended' = appended
  BY DEF DeleteBlockAndExpiry, CommitSync, Entry, HourKeys
<1>2. DOMAIN Nothing = {}
  BY DEF Nothing
<1>3. DOMAIN db' = DOMAIN db \ C /\ \A key : key \notin C => Agree(db, db', key)
  <2>1. /\ DOMAIN db' = DOMAIN Nothing \cup (DOMAIN db \ C)
        /\ \A key \in DOMAIN Nothing : db'[key] = Nothing[key]
        /\ \A key : key \notin DOMAIN Nothing \cup C => Agree(db, db', key)
    BY <1>1, BatchForm
  <2> QED BY <1>2, <2>1
<1>4. KeyInv(db')
  <2>1. \A key \in DOMAIN Nothing : Pair(key, Nothing[key])
    BY <1>2
  <2> QED BY <1>1, <2>1, BatchKeys DEF StoreInv
<1>6. ASSUME NEW t \in Shards
      PROVE  /\ WALSeqKey(t) \notin C
             /\ \A n \in Numbers : WALKey(t, n) \notin C
             /\ \A g \in OpenHours : BlockKey(ID(t, g)) \in C <=> t = s /\ g = h
             /\ \A g \in OpenHours : ExpiryKey(g + RetentionHours, ID(t, g)) \in C <=> t = s
                  /\ g = h
             /\ \A k \in Keys, g \in OpenHours : IdxKey(EventType(t), k, ID(t, g)) \notin C
  BY HourKeysDiffer
<1> HIDE DEF C
<1>7. \A t \in Shards \ {s} : Same(db, db', t)
  <2>1. \A t \in Shards \ {s} : Untouched(C, t)
    BY <1>6 DEF Untouched
  <2> QED BY <1>3, <2>1, UntouchedSame
<1>8. ASSUME NEW t \in Shards PROVE ShardInv(db', t, pending'[t], appended'[t])
  BY <1>1, <1>3, <1>6, UntouchedLog
<1>9. StoreInv'
  BY <1>1, <1>4, <1>8, SyncedDisk DEF StoreInv
<1>10. CountOf(db', s) = CountOf(db, s) /\ WalOf(db', s) = WalOf(db, s)
  BY SMTT(30), <1>3, <1>6, Unchanged
<1>11. IdxOf(db', s) = IdxOf(db, s)
  BY SMTT(30), <1>3, <1>6, Unchanged
<1>12. BlkOf(db', s) = BlkOf(db, s) \ {h}
  <2>1. \A g \in OpenHours :
          BlockKey(ID(s, g)) \in DOMAIN db' <=> BlockKey(ID(s, g)) \in DOMAIN db /\ g # h
    BY <1>3, <1>6
  <2> QED BY <2>1 DEF BlkOf
<1>13. ExpOf(db', s) = ExpOf(db, s) \ {<<h + RetentionHours, h>>}
  <2>1. \A g \in OpenHours : HasExpiry(db', s, g) <=> HasExpiry(db, s, g) /\ g # h
    BY <1>3, <1>6 DEF HasExpiry
  <2> QED BY SMTT(30), <2>1, OneLess
<1> QED BY <1>1, <1>7, <1>9, <1>10, <1>11, <1>12, <1>13
-----------------------------------------------------------------------------
(* Migrations, the log and crashes *)

\* What changes only migration keys changes nothing that a shard sees.
LEMMA MigrationKeysOnly ==
  ASSUME StoreInv, NEW C, \A key \in C : key[1] = 4, \A key : key \notin C => Agree(db, db', key),
         KeyInv(db'), disk' = db', pending' = pending, appended' = appended
  PROVE  StoreInv' /\ \A t \in Shards : Same(db, db', t)
<1>1. ASSUME NEW t \in Shards PROVE Untouched(C, t)
  <2>1. WALSeqKey(t) \notin C
    BY SMTT(30), FirstBytes
  <2>2. \A n \in Numbers : WALKey(t, n) \notin C
    BY SMTT(30), FirstBytes
  <2>3. ASSUME NEW g \in OpenHours
        PROVE  BlockKey(ID(t, g)) \notin C /\ ExpiryKey(g + RetentionHours, ID(t, g)) \notin C
    <3>1. BlockKey(ID(t, g))[1] = 1 /\ ExpiryKey(g + RetentionHours, ID(t, g))[1] = 2
      BY FirstBytes
    <3> QED BY SMTT(30), <3>1
  <2>4. ASSUME NEW k \in Keys, NEW g \in OpenHours PROVE IdxKey(EventType(t), k, ID(t, g)) \notin C
    <3>1. IdxKey(EventType(t), k, ID(t, g))[1] = 3
      BY FirstBytes
    <3> QED BY SMTT(30), <3>1
  <2> QED BY <2>1, <2>2, <2>3, <2>4 DEF Untouched
<1>2. \A t \in Shards : Same(db, db', t)
  BY <1>1, UntouchedSame
<1>3. ASSUME NEW t \in Shards PROVE ShardInv(db', t, pending'[t], appended'[t])
  BY <1>1, UntouchedLog DEF Untouched
<1>4. StoreInv'
  BY <1>3, SyncedDisk DEF StoreInv
<1> QED BY <1>2, <1>4

\* PutMigrationMeta changes nothing that a shard sees.
LEMMA PutMigrationMetaStep ==
  ASSUME StoreInv, NEW s \in Shards, NEW h \in OpenHours, PutMigrationMeta(ID(s, h), 1, TRUE)
  PROVE  StoreInv' /\ disk' = db' /\ \A t \in Shards : Same(db, db', t)
<1> DEFINE key == MigrationKey(ID(s, h))
           val == <<1, IF TRUE THEN 1 ELSE 0>>
           put == Set(key, val)
           C == {key}
<1>1. db' = Batch({}, put) /\ disk' = db' /\ pending' = pending /\ appended' = appended
  BY DEF PutMigrationMeta, CommitSync
<1>2. DOMAIN put = {key} /\ \A k \in C : k[1] = 4
  BY FirstBytes DEF Set
<1> HIDE DEF put
<1>3. \A k : k \notin C => Agree(db, db', k)
  <2>1. /\ DOMAIN db' = DOMAIN put \cup (DOMAIN db \ {})
        /\ \A k \in DOMAIN put : db'[k] = put[k]
        /\ \A k : k \notin DOMAIN put \cup {} => Agree(db, db', k)
    BY <1>1, BatchForm
  <2> QED BY <1>2, <2>1
<1>4. KeyInv(db')
  <2>1. \A k \in DOMAIN put : Pair(k, put[k])
    BY <1>2 DEF Pair, MigrPair
  <2> QED BY <1>1, <2>1, BatchKeys DEF StoreInv
<1> HIDE DEF C
<1> QED BY <1>1, <1>2, <1>3, <1>4, MigrationKeysOnly

\* DeleteMigrationMeta changes nothing that a shard sees.
LEMMA DeleteMigrationMetaStep ==
  ASSUME StoreInv, NEW s \in Shards, NEW h \in OpenHours, DeleteMigrationMeta(ID(s, h))
  PROVE  StoreInv' /\ disk' = db' /\ \A t \in Shards : Same(db, db', t)
<1> DEFINE C == {MigrationKey(ID(s, h))}
<1>1. db' = Batch(C, Nothing) /\ disk' = db' /\ pending' = pending /\ appended' = appended
  BY DEF DeleteMigrationMeta, CommitSync
<1>2. DOMAIN Nothing = {} /\ \A key \in C : key[1] = 4
  BY FirstBytes DEF Nothing
<1> HIDE DEF C
<1>3. \A key : key \notin C => Agree(db, db', key)
  <2>1. /\ DOMAIN db' = DOMAIN Nothing \cup (DOMAIN db \ C)
        /\ \A key \in DOMAIN Nothing : db'[key] = Nothing[key]
        /\ \A key : key \notin DOMAIN Nothing \cup C => Agree(db, db', key)
    BY <1>1, BatchForm
  <2> QED BY <1>2, <2>1
<1>4. KeyInv(db')
  <2>1. \A key \in DOMAIN Nothing : Pair(key, Nothing[key])
    BY <1>2
  <2> QED BY <1>1, <2>1, BatchKeys DEF StoreInv
<1> QED BY <1>1, <1>2, <1>3, <1>4, MigrationKeysOnly

\* Writing the log out changes nothing that a shard reads.
LEMMA LogWrittenStep ==
  ASSUME StoreInv, LogWritten
  PROVE  StoreInv' /\ disk' = db' /\ \A t \in Shards : Same(db, db', t)
<1>1. db' = db /\ disk' = db /\ pending' = pending /\ appended' = appended
  BY DEF LogWritten
<1>2. KeyInv(db') /\ KeyInv(disk')
  BY <1>1 DEF StoreInv
<1>3. DiskInv(db', disk')
  BY <1>1 DEF DiskInv
<1>4. \A t \in Shards : ShardInv(db', t, pending'[t], appended'[t])
  BY <1>1 DEF StoreInv
<1>5. StoreInv'
  BY <1>1, <1>2, <1>3, <1>4 DEF StoreInv
<1>6. \A t \in Shards : Same(db, db', t)
  BY <1>1 DEF Same
<1> QED BY <1>1, <1>5, <1>6

\* A crash loses index keys only.
LEMMA CrashStep ==
  ASSUME StoreInv, Crash
  PROVE  /\ StoreInv' /\ db' = disk /\ disk' = disk
         /\ \A t \in Shards :
              /\ CountOf(db', t) = CountOf(db, t) /\ WalOf(db', t) = WalOf(db, t)
              /\ BlkOf(db', t) = BlkOf(db, t) /\ ExpOf(db', t) = ExpOf(db, t)
              /\ IdxOf(db', t) \subseteq IdxOf(db, t)
<1> DEFINE C == {key \in DOMAIN db : key[1] = 3}
<1>1. db' = disk /\ disk' = disk /\ pending' = [t \in Shards |-> None] /\ appended' = appended
  BY DEF Crash
<1>2. KeyInv(db) /\ KeyInv(disk) /\ DiskInv(db, disk)
  BY DEF StoreInv
<1>3. ASSUME NEW key, key \notin C PROVE Agree(db, disk, key)
  BY <1>2, <1>3 DEF DiskInv, Agree
<1>4. \A key \in C : key[1] = 3
  OBVIOUS
<1> HIDE DEF C
<1>5. ASSUME NEW t \in Shards
      PROVE  /\ WALSeqKey(t) \notin C
             /\ \A n \in Numbers : WALKey(t, n) \notin C
             /\ \A g \in OpenHours : BlockKey(ID(t, g)) \notin C
             /\ \A g \in OpenHours : ExpiryKey(g + RetentionHours, ID(t, g)) \notin C
  <2>1. WALSeqKey(t) \notin C
    BY SMTT(30), <1>4, FirstBytes
  <2>2. \A n \in Numbers : WALKey(t, n) \notin C
    BY SMTT(30), <1>4, FirstBytes
  <2>3. ASSUME NEW g \in OpenHours
        PROVE  BlockKey(ID(t, g)) \notin C /\ ExpiryKey(g + RetentionHours, ID(t, g)) \notin C
    <3>1. BlockKey(ID(t, g))[1] = 1 /\ ExpiryKey(g + RetentionHours, ID(t, g))[1] = 2
      BY FirstBytes
    <3> QED BY SMTT(30), <1>4, <3>1
  <2> QED BY <2>1, <2>2, <2>3
<1>6. ASSUME NEW t \in Shards
      PROVE  /\ CountOf(disk, t) = CountOf(db, t) /\ WalOf(disk, t) = WalOf(db, t)
             /\ Nums(disk, t) = Nums(db, t)
             /\ \A n \in Nums(db, t) : disk[WALKey(t, n)] = db[WALKey(t, n)]
             /\ BlkOf(disk, t) = BlkOf(db, t) /\ ExpOf(disk, t) = ExpOf(db, t)
             /\ IdxOf(disk, t) \subseteq IdxOf(db, t)
  <2>1. CountOf(disk, t) = CountOf(db, t)
    BY <1>3, <1>5, Unchanged
  <2>2. /\ WalOf(disk, t) = WalOf(db, t) /\ Nums(disk, t) = Nums(db, t)
        /\ \A n \in Nums(db, t) : disk[WALKey(t, n)] = db[WALKey(t, n)]
    BY <1>3, <1>5, Unchanged
  <2>3. BlkOf(disk, t) = BlkOf(db, t) /\ ExpOf(disk, t) = ExpOf(db, t)
    BY <1>3, <1>5, Unchanged
  <2>4. DOMAIN disk \subseteq DOMAIN db
    BY <1>2 DEF DiskInv
  <2>5. IdxOf(disk, t) \subseteq IdxOf(db, t)
    BY <2>4 DEF IdxOf
  <2> QED BY <2>1, <2>2, <2>3, <2>5
<1>7. ASSUME NEW t \in Shards PROVE ShardInv(disk, t, None, appended[t])
  <2> DEFINE p == pending[t]
             a == appended[t]
             n == CountOf(db, t)
  <2>1. p \in Numbers \cup {None} /\ a \in Seq(Values) /\ ShardInv(db, t, p, a)
    BY DEF StoreInv
  <2>2. n \in Nat
    BY <1>2, CountType
  <2> HIDE DEF p, a
  <2>3. Limit(disk, t, None) = n
    BY <1>6 DEF Limit
  <2>4. Limit(db, t, p) \in Nat /\ Limit(db, t, p) <= n
    <3>1. CASE p = None
      BY SMTT(30), <2>2, <3>1 DEF Limit
    <3>2. CASE p # None
      <4>1. p \in Nat /\ n = p + 1 /\ Limit(db, t, p) = p
        BY <2>1, <3>2, Ranges DEF ShardInv, Limit
      <4> HIDE DEF n
      <4> QED BY SMTT(30), <4>1
    <3> QED BY <3>1, <3>2
  <2> HIDE DEF n
  <2>5. Log(db, t, p, a)
    BY <2>1 DEF ShardInv
  <2>6. Limit(disk, t, None) \in Nat /\ Limit(db, t, p) <= Limit(disk, t, None)
    BY <2>2, <2>3, <2>4
  <2>7. Log(disk, t, None, a)
    BY <1>6, <2>1, <2>4, <2>5, <2>6, LogKept
  <2> QED BY <2>7 DEF ShardInv, a
<1>8. \A t \in Shards : ShardInv(db', t, pending'[t], appended'[t])
  BY <1>1, <1>7
<1>9. DiskInv(db', disk')
  BY <1>1 DEF DiskInv
<1>10. StoreInv'
  BY <1>1, <1>2, <1>8, <1>9 DEF StoreInv
<1> QED BY <1>1, <1>6, <1>10
-----------------------------------------------------------------------------
(* The stores of the shards *)

\* What the shards see before and after a step.
SeenStep ==
    \A t \in Shards : seen[t] = ViewOf(db, disk, t) /\ seen'[t] = ViewOf(db', disk', t)

\* The step is one of the store of the shard.
StoreStep(t) == [Store(t)!PebbleNext]_(Store(t)!pebbleVars)

\* The same, field by field.
LEMMA Fields ==
  ASSUME SeenStep, NEW t \in Shards
  PROVE  /\ seen[t].walSeq = CountOf(db, t) /\ seen[t].wal = WalOf(db, t)
         /\ seen[t].blk = BlkOf(db, t) /\ seen[t].exp = ExpOf(db, t)
         /\ seen[t].idx = IdxOf(db, t) /\ seen[t].idxSynced = IdxOf(disk, t)
         /\ seen'[t].walSeq = CountOf(db', t) /\ seen'[t].wal = WalOf(db', t)
         /\ seen'[t].blk = BlkOf(db', t) /\ seen'[t].exp = ExpOf(db', t)
         /\ seen'[t].idx = IdxOf(db', t) /\ seen'[t].idxSynced = IdxOf(disk', t)
<1>1. seen[t] = ViewOf(db, disk, t) /\ seen'[t] = ViewOf(db', disk', t)
  BY DEF SeenStep
<1>2. /\ seen[t].walSeq = CountOf(db, t) /\ seen[t].wal = WalOf(db, t)
      /\ seen[t].blk = BlkOf(db, t) /\ seen[t].exp = ExpOf(db, t)
      /\ seen[t].idx = IdxOf(db, t) /\ seen[t].idxSynced = IdxOf(disk, t)
  BY SMTT(30), <1>1 DEF ViewOf
<1>3. /\ seen'[t].walSeq = CountOf(db', t) /\ seen'[t].wal = WalOf(db', t)
      /\ seen'[t].blk = BlkOf(db', t) /\ seen'[t].exp = ExpOf(db', t)
      /\ seen'[t].idx = IdxOf(db', t) /\ seen'[t].idxSynced = IdxOf(disk', t)
  BY SMTT(30), <1>1 DEF ViewOf
<1> QED BY <1>2, <1>3

\* To a shard that the call is not for, a commit with Sync only writes the log out.
LEMMA OtherShard ==
  ASSUME SeenStep, NEW t \in Shards, disk' = db', Same(db, db', t)
  PROVE  StoreStep(t)
<1>1. /\ seen'[t].walSeq = seen[t].walSeq /\ seen'[t].wal = seen[t].wal
      /\ seen'[t].blk = seen[t].blk /\ seen'[t].exp = seen[t].exp
      /\ seen'[t].idx = seen[t].idx /\ seen'[t].idxSynced = seen[t].idx
  BY Fields DEF Same
<1>2. Store(t)!LogSynced
  BY <1>1 DEF Store!LogSynced, Store!Synced
<1> QED BY <1>2 DEF StoreStep, Store!PebbleNext

\* WALNextSeq is the WALNextSeq of the shard's own store.
LEMMA WALNextSeqStore ==
  ASSUME StoreInv, SeenStep, NEW s \in Shards, WALNextSeq(s)
  PROVE  StoreInv' /\ \A t \in Shards : StoreStep(t)
<1>1. /\ StoreInv' /\ disk' = db'
      /\ \A t \in Shards \ {s} : Same(db, db', t)
      /\ CountOf(db', s) = CountOf(db, s) + 1 /\ WalOf(db', s) = WalOf(db, s)
      /\ BlkOf(db', s) = BlkOf(db, s) /\ ExpOf(db', s) = ExpOf(db, s)
           /\ IdxOf(db', s) = IdxOf(db, s)
  BY WALNextSeqStep
<1>2. /\ seen'[s].walSeq = seen[s].walSeq + 1 /\ seen'[s].wal = seen[s].wal
      /\ seen'[s].blk = seen[s].blk /\ seen'[s].exp = seen[s].exp
      /\ seen'[s].idx = seen[s].idx /\ seen'[s].idxSynced = seen[s].idx
  BY <1>1, Fields
<1>3. Store(s)!WALNextSeq
  BY <1>2 DEF Store!WALNextSeq, Store!Synced
<1>4. StoreStep(s)
  BY <1>3 DEF StoreStep, Store!PebbleNext
<1>5. \A t \in Shards \ {s} : StoreStep(t)
  BY <1>1, OtherShard
<1> QED BY <1>1, <1>4, <1>5

\* WALAppend is the WALSet of the shard's own store.
LEMMA WALAppendStore ==
  ASSUME StoreInv, SeenStep, NEW s \in Shards, NEW e \in Events, WALAppend(s, e)
  PROVE  StoreInv' /\ \A t \in Shards : StoreStep(t)
<1>1. /\ StoreInv' /\ disk' = db'
      /\ \A t \in Shards \ {s} : Same(db, db', t)
      /\ CountOf(db', s) = CountOf(db, s)
      /\ WalOf(db', s) = {w \in WalOf(db, s) : w.seq # CountOf(db, s)}
                           \cup {[seq |-> CountOf(db, s), event |-> e]}
      /\ BlkOf(db', s) = BlkOf(db, s) /\ ExpOf(db', s) = ExpOf(db, s)
           /\ IdxOf(db', s) = IdxOf(db, s)
  BY WALAppendStep
<1>2. /\ seen'[s].walSeq = seen[s].walSeq
      /\ seen'[s].wal = {w \in seen[s].wal : w.seq # seen[s].walSeq}
                          \cup {[seq |-> seen[s].walSeq, event |-> e]}
      /\ seen'[s].blk = seen[s].blk /\ seen'[s].exp = seen[s].exp
      /\ seen'[s].idx = seen[s].idx /\ seen'[s].idxSynced = seen[s].idx
  BY <1>1, Fields
<1>3. Store(s)!WALSet(e)
  BY <1>2 DEF Store!WALSet, Store!Synced
<1>4. StoreStep(s)
  BY <1>3 DEF StoreStep, Store!PebbleNext
<1>5. \A t \in Shards \ {s} : StoreStep(t)
  BY <1>1, OtherShard
<1> QED BY <1>1, <1>4, <1>5

\* WALTruncate is the WALTruncate of the shard's own store.
LEMMA WALTruncateStore ==
  ASSUME StoreInv, SeenStep, NEW s \in Shards, WALTruncate(s)
  PROVE  StoreInv' /\ \A t \in Shards : StoreStep(t)
<1>1. /\ StoreInv' /\ disk' = db'
      /\ \A t \in Shards \ {s} : Same(db, db', t)
      /\ CountOf(db', s) = CountOf(db, s) /\ WalOf(db', s) = {}
      /\ BlkOf(db', s) = BlkOf(db, s) /\ ExpOf(db', s) = ExpOf(db, s)
           /\ IdxOf(db', s) = IdxOf(db, s)
  BY WALTruncateStep
<1>2. /\ seen'[s].walSeq = seen[s].walSeq /\ seen'[s].wal = {}
      /\ seen'[s].blk = seen[s].blk /\ seen'[s].exp = seen[s].exp
      /\ seen'[s].idx = seen[s].idx /\ seen'[s].idxSynced = seen[s].idx
  BY <1>1, Fields
<1>3. Store(s)!WALTruncate
  BY <1>2 DEF Store!WALTruncate, Store!Synced
<1>4. StoreStep(s)
  BY <1>3 DEF StoreStep, Store!PebbleNext
<1>5. \A t \in Shards \ {s} : StoreStep(t)
  BY <1>1, OtherShard
<1> QED BY <1>1, <1>4, <1>5

\* The hours at which blocks are opened are hours of Storage.
LEMMA StoreHours ==
  ASSUME NEW s \in Shards, NEW h \in OpenHours
  PROVE  h \in Store(s)!BlockIDs /\ h + RetentionHours \in 0 .. (MaxHour + RetentionHours)
<1>1. h \in 0 .. MaxHour /\ RetentionHours \in Nat /\ MaxHour \in Nat
  BY HourAssumption
<1> QED BY SMTT(30), <1>1 DEF Store!BlockIDs, Store!Hours

\* PutIdxBatch is the PutIdxBatch of the shard's own store, and nothing to the others.
LEMMA PutIdxBatchStore ==
  ASSUME StoreInv, SeenStep, NEW s \in Shards, NEW h \in OpenHours, NEW ks \in SUBSET KeysOf(s),
         PutIdxBatch(s, ks, ID(s, h))
  PROVE  StoreInv' /\ \A t \in Shards : StoreStep(t)
<1>1. /\ StoreInv' /\ disk' = disk
      /\ \A t \in Shards \ {s} : Same(db, db', t)
      /\ CountOf(db', s) = CountOf(db, s) /\ WalOf(db', s) = WalOf(db, s)
      /\ BlkOf(db', s) = BlkOf(db, s) /\ ExpOf(db', s) = ExpOf(db, s)
      /\ IdxOf(db', s) = IdxOf(db, s) \cup {<<k, h>> : k \in ks}
  BY PutIdxBatchStep
<1>2. /\ seen'[s].walSeq = seen[s].walSeq /\ seen'[s].wal = seen[s].wal
      /\ seen'[s].blk = seen[s].blk /\ seen'[s].exp = seen[s].exp
      /\ seen'[s].idx = seen[s].idx \cup {<<k, h>> : k \in ks}
      /\ seen'[s].idxSynced = seen[s].idxSynced
  BY <1>1, Fields
<1>3. Store(s)!PutIdxBatch(ks, h)
  BY <1>2 DEF Store!PutIdxBatch
<1>4. h \in Store(s)!BlockIDs /\ ks \in SUBSET Keys
  BY StoreHours DEF KeysOf
<1>5. StoreStep(s)
  BY <1>3, <1>4 DEF StoreStep, Store!PebbleNext
<1>6. ASSUME NEW t \in Shards \ {s} PROVE StoreStep(t)
  <2>1. /\ seen'[t].walSeq = seen[t].walSeq /\ seen'[t].wal = seen[t].wal
        /\ seen'[t].blk = seen[t].blk /\ seen'[t].exp = seen[t].exp
        /\ seen'[t].idx = seen[t].idx /\ seen'[t].idxSynced = seen[t].idxSynced
    BY SMTT(30), <1>1, Fields DEF Same
  <2> QED BY <2>1 DEF StoreStep, Store!pebbleVars
<1> QED BY <1>1, <1>5, <1>6

\* SealBatch is the SealBatch of the shard's own store.
LEMMA SealBatchStore ==
  ASSUME StoreInv, SeenStep, NEW s \in Shards, NEW h \in OpenHours, SealBatch(s, h)
  PROVE  StoreInv' /\ \A t \in Shards : StoreStep(t)
<1>1. /\ StoreInv' /\ disk' = db'
      /\ \A t \in Shards \ {s} : Same(db, db', t)
      /\ CountOf(db', s) = CountOf(db, s) /\ WalOf(db', s) = {}
      /\ BlkOf(db', s) = BlkOf(db, s) \cup {h}
      /\ ExpOf(db', s) = ExpOf(db, s) \cup {<<h + RetentionHours, h>>}
      /\ IdxOf(db', s) = IdxOf(db, s)
  BY SealBatchStep
<1>2. /\ seen'[s].walSeq = seen[s].walSeq /\ seen'[s].wal = {}
      /\ seen'[s].blk = seen[s].blk \cup {h}
      /\ seen'[s].exp = seen[s].exp \cup {<<h + RetentionHours, h>>}
      /\ seen'[s].idx = seen[s].idx /\ seen'[s].idxSynced = seen[s].idx
  BY <1>1, Fields
<1>3. Store(s)!SealBatch(h)
  BY <1>2 DEF Store!SealBatch, Store!Synced, Store!ExpiryHour
<1>4. StoreStep(s)
  BY <1>3, StoreHours DEF StoreStep, Store!PebbleNext
<1>5. \A t \in Shards \ {s} : StoreStep(t)
  BY <1>1, OtherShard
<1> QED BY <1>1, <1>4, <1>5

\* DeleteBlockAndExpiry is that of the store of the shard whose block it is.
LEMMA DeleteBlockAndExpiryStore ==
  ASSUME StoreInv, SeenStep, NEW entry \in ScanExpiredEntries(LastHour), DeleteBlockAndExpiry(entry)
  PROVE  StoreInv' /\ \A t \in Shards : StoreStep(t)
<1>1. PICK s \in Shards, h \in OpenHours : entry = Entry(s, h)
  BY Ranges, ExpiredForm DEF StoreInv
<1>2. /\ StoreInv' /\ disk' = db'
      /\ \A t \in Shards \ {s} : Same(db, db', t)
      /\ CountOf(db', s) = CountOf(db, s) /\ WalOf(db', s) = WalOf(db, s)
      /\ BlkOf(db', s) = BlkOf(db, s) \ {h}
      /\ ExpOf(db', s) = ExpOf(db, s) \ {<<h + RetentionHours, h>>}
      /\ IdxOf(db', s) = IdxOf(db, s)
  BY <1>1, DeleteBlockAndExpiryStep
<1>3. /\ seen'[s].walSeq = seen[s].walSeq /\ seen'[s].wal = seen[s].wal
      /\ seen'[s].blk = seen[s].blk \ {h}
      /\ seen'[s].exp = seen[s].exp \ {<<h + RetentionHours, h>>}
      /\ seen'[s].idx = seen[s].idx /\ seen'[s].idxSynced = seen[s].idx
  BY <1>2, Fields
<1>4. Store(s)!DeleteBlockAndExpiry(h + RetentionHours, h)
  BY <1>3 DEF Store!DeleteBlockAndExpiry, Store!Synced
<1>5. StoreStep(s)
  BY <1>4, StoreHours DEF StoreStep, Store!PebbleNext
<1>6. \A t \in Shards \ {s} : StoreStep(t)
  BY <1>2, OtherShard
<1> QED BY <1>2, <1>5, <1>6

\* A crash is a crash of every store.
LEMMA CrashStore ==
  ASSUME StoreInv, SeenStep, Crash
  PROVE  StoreInv' /\ \A t \in Shards : StoreStep(t)
<1>1. /\ StoreInv' /\ db' = disk /\ disk' = disk
      /\ \A t \in Shards :
           /\ CountOf(db', t) = CountOf(db, t) /\ WalOf(db', t) = WalOf(db, t)
           /\ BlkOf(db', t) = BlkOf(db, t) /\ ExpOf(db', t) = ExpOf(db, t)
           /\ IdxOf(db', t) \subseteq IdxOf(db, t)
  BY CrashStep
<1>2. ASSUME NEW t \in Shards PROVE StoreStep(t)
  <2>1. /\ seen'[t].walSeq = seen[t].walSeq /\ seen'[t].wal = seen[t].wal
        /\ seen'[t].blk = seen[t].blk /\ seen'[t].exp = seen[t].exp
        /\ seen'[t].idx \subseteq seen[t].idx /\ seen'[t].idx = seen[t].idxSynced
        /\ seen'[t].idxSynced = seen'[t].idx
    BY <1>1, Fields
  <2>2. Store(t)!PebbleCrash
    BY <2>1 DEF Store!PebbleCrash
  <2> QED BY <2>2 DEF StoreStep, Store!PebbleNext
<1> QED BY <1>1, <1>2
-----------------------------------------------------------------------------
(* Theorems *)

\* Every write keeps the invariant, and is a step of every store once seen follows.
LEMMA WriteStep ==
  ASSUME StoreInv, Write
  PROVE  StoreInv' /\ (SeenStep => \A t \in Shards : StoreStep(t))
<1>1. ASSUME NEW s \in Shards, WALNextSeq(s) PROVE StoreInv' /\ (SeenStep
               => \A t \in Shards : StoreStep(t))
  BY <1>1, WALNextSeqStep, WALNextSeqStore
<1>2. ASSUME NEW s \in Shards, WALTruncate(s) PROVE StoreInv' /\ (SeenStep
               => \A t \in Shards : StoreStep(t))
  BY <1>2, WALTruncateStep, WALTruncateStore
<1>3. ASSUME NEW s \in Shards, NEW e \in Events, WALAppend(s, e)
      PROVE  StoreInv' /\ (SeenStep => \A t \in Shards : StoreStep(t))
  BY <1>3, WALAppendStep, WALAppendStore
<1>4. ASSUME NEW s \in Shards, NEW h \in OpenHours, NEW ks \in SUBSET KeysOf(s) \ {{}},
             PutIdxBatch(s, ks, BlockIDFromShardAndHour(s, h))
      PROVE  StoreInv' /\ (SeenStep => \A t \in Shards : StoreStep(t))
  <2>1. ks \in SUBSET KeysOf(s) /\ PutIdxBatch(s, ks, ID(s, h))
    BY <1>4 DEF ID
  <2> QED BY <2>1, PutIdxBatchStep, PutIdxBatchStore
<1>5. ASSUME NEW s \in Shards, NEW h \in OpenHours, SealBatch(s, h)
      PROVE  StoreInv' /\ (SeenStep => \A t \in Shards : StoreStep(t))
  BY <1>5, SealBatchStep, SealBatchStore
<1>6. ASSUME NEW s \in Shards, ShardWrites(s) PROVE StoreInv' /\ (SeenStep
               => \A t \in Shards : StoreStep(t))
  BY <1>1, <1>2, <1>3, <1>4, <1>5, <1>6 DEF ShardWrites
<1>7. ASSUME NEW entry \in ScanExpiredEntries(LastHour), DeleteBlockAndExpiry(entry)
      PROVE  StoreInv' /\ (SeenStep => \A t \in Shards : StoreStep(t))
  <2>1. PICK s \in Shards, h \in OpenHours : entry = Entry(s, h)
    BY Ranges, ExpiredForm DEF StoreInv
  <2>2. StoreInv'
    BY <1>7, <2>1, DeleteBlockAndExpiryStep
  <2> QED BY <1>7, <2>2, DeleteBlockAndExpiryStore
<1>8. ASSUME disk' = db', \A t \in Shards : Same(db, db', t)
      PROVE  SeenStep => \A t \in Shards : StoreStep(t)
  BY <1>8, OtherShard
<1>9. ASSUME NEW id \in BlockIDs, PutMigrationMeta(id, 1, TRUE) \/ DeleteMigrationMeta(id)
      PROVE  StoreInv' /\ (SeenStep => \A t \in Shards : StoreStep(t))
  <2>1. PICK s \in Shards, h \in OpenHours : id = ID(s, h)
    BY SMTT(30) DEF BlockIDs, ID
  <2>2. StoreInv' /\ disk' = db' /\ \A t \in Shards : Same(db, db', t)
    BY <1>9, <2>1, PutMigrationMetaStep, DeleteMigrationMetaStep
  <2> QED BY <1>8, <2>2
<1>10. ASSUME LogWritten PROVE StoreInv' /\ (SeenStep => \A t \in Shards : StoreStep(t))
  <2>1. StoreInv' /\ disk' = db' /\ \A t \in Shards : Same(db, db', t)
    BY <1>10, LogWrittenStep
  <2> QED BY <1>8, <2>1
<1>11. ASSUME Crash PROVE StoreInv' /\ (SeenStep => \A t \in Shards : StoreStep(t))
  BY <1>11, CrashStep, CrashStore
<1> QED BY <1>6, <1>7, <1>9, <1>10, <1>11 DEF Write

\* The history variable holds what the shards see.
LEMMA SeenNow ==
  IInv => \A s \in Shards : seen[s] = ViewOf(db, disk, s)
<1>1. IInv => KeyInv(db) /\ KeyInv(disk) /\ seen = [shard \in Shards |-> View(shard)]
  BY DEF IInv, StoreInv
<1> QED BY <1>1, ViewForm

\* A step keeps the invariant and is a step, or a stutter, of every store.
LEMMA NextStep ==
  ASSUME IInv, Next
  PROVE  IInv' /\ \A t \in Shards : StoreStep(t)
<1>1. StoreInv /\ Write /\ seen' = [shard \in Shards |-> View(shard)']
  BY DEF IInv, Next
<1>2. StoreInv' /\ (SeenStep => \A t \in Shards : StoreStep(t))
  BY <1>1, WriteStep
<1>3. IInv'
  BY <1>1, <1>2 DEF IInv
<1>4. IInv' => (\A s \in Shards : seen[s] = ViewOf(db, disk, s))'
  BY SeenNow, PTL
<1>5. (\A s \in Shards : seen[s] = ViewOf(db, disk, s))'
  BY <1>3, <1>4
<1>6. \A s \in Shards : seen'[s] = ViewOf(db', disk', s)
  BY <1>5 DEF ViewOf, CountOf, WalOf, BlkOf, ExpOf, IdxOf
<1>7. SeenStep
  BY <1>6, SeenNow DEF SeenStep
<1> QED BY <1>2, <1>3, <1>7

\* The database is empty at first.
LEMMA InitInv ==
  ASSUME Init
  PROVE  IInv /\ \A s \in Shards : Store(s)!StorageInit
<1>1. DOMAIN db = {} /\ disk = db
  BY DEF Init, Nothing
<1>2. KeyInv(db) /\ KeyInv(disk) /\ DiskInv(db, disk)
  BY <1>1 DEF KeyInv, DiskInv
<1>3. ASSUME NEW s \in Shards
      PROVE  /\ CountOf(db, s) = 0 /\ WalOf(db, s) = {} /\ BlkOf(db, s) = {}
             /\ ExpOf(db, s) = {} /\ IdxOf(db, s) = {} /\ Nums(db, s) = {}
  <2>1. Nums(db, s) = {} /\ CountOf(db, s) = 0
    BY <1>1 DEF Nums, CountOf
  <2>2. WalOf(db, s) = {}
    BY <2>1, EmptyLog
  <2>3. BlkOf(db, s) = {} /\ IdxOf(db, s) = {}
    BY <1>1 DEF BlkOf, IdxOf
  <2>4. \A h \in OpenHours : ~HasExpiry(db, s, h)
    BY <1>1 DEF HasExpiry
  <2>5. ExpOf(db, s) = {}
    BY <2>4 DEF ExpOf
  <2> QED BY <2>1, <2>2, <2>3, <2>5
<1>4. /\ pending \in [Shards -> Numbers \cup {None}] /\ appended \in [Shards -> Seq(Values)]
      /\ \A s \in Shards : pending[s] = None /\ appended[s] = <<>>
  BY SMTT(30) DEF Init
<1>5. \A s \in Shards : ShardInv(db, s, pending[s], appended[s])
  BY <1>3, <1>4, EmptyLog
<1>6. IInv
  BY <1>2, <1>4, <1>5 DEF IInv, StoreInv, Init
<1>7. ASSUME NEW s \in Shards PROVE Store(s)!StorageInit
  <2>1. seen[s] = ViewOf(db, disk, s)
    BY <1>6, SeenNow
  <2>2. /\ seen[s].walSeq = 0 /\ seen[s].wal = {} /\ seen[s].blk = {} /\ seen[s].exp = {}
        /\ seen[s].idx = {} /\ seen[s].idxSynced = {}
    BY SMTT(30), <1>1, <1>3, <2>1 DEF ViewOf
  <2> QED BY <2>2 DEF Store!StorageInit, Store!BlockIDs, Store!Hours
<1> QED BY <1>6, <1>7

(* The invariant holds in every reachable state: whatever the shards call    *)
(* and wherever a crash falls, the database has only pairs of the six forms, *)
(* the disk lacks index keys at most, and the entries of each shard are its  *)
(* appended events under increasing numbers below its counter.               *)
THEOREM MetaStoreInvariant == Spec => []IInv
<1>1. Init => IInv
  BY InitInv
<1>2. IInv /\ [Next]_vars => IInv'
  <2>1. ASSUME IInv, UNCHANGED vars PROVE IInv'
    <3>1. db' = db /\ disk' = disk /\ pending' = pending /\ seen' = seen /\ appended' = appended
      BY <2>1 DEF vars
    <3>2. StoreInv'
      BY <2>1, <3>1 DEF IInv, StoreInv
    <3>3. (KeyInv(db) /\ KeyInv(disk) => \A s \in Shards : View(s) = ViewOf(db, disk, s))'
      BY ViewForm, PTL
    <3>4. \A s \in Shards : View(s)' = ViewOf(db', disk', s)
      BY <3>2, <3>3 DEF StoreInv, ViewOf, CountOf, WalOf, BlkOf, ExpOf, IdxOf
    <3>5. \A s \in Shards : View(s) = ViewOf(db, disk, s)
      BY <2>1, ViewForm DEF IInv, StoreInv
    <3>6. seen' = [shard \in Shards |-> View(shard)']
      BY <2>1, <3>1, <3>4, <3>5 DEF IInv
    <3> QED BY <3>2, <3>6 DEF IInv
  <2> QED BY <2>1, NextStep
<1> QED BY <1>1, <1>2, PTL DEF Spec

(* ScanInProgressMigrations returns the blocks for which GetMigrationMeta    *)
(* finds a migration, and no others.                                         *)
THEOREM AllMigrationsFound == Spec => []MigrationsFound
<1>1. IInv => MigrationsFound
  BY MigrationsForm DEF IInv, StoreInv
<1> QED BY <1>1, MetaStoreInvariant, PTL

(* One pebble database implements, for every shard, the store of Storage on  *)
(* which the writer, the reaper, the queries and the recovery are verified:  *)
(* a call for a shard is the call of the same name on its store, a call for  *)
(* another shard at most makes its earlier writes durable.                   *)
THEOREM StorageImplemented == Spec => ImplementsStorage
<1> DEFINE Step == \A shard \in Shards : [Store(shard)!PebbleNext]_(Store(shard)!pebbleVars)
<1>1. Init => \A shard \in Shards : Store(shard)!StorageInit
  BY InitInv
<1>2. IInv /\ [Next]_vars => [Step]_vars
  BY NextStep DEF StoreStep
<1> QED BY <1>1, <1>2, MetaStoreInvariant, PTL DEF Spec, ImplementsStorage
-----------------------------------------------------------------------------
(* The order of a scan *)

INSTANCE FiniteSetTheorems

\* A set of numbers has a least one.
LEMMA NatMin ==
  ASSUME NEW T \in SUBSET Nat, T # {}
  PROVE  \E x \in T : \A y \in T : x <= y
<1> DEFINE R == OpToRel(<, Nat)
<1>1. IsWellFoundedOn(R, Nat)
  BY NatLessThanWellFounded
<1>2. \A x, y \in Nat : y < x => <<y, x>> \in R
  BY DEF OpToRel
<1> HIDE DEF R
<1>3. PICK x \in T : \A y \in T : ~(<<y, x>> \in R)
  BY <1>1, WFMin
<1>4. ASSUME NEW y \in T PROVE x <= y
  <2>1. x \in Nat /\ y \in Nat /\ ~(<<y, x>> \in R)
    BY <1>3
  <2>2. ~(y < x)
    BY <2>1, <1>2
  <2> QED BY SMTT(30), <2>1, <2>2
<1> QED BY <1>4

\* There is one way to enumerate a set of numbers in increasing order.
LEMMA OneEnumeration ==
  ASSUME NEW N \in Nat, NEW f \in [1..N -> Nat], NEW g \in [1..N -> Nat],
         \A i, j \in 1..N : i < j => f[i] < f[j],
         \A i, j \in 1..N : i < j => g[i] < g[j],
         \A i \in 1..N : \E j \in 1..N : f[i] = g[j],
         \A i \in 1..N : \E j \in 1..N : g[i] = f[j]
  PROVE  f = g
<1> DEFINE Bad == {i \in 1..N : f[i] # g[i]}
<1> SUFFICES ASSUME Bad # {} PROVE FALSE
  <2>1. \A i \in 1..N : f[i] = g[i]
    OBVIOUS
  <2> QED BY SMTT(30), <2>1
<1>2. PICK i \in Bad : \A j \in Bad : i <= j
  <2>1. Bad \subseteq Nat
    BY SMTT(30)
  <2> HIDE DEF Bad
  <2> QED BY <2>1, NatMin
<1>3. i \in 1..N /\ f[i] \in Nat /\ g[i] \in Nat /\ f[i] # g[i] /\ \A j \in 1..N : j < i
        => f[j] = g[j]
  BY SMTT(30), <1>2
<1> HIDE DEF Bad
<1>4. CASE f[i] < g[i]
  <2>1. PICK j \in 1..N : f[i] = g[j]
    BY <1>3
  <2>2. CASE j < i
    BY SMTT(30), <1>3, <2>1, <2>2
  <2>3. CASE i < j
    <3>1. g[i] < g[j]
      BY <1>3, <2>3
    <3> QED BY SMTT(30), <1>3, <1>4, <2>1, <3>1
  <2>4. CASE i = j
    BY <1>3, <2>1, <2>4
  <2> QED BY SMTT(30), <1>3, <2>2, <2>3, <2>4
<1>5. CASE g[i] < f[i]
  <2>1. PICK j \in 1..N : g[i] = f[j]
    BY <1>3
  <2>2. CASE j < i
    BY SMTT(30), <1>3, <2>1, <2>2
  <2>3. CASE i < j
    <3>1. f[i] < f[j]
      BY <1>3, <2>3
    <3> QED BY SMTT(30), <1>3, <1>5, <2>1, <3>1
  <2>4. CASE i = j
    BY <1>3, <2>1, <2>4
  <2> QED BY SMTT(30), <1>3, <2>2, <2>3, <2>4
<1> QED BY SMTT(30), <1>3, <1>4, <1>5

\* WALScan returns what was appended.
LEMMA ScanForm ==
  ASSUME KeyInv(db), NEW s \in Shards, NEW p, NEW a \in Seq(Values), Log(db, s, p, a)
  PROVE  WALScan(s) = a
<1> DEFINE N == Len(a)
           range == WALRange(db, s)
<1>1. N \in Nat
  BY SMTT(30)
<1>2. PICK f \in [1..N -> Numbers] :
         /\ \A i, j \in 1..N : i < j => f[i] < f[j]
         /\ \A n \in Numbers : n \in Nums(db, s) <=> \E i \in 1..N : n = f[i]
         /\ \A i \in 1..N : db[WALKey(s, f[i])] = a[i]
  BY DEF Log
<1> HIDE DEF N
<1>3. \A n \in Numbers : n \in Nat /\ n < Values64
  BY Ranges
<1>4. s \in Nat /\ s < Values16
  BY Ranges
<1> DEFINE G == [i \in 1..N |-> WALKey(s, f[i])]
           Sorted(keys) == \A m, n \in DOMAIN keys : m < n => Before(keys[m], keys[n])
<1>5. \A m, n \in Numbers : Before(WALKey(s, m), WALKey(s, n)) <=> m < n
  BY SMTT(30), <1>3, <1>4, WALKeyOrder
<1>6. \A key : key \in range <=> \E i \in 1..N : key = WALKey(s, f[i])
  BY SMTT(30), <1>2, WALRangeForm DEF Nums
<1>7. G \in Bijection(1..N, range) /\ Sorted(G)
  <2>1. G \in [1..N -> range]
    BY <1>6
  <2>2. \A i, j \in 1..N : G[i] = G[j] => i = j
    <3> SUFFICES ASSUME NEW i \in 1..N, NEW j \in 1..N, G[i] = G[j] PROVE i = j
      OBVIOUS
    <3>1. f[i] = f[j]
      BY SMTT(30), KeysDiffer
    <3>2. f[i] \in Nat /\ f[j] \in Nat /\ i \in Nat /\ j \in Nat
      BY SMTT(30), <1>1, <1>3
    <3>3. ~(i < j) /\ ~(j < i)
      BY SMTT(30), <1>2, <3>1, <3>2
    <3> QED BY SMTT(30), <3>2, <3>3
  <2>3. \A key \in range : \E i \in 1..N : G[i] = key
    BY <1>6
  <2>4. Sorted(G)
    BY <1>2, <1>5
  <2> HIDE DEF G, range
  <2> QED BY <2>1, <2>2, <2>3, <2>4 DEF Bijection, Injection, Surjection, IsInjective
<1>8. Cardinality(range) = N
  <2>1. IsFiniteSet(1..N) /\ Cardinality(1..N) = N
    <3>1. 1 \in Int /\ N \in Int
      BY SMTT(30), <1>1
    <3> QED BY SMTT(30), <1>1, <3>1, FS_Interval
  <2>2. ExistsBijection(1..N, range)
    BY <1>7 DEF ExistsBijection
  <2> QED BY <2>1, <2>2, FS_Bijection
<1> DEFINE keys == CHOOSE k \in Bijection(1..N, range) : Sorted(k)
<1>9. keys \in Bijection(1..N, range) /\ Sorted(keys)
  BY <1>7
<1>10. WALScan(s) = [n \in DOMAIN keys |-> db[keys[n]]]
  BY SMTT(30), <1>8 DEF WALScan
<1> HIDE DEF keys
<1>11. /\ keys \in [1..N -> range] /\ \A key \in range : \E i \in 1..N : keys[i] = key
  BY <1>9 DEF Bijection, Injection, Surjection
<1>12. PICK h \in [1..N -> 1..N] : \A i \in 1..N : keys[i] = WALKey(s, f[h[i]])
  <2> DEFINE H == [i \in 1..N |-> CHOOSE j \in 1..N : keys[i] = WALKey(s, f[j])]
  <2>1. ASSUME NEW i \in 1..N PROVE H[i] \in 1..N /\ keys[i] = WALKey(s, f[H[i]])
    <3>1. \E j \in 1..N : keys[i] = WALKey(s, f[j])
      BY <1>6, <1>11
    <3> QED BY <3>1
  <2>2. H \in [1..N -> 1..N]
    BY <2>1
  <2> HIDE DEF H
  <2> QED BY <2>1, <2>2
<1> DEFINE g == [i \in 1..N |-> f[h[i]]]
<1>13. /\ g \in [1..N -> Nat] /\ f \in [1..N -> Nat]
       /\ \A i \in 1..N : g[i] \in Numbers /\ keys[i] = WALKey(s, g[i])
  BY <1>3, <1>12
<1>14. \A i, j \in 1..N : i < j => g[i] < g[j]
  <2>1. \A i, j \in 1..N : i < j => Before(keys[i], keys[j])
    BY <1>9, <1>11
  <2> HIDE DEF g
  <2> QED BY <1>5, <1>13, <2>1
<1>15. \A i \in 1..N : \E j \in 1..N : g[i] = f[j]
  BY <1>12
<1>16. ASSUME NEW i \in 1..N PROVE \E j \in 1..N : f[i] = g[j]
  <2>1. WALKey(s, f[i]) \in range /\ f[i] \in Numbers
    BY <1>6
  <2>2. PICK j \in 1..N : keys[j] = WALKey(s, f[i])
    BY <1>11, <2>1
  <2> HIDE DEF g
  <2>3. f[i] = g[j]
    BY SMTT(30), <1>13, <2>1, <2>2, KeysDiffer
  <2> QED BY <2>3
<1> HIDE DEF g
<1>17. f = g
  BY <1>1, <1>2, <1>13, <1>14, <1>15, <1>16, OneEnumeration
<1>18. \A i \in 1..N : db[keys[i]] = a[i]
  BY <1>2, <1>13, <1>17
<1>19. a = [i \in 1..N |-> a[i]] /\ DOMAIN keys = 1..N
  BY SMTT(30), <1>11 DEF N
<1> QED BY <1>10, <1>18, <1>19

(* WALScan returns the events appended since the last truncation, all and in *)
(* their order, for any width of the numbers and any neighbouring shards.    *)
THEOREM ScansInOrder == Spec => []ScanInSeqOrder
<1>1. IInv => ScanInSeqOrder
  <2> SUFFICES ASSUME IInv, NEW s \in Shards PROVE WALScan(s) = appended[s]
    BY DEF ScanInSeqOrder
  <2>1. KeyInv(db) /\ appended[s] \in Seq(Values) /\ Log(db, s, pending[s], appended[s])
    BY DEF IInv, StoreInv, ShardInv
  <2> QED BY <2>1, ScanForm
<1> QED BY <1>1, MetaStoreInvariant, PTL
=============================================================================
