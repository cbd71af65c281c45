--------------------------- MODULE RingBuf_proofs ---------------------------
(***************************************************************************)
(* With one producer the ring buffer is a bounded FIFO queue, for every    *)
(* capacity and every counter width.  The inductive invariant IInv relates *)
(* the wrapped counters to the lengths of the two histories.               *)
(***************************************************************************)
EXTENDS RingBuf, TLAPS

\* Where the one producer is, relative to the histories.
ProducerInv(p) ==
    /\ ppc[p] \in {"tail", "slot", "store"} => phead[p] = head
    /\ ppc[p] # "idle" => pushes[p] >= 1
    /\ ppc[p] \in {"slot", "store"} => Len(accepted) - Len(popped) < Size
    /\ ppc[p] = "store" => buf[Slot(Len(accepted))] = <<p, pushes[p]>>

\* Where the consumer is, relative to the histories.
ConsumerInv ==
    /\ cpc = "tail" =>
         \E c \in Len(popped)..Len(accepted) : chead = c % CounterMod
    /\ cpc \in {"read", "store"} => ctail = tail /\ Len(popped) < Len(accepted)
    /\ cpc = "store" => cevent = accepted[Len(popped) + 1]

CounterInv ==
    /\ head = Len(accepted) % CounterMod
    /\ tail = Len(popped) % CounterMod

IInv ==
    /\ TypeOK
    /\ PopsInOrder
    /\ PendingIntact
    /\ CounterInv
    /\ ConsumerInv
    /\ \A p \in Producers : ProducerInv(p)

-----------------------------------------------------------------------------
(* Facts about %, the wrapping of the counters.                              *)

(* Quotient and remainder exist. *)
LEMMA DivMod ==
    ASSUME NEW m \in Nat \ {0}, NEW n \in Int
    PROVE  \E q \in Int, r \in 0..m - 1 : n = m * q + r /\ n % m = r
<1>1. n % m \in 0..m - 1 /\ n \div m \in Int /\ n = m * (n \div m) + (n % m)
  BY SMT
<1> QED
  BY <1>1

(* The remainder is unique. *)
LEMMA ModUnique ==
    ASSUME NEW m \in Nat \ {0}, NEW q \in Int, NEW r \in 0..m - 1,
           NEW n \in Int, n = m * q + r
    PROVE  n % m = r
BY SMT

(* Multiplication distributes over sums and differences. *)
LEMMA Distribute ==
    ASSUME NEW x \in Int, NEW y \in Int, NEW z \in Int
    PROVE  x * (y + z) = x * y + x * z /\ x * (y - z) = x * y - x * z
BY SMT

(* Factors may be regrouped. *)
LEMMA Regroup ==
    ASSUME NEW x \in Int, NEW y \in Int, NEW z \in Int
    PROVE  (y * x) * z = x * (y * z)
BY SMT

(* Two positions less than a lap apart are in different slots. *)
LEMMA ModApart ==
    ASSUME NEW m \in Nat \ {0}, NEW i \in Nat, NEW j \in Nat, i < j, j - i < m
    PROVE  i % m # j % m
<1> SUFFICES ASSUME i % m = j % m PROVE FALSE
  OBVIOUS
<1>0. i \in Int /\ j \in Int
  OBVIOUS
<1>1. PICK a \in Int, r \in 0..m - 1 : i = m * a + r /\ i % m = r
  BY <1>0, DivMod, Zenon
<1>2. PICK b \in Int, s \in 0..m - 1 : j = m * b + s /\ j % m = s
  BY <1>0, DivMod, Zenon
<1>3. j - i = m * (b - a)
  <2>1. r = s
    BY <1>1, <1>2
  <2> QED
    BY <1>1, <1>2, <2>1, Distribute
<1>4. \/ b - a >= 1 /\ m * (b - a) >= m
      \/ b - a <= 0 /\ m * (b - a) <= 0
  BY ONLY m \in Nat \ {0}, a \in Int, b \in Int, SMT
<1> QED
  BY <1>3, <1>4

(* The number of events in the buffer is the wrapped distance. *)
LEMMA ModDistance ==
    ASSUME NEW m \in Nat \ {0}, NEW h \in Nat, NEW t \in Nat, t <= h, h - t < m
    PROVE  ((h % m) - (t % m)) % m = h - t
<1>0. h \in Int /\ t \in Int
  OBVIOUS
<1>1. PICK a \in Int, r \in 0..m - 1 : h = m * a + r /\ h % m = r
  BY <1>0, DivMod, Zenon
<1>2. PICK b \in Int, s \in 0..m - 1 : t = m * b + s /\ t % m = s
  BY <1>0, DivMod, Zenon
<1>3. r - s = m * (b - a) + (h - t)
  BY <1>1, <1>2, Distribute
<1>4. b - a \in Int /\ h - t \in 0..m - 1 /\ r - s \in Int
  OBVIOUS
<1>5. (r - s) % m = h - t
  BY <1>3, <1>4, ModUnique
<1> QED
  BY <1>1, <1>2, <1>5

(* Incrementing a wrapped counter wraps the incremented counter. *)
LEMMA ModSucc ==
    ASSUME NEW m \in Nat \ {0}, NEW n \in Nat
    PROVE  ((n % m) + 1) % m = (n + 1) % m
<1>0. n \in Int
  OBVIOUS
<1>1. PICK a \in Int, r \in 0..m - 1 : n = m * a + r /\ n % m = r
  BY <1>0, DivMod, Zenon
<1>2. PICK b \in Int, s \in 0..m - 1 : r + 1 = m * b + s /\ (r + 1) % m = s
  <2>1. r + 1 \in Int
    OBVIOUS
  <2> QED
    BY <2>1, DivMod, Zenon
<1>3. n + 1 = m * (a + b) + s
  BY <1>1, <1>2, Distribute
<1>4. (n + 1) % m = s
  <2> DEFINE c == a + b
             k == n + 1
  <2>1. c \in Int /\ k \in Int /\ k = m * c + s
    BY <1>3
  <2> HIDE DEF c, k
  <2>2. k % m = s
    BY ONLY <2>1, m \in Nat \ {0}, s \in 0..m - 1, ModUnique
  <2> QED
    BY <2>2 DEF k
<1> QED
  BY <1>1, <1>2, <1>4

(* The slot of a wrapped counter is the slot of the counter. *)
LEMMA ModMultiple ==
    ASSUME NEW m \in Nat \ {0}, NEW k \in Nat \ {0}, NEW n \in Nat
    PROVE  (n % (k * m)) % m = n % m
<1>0. n \in Int /\ k * m \in Nat \ {0}
  BY SMT
<1>1. PICK q \in Int, r \in 0..(k * m) - 1 : n = (k * m) * q + r /\ n % (k * m) = r
  BY <1>0, DivMod, Zenon
<1>2. r \in Int
  BY <1>0
<1>3. PICK b \in Int, s \in 0..m - 1 : r = m * b + s /\ r % m = s
  BY <1>2, DivMod, Zenon
<1>4. n = m * (k * q + b) + s /\ k * q + b \in Int
  <2>1. (k * m) * q = m * (k * q)
    BY Regroup
  <2>2. k * q \in Int /\ m * (k * q) \in Int /\ m * b \in Int
    BY ONLY k \in Nat \ {0}, m \in Nat \ {0}, q \in Int, b \in Int, SMT
  <2>3. m * (k * q + b) = m * (k * q) + m * b
    BY <2>2, Distribute
  <2> QED
    BY <1>1, <1>3, <2>1, <2>2, <2>3
<1>5. n % m = s
  BY <1>0, <1>4, ModUnique
<1> QED
  BY <1>1, <1>3, <1>5
-----------------------------------------------------------------------------
(* The constants: CounterMod is a positive multiple of Size, and larger. *)
LEMMA Constants ==
    /\ Size \in Nat \ {0}
    /\ CounterMod \in Nat \ {0}
    /\ Size < CounterMod
    /\ \E k \in Nat \ {0} : CounterMod = k * Size
<1>1. PICK k \in 2..CounterMod : CounterMod = k * Size
  BY SizeAssumption
<1>2. k \in Nat \ {0} /\ k >= 2 /\ Size \in Nat \ {0} /\ CounterMod \in Nat
  BY SizeAssumption
<1>3. k * Size >= 2 * Size
  BY ONLY <1>2, SMT
<1> QED
  BY <1>1, <1>2, <1>3

(* A wrapped counter is in range, and has the slot of the counter. *)
LEMMA Wrapped ==
    ASSUME NEW n \in Nat
    PROVE  n % CounterMod \in 0..CounterMod - 1 /\ Slot(n % CounterMod) = Slot(n)
           /\ Slot(n) \in 0..Size - 1
<1>1. PICK k \in Nat \ {0} : CounterMod = k * Size
  BY Constants
<1>2. Slot(n % CounterMod) = Slot(n)
  BY <1>1, Constants, ModMultiple, Zenon DEF Slot
<1>3. n % CounterMod \in 0..CounterMod - 1 /\ Slot(n) \in 0..Size - 1
  BY Constants, SMT DEF Slot
<1> QED
  BY <1>2, <1>3

(* Init establishes the invariant. *)
LEMMA InitIInv == Init => IInv
<1> SUFFICES ASSUME Init PROVE IInv
  OBVIOUS
<1>1. 0 % CounterMod = 0
  BY Constants, SMT
<1> QED
  BY <1>1, Constants, PushAssumption
  DEF Init, IInv, TypeOK, PopsInOrder, PendingIntact, CounterInv, ConsumerInv,
      ProducerInv
-----------------------------------------------------------------------------
(* Each step of Push by the only producer preserves the invariant. *)

LEMMA PushLoadHeadIInv ==
    ASSUME NEW P, Producers = {P}, IInv, PushLoadHead(P)
    PROVE  IInv'
<1>1. TypeOK'
  BY PushAssumption DEF IInv, TypeOK, PushLoadHead, consumerVars, Event
<1>2. PopsInOrder' /\ PendingIntact' /\ CounterInv' /\ ConsumerInv'
  BY DEF IInv, PopsInOrder, PendingIntact, CounterInv, ConsumerInv,
         PushLoadHead, consumerVars, Slot
<1>3. ProducerInv(P)'
  BY DEF IInv, TypeOK, ProducerInv, PushLoadHead
<1> QED
  BY <1>1, <1>2, <1>3 DEF IInv

LEMMA PushLoadTailIInv ==
    ASSUME NEW P, Producers = {P}, IInv, PushLoadTail(P)
    PROVE  IInv'
<1>1. TypeOK'
  BY DEF IInv, TypeOK, PushLoadTail, consumerVars
<1>2. PopsInOrder' /\ PendingIntact' /\ CounterInv' /\ ConsumerInv'
  BY DEF IInv, PopsInOrder, PendingIntact, CounterInv, ConsumerInv,
         PushLoadTail, consumerVars, Slot
<1>3. ProducerInv(P)'
  <2>1. Distance(phead[P], tail) = Len(accepted) - Len(popped)
    <3>1. /\ Len(accepted) \in Nat /\ Len(popped) \in Nat
          /\ Len(popped) <= Len(accepted)
          /\ Len(accepted) - Len(popped) < CounterMod
      <4>1. Len(accepted) \in Nat /\ Len(popped) \in Nat
        BY DEF IInv, TypeOK
      <4>2. Len(popped) <= Len(accepted) /\ Len(accepted) - Len(popped) <= Size
        BY DEF IInv, PopsInOrder, PendingIntact
      <4> QED
        BY <4>1, <4>2, Constants
    <3>2. phead[P] = Len(accepted) % CounterMod /\ tail = Len(popped) % CounterMod
      BY DEF IInv, CounterInv, ProducerInv, PushLoadTail
    <3> QED
      BY <3>1, <3>2, Constants, ModDistance DEF Distance
  <2> QED
    BY <2>1 DEF IInv, TypeOK, ProducerInv, PushLoadTail
<1> QED
  BY <1>1, <1>2, <1>3 DEF IInv

LEMMA PushFullIInv ==
    ASSUME NEW P, Producers = {P}, IInv, PushFull(P)
    PROVE  IInv'
<1>1. TypeOK'
  BY DEF IInv, TypeOK, PushFull, consumerVars
<1>2. PopsInOrder' /\ PendingIntact' /\ CounterInv' /\ ConsumerInv'
  BY DEF IInv, PopsInOrder, PendingIntact, CounterInv, ConsumerInv,
         PushFull, consumerVars, Slot
<1>3. ProducerInv(P)'
  BY DEF IInv, TypeOK, ProducerInv, PushFull
<1> QED
  BY <1>1, <1>2, <1>3 DEF IInv

LEMMA PushWriteSlotIInv ==
    ASSUME NEW P, Producers = {P}, IInv, PushWriteSlot(P)
    PROVE  IInv'
<1> DEFINE A == Len(accepted)
           D == Len(popped)
<1>1. A \in Nat /\ D \in Nat /\ D <= A /\ A - D < Size
  BY DEF IInv, TypeOK, PopsInOrder, ProducerInv, PushWriteSlot
<1>2. Slot(phead[P]) = Slot(A) /\ Slot(A) \in 0..Size - 1
  BY <1>1, Wrapped DEF IInv, CounterInv, ProducerInv, PushWriteSlot
<1>3. TypeOK'
  <2>1. <<P, pushes[P]>> \in Event
    BY PushAssumption DEF IInv, TypeOK, ProducerInv, PushWriteSlot, Event
  <2> QED
    BY <1>2, <2>1 DEF IInv, TypeOK, PushWriteSlot, consumerVars
<1>4. PopsInOrder' /\ CounterInv' /\ ConsumerInv'
  BY DEF IInv, PopsInOrder, CounterInv, ConsumerInv, PushWriteSlot, consumerVars
<1>5. PendingIntact'
  <2>1. ASSUME NEW i \in D..A - 1
        PROVE  Slot(i) # Slot(A)
    BY <1>1, Constants, ModApart DEF Slot
  <2>2. ASSUME NEW i \in D..A - 1
        PROVE  buf'[Slot(i)] = buf[Slot(i)]
    <3>1. Slot(i) \in 0..Size - 1
      BY <1>1, Wrapped
    <3> QED
      BY <1>2, <2>1, <3>1 DEF IInv, TypeOK, PushWriteSlot
  <2>3. accepted' = accepted /\ popped' = popped
    BY DEF PushWriteSlot
  <2> QED
    BY <2>2, <2>3 DEF IInv, PendingIntact
<1>6. ProducerInv(P)'
  <2>1. buf'[Slot(A)] = <<P, pushes[P]>>
    BY <1>2 DEF IInv, TypeOK, PushWriteSlot
  <2> QED
    BY <1>1, <2>1 DEF IInv, TypeOK, ProducerInv, PushWriteSlot, Slot
<1> QED
  BY <1>3, <1>4, <1>5, <1>6 DEF IInv

LEMMA PushStoreHeadIInv ==
    ASSUME NEW P, Producers = {P}, IInv, PushStoreHead(P)
    PROVE  IInv'
<1> DEFINE A == Len(accepted)
           D == Len(popped)
           e == <<P, pushes[P]>>
<1>1. A \in Nat /\ D \in Nat /\ D <= A /\ A - D < Size
  BY DEF IInv, TypeOK, PopsInOrder, ProducerInv, PushStoreHead
<1>2. e \in Event
  BY PushAssumption DEF IInv, TypeOK, ProducerInv, PushStoreHead, Event
<1>3. /\ accepted' = Append(accepted, e) /\ popped' = popped /\ buf' = buf
      /\ Len(accepted') = A + 1 /\ accepted'[A + 1] = e
      /\ \A i \in 1..A : accepted'[i] = accepted[i]
  BY <1>2 DEF IInv, TypeOK, PushStoreHead
<1>4. head' = (A + 1) % CounterMod
  <2>1. head' = ((A % CounterMod) + 1) % CounterMod
    BY DEF IInv, CounterInv, ProducerInv, PushStoreHead
  <2> QED
    BY <1>1, <2>1, Constants, ModSucc, Zenon
<1>5. TypeOK'
  <2>1. head' \in 0..CounterMod - 1
    BY <1>1, <1>4, Wrapped
  <2>2. accepted' \in Seq(Event)
    BY <1>2, <1>3 DEF IInv, TypeOK
  <2> QED
    BY <2>1, <2>2 DEF IInv, TypeOK, PushStoreHead, consumerVars
<1>6. PopsInOrder'
  BY <1>1, <1>3 DEF IInv, PopsInOrder
<1>7. PendingIntact'
  <2>1. buf[Slot(A)] = e
    BY DEF IInv, ProducerInv, PushStoreHead
  <2>2. ASSUME NEW i \in D..A
        PROVE  buf[Slot(i)] = accepted'[i + 1]
    <3>1. CASE i = A
      BY <1>3, <2>1, <3>1
    <3>2. CASE i \in D..A - 1
      BY <1>1, <1>3, <3>2 DEF IInv, PendingIntact
    <3> QED
      BY <1>1, <3>1, <3>2
  <2>3. /\ Len(accepted') - Len(popped') <= Size
        /\ \A i \in Len(popped')..Len(accepted') - 1 : buf'[Slot(i)] = accepted'[i + 1]
    BY <1>1, <1>3, <2>2, Constants
  <2> QED
    BY <2>3 DEF PendingIntact, Slot
<1>8. CounterInv'
  BY <1>3, <1>4 DEF IInv, CounterInv, PushStoreHead
<1>9. ConsumerInv'
  <2>1. UNCHANGED <<cpc, chead, ctail, cevent, tail, popped>>
    BY DEF PushStoreHead, consumerVars
  <2>2. Len(accepted') = A + 1
    BY <1>3
  <2>3. cpc = "tail" =>
          \E c \in D..A + 1 : chead = c % CounterMod
    BY <1>1 DEF IInv, ConsumerInv
  <2>4. cpc \in {"read", "store"} => D < A /\ accepted'[D + 1] = accepted[D + 1]
    BY <1>1, <1>3 DEF IInv, ConsumerInv
  <2> QED
    BY <1>1, <2>1, <2>2, <2>3, <2>4 DEF IInv, ConsumerInv
<1>10. ProducerInv(P)'
  BY DEF IInv, TypeOK, ProducerInv, PushStoreHead
<1> QED
  BY <1>5, <1>6, <1>7, <1>8, <1>9, <1>10 DEF IInv
-----------------------------------------------------------------------------
(* Each step of Pop preserves the invariant. *)

LEMMA PopLoadHeadIInv ==
    ASSUME IInv, PopLoadHead
    PROVE  IInv'
<1>1. TypeOK'
  BY DEF IInv, TypeOK, PopLoadHead, producerVars
<1>2. PopsInOrder' /\ PendingIntact' /\ CounterInv'
  BY DEF IInv, PopsInOrder, PendingIntact, CounterInv, PopLoadHead, Slot
<1>3. ConsumerInv'
  <2>1. Len(accepted) \in Len(popped)..Len(accepted)
    BY DEF IInv, TypeOK, PopsInOrder
  <2> QED
    BY <2>1 DEF IInv, CounterInv, ConsumerInv, PopLoadHead
<1>4. \A p \in Producers : ProducerInv(p)'
  BY DEF IInv, ProducerInv, PopLoadHead, producerVars, Slot
<1> QED
  BY <1>1, <1>2, <1>3, <1>4 DEF IInv

LEMMA PopLoadTailIInv ==
    ASSUME IInv, PopLoadTail
    PROVE  IInv'
<1>1. TypeOK'
  BY DEF IInv, TypeOK, PopLoadTail, producerVars
<1>2. PopsInOrder' /\ PendingIntact' /\ CounterInv'
  BY DEF IInv, PopsInOrder, PendingIntact, CounterInv, PopLoadTail, Slot
<1>3. ConsumerInv'
  <2>1. tail # chead => Len(popped) < Len(accepted)
    BY DEF IInv, TypeOK, CounterInv, ConsumerInv, PopLoadTail
  <2> QED
    BY <2>1 DEF IInv, ConsumerInv, PopLoadTail
<1>4. \A p \in Producers : ProducerInv(p)'
  BY DEF IInv, ProducerInv, PopLoadTail, producerVars, Slot
<1> QED
  BY <1>1, <1>2, <1>3, <1>4 DEF IInv

LEMMA PopReadSlotIInv ==
    ASSUME IInv, PopReadSlot
    PROVE  IInv'
<1>1. /\ Len(popped) \in Nat /\ Len(accepted) \in Nat
      /\ Len(popped) < Len(accepted) /\ ctail = Len(popped) % CounterMod
  BY DEF IInv, TypeOK, CounterInv, ConsumerInv, PopReadSlot
<1>2. Slot(ctail) = Slot(Len(popped)) /\ Slot(ctail) \in 0..Size - 1
  BY <1>1, Wrapped
<1>3. TypeOK'
  BY <1>2 DEF IInv, TypeOK, PopReadSlot, producerVars
<1>4. PopsInOrder' /\ PendingIntact' /\ CounterInv'
  BY DEF IInv, PopsInOrder, PendingIntact, CounterInv, PopReadSlot
<1>5. ConsumerInv'
  <2>1. buf[Slot(Len(popped))] = accepted[Len(popped) + 1]
    BY <1>1 DEF IInv, PendingIntact
  <2> QED
    BY <1>2, <2>1 DEF IInv, ConsumerInv, PopReadSlot
<1>6. \A p \in Producers : ProducerInv(p)'
  BY DEF IInv, ProducerInv, PopReadSlot, producerVars, Slot
<1> QED
  BY <1>3, <1>4, <1>5, <1>6 DEF IInv

LEMMA PopStoreTailIInv ==
    ASSUME IInv, PopStoreTail
    PROVE  IInv'
<1> DEFINE A == Len(accepted)
           D == Len(popped)
<1>1. A \in Nat /\ D \in Nat /\ D < A /\ A - D <= Size
  <2>1. A \in Nat /\ D \in Nat
    BY DEF IInv, TypeOK
  <2> QED
    BY <2>1 DEF IInv, ConsumerInv, PendingIntact, PopStoreTail
<1>2. cevent = accepted[D + 1] /\ accepted[D + 1] \in Event
  BY <1>1 DEF IInv, TypeOK, ConsumerInv, PopStoreTail
<1>3. /\ accepted' = accepted /\ buf' = buf /\ popped' \in Seq(Event)
      /\ Len(popped') = D + 1 /\ popped'[D + 1] = accepted[D + 1]
      /\ \A i \in 1..D : popped'[i] = popped[i]
  BY <1>2 DEF IInv, TypeOK, PopStoreTail
<1>4. tail' = (D + 1) % CounterMod
  <2>1. tail' = ((D % CounterMod) + 1) % CounterMod
    BY DEF IInv, CounterInv, ConsumerInv, PopStoreTail
  <2> QED
    BY <1>1, <2>1, Constants, ModSucc, Zenon
<1>5. TypeOK'
  <2>1. tail' \in 0..CounterMod - 1
    BY <1>1, <1>4, Wrapped
  <2> QED
    BY <1>3, <2>1 DEF IInv, TypeOK, PopStoreTail, producerVars
<1>6. PopsInOrder'
  <2>1. ASSUME NEW i \in 1..D + 1
        PROVE  popped'[i] = accepted[i]
    <3>1. CASE i = D + 1
      BY <1>3, <3>1
    <3>2. CASE i \in 1..D
      BY <1>3, <3>2 DEF IInv, PopsInOrder
    <3> QED
      BY <1>1, <3>1, <3>2
  <2> QED
    BY <1>1, <1>3, <2>1 DEF PopsInOrder
<1>7. PendingIntact'
  <2>1. /\ Len(accepted') - Len(popped') <= Size
        /\ \A i \in Len(popped')..Len(accepted') - 1 : buf'[Slot(i)] = accepted'[i + 1]
    BY <1>1, <1>3, Constants DEF IInv, PendingIntact
  <2> QED
    BY <2>1 DEF PendingIntact, Slot
<1>8. CounterInv'
  BY <1>3, <1>4 DEF IInv, CounterInv, PopStoreTail
<1>9. ConsumerInv'
  BY DEF ConsumerInv, PopStoreTail
<1>10. ASSUME NEW p \in Producers
       PROVE  ProducerInv(p)'
  <2>1. UNCHANGED <<ppc, phead, pushes, head, buf, accepted>>
    BY DEF PopStoreTail, producerVars
  <2>2. A - Len(popped') < Size
    BY <1>1, <1>3, Constants
  <2> QED
    BY <2>1, <2>2 DEF IInv, ProducerInv, Slot
<1> QED
  BY <1>5, <1>6, <1>7, <1>8, <1>9, <1>10 DEF IInv
-----------------------------------------------------------------------------
(* Every step preserves the invariant. *)
LEMMA NextIInv ==
    ASSUME NEW P, Producers = {P}
    PROVE  IInv /\ [Next]_vars => IInv'
<1> SUFFICES ASSUME IInv, [Next]_vars PROVE IInv'
  OBVIOUS
<1>1. CASE Pop
  BY <1>1, PopLoadHeadIInv, PopLoadTailIInv, PopReadSlotIInv, PopStoreTailIInv DEF Pop
<1>2. CASE Push(P)
  BY <1>2, PushLoadHeadIInv, PushLoadTailIInv, PushFullIInv, PushWriteSlotIInv,
     PushStoreHeadIInv DEF Push
<1>3. CASE UNCHANGED vars
  BY <1>3 DEF vars, producerVars, consumerVars, IInv, TypeOK, PopsInOrder,
     PendingIntact, CounterInv, ConsumerInv, ProducerInv, Slot
<1> QED
  BY <1>1, <1>2, <1>3 DEF Next

(* With one producer, the invariant holds in every reachable state. *)
THEOREM InvariantSPSC ==
    ASSUME NEW P, Producers = {P}
    PROVE  Spec => []IInv
BY InitIInv, NextIInv, PTL DEF Spec

(* Type correctness of the ring buffer with one producer: in particular a  *)
(* Pop never returns the content of a slot that no Push has filled.        *)
THEOREM TypeCorrectSPSC ==
    ASSUME NEW P, Producers = {P}
    PROVE  Spec => []TypeOK
<1>1. IInv => TypeOK
  BY DEF IInv
<1> QED
  BY <1>1, InvariantSPSC, PTL

(* Pop and DrainAll return the events in the order Push accepted them,     *)
(* none lost, none twice, for every capacity and across counter wrap.      *)
THEOREM PopsInOrderSPSC ==
    ASSUME NEW P, Producers = {P}
    PROVE  Spec => []PopsInOrder
<1>1. IInv => PopsInOrder
  BY DEF IInv
<1> QED
  BY <1>1, InvariantSPSC, PTL

(* Push never overwrites an event the consumer has not taken. *)
THEOREM PendingIntactSPSC ==
    ASSUME NEW P, Producers = {P}
    PROVE  Spec => []PendingIntact
<1>1. IInv => PendingIntact
  BY DEF IInv
<1> QED
  BY <1>1, InvariantSPSC, PTL

(* The plain slot accesses of Push and Pop are free of data races. *)
THEOREM NoSlotRaceSPSC ==
    ASSUME NEW P, Producers = {P}
    PROVE  Spec => []NoSlotRace
<1>1. IInv => NoSlotRace
  <2> SUFFICES ASSUME IInv, ppc[P] = "slot", cpc = "read", Slot(ctail) = Slot(phead[P])
               PROVE  FALSE
    BY DEF NoSlotRace
  <2>1. /\ Len(accepted) \in Nat /\ Len(popped) \in Nat
        /\ Len(popped) < Len(accepted) /\ Len(accepted) - Len(popped) < Size
    BY DEF IInv, TypeOK, ConsumerInv, ProducerInv
  <2>2. Slot(ctail) = Slot(Len(popped)) /\ Slot(phead[P]) = Slot(Len(accepted))
    BY <2>1, Wrapped DEF IInv, CounterInv, ConsumerInv, ProducerInv
  <2> QED
    BY <2>1, <2>2, Constants, ModApart DEF Slot
<1> QED
  BY <1>1, InvariantSPSC, PTL

(* The ring buffer implements the bounded FIFO queue: the store of head is *)
(* the queue's Enqueue, the store of tail its Dequeue, and every other     *)
(* step leaves the queue alone.                                            *)
THEOREM ImplementsFIFOSPSC ==
    ASSUME NEW P, Producers = {P}
    PROVE  Spec => ImplementsFIFO
<1>1. Init => Fifo!FifoInit
  BY DEF Init, Fifo!FifoInit
<1>2. IInv /\ [Next]_vars => [Fifo!FifoNext]_(Fifo!fifoVars)
  <2> SUFFICES ASSUME IInv, [Next]_vars
               PROVE  Fifo!FifoNext \/ UNCHANGED <<accepted, popped>>
    BY DEF Fifo!fifoVars
  <2>1. CASE PushStoreHead(P)
    <3>1. <<P, pushes[P]>> \in Event
      BY <2>1, PushAssumption DEF IInv, TypeOK, ProducerInv, PushStoreHead, Event
    <3>2. Len(accepted) - Len(popped) < Size
      BY <2>1 DEF IInv, ProducerInv, PushStoreHead
    <3> QED
      BY <2>1, <3>1, <3>2 DEF PushStoreHead, Fifo!FifoNext, Fifo!Enqueue
  <2>2. CASE PopStoreTail
    BY <2>2 DEF IInv, ConsumerInv, PopStoreTail, Fifo!FifoNext, Fifo!Dequeue
  <2>3. CASE \/ PushLoadHead(P) \/ PushLoadTail(P) \/ PushFull(P)
             \/ PushWriteSlot(P)
    BY <2>3 DEF PushLoadHead, PushLoadTail, PushFull, PushWriteSlot
  <2>4. CASE PopLoadHead \/ PopLoadTail \/ PopReadSlot
    BY <2>4 DEF PopLoadHead, PopLoadTail, PopReadSlot
  <2>5. CASE UNCHANGED vars
    BY <2>5 DEF vars
  <2> QED
    BY <2>1, <2>2, <2>3, <2>4, <2>5 DEF Next, Push, Pop
<1> QED
  BY <1>1, <1>2, InvariantSPSC, PTL DEF Spec, ImplementsFIFO, Fifo!FifoSpec
=============================================================================
