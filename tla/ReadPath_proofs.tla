-------------------------- MODULE ReadPath_proofs --------------------------
(***************************************************************************)
(* Proofs about ReadPath, for any blocks, memtables, range, batch size and *)
(* number of calls: that a file decodes to what was encoded, the merge and *)
(* the stream of any number of sorted slices of any length, the readers,   *)
(* and all of them together.                                               *)
(*                                                                         *)
(* The recursive functions of the format (the offsets, the concatenation   *)
(* of the payloads, the loop that splits them) are reasoned about by       *)
(* induction over sets of naturals.                                        *)
(***************************************************************************)
EXTENDS ReadPath, FiniteSetTheorems, WellFoundedInduction, TLAPS

\* A leaf that names no prover is one for Zenon.
USE ZenonT(120)
-----------------------------------------------------------------------------
(* The block file decodes to what was written *)

\* A set of naturals that is not empty has a least element.
LEMMA NatMin ==
  ASSUME NEW T \in SUBSET Nat, T # {}
  PROVE  \E x \in T : \A y \in T : x <= y
<1> DEFINE R == OpToRel(<, Nat)
<1>1. IsWellFoundedOn(R, Nat)
  BY NatLessThanWellFounded
<1>2. \A x, y \in Nat : y < x => <<y, x>> \in R
  BY DEF OpToRel
<1> HIDE DEF R
<1>3. PICK x \in T : \A y \in T : ~(<<y, x>> \in R)
  BY <1>1, WFMin
<1>4. ASSUME NEW y \in T PROVE x <= y
  <2>1. x \in Nat /\ y \in Nat /\ ~(<<y, x>> \in R)
    BY <1>3
  <2>2. ~(y < x)
    BY <2>1, <1>2
  <2> QED BY SMTT(30), <2>1, <2>2
<1> QED BY <1>4

\* Induction from m up to n.
LEMMA UpTo ==
  ASSUME NEW m \in Nat, NEW n \in Nat, NEW S, m \in S,
         \A i \in m..(n - 1) : i \in S => i + 1 \in S
  PROVE  \A i \in m..n : i \in S
<1> SUFFICES ASSUME NEW i \in m..n, i \notin S PROVE FALSE
  OBVIOUS
<1> DEFINE T == {j \in m..n : j \notin S}
<1>1. PICK x \in T : \A y \in T : x <= y
  <2>1. T \in SUBSET Nat /\ T # {}
    BY SMTT(30)
  <2> HIDE DEF T
  <2> QED BY <2>1, NatMin
<1>2. x # m /\ x \in m..n /\ x \notin S
  OBVIOUS
<1>3. x - 1 \in m..(n - 1) /\ x - 1 < x
  BY SMTT(30), <1>2
<1>4. x - 1 \in S
  BY SMTT(30), <1>1, <1>3
<1> QED BY SMTT(30), <1>2, <1>3, <1>4

\* g[1], ..., g[n] start with e and go on with the steps of B.
Iterates(B, e, V, n, g) ==
    /\ g \in [1..n -> V]
    /\ g[1] = e
    /\ \A i \in 2..n : g[i] = B[<<i, g[i - 1]>>]

\* The loops of the format end: such a sequence of steps exists for every length.
LEMMA IteratesExist ==
  ASSUME NEW V, NEW e \in V, NEW n \in Nat, n # 0,
         NEW B, \A i \in 2..n : \A v \in V : B[<<i, v>>] \in V
  PROVE  \E g : Iterates(B, e, V, n, g)
<1> DEFINE S == {k \in 1..n : \E g : Iterates(B, e, V, k, g)}
<1>1. 1 \in S
  <2>1. Iterates(B, e, V, 1, [i \in 1..1 |-> e])
    BY SMTT(30) DEF Iterates
  <2> QED BY SMTT(30), <2>1
<1>2. ASSUME NEW k \in 1..(n - 1), k \in S PROVE k + 1 \in S
  <2>1. PICK g : Iterates(B, e, V, k, g)
    BY <1>2
  <2> DEFINE h == [i \in 1..(k + 1) |-> IF i = k + 1 THEN B[<<k + 1, g[k]>>] ELSE g[i]]
  <2>2. g[k] \in V /\ \A i \in 1..k : g[i] \in V
    BY SMTT(30), <2>1 DEF Iterates
  <2>3. B[<<k + 1, g[k]>>] \in V
    BY SMTT(30), <2>2
  <2>4. h \in [1..(k + 1) -> V]
    BY SMTT(30), <2>2, <2>3
  <2>5. h[1] = e
    BY SMTT(30), <2>1 DEF Iterates
  <2>6. ASSUME NEW i \in 2..(k + 1) PROVE h[i] = B[<<i, h[i - 1]>>]
    <3>1. h[i - 1] = g[i - 1]
      BY SMTT(30)
    <3>2. CASE i = k + 1
      <4>1. h[i] = B[<<k + 1, g[k]>>] /\ i - 1 = k
        BY SMTT(30), <3>2
      <4> HIDE DEF h
      <4> QED BY <3>1, <3>2, <4>1
    <3>3. CASE i # k + 1
      <4>1. i \in 2..k /\ h[i] = g[i]
        BY SMTT(30), <3>3
      <4> QED BY <3>1, <4>1, <2>1 DEF Iterates
    <3> QED BY <3>2, <3>3
  <2> HIDE DEF h
  <2>7. Iterates(B, e, V, k + 1, h)
    BY <2>4, <2>5, <2>6 DEF Iterates
  <2> QED BY SMTT(30), <2>7
<1> HIDE DEF S
<1>3. \A k \in 1..n : k \in S
  BY <1>1, <1>2, UpTo
<1>4. n \in S
  BY SMTT(30), <1>3
<1> QED BY <1>4 DEF S

\* Concatenation, by a name that hides it.
Join(s, t) == s \o t

\* The elements of a concatenation.
LEMMA JoinElements ==
  ASSUME NEW s \in Seq(Byte), NEW t \in Seq(Byte)
  PROVE  /\ Join(s, t) \in Seq(Byte) /\ Len(Join(s, t)) = Len(s) + Len(t)
         /\ \A k \in 1..Len(s) : Join(s, t)[k] = s[k]
         /\ \A k \in 1..Len(t) : Join(s, t)[Len(s) + k] = t[k]
  BY SMTT(30) DEF Join

\* A payload after its length in four bytes.
Framed(payload) == BigEndian32(Len(payload)) \o payload

\* A number is its low byte and 256 times the rest, as PutUint32 splits it.
LEMMA LowByte ==
  ASSUME NEW x \in Nat
  PROVE  /\ x \div 256 \in Nat /\ x % 256 \in Byte
         /\ (x \div 256) * 256 + (x % 256) = x
         /\ x < 256 => x % 256 = x
<1>1. x \div 256 \in Int /\ x % 256 \in 0..255
  BY SMTT(30)
<1>2. x = 256 * (x \div 256) + (x % 256)
  BY SMTT(30)
<1>3. x \div 256 >= 0
  BY SMTT(30), <1>1, <1>2
<1>4. x < 256 => x \div 256 = 0
  BY SMTT(30), <1>1, <1>2
<1>5. x < 256 => x % 256 = x
  BY SMTT(30), <1>1, <1>2, <1>4
<1>6. x \div 256 \in Nat
  BY SMTT(30), <1>1, <1>3
<1>7. (x \div 256) * 256 + (x % 256) = x
  BY SMTT(30), <1>1, <1>2
<1> QED BY <1>1, <1>5, <1>6, <1>7 DEF Byte

\* What CompressBytesColumn writes for one payload: its length, which Uint32 reads
\* back, and then its bytes.
LEMMA FramedElements ==
  ASSUME NEW q \in Seq(Byte), ((Len(q) \div 256) \div 256) \div 256 < 256
  PROVE  /\ Framed(q) \in Seq(Byte) /\ Len(Framed(q)) = 4 + Len(q)
         /\ Uint32At(Framed(q), 0) = Len(q)
         /\ \A k \in 1..Len(q) : Framed(q)[4 + k] = q[k]
<1> DEFINE n == Len(q)
           m == n \div 256
           h == m \div 256
           t == h \div 256
           b == <<t % 256, h % 256, m % 256, n % 256>>
<1>1. Framed(q) = Join(b, q)
  BY DEF Framed, Join, BigEndian32
<1>2. n \in Nat /\ t < 256
  BY SMTT(30)
<1> HIDE DEF n
<1>3. m \in Nat /\ n % 256 \in Byte /\ m * 256 + (n % 256) = n
  BY SMTT(30), <1>2, LowByte
<1> HIDE DEF m
<1>4. h \in Nat /\ m % 256 \in Byte /\ h * 256 + (m % 256) = m
  BY SMTT(30), <1>3, LowByte
<1> HIDE DEF h
<1>5. t \in Nat /\ h % 256 \in Byte /\ t * 256 + (h % 256) = h
  BY SMTT(30), <1>4, LowByte
<1> HIDE DEF t
<1>6. t % 256 = t /\ t % 256 \in Byte
  BY SMTT(30), <1>2, <1>5, LowByte
<1>7. b \in Seq(Byte) /\ Len(b) = 4
      /\ b[1] = t % 256 /\ b[2] = h % 256 /\ b[3] = m % 256 /\ b[4] = n % 256
  BY SMTT(30), <1>3, <1>4, <1>5, <1>6
<1> HIDE DEF b
<1>8. /\ Framed(q) \in Seq(Byte) /\ Len(Framed(q)) = 4 + n
      /\ \A k \in 1..4 : Framed(q)[k] = b[k]
      /\ \A k \in 1..n : Framed(q)[4 + k] = q[k]
  <2>1. /\ Join(b, q) \in Seq(Byte) /\ Len(Join(b, q)) = Len(b) + Len(q)
        /\ \A k \in 1..Len(b) : Join(b, q)[k] = b[k]
        /\ \A k \in 1..Len(q) : Join(b, q)[Len(b) + k] = q[k]
    <3>1. b \in Seq(Byte)
      BY <1>7
    <3> QED BY <3>1, JoinElements
  <2> QED BY SMTT(30), <2>1, <1>1, <1>7 DEF n
<1>9. Uint32At(Framed(q), 0) = ((b[1] * 256 + b[2]) * 256 + b[3]) * 256 + b[4]
  BY SMTT(30), <1>8 DEF Uint32At
<1>10. ((b[1] * 256 + b[2]) * 256 + b[3]) * 256 + b[4] = n
  <2>1. b[1] * 256 + b[2] = h
    BY SMTT(30), <1>5, <1>6, <1>7 DEF Byte
  <2>2. (b[1] * 256 + b[2]) * 256 + b[3] = m
    <3>1. b[3] = m % 256
      BY <1>7
    <3> QED BY <2>1, <1>4, <3>1
  <2>3. b[4] = n % 256
    BY <1>7
  <2> QED BY <2>2, <1>3, <2>3
<1> QED BY <1>8, <1>9, <1>10 DEF n

\* The payloads whose lengths fit in 32 bits.
Payloads == {q \in Seq(Byte) : ((Len(q) \div 256) \div 256) \div 256 < 256}

\* Where each payload is in the bytes of the column: payload i after the first
\* o[i - 1] bytes.
IsLayout(p, raw, o) ==
    /\ o \in [0..Len(p) -> Nat] /\ o[0] = 0 /\ o[Len(p)] = Len(raw)
    /\ \A i \in 1..Len(p) :
        /\ o[i] = o[i - 1] + 4 + Len(p[i]) /\ o[i] <= Len(raw)
        /\ \A k \in 1..(4 + Len(p[i])) : raw[o[i - 1] + k] = Framed(p[i])[k]

\* The bytes of a column of payloads.
Raw(p) ==
    LET written[n \in 0..Len(p)] ==
            IF n = 0 THEN <<>> ELSE Join(written[n - 1], Framed(p[n]))
    IN  written[Len(p)]

\* The loop of CompressBytesColumn: what it returns is the last of the buffers f of
\* which each has one more framed payload at its end.
LEMMA ColumnBuffers ==
  ASSUME NEW p \in Seq(Payloads)
  PROVE  \E f \in [0..Len(p) -> Seq(Byte)] :
           /\ f[0] = <<>>
           /\ \A i \in 1..Len(p) : f[i] = Join(f[i - 1], Framed(p[i]))
           /\ Raw(p) = f[Len(p)]
<1> DEFINE n == Len(p)
           B == [x \in (2..(n + 1)) \X Seq(Byte) |-> Join(x[2], Framed(p[x[1] - 1]))]
           written[i \in 0..Len(p)] == IF i = 0 THEN <<>> ELSE Join(written[i - 1], Framed(p[i]))
<1>1. n \in Nat /\ \A i \in 1..n : Framed(p[i]) \in Seq(Byte)
  <2>1. n \in Nat /\ \A i \in 1..n : p[i] \in Payloads
    BY SMTT(30)
  <2> QED BY SMTT(30), <2>1, FramedElements DEF Payloads
<1>2. Raw(p) = written[n]
  BY DEF Raw
<1>3. \A i \in 2..(n + 1) : \A v \in Seq(Byte) : B[<<i, v>>] = Join(v, Framed(p[i - 1]))
  OBVIOUS
<1>4. \A s, t \in Seq(Byte) : Join(s, t) \in Seq(Byte)
  BY SMTT(30) DEF Join
<1> HIDE DEF B, n
<1>5. PICK g : Iterates(B, <<>>, Seq(Byte), n + 1, g)
  <2>1. <<>> \in Seq(Byte) /\ n + 1 \in Nat /\ n + 1 # 0
    BY SMTT(30), <1>1
  <2>2. \A i \in 2..(n + 1) : \A v \in Seq(Byte) : B[<<i, v>>] \in Seq(Byte)
    <3> SUFFICES ASSUME NEW i \in 2..(n + 1), NEW v \in Seq(Byte)
                 PROVE  B[<<i, v>>] \in Seq(Byte)
      OBVIOUS
    <3>1. i - 1 \in 1..n
      BY SMTT(30), <1>1
    <3>2. Framed(p[i - 1]) \in Seq(Byte)
      BY <1>1, <3>1
    <3>3. Join(v, Framed(p[i - 1])) \in Seq(Byte)
      BY <3>2, <1>4
    <3> QED BY <3>3, <1>3
  <2> QED BY <2>1, <2>2, IteratesExist
<1> DEFINE h == [i \in 0..n |-> g[i + 1]]
<1>6. \A i \in 0..n : h[i] \in Seq(Byte) /\ h[i] = g[i + 1]
  BY SMTT(30), <1>1, <1>5 DEF Iterates
<1>7. h[0] = <<>>
  BY SMTT(30), <1>1, <1>5 DEF Iterates
<1>8. \A i \in 1..n : h[i] = Join(h[i - 1], Framed(p[i]))
  <2> SUFFICES ASSUME NEW i \in 1..n PROVE h[i] = Join(h[i - 1], Framed(p[i]))
    OBVIOUS
  <2>1. i + 1 \in 2..(n + 1) /\ (i + 1) - 1 = i /\ i \in 0..n /\ i - 1 \in 0..n /\ (i - 1) + 1 = i
    BY SMTT(30), <1>1
  <2>2. h[i] = g[i + 1] /\ h[i - 1] = g[i] /\ h[i - 1] \in Seq(Byte)
    BY <2>1, <1>6
  <2>3. g[i + 1] = B[<<i + 1, g[i]>>]
    BY <2>1, <1>5 DEF Iterates
  <2> HIDE DEF h
  <2> QED BY <2>1, <2>2, <2>3, <1>3
<1>9. h = [i \in 0..n |-> IF i = 0 THEN <<>> ELSE Join(h[i - 1], Framed(p[i]))]
  <2>1. h = [i \in 0..n |-> h[i]]
    OBVIOUS
  <2> HIDE DEF h
  <2>2. \A i \in 0..n : h[i] = IF i = 0 THEN <<>> ELSE Join(h[i - 1], Framed(p[i]))
    BY SMTT(30), <1>1, <1>7, <1>8
  <2> QED BY <2>1, <2>2
<1> HIDE DEF h
<1>10. written = [i \in 0..n |-> IF i = 0 THEN <<>> ELSE Join(written[i - 1], Framed(p[i]))]
  BY <1>9 DEF n
<1> HIDE DEF written
<1>11. \A i \in 0..n : written[i] = IF i = 0 THEN <<>> ELSE Join(written[i - 1], Framed(p[i]))
  BY <1>10
<1>12. written[0] = <<>> /\ \A i \in 1..n : written[i] = Join(written[i - 1], Framed(p[i]))
  BY SMTT(30), <1>1, <1>11
<1> DEFINE U == {k \in 0..n : written[k] \in Seq(Byte)}
<1>13. 0 \in U
  <2>1. <<>> \in Seq(Byte) /\ 0 \in 0..n
    BY SMTT(30), <1>1
  <2> QED BY <2>1, <1>12
<1>14. ASSUME NEW k \in 0..(n - 1), k \in U PROVE k + 1 \in U
  <2>1. k + 1 \in 1..n /\ k + 1 \in 0..n /\ (k + 1) - 1 = k
    BY SMTT(30), <1>1
  <2>2. written[k + 1] = Join(written[k], Framed(p[k + 1])) /\ written[k] \in Seq(Byte)
        /\ Framed(p[k + 1]) \in Seq(Byte)
    BY <2>1, <1>1, <1>12, <1>14
  <2> QED BY <2>1, <2>2, <1>4
<1> HIDE DEF U
<1>15. \A k \in 0..n : k \in U
  BY <1>1, <1>13, <1>14, UpTo, 0 \in Nat
<1>16. written \in [0..n -> Seq(Byte)]
  BY <1>10, <1>15 DEF U
<1> QED BY <1>2, <1>12, <1>16 DEF n

\* The column is the framed payloads one after the other, each at an offset that
\* is the end of the one before.
LEMMA ColumnLayout ==
  ASSUME NEW p \in Seq(Payloads)
  PROVE  Raw(p) \in Seq(Byte) /\ \E o : IsLayout(p, Raw(p), o)
<1> DEFINE n == Len(p)
           raw == Raw(p)
<1>1. n \in Nat /\ DOMAIN p = 1..n /\ \A i \in 1..n : p[i] \in Payloads /\ Len(p[i]) \in Nat
  BY SMTT(30) DEF Payloads
<1>2. \A i \in 1..n : Framed(p[i]) \in Seq(Byte) /\ Len(Framed(p[i])) = 4 + Len(p[i])
  BY SMTT(30), <1>1, FramedElements DEF Payloads
<1>3. PICK f \in [0..n -> Seq(Byte)] :
         /\ f[0] = <<>>
         /\ \A i \in 1..n : f[i] = Join(f[i - 1], Framed(p[i]))
         /\ raw = f[n]
  BY ColumnBuffers
<1> HIDE DEF raw, n
<1> DEFINE o == [i \in 0..n |-> Len(f[i])]
<1>4. \A i \in 0..n : f[i] \in Seq(Byte) /\ Len(f[i]) \in Nat /\ o[i] = Len(f[i])
  BY SMTT(30), <1>3
<1>5. o \in [0..n -> Nat] /\ o[0] = 0 /\ o[n] = Len(raw)
  BY SMTT(30), <1>1, <1>3, <1>4
<1> HIDE DEF o
<1>6. \A i \in 1..n : /\ o[i] = o[i - 1] + 4 + Len(p[i])
                      /\ \A k \in 1..(4 + Len(p[i])) : f[i][o[i - 1] + k] = Framed(p[i])[k]
                      /\ \A k \in 1..o[i - 1] : f[i][k] = f[i - 1][k]
  <2> SUFFICES ASSUME NEW i \in 1..n
               PROVE  /\ o[i] = o[i - 1] + 4 + Len(p[i])
                      /\ \A k \in 1..(4 + Len(p[i])) : f[i][o[i - 1] + k] = Framed(p[i])[k]
                      /\ \A k \in 1..o[i - 1] : f[i][k] = f[i - 1][k]
    OBVIOUS
  <2> DEFINE s == f[i - 1]
             t == Framed(p[i])
  <2>1. t \in Seq(Byte) /\ Len(t) = 4 + Len(p[i]) /\ Len(p[i]) \in Nat
    BY <1>1, <1>2
  <2>2. i \in 0..n /\ i - 1 \in 0..n
    BY SMTT(30), <1>1
  <2>3. f[i] = Join(s, t) /\ s \in Seq(Byte) /\ Len(s) \in Nat /\ o[i - 1] = Len(s)
        /\ o[i] = Len(Join(s, t))
    BY <2>2, <1>3, <1>4
  <2> HIDE DEF s, t
  <2>4. /\ Len(Join(s, t)) = Len(s) + Len(t)
        /\ \A k \in 1..Len(s) : Join(s, t)[k] = s[k]
        /\ \A k \in 1..Len(t) : Join(s, t)[Len(s) + k] = t[k]
    BY <2>1, <2>3, JoinElements
  <2>5. o[i] = o[i - 1] + 4 + Len(p[i])
    <3>1. o[i] = Len(s) + (4 + Len(p[i])) /\ o[i - 1] = Len(s)
      BY <2>1, <2>3, <2>4
    <3>2. \A a, b, c \in Nat : a = b + (4 + c) => a = b + 4 + c
      BY SMTT(30)
    <3>3. o[i] \in Nat /\ o[i - 1] \in Nat
      BY <2>2, <1>5
    <3> QED BY <2>1, <3>1, <3>2, <3>3
  <2>6. \A k \in 1..(4 + Len(p[i])) : f[i][o[i - 1] + k] = t[k]
    BY <2>1, <2>3, <2>4
  <2>7. \A k \in 1..o[i - 1] : f[i][k] = s[k]
    BY <2>3, <2>4
  <2> QED BY <2>5, <2>6, <2>7 DEF s, t
<1>7. \A i \in 1..n : o[i] <= Len(raw) /\ \A k \in 1..o[i] : raw[k] = f[i][k]
  <2> DEFINE Prefix(i, j) == o[i] <= o[j] /\ \A k \in 1..o[i] : f[j][k] = f[i][k]
  <2> TAKE i \in 1..n
  <2> DEFINE S == {j \in i..n : Prefix(i, j)}
  <2>1. i \in S
    BY SMTT(30), <1>5, <1>1
  <2>2. ASSUME NEW j \in i..(n - 1), j \in S PROVE j + 1 \in S
    <3>1. j \in 1..n /\ j + 1 \in 1..n /\ j + 1 \in i..n /\ (j + 1) - 1 = j
      BY SMTT(30), <1>1
    <3>2. o[j + 1] = o[j] + 4 + Len(p[j + 1]) /\ \A k \in 1..o[j] : f[j + 1][k] = f[j][k]
      BY SMTT(30), <1>6, <3>1
    <3>3. Len(p[j + 1]) \in Nat /\ o[j] \in Nat /\ o[i] \in Nat
      BY SMTT(30), <3>1, <1>1, <1>5
    <3>4. o[i] <= o[j] /\ \A k \in 1..o[i] : f[j][k] = f[i][k]
      BY <2>2
    <3>5. Prefix(i, j + 1)
      <4>1. o[i] <= o[j + 1]
        <5>1. o[j + 1] = o[j] + 4 + Len(p[j + 1]) /\ o[i] <= o[j]
          BY <3>2, <3>4
        <5> QED BY SMTT(30), <5>1, <3>3
      <4>2. \A k \in 1..o[i] : k \in 1..o[j]
        BY SMTT(30), <3>3, <3>4
      <4> QED BY <4>1, <4>2, <3>2, <3>4
    <3> QED BY <3>1, <3>5
  <2> HIDE DEF S
  <2>3. n \in S
    <3>1. i \in Nat /\ n \in Nat /\ n \in i..n
      BY SMTT(30), <1>1
    <3>2. \A j \in i..n : j \in S
      BY <2>1, <2>2, <3>1, UpTo
    <3> QED BY <3>1, <3>2
  <2> QED BY <2>3, <1>3, <1>5 DEF S
<1>8. IsLayout(p, raw, o)
  <2>1. ASSUME NEW i \in 1..n
        PROVE  /\ o[i] = o[i - 1] + 4 + Len(p[i]) /\ o[i] <= Len(raw)
               /\ \A k \in 1..(4 + Len(p[i])) : raw[o[i - 1] + k] = Framed(p[i])[k]
    <3>1. o[i - 1] \in Nat /\ Len(p[i]) \in Nat
      BY SMTT(30), <1>1, <1>5
    <3>2. \A k \in 1..(4 + Len(p[i])) : o[i - 1] + k \in 1..o[i]
      <4>1. o[i] = o[i - 1] + 4 + Len(p[i])
        BY <1>6
      <4> QED BY <4>1, <3>1, SMTT(30)
    <3>3. \A k \in 1..(4 + Len(p[i])) : f[i][o[i - 1] + k] = Framed(p[i])[k]
      BY <1>6
    <3>4. \A k \in 1..o[i] : raw[k] = f[i][k]
      BY <1>7
    <3>5. o[i] = o[i - 1] + 4 + Len(p[i]) /\ o[i] <= Len(raw)
      BY <1>6, <1>7
    <3> QED BY <3>2, <3>3, <3>4, <3>5
  <2> QED BY <2>1, <1>5 DEF IsLayout, n
<1>9. raw \in Seq(Byte)
  BY SMTT(30), <1>1, <1>3
<1> QED BY <1>8, <1>9 DEF raw

\* One turn of DecompressBytesColumn's loop, at byte i, given what it makes of the
\* bytes after it.
DecodeFrom(raw, i, out) ==
    IF i = Len(raw) THEN {<<>>}
    ELSE IF i + 4 > Len(raw) \/ i + 4 + Uint32At(raw, i) > Len(raw) THEN {}
    ELSE {<<SubSeq(raw, i + 5, i + 4 + Uint32At(raw, i))>> \o rest :
             rest \in out[i + 4 + Uint32At(raw, i)]}

\* Four bytes are read as a natural number.
LEMMA Uint32Type ==
  ASSUME NEW raw \in Seq(Byte), NEW i \in Nat, i + 4 <= Len(raw)
  PROVE  Uint32At(raw, i) \in Nat
<1> DEFINE b1 == raw[i + 1]
           b2 == raw[i + 2]
           b3 == raw[i + 3]
           b4 == raw[i + 4]
<1>1. b1 \in Byte /\ b2 \in Byte /\ b3 \in Byte /\ b4 \in Byte
  BY SMTT(30)
<1>2. Uint32At(raw, i) = ((b1 * 256 + b2) * 256 + b3) * 256 + b4
  BY DEF Uint32At
<1> HIDE DEF b1, b2, b3, b4
<1> QED BY SMTT(30), <1>1, <1>2 DEF Byte

\* The loop of DecompressBytesColumn is defined at every position: it only asks for
\* positions further on.
LEMMA DecodeExists ==
  ASSUME NEW raw \in Seq(Byte)
  PROVE  \E out : /\ \A i \in 0..Len(raw) : out[i] = DecodeFrom(raw, i, out)
                  /\ DecompressBytesColumn(raw) = out[0]
<1> DEFINE L == Len(raw)
           S == {k \in 0..L : \E g : g = [i \in (L - k)..L |-> DecodeFrom(raw, i, g)]}
<1>1. L \in Nat
  BY SMTT(30)
<1>2. ASSUME NEW i \in 0..L, NEW g, NEW h, \A j \in (i + 1)..L : g[j] = h[j]
      PROVE  DecodeFrom(raw, i, g) = DecodeFrom(raw, i, h)
  <2> DEFINE end == i + 4 + Uint32At(raw, i)
  <2>1. CASE i = L \/ i + 4 > L \/ end > L
    BY <2>1 DEF DecodeFrom
  <2>2. CASE ~(i = L \/ i + 4 > L \/ end > L)
    <3>1. i \in Nat /\ i + 4 <= Len(raw)
      BY SMTT(30), <1>1, <2>2
    <3>2. Uint32At(raw, i) \in Nat
      BY <3>1, Uint32Type
    <3>3. end \in (i + 1)..L
      BY SMTT(30), <1>1, <2>2, <3>2
    <3>4. g[end] = h[end]
      BY <1>2, <3>3
    <3> QED BY <2>2, <3>4 DEF DecodeFrom
  <2> QED BY <2>1, <2>2
<1>3. 0 \in S
  <2> DEFINE g == [i \in L..L |-> {<<>>}]
  <2>1. g = [i \in (L - 0)..L |-> DecodeFrom(raw, i, g)]
    BY SMTT(30), <1>1 DEF DecodeFrom
  <2>2. 0 \in 0..L
    BY SMTT(30), <1>1
  <2> HIDE DEF g
  <2> QED BY <2>1, <2>2
<1>4. ASSUME NEW k \in 0..(L - 1), k \in S PROVE k + 1 \in S
  <2>1. PICK g : g = [i \in (L - k)..L |-> DecodeFrom(raw, i, g)]
    BY <1>4
  <2> DEFINE b == L - (k + 1)
             h == [i \in b..L |-> IF i = b THEN DecodeFrom(raw, i, g) ELSE g[i]]
  <2>2. b \in 0..L /\ k + 1 \in 0..L /\ \A j \in (b + 1)..L : j \in (L - k)..L
    BY SMTT(30), <1>1
  <2>3. \A j \in (b + 1)..L : h[j] = g[j] /\ g[j] = DecodeFrom(raw, j, g)
    <3> SUFFICES ASSUME NEW j \in (b + 1)..L
                 PROVE  h[j] = g[j] /\ g[j] = DecodeFrom(raw, j, g)
      OBVIOUS
    <3>1. j \in b..L /\ j # b /\ j \in (L - k)..L
      BY SMTT(30), <2>2
    <3> QED BY <2>1, <3>1
  <2>4. h[b] = DecodeFrom(raw, b, g)
    BY SMTT(30), <2>2
  <2>5. ASSUME NEW i \in b..L PROVE h[i] = DecodeFrom(raw, i, h)
    <3>1. h[i] = DecodeFrom(raw, i, g)
      <4> HIDE DEF h
      <4>1. i = b \/ i \in (b + 1)..L
        BY SMTT(30), <2>2
      <4> QED BY <4>1, <2>3, <2>4
    <3>2. i \in 0..L /\ \A j \in (i + 1)..L : j \in (b + 1)..L
      BY SMTT(30), <2>2
    <3> HIDE DEF h
    <3>3. \A j \in (i + 1)..L : g[j] = h[j]
      BY <3>2, <2>3
    <3> QED BY <3>1, <3>2, <3>3, <1>2
  <2>6. h = [i \in b..L |-> DecodeFrom(raw, i, h)]
    <3>1. h = [i \in b..L |-> h[i]]
      OBVIOUS
    <3> HIDE DEF h
    <3> QED BY <3>1, <2>5
  <2> HIDE DEF h
  <2> QED BY <2>2, <2>6
<1>5. L \in S
  <2> HIDE DEF S
  <2>1. \A k \in 0..L : k \in S
    BY <1>1, <1>3, <1>4, UpTo
  <2> QED BY SMTT(30), <1>1, <2>1
<1>6. \E g : g = [i \in 0..L |-> DecodeFrom(raw, i, g)]
  <2>1. L - L = 0
    BY SMTT(30), <1>1
  <2> QED BY <1>5, <2>1
<1> DEFINE out[i \in 0..L] == DecodeFrom(raw, i, out)
<1>7. out = [i \in 0..L |-> DecodeFrom(raw, i, out)]
  BY <1>6
<1>8. DecompressBytesColumn(raw) = out[0]
  BY DEF DecompressBytesColumn, DecodeFrom
<1> HIDE DEF out
<1>9. \A i \in 0..L : out[i] = DecodeFrom(raw, i, out)
  BY <1>7
<1> QED BY <1>8, <1>9

\* The payloads after the first i.
Rest(p, i) == SubSeq(p, i + 1, Len(p))

\* Payload j comes before the payloads after the first j.
LEMMA RestFacts ==
  ASSUME NEW p \in Seq(Payloads)
  PROVE  /\ Rest(p, Len(p)) = <<>> /\ Rest(p, 0) = p
         /\ \A j \in 1..Len(p) : <<p[j]>> \o Rest(p, j) = Rest(p, j - 1)
<1>1. Rest(p, Len(p)) = <<>> /\ Rest(p, 0) = p
  BY SMTT(30) DEF Rest
<1>2. ASSUME NEW j \in 1..Len(p) PROVE <<p[j]>> \o Rest(p, j) = Rest(p, j - 1)
  BY SMTT(30) DEF Rest
<1> QED BY <1>1, <1>2

\* The sequences of a set, each with x in front.
Before(x, set) == {<<x>> \o rest : rest \in set}

\* At a payload's length the loop takes that payload.
LEMMA TakesPayload ==
  ASSUME NEW p \in Seq(Payloads), NEW raw \in Seq(Byte), NEW o, IsLayout(p, raw, o),
         NEW j \in 1..Len(p), NEW out
  PROVE  DecodeFrom(raw, o[j - 1], out) = Before(p[j], out[o[j]])
<1> DEFINE i == o[j - 1]
           q == p[j]
<1>1. i \in Nat /\ o[j] \in Nat /\ Len(raw) \in Nat /\ o[j] = i + 4 + Len(q) /\ o[j] <= Len(raw)
  <2>1. j \in 0..Len(p) /\ j - 1 \in 0..Len(p)
    BY SMTT(30)
  <2>2. i \in Nat /\ o[j] \in Nat
    BY <2>1 DEF IsLayout
  <2>3. o[j] = o[j - 1] + 4 + Len(p[j]) /\ o[j] <= Len(raw)
    BY DEF IsLayout
  <2> QED BY SMTT(30), <2>2, <2>3
<1>2. \A k \in 1..(4 + Len(q)) : raw[i + k] = Framed(q)[k]
  BY DEF IsLayout
<1>3. q \in Seq(Byte) /\ ((Len(q) \div 256) \div 256) \div 256 < 256 /\ Len(q) \in Nat
  <2>1. q \in Payloads
    BY SMTT(30)
  <2> HIDE DEF q
  <2> QED BY SMTT(30), <2>1 DEF Payloads
<1> HIDE DEF i, q
<1>4. /\ Uint32At(Framed(q), 0) = Len(q)
      /\ \A k \in 1..Len(q) : Framed(q)[4 + k] = q[k]
  BY <1>3, FramedElements
<1>5. Uint32At(raw, i) = Len(q)
  <2>1. raw[i + 1] = Framed(q)[1] /\ raw[i + 2] = Framed(q)[2] /\ raw[i + 3] = Framed(q)[3]
        /\ raw[i + 4] = Framed(q)[4]
    BY SMTT(30), <1>2, <1>3
  <2>2. Uint32At(raw, i) = Uint32At(Framed(q), 0)
    BY SMTT(30), <2>1, <1>1 DEF Uint32At
  <2> QED BY <2>2, <1>4
<1>6. SubSeq(raw, i + 5, i + 4 + Len(q)) = q
  <2> DEFINE s == SubSeq(raw, i + 5, i + 4 + Len(q))
  <2>1. s \in Seq(Byte) /\ Len(s) = Len(q) /\ \A k \in 1..Len(q) : s[k] = raw[i + (4 + k)]
    BY SMTT(30), <1>1, <1>3
  <2> HIDE DEF s
  <2>2. \A k \in 1..Len(q) : s[k] = q[k]
    <3> TAKE k \in 1..Len(q)
    <3>1. 4 + k \in 1..(4 + Len(q))
      BY SMTT(30), <1>3
    <3> QED BY <2>1, <3>1, <1>2, <1>4
  <2>3. s = q
    BY <2>1, <2>2, <1>3, SMTT(30)
  <2> QED BY <2>3 DEF s
<1>7. i # Len(raw) /\ ~(i + 4 > Len(raw)) /\ ~(i + 4 + Len(q) > Len(raw))
  BY SMTT(30), <1>1, <1>3
<1>8. DecodeFrom(raw, i, out) = Before(q, out[o[j]])
  BY <1>1, <1>5, <1>6, <1>7 DEF DecodeFrom, Before
<1> QED BY <1>8 DEF i, q

\* Reading back a column of payloads gives the payloads.
THEOREM PayloadsRoundTrip ==
  ASSUME NEW p \in Seq(Payloads)
  PROVE  DecompressBytesColumn(CompressBytesColumn(p).data) = {p}
<1> DEFINE raw == Raw(p)
           n == Len(p)
<1>1. CompressBytesColumn(p).data = raw
  BY DEF CompressBytesColumn, Section, Raw, Framed, Join
<1>2. n \in Nat
  BY SMTT(30)
<1>3. raw \in Seq(Byte)
  BY ColumnLayout
<1>4. PICK o : IsLayout(p, raw, o)
  BY ColumnLayout
<1> HIDE DEF raw
<1>5. PICK out : /\ \A i \in 0..Len(raw) : out[i] = DecodeFrom(raw, i, out)
                 /\ DecompressBytesColumn(raw) = out[0]
  BY <1>3, DecodeExists
<1>6. Len(raw) \in Nat /\ o[0] = 0 /\ o[n] = Len(raw)
  BY SMTT(30), <1>3, <1>4 DEF IsLayout
<1>7. \A i \in 0..n : o[i] \in 0..Len(raw)
  <2> TAKE i \in 0..n
  <2>1. o[i] \in Nat
    BY <1>4 DEF IsLayout
  <2>2. i # 0 => o[i] <= Len(raw)
    BY SMTT(30), <1>2, <1>4 DEF IsLayout
  <2> QED BY SMTT(30), <2>1, <2>2, <1>6
<1> DEFINE S == {k \in 0..n : out[o[n - k]] = {Rest(p, n - k)}}
<1>8. 0 \in S
  <2>1. out[o[n]] = {<<>>}
    <3>1. out[Len(raw)] = DecodeFrom(raw, Len(raw), out)
      BY SMTT(30), <1>5, <1>6
    <3> QED BY <3>1, <1>6 DEF DecodeFrom
  <2>2. n - 0 = n /\ 0 \in 0..n
    BY SMTT(30), <1>2
  <2> QED BY <2>1, <2>2, RestFacts
<1>9. ASSUME NEW k \in 0..(n - 1), k \in S PROVE k + 1 \in S
  <2> DEFINE j == n - k
  <2>1. j \in 1..n /\ j - 1 = n - (k + 1) /\ j - 1 \in 0..n /\ k + 1 \in 0..n
    BY SMTT(30), <1>2
  <2>2. out[o[j]] = {Rest(p, j)}
    BY <1>9
  <2> HIDE DEF j
  <2>3. out[o[j - 1]] = DecodeFrom(raw, o[j - 1], out)
    BY <2>1, <1>5, <1>7
  <2>4. DecodeFrom(raw, o[j - 1], out) = Before(p[j], out[o[j]])
    <3>1. j \in 1..Len(p)
      BY <2>1
    <3> QED BY SMTT(30), <3>1, <1>3, <1>4, TakesPayload
  <2>5. out[o[j - 1]] = {<<p[j]>> \o Rest(p, j)}
    BY <2>2, <2>3, <2>4 DEF Before
  <2>6. out[o[j - 1]] = {Rest(p, j - 1)}
    BY <2>1, <2>5, RestFacts
  <2> QED BY <2>1, <2>6
<1> HIDE DEF S
<1>10. n \in S
  <2>1. \A k \in 0..n : k \in S
    BY <1>2, <1>8, <1>9, UpTo
  <2> QED BY SMTT(30), <1>2, <2>1
<1>11. out[0] = {p}
  <2>1. n - n = 0
    BY SMTT(30), <1>2
  <2> QED BY <1>6, <1>10, <2>1, RestFacts DEF S
<1> QED BY <1>1, <1>5, <1>11

\* A file of five sections, none of them empty.
FiveSections(file) == DOMAIN file = 1..5 /\ Len(file) = 5
  /\ \A i \in 1..5 : file[i].len \in Nat \ {0}

\* Where the sections of such a file start, and where it ends.
LEMMA Starts ==
  ASSUME NEW file, FiveSections(file), NEW n \in 1..6
  PROVE  /\ Start(file, n) \in Nat
         /\ n = 1 => Start(file, n) = 0
         /\ n = 2 => Start(file, n) = file[1].len
         /\ n = 3 => Start(file, n) = file[1].len + file[2].len
         /\ n = 4 => Start(file, n) = file[1].len + file[2].len + file[3].len
         /\ n = 5 => Start(file, n) = file[1].len + file[2].len + file[3].len + file[4].len
         /\ n = 6 => Start(file, n) = file[1].len + file[2].len + file[3].len + file[4].len + file[5].len
<1> DEFINE B == [x \in (2..n) \X Nat |-> x[2] + file[x[1] - 1].len]
           sum[i \in 1..n] == IF i = 1 THEN 0 ELSE sum[i - 1] + file[i - 1].len
<1>1. \A i \in 2..n : file[i - 1].len \in Nat
  BY SMTT(30) DEF FiveSections
<1>2. \A i \in 2..n : \A v \in Nat : B[<<i, v>>] = v + file[i - 1].len
  OBVIOUS
<1>3. Start(file, n) = sum[n]
  BY DEF Start
<1> HIDE DEF B
<1>4. PICK g : Iterates(B, 0, Nat, n, g)
  <2>1. \A i \in 2..n : \A v \in Nat : B[<<i, v>>] \in Nat
    <3> SUFFICES ASSUME NEW i \in 2..n, NEW v \in Nat PROVE B[<<i, v>>] \in Nat
      OBVIOUS
    <3>1. file[i - 1].len \in Nat /\ B[<<i, v>>] = v + file[i - 1].len
      BY <1>1, <1>2
    <3> QED BY SMTT(30), <3>1
  <2>2. 0 \in Nat /\ n \in Nat /\ n # 0
    BY SMTT(30)
  <2> QED BY <2>1, <2>2, IteratesExist
<1>5. g \in [1..n -> Nat] /\ g[1] = 0 /\ \A i \in 2..n : g[i] = B[<<i, g[i - 1]>>]
  BY <1>4 DEF Iterates
<1>6. \A i \in 2..n : g[i] = g[i - 1] + file[i - 1].len
  <2> TAKE i \in 2..n
  <2>1. g[i - 1] \in Nat
    BY SMTT(30), <1>5
  <2> QED BY <2>1, <1>2, <1>5
<1>7. g = [i \in 1..n |-> IF i = 1 THEN 0 ELSE g[i - 1] + file[i - 1].len]
  BY SMTT(30), <1>5, <1>6
<1>8. sum = [i \in 1..n |-> IF i = 1 THEN 0 ELSE sum[i - 1] + file[i - 1].len]
  BY <1>7
<1> HIDE DEF sum
<1>9. sum[1] = 0 /\ \A i \in 2..n : sum[i] = sum[i - 1] + file[i - 1].len
  BY SMTT(30), <1>8
<1>10. /\ n >= 2 => sum[2] = file[1].len
       /\ n >= 3 => sum[3] = sum[2] + file[2].len
       /\ n >= 4 => sum[4] = sum[3] + file[3].len
       /\ n >= 5 => sum[5] = sum[4] + file[4].len
       /\ n >= 6 => sum[6] = sum[5] + file[5].len
  BY SMTT(30), <1>9 DEF FiveSections
<1> QED BY SMTT(30), <1>3, <1>9, <1>10 DEF FiveSections

\* The bytes of a section are that section and no other.
LEMMA ReadSection ==
  ASSUME NEW file, FiveSections(file), NEW n \in 1..5
  PROVE  ReadAt(file, Start(file, n), file[n].len) = {file[n]}
<1>1. \A j \in 1..5 : Start(file, j) = Start(file, n) => j = n
  <2> TAKE j \in 1..5
  <2>1. \A i \in 1..5 : file[i].len \in Nat /\ file[i].len > 0
    BY SMTT(30) DEF FiveSections
  <2> DEFINE a == file[1].len
             b == file[2].len
             c == file[3].len
             d == file[4].len
  <2>2. a \in Nat /\ a > 0 /\ b \in Nat /\ b > 0 /\ c \in Nat /\ c > 0 /\ d \in Nat /\ d > 0
    BY SMTT(30), <2>1
  <2>3. /\ Start(file, 1) = 0 /\ Start(file, 2) = a /\ Start(file, 3) = a + b
        /\ Start(file, 4) = a + b + c /\ Start(file, 5) = a + b + c + d
    BY SMTT(30), Starts
  <2> HIDE DEF a, b, c, d
  <2> QED BY SMTT(30), <2>2, <2>3
<1> QED BY <1>1 DEF ReadAt, FiveSections

\* The file that Seal writes: the header, the columns and the footer.
LEMMA ImageSections ==
  ASSUME NEW mt, \A n \in 1..3 : Columns(mt)[n].len \in Nat \ {0}
  PROVE  /\ FiveSections(BlockImage(mt))
         /\ BlockImage(mt)[1] = EncodeHeader(Len(mt.keyHashes))
         /\ \A n \in 1..3 : BlockImage(mt)[n + 1] = Columns(mt)[n]
         /\ BlockImage(mt)[5] = EncodeFooter(BlockFooter(mt))
<1> DEFINE h == EncodeHeader(Len(mt.keyHashes))
           f == EncodeFooter(BlockFooter(mt))
           col == Columns(mt)
           file == BlockImage(mt)
<1>1. file = <<h, col[1], col[2], col[3], f>>
  BY DEF BlockImage
<1>2. h.len = 64 /\ f.len = 56
  BY DEF EncodeHeader, EncodeFooter, Section, HeaderSize, FooterSize
<1>3. h.len \in Nat \ {0} /\ f.len \in Nat \ {0}
  BY SMTT(30), <1>2
<1> HIDE DEF h, f, col, file
<1>4. /\ DOMAIN file = 1..5 /\ Len(file) = 5
      /\ file[1] = h /\ file[2] = col[1] /\ file[3] = col[2] /\ file[4] = col[3] /\ file[5] = f
  BY SMTT(30), <1>1
<1>5. \A n \in 1..3 : col[n].len \in Nat \ {0}
  BY DEF col
<1>6. \A i \in 1..5 : file[i].len \in Nat \ {0}
  <2>1. /\ file[1].len \in Nat \ {0} /\ file[2].len \in Nat \ {0} /\ file[3].len \in Nat \ {0}
        /\ file[4].len \in Nat \ {0} /\ file[5].len \in Nat \ {0}
    BY SMTT(30), <1>3, <1>4, <1>5
  <2> QED BY SMTT(30), <2>1
<1>7. FiveSections(file)
  BY <1>4, <1>6 DEF FiveSections
<1>8. \A n \in 1..3 : file[n + 1] = col[n]
  BY SMTT(30), <1>4
<1> QED BY <1>4, <1>7, <1>8 DEF h, f, col, file

\* What the reader's checks make of that file: everything is where the footer says.
THEOREM ImageDecodes ==
  ASSUME NEW mt, mt.payloads \in Seq(Payloads),
         \A n \in 1..3 : Columns(mt)[n].len \in Nat \ {0}
  PROVE  /\ FileSize(BlockImage(mt)) >= HeaderSize + FooterSize
         /\ DecodeHeader(BlockImage(mt)) # {}
         /\ DecodeFooter(BlockImage(mt)) = {BlockFooter(mt)}
         /\ ReadFilterColumns(BlockImage(mt), BlockFooter(mt)) =
              {[keyHashes |-> mt.keyHashes, timestamps |-> mt.timestamps]}
         /\ ReadPayloads(BlockImage(mt), BlockFooter(mt)) = {mt.payloads}
<1> DEFINE file == BlockImage(mt)
           footer == BlockFooter(mt)
           c1 == Columns(mt)[1]
           c2 == Columns(mt)[2]
           c3 == Columns(mt)[3]
<1>1. /\ c1.kind = "integers" /\ c1.data = mt.keyHashes
      /\ c2.kind = "integers" /\ c2.data = mt.timestamps
      /\ c3.kind = "bytes" /\ c3 = CompressBytesColumn(mt.payloads)
  BY DEF Columns, CompressColumn, CompressBytesColumn, Section
<1>2. /\ footer.offsets = <<64, 64 + c1.len, 64 + c1.len + c2.len>>
      /\ footer.sizes = [i \in 1..3 |-> Columns(mt)[i].len]
  BY DEF BlockFooter, HeaderSize
<1>3. c1.len \in Nat /\ c2.len \in Nat /\ c3.len \in Nat
  BY SMTT(30)
<1>4. /\ FiveSections(file)
      /\ file[1] = EncodeHeader(Len(mt.keyHashes))
      /\ file[2] = c1 /\ file[3] = c2 /\ file[4] = c3
      /\ file[5] = EncodeFooter(footer)
  <2>1. \A n \in 1..3 : file[n + 1] = Columns(mt)[n]
    BY ImageSections
  <2>2. file[1 + 1] = c1 /\ file[2 + 1] = c2 /\ file[3 + 1] = c3
    BY SMTT(30), <2>1
  <2> QED BY SMTT(30), <2>2, ImageSections
<1>5. /\ file[1].len = 64 /\ file[1].kind = "BBDB"
      /\ file[5].len = 56 /\ file[5].kind = "TBBD" /\ file[5].data = footer
  BY SMTT(30), <1>4 DEF EncodeHeader, EncodeFooter, Section, HeaderSize, FooterSize
<1> HIDE DEF file, footer, c1, c2, c3
<1>6. /\ Start(file, 1) = 0 /\ Start(file, 2) = 64 /\ Start(file, 3) = 64 + c1.len
      /\ Start(file, 4) = 64 + c1.len + c2.len
      /\ FileSize(file) = Start(file, 5) + 56 /\ Start(file, 5) \in Nat /\ Start(file, 5) >= 64
  <2>1. /\ Start(file, 1) = 0 /\ Start(file, 2) = file[1].len
        /\ Start(file, 3) = file[1].len + file[2].len
        /\ Start(file, 4) = file[1].len + file[2].len + file[3].len
        /\ Start(file, 5) = file[1].len + file[2].len + file[3].len + file[4].len
        /\ Start(file, 6) = file[1].len + file[2].len + file[3].len + file[4].len + file[5].len
    BY <1>4, Starts, SMTT(30)
  <2>2. FileSize(file) = Start(file, 6)
    BY SMTT(30), <1>4 DEF FileSize, FiveSections
  <2>3. /\ Start(file, 2) = 64 /\ Start(file, 3) = 64 + c1.len
        /\ Start(file, 4) = 64 + c1.len + c2.len /\ Start(file, 5) = 64 + c1.len + c2.len + c3.len
        /\ Start(file, 6) = 64 + c1.len + c2.len + c3.len + 56
    BY <2>1, <1>4, <1>5
  <2>4. \A a, b, c \in Nat : /\ 64 + a + b + c \in Nat /\ 64 + a + b + c >= 64
    BY SMTT(30)
  <2>5. FileSize(file) = Start(file, 5) + 56
    BY <2>2, <2>3
  <2>6. Start(file, 5) \in Nat /\ Start(file, 5) >= 64
    <3>1. 64 + c1.len + c2.len + c3.len \in Nat /\ 64 + c1.len + c2.len + c3.len >= 64
      BY <2>4, <1>3
    <3> QED BY <2>3, <3>1
  <2> QED BY <2>1, <2>3, <2>5, <2>6
<1>7. /\ ReadAt(file, 0, 64) = {file[1]}
      /\ ReadAt(file, Start(file, 5), 56) = {file[5]}
      /\ ReadAt(file, 64, c1.len) = {c1}
      /\ ReadAt(file, 64 + c1.len, c2.len) = {c2}
      /\ ReadAt(file, 64 + c1.len + c2.len, c3.len) = {c3}
  <2>1. \A n \in 1..5 : ReadAt(file, Start(file, n), file[n].len) = {file[n]}
    BY <1>4, ReadSection
  <2>2. /\ ReadAt(file, Start(file, 1), file[1].len) = {file[1]}
        /\ ReadAt(file, Start(file, 2), file[2].len) = {file[2]}
        /\ ReadAt(file, Start(file, 3), file[3].len) = {file[3]}
        /\ ReadAt(file, Start(file, 4), file[4].len) = {file[4]}
        /\ ReadAt(file, Start(file, 5), file[5].len) = {file[5]}
    BY SMTT(30), <2>1
  <2> QED BY <2>2, <1>4, <1>5, <1>6
<1>8. FileSize(file) >= HeaderSize + FooterSize
  BY SMTT(30), <1>6 DEF HeaderSize, FooterSize
<1>9. DecodeHeader(file) # {}
  <2>1. file[1] \in {t \in ReadAt(file, 0, 64) : t.kind = "BBDB"}
    BY <1>5, <1>7
  <2> QED BY <2>1 DEF DecodeHeader, HeaderSize
<1>10. DecodeFooter(file) = {footer}
  <2>1. FileSize(file) - 56 = Start(file, 5)
    BY SMTT(30), <1>6
  <2> QED BY SMTT(30), <2>1, <1>5, <1>7 DEF DecodeFooter, FooterSize
<1>11. /\ footer.offsets[1] = 64 /\ footer.sizes[1] = c1.len
       /\ footer.offsets[2] = 64 + c1.len /\ footer.sizes[2] = c2.len
       /\ footer.offsets[3] = 64 + c1.len + c2.len /\ footer.sizes[3] = c3.len
  BY SMTT(30), <1>2 DEF c1, c2, c3
<1>12. ReadFilterColumns(file, footer) = {[keyHashes |-> mt.keyHashes, timestamps |-> mt.timestamps]}
  <2>1. ReadColumn(file, footer, 1) = {c1} /\ ReadColumn(file, footer, 2) = {c2}
    BY <1>7, <1>11 DEF ReadColumn
  <2>2. DecompressColumn(c1) = {mt.keyHashes} /\ DecompressColumn(c2) = {mt.timestamps}
    BY <1>1 DEF DecompressColumn
  <2>3. /\ UNION {DecompressColumn(s) : s \in ReadColumn(file, footer, 1)} = {mt.keyHashes}
        /\ UNION {DecompressColumn(s) : s \in ReadColumn(file, footer, 2)} = {mt.timestamps}
    BY <2>1, <2>2, SMTT(30)
  <2> DEFINE ks == UNION {DecompressColumn(s) : s \in ReadColumn(file, footer, 1)}
             ts == UNION {DecompressColumn(s) : s \in ReadColumn(file, footer, 2)}
  <2>4. ReadFilterColumns(file, footer) = {[keyHashes |-> k, timestamps |-> t] : k \in ks, t \in ts}
    BY SMTT(30) DEF ReadFilterColumns
  <2> HIDE DEF ks, ts
  <2>5. ks = {mt.keyHashes} /\ ts = {mt.timestamps}
    BY <2>3 DEF ks, ts
  <2> QED BY SMTT(30), <2>4, <2>5
<1>13. ReadPayloads(file, footer) = {mt.payloads}
  <2>1. ReadColumn(file, footer, 3) = {c3}
    BY <1>7, <1>11 DEF ReadColumn
  <2>2. DecompressBytesColumn(c3.data) = {mt.payloads}
    BY <1>1, PayloadsRoundTrip
  <2>3. {t \in ReadColumn(file, footer, 3) : t.kind = "bytes"} = {c3}
    BY <2>1, <1>1
  <2> QED BY <2>2, <2>3 DEF ReadPayloads
<1> QED BY <1>8, <1>9, <1>10, <1>12, <1>13 DEF file, footer
-----------------------------------------------------------------------------
(* The merge and the stream *)

\* Events as the block readers return them: a sequence, in the order of timestamps.
IsEvents(events) ==
    /\ Len(events) \in Nat /\ DOMAIN events = 1..Len(events)
    /\ \A n \in DOMAIN events : events[n].timestamp \in Int

InTimeOrder(events) ==
    \A m, n \in DOMAIN events : m < n => events[m].timestamp <= events[n].timestamp

\* The names of the rows in the merge.
Places == Nat \X Nat

Responses == [events : Seq(Places), isLast : BOOLEAN, total : Nat, error : BOOLEAN]

StreamTypeOK ==
    /\ stage \in {"request", "read", "merge", "send", "returned", "broken"}
    /\ DOMAIN slices \subseteq Nat
    /\ DOMAIN pos = DOMAIN slices
    /\ \A i \in DOMAIN slices : IsEvents(slices[i]) /\ pos[i] \in Nat
    /\ result \in Seq(Places)
    /\ start \in Nat
    /\ sent \in Seq(Responses)

\* The result has the rows popped so far: of every slice those up to pos, and
\* none that is later than a row still in the heap.
Popped ==
    /\ \A i \in DOMAIN slices : InTimeOrder(slices[i]) /\ pos[i] <= Len(slices[i])
    /\ \A n \in DOMAIN result :
        result[n][1] \in DOMAIN slices /\ result[n][2] \in 1..pos[result[n][1]]
    /\ \A i \in DOMAIN slices : \A p \in 1..pos[i] : \E n \in DOMAIN result : result[n] = <<i, p>>
    /\ \A m, n \in DOMAIN result : m < n =>
        /\ TimestampOf(result[m]) <= TimestampOf(result[n])
        /\ result[m][1] = result[n][1] => result[m][2] < result[n][2]
    /\ \A n \in DOMAIN result : \A i \in Heap : TimestampOf(result[n]) <= Top(i)

\* The batches sent so far are those before start.
BatchesSent ==
    /\ start = BatchSize * Len(sent)
    /\ \A n \in DOMAIN sent :
        /\ Offset(n) < Len(result)
        /\ sent[n].isLast <=> Len(result) <= Offset(n) + BatchSize
        /\ sent[n].total = IF sent[n].isLast THEN Len(result) ELSE 0
        /\ Len(sent[n].events) = IF sent[n].isLast THEN Len(result) - Offset(n) ELSE BatchSize
        /\ \A k \in DOMAIN sent[n].events : sent[n].events[k] = result[Offset(n) + k]

\* The handler: the merge before the responses, and nothing before the merge.
StreamInv ==
    /\ StreamTypeOK /\ Popped /\ OneTerminal
    /\ stage \in {"request", "read"} => result = <<>>
    /\ stage \in {"request", "read", "merge"} => sent = <<>> /\ start = 0
    /\ stage = "send" => Heap = {} /\ BatchesSent
-----------------------------------------------------------------------------
(* MergeEvents *)

\* The empty result and the empty slices before the merge.
LEMMA StreamInitInv == StreamInit => StreamInv
<1> SUFFICES ASSUME StreamInit PROVE StreamInv
  OBVIOUS
<1>1. StreamTypeOK
  BY SMTT(30) DEF StreamInit, StreamTypeOK
<1>2. Popped
  BY SMTT(30) DEF StreamInit, Popped, Heap
<1>3. OneTerminal
  BY SMTT(30) DEF StreamInit, OneTerminal
<1> QED BY <1>1, <1>2, <1>3 DEF StreamInit, StreamInv

\* heap.Pop takes a least row: no row of the result is later than it, and no row
\* of the heap afterwards is earlier.
LEMMA PopsLeast ==
  ASSUME StreamTypeOK, Popped, MergePop
  PROVE  StreamTypeOK' /\ Popped'
<1>1. PICK i \in Heap : /\ \A j \in Heap : Top(i) <= Top(j)
                        /\ result' = Append(result, <<i, pos[i] + 1>>)
                        /\ pos' = [pos EXCEPT ![i] = @ + 1]
  BY DEF MergePop
<1>2. slices' = slices /\ stage' = stage /\ start' = start /\ sent' = sent
  BY DEF MergePop
<1>3. i \in DOMAIN slices /\ i \in Nat /\ pos[i] \in Nat /\ pos[i] < Len(slices[i])
  BY <1>1 DEF Heap, StreamTypeOK
<1>4. <<i, pos[i] + 1>> \in Places
  BY SMTT(30), <1>3 DEF Places
<1>5. /\ DOMAIN pos' = DOMAIN slices
      /\ pos'[i] = pos[i] + 1
      /\ \A j \in DOMAIN slices : j # i => pos'[j] = pos[j]
  BY <1>1, <1>3 DEF StreamTypeOK
<1>0. \A j \in DOMAIN slices : pos[j] \in Nat /\ pos'[j] \in Nat /\ pos[j] <= pos'[j]
  <2> TAKE j \in DOMAIN slices
  <2>1. pos[j] \in Nat
    BY DEF StreamTypeOK
  <2>2. pos'[j] = pos[j] \/ pos'[j] = pos[j] + 1
    BY <1>5
  <2> QED BY SMTT(30), <2>1, <2>2
<1>6. /\ result' \in Seq(Places)
      /\ Len(result) \in Nat /\ Len(result') = Len(result) + 1
      /\ DOMAIN result = 1..Len(result)
      /\ DOMAIN result' = 1..(Len(result) + 1)
      /\ result'[Len(result) + 1] = <<i, pos[i] + 1>>
      /\ \A n \in DOMAIN result : result'[n] = result[n]
  BY SMTT(30), <1>1, <1>4 DEF StreamTypeOK
<1>7. StreamTypeOK'
  BY <1>2, <1>5, <1>0, <1>6 DEF StreamTypeOK
<1>8. \A j \in DOMAIN slices : \A p, q \in 1..Len(slices[j]) :
        /\ slices[j][p].timestamp \in Int
        /\ p <= q => slices[j][p].timestamp <= slices[j][q].timestamp
  <2> SUFFICES ASSUME NEW j \in DOMAIN slices, NEW p \in 1..Len(slices[j]),
                      NEW q \in 1..Len(slices[j])
               PROVE  /\ slices[j][p].timestamp \in Int
                      /\ p <= q => slices[j][p].timestamp <= slices[j][q].timestamp
    OBVIOUS
  <2>1. IsEvents(slices[j])
    BY DEF StreamTypeOK
  <2>2. DOMAIN slices[j] = 1..Len(slices[j]) /\ Len(slices[j]) \in Nat
    BY <2>1 DEF IsEvents
  <2>3. slices[j][p].timestamp \in Int /\ slices[j][q].timestamp \in Int
    BY <2>1, <2>2 DEF IsEvents
  <2>4. InTimeOrder(slices[j])
    BY DEF Popped
  <2>5. p < q => slices[j][p].timestamp <= slices[j][q].timestamp
    BY <2>2, <2>4 DEF InTimeOrder
  <2> QED BY SMTT(30), <2>3, <2>5
<1>9. \A j \in DOMAIN slices : InTimeOrder(slices[j]) /\ pos'[j] <= Len(slices[j])
  <2> TAKE j \in DOMAIN slices
  <2>1. Len(slices[j]) \in Nat
    BY DEF StreamTypeOK, IsEvents
  <2>2. InTimeOrder(slices[j]) /\ pos[j] <= Len(slices[j])
    BY DEF Popped
  <2>3. Len(slices[i]) \in Nat
    BY <1>3 DEF StreamTypeOK, IsEvents
  <2>4. CASE j = i
    BY SMTT(30), <2>1, <2>2, <2>4, <1>3, <1>5
  <2>5. CASE j # i
    BY <2>2, <2>5, <1>5
  <2> QED BY <2>4, <2>5
<1>10. \A n \in DOMAIN result : result[n][1] \in DOMAIN slices
         /\ result[n][2] \in 1..pos[result[n][1]]
  BY DEF Popped
<1>11. \A n \in DOMAIN result' :
        result'[n][1] \in DOMAIN slices /\ result'[n][2] \in 1..pos'[result'[n][1]]
  <2> TAKE n \in DOMAIN result'
  <2>1. CASE n \in DOMAIN result
    <3>1. result'[n] = result[n]
      BY <2>1, <1>6
    <3>2. result[n][1] \in DOMAIN slices /\ result[n][2] \in 1..pos[result[n][1]]
      BY <2>1, <1>10
    <3>3. pos[result[n][1]] \in Nat /\ pos'[result[n][1]] \in Nat
          /\ pos[result[n][1]] <= pos'[result[n][1]]
      BY <3>2, <1>0
    <3> QED BY SMTT(30), <3>1, <3>2, <3>3
  <2>2. CASE n = Len(result) + 1
    BY SMTT(30), <2>2, <1>3, <1>5, <1>6
  <2> QED BY SMTT(30), <2>1, <2>2, <1>6
<1>12. \A j \in DOMAIN slices : \A p \in 1..pos'[j] :
         \E n \in DOMAIN result' : result'[n] = <<j, p>>
  <2> TAKE j \in DOMAIN slices
  <2> TAKE p \in 1..pos'[j]
  <2>1. CASE j = i /\ p = pos[i] + 1
    BY SMTT(30), <2>1, <1>6
  <2>2. CASE ~(j = i /\ p = pos[i] + 1)
    <3>1. p \in 1..pos[j]
      BY SMTT(30), <2>2, <1>3, <1>5
    <3>2. PICK n \in DOMAIN result : result[n] = <<j, p>>
      BY <3>1 DEF Popped
    <3> QED BY SMTT(30), <3>2, <1>6
  <2> QED BY <2>1, <2>2
<1>13. \A n \in DOMAIN result : result[n][2] \in DOMAIN slices[result[n][1]]
                                /\ TimestampOf(result[n]) \in Int
  <2> TAKE n \in DOMAIN result
  <2>1. result[n][1] \in DOMAIN slices /\ result[n][2] \in 1..pos[result[n][1]]
    BY <1>10
  <2>2. pos[result[n][1]] \in Nat /\ pos[result[n][1]] <= Len(slices[result[n][1]])
        /\ Len(slices[result[n][1]]) \in Nat
        /\ DOMAIN slices[result[n][1]] = 1..Len(slices[result[n][1]])
    BY <2>1 DEF Popped, StreamTypeOK, IsEvents
  <2>3. result[n][2] \in 1..Len(slices[result[n][1]])
    BY SMTT(30), <2>1, <2>2
  <2> QED BY <2>1, <2>2, <2>3, <1>8 DEF TimestampOf
<1>14. \A m, n \in DOMAIN result' : m < n =>
        /\ TimestampOf(result'[m]) <= TimestampOf(result'[n])
        /\ result'[m][1] = result'[n][1] => result'[m][2] < result'[n][2]
  <2> SUFFICES ASSUME NEW m \in DOMAIN result', NEW n \in DOMAIN result', m < n
               PROVE  /\ TimestampOf(result'[m]) <= TimestampOf(result'[n])
                      /\ result'[m][1] = result'[n][1] => result'[m][2] < result'[n][2]
    OBVIOUS
  <2>1. m \in DOMAIN result /\ result'[m] = result[m]
    BY SMTT(30), <1>6
  <2>2. CASE n \in DOMAIN result
    <3>1. result'[n] = result[n]
      BY <2>2, <1>6
    <3> QED BY <2>1, <2>2, <3>1 DEF Popped
  <2>3. CASE n = Len(result) + 1
    <3>1. result'[n] = <<i, pos[i] + 1>>
      BY <2>3, <1>6
    <3>2. TimestampOf(result[m]) <= Top(i)
      BY <2>1, <1>1 DEF Popped
    <3>3. TimestampOf(result'[n]) = Top(i)
      BY SMTT(30), <3>1 DEF TimestampOf, Top
    <3>4. result[m][1] = i => result[m][2] \in 1..pos[i]
      BY <2>1, <1>10
    <3> QED BY SMTT(30), <2>1, <3>1, <3>2, <3>3, <3>4, <1>3
  <2> QED BY SMTT(30), <2>2, <2>3, <1>6
<1>15. \A n \in DOMAIN result', j \in Heap' :
        TimestampOf(result'[n]) <= slices[j][pos'[j] + 1].timestamp
  <2> TAKE n \in DOMAIN result', j \in Heap'
  <2> DEFINE t == slices[j][pos'[j] + 1].timestamp
  <2>1. j \in DOMAIN slices /\ pos'[j] < Len(slices[j]) /\ pos'[j] \in Nat
    BY <1>2, <1>0 DEF Heap
  <2>3. pos[j] \in Nat /\ pos[j] <= pos'[j] /\ Len(slices[j]) \in Nat
    BY SMTT(30), <2>1, <1>0 DEF StreamTypeOK
  <2>4. j \in Heap
    BY SMTT(30), <2>1, <2>3 DEF Heap
  <2>5. Top(j) \in Int /\ t \in Int /\ Top(j) <= t
    <3>1. pos[j] + 1 \in 1..Len(slices[j]) /\ pos'[j] + 1 \in 1..Len(slices[j])
          /\ pos[j] + 1 <= pos'[j] + 1
      BY SMTT(30), <2>1, <2>3
    <3> QED BY <3>1, <2>1, <1>8 DEF Top
  <2>6. CASE n \in DOMAIN result
    <3>1. result'[n] = result[n] /\ TimestampOf(result[n]) \in Int
      BY <2>6, <1>6, <1>13
    <3>2. TimestampOf(result[n]) <= Top(j)
      BY <2>4, <2>6 DEF Popped
    <3> QED BY SMTT(30), <3>1, <3>2, <2>5
  <2>7. CASE n = Len(result) + 1
    <3>1. TimestampOf(result'[n]) = Top(i)
      BY SMTT(30), <2>7, <1>6 DEF TimestampOf, Top
    <3>2. Top(i) <= Top(j)
      BY <2>4, <1>1
    <3>3. Top(i) \in Int
      <4>1. Len(slices[i]) \in Nat
        BY SMTT(30), <1>3 DEF StreamTypeOK
      <4>2. pos[i] + 1 \in 1..Len(slices[i])
        BY SMTT(30), <4>1, <1>3
      <4> QED BY <4>2, <1>3, <1>8 DEF Top
    <3> QED BY SMTT(30), <3>1, <3>2, <3>3, <2>5
  <2> QED BY SMTT(30), <2>6, <2>7, <1>6
<1>16. Popped'
  BY <1>2, <1>9, <1>11, <1>12, <1>14, <1>15 DEF Popped, TimestampOf, Top
<1> QED BY <1>7, <1>16

\* When the heap is empty every row of every slice has been popped, once.
LEMMA MergeCorrect ==
  ASSUME StreamInv
  PROVE  MergedInOrder
<1> SUFFICES ASSUME stage = "send" PROVE MergedInOrder
  BY DEF MergedInOrder
<1> USE DEF StreamInv
<1>1. \A i \in DOMAIN slices : /\ pos[i] = Len(slices[i]) /\ Len(slices[i]) \in Nat
                              /\ DOMAIN slices[i] = 1..Len(slices[i])
  <2> TAKE i \in DOMAIN slices
  <2>1. /\ pos[i] \in Nat /\ pos[i] <= Len(slices[i]) /\ Len(slices[i]) \in Nat
        /\ DOMAIN slices[i] = 1..Len(slices[i])
    BY DEF StreamTypeOK, Popped, IsEvents
  <2>2. ~(pos[i] < Len(slices[i]))
    BY DEF Heap
  <2> QED BY SMTT(30), <2>1, <2>2
<1>2. \A n \in DOMAIN result : result[n] \in Rows
  <2> TAKE n \in DOMAIN result
  <2>1. result[n] \in Places
    BY SMTT(30) DEF StreamTypeOK
  <2>2. result[n] = <<result[n][1], result[n][2]>>
    BY SMTT(30), <2>1 DEF Places
  <2>3. result[n][1] \in DOMAIN slices /\ result[n][2] \in 1..pos[result[n][1]]
    BY DEF Popped
  <2>4. result[n][2] \in DOMAIN slices[result[n][1]]
    BY <2>3, <1>1
  <2>5. result[n] \in {result[n][1]} \X DOMAIN slices[result[n][1]]
    BY <2>2, <2>4
  <2> QED BY <2>3, <2>5 DEF Rows
<1>3. \A row \in Rows : \E n \in DOMAIN result : result[n] = row
  <2> TAKE row \in Rows
  <2>1. PICK i \in DOMAIN slices : row \in {i} \X DOMAIN slices[i]
    BY DEF Rows
  <2>2. PICK p \in DOMAIN slices[i] : row = <<i, p>>
    BY SMTT(30), <2>1
  <2>3. p \in 1..pos[i]
    BY <1>1
  <2> QED BY <2>2, <2>3 DEF Popped
<1>4. \A m, n \in DOMAIN result : m # n => result[m] # result[n]
  <2> SUFFICES ASSUME NEW m \in DOMAIN result, NEW n \in DOMAIN result, m < n
               PROVE  result[m] # result[n]
    BY SMTT(30) DEF StreamTypeOK
  <2>1. result[m][1] = result[n][1] => result[m][2] < result[n][2]
    BY DEF Popped
  <2>2. result[m] \in Places /\ result[n] \in Places
    BY SMTT(30) DEF StreamTypeOK
  <2>3. result[m][2] \in Nat /\ result[n][2] \in Nat
    BY <2>2 DEF Places
  <2> QED BY SMTT(30), <2>1, <2>3
<1>5. {result[n] : n \in DOMAIN result} = Rows
  BY <1>2, <1>3
<1>6. Len(result) \in Nat /\ DOMAIN result = 1..Len(result) /\ result \in [1..Len(result) -> Rows]
  <2>1. Len(result) \in Nat /\ result \in [1..Len(result) -> Places]
    BY SMTT(30) DEF StreamTypeOK
  <2> QED BY <2>1, <1>2
<1>7. result \in Bijection(1..Len(result), Rows)
  BY <1>3, <1>4, <1>6 DEF Bijection, Injection, Surjection, IsInjective
<1>8. Cardinality(Rows) = Len(result)
  BY <1>6, <1>7, FS_CountingElements DEF ExistsBijection
<1>9. \A m, n \in DOMAIN result : m < n =>
        /\ TimestampOf(result[m]) <= TimestampOf(result[n])
        /\ result[m][1] = result[n][1] => result[m][2] < result[n][2]
  BY DEF Popped
<1> QED BY <1>5, <1>8, <1>9 DEF MergedInOrder
-----------------------------------------------------------------------------
(* QueryServer.Query *)

\* A response starts where the one before it ends, or later.
LEMMA OffsetIncreases ==
  ASSUME NEW m \in Nat, NEW n \in Nat, m < n
  PROVE  Offset(m) \in Int /\ Offset(n) \in Int /\ Offset(m) + BatchSize <= Offset(n)
<1>1. BatchSize \in Nat
  BY BatchAssumption
<1>2. PICK d \in Nat : n = m + 1 + d
  <2>1. n - m - 1 \in Nat /\ n = m + 1 + (n - m - 1)
    BY SMTT(30)
  <2> QED BY <2>1
<1>3. Offset(n) = Offset(m) + BatchSize + BatchSize * d
  BY SMTT(30), <1>1, <1>2 DEF Offset
<1>4. BatchSize * d \in Nat
  BY SMTT(30), <1>1
<1>5. Offset(m) \in Int
  BY SMTT(30), <1>1 DEF Offset
<1> QED BY SMTT(30), <1>1, <1>3, <1>4, <1>5

\* Only the last of the batches sent so far can be terminal.
LEMMA LastIsLast ==
  ASSUME StreamTypeOK, BatchesSent,
         NEW n \in DOMAIN sent, sent[n].isLast
  PROVE  n = Len(sent)
<1>1. Len(sent) \in Nat /\ DOMAIN sent = 1..Len(sent) /\ Len(result) \in Nat
  BY SMTT(30) DEF StreamTypeOK
<1> SUFFICES ASSUME n < Len(sent) PROVE FALSE
  BY SMTT(30), <1>1
<1>2. n \in Nat /\ Len(sent) \in DOMAIN sent
  BY SMTT(30), <1>1
<1>3. Len(result) <= Offset(n) + BatchSize
  BY DEF BatchesSent
<1>4. Offset(Len(sent)) < Len(result)
  BY <1>2 DEF BatchesSent
<1>5. Offset(n) \in Int /\ Offset(Len(sent)) \in Int /\ Offset(n) + BatchSize <= Offset(Len(sent))
  BY <1>1, <1>2, OffsetIncreases
<1>6. BatchSize \in Nat
  BY BatchAssumption
<1> QED BY SMTT(30), <1>1, <1>3, <1>4, <1>5, <1>6

\* A batch takes the next rows of the result, and is terminal exactly when it
\* takes the last of them.
LEMMA SendBatchInv ==
  ASSUME StreamInv, SendBatch
  PROVE  StreamInv'
<1> DEFINE end == IF start + BatchSize > Len(result) THEN Len(result) ELSE start + BatchSize
           ending == end = Len(result)
           batch == Response(SubSeq(result, start + 1, end), ending,
                             IF ending THEN Len(result) ELSE 0, FALSE)
<1>1. stage = "send" /\ start < Len(result) /\ start' = start + BatchSize
      /\ slices' = slices /\ pos' = pos /\ result' = result
  BY DEF SendBatch
<1>2. \/ sent' = Append(sent, batch) /\ stage' = "send"
      \/ sent' = sent /\ stage' = "broken"
  BY DEF SendBatch, Send
<1>3. StreamTypeOK /\ Popped /\ OneTerminal /\ Heap = {} /\ BatchesSent
  BY <1>1 DEF StreamInv
<1>4. BatchSize \in Nat /\ BatchSize > 0
  BY SMTT(30), BatchAssumption
<1>5. start \in Nat /\ result \in Seq(Places) /\ Len(result) \in Nat
      /\ Len(sent) \in Nat /\ sent \in Seq(Responses)
  BY SMTT(30), <1>3 DEF StreamTypeOK
<1>6. end \in Nat /\ start < end /\ end <= Len(result)
        /\ (ending <=> Len(result) <= start + BatchSize)
      /\ (ending => end = Len(result)) /\ (~ending => end = start + BatchSize)
  BY SMTT(30), <1>1, <1>4, <1>5
<1> HIDE DEF end
<1>7. /\ SubSeq(result, start + 1, end) \in Seq(Places)
      /\ Len(SubSeq(result, start + 1, end)) = end - start
      /\ \A k \in 1..(end - start) : SubSeq(result, start + 1, end)[k] = result[start + k]
  BY SMTT(30), <1>5, <1>6
<1>8. batch \in Responses
  BY <1>5, <1>7 DEF Responses, Response
<1> HIDE DEF ending
<1>9. /\ batch.events = SubSeq(result, start + 1, end)
      /\ batch.isLast = ending
      /\ batch.total = IF ending THEN Len(result) ELSE 0
  BY DEF Response
<1> HIDE DEF batch
<1>10. Popped'
  BY <1>1, <1>3 DEF Popped, Heap, TimestampOf, Top
<1>11. Heap' = {}
  BY <1>1, <1>3 DEF Heap
<1>12. CASE sent' = sent /\ stage' = "broken"
  <2>1. StreamTypeOK'
    BY SMTT(30), <1>1, <1>3, <1>4, <1>12 DEF StreamTypeOK
  <2>2. OneTerminal'
    BY <1>3, <1>12, LastIsLast DEF OneTerminal
  <2> QED BY <1>10, <1>12, <2>1, <2>2 DEF StreamInv
<1>13. CASE sent' = Append(sent, batch) /\ stage' = "send"
  <2>1. /\ sent' \in Seq(Responses) /\ Len(sent') = Len(sent) + 1
        /\ DOMAIN sent' = 1..(Len(sent) + 1) /\ DOMAIN sent = 1..Len(sent)
        /\ sent'[Len(sent) + 1] = batch
        /\ \A n \in DOMAIN sent : sent'[n] = sent[n]
    BY SMTT(30), <1>5, <1>8, <1>13
  <2>2. StreamTypeOK'
    BY SMTT(30), <1>1, <1>3, <1>4, <1>5, <1>13, <2>1 DEF StreamTypeOK
  <2>3. Offset(Len(sent) + 1) = start
    BY SMTT(30), <1>3, <1>4, <1>5 DEF BatchesSent, Offset
  <2>4. start' = BatchSize * Len(sent')
    BY SMTT(30), <1>1, <1>3, <1>4, <1>5, <2>1 DEF BatchesSent
  <2>5. ASSUME NEW n \in DOMAIN sent'
        PROVE  /\ Offset(n) < Len(result)
               /\ sent'[n].isLast <=> Len(result) <= Offset(n) + BatchSize
               /\ sent'[n].total = IF sent'[n].isLast THEN Len(result) ELSE 0
               /\ Len(sent'[n].events) = IF sent'[n].isLast THEN Len(result) - Offset(n) ELSE BatchSize
               /\ \A k \in DOMAIN sent'[n].events : sent'[n].events[k] = result[Offset(n) + k]
    <3>1. CASE n \in DOMAIN sent
      <4>1. sent'[n] = sent[n]
        BY <3>1, <2>1
      <4> QED BY <3>1, <4>1, <1>3 DEF BatchesSent
    <3>2. CASE n = Len(sent) + 1
      <4>1. sent'[n] = batch /\ Offset(n) = start
        BY <3>2, <2>1, <2>3
      <4>2. batch.isLast <=> Len(result) <= start + BatchSize
        BY <1>6, <1>9
      <4>3. batch.total = IF batch.isLast THEN Len(result) ELSE 0
        BY <1>9
      <4>4. Len(batch.events) = IF batch.isLast THEN Len(result) - start ELSE BatchSize
        <5>1. Len(batch.events) = end - start
          BY <1>7, <1>9
        <5>2. CASE ending
          BY <5>1, <5>2, <1>6, <1>9
        <5>3. CASE ~ending
          <6>1. end - start = BatchSize
            BY SMTT(30), <5>3, <1>4, <1>5, <1>6
          <6> QED BY <5>1, <5>3, <6>1, <1>9
        <5> QED BY <5>2, <5>3
      <4>5. \A k \in DOMAIN batch.events : batch.events[k] = result[start + k]
        BY SMTT(30), <1>5, <1>6, <1>7, <1>9
      <4> QED BY <4>1, <4>2, <4>3, <4>4, <4>5, <1>1
    <3> QED BY SMTT(30), <3>1, <3>2, <2>1
  <2>6. BatchesSent'
    BY <2>4, <2>5, <1>1 DEF BatchesSent, Offset
  <2>7. OneTerminal'
    <3>1. \A n \in DOMAIN sent' : sent'[n].isLast => n = Len(sent')
      <4> SUFFICES ASSUME NEW n \in DOMAIN sent', sent'[n].isLast, n # Len(sent')
                   PROVE  FALSE
        OBVIOUS
      <4>1. n \in DOMAIN sent /\ n \in Nat /\ Len(sent) + 1 \in Nat /\ n < Len(sent) + 1
        BY SMTT(30), <2>1, <1>5
      <4>2. Len(result) <= Offset(n) + BatchSize
        BY <2>5
      <4>3. Offset(n) \in Int /\ Offset(n) + BatchSize <= start
        BY <4>1, <2>3, OffsetIncreases
      <4> QED BY SMTT(30), <4>2, <4>3, <1>1, <1>4, <1>5
    <3> QED BY <3>1, <1>13 DEF OneTerminal
  <2> QED BY <1>10, <1>11, <1>13, <2>2, <2>6, <2>7 DEF StreamInv
<1> QED BY <1>2, <1>12, <1>13

\* The loop ends when every row is in a batch; an empty result has no batch, and
\* a response of its own.
LEMMA SendEndInv ==
  ASSUME StreamInv, SendEnd
  PROVE  StreamInv'
<1>1. stage = "send" /\ start >= Len(result)
      /\ slices' = slices /\ pos' = pos /\ result' = result /\ start' = start
  BY DEF SendEnd
<1>2. StreamTypeOK /\ Popped /\ BatchesSent
  BY <1>1 DEF StreamInv
<1>3. Popped'
  BY <1>1, <1>2 DEF Popped, Heap, TimestampOf, Top
<1>4. BatchSize \in Nat /\ BatchSize > 0
  BY SMTT(30), BatchAssumption
<1>5. start \in Nat /\ result \in Seq(Places) /\ Len(result) \in Nat
      /\ Len(sent) \in Nat /\ sent \in Seq(Responses) /\ DOMAIN sent = 1..Len(sent)
  BY SMTT(30), <1>2 DEF StreamTypeOK
<1>6. CASE result = <<>>
  <2> DEFINE empty == Response(<<>>, TRUE, 0, FALSE)
  <2>1. \/ sent' = Append(sent, empty) /\ stage' = "returned"
        \/ sent' = sent /\ stage' = "broken"
    BY <1>6 DEF SendEnd, Send
  <2>2. empty \in Responses /\ empty.events = <<>> /\ empty.isLast = TRUE /\ empty.total = 0
    BY SMTT(30) DEF Responses, Response
  <2> HIDE DEF empty
  <2>3. sent = <<>>
    <3> SUFFICES ASSUME 1 \in DOMAIN sent PROVE FALSE
      BY SMTT(30), <1>5
    <3>1. Offset(1) < Len(result)
      BY <1>2 DEF BatchesSent
    <3> QED BY SMTT(30), <3>1, <1>4, <1>6 DEF Offset
  <2>4. StreamTypeOK'
    <3>1. sent' \in Seq(Responses) /\ stage' \in {"returned", "broken"}
      <4>1. Append(sent, empty) \in Seq(Responses)
        BY SMTT(30), <1>5, <2>2
      <4> QED BY <4>1, <1>5, <2>1
    <3> QED BY <3>1, <1>1, <1>2 DEF StreamTypeOK
  <2>5. OneTerminal'
    <3>1. CASE sent' = sent /\ stage' = "broken"
      BY SMTT(30), <2>3, <3>1 DEF OneTerminal
    <3>2. CASE sent' = Append(sent, empty) /\ stage' = "returned"
      <4>1. Len(sent') = 1 /\ DOMAIN sent' = {1} /\ sent'[1] = empty /\ sent' # <<>>
        BY SMTT(30), <2>2, <2>3, <3>2
      <4>2. Offset(1) = 0 /\ Len(result') = 0
        BY SMTT(30), <1>1, <1>4, <1>6 DEF Offset
      <4> QED BY SMTT(30), <4>1, <4>2, <2>2, <3>2 DEF OneTerminal, Offset
    <3> QED BY <2>1, <3>1, <3>2
  <2> QED BY <1>3, <2>1, <2>4, <2>5 DEF StreamInv
<1>7. CASE result # <<>>
  <2>1. stage' = "returned" /\ sent' = sent
    BY <1>7 DEF SendEnd
  <2>2. StreamTypeOK'
    BY <1>1, <1>2, <2>1 DEF StreamTypeOK
  <2>3. Len(sent) \in DOMAIN sent /\ Len(sent) > 0
    <3>1. Len(result) > 0
      BY SMTT(30), <1>5, <1>7
    <3>2. BatchSize * Len(sent) > 0
      BY SMTT(30), <3>1, <1>1, <1>2, <1>5 DEF BatchesSent
    <3>3. Len(sent) # 0
      BY SMTT(30), <3>2, <1>4
    <3> QED BY SMTT(30), <3>3, <1>5
  <2>4. Offset(Len(sent)) \in Int /\ Offset(Len(sent)) + BatchSize = start
    BY SMTT(30), <1>2, <1>4, <1>5 DEF BatchesSent, Offset
  <2>5. sent[Len(sent)].isLast
    BY <2>3, <2>4, <1>1, <1>2, <1>4, <1>5 DEF BatchesSent
  <2>6. sent[Len(sent)].total = Len(result)
        /\ Len(sent[Len(sent)].events) = Len(result) - Offset(Len(sent))
    BY <2>3, <2>5, <1>2 DEF BatchesSent
  <2>7. Offset(Len(sent)) + Len(sent[Len(sent)].events) = Len(result)
    BY SMTT(30), <2>4, <2>6, <1>5
  <2>8. \A n \in DOMAIN sent : \A k \in DOMAIN sent[n].events :
            sent[n].events[k] = result[Offset(n) + k]
    BY <1>2 DEF BatchesSent
  <2>9. OneTerminal
    BY <1>1 DEF StreamInv
  <2>10. sent # <<>>
    BY SMTT(30), <2>3, <1>5
  <2>11. OneTerminal'
    BY <1>1, <2>1, <2>5, <2>6, <2>7, <2>8, <2>9, <2>10 DEF OneTerminal, Offset
  <2> QED BY <1>3, <2>1, <2>2, <2>11 DEF StreamInv
<1> QED BY <1>6, <1>7

\* An error is answered by one terminal response and nothing else.
LEMMA ErrorInv ==
  ASSUME StreamInv, stage \in {"request", "read"}, Send(terminalError, "returned"),
         UNCHANGED <<slices, pos, result, start>>
  PROVE  StreamInv'
<1>1. sent = <<>> /\ result = <<>> /\ StreamTypeOK /\ Popped
  BY DEF StreamInv
<1>2. \/ sent' = Append(sent, terminalError) /\ stage' = "returned"
      \/ sent' = sent /\ stage' = "broken"
  BY DEF Send
<1>3. terminalError \in Responses /\ terminalError.events = <<>>
      /\ terminalError.isLast = TRUE /\ terminalError.total = 0
  BY SMTT(30) DEF terminalError, Responses, Response
<1>4. StreamTypeOK'
  <2>1. sent \in Seq(Responses)
    BY <1>1 DEF StreamTypeOK
  <2>2. sent' \in Seq(Responses) /\ stage' \in {"returned", "broken"}
    BY SMTT(30), <2>1, <1>2, <1>3
  <2> QED BY <2>2, <1>1 DEF StreamTypeOK
<1>5. Popped'
  BY SMTT(30), <1>1 DEF Popped, Heap, TimestampOf, Top
<1>6. BatchSize \in Nat
  BY BatchAssumption
<1>7. CASE sent' = sent /\ stage' = "broken"
  <2>1. OneTerminal'
    BY SMTT(30), <1>1, <1>7 DEF OneTerminal
  <2> QED BY <1>4, <1>5, <1>7, <2>1 DEF StreamInv
<1>8. CASE sent' = Append(sent, terminalError) /\ stage' = "returned"
  <2>1. Len(sent') = 1 /\ DOMAIN sent' = {1} /\ sent'[1] = terminalError /\ sent' # <<>>
    BY SMTT(30), <1>1, <1>3, <1>8
  <2>2. Offset(1) = 0 /\ Len(result') = 0
    BY SMTT(30), <1>1, <1>6 DEF Offset
  <2>3. OneTerminal'
    BY SMTT(30), <2>1, <2>2, <1>3, <1>8 DEF OneTerminal, Offset
  <2> QED BY <1>4, <1>5, <1>8, <2>3 DEF StreamInv
<1> QED BY <1>2, <1>7, <1>8

\* The merge starts with nothing popped from results in the order of timestamps.
LEMMA MergesInv ==
  ASSUME StreamInv, NEW results, QueryMerges(results),
         DOMAIN results \subseteq Nat,
         \A i \in DOMAIN results : IsEvents(results[i]) /\ InTimeOrder(results[i])
  PROVE  StreamInv'
<1>1. stage = "read" /\ stage' = "merge" /\ result' = result /\ start' = start /\ sent' = sent
      /\ slices' = [i \in NotEmpty(results) |-> results[i]]
      /\ pos' = [i \in NotEmpty(results) |-> 0]
  BY DEF QueryMerges
<1>2. result = <<>> /\ sent = <<>> /\ start = 0 /\ StreamTypeOK
  BY <1>1 DEF StreamInv
<1>3. /\ DOMAIN slices' \subseteq DOMAIN results /\ DOMAIN pos' = DOMAIN slices'
      /\ \A i \in DOMAIN slices' : slices'[i] = results[i] /\ pos'[i] = 0
  BY <1>1 DEF NotEmpty
<1>4. StreamTypeOK'
  BY <1>1, <1>2, <1>3 DEF StreamTypeOK
<1>5. DOMAIN result' = {} /\ \A i \in DOMAIN slices' : pos'[i] <= Len(slices'[i])
  BY SMTT(30), <1>1, <1>2, <1>3
<1>6. \A i \in DOMAIN slices' : InTimeOrder(slices'[i]) /\ 1..pos'[i] = {}
  BY SMTT(30), <1>3
<1>7. Popped'
  BY <1>5, <1>6 DEF Popped
<1>8. OneTerminal'
  BY SMTT(30), <1>1, <1>2 DEF OneTerminal
<1> QED BY <1>1, <1>2, <1>4, <1>7, <1>8 DEF StreamInv

\* A step of the handler keeps the invariant; so does a step that leaves the
\* handler alone.
LEMMA StreamStep ==
  ASSUME StreamInv
  PROVE  Stream \/ UNCHANGED streamVars => StreamInv'
<1>1. ASSUME QueryInvalid PROVE StreamInv'
  BY <1>1, ErrorInv DEF QueryInvalid
<1>2. ASSUME MergePop PROVE StreamInv'
  <2>1. StreamTypeOK' /\ Popped'
    BY <1>2, PopsLeast DEF StreamInv
  <2>2. stage = "merge" /\ stage' = stage /\ start' = start /\ sent' = sent
    BY <1>2 DEF MergePop
  <2>3. sent = <<>> /\ start = 0
    BY <2>2 DEF StreamInv
  <2>4. OneTerminal'
    BY SMTT(30), <2>2, <2>3 DEF OneTerminal
  <2> QED BY <2>1, <2>2, <2>3, <2>4 DEF StreamInv
<1>3. ASSUME MergeEnd PROVE StreamInv'
  <2>1. stage = "merge" /\ stage' = "send" /\ Heap = {}
          /\ UNCHANGED <<slices, pos, result, start, sent>>
    BY <1>3 DEF MergeEnd
  <2>2. StreamTypeOK /\ Popped /\ sent = <<>> /\ start = 0
    BY <2>1 DEF StreamInv
  <2>3. StreamTypeOK' /\ Popped' /\ Heap' = {}
    BY <2>1, <2>2 DEF StreamTypeOK, Popped, Heap, TimestampOf, Top
  <2>4. OneTerminal'
    BY SMTT(30), <2>1, <2>2 DEF OneTerminal
  <2>5. BatchesSent'
    BY SMTT(30), <2>1, <2>2, BatchAssumption DEF BatchesSent
  <2> QED BY <2>1, <2>3, <2>4, <2>5 DEF StreamInv
<1>4. ASSUME UNCHANGED streamVars PROVE StreamInv'
  <2>1. UNCHANGED <<slices, pos, result, stage, start, sent>>
    BY <1>4 DEF streamVars
  <2>2. StreamTypeOK' /\ OneTerminal' /\ Heap' = Heap
    BY <2>1 DEF StreamInv, StreamTypeOK, OneTerminal, Offset, Heap
  <2>3. Popped'
    BY <2>1 DEF StreamInv, Popped, Heap, TimestampOf, Top
  <2>4. BatchesSent' <=> BatchesSent
    BY <2>1 DEF BatchesSent, Offset
  <2> QED BY <2>1, <2>2, <2>3, <2>4 DEF StreamInv
<1> QED BY <1>1, <1>2, <1>3, <1>4, SendBatchInv, SendEndInv DEF Stream
-----------------------------------------------------------------------------
(* Sorted memtables and what is read of them *)

\* Rows that correspond one to one are the same rows.
LEMMA SameRowsByBijection ==
  ASSUME NEW S, NEW T, IsFiniteSet(S), NEW f \in Bijection(S, T), NEW s, NEW t,
         \A i \in S : s[i] = t[f[i]]
  PROVE  SameRows(s, S, t, T)
<1> SUFFICES ASSUME NEW row
             PROVE  Cardinality({i \in S : s[i] = row}) = Cardinality({i \in T : t[i] = row})
  BY DEF SameRows
<1> DEFINE A == {i \in S : s[i] = row}
           B == {i \in T : t[i] = row}
           g == [i \in A |-> f[i]]
<1>1. /\ f \in [S -> T]
      /\ \A i, j \in S : f[i] = f[j] => i = j
      /\ \A y \in T : \E i \in S : f[i] = y
  BY DEF Bijection, Injection, Surjection, IsInjective
<1>2. g \in [A -> B]
  BY <1>1
<1>3. \A i, j \in A : g[i] = g[j] => i = j
  BY <1>1
<1>4. \A y \in B : \E i \in A : g[i] = y
  <2> TAKE y \in B
  <2>1. PICK i \in S : f[i] = y
    BY <1>1
  <2>2. i \in A /\ g[i] = y
    BY <2>1
  <2> QED BY <2>2
<1> HIDE DEF g
<1>5. g \in Bijection(A, B)
  BY <1>2, <1>3, <1>4 DEF Bijection, Injection, Surjection, IsInjective
<1>6. IsFiniteSet(A)
  BY FS_Subset
<1> HIDE DEF A, B
<1>7. Cardinality(B) = Cardinality(A)
  BY <1>5, <1>6, FS_Bijection DEF ExistsBijection
<1> QED BY <1>7 DEF A, B

\* A memtable as Seal writes it: some order p of the rows, by key hash and then by
\* timestamp.
IsOrder(rows, mt, p) ==
    /\ p \in Bijection(DOMAIN rows, DOMAIN rows)
    /\ mt.keyHashes = [i \in DOMAIN rows |-> rows[p[i]].keyHash]
    /\ mt.timestamps = [i \in DOMAIN rows |-> rows[p[i]].timestamp]
    /\ mt.payloads = [i \in DOMAIN rows |-> rows[p[i]].payload]
    /\ \A a, b \in DOMAIN rows : a < b => ~Less(mt, b, a)

\* Memtable.Sort moves the three columns together and loses no row.
LEMMA SortOrders ==
  ASSUME NEW rows \in Batches, NEW mt \in Sort(Memtable(rows))
  PROVE  \E p : IsOrder(rows, mt, p)
<1> DEFINE m == Memtable(rows)
<1>1. rows \in Seq(Event) /\ DOMAIN rows = 1..Len(rows) /\ Len(rows) \in Nat
  <2>1. rows \in Seq(Event)
    BY BatchesAssumption
  <2> QED BY SMTT(30), <2>1
<1>2. /\ DOMAIN m.keyHashes = DOMAIN rows
      /\ m.keyHashes = [i \in DOMAIN rows |-> rows[i].keyHash]
      /\ m.timestamps = [i \in DOMAIN rows |-> rows[i].timestamp]
      /\ m.payloads = [i \in DOMAIN rows |-> rows[i].payload]
      /\ DOMAIN m = {"keyHashes", "timestamps", "payloads"}
  BY DEF Memtable
<1>3. PICK p \in SortedIdx(m) : mt = Permuted(m, p)
  BY DEF Sort
<1> HIDE DEF m
<1>4. /\ p \in Bijection(DOMAIN rows, DOMAIN rows)
      /\ \A a, b \in DOMAIN p : a < b => ~Less(m, p[b], p[a])
  BY <1>2, <1>3 DEF SortedIdx
<1>7. DOMAIN p = DOMAIN rows /\ \A i \in DOMAIN rows : p[i] \in DOMAIN rows
  BY <1>4 DEF Bijection, Injection
<1>8. /\ mt.keyHashes = [i \in DOMAIN rows |-> m.keyHashes[p[i]]]
      /\ mt.timestamps = [i \in DOMAIN rows |-> m.timestamps[p[i]]]
      /\ mt.payloads = [i \in DOMAIN rows |-> m.payloads[p[i]]]
  BY <1>2, <1>3, <1>7 DEF Permuted
<1>9. /\ mt.keyHashes = [i \in DOMAIN rows |-> rows[p[i]].keyHash]
      /\ mt.timestamps = [i \in DOMAIN rows |-> rows[p[i]].timestamp]
      /\ mt.payloads = [i \in DOMAIN rows |-> rows[p[i]].payload]
  <2>1. \A i \in DOMAIN rows : /\ m.keyHashes[p[i]] = rows[p[i]].keyHash
                               /\ m.timestamps[p[i]] = rows[p[i]].timestamp
                               /\ m.payloads[p[i]] = rows[p[i]].payload
    BY <1>2, <1>7
  <2> QED BY <2>1, <1>8
<1>10. \A a, b \in DOMAIN rows : Less(mt, b, a) <=> Less(m, p[b], p[a])
  BY <1>8 DEF Less
<1>11. \A a, b \in DOMAIN rows : a < b => ~Less(mt, b, a)
  BY <1>4, <1>7, <1>10
<1> QED BY <1>4, <1>9, <1>11 DEF IsOrder

\* The first two columns of a memtable.
FilterOf(mt) == [keyHashes |-> mt.keyHashes, timestamps |-> mt.timestamps]

\* ReadBlock accepts the file of a sealed memtable, and reads its columns.
LEMMA SealedFileDecodes ==
  ASSUME NEW rows \in Batches, NEW mt \in Sort(Memtable(rows))
  PROVE  /\ DecodeFooter(BlockImage(mt)) = {BlockFooter(mt)}
         /\ ReadFilterColumns(BlockImage(mt), BlockFooter(mt)) = {FilterOf(mt)}
         /\ ReadPayloads(BlockImage(mt), BlockFooter(mt)) = {mt.payloads}
         /\ FilterColumns(BlockImage(mt)) = {FilterOf(mt)}
<1>1. rows \in Seq(Event)
        /\ \A i \in DOMAIN rows : ((Len(rows[i].payload) \div 256) \div 256) \div 256 < 256
  <2>1. rows \in Seq(Event)
    BY BatchesAssumption
  <2>2. \A i \in DOMAIN rows : ((Len(rows[i].payload) \div 256) \div 256) \div 256 < 256
    BY BatchesAssumption
  <2> QED BY <2>1, <2>2
<1>2. PICK p : IsOrder(rows, mt, p)
  BY SortOrders
<1>3. \A i \in DOMAIN rows : rows[i].payload \in Payloads
  <2> TAKE i \in DOMAIN rows
  <2>1. rows[i] \in Event
    BY SMTT(30), <1>1
  <2>2. rows[i].payload \in Seq(Byte)
    BY <2>1 DEF Event
  <2> QED BY <2>2, <1>1 DEF Payloads
<1>4. mt.payloads \in Seq(Payloads)
  <2>1. DOMAIN rows = 1..Len(rows) /\ Len(rows) \in Nat
    BY SMTT(30), <1>1
  <2>2. \A i \in DOMAIN rows : p[i] \in DOMAIN rows
    BY <1>2 DEF IsOrder, Bijection, Injection
  <2>3. mt.payloads = [i \in 1..Len(rows) |-> rows[p[i]].payload]
    BY <1>2, <2>1 DEF IsOrder
  <2>4. \A i \in 1..Len(rows) : rows[p[i]].payload \in Payloads
    BY <1>3, <2>1, <2>2
  <2> HIDE DEF Payloads
  <2> QED BY SMTT(30), <2>1, <2>3, <2>4
<1>5. \A n \in 1..3 : Columns(mt)[n].len \in Nat \ {0}
  BY ZstdAssumption
<1>6. /\ FileSize(BlockImage(mt)) >= HeaderSize + FooterSize
      /\ DecodeHeader(BlockImage(mt)) # {}
      /\ DecodeFooter(BlockImage(mt)) = {BlockFooter(mt)}
      /\ ReadFilterColumns(BlockImage(mt), BlockFooter(mt)) = {FilterOf(mt)}
      /\ ReadPayloads(BlockImage(mt), BlockFooter(mt)) = {mt.payloads}
  BY <1>4, <1>5, ImageDecodes DEF FilterOf
<1>7. FilterColumns(BlockImage(mt)) = {FilterOf(mt)}
  <2>1. ~(FileSize(BlockImage(mt)) < HeaderSize + FooterSize)
    <3>1. FileSize(BlockImage(mt)) \in Nat
      <4>1. FiveSections(BlockImage(mt)) /\ Len(BlockImage(mt)) = 5
        BY <1>5, ImageSections DEF FiveSections
      <4>2. Start(BlockImage(mt), 6) \in Nat
        BY SMTT(30), <4>1, Starts
      <4> QED BY SMTT(30), <4>1, <4>2 DEF FileSize
    <3> QED BY SMTT(30), <3>1, <1>6 DEF HeaderSize, FooterSize
  <2> QED BY <2>1, <1>6 DEF FilterColumns
<1> QED BY <1>6, <1>7

\* The rows that match are the same in the version and in the order of the file.
LEMMA MatchesOfVersion ==
  ASSUME NEW rows \in Batches, NEW mt \in Sort(Memtable(rows)), NEW p, IsOrder(rows, mt, p)
  PROVE  /\ MatchIdx(FilterOf(mt)) \subseteq DOMAIN rows
         /\ \A i \in DOMAIN rows :
              i \in MatchIdx(FilterOf(mt)) <=> Matches(rows[p[i]].keyHash, rows[p[i]].timestamp)
  BY DEF IsOrder, MatchIdx, FilterOf

\* The events ReadBlock takes from the columns of a sealed memtable are its rows
\* that match, in the order of timestamps.
LEMMA EventsOfVersion ==
  ASSUME NEW rows \in Batches, NEW mt \in Sort(Memtable(rows)),
         NEW idx \in InOrder(MatchIdx(FilterOf(mt)))
  PROVE  LET events == EventsAt(idx, FilterOf(mt), mt.payloads)
         IN  /\ events \in Seq(Event) /\ InTimeOrder(events)
             /\ SameRows(events, DOMAIN events, rows,
                         {i \in DOMAIN rows : Matches(rows[i].keyHash, rows[i].timestamp)})
<1> DEFINE M == MatchIdx(FilterOf(mt))
           events == EventsAt(idx, FilterOf(mt), mt.payloads)
           R == {i \in DOMAIN rows : Matches(rows[i].keyHash, rows[i].timestamp)}
           n == Cardinality(M)
<1>1. PICK p : IsOrder(rows, mt, p)
  BY SortOrders
<1>2. rows \in Seq(Event)
  BY BatchesAssumption
<1>3. DOMAIN rows = 1..Len(rows) /\ Len(rows) \in Nat /\ \A i \in DOMAIN rows : rows[i] \in Event
  BY SMTT(30), <1>2
<1>4. /\ M \subseteq DOMAIN rows
      /\ \A i \in DOMAIN rows : i \in M <=> Matches(rows[p[i]].keyHash, rows[p[i]].timestamp)
  BY <1>1, MatchesOfVersion
<1>5. IsFiniteSet(M)
  <2> HIDE DEF M
  <2>1. IsFiniteSet(DOMAIN rows)
    BY SMTT(30), <1>3, FS_Interval
  <2> QED BY <2>1, <1>4, FS_Subset
<1>6. idx \in Bijection(1..n, M) /\ \A a, b \in DOMAIN idx : a < b => idx[a] < idx[b]
  BY DEF InOrder
<1> HIDE DEF M
<1>7. n \in Nat /\ idx \in Bijection(1..n, M)
  BY <1>5, <1>6, FS_CardinalityType
<1> HIDE DEF n
<1>8. DOMAIN idx = 1..n /\ \A k \in 1..n : idx[k] \in M /\ idx[k] \in DOMAIN rows
  BY <1>4, <1>7 DEF Bijection, Injection
<1>9. p \in Bijection(DOMAIN rows, DOMAIN rows)
  BY <1>1 DEF IsOrder
<1>10. \A i \in DOMAIN rows : p[i] \in DOMAIN rows
  BY <1>9 DEF Bijection, Injection
<1>11. DOMAIN events = 1..n /\ \A k \in 1..n : events[k] = rows[p[idx[k]]]
  <2>1. DOMAIN events = 1..n /\ \A k \in 1..n :
          events[k] = [keyHash |-> mt.keyHashes[idx[k]], timestamp |-> mt.timestamps[idx[k]],
                       payload |-> mt.payloads[idx[k]]]
    BY <1>8 DEF EventsAt, FilterOf
  <2>2. \A i \in DOMAIN rows : /\ mt.keyHashes[i] = rows[p[i]].keyHash
                               /\ mt.timestamps[i] = rows[p[i]].timestamp
                               /\ mt.payloads[i] = rows[p[i]].payload
    BY <1>1 DEF IsOrder
  <2>3. \A r \in Event : r = [keyHash |-> r.keyHash, timestamp |-> r.timestamp, payload |-> r.payload]
    BY SMTT(30) DEF Event
  <2>4. ASSUME NEW k \in 1..n PROVE events[k] = rows[p[idx[k]]]
    <3>1. idx[k] \in DOMAIN rows /\ rows[p[idx[k]]] \in Event
      BY <1>3, <1>8, <1>10
    <3>2. events[k] = [keyHash |-> rows[p[idx[k]]].keyHash, timestamp |-> rows[p[idx[k]]].timestamp,
                       payload |-> rows[p[idx[k]]].payload]
      BY <3>1, <2>1, <2>2
    <3> QED BY <3>1, <3>2, <2>3
  <2> QED BY <2>1, <2>4
<1>12. events \in Seq(Event)
  <2>1. \A k \in 1..n : events[k] \in Event
    BY <1>3, <1>8, <1>10, <1>11
  <2>2. events = [k \in 1..n |-> events[k]]
    BY <1>8 DEF EventsAt
  <2> HIDE DEF events
  <2> QED BY SMTT(30), <1>7, <2>1, <2>2
<1>13. InTimeOrder(events)
  <2> SUFFICES ASSUME NEW a \in 1..n, NEW b \in 1..n, a < b
               PROVE  events[a].timestamp <= events[b].timestamp
    BY <1>11 DEF InTimeOrder
  <2> HIDE DEF events
  <2> DEFINE i == idx[a]
             j == idx[b]
  <2>1. i \in M /\ j \in M /\ i \in DOMAIN rows /\ j \in DOMAIN rows /\ i < j
    BY <1>6, <1>8
  <2>2. events[a] = rows[p[i]] /\ events[b] = rows[p[j]]
    BY <1>11
  <2> HIDE DEF i, j
  <2>3. rows[p[i]].keyHash = QueryKey /\ rows[p[j]].keyHash = QueryKey
    BY <2>1, <1>4 DEF Matches
  <2>4. ~Less(mt, j, i)
    BY <2>1, <1>1 DEF IsOrder
  <2>5. /\ mt.keyHashes[i] = rows[p[i]].keyHash /\ mt.timestamps[i] = rows[p[i]].timestamp
        /\ mt.keyHashes[j] = rows[p[j]].keyHash /\ mt.timestamps[j] = rows[p[j]].timestamp
    BY <2>1, <1>1 DEF IsOrder
  <2>6. ~(rows[p[j]].timestamp < rows[p[i]].timestamp)
    BY <2>3, <2>4, <2>5 DEF Less
  <2>7. rows[p[i]].timestamp \in Int /\ rows[p[j]].timestamp \in Int
    BY <2>1, <1>3, <1>10 DEF Event
  <2> QED BY SMTT(30), <2>2, <2>6, <2>7
<1>14. SameRows(events, 1..n, rows, R)
  <2> DEFINE f == [k \in 1..n |-> p[idx[k]]]
  <2>1. \A k \in 1..n : f[k] = p[idx[k]] /\ f[k] \in R
    BY <1>4, <1>8, <1>10
  <2>2. \A k, l \in 1..n : f[k] = f[l] => k = l
    BY <1>7, <1>8, <1>9, <2>1 DEF Bijection, Injection, IsInjective
  <2>3. \A y \in R : \E k \in 1..n : f[k] = y
    <3> TAKE y \in R
    <3>1. PICK i \in DOMAIN rows : p[i] = y
      BY <1>9 DEF Bijection, Surjection
    <3>2. i \in M
      BY <3>1, <1>4
    <3>3. PICK k \in 1..n : idx[k] = i
      BY <3>2, <1>7 DEF Bijection, Surjection
    <3> QED BY <3>1, <3>3
  <2>4. f \in [1..n -> R]
    BY <2>1
  <2> HIDE DEF f, R, events
  <2>5. f \in Bijection(1..n, R)
    BY <2>2, <2>3, <2>4 DEF Bijection, Injection, Surjection, IsInjective
  <2>6. \A k \in 1..n : events[k] = rows[f[k]]
    BY <2>1, <1>11
  <2>7. IsFiniteSet(1..n)
    BY SMTT(30), <1>7, FS_Interval
  <2> QED BY <2>5, <2>6, <2>7, SameRowsByBijection
<1> QED BY <1>11, <1>12, <1>13, <1>14
-----------------------------------------------------------------------------

\* The synced files of the versions vs of a block.
Whole(vs) == {Synced(BlockImage(mt)) : mt \in UNION {Sort(Memtable(rows)) : rows \in vs}}

\* What the files have in every reachable state: a file under its final name is
\* whole, and so is a copy, and a block that was not reaped has one.
FileInv ==
    /\ DOMAIN hot = Blocks /\ DOMAIN warm = Blocks
    /\ versions \in [Blocks -> SUBSET Batches]
    /\ sid \in Blocks /\ mid \in Blocks
    /\ \A id \in Blocks : hot[id] \in Whole(versions[id]) \cup {NoFile}
    /\ spc = "synced" => srows \in Batches /\ tmp \in Whole({srows})
    /\ mpc = "copied" => mtmp \in Whole(versions[mid])
    /\ mpc = "put" => warm[mid] \in Whole(versions[mid])
    /\ \A id \in Blocks : versions[id] # {} /\ id \notin reaped =>
            \/ hot[id] \in Whole(versions[id])
            \/ warm[id] \in Whole(versions[id])

\* And what they have of the version put last.  A file in the hot tier is always
\* of that version; a copy is, unless Seal has put the block again since.
LastInv ==
    /\ DOMAIN last = Blocks
    /\ \A id \in Blocks : versions[id] # {} => last[id] \in versions[id]
    /\ \A id \in Blocks : hot[id] \in Whole({last[id]}) \cup {NoFile}
    /\ mpc = "copied" /\ mid \notin crossed => mtmp \in Whole({last[mid]})
    /\ mpc = "put" /\ mid \notin crossed => warm[mid] \in Whole({last[mid]})
    /\ mpc # "idle" /\ mid \in crossed /\ mid \notin reaped => hot[mid] \in Whole({last[mid]})
    /\ \A id \in Blocks : Live(id) /\ id \notin crossed =>
            \/ hot[id] \in Whole({last[id]})
            \/ warm[id] \in Whole({last[id]})

\* The rows of a version that the query asks for.
Asked(version) == {i \in DOMAIN version : Matches(version[i].keyHash, version[i].timestamp)}

\* What a reader returns: the rows of one version that match, in time order.
Answer(events, vs) ==
    /\ events \in Seq(Event) /\ InTimeOrder(events)
    /\ \E version \in vs : SameRows(events, DOMAIN events, version, Asked(version))

\* A reader of a block with the versions vs, step by step: what it has open is a
\* whole file, whatever happened to the name since.
ReaderOK(r, vs) ==
    \/ r = Reader("open", <<>>, {}, <<>>)
    \/ r = Reader("failed", <<>>, {}, <<>>)
    \/ \E mt \in UNION {Sort(Memtable(rows)) : rows \in vs} :
        \/ r = Reader("filter", BlockImage(mt), {}, <<>>)
        \/ r = Reader("payload", BlockImage(mt), MatchIdx(FilterOf(mt)), <<>>)
    \/ r = Reader("done", <<>>, {}, r.events) /\ Answer(r.events, vs)

\* Every reader is such a reader of its block.
ReaderInv ==
    /\ DOMAIN reader \subseteq Blocks
    /\ \A id \in DOMAIN reader : ReaderOK(reader[id], versions[id])

-----------------------------------------------------------------------------
(* The files *)

\* More versions, more whole files.
LEMMA WholeMonotone ==
  ASSUME NEW vs, NEW ws, vs \subseteq ws
  PROVE  Whole(vs) \subseteq Whole(ws)
  BY DEF Whole

\* A whole file was synced and is the image of a sorted version.
LEMMA WholeFile ==
  ASSUME NEW vs, NEW file \in Whole(vs)
  PROVE  /\ file = Synced(file.sections) /\ file.synced
         /\ \E rows \in vs : \E mt \in Sort(Memtable(rows)) : file.sections = BlockImage(mt)
<1>1. PICK rows \in vs : \E mt \in Sort(Memtable(rows)) : file = Synced(BlockImage(mt))
  BY DEF Whole
<1>2. PICK mt \in Sort(Memtable(rows)) : file = Synced(BlockImage(mt))
  BY <1>1
<1> QED BY <1>2 DEF Synced, File

\* The first BlockID is one.
LEMMA FirstBlock == Min(Blocks) \in Blocks
<1>1. \E m \in Blocks : \A y \in Blocks : m <= y
  BY BlocksAssumption, NatMin
<1> QED BY <1>1 DEF Min

\* There are no files at the start.
LEMMA FileInitInv == FileInit => FileInv
<1> SUFFICES ASSUME FileInit PROVE FileInv
  OBVIOUS
<1>1. /\ DOMAIN hot = Blocks /\ DOMAIN warm = Blocks
      /\ \A id \in Blocks : hot[id] = NoFile /\ versions[id] = {}
      /\ versions \in [Blocks -> SUBSET Batches]
      /\ sid = Min(Blocks) /\ mid = Min(Blocks) /\ spc = "idle" /\ mpc = "idle"
  BY DEF FileInit
<1> QED BY <1>1, FirstBlock DEF FileInv

\* Seal writes, syncs and renames.
LEMMA SealInv ==
  ASSUME FileInv, Seal
  PROVE  FileInv' /\ \A id \in Blocks : versions[id] \subseteq versions'[id]
<1>1. ASSUME NEW id \in Blocks, NEW rows \in Batches, SealWrite(id, rows)
      PROVE  FileInv' /\ UNCHANGED versions
  <2>1. /\ UNCHANGED <<mpc, mid, mtmp, hot, warm, versions, reaped>>
        /\ sid' = id /\ srows' = rows
        /\ \E mt \in Sort(Memtable(rows)) : tmp' = Synced(BlockImage(mt))
    BY <1>1 DEF SealWrite, migrateVars, tierVars, historyVars
  <2>2. tmp' \in Whole({rows})
    BY <2>1 DEF Whole
  <2> QED BY <2>1, <2>2 DEF FileInv
<1>2. ASSUME SealFails PROVE FileInv' /\ UNCHANGED versions
  <2>1. /\ UNCHANGED <<sid, mpc, mid, mtmp, hot, warm, versions, reaped>>
        /\ spc' = "idle"
    BY <1>2 DEF SealFails, SealEnd, migrateVars, tierVars, historyVars
  <2> QED BY <2>1 DEF FileInv
<1>3. ASSUME SealPut PROVE FileInv' /\ \A id \in Blocks : versions[id] \subseteq versions'[id]
  <2>1. /\ spc = "synced" /\ spc' = "idle"
        /\ UNCHANGED <<sid, mpc, mid, mtmp, warm>>
        /\ hot' = [hot EXCEPT ![sid] = tmp]
        /\ versions' = [versions EXCEPT ![sid] = @ \cup {srows}]
        /\ reaped' = reaped \ {sid}
    BY <1>3 DEF SealPut, SealEnd, migrateVars
  <2>2. /\ sid \in Blocks /\ srows \in Batches /\ tmp \in Whole({srows})
        /\ DOMAIN hot = Blocks /\ versions \in [Blocks -> SUBSET Batches]
    BY <2>1 DEF FileInv
  <2>3. /\ versions' \in [Blocks -> SUBSET Batches]
        /\ versions'[sid] = versions[sid] \cup {srows}
        /\ \A id \in Blocks \ {sid} : versions'[id] = versions[id]
    BY <2>1, <2>2
  <2>4. \A id \in Blocks : versions[id] \subseteq versions'[id]
    BY <2>3
  <2>5. \A id \in Blocks : Whole(versions[id]) \subseteq Whole(versions'[id])
    BY <2>4, WholeMonotone
  <2>6. tmp \in Whole(versions'[sid])
    BY <2>2, <2>3, WholeMonotone
  <2>7. /\ DOMAIN hot' = Blocks /\ hot'[sid] = tmp
        /\ \A id \in Blocks \ {sid} : hot'[id] = hot[id]
    BY <2>1, <2>2
  <2>8. \A id \in Blocks : hot'[id] \in Whole(versions'[id]) \cup {NoFile}
    BY <2>5, <2>6, <2>7 DEF FileInv
  <2>9. /\ mpc' = "copied" => mtmp' \in Whole(versions'[mid'])
        /\ mpc' = "put" => warm'[mid'] \in Whole(versions'[mid'])
    BY <2>1, <2>5 DEF FileInv
  <2>10. \A id \in Blocks : versions'[id] # {} /\ id \notin reaped' =>
            hot'[id] \in Whole(versions'[id]) \/ warm'[id] \in Whole(versions'[id])
    BY <2>1, <2>3, <2>5, <2>6, <2>7 DEF FileInv
  <2> QED BY <2>1, <2>2, <2>3, <2>4, <2>7, <2>8, <2>9, <2>10 DEF FileInv
<1> QED BY <1>1, <1>2, <1>3 DEF Seal

\* The reaper removes the file of a block it counts as reaped.
LEMMA DeleteInv ==
  ASSUME FileInv, NEW id \in Blocks, Delete(id)
  PROVE  FileInv' /\ UNCHANGED versions
<1>1. /\ UNCHANGED <<spc, sid, srows, tmp, mpc, mid, mtmp, warm, versions>>
      /\ hot' = [hot EXCEPT ![id] = NoFile]
      /\ reaped' = reaped \cup {id}
  BY DEF Delete, sealVars, migrateVars
<1>2. DOMAIN hot' = Blocks /\ hot'[id] = NoFile /\ \A x \in Blocks \ {id} : hot'[x] = hot[x]
  BY <1>1 DEF FileInv
<1> HIDE DEF NoFile
<1> QED BY <1>1, <1>2 DEF FileInv

\* Migrate copies a whole file, and deletes the source once the copy is in place.
LEMMA MigrateInv ==
  ASSUME FileInv, Migrate
  PROVE  FileInv' /\ UNCHANGED versions
<1> HIDE DEF NoFile
<1>1. ASSUME NEW id \in Blocks, MigrateCopy(id) PROVE FileInv' /\ UNCHANGED versions
  <2>1. /\ UNCHANGED <<spc, sid, srows, tmp, hot, warm, versions, reaped>>
        /\ hot[id] # NoFile /\ mpc' = "copied" /\ mid' = id
        /\ mtmp' = Synced(hot[id].sections)
    BY <1>1 DEF MigrateCopy, sealVars, tierVars, historyVars
  <2>2. hot[id] \in Whole(versions[id])
    BY <2>1 DEF FileInv
  <2>3. mtmp' \in Whole(versions[id])
    BY <2>1, <2>2, WholeFile
  <2> QED BY <2>1, <2>3 DEF FileInv
<1>2. ASSUME MigratePut PROVE FileInv' /\ UNCHANGED versions
  <2>1. /\ UNCHANGED <<spc, sid, srows, tmp, mid, hot, versions, reaped>>
        /\ mpc = "copied" /\ mpc' = "put"
        /\ warm' = [warm EXCEPT ![mid] = mtmp]
    BY <1>2 DEF MigratePut, sealVars, historyVars
  <2>2. mid \in Blocks /\ mtmp \in Whole(versions[mid]) /\ DOMAIN warm = Blocks
    BY <2>1 DEF FileInv
  <2>3. DOMAIN warm' = Blocks /\ warm'[mid] = mtmp /\ \A x \in Blocks \ {mid} : warm'[x] = warm[x]
    BY <2>1, <2>2
  <2> QED BY <2>1, <2>2, <2>3 DEF FileInv
<1>3. ASSUME MigratePutFails \/ MigrateDeleteFails PROVE FileInv' /\ UNCHANGED versions
  <2>1. /\ UNCHANGED <<spc, sid, srows, tmp, hot, warm, versions, reaped>>
        /\ mpc' = "idle" /\ mid' = Min(Blocks)
    BY <1>3 DEF MigratePutFails, MigrateDeleteFails, MigrateEnd, SourceKept, sealVars
  <2> QED BY <2>1, FirstBlock DEF FileInv
<1>4. ASSUME MigrateDelete PROVE FileInv' /\ UNCHANGED versions
  <2>1. /\ UNCHANGED <<spc, sid, srows, tmp, warm, versions, reaped>>
        /\ mpc = "put" /\ mpc' = "idle" /\ mid' = Min(Blocks)
        /\ hot' = [hot EXCEPT ![mid] = NoFile]
    BY <1>4 DEF MigrateDelete, MigrateEnd, sealVars, historyVars
  <2>2. mid \in Blocks /\ warm[mid] \in Whole(versions[mid]) /\ DOMAIN hot = Blocks
    BY <2>1 DEF FileInv
  <2>3. DOMAIN hot' = Blocks /\ hot'[mid] = NoFile /\ \A x \in Blocks \ {mid} : hot'[x] = hot[x]
    BY <2>1, <2>2
  <2> QED BY <2>1, <2>2, <2>3, FirstBlock DEF FileInv
<1> QED BY <1>1, <1>2, <1>3, <1>4 DEF Migrate

\* A crash keeps every file under its final name, because all of them were synced.
LEMMA CrashKeepsFiles ==
  ASSUME FileInv, FileCrash
  PROVE  DOMAIN hot' = Blocks /\ \A id \in Blocks : hot'[id] = hot[id]
<1>1. DOMAIN hot' = Blocks /\ \A id \in Blocks : hot'[id] \in Remains(hot[id])
  BY DEF FileCrash
<1>2. ASSUME NEW id \in Blocks PROVE hot'[id] = hot[id]
  <2>1. hot[id].synced
    <3>1. CASE hot[id] = NoFile
      BY SMTT(30), <3>1 DEF NoFile, File
    <3>2. CASE hot[id] \in Whole(versions[id])
      BY <3>2, WholeFile
    <3> QED BY <3>1, <3>2 DEF FileInv
  <2> QED BY <2>1, <1>1 DEF Remains
<1> QED BY <1>1, <1>2

\* So a crash only ends Seal and Migrate.
LEMMA FileCrashInv ==
  ASSUME FileInv, FileCrash
  PROVE  FileInv' /\ UNCHANGED versions
<1>1. /\ UNCHANGED <<sid, warm, versions, reaped>>
      /\ spc' = "idle" /\ mpc' = "idle" /\ mid' = Min(Blocks)
  BY DEF FileCrash, SealEnd, MigrateEnd, SourceKept
<1> QED BY <1>1, CrashKeepsFiles, FirstBlock DEF FileInv
-----------------------------------------------------------------------------
(* The version put last *)

\* Nothing was put at the start.
LEMMA LastInitInv == FileInit => LastInv
<1> SUFFICES ASSUME FileInit PROVE LastInv
  OBVIOUS
<1>1. /\ DOMAIN last = Blocks /\ mpc = "idle"
      /\ \A id \in Blocks : hot[id] = NoFile /\ versions[id] = {}
  BY DEF FileInit
<1> QED BY <1>1 DEF LastInv, Live

\* Steps after which the tiers and what is known of them are the same, and Migrate
\* is where it was.
LEMMA TiersKept ==
  ASSUME LastInv, UNCHANGED <<migrateVars, tierVars>>
  PROVE  LastInv'
<1>1. UNCHANGED <<mpc, mid, mtmp, hot, warm, versions, last, reaped, crossed>>
  BY DEF migrateVars, tierVars, historyVars
<1> QED BY <1>1 DEF LastInv, Live

\* Seal puts a version, which is the last one; a Migrate of the block is crossed.
LEMMA SealPutLast ==
  ASSUME FileInv, LastInv, SealPut
  PROVE  LastInv'
<1>1. /\ spc = "synced"
      /\ UNCHANGED <<mpc, mid, mtmp, warm>>
      /\ hot' = [hot EXCEPT ![sid] = tmp]
      /\ versions' = [versions EXCEPT ![sid] = @ \cup {srows}]
      /\ last' = [last EXCEPT ![sid] = srows]
      /\ reaped' = reaped \ {sid}
      /\ crossed' = IF mpc # "idle" /\ mid = sid THEN crossed \cup {sid} ELSE crossed \ {sid}
  BY DEF SealPut, migrateVars, Migrating
<1>2. /\ sid \in Blocks /\ mid \in Blocks /\ tmp \in Whole({srows})
      /\ DOMAIN hot = Blocks /\ DOMAIN versions = Blocks /\ DOMAIN last = Blocks
  BY <1>1 DEF FileInv, LastInv
<1>3. /\ DOMAIN last' = Blocks
      /\ hot'[sid] = tmp /\ last'[sid] = srows /\ srows \in versions'[sid]
      /\ \A id \in Blocks \ {sid} :
            /\ hot'[id] = hot[id] /\ versions'[id] = versions[id] /\ last'[id] = last[id]
            /\ (id \in crossed' <=> id \in crossed) /\ (id \in reaped' <=> id \in reaped)
  BY <1>1, <1>2
<1>4. mpc # "idle" /\ mid = sid => sid \in crossed'
  BY <1>1
<1>5. hot'[sid] \in Whole({last'[sid]})
  BY <1>2, <1>3
<1> HIDE DEF NoFile
<1>6. CASE mid = sid
  BY <1>1, <1>2, <1>3, <1>4, <1>5, <1>6 DEF LastInv, Live
<1>7. CASE mid # sid
  BY <1>1, <1>2, <1>3, <1>5, <1>7 DEF LastInv, Live
<1> QED BY <1>6, <1>7

\* A block that the reaper deletes is no longer asked for.
LEMMA DeleteLast ==
  ASSUME FileInv, LastInv, NEW id \in Blocks, Delete(id)
  PROVE  LastInv'
<1>1. /\ UNCHANGED <<mpc, mid, mtmp, warm, versions, last, crossed>>
      /\ hot' = [hot EXCEPT ![id] = NoFile]
      /\ reaped' = reaped \cup {id}
  BY DEF Delete, migrateVars
<1>2. hot'[id] = NoFile /\ \A x \in Blocks \ {id} : hot'[x] = hot[x]
  BY <1>1 DEF FileInv
<1>3. mid \in Blocks
  BY DEF FileInv
<1> HIDE DEF NoFile
<1> QED BY <1>1, <1>2, <1>3 DEF LastInv, Live

\* Migrate ends before it deletes, or the machine does: what is in the hot tier
\* stays there.
LEMMA SourceKeptLast ==
  ASSUME FileInv, LastInv, SourceKept, MigrateEnd, UNCHANGED warm,
         \A id \in Blocks : hot'[id] = hot[id]
  PROVE  LastInv'
<1>1. /\ UNCHANGED <<versions, last, reaped>> /\ mpc' = "idle"
      /\ crossed' = {id \in crossed : ~(mpc # "idle" /\ mid = id)}
  BY DEF SourceKept, MigrateEnd, Migrating
<1>2. ASSUME NEW id \in Blocks, Live(id), id \notin crossed'
      PROVE  hot[id] \in Whole({last[id]}) \/ warm[id] \in Whole({last[id]})
  <2>1. CASE id \notin crossed
    BY <1>2, <2>1 DEF LastInv
  <2>2. CASE id \in crossed
    <3>1. mpc # "idle" /\ mid = id
      BY <1>1, <1>2, <2>2
    <3> QED BY <3>1, <1>2, <2>2 DEF LastInv, Live
  <2> QED BY <2>1, <2>2
<1> QED BY <1>1, <1>2 DEF LastInv, Live

\* Migrate copies the version put last, and deletes the source once that copy is
\* in place.
LEMMA MigrateLast ==
  ASSUME FileInv, LastInv, Migrate
  PROVE  LastInv'
<1> HIDE DEF NoFile
<1>1. ASSUME NEW id \in Blocks, MigrateCopy(id) PROVE LastInv'
  <2>1. /\ UNCHANGED <<hot, warm, versions, last, reaped, crossed>>
        /\ hot[id] # NoFile /\ mpc' = "copied" /\ mid' = id
        /\ mtmp' = Synced(hot[id].sections)
    BY <1>1 DEF MigrateCopy, tierVars, historyVars
  <2>2. hot[id] \in Whole({last[id]})
    BY <2>1 DEF LastInv
  <2>3. mtmp' \in Whole({last[id]})
    BY <2>1, <2>2, WholeFile
  <2> QED BY <2>1, <2>2, <2>3 DEF LastInv, Live
<1>2. ASSUME MigratePut PROVE LastInv'
  <2>1. /\ UNCHANGED <<mid, hot, versions, last, reaped, crossed>>
        /\ mpc = "copied" /\ mpc' = "put"
        /\ warm' = [warm EXCEPT ![mid] = mtmp]
    BY <1>2 DEF MigratePut, historyVars
  <2>2. mid \in Blocks /\ (mid \notin crossed => mtmp \in Whole({last[mid]}))
    BY <2>1 DEF FileInv, LastInv
  <2>3. warm'[mid] = mtmp /\ \A x \in Blocks \ {mid} : warm'[x] = warm[x]
    BY <2>1, <2>2 DEF FileInv
  <2> QED BY <2>1, <2>2, <2>3 DEF LastInv, Live
<1>3. ASSUME MigratePutFails \/ MigrateDeleteFails PROVE LastInv'
  BY <1>3, SourceKeptLast DEF MigratePutFails, MigrateDeleteFails
<1>4. ASSUME MigrateDelete PROVE LastInv'
  <2>1. /\ UNCHANGED <<warm, versions, last, reaped, crossed>>
        /\ mpc = "put" /\ mpc' = "idle"
        /\ hot' = [hot EXCEPT ![mid] = NoFile]
    BY <1>4 DEF MigrateDelete, MigrateEnd, historyVars
  <2>2. mid \in Blocks /\ (mid \notin crossed => warm[mid] \in Whole({last[mid]}))
    BY <2>1 DEF FileInv, LastInv
  <2>3. hot'[mid] = NoFile /\ \A x \in Blocks \ {mid} : hot'[x] = hot[x]
    BY <2>1, <2>2 DEF FileInv
  <2> QED BY <2>1, <2>2, <2>3 DEF LastInv, Live
<1> QED BY <1>1, <1>2, <1>3, <1>4 DEF Migrate

\* A step of the files.
LEMMA LastStep ==
  ASSUME FileInv, LastInv, FileNext
  PROVE  LastInv'
<1>1. ASSUME Seal PROVE LastInv'
  <2>1. CASE SealPut
    BY <2>1, SealPutLast
  <2>2. CASE SealFails \/ \E id \in Blocks, rows \in Batches : SealWrite(id, rows)
    <3>1. UNCHANGED <<migrateVars, tierVars>>
      BY <2>2 DEF SealWrite, SealFails
    <3> QED BY <3>1, TiersKept
  <2> QED BY <1>1, <2>1, <2>2 DEF Seal
<1> QED BY <1>1, MigrateLast, DeleteLast DEF FileNext

\* The rows read from a whole file are those of one of the versions.
LEMMA WholeFileRows ==
  ASSUME NEW vs \in SUBSET Batches, NEW file \in Whole(vs)
  PROVE  \E rows \in RowsOf(file.sections) : \E version \in vs :
            SameRows(rows, DOMAIN rows, version, DOMAIN version)
<1>1. PICK version \in vs : \E mt \in Sort(Memtable(version)) : file.sections = BlockImage(mt)
  BY WholeFile
<1>2. PICK mt \in Sort(Memtable(version)) : file.sections = BlockImage(mt)
  BY <1>1
<1>3. version \in Batches
  OBVIOUS
<1>4. PICK p : IsOrder(version, mt, p)
  BY <1>3, SortOrders
<1> DEFINE c == FilterOf(mt)
           read == [i \in DOMAIN c.keyHashes |->
                      [keyHash |-> c.keyHashes[i], timestamp |-> c.timestamps[i],
                       payload |-> mt.payloads[i]]]
<1>5. read \in RowsOf(file.sections)
  <2>1. /\ DecodeFooter(BlockImage(mt)) = {BlockFooter(mt)}
        /\ ReadFilterColumns(BlockImage(mt), BlockFooter(mt)) = {c}
        /\ ReadPayloads(BlockImage(mt), BlockFooter(mt)) = {mt.payloads}
    BY <1>3, SealedFileDecodes
  <2> HIDE DEF c
  <2> QED BY SMTT(30), <1>2, <2>1 DEF RowsOf
<1>6. version \in Seq(Event)
  BY <1>3, BatchesAssumption
<1>7. DOMAIN version = 1..Len(version) /\ Len(version) \in Nat
        /\ \A i \in DOMAIN version : version[i] \in Event
  BY SMTT(30), <1>6
<1>8. p \in Bijection(DOMAIN version, DOMAIN version)
  BY <1>4 DEF IsOrder
<1>9. \A i \in DOMAIN version : p[i] \in DOMAIN version
  BY <1>8 DEF Bijection, Injection
<1>10. DOMAIN read = DOMAIN version
  BY <1>4 DEF IsOrder, FilterOf
<1>11. ASSUME NEW i \in DOMAIN version PROVE read[i] = version[p[i]]
  <2>1. read[i] = [keyHash |-> mt.keyHashes[i], timestamp |-> mt.timestamps[i], payload |-> mt.payloads[i]]
    BY <1>10 DEF FilterOf
  <2>2. /\ mt.keyHashes[i] = version[p[i]].keyHash
        /\ mt.timestamps[i] = version[p[i]].timestamp
        /\ mt.payloads[i] = version[p[i]].payload
    BY <1>4 DEF IsOrder
  <2>3. version[p[i]] \in Event
    BY <1>7, <1>9
  <2>4. version[p[i]] = [keyHash |-> version[p[i]].keyHash, timestamp |-> version[p[i]].timestamp,
                         payload |-> version[p[i]].payload]
    BY <2>3 DEF Event
  <2> QED BY <2>1, <2>2, <2>4
<1>12. IsFiniteSet(DOMAIN version)
  BY SMTT(30), <1>7, FS_Interval
<1> HIDE DEF read
<1>13. SameRows(read, DOMAIN version, version, DOMAIN version)
  BY <1>8, <1>11, <1>12, SameRowsByBijection
<1> QED BY <1>5, <1>10, <1>13

\* BlockKept follows from the invariant: a whole file has the rows of a version.
LEMMA KeptByInv == FileInv /\ LastInv => BlockKept
<1> SUFFICES ASSUME FileInv, LastInv, NEW id \in Blocks, Live(id)
             PROVE  InATier(id, IF id \in crossed THEN versions[id] ELSE {last[id]})
  BY DEF BlockKept
<1> DEFINE vs == IF id \in crossed THEN versions[id] ELSE {last[id]}
<1>1. vs \in SUBSET Batches
  BY DEF FileInv, LastInv, Live
<1>2. PICK file \in {hot[id], warm[id]} : file \in Whole(vs)
  BY DEF FileInv, LastInv, Live
<1> HIDE DEF vs
<1>3. InATier(id, vs)
  BY <1>1, <1>2, WholeFileRows DEF InATier
<1> QED BY <1>3 DEF vs
-----------------------------------------------------------------------------
(* The readers *)

\* More versions, more answers.
LEMMA ReaderMonotone ==
  ASSUME NEW r, NEW vs, NEW ws, vs \subseteq ws, ReaderOK(r, vs)
  PROVE  ReaderOK(r, ws)
<1>1. UNION {Sort(Memtable(rows)) : rows \in vs} \subseteq UNION {Sort(Memtable(rows)) : rows \in ws}
  OBVIOUS
<1>2. Answer(r.events, vs) => Answer(r.events, ws)
  BY DEF Answer
<1> QED BY <1>1, <1>2 DEF ReaderOK

\* Steps that leave the readers alone and forget no version.
LEMMA ReadersKept ==
  ASSUME ReaderInv, UNCHANGED reader, \A id \in Blocks : versions[id] \subseteq versions'[id]
  PROVE  ReaderInv'
  BY ReaderMonotone DEF ReaderInv

\* The fields of a reader are those it was made with.
LEMMA ReaderFields ==
  ASSUME NEW pc, NEW fd, NEW match, NEW events
  PROVE  /\ Reader(pc, fd, match, events).pc = pc
         /\ Reader(pc, fd, match, events).fd = fd
         /\ Reader(pc, fd, match, events).match = match
         /\ Reader(pc, fd, match, events).events = events
  BY DEF Reader

\* One reader moves on.
LEMMA OneReader ==
  ASSUME ReaderInv, NEW id \in DOMAIN reader, NEW r, ReaderOK(r, versions[id]),
         reader' = [reader EXCEPT ![id] = r], UNCHANGED versions
  PROVE  ReaderInv'
<1>1. DOMAIN reader' = DOMAIN reader /\ reader'[id] = r
        /\ \A x \in DOMAIN reader \ {id} : reader'[x] = reader[x]
  OBVIOUS
<1> QED BY <1>1 DEF ReaderInv

\* os.Open: from here on the reader has the file, not its name.
LEMMA ReadOpenInv ==
  ASSUME FileInv, ReaderInv, NEW id \in DOMAIN reader, ReadOpen(id)
  PROVE  ReaderInv'
<1> DEFINE r == IF hot[id] = NoFile THEN Reader("failed", <<>>, {}, <<>>)
                ELSE Reader("filter", hot[id].sections, {}, <<>>)
<1>1. reader' = [reader EXCEPT ![id] = r] /\ UNCHANGED versions
  BY DEF ReadOpen, fileVars, tierVars, historyVars
<1>2. id \in Blocks
  BY DEF ReaderInv
<1>3. ReaderOK(r, versions[id])
  <2>1. CASE hot[id] = NoFile
    BY <2>1 DEF ReaderOK
  <2>2. CASE hot[id] # NoFile
    <3>1. hot[id] \in Whole(versions[id])
      BY <1>2, <2>2 DEF FileInv
    <3>2. PICK rows \in versions[id] :
            \E mt \in Sort(Memtable(rows)) : hot[id].sections = BlockImage(mt)
      BY <3>1, WholeFile
    <3>3. PICK mt \in Sort(Memtable(rows)) : hot[id].sections = BlockImage(mt)
      BY <3>2
    <3>4. r = Reader("filter", BlockImage(mt), {}, <<>>)
      BY <2>2, <3>3
    <3>5. mt \in UNION {Sort(Memtable(x)) : x \in versions[id]}
      BY <3>3
    <3> QED BY <3>4, <3>5 DEF ReaderOK
  <2> QED BY <2>1, <2>2
<1> HIDE DEF r
<1> QED BY <1>1, <1>3, OneReader

\* What a reader that is past the open has in its hands.
LEMMA OpenReader ==
  ASSUME NEW r, NEW vs \in SUBSET Batches, ReaderOK(r, vs), r.pc \in {"filter", "payload"}
  PROVE  \E rows \in vs : \E mt \in Sort(Memtable(rows)) :
            /\ r.fd = BlockImage(mt)
            /\ r.pc = "payload" => r.match = MatchIdx(FilterOf(mt))
<1>1. PICK mt \in UNION {Sort(Memtable(rows)) : rows \in vs} :
        \/ r = Reader("filter", BlockImage(mt), {}, <<>>)
        \/ r = Reader("payload", BlockImage(mt), MatchIdx(FilterOf(mt)), <<>>)
  <2>1. r # Reader("open", <<>>, {}, <<>>) /\ r # Reader("failed", <<>>, {}, <<>>)
        /\ r # Reader("done", <<>>, {}, r.events)
    BY SMTT(30), ReaderFields
  <2> QED BY <2>1 DEF ReaderOK
<1>2. PICK rows \in vs : mt \in Sort(Memtable(rows))
  BY <1>1
<1>3. r.fd = BlockImage(mt) /\ (r.pc = "payload" => r.match = MatchIdx(FilterOf(mt)))
  BY SMTT(30), <1>1, ReaderFields
<1> QED BY <1>2, <1>3

\* No row to return is an answer when none matches.
LEMMA EmptyAnswer ==
  ASSUME NEW vs \in SUBSET Batches, NEW rows \in vs, NEW mt \in Sort(Memtable(rows)),
         MatchIdx(FilterOf(mt)) = {}
  PROVE  Answer(<<>>, vs)
<1>1. PICK p : IsOrder(rows, mt, p)
  BY SortOrders
<1>2. \A i \in DOMAIN rows : ~Matches(rows[p[i]].keyHash, rows[p[i]].timestamp)
  BY <1>1, MatchesOfVersion
<1>3. p \in Bijection(DOMAIN rows, DOMAIN rows)
  BY <1>1 DEF IsOrder
<1>4. Asked(rows) = {}
  BY <1>2, <1>3 DEF Asked, Bijection, Surjection
<1>5. <<>> \in Seq(Event) /\ DOMAIN <<>> = {}
  BY SMTT(30)
<1>6. InTimeOrder(<<>>) /\ SameRows(<<>>, DOMAIN <<>>, rows, Asked(rows))
  BY <1>4, <1>5 DEF InTimeOrder, SameRows
<1> QED BY <1>5, <1>6 DEF Answer

\* The filter columns are those of the file that is open.
LEMMA ReadFilterInv ==
  ASSUME FileInv, ReaderInv, NEW id \in DOMAIN reader, ReadFilter(id)
  PROVE  ReaderInv'
<1>1. id \in Blocks /\ versions[id] \in SUBSET Batches /\ ReaderOK(reader[id], versions[id])
  BY DEF FileInv, ReaderInv
<1>2. reader[id].pc = "filter" /\ UNCHANGED versions
  BY DEF ReadFilter, fileVars, tierVars, historyVars
<1>3. PICK rows \in versions[id] : \E mt \in Sort(Memtable(rows)) : reader[id].fd = BlockImage(mt)
  BY <1>1, <1>2, OpenReader
<1>4. PICK mt \in Sort(Memtable(rows)) : reader[id].fd = BlockImage(mt)
  BY <1>3
<1>5. FilterColumns(reader[id].fd) = {FilterOf(mt)}
  BY <1>1, <1>4, SealedFileDecodes
<1> DEFINE c == FilterOf(mt)
           r == IF MatchIdx(c) = {} THEN Reader("done", <<>>, {}, <<>>)
                ELSE Reader("payload", reader[id].fd, MatchIdx(c), <<>>)
<1>6. reader' = [reader EXCEPT ![id] = r]
  BY <1>5 DEF ReadFilter
<1>7. ReaderOK(r, versions[id])
  <2>1. CASE MatchIdx(c) = {}
    <3>1. Answer(<<>>, versions[id])
      BY <1>1, <2>1, EmptyAnswer
    <3>2. r = Reader("done", <<>>, {}, <<>>)
      BY <2>1
    <3> HIDE DEF r
    <3>3. r.events = <<>>
      BY SMTT(30), <3>2, ReaderFields
    <3> QED BY <3>1, <3>2, <3>3 DEF ReaderOK
  <2>2. CASE MatchIdx(c) # {}
    <3>1. r = Reader("payload", BlockImage(mt), MatchIdx(FilterOf(mt)), <<>>)
      BY <1>4, <2>2
    <3>2. mt \in UNION {Sort(Memtable(x)) : x \in versions[id]}
      BY <1>4
    <3> QED BY <3>1, <3>2 DEF ReaderOK
  <2> QED BY <2>1, <2>2
<1> HIDE DEF r
<1> QED BY <1>2, <1>6, <1>7, OneReader

\* The payloads are those of the same file, so every row has its own.
LEMMA ReadPayloadInv ==
  ASSUME FileInv, ReaderInv, NEW id \in DOMAIN reader, ReadPayload(id)
  PROVE  ReaderInv'
<1>1. id \in Blocks /\ versions[id] \in SUBSET Batches /\ ReaderOK(reader[id], versions[id])
  BY DEF FileInv, ReaderInv
<1>2. reader[id].pc = "payload" /\ UNCHANGED versions
  BY DEF ReadPayload, ReadPayloadFrom, fileVars, tierVars, historyVars
<1>3. PICK rows \in versions[id] : \E mt \in Sort(Memtable(rows)) :
        reader[id].fd = BlockImage(mt) /\ reader[id].match = MatchIdx(FilterOf(mt))
  BY <1>1, <1>2, OpenReader
<1>4. PICK mt \in Sort(Memtable(rows)) :
        reader[id].fd = BlockImage(mt) /\ reader[id].match = MatchIdx(FilterOf(mt))
  BY <1>3
<1>5. rows \in Batches
  BY <1>1
<1>6. /\ FilterColumns(reader[id].fd) = {FilterOf(mt)}
      /\ UNION {ReadPayloads(reader[id].fd, footer) : footer \in DecodeFooter(reader[id].fd)} = {mt.payloads}
  <2>1. /\ DecodeFooter(BlockImage(mt)) = {BlockFooter(mt)}
        /\ ReadPayloads(BlockImage(mt), BlockFooter(mt)) = {mt.payloads}
        /\ FilterColumns(BlockImage(mt)) = {FilterOf(mt)}
    BY <1>5, SealedFileDecodes
  <2> QED BY <1>4, <2>1
<1>7. {i \in reader[id].match : i <= Len(mt.payloads)} = MatchIdx(FilterOf(mt))
  <2>1. PICK p : IsOrder(rows, mt, p)
    BY <1>5, SortOrders
  <2>2. rows \in Seq(Event)
    BY <1>5, BatchesAssumption
  <2>3. DOMAIN rows = 1..Len(rows) /\ Len(rows) \in Nat
    BY SMTT(30), <2>2
  <2>4. mt.payloads = [i \in 1..Len(rows) |-> rows[p[i]].payload]
    BY <2>1, <2>3 DEF IsOrder
  <2>5. Len(mt.payloads) = Len(rows)
    BY SMTT(30), <2>3, <2>4
  <2>6. MatchIdx(FilterOf(mt)) \subseteq 1..Len(rows)
    BY <1>5, <2>1, <2>3, MatchesOfVersion
  <2> QED BY SMTT(30), <1>4, <2>3, <2>5, <2>6
<1>8. PICK idx \in InOrder(MatchIdx(FilterOf(mt))) :
        reader' = [reader EXCEPT ![id] = Reader("done", <<>>, {}, EventsAt(idx, FilterOf(mt), mt.payloads))]
  BY <1>6, <1>7 DEF ReadPayload, ReadPayloadFrom
<1> DEFINE events == EventsAt(idx, FilterOf(mt), mt.payloads)
           r == Reader("done", <<>>, {}, events)
<1>9. Answer(events, versions[id])
  BY <1>5, EventsOfVersion DEF Answer, Asked
<1> HIDE DEF events
<1>10. r.events = events
  BY SMTT(30), ReaderFields
<1>11. ReaderOK(r, versions[id])
  BY <1>9, <1>10 DEF ReaderOK
<1>12. reader' = [reader EXCEPT ![id] = r]
  BY <1>8 DEF events
<1> HIDE DEF r
<1> QED BY <1>2, <1>11, <1>12, OneReader

\* A reader that has ended has an answer, or never opened a file.
LEMMA EndedReader ==
  ASSUME NEW r, NEW vs, ReaderOK(r, vs)
  PROVE  /\ r.pc = "done" => Answer(r.events, vs)
         /\ r.pc = "failed" => r.fd = <<>>
<1>1. CASE r = Reader("open", <<>>, {}, <<>>)
  <2>1. r.pc = "open"
    BY SMTT(30), <1>1, ReaderFields
  <2> QED BY <2>1
<1>2. CASE r = Reader("failed", <<>>, {}, <<>>)
  <2>1. r.pc = "failed" /\ r.fd = <<>>
    BY SMTT(30), <1>2, ReaderFields
  <2> QED BY <2>1
<1>3. CASE \E mt \in UNION {Sort(Memtable(rows)) : rows \in vs} :
             \/ r = Reader("filter", BlockImage(mt), {}, <<>>)
             \/ r = Reader("payload", BlockImage(mt), MatchIdx(FilterOf(mt)), <<>>)
  <2>1. r.pc \in {"filter", "payload"}
    BY SMTT(30), <1>3, ReaderFields
  <2> QED BY <2>1
<1>4. CASE r = Reader("done", <<>>, {}, r.events) /\ Answer(r.events, vs)
  <2>1. r.pc = "done"
    BY SMTT(30), <1>4, ReaderFields
  <2> QED BY <1>4, <2>1
<1> QED BY <1>1, <1>2, <1>3, <1>4 DEF ReaderOK

\* The answers of readers that are all done are what the merge takes.
LEMMA ResultsSorted ==
  ASSUME ReaderInv, ReadersDone, ~Failed
  PROVE  /\ DOMAIN Results \subseteq Nat
         /\ \A id \in DOMAIN Results : IsEvents(Results[id]) /\ InTimeOrder(Results[id])
<1>1. DOMAIN Results = DOMAIN reader /\ \A id \in DOMAIN reader : Results[id] = reader[id].events
  BY DEF Results
<1>2. ASSUME NEW id \in DOMAIN reader PROVE Answer(reader[id].events, versions[id])
  <2>1. ReaderOK(reader[id], versions[id]) /\ reader[id].pc = "done"
    BY DEF ReaderInv, ReadersDone, Unfinished, Failed
  <2> QED BY <2>1, EndedReader
<1>3. ASSUME NEW events \in Seq(Event) PROVE IsEvents(events)
  <2>1. \A n \in DOMAIN events : events[n] \in Event
    BY SMTT(30)
  <2>2. \A n \in DOMAIN events : events[n].timestamp \in Int
    BY <2>1 DEF Event
  <2> QED BY SMTT(30), <2>2 DEF IsEvents
<1>4. DOMAIN reader \subseteq Nat
  BY BlocksAssumption DEF ReaderInv
<1> QED BY <1>1, <1>2, <1>3, <1>4 DEF Answer

\* ReadsOneVersion and OpenedFileDecodes follow from the invariant.
LEMMA ReadersCorrect == ReaderInv => ReadsOneVersion /\ OpenedFileDecodes
<1> SUFFICES ASSUME ReaderInv PROVE ReadsOneVersion /\ OpenedFileDecodes
  OBVIOUS
<1>1. ReadsOneVersion
  <2> SUFFICES ASSUME NEW id \in DOMAIN reader, reader[id].pc = "done"
               PROVE  Answer(reader[id].events, versions[id])
    BY DEF ReadsOneVersion, Answer, Asked, InTimeOrder
  <2>1. ReaderOK(reader[id], versions[id])
    BY DEF ReaderInv
  <2> QED BY <2>1, EndedReader
<1>2. OpenedFileDecodes
  <2> SUFFICES ASSUME NEW id \in DOMAIN reader, reader[id].pc = "failed"
               PROVE  reader[id].fd = <<>>
    BY DEF OpenedFileDecodes
  <2>1. ReaderOK(reader[id], versions[id])
    BY DEF ReaderInv
  <2> QED BY <2>1, EndedReader
<1> QED BY <1>1, <1>2
-----------------------------------------------------------------------------
(* The whole read path *)

\* The inductive invariant.
ReadPathInv == FileInv /\ LastInv /\ ReaderInv /\ StreamInv

\* The versions of a block are never forgotten, and a step of the files keeps them
\* whole.
LEMMA FileStep ==
  ASSUME FileInv, FileNext
  PROVE  FileInv' /\ \A id \in Blocks : versions[id] \subseteq versions'[id]
  BY SealInv, MigrateInv, DeleteInv DEF FileNext

\* A step that leaves the files alone.
LEMMA FilesKept ==
  ASSUME FileInv, UNCHANGED fileVars
  PROVE  FileInv' /\ UNCHANGED versions
<1>1. UNCHANGED <<hot, warm, spc, sid, srows, tmp, mpc, mid, mtmp, versions, reaped>>
  BY DEF fileVars, sealVars, migrateVars, tierVars, historyVars
<1> QED BY <1>1 DEF FileInv

\* And the version put last.
LEMMA LastUnchanged ==
  ASSUME LastInv, UNCHANGED fileVars
  PROVE  LastInv'
  BY TiersKept DEF fileVars

\* No readers, nothing to show.
LEMMA NoReadersInv == (reader = NoReaders)' => ReaderInv'
  BY DEF NoReaders, ReaderInv

\* The handler starts to read, or ends with the process: nothing was sent.
LEMMA NothingSentInv ==
  ASSUME StreamInv, stage \in {"request", "read"}, stage' \in {"read", "broken"},
         UNCHANGED <<slices, pos, result, start, sent>>
  PROVE  StreamInv'
<1>1. StreamTypeOK' /\ Popped'
  BY DEF StreamInv, StreamTypeOK, Popped, Heap, TimestampOf, Top
<1>2. sent' = <<>> /\ start' = 0 /\ result' = <<>>
  BY DEF StreamInv
<1>3. OneTerminal'
  <2>1. DOMAIN sent' = {} /\ stage' # "returned"
    BY SMTT(30), <1>2
  <2> QED BY <2>1 DEF OneTerminal
<1> QED BY <1>1, <1>2, <1>3 DEF StreamInv

\* Engine.Query starts its readers.
LEMMA QueryStartInv ==
  ASSUME ReadPathInv, QueryStart
  PROVE  ReadPathInv'
<1>1. FileInv' /\ LastInv'
  BY FilesKept, LastUnchanged DEF QueryStart, ReadPathInv
<1>2. StreamInv'
  BY NothingSentInv DEF QueryStart, ReadPathInv
<1>3. ReaderInv'
  <2>1. /\ DOMAIN reader' \subseteq Blocks
        /\ \A id \in DOMAIN reader' : reader'[id] = Reader("open", <<>>, {}, <<>>)
    BY DEF QueryStart
  <2> QED BY <2>1 DEF ReaderInv, ReaderOK
<1> QED BY <1>1, <1>2, <1>3 DEF ReadPathInv

\* Engine.Query has waited for its readers: it fails if one did, and merges their
\* answers otherwise.
LEMMA QueryCollectsInv ==
  ASSUME ReadPathInv, QueryCollects
  PROVE  ReadPathInv'
<1>1. FileInv' /\ LastInv' /\ ReaderInv'
  BY FilesKept, LastUnchanged, NoReadersInv DEF QueryCollects, ReadPathInv
<1>2. StreamInv'
  <2>1. CASE Failed
    <3>1. QueryFails
      BY <2>1 DEF QueryCollects
    <3> QED BY <3>1, ErrorInv DEF QueryFails, ReadPathInv
  <2>2. CASE ~Failed
    <3>1. QueryMerges(Results) /\ ReadersDone
      BY <2>2 DEF QueryCollects
    <3>2. /\ DOMAIN Results \subseteq Nat
          /\ \A id \in DOMAIN Results : IsEvents(Results[id]) /\ InTimeOrder(Results[id])
      BY <2>2, <3>1, ResultsSorted DEF ReadPathInv
    <3> QED BY <3>1, <3>2, MergesInv DEF ReadPathInv
  <2> QED BY <2>1, <2>2
<1> QED BY <1>1, <1>2 DEF ReadPathInv

\* The process ends: its readers are gone, and so is the stream.
LEMMA CrashInv ==
  ASSUME ReadPathInv, Crash
  PROVE  ReadPathInv'
<1>1. FileInv' /\ ReaderInv'
  BY FileCrashInv, NoReadersInv DEF Crash, ReadPathInv
<1>2. LastInv'
  BY CrashKeepsFiles, SourceKeptLast DEF Crash, FileCrash, ReadPathInv
<1>3. StreamInv'
  <2>1. CASE stage = "read"
    BY <2>1, NothingSentInv DEF Crash, ReadPathInv
  <2>2. CASE stage # "read"
    <3>1. UNCHANGED streamVars
      BY <2>2 DEF Crash, streamVars
    <3> QED BY <3>1, StreamStep DEF ReadPathInv
  <2> QED BY <2>1, <2>2
<1> QED BY <1>1, <1>2, <1>3 DEF ReadPathInv

\* A step of a reader leaves the files and the stream alone.
LEMMA ReadBlockInv ==
  ASSUME ReadPathInv, NEW id \in DOMAIN reader, ReadBlock(id)
  PROVE  ReadPathInv'
<1>1. UNCHANGED fileVars /\ UNCHANGED streamVars
  BY DEF ReadBlock, ReadOpen, ReadFilter, ReadPayload, ReadPayloadFrom
<1>2. FileInv' /\ LastInv' /\ StreamInv'
  BY <1>1, FilesKept, LastUnchanged, StreamStep DEF ReadPathInv
<1>3. ReaderInv'
  BY ReadOpenInv, ReadFilterInv, ReadPayloadInv DEF ReadBlock, ReadPathInv
<1> QED BY <1>2, <1>3 DEF ReadPathInv

\* Every reachable state of the read path, whatever Seal, the reaper, Migrate and
\* crashes do meanwhile, has whole files, readers that hold one version each, and
\* a stream that has what was merged (BlockFile, ReadPath, QueryStream).
THEOREM ReadPathInvariant == Spec => []ReadPathInv
<1>1. Init => ReadPathInv
  <2> SUFFICES ASSUME Init PROVE ReadPathInv
    OBVIOUS
  <2>1. ReaderInv
    BY DEF Init, NoReaders, ReaderInv
  <2> QED BY <2>1, FileInitInv, LastInitInv, StreamInitInv DEF Init, ReadPathInv
<1>2. ReadPathInv /\ [Next]_vars => ReadPathInv'
  <2> SUFFICES ASSUME ReadPathInv, [Next]_vars PROVE ReadPathInv'
    OBVIOUS
  <2>1. CASE FileNext /\ UNCHANGED readVars
    <3>1. UNCHANGED reader /\ UNCHANGED streamVars
      BY <2>1 DEF readVars
    <3>2. FileInv' /\ \A id \in Blocks : versions[id] \subseteq versions'[id]
      BY <2>1, FileStep DEF ReadPathInv
    <3>3. ReaderInv'
      BY <3>1, <3>2, ReadersKept DEF ReadPathInv
    <3>4. LastInv' /\ StreamInv'
      BY <2>1, <3>1, LastStep, StreamStep DEF ReadPathInv
    <3> QED BY <3>2, <3>3, <3>4 DEF ReadPathInv
  <2>2. CASE UNCHANGED <<fileVars, reader>> /\ (Stream \/ UNCHANGED streamVars)
    <3>1. UNCHANGED fileVars /\ UNCHANGED reader
      BY <2>2
    <3>2. FileInv' /\ UNCHANGED versions
      BY <3>1, FilesKept DEF ReadPathInv
    <3>3. ReaderInv'
      BY <3>1, <3>2, ReadersKept DEF ReadPathInv
    <3>4. LastInv' /\ StreamInv'
      BY <2>2, <3>1, LastUnchanged, StreamStep DEF ReadPathInv
    <3> QED BY <3>2, <3>3, <3>4 DEF ReadPathInv
  <2>3. CASE QueryStart
    BY <2>3, QueryStartInv
  <2>4. CASE QueryCollects
    BY <2>4, QueryCollectsInv
  <2>5. CASE Crash
    BY <2>5, CrashInv
  <2>6. CASE \E id \in DOMAIN reader : ReadBlock(id)
    BY <2>6, ReadBlockInv
  <2>7. CASE UNCHANGED vars
    BY <2>2, <2>7 DEF vars, readVars
  <2> QED BY <2>1, <2>2, <2>3, <2>4, <2>5, <2>6, <2>7 DEF Next
<1> QED BY <1>1, <1>2, PTL DEF Spec

\* Of a block that was sealed and not reaped, the memtable sealed last is whole in
\* one tier, in every state, unless it was sealed while Migrate moved the block:
\* LocalStore.Migrate deletes the source after the copy, and Seal and Migrate sync
\* what they rename.
THEOREM BlocksKept == Spec => []BlockKept
<1>1. ReadPathInv => BlockKept
  BY KeptByInv DEF ReadPathInv
<1> QED BY <1>1, ReadPathInvariant, PTL

\* ReadBlock returns the matching rows of one version of its block, in the order
\* of timestamps, although it reads in several steps.
THEOREM ReadersReadOneVersion == Spec => []ReadsOneVersion
<1>1. ReadPathInv => ReadsOneVersion
  BY ReadersCorrect DEF ReadPathInv
<1> QED BY <1>1, ReadPathInvariant, PTL

\* ReadBlock accepts every file it can open.
THEOREM OpenedFilesDecode == Spec => []OpenedFileDecodes
<1>1. ReadPathInv => OpenedFileDecodes
  BY ReadersCorrect DEF ReadPathInv
<1> QED BY <1>1, ReadPathInvariant, PTL

\* MergeEvents returns every row of every slice once and in order.
THEOREM MergesInOrder == Spec => []MergedInOrder
<1>1. ReadPathInv => MergedInOrder
  BY MergeCorrect DEF ReadPathInv
<1> QED BY <1>1, ReadPathInvariant, PTL

\* QueryServer.Query sends one terminal response, the last, and before it all
\* merged events.
THEOREM StreamsOneTerminal == Spec => []OneTerminal
<1>1. ReadPathInv => OneTerminal
  BY DEF ReadPathInv, StreamInv
<1> QED BY <1>1, ReadPathInvariant, PTL
=============================================================================
