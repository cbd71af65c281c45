-------------------------- MODULE MetaStore_lemmas --------------------------
(***************************************************************************)
(* What the functions of internal/meta that read return, for any number of *)
(* values of a byte and any shards, hashes, hours and numbers that fit     *)
(* their widths: big-endian numbers are in the order of the numbers, every *)
(* key is read back as it was made, every range holds the keys it is meant *)
(* to hold, and so a shard sees its own keys and nothing else.             *)
(***************************************************************************)
EXTENDS MetaStore, TLAPS

\* A leaf that names no prover is one for Zenon.
USE ZenonT(120)
-----------------------------------------------------------------------------
(* Numbers *)

\* Quotient and remainder.
LEMMA Split ==
  ASSUME NEW m \in Nat, m # 0, NEW n \in Nat
  PROVE  n = m * (n \div m) + (n % m) /\ n \div m \in Nat /\ n % m \in Nat /\ n % m < m
  BY SMTT(30)

\* A product is larger than what its factors exceed.
LEMMA Products ==
  ASSUME NEW m \in Nat, NEW x \in Nat, NEW y \in Nat, x < y
  PROVE  m * x + m <= m * y /\ m * x \in Nat /\ m * y \in Nat
<1>1. PICK d \in Nat : y = x + 1 + d
  <2>1. y - x - 1 \in Nat /\ y = x + 1 + (y - x - 1)
    BY SMTT(30)
  <2> QED BY <2>1
<1>2. m * y = m * x + m + m * d /\ m * d \in Nat
  BY SMTT(30), <1>1
<1> QED BY SMTT(30), <1>2

\* Numbers are in the order of their quotients, then of their remainders.
LEMMA QuotientOrder ==
  ASSUME NEW m \in Nat, m # 0, NEW a \in Nat, NEW b \in Nat
  PROVE  a < b <=> \/ a \div m < b \div m
                   \/ a \div m = b \div m /\ a % m < b % m
<1> DEFINE x == a \div m
           y == b \div m
           r == a % m
           s == b % m
<1>1. /\ a = m * x + r /\ x \in Nat /\ r \in Nat /\ r < m
      /\ b = m * y + s /\ y \in Nat /\ s \in Nat /\ s < m
  BY Split
<1> HIDE DEF x, y, r, s
<1>2. CASE x < y
  <2>1. m * x + m <= m * y /\ m * x \in Nat /\ m * y \in Nat
    BY <1>1, <1>2, Products
  <2> QED BY SMTT(30), <1>1, <1>2, <2>1 DEF x, y, r, s
<1>3. CASE y < x
  <2>1. m * y + m <= m * x /\ m * x \in Nat /\ m * y \in Nat
    BY <1>1, <1>3, Products
  <2> QED BY SMTT(30), <1>1, <1>3, <2>1 DEF x, y, r, s
<1>4. CASE x = y
  <2>1. m * x = m * y /\ m * x \in Nat
    BY SMTT(30), <1>1, <1>4
  <2> QED BY SMTT(30), <1>1, <1>4, <2>1 DEF x, y, r, s
<1> QED BY SMTT(30), <1>1, <1>2, <1>3, <1>4

\* The quotient of a number below a product.
LEMMA QuotientBound ==
  ASSUME NEW m \in Nat, m # 0, NEW k \in Nat, NEW n \in Nat, n < k * m
  PROVE  n \div m < k
<1> DEFINE x == n \div m
<1>1. n = m * x + (n % m) /\ x \in Nat /\ n % m \in Nat
  BY Split
<1> HIDE DEF x
<1>2. CASE x < k
  BY <1>2 DEF x
<1>3. CASE k < x
  <2>1. m * k + m <= m * x /\ m * k \in Nat /\ m * x \in Nat
    BY <1>1, <1>3, Products
  <2>2. k * m = m * k
    BY SMTT(30)
  <2> QED BY SMTT(30), <1>1, <2>1, <2>2
<1>4. CASE k = x
  <2>1. m * k = m * x /\ k * m = m * k /\ m * x \in Nat
    BY SMTT(30), <1>1, <1>4
  <2> QED BY SMTT(30), <1>1, <2>1
<1> QED BY SMTT(30), <1>1, <1>2, <1>3, <1>4

\* There are enough numbers of each width.
LEMMA WidthsType ==
  /\ Base \in Nat /\ Base >= 2
  /\ Values16 \in Nat /\ Values16 >= 4
  /\ Values32 \in Nat /\ Values32 >= 16
  /\ Values64 \in Nat /\ Values64 >= 256
<1>1. \A m, a \in Nat : m >= a => m * m \in Nat /\ m * m >= a * a
  <2> SUFFICES ASSUME NEW m \in Nat, NEW a \in Nat, m >= a
               PROVE  m * m \in Nat /\ m * m >= a * a
    OBVIOUS
  <2>1. PICK d \in Nat : m = a + d
    <3>1. m - a \in Nat /\ m = a + (m - a)
      BY SMTT(30)
    <3> QED BY <3>1
  <2>2. m * m = a * a + (2 * (a * d) + d * d) /\ a * d \in Nat /\ d * d \in Nat /\ a * a \in Nat
    BY SMTT(30), <2>1
  <2> QED BY SMTT(30), <2>2
<1>2. Base \in Nat /\ Base >= 2
  BY BaseAssumption
<1>3. Values16 \in Nat /\ Values16 >= 4
  BY SMTT(30), <1>1, <1>2 DEF Values16
<1>4. Values32 \in Nat /\ Values32 >= 16
  BY SMTT(30), <1>1, <1>3 DEF Values32
<1>5. Values64 \in Nat /\ Values64 >= 256
  BY SMTT(30), <1>1, <1>4 DEF Values64
<1> QED BY <1>2, <1>3, <1>4, <1>5
-----------------------------------------------------------------------------
(* Byte strings *)

Bytes == Seq(Nat)

\* Concatenation, by a name that hides it.
Join(s, t) == s \o t

\* The elements of a concatenation.
LEMMA JoinElements ==
  ASSUME NEW s \in Bytes, NEW t \in Bytes
  PROVE  /\ Join(s, t) \in Bytes /\ Len(Join(s, t)) = Len(s) + Len(t)
         /\ \A k \in 1..Len(s) : Join(s, t)[k] = s[k]
         /\ \A k \in 1..Len(t) : Join(s, t)[Len(s) + k] = t[k]
  BY SMTT(30) DEF Join, Bytes

\* Byte strings of the same bytes are the same.
LEMMA SameBytes ==
  ASSUME NEW s \in Bytes, NEW t \in Bytes, Len(s) = Len(t), \A k \in 1..Len(s) : s[k] = t[k]
  PROVE  s = t
  BY SMTT(30) DEF Bytes

\* Concatenation is associative.
LEMMA JoinAssoc ==
  ASSUME NEW s \in Bytes, NEW t \in Bytes, NEW u \in Bytes
  PROVE  Join(Join(s, t), u) = Join(s, Join(t, u))
  BY SMTT(30) DEF Join, Bytes

\* The empty string is its neutral element.
LEMMA JoinEmpty ==
  ASSUME NEW s \in Bytes
  PROVE  Join(s, <<>>) = s /\ <<>> \in Bytes
  BY SMTT(30) DEF Join, Bytes

\* Cutting a part out of a byte string.
LEMMA CutElements ==
  ASSUME NEW w \in Bytes, NEW i \in Nat, NEW n \in Nat, i + n <= Len(w)
  PROVE  /\ SubSeq(w, i + 1, i + n) \in Bytes /\ Len(SubSeq(w, i + 1, i + n)) = n
         /\ \A k \in 1..n : SubSeq(w, i + 1, i + n)[k] = w[i + k]
<1>1. Len(w) \in Nat /\ \A k \in 1..Len(w) : w[k] \in Nat
  BY SMTT(30) DEF Bytes
<1>2. \A k \in (i + 1)..(i + n) : w[k] \in Nat
  BY SMTT(30), <1>1
<1>3. SubSeq(w, i + 1, i + n) \in Bytes
  BY SMTT(30), <1>2 DEF Bytes
<1>4. Len(SubSeq(w, i + 1, i + n)) = n
  BY SMTT(30), <1>2
<1>5. ASSUME NEW k \in 1..n PROVE SubSeq(w, i + 1, i + n)[k] = w[i + k]
  <2>1. k \in 1..((i + n) - (i + 1) + 1) /\ (i + 1) + k - 1 = i + k
    BY SMTT(30)
  <2> QED BY SMTT(30), <1>2, <2>1
<1> QED BY <1>3, <1>4, <1>5

\* The part of a concatenation between two others.
LEMMA JoinMiddle ==
  ASSUME NEW s \in Bytes, NEW t \in Bytes, NEW u \in Bytes
  PROVE  SubSeq(Join(s, Join(t, u)), Len(s) + 1, Len(s) + Len(t)) = t
<1> DEFINE v == Join(t, u)
           w == Join(s, v)
           c == SubSeq(w, Len(s) + 1, Len(s) + Len(t))
<1>1. Len(s) \in Nat /\ Len(t) \in Nat /\ Len(u) \in Nat
  BY SMTT(30) DEF Bytes
<1>2. v \in Bytes /\ Len(v) = Len(t) + Len(u) /\ \A k \in 1..Len(t) : v[k] = t[k]
  BY JoinElements
<1> HIDE DEF v
<1>3. w \in Bytes /\ Len(w) = Len(s) + Len(v) /\ \A k \in 1..Len(v) : w[Len(s) + k] = v[k]
  BY <1>2, JoinElements
<1> HIDE DEF w
<1>4. c \in Bytes /\ Len(c) = Len(t) /\ \A k \in 1..Len(t) : c[k] = w[Len(s) + k]
  <2>1. Len(s) + Len(t) <= Len(w)
    BY SMTT(30), <1>1, <1>2, <1>3
  <2> QED BY <1>1, <1>3, <2>1, CutElements
<1> HIDE DEF c
<1>5. \A k \in 1..Len(t) : c[k] = t[k]
  <2> TAKE k \in 1..Len(t)
  <2>1. k \in 1..Len(v)
    BY SMTT(30), <1>1, <1>2
  <2> QED BY <2>1, <1>2, <1>3, <1>4
<1> QED BY <1>4, <1>5, SameBytes DEF c, w, v

\* A byte string is taken apart in one way, given the length of the first part.
LEMMA JoinInjective ==
  ASSUME NEW p \in Bytes, NEW q \in Bytes, NEW x \in Bytes, NEW y \in Bytes, Len(p) = Len(q),
         Join(p, x) = Join(q, y)
  PROVE  p = q /\ x = y
<1>1. Len(p) \in Nat /\ Len(x) \in Nat /\ Len(y) \in Nat
  BY SMTT(30) DEF Bytes
<1>2. /\ Len(Join(p, x)) = Len(p) + Len(x) /\ Len(Join(q, y)) = Len(p) + Len(y)
      /\ \A k \in 1..Len(p) : Join(p, x)[k] = p[k] /\ Join(q, y)[k] = q[k]
      /\ \A k \in 1..Len(x) : Join(p, x)[Len(p) + k] = x[k]
      /\ \A k \in 1..Len(y) : Join(q, y)[Len(p) + k] = y[k]
  <2>1. /\ Len(Join(p, x)) = Len(p) + Len(x)
        /\ \A k \in 1..Len(p) : Join(p, x)[k] = p[k]
        /\ \A k \in 1..Len(x) : Join(p, x)[Len(p) + k] = x[k]
    BY JoinElements
  <2>2. /\ Len(Join(q, y)) = Len(q) + Len(y)
        /\ \A k \in 1..Len(q) : Join(q, y)[k] = q[k]
        /\ \A k \in 1..Len(y) : Join(q, y)[Len(q) + k] = y[k]
    BY JoinElements
  <2> QED BY <2>1, <2>2
<1>3. Len(x) = Len(y)
  BY SMTT(30), <1>1, <1>2
<1>4. p = q
  BY <1>2, SameBytes
<1>5. x = y
  BY <1>2, <1>3, SameBytes
<1> QED BY <1>4, <1>5
-----------------------------------------------------------------------------
(* The order of byte strings *)

\* After the same beginning the rest decides.
LEMMA JoinBefore ==
  ASSUME NEW p \in Bytes, NEW x \in Bytes, NEW y \in Bytes
  PROVE  Before(Join(p, x), Join(p, y)) <=> Before(x, y)
<1> DEFINE a == Join(p, x)
           b == Join(p, y)
           n == Len(p)
<1>1. /\ n \in Nat /\ Len(x) \in Nat /\ Len(y) \in Nat
      /\ DOMAIN x = 1..Len(x) /\ DOMAIN y = 1..Len(y)
  BY SMTT(30) DEF Bytes
<1>2. /\ DOMAIN a = 1..(n + Len(x)) /\ DOMAIN b = 1..(n + Len(y))
      /\ \A k \in 1..n : a[k] = p[k] /\ b[k] = p[k]
      /\ \A k \in 1..Len(x) : a[n + k] = x[k]
      /\ \A k \in 1..Len(y) : b[n + k] = y[k]
  <2>1. a \in Bytes /\ b \in Bytes /\ Len(a) = n + Len(x) /\ Len(b) = n + Len(y)
    BY JoinElements
  <2>2. DOMAIN a = 1..Len(a) /\ DOMAIN b = 1..Len(b)
    BY SMTT(30), <2>1 DEF Bytes
  <2> QED BY <2>1, <2>2, JoinElements
<1> HIDE DEF a, b, n
<1>3. ASSUME Before(x, y) PROVE Before(a, b)
  <2>1. PICK i \in DOMAIN y : /\ i \in DOMAIN x => x[i] < y[i]
                              /\ \A j \in 1..(i - 1) : j \in DOMAIN x /\ x[j] = y[j]
    BY <1>3 DEF Before
  <2>2. n + i \in DOMAIN b /\ (n + i \in DOMAIN a => i \in DOMAIN x)
    BY SMTT(30), <1>1, <1>2
  <2>3. n + i \in DOMAIN a => a[n + i] < b[n + i]
    BY <1>1, <1>2, <2>1, <2>2
  <2>4. ASSUME NEW j \in 1..((n + i) - 1) PROVE j \in DOMAIN a /\ a[j] = b[j]
    <3>1. CASE j \in 1..n
      BY SMTT(30), <1>1, <1>2, <3>1
    <3>2. CASE j \notin 1..n
      <4>1. j - n \in 1..(i - 1) /\ n + (j - n) = j
        BY SMTT(30), <1>1, <3>2
      <4>2. j - n \in DOMAIN x /\ x[j - n] = y[j - n] /\ j - n \in DOMAIN y
        BY SMTT(30), <1>1, <2>1, <4>1
      <4>3. a[n + (j - n)] = x[j - n] /\ b[n + (j - n)] = y[j - n]
        BY <1>1, <1>2, <4>2
      <4>4. j \in DOMAIN a
        BY SMTT(30), <1>1, <1>2, <4>1, <4>2
      <4> QED BY <4>1, <4>2, <4>3, <4>4
    <3> QED BY <3>1, <3>2
  <2> QED BY <2>2, <2>3, <2>4 DEF Before
<1>4. ASSUME Before(a, b) PROVE Before(x, y)
  <2>1. PICK i \in DOMAIN b : /\ i \in DOMAIN a => a[i] < b[i]
                              /\ \A j \in 1..(i - 1) : j \in DOMAIN a /\ a[j] = b[j]
    BY <1>4 DEF Before
  <2>2. i \notin 1..n
    <3> SUFFICES ASSUME i \in 1..n PROVE FALSE
      OBVIOUS
    <3>1. i \in DOMAIN a /\ a[i] = p[i] /\ b[i] = p[i] /\ a[i] < b[i]
      BY SMTT(30), <1>1, <1>2, <2>1
    <3>2. p[i] \in Nat
      BY SMTT(30), <1>1 DEF Bytes, n
    <3> QED BY SMTT(30), <3>1, <3>2
  <2>3. i - n \in DOMAIN y /\ n + (i - n) = i
    BY SMTT(30), <1>1, <1>2, <2>2
  <2>4. i - n \in DOMAIN x => x[i - n] < y[i - n]
    <3> SUFFICES ASSUME i - n \in DOMAIN x PROVE x[i - n] < y[i - n]
      OBVIOUS
    <3>1. i \in DOMAIN a /\ a[n + (i - n)] = x[i - n] /\ b[n + (i - n)] = y[i - n]
      BY SMTT(30), <1>1, <1>2, <2>3
    <3> QED BY <2>1, <2>3, <3>1
  <2>5. ASSUME NEW j \in 1..((i - n) - 1) PROVE j \in DOMAIN x /\ x[j] = y[j]
    <3>1. n + j \in 1..(i - 1) /\ j \in DOMAIN y
      BY SMTT(30), <1>1, <2>3
    <3>2. n + j \in DOMAIN a /\ a[n + j] = b[n + j]
      BY <2>1, <3>1
    <3>3. j \in DOMAIN x
      BY SMTT(30), <1>1, <1>2, <3>2
    <3> QED BY <1>1, <1>2, <3>1, <3>2, <3>3
  <2> QED BY <2>3, <2>4, <2>5 DEF Before
<1> QED BY <1>3, <1>4 DEF a, b

\* Beginnings of one length that differ decide.
LEMMA HeadBefore ==
  ASSUME NEW p \in Bytes, NEW q \in Bytes, NEW x \in Bytes, NEW y \in Bytes,
         Len(p) = Len(q), p # q
  PROVE  Before(Join(p, x), Join(q, y)) <=> Before(p, q)
<1> DEFINE a == Join(p, x)
           b == Join(q, y)
           n == Len(p)
<1>1. n \in Nat /\ Len(x) \in Nat /\ Len(y) \in Nat /\ DOMAIN p = 1..n /\ DOMAIN q = 1..n
  BY SMTT(30) DEF Bytes
<1>2. /\ DOMAIN a = 1..(n + Len(x)) /\ DOMAIN b = 1..(n + Len(y))
      /\ \A k \in 1..n : a[k] = p[k] /\ b[k] = q[k]
  <2>1. a \in Bytes /\ Len(a) = n + Len(x) /\ \A k \in 1..n : a[k] = p[k]
    BY JoinElements
  <2>2. b \in Bytes /\ Len(b) = Len(q) + Len(y) /\ \A k \in 1..Len(q) : b[k] = q[k]
    BY JoinElements
  <2>3. DOMAIN a = 1..Len(a) /\ DOMAIN b = 1..Len(b)
    BY SMTT(30), <2>1, <2>2 DEF Bytes
  <2> HIDE DEF a, b
  <2> QED BY <2>1, <2>2, <2>3
<1> HIDE DEF a, b
<1>3. ASSUME Before(p, q) PROVE Before(a, b)
  <2> HIDE DEF n
  <2>1. PICK i \in DOMAIN q : /\ i \in DOMAIN p => p[i] < q[i]
                              /\ \A j \in 1..(i - 1) : j \in DOMAIN p /\ p[j] = q[j]
    BY <1>3 DEF Before
  <2>2. i \in 1..n /\ i \in DOMAIN b /\ a[i] < b[i]
    BY SMTT(30), <1>1, <1>2, <2>1
  <2>3. \A j \in 1..(i - 1) : j \in DOMAIN a /\ a[j] = b[j]
    BY SMTT(30), <1>1, <1>2, <2>1, <2>2
  <2> QED BY <2>2, <2>3 DEF Before
<1>4. ASSUME Before(a, b) PROVE Before(p, q)
  <2>1. PICK i \in DOMAIN b : /\ i \in DOMAIN a => a[i] < b[i]
                              /\ \A j \in 1..(i - 1) : j \in DOMAIN a /\ a[j] = b[j]
    BY <1>4 DEF Before
  <2>2. i \in 1..n
    <3> SUFFICES ASSUME i \notin 1..n PROVE FALSE
      OBVIOUS
    <3>1. \A j \in 1..n : j \in 1..(i - 1)
      BY SMTT(30), <1>1, <1>2
    <3>2. \A j \in 1..n : p[j] = q[j]
      BY <1>2, <2>1, <3>1
    <3> QED BY <3>2, SameBytes
  <2> HIDE DEF n
  <2>3. p[i] < q[i] /\ \A j \in 1..(i - 1) : p[j] = q[j] /\ j \in 1..n
    BY SMTT(30), <1>1, <1>2, <2>1, <2>2
  <2> QED BY <1>1, <2>2, <2>3 DEF Before
<1> QED BY <1>3, <1>4 DEF a, b

\* The empty string comes first, and no string comes before itself.
LEMMA BeforeEmpty ==
  ASSUME NEW x \in Bytes
  PROVE  ~Before(x, <<>>) /\ ~Before(x, x)
<1>1. DOMAIN x = 1..Len(x) /\ Len(x) \in Nat /\ \A i \in DOMAIN x : x[i] \in Nat
  BY SMTT(30) DEF Bytes
<1>2. ~Before(x, x)
  BY SMTT(30), <1>1 DEF Before
<1>3. ~Before(x, <<>>)
  BY SMTT(30) DEF Before
<1> QED BY <1>2, <1>3

\* The first parts decide, then the rest.
LEMMA JoinOrder ==
  ASSUME NEW p \in Bytes, NEW q \in Bytes, NEW x \in Bytes, NEW y \in Bytes, Len(p) = Len(q)
  PROVE  Before(Join(p, x), Join(q, y)) <=> \/ Before(p, q)
                                            \/ p = q /\ Before(x, y)
<1>1. CASE p = q
  <2>1. ~Before(p, q)
    BY <1>1, BeforeEmpty
  <2> QED BY <1>1, <2>1, JoinBefore
<1>2. CASE p # q
  BY <1>2, HeadBefore
<1> QED BY <1>1, <1>2

\* The two parts of a byte string.
LEMMA JoinParts ==
  ASSUME NEW s \in Bytes, NEW t \in Bytes
  PROVE  /\ SubSeq(Join(s, t), 1, Len(s)) = s
         /\ SubSeq(Join(s, t), Len(s) + 1, Len(s) + Len(t)) = t
<1>1. Len(s) \in Nat /\ Len(t) \in Nat
  BY SMTT(30) DEF Bytes
<1>2. SubSeq(Join(s, t), Len(s) + 1, Len(s) + Len(t)) = t
  <2>1. <<>> \in Bytes /\ Join(t, <<>>) = t
    BY JoinEmpty
  <2> QED BY SMTT(30), <2>1, JoinMiddle
<1>3. SubSeq(Join(s, t), 1, Len(s)) = s
  <2> DEFINE w == Join(s, t)
             c == SubSeq(w, 1, Len(s))
  <2>1. w \in Bytes /\ \A k \in 1..Len(s) : w[k] = s[k]
    BY JoinElements
  <2>2. \A k \in 1..Len(s) : s[k] \in Nat
    BY SMTT(30) DEF Bytes
  <2> HIDE DEF w
  <2>3. \A k \in 1..Len(s) : w[k] \in Nat
    BY <2>1, <2>2
  <2>4. c \in Bytes
    BY SMTT(30), <1>1, <2>3 DEF Bytes
  <2>5. Len(c) = Len(s)
    BY SMTT(30), <1>1, <2>3
  <2>6. ASSUME NEW k \in 1..Len(s) PROVE c[k] = s[k]
    <3>1. k \in 1..(Len(s) - 1 + 1) /\ 1 + k - 1 = k
      BY SMTT(30), <1>1
    <3>2. c[k] = w[1 + k - 1]
      BY SMTT(30), <1>1, <2>3, <3>1
    <3> QED BY <2>1, <3>1, <3>2
  <2> HIDE DEF c
  <2> QED BY <2>4, <2>5, <2>6, SameBytes DEF c, w
<1> QED BY <1>2, <1>3

\* Strings of one and of two bytes.
LEMMA ShortStrings ==
  ASSUME NEW a \in Nat, NEW b \in Nat
  PROVE  /\ <<a>> \in Bytes /\ Len(<<a>>) = 1 /\ <<a>>[1] = a
         /\ <<a, b>> \in Bytes /\ Len(<<a, b>>) = 2 /\ <<a, b>>[1] = a /\ <<a, b>>[2] = b
  BY SMTT(30) DEF Bytes

\* Short strings are in the order of their first bytes, then of their second.
LEMMA ShortOrder ==
  ASSUME NEW a \in Nat, NEW b \in Nat, NEW c \in Nat, NEW d \in Nat
  PROVE  /\ Before(<<a>>, <<c>>) <=> a < c
         /\ Before(<<a, b>>, <<c, d>>) <=> a < c \/ (a = c /\ b < d)
<1>1. /\ DOMAIN <<a>> = {1} /\ DOMAIN <<c>> = {1} /\ <<a>>[1] = a /\ <<c>>[1] = c
      /\ 1..(1 - 1) = {}
  BY SMTT(30)
<1>2. Before(<<a>>, <<c>>) <=> a < c
  BY <1>1 DEF Before
<1>3. /\ DOMAIN <<a, b>> = {1, 2} /\ DOMAIN <<c, d>> = {1, 2}
      /\ <<a, b>>[1] = a /\ <<c, d>>[1] = c /\ <<a, b>>[2] = b /\ <<c, d>>[2] = d
      /\ 1..(2 - 1) = {1}
  BY SMTT(30)
<1>4. Before(<<a, b>>, <<c, d>>) <=>
         \/ (1 \in {1, 2} => a < c) /\ \A j \in {} : j \in {1, 2} /\ <<a, b>>[j] = <<c, d>>[j]
         \/ (2 \in {1, 2} => b < d) /\ \A j \in {1} : j \in {1, 2} /\ <<a, b>>[j] = <<c, d>>[j]
  BY <1>1, <1>3 DEF Before
<1>5. Before(<<a, b>>, <<c, d>>) <=> a < c \/ (a = c /\ b < d)
  BY <1>3, <1>4
<1> QED BY <1>2, <1>5

\* Big-endian numbers of two bytes: read back, and in their order.
LEMMA Put16 ==
  ASSUME NEW n \in Nat
  PROVE  PutUint16(n) \in Bytes /\ Len(PutUint16(n)) = 2
<1>1. (n \div Base) % Base \in Nat /\ n % Base \in Nat
  BY SMTT(30), WidthsType, Split
<1> QED BY <1>1, ShortStrings DEF PutUint16

\* The digits of a number of two bytes.
LEMMA Digits ==
  ASSUME NEW n \in Nat, n < Values16
  PROVE  /\ (n \div Base) % Base = n \div Base /\ n \div Base \in Nat /\ n % Base \in Nat
         /\ n = Base * (n \div Base) + (n % Base)
<1>1. /\ n \div Base \in Nat /\ n % Base \in Nat /\ n \div Base < Base
      /\ n = Base * (n \div Base) + (n % Base)
  BY SMTT(30), WidthsType, Split, QuotientBound DEF Values16
<1> DEFINE x == n \div Base
<1>2. x % Base = x
  <2> HIDE DEF x
  <2> QED BY SMTT(30), <1>1, WidthsType DEF x
<1> QED BY <1>1, <1>2

\* Uint16 reads back what PutUint16 wrote.
LEMMA Read16 ==
  ASSUME NEW n \in Nat, n < Values16
  PROVE  Uint16(PutUint16(n)) = n
<1>1. /\ (n \div Base) % Base = n \div Base /\ n \div Base \in Nat /\ n % Base \in Nat
      /\ n = Base * (n \div Base) + (n % Base)
  BY Digits
<1>2. PutUint16(n)[1] = (n \div Base) % Base /\ PutUint16(n)[2] = n % Base
  BY DEF PutUint16
<1> QED BY <1>1, <1>2 DEF Uint16

\* The order of the bytes is the order of the numbers.
LEMMA Order16 ==
  ASSUME NEW a \in Nat, NEW b \in Nat, a < Values16, b < Values16
  PROVE  Before(PutUint16(a), PutUint16(b)) <=> a < b
<1>1. /\ (a \div Base) % Base = a \div Base /\ a \div Base \in Nat /\ a % Base \in Nat
      /\ (b \div Base) % Base = b \div Base /\ b \div Base \in Nat /\ b % Base \in Nat
  BY Digits
<1>2. PutUint16(a) = <<a \div Base, a % Base>> /\ PutUint16(b) = <<b \div Base, b % Base>>
  BY <1>1 DEF PutUint16
<1>3. Base \in Nat /\ Base # 0
  BY SMTT(30), WidthsType
<1>4. a < b <=> a \div Base < b \div Base \/ (a \div Base = b \div Base /\ a % Base < b % Base)
  BY <1>3, QuotientOrder
<1> DEFINE x == a \div Base
           y == a % Base
           u == b \div Base
           v == b % Base
<1> HIDE DEF x, y, u, v
<1>5. Before(<<x, y>>, <<u, v>>) <=> x < u \/ (x = u /\ y < v)
  BY <1>1, ShortOrder DEF x, y, u, v
<1> QED BY <1>2, <1>4, <1>5 DEF x, y, u, v

\* The halves of a number of twice the width.
LEMMA Halves ==
  ASSUME NEW m \in Nat, m # 0, NEW n \in Nat
  PROVE  /\ n \div m \in Nat /\ n % m \in Nat /\ n % m < m
         /\ n = m * (n \div m) + (n % m)
         /\ n < m * m => n \div m < m
  BY Split, QuotientBound

\* Numbers of four bytes.
LEMMA Put32 ==
  ASSUME NEW n \in Nat
  PROVE  /\ PutUint32(n) \in Bytes /\ Len(PutUint32(n)) = 4
         /\ PutUint32(n) = Join(PutUint16(n \div Values16), PutUint16(n % Values16))
<1>1. n \div Values16 \in Nat /\ n % Values16 \in Nat
  BY SMTT(30), Halves, WidthsType
<1>2. PutUint32(n) = Join(PutUint16(n \div Values16), PutUint16(n % Values16))
  BY DEF PutUint32, Join
<1>3. /\ PutUint16(n \div Values16) \in Bytes /\ Len(PutUint16(n \div Values16)) = 2
      /\ PutUint16(n % Values16) \in Bytes /\ Len(PutUint16(n % Values16)) = 2
  BY <1>1, Put16
<1> DEFINE x == PutUint16(n \div Values16)
           y == PutUint16(n % Values16)
<1> HIDE DEF x, y
<1>4. Join(x, y) \in Bytes /\ Len(Join(x, y)) = Len(x) + Len(y)
  BY <1>3, JoinElements DEF x, y
<1>5. Len(Join(x, y)) = 4
  <2>1. Len(x) = 2 /\ Len(y) = 2
    BY <1>3 DEF x, y
  <2> QED BY SMTT(30), <1>4, <2>1
<1> QED BY <1>2, <1>4, <1>5 DEF x, y

\* Uint32 reads back what PutUint32 wrote.
LEMMA Read32 ==
  ASSUME NEW n \in Nat, n < Values32
  PROVE  Uint32(PutUint32(n)) = n
<1> DEFINE x == n \div Values16
           y == n % Values16
<1>1. x \in Nat /\ y \in Nat /\ y < Values16 /\ n = Values16 * x + y /\ x < Values16
  BY SMTT(30), Halves, WidthsType DEF Values32
<1>2. PutUint32(n) = Join(PutUint16(x), PutUint16(y))
  BY Put32
<1> HIDE DEF x, y
<1>3. /\ PutUint16(x) \in Bytes /\ Len(PutUint16(x)) = 2
      /\ PutUint16(y) \in Bytes /\ Len(PutUint16(y)) = 2
  BY <1>1, Put16
<1>4. Len(PutUint16(x)) + 1 = 3 /\ Len(PutUint16(x)) + Len(PutUint16(y)) = 4
  BY SMTT(30), <1>3
<1>5. SubSeq(PutUint32(n), 1, 2) = PutUint16(x)
  <2> DEFINE s == PutUint16(x)
             t == PutUint16(y)
  <2>1. SubSeq(Join(s, t), 1, Len(s)) = s
    BY <1>3, JoinParts
  <2> QED BY <1>2, <1>3, <2>1
<1>6. SubSeq(PutUint32(n), 3, 4) = PutUint16(y)
  <2> DEFINE s == PutUint16(x)
             t == PutUint16(y)
  <2>1. SubSeq(Join(s, t), Len(s) + 1, Len(s) + Len(t)) = t
    BY <1>3, JoinParts
  <2> QED BY <1>2, <1>4, <2>1
<1>7. Uint16(PutUint16(x)) = x /\ Uint16(PutUint16(y)) = y
  BY <1>1, Read16
<1> QED BY <1>1, <1>5, <1>6, <1>7 DEF Uint32

\* The order of the bytes is the order of the numbers.
LEMMA Order32 ==
  ASSUME NEW a \in Nat, NEW b \in Nat, a < Values32, b < Values32
  PROVE  Before(PutUint32(a), PutUint32(b)) <=> a < b
<1> DEFINE x == a \div Values16
           y == a % Values16
           u == b \div Values16
           v == b % Values16
<1>1. /\ x \in Nat /\ y \in Nat /\ y < Values16 /\ x < Values16
      /\ u \in Nat /\ v \in Nat /\ v < Values16 /\ u < Values16
  BY SMTT(30), Halves, WidthsType DEF Values32
<1>2. /\ PutUint32(a) = Join(PutUint16(x), PutUint16(y))
      /\ PutUint32(b) = Join(PutUint16(u), PutUint16(v))
  BY Put32
<1>3. a < b <=> x < u \/ (x = u /\ y < v)
  <2>1. Values16 \in Nat /\ Values16 # 0
    BY SMTT(30), WidthsType
  <2> QED BY <2>1, QuotientOrder
<1> HIDE DEF x, y, u, v
<1>4. /\ PutUint16(x) \in Bytes /\ PutUint16(y) \in Bytes /\ Len(PutUint16(x)) = 2
      /\ PutUint16(u) \in Bytes /\ PutUint16(v) \in Bytes /\ Len(PutUint16(u)) = 2
  BY <1>1, Put16
<1>5. PutUint16(x) = PutUint16(u) <=> x = u
  BY <1>1, Read16
<1>6. Before(PutUint32(a), PutUint32(b)) <=>
        \/ Before(PutUint16(x), PutUint16(u))
        \/ PutUint16(x) = PutUint16(u) /\ Before(PutUint16(y), PutUint16(v))
  BY SMTT(30), <1>2, <1>4, JoinOrder
<1>7. /\ Before(PutUint16(x), PutUint16(u)) <=> x < u
      /\ Before(PutUint16(y), PutUint16(v)) <=> y < v
  BY <1>1, Order16
<1> QED BY <1>3, <1>5, <1>6, <1>7

\* Numbers of eight bytes.
LEMMA Put64 ==
  ASSUME NEW n \in Nat
  PROVE  /\ PutUint64(n) \in Bytes /\ Len(PutUint64(n)) = 8
         /\ PutUint64(n) = Join(PutUint32(n \div Values32), PutUint32(n % Values32))
<1>1. n \div Values32 \in Nat /\ n % Values32 \in Nat
  BY SMTT(30), Halves, WidthsType
<1>2. PutUint64(n) = Join(PutUint32(n \div Values32), PutUint32(n % Values32))
  BY DEF PutUint64, Join
<1>3. /\ PutUint32(n \div Values32) \in Bytes /\ Len(PutUint32(n \div Values32)) = 4
      /\ PutUint32(n % Values32) \in Bytes /\ Len(PutUint32(n % Values32)) = 4
  BY <1>1, Put32
<1> DEFINE x == PutUint32(n \div Values32)
           y == PutUint32(n % Values32)
<1> HIDE DEF x, y
<1>4. Join(x, y) \in Bytes /\ Len(Join(x, y)) = Len(x) + Len(y)
  BY <1>3, JoinElements DEF x, y
<1>5. Len(Join(x, y)) = 8
  <2>1. Len(x) = 4 /\ Len(y) = 4
    BY <1>3 DEF x, y
  <2> QED BY SMTT(30), <1>4, <2>1
<1> QED BY <1>2, <1>4, <1>5 DEF x, y

\* Uint64 reads back what PutUint64 wrote.
LEMMA Read64 ==
  ASSUME NEW n \in Nat, n < Values64
  PROVE  Uint64(PutUint64(n)) = n
<1> DEFINE x == n \div Values32
           y == n % Values32
<1>1. x \in Nat /\ y \in Nat /\ y < Values32 /\ n = Values32 * x + y /\ x < Values32
  BY SMTT(30), Halves, WidthsType DEF Values64
<1>2. PutUint64(n) = Join(PutUint32(x), PutUint32(y))
  BY Put64
<1> HIDE DEF x, y
<1>3. /\ PutUint32(x) \in Bytes /\ Len(PutUint32(x)) = 4
      /\ PutUint32(y) \in Bytes /\ Len(PutUint32(y)) = 4
  BY <1>1, Put32
<1>4. Len(PutUint32(x)) + 1 = 5 /\ Len(PutUint32(x)) + Len(PutUint32(y)) = 8
  BY SMTT(30), <1>3
<1>5. SubSeq(PutUint64(n), 1, 4) = PutUint32(x)
  <2> DEFINE s == PutUint32(x)
             t == PutUint32(y)
  <2>1. SubSeq(Join(s, t), 1, Len(s)) = s
    BY <1>3, JoinParts
  <2> QED BY <1>2, <1>3, <2>1
<1>6. SubSeq(PutUint64(n), 5, 8) = PutUint32(y)
  <2> DEFINE s == PutUint32(x)
             t == PutUint32(y)
  <2>1. SubSeq(Join(s, t), Len(s) + 1, Len(s) + Len(t)) = t
    BY <1>3, JoinParts
  <2> QED BY <1>2, <1>4, <2>1
<1>7. Uint32(PutUint32(x)) = x /\ Uint32(PutUint32(y)) = y
  BY <1>1, Read32
<1> QED BY <1>1, <1>5, <1>6, <1>7 DEF Uint64

\* The order of the bytes is the order of the numbers, across every carry.
LEMMA Order64 ==
  ASSUME NEW a \in Nat, NEW b \in Nat, a < Values64, b < Values64
  PROVE  Before(PutUint64(a), PutUint64(b)) <=> a < b
<1> DEFINE x == a \div Values32
           y == a % Values32
           u == b \div Values32
           v == b % Values32
<1>1. /\ x \in Nat /\ y \in Nat /\ y < Values32 /\ x < Values32
      /\ u \in Nat /\ v \in Nat /\ v < Values32 /\ u < Values32
  BY SMTT(30), Halves, WidthsType DEF Values64
<1>2. /\ PutUint64(a) = Join(PutUint32(x), PutUint32(y))
      /\ PutUint64(b) = Join(PutUint32(u), PutUint32(v))
  BY Put64
<1>3. a < b <=> x < u \/ (x = u /\ y < v)
  <2>1. Values32 \in Nat /\ Values32 # 0
    BY SMTT(30), WidthsType
  <2> QED BY <2>1, QuotientOrder
<1> HIDE DEF x, y, u, v
<1>4. /\ PutUint32(x) \in Bytes /\ PutUint32(y) \in Bytes /\ Len(PutUint32(x)) = 4
      /\ PutUint32(u) \in Bytes /\ PutUint32(v) \in Bytes /\ Len(PutUint32(u)) = 4
  BY <1>1, Put32
<1>5. PutUint32(x) = PutUint32(u) <=> x = u
  BY <1>1, Read32
<1>6. Before(PutUint64(a), PutUint64(b)) <=>
        \/ Before(PutUint32(x), PutUint32(u))
        \/ PutUint32(x) = PutUint32(u) /\ Before(PutUint32(y), PutUint32(v))
  BY SMTT(30), <1>2, <1>4, JoinOrder
<1>7. /\ Before(PutUint32(x), PutUint32(u)) <=> x < u
      /\ Before(PutUint32(y), PutUint32(v)) <=> y < v
  BY <1>1, Order32
<1> QED BY <1>3, <1>5, <1>6, <1>7
-----------------------------------------------------------------------------
(* Keys by their names *)

\* A key: the rank of its name, the zero byte, and the rest.
Tagged(rank, rest) == Join(<<rank, 0>>, rest)

\* A key is a byte string that starts with the rank of its name.
LEMMA TaggedType ==
  ASSUME NEW a \in Nat, NEW x \in Bytes
  PROVE  /\ Tagged(a, x) \in Bytes /\ Tagged(a, x)[1] = a
         /\ Len(Tagged(a, x)) = 2 + Len(x)
<1> DEFINE t == <<a, 0>>
<1>1. t \in Bytes /\ Len(t) = 2 /\ t[1] = a
  BY ShortStrings
<1> HIDE DEF t
<1>2. Join(t, x) \in Bytes /\ Len(Join(t, x)) = Len(t) + Len(x)
        /\ \A k \in 1..Len(t) : Join(t, x)[k] = t[k]
  BY <1>1, JoinElements
<1>3. Join(t, x)[1] = a
  BY SMTT(30), <1>1, <1>2
<1> QED BY <1>1, <1>2, <1>3 DEF t, Tagged

\* Keys of one name differ when the rests do.
LEMMA TaggedInjective ==
  ASSUME NEW a \in Nat, NEW b \in Nat, NEW x \in Bytes, NEW y \in Bytes, Tagged(a, x) = Tagged(b, y)
  PROVE  a = b /\ x = y
<1>1. <<a, 0>> \in Bytes /\ Len(<<a, 0>>) = 2 /\ <<b, 0>> \in Bytes /\ Len(<<b, 0>>) = 2
  BY ShortStrings
<1>2. x = y
  BY <1>1, JoinInjective DEF Tagged
<1> QED BY <1>2, TaggedType

\* Keys are in the order of their names.
LEMMA TaggedOrder ==
  ASSUME NEW a \in Nat, NEW b \in Nat, NEW x \in Bytes, NEW y \in Bytes
  PROVE  Before(Tagged(a, x), Tagged(b, y)) <=> a < b \/ (a = b /\ Before(x, y))
<1>1. <<a, 0>> \in Bytes /\ Len(<<a, 0>>) = 2 /\ <<b, 0>> \in Bytes /\ Len(<<b, 0>>) = 2
  BY ShortStrings
<1>2. Before(Tagged(a, x), Tagged(b, y)) <=> \/ Before(<<a, 0>>, <<b, 0>>)
                                             \/ <<a, 0>> = <<b, 0>> /\ Before(x, y)
  BY <1>1, JoinOrder DEF Tagged
<1>3. Before(<<a, 0>>, <<b, 0>>) <=> a < b
  <2>1. 0 \in Nat /\ ~(0 < 0)
    BY SMTT(30)
  <2>2. Before(<<a, 0>>, <<b, 0>>) <=> a < b \/ (a = b /\ 0 < 0)
    BY <2>1, ShortOrder
  <2> QED BY <2>1, <2>2
<1>4. <<a, 0>> = <<b, 0>> <=> a = b
  OBVIOUS
<1> QED BY <1>2, <1>3, <1>4

\* The name alone, and the first string after the keys of the name.
LEMMA Prefixes ==
  ASSUME NEW r \in Nat
  PROVE  <<r, 0>> = Tagged(r, <<>>) /\ Increment(<<r, 0>>) = Join(<<r, 1>>, <<>>)
<1>1. <<r, 0>> \in Bytes /\ <<r, 1>> \in Bytes
  BY ShortStrings
<1>2. Increment(<<r, 0>>) = <<r, 1>>
  BY SMTT(30) DEF Increment
<1> QED BY <1>1, <1>2, JoinEmpty DEF Tagged

\* The scan of a name visits the keys of that name.
LEMMA NameRange ==
  ASSUME NEW r \in Nat, NEW a \in Nat, NEW x \in Bytes
  PROVE  ~Before(Tagged(a, x), <<r, 0>>) /\ Before(Tagged(a, x), Increment(<<r, 0>>)) <=> a = r
<1>1. <<>> \in Bytes
  BY JoinEmpty
<1>2. Before(Tagged(a, x), <<r, 0>>) <=> a < r
  <2>1. Before(Tagged(a, x), Tagged(r, <<>>)) <=> a < r \/ (a = r /\ Before(x, <<>>))
    BY <1>1, TaggedOrder
  <2>2. ~Before(x, <<>>)
    BY BeforeEmpty
  <2>3. <<r, 0>> = Tagged(r, <<>>)
    BY Prefixes
  <2> QED BY <2>1, <2>2, <2>3
<1>3. /\ <<a, 0>> \in Bytes /\ Len(<<a, 0>>) = 2 /\ <<r, 1>> \in Bytes /\ Len(<<r, 1>>) = 2
      /\ <<a, 0>> # <<r, 1>>
  <2>1. 0 \in Nat /\ 1 \in Nat /\ 0 # 1
    BY SMTT(30)
  <2>2. /\ <<a, 0>> \in Bytes /\ Len(<<a, 0>>) = 2 /\ <<a, 0>>[2] = 0
        /\ <<r, 1>> \in Bytes /\ Len(<<r, 1>>) = 2 /\ <<r, 1>>[2] = 1
    BY <2>1, ShortStrings
  <2> QED BY <2>1, <2>2
<1>4. Before(Tagged(a, x), Increment(<<r, 0>>)) <=> Before(<<a, 0>>, <<r, 1>>)
  BY SMTT(30), <1>1, <1>3, Prefixes, HeadBefore DEF Tagged
<1>5. Before(<<a, 0>>, <<r, 1>>) <=> a < r \/ a = r
  <2>1. 0 \in Nat /\ 1 \in Nat /\ 0 < 1
    BY SMTT(30)
  <2>2. Before(<<a, 0>>, <<r, 1>>) <=> a < r \/ (a = r /\ 0 < 1)
    BY <2>1, ShortOrder
  <2> QED BY <2>1, <2>2
<1> QED BY SMTT(30), <1>2, <1>4, <1>5
-----------------------------------------------------------------------------
(* The keys of the package *)

ID(shard, hour) == BlockIDFromShardAndHour(shard, hour)

\* A BlockID is a byte string from which the hour is read.
LEMMA IDs ==
  ASSUME NEW s \in Nat, NEW h \in Nat
  PROVE  /\ ID(s, h) \in Bytes /\ Len(ID(s, h)) = 3 /\ HourOf(ID(s, h)) = h
         /\ ID(s, h) = Join(PutUint16(s), <<h>>)
<1> DEFINE p == PutUint16(s)
           t == <<h>>
<1>1. p \in Bytes /\ Len(p) = 2 /\ t \in Bytes /\ Len(t) = 1 /\ t[1] = h
  BY Put16, ShortStrings
<1>2. ID(s, h) = Join(p, t)
  BY DEF ID, BlockIDFromShardAndHour, Join
<1> HIDE DEF p, t
<1>3. /\ Join(p, t) \in Bytes /\ Len(Join(p, t)) = Len(p) + Len(t)
      /\ \A k \in 1..Len(t) : Join(p, t)[Len(p) + k] = t[k]
  BY <1>1, JoinElements
<1>4. Join(p, t)[Len(p) + 1] = t[1] /\ Len(p) + 1 = 3 /\ Len(p) + Len(t) = 3
  BY SMTT(30), <1>1, <1>3
<1> QED BY <1>1, <1>2, <1>3, <1>4 DEF p, t, HourOf

\* Blocks of different shards or hours have different BlockIDs.
LEMMA IDsDiffer ==
  ASSUME NEW s \in Nat, NEW t \in Nat, NEW g \in Nat, NEW h \in Nat,
         s < Values16, t < Values16, ID(s, g) = ID(t, h)
  PROVE  s = t /\ g = h
<1>1. /\ PutUint16(s) \in Bytes /\ Len(PutUint16(s)) = 2 /\ PutUint16(t) \in Bytes
           /\ Len(PutUint16(t)) = 2
      /\ <<g>> \in Bytes /\ <<h>> \in Bytes
  BY Put16, ShortStrings
<1>2. Join(PutUint16(s), <<g>>) = Join(PutUint16(t), <<h>>)
  BY SMTT(30), IDs
<1>3. Len(PutUint16(s)) = Len(PutUint16(t))
  BY <1>1
<1>4. PutUint16(s) = PutUint16(t) /\ <<g>> = <<h>>
  BY <1>1, <1>2, <1>3, JoinInjective
<1> QED BY <1>4, Read16

\* The keys as a name and a rest.
LEMMA WALKeyForm ==
  ASSUME NEW s \in Nat, NEW n \in Nat
  PROVE  /\ WALKey(s, n) = Tagged(6, Join(PutUint16(s), PutUint64(n)))
         /\ Join(PutUint16(s), PutUint64(n)) \in Bytes /\ WALKey(s, n) \in Bytes
<1>1. <<6, 0>> \in Bytes /\ PutUint16(s) \in Bytes /\ PutUint64(n) \in Bytes
  BY ShortStrings, Put16, Put64
<1>2. WALKey(s, n) = Join(Join(<<6, 0>>, PutUint16(s)), PutUint64(n))
  BY DEF WALKey, Join, prefixWAL
<1>3. Join(PutUint16(s), PutUint64(n)) \in Bytes
  BY <1>1, JoinElements
<1>4. WALKey(s, n) = Tagged(6, Join(PutUint16(s), PutUint64(n)))
  BY <1>1, <1>2, JoinAssoc DEF Tagged
<1> QED BY SMTT(30), <1>3, <1>4, TaggedType

\* The keys of blocks and migrations.
LEMMA ShortKeyForms ==
  ASSUME NEW id \in Bytes
  PROVE  BlockKey(id) = Tagged(1, id) /\ MigrationKey(id) = Tagged(4, id)
  BY DEF BlockKey, MigrationKey, Tagged, Join, prefixBlock, prefixMigr

\* The keys of the counters.
LEMMA WALSeqKeyForm ==
  ASSUME NEW s \in Nat
  PROVE  WALSeqKey(s) = Tagged(5, PutUint16(s)) /\ PutUint16(s) \in Bytes
  BY Put16 DEF WALSeqKey, Tagged, Join, prefixSeq

\* The expiry keys: the hour, a colon and the BlockID.
LEMMA ExpiryKeyForm ==
  ASSUME NEW h \in Nat, NEW id \in Bytes
  PROVE  /\ ExpiryKey(h, id) = Tagged(2, Join(PutUint64(h), Join(<<58>>, id)))
         /\ Join(PutUint64(h), Join(<<58>>, id)) \in Bytes /\ Join(<<58>>, id) \in Bytes
         /\ ExpiryKeyUpperBound(h) = Tagged(2, PutUint64(h + 1)) /\ PutUint64(h + 1) \in Bytes
<1>1. <<2, 0>> \in Bytes /\ PutUint64(h) \in Bytes /\ PutUint64(h + 1) \in Bytes /\ <<58>> \in Bytes
  <2>1. h + 1 \in Nat
    BY SMTT(30)
  <2>2. PutUint64(h) \in Bytes /\ PutUint64(h + 1) \in Bytes
    BY <2>1, Put64
  <2>3. <<2, 0>> \in Bytes /\ <<58>> \in Bytes
    BY SMTT(30) DEF Bytes
  <2> QED BY <2>2, <2>3
<1>2. Join(<<58>>, id) \in Bytes /\ Join(<<2, 0>>, PutUint64(h)) \in Bytes
  BY <1>1, JoinElements
<1>3. Join(PutUint64(h), Join(<<58>>, id)) \in Bytes
  BY <1>1, <1>2, JoinElements
<1>4. ExpiryKey(h, id) = Join(Join(Join(<<2, 0>>, PutUint64(h)), <<58>>), id)
  BY DEF ExpiryKey, Join, prefixExpiry, Colon
<1>5. @ = Join(Join(<<2, 0>>, PutUint64(h)), Join(<<58>>, id))
  BY SMTT(30), <1>1, <1>2, JoinAssoc
<1>6. @ = Tagged(2, Join(PutUint64(h), Join(<<58>>, id)))
  BY SMTT(30), <1>1, <1>2, JoinAssoc DEF Tagged
<1>7. ExpiryKeyUpperBound(h) = Tagged(2, PutUint64(h + 1))
  BY DEF ExpiryKeyUpperBound, Tagged, Join, prefixExpiry
<1> QED BY <1>1, <1>2, <1>3, <1>4, <1>5, <1>6, <1>7

\* The event type and the hash of an index key.
IdxHead(eventType, keyHash) == Join(<<eventType>>, PutUint64(keyHash))

\* It is a string of nine bytes.
LEMMA IdxHeadType ==
  ASSUME NEW et \in Nat, NEW k \in Nat
  PROVE  IdxHead(et, k) \in Bytes /\ Len(IdxHead(et, k)) = 9
<1> DEFINE p == <<et>>
           x == PutUint64(k)
<1>1. p \in Bytes /\ Len(p) = 1 /\ x \in Bytes /\ Len(x) = 8
  BY ShortStrings, Put64
<1> HIDE DEF p, x
<1>2. Join(p, x) \in Bytes /\ Len(Join(p, x)) = Len(p) + Len(x)
  BY <1>1, JoinElements
<1>3. Len(Join(p, x)) = 9
  BY SMTT(30), <1>1, <1>2
<1> QED BY <1>2, <1>3 DEF IdxHead, p, x

\* It tells event types and hashes apart.
LEMMA IdxHeadInjective ==
  ASSUME NEW et \in Nat, NEW k \in Nat, NEW fu \in Nat, NEW l \in Nat, k < Values64, l < Values64,
         IdxHead(et, k) = IdxHead(fu, l)
  PROVE  et = fu /\ k = l
<1>1. /\ <<et>> \in Bytes /\ Len(<<et>>) = 1 /\ <<fu>> \in Bytes /\ Len(<<fu>>) = 1
      /\ PutUint64(k) \in Bytes /\ PutUint64(l) \in Bytes
  BY ShortStrings, Put64
<1>2. <<et>> = <<fu>> /\ PutUint64(k) = PutUint64(l)
  BY <1>1, JoinInjective DEF IdxHead
<1> QED BY <1>2, Read64

\* The index keys: the event type and the hash, a colon and the BlockID.
LEMMA IdxKeyForm ==
  ASSUME NEW et \in Nat, NEW k \in Nat, NEW id \in Bytes
  PROVE  /\ IdxKeyPrefix(et, k) = Tagged(3, Join(IdxHead(et, k), <<58>>))
         /\ IdxKey(et, k, id) = Tagged(3, Join(IdxHead(et, k), Join(<<58>>, id)))
         /\ Join(IdxHead(et, k), <<58>>) \in Bytes /\ Join(<<58>>, id) \in Bytes
         /\ Join(IdxHead(et, k), Join(<<58>>, id)) \in Bytes
<1> DEFINE H == IdxHead(et, k)
<1>1. /\ <<3, 0>> \in Bytes /\ <<et>> \in Bytes /\ PutUint64(k) \in Bytes /\ <<58>> \in Bytes
      /\ H \in Bytes
  <2>1. <<3, 0>> \in Bytes /\ <<et>> \in Bytes /\ <<58>> \in Bytes
    BY SMTT(30) DEF Bytes
  <2> QED BY <2>1, Put64, IdxHeadType
<1>2. IdxKeyPrefix(et, k) = Join(Join(Join(<<3, 0>>, <<et>>), PutUint64(k)), <<58>>)
  BY DEF IdxKeyPrefix, Join, prefixIdx, Colon
<1>3. Join(Join(<<3, 0>>, <<et>>), PutUint64(k)) = Join(<<3, 0>>, H)
  BY SMTT(30), <1>1, JoinAssoc DEF IdxHead
<1> HIDE DEF H
<1>4. Join(H, <<58>>) \in Bytes /\ Join(<<58>>, id) \in Bytes
  BY <1>1, JoinElements
<1>5. Join(H, Join(<<58>>, id)) \in Bytes
  BY <1>1, <1>4, JoinElements
<1>6. IdxKeyPrefix(et, k) = Tagged(3, Join(H, <<58>>))
  BY SMTT(30), <1>1, <1>2, <1>3, JoinAssoc DEF Tagged
<1>7. IdxKey(et, k, id) = Join(Tagged(3, Join(H, <<58>>)), id)
  BY <1>6 DEF IdxKey, Join
<1>8. @ = Join(<<3, 0>>, Join(Join(H, <<58>>), id))
  BY SMTT(30), <1>1, <1>4, JoinAssoc DEF Tagged
<1>9. @ = Tagged(3, Join(H, Join(<<58>>, id)))
  BY SMTT(30), <1>1, JoinAssoc DEF Tagged
<1> QED BY <1>4, <1>5, <1>6, <1>7, <1>8, <1>9 DEF H

\* A byte string is a function on its places.
LEMMA BytesAreFunctions ==
  ASSUME NEW w \in Bytes
  PROVE  w \in [1..Len(w) -> Nat] /\ Len(w) \in Nat
  BY SMTT(30) DEF Bytes

\* A function on the first places is a byte string.
LEMMA FunctionsAreBytes ==
  ASSUME NEW n \in Nat, NEW f \in [1..n -> Nat]
  PROVE  f \in Bytes /\ Len(f) = n
  BY SMTT(30) DEF Bytes

\* The upper bound of a lookup differs from the lower one in its last byte.
LEMMA IdxUpperBound ==
  ASSUME NEW et \in Nat, NEW k \in Nat
  PROVE  Increment(IdxKeyPrefix(et, k)) = Tagged(3, Join(IdxHead(et, k), <<59>>))
<1> DEFINE p == <<3, 0>>
           w == Join(p, IdxHead(et, k))
           a == Join(w, <<58>>)
           b == Join(w, <<59>>)
<1>1. /\ p \in Bytes /\ Len(p) = 2 /\ IdxHead(et, k) \in Bytes /\ Len(IdxHead(et, k)) = 9
      /\ <<58>> \in Bytes /\ Len(<<58>>) = 1 /\ <<58>>[1] = 58
      /\ <<59>> \in Bytes /\ Len(<<59>>) = 1 /\ <<59>>[1] = 59 /\ <<>> \in Bytes
  <2>1. p \in Bytes /\ Len(p) = 2
    BY SMTT(30) DEF Bytes
  <2>2. /\ <<58>> \in Bytes /\ Len(<<58>>) = 1 /\ <<58>>[1] = 58
        /\ <<59>> \in Bytes /\ Len(<<59>>) = 1 /\ <<59>>[1] = 59
    BY SMTT(30) DEF Bytes
  <2>3. IdxHead(et, k) \in Bytes /\ Len(IdxHead(et, k)) = 9 /\ <<>> \in Bytes
    BY IdxHeadType, JoinEmpty
  <2> QED BY <2>1, <2>2, <2>3
<1>2. IdxKeyPrefix(et, k) = a
  BY SMTT(30), <1>1, IdxKeyForm, JoinAssoc DEF Tagged
<1>3. Tagged(3, Join(IdxHead(et, k), <<59>>)) = b
  BY SMTT(30), <1>1, JoinAssoc DEF Tagged
<1>4. w \in Bytes /\ Len(w) = 11
  <2>1. w \in Bytes /\ Len(w) = Len(p) + Len(IdxHead(et, k))
    <3> HIDE DEF p
    <3>1. p \in Bytes
      BY <1>1
    <3>2. IdxHead(et, k) \in Bytes
      BY <1>1
    <3> QED BY <3>1, <3>2, JoinElements
  <2> QED BY SMTT(30), <1>1, <2>1
<1> HIDE DEF w
<1>5. /\ a \in Bytes /\ Len(a) = Len(w) + Len(<<58>>) /\ \A i \in 1..Len(w) : a[i] = w[i]
      /\ \A i \in 1..Len(<<58>>) : a[Len(w) + i] = <<58>>[i]
  <2>1. w \in Bytes /\ <<58>> \in Bytes
    BY <1>1, <1>4
  <2> QED BY <2>1, JoinElements
<1>6. /\ b \in Bytes /\ Len(b) = Len(w) + Len(<<59>>) /\ \A i \in 1..Len(w) : b[i] = w[i]
      /\ \A i \in 1..Len(<<59>>) : b[Len(w) + i] = <<59>>[i]
  <2>1. w \in Bytes /\ <<59>> \in Bytes
    BY <1>1, <1>4
  <2> QED BY <2>1, JoinElements
<1>7. Len(a) = 12 /\ Len(b) = 12 /\ a[12] = 58 /\ b[12] = 59 /\ \A i \in 1..11 : a[i] = w[i]
        /\ b[i] = w[i]
  <2>1. Len(a) = 12 /\ Len(b) = 12
    BY SMTT(30), <1>1, <1>4, <1>5, <1>6
  <2>2. a[Len(w) + 1] = <<58>>[1] /\ b[Len(w) + 1] = <<59>>[1]
    BY SMTT(30), <1>1, <1>5, <1>6
  <2>3. Len(w) + 1 = 12
    BY SMTT(30), <1>4
  <2> QED BY <1>1, <1>4, <1>5, <1>6, <2>1, <2>2, <2>3
<1> DEFINE c == [a EXCEPT ![12] = @ + 1]
<1> HIDE DEF a, b
<1>8. c \in Bytes /\ Len(c) = 12 /\ c[12] = 59 /\ \A i \in 1..11 : c[i] = a[i]
  <2>1. a \in [1..12 -> Nat] /\ a[12] + 1 = 59 /\ 59 \in Nat /\ 12 \in 1..12
    <3>1. a \in [1..Len(a) -> Nat]
      BY <1>5, BytesAreFunctions
    <3> QED BY SMTT(30), <1>7, <3>1
  <2>2. c \in [1..12 -> Nat] /\ c[12] = 59 /\ \A i \in 1..12 : i # 12 => c[i] = a[i]
    BY SMTT(30), <2>1
  <2> HIDE DEF c
  <2>3. c \in Bytes /\ Len(c) = 12
    <3>1. 12 \in Nat
      BY SMTT(30)
    <3> QED BY <2>2, <3>1, FunctionsAreBytes
  <2>4. \A i \in 1..11 : i \in 1..12 /\ i # 12
    BY SMTT(30)
  <2> QED BY SMTT(30), <2>2, <2>3, <2>4
<1>9. \A i \in 1..12 : c[i] = b[i]
  <2>1. \A i \in 1..12 : i = 12 \/ i \in 1..11
    BY SMTT(30)
  <2> HIDE DEF c
  <2> QED BY SMTT(30), <1>7, <1>8, <2>1
<1>10. Increment(a) = c
  BY <1>7 DEF Increment
<1> HIDE DEF c
<1>11. c = b
  <2>1. Len(c) = Len(b) /\ b \in Bytes /\ c \in Bytes /\ \A i \in 1..Len(c) : c[i] = b[i]
    BY <1>6, <1>7, <1>8, <1>9
  <2> QED BY <2>1, SameBytes
<1> QED BY <1>2, <1>3, <1>10, <1>11 DEF a, b
-----------------------------------------------------------------------------
(* The ranges that the scans visit *)

\* bytes.Compare has the WAL keys in the order of the shards, then of the sequence
\* numbers, for every width of a byte and across every carry.
THEOREM WALKeyOrder ==
  ASSUME NEW s \in Nat, NEW t \in Nat, NEW m \in Nat, NEW n \in Nat,
         s < Values16, t < Values16, m < Values64, n < Values64
  PROVE  Before(WALKey(s, m), WALKey(t, n)) <=> s < t \/ (s = t /\ m < n)
<1> DEFINE p == PutUint16(s)
           q == PutUint16(t)
           x == PutUint64(m)
           y == PutUint64(n)
<1>1. p \in Bytes /\ q \in Bytes /\ x \in Bytes /\ y \in Bytes /\ Len(p) = 2 /\ Len(q) = 2
  BY Put16, Put64
<1>2. /\ WALKey(s, m) = Tagged(6, Join(p, x)) /\ Join(p, x) \in Bytes
      /\ WALKey(t, n) = Tagged(6, Join(q, y)) /\ Join(q, y) \in Bytes
  BY WALKeyForm
<1>3. Before(p, q) <=> s < t
  BY Order16
<1>4. Before(x, y) <=> m < n
  BY Order64
<1>5. p = q <=> s = t
  BY Read16
<1> HIDE DEF p, q, x, y
<1>6. Before(Join(p, x), Join(q, y)) <=> Before(p, q) \/ (p = q /\ Before(x, y))
  BY <1>1, JoinOrder
<1>7. Before(Tagged(6, Join(p, x)), Tagged(6, Join(q, y))) <=> Before(Join(p, x), Join(q, y))
  <2>1. 6 \in Nat /\ ~(6 < 6)
    BY SMTT(30)
  <2> QED BY <1>2, <2>1, TaggedOrder
<1> QED BY <1>2, <1>3, <1>4, <1>5, <1>6, <1>7

\* WALScan and DeleteRange visit the entries of the shard and nothing else.
LEMMA WALRangeKeys ==
  ASSUME NEW s \in Nat, s + 1 < Values16
  PROVE  /\ \A t, n \in Nat : t < Values16 /\ n < Values64 =>
              (~Before(WALKey(t, n), WALKeyStart(s))
                /\ Before(WALKey(t, n), WALKeyEnd(s)) <=> t = s)
         /\ \A a \in Nat, x \in Bytes : a # 6 =>
              ~(~Before(Tagged(a, x), WALKeyStart(s)) /\ Before(Tagged(a, x), WALKeyEnd(s)))
<1>1. s < Values16 /\ (s + 1) % Values16 = s + 1 /\ 0 < Values64 /\ s + 1 \in Nat
  BY SMTT(30), WidthsType
<1>2. WALKeyStart(s) = WALKey(s, 0) /\ WALKeyEnd(s) = WALKey(s + 1, 0)
  BY <1>1 DEF WALKeyStart, WALKeyEnd
<1>3. ASSUME NEW t \in Nat, NEW n \in Nat, t < Values16, n < Values64
      PROVE  ~Before(WALKey(t, n), WALKeyStart(s)) /\ Before(WALKey(t, n), WALKeyEnd(s)) <=> t = s
  <2>1. Before(WALKey(t, n), WALKey(s, 0)) <=> t < s \/ (t = s /\ n < 0)
    BY <1>1, <1>3, WALKeyOrder
  <2>2. Before(WALKey(t, n), WALKey(s + 1, 0)) <=> t < s + 1 \/ (t = s + 1 /\ n < 0)
    BY <1>1, <1>3, WALKeyOrder
  <2> QED BY SMTT(30), <1>2, <2>1, <2>2
<1>4. ASSUME NEW a \in Nat, NEW x \in Bytes, a # 6
      PROVE  ~(~Before(Tagged(a, x), WALKeyStart(s)) /\ Before(Tagged(a, x), WALKeyEnd(s)))
  <2> DEFINE b == Join(PutUint16(s), PutUint64(0))
             c == Join(PutUint16(s + 1), PutUint64(0))
  <2>1. b \in Bytes /\ c \in Bytes /\ WALKey(s, 0) = Tagged(6, b) /\ WALKey(s + 1, 0) = Tagged(6, c)
    BY <1>1, WALKeyForm
  <2> HIDE DEF b, c
  <2>2. Before(Tagged(a, x), Tagged(6, b)) <=> a < 6
    BY <2>1, <1>4, TaggedOrder
  <2>3. Before(Tagged(a, x), Tagged(6, c)) <=> a < 6
    BY <2>1, <1>4, TaggedOrder
  <2> QED BY <1>2, <2>1, <2>2, <2>3
<1> QED BY <1>3, <1>4

\* ScanExpiredEntries visits the entries up to the hour.
LEMMA ExpiryRangeKeys ==
  ASSUME NEW h \in Nat, h + 1 < Values64
  PROVE  /\ \A g \in Nat, id \in Bytes : g < Values64 =>
              (~Before(ExpiryKey(g, id), prefixExpiry)
                /\ Before(ExpiryKey(g, id), ExpiryKeyUpperBound(h))
                 <=> g <= h)
         /\ \A a \in Nat, x \in Bytes : a # 2 =>
              ~(~Before(Tagged(a, x), prefixExpiry) /\ Before(Tagged(a, x), ExpiryKeyUpperBound(h)))
<1> DEFINE u == PutUint64(h + 1)
<1>1. u \in Bytes /\ ExpiryKeyUpperBound(h) = Tagged(2, u) /\ <<>> \in Bytes
      /\ prefixExpiry = Tagged(2, <<>>) /\ Len(u) = 8 /\ Join(u, <<>>) = u
  <2>1. h + 1 \in Nat /\ 2 \in Nat
    BY SMTT(30)
  <2>2. u \in Bytes /\ Len(u) = 8
    BY <2>1, Put64
  <2>3. <<>> \in Bytes /\ Join(u, <<>>) = u
    BY <2>2, JoinEmpty
  <2>4. ExpiryKeyUpperBound(h) = Tagged(2, u)
    BY <2>3, ExpiryKeyForm
  <2>5. prefixExpiry = Tagged(2, <<>>)
    BY <2>1, Prefixes DEF prefixExpiry
  <2> QED BY <2>2, <2>3, <2>4, <2>5
<1>2. ASSUME NEW g \in Nat, NEW id \in Bytes, g < Values64
      PROVE  ~Before(ExpiryKey(g, id), prefixExpiry)
               /\ Before(ExpiryKey(g, id), ExpiryKeyUpperBound(h))
                 <=> g <= h
  <2> DEFINE v == PutUint64(g)
             z == Join(<<58>>, id)
  <2>1. ExpiryKey(g, id) = Tagged(2, Join(v, z)) /\ Join(v, z) \in Bytes /\ z \in Bytes
    BY ExpiryKeyForm
  <2>2. v \in Bytes /\ Len(v) = 8
    BY Put64
  <2>3. Before(v, u) <=> g < h + 1
    BY SMTT(30), <1>2, Order64
  <2> HIDE DEF v, z, u
  <2>4. 2 \in Nat /\ ~(2 < 2)
    BY SMTT(30)
  <2>5. ~Before(Tagged(2, Join(v, z)), Tagged(2, <<>>))
    BY <1>1, <2>1, <2>4, TaggedOrder, BeforeEmpty
  <2>6. Before(Tagged(2, Join(v, z)), Tagged(2, u)) <=> Before(Join(v, z), u)
    BY <1>1, <2>1, <2>4, TaggedOrder
  <2>7. Before(Join(v, z), Join(u, <<>>)) <=> Before(v, u) \/ (v = u /\ Before(z, <<>>))
    BY <1>1, <2>1, <2>2, JoinOrder
  <2>8. ~Before(z, <<>>)
    BY <2>1, BeforeEmpty
  <2> QED BY SMTT(30), <1>1, <2>1, <2>3, <2>5, <2>6, <2>7, <2>8
<1> HIDE DEF u
<1>3. ASSUME NEW a \in Nat, NEW x \in Bytes, a # 2
      PROVE  ~(~Before(Tagged(a, x), prefixExpiry) /\ Before(Tagged(a, x), ExpiryKeyUpperBound(h)))
  <2>1. Before(Tagged(a, x), Tagged(2, <<>>)) <=> a < 2
    BY <1>1, <1>3, TaggedOrder
  <2>2. Before(Tagged(a, x), Tagged(2, u)) <=> a < 2
    BY <1>1, <1>3, TaggedOrder
  <2> QED BY <1>1, <2>1, <2>2
<1> QED BY <1>2, <1>3

\* A lookup visits the entries of its event type and hash.
LEMMA IdxRangeKeys ==
  ASSUME NEW et \in Nat, NEW k \in Nat, k < Values64
  PROVE  /\ \A fu, l \in Nat, id \in Bytes : l < Values64 =>
              ((/\ ~Before(IdxKey(fu, l, id), IdxKeyPrefix(et, k))
                /\ Before(IdxKey(fu, l, id), Increment(IdxKeyPrefix(et, k)))) <=> fu = et /\ l = k)
         /\ \A a \in Nat, x \in Bytes : a # 3 =>
              ~(/\ ~Before(Tagged(a, x), IdxKeyPrefix(et, k))
                /\ Before(Tagged(a, x), Increment(IdxKeyPrefix(et, k))))
<1> DEFINE H == IdxHead(et, k)
           lo == Join(H, <<58>>)
           hi == Join(H, <<59>>)
<1>1. H \in Bytes /\ Len(H) = 9
  BY IdxHeadType
<1>2. <<>> \in Bytes /\ <<58>> \in Bytes /\ <<59>> \in Bytes /\ Len(<<58>>) = Len(<<59>>)
        /\ <<58>> # <<59>>
  BY SMTT(30) DEF Bytes
<1>3. IdxKeyPrefix(et, k) = Tagged(3, lo) /\ Increment(IdxKeyPrefix(et, k)) = Tagged(3, hi)
  BY SMTT(30), <1>2, IdxKeyForm, IdxUpperBound
<1>4. lo \in Bytes /\ hi \in Bytes
  BY <1>1, <1>2, JoinElements
<1>5. ASSUME NEW fu \in Nat, NEW l \in Nat, NEW id \in Bytes, l < Values64
      PROVE  (/\ ~Before(IdxKey(fu, l, id), IdxKeyPrefix(et, k))
              /\ Before(IdxKey(fu, l, id), Increment(IdxKeyPrefix(et, k)))) <=> fu = et /\ l = k
  <2> DEFINE G == IdxHead(fu, l)
             z == Join(<<58>>, id)
  <2>1. /\ IdxKey(fu, l, id) = Tagged(3, Join(G, z)) /\ Join(G, z) \in Bytes /\ z \in Bytes
        /\ G \in Bytes /\ Len(G) = 9
    BY SMTT(30), IdxKeyForm, IdxHeadType
  <2>2. G = H <=> fu = et /\ l = k
    BY <1>5, IdxHeadInjective
  <2> HIDE DEF G, H
  <2>3. Before(z, <<58>>) <=> FALSE
    <3>1. Join(<<58>>, <<>>) = <<58>>
      BY <1>2, JoinEmpty
    <3>2. Before(z, Join(<<58>>, <<>>)) <=> Before(id, <<>>)
      BY <1>2, JoinBefore
    <3> QED BY <3>1, <3>2, BeforeEmpty
  <2>4. Before(z, <<59>>)
    <3>1. Join(<<59>>, <<>>) = <<59>>
      BY <1>2, JoinEmpty
    <3>2. Before(z, Join(<<59>>, <<>>)) <=> Before(<<58>>, <<59>>)
      BY <1>2, HeadBefore
    <3>3. Before(<<58>>, <<59>>)
      <4>1. \A a, c \in Nat : Before(<<a>>, <<c>>) <=> a < c
        BY ShortOrder
      <4>2. 58 \in Nat /\ 59 \in Nat /\ 58 < 59
        BY SMTT(30)
      <4> QED BY <4>1, <4>2
    <3> QED BY <3>1, <3>2, <3>3
  <2> HIDE DEF z
  <2>5. Before(Join(G, z), lo) <=> Before(G, H)
    BY SMTT(30), <1>1, <1>2, <2>1, <2>3, JoinOrder
  <2>6. Before(Join(G, z), hi) <=> Before(G, H) \/ G = H
    BY SMTT(30), <1>1, <1>2, <2>1, <2>4, JoinOrder
  <2> HIDE DEF lo, hi
  <2>7. 3 \in Nat /\ ~(3 < 3)
    BY SMTT(30)
  <2>8. Before(Tagged(3, Join(G, z)), Tagged(3, lo)) <=> Before(Join(G, z), lo)
    BY <1>4, <2>1, <2>7, TaggedOrder
  <2>9. Before(Tagged(3, Join(G, z)), Tagged(3, hi)) <=> Before(Join(G, z), hi)
    BY <1>4, <2>1, <2>7, TaggedOrder
  <2>10. G = H => ~Before(G, H)
    BY <1>1, BeforeEmpty
  <2> QED BY <1>3, <2>1, <2>2, <2>5, <2>6, <2>8, <2>9, <2>10
<1> HIDE DEF lo, hi
<1>6. ASSUME NEW a \in Nat, NEW x \in Bytes, a # 3
      PROVE  ~(/\ ~Before(Tagged(a, x), IdxKeyPrefix(et, k))
               /\ Before(Tagged(a, x), Increment(IdxKeyPrefix(et, k))))
  <2>1. Before(Tagged(a, x), Tagged(3, lo)) <=> a < 3
    BY <1>4, <1>6, TaggedOrder
  <2>2. Before(Tagged(a, x), Tagged(3, hi)) <=> a < 3
    BY <1>4, <1>6, TaggedOrder
  <2> QED BY <1>3, <2>1, <2>2
<1>7. \A fu, l \in Nat, id \in Bytes : l < Values64 =>
        ((/\ ~Before(IdxKey(fu, l, id), IdxKeyPrefix(et, k))
          /\ Before(IdxKey(fu, l, id), Increment(IdxKeyPrefix(et, k)))) <=> fu = et /\ l = k)
  BY <1>5
<1>8. \A a \in Nat, x \in Bytes : a # 3 =>
        ~(/\ ~Before(Tagged(a, x), IdxKeyPrefix(et, k))
          /\ Before(Tagged(a, x), Increment(IdxKeyPrefix(et, k))))
  BY <1>6
<1> QED BY <1>7, <1>8
-----------------------------------------------------------------------------
(* Keys read back *)

\* ParseWALKey returns the shard and the number of the key.
LEMMA ParseWAL ==
  ASSUME NEW s \in Nat, NEW n \in Nat, s < Values16, n < Values64
  PROVE  ParseWALKey(WALKey(s, n)) = [shard |-> s, seq |-> n]
<1> DEFINE t == <<6, 0>>
           p == PutUint16(s)
           x == PutUint64(n)
           w == Join(t, p)
<1>1. t \in Bytes /\ Len(t) = 2 /\ p \in Bytes /\ Len(p) = 2 /\ x \in Bytes /\ Len(x) = 8
  BY ShortStrings, Put16, Put64
<1>2. WALKey(s, n) = Join(t, Join(p, x))
  BY WALKeyForm DEF Tagged
<1>3. Uint16(p) = s /\ Uint64(x) = n
  BY Read16, Read64
<1> HIDE DEF t, p, x
<1>4. SubSeq(WALKey(s, n), 3, 4) = p
  <2>1. SubSeq(Join(t, Join(p, x)), Len(t) + 1, Len(t) + Len(p)) = p
    BY <1>1, JoinMiddle
  <2>2. Len(t) + 1 = 3 /\ Len(t) + Len(p) = 4
    BY SMTT(30), <1>1
  <2> QED BY <1>2, <2>1, <2>2
<1>5. SubSeq(WALKey(s, n), 5, 12) = x
  <2>1. w \in Bytes /\ Len(w) = Len(t) + Len(p)
    BY <1>1, JoinElements
  <2>2. Join(w, x) = WALKey(s, n)
    BY <1>1, <1>2, JoinAssoc
  <2> HIDE DEF w
  <2>3. SubSeq(Join(w, x), Len(w) + 1, Len(w) + Len(x)) = x
    BY <1>1, <2>1, JoinParts
  <2>4. Len(w) + 1 = 5 /\ Len(w) + Len(x) = 12
    BY SMTT(30), <1>1, <2>1
  <2> QED BY <2>2, <2>3, <2>4
<1> QED BY <1>3, <1>4, <1>5 DEF ParseWALKey

\* ParseExpiryKey returns the hour and the BlockID of the key.
LEMMA ParseExpiry ==
  ASSUME NEW h \in Nat, NEW id \in Bytes, h < Values64
  PROVE  ParseExpiryKey(ExpiryKey(h, id)) = [hour |-> h, id |-> id]
<1> DEFINE t == <<2, 0>>
           x == PutUint64(h)
           c == <<58>>
           w == Join(t, Join(x, c))
           key == ExpiryKey(h, id)
<1>1. /\ t \in Bytes /\ Len(t) = 2 /\ x \in Bytes /\ Len(x) = 8 /\ c \in Bytes /\ Len(c) = 1
  <2>1. t \in Bytes /\ Len(t) = 2 /\ c \in Bytes /\ Len(c) = 1
    BY SMTT(30) DEF Bytes
  <2> QED BY <2>1, Put64
<1>2. key = Join(t, Join(x, Join(c, id))) /\ Join(c, id) \in Bytes /\ Join(x, Join(c, id)) \in Bytes
  BY ExpiryKeyForm DEF Tagged
<1>3. Uint64(x) = h
  BY Read64
<1> HIDE DEF t, x, c, key
<1>4. SubSeq(key, 3, 10) = x
  <2>1. SubSeq(Join(t, Join(x, Join(c, id))), Len(t) + 1, Len(t) + Len(x)) = x
    BY <1>1, <1>2, JoinMiddle
  <2>2. Len(t) + 1 = 3 /\ Len(t) + Len(x) = 10
    BY SMTT(30), <1>1
  <2> QED BY <1>2, <2>1, <2>2
<1>5. SubSeq(key, 12, Len(key)) = id
  <2>1. Join(x, c) \in Bytes /\ Len(Join(x, c)) = Len(x) + Len(c)
    BY <1>1, JoinElements
  <2>2. w \in Bytes /\ Len(w) = Len(t) + Len(Join(x, c))
    BY <1>1, <2>1, JoinElements
  <2>3. Join(w, id) = key
    <3>1. Join(w, id) = Join(t, Join(Join(x, c), id))
      BY SMTT(30), <1>1, <2>1, JoinAssoc
    <3>2. Join(Join(x, c), id) = Join(x, Join(c, id))
      BY <1>1, JoinAssoc
    <3> QED BY <1>2, <3>1, <3>2
  <2>4. Len(w) = 11
    BY SMTT(30), <1>1, <2>1, <2>2
  <2> HIDE DEF w
  <2>5. SubSeq(Join(w, id), Len(w) + 1, Len(w) + Len(id)) = id
    BY <2>2, JoinParts
  <2>6. Len(w) + 1 = 12
    BY SMTT(30), <2>4
  <2>7. Len(Join(w, id)) = Len(w) + Len(id)
    BY <2>2, JoinElements
  <2> QED BY <2>3, <2>5, <2>6, <2>7
<1> QED BY <1>3, <1>4, <1>5 DEF ParseExpiryKey, key

\* ParseIdxKey returns the BlockID of the key.
LEMMA ParseIdx ==
  ASSUME NEW et \in Nat, NEW k \in Nat, NEW id \in Bytes
  PROVE  ParseIdxKey(IdxKey(et, k, id)) = id
<1> DEFINE t == <<3, 0>>
           H == IdxHead(et, k)
           c == <<58>>
           w == Join(t, Join(H, c))
           key == IdxKey(et, k, id)
<1>1. /\ t \in Bytes /\ Len(t) = 2 /\ H \in Bytes /\ Len(H) = 9 /\ c \in Bytes /\ Len(c) = 1
  <2>1. t \in Bytes /\ Len(t) = 2 /\ c \in Bytes /\ Len(c) = 1
    BY SMTT(30) DEF Bytes
  <2> QED BY <2>1, IdxHeadType
<1>2. key = Join(t, Join(H, Join(c, id)))
  BY SMTT(30), IdxKeyForm DEF Tagged
<1> HIDE DEF t, H, c, key
<1>3. SubSeq(key, 13, Len(key)) = id
  <2>1. Join(H, c) \in Bytes /\ Len(Join(H, c)) = Len(H) + Len(c)
    BY <1>1, JoinElements
  <2>2. w \in Bytes /\ Len(w) = Len(t) + Len(Join(H, c))
    BY <1>1, <2>1, JoinElements
  <2>3. Join(w, id) = key
    <3>1. Join(w, id) = Join(t, Join(Join(H, c), id))
      BY SMTT(30), <1>1, <2>1, JoinAssoc
    <3>2. Join(Join(H, c), id) = Join(H, Join(c, id))
      BY <1>1, JoinAssoc
    <3> QED BY <1>2, <3>1, <3>2
  <2>4. Len(w) = 12
    BY SMTT(30), <1>1, <2>1, <2>2
  <2> HIDE DEF w
  <2>5. SubSeq(Join(w, id), Len(w) + 1, Len(w) + Len(id)) = id
    BY <2>2, JoinParts
  <2>6. Len(w) + 1 = 13
    BY SMTT(30), <2>4
  <2>7. Len(Join(w, id)) = Len(w) + Len(id)
    BY <2>2, JoinElements
  <2> QED BY <2>3, <2>5, <2>6, <2>7
<1> QED BY <1>3 DEF ParseIdxKey, key

\* ParseMigrationKey returns the BlockID of the key.
LEMMA ParseMigration ==
  ASSUME NEW id \in Bytes
  PROVE  ParseMigrationKey(MigrationKey(id)) = id
<1> DEFINE t == <<4, 0>>
           key == MigrationKey(id)
<1>1. t \in Bytes /\ Len(t) = 2
  BY ShortStrings
<1>2. key = Join(t, id)
  BY DEF MigrationKey, Join, prefixMigr
<1> HIDE DEF t, key
<1>3. SubSeq(Join(t, id), Len(t) + 1, Len(t) + Len(id)) = id
  BY <1>1, JoinParts
<1>4. Len(t) + 1 = 3
  BY SMTT(30), <1>1
<1>5. Len(Join(t, id)) = Len(t) + Len(id)
  BY <1>1, JoinElements
<1>6. SubSeq(key, 3, Len(key)) = id
  BY <1>2, <1>3, <1>4, <1>5
<1> QED BY <1>6 DEF ParseMigrationKey, key

\* Index entries differ in the event type, the hash or the block.
LEMMA IdxKeysDiffer ==
  ASSUME NEW et \in Nat, NEW k \in Nat, NEW id \in Bytes, k < Values64,
         NEW fu \in Nat, NEW l \in Nat, NEW jd \in Bytes, l < Values64,
         IdxKey(et, k, id) = IdxKey(fu, l, jd)
  PROVE  et = fu /\ k = l /\ id = jd
<1>1. id = jd
  BY SMTT(30), ParseIdx
<1> DEFINE H == IdxHead(et, k)
           G == IdxHead(fu, l)
           z == Join(<<58>>, id)
<1>2. H \in Bytes /\ Len(H) = 9 /\ G \in Bytes /\ Len(G) = 9 /\ z \in Bytes
  BY IdxHeadType, IdxKeyForm
<1>3. Tagged(3, Join(H, z)) = Tagged(3, Join(G, z)) /\ Join(H, z) \in Bytes /\ Join(G, z) \in Bytes
  BY SMTT(30), <1>1, IdxKeyForm
<1> HIDE DEF H, G, z
<1>4. Join(H, z) = Join(G, z)
  BY SMTT(30), <1>3, TaggedInjective
<1>5. H = G
  BY <1>2, <1>4, JoinInjective
<1> QED BY <1>1, <1>5, IdxHeadInjective DEF H, G
-----------------------------------------------------------------------------
(* Block metadata *)

\* Cutting a part out of the first of two byte strings.
LEMMA JoinDrop ==
  ASSUME NEW s \in Bytes, NEW t \in Bytes
  PROVE  \A lo \in 1..Len(s) : \A hi \in lo..Len(s) : SubSeq(Join(s, t), lo, hi) = SubSeq(s, lo, hi)
<1> TAKE lo \in 1..Len(s)
<1> TAKE hi \in lo..Len(s)
<1> DEFINE w == Join(s, t)
           a == SubSeq(w, lo, hi)
           b == SubSeq(s, lo, hi)
<1>1. w \in Bytes /\ \A k \in 1..Len(s) : w[k] = s[k]
  BY JoinElements
<1>2. Len(s) \in Nat /\ \A k \in 1..Len(s) : s[k] \in Nat
  BY SMTT(30) DEF Bytes
<1> HIDE DEF w
<1>3. \A k \in lo..hi : s[k] \in Nat /\ w[k] \in Nat /\ w[k] = s[k]
  BY SMTT(30), <1>1, <1>2
<1>4. a \in Bytes /\ b \in Bytes
  BY SMTT(30), <1>3 DEF Bytes
<1>5. Len(a) = hi - lo + 1 /\ Len(b) = hi - lo + 1
  BY SMTT(30), <1>3
<1>6. ASSUME NEW k \in 1..(hi - lo + 1) PROVE a[k] = b[k]
  <2>1. a[k] = w[lo + k - 1]
    BY SMTT(30), <1>3
  <2>2. b[k] = s[lo + k - 1]
    BY SMTT(30), <1>3
  <2>3. lo + k - 1 \in lo..hi
    BY SMTT(30)
  <2> QED BY <1>3, <2>1, <2>2, <2>3
<1> HIDE DEF a, b
<1>7. a = b
  BY <1>4, <1>5, <1>6, SameBytes
<1> QED BY <1>7 DEF a, b, w

\* decodeBlockMeta returns what encodeBlockMeta was given, for all metadata that
\* fit the fields.
THEOREM MetaRoundTrip ==
  ASSUME NEW shard \in Nat, NEW openedAt \in Nat, NEW sealedAt \in Nat, NEW tier \in Nat,
         NEW size \in Nat, NEW checksum \in Nat, NEW m,
         m = [shard |-> shard, openedAt |-> openedAt, sealedAt |-> sealedAt,
              tier |-> tier, size |-> size, checksum |-> checksum],
         shard < Values16, openedAt < Values64, sealedAt < Values64,
         size < Values64, checksum < Values32
  PROVE  decodeBlockMeta(encodeBlockMeta(m)) = m
<1> DEFINE a == PutUint16(shard)
           b == PutUint64(openedAt)
           c == PutUint64(sealedAt)
           d == <<tier>>
           e == PutUint64(size)
           f == PutUint32(checksum)
           buf == encodeBlockMeta(m)
<1>1. a \in Bytes /\ Len(a) = 2 /\ d \in Bytes /\ Len(d) = 1 /\ f \in Bytes /\ Len(f) = 4
  BY Put16, Put32, ShortStrings
<1>2. b \in Bytes /\ Len(b) = 8 /\ c \in Bytes /\ Len(c) = 8 /\ e \in Bytes /\ Len(e) = 8
  BY Put64
<1>3. /\ Uint16(a) = shard /\ Uint64(b) = openedAt /\ Uint64(c) = sealedAt /\ d[1] = tier
      /\ Uint64(e) = size /\ Uint32(f) = checksum
  BY Read16, Read64, Read32
<1>4. buf = Join(Join(Join(Join(Join(a, b), c), d), e), f)
  BY DEF encodeBlockMeta, Join
<1> HIDE DEF a, b, c, d, e, f, buf
<1> DEFINE w2 == Join(a, b)
           w3 == Join(w2, c)
           w4 == Join(w3, d)
           w5 == Join(w4, e)
<1> USE <1>1, <1>2
<1>5. \A s, t \in Bytes : Join(s, t) \in Bytes /\ Len(Join(s, t)) = Len(s) + Len(t)
  BY JoinElements
<1>6. w2 \in Bytes /\ Len(w2) = 10
  <2>1. w2 \in Bytes /\ Len(w2) = Len(a) + Len(b)
    BY <1>5
  <2> HIDE DEF w2
  <2> QED BY SMTT(30), <2>1
<1>7. SubSeq(w2, 1, 2) = a /\ SubSeq(w2, 3, 10) = b
  <2>1. SubSeq(w2, 1, Len(a)) = a /\ SubSeq(w2, Len(a) + 1, Len(a) + Len(b)) = b
    BY JoinParts
  <2>2. Len(a) + 1 = 3 /\ Len(a) + Len(b) = 10
    BY SMTT(30)
  <2> QED BY <2>1, <2>2
<1> HIDE DEF w2
<1>8. w3 \in Bytes /\ Len(w3) = 18
  <2>1. w3 \in Bytes /\ Len(w3) = Len(w2) + Len(c)
    BY <1>5, <1>6
  <2> HIDE DEF w3
  <2> QED BY SMTT(30), <1>6, <2>1
<1>9. SubSeq(w3, 11, 18) = c
  <2>1. SubSeq(w3, Len(w2) + 1, Len(w2) + Len(c)) = c
    BY <1>6, JoinParts
  <2>2. Len(w2) + 1 = 11 /\ Len(w2) + Len(c) = 18
    BY SMTT(30), <1>6
  <2> QED BY <2>1, <2>2
<1>10. SubSeq(w3, 1, 2) = a /\ SubSeq(w3, 3, 10) = b
  <2>1. \A lo \in 1..Len(w2) : \A hi \in lo..Len(w2) : SubSeq(w3, lo, hi) = SubSeq(w2, lo, hi)
    BY <1>6, JoinDrop
  <2> HIDE DEF w3
  <2> QED BY SMTT(30), <1>6, <1>7, <2>1
<1> HIDE DEF w3
<1>11. w4 \in Bytes /\ Len(w4) = 19
  <2>1. w4 \in Bytes /\ Len(w4) = Len(w3) + Len(d)
    BY <1>5, <1>8
  <2> HIDE DEF w4
  <2> QED BY SMTT(30), <1>8, <2>1
<1>12. w4[19] = d[1]
  <2>1. \A k \in 1..Len(d) : w4[Len(w3) + k] = d[k]
    BY <1>8, JoinElements
  <2>2. w4[Len(w3) + 1] = d[1]
    BY SMTT(30), <2>1
  <2>3. Len(w3) + 1 = 19
    BY SMTT(30), <1>8
  <2> QED BY <2>2, <2>3
<1>13. SubSeq(w4, 1, 2) = a /\ SubSeq(w4, 3, 10) = b /\ SubSeq(w4, 11, 18) = c
  <2>1. \A lo \in 1..Len(w3) : \A hi \in lo..Len(w3) : SubSeq(w4, lo, hi) = SubSeq(w3, lo, hi)
    BY <1>8, JoinDrop
  <2> HIDE DEF w4
  <2>2. /\ 1 \in 1..Len(w3) /\ 2 \in 1..Len(w3) /\ 3 \in 1..Len(w3) /\ 10 \in 3..Len(w3)
        /\ 11 \in 1..Len(w3) /\ 18 \in 11..Len(w3)
    BY SMTT(30), <1>8
  <2> QED BY <1>9, <1>10, <2>1, <2>2
<1> HIDE DEF w4
<1>14. w5 \in Bytes /\ Len(w5) = 27
  <2>1. w5 \in Bytes /\ Len(w5) = Len(w4) + Len(e)
    BY <1>5, <1>11
  <2> HIDE DEF w5
  <2> QED BY SMTT(30), <1>11, <2>1
<1>15. w5[19] = d[1]
  <2>1. \A k \in 1..Len(w4) : w5[k] = w4[k]
    BY <1>11, JoinElements
  <2> QED BY SMTT(30), <1>11, <1>12, <2>1
<1>16. SubSeq(w5, 20, 27) = e
  <2>1. SubSeq(w5, Len(w4) + 1, Len(w4) + Len(e)) = e
    BY <1>11, JoinParts
  <2>2. Len(w4) + 1 = 20 /\ Len(w4) + Len(e) = 27
    BY SMTT(30), <1>11
  <2> QED BY <2>1, <2>2
<1>17. SubSeq(w5, 1, 2) = a /\ SubSeq(w5, 3, 10) = b /\ SubSeq(w5, 11, 18) = c
  <2>1. \A lo \in 1..Len(w4) : \A hi \in lo..Len(w4) : SubSeq(w5, lo, hi) = SubSeq(w4, lo, hi)
    BY <1>11, JoinDrop
  <2> HIDE DEF w5
  <2>2. /\ 1 \in 1..Len(w4) /\ 2 \in 1..Len(w4) /\ 3 \in 1..Len(w4) /\ 10 \in 3..Len(w4)
        /\ 11 \in 1..Len(w4) /\ 18 \in 11..Len(w4)
    BY SMTT(30), <1>11
  <2> QED BY <1>13, <2>1, <2>2
<1>18. buf = Join(w5, f)
  BY <1>4 DEF w2, w3, w4
<1> HIDE DEF w5
<1>19. buf[19] = d[1]
  <2>1. \A k \in 1..Len(w5) : Join(w5, f)[k] = w5[k]
    BY <1>14, JoinElements
  <2> QED BY SMTT(30), <1>14, <1>15, <1>18, <2>1
<1>20. SubSeq(buf, 28, 31) = f
  <2>1. SubSeq(buf, Len(w5) + 1, Len(w5) + Len(f)) = f
    BY <1>14, <1>18, JoinParts
  <2>2. Len(w5) + 1 = 28 /\ Len(w5) + Len(f) = 31
    BY SMTT(30), <1>14
  <2> QED BY <2>1, <2>2
<1>21. \A lo \in 1..Len(w5) : \A hi \in lo..Len(w5) : SubSeq(buf, lo, hi) = SubSeq(w5, lo, hi)
  <2>1. \A lo \in 1..Len(w5) :
          \A hi \in lo..Len(w5) : SubSeq(Join(w5, f), lo, hi) = SubSeq(w5, lo, hi)
    BY <1>14, JoinDrop
  <2> QED BY <1>18, <2>1
<1>22. /\ 1 \in 1..Len(w5) /\ 2 \in 1..Len(w5) /\ 3 \in 1..Len(w5) /\ 10 \in 3..Len(w5)
       /\ 11 \in 1..Len(w5) /\ 18 \in 11..Len(w5) /\ 20 \in 1..Len(w5) /\ 27 \in 20..Len(w5)
  BY SMTT(30), <1>14
<1>23. SubSeq(buf, 1, 2) = a /\ SubSeq(buf, 3, 10) = b /\ SubSeq(buf, 11, 18) = c
  BY <1>17, <1>21, <1>22
<1>24. SubSeq(buf, 20, 27) = e
  BY <1>16, <1>21, <1>22
<1>25. decodeBlockMeta(buf) = [shard |-> Uint16(a), openedAt |-> Uint64(b), sealedAt |-> Uint64(c),
                               tier |-> d[1], size |-> Uint64(e), checksum |-> Uint32(f)]
  BY <1>19, <1>20, <1>23, <1>24 DEF decodeBlockMeta
<1> QED BY <1>3, <1>25 DEF buf
-----------------------------------------------------------------------------
(* The shards, hours and hashes in use *)

Numbers == 0..(MaxAppends - 1)

\* What is in use fits its width.
LEMMA Ranges ==
  /\ \A s \in Shards : s \in Nat /\ s + 1 < Values16 /\ s < Values16 /\ EventType(s) \in Nat
  /\ \A n \in Numbers : n \in Nat /\ n < Values64 /\ n < MaxAppends
  /\ \A h \in OpenHours : /\ h \in Nat /\ h \in 0..MaxHour
                          /\ h + RetentionHours \in Nat /\ h + RetentionHours < Values64
                          /\ h + RetentionHours <= LastHour /\ 0 < h + RetentionHours
  /\ \A k \in Keys : k \in Nat /\ k < Values64
  /\ LastHour \in Nat /\ LastHour + 1 < Values64
  /\ MaxAppends \in Nat /\ MaxAppends <= Values64
<1>1. /\ MaxHour \in Nat /\ RetentionHours \in Nat /\ RetentionHours > 0
      /\ \A h \in OpenHours : h \in Nat /\ h <= MaxHour
  BY SMTT(30), HourAssumption
<1>2. /\ MaxAppends \in Nat /\ MaxAppends <= Values64 /\ MaxHour + RetentionHours + 1 < Values64
      /\ \A k \in Keys : k \in Nat /\ k < Values64
  BY SMTT(30), NumberAssumption, WidthsType
<1>3. LastHour \in Nat /\ LastHour + 1 < Values64
  BY SMTT(30), <1>1, <1>2 DEF LastHour
<1>4. ASSUME NEW h \in OpenHours
      PROVE  /\ h \in Nat /\ h \in 0..MaxHour
             /\ h + RetentionHours \in Nat /\ h + RetentionHours < Values64
             /\ h + RetentionHours <= LastHour /\ 0 < h + RetentionHours
  BY SMTT(30), <1>1, <1>3, WidthsType DEF LastHour
<1>5. ASSUME NEW n \in Numbers PROVE n \in Nat /\ n < Values64 /\ n < MaxAppends
  BY SMTT(30), <1>2, WidthsType DEF Numbers
<1>6. ASSUME NEW s \in Shards
      PROVE  s \in Nat /\ s + 1 < Values16 /\ s < Values16 /\ EventType(s) \in Nat
  <2>1. s \in Nat /\ s + 1 < Values16 /\ s < Values16
    BY SMTT(30), ShardAssumption, WidthsType DEF Values16
  <2>2. s \div Base \in Nat
    BY SMTT(30), <2>1, WidthsType, Split
  <2> QED BY <2>1, <2>2 DEF EventType
<1> QED BY <1>2, <1>3, <1>4, <1>5, <1>6

\* What Seal stores is what GetBlockMeta returns.
LEMMA SealedMetaRead ==
  ASSUME NEW s \in Shards, NEW h \in OpenHours
  PROVE  decodeBlockMeta(encodeBlockMeta(SealedMeta(s, h))) = SealedMeta(s, h)
<1>1. s \in Nat /\ s < Values16 /\ h \in Nat /\ h + 1 \in Nat
  BY SMTT(30), Ranges
<1>2. h < Values64 /\ h + 1 < Values64
  <2>1. h <= MaxHour /\ MaxHour \in Nat /\ RetentionHours \in Nat
    BY SMTT(30), HourAssumption
  <2> QED BY SMTT(30), <1>1, <2>1, NumberAssumption, WidthsType
<1>3. 0 \in Nat /\ 5 \in Nat /\ 7 \in Nat /\ 5 < Values64 /\ 7 < Values32
  BY SMTT(30), WidthsType
<1> QED BY <1>1, <1>2, <1>3, MetaRoundTrip DEF SealedMeta
-----------------------------------------------------------------------------
(* The database *)

\* The keys of the database and their values.
SeqPair(key, val) == \E s \in Shards, n \in Numbers : key = WALSeqKey(s) /\ val = PutUint64(n)
WALPair(key, val) ==
    \E s \in Shards, n \in Numbers, e \in Events : key = WALKey(s, n) /\ val = <<e>>
BlockPair(key, val) ==
    \E s \in Shards, h \in OpenHours :
        key = BlockKey(ID(s, h)) /\ val = encodeBlockMeta(SealedMeta(s, h))
ExpiryPair(key) == \E s \in Shards, h \in OpenHours : key = ExpiryKey(h + RetentionHours, ID(s, h))
IdxPair(key) ==
    \E s \in Shards, h \in OpenHours, k \in Keys :
        k \in KeysOf(s) /\ key = IdxKey(EventType(s), k, ID(s, h))
MigrPair(key) == \E s \in Shards, h \in OpenHours : key = MigrationKey(ID(s, h))

Pair(key, val) ==
    \/ SeqPair(key, val) \/ WALPair(key, val) \/ BlockPair(key, val)
    \/ ExpiryPair(key) \/ IdxPair(key) \/ MigrPair(key)

KeyInv(d) == \A key \in DOMAIN d : Pair(key, d[key])

\* A key that starts with the name of that rank.
Named(key, rank) == \E x \in Bytes : key = Tagged(rank, x)

\* The first byte of a key is the rank of its name.
LEMMA NamedFirst ==
  ASSUME NEW r \in Nat, NEW key, Named(key, r)
  PROVE  key[1] = r
  BY TaggedType DEF Named

\* The names of the keys in use.
LEMMA KeyNames ==
  ASSUME NEW s \in Shards
  PROVE  /\ Named(WALSeqKey(s), 5)
         /\ \A n \in Numbers : Named(WALKey(s, n), 6)
         /\ \A h \in OpenHours : /\ ID(s, h) \in Bytes
                                 /\ Named(BlockKey(ID(s, h)), 1)
                                 /\ Named(ExpiryKey(h + RetentionHours, ID(s, h)), 2)
                                 /\ \A k \in Keys : Named(IdxKey(EventType(s), k, ID(s, h)), 3)
                                 /\ Named(MigrationKey(ID(s, h)), 4)
<1>1. s \in Nat /\ EventType(s) \in Nat
  BY Ranges
<1>2. Named(WALSeqKey(s), 5)
  BY <1>1, WALSeqKeyForm DEF Named
<1>3. ASSUME NEW n \in Numbers PROVE Named(WALKey(s, n), 6)
  BY <1>1, Ranges, WALKeyForm DEF Named
<1>4. ASSUME NEW h \in OpenHours
      PROVE  /\ ID(s, h) \in Bytes
             /\ Named(BlockKey(ID(s, h)), 1)
             /\ Named(ExpiryKey(h + RetentionHours, ID(s, h)), 2)
             /\ \A k \in Keys : Named(IdxKey(EventType(s), k, ID(s, h)), 3)
             /\ Named(MigrationKey(ID(s, h)), 4)
  <2> DEFINE id == ID(s, h)
  <2>1. h \in Nat /\ h + RetentionHours \in Nat
    BY Ranges
  <2>2. id \in Bytes
    BY <1>1, <2>1, IDs
  <2> HIDE DEF id
  <2>3. Named(BlockKey(id), 1) /\ Named(MigrationKey(id), 4)
    BY <2>2, ShortKeyForms DEF Named
  <2>4. Named(ExpiryKey(h + RetentionHours, id), 2)
    BY <2>1, <2>2, ExpiryKeyForm DEF Named
  <2>5. \A k \in Keys : Named(IdxKey(EventType(s), k, id), 3)
    BY SMTT(30), <1>1, <2>2, Ranges, IdxKeyForm DEF Named
  <2> QED BY <2>2, <2>3, <2>4, <2>5 DEF id
<1> QED BY <1>2, <1>3, <1>4

\* The first byte of a key tells which it is.
LEMMA PairByName ==
  ASSUME NEW key, NEW val, Pair(key, val)
  PROVE  \/ Named(key, 1) /\ key[1] = 1 /\ BlockPair(key, val)
         \/ Named(key, 2) /\ key[1] = 2 /\ ExpiryPair(key)
         \/ Named(key, 3) /\ key[1] = 3 /\ IdxPair(key)
         \/ Named(key, 4) /\ key[1] = 4 /\ MigrPair(key)
         \/ Named(key, 5) /\ key[1] = 5 /\ SeqPair(key, val)
         \/ Named(key, 6) /\ key[1] = 6 /\ WALPair(key, val)
<1>1. ASSUME SeqPair(key, val) PROVE Named(key, 5) /\ key[1] = 5
  <2>1. Named(key, 5)
    BY <1>1, KeyNames DEF SeqPair
  <2> QED BY <2>1, NamedFirst
<1>2. ASSUME WALPair(key, val) PROVE Named(key, 6) /\ key[1] = 6
  <2>1. Named(key, 6)
    BY <1>2, KeyNames DEF WALPair
  <2> QED BY <2>1, NamedFirst
<1>3. ASSUME BlockPair(key, val) PROVE Named(key, 1) /\ key[1] = 1
  <2>1. Named(key, 1)
    BY <1>3, KeyNames DEF BlockPair
  <2> QED BY <2>1, NamedFirst
<1>4. ASSUME ExpiryPair(key) PROVE Named(key, 2) /\ key[1] = 2
  <2>1. Named(key, 2)
    BY <1>4, KeyNames DEF ExpiryPair
  <2> QED BY <2>1, NamedFirst
<1>5. ASSUME IdxPair(key) PROVE Named(key, 3) /\ key[1] = 3
  <2>1. Named(key, 3)
    BY <1>5, KeyNames DEF IdxPair
  <2> QED BY <2>1, NamedFirst
<1>6. ASSUME MigrPair(key) PROVE Named(key, 4) /\ key[1] = 4
  <2>1. Named(key, 4)
    BY <1>6, KeyNames DEF MigrPair
  <2> QED BY <2>1, NamedFirst
<1> QED BY <1>1, <1>2, <1>3, <1>4, <1>5, <1>6 DEF Pair

\* The first bytes of the keys.
LEMMA FirstBytes ==
  ASSUME NEW s \in Shards
  PROVE  /\ WALSeqKey(s)[1] = 5
         /\ \A n \in Numbers : WALKey(s, n)[1] = 6
         /\ \A h \in OpenHours : /\ BlockKey(ID(s, h))[1] = 1
                                 /\ ExpiryKey(h + RetentionHours, ID(s, h))[1] = 2
                                 /\ \A k \in Keys : IdxKey(EventType(s), k, ID(s, h))[1] = 3
                                 /\ MigrationKey(ID(s, h))[1] = 4
  BY KeyNames, NamedFirst

\* Keys of one name differ when what they name differs.
LEMMA KeysDiffer ==
  ASSUME NEW s \in Shards, NEW t \in Shards
  PROVE  /\ WALSeqKey(s) = WALSeqKey(t) => s = t
         /\ \A m, n \in Numbers : WALKey(s, m) = WALKey(t, n) => s = t /\ m = n
         /\ \A g, h \in OpenHours :
              /\ BlockKey(ID(s, g)) = BlockKey(ID(t, h)) => s = t /\ g = h
              /\ ExpiryKey(g + RetentionHours, ID(s, g)) = ExpiryKey(h + RetentionHours, ID(t, h))
                   => s = t /\ g = h
              /\ \A k, l \in Keys :
                   IdxKey(EventType(s), k, ID(s, g)) = IdxKey(EventType(t), l, ID(t, h))
                     => s = t /\ k = l /\ g = h
              /\ MigrationKey(ID(s, g)) = MigrationKey(ID(t, h)) => s = t /\ g = h
<1>1. /\ s \in Nat /\ s < Values16 /\ EventType(s) \in Nat
      /\ t \in Nat /\ t < Values16 /\ EventType(t) \in Nat
  BY Ranges
<1>2. WALSeqKey(s) = WALSeqKey(t) => s = t
  <2> SUFFICES ASSUME WALSeqKey(s) = WALSeqKey(t) PROVE s = t
    OBVIOUS
  <2>1. /\ WALSeqKey(s) = Tagged(5, PutUint16(s)) /\ PutUint16(s) \in Bytes
        /\ WALSeqKey(t) = Tagged(5, PutUint16(t)) /\ PutUint16(t) \in Bytes
    BY <1>1, WALSeqKeyForm
  <2>2. PutUint16(s) = PutUint16(t)
    <3>1. 5 \in Nat /\ Tagged(5, PutUint16(s)) = Tagged(5, PutUint16(t))
      BY <2>1
    <3> QED BY SMTT(30), <2>1, <3>1, TaggedInjective
  <2> QED BY <1>1, <2>2, Read16
<1>3. ASSUME NEW m \in Numbers, NEW n \in Numbers, WALKey(s, m) = WALKey(t, n)
      PROVE  s = t /\ m = n
  <2>1. [shard |-> s, seq |-> m] = [shard |-> t, seq |-> n]
    BY <1>1, <1>3, Ranges, ParseWAL
  <2> QED BY <2>1
<1>4. ASSUME NEW g \in OpenHours, NEW h \in OpenHours
      PROVE  /\ BlockKey(ID(s, g)) = BlockKey(ID(t, h)) => s = t /\ g = h
             /\ ExpiryKey(g + RetentionHours, ID(s, g)) = ExpiryKey(h + RetentionHours, ID(t, h))
                  => s = t /\ g = h
             /\ \A k, l \in Keys :
                  IdxKey(EventType(s), k, ID(s, g)) = IdxKey(EventType(t), l, ID(t, h))
                    => s = t /\ k = l /\ g = h
             /\ MigrationKey(ID(s, g)) = MigrationKey(ID(t, h)) => s = t /\ g = h
  <2> DEFINE id == ID(s, g)
             jd == ID(t, h)
  <2>1. /\ g \in Nat /\ g + RetentionHours \in Nat /\ g + RetentionHours < Values64
        /\ h \in Nat /\ h + RetentionHours \in Nat /\ h + RetentionHours < Values64
    BY Ranges
  <2>2. id \in Bytes /\ jd \in Bytes
    BY <1>1, <2>1, IDs
  <2>3. id = jd => s = t /\ g = h
    BY <1>1, <2>1, IDsDiffer
  <2> HIDE DEF id, jd
  <2>4. BlockKey(id) = BlockKey(jd) => id = jd
    BY SMTT(30), <2>2, ShortKeyForms, TaggedInjective
  <2>5. MigrationKey(id) = MigrationKey(jd) => id = jd
    BY <2>2, ParseMigration
  <2>6. ExpiryKey(g + RetentionHours, id) = ExpiryKey(h + RetentionHours, jd) => id = jd
    <3> SUFFICES ASSUME ExpiryKey(g + RetentionHours, id) = ExpiryKey(h + RetentionHours, jd)
                 PROVE  id = jd
      OBVIOUS
    <3>1. [hour |-> g + RetentionHours, id |-> id] = [hour |-> h + RetentionHours, id |-> jd]
      BY <2>1, <2>2, ParseExpiry
    <3> QED BY <3>1
  <2>7. ASSUME NEW k \in Keys, NEW l \in Keys,
               IdxKey(EventType(s), k, id) = IdxKey(EventType(t), l, jd)
        PROVE  id = jd /\ k = l
    BY SMTT(30), <1>1, <2>2, <2>7, Ranges, IdxKeysDiffer
  <2> QED BY <2>3, <2>4, <2>5, <2>6, <2>7 DEF id, jd
<1> QED BY <1>2, <1>3, <1>4
-----------------------------------------------------------------------------
(* What the scans return *)

\* An iterator visits the keys from its lower to below its upper bound.
LEMMA VisitedKeys ==
  ASSUME NEW d, NEW lower, NEW upper
  PROVE  \A key : key \in Visited(d, lower, upper) <=>
                    key \in DOMAIN d /\ ~Before(key, lower) /\ Before(key, upper)
<1> DEFINE keys(range) == {key \in DOMAIN d : ~Before(key, range[1]) /\ Before(key, range[2])}
           r == <<lower, upper>>
<1>1. Visited(d, lower, upper) = UNION {keys(range) : range \in {r}}
  BY DEF Visited
<1>2. @ = keys(r)
  OBVIOUS
<1> QED BY <1>1, <1>2

Nums(d, s) == {n \in Numbers : WALKey(s, n) \in DOMAIN d}

\* The range of a shard holds its own entries, all of them and no other key.
LEMMA WALRangeForm ==
  ASSUME NEW d, KeyInv(d), NEW s \in Shards
  PROVE  \A key : key \in WALRange(d, s) <=> \E n \in Nums(d, s) : key = WALKey(s, n)
<1>1. s \in Nat /\ s + 1 < Values16
  BY Ranges
<1>2. ASSUME NEW key \in WALRange(d, s) PROVE \E n \in Nums(d, s) : key = WALKey(s, n)
  <2>1. key \in DOMAIN d /\ ~Before(key, WALKeyStart(s)) /\ Before(key, WALKeyEnd(s))
    BY <1>2, VisitedKeys DEF WALRange
  <2>2. Pair(key, d[key])
    BY <2>1 DEF KeyInv
  <2>3. ~(\E a \in {1, 2, 3, 4, 5} : Named(key, a))
    BY SMTT(30), <1>1, <2>1, WALRangeKeys DEF Named
  <2>4. WALPair(key, d[key])
    BY <2>2, <2>3, PairByName
  <2>5. PICK t \in Shards, n \in Numbers : key = WALKey(t, n)
    BY <2>4 DEF WALPair
  <2>6. t = s
    BY <1>1, <2>1, <2>5, Ranges, WALRangeKeys
  <2> QED BY <2>1, <2>5, <2>6 DEF Nums
<1>3. ASSUME NEW n \in Nums(d, s) PROVE WALKey(s, n) \in WALRange(d, s)
  <2>1. n \in Numbers /\ WALKey(s, n) \in DOMAIN d
    BY DEF Nums
  <2>2. ~Before(WALKey(s, n), WALKeyStart(s)) /\ Before(WALKey(s, n), WALKeyEnd(s))
    BY <1>1, <2>1, Ranges, WALRangeKeys
  <2> QED BY <2>1, <2>2, VisitedKeys DEF WALRange
<1> QED BY <1>2, <1>3

\* FindOrphanedWALShards finds a shard when it has entries.
LEMMA OrphansForm ==
  ASSUME KeyInv(db), NEW s \in Shards
  PROVE  s \in FindOrphanedWALShards <=> Nums(db, s) # {}
<1>1. WALRange(db, s) # {} <=> Nums(db, s) # {}
  BY WALRangeForm
<1>2. ASSUME NEW n \in Nums(db, s)
      PROVE  s \in {ParseWALKey(key).shard : key \in Visited(db, prefixWAL, Increment(prefixWAL))}
  <2>1. n \in Numbers /\ WALKey(s, n) \in DOMAIN db /\ s \in Nat
    BY Ranges DEF Nums
  <2>2. PICK x \in Bytes : WALKey(s, n) = Tagged(6, x)
    BY <2>1, KeyNames DEF Named
  <2>3. ~Before(WALKey(s, n), prefixWAL) /\ Before(WALKey(s, n), Increment(prefixWAL))
    BY SMTT(30), <2>2, NameRange DEF prefixWAL
  <2>4. WALKey(s, n) \in Visited(db, prefixWAL, Increment(prefixWAL))
    BY <2>1, <2>3, VisitedKeys
  <2>5. ParseWALKey(WALKey(s, n)).shard = s
    BY SMTT(30), <2>1, Ranges, ParseWAL
  <2> QED BY <2>4, <2>5
<1> QED BY <1>1, <1>2 DEF FindOrphanedWALShards

BlkOf(d, s) == {h \in OpenHours : BlockKey(ID(s, h)) \in DOMAIN d}

\* GetBlockMeta finds the metadata as Seal stored them.
LEMMA BlkForm ==
  ASSUME KeyInv(db), NEW s \in Shards
  PROVE  {h \in OpenHours : SealedMeta(s, h) \in GetBlockMeta(BlockIDFromShardAndHour(s, h))}
           = BlkOf(db, s)
<1> SUFFICES ASSUME NEW h \in OpenHours
             PROVE  SealedMeta(s, h) \in GetBlockMeta(ID(s, h)) <=> BlockKey(ID(s, h)) \in DOMAIN db
  BY DEF BlkOf, ID
<1> DEFINE key == BlockKey(ID(s, h))
<1>1. SealedMeta(s, h) \in GetBlockMeta(ID(s, h)) => key \in DOMAIN db
  BY DEF GetBlockMeta
<1>2. ASSUME key \in DOMAIN db PROVE SealedMeta(s, h) \in GetBlockMeta(ID(s, h))
  <2>1. Pair(key, db[key]) /\ key[1] = 1
    BY <1>2, FirstBytes DEF KeyInv
  <2>2. BlockPair(key, db[key])
    BY SMTT(30), <2>1, PairByName
  <2>3. PICK t \in Shards, g \in OpenHours :
          key = BlockKey(ID(t, g)) /\ db[key] = encodeBlockMeta(SealedMeta(t, g))
    BY <2>2 DEF BlockPair
  <2>4. t = s /\ g = h
    BY SMTT(30), <2>3, KeysDiffer
  <2>5. decodeBlockMeta(db[key]) = SealedMeta(s, h)
    BY <2>3, <2>4, SealedMetaRead
  <2> QED BY <1>2, <2>5 DEF GetBlockMeta
<1> QED BY <1>1, <1>2

HasExpiry(d, s, h) == ExpiryKey(h + RetentionHours, ID(s, h)) \in DOMAIN d
Entry(s, h) == [hour |-> h + RetentionHours, id |-> ID(s, h)]
ExpOf(d, s) == {<<h + RetentionHours, h>> : h \in {g \in OpenHours : HasExpiry(d, s, g)}}

\* ScanExpiredEntries returns the blocks whose hour has come.
LEMMA ExpiredForm ==
  ASSUME KeyInv(db), NEW now \in Nat, now + 1 < Values64
  PROVE  \A x : x \in ScanExpiredEntries(now) <=>
           \E s \in Shards, h \in OpenHours :
              HasExpiry(db, s, h) /\ h + RetentionHours <= now /\ x = Entry(s, h)
<1> DEFINE V == Visited(db, prefixExpiry, ExpiryKeyUpperBound(now))
           X(s, h) == ExpiryKey(h + RetentionHours, ID(s, h))
<1>1. ASSUME NEW s \in Shards, NEW h \in OpenHours
      PROVE  /\ ParseExpiryKey(X(s, h)) = Entry(s, h)
             /\ X(s, h) \in V <=> HasExpiry(db, s, h) /\ h + RetentionHours <= now
  <2>1. ID(s, h) \in Bytes /\ h + RetentionHours \in Nat /\ h + RetentionHours < Values64
    BY KeyNames, Ranges
  <2>2. ParseExpiryKey(X(s, h)) = Entry(s, h)
    BY <2>1, ParseExpiry DEF Entry
  <2>3. ~Before(X(s, h), prefixExpiry) /\ Before(X(s, h), ExpiryKeyUpperBound(now))
          <=> h + RetentionHours <= now
    BY <2>1, ExpiryRangeKeys
  <2> QED BY SMTT(30), <2>2, <2>3, VisitedKeys DEF HasExpiry
<1>2. ASSUME NEW key \in V PROVE \E s \in Shards, h \in OpenHours : key = X(s, h)
  <2>1. key \in DOMAIN db /\ ~Before(key, prefixExpiry) /\ Before(key, ExpiryKeyUpperBound(now))
    BY <1>2, VisitedKeys
  <2>2. Pair(key, db[key])
    BY <2>1 DEF KeyInv
  <2>3. ~(\E a \in {1, 3, 4, 5, 6} : Named(key, a))
    BY SMTT(30), <2>1, ExpiryRangeKeys DEF Named
  <2>4. ExpiryPair(key)
    BY <2>2, <2>3, PairByName
  <2> QED BY <2>4 DEF ExpiryPair
<1>3. ScanExpiredEntries(now) = {ParseExpiryKey(key) : key \in V}
  BY DEF ScanExpiredEntries
<1> HIDE DEF V, X
<1> QED BY SMTT(30), <1>1, <1>2, <1>3

\* The expiry entries of a shard are found from their hour on and not before.
LEMMA ExpForm ==
  ASSUME KeyInv(db), NEW s \in Shards
  PROVE  Expiries(s) = ExpOf(db, s)
<1> DEFINE R == RetentionHours
           IDS == {BlockIDFromShardAndHour(s, hour) : hour \in OpenHours}
           Xs == {x \in ScanExpiredEntries(LastHour) :
                    /\ x.id \in IDS
                    /\ x \in ScanExpiredEntries(x.hour) /\ x \notin ScanExpiredEntries(x.hour - 1)}
<1>1. \A t \in Shards, h \in OpenHours :
         /\ Entry(t, h).hour = h + R /\ Entry(t, h).id = ID(t, h) /\ HourOf(ID(t, h)) = h
         /\ \A g \in OpenHours : ID(t, h) = ID(s, g) => t = s /\ g = h
  <2> SUFFICES ASSUME NEW t \in Shards, NEW h \in OpenHours
               PROVE  /\ Entry(t, h).hour = h + R /\ Entry(t, h).id = ID(t, h)
                           /\ HourOf(ID(t, h)) = h
                      /\ \A g \in OpenHours : ID(t, h) = ID(s, g) => t = s /\ g = h
    OBVIOUS
  <2>1. Entry(t, h).hour = h + R /\ Entry(t, h).id = ID(t, h)
    BY DEF Entry
  <2>2. /\ t \in Nat /\ t < Values16 /\ h \in Nat /\ s \in Nat /\ s < Values16
        /\ \A g \in OpenHours : g \in Nat
    BY Ranges
  <2>3. HourOf(ID(t, h)) = h
    BY <2>2, IDs
  <2>4. \A g \in OpenHours : ID(t, h) = ID(s, g) => t = s /\ g = h
    BY <2>2, IDsDiffer
  <2> QED BY <2>1, <2>3, <2>4
<1>2. ASSUME NEW t \in Shards, NEW h \in OpenHours, HasExpiry(db, t, h)
      PROVE  /\ Entry(t, h) \in ScanExpiredEntries(LastHour)
             /\ Entry(t, h) \in ScanExpiredEntries(h + R)
             /\ Entry(t, h) \notin ScanExpiredEntries((h + R) - 1)
  <2>1. /\ h + R \in Nat /\ (h + R) + 1 < Values64 /\ h + R <= LastHour
        /\ (h + R) - 1 \in Nat /\ ((h + R) - 1) + 1 < Values64
        /\ LastHour \in Nat /\ LastHour + 1 < Values64
    BY SMTT(30), Ranges, WidthsType
  <2>2. Entry(t, h) \in ScanExpiredEntries(LastHour)
    BY <1>2, <2>1, ExpiredForm
  <2>3. Entry(t, h) \in ScanExpiredEntries(h + R)
    <3>1. h + R <= h + R
      BY SMTT(30), <2>1
    <3> HIDE DEF R
    <3> QED BY <1>2, <2>1, <3>1, ExpiredForm DEF R
  <2>4. ASSUME Entry(t, h) \in ScanExpiredEntries((h + R) - 1) PROVE FALSE
    <3>1. PICK u \in Shards, g \in OpenHours : g + R <= (h + R) - 1 /\ Entry(t, h) = Entry(u, g)
      BY <2>1, <2>4, ExpiredForm
    <3>2. h + R = g + R
      BY SMTT(30), <1>1, <3>1
    <3> QED BY SMTT(30), <2>1, <3>1, <3>2
  <2> QED BY <2>2, <2>3, <2>4
<1>3. \A x \in ScanExpiredEntries(LastHour) :
         \E t \in Shards, h \in OpenHours : HasExpiry(db, t, h) /\ x = Entry(t, h)
  BY Ranges, ExpiredForm
<1>4. \A x : x \in Xs <=> \E h \in OpenHours : HasExpiry(db, s, h) /\ x = Entry(s, h)
  <2>1. ASSUME NEW x \in Xs PROVE \E h \in OpenHours : HasExpiry(db, s, h) /\ x = Entry(s, h)
    <3>1. PICK t \in Shards, h \in OpenHours : HasExpiry(db, t, h) /\ x = Entry(t, h)
      BY <1>3
    <3>2. PICK g \in OpenHours : x.id = ID(s, g)
      BY DEF ID
    <3>3. t = s
      BY SMTT(30), <1>1, <3>1, <3>2
    <3> QED BY <3>1, <3>3
  <2>2. ASSUME NEW h \in OpenHours, HasExpiry(db, s, h) PROVE Entry(s, h) \in Xs
    <3>1. Entry(s, h).hour = h + R /\ Entry(s, h).id \in IDS
      BY SMTT(30), <1>1 DEF ID
    <3> HIDE DEF IDS
    <3> QED BY <1>2, <2>2, <3>1
  <2> HIDE DEF Xs
  <2> QED BY <2>1, <2>2
<1>5. Expiries(s) = {<<entry.hour, HourOf(entry.id)>> : entry \in Xs}
  BY DEF Expiries
<1> HIDE DEF Xs
<1>6. \A h \in OpenHours : <<Entry(s, h).hour, HourOf(Entry(s, h).id)>> = <<h + R, h>>
  BY <1>1
<1> QED BY SMTT(30), <1>4, <1>5, <1>6 DEF ExpOf

IdxOf(d, s) == {x \in KeysOf(s) \X OpenHours : IdxKey(EventType(s), x[1], ID(s, x[2])) \in DOMAIN d}

\* The shard of a hash is determined by the event type.
LEMMA OneShard ==
  ASSUME NEW s \in Shards, NEW t \in Shards, NEW k, k \in KeysOf(s), k \in KeysOf(t),
         EventType(s) = EventType(t)
  PROVE  s = t
  BY DEF KeysOf

\* IdxLookupBlocks returns the blocks of the shard to which the hash belongs.
LEMMA IdxForm ==
  ASSUME NEW d, KeyInv(d), NEW s \in Shards
  PROVE  Indexed(d, s) = IdxOf(d, s)
<1> DEFINE et == EventType(s)
           I(t, k, h) == IdxKey(EventType(t), k, ID(t, h))
           V(k) == Visited(d, IdxKeyPrefix(et, k), Increment(IdxKeyPrefix(et, k)))
<1>1. /\ et \in Nat /\ \A k \in KeysOf(s) : k \in Keys /\ k \in Nat /\ k < Values64
      /\ \A t \in Shards : EventType(t) \in Nat
      /\ \A k \in Keys : k \in Nat /\ k < Values64
  BY Ranges DEF KeysOf
<1>2. ASSUME NEW k \in KeysOf(s), NEW key \in V(k)
      PROVE  \E h \in OpenHours : key = I(s, k, h) /\ key \in DOMAIN d
  <2>1. /\ key \in DOMAIN d /\ ~Before(key, IdxKeyPrefix(et, k))
        /\ Before(key, Increment(IdxKeyPrefix(et, k)))
    BY <1>2, VisitedKeys
  <2>2. Pair(key, d[key])
    BY <2>1 DEF KeyInv
  <2>3. ~(\E a \in {1, 2, 4, 5, 6} : Named(key, a))
    BY SMTT(30), <1>1, <2>1, IdxRangeKeys DEF Named
  <2>4. IdxPair(key)
    BY <2>2, <2>3, PairByName
  <2>5. PICK t \in Shards, h \in OpenHours, l \in Keys : l \in KeysOf(t) /\ key = I(t, l, h)
    BY <2>4 DEF IdxPair
  <2>6. ID(t, h) \in Bytes
    BY KeyNames
  <2>7. EventType(t) = et /\ l = k
    BY <1>1, <2>1, <2>5, <2>6, IdxRangeKeys
  <2>8. t = s
    BY <2>5, <2>7, OneShard
  <2> QED BY <2>1, <2>5, <2>7, <2>8
<1>3. ASSUME NEW k \in KeysOf(s), NEW h \in OpenHours
      PROVE  /\ I(s, k, h) \in DOMAIN d => I(s, k, h) \in V(k)
             /\ HourOf(ParseIdxKey(I(s, k, h))) = h
  <2>1. ID(s, h) \in Bytes /\ HourOf(ID(s, h)) = h
    BY Ranges, IDs
  <2>2. ParseIdxKey(I(s, k, h)) = ID(s, h)
    BY <1>1, <2>1, ParseIdx
  <2>3. /\ ~Before(I(s, k, h), IdxKeyPrefix(et, k))
        /\ Before(I(s, k, h), Increment(IdxKeyPrefix(et, k)))
    BY <1>1, <2>1, IdxRangeKeys
  <2> QED BY SMTT(30), <2>1, <2>2, <2>3, VisitedKeys
<1> DEFINE P(k) == {<<k, HourOf(id)>> : id \in IdxLookupBlocks(d, et, k)}
<1>4. \A k \in KeysOf(s) : P(k) = {<<k, HourOf(ParseIdxKey(key))>> : key \in V(k)}
  BY DEF IdxLookupBlocks
<1>5. Indexed(d, s) = UNION {P(k) : k \in KeysOf(s)}
  BY DEF Indexed
<1> HIDE DEF P, V
<1>6. ASSUME NEW k \in KeysOf(s), NEW x \in P(k) PROVE x \in IdxOf(d, s)
  <2>1. PICK key \in V(k) : x = <<k, HourOf(ParseIdxKey(key))>>
    BY <1>4, <1>6
  <2>2. PICK h \in OpenHours : key = I(s, k, h) /\ key \in DOMAIN d
    BY <1>2
  <2>3. x = <<k, h>>
    BY <1>3, <2>1, <2>2
  <2> QED BY <2>2, <2>3 DEF IdxOf
<1>7. ASSUME NEW x \in IdxOf(d, s) PROVE \E k \in KeysOf(s) : x \in P(k)
  <2>1. PICK k \in KeysOf(s), h \in OpenHours : x = <<k, h>> /\ I(s, k, h) \in DOMAIN d
    BY SMTT(30), <1>7 DEF IdxOf
  <2>2. I(s, k, h) \in V(k) /\ HourOf(ParseIdxKey(I(s, k, h))) = h
    BY <1>3, <2>1
  <2> HIDE DEF I
  <2> QED BY <1>4, <2>1, <2>2
<1>8. Indexed(d, s) \subseteq IdxOf(d, s)
  BY <1>5, <1>6
<1>9. IdxOf(d, s) \subseteq Indexed(d, s)
  BY <1>5, <1>7
<1> QED BY <1>8, <1>9
-----------------------------------------------------------------------------
(* What a shard sees, in terms of its keys *)

WalOf(d, s) == {[seq |-> n + 1, event |-> d[WALKey(s, n)][1]] : n \in Nums(d, s)}

CountOf(d, s) == IF WALSeqKey(s) \in DOMAIN d THEN Uint64(d[WALSeqKey(s)]) + 1 ELSE 0

ViewOf(d, e, s) ==
    [walSeq |-> CountOf(d, s),
     wal |-> WalOf(d, s), blk |-> BlkOf(d, s), exp |-> ExpOf(d, s),
     idx |-> IdxOf(d, s), idxSynced |-> IdxOf(e, s)]

\* Through the functions that read, a shard sees its own keys.
LEMMA ViewForm ==
  KeyInv(db) /\ KeyInv(disk) => \A s \in Shards : View(s) = ViewOf(db, disk, s)
<1> SUFFICES ASSUME KeyInv(db), KeyInv(disk), NEW s \in Shards
             PROVE  View(s) = ViewOf(db, disk, s)
  OBVIOUS
<1> DEFINE wal == IF s \notin FindOrphanedWALShards THEN {}
                  ELSE {[seq |-> ParseWALKey(key).seq + 1, event |-> db[key][1]] :
                           key \in WALRange(db, s)}
           blk == {hour \in OpenHours :
                     SealedMeta(s, hour) \in GetBlockMeta(BlockIDFromShardAndHour(s, hour))}
<1>1. wal = WalOf(db, s)
  <2>1. CASE Nums(db, s) = {}
    <3>1. s \notin FindOrphanedWALShards
      BY <2>1, OrphansForm
    <3>2. WalOf(db, s) = {}
      BY <2>1 DEF WalOf
    <3> QED BY <3>1, <3>2
  <2>2. CASE Nums(db, s) # {}
    <3> DEFINE rec(key) == [seq |-> ParseWALKey(key).seq + 1, event |-> db[key][1]]
               new(n) == [seq |-> n + 1, event |-> db[WALKey(s, n)][1]]
    <3>1. wal = {rec(key) : key \in WALRange(db, s)}
      BY <2>2, OrphansForm
    <3>2. \A n \in Nums(db, s) : ParseWALKey(WALKey(s, n)).seq = n
      BY SMTT(30), Ranges, ParseWAL DEF Nums
    <3>3. \A n \in Nums(db, s) : rec(WALKey(s, n)) = new(n)
      BY <3>2
    <3> HIDE DEF rec, new
    <3>4. {rec(key) : key \in WALRange(db, s)} = {new(n) : n \in Nums(db, s)}
      BY SMTT(30), <3>3, WALRangeForm
    <3> QED BY <3>1, <3>4 DEF WalOf, new
  <2> QED BY <2>1, <2>2
<1>2. blk = BlkOf(db, s)
  BY BlkForm
<1>3. Expiries(s) = ExpOf(db, s) /\ Indexed(db, s) = IdxOf(db, s)
        /\ Indexed(disk, s) = IdxOf(disk, s)
  BY ExpForm, IdxForm
<1>4. View(s) = [walSeq |-> Count(s), wal |-> wal, blk |-> blk, exp |-> Expiries(s),
                 idx |-> Indexed(db, s), idxSynced |-> Indexed(disk, s)]
  BY DEF View
<1> HIDE DEF wal, blk
<1> QED BY <1>1, <1>2, <1>3, <1>4 DEF ViewOf, Count, CountOf

\* ScanInProgressMigrations and GetMigrationMeta see the same keys.
LEMMA MigrationsForm ==
  ASSUME KeyInv(db)
  PROVE  MigrationsFound
<1> DEFINE V == Visited(db, prefixMigr, Increment(prefixMigr))
           M(s, h) == MigrationKey(ID(s, h))
<1>1. ASSUME NEW s \in Shards, NEW h \in OpenHours
      PROVE  M(s, h) \in V <=> M(s, h) \in DOMAIN db
  <2>1. PICK x \in Bytes : M(s, h) = Tagged(4, x)
    BY KeyNames DEF Named
  <2>2. ~Before(M(s, h), prefixMigr) /\ Before(M(s, h), Increment(prefixMigr))
    BY SMTT(30), <2>1, NameRange DEF prefixMigr
  <2> QED BY <2>2, VisitedKeys
<1>2. ASSUME NEW key \in V PROVE \E s \in Shards, h \in OpenHours : key = M(s, h)
  <2>1. key \in DOMAIN db /\ ~Before(key, prefixMigr) /\ Before(key, Increment(prefixMigr))
    BY <1>2, VisitedKeys
  <2>2. Pair(key, db[key])
    BY <2>1 DEF KeyInv
  <2>3. ~(\E a \in {1, 2, 3, 5, 6} : Named(key, a))
    BY SMTT(30), <2>1, NameRange DEF Named, prefixMigr
  <2>4. MigrPair(key)
    BY <2>2, <2>3, PairByName
  <2> QED BY <2>4 DEF MigrPair
<1>3. \A s \in Shards, h \in OpenHours : ParseMigrationKey(M(s, h)) = ID(s, h)
  BY KeyNames, ParseMigration
<1>4. \A id : GetMigrationMeta(id) # {} <=> MigrationKey(id) \in DOMAIN db
  BY DEF GetMigrationMeta
<1>5. BlockIDs = {ID(s, h) : s \in Shards, h \in OpenHours}
  BY SMTT(30) DEF BlockIDs, ID
<1>6. ScanInProgressMigrations = {ParseMigrationKey(key) : key \in V}
  BY DEF ScanInProgressMigrations
<1> HIDE DEF V
<1>7. ScanInProgressMigrations \subseteq {id \in BlockIDs : GetMigrationMeta(id) # {}}
  BY SMTT(30), <1>1, <1>2, <1>3, <1>4, <1>5, <1>6
<1>8. {id \in BlockIDs : GetMigrationMeta(id) # {}} \subseteq ScanInProgressMigrations
  BY SMTT(30), <1>1, <1>3, <1>4, <1>5, <1>6
<1> QED BY <1>7, <1>8 DEF MigrationsFound
-----------------------------------------------------------------------------
(* The log of a shard *)

Limit(d, s, p) == IF p = None THEN CountOf(d, s) ELSE p

Values == {<<e>> : e \in Events}

\* The entries are the events appended, under increasing numbers.
Log(d, s, p, a) ==
    \E f \in [1..Len(a) -> Numbers] :
        /\ \A i, j \in 1..Len(a) : i < j => f[i] < f[j]
        /\ \A n \in Numbers : n \in Nums(d, s) <=> \E i \in 1..Len(a) : n = f[i]
        /\ \A i \in 1..Len(a) : d[WALKey(s, f[i])] = a[i] /\ f[i] < Limit(d, s, p)
=============================================================================
