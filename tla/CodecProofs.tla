---------------------------- MODULE CodecProofs ----------------------------
(***************************************************************************)
(* The bytes of the exchange.                                              *)
(*                                                                         *)
(*  1. Every request that can be encoded is understood by the reader,      *)
(*     whatever its fields: the bytes of a frame are well formed, and the  *)
(*     reader finds each field where Command::to_bytes has put it.         *)
(*  2. Of any answer frame, no proper beginning is parsed, and the whole   *)
(*     is read for its data.                                               *)
(*  3. Whatever is in the buffer, reading it is what Exchange says it is:  *)
(*     the bytes refine the atoms.  So what is proved of the atoms, for    *)
(*     any number of calls and frames, holds of the bytes.                 *)
(*  4. A call returns what was meant by the answer it took.                *)
(*                                                                         *)
(* A buffer is described by the stream s of what it holds: each byte has   *)
(* its place in the answers D to the requests S.  The lemmas on streams    *)
(* are about any S and D, so that they can be used of a state and of the   *)
(* next one alike.                                                         *)
(***************************************************************************)
EXTENDS ByteExchange, DataProofs

-----------------------------------------------------------------------------
(* The checksum.                                                           *)

(* The sums of the beginnings of s, which ByteSum is the last of.          *)
Sums(s, sum) ==
    /\ sum \in [0..Len(s) -> Nat]
    /\ sum[0] = 0
    /\ \A i \in 1..Len(s) : sum[i] = sum[i - 1] + s[i]

LEMMA SumsExist ==
    ASSUME NEW s \in Seq(Nat)
    PROVE  \E sum : Sums(s, sum)
<1> DEFINE UpToN(n) ==
              \E f : /\ f \in [0..n -> Nat] /\ f[0] = 0
                     /\ \A i \in 1..n : f[i] = f[i - 1] + s[i]
           Bad == {n \in 0..Len(s) : ~UpToN(n)}
<1>1. Len(s) \in Nat
  OBVIOUS
<1>2. UpToN(0)
  <2>1. LET f == [i \in 0..0 |-> 0]
        IN f \in [0..0 -> Nat] /\ f[0] = 0 /\ \A i \in 1..0 : FALSE
    OBVIOUS
  <2> QED
    BY <2>1
<1>3. ASSUME NEW n \in Nat, n + 1 \in 0..Len(s), UpToN(n)
      PROVE  UpToN(n + 1)
  <2>1. PICK f : /\ f \in [0..n -> Nat] /\ f[0] = 0
                 /\ \A i \in 1..n : f[i] = f[i - 1] + s[i]
    BY <1>3
  <2> DEFINE g == [i \in 0..(n + 1) |-> IF i = n + 1 THEN f[n] + s[n + 1]
                                        ELSE f[i]]
  <2>2. s[n + 1] \in Nat
    BY <1>1, <1>3
  <2>3. g \in [0..(n + 1) -> Nat] /\ g[0] = 0
    BY <2>1, <2>2
  <2>4. ASSUME NEW i \in 1..(n + 1)
        PROVE  g[i] = g[i - 1] + s[i]
    <3>1. CASE i = n + 1
      BY <3>1
    <3>2. CASE i # n + 1
      <4>1. i \in 1..n
        BY <3>2
      <4> QED
        BY <2>1, <4>1
    <3> QED
      BY <3>1, <3>2
  <2> HIDE DEF g
  <2> QED
    BY <2>3, <2>4
<1>4. Bad = {}
  <2> SUFFICES ASSUME Bad # {}
               PROVE  FALSE
    OBVIOUS
  <2> HIDE DEF UpToN
  <2>1. PICK m \in Bad : \A i \in Bad : m <= i
    <3>1. Bad \in SUBSET Nat
      BY <1>1
    <3> HIDE DEF Bad
    <3> QED
      BY <3>1, LeastNumber
  <2>2. m \in 0..Len(s) /\ ~UpToN(m)
    BY <2>1
  <2>3. m # 0
    BY <1>2, <2>2
  <2>4. UpToN(m - 1)
    <3>1. m - 1 \in 0..Len(s) /\ ~(m <= m - 1)
      BY <1>1, <2>2, <2>3
    <3> QED
      BY <2>1, <3>1
  <2>5. m - 1 \in Nat /\ (m - 1) + 1 = m
    BY <1>1, <2>2, <2>3
  <2>6. (m - 1) + 1 \in 0..Len(s)
    BY <2>2, <2>5
  <2>7. UpToN((m - 1) + 1)
    BY <1>3, <2>4, <2>5, <2>6
  <2> QED
    BY <2>2, <2>5, <2>7
<1>5. UpToN(Len(s))
  <2> HIDE DEF UpToN
  <2>1. Len(s) \in 0..Len(s)
    BY <1>1
  <2> QED
    BY <1>4, <2>1
<1> QED
  BY <1>5 DEF Sums

LEMMA SumsUnique ==
    ASSUME NEW s \in Seq(Nat), NEW f, NEW g, NEW n \in 0..Len(s),
           f[0] = g[0],
           \A i \in 1..n : /\ f[i] = f[i - 1] + s[i]
                           /\ g[i] = g[i - 1] + s[i]
    PROVE  f[n] = g[n]
<1> DEFINE Bad == {i \in 0..n : f[i] # g[i]}
<1>1. n \in Nat
  OBVIOUS
<1>2. Bad = {}
  <2> SUFFICES ASSUME Bad # {}
               PROVE  FALSE
    OBVIOUS
  <2>1. PICK m \in Bad : \A i \in Bad : m <= i
    <3>1. Bad \in SUBSET Nat
      BY <1>1
    <3> HIDE DEF Bad
    <3> QED
      BY <3>1, LeastNumber
  <2>2. m \in 0..n /\ f[m] # g[m] /\ m # 0
    BY <2>1
  <2>3. m - 1 \in 0..n /\ ~(m <= m - 1)
    BY <1>1, <2>2
  <2>4. f[m - 1] = g[m - 1]
    BY <2>1, <2>3
  <2>5. m \in 1..n
    BY <1>1, <2>2
  <2> QED
    BY <2>2, <2>4, <2>5
<1> QED
  BY <1>1, <1>2

LEMMA ByteSumForm ==
    ASSUME NEW s \in Seq(Nat), NEW f, Sums(s, f)
    PROVE  ByteSum(s) = f[Len(s)] % 256
<1> DEFINE Step(g) == [i \in 0..Len(s) |-> IF i = 0 THEN 0
                                           ELSE g[i - 1] + s[i]]
           sum == CHOOSE g : g = Step(g)
<1>1. Len(s) \in Nat
  OBVIOUS
<1>2. f = Step(f)
  BY <1>1 DEF Sums
<1>3. sum = Step(sum)
  <2> HIDE DEF Step
  <2> QED
    BY <1>2
<1>4. ByteSum(s) = sum[Len(s)] % 256
  BY Zenon DEF ByteSum
<1>5. /\ f[0] = 0 /\ sum[0] = 0
      /\ \A i \in 1..Len(s) : /\ f[i] = f[i - 1] + s[i]
                              /\ sum[i] = sum[i - 1] + s[i]
  <2> HIDE DEF sum
  <2> QED
    BY <1>1, <1>3 DEF Sums
<1> HIDE DEF sum
<1>6. PICK g : g = sum
  OBVIOUS
<1>7. PICK n : n = Len(s) /\ n \in 0..Len(s)
  BY <1>1
<1>8. /\ f[0] = g[0]
      /\ \A i \in 1..n : f[i] = f[i - 1] + s[i] /\ g[i] = g[i - 1] + s[i]
  BY <1>5, <1>6, <1>7
<1>9. f[n] = g[n]
  BY <1>7, <1>8, SumsUnique, Zenon
<1> QED
  BY <1>4, <1>6, <1>7, <1>9

(* A byte more adds to the sum; so the checksum makes it 0.                *)
LEMMA SumAppend ==
    ASSUME NEW s \in Seq(Nat), NEW x \in Nat
    PROVE  /\ ByteSum(s) \in Byte
           /\ ByteSum(Append(s, x)) = (ByteSum(s) + x) % 256
<1>1. PICK f : Sums(s, f)
  BY SumsExist
<1> DEFINE t == Append(s, x)
           n == Len(s)
<1>2. /\ t \in Seq(Nat) /\ Len(t) = n + 1 /\ n \in Nat
      /\ t[n + 1] = x /\ \A i \in 1..n : t[i] = s[i]
  OBVIOUS
<1>3. PICK g : Sums(t, g)
  BY <1>2, SumsExist
<1> HIDE DEF t
<1>4. f[n] = g[n]
  <2>1. f[0] = g[0] /\ n \in 0..Len(s)
    BY <1>1, <1>2, <1>3 DEF Sums
  <2>2. \A i \in 1..n : f[i] = f[i - 1] + s[i] /\ g[i] = g[i - 1] + s[i]
    BY <1>1, <1>2, <1>3 DEF Sums
  <2> QED
    BY <2>1, <2>2, SumsUnique
<1>5. g[n + 1] = f[n] + x /\ f[n] \in Nat
  <2>1. n + 1 \in 1..Len(t) /\ (n + 1) - 1 = n /\ n \in 0..Len(s)
    BY <1>2
  <2> QED
    BY <1>1, <1>2, <1>3, <1>4, <2>1 DEF Sums
<1>6. ByteSum(s) = f[n] % 256 /\ ByteSum(t) = (f[n] + x) % 256
  BY <1>1, <1>2, <1>3, <1>5, ByteSumForm
<1>7. ASSUME NEW a \in Nat
      PROVE  /\ a % 256 \in 0..255
             /\ (a + x) % 256 = ((a % 256) + x) % 256
  OBVIOUS
<1>8. /\ f[n] % 256 \in 0..255
      /\ (f[n] + x) % 256 = ((f[n] % 256) + x) % 256
  BY <1>5, <1>7
<1> QED
  BY <1>6, <1>8 DEF t, Byte

LEMMA ChecksumForm ==
    ASSUME NEW s \in Seq(Nat)
    PROVE  /\ Checksum(s) \in Byte
           /\ ByteSum(Append(s, Checksum(s))) = 0
<1> DEFINE b == ByteSum(s)
           x == Checksum(s)
<1>1. b \in Byte /\ x = (256 - b) % 256
  BY SumAppend DEF Checksum
<1> HIDE DEF b, x
<1>2. x \in Byte /\ x \in Nat /\ (b + x) % 256 = 0
  BY <1>1 DEF Byte
<1>3. ByteSum(Append(s, x)) = (ByteSum(s) + x) % 256
  BY <1>2, SumAppend
<1> QED
  BY <1>2, <1>3 DEF b, x

-----------------------------------------------------------------------------
(* Frames.                                                                 *)

(* The bytes of a frame: the header, its length, the address, the payload  *)
(* and the checksum.                                                       *)
LEMMA FramedForm ==
    ASSUME NEW p \in Seq(Byte), Len(p) \in 1..253
    PROVE  LET f == Framed(p)
           IN /\ f \in Seq(Byte) /\ Len(f) = Len(p) + 4
              /\ f[1] = HEADER /\ f[2] = Len(p) + 2 /\ f[3] = ADDRESS
              /\ \A i \in 1..Len(p) : f[i + 3] = p[i]
              /\ Front(f) \in Seq(Nat) /\ f[Len(f)] = Checksum(Front(f))
              /\ ByteSum(f) = 0
<1>1. PICK n : n = Len(p)
  OBVIOUS
<1>2. PICK h : h = <<160, (n + 2) % 256, 1>>
  OBVIOUS
<1>3. PICK v : v = h \o p
  OBVIOUS
<1>4. PICK x : x = Checksum(v)
  OBVIOUS
<1>5. PICK f : f = Append(v, x)
  OBVIOUS
<1>6. Framed(p) = f
  BY <1>1, <1>2, <1>3, <1>4, <1>5 DEF Framed, HEADER, ADDRESS
<1>7. n \in 1..253
  BY <1>1
<1>8. h \in Seq(Byte) /\ Len(h) = 3 /\ h[1] = 160 /\ h[2] = n + 2 /\ h[3] = 1
  <2>1. (n + 2) % 256 = n + 2 /\ n + 2 \in 0..255
    BY <1>7
  <2>2. h = <<160, n + 2, 1>>
    BY <1>2, <2>1
  <2>3. {160, n + 2, 1} \subseteq Byte
    BY <2>1 DEF Byte
  <2> QED
    BY <2>2, <2>3
<1>9. /\ v \in Seq(Byte) /\ Len(v) = n + 3
      /\ v[1] = 160 /\ v[2] = n + 2 /\ v[3] = 1
      /\ \A i \in 1..n : v[i + 3] = p[i]
  <2>1. /\ v \in Seq(Byte) /\ Len(v) = Len(h) + Len(p)
        /\ \A i \in 1..(Len(h) + Len(p)) :
              v[i] = IF i <= Len(h) THEN h[i] ELSE p[i - Len(h)]
    <3>1. h \in Seq(Byte)
      BY <1>8
    <3> QED
      BY <1>3, <3>1, ConcatProperties
  <2>2. /\ Len(v) = 3 + n
        /\ \A i \in 1..(3 + n) : v[i] = IF i <= 3 THEN h[i] ELSE p[i - 3]
    <3>1. Len(h) = 3 /\ Len(p) = n
      BY <1>1, <1>8
    <3> QED
      BY <2>1, <3>1
  <2>3. \A i \in 1..n :
            i + 3 \in 1..(3 + n) /\ ~(i + 3 <= 3) /\ (i + 3) - 3 = i
    BY <1>7
  <2> QED
    BY <1>7, <1>8, <2>1, <2>2, <2>3
<1>10. v \in Seq(Nat)
  <2>1. Byte \subseteq Nat
    BY DEF Byte
  <2> QED
    BY <1>9, <2>1, SeqMonotonic
<1>11. x \in Byte /\ ByteSum(f) = 0
  BY <1>4, <1>5, <1>10, ChecksumForm
<1>12. /\ f \in Seq(Byte) /\ Len(f) = n + 4
       /\ \A i \in 1..(n + 3) : f[i] = v[i]
       /\ f[n + 4] = x
  <2>1. /\ f \in Seq(Byte) /\ Len(f) = Len(v) + 1
        /\ \A i \in 1..Len(v) : f[i] = v[i]
        /\ f[Len(v) + 1] = x
    BY <1>5, <1>9, <1>11, AppendProperties
  <2>2. (n + 3) + 1 = n + 4
    BY <1>7
  <2> QED
    BY <1>9, <2>1, <2>2
<1>13. Front(f) = v
  <2>1. /\ Len(f) - 1 = n + 3 /\ 1 \in Int /\ n + 3 \in Int /\ 1 <= n + 3
        /\ \A i \in 1..(n + 3) : f[i] \in Byte
    BY <1>7, <1>9, <1>12, ElementOfSeq
  <2>2. PICK b : b = Front(f)
    OBVIOUS
  <2>3. /\ b \in Seq(Byte) /\ Len(b) = n + 3
        /\ \A i \in 1..(n + 3) : b[i] = f[i]
    BY <1>7, <2>1, <2>2, SubSeqProperties DEF Front
  <2>4. /\ v \in Seq(Byte) /\ Len(b) = Len(v)
        /\ \A i \in 1..Len(b) : b[i] = v[i]
    BY <1>9, <1>12, <2>3
  <2>5. b = v
    BY <2>3, <2>4, SeqEqual, Zenon
  <2> QED
    BY <2>2, <2>5
<1>14. /\ f[1] = 160 /\ f[2] = n + 2 /\ f[3] = 1
       /\ \A i \in 1..n : f[i + 3] = p[i]
  <2>1. /\ \A i \in 1..n : i + 3 \in 1..(n + 3)
        /\ {1, 2, 3} \subseteq 1..(n + 3)
    BY <1>7
  <2> QED
    BY <1>9, <1>12, <2>1
<1> QED
  BY <1>1, <1>4, <1>6, <1>10, <1>11, <1>12, <1>13, <1>14 DEF HEADER, ADDRESS

-----------------------------------------------------------------------------
(* The fields of a request.                                                *)

LEMMA ZerosForm ==
    ASSUME NEW n \in Nat
    PROVE  Zeros(n) \in Seq(Byte) /\ Len(Zeros(n)) = n
<1> DEFINE e(i) == 0
<1>1. \A i \in 1..n : e(i) \in Byte
  BY DEF Byte
<1>2. Zeros(n) = [i \in 1..n |-> e(i)]
  BY DEF Zeros
<1> HIDE DEF e
<1> QED
  BY <1>1, <1>2, IsASeq, LenProperties

(* Each antenna has its two bytes, and a slot left over is disabled.       *)
LEMMA SlotsForm ==
    ASSUME NEW a \in Seq(Byte \X Byte), Len(a) <= 8
    PROVE  /\ Slots(a) \in Seq(Byte) /\ Len(Slots(a)) = 16
           /\ \A k \in 1..8 :
                 <<Slots(a)[2 * k - 1], Slots(a)[2 * k]>> =
                     IF k <= Len(a) THEN a[k] ELSE <<8, 0>>
<1> DEFINE slot(k) == IF k <= Len(a) THEN a[k] ELSE <<8, 0>>
           e(i) == slot((i + 1) \div 2)[2 - (i % 2)]
<1>1. ASSUME NEW k \in 1..8
      PROVE  /\ slot(k)[1] \in Byte /\ slot(k)[2] \in Byte
             /\ slot(k) = <<slot(k)[1], slot(k)[2]>>
  <2>1. CASE k <= Len(a)
    <3>1. a[k] \in Byte \X Byte
      <4>1. k \in 1..Len(a)
        BY <2>1
      <4> QED
        BY <4>1, ElementOfSeq
    <3> QED
      BY <2>1, <3>1
  <2>2. CASE ~(k <= Len(a))
    BY <2>2 DEF Byte
  <2> QED
    BY <2>1, <2>2
<1> HIDE DEF slot
<1>2. ASSUME NEW i \in 1..16
      PROVE  (i + 1) \div 2 \in 1..8 /\ 2 - (i % 2) \in {1, 2}
  OBVIOUS
<1>3. \A i \in 1..16 : e(i) \in Byte
  BY <1>1, <1>2
<1>4. Slots(a) = [i \in 1..16 |-> e(i)]
  BY DEF Slots, slot
<1>5. ASSUME NEW k \in 1..8
      PROVE  e(2 * k - 1) = slot(k)[1] /\ e(2 * k) = slot(k)[2]
  <2>1. /\ ((2 * k - 1) + 1) \div 2 = k /\ (2 * k + 1) \div 2 = k
        /\ 2 - ((2 * k - 1) % 2) = 1 /\ 2 - ((2 * k) % 2) = 2
    OBVIOUS
  <2> QED
    BY <2>1
<1> HIDE DEF e
<1>6. Slots(a) \in Seq(Byte) /\ Len(Slots(a)) = 16
  BY <1>3, <1>4, IsASeq, LenProperties
<1>7. ASSUME NEW k \in 1..8
      PROVE  <<Slots(a)[2 * k - 1], Slots(a)[2 * k]>> = slot(k)
  <2>1. 2 * k - 1 \in 1..16 /\ 2 * k \in 1..16
    OBVIOUS
  <2>2. Slots(a)[2 * k - 1] = slot(k)[1] /\ Slots(a)[2 * k] = slot(k)[2]
    BY <1>4, <1>5, <2>1
  <2> QED
    BY <1>1, <2>2
<1> QED
  BY <1>6, <1>7 DEF slot

LEMMA AppendPair ==
    ASSUME NEW S, NEW s \in Seq(S), NEW x \in S, NEW y \in S, NEW u,
           u = s \o <<x, y>>
    PROVE  /\ u \in Seq(S) /\ Len(u) = Len(s) + 2
           /\ \A i \in 1..Len(s) : u[i] = s[i]
           /\ u[Len(s) + 1] = x /\ u[Len(s) + 2] = y
<1>1. PICK t : t = <<x, y>>
  OBVIOUS
<1>2. /\ t \in Seq(S) /\ Len(t) = 2 /\ t[1] = x /\ t[2] = y
      /\ 1 \in 1..2 /\ 2 \in 1..2
  BY <1>1
<1>3. u = s \o t
  BY <1>1
<1>4. /\ u \in Seq(S) /\ Len(u) = Len(s) + Len(t)
      /\ \A i \in 1..Len(s) : u[i] = s[i]
      /\ \A i \in 1..Len(t) : u[Len(s) + i] = t[i]
  <2>1. t \in Seq(S) /\ u = s \o t
    BY <1>2, <1>3
  <2> QED
    BY <2>1, ConcatAt
<1> QED
  BY <1>2, <1>4

(* The parts of the arguments of a fast switching inventory, and where its *)
(* fields are.                                                             *)
FastParts(S, b, x, y) ==
    /\ b \in Seq(S) /\ x \in Seq(S) /\ y \in Seq(S)
    /\ Len(b) = 16 /\ Len(x) = 5 /\ Len(y) = 3

FastFields(w, b, i, s, t, p, r) ==
    /\ Len(w) = 29 /\ \A k \in 1..16 : w[k] = b[k]
    /\ w[17] = i /\ w[23] = s /\ w[24] = t /\ w[28] = p /\ w[29] = r

FastBytes(b, i, x, s, t, y, p, r) ==
    b \o <<i>> \o x \o <<s, t>> \o y \o <<p, r>>

LEMMA FastForm ==
    ASSUME NEW S, NEW b, NEW x, NEW y, FastParts(S, b, x, y),
           NEW i \in S, NEW s \in S, NEW t \in S, NEW p \in S, NEW r \in S,
           NEW w, w = FastBytes(b, i, x, s, t, y, p, r)
    PROVE  w \in Seq(S) /\ FastFields(w, b, i, s, t, p, r)
<1>1. /\ b \in Seq(S) /\ x \in Seq(S) /\ y \in Seq(S)
      /\ Len(b) = 16 /\ Len(x) = 5 /\ Len(y) = 3
  BY DEF FastParts
<1>2. PICK u0, u1, u2, u3, u4 :
          /\ u0 = <<i>> /\ u1 = b \o u0 /\ u2 = u1 \o x
          /\ u3 = u2 \o <<s, t>> /\ u4 = u3 \o y
  OBVIOUS
<1>10. PICK u5 : u5 = u4 \o <<p, r>>
  OBVIOUS
<1>11. w = u5
  BY <1>2, <1>10 DEF FastBytes
<1>3. u0 \in Seq(S) /\ Len(u0) = 1 /\ u0[1] = i
  BY <1>1, <1>2
<1>4. /\ u1 \in Seq(S) /\ Len(u1) = 17 /\ u1[17] = i
      /\ \A k \in 1..16 : u1[k] = b[k]
  <2>1. /\ u1 \in Seq(S) /\ Len(u1) = Len(b) + Len(u0)
        /\ \A k \in 1..Len(b) : u1[k] = b[k]
        /\ \A k \in 1..Len(u0) : u1[Len(b) + k] = u0[k]
    <3>1. b \in Seq(S) /\ u0 \in Seq(S) /\ u1 = b \o u0
      BY <1>1, <1>2, <1>3
    <3> QED
      BY <3>1, ConcatAt
  <2>2. 1 \in 1..1 /\ 16 + 1 = 17
    OBVIOUS
  <2> QED
    BY <1>1, <1>3, <2>1, <2>2
<1>5. /\ u2 \in Seq(S) /\ Len(u2) = 22
      /\ \A k \in 1..17 : u2[k] = u1[k]
  <2>1. /\ u2 \in Seq(S) /\ Len(u2) = Len(u1) + Len(x)
        /\ \A k \in 1..Len(u1) : u2[k] = u1[k]
    <3>1. u1 \in Seq(S) /\ x \in Seq(S) /\ u2 = u1 \o x
      BY <1>1, <1>2, <1>4
    <3> QED
      BY <3>1, ConcatAt
  <2> QED
    BY <1>1, <1>4, <2>1
<1>6. /\ u3 \in Seq(S) /\ Len(u3) = 24 /\ u3[23] = s /\ u3[24] = t
      /\ \A k \in 1..22 : u3[k] = u2[k]
  <2>1. /\ u3 \in Seq(S) /\ Len(u3) = Len(u2) + 2
        /\ \A k \in 1..Len(u2) : u3[k] = u2[k]
        /\ u3[Len(u2) + 1] = s /\ u3[Len(u2) + 2] = t
    <3>1. u2 \in Seq(S) /\ s \in S /\ t \in S /\ u3 = u2 \o <<s, t>>
      BY <1>1, <1>2, <1>5
    <3> QED
      BY <3>1, AppendPair
  <2> QED
    BY <1>5, <2>1
<1>7. /\ u4 \in Seq(S) /\ Len(u4) = 27
      /\ \A k \in 1..24 : u4[k] = u3[k]
  <2>1. /\ u4 \in Seq(S) /\ Len(u4) = Len(u3) + Len(y)
        /\ \A k \in 1..Len(u3) : u4[k] = u3[k]
    <3>1. u3 \in Seq(S) /\ y \in Seq(S) /\ u4 = u3 \o y
      BY <1>1, <1>2, <1>6
    <3> QED
      BY <3>1, ConcatAt
  <2> QED
    BY <1>1, <1>6, <2>1
<1>8. /\ u5 \in Seq(S) /\ Len(u5) = 29 /\ u5[28] = p /\ u5[29] = r
      /\ \A k \in 1..27 : u5[k] = u4[k]
  <2>1. /\ u5 \in Seq(S) /\ Len(u5) = Len(u4) + 2
        /\ \A k \in 1..Len(u4) : u5[k] = u4[k]
        /\ u5[Len(u4) + 1] = p /\ u5[Len(u4) + 2] = r
    <3>1. u4 \in Seq(S) /\ p \in S /\ r \in S /\ u5 = u4 \o <<p, r>>
      BY <1>7, <1>10
    <3> QED
      BY <3>1, AppendPair
  <2> QED
    BY <1>7, <2>1
<1>9. /\ \A k \in 1..16 : u5[k] = b[k]
      /\ u5[17] = i /\ u5[23] = s /\ u5[24] = t
  <2>1. \A k \in 1..24 : u5[k] = u3[k]
    <3>1. \A k \in 1..24 : k \in 1..27
      OBVIOUS
    <3> QED
      BY <1>7, <1>8, <3>1
  <2>2. \A k \in 1..17 : u5[k] = u1[k]
    <3>1. \A k \in 1..17 : k \in 1..24 /\ k \in 1..22
      OBVIOUS
    <3> QED
      BY <1>5, <1>6, <2>1, <3>1
  <2>3. (\A k \in 1..16 : k \in 1..17) /\ {17} \subseteq 1..17
        /\ {23, 24} \subseteq 1..24
    OBVIOUS
  <2> QED
    BY <1>4, <1>6, <2>1, <2>2, <2>3
<1> QED
  BY <1>8, <1>9, <1>11 DEF FastFields

LEMMA CodeForm ==
    \A o \in Setters \cup Inventories
            \cup {"GetFirmwareVersion", "GetWorkAntenna", "GetOutputPower",
                  "GetFrequencyRegion", "SetBeeperMode",
                  "GetReaderTemperature", "GetRfPortReturnLoss",
                  "GetAntConnectionDetector", "GetRfLinkProfile"} :
        Code[o] \in Byte
<1>1. /\ Code["Reset"] = 112 /\ Code["GetFirmwareVersion"] = 114
      /\ Code["SetWorkAntenna"] = 116 /\ Code["GetWorkAntenna"] = 117
      /\ Code["SetOutputPower"] = 118 /\ Code["GetOutputPower"] = 119
      /\ Code["SetDefaultFrequencyRegion"] = 120
      /\ Code["GetFrequencyRegion"] = 121 /\ Code["SetBeeperMode"] = 122
      /\ Code["GetReaderTemperature"] = 123
      /\ Code["GetRfPortReturnLoss"] = 126
      /\ Code["SetAntConnectionDetector"] = 98
      /\ Code["GetAntConnectionDetector"] = 99
      /\ Code["SetRfLinkProfile"] = 105 /\ Code["GetRfLinkProfile"] = 106
      /\ Code["FastSwitchAntInventory"] = 138
      /\ Code["CustomizeSessionTargetInventory"] = 139
  BY DEF Code
<1> QED
  BY <1>1 DEF Setters, Inventories, Byte

LEMMA PlainForm ==
    ASSUME NEW c \in Plain
    PROVE  /\ c.args \in Seq(Byte) /\ Args(c) = c.args
           /\ Code[c.op] \in Byte
           /\ c.op \notin {"SetDefaultFrequencyRegion", "GetRfPortReturnLoss",
                           "CustomizeSessionTargetInventory",
                           "FastSwitchAntInventory"}
           /\ c.op # "SetOutputPower" => Len(c.args) <= 1
<1>1. CASE c \in [op: {"Reset", "GetFirmwareVersion", "GetWorkAntenna",
                      "GetOutputPower", "GetFrequencyRegion",
                      "GetReaderTemperature", "GetRfLinkProfile",
                      "GetAntConnectionDetector"}, args: {<<>>}]
  <2>1. c.args = <<>>
    BY <1>1
  <2>2. <<>> \in Seq(Byte) /\ Len(<<>>) <= 1
    OBVIOUS
  <2>3. Code[c.op] \in Byte
    BY <1>1, CodeForm DEF Setters
  <2> QED
    BY <1>1, <2>1, <2>2, <2>3 DEF Args
<1>2. ASSUME NEW A \in SUBSET Byte, NEW O \in SUBSET
                 {"SetWorkAntenna", "SetAntConnectionDetector",
                  "SetBeeperMode", "SetRfLinkProfile"},
             c \in [op: O, args: [1..1 -> A]]
      PROVE  /\ c.args \in Seq(Byte) /\ Len(c.args) <= 1 /\ c.op \in O
             /\ Code[c.op] \in Byte
  <2>1. c.args \in [1..1 -> A] /\ c.op \in O
    BY <1>2
  <2>2. c.args \in Seq(A) /\ Len(c.args) = 1
    <3>1. PICK f : f = c.args /\ f \in [1..1 -> A]
      BY <2>1
    <3>2. f = [k \in 1..1 |-> f[k]] /\ \A k \in 1..1 : f[k] \in A
      BY <3>1
    <3>3. f \in Seq(A) /\ Len(f) = 1
      BY <3>2
    <3> QED
      BY <3>1, <3>3
  <2>3. c.args \in Seq(Byte)
    BY <2>2, SeqMonotonic
  <2>4. Code[c.op] \in Byte
    BY <2>1, CodeForm DEF Setters
  <2> QED
    BY <2>1, <2>2, <2>3, <2>4
<1>3. CASE c \in [op: {"SetOutputPower"}, args: Seq(Byte)]
  <2>1. Code[c.op] \in Byte
    BY <1>3 DEF Code, Byte
  <2> QED
    BY <1>3, <2>1 DEF Args
<1>4. BeeperMode \subseteq Byte /\ RfLinkProfile \subseteq Byte
  BY DEF BeeperMode, RfLinkProfile, Byte
<1>5. c.op \in {"SetWorkAntenna", "SetAntConnectionDetector",
                "SetBeeperMode", "SetRfLinkProfile"} => Args(c) = c.args
  BY DEF Args
<1> QED
  BY <1>1, <1>2, <1>3, <1>4, <1>5 DEF Plain

LEMMA RegionForm ==
    ASSUME NEW c \in RegionRequests, Encodable(c)
    PROVE  /\ c.low \in Table /\ c.high \in Table
           /\ c.op = "SetDefaultFrequencyRegion"
           /\ SpectrumByte[c.spectrum] \in Byte
           /\ GetParam(c.low) \in Byte /\ GetParam(c.high) \in Byte
           /\ Args(c) = <<SpectrumByte[c.spectrum], GetParam(c.low),
                          GetParam(c.high)>>
<1>1. /\ c.op = "SetDefaultFrequencyRegion"
      /\ c.spectrum \in Spectrums
  BY DEF RegionRequests
<1>2. c.low \in Table /\ c.high \in Table
  BY <1>1 DEF Encodable
<1>3. GetParam(c.low) \in Byte /\ GetParam(c.high) \in Byte
  BY <1>2, TableRoundTrip DEF Params, Byte
<1>4. SpectrumByte[c.spectrum] \in Byte
  BY <1>1 DEF Spectrums, SpectrumByte, Byte
<1> QED
  BY <1>1, <1>2, <1>3, <1>4 DEF Args

LEMMA LossForm ==
    ASSUME NEW c \in LossRequests, Encodable(c)
    PROVE  /\ c.frequency \in Table /\ c.op = "GetRfPortReturnLoss"
           /\ GetParam(c.frequency) \in Byte
           /\ Args(c) = <<GetParam(c.frequency)>>
<1>1. c.op = "GetRfPortReturnLoss"
  BY DEF LossRequests
<1>2. c.frequency \in Table
  BY <1>1 DEF Encodable
<1>3. GetParam(c.frequency) \in Byte
  BY <1>2, TableRoundTrip DEF Params, Byte
<1> QED
  BY <1>1, <1>2, <1>3 DEF Args

LEMMA SingleForm ==
    ASSUME NEW c \in SingleRequests
    PROVE  /\ c.op = "CustomizeSessionTargetInventory"
           /\ c.session \in Byte /\ c.target \in Byte /\ c.phase \in Byte
           /\ c.repeat \in Byte /\ 0 \in Byte
           /\ Args(c) = <<c.session, c.target, 0, c.phase, c.repeat>>
<1>1. c.op = "CustomizeSessionTargetInventory"
  BY DEF SingleRequests
<1>2. /\ c.session \in Session /\ c.target \in Target
      /\ c.phase \in PhaseStatus /\ c.repeat \in Byte
  BY DEF SingleRequests
<1>3. c.session \in Byte /\ c.target \in Byte /\ c.phase \in Byte /\ 0 \in Byte
  BY <1>2 DEF Session, Target, PhaseStatus, Byte
<1> QED
  BY <1>1, <1>2, <1>3 DEF Args

LEMMA FastArgsForm ==
    ASSUME NEW c \in FastRequests, Encodable(c)
    PROVE  /\ c.op = "FastSwitchAntInventory"
           /\ c.antennas \in Seq(Byte \X Byte) /\ Len(c.antennas) <= 8
           /\ Args(c) \in Seq(Byte) /\ Len(Args(c)) = 29
           /\ \A k \in 1..16 : Args(c)[k] = Slots(c.antennas)[k]
           /\ Args(c)[17] = c.interval /\ Args(c)[23] = c.session
           /\ Args(c)[24] = c.target /\ Args(c)[28] = c.phase
           /\ Args(c)[29] = c.repeat
<1>1. c.op = "FastSwitchAntInventory"
  BY DEF FastRequests
<1>2. /\ c.antennas \in Seq(Byte \X Byte) /\ c.interval \in Byte
      /\ c.session \in Session /\ c.target \in Target
      /\ c.phase \in PhaseStatus /\ c.repeat \in Byte
  BY DEF FastRequests
<1>3. c.session \in Byte /\ c.target \in Byte /\ c.phase \in Byte
  BY <1>2 DEF Session, Target, PhaseStatus, Byte
<1>4. Len(c.antennas) <= 8
  BY <1>1 DEF Encodable
<1>5. Args(c) = Slots(c.antennas) \o <<c.interval>> \o Zeros(5)
                    \o <<c.session, c.target>> \o Zeros(3)
                    \o <<c.phase, c.repeat>>
  BY <1>1 DEF Args
<1>6. PICK b, x, y : b = Slots(c.antennas) /\ x = Zeros(5) /\ y = Zeros(3)
  OBVIOUS
<1>7. /\ b \in Seq(Byte) /\ Len(b) = 16 /\ x \in Seq(Byte) /\ Len(x) = 5
      /\ y \in Seq(Byte) /\ Len(y) = 3
  BY <1>2, <1>4, <1>6, SlotsForm, ZerosForm
<1>8. Args(c) = b \o <<c.interval>> \o x \o <<c.session, c.target>>
                  \o y \o <<c.phase, c.repeat>>
  BY <1>5, <1>6
<1>9. PICK i, s, t, p, r, w :
          /\ i = c.interval /\ s = c.session /\ t = c.target
          /\ p = c.phase /\ r = c.repeat
          /\ w = FastBytes(b, i, x, s, t, y, p, r)
  OBVIOUS
<1>10. i \in Byte /\ s \in Byte /\ t \in Byte /\ p \in Byte /\ r \in Byte
  BY <1>2, <1>3, <1>9
<1>11. w \in Seq(Byte) /\ FastFields(w, b, i, s, t, p, r)
  <2>1. FastParts(Byte, b, x, y)
    BY <1>7 DEF FastParts
  <2>2. /\ i \in Byte /\ s \in Byte /\ t \in Byte /\ p \in Byte /\ r \in Byte
        /\ w = FastBytes(b, i, x, s, t, y, p, r)
    BY <1>9, <1>10
  <2> QED
    BY <2>1, <2>2, FastForm
<1>12. Args(c) = w
  BY <1>8, <1>9 DEF FastBytes
<1> QED
  BY <1>1, <1>2, <1>4, <1>6, <1>9, <1>11, <1>12 DEF FastFields

(* A request fits in a frame, whatever its fields.                         *)
LEMMA ArgsForm ==
    ASSUME NEW c \in Command, Encodable(c), FitsFrame(c)
    PROVE  /\ Args(c) \in Seq(Byte) /\ Len(Args(c)) \in 0..252
           /\ Code[c.op] \in Byte
<1>1. CASE c \in RegionRequests
  <2>1. PICK x, y, z : /\ x \in Byte /\ y \in Byte /\ z \in Byte
                       /\ Args(c) = <<x, y, z>>
                       /\ c.op = "SetDefaultFrequencyRegion"
    BY <1>1, RegionForm
  <2>2. <<x, y, z>> \in Seq(Byte) /\ Len(<<x, y, z>>) \in 0..252
    BY <2>1
  <2> QED
    BY <2>1, <2>2 DEF Code, Byte
<1>2. CASE c \in LossRequests
  <2>1. PICK x : x \in Byte /\ Args(c) = <<x>> /\ c.op = "GetRfPortReturnLoss"
    BY <1>2, LossForm
  <2>2. <<x>> \in Seq(Byte) /\ Len(<<x>>) \in 0..252
    BY <2>1
  <2> QED
    BY <2>1, <2>2 DEF Code, Byte
<1>3. CASE c \in SingleRequests
  <2>1. PICK x, y, z, u, v :
            /\ x \in Byte /\ y \in Byte /\ z \in Byte
            /\ u \in Byte /\ v \in Byte
            /\ Args(c) = <<x, y, z, u, v>>
            /\ c.op = "CustomizeSessionTargetInventory"
    BY <1>3, SingleForm
  <2>2. /\ <<x, y, z, u, v>> \in Seq(Byte)
        /\ Len(<<x, y, z, u, v>>) \in 0..252
    BY <2>1
  <2> QED
    BY <2>1, <2>2 DEF Code, Byte
<1>4. CASE c \in FastRequests
  <2>1. /\ Args(c) \in Seq(Byte) /\ Len(Args(c)) = 29
        /\ c.op = "FastSwitchAntInventory"
    BY <1>4, FastArgsForm
  <2> QED
    BY <2>1 DEF Code, Byte
<1>5. CASE c \in Plain
  <2>1. /\ c.args \in Seq(Byte) /\ Args(c) = c.args /\ Code[c.op] \in Byte
        /\ c.op # "SetOutputPower" => Len(c.args) <= 1
    BY <1>5, PlainForm
  <2>2. Len(c.args) \in Nat
    BY <2>1, LenProperties
  <2>3. Len(c.args) <= 252
    BY <2>1, <2>2 DEF FitsFrame
  <2>4. \A n \in Nat : n <= 252 => n \in 0..252
    OBVIOUS
  <2>5. Len(c.args) \in 0..252
    BY <2>2, <2>3, <2>4, Zenon
  <2> QED
    BY <2>1, <2>5, Zenon
<1> QED
  BY <1>1, <1>2, <1>3, <1>4, <1>5 DEF Command

-----------------------------------------------------------------------------
(* What the reader finds in the frame of a request.                        *)

(* f is the frame of c, with its n arguments a.                            *)
RequestFrame(f, c, a, n) ==
    /\ a \in Seq(Byte) /\ n \in 0..252
    /\ f \in Seq(Byte) /\ Len(f) = n + 5
    /\ WellFormed(f) /\ f[4] = Code[c.op]
    /\ \A i \in 1..n : f[i + 4] = a[i]
    /\ SubSeq(f, 5, Len(f) - 1) = a

LEMMA EncodeForm ==
    ASSUME NEW c \in Command, Encodable(c), FitsFrame(c)
    PROVE  RequestFrame(Encode(c), c, Args(c), Len(Args(c)))
<1>0. PICK f, a, n : f = Encode(c) /\ a = Args(c) /\ n = Len(a)
  OBVIOUS
<1>1. a \in Seq(Byte) /\ n \in 0..252 /\ Code[c.op] \in Byte
  BY <1>0, ArgsForm
<1>2. PICK x, h, p : x = Code[c.op] /\ h = <<x>> /\ p = h \o a
  OBVIOUS
<1>3. h \in Seq(Byte) /\ Len(h) = 1 /\ h[1] = x
  BY <1>1, <1>2
<1>4. /\ p \in Seq(Byte) /\ Len(p) = Len(h) + Len(a)
      /\ \A i \in 1..Len(h) : p[i] = h[i]
      /\ \A i \in 1..Len(a) : p[Len(h) + i] = a[i]
  <2>1. h \in Seq(Byte) /\ a \in Seq(Byte) /\ p = h \o a
    BY <1>1, <1>2, <1>3
  <2> QED
    BY <2>1, ConcatAt
<1>5. /\ Len(p) = n + 1 /\ Len(p) \in 1..253
      /\ p[1] = x /\ \A i \in 1..n : p[i + 1] = a[i]
  <2>1. /\ Len(p) = 1 + n /\ \A i \in 1..1 : p[i] = h[i]
        /\ \A i \in 1..n : p[1 + i] = a[i]
    BY <1>0, <1>3, <1>4
  <2>2. \A i \in 1..n : 1 + i = i + 1
    BY <1>1
  <2>3. 1 + n = n + 1 /\ n + 1 \in 1..253 /\ 1 \in 1..1
    <3>1. \A m \in 0..252 :
              1 + m = m + 1 /\ m + 1 \in 1..253 /\ 1 \in 1..1
      OBVIOUS
    <3> QED
      BY <1>1, <3>1, Zenon
  <2>4. p[1] = x
    BY <1>3, <2>1, <2>3
  <2>5. \A i \in 1..n : p[i + 1] = a[i]
    BY <2>1, <2>2
  <2> QED
    BY <2>1, <2>3, <2>4, <2>5
<1>6. f = Framed(p)
  BY <1>0, <1>2 DEF Encode
<1>7. /\ f \in Seq(Byte) /\ Len(f) = Len(p) + 4
      /\ f[1] = HEADER /\ f[2] = Len(p) + 2 /\ f[3] = ADDRESS
      /\ \A i \in 1..Len(p) : f[i + 3] = p[i]
      /\ ByteSum(f) = 0
  <2>1. p \in Seq(Byte) /\ Len(p) \in 1..253
    BY <1>4, <1>5
  <2>2. LET g == Framed(p)
        IN /\ g \in Seq(Byte) /\ Len(g) = Len(p) + 4
           /\ g[1] = HEADER /\ g[2] = Len(p) + 2 /\ g[3] = ADDRESS
           /\ \A i \in 1..Len(p) : g[i + 3] = p[i]
           /\ ByteSum(g) = 0
    BY <2>1, FramedForm
  <2> QED
    BY <1>6, <2>2
<1>8. /\ Len(f) = n + 5 /\ WellFormed(f)
  BY <1>1, <1>5, <1>7 DEF WellFormed
<1>9. f[4] = x /\ \A i \in 1..n : f[i + 4] = a[i]
  <2>1. 1 \in 1..(n + 1) /\ 1 + 3 = 4
    BY <1>1
  <2>2. \A i \in 1..n : i + 1 \in 1..(n + 1) /\ (i + 1) + 3 = i + 4
    BY <1>1
  <2> QED
    BY <1>5, <1>7, <2>1, <2>2
<1>10. SubSeq(f, 5, Len(f) - 1) = a
  <2>1. Len(f) - 1 = n + 4
    BY <1>1, <1>8
  <2>2. \A i \in 5..(n + 4) : f[i] \in Byte
    <3>1. \A i \in 5..(n + 4) : i \in 1..(n + 5)
      BY <1>1
    <3> QED
      BY <1>7, <1>8, <3>1, ElementOfSeq
  <2> DEFINE b == SubSeq(f, 5, n + 4)
  <2>3. /\ b \in Seq(Byte)
        /\ Len(b) = IF 5 <= n + 4 THEN (n + 4) - 5 + 1 ELSE 0
        /\ \A i \in 1..((n + 4) - 5 + 1) : b[i] = f[5 + i - 1]
    <3>1. 5 \in Int /\ n + 4 \in Int
      BY <1>1
    <3> QED
      BY <2>2, <3>1, SubSeqProperties
  <2> HIDE DEF b
  <2>4. Len(b) = n
    BY <1>1, <2>3
  <2>5. \A i \in 1..n : /\ i \in 1..((n + 4) - 5 + 1)
                        /\ 5 + i - 1 = i + 4
    BY <1>1
  <2>6. \A i \in 1..n : b[i] = a[i]
    BY <1>9, <2>3, <2>5
  <2>7. b = a
    BY <1>0, <1>1, <2>3, <2>4, <2>6, SeqEqual
  <2> QED
    BY <2>1, <2>7 DEF b
<1>11. RequestFrame(f, c, a, n)
  BY <1>1, <1>2, <1>7, <1>8, <1>9, <1>10 DEF RequestFrame
<1> QED
  BY <1>0, <1>11

LEMMA PlainUnderstood ==
    ASSUME NEW c \in Plain, FitsFrame(c), Encodable(c)
    PROVE  Understands(Encode(c), c)
<1> DEFINE f == Encode(c)
<1>1. c \in Command
  BY DEF Command
<1>2. /\ WellFormed(f) /\ f[4] = Code[c.op]
      /\ SubSeq(f, 5, Len(f) - 1) = Args(c)
  BY <1>1, EncodeForm DEF RequestFrame
<1>3. /\ Args(c) = c.args
      /\ c.op \notin {"SetDefaultFrequencyRegion", "GetRfPortReturnLoss",
                      "CustomizeSessionTargetInventory",
                      "FastSwitchAntInventory"}
  BY PlainForm
<1> HIDE DEF f
<1>4. Understands(f, c)
  BY <1>2, <1>3 DEF Understands
<1> QED
  BY <1>4 DEF f

LEMMA RegionUnderstood ==
    ASSUME NEW c \in RegionRequests, FitsFrame(c), Encodable(c)
    PROVE  Understands(Encode(c), c)
<1> DEFINE f == Encode(c)
           n == Len(Args(c))
<1>1. c \in Command
  BY DEF Command
<1>2. /\ WellFormed(f) /\ f[4] = Code[c.op]
      /\ \A i \in 1..n : f[i + 4] = Args(c)[i]
  BY <1>1, EncodeForm DEF RequestFrame
<1>3. /\ c.low \in Table /\ c.high \in Table
      /\ c.op = "SetDefaultFrequencyRegion"
      /\ Args(c) = <<SpectrumByte[c.spectrum], GetParam(c.low),
                     GetParam(c.high)>>
  BY RegionForm
<1>4. /\ f[5] = SpectrumByte[c.spectrum]
      /\ f[6] = GetParam(c.low) /\ f[7] = GetParam(c.high)
  <2>1. PICK x, y, z : /\ x = SpectrumByte[c.spectrum]
                       /\ y = GetParam(c.low) /\ z = GetParam(c.high)
    OBVIOUS
  <2>2. Args(c) = <<x, y, z>>
    BY <1>3, <2>1
  <2>3. n = 3 /\ Args(c)[1] = x /\ Args(c)[2] = y /\ Args(c)[3] = z
    BY <2>2
  <2> HIDE DEF n, f
  <2>4. \A i \in 1..3 : f[i + 4] = Args(c)[i]
    BY <1>2, <2>3
  <2>5. f[1 + 4] = x /\ f[2 + 4] = y /\ f[3 + 4] = z
    BY <2>3, <2>4
  <2> QED
    BY <2>1, <2>5
<1>5. GetFrequency(f[6]) = c.low /\ GetFrequency(f[7]) = c.high
  BY <1>3, <1>4, TableRoundTrip
<1> HIDE DEF f
<1>6. Understands(f, c)
  BY <1>2, <1>3, <1>4, <1>5 DEF Understands
<1> QED
  BY <1>6 DEF f

LEMMA LossUnderstood ==
    ASSUME NEW c \in LossRequests, FitsFrame(c), Encodable(c)
    PROVE  Understands(Encode(c), c)
<1> DEFINE f == Encode(c)
           n == Len(Args(c))
<1>1. c \in Command
  BY DEF Command
<1>2. /\ WellFormed(f) /\ f[4] = Code[c.op]
      /\ \A i \in 1..n : f[i + 4] = Args(c)[i]
  BY <1>1, EncodeForm DEF RequestFrame
<1>3. /\ c.frequency \in Table /\ c.op = "GetRfPortReturnLoss"
      /\ Args(c) = <<GetParam(c.frequency)>>
  BY LossForm
<1>4. f[5] = GetParam(c.frequency)
  <2>1. PICK x : x = GetParam(c.frequency)
    OBVIOUS
  <2>2. n = 1 /\ Args(c)[1] = x
    BY <1>3, <2>1
  <2> HIDE DEF n, f
  <2>3. 1 \in 1..n /\ 1 + 4 = 5
    BY <2>2
  <2> QED
    BY <1>2, <2>1, <2>2, <2>3
<1>5. GetFrequency(f[5]) = c.frequency
  BY <1>3, <1>4, TableRoundTrip
<1> HIDE DEF f
<1>6. Understands(f, c)
  BY <1>2, <1>3, <1>5 DEF Understands
<1> QED
  BY <1>6 DEF f

LEMMA SingleUnderstood ==
    ASSUME NEW c \in SingleRequests, FitsFrame(c), Encodable(c)
    PROVE  Understands(Encode(c), c)
<1> DEFINE f == Encode(c)
<1>1. c \in Command
  BY DEF Command
<1>2. /\ WellFormed(f) /\ f[4] = Code[c.op]
      /\ SubSeq(f, 5, Len(f) - 1) = Args(c)
  BY <1>1, EncodeForm DEF RequestFrame
<1>3. /\ c.op = "CustomizeSessionTargetInventory"
      /\ Args(c) = <<c.session, c.target, 0, c.phase, c.repeat>>
  BY SingleForm
<1> HIDE DEF f
<1>4. Understands(f, c)
  BY <1>2, <1>3 DEF Understands
<1> QED
  BY <1>4 DEF f

(* Slots left over hold an antenna that the reader ignores.                *)
LEMMA SlotsKnown ==
    ASSUME NEW a \in Seq(Byte \X Byte), Len(a) <= 8
    PROVE  Known(Pairs(Slots(a))) = Known(a)
<1> DEFINE p == Pairs(Slots(a))
           I == {i \in DOMAIN a : a[i][1] \in 0..7}
           J == {i \in DOMAIN p : p[i][1] \in 0..7}
<1>1. PICK n : n = Len(a)
  OBVIOUS
<1>2. n \in 0..8 /\ DOMAIN a = 1..n /\ \A i \in 1..n : i \in 1..8 /\ i <= n
  <2>1. n \in Nat /\ n <= 8 /\ DOMAIN a = 1..n
    BY <1>1, LenProperties
  <2> QED
    BY <2>1
<1>3. /\ DOMAIN p = 1..8
      /\ \A i \in 1..8 : p[i] = IF i <= n THEN a[i] ELSE <<8, 0>>
  BY <1>1, SlotsForm, Zenon DEF Pairs
<1> HIDE DEF p
<1>4. ASSUME NEW i \in 1..8, ~(i <= n)
      PROVE  p[i][1] \notin 0..7
  BY <1>3, <1>4
<1>5. I = J
  <2>1. \A i : i \in I <=> i \in 1..n /\ a[i][1] \in 0..7
    BY <1>2
  <2>2. \A i : i \in J <=> i \in 1..8 /\ p[i][1] \in 0..7
    BY <1>3
  <2>3. \A i \in 1..8 : i <= n => i \in 1..n
    BY <1>2
  <2> HIDE DEF I, J
  <2>4. \A i : i \in I <=> i \in J
    BY <1>2, <1>3, <1>4, <2>1, <2>2, <2>3
  <2> QED
    BY <2>4
<1>6. n \in Nat /\ I \in SUBSET (1..n)
  BY <1>2
<1>7. ASSUME NEW k \in 1..Cardinality(I)
      PROVE  p[Nth(I, k)] = a[Nth(I, k)]
  <2>1. Nth(I, k) \in I
    BY <1>6, NthForm
  <2>2. Nth(I, k) \in 1..n
    BY <1>6, <2>1
  <2> QED
    BY <1>2, <1>3, <2>2
<1>8. Known(a) = Selected(a, I) /\ Known(p) = Selected(p, J)
  BY DEF Known
<1> HIDE DEF I, J
<1>9. Selected(p, I) = Selected(a, I)
  BY <1>7 DEF Selected
<1> QED
  BY <1>5, <1>8, <1>9 DEF p

LEMMA FastUnderstood ==
    ASSUME NEW c \in FastRequests, FitsFrame(c), Encodable(c)
    PROVE  Understands(Encode(c), c)
<1>1. PICK f, a, n : f = Encode(c) /\ a = Args(c) /\ n = Len(a)
  OBVIOUS
<1>2. c \in Command
  BY DEF Command
<1>3. /\ f \in Seq(Byte) /\ Len(f) = n + 5
      /\ WellFormed(f) /\ f[4] = Code[c.op]
      /\ \A i \in 1..n : f[i + 4] = a[i]
  <2>1. RequestFrame(f, c, a, n)
    BY <1>1, <1>2, EncodeForm
  <2> QED
    BY <2>1 DEF RequestFrame
<1>4. /\ c.op = "FastSwitchAntInventory"
      /\ c.antennas \in Seq(Byte \X Byte) /\ Len(c.antennas) <= 8
      /\ n = 29
      /\ \A k \in 1..16 : a[k] = Slots(c.antennas)[k]
      /\ a[17] = c.interval /\ a[23] = c.session
      /\ a[24] = c.target /\ a[28] = c.phase /\ a[29] = c.repeat
  BY <1>1, FastArgsForm
<1>5. Len(f) = 34 /\ \A i \in 1..29 : f[i + 4] = a[i]
  BY <1>3, <1>4
<1>6. /\ f[21] = c.interval /\ f[27] = c.session
      /\ f[28] = c.target /\ f[32] = c.phase /\ f[33] = c.repeat
  <2>1. /\ f[17 + 4] = a[17] /\ f[23 + 4] = a[23] /\ f[24 + 4] = a[24]
        /\ f[28 + 4] = a[28] /\ f[29 + 4] = a[29]
    BY <1>5
  <2> QED
    BY <1>4, <2>1
<1>7. SubSeq(f, 5, 20) = Slots(c.antennas)
  <2>1. PICK b, s : b = SubSeq(f, 5, 20) /\ s = Slots(c.antennas)
    OBVIOUS
  <2>2. s \in Seq(Byte) /\ Len(s) = 16
    BY <1>4, <2>1, SlotsForm
  <2>3. \A i \in 5..20 : f[i] \in Byte
    <3>1. \A i \in 5..20 : i \in 1..Len(f)
      BY <1>5
    <3> QED
      BY <1>3, <3>1, ElementOfSeq
  <2>4. /\ b \in Seq(Byte)
        /\ Len(b) = IF 5 <= 20 THEN 20 - 5 + 1 ELSE 0
        /\ \A i \in 1..(20 - 5 + 1) : b[i] = f[5 + i - 1]
    BY <2>1, <2>3, SubSeqProperties
  <2>5. Len(b) = 16 /\ \A i \in 1..16 : b[i] = f[5 + i - 1]
    BY <2>4
  <2>6. \A i \in 1..16 : 5 + i - 1 = i + 4 /\ i \in 1..29
    OBVIOUS
  <2>7. \A i \in 1..16 : b[i] = s[i]
    <3>1. \A i \in 1..16 : b[i] = f[i + 4]
      BY <2>5, <2>6
    <3>2. \A i \in 1..16 : f[i + 4] = a[i]
      BY <1>5, <2>6
    <3> QED
      BY <1>4, <2>1, <3>1, <3>2
  <2>8. b = s
    BY <2>2, <2>4, <2>5, <2>7, SeqEqual
  <2> QED
    BY <2>1, <2>8
<1>8. Known(Pairs(SubSeq(f, 5, 20))) = Known(c.antennas)
  BY <1>4, <1>7, SlotsKnown
<1>9. Understands(f, c)
  BY <1>3, <1>4, <1>5, <1>6, <1>8 DEF Understands
<1> QED
  BY <1>1, <1>9

(* A reader that gets the bytes of a request finds in them every field as  *)
(* the caller gave it: Command::to_bytes with Frame::to_bytes.             *)
THEOREM EncodedIsUnderstood ==
    ASSUME NEW c \in Command, Encodable(c), FitsFrame(c)
    PROVE  Understands(Encode(c), c)
BY PlainUnderstood, RegionUnderstood, LossUnderstood, SingleUnderstood,
   FastUnderstood DEF Command

-----------------------------------------------------------------------------
(* The requests at the reader.                                             *)

(* They are the frames of the calls made, each under its own id.           *)
RequestInv ==
    /\ last \in 0..MaxCalls /\ DOMAIN sent = Ids
    /\ \A q \in 1..last : sent[q] \in Requests
    /\ inbox \in Seq(Nat \X {Encode(c) : c \in Requests})
    /\ \A i \in 1..Len(inbox) :
          /\ inbox[i][1] \in 1..last
          /\ inbox[i][2] = Encode(sent[inbox[i][1]])

LEMMA RequestInvInit ==
    ASSUME Init
    PROVE  RequestInv
<1>1. last = 0 /\ inbox = <<>> /\ DOMAIN sent = Ids
  BY DEF Init
<1>2. last \in 0..MaxCalls /\ 1..last = {}
  BY <1>1, BoundsAssumption
<1>3. inbox \in Seq(Nat \X {Encode(c) : c \in Requests}) /\ Len(inbox) = 0
  BY <1>1
<1>4. 1..Len(inbox) = {}
  BY <1>3
<1> QED
  BY <1>1, <1>2, <1>3, <1>4 DEF RequestInv

LEMMA RequestSent ==
    ASSUME RequestInv, NEW c \in Requests, NEW s, Send(c, s)
    PROVE  RequestInv'
<1>1. /\ last \in 0..MaxCalls /\ DOMAIN sent = Ids
      /\ \A q \in 1..last : sent[q] \in Requests
      /\ inbox \in Seq(Nat \X {Encode(d) : d \in Requests})
      /\ \A i \in 1..Len(inbox) :
            /\ inbox[i][1] \in 1..last
            /\ inbox[i][2] = Encode(sent[inbox[i][1]])
  BY DEF RequestInv
<1>2. /\ last < MaxCalls /\ last' = last + 1
      /\ sent' = [sent EXCEPT ![last + 1] = c]
      /\ \/ inbox' = Append(inbox, <<last + 1, Encode(c)>>)
         \/ inbox' = inbox
  BY DEF Send
<1>3. /\ last' \in 0..MaxCalls /\ last' \in 1..last' /\ last' \in Ids
      /\ last' \in Nat
      /\ \A q \in 1..last' : q = last' \/ q \in 1..last
      /\ \A q \in 1..last : q # last' /\ q \in 1..last'
  BY <1>1, <1>2, BoundsAssumption DEF Ids
<1>4. /\ DOMAIN sent' = Ids /\ sent'[last'] = c
      /\ \A q \in 1..last : sent'[q] = sent[q]
  <2>1. \A q \in 1..last : q \in Ids /\ q # last + 1
    BY <1>1, <1>2, BoundsAssumption DEF Ids
  <2>2. last + 1 \in Ids
    BY <1>2, <1>3
  <2> QED
    BY <1>1, <1>2, <2>1, <2>2
<1>5. \A q \in 1..last' : sent'[q] \in Requests
  BY <1>1, <1>3, <1>4
<1>6. ASSUME NEW i \in 1..Len(inbox)
      PROVE  /\ inbox[i][1] \in 1..last'
             /\ inbox[i][2] = Encode(sent'[inbox[i][1]])
  BY <1>1, <1>3, <1>4
<1>7. CASE inbox' = inbox
  BY <1>1, <1>3, <1>4, <1>5, <1>6, <1>7 DEF RequestInv
<1>8. CASE inbox' = Append(inbox, <<last + 1, Encode(c)>>)
  <2> DEFINE F == Nat \X {Encode(d) : d \in Requests}
  <2>1. PICK x : x = <<last', Encode(c)>>
    OBVIOUS
  <2>2. x[1] = last' /\ x[2] = Encode(c) /\ x \in F
    BY <1>3, <2>1
  <2>3. inbox \in Seq(F) /\ inbox' = Append(inbox, x)
    BY <1>1, <1>2, <1>8, <2>1
  <2> HIDE DEF F
  <2>4. /\ inbox' \in Seq(F) /\ Len(inbox') = Len(inbox) + 1
        /\ \A i \in 1..Len(inbox) : inbox'[i] = inbox[i]
        /\ inbox'[Len(inbox) + 1] = x
    BY <2>2, <2>3, AppendProperties
  <2>5. ASSUME NEW i \in 1..Len(inbox')
        PROVE  /\ inbox'[i][1] \in 1..last'
               /\ inbox'[i][2] = Encode(sent'[inbox'[i][1]])
    <3>1. Len(inbox) \in Nat
      BY <2>3, LenProperties
    <3>2. CASE i = Len(inbox) + 1
      <4>1. inbox'[i] = x
        BY <2>4, <3>2
      <4> QED
        BY <1>3, <1>4, <2>2, <4>1
    <3>3. CASE i \in 1..Len(inbox)
      <4>1. inbox'[i] = inbox[i]
        BY <2>4, <3>3
      <4> QED
        BY <1>6, <3>3, <4>1
    <3> QED
      BY <2>4, <3>1, <3>2, <3>3
  <2> QED
    BY <1>3, <1>4, <1>5, <2>4, <2>5 DEF RequestInv, F
<1> QED
  BY <1>2, <1>7, <1>8

LEMMA RequestTaken ==
    ASSUME RequestInv, inbox # <<>>, inbox' = Tail(inbox),
           UNCHANGED <<last, sent>>
    PROVE  RequestInv'
<1> DEFINE F == Nat \X {Encode(c) : c \in Requests}
<1>1. inbox \in Seq(F)
  BY DEF RequestInv
<1> HIDE DEF F
<1>2. /\ inbox' \in Seq(F) /\ Len(inbox') = Len(inbox) - 1
      /\ \A i \in 1..Len(inbox') : inbox'[i] = inbox[i + 1]
  BY <1>1, HeadTailProperties
<1>3. ASSUME NEW i \in 1..Len(inbox')
      PROVE  /\ inbox'[i][1] \in 1..last'
             /\ inbox'[i][2] = Encode(sent'[inbox'[i][1]])
  <2>1. Len(inbox) \in Nat /\ inbox'[i] = inbox[i + 1]
    BY <1>1, <1>2, LenProperties
  <2>2. i + 1 \in 1..Len(inbox)
    BY <1>2, <2>1
  <2> QED
    BY <2>1, <2>2 DEF RequestInv
<1> QED
  BY <1>2, <1>3 DEF RequestInv, F

LEMMA RequestInvNext ==
    ASSUME RequestInv, [Next]_vars
    PROVE  RequestInv'
<1>1. ASSUME NEW c \in Requests, NEW s \in {"open", "failed"}, Send(c, s)
      PROVE  RequestInv'
  BY <1>1, RequestSent
<1>2. CASE ReaderAnswers
  BY <1>2, RequestTaken DEF ReaderAnswers
<1>3. CASE ReaderIgnores
  BY <1>3, RequestTaken DEF ReaderIgnores
<1>4. ASSUME UNCHANGED <<last, sent, inbox>>
      PROVE  RequestInv'
  BY <1>4 DEF RequestInv
<1>5. ASSUME NEW n \in Sizes, Receive(n)
      PROVE  RequestInv'
  BY <1>4, <1>5 DEF Receive
<1>6. CASE Abandon
  BY <1>4, <1>6 DEF Abandon
<1>7. CASE UNCHANGED vars
  BY <1>4, <1>7 DEF vars
<1> QED
  BY <1>1, <1>2, <1>3, <1>5, <1>6, <1>7 DEF Next

LEMMA RequestInvHolds == Spec => []RequestInv
<1>1. Init => RequestInv
  BY RequestInvInit
<1>2. RequestInv /\ [Next]_vars => RequestInv'
  BY RequestInvNext
<1> QED
  BY <1>1, <1>2, PTL DEF Spec

(* Whatever is sent, the reader understands it as it was meant: Command's  *)
(* to_bytes and Frame's, over all antenna lists, frequencies and powers.   *)
THEOREM RequestsAreUnderstood == Spec => []RequestsUnderstood
<1>1. RequestInv => RequestsUnderstood
  <2> SUFFICES ASSUME RequestInv, NEW i \in DOMAIN inbox
               PROVE  Understands(inbox[i][2], sent[inbox[i][1]])
    BY DEF RequestsUnderstood
  <2> DEFINE F == Nat \X {Encode(c) : c \in Requests}
  <2>1. i \in 1..Len(inbox)
    <3>1. inbox \in Seq(F)
      BY DEF RequestInv
    <3> HIDE DEF F
    <3> QED
      BY <3>1, LenProperties
  <2>2. PICK c : c = sent[inbox[i][1]]
    OBVIOUS
  <2>3. c \in Requests /\ inbox[i][2] = Encode(c)
    BY <2>1, <2>2 DEF RequestInv
  <2>4. Understands(Encode(c), c)
    BY <2>3, RequestsAssumption, EncodedIsUnderstood
  <2> QED
    BY <2>2, <2>3, <2>4
<1> QED
  BY <1>1, RequestInvHolds, PTL

-----------------------------------------------------------------------------
(* One-frame answers.                                                      *)

(* f is a frame with the code x and n bytes of data.                       *)
AnswerFrame(x, data) == Framed(<<x>> \o data)

AnswerShape(f, x, data, n) ==
    /\ f \in Seq(Byte) /\ Len(f) = n + 5
    /\ f[1] = HEADER /\ f[2] = n + 3 /\ f[3] = ADDRESS /\ f[4] = x
    /\ f[n + 5] = Checksum(Front(f))
    /\ SubSeq(f, 5, n + 4) = data

LEMMA AnswerForm ==
    ASSUME NEW x \in Byte, NEW data \in Seq(Byte), NEW n \in 0..252,
           Len(data) = n
    PROVE  AnswerShape(AnswerFrame(x, data), x, data, n)
<1>0. PICK f : f = AnswerFrame(x, data)
  OBVIOUS
<1>1. PICK h, p : h = <<x>> /\ p = h \o data
  OBVIOUS
<1>2. h \in Seq(Byte) /\ Len(h) = 1 /\ h[1] = x
  BY <1>1
<1>3. /\ p \in Seq(Byte) /\ Len(p) = Len(h) + Len(data)
      /\ \A i \in 1..Len(h) : p[i] = h[i]
      /\ \A i \in 1..Len(data) : p[Len(h) + i] = data[i]
  <2>1. h \in Seq(Byte) /\ data \in Seq(Byte) /\ p = h \o data
    BY <1>1, <1>2
  <2> QED
    BY <2>1, ConcatAt
<1>4. /\ Len(p) = 1 + n /\ \A i \in 1..1 : p[i] = h[i]
      /\ \A i \in 1..n : p[1 + i] = data[i]
  BY <1>2, <1>3
<1>5. /\ 1 + n \in 1..253 /\ (1 + n) + 2 = n + 3 /\ (1 + n) + 4 = n + 5
      /\ 1 \in 1..1 /\ 1 \in 1..(1 + n) /\ 1 + 3 = 4
      /\ \A i \in 1..n : 1 + i \in 1..(1 + n) /\ (1 + i) + 3 = i + 4
  OBVIOUS
<1>6. p[1] = x
  BY <1>2, <1>4, <1>5
<1>7. /\ f \in Seq(Byte) /\ Len(f) = Len(p) + 4
      /\ f[1] = HEADER /\ f[2] = Len(p) + 2 /\ f[3] = ADDRESS
      /\ \A i \in 1..Len(p) : f[i + 3] = p[i]
      /\ f[Len(f)] = Checksum(Front(f))
  <2>1. p \in Seq(Byte) /\ Len(p) \in 1..253
    <3>1. PICK m : m = 1 + n
      OBVIOUS
    <3>2. m \in 1..253
      BY <1>5, <3>1
    <3>3. Len(p) = m
      BY <1>4, <3>1
    <3> QED
      BY <1>3, <3>2, <3>3, Zenon
  <2>2. LET g == Framed(p)
        IN /\ g \in Seq(Byte) /\ Len(g) = Len(p) + 4
           /\ g[1] = HEADER /\ g[2] = Len(p) + 2 /\ g[3] = ADDRESS
           /\ \A i \in 1..Len(p) : g[i + 3] = p[i]
           /\ g[Len(g)] = Checksum(Front(g))
    BY <2>1, FramedForm
  <2> QED
    BY <1>0, <1>1, <2>2 DEF AnswerFrame
<1>8. Len(f) = n + 5 /\ f[2] = n + 3
  BY <1>4, <1>5, <1>7
<1>9. f[4] = x /\ \A i \in 1..n : f[i + 4] = data[i]
  BY <1>4, <1>5, <1>6, <1>7
<1>10. SubSeq(f, 5, n + 4) = data
  <2>1. \A i \in 5..(n + 4) : f[i] \in Byte
    <3>1. \A i \in 5..(n + 4) : i \in 1..(n + 5)
      OBVIOUS
    <3> QED
      BY <1>7, <1>8, <3>1, ElementOfSeq
  <2>2. PICK b : b = SubSeq(f, 5, n + 4)
    OBVIOUS
  <2>3. /\ b \in Seq(Byte)
        /\ Len(b) = IF 5 <= n + 4 THEN (n + 4) - 5 + 1 ELSE 0
        /\ \A i \in 1..((n + 4) - 5 + 1) : b[i] = f[5 + i - 1]
    <3>1. 5 \in Int /\ n + 4 \in Int
      OBVIOUS
    <3> QED
      BY <2>1, <2>2, <3>1, SubSeqProperties
  <2>4. /\ (n + 4) - 5 + 1 = n /\ (5 <= n + 4 \/ n = 0)
        /\ \A i \in 1..n : 5 + i - 1 = i + 4
    OBVIOUS
  <2>5. Len(b) = n /\ \A i \in 1..n : b[i] = data[i]
    BY <1>9, <2>3, <2>4
  <2>6. b = data
    BY <2>3, <2>5, SeqEqual
  <2> QED
    BY <2>2, <2>6
<1> QED
  BY <1>0, <1>7, <1>8, <1>9, <1>10 DEF AnswerShape

LEMMA CodeOf ==
    ASSUME NEW c \in Command
    PROVE  Code[c.op] \in Byte
<1>1. CASE c \in Plain
  BY <1>1, PlainForm
<1>2. CASE c \notin Plain
  <2>1. c.op \in {"SetDefaultFrequencyRegion", "GetRfPortReturnLoss",
                  "CustomizeSessionTargetInventory",
                  "FastSwitchAntInventory"}
    BY <1>2 DEF Command, RegionRequests, LossRequests, SingleRequests,
                FastRequests
  <2> QED
    BY <2>1, CodeForm DEF Setters, Inventories
<1> QED
  BY <1>1, <1>2

(* A whole frame is read for what its data says, and a beginning of it is  *)
(* never taken for a frame: wherever a read cuts it, from_bytes waits.     *)
THEOREM AnswersAreReadWhole ==
    ASSUME NEW c \in Command, NEW data \in Seq(Byte), Len(data) \in 0..252
    PROVE  LET f == AnswerFrame(Code[c.op], data)
           IN /\ c.op \notin Inventories =>
                    Outcome(f, c) = Decode(c, Len(data) + 3, data)
              /\ \A k \in 0..(Len(f) - 1) :
                    Outcome(SubSeq(f, 1, k), c) = Unparsed
<1>1. PICK n, x, f : /\ n = Len(data) /\ x = Code[c.op]
                     /\ f = AnswerFrame(x, data)
  OBVIOUS
<1>2. n \in 0..252 /\ x \in Byte
  BY <1>1, CodeOf
<1>3. /\ f \in Seq(Byte) /\ Len(f) = n + 5
      /\ f[2] = n + 3 /\ f[4] = x
      /\ f[n + 5] = Checksum(Front(f))
      /\ SubSeq(f, 5, n + 4) = data
  <2>1. AnswerShape(f, x, data, n)
    BY <1>1, <1>2, AnswerForm
  <2> QED
    BY <2>1 DEF AnswerShape
<1>4. ASSUME c.op \notin Inventories
      PROVE  Outcome(f, c) = Decode(c, n + 3, data)
  <2>1. /\ ~(n + 5 < 4) /\ n + 5 >= 2 /\ n + 3 >= 3
        /\ n + 5 >= (n + 3) + 2 /\ (n + 3) + 2 = n + 5
        /\ (n + 3) + 1 = n + 4
    BY <1>2
  <2>2. ~(Len(f) < 4) /\ Complete(f)
    BY <1>3, <2>1 DEF Complete
  <2>3. Checks(f) /\ Data(f) = data
    BY <1>3, <2>1 DEF Checks, ChecksumByte, Data
  <2> QED
    BY <1>1, <1>3, <1>4, <2>2, <2>3 DEF Outcome
<1>5. ASSUME NEW k \in 0..(n + 4)
      PROVE  Outcome(SubSeq(f, 1, k), c) = Unparsed
  <2>1. PICK b : b = SubSeq(f, 1, k)
    OBVIOUS
  <2>2. /\ Len(b) = IF 1 <= k THEN k - 1 + 1 ELSE 0
        /\ \A i \in 1..(k - 1 + 1) : b[i] = f[1 + i - 1]
    <3>1. 1 \in Int /\ k \in Int
      BY <1>2
    <3>2. \A i \in 1..k : i \in 1..(n + 5)
      BY <1>2
    <3>3. \A i \in 1..k : f[i] \in Byte
      BY <1>3, <3>2, ElementOfSeq
    <3> QED
      BY <2>1, <3>1, <3>3, SubSeqProperties
  <2>3. Len(b) = k /\ \A i \in 1..k : b[i] = f[i]
    <3>1. /\ k - 1 + 1 = k /\ (1 <= k \/ k = 0)
          /\ \A i \in 1..k : 1 + i - 1 = i
      BY <1>2
    <3> QED
      BY <2>2, <3>1
  <2>4. CASE k < 4
    <3>1. Len(b) < 4
      BY <2>3, <2>4
    <3> QED
      BY <2>1, <3>1 DEF Outcome
  <2>5. CASE ~(k < 4)
    <3>1. 2 \in 1..k /\ ~(k >= (n + 3) + 2)
      BY <1>2, <2>5
    <3>2. b[2] = n + 3
      BY <1>3, <2>3, <3>1
    <3>3. ~Complete(b)
      BY <2>3, <3>1, <3>2 DEF Complete
    <3> QED
      BY <2>1, <3>3 DEF Outcome
  <2> QED
    BY <2>4, <2>5
<1>6. Len(f) - 1 = n + 4
  <2>1. \A m \in 0..252 : (m + 5) - 1 = m + 4
    OBVIOUS
  <2>2. Len(f) = n + 5
    BY <1>3
  <2> QED
    BY <1>2, <2>1, <2>2, Zenon
<1> QED
  BY <1>1, <1>4, <1>5, <1>6

-----------------------------------------------------------------------------
(* The atoms of a stream of bytes, given the requests S and answers D.     *)

Elem == [b: Byte, q: Ids, k: Nat, i: Nat]

AtomIn(S, D, e, part) ==
    [id |-> e.q, cmd |-> S[e.q].op, n |-> e.k,
     shape |-> ShapeOf(Len(D[e.q].data[e.k])),
     last |-> e.k = Len(D[e.q].data), part |-> part]

SizeIn(D, e) == Len(D[e.q].data[e.k]) + 5

Opening(S, D, e) == IF e.i = 1 THEN <<AtomIn(S, D, e, "head")>> ELSE <<>>

Closing(S, D, e) ==
    IF e.i = SizeIn(D, e) THEN <<AtomIn(S, D, e, "tail")>> ELSE <<>>

MarksIn(S, D, e) ==
    IF e.i = 1 THEN <<AtomIn(S, D, e, "head")>>
    ELSE IF e.i = SizeIn(D, e) THEN <<AtomIn(S, D, e, "tail")>>
    ELSE <<>>

Marked(S, D, s) == [i \in DOMAIN s |-> MarksIn(S, D, s[i])]

AtomsIn(S, D, s) == FlattenSeq(Marked(S, D, s))

AllAtoms(S, D) ==
    {AtomIn(S, D, e, part) : e \in Elem, part \in {"head", "tail"}}

LEMMA AtomsOfStream ==
    ASSUME NEW s
    PROVE  AtomsOf(s) = AtomsIn(sent, said, s)
BY DEF AtomsOf, AtomsIn, Marked, Marks, MarksIn, AtomOf, AtomIn, SizeIn

LEMMA MarksType ==
    ASSUME NEW S, NEW D, NEW e \in Elem
    PROVE  /\ MarksIn(S, D, e) \in Seq(AllAtoms(S, D))
           /\ Opening(S, D, e) \in Seq(AllAtoms(S, D))
           /\ Closing(S, D, e) \in Seq(AllAtoms(S, D))
<1>1. PICK h, t : h = AtomIn(S, D, e, "head") /\ t = AtomIn(S, D, e, "tail")
  OBVIOUS
<1>2. h \in AllAtoms(S, D) /\ t \in AllAtoms(S, D)
  BY <1>1 DEF AllAtoms
<1>3. PICK A : A = AllAtoms(S, D)
  OBVIOUS
<1>4. <<h>> \in Seq(A) /\ <<t>> \in Seq(A) /\ <<>> \in Seq(A)
  BY <1>2, <1>3
<1> QED
  BY <1>1, <1>3, <1>4 DEF MarksIn, Opening, Closing

LEMMA MarkedForm ==
    ASSUME NEW S, NEW D, NEW s \in Seq(Elem)
    PROVE  /\ Marked(S, D, s) \in Seq(Seq(AllAtoms(S, D)))
           /\ Len(Marked(S, D, s)) = Len(s)
           /\ \A i \in 1..Len(s) : Marked(S, D, s)[i] = MarksIn(S, D, s[i])
<1>1. PICK n, T : n = Len(s) /\ T = Seq(AllAtoms(S, D))
  OBVIOUS
<1>2. n \in Nat /\ DOMAIN s = 1..n /\ \A i \in 1..n : s[i] \in Elem
  BY <1>1, LenProperties, ElementOfSeq
<1>3. \A i \in 1..n : MarksIn(S, D, s[i]) \in T
  BY <1>1, <1>2, MarksType
<1>4. PICK m : m = [i \in 1..n |-> MarksIn(S, D, s[i])]
  OBVIOUS
<1>5. m \in [1..n -> T]
  BY <1>3, <1>4
<1>6. m \in Seq(T) /\ Len(m) = n
  BY <1>2, <1>5
<1>7. m = Marked(S, D, s)
  BY <1>2, <1>4 DEF Marked
<1> QED
  BY <1>1, <1>4, <1>6, <1>7

LEMMA AtomsType ==
    ASSUME NEW S, NEW D, NEW s \in Seq(Elem)
    PROVE  AtomsIn(S, D, s) \in Seq(AllAtoms(S, D))
BY MarkedForm, FlattenType DEF AtomsIn

LEMMA AtomsEmpty ==
    ASSUME NEW S, NEW D
    PROVE  AtomsIn(S, D, <<>>) = <<>>
<1>1. Marked(S, D, <<>>) = <<>>
  BY DEF Marked
<1> QED
  BY <1>1, FlattenEmpty DEF AtomsIn

LEMMA AtomsConcat ==
    ASSUME NEW S, NEW D, NEW s \in Seq(Elem), NEW t \in Seq(Elem)
    PROVE  AtomsIn(S, D, s \o t) = AtomsIn(S, D, s) \o AtomsIn(S, D, t)
<1>1. PICK u, A : u = s \o t /\ A = AllAtoms(S, D)
  OBVIOUS
<1>2. /\ u \in Seq(Elem) /\ Len(u) = Len(s) + Len(t)
      /\ \A i \in 1..(Len(s) + Len(t)) :
            u[i] = IF i <= Len(s) THEN s[i] ELSE t[i - Len(s)]
  BY <1>1, ConcatProperties
<1>3. PICK x, y, z : /\ x = Marked(S, D, s) /\ y = Marked(S, D, t)
                     /\ z = Marked(S, D, u)
  OBVIOUS
<1>4. /\ x \in Seq(Seq(A)) /\ Len(x) = Len(s)
      /\ \A i \in 1..Len(s) : x[i] = MarksIn(S, D, s[i])
  BY <1>1, <1>3, MarkedForm
<1>5. /\ y \in Seq(Seq(A)) /\ Len(y) = Len(t)
      /\ \A i \in 1..Len(t) : y[i] = MarksIn(S, D, t[i])
  BY <1>1, <1>3, MarkedForm
<1>6. /\ z \in Seq(Seq(A)) /\ Len(z) = Len(u)
      /\ \A i \in 1..Len(u) : z[i] = MarksIn(S, D, u[i])
  BY <1>1, <1>2, <1>3, MarkedForm
<1>7. PICK v : v = x \o y
  OBVIOUS
<1>8. /\ v \in Seq(Seq(A)) /\ Len(v) = Len(x) + Len(y)
      /\ \A i \in 1..(Len(x) + Len(y)) :
            v[i] = IF i <= Len(x) THEN x[i] ELSE y[i - Len(x)]
  BY <1>4, <1>5, <1>7, ConcatProperties
<1>9. PICK m, n : m = Len(s) /\ n = Len(t)
  OBVIOUS
<1>10. m \in Nat /\ n \in Nat
  BY <1>9, LenProperties
<1>11. ASSUME NEW i \in 1..(m + n)
       PROVE  v[i] = z[i]
  <2>1. CASE i <= m
    <3>1. i \in 1..m
      BY <1>10, <2>1
    <3> QED
      BY <1>2, <1>4, <1>6, <1>8, <1>5, <1>9, <2>1, <3>1
  <2>2. CASE ~(i <= m)
    <3>1. i - m \in 1..n
      BY <1>10, <2>2
    <3> QED
      BY <1>2, <1>4, <1>6, <1>8, <1>5, <1>9, <2>2, <3>1
  <2> QED
    BY <2>1, <2>2
<1>12. Len(v) = m + n /\ Len(z) = m + n
  <2>1. Len(x) = m /\ Len(y) = n /\ Len(u) = m + n
    BY <1>2, <1>4, <1>5, <1>9, Zenon
  <2> QED
    BY <1>6, <1>8, <2>1, Zenon
<1>13. v = z
  <2>1. /\ v \in Seq(Seq(A)) /\ z \in Seq(Seq(A)) /\ Len(v) = Len(z)
        /\ \A i \in 1..Len(v) : v[i] = z[i]
    BY <1>6, <1>8, <1>11, <1>12, Zenon
  <2> QED
    BY <2>1, SeqEqual, Zenon
<1>14. FlattenSeq(x \o y) = FlattenSeq(x) \o FlattenSeq(y)
  BY <1>4, <1>5, FlattenConcat
<1> QED
  BY <1>1, <1>3, <1>7, <1>13, <1>14 DEF AtomsIn

LEMMA AtomsOne ==
    ASSUME NEW S, NEW D, NEW e \in Elem
    PROVE  AtomsIn(S, D, <<e>>) = MarksIn(S, D, e)
<1>1. Marked(S, D, <<e>>) = <<MarksIn(S, D, e)>>
  BY DEF Marked
<1>2. MarksIn(S, D, e) \in Seq(AllAtoms(S, D))
  BY MarksType
<1> QED
  BY <1>1, <1>2, FlattenOne DEF AtomsIn

(* s is a stretch of one frame.                                            *)
Run(D, s) ==
    /\ s \in Seq(Elem) /\ s # <<>>
    /\ Len(D[s[1].q].data[s[1].k]) \in Nat
    /\ \A j \in 1..Len(s) :
          /\ s[j].q = s[1].q /\ s[j].k = s[1].k
          /\ s[j].i = s[1].i + (j - 1)
          /\ s[j].i \in 1..SizeIn(D, s[1])

LEMMA RunShorter ==
    ASSUME NEW D, NEW t \in Seq(Elem), NEW x \in Elem, t # <<>>,
           Run(D, Append(t, x))
    PROVE  /\ Run(D, t)
           /\ x.q = t[1].q /\ x.k = t[1].k
           /\ x.i = t[Len(t)].i + 1
           /\ t[Len(t)].q = t[1].q /\ t[Len(t)].k = t[1].k
           /\ t[Len(t)].i \in Nat /\ t[Len(t)].i >= 1
           /\ x.i <= SizeIn(D, t[1])
           /\ SizeIn(D, t[1]) \in Nat
<1>1. PICK s, n : s = Append(t, x) /\ n = Len(t)
  OBVIOUS
<1>2. /\ n \in Nat \ {0} /\ Len(s) = n + 1
      /\ \A j \in 1..n : s[j] = t[j] /\ t[j] \in Elem
      /\ s[n + 1] = x
  BY <1>1, AppendProperties, EmptySeq, LenProperties, ElementOfSeq
<1>3. /\ 1 \in 1..n /\ n \in 1..n /\ n + 1 \in 1..(n + 1)
      /\ \A j \in 1..n : j \in 1..(n + 1)
  BY <1>2
<1>4. s[1] = t[1] /\ s[n] = t[n]
  BY <1>2, <1>3
<1>5. /\ Len(D[t[1].q].data[t[1].k]) \in Nat
      /\ \A j \in 1..(n + 1) :
            /\ s[j].q = t[1].q /\ s[j].k = t[1].k
            /\ s[j].i = t[1].i + (j - 1)
            /\ s[j].i \in 1..SizeIn(D, t[1])
  BY <1>1, <1>2, <1>4 DEF Run
<1>6. Run(D, t)
  BY <1>1, <1>2, <1>3, <1>5 DEF Run
<1>7. /\ x.q = t[1].q /\ x.k = t[1].k /\ x.i = t[1].i + ((n + 1) - 1)
      /\ x.i \in 1..SizeIn(D, t[1])
  BY <1>2, <1>3, <1>5
<1>8. /\ t[n].q = t[1].q /\ t[n].k = t[1].k /\ t[n].i = t[1].i + (n - 1)
      /\ t[n].i \in 1..SizeIn(D, t[1])
  <2>1. n \in 1..(n + 1)
    BY <1>3
  <2>2. /\ s[n].q = t[1].q /\ s[n].k = t[1].k /\ s[n].i = t[1].i + (n - 1)
        /\ s[n].i \in 1..SizeIn(D, t[1])
    BY <1>5, <2>1
  <2> QED
    BY <1>4, <2>2
<1>9. t[1].i \in Nat /\ SizeIn(D, t[1]) \in Nat
  <2>1. t[1] \in Elem
    BY <1>2, <1>3
  <2>2. PICK m : m = Len(D[t[1].q].data[t[1].k])
    OBVIOUS
  <2>3. m \in Nat
    BY <1>5, <2>2, Zenon
  <2>4. m + 5 \in Nat
    BY <2>3
  <2> QED
    BY <2>1, <2>2, <2>4 DEF Elem, SizeIn
<1> QED
  BY <1>1, <1>2, <1>6, <1>7, <1>8, <1>9

(* Only the ends of a stretch leave marks.                                 *)
LEMMA RunAtoms ==
    ASSUME NEW S, NEW D, NEW s, Run(D, s)
    PROVE  AtomsIn(S, D, s)
                = Opening(S, D, s[1]) \o Closing(S, D, s[Len(s)])
<1> DEFINE P(t) == AtomsIn(S, D, t)
                    = Opening(S, D, t[1]) \o Closing(S, D, t[Len(t)])
           N == {n \in Nat : \A t \in Seq(Elem) :
                                Run(D, t) /\ Len(t) = n => P(t)}
<1>1. 0 \in N
  <2>1. \A t \in Seq(Elem) : Run(D, t) => Len(t) # 0
    BY EmptySeq DEF Run
  <2> QED
    BY <2>1
<1>2. ASSUME NEW n \in Nat, n \in N
      PROVE  n + 1 \in N
  <2> SUFFICES ASSUME NEW t \in Seq(Elem), Run(D, t), Len(t) = n + 1
               PROVE  P(t)
    OBVIOUS
  <2> HIDE DEF N
  <2>1. PICK u \in Seq(Elem), x \in Elem : t = Append(u, x)
    <3>1. t # <<>>
      BY DEF Run
    <3> QED
      BY <3>1, SequenceEmptyOrAppend
  <2>2. /\ Len(u) = n /\ t[Len(t)] = x /\ \A i \in 1..n : t[i] = u[i]
        /\ t = u \o <<x>>
    <3>1. /\ Len(u) + 1 = n + 1 /\ Len(u) \in Nat
          /\ \A i \in 1..Len(u) : t[i] = u[i]
          /\ t[Len(u) + 1] = x
      BY <2>1, AppendProperties, LenProperties
    <3> QED
      BY <2>1, <3>1, AppendIsConcat
  <2>3. AtomsIn(S, D, t) = AtomsIn(S, D, u) \o MarksIn(S, D, x)
    <3>0. <<x>> \in Seq(Elem)
      OBVIOUS
    <3>1. PICK v \in Seq(Elem) : v = <<x>>
      BY <3>0
    <3>2. AtomsIn(S, D, u \o v) = AtomsIn(S, D, u) \o AtomsIn(S, D, v)
      BY AtomsConcat
    <3>3. AtomsIn(S, D, v) = MarksIn(S, D, x)
      BY <3>1, AtomsOne
    <3> QED
      BY <2>2, <3>1, <3>2, <3>3
  <2>4. CASE u = <<>>
    <3>1. n = 0
      BY <2>2, <2>4, EmptySeq
    <3>2. t[1] = x
      BY <2>2, <3>1
    <3>3. AtomsIn(S, D, t) = MarksIn(S, D, x)
      <4>1. MarksIn(S, D, x) \in Seq(AllAtoms(S, D))
        BY MarksType
      <4> QED
        BY <2>3, <2>4, <4>1, AtomsEmpty, ConcatEmptySeq
    <3>4. MarksIn(S, D, x) = Opening(S, D, x) \o Closing(S, D, x)
      <4>1. /\ Opening(S, D, x) \in Seq(AllAtoms(S, D))
            /\ Closing(S, D, x) \in Seq(AllAtoms(S, D))
        BY MarksType
      <4>2. SizeIn(D, x) # 1
        <5>1. Len(D[x.q].data[x.k]) \in Nat
          BY <3>2 DEF Run
        <5>2. \A m \in Nat : m + 5 # 1
          OBVIOUS
        <5> QED
          BY <5>1, <5>2, Zenon DEF SizeIn
      <4>3. CASE x.i = 1
        <5>1. Closing(S, D, x) = <<>> /\ Opening(S, D, x) = MarksIn(S, D, x)
          BY <4>2, <4>3 DEF Closing, Opening, MarksIn
        <5> QED
          BY <4>1, <5>1, ConcatEmptySeq
      <4>4. CASE x.i # 1
        <5>1. Opening(S, D, x) = <<>> /\ Closing(S, D, x) = MarksIn(S, D, x)
          BY <4>4 DEF Closing, Opening, MarksIn
        <5> QED
          BY <4>1, <5>1, ConcatEmptySeq
      <4> QED
        BY <4>3, <4>4
    <3> QED
      BY <2>2, <3>2, <3>3, <3>4
  <2>5. CASE u # <<>>
    <3>1. /\ Run(D, u)
          /\ x.q = u[1].q /\ x.k = u[1].k /\ x.i = u[Len(u)].i + 1
          /\ u[Len(u)].q = u[1].q /\ u[Len(u)].k = u[1].k
          /\ u[Len(u)].i \in Nat /\ u[Len(u)].i >= 1
          /\ x.i <= SizeIn(D, u[1]) /\ SizeIn(D, u[1]) \in Nat
      BY <2>1, <2>5, RunShorter
    <3>2. AtomsIn(S, D, u) = Opening(S, D, u[1]) \o Closing(S, D, u[Len(u)])
      BY <1>2, <2>2, <3>1 DEF N
    <3>3. Closing(S, D, u[Len(u)]) = <<>>
      <4>1. SizeIn(D, u[Len(u)]) = SizeIn(D, u[1])
        BY <3>1 DEF SizeIn
      <4>2. u[Len(u)].i # SizeIn(D, u[1])
        BY <3>1
      <4> QED
        BY <4>1, <4>2 DEF Closing
    <3>4. MarksIn(S, D, x) = Closing(S, D, x)
      <4>1. x.i # 1
        BY <3>1
      <4> QED
        BY <4>1 DEF MarksIn, Closing
    <3>5. t[1] = u[1] /\ u[1] \in Elem
      <4>1. n \in Nat \ {0}
        BY <2>2, <2>5, EmptySeq
      <4>2. 1 \in 1..n
        BY <4>1
      <4> QED
        BY <2>2, <4>2, ElementOfSeq
    <3>6. AtomsIn(S, D, u) = Opening(S, D, u[1])
      <4>1. Opening(S, D, u[1]) \in Seq(AllAtoms(S, D))
        BY <3>5, MarksType
      <4> QED
        BY <3>2, <3>3, <4>1, ConcatEmptySeq
    <3> QED
      BY <2>2, <2>3, <3>4, <3>5, <3>6
  <2> QED
    BY <2>4, <2>5
<1> HIDE DEF N
<1>3. s \in Seq(Elem) /\ Len(s) \in Nat
  BY LenProperties DEF Run
<1>4. Len(s) \in N
  BY <1>1, <1>2, <1>3, NumbersFollow
<1> QED
  BY <1>3, <1>4 DEF N

-----------------------------------------------------------------------------
(* The data of a tag.                                                      *)

TagParts(x, pc, epc, y, ph) == <<x>> \o pc \o epc \o <<y>> \o ph

TagLayout(d, x, pc, epc, y, ph, m, n) ==
    /\ d \in Seq(Byte) /\ Len(d) = m + n + 4
    /\ d[1] = x /\ d[m + 4] = y
    /\ \A i \in 1..2 : d[1 + i] = pc[i]
    /\ \A i \in 1..m : d[3 + i] = epc[i]
    /\ \A i \in 1..n : d[(m + 4) + i] = ph[i]

LEMMA TagBytes ==
    ASSUME NEW x \in Byte, NEW pc \in Seq(Byte), Len(pc) = 2,
           NEW epc \in Seq(Byte), NEW m \in Nat, Len(epc) = m,
           NEW y \in Byte, NEW ph \in Seq(Byte), NEW n \in Nat, Len(ph) = n,
           NEW d, d = TagParts(x, pc, epc, y, ph)
    PROVE  TagLayout(d, x, pc, epc, y, ph, m, n)
<1>1. PICK a, b, e, f, g : /\ a = <<x>> /\ b = a \o pc /\ e = b \o epc
                           /\ f = <<y>> /\ g = e \o f
  OBVIOUS
<1>2. /\ a \in Seq(Byte) /\ Len(a) = 1 /\ a[1] = x
      /\ f \in Seq(Byte) /\ Len(f) = 1 /\ f[1] = y
  BY <1>1
<1>3. /\ b \in Seq(Byte) /\ Len(b) = 3 /\ b[1] = x
      /\ \A i \in 1..2 : b[1 + i] = pc[i]
  <2>1. /\ b \in Seq(Byte) /\ Len(b) = Len(a) + Len(pc)
        /\ \A i \in 1..Len(a) : b[i] = a[i]
        /\ \A i \in 1..Len(pc) : b[Len(a) + i] = pc[i]
    <3>1. b \in Seq(Byte) /\ Joined(b, a, pc)
      BY <1>1, <1>2, ConcatJoined
    <3> QED
      BY <3>1 DEF Joined
  <2>2. 1 \in 1..1 /\ 1 + 2 = 3
    OBVIOUS
  <2> QED
    BY <1>2, <2>1, <2>2
<1>4. /\ e \in Seq(Byte) /\ Len(e) = m + 3
      /\ \A i \in 1..3 : e[i] = b[i]
      /\ \A i \in 1..m : e[3 + i] = epc[i]
  <2>1. /\ e \in Seq(Byte) /\ Len(e) = Len(b) + Len(epc)
        /\ \A i \in 1..Len(b) : e[i] = b[i]
        /\ \A i \in 1..Len(epc) : e[Len(b) + i] = epc[i]
    <3>1. e \in Seq(Byte) /\ Joined(e, b, epc)
      BY <1>1, <1>3, ConcatJoined
    <3> QED
      BY <3>1 DEF Joined
  <2>2. 3 + m = m + 3
    OBVIOUS
  <2> QED
    BY <1>3, <2>1, <2>2
<1>5. /\ g \in Seq(Byte) /\ Len(g) = m + 4
      /\ \A i \in 1..(m + 3) : g[i] = e[i]
      /\ g[m + 4] = y
  <2>1. /\ g \in Seq(Byte) /\ Len(g) = Len(e) + Len(f)
        /\ \A i \in 1..Len(e) : g[i] = e[i]
        /\ \A i \in 1..Len(f) : g[Len(e) + i] = f[i]
    <3>1. g \in Seq(Byte) /\ Joined(g, e, f)
      BY <1>1, <1>2, <1>4, ConcatJoined
    <3> QED
      BY <3>1 DEF Joined
  <2>2. 1 \in 1..1 /\ (m + 3) + 1 = m + 4
    OBVIOUS
  <2> QED
    BY <1>2, <1>4, <2>1, <2>2
<1>6. /\ d \in Seq(Byte) /\ Len(d) = (m + 4) + n
      /\ \A i \in 1..(m + 4) : d[i] = g[i]
      /\ \A i \in 1..n : d[(m + 4) + i] = ph[i]
  <2>1. d = g \o ph
    BY <1>1 DEF TagParts
  <2>2. /\ d \in Seq(Byte) /\ Len(d) = Len(g) + Len(ph)
        /\ \A i \in 1..Len(g) : d[i] = g[i]
        /\ \A i \in 1..Len(ph) : d[Len(g) + i] = ph[i]
    <3>1. d \in Seq(Byte) /\ Joined(d, g, ph)
      BY <1>5, <2>1, ConcatJoined
    <3> QED
      BY <3>1 DEF Joined
  <2> QED
    BY <1>5, <2>2
<1>7. /\ (m + 4) + n = m + n + 4 /\ m + 4 \in 1..(m + 4) /\ 1 \in 1..(m + 4)
      /\ 1 \in 1..(m + 3) /\ 1 \in 1..3
      /\ \A i \in 1..2 : /\ 1 + i \in 1..(m + 4) /\ 1 + i \in 1..(m + 3)
                         /\ 1 + i \in 1..3
      /\ \A i \in 1..m : 3 + i \in 1..(m + 4) /\ 3 + i \in 1..(m + 3)
  OBVIOUS
<1>8. d[1] = x /\ d[m + 4] = y
  BY <1>3, <1>4, <1>5, <1>6, <1>7
<1>9. \A i \in 1..2 : d[1 + i] = pc[i]
  BY <1>3, <1>4, <1>5, <1>6, <1>7
<1>10. \A i \in 1..m : d[3 + i] = epc[i]
  BY <1>4, <1>5, <1>6, <1>7
<1> QED
  BY <1>6, <1>7, <1>8, <1>9, <1>10 DEF TagLayout

(* The bytes of a tag t: m of its EPC and n of its phase.                  *)
TagForm(t, c, m, n) ==
    LET d == TagData(t, c)
        x == 4 * GetParam(t.frequency) + t.antenna
        y == t.rssi + 128 * t.choosing[1]
    IN /\ m \in 2..62 /\ m % 2 = 0 /\ n = (IF SendsPhase(c) THEN 2 ELSE 0)
       /\ d \in Seq(Byte) /\ Len(d) = m + n + 4
       /\ d[1] = x /\ x \in Byte /\ x \div 4 = GetParam(t.frequency)
       /\ x % 4 = t.antenna
       /\ d[m + 4] = y /\ y \in 1..255 /\ y % 128 = t.rssi
       /\ <<y \div 128>> = t.choosing
       /\ SubSeq(d, 2, 3) = t.pc
       /\ SubSeq(d, 4, m + 3) = t.epc
       /\ SendsPhase(c) => SubSeq(d, m + 5, m + 6) = t.phase

LEMMA TagFields ==
    ASSUME NEW t \in Tags
    PROVE  /\ t = [frequency |-> t.frequency, antenna |-> t.antenna,
                   pc |-> t.pc, epc |-> t.epc, rssi |-> t.rssi,
                   choosing |-> t.choosing, phase |-> t.phase]
           /\ t.frequency \in Table /\ t.antenna \in 0..3
           /\ t.pc \in Seq(Byte) /\ Len(t.pc) = 2
           /\ t.epc \in Seq(Byte) /\ t.rssi \in 1..127
           /\ t.choosing \in [1..1 -> 0..1]
           /\ t.phase \in Seq(Byte) /\ Len(t.phase) = 2
           /\ \E words \in 1..31 : Len(t.epc) = 2 * words
<1>1. /\ t \in [frequency: Table, antenna: 0..3, pc: [1..2 -> Byte],
                epc: Seq(Byte), rssi: 1..127, choosing: [1..1 -> 0..1],
                phase: [1..2 -> Byte]]
      /\ \E words \in 1..31 : Len(t.epc) = 2 * words
  BY TagsAssumption
<1>2. t.pc \in [1..2 -> Byte] /\ t.phase \in [1..2 -> Byte]
  BY <1>1
<1>3. \A s \in [1..2 -> Byte] : s \in Seq(Byte) /\ Len(s) = 2
  <2>1. 2 \in Nat
    OBVIOUS
  <2> QED
    BY <2>1, FunctionIsSeq, Zenon
<1>4. /\ t.pc \in Seq(Byte) /\ Len(t.pc) = 2
      /\ t.phase \in Seq(Byte) /\ Len(t.phase) = 2
  BY <1>2, <1>3, Zenon
<1>5. /\ t.frequency \in Table /\ t.antenna \in 0..3 /\ t.epc \in Seq(Byte)
      /\ t.rssi \in 1..127 /\ t.choosing \in [1..1 -> 0..1]
      /\ t = [frequency |-> t.frequency, antenna |-> t.antenna,
                   pc |-> t.pc, epc |-> t.epc, rssi |-> t.rssi,
                   choosing |-> t.choosing, phase |-> t.phase]
  BY <1>1
<1> QED
  BY <1>1, <1>4, <1>5, Zenon

(* The byte that holds a strength and the choice of antennas.              *)
LEMMA StrengthByte ==
    ASSUME NEW a \in 1..127, NEW b \in 0..1
    PROVE  /\ a + 128 * b \in 1..255 /\ (a + 128 * b) % 128 = a
           /\ (a + 128 * b) \div 128 = b
<1>1. CASE b = 0
  BY <1>1
<1>2. CASE b = 1
  BY <1>2
<1> QED
  BY <1>1, <1>2

LEMMA TagDataForm ==
    ASSUME NEW t \in Tags, NEW c
    PROVE  \E m \in Nat, n \in Nat : TagForm(t, c, m, n)
<1> DEFINE p == GetParam(t.frequency)
           ch == t.choosing[1]
           x == 4 * p + t.antenna
           y == t.rssi + 128 * ch
           ph == IF SendsPhase(c) THEN t.phase ELSE <<>>
<1>1. p \in 0..59 /\ t.antenna \in 0..3 /\ t.rssi \in 1..127
  BY TagFields, TableRoundTrip DEF Params
<1>2. ch \in 0..1 /\ t.choosing = <<ch>>
  <2>1. t.choosing \in [1..1 -> 0..1]
    BY TagFields
  <2>2. \A f \in [1..1 -> 0..1] : f[1] \in 0..1 /\ f = <<f[1]>>
    OBVIOUS
  <2> QED
    BY <2>1, <2>2, Zenon
<1>3. x \in 0..255 /\ x \div 4 = p /\ x % 4 = t.antenna
  <2>1. \A a \in 0..59, b \in 0..3 :
            /\ 4 * a + b \in 0..255 /\ (4 * a + b) \div 4 = a
            /\ (4 * a + b) % 4 = b
    OBVIOUS
  <2> QED
    BY <1>1, <2>1, Zenon
<1>4. y \in 1..255 /\ y % 128 = t.rssi /\ y \div 128 = ch
  BY <1>1, <1>2, StrengthByte
<1>5. PICK words \in 1..31 : Len(t.epc) = 2 * words
  BY TagFields
<1>6. PICK m, n : m = 2 * words /\ n = IF SendsPhase(c) THEN 2 ELSE 0
  OBVIOUS
<1>7. m \in 2..62 /\ m \in Nat /\ m % 2 = 0 /\ n \in Nat /\ Len(t.epc) = m
  BY <1>5, <1>6
<1>8. ph \in Seq(Byte) /\ Len(ph) = n
  <2>1. <<>> \in Seq(Byte) /\ Len(<<>>) = 0
    BY EmptySeq
  <2>2. t.phase \in Seq(Byte) /\ Len(t.phase) = 2
    BY TagFields
  <2>3. CASE SendsPhase(c)
    BY <1>6, <2>2, <2>3
  <2>4. CASE ~SendsPhase(c)
    BY <1>6, <2>1, <2>4
  <2> QED
    BY <2>3, <2>4
<1>9. PICK d : d = TagData(t, c)
  OBVIOUS
<1>10. d = TagParts(x, t.pc, t.epc, y, ph)
  BY <1>9 DEF TagData, TagParts
<1>11. /\ t.pc \in Seq(Byte) /\ Len(t.pc) = 2 /\ t.epc \in Seq(Byte)
  BY TagFields
<1>12. x \in Byte /\ y \in Byte
  BY <1>3, <1>4 DEF Byte
<1>13. PICK xx, yy, pp, pc, epc : /\ xx = x /\ yy = y /\ pp = ph /\ pc = t.pc
                                  /\ epc = t.epc
  OBVIOUS
<1>14. /\ d \in Seq(Byte) /\ Len(d) = m + n + 4
       /\ d[1] = xx /\ d[m + 4] = yy
       /\ \A i \in 1..2 : d[1 + i] = pc[i]
       /\ \A i \in 1..m : d[3 + i] = epc[i]
       /\ \A i \in 1..n : d[(m + 4) + i] = pp[i]
  <2> HIDE DEF x, y, ph
  <2>1. /\ xx \in Byte /\ pc \in Seq(Byte) /\ Len(pc) = 2
        /\ epc \in Seq(Byte) /\ m \in Nat /\ Len(epc) = m /\ yy \in Byte
        /\ pp \in Seq(Byte) /\ n \in Nat /\ Len(pp) = n
        /\ d = TagParts(xx, pc, epc, yy, pp)
    BY <1>7, <1>8, <1>10, <1>11, <1>12, <1>13
  <2> QED
    <3>1. TagLayout(d, xx, pc, epc, yy, pp, m, n)
      BY <2>1, TagBytes
    <3> QED
      BY <3>1 DEF TagLayout
<1>15. SubSeq(d, 2, 3) = pc
  <2>1. pc \in Seq(Byte) /\ Len(pc) = 2
    BY <1>11, <1>13
  <2>2. 1 + 2 <= Len(d)
    BY <1>7, <1>14
  <2>3. SubSeq(d, 1 + 1, 1 + 2) = pc
    BY <1>14, <2>1, <2>2, SubSeqIs
  <2> QED
    BY <2>3
<1>16. SubSeq(d, 4, m + 3) = epc
  <2>1. epc \in Seq(Byte) /\ Len(epc) = m
    BY <1>7, <1>11, <1>13
  <2>2. 3 + m <= Len(d)
    BY <1>7, <1>14
  <2>3. SubSeq(d, 3 + 1, 3 + m) = epc
    BY <1>7, <1>14, <2>1, <2>2, SubSeqIs
  <2>4. 3 + 1 = 4 /\ 3 + m = m + 3
    BY <1>7
  <2> QED
    BY <2>3, <2>4
<1>17. ASSUME SendsPhase(c)
       PROVE  SubSeq(d, m + 5, m + 6) = pp
  <2>1. pp \in Seq(Byte) /\ Len(pp) = n /\ n = 2
    BY <1>6, <1>8, <1>13, <1>17
  <2>2. m + 4 \in Nat /\ (m + 4) + n <= Len(d)
    BY <1>7, <1>14, <2>1
  <2>3. SubSeq(d, (m + 4) + 1, (m + 4) + n) = pp
    BY <1>7, <1>14, <2>1, <2>2, SubSeqIs
  <2>4. (m + 4) + 1 = m + 5 /\ (m + 4) + n = m + 6
    BY <1>7, <2>1
  <2> QED
    BY <2>3, <2>4
<1>18. SendsPhase(c) => pp = t.phase
  BY <1>13
<1>19. /\ d[1] = x /\ x \in Byte /\ x \div 4 = p /\ x % 4 = t.antenna
       /\ d[m + 4] = y /\ y \in 1..255 /\ y % 128 = t.rssi
       /\ <<y \div 128>> = t.choosing
  BY <1>2, <1>3, <1>4, <1>12, <1>13, <1>14
<1>20. TagForm(t, c, m, n)
  <2> HIDE DEF x, y, ph, p, ch
  <2>1. /\ m \in 2..62 /\ m % 2 = 0 /\ n = IF SendsPhase(c) THEN 2 ELSE 0
        /\ d \in Seq(Byte) /\ Len(d) = m + n + 4
        /\ SubSeq(d, 2, 3) = t.pc /\ SubSeq(d, 4, m + 3) = t.epc
        /\ SendsPhase(c) => SubSeq(d, m + 5, m + 6) = t.phase
    BY <1>6, <1>7, <1>13, <1>14, <1>15, <1>16, <1>17, <1>18
  <2> QED
    BY <1>9, <1>19, <2>1, Zenon DEF TagForm, x, y, p, ch
<1> QED
  BY <1>7, <1>20

LEMMA PhasesAgree ==
    ASSUME NEW c, ~IgnoresPhase(c)
    PROVE  PhaseOn(c) <=> SendsPhase(c)
BY DEF IgnoresPhase, SendsPhase, PhaseOn, Inventories

(* A tag is read as it was sent: frequency, antenna, words of the EPC,     *)
(* strength and phase (Tag::from_raw and from_raw_with_phase, for an EPC   *)
(* of any number of words there is).  But where the parser has no case for *)
(* the phase that was asked for, the strength and the first byte of the    *)
(* phase are read as two more bytes of the EPC, whatever the tag.          *)
THEOREM TagIsRead ==
    ASSUME NEW t \in Tags, NEW c
    PROVE  /\ IsTag(TagData(t, c), c)
           /\ ~IgnoresPhase(c) => TagOf(TagData(t, c), c) = Seen(t, c)
           /\ IgnoresPhase(c) =>
                 Len(TagOf(TagData(t, c), c).epc) = Len(t.epc) + 2
<1>1. PICK m \in Nat, n \in Nat : TagForm(t, c, m, n)
  BY TagDataForm
<1>2. PICK d : d = TagData(t, c)
  OBVIOUS
<1>3. /\ m \in 2..62 /\ n = (IF SendsPhase(c) THEN 2 ELSE 0)
      /\ d \in Seq(Byte) /\ Len(d) = m + n + 4
      /\ d[1] \div 4 = GetParam(t.frequency) /\ d[1] % 4 = t.antenna
      /\ d[m + 4] \in 1..255 /\ d[m + 4] % 128 = t.rssi
      /\ <<d[m + 4] \div 128>> = t.choosing
      /\ SubSeq(d, 2, 3) = t.pc /\ SubSeq(d, 4, m + 3) = t.epc
      /\ SendsPhase(c) => SubSeq(d, m + 5, m + 6) = t.phase
  <2>1. PICK x, y : /\ x = 4 * GetParam(t.frequency) + t.antenna
                    /\ y = t.rssi + 128 * t.choosing[1]
    OBVIOUS
  <2>2. /\ m \in 2..62 /\ n = (IF SendsPhase(c) THEN 2 ELSE 0)
        /\ d \in Seq(Byte) /\ Len(d) = m + n + 4
        /\ d[1] = x /\ d[m + 4] = y
        /\ SubSeq(d, 2, 3) = t.pc /\ SubSeq(d, 4, m + 3) = t.epc
        /\ SendsPhase(c) => SubSeq(d, m + 5, m + 6) = t.phase
    BY <1>1, <1>2, <2>1, Zenon DEF TagForm
  <2>3. /\ x \div 4 = GetParam(t.frequency) /\ x % 4 = t.antenna
        /\ y \in 1..255 /\ y % 128 = t.rssi /\ <<y \div 128>> = t.choosing
    BY <1>1, <2>1, Zenon DEF TagForm
  <2> QED
    BY <2>2, <2>3, Zenon
<1>4. /\ GetParam(t.frequency) \in Params
      /\ GetFrequency(GetParam(t.frequency)) = t.frequency
  BY TagFields, TableRoundTrip
<1>5. IsTag(d, c)
  <2>1. CASE PhaseOn(c)
    BY <1>3, <1>4, <2>1 DEF IsTag, AfterEpc, PhaseOn, SendsPhase, Inventories
  <2>2. CASE ~PhaseOn(c)
    BY <1>3, <1>4, <2>2 DEF IsTag, AfterEpc
  <2> QED
    BY <2>1, <2>2
<1>6. ASSUME ~IgnoresPhase(c)
      PROVE  TagOf(d, c) = Seen(t, c)
  <2>1. PICK z : z = Len(d) - AfterEpc(c)
    OBVIOUS
  <2>2. z = m + 3 /\ z + 1 = m + 4 /\ z + 2 = m + 5 /\ z + 3 = m + 6
    <3>1. CASE SendsPhase(c)
      <4>1. AfterEpc(c) = 3
        BY <1>6, <3>1, PhasesAgree DEF AfterEpc
      <4> QED
        BY <1>3, <2>1, <3>1, <4>1
    <3>2. CASE ~SendsPhase(c)
      <4>1. AfterEpc(c) = 1
        BY <1>6, <3>2, PhasesAgree DEF AfterEpc
      <4> QED
        BY <1>3, <2>1, <3>2, <4>1
    <3> QED
      BY <3>1, <3>2
  <2>3. TagOf(d, c) = [frequency |-> t.frequency, antenna |-> t.antenna,
                       pc |-> t.pc, epc |-> t.epc, rssi |-> t.rssi,
                       choosing |-> t.choosing,
                       phase |-> IF SendsPhase(c) THEN t.phase ELSE <<0, 0>>]
    <3>1. PICK y : y = d[m + 4]
      OBVIOUS
    <3>2. y # 0
      <4>1. y \in 1..255
        BY <1>3, <3>1, Zenon
      <4> QED
        BY <4>1
    <3>3. /\ SubSeq(d, 4, z) = t.epc /\ d[z + 1] = y
          /\ SendsPhase(c) => SubSeq(d, z + 2, z + 3) = t.phase
      BY <1>3, <2>2, <3>1, Zenon
    <3>4. y % 128 = t.rssi /\ <<y \div 128>> = t.choosing
      BY <1>3, <3>1, Zenon
    <3>5. /\ d[1] % 4 = t.antenna /\ SubSeq(d, 2, 3) = t.pc
          /\ GetFrequency(d[1] \div 4) = t.frequency
      BY <1>3, <1>4, Zenon
    <3>6. Len(d) - AfterEpc(c) = z
      BY <2>1
    <3>7. CASE SendsPhase(c)
      <4>1. SubSeq(d, z + 2, z + 3) = t.phase /\ PhaseOn(c)
        BY <1>6, <3>3, <3>7, PhasesAgree
      <4> QED
        BY <3>2, <3>3, <3>4, <3>5, <3>6, <3>7, <4>1 DEF TagOf
    <3>8. CASE ~SendsPhase(c)
      <4>1. ~PhaseOn(c)
        BY <1>6, <3>8, PhasesAgree
      <4> QED
        BY <3>2, <3>3, <3>4, <3>5, <3>6, <3>8, <4>1 DEF TagOf
    <3> QED
      BY <3>7, <3>8
  <2>4. Seen(t, c) = [frequency |-> t.frequency, antenna |-> t.antenna,
                      pc |-> t.pc, epc |-> t.epc, rssi |-> t.rssi,
                      choosing |-> t.choosing,
                      phase |-> IF SendsPhase(c) THEN t.phase ELSE <<0, 0>>]
    <3>1. t = [frequency |-> t.frequency, antenna |-> t.antenna,
                     pc |-> t.pc, epc |-> t.epc, rssi |-> t.rssi,
                     choosing |-> t.choosing, phase |-> t.phase]
      BY TagFields
    <3> QED
      BY <3>1 DEF Seen
  <2> QED
    BY <2>3, <2>4
<1>7. ASSUME IgnoresPhase(c)
      PROVE  Len(TagOf(d, c).epc) = Len(t.epc) + 2
  <2>1. SendsPhase(c) /\ ~PhaseOn(c)
    BY <1>7 DEF IgnoresPhase, PhaseOn
  <2>2. Len(d) = m + 6 /\ AfterEpc(c) = 1
    BY <1>3, <2>1 DEF AfterEpc
  <2>3. TagOf(d, c).epc = SubSeq(d, 4, m + 5)
    BY <2>2 DEF TagOf
  <2>4. Len(SubSeq(d, 4, m + 5)) = m + 2
    BY <1>3, <2>2, SubSeqProperties
  <2>5. Len(SubSeq(d, 4, m + 3)) = m
    BY <1>3, <2>2, SubSeqProperties
  <2> QED
    BY <1>3, <2>3, <2>4, <2>5
<1> QED
  BY <1>2, <1>5, <1>6, <1>7

-----------------------------------------------------------------------------
(* The answers of the reader.                                              *)

OneFrameOps ==
    Setters \cup {"SetBeeperMode", "GetOutputPower", "GetFirmwareVersion",
                  "GetWorkAntenna", "GetAntConnectionDetector",
                  "GetReaderTemperature", "GetRfLinkProfile",
                  "GetRfPortReturnLoss", "GetFrequencyRegion"}

LEMMA OpsOfRequests ==
    ASSUME NEW c \in Requests
    PROVE  c.op \in OneFrameOps \cup Inventories
<1>1. c \in Command
  BY RequestsAssumption
<1> QED
  BY <1>1 DEF Command, Plain, RegionRequests, LossRequests, SingleRequests,
              FastRequests, OneFrameOps, Inventories, Setters

LEMMA CodesDiffer ==
    /\ \A o \in OneFrameOps \cup Inventories : Code[o] \in 98..139
    /\ \A o \in OneFrameOps \cup Inventories,
          u \in OneFrameOps \cup Inventories : Code[o] = Code[u] => o = u
<1>1. /\ Code["Reset"] = 112 /\ Code["GetFirmwareVersion"] = 114
      /\ Code["SetWorkAntenna"] = 116 /\ Code["GetWorkAntenna"] = 117
      /\ Code["SetOutputPower"] = 118 /\ Code["GetOutputPower"] = 119
      /\ Code["SetDefaultFrequencyRegion"] = 120
      /\ Code["GetFrequencyRegion"] = 121 /\ Code["SetBeeperMode"] = 122
      /\ Code["GetReaderTemperature"] = 123
      /\ Code["GetRfPortReturnLoss"] = 126
      /\ Code["SetAntConnectionDetector"] = 98
      /\ Code["GetAntConnectionDetector"] = 99
      /\ Code["SetRfLinkProfile"] = 105 /\ Code["GetRfLinkProfile"] = 106
      /\ Code["FastSwitchAntInventory"] = 138
      /\ Code["CustomizeSessionTargetInventory"] = 139
  BY DEF Code
<1> QED
  BY <1>1 DEF OneFrameOps, Inventories, Setters

(* What is asked of the data of any frame.                                 *)
GoodData(op, d) ==
    /\ d \in Seq(Byte) /\ Len(d) \in 1..70
    /\ Len(d) \notin {1, 2, 3, 4, 5, 7} => d[1] \div 4 \in Params
    /\ op = "FastSwitchAntInventory" /\ Len(d) = 2 => d[2] \in ErrorCodes

(* The answer has one frame, of the data d, which is decoded to o by the   *)
(* commands named op, and by e in particular.                              *)
OneFrame(a, op, d) ==
    /\ a.data = <<d>> /\ GoodData(op, d)
    /\ ShapeOf(Len(d)) \in {"status", "block"} \cup
            (IF op = "GetFrequencyRegion" THEN {"short"}
             ELSE {"pair", "brief"})
    /\ \A e : e.op = op =>
         LET o == Decode(e, Len(d) + 3, d)
         IN /\ op = "GetFirmwareVersion" /\ Len(d) = 1 => o = Panics
            /\ op = "GetFrequencyRegion" /\ Len(d) = 1 => o = Unparsed
            /\ ~(op \in {"GetFirmwareVersion", "GetFrequencyRegion"}
                    /\ Len(d) = 1) => o.is \in {"value", "error"}

LEMMA RefusalForm ==
    ASSUME NEW op \in OneFrameOps
    PROVE  OneFrame(Fail, op, <<17>>)
<1>1. PICK d : d = <<17>>
  OBVIOUS
<1>2. d \in Seq(Byte) /\ Len(d) = 1 /\ d[1] = 17
  BY <1>1 DEF Byte
<1>3. Fail.data = <<d>>
  BY <1>1 DEF Fail, Says
<1>4. ShapeOf(1) = "status"
  BY DEF ShapeOf
<1>5. ASSUME NEW e, e.op = op
      PROVE  LET o == Decode(e, Len(d) + 3, d)
         IN /\ op = "GetFirmwareVersion" => o = Panics
            /\ op = "GetFrequencyRegion" => o = Unparsed
            /\ op \notin {"GetFirmwareVersion", "GetFrequencyRegion"}
                    => o.is \in {"value", "error"}
  <2>1. 17 \in ErrorCodes /\ 17 # Success /\ 17 \notin RfLinkProfile
    BY DEF ErrorCodes, Success, RfLinkProfile
  <2>2. Status(17, Value(<<>>)) = Error(17)
    BY <2>1 DEF Status
  <2> QED
    BY <1>2, <1>5, <2>1, <2>2
    DEF OneFrameOps, Decode, AtLeast, Setters, StatusOrValue, Status, Value,
        Error, Panics, Unparsed, RegionOf, ReturnLoss
<1> QED
  BY <1>1, <1>2, <1>3, <1>4, <1>5 DEF OneFrame, GoodData

(* The other answers, of one frame of the data d, meant as v.              *)
Answer(op, d, v) ==
    \/ op \in Setters /\ d = <<16>> /\ v = Value(<<>>)
    \/ op = "SetBeeperMode" /\ d = <<16>>
    \/ op = "GetOutputPower" /\ d = <<30>> /\ v = Value(<<30>>)
    \/ op = "GetOutputPower" /\ d = <<30, 0, 0, 30>> /\ v = Value(d)
    \/ op = "GetFirmwareVersion" /\ d = <<8, 0>> /\ v = Value(d)
    \/ op = "GetWorkAntenna" /\ d = <<0>> /\ v = Value(<<1>>)
    \/ op = "GetAntConnectionDetector" /\ d = <<0>> /\ v = Value(d)
    \/ op = "GetReaderTemperature" /\ d = <<0, 5>> /\ v = Value(<<-5>>)
    \/ op = "GetReaderTemperature" /\ d = <<1, 0>> /\ v = Value(<<0>>)
    \/ op = "GetRfLinkProfile" /\ d = <<209>> /\ v = Value(d)
    \/ op = "GetRfPortReturnLoss" /\ d = <<20>> /\ v = Value(d)
    \/ op = "GetRfPortReturnLoss" /\ d = <<0>> /\ v = Error(0)
    \/ /\ op = "GetFrequencyRegion" /\ d = <<1, 7, 59>>
       /\ v = Value(<<1, 902000, 928000>>)
    \/ /\ op = "GetFrequencyRegion" /\ d = <<4, 0, 9, 13, 45, 0>>
       /\ v = Value(<<4, 0, 0>>)

LEMMA AnswersCases ==
    ASSUME NEW c, c.op \in OneFrameOps, NEW a \in Answers(c)
    PROVE  \/ a = Fail
           \/ \E d, v : /\ a = Says(<<d>>, v) /\ Answer(c.op, d, v)
                        /\ c.op = "SetBeeperMode" => v = Value(c.args)
<1> SUFFICES ASSUME a # Fail
             PROVE  \E d, v : /\ a = Says(<<d>>, v) /\ Answer(c.op, d, v)
                              /\ c.op = "SetBeeperMode" => v = Value(c.args)
  OBVIOUS
<1>1. CASE c.op \in Setters
  <2>1. a = Says(<<<<16>>>>, Value(<<>>))
    BY <1>1 DEF Answers, Setters, Success
  <2>2. PICK d, v : a = Says(<<d>>, v) /\ d = <<16>> /\ v = Value(<<>>)
    BY <2>1, SMT
  <2>3. Answer(c.op, d, v) /\ c.op # "SetBeeperMode"
    BY <1>1, <2>2, SMT DEF Answer, Setters
  <2> QED
    BY <2>2, <2>3, Zenon
<1>2. CASE c.op = "SetBeeperMode"
  <2>1. a = Says(<<<<16>>>>, Value(c.args))
    BY <1>2 DEF Answers, Setters, Success
  <2>2. PICK d, v : a = Says(<<d>>, v) /\ d = <<16>> /\ v = Value(c.args)
    BY <2>1, SMT
  <2>3. Answer(c.op, d, v) /\ v = Value(c.args)
    BY <1>2, <2>2, SMT DEF Answer
  <2> QED
    BY <2>2, <2>3, Zenon
<1>3. CASE c.op = "GetOutputPower"
  <2>1. \/ a = Says(<<<<30>>>>, Value(<<30>>))
        \/ a = Says(<<<<30, 0, 0, 30>>>>, Value(<<30, 0, 0, 30>>))
    BY <1>3 DEF Answers, Setters, Success
  <2>2. c.op # "SetBeeperMode"
    BY <1>3
  <2>3. CASE a = Says(<<<<30>>>>, Value(<<30>>))
    <3>1. PICK d, v : d = <<30>> /\ v = Value(<<30>>)
      OBVIOUS
    <3>2. a = Says(<<d>>, v)
      BY <2>3, <3>1, SMT
    <3>3. Answer(c.op, d, v)
      BY <1>3, <3>1, SMT DEF Answer
    <3> QED
      BY <2>2, <3>2, <3>3, Zenon
  <2>4. CASE a = Says(<<<<30, 0, 0, 30>>>>, Value(<<30, 0, 0, 30>>))
    <3>1. PICK d, v : d = <<30, 0, 0, 30>> /\ v = Value(<<30, 0, 0, 30>>)
      OBVIOUS
    <3>2. a = Says(<<d>>, v)
      BY <2>4, <3>1, SMT
    <3>3. Answer(c.op, d, v)
      BY <1>3, <3>1, SMT DEF Answer
    <3> QED
      BY <2>2, <3>2, <3>3, Zenon
  <2> QED
    BY <2>1, <2>3, <2>4, SMT
<1>4. CASE c.op = "GetFirmwareVersion"
  <2>1. a = Says(<<<<8, 0>>>>, Value(<<8, 0>>))
    BY <1>4 DEF Answers, Setters, Success
  <2>2. PICK d, v : a = Says(<<d>>, v) /\ d = <<8, 0>> /\ v = Value(<<8, 0>>)
    BY <2>1, SMT
  <2>3. Answer(c.op, d, v) /\ c.op # "SetBeeperMode"
    BY <1>4, <2>2, SMT DEF Answer
  <2> QED
    BY <2>2, <2>3, Zenon
<1>5. CASE c.op = "GetWorkAntenna"
  <2>1. a = Says(<<<<0>>>>, Value(<<1>>))
    BY <1>5 DEF Answers, Setters, Success
  <2>2. PICK d, v : a = Says(<<d>>, v) /\ d = <<0>> /\ v = Value(<<1>>)
    BY <2>1, SMT
  <2>3. Answer(c.op, d, v) /\ c.op # "SetBeeperMode"
    BY <1>5, <2>2, SMT DEF Answer
  <2> QED
    BY <2>2, <2>3, Zenon
<1>6. CASE c.op = "GetAntConnectionDetector"
  <2>1. a = Says(<<<<0>>>>, Value(<<0>>))
    BY <1>6 DEF Answers, Setters, Success
  <2>2. PICK d, v : a = Says(<<d>>, v) /\ d = <<0>> /\ v = Value(<<0>>)
    BY <2>1, SMT
  <2>3. Answer(c.op, d, v) /\ c.op # "SetBeeperMode"
    BY <1>6, <2>2, SMT DEF Answer
  <2> QED
    BY <2>2, <2>3, Zenon
<1>7. CASE c.op = "GetReaderTemperature"
  <2>1. \/ a = Says(<<<<0, 5>>>>, Value(<<-5>>))
        \/ a = Says(<<<<1, 0>>>>, Value(<<0>>))
    BY <1>7 DEF Answers, Setters, Success
  <2>2. c.op # "SetBeeperMode"
    BY <1>7
  <2>3. CASE a = Says(<<<<0, 5>>>>, Value(<<-5>>))
    <3>1. PICK d, v : d = <<0, 5>> /\ v = Value(<<-5>>)
      OBVIOUS
    <3>2. a = Says(<<d>>, v)
      BY <2>3, <3>1, SMT
    <3>3. Answer(c.op, d, v)
      BY <1>7, <3>1, SMT DEF Answer
    <3> QED
      BY <2>2, <3>2, <3>3, Zenon
  <2>4. CASE a = Says(<<<<1, 0>>>>, Value(<<0>>))
    <3>1. PICK d, v : d = <<1, 0>> /\ v = Value(<<0>>)
      OBVIOUS
    <3>2. a = Says(<<d>>, v)
      BY <2>4, <3>1, SMT
    <3>3. Answer(c.op, d, v)
      BY <1>7, <3>1, SMT DEF Answer
    <3> QED
      BY <2>2, <3>2, <3>3, Zenon
  <2> QED
    BY <2>1, <2>3, <2>4, SMT
<1>8. CASE c.op = "GetRfLinkProfile"
  <2>1. a = Says(<<<<209>>>>, Value(<<209>>))
    BY <1>8 DEF Answers, Setters, Success
  <2>2. PICK d, v : a = Says(<<d>>, v) /\ d = <<209>> /\ v = Value(<<209>>)
    BY <2>1, SMT
  <2>3. Answer(c.op, d, v) /\ c.op # "SetBeeperMode"
    BY <1>8, <2>2, SMT DEF Answer
  <2> QED
    BY <2>2, <2>3, Zenon
<1>9. CASE c.op = "GetRfPortReturnLoss"
  <2>1. \/ a = Says(<<<<20>>>>, Value(<<20>>))
        \/ a = Says(<<<<0>>>>, Error(0))
    BY <1>9 DEF Answers, Setters, Success
  <2>2. c.op # "SetBeeperMode"
    BY <1>9
  <2>3. CASE a = Says(<<<<20>>>>, Value(<<20>>))
    <3>1. PICK d, v : d = <<20>> /\ v = Value(<<20>>)
      OBVIOUS
    <3>2. a = Says(<<d>>, v)
      BY <2>3, <3>1, SMT
    <3>3. Answer(c.op, d, v)
      BY <1>9, <3>1, SMT DEF Answer
    <3> QED
      BY <2>2, <3>2, <3>3, Zenon
  <2>4. CASE a = Says(<<<<0>>>>, Error(0))
    <3>1. PICK d, v : d = <<0>> /\ v = Error(0)
      OBVIOUS
    <3>2. a = Says(<<d>>, v)
      BY <2>4, <3>1, SMT
    <3>3. Answer(c.op, d, v)
      BY <1>9, <3>1, SMT DEF Answer
    <3> QED
      BY <2>2, <3>2, <3>3, Zenon
  <2> QED
    BY <2>1, <2>3, <2>4, SMT
<1>10. CASE c.op = "GetFrequencyRegion"
  <2>0. PICK x, y : x = 902000 /\ y = 928000
    OBVIOUS
  <2>1. \/ a = Says(<<<<1, 7, 59>>>>, Value(<<1, x, y>>))
        \/ a = Says(<<<<4, 0, 9, 13, 45, 0>>>>, Value(<<4, 0, 0>>))
    BY <1>10, <2>0 DEF Answers, Setters, Success
  <2>2. c.op # "SetBeeperMode"
    BY <1>10
  <2>3. CASE a = Says(<<<<1, 7, 59>>>>, Value(<<1, x, y>>))
    <3>1. PICK d, v : d = <<1, 7, 59>> /\ v = Value(<<1, x, y>>)
      OBVIOUS
    <3>2. a = Says(<<d>>, v)
      BY <2>3, <3>1, SMT
    <3>3. Answer(c.op, d, v)
      BY <1>10, <2>0, <3>1, SMT DEF Answer
    <3> QED
      BY <2>2, <3>2, <3>3, Zenon
  <2>4. CASE a = Says(<<<<4, 0, 9, 13, 45, 0>>>>, Value(<<4, 0, 0>>))
    <3>1. PICK d, v : d = <<4, 0, 9, 13, 45, 0>> /\ v = Value(<<4, 0, 0>>)
      OBVIOUS
    <3>2. a = Says(<<d>>, v)
      BY <2>4, <3>1, SMT
    <3>3. Answer(c.op, d, v)
      BY <1>10, <3>1, SMT DEF Answer
    <3> QED
      BY <2>2, <3>2, <3>3, Zenon
  <2> QED
    BY <2>1, <2>3, <2>4, SMT
<1> QED
  BY <1>1, <1>2, <1>3, <1>4, <1>5, <1>6, <1>7, <1>8, <1>9, <1>10
  DEF OneFrameOps

(* The data d is read, by a command e named op, for what was meant.        *)
Decoded(op, d, v, e) ==
    /\ GoodData(op, d)
    /\ op # "GetFrequencyRegion" => Len(d) \in {1, 2, 4}
    /\ op = "GetFrequencyRegion" => Len(d) \in {3, 6}
    /\ op = "GetFirmwareVersion" => Len(d) # 1
    /\ Decode(e, Len(d) + 3, d)
            = IF op = "SetBeeperMode" THEN Value(e.args) ELSE v
    /\ op # "SetBeeperMode" => v.is \in {"value", "error"}

LEMMA AnswerDecoded ==
    ASSUME NEW op, NEW d, NEW v, Answer(op, d, v), NEW e, e.op = op
    PROVE  Decoded(op, d, v, e)
<1> USE DEF Decode, Decoded, GoodData, ErrorCodes, Setters, Success
<1>0. e.op = op
  OBVIOUS
<1>1. CASE op \in Setters /\ d = <<16>> /\ v = Value(<<>>)
  <2>1. d \in Seq(Byte) /\ Len(d) = 1 /\ d[1] = 16
    BY <1>1 DEF Byte
  <2> QED
    BY <1>0, <1>1, <2>1 DEF AtLeast, Status, Value
<1>2. CASE op = "SetBeeperMode" /\ d = <<16>>
  <2>1. d \in Seq(Byte) /\ Len(d) = 1 /\ d[1] = 16
    BY <1>2 DEF Byte
  <2> QED
    BY <1>0, <1>2, <2>1 DEF StatusOrValue, Status, Value
<1>3. CASE op = "GetOutputPower" /\ d = <<30>> /\ v = Value(d)
  <2>1. d \in Seq(Byte) /\ Len(d) = 1 /\ d[1] = 30
    BY <1>3 DEF Byte
  <2> QED
    BY <1>0, <1>3, <2>1 DEF Value
<1>4. CASE op = "GetOutputPower" /\ d = <<30, 0, 0, 30>> /\ v = Value(d)
  <2>1. /\ d \in Seq(Byte) /\ Len(d) = 4
        /\ d[1] = 30 /\ d[2] = 0 /\ d[3] = 0 /\ d[4] = 30
    BY <1>4 DEF Byte
  <2> QED
    BY <1>0, <1>4, <2>1 DEF Value
<1>5. CASE op = "GetFirmwareVersion" /\ d = <<8, 0>> /\ v = Value(d)
  <2>1. /\ d \in Seq(Byte) /\ Len(d) = 2
        /\ d[1] = 8 /\ d[2] = 0
    BY <1>5 DEF Byte
  <2> QED
    BY <1>0, <1>5, <2>1 DEF AtLeast, Value
<1>6. CASE op = "GetWorkAntenna" /\ d = <<0>> /\ v = Value(<<1>>)
  <2>1. d \in Seq(Byte) /\ Len(d) = 1 /\ d[1] = 0
    BY <1>6 DEF Byte
  <2> QED
    BY <1>0, <1>6, <2>1 DEF AtLeast, Value
<1>7. CASE op = "GetAntConnectionDetector" /\ d = <<0>> /\ v = Value(d)
  <2>1. d \in Seq(Byte) /\ Len(d) = 1 /\ d[1] = 0
    BY <1>7 DEF Byte
  <2> QED
    BY <1>0, <1>7, <2>1 DEF AtLeast, Value
<1>8. CASE op = "GetReaderTemperature" /\ d = <<0, 5>> /\ v = Value(<<-5>>)
  <2>1. /\ d \in Seq(Byte) /\ Len(d) = 2
        /\ d[1] = 0 /\ d[2] = 5
    BY <1>8 DEF Byte
  <2> QED
    BY <1>0, <1>8, <2>1 DEF AtLeast, StatusOrValue, Value
<1>9. CASE op = "GetReaderTemperature" /\ d = <<1, 0>> /\ v = Value(<<0>>)
  <2>1. /\ d \in Seq(Byte) /\ Len(d) = 2
        /\ d[1] = 1 /\ d[2] = 0
    BY <1>9 DEF Byte
  <2> QED
    BY <1>0, <1>9, <2>1 DEF AtLeast, StatusOrValue, Value
<1>10. CASE op = "GetRfLinkProfile" /\ d = <<209>> /\ v = Value(d)
  <2>1. d \in Seq(Byte) /\ Len(d) = 1 /\ d[1] = 209
    BY <1>10 DEF Byte
  <2> QED
    BY <1>0, <1>10, <2>1 DEF AtLeast, Profile, RfLinkProfile, Value
<1>11. CASE op = "GetRfPortReturnLoss" /\ d = <<20>> /\ v = Value(d)
  <2>1. d \in Seq(Byte) /\ Len(d) = 1 /\ d[1] = 20
    BY <1>11 DEF Byte
  <2> QED
    BY <1>0, <1>11, <2>1 DEF AtLeast, ReturnLoss, Value
<1>12. CASE op = "GetRfPortReturnLoss" /\ d = <<0>> /\ v = Error(0)
  <2>1. d \in Seq(Byte) /\ Len(d) = 1 /\ d[1] = 0
    BY <1>12 DEF Byte
  <2> QED
    BY <1>0, <1>12, <2>1 DEF AtLeast, ReturnLoss, Error
<1>13. CASE /\ op = "GetFrequencyRegion" /\ d = <<1, 7, 59>>
            /\ v = Value(<<1, 902000, 928000>>)
  <2>1. /\ d \in Seq(Byte) /\ Len(d) = 3
        /\ d[1] = 1 /\ d[2] = 7 /\ d[3] = 59
    BY <1>13 DEF Byte
  <2> QED
    BY <1>0, <1>13, <2>1
       DEF AtLeast, RegionOf, GetFrequency, Params, Low, Value
<1>14. CASE /\ op = "GetFrequencyRegion" /\ d = <<4, 0, 9, 13, 45, 0>>
            /\ v = Value(<<4, 0, 0>>)
  <2>1. /\ d \in Seq(Byte) /\ Len(d) = 6
        /\ d[1] = 4 /\ d[2] = 0 /\ d[3] = 9
        /\ d[4] = 13 /\ d[5] = 45 /\ d[6] = 0
    BY <1>14 DEF Byte
  <2> QED
    BY <1>0, <1>14, <2>1 DEF AtLeast, RegionOf, Params, Value
<1> QED
  BY <1>1, <1>2, <1>3, <1>4, <1>5, <1>6, <1>7, <1>8, <1>9, <1>10, <1>11,
     <1>12, <1>13, <1>14 DEF Answer

(* What is asked of any answer to a command named op.                      *)
GoodAnswer(op, a) ==
    /\ a.data \in Seq(Seq(Byte)) /\ Len(a.data) \in 1..(MaxTags + 1)
    /\ \A k \in 1..Len(a.data) : GoodData(op, a.data[k])
    /\ op \in Inventories =>
         \A k \in 1..Len(a.data) : Len(a.data[k]) = 1 => a.data[k][1] = 17

LEMMA OneIsGood ==
    ASSUME NEW op, NEW a, NEW d, a.data = <<d>>, GoodData(op, d),
           op \in Inventories => d = << 17 >>
    PROVE  GoodAnswer(op, a)
<1>1. d \in Seq(Byte)
  BY DEF GoodData
<1>2. /\ a.data \in Seq(Seq(Byte)) /\ Len(a.data) = 1
      /\ \A k \in 1..1 : a.data[k] = d
  BY <1>1
<1>3. 1 \in 1..(MaxTags + 1)
  BY BoundsAssumption
<1>4. op \in Inventories => d[1] = 17
  OBVIOUS
<1> QED
  BY <1>2, <1>3, <1>4 DEF GoodAnswer

LEMMA FailIsGood ==
    ASSUME NEW op, NEW a, a = Fail
    PROVE  \E d : a.data = <<d>> /\ d = <<17>> /\ GoodAnswer(op, a)
<1>1. PICK d : d = <<17>>
  OBVIOUS
<1>2. d \in Seq(Byte) /\ Len(d) = 1
  BY <1>1 DEF Byte
<1>3. a.data = <<d>>
  BY <1>1 DEF Fail, Says
<1>4. GoodData(op, d)
  BY <1>2 DEF GoodData
<1>5. GoodAnswer(op, a)
  BY <1>1, <1>3, <1>4, OneIsGood
<1> QED
  BY <1>1, <1>3, <1>5

LEMMA OneFrameGood ==
    ASSUME NEW c, c.op \in OneFrameOps, NEW a \in Answers(c)
    PROVE  GoodAnswer(c.op, a) /\ \E d : a.data = <<d>>
<1>1. c.op \notin Inventories
  BY DEF OneFrameOps, Inventories, Setters
<1>2. CASE a = Fail
  BY <1>2, FailIsGood
<1>3. CASE a # Fail
  <2>1. PICK d, v : /\ a = Says(<<d>>, v) /\ Answer(c.op, d, v)
                    /\ c.op = "SetBeeperMode" => v = Value(c.args)
    BY <1>3, AnswersCases
  <2>2. Decoded(c.op, d, v, c)
    BY <2>1, AnswerDecoded
  <2>3. GoodData(c.op, d)
    BY <2>2 DEF Decoded
  <2>4. a.data = <<d>>
    BY <2>1 DEF Says
  <2> QED
    BY <1>1, <2>3, <2>4, OneIsGood
<1> QED
  BY <1>2, <1>3

-----------------------------------------------------------------------------
(* The answers to inventories.                                             *)

LEMMA ThreeBytesForm ==
    ASSUME NEW n \in Nat, n < 256 * 256 * 256
    PROVE  LET b == ThreeBytes(n)
           IN /\ b \in Seq(Byte) /\ Len(b) = 3
              /\ BigEndian(0, b[1], b[2], b[3]) = n
<1>1. PICK x, y, z : /\ x = (n \div 256) \div 256 /\ y = (n \div 256) % 256
                     /\ z = n % 256
  OBVIOUS
<1>2. PICK m : m = n \div 256
  OBVIOUS
<1>3. m \in Nat /\ n = 256 * m + z /\ z \in 0..255
  BY <1>1, <1>2
<1>4. m < 256 * 256
  BY <1>3
<1>5. x \in Nat /\ m = 256 * x + y /\ y \in 0..255
  BY <1>1, <1>2, <1>3
<1>6. x \in 0..255
  BY <1>4, <1>5
<1>7. BigEndian(0, x, y, z) = n
  BY <1>3, <1>5, <1>6 DEF BigEndian
<1>8. ThreeBytes(n) = <<x, y, z>>
  BY <1>1 DEF ThreeBytes
<1>9. PICK b : b = <<x, y, z>>
  OBVIOUS
<1>10. /\ b \in Seq(Byte) /\ Len(b) = 3
       /\ b[1] = x /\ b[2] = y /\ b[3] = z
  BY <1>3, <1>5, <1>6, <1>9 DEF Byte
<1> QED
  BY <1>7, <1>8, <1>9, <1>10, Zenon

LEMMA TotalForm ==
    ASSUME NEW c, c.op \in Inventories, NEW n \in Nat, n < 256 * 256 * 256
    PROVE  /\ Total(n, c).data \in Seq(Byte) /\ Len(Total(n, c).data) = 7
           /\ TotalOf(Total(n, c).data, c) = Total(n, c).means
<1>1. PICK b : b = ThreeBytes(n)
  OBVIOUS
<1>2. b \in Seq(Byte) /\ Len(b) = 3 /\ BigEndian(0, b[1], b[2], b[3]) = n
  BY <1>1, ThreeBytesForm
<1>3. CASE c.op = "FastSwitchAntInventory"
  <2>1. PICK u, d : u = <<0, 0, 1, 4>> /\ d = b \o u
    OBVIOUS
  <2>2. u \in Seq(Byte) /\ Len(u) = 4
    BY <2>1 DEF Byte
  <2>3. /\ d \in Seq(Byte) /\ Len(d) = 7
        /\ \A i \in 1..3 : d[i] = b[i]
        /\ \A i \in 1..4 : d[3 + i] = u[i]
    <3>1. d \in Seq(Byte) /\ Joined(d, b, u)
      BY <1>2, <2>1, <2>2, ConcatJoined
    <3> QED
      BY <1>2, <2>2, <3>1 DEF Joined
  <2>4. d[1] = b[1] /\ d[2] = b[2] /\ d[3] = b[3]
    BY <2>3
  <2>5. d[4] = 0 /\ d[5] = 0 /\ d[6] = 1 /\ d[7] = 4
    <3>1. d[3 + 1] = 0 /\ d[3 + 2] = 0 /\ d[3 + 3] = 1 /\ d[3 + 4] = 4
      BY <2>1, <2>3
    <3> QED
      BY <3>1
  <2>6. BigEndian(0, 0, 1, 4) = 260
    BY DEF BigEndian
  <2>7. c.op # "CustomizeSessionTargetInventory"
    BY <1>3
  <2>8. TotalOf(d, c) = <<0, n, IF n > 0 THEN 260 \div n ELSE 0>>
    BY <1>2, <2>4, <2>5, <2>6, <2>7 DEF TotalOf
  <2>9. /\ Total(n, c).data = d
        /\ Total(n, c).means = <<0, n, IF n > 0 THEN 260 \div n ELSE 0>>
    BY <1>1, <1>3, <2>1 DEF Total, Says
  <2> QED
    BY <2>3, <2>8, <2>9
<1>4. CASE c.op = "CustomizeSessionTargetInventory"
  <2>1. PICK u, d : u = <<1, 0, 5, 0>> /\ d = u \o b
    OBVIOUS
  <2>2. u \in Seq(Byte) /\ Len(u) = 4
    BY <2>1 DEF Byte
  <2>3. /\ d \in Seq(Byte) /\ Len(d) = 7
        /\ \A i \in 1..4 : d[i] = u[i]
        /\ \A i \in 1..3 : d[4 + i] = b[i]
    <3>1. d \in Seq(Byte) /\ Joined(d, u, b)
      BY <1>2, <2>1, <2>2, ConcatJoined
    <3> QED
      BY <1>2, <2>2, <3>1 DEF Joined
  <2>4. d[1] = 1 /\ d[2] = 0 /\ d[3] = 5 /\ d[4] = 0
    BY <2>1, <2>3
  <2>5. d[5] = b[1] /\ d[6] = b[2] /\ d[7] = b[3]
    <3>1. d[4 + 1] = b[1] /\ d[4 + 2] = b[2] /\ d[4 + 3] = b[3]
      BY <2>3
    <3> QED
      BY <3>1
  <2>6. BigEndian(0, 0, 0, 5) = 5
    BY DEF BigEndian
  <2>8. TotalOf(d, c) = <<1, n, 5>>
    BY <1>2, <1>4, <2>4, <2>5, <2>6 DEF TotalOf
  <2>9. Total(n, c).data = d /\ Total(n, c).means = <<1, n, 5>>
    BY <1>1, <1>4, <2>1 DEF Total, Says
  <2> QED
    BY <2>3, <2>8, <2>9
<1> QED
  BY <1>3, <1>4 DEF Inventories

LEMMA TagDataGood ==
    ASSUME NEW t \in Tags, NEW c
    PROVE  /\ GoodData(c.op, TagData(t, c))
           /\ Len(TagData(t, c)) \in 6..70 /\ Len(TagData(t, c)) # 7
<1>1. PICK m \in Nat, n \in Nat : TagForm(t, c, m, n)
  BY TagDataForm
<1>2. PICK d : d = TagData(t, c)
  OBVIOUS
<1>3. /\ m \in 2..62 /\ m % 2 = 0 /\ n = (IF SendsPhase(c) THEN 2 ELSE 0)
      /\ d \in Seq(Byte) /\ Len(d) = m + n + 4
      /\ d[1] \div 4 = GetParam(t.frequency)
  BY <1>1, <1>2 DEF TagForm
<1>4. n \in {0, 2}
  BY <1>3
<1>5. \A x \in 2..62, y \in {0, 2} :
          /\ x + y + 4 \in 6..70 /\ x + y + 4 \in 1..70
          /\ x % 2 = 0 => x + y + 4 # 7
          /\ x + y + 4 # 2
  OBVIOUS
<1>6. Len(d) \in 6..70 /\ Len(d) \in 1..70 /\ Len(d) # 7 /\ Len(d) # 2
  BY <1>3, <1>4, <1>5
<1>7. GetParam(t.frequency) \in Params
  BY TagFields, TableRoundTrip
<1> QED
  BY <1>2, <1>3, <1>6, <1>7 DEF GoodData

(* The frames of an inventory: its tags, then the total.                   *)
ListingFrames(a, tags, c, n) ==
    /\ Len(a.data) = n + 1
    /\ \A i \in 1..n : a.data[i] = TagData(tags[i], c)
    /\ a.data[n + 1] = Total(n, c).data

LEMMA ListingForm ==
    ASSUME NEW c, c.op \in Inventories, NEW n \in 0..MaxTags,
           NEW tags \in [1..n -> Tags], NEW a, a = Listing(tags, c)
    PROVE  GoodAnswer(c.op, a) /\ ListingFrames(a, tags, c, n)
<1>1. n \in Nat /\ n < 256 * 256 * 256 /\ n + 1 \in 1..(MaxTags + 1)
  BY BoundsAssumption
<1>2. Len(tags) = n
  BY <1>1, FunctionIsSeq
<1>3. PICK s, x : /\ s = [i \in 1..n |-> TagData(tags[i], c)]
                  /\ x = Total(n, c).data
  OBVIOUS
<1>4. x \in Seq(Byte) /\ Len(x) = 7
  BY <1>1, <1>3, TotalForm
<1>5. \A i \in 1..n : /\ s[i] = TagData(tags[i], c) /\ GoodData(c.op, s[i])
                      /\ Len(s[i]) # 1
  <2> SUFFICES ASSUME NEW i \in 1..n
               PROVE  /\ s[i] = TagData(tags[i], c) /\ GoodData(c.op, s[i])
                      /\ Len(s[i]) # 1
    OBVIOUS
  <2>1. tags[i] \in Tags
    OBVIOUS
  <2>2. s[i] = TagData(tags[i], c)
    BY <1>3
  <2>3. /\ GoodData(c.op, TagData(tags[i], c))
        /\ Len(TagData(tags[i], c)) \in 6..70
    BY <2>1, TagDataGood
  <2>4. GoodData(c.op, s[i]) /\ Len(s[i]) \in 6..70
    BY <2>2, <2>3, Zenon
  <2>5. Len(s[i]) # 1
    <3>1. \A y \in 6..70 : y # 1
      OBVIOUS
    <3> QED
      BY <2>4, <3>1, Zenon
  <2> QED
    BY <2>2, <2>4, <2>5, Zenon
<1>6. \A i \in 1..n : s[i] \in Seq(Byte)
  BY <1>5 DEF GoodData
<1>7. s \in Seq(Seq(Byte)) /\ Len(s) = n
  <2>1. s \in [1..n -> Seq(Byte)]
    BY <1>3, <1>6
  <2> QED
    BY <1>1, <2>1, FunctionIsSeq
<1>8. a.data = Append(s, x)
  BY <1>2, <1>3 DEF Listing, Says
<1>9. /\ a.data \in Seq(Seq(Byte)) /\ Len(a.data) = n + 1
      /\ \A i \in 1..n : a.data[i] = s[i]
      /\ a.data[n + 1] = x
  BY <1>4, <1>7, <1>8, AppendProperties
<1>10. GoodData(c.op, x) /\ Len(x) # 1
  BY <1>4 DEF GoodData
<1>11. \A k \in 1..(n + 1) : k \in 1..n \/ k = n + 1
  BY <1>1
<1>12. \A k \in 1..(n + 1) : GoodData(c.op, a.data[k]) /\ Len(a.data[k]) # 1
  BY <1>5, <1>9, <1>10, <1>11
<1> QED
  BY <1>1, <1>3, <1>5, <1>9, <1>12 DEF GoodAnswer, ListingFrames

LEMMA InventoryCases ==
    ASSUME NEW c, c.op \in Inventories, NEW a \in Answers(c)
    PROVE  \/ a = Fail
           \/ \E n \in 0..MaxTags : \E tags \in [1..n -> Tags] :
                 a = Listing(tags, c)
           \/ c.op = "FastSwitchAntInventory" /\ a = Unusable(c)
<1>1. a = Fail \/ a \in Inventoried(c)
         \/ (c.op = "FastSwitchAntInventory" /\ a = Unusable(c))
  <2>1. CASE c.op = "CustomizeSessionTargetInventory"
    BY <2>1 DEF Answers, Setters
  <2>2. CASE c.op = "FastSwitchAntInventory"
    BY <2>2 DEF Answers, Setters
  <2> QED
    BY <2>1, <2>2 DEF Inventories
<1>2. ASSUME a \in Inventoried(c)
      PROVE  \E n \in 0..MaxTags : \E tags \in [1..n -> Tags] :
                 a = Listing(tags, c)
  BY <1>2 DEF Inventoried
<1> QED
  BY <1>1, <1>2

(* An antenna error and a total of none.                                   *)
LEMMA UnusableForm ==
    ASSUME NEW c, c.op = "FastSwitchAntInventory", NEW a, a = Unusable(c)
    PROVE  /\ GoodAnswer(c.op, a) /\ Len(a.data) = 2
           /\ Len(a.data[1]) = 2 /\ Len(a.data[2]) = 7
<1>1. PICK x, y : x = <<1, 34>> /\ y = <<0, 0, 0, 0, 0, 1, 4>>
  OBVIOUS
<1>2. /\ x \in Seq(Byte) /\ Len(x) = 2 /\ x[2] = 34
      /\ y \in Seq(Byte) /\ Len(y) = 7
  BY <1>1 DEF Byte
<1>3. a.data = <<x, y>>
  BY <1>1 DEF Unusable, Says
<1>4. GoodData(c.op, x) /\ GoodData(c.op, y)
  BY <1>2 DEF GoodData, ErrorCodes
<1>5. /\ a.data \in Seq(Seq(Byte)) /\ Len(a.data) = 2
      /\ a.data[1] = x /\ a.data[2] = y
  BY <1>2, <1>3
<1>6. 2 \in 1..(MaxTags + 1) /\ \A k \in 1..2 : k = 1 \/ k = 2
  BY BoundsAssumption
<1>7. \A k \in 1..2 : GoodData(c.op, a.data[k]) /\ Len(a.data[k]) # 1
  BY <1>2, <1>4, <1>5, <1>6
<1> QED
  BY <1>2, <1>5, <1>6, <1>7 DEF GoodAnswer

LEMMA AnswersGood ==
    ASSUME NEW c \in Requests, NEW a \in Answers(c)
    PROVE  GoodAnswer(c.op, a)
<1>1. CASE c.op \in OneFrameOps
  BY <1>1, OneFrameGood
<1>2. CASE c.op \in Inventories
  BY <1>2, InventoryCases, FailIsGood, ListingForm, UnusableForm
<1> QED
  BY <1>1, <1>2, OpsOfRequests

-----------------------------------------------------------------------------
(* Streams of bytes from the reader: each is where its frame has it, and   *)
(* followed by the next one of it, or by another frame when it is the last.*)
Proper(S, D, e) ==
    /\ e \in Elem
    /\ S[e.q] \in Requests /\ D[e.q] \in Answers(S[e.q])
    /\ e.k \in 1..Len(D[e.q].data)
    /\ e.i \in 1..SizeIn(D, e)
    /\ e.b = Answered(S[e.q], D[e.q].data[e.k])[e.i]

Follows(D, e, g) ==
    \/ g.q = e.q /\ g.k = e.k /\ g.i = e.i + 1
    \/ e.i = SizeIn(D, e) /\ g.i = 1 /\ (g.q = e.q => g.k = e.k + 1)

Stream(S, D, s) ==
    /\ s \in Seq(Elem)
    /\ \A j \in 1..Len(s) : Proper(S, D, s[j])
    /\ \A j \in 1..(Len(s) - 1) : Follows(D, s[j], s[j + 1])

LEMMA StreamPiece ==
    ASSUME NEW S, NEW D, NEW s, Stream(S, D, s), NEW a \in Nat,
           NEW n \in Nat, a + n <= Len(s)
    PROVE  Stream(S, D, SubSeq(s, a + 1, a + n))
<1>1. PICK t, z : t = SubSeq(s, a + 1, a + n) /\ z = Len(s)
  OBVIOUS
<1>2. s \in Seq(Elem) /\ z \in Nat /\ a + n <= z
  BY <1>1, LenProperties DEF Stream
<1>3. t \in Seq(Elem) /\ Len(t) = n /\ \A i \in 1..n : t[i] = s[a + i]
  BY <1>1, <1>2, PieceForm
<1>4. ASSUME NEW j \in 1..n
      PROVE  Proper(S, D, t[j])
  <2>1. a + j \in 1..z
    BY <1>2
  <2>2. Proper(S, D, s[a + j])
    BY <1>1, <2>1 DEF Stream
  <2> QED
    BY <1>3, <2>2
<1>5. ASSUME NEW j \in 1..(n - 1)
      PROVE  Follows(D, t[j], t[j + 1])
  <2>1. /\ a + j \in 1..(z - 1) /\ j \in 1..n /\ j + 1 \in 1..n
        /\ (a + j) + 1 = a + (j + 1)
    BY <1>2
  <2>2. Follows(D, s[a + j], s[(a + j) + 1])
    BY <1>1, <2>1 DEF Stream
  <2> QED
    BY <1>3, <2>1, <2>2
<1> QED
  BY <1>1, <1>3, <1>4, <1>5 DEF Stream

LEMMA StreamJoin ==
    ASSUME NEW S, NEW D, NEW s, Stream(S, D, s), NEW t, Stream(S, D, t),
           s # <<>> /\ t # <<>> => Follows(D, s[Len(s)], t[1])
    PROVE  Stream(S, D, s \o t)
<1>1. PICK u, n, m : u = s \o t /\ n = Len(s) /\ m = Len(t)
  OBVIOUS
<1>2. s \in Seq(Elem) /\ t \in Seq(Elem) /\ n \in Nat /\ m \in Nat
  BY <1>1, LenProperties DEF Stream
<1>3. u \in Seq(Elem) /\ Joined(u, s, t)
  BY <1>1, <1>2, ConcatJoined
<1>4. /\ Len(u) = n + m
      /\ \A i \in 1..n : u[i] = s[i]
      /\ \A i \in 1..m : u[n + i] = t[i]
  BY <1>1, <1>3 DEF Joined
<1>5. ASSUME NEW j \in 1..(n + m)
      PROVE  Proper(S, D, u[j])
  <2>1. CASE j <= n
    <3>1. j \in 1..n
      BY <1>2, <2>1
    <3> QED
      BY <1>1, <1>4, <3>1 DEF Stream
  <2>2. CASE ~(j <= n)
    <3>1. j - n \in 1..m /\ n + (j - n) = j
      BY <1>2, <2>2
    <3>2. u[n + (j - n)] = t[j - n] /\ Proper(S, D, t[j - n])
      BY <1>1, <1>4, <3>1 DEF Stream
    <3> QED
      BY <3>1, <3>2
  <2> QED
    BY <2>1, <2>2
<1>6. ASSUME NEW j \in 1..((n + m) - 1)
      PROVE  Follows(D, u[j], u[j + 1])
  <2>1. CASE j < n
    <3>1. j \in 1..n /\ j + 1 \in 1..n /\ j \in 1..(n - 1)
      BY <1>2, <2>1
    <3> QED
      BY <1>1, <1>4, <3>1 DEF Stream
  <2>2. CASE j = n
    <3>1. n \in 1..n /\ 1 \in 1..m /\ j + 1 = n + 1
      BY <1>2, <2>2
    <3>2. s # <<>> /\ t # <<>>
      BY <1>1, <1>2, <3>1, EmptySeq
    <3>3. u[j] = s[n] /\ u[j + 1] = t[1]
      BY <1>4, <2>2, <3>1
    <3> QED
      BY <1>1, <3>2, <3>3
  <2>3. CASE j > n
    <3>1. /\ j - n \in 1..m /\ (j - n) + 1 \in 1..m /\ j - n \in 1..(m - 1)
          /\ n + (j - n) = j /\ n + ((j - n) + 1) = j + 1
      BY <1>2, <2>3
    <3>2. u[j] = t[j - n] /\ u[j + 1] = t[(j - n) + 1]
      BY <1>4, <3>1
    <3>3. Follows(D, t[j - n], t[(j - n) + 1])
      BY <1>1, <3>1 DEF Stream
    <3> QED
      BY <3>2, <3>3
  <2> QED
    BY <1>2, <2>1, <2>2, <2>3
<1> QED
  BY <1>1, <1>3, <1>4, <1>5, <1>6 DEF Stream

LEMMA StreamEmpty == ASSUME NEW S, NEW D PROVE Stream(S, D, <<>>)
<1>1. <<>> \in Seq(Elem) /\ Len(<<>>) = 0
  BY EmptySeq
<1> QED
  BY <1>1 DEF Stream

(* The bytes of a frame follow each other to its end.                      *)
LEMMA StreamRun ==
    ASSUME NEW S, NEW D, NEW s, Stream(S, D, s), NEW j \in 1..Len(s),
           NEW m \in Nat, j + m <= Len(s), s[j].i + m <= SizeIn(D, s[j])
    PROVE  /\ s[j + m].q = s[j].q /\ s[j + m].k = s[j].k
           /\ s[j + m].i = s[j].i + m
<1> DEFINE P(n) == (j + n <= Len(s) /\ s[j].i + n <= SizeIn(D, s[j])) =>
                      /\ s[j + n].q = s[j].q /\ s[j + n].k = s[j].k
                      /\ s[j + n].i = s[j].i + n
           N == {n \in Nat : P(n)}
<1>1. PICK z, w : z = Len(s) /\ w = SizeIn(D, s[j])
  OBVIOUS
<1>2. z \in Nat /\ j \in 1..z
  BY <1>1, LenProperties DEF Stream
<1>3. Proper(S, D, s[j])
  BY DEF Stream
<1>4. s[j].i \in Nat /\ s[j].k \in Nat
  BY <1>3 DEF Proper, Elem
<1>5. w \in Nat
  <2>1. D[s[j].q] \in Answers(S[s[j].q]) /\ S[s[j].q] \in Requests
        /\ s[j].k \in 1..Len(D[s[j].q].data)
    BY <1>3 DEF Proper
  <2>2. PICK d : d = D[s[j].q].data[s[j].k]
    OBVIOUS
  <2>3. GoodData(S[s[j].q].op, d)
    BY <2>1, <2>2, AnswersGood DEF GoodAnswer
  <2>4. Len(d) \in 1..70
    BY <2>3 DEF GoodData
  <2>5. w = Len(d) + 5
    BY <1>1, <2>2 DEF SizeIn
  <2> QED
    BY <2>4, <2>5
<1>6. 0 \in N
  <2>1. j + 0 = j /\ s[j].i + 0 = s[j].i
    BY <1>2, <1>4
  <2> QED
    BY <2>1
<1>7. ASSUME NEW n \in Nat, n \in N
      PROVE  n + 1 \in N
  <2> SUFFICES ASSUME j + (n + 1) <= z, s[j].i + (n + 1) <= w
               PROVE  /\ s[j + (n + 1)].q = s[j].q
                      /\ s[j + (n + 1)].k = s[j].k
                      /\ s[j + (n + 1)].i = s[j].i + (n + 1)
    BY <1>1
  <2>1. /\ j + n \in 1..(z - 1) /\ (j + n) + 1 = j + (n + 1)
        /\ j + n <= z /\ s[j].i + n <= w /\ s[j].i + n < w
        /\ (s[j].i + n) + 1 = s[j].i + (n + 1)
    <3>1. PICK x : x = s[j].i
      OBVIOUS
    <3>2. /\ x \in Nat /\ w \in Nat /\ z \in Nat /\ j \in 1..z
          /\ j + (n + 1) <= z /\ x + (n + 1) <= w
      BY <1>2, <1>4, <1>5, <3>1
    <3>3. /\ j + n \in 1..(z - 1) /\ (j + n) + 1 = j + (n + 1)
          /\ j + n <= z
      BY <3>2
    <3>4. x + n <= w /\ x + n < w /\ (x + n) + 1 = x + (n + 1)
      BY <3>2
    <3> QED
      BY <3>1, <3>3, <3>4, Zenon
  <2>2. PICK e, g : e = s[j + n] /\ g = s[j + (n + 1)]
    OBVIOUS
  <2>3. e.q = s[j].q /\ e.k = s[j].k /\ e.i = s[j].i + n
    BY <1>1, <1>7, <2>1, <2>2
  <2>4. Follows(D, e, g)
    BY <1>1, <2>1, <2>2 DEF Stream
  <2>5. SizeIn(D, e) = w
    BY <1>1, <2>3, Zenon DEF SizeIn
  <2>6. e.i # w
    BY <1>4, <1>5, <2>1, <2>3
  <2>7. g.q = e.q /\ g.k = e.k /\ g.i = e.i + 1
    BY <2>4, <2>5, <2>6 DEF Follows
  <2> QED
    BY <2>1, <2>2, <2>3, <2>7
<1> HIDE DEF N
<1>8. m \in N
  BY <1>6, <1>7, NumbersFollow
<1> QED
  BY <1>8 DEF N

DataOf(D, e) == D[e.q].data[e.k]

FrameOf(S, D, e) == Answered(S[e.q], DataOf(D, e))

CodeIn(S, e) == Code[S[e.q].op]

(* f is the frame of e, of n bytes of data.                                *)
FrameIs(S, D, e, f, d, n) ==
    /\ f = FrameOf(S, D, e) /\ d = DataOf(D, e) /\ n = Len(d)
    /\ n \in 1..70 /\ SizeIn(D, e) = n + 5
    /\ GoodData(S[e.q].op, d)
    /\ AnswerShape(f, CodeIn(S, e), d, n)
    /\ CodeIn(S, e) \in 98..139

LEMMA FrameForm ==
    ASSUME NEW S, NEW D, NEW e, Proper(S, D, e)
    PROVE  \E f, d, n : FrameIs(S, D, e, f, d, n)
<1>1. PICK f, d, n : /\ f = FrameOf(S, D, e) /\ d = DataOf(D, e)
                     /\ n = Len(d)
  OBVIOUS
<1>2. /\ S[e.q] \in Requests /\ D[e.q] \in Answers(S[e.q])
      /\ e.k \in 1..Len(D[e.q].data)
  BY DEF Proper
<1>3. GoodData(S[e.q].op, d)
  BY <1>1, <1>2, AnswersGood DEF GoodAnswer, DataOf
<1>4. d \in Seq(Byte) /\ n \in 1..70
  BY <1>1, <1>3 DEF GoodData
<1>5. SizeIn(D, e) = n + 5
  BY <1>1 DEF SizeIn, DataOf
<1>6. PICK x : x = CodeIn(S, e)
  OBVIOUS
<1>7. x \in Byte /\ x \in 98..139
  <2>1. x \in 98..139
    BY <1>2, <1>6, OpsOfRequests, CodesDiffer DEF CodeIn
  <2> QED
    BY <2>1 DEF Byte
<1>8. f = AnswerFrame(x, d)
  BY <1>1, <1>6 DEF FrameOf, Answered, AnswerFrame, CodeIn
<1>9. n \in 0..252
  BY <1>4
<1>10. AnswerShape(f, x, d, n)
  BY <1>1, <1>4, <1>7, <1>8, <1>9, AnswerForm
<1> QED
  BY <1>1, <1>3, <1>4, <1>5, <1>6, <1>7, <1>10 DEF FrameIs

LEMMA BytesForm ==
    ASSUME NEW s \in Seq(Elem), NEW b, b = Bytes(s)
    PROVE  /\ b \in Seq(Byte) /\ Len(b) = Len(s)
           /\ \A i \in 1..Len(s) : b[i] = s[i].b
<1>1. PICK n : n = Len(s)
  OBVIOUS
<1>2. n \in Nat /\ DOMAIN s = 1..n
  BY <1>1, LenProperties
<1>3. \A i \in 1..n : s[i].b \in Byte
  <2> SUFFICES ASSUME NEW i \in 1..n
               PROVE  s[i].b \in Byte
    OBVIOUS
  <2>1. s[i] \in Elem
    BY <1>1, ElementOfSeq
  <2> QED
    BY <2>1 DEF Elem
<1>4. b = [i \in 1..n |-> s[i].b]
  BY <1>2 DEF Bytes
<1>5. b \in [1..n -> Byte]
  BY <1>3, <1>4
<1>6. b \in Seq(Byte) /\ Len(b) = n
  BY <1>2, <1>5, FunctionIsSeq
<1> QED
  BY <1>1, <1>4, <1>6

(* Where the frame of s[j] goes on, so do its bytes.                       *)
LEMMA FrameByte ==
    ASSUME NEW S, NEW D, NEW s, Stream(S, D, s), NEW j \in 1..Len(s),
           NEW m \in Nat, j + m <= Len(s), s[j].i + m <= SizeIn(D, s[j])
    PROVE  Bytes(s)[j + m] = FrameOf(S, D, s[j])[s[j].i + m]
<1>1. PICK z : z = Len(s)
  OBVIOUS
<1>2. s \in Seq(Elem) /\ z \in Nat /\ j + m \in 1..z
  <2>1. s \in Seq(Elem) /\ z \in Nat
    BY <1>1, LenProperties DEF Stream
  <2> QED
    BY <1>1, <2>1
<1>3. PICK e, g : e = s[j] /\ g = s[j + m]
  OBVIOUS
<1>4. g.q = e.q /\ g.k = e.k /\ g.i = e.i + m
  BY <1>3, StreamRun
<1>5. Proper(S, D, g)
  BY <1>1, <1>2, <1>3 DEF Stream
<1>6. g.b = FrameOf(S, D, g)[g.i]
  BY <1>5 DEF Proper, FrameOf, DataOf
<1>7. FrameOf(S, D, g) = FrameOf(S, D, e)
  BY <1>4 DEF FrameOf, DataOf
<1>8. Bytes(s)[j + m] = g.b
  BY <1>1, <1>2, <1>3, BytesForm
<1> QED
  BY <1>3, <1>4, <1>6, <1>7, <1>8

(* After the last byte of a frame comes the first of another.              *)
LEMMA FrameNext ==
    ASSUME NEW S, NEW D, NEW s, Stream(S, D, s), NEW j \in 1..Len(s),
           NEW m \in Nat, s[j].i + m = SizeIn(D, s[j]), j + m < Len(s)
    PROVE  /\ s[j + m + 1].i = 1
           /\ s[j + m + 1].q = s[j].q => s[j + m + 1].k = s[j].k + 1
<1>1. PICK z : z = Len(s)
  OBVIOUS
<1>2. z \in Nat /\ j + m \in 1..(z - 1) /\ j + m <= z
  <2>1. s \in Seq(Elem) /\ z \in Nat
    BY <1>1, LenProperties DEF Stream
  <2> QED
    BY <1>1, <2>1
<1>3. PICK e, g, h : e = s[j] /\ g = s[j + m] /\ h = s[j + m + 1]
  OBVIOUS
<1>4. PICK w : w = SizeIn(D, e)
  OBVIOUS
<1>5. Proper(S, D, e)
  BY <1>3 DEF Stream
<1>6. w \in Nat /\ e.i \in Nat
  <2>1. PICK f, d, n : FrameIs(S, D, e, f, d, n)
    BY <1>5, FrameForm
  <2>2. n \in 1..70 /\ w = n + 5
    BY <1>4, <2>1 DEF FrameIs
  <2>3. e.i \in Nat
    BY <1>5 DEF Proper, Elem
  <2> QED
    BY <2>2, <2>3
<1>7. e.i + m <= w
  BY <1>3, <1>4, <1>6
<1>8. g.q = e.q /\ g.k = e.k /\ g.i = e.i + m
  <2>1. s[j].i + m <= SizeIn(D, s[j])
    BY <1>3, <1>4, <1>7
  <2>2. j + m <= Len(s)
    BY <1>1, <1>2
  <2>3. /\ s[j + m].q = s[j].q /\ s[j + m].k = s[j].k
        /\ s[j + m].i = s[j].i + m
    BY <2>1, <2>2, StreamRun
  <2> QED
    BY <1>3, <2>3
<1>9. SizeIn(D, g) = w
  BY <1>4, <1>8 DEF SizeIn
<1>10. Follows(D, g, h)
  BY <1>1, <1>2, <1>3 DEF Stream
<1>11. g.i = w
  BY <1>3, <1>4, <1>8
<1>12. Proper(S, D, h)
  <2>1. j + m + 1 \in 1..z
    BY <1>2
  <2> QED
    BY <1>1, <1>3, <2>1 DEF Stream
<1>13. CASE h.q = g.q /\ h.k = g.k /\ h.i = g.i + 1
  <2>1. SizeIn(D, h) = w
    BY <1>9, <1>13 DEF SizeIn
  <2>2. h.i \in 1..w
    BY <1>12, <2>1, Zenon DEF Proper
  <2>3. h.i = w + 1
    BY <1>11, <1>13
  <2> QED
    BY <1>6, <2>2, <2>3
<1>14. CASE g.i = SizeIn(D, g) /\ h.i = 1 /\ (h.q = g.q => h.k = g.k + 1)
  BY <1>3, <1>8, <1>14
<1> QED
  BY <1>10, <1>13, <1>14 DEF Follows

-----------------------------------------------------------------------------
(* Where the frames of a buffer begin.                                     *)

StartsStep(b, g, i) ==
    IF i > Len(b) THEN <<>>
    ELSE IF b[i] # HEADER THEN g[i + 1]
    ELSE IF i = Len(b) \/ i + b[i + 1] + 1 > Len(b) THEN <<>>
    ELSE <<i>> \o g[i + b[i + 1] + 2]

Starts(b, g) == g = [i \in 1..(Len(b) + 1) |-> StartsStep(b, g, i)]

LEMMA StepsAgree ==
    ASSUME NEW b \in Seq(Byte), NEW i \in 1..(Len(b) + 1), NEW g, NEW h,
           \A j \in 1..(Len(b) + 1) : j > i => g[j] = h[j]
    PROVE  StartsStep(b, g, i) = StartsStep(b, h, i)
<1>1. PICK l : l = Len(b)
  OBVIOUS
<1>2. l \in Nat /\ i \in 1..(l + 1)
  BY <1>1, LenProperties
<1>3. CASE i > l
  BY <1>1, <1>3 DEF StartsStep
<1>4. CASE ~(i > l)
  <2>1. i + 1 \in 1..(l + 1) /\ i + 1 > i
    BY <1>2, <1>4
  <2>2. g[i + 1] = h[i + 1]
    BY <1>1, <2>1
  <2>3. CASE b[i] # HEADER
    BY <1>1, <1>4, <2>2, <2>3 DEF StartsStep
  <2>4. CASE ~(b[i] # HEADER)
    <3>1. CASE i = l \/ i + b[i + 1] + 1 > l
      BY <1>1, <1>4, <2>4, <3>1 DEF StartsStep
    <3>2. CASE ~(i = l \/ i + b[i + 1] + 1 > l)
      <4>1. i + 1 \in 1..l
        BY <1>2, <1>4, <3>2
      <4>2. PICK x : x = b[i + 1]
        OBVIOUS
      <4>3. x \in Nat
        <5>1. x \in Byte
          BY <1>1, <4>1, <4>2, ElementOfSeq
        <5> QED
          BY <5>1 DEF Byte
      <4>4. i + x + 2 \in 1..(l + 1) /\ i + x + 2 > i
        BY <1>2, <1>4, <3>2, <4>2, <4>3
      <4>5. g[i + x + 2] = h[i + x + 2]
        BY <1>1, <4>4
      <4> QED
        BY <1>1, <1>4, <2>4, <3>2, <4>2, <4>5 DEF StartsStep
    <3> QED
      BY <3>1, <3>2
  <2> QED
    BY <2>3, <2>4
<1> QED
  BY <1>3, <1>4

LEMMA StartsExist ==
    ASSUME NEW b \in Seq(Byte)
    PROVE  \E g : Starts(b, g)
<1>1. PICK l : l = Len(b)
  OBVIOUS
<1>2. l \in Nat
  BY <1>1, LenProperties
<1> DEFINE Solves(g, n) ==
              \A i \in 1..(l + 1) :
                 i >= (l + 1) - n => g[i] = StartsStep(b, g, i)
           N == {n \in Nat : \E g : Solves(g, n)}
<1>3. 0 \in N
  <2>1. PICK g : g = [i \in 1..(l + 1) |-> <<>>]
    OBVIOUS
  <2>2. ASSUME NEW i \in 1..(l + 1), i >= (l + 1) - 0
        PROVE  g[i] = StartsStep(b, g, i)
    <3>1. i > l
      BY <1>2, <2>2
    <3>2. StartsStep(b, g, i) = <<>>
      BY <1>1, <3>1 DEF StartsStep
    <3> QED
      BY <2>1, <3>2
  <2> QED
    BY <2>2
<1>4. ASSUME NEW n \in Nat, n \in N
      PROVE  n + 1 \in N
  <2>1. PICK g : Solves(g, n)
    BY <1>4
  <2>2. PICK p : p = l - n
    OBVIOUS
  <2>3. PICK h : h = [i \in 1..(l + 1) |->
                        IF i = p THEN StartsStep(b, g, i) ELSE g[i]]
    OBVIOUS
  <2>4. ASSUME NEW i \in 1..(l + 1), i >= (l + 1) - (n + 1)
        PROVE  h[i] = StartsStep(b, h, i)
    <3>1. i >= p /\ p \in Int
      BY <1>2, <2>2, <2>4
    <3>2. ASSUME NEW j \in 1..(l + 1), j > i
          PROVE  g[j] = h[j]
      <4>1. j # p
        BY <3>1, <3>2
      <4> QED
        BY <2>3, <4>1
    <3>3. StartsStep(b, g, i) = StartsStep(b, h, i)
      BY <1>1, <3>2, StepsAgree
    <3>4. CASE i = p
      BY <2>3, <3>3, <3>4
    <3>5. CASE i # p
      <4>1. i >= (l + 1) - n
        BY <1>2, <2>2, <3>1, <3>5
      <4>2. g[i] = StartsStep(b, g, i)
        BY <2>1, <4>1
      <4> QED
        BY <2>3, <3>3, <3>5, <4>2
    <3> QED
      BY <3>4, <3>5
  <2> QED
    BY <2>4
<1> HIDE DEF N
<1>5. l \in N
  BY <1>2, <1>3, <1>4, NumbersFollow
<1>6. PICK g : Solves(g, l)
  BY <1>5 DEF N
<1>7. PICK h : h = [i \in 1..(l + 1) |-> g[i]]
  OBVIOUS
<1>8. ASSUME NEW i \in 1..(l + 1)
      PROVE  h[i] = StartsStep(b, h, i)
  <2>1. i >= (l + 1) - l
    BY <1>2
  <2>2. g[i] = StartsStep(b, g, i)
    BY <1>6, <2>1
  <2>3. \A j \in 1..(l + 1) : j > i => g[j] = h[j]
    BY <1>7
  <2>4. StartsStep(b, g, i) = StartsStep(b, h, i)
    BY <1>1, <2>3, StepsAgree
  <2> QED
    BY <1>7, <2>2, <2>4
<1>9. h = [i \in 1..(l + 1) |-> StartsStep(b, h, i)]
  BY <1>7, <1>8
<1> QED
  BY <1>1, <1>9 DEF Starts

LEMMA StartsOf ==
    ASSUME NEW b \in Seq(Byte)
    PROVE  \E g : Starts(b, g) /\ PacketStarts(b) = g[1]
<1> DEFINE Step(g) == [i \in 1..(Len(b) + 1) |->
                IF i > Len(b) THEN <<>>
                ELSE IF b[i] # HEADER THEN g[i + 1]
                ELSE IF i = Len(b) \/ i + b[i + 1] + 1 > Len(b) THEN <<>>
                ELSE <<i>> \o g[i + b[i + 1] + 2]]
           from == CHOOSE g : g = Step(g)
<1>1. \E g : g = Step(g)
  BY StartsExist DEF Starts, StartsStep
<1>2. from = Step(from)
  <2> HIDE DEF Step
  <2> QED
    BY <1>1
<1>3. PacketStarts(b) = from[1]
  BY DEF PacketStarts
<1>4. Starts(b, from)
  BY <1>2 DEF Starts, StartsStep
<1> QED
  BY <1>3, <1>4

LEMMA SizeForm ==
    ASSUME NEW S, NEW D, NEW e, Proper(S, D, e)
    PROVE  /\ SizeIn(D, e) \in Nat /\ SizeIn(D, e) >= 6 /\ SizeIn(D, e) <= 75
           /\ Len(D[e.q].data[e.k]) \in Nat /\ e \in Elem /\ e.i \in Nat
<1>1. PICK f, d, n : FrameIs(S, D, e, f, d, n)
  BY FrameForm
<1>2. n \in 1..70 /\ SizeIn(D, e) = n + 5 /\ n = Len(D[e.q].data[e.k])
  BY <1>1 DEF FrameIs, DataOf
<1>3. e \in Elem /\ e.i \in Nat
  BY DEF Proper, Elem
<1>4. n \in Nat /\ n + 5 \in Nat /\ n + 5 >= 6 /\ n + 5 <= 75
  <2>1. \A x \in 1..70 :
            x \in Nat /\ x + 5 \in Nat /\ x + 5 >= 6 /\ x + 5 <= 75
    OBVIOUS
  <2> QED
    BY <1>2, <2>1, Zenon
<1> QED
  BY <1>2, <1>3, <1>4, Zenon

(* The frame of s[j] goes on for m bytes.                                  *)
Within(D, s, j, m) ==
    /\ j \in 1..Len(s) /\ m \in Nat
    /\ j + m <= Len(s) /\ s[j].i + m <= SizeIn(D, s[j])

SameFrame(s, j, m) ==
    /\ s[j + m].q = s[j].q /\ s[j + m].k = s[j].k
    /\ s[j + m].i = s[j].i + m

LEMMA Onward ==
    ASSUME NEW S, NEW D, NEW s, Stream(S, D, s), NEW j, NEW m,
           Within(D, s, j, m)
    PROVE  SameFrame(s, j, m)
BY StreamRun DEF Within, SameFrame

PieceOf(D, s, j, m, t) ==
    Run(D, t) /\ Len(t) = m + 1 /\ t[1] = s[j] /\ t[Len(t)] = s[j + m]

LEMMA PieceRun ==
    ASSUME NEW S, NEW D, NEW s, Stream(S, D, s), NEW j, NEW m,
           Within(D, s, j, m), NEW t, t = SubSeq(s, j, j + m)
    PROVE  PieceOf(D, s, j, m, t)
<1>0. /\ j \in 1..Len(s) /\ m \in Nat
      /\ j + m <= Len(s) /\ s[j].i + m <= SizeIn(D, s[j])
  BY DEF Within
<1>1. PICK z, a, n, w : z = Len(s) /\ a = j - 1 /\ n = m + 1
                        /\ w = SizeIn(D, s[j])
  OBVIOUS
<1>2. s \in Seq(Elem) /\ z \in Nat
  BY <1>1, LenProperties DEF Stream
<1>3. j \in 1..z /\ j + m <= z
  BY <1>0, <1>1
<1>4. /\ a \in Nat /\ n \in Nat /\ a + n <= z /\ a + 1 = j /\ a + n = j + m
      /\ \A i \in 1..n : a + i = j + (i - 1)
  BY <1>0, <1>1, <1>2, <1>3
<1>5. t = SubSeq(s, a + 1, a + n)
  BY <1>4
<1>6. t \in Seq(Elem) /\ Len(t) = n /\ \A i \in 1..n : t[i] = s[a + i]
  <2>1. a + n <= Len(s)
    BY <1>1, <1>4
  <2> QED
    BY <1>2, <1>4, <1>5, <2>1, PieceForm
<1>7. m \in Nat /\ n = m + 1 /\ 1 \in 1..n /\ n \in 1..n
  <2>1. m \in Nat /\ n = m + 1
    BY <1>0, <1>1, Zenon
  <2> QED
    BY <2>1
<1>8. t[1] = s[j] /\ t[n] = s[j + m]
  <2>1. t[1] = s[a + 1] /\ t[n] = s[a + n]
    BY <1>6, <1>7, Zenon
  <2>2. a + 1 = j /\ a + n = j + m
    BY <1>4, Zenon
  <2> QED
    BY <2>1, <2>2, Zenon
<1>9. t # <<>>
  <2>1. n # 0
    BY <1>7
  <2>2. t \in Seq(Elem) /\ Len(t) # 0
    BY <1>6, <2>1, Zenon
  <2> QED
    BY <2>2, EmptySeq
<1>10. Proper(S, D, s[j])
  BY <1>0 DEF Stream
<1>11. /\ w \in Nat /\ s[j].i \in Nat
       /\ Len(D[s[j].q].data[s[j].k]) \in Nat
  BY <1>1, <1>10, SizeForm
<1>12. s[j].i >= 1 /\ s[j].i + m <= w
  <2>1. s[j].i \in 1..w
    BY <1>1, <1>10 DEF Proper
  <2> QED
    BY <1>0, <1>1, <2>1
<1>13. ASSUME NEW i \in 1..n
       PROVE  /\ t[i].q = t[1].q /\ t[i].k = t[1].k
              /\ t[i].i = t[1].i + (i - 1)
              /\ t[i].i \in 1..SizeIn(D, t[1])
  <2>1. /\ i - 1 \in Nat /\ j + (i - 1) <= z /\ s[j].i + (i - 1) <= w
        /\ s[j].i + (i - 1) \in 1..w
    <3>1. PICK l : l = s[j].i
      OBVIOUS
    <3>2. l \in Nat /\ l >= 1 /\ l + m <= w
      BY <1>11, <1>12, <3>1, Zenon
    <3>3. /\ i - 1 \in Nat /\ j + (i - 1) <= z /\ l + (i - 1) <= w
          /\ l + (i - 1) \in 1..w
      BY <1>2, <1>3, <1>7, <1>11, <3>2
    <3> QED
      BY <3>1, <3>3, Zenon
  <2>2. PICK y : y = i - 1
    OBVIOUS
  <2>3. Within(D, s, j, y)
    BY <1>1, <1>3, <2>1, <2>2 DEF Within
  <2>4. /\ s[j + y].q = s[j].q /\ s[j + y].k = s[j].k
        /\ s[j + y].i = s[j].i + y
    <3>1. SameFrame(s, j, y)
      BY <2>3, Onward
    <3> QED
      BY <3>1 DEF SameFrame
  <2>5. t[i] = s[j + y]
    BY <1>4, <1>6, <2>2
  <2> QED
    BY <1>1, <1>8, <2>1, <2>2, <2>4, <2>5
<1> QED
  BY <1>1, <1>6, <1>8, <1>9, <1>11, <1>13 DEF Run, PieceOf

-----------------------------------------------------------------------------
(* p has the places from j on where the complete frames of s begin, and    *)
(* the atoms from j on are their heads and tails, and the head of a frame  *)
(* that is cut.                                                            *)
AtomsFrom(S, D, s, j) == AtomsIn(S, D, SubSeq(s, j, Len(s)))

WholeAt(S, D, s, j, x, atom) ==
    /\ x \in 1..Len(s) /\ x >= j /\ s[x].i = 1
    /\ x + SizeIn(D, s[x]) <= Len(s) + 1
    /\ atom = AtomIn(S, D, s[x], "head")

Layout(S, D, s, j, p, A) ==
    /\ A \in Seq(AllAtoms(S, D)) /\ p \in Seq(Nat)
    /\ Len(A) \in {2 * Len(p), 2 * Len(p) + 1}
    /\ \A k \in 1..Len(p) : WholeAt(S, D, s, j, p[k], A[2 * k - 1])
    /\ \A k \in 1..(Len(p) - 1) : p[k + 1] = p[k] + SizeIn(D, s[p[k]])
    /\ Len(p) > 0 => p[1] = j
    /\ Len(A) = 0 => j = Len(s) + 1
    /\ Len(A) = 2 => j + SizeIn(D, s[j]) = Len(s) + 1
    /\ Len(p) = 0 /\ j # Len(s) + 1 => j + SizeIn(D, s[j]) > Len(s) + 1

LEMMA LayoutEnd ==
    ASSUME NEW S, NEW D, NEW s, Stream(S, D, s)
    PROVE  Layout(S, D, s, Len(s) + 1, <<>>, AtomsFrom(S, D, s, Len(s) + 1))
<1>1. PICK z : z = Len(s)
  OBVIOUS
<1>2. s \in Seq(Elem) /\ z \in Nat
  BY <1>1, LenProperties DEF Stream
<1>3. SubSeq(s, z + 1, z) = <<>>
  <2>1. PICK t : t = SubSeq(s, z + 1, z + 0)
    OBVIOUS
  <2>2. t \in Seq(Elem) /\ Len(t) = 0
    BY <1>1, <1>2, <2>1, PieceForm
  <2>3. z + 0 = z
    BY <1>2
  <2> QED
    BY <2>1, <2>2, <2>3, EmptySeq
<1>4. AtomsFrom(S, D, s, Len(s) + 1) = <<>>
  BY <1>1, <1>3, AtomsEmpty DEF AtomsFrom
<1>5. PICK A, p : A = <<>> /\ p = <<>>
  OBVIOUS
<1>6. A \in Seq(AllAtoms(S, D)) /\ Len(A) = 0 /\ p \in Seq(Nat) /\ Len(p) = 0
  BY <1>5, EmptySeq
<1>7. /\ \A k \in 1..Len(p) : FALSE
      /\ \A k \in 1..(Len(p) - 1) : FALSE
      /\ Len(A) \in {2 * Len(p), 2 * Len(p) + 1}
  BY <1>6
<1>8. Layout(S, D, s, Len(s) + 1, p, A)
  BY <1>6, <1>7 DEF Layout
<1> QED
  BY <1>4, <1>5, <1>8

LEMMA LayoutCut ==
    ASSUME NEW S, NEW D, NEW s, Stream(S, D, s), NEW j \in 1..Len(s),
           s[j].i = 1, j + SizeIn(D, s[j]) > Len(s) + 1
    PROVE  Layout(S, D, s, j, <<>>, AtomsFrom(S, D, s, j))
<1>1. PICK z, w, e : z = Len(s) /\ e = s[j] /\ w = SizeIn(D, e)
  OBVIOUS
<1>2. s \in Seq(Elem) /\ z \in Nat /\ j \in 1..z
  BY <1>1, LenProperties DEF Stream
<1>3. Proper(S, D, e) /\ e.i = 1
  BY <1>1 DEF Stream
<1>4. w \in Nat /\ e \in Elem
  BY <1>1, <1>3, SizeForm
<1>5. j + w > z + 1
  BY <1>1
<1>6. PICK m : m = z - j
  OBVIOUS
<1>7. m \in Nat /\ j + m = z /\ 1 + m < w /\ 1 + m <= w
  BY <1>2, <1>4, <1>5, <1>6
<1>8. PICK t : t = SubSeq(s, j, z)
  OBVIOUS
<1>9. Run(D, t) /\ t[1] = e /\ t[Len(t)] = s[z]
  <2>1. Within(D, s, j, m)
    BY <1>1, <1>2, <1>3, <1>7 DEF Within
  <2>2. t = SubSeq(s, j, j + m)
    BY <1>7, <1>8
  <2>3. PieceOf(D, s, j, m, t)
    BY <2>1, <2>2, PieceRun
  <2> QED
    BY <1>1, <1>7, <2>3 DEF PieceOf
<1>10. s[z].i = 1 + m /\ s[z].q = e.q /\ s[z].k = e.k
  <2>1. Within(D, s, j, m)
    BY <1>1, <1>2, <1>3, <1>7 DEF Within
  <2>2. SameFrame(s, j, m)
    BY <2>1, Onward
  <2> QED
    BY <1>1, <1>3, <1>7, <2>2 DEF SameFrame
<1>11. Closing(S, D, s[z]) = <<>>
  <2>1. SizeIn(D, s[z]) = w
    BY <1>1, <1>10 DEF SizeIn
  <2>2. s[z].i # w
    BY <1>4, <1>7, <1>10
  <2> QED
    BY <2>1, <2>2 DEF Closing
<1>12. PICK x : x = AtomIn(S, D, e, "head")
  OBVIOUS
<1>13. x \in AllAtoms(S, D)
  BY <1>4, <1>12 DEF AllAtoms
<1>14. Opening(S, D, e) = <<x>>
  BY <1>3, <1>12 DEF Opening
<1>15. AtomsIn(S, D, t) = <<x>>
  <2>1. AtomsIn(S, D, t) = Opening(S, D, e) \o Closing(S, D, s[z])
    BY <1>9, RunAtoms
  <2>2. <<x>> \in Seq(AllAtoms(S, D))
    BY <1>13
  <2> QED
    BY <1>11, <1>14, <2>1, <2>2, ConcatEmptySeq
<1>16. PICK A : A = AtomsFrom(S, D, s, j)
  OBVIOUS
<1>17. A = <<x>>
  BY <1>1, <1>8, <1>15, <1>16 DEF AtomsFrom
<1>18. A \in Seq(AllAtoms(S, D)) /\ Len(A) = 1
  BY <1>13, <1>17
<1>19. PICK p : p = <<>>
  OBVIOUS
<1>20. p \in Seq(Nat) /\ Len(p) = 0
  BY <1>19, EmptySeq
<1>21. /\ \A k \in 1..Len(p) : FALSE
       /\ \A k \in 1..(Len(p) - 1) : FALSE
       /\ Len(A) \in {2 * Len(p), 2 * Len(p) + 1}
       /\ Len(A) # 0 /\ Len(A) # 2 /\ ~(Len(p) > 0)
  BY <1>18, <1>20
<1>22. Layout(S, D, s, j, p, A)
  BY <1>18, <1>20, <1>21, Zenon DEF Layout
<1> QED
  BY <1>16, <1>19, <1>22

LEMMA LayoutWhole ==
    ASSUME NEW S, NEW D, NEW s, Stream(S, D, s), NEW j \in 1..Len(s),
           s[j].i = 1, NEW w, w = SizeIn(D, s[j]), j + w <= Len(s) + 1,
           NEW p, NEW A, Layout(S, D, s, j + w, p, A),
           A = AtomsFrom(S, D, s, j + w),
           NEW r, r = <<j>> \o p, NEW B, B = AtomsFrom(S, D, s, j)
    PROVE  Layout(S, D, s, j, r, B)
<1>1. PICK z, e, m : z = Len(s) /\ e = s[j] /\ m = w - 1
  OBVIOUS
<1>2. s \in Seq(Elem) /\ z \in Nat
  BY <1>1, LenProperties DEF Stream
<1>3. Proper(S, D, e) /\ e.i = 1 /\ e = s[j] /\ w = SizeIn(D, e)
  BY <1>1 DEF Stream
<1>4. w \in Nat /\ w >= 6 /\ e \in Elem
  BY <1>3, SizeForm
<1>5. j \in 1..z /\ j + w <= z + 1
  BY <1>1, Zenon
<1>6. m \in Nat /\ m + 1 = w
  <2>1. m = w - 1
    BY <1>1, Zenon
  <2> QED
    BY <1>4, <2>1
<1>7. /\ j + m <= z /\ 1 + m = w /\ 1 + m <= w /\ j + w = (j + m) + 1
      /\ j + m \in 1..z /\ j \in Nat
  BY <1>2, <1>4, <1>5, <1>6
<1>8. Within(D, s, j, m)
  <2>1. e.i + m <= w
    BY <1>3, <1>7
  <2> QED
    BY <1>1, <1>3, <1>5, <1>6, <1>7, <2>1, Zenon DEF Within
<1>9. PICK t, u, g : /\ t = SubSeq(s, j, j + m) /\ u = SubSeq(s, j + w, z)
                     /\ g = s[j + m]
  OBVIOUS
<1>10. Run(D, t) /\ t[1] = e /\ t[Len(t)] = g
  <2>1. PieceOf(D, s, j, m, t)
    BY <1>8, <1>9, PieceRun
  <2> QED
    BY <1>1, <1>9, <2>1, Zenon DEF PieceOf
<1>11. g.q = e.q /\ g.k = e.k /\ g.i = w
  <2>1. SameFrame(s, j, m)
    BY <1>8, Onward
  <2>2. g.q = e.q /\ g.k = e.k /\ g.i = e.i + m
    BY <1>1, <1>9, <2>1, Zenon DEF SameFrame
  <2> QED
    BY <1>3, <1>7, <2>2
<1>12. PICK x, y : /\ x = AtomIn(S, D, e, "head")
                   /\ y = AtomIn(S, D, g, "tail")
  OBVIOUS
<1>13. Opening(S, D, e) = <<x>>
  BY <1>3, <1>12 DEF Opening
<1>14. Closing(S, D, g) = <<y>>
  <2>1. SizeIn(D, g) = w
    BY <1>3, <1>11, Zenon DEF SizeIn
  <2> QED
    BY <1>11, <1>12, <2>1 DEF Closing
<1>15. x \in AllAtoms(S, D) /\ y \in AllAtoms(S, D)
  <2>1. g \in Elem
    BY <1>1, <1>2, <1>7, <1>9, ElementOfSeq
  <2> QED
    BY <1>4, <1>12, <2>1 DEF AllAtoms
<1>16. AtomsIn(S, D, t) = <<x, y>>
  <2>1. AtomsIn(S, D, t) = <<x>> \o <<y>>
    BY <1>10, <1>13, <1>14, RunAtoms
  <2>2. <<x>> \o <<y>> = <<x, y>>
    BY <1>15, PairOf
  <2> QED
    BY <2>1, <2>2, Zenon
<1>17. t \in Seq(Elem) /\ u \in Seq(Elem) /\ SubSeq(s, j, z) = t \o u
  <2>1. PICK a, n, l : a = j - 1 /\ n = m + 1 /\ l = z - (j + m)
    OBVIOUS
  <2>2. /\ a \in Nat /\ n \in Nat /\ l \in Nat /\ a + 1 = j /\ a + n = j + m
        /\ a + n + l = z /\ a + n + 1 = j + w /\ a + n \in Nat
        /\ a + n <= z /\ a + n + l <= z
    BY <1>2, <1>5, <1>6, <1>7, <2>1
  <2>3. a + n <= Len(s) /\ a + n + l <= Len(s)
    BY <1>1, <2>2, Zenon
  <2>4. /\ t = SubSeq(s, a + 1, a + n)
        /\ u = SubSeq(s, a + n + 1, a + n + l)
        /\ SubSeq(s, j, z) = SubSeq(s, a + 1, a + n + l)
    BY <1>9, <2>2, Zenon
  <2>5. t \in Seq(Elem)
    BY <1>2, <2>2, <2>3, <2>4, PieceForm
  <2>6. u \in Seq(Elem)
    <3>1. PICK k : k = a + n
      OBVIOUS
    <3>2. k \in Nat /\ k + l <= Len(s) /\ u = SubSeq(s, k + 1, k + l)
      BY <2>2, <2>3, <2>4, <3>1, Zenon
    <3> QED
      BY <1>2, <2>2, <3>2, PieceForm
  <2>7. SubSeq(s, a + 1, a + n + l) = t \o u
    <3>1. SubSeq(s, a + 1, a + n + l)
            = SubSeq(s, a + 1, a + n) \o SubSeq(s, a + n + 1, a + n + l)
      <4>1. a \in Nat /\ n \in Nat /\ l \in Nat /\ a + n + l <= Len(s)
        BY <2>2, <2>3, Zenon
      <4> QED
        BY <1>2, <4>1, PiecesJoin
    <3> QED
      BY <2>4, <3>1, Zenon
  <2> QED
    BY <2>4, <2>5, <2>6, <2>7, Zenon
<1>18. A = AtomsIn(S, D, u)
  BY <1>1, <1>9, Zenon DEF AtomsFrom
<1>19. B = <<x, y>> \o A
  <2>1. B = AtomsIn(S, D, t \o u)
    BY <1>1, <1>17, Zenon DEF AtomsFrom
  <2>2. AtomsIn(S, D, t \o u) = AtomsIn(S, D, t) \o AtomsIn(S, D, u)
    BY <1>17, AtomsConcat
  <2> QED
    BY <1>16, <1>18, <2>1, <2>2, Zenon
<1>20. /\ A \in Seq(AllAtoms(S, D)) /\ p \in Seq(Nat)
       /\ Len(A) \in {2 * Len(p), 2 * Len(p) + 1}
       /\ \A k \in 1..Len(p) : WholeAt(S, D, s, j + w, p[k], A[2 * k - 1])
       /\ \A k \in 1..(Len(p) - 1) : p[k + 1] = p[k] + SizeIn(D, s[p[k]])
       /\ Len(p) > 0 => p[1] = j + w
       /\ Len(A) = 0 => j + w = Len(s) + 1
  BY DEF Layout
<1>21. PICK v : v = <<x, y>>
  OBVIOUS
<1>22. /\ v \in Seq(AllAtoms(S, D)) /\ Len(v) = 2
       /\ v[1] = x /\ v[2] = y
  BY <1>15, <1>21
<1>23. B \in Seq(AllAtoms(S, D)) /\ Joined(B, v, A)
  BY <1>19, <1>20, <1>21, <1>22, ConcatJoined
<1>24. PICK n, l : n = Len(p) /\ l = Len(A)
  OBVIOUS
<1>25. n \in Nat /\ l \in Nat /\ (l = 2 * n \/ l = 2 * n + 1)
  BY <1>20, <1>24, LenProperties
<1>26. /\ Len(B) = 2 + l
       /\ B[1] = x
       /\ \A i \in 1..l : B[2 + i] = A[i]
  <2>1. Len(B) = Len(v) + Len(A) /\ B[1] = v[1]
    <3>1. 1 \in 1..2
      OBVIOUS
    <3> QED
      BY <1>22, <1>23, <3>1 DEF Joined
  <2>2. \A i \in 1..l : B[2 + i] = A[i]
    BY <1>22, <1>23, <1>24 DEF Joined
  <2> QED
    BY <1>22, <1>24, <2>1, <2>2
<1>27. /\ r \in Seq(Nat) /\ Len(r) = 1 + n
       /\ r[1] = j
       /\ \A i \in 1..n : r[1 + i] = p[i]
  <2>1. PICK o : o = <<j>>
    OBVIOUS
  <2>2. o \in Seq(Nat) /\ Len(o) = 1 /\ o[1] = j
    BY <1>7, <2>1
  <2>3. r \in Seq(Nat) /\ Joined(r, o, p)
    BY <1>20, <2>1, <2>2, ConcatJoined
  <2>4. 1 \in 1..1
    OBVIOUS
  <2> QED
    BY <1>24, <2>2, <2>3, <2>4 DEF Joined
<1>28. WholeAt(S, D, s, j, j, x)
  <2>1. j >= j
    BY <1>7
  <2> QED
    BY <1>1, <1>3, <1>5, <1>12, <2>1, Zenon DEF WholeAt
<1>29. ASSUME NEW k \in 1..(1 + n)
       PROVE  WholeAt(S, D, s, j, r[k], B[2 * k - 1])
  <2>1. CASE k = 1
    <3>1. 2 * k - 1 = 1
      BY <2>1
    <3> QED
      BY <1>26, <1>27, <1>28, <2>1, <3>1, Zenon
  <2>2. CASE k # 1
    <3>1. PICK i, c : i = k - 1 /\ c = 2 * i - 1
      OBVIOUS
    <3>2. /\ i \in 1..n /\ k = 1 + i /\ c \in 1..l /\ 2 * k - 1 = 2 + c
      BY <1>25, <2>2, <3>1
    <3>3. WholeAt(S, D, s, j + w, p[i], A[c])
      BY <1>20, <1>24, <3>1, <3>2, Zenon
    <3>4. r[k] = p[i] /\ B[2 * k - 1] = A[c]
      BY <1>26, <1>27, <3>2, Zenon
    <3>5. WholeAt(S, D, s, j, p[i], A[c])
      <4>1. PICK o : o = p[i]
        OBVIOUS
      <4>2. /\ o \in 1..Len(s) /\ o >= j + w /\ s[o].i = 1
            /\ o + SizeIn(D, s[o]) <= Len(s) + 1
            /\ A[c] = AtomIn(S, D, s[o], "head")
        BY <3>3, <4>1, Zenon DEF WholeAt
      <4>3. o \in 1..z /\ o >= j + w
        BY <1>1, <4>2, Zenon
      <4>4. o >= j
        BY <1>2, <1>4, <1>7, <4>3
      <4> QED
        BY <4>1, <4>2, <4>4, Zenon DEF WholeAt
    <3> QED
      BY <3>4, <3>5, Zenon
  <2> QED
    BY <2>1, <2>2
<1>30. ASSUME NEW k \in 1..((1 + n) - 1)
       PROVE  r[k + 1] = r[k] + SizeIn(D, s[r[k]])
  <2>1. CASE k = 1
    <3>1. k + 1 = 1 + 1 /\ 1 \in 1..n /\ n > 0
      BY <1>25, <2>1
    <3>2. r[k + 1] = p[1] /\ p[1] = j + w /\ r[k] = j
      BY <1>20, <1>24, <1>27, <2>1, <3>1, Zenon
    <3> QED
      BY <1>1, <1>3, <3>2, Zenon
  <2>2. CASE k # 1
    <3>1. PICK i : i = k - 1
      OBVIOUS
    <3>2. i \in 1..(n - 1) /\ i \in 1..n /\ i + 1 \in 1..n /\ k = 1 + i
          /\ k + 1 = 1 + (i + 1)
      BY <1>25, <2>2, <3>1
    <3>3. r[k] = p[i] /\ r[k + 1] = p[i + 1]
      BY <1>27, <3>2, Zenon
    <3>4. p[i + 1] = p[i] + SizeIn(D, s[p[i]])
      BY <1>20, <1>24, <3>2, Zenon
    <3> QED
      BY <3>3, <3>4, Zenon
  <2> QED
    BY <2>1, <2>2
<1>31. /\ 2 + l \in {2 * (1 + n), 2 * (1 + n) + 1}
       /\ 2 + l # 0 /\ (2 + l = 2 => l = 0) /\ 1 + n # 0
  BY <1>25
<1>32. 2 + l = 2 => j + SizeIn(D, s[j]) = Len(s) + 1
  BY <1>1, <1>3, <1>20, <1>24, <1>31, Zenon
<1> QED
  BY <1>23, <1>26, <1>27, <1>29, <1>30, <1>31, <1>32, Zenon DEF Layout

LEMMA StartsLayout ==
    ASSUME NEW S, NEW D, NEW s, Stream(S, D, s), NEW g,
           Starts(Bytes(s), g), NEW j \in 1..(Len(s) + 1),
           j = Len(s) + 1 \/ s[j].i = 1
    PROVE  Layout(S, D, s, j, g[j], AtomsFrom(S, D, s, j))
<1>1. PICK z, b : z = Len(s) /\ b = Bytes(s)
  OBVIOUS
<1>2. s \in Seq(Elem) /\ z \in Nat
  BY <1>1, LenProperties DEF Stream
<1>3. b \in Seq(Byte) /\ Len(b) = z
  BY <1>1, <1>2, BytesForm
<1>4. \A i \in 1..(z + 1) : g[i] = StartsStep(b, g, i)
  BY <1>1, <1>3 DEF Starts
<1> DEFINE P(i) == (i = z + 1 \/ s[i].i = 1) =>
                        Layout(S, D, s, i, g[i], AtomsFrom(S, D, s, i))
           N == {n \in Nat : \A i \in 1..(z + 1) : i >= (z + 1) - n => P(i)}
<1>5. ASSUME NEW i \in 1..z, s[i].i = 1, \A o \in 1..(z + 1) : o > i => P(o)
      PROVE  Layout(S, D, s, i, g[i], AtomsFrom(S, D, s, i))
  <2>0. i \in 1..Len(s)
    BY <1>1, <1>5, Zenon
  <2>1. PICK e : e = s[i]
    OBVIOUS
  <2>2. Proper(S, D, e) /\ e.i = 1
    BY <1>5, <2>0, <2>1 DEF Stream
  <2>3. PICK f, d, n : FrameIs(S, D, e, f, d, n)
    BY <2>2, FrameForm
  <2>4. /\ f = FrameOf(S, D, e) /\ n \in 1..70 /\ SizeIn(D, e) = n + 5
        /\ f[1] = HEADER /\ f[2] = n + 3
    BY <2>3 DEF FrameIs, AnswerShape
  <2>5. PICK w : w = n + 5
    OBVIOUS
  <2>6. w = SizeIn(D, s[i]) /\ w \in Nat /\ w >= 6
    <3>1. \A x \in 1..70 : x + 5 \in Nat /\ x + 5 >= 6
      OBVIOUS
    <3> QED
      BY <2>1, <2>4, <2>5, <3>1, Zenon
  <2>7. b[i] = HEADER
    <3>1. Within(D, s, i, 0)
      <4>1. i + 0 = i /\ i <= z /\ 1 + 0 <= w
        BY <1>2, <2>6
      <4>2. i + 0 <= Len(s)
        BY <1>1, <4>1, Zenon
      <4> QED
        BY <1>5, <2>0, <2>6, <4>1, <4>2 DEF Within
    <3>2. Bytes(s)[i + 0] = FrameOf(S, D, s[i])[s[i].i + 0]
      BY <3>1, FrameByte DEF Within
    <3>3. i + 0 = i /\ 1 + 0 = 1
      OBVIOUS
    <3> QED
      BY <1>1, <1>5, <2>1, <2>4, <3>2, <3>3, Zenon
  <2>8. ASSUME i < z
        PROVE  b[i + 1] = n + 3
    <3>1. Within(D, s, i, 1)
      <4>1. i + 1 <= z /\ 1 + 1 <= w /\ 1 \in Nat
        BY <1>2, <2>6, <2>8
      <4>2. i + 1 <= Len(s)
        BY <1>1, <4>1, Zenon
      <4> QED
        BY <1>5, <2>0, <2>6, <4>1, <4>2 DEF Within
    <3>2. Bytes(s)[i + 1] = FrameOf(S, D, s[i])[s[i].i + 1]
      BY <3>1, FrameByte DEF Within
    <3>3. 1 + 1 = 2
      OBVIOUS
    <3> QED
      BY <1>1, <1>5, <2>1, <2>4, <3>2, <3>3, Zenon
  <2>9. i \in 1..(z + 1) /\ ~(i > z) /\ i \in Nat
    BY <1>2
  <2>10. CASE i + w > z + 1
    <3>1. g[i] = <<>>
      <4>1. i = z \/ i + b[i + 1] + 1 > z
        <5>1. CASE i < z
          <6>1. i + (n + 3) + 1 > z
            BY <1>2, <2>4, <2>5, <2>10
          <6> QED
            BY <2>8, <5>1, <6>1
        <5>2. CASE ~(i < z)
          BY <1>2, <5>2
        <5> QED
          BY <5>1, <5>2
      <4> QED
        BY <1>3, <1>4, <2>7, <2>9, <4>1, Zenon DEF StartsStep
    <3>2. i + SizeIn(D, s[i]) > Len(s) + 1
      BY <1>1, <2>6, <2>10, Zenon
    <3> QED
      BY <1>5, <2>0, <3>1, <3>2, LayoutCut
  <2>11. CASE ~(i + w > z + 1)
    <3>1. /\ i < z /\ i # z /\ ~(i + (n + 3) + 1 > z)
          /\ i + (n + 3) + 2 = i + w
          /\ i + w <= z + 1 /\ i + w \in 1..(z + 1) /\ i + w > i
      BY <1>2, <2>4, <2>5, <2>6, <2>11
    <3>2. g[i] = <<i>> \o g[i + w]
      <4>1. b[i + 1] = n + 3
        BY <2>8, <3>1
      <4>2. ~(i = z \/ i + b[i + 1] + 1 > z)
        BY <3>1, <4>1, Zenon
      <4>3. g[i] = <<i>> \o g[i + b[i + 1] + 2]
        BY <1>3, <1>4, <2>7, <2>9, <4>2, Zenon DEF StartsStep
      <4> QED
        BY <3>1, <4>1, <4>3, Zenon
    <3>3. i + w = z + 1 \/ s[i + w].i = 1
      <4>1. CASE i + w = z + 1
        BY <4>1
      <4>2. CASE i + w # z + 1
        <5>1. PICK m : m = w - 1
          OBVIOUS
        <5>2. m \in Nat /\ 1 + m = w /\ i + m < z /\ i + m + 1 = i + w
          <6>1. w \in Nat /\ w >= 6 /\ i + w <= z + 1
            BY <2>6, <3>1, Zenon
          <6> QED
            BY <1>2, <4>2, <5>1, <6>1
        <5>3. s[i].i + m = SizeIn(D, s[i]) /\ i + m < Len(s)
          BY <1>1, <1>5, <2>6, <5>2, Zenon
        <5>4. s[i + m + 1].i = 1
          BY <2>0, <5>2, <5>3, FrameNext
        <5> QED
          BY <5>2, <5>4, Zenon
      <4> QED
        BY <4>1, <4>2
    <3>4. Layout(S, D, s, i + w, g[i + w], AtomsFrom(S, D, s, i + w))
      BY <1>5, <3>1, <3>3, Zenon
    <3>5. i + w <= Len(s) + 1
      BY <1>1, <3>1, Zenon
    <3>6. PICK p, A, r, B : /\ p = g[i + w] /\ A = AtomsFrom(S, D, s, i + w)
                            /\ r = g[i] /\ B = AtomsFrom(S, D, s, i)
      OBVIOUS
    <3>7. /\ r = <<i>> \o p /\ Layout(S, D, s, i + w, p, A)
          /\ A = AtomsFrom(S, D, s, i + w) /\ B = AtomsFrom(S, D, s, i)
      BY <3>2, <3>4, <3>6, Zenon
    <3>8. Layout(S, D, s, i, r, B)
      BY <1>5, <2>0, <2>6, <3>5, <3>7, LayoutWhole
    <3> QED
      BY <3>6, <3>8, Zenon
  <2> QED
    BY <2>10, <2>11
<1>6. P(z + 1)
  <2>1. g[z + 1] = <<>>
    <3>1. z + 1 \in 1..(z + 1) /\ z + 1 > z
      BY <1>2
    <3> QED
      BY <1>3, <1>4, <3>1, Zenon DEF StartsStep
  <2>2. Layout(S, D, s, z + 1, <<>>, AtomsFrom(S, D, s, z + 1))
    BY <1>1, LayoutEnd
  <2> QED
    BY <2>1, <2>2
<1>7. 0 \in N
  <2> SUFFICES ASSUME NEW i \in 1..(z + 1), i >= (z + 1) - 0
               PROVE  P(i)
    OBVIOUS
  <2> HIDE DEF P
  <2>1. i = z + 1
    BY <1>2
  <2> QED
    BY <1>6, <2>1, Zenon
<1>8. ASSUME NEW n \in Nat, n \in N
      PROVE  n + 1 \in N
  <2> SUFFICES ASSUME NEW i \in 1..(z + 1), i >= (z + 1) - (n + 1)
               PROVE  P(i)
    OBVIOUS
  <2>1. \A o \in 1..(z + 1) : o >= (z + 1) - n => P(o)
    BY <1>8
  <2>2. CASE i = z + 1
    BY <1>6, <2>2
  <2>3. CASE i # z + 1
    <3>1. i \in 1..z
      BY <1>2, <2>3
    <3>2. \A o \in 1..(z + 1) : o > i => o >= (z + 1) - n
      BY <1>2
    <3> HIDE DEF P
    <3>3. \A o \in 1..(z + 1) : o > i => P(o)
      BY <2>1, <3>2, Zenon
    <3> USE DEF P
    <3> QED
      BY <1>5, <2>3, <3>1, <3>3
  <2> QED
    BY <2>2, <2>3
<1> HIDE DEF N
<1>9. z \in N
  BY <1>2, <1>7, <1>8, NumbersFollow
<1>10. P(j)
  <2>1. \A i \in 1..(z + 1) : i >= (z + 1) - z => P(i)
    BY <1>9 DEF N
  <2>2. j \in 1..(z + 1)
    BY <1>1, Zenon
  <2>3. j >= (z + 1) - z
    BY <1>2, <2>2
  <2> HIDE DEF P
  <2> QED
    BY <2>1, <2>2, <2>3, Zenon
<1> QED
  BY <1>1, <1>10, Zenon

-----------------------------------------------------------------------------
(* Reading that begins inside a frame.                                     *)

(* What from_bytes wants of the first bytes, whatever follows.             *)
LEMMA NotStarted ==
    ASSUME NEW b, NEW c, Len(b) \in Nat,
           Len(b) >= 4 => b[4] # Code[c.op] \/ ~(b[2] >= 3)
    PROVE  Outcome(b, c) = Unparsed
<1>1. CASE Len(b) < 4
  BY <1>1 DEF Outcome
<1>2. CASE ~(Len(b) < 4)
  <2>1. b[4] # Code[c.op] \/ ~(b[2] >= 3)
    <3>1. Len(b) >= 4
      BY <1>2
    <3> QED
      BY <3>1, Zenon
  <2>2. b[4] # Code[c.op] \/ ~Complete(b)
    BY <2>1, Zenon DEF Complete
  <2> QED
    BY <2>2, Zenon DEF Outcome
<1> QED
  BY <1>1, <1>2, Zenon

LEMMA ByteAt ==
    ASSUME NEW S, NEW D, NEW s, Stream(S, D, s), NEW j, NEW m,
           Within(D, s, j, m)
    PROVE  Bytes(s)[j + m] = FrameOf(S, D, s[j])[s[j].i + m]
BY FrameByte DEF Within

(* The bytes of the frame that begins at s[x].                             *)
HeadAt(s, x) ==
    /\ Bytes(s)[x] = 160
    /\ x + 1 <= Len(s) => Bytes(s)[x + 1] \in 4..73
    /\ x + 2 <= Len(s) => Bytes(s)[x + 2] = 1

LEMMA HeadBytes ==
    ASSUME NEW S, NEW D, NEW s, Stream(S, D, s), NEW x \in 1..Len(s),
           s[x].i = 1
    PROVE  HeadAt(s, x)
<1>1. PICK e, z, w : e = s[x] /\ z = Len(s) /\ w = SizeIn(D, e)
  OBVIOUS
<1>2. Proper(S, D, e) /\ e.i = 1
  BY <1>1 DEF Stream
<1>3. PICK f, d, n : FrameIs(S, D, e, f, d, n)
  BY <1>2, FrameForm
<1>4. /\ f = FrameOf(S, D, e) /\ n \in 1..70 /\ w = n + 5
      /\ f[1] = 160 /\ f[2] = n + 3 /\ f[3] = 1
  BY <1>1, <1>3 DEF FrameIs, AnswerShape, HEADER, ADDRESS
<1>5. /\ x \in 1..z /\ z \in Nat /\ x + 0 = x
      /\ x + 0 <= z /\ n + 3 \in 4..73
      /\ 1 + 0 <= w /\ 1 + 1 <= w /\ 1 + 2 <= w
  <2>1. z \in Nat /\ x \in 1..z
    BY <1>1, LenProperties DEF Stream
  <2>2. \A y \in 1..70 : /\ y + 3 \in 4..73 /\ 1 + 0 <= y + 5
                         /\ 1 + 1 <= y + 5 /\ 1 + 2 <= y + 5
    OBVIOUS
  <2>3. x + 0 = x /\ x + 0 <= z
    BY <2>1
  <2> QED
    BY <1>4, <2>1, <2>2, <2>3, Zenon
<1>6. ASSUME NEW m \in Nat, x + m <= z, 1 + m <= w
      PROVE  Bytes(s)[x + m] = f[1 + m]
  <2>1. Within(D, s, x, m)
    BY <1>1, <1>2, <1>5, <1>6, Zenon DEF Within
  <2>2. Bytes(s)[x + m] = FrameOf(S, D, s[x])[s[x].i + m]
    BY <2>1, ByteAt
  <2> QED
    BY <1>1, <1>2, <1>4, <2>2, Zenon
<1>7. 0 \in Nat /\ 1 \in Nat /\ 2 \in Nat
      /\ 1 + 0 = 1 /\ 1 + 1 = 2 /\ 1 + 2 = 3
  OBVIOUS
<1>8. Bytes(s)[x] = f[1]
  <2>1. Bytes(s)[x + 0] = f[1 + 0]
    BY <1>5, <1>6, <1>7, Zenon
  <2> QED
    BY <1>5, <1>7, <2>1, Zenon
<1>9. x + 1 <= z => Bytes(s)[x + 1] = f[2]
  BY <1>5, <1>6, <1>7, Zenon
<1>10. x + 2 <= z => Bytes(s)[x + 2] = f[3]
  BY <1>5, <1>6, <1>7, Zenon
<1> QED
  BY <1>1, <1>4, <1>5, <1>8, <1>9, <1>10, Zenon DEF HeadAt

(* What a frame may say its size is, is no command code. *)
LEMMA SizesAreNoCodes == \A u \in 4..73, v \in 98..139 : u # v
  OBVIOUS

(* The rest of the frame f from its byte i on looks, to from_bytes, like   *)
(* the frame of an answer to c.                                            *)
LooksLikeAFrame(f, i, c) ==
    i <= Len(f) - 3 /\ f[i + 1] >= 3 /\ f[i + 3] = Code[c.op]

(* A buffer that opens inside a frame is read on whatever follows, unless  *)
(* the rest of that very frame looks like an answer: from_bytes does not   *)
(* look for the header.                                                    *)
THEOREM TailsAreReadOn ==
    ASSUME NEW S, NEW D, NEW s, Stream(S, D, s), NEW c \in Requests,
           s # <<>> =>
               /\ s[1].i # 1
               /\ ~LooksLikeAFrame(FrameOf(S, D, s[1]), s[1].i, c)
    PROVE  Outcome(Bytes(s), c) = Unparsed
<1>1. PICK z, b, y : z = Len(s) /\ b = Bytes(s) /\ y = Code[c.op]
  OBVIOUS
<1>2. s \in Seq(Elem) /\ z \in Nat
  BY <1>1, LenProperties DEF Stream
<1>3. b \in Seq(Byte) /\ Len(b) = z
  BY <1>1, <1>2, BytesForm
<1>4. y \in 98..139
  BY <1>1, OpsOfRequests, CodesDiffer
<1> SUFFICES ASSUME z >= 4
             PROVE  b[4] # y \/ ~(b[2] >= 3)
  BY <1>1, <1>2, <1>3, NotStarted
<1>5. 1 \in 1..z /\ s[1].i # 1
  <2>1. z # 0
    BY <1>2
  <2>2. s # <<>>
    BY <1>1, <1>2, <2>1, EmptySeq
  <2> QED
    BY <1>2, <2>2
<1>6. PICK e : e = s[1]
  OBVIOUS
<1>7. Proper(S, D, e)
  BY <1>1, <1>5, <1>6 DEF Stream
<1>8. PICK f, d, n : FrameIs(S, D, e, f, d, n)
  BY <1>7, FrameForm
<1>9. /\ f = FrameOf(S, D, e) /\ n \in 1..70 /\ SizeIn(D, e) = n + 5
      /\ Len(f) = n + 5
  BY <1>8 DEF FrameIs, AnswerShape
<1>10. PICK w, i : w = n + 5 /\ i = e.i
  OBVIOUS
<1>11. w \in Nat /\ w >= 6 /\ i \in 2..w /\ w = SizeIn(D, e) /\ Len(f) = w
  <2>1. \A u \in 1..70 : u + 5 \in Nat /\ u + 5 >= 6
    OBVIOUS
  <2>2. w \in Nat /\ w >= 6 /\ w = SizeIn(D, e) /\ Len(f) = w
    BY <1>9, <1>10, <2>1, Zenon
  <2>3. i \in 1..w
    BY <1>7, <1>10, <2>2, Zenon DEF Proper
  <2>4. i # 1
    BY <1>5, <1>6, <1>10, Zenon
  <2>5. i \in 2..w
    BY <2>2, <2>3, <2>4
  <2> QED
    BY <2>2, <2>5, Zenon
<1>12. ASSUME NEW m \in Nat, 1 + m <= z, i + m <= w
       PROVE  b[1 + m] = f[i + m]
  <2>1. Within(D, s, 1, m)
    BY <1>1, <1>5, <1>6, <1>10, <1>11, <1>12, Zenon DEF Within
  <2>2. Bytes(s)[1 + m] = FrameOf(S, D, s[1])[s[1].i + m]
    BY <2>1, ByteAt
  <2> QED
    BY <1>1, <1>6, <1>9, <1>10, <2>2, Zenon
<1>13. CASE i <= w - 3
  <2>1. /\ i + 1 <= w /\ i + 3 <= w /\ i \in 2..(w - 3)
        /\ 1 + 1 <= z /\ 1 + 3 <= z
        /\ 1 + 1 = 2 /\ 1 + 3 = 4 /\ 1 \in Nat /\ 3 \in Nat
    BY <1>2, <1>11, <1>13
  <2>2. b[1 + 1] = f[i + 1] /\ b[1 + 3] = f[i + 3]
    BY <1>12, <2>1, Zenon
  <2>3. b[2] = f[i + 1] /\ b[4] = f[i + 3]
    BY <2>1, <2>2, Zenon
  <2>4. ~LooksLikeAFrame(f, i, c)
    <3>1. s # <<>>
      <4>1. Len(s) # 0
        BY <1>1, <1>2
      <4> QED
        BY <1>2, <4>1, EmptySeq
    <3> QED
      BY <1>6, <1>9, <1>10, <3>1, Zenon
  <2>5. i <= Len(f) - 3
    BY <1>9, <1>10, <1>13
  <2>6. ~(f[i + 1] >= 3) \/ f[i + 3] # y
    <3>1. ~(f[i + 1] >= 3 /\ f[i + 3] = Code[c.op])
      BY <2>4, <2>5, Zenon DEF LooksLikeAFrame
    <3> QED
      BY <1>1, <3>1, Zenon
  <2> QED
    BY <2>3, <2>6, Zenon
<1>14. CASE ~(i <= w - 3)
  <2>1. PICK m, x : m = w - i /\ x = 1 + m + 1
    OBVIOUS
  <2>2. /\ m \in 0..2 /\ i + m = w /\ x \in 2..4 /\ x \in 1..z /\ 1 + m < z
        /\ x = m + 2
    <3>1. /\ w \in Nat /\ i \in 2..w /\ ~(i <= w - 3)
          /\ m = w - i /\ x = 1 + m + 1 /\ z \in Nat /\ z >= 4
      BY <1>2, <1>11, <1>14, <2>1, Zenon
    <3>2. m \in 0..2 /\ i + m = w
      BY <3>1
    <3> QED
      BY <3>1, <3>2
  <2>3. s[x].i = 1
    <3>1. /\ s[1].i + m = SizeIn(D, s[1]) /\ 1 + m < Len(s)
          /\ 1 \in 1..Len(s)
      BY <1>1, <1>5, <1>6, <1>10, <1>11, <2>2, Zenon
    <3>2. m \in Nat
      BY <2>2
    <3>3. s[1 + m + 1].i = 1
      BY <3>1, <3>2, FrameNext
    <3> QED
      BY <2>1, <3>3, Zenon
  <2>4. HeadAt(s, x)
    <3>1. x \in 1..Len(s)
      BY <1>1, <2>2, Zenon
    <3> QED
      BY <2>3, <3>1, HeadBytes
  <2>5. /\ b[x] = 160
        /\ x + 1 <= z => b[x + 1] \in 4..73
        /\ x + 2 <= z => b[x + 2] = 1
    BY <1>1, <2>4, Zenon DEF HeadAt
  <2>6. CASE x = 4
    <3>1. b[4] = 160
      BY <2>5, <2>6
    <3> QED
      BY <1>4, <3>1
  <2>7. CASE x = 3
    <3>1. x + 1 <= z /\ x + 1 = 4
      BY <1>2, <2>7
    <3>2. b[4] \in 4..73
      BY <2>5, <3>1, Zenon
    <3> QED
      BY <1>4, <3>2, SizesAreNoCodes, Zenon
  <2>8. CASE x = 2
    <3>1. x + 2 <= z /\ x + 2 = 4
      BY <1>2, <2>8
    <3>2. b[4] = 1
      BY <2>5, <3>1, Zenon
    <3> QED
      BY <1>4, <3>2
  <2> QED
    BY <2>2, <2>6, <2>7, <2>8
<1> QED
  BY <1>13, <1>14

-----------------------------------------------------------------------------
(* What Exchange has for the complete frames of the buffer.                *)
HeadsOf(S, D, s, p, w) ==
    /\ Len(p) \in Nat /\ w \in Seq(AllAtoms(S, D)) /\ Len(w) = Len(p)
    /\ \A k \in 1..Len(p) : w[k] = AtomIn(S, D, s[p[k]], "head")

LEMMA WholeForm ==
    ASSUME NEW S, NEW D, NEW s, NEW p, NEW A, Layout(S, D, s, 1, p, A),
           NEW w, w = Atomic!Whole(A)
    PROVE  HeadsOf(S, D, s, p, w)
<1>1. PICK n, l : n = Len(p) /\ l = Len(A)
  OBVIOUS
<1>2. /\ A \in Seq(AllAtoms(S, D)) /\ p \in Seq(Nat)
      /\ l = 2 * n \/ l = 2 * n + 1
      /\ \A k \in 1..n : WholeAt(S, D, s, 1, p[k], A[2 * k - 1])
  BY <1>1 DEF Layout
<1>3. n \in Nat /\ l \in Nat
  BY <1>1, <1>2, LenProperties
<1>4. l \div 2 = n
  BY <1>2, <1>3
<1>5. \A k \in 1..n : 2 * k - 1 \in 1..l
  BY <1>2, <1>3
<1>6. \A k \in 1..n : A[2 * k - 1] \in AllAtoms(S, D)
  BY <1>1, <1>2, <1>5, ElementOfSeq
<1>7. \A k \in 1..n : A[2 * k - 1] = AtomIn(S, D, s[p[k]], "head")
  BY <1>2, Zenon DEF WholeAt
<1>8. w = [k \in 1..n |-> A[2 * k - 1]]
  <2>1. CASE n = 0
    <3>1. [k \in 1..0 |-> A[2 * k - 1]] = <<>>
      OBVIOUS
    <3>2. w = <<>>
      <4>1. w = <<>> \/ w = [k \in 1..(Len(A) \div 2) |-> A[2 * k - 1]]
        BY DEF Atomic!Whole
      <4>2. Len(A) \div 2 = 0
        BY <1>1, <1>4, <2>1
      <4> QED
        BY <3>1, <4>1, <4>2, Zenon
    <3> QED
      BY <2>1, <3>1, <3>2
  <2>2. CASE n # 0
    <3>1. 1 \in 1..n /\ 2 * 1 - 1 = 1 /\ l # 0
      BY <1>2, <1>3, <2>2
    <3>2. A[1] = AtomIn(S, D, s[p[1]], "head")
      BY <1>7, <3>1
    <3>3. A[1].part = "head"
      BY <3>2 DEF AtomIn
    <3>4. A # <<>>
      BY <1>1, <1>2, <3>1, EmptySeq
    <3>5. w = [k \in 1..(Len(A) \div 2) |-> A[2 * k - 1]]
      BY <3>3, <3>4 DEF Atomic!Whole
    <3> QED
      BY <1>1, <1>4, <3>5, Zenon
  <2> QED
    BY <2>1, <2>2
<1>9. w \in [1..n -> AllAtoms(S, D)]
  BY <1>6, <1>8
<1>10. w \in Seq(AllAtoms(S, D)) /\ Len(w) = n
  BY <1>3, <1>9, FunctionIsSeq
<1>11. \A k \in 1..n : w[k] = AtomIn(S, D, s[p[k]], "head")
  BY <1>7, <1>8
<1> QED
  BY <1>1, <1>3, <1>10, <1>11, Zenon DEF HeadsOf

(* There are none where the buffer begins inside a frame.                  *)
LEMMA MidWhole ==
    ASSUME NEW S, NEW D, NEW s, Stream(S, D, s), s = <<>> \/ s[1].i # 1
    PROVE  Atomic!Whole(AtomsIn(S, D, s)) = <<>>
<1>1. CASE s = <<>>
  <2>1. AtomsIn(S, D, s) = <<>>
    BY <1>1, AtomsEmpty
  <2> QED
    BY <2>1 DEF Atomic!Whole
<1>2. CASE s # <<>> /\ s[1].i # 1
  <2>1. PICK z, e, w, i : /\ z = Len(s) /\ e = s[1] /\ w = SizeIn(D, e)
                          /\ i = e.i
    OBVIOUS
  <2>2. s \in Seq(Elem) /\ z \in Nat /\ z # 0
    BY <1>2, <2>1, LenProperties, EmptySeq DEF Stream
  <2>3. z >= 1 /\ 1 \in 1..z
    BY <2>2
  <2>4. Proper(S, D, e)
    BY <2>1, <2>3 DEF Stream
  <2>5. w \in Nat /\ i \in 1..w /\ i # 1 /\ e \in Elem
    <3>1. w \in Nat /\ e \in Elem
      BY <2>1, <2>4, SizeForm
    <3>2. i \in 1..w
      BY <2>1, <2>4, Zenon DEF Proper
    <3> QED
      BY <1>2, <2>1, <3>1, <3>2
  <2>6. Opening(S, D, e) = <<>>
    BY <2>1, <2>5 DEF Opening
  <2>7. CASE i + (z - 1) < w
    <3>1. PICK m : m = z - 1
      OBVIOUS
    <3>2. m \in Nat /\ 1 + m = z /\ 1 + m <= z /\ i + m <= w /\ i + m # w
      BY <2>2, <2>3, <2>5, <2>7, <3>1
    <3>3. Within(D, s, 1, m)
      BY <2>1, <2>3, <3>2, Zenon DEF Within
    <3>4. s = SubSeq(s, 1, 1 + m)
      BY <2>1, <2>2, <3>2, WholePiece
    <3>5. Run(D, s)
      BY <3>3, <3>4, PieceRun DEF PieceOf
    <3>6. AtomsIn(S, D, s) = Opening(S, D, e) \o Closing(S, D, s[z])
      BY <2>1, <3>5, RunAtoms
    <3>7. Closing(S, D, s[z]) = <<>>
      <4>1. SameFrame(s, 1, m)
        BY <3>3, Onward
      <4>2. s[z].q = e.q /\ s[z].k = e.k /\ s[z].i = i + m
        BY <2>1, <3>2, <4>1, Zenon DEF SameFrame
      <4>3. SizeIn(D, s[z]) = w
        BY <2>1, <4>2, Zenon DEF SizeIn
      <4> QED
        BY <3>2, <4>2, <4>3, Zenon DEF Closing
    <3>8. <<>> \o <<>> = <<>>
      OBVIOUS
    <3>9. AtomsIn(S, D, s) = <<>>
      BY <2>6, <3>6, <3>7, <3>8, Zenon
    <3> QED
      BY <3>9 DEF Atomic!Whole
  <2>8. CASE ~(i + (z - 1) < w)
    <3>1. PICK m, n, l : m = w - i /\ n = m + 1 /\ l = z - n
      OBVIOUS
    <3>2. /\ m \in Nat /\ n \in Nat /\ l \in Nat /\ 1 + m <= z
          /\ i + m <= w /\ i + m = w /\ 1 + m = n /\ n + l = z
          /\ 0 + n = n /\ 0 + n + l = z /\ 0 + n + 1 = n + 1 /\ 0 + 1 = 1
          /\ n <= z /\ n \in 1..z
      BY <2>2, <2>3, <2>5, <2>8, <3>1
    <3>3. PICK t, u, g : /\ t = SubSeq(s, 1, n) /\ g = s[n]
                         /\ u = SubSeq(s, n + 1, z)
      OBVIOUS
    <3>4. t \in Seq(Elem)
      <4>1. 0 \in Nat /\ 0 + n <= Len(s) /\ t = SubSeq(s, 0 + 1, 0 + n)
        BY <2>1, <3>2, <3>3
      <4> QED
        BY <2>2, <3>2, <4>1, PieceForm
    <3>5. u \in Seq(Elem)
      <4>1. n + l <= z
        BY <2>2, <3>2
      <4>2. n + l <= Len(s) /\ u = SubSeq(s, n + 1, n + l)
        BY <2>1, <3>2, <3>3, <4>1, Zenon
      <4> QED
        BY <2>2, <3>2, <4>2, PieceForm
    <3>6. s = t \o u
      <4>1. 0 \in Nat /\ 0 + n + l <= Len(s)
        BY <2>1, <2>2, <3>2
      <4>2. SubSeq(s, 0 + 1, 0 + n + l)
              = SubSeq(s, 0 + 1, 0 + n) \o SubSeq(s, 0 + n + 1, 0 + n + l)
        BY <2>2, <3>2, <4>1, PiecesJoin
      <4>3. SubSeq(s, 1, z) = t \o u
        BY <3>2, <3>3, <4>2, Zenon
      <4> QED
        BY <2>1, <2>2, <4>3, WholePiece
    <3>7. Within(D, s, 1, m)
      BY <2>1, <2>3, <3>2, Zenon DEF Within
    <3>8. Run(D, t) /\ t[1] = e /\ t[Len(t)] = g
      <4>1. t = SubSeq(s, 1, 1 + m)
        BY <3>2, <3>3, Zenon
      <4>2. PieceOf(D, s, 1, m, t)
        BY <3>7, <4>1, PieceRun
      <4> QED
        BY <2>1, <3>2, <3>3, <4>2, Zenon DEF PieceOf
    <3>9. PICK y : y = AtomIn(S, D, g, "tail")
      OBVIOUS
    <3>10. Closing(S, D, g) = <<y>>
      <4>1. SameFrame(s, 1, m)
        BY <3>7, Onward
      <4>2. g.q = e.q /\ g.k = e.k /\ g.i = w
        BY <2>1, <3>2, <3>3, <4>1, Zenon DEF SameFrame
      <4>3. SizeIn(D, g) = w
        BY <2>1, <4>2, Zenon DEF SizeIn
      <4> QED
        BY <3>9, <4>2, <4>3, Zenon DEF Closing
    <3>11. y \in AllAtoms(S, D) /\ y.part = "tail"
      <4>1. g \in Elem
        BY <2>1, <2>2, <3>2, <3>3, ElementOfSeq
      <4>2. y \in AllAtoms(S, D)
        BY <3>9, <4>1 DEF AllAtoms
      <4> QED
        BY <3>9, <4>2 DEF AtomIn
    <3>12. AtomsIn(S, D, t) = <<y>>
      <4>1. AtomsIn(S, D, t) = <<>> \o <<y>>
        BY <2>6, <3>8, <3>10, RunAtoms
      <4>2. <<y>> \in Seq(AllAtoms(S, D))
        BY <3>11
      <4> QED
        BY <4>1, <4>2, ConcatEmptySeq
    <3>13. PICK A, B, v : /\ A = AtomsIn(S, D, s) /\ B = AtomsIn(S, D, u)
                          /\ v = <<y>>
      OBVIOUS
    <3>14. A = v \o B
      <4>1. AtomsIn(S, D, t \o u) = AtomsIn(S, D, t) \o AtomsIn(S, D, u)
        BY <3>4, <3>5, AtomsConcat
      <4> QED
        BY <3>6, <3>12, <3>13, <4>1, Zenon
    <3>15. /\ v \in Seq(AllAtoms(S, D)) /\ Len(v) = 1 /\ v[1] = y
           /\ B \in Seq(AllAtoms(S, D))
      <4>1. B \in Seq(AllAtoms(S, D))
        BY <3>5, <3>13, AtomsType
      <4> QED
        BY <3>11, <3>13, <4>1
    <3>16. Joined(A, v, B)
      BY <3>14, <3>15, ConcatJoined
    <3>17. A[1] = y
      <4>1. 1 \in 1..1
        OBVIOUS
      <4> QED
        BY <3>15, <3>16, <4>1 DEF Joined
    <3>18. Atomic!Whole(A) = <<>>
      BY <3>11, <3>17 DEF Atomic!Whole
    <3> QED
      BY <3>13, <3>18, Zenon
  <2> QED
    BY <2>7, <2>8
<1> QED
  BY <1>1, <1>2

-----------------------------------------------------------------------------
(* A frame, and a buffer that has it.                                      *)
LEMMA FrameRead ==
    ASSUME NEW S, NEW D, NEW e, NEW f, NEW d, NEW n, FrameIs(S, D, e, f, d, n)
    PROVE  /\ f \in Seq(Byte) /\ Len(f) = n + 5 /\ f[2] = n + 3
           /\ Complete(f) /\ Checks(f) /\ Data(f) = d
           /\ d \in Seq(Byte) /\ Len(d) = n /\ n \in 1..70
           /\ \A i \in 1..n : f[4 + i] = d[i]
<1>1. /\ f \in Seq(Byte) /\ Len(f) = n + 5 /\ f[2] = n + 3
      /\ f[n + 5] = Checksum(Front(f)) /\ SubSeq(f, 5, n + 4) = d
      /\ d \in Seq(Byte) /\ n = Len(d) /\ n \in 1..70
  BY DEF FrameIs, AnswerShape, GoodData
<1>2. \A x \in 1..70 : /\ (x + 3) + 2 = x + 5 /\ (x + 3) + 1 = x + 4
                       /\ x + 5 >= 2 /\ x + 3 >= 3 /\ x + 5 >= x + 5
                       /\ x \in Nat /\ 4 + x = x + 4 /\ 4 + x <= x + 5
                       /\ 4 + 1 = 5
  OBVIOUS
<1>3. Complete(f) /\ Checks(f) /\ Data(f) = d
  <2>1. Complete(f)
    BY <1>1, <1>2, Zenon DEF Complete
  <2>2. Checks(f)
    BY <1>1, <1>2, Zenon DEF Checks, ChecksumByte
  <2>3. Data(f) = d
    BY <1>1, <1>2, Zenon DEF Data
  <2> QED
    BY <2>1, <2>2, <2>3
<1>4. \A i \in 1..n : d[i] = f[4 + i]
  <2>1. /\ n \in Nat /\ 4 + n <= Len(f) /\ d = SubSeq(f, 4 + 1, 4 + n)
        /\ 4 \in Nat
    BY <1>1, <1>2, Zenon
  <2> QED
    BY <1>1, <2>1, PieceForm
<1> QED
  BY <1>1, <1>3, <1>4, Zenon

(* The frame f begins at b[x], and is in b to its end.                     *)
HasFrame(b, x, f, n) ==
    /\ x \in 1..Len(b) /\ x + (n + 5) <= Len(b) + 1
    /\ \A i \in 1..(n + 5) : b[(x - 1) + i] = f[i]

LEMMA HasFrameAt ==
    ASSUME NEW S, NEW D, NEW s, Stream(S, D, s), NEW x, NEW a,
           WholeAt(S, D, s, 1, x, a), NEW f, NEW d, NEW n,
           FrameIs(S, D, s[x], f, d, n)
    PROVE  HasFrame(Bytes(s), x, f, n)
<1>1. PICK z, b, e : z = Len(s) /\ b = Bytes(s) /\ e = s[x]
  OBVIOUS
<1>2. s \in Seq(Elem) /\ z \in Nat
  BY <1>1, LenProperties DEF Stream
<1>3. Len(b) = z
  BY <1>1, <1>2, BytesForm
<1>4. /\ x \in 1..z /\ e.i = 1 /\ x + SizeIn(D, e) <= z + 1
      /\ f = FrameOf(S, D, e) /\ n \in 1..70 /\ SizeIn(D, e) = n + 5
  BY <1>1, Zenon DEF WholeAt, FrameIs
<1>5. x + (n + 5) <= z + 1
  BY <1>4, Zenon
<1>6. ASSUME NEW i \in 1..(n + 5)
      PROVE  b[(x - 1) + i] = f[i]
  <2>1. PICK m : m = i - 1
    OBVIOUS
  <2>2. /\ m \in Nat /\ x + m = (x - 1) + i /\ 1 + m = i /\ x + m <= z
        /\ 1 + m <= n + 5
    BY <1>2, <1>4, <1>5, <2>1
  <2>3. Within(D, s, x, m)
    BY <1>1, <1>4, <2>2, Zenon DEF Within
  <2>4. Bytes(s)[x + m] = FrameOf(S, D, s[x])[s[x].i + m]
    BY <2>3, ByteAt
  <2> QED
    BY <1>1, <1>4, <2>2, <2>4, Zenon
<1> QED
  BY <1>1, <1>3, <1>4, <1>5, <1>6, Zenon DEF HasFrame

LEMMA PacketForm ==
    ASSUME NEW b \in Seq(Byte), NEW x, NEW S, NEW D, NEW e, NEW f, NEW d,
           NEW n, FrameIs(S, D, e, f, d, n), HasFrame(b, x, f, n)
    PROVE  SubSeq(b, x, x + b[x + 1] + 1) = f
<1>1. /\ f \in Seq(Byte) /\ Len(f) = n + 5 /\ f[2] = n + 3 /\ n \in 1..70
  BY FrameRead
<1>2. PICK z, a, w : z = Len(b) /\ a = x - 1 /\ w = n + 5
  OBVIOUS
<1>3. /\ x \in 1..z /\ z \in Nat /\ x + w <= z + 1
      /\ \A i \in 1..w : b[a + i] = f[i]
  <2>1. z \in Nat
    BY <1>2, LenProperties
  <2> QED
    BY <1>2, <2>1, Zenon DEF HasFrame
<1>4. /\ a \in Nat /\ w \in Nat /\ a + w <= z /\ a + 1 = x /\ 2 \in 1..w
      /\ a + 2 = x + 1 /\ x + (n + 3) + 1 = a + w
  BY <1>1, <1>2, <1>3
<1>5. b[x + 1] = n + 3
  BY <1>1, <1>3, <1>4, Zenon
<1>6. SubSeq(b, a + 1, a + w) = f
  <2>1. /\ a + w <= Len(b) /\ Len(f) = w
        /\ \A i \in 1..w : b[a + i] = f[i]
    BY <1>1, <1>2, <1>3, <1>4, Zenon
  <2> QED
    BY <1>1, <1>4, <2>1, SubSeqIs
<1> QED
  BY <1>4, <1>5, <1>6, Zenon

(* A buffer that begins with a complete frame, of the code x and data d.   *)
OpensWith(b, x, d, n) ==
    /\ Complete(b) /\ ~(Len(b) < 4) /\ b[4] = x /\ b[2] = n + 3
    /\ Data(b) = d

LEMMA OpensForm ==
    ASSUME NEW b \in Seq(Byte), NEW S, NEW D, NEW e, NEW f, NEW d, NEW n,
           FrameIs(S, D, e, f, d, n), HasFrame(b, 1, f, n)
    PROVE  OpensWith(b, CodeIn(S, e), d, n)
<1>1. /\ f \in Seq(Byte) /\ Len(f) = n + 5 /\ f[2] = n + 3 /\ n \in 1..70
      /\ d \in Seq(Byte) /\ Len(d) = n
      /\ \A i \in 1..n : f[4 + i] = d[i]
  BY FrameRead
<1>2. PICK z, w : z = Len(b) /\ w = n + 5
  OBVIOUS
<1>3. z \in Nat /\ 1 + w <= z + 1 /\ \A i \in 1..w : b[(1 - 1) + i] = f[i]
  <2>1. z \in Nat
    BY <1>2, LenProperties
  <2> QED
    BY <1>2, <2>1, Zenon DEF HasFrame
<1>4. /\ w \in Nat /\ w <= z /\ 2 \in 1..w /\ 4 \in 1..w
      /\ \A i \in 1..w : (1 - 1) + i = i
      /\ \A i \in 1..n : 4 + i \in 1..w
      /\ n \in Nat /\ 4 \in Nat /\ 4 + n <= z /\ 4 + 1 = 5
      /\ (n + 3) + 1 = 4 + n /\ z >= 2 /\ n + 3 >= 3 /\ (n + 3) + 2 = w
      /\ z >= w /\ ~(z < 4)
  BY <1>1, <1>2, <1>3
<1>5. \A i \in 1..w : b[i] = f[i]
  BY <1>3, <1>4, Zenon
<1>6. b[2] = n + 3 /\ b[4] = CodeIn(S, e)
  <2>1. f[4] = CodeIn(S, e)
    BY DEF FrameIs, AnswerShape
  <2> QED
    BY <1>1, <1>4, <1>5, <2>1, Zenon
<1>7. Complete(b)
  BY <1>2, <1>4, <1>6, Zenon DEF Complete
<1>8. SubSeq(b, 4 + 1, 4 + n) = d
  <2>1. \A i \in 1..n : b[4 + i] = d[i]
    BY <1>1, <1>4, <1>5, Zenon
  <2>2. 4 + n <= Len(b)
    BY <1>2, <1>4, Zenon
  <2> QED
    BY <1>1, <1>4, <2>1, <2>2, SubSeqIs
<1>9. Data(b) = d
  BY <1>4, <1>6, <1>8, Zenon DEF Data
<1> QED
  BY <1>2, <1>4, <1>6, <1>7, <1>9, Zenon DEF OpensWith

(* A frame that is not there to its end is not parsed.                     *)
LEMMA CutUnparsed ==
    ASSUME NEW S, NEW D, NEW s, Stream(S, D, s), s # <<>>, s[1].i = 1,
           1 + SizeIn(D, s[1]) > Len(s) + 1, NEW c
    PROVE  Outcome(Bytes(s), c) = Unparsed
<1>1. PICK z, b, e : z = Len(s) /\ b = Bytes(s) /\ e = s[1]
  OBVIOUS
<1>2. s \in Seq(Elem) /\ z \in Nat /\ z # 0
  BY <1>1, LenProperties, EmptySeq DEF Stream
<1>3. Len(b) = z
  BY <1>1, <1>2, BytesForm
<1>4. 1 \in 1..z
  BY <1>2
<1>5. Proper(S, D, e)
  BY <1>1, <1>4 DEF Stream
<1>6. PICK f, d, n : FrameIs(S, D, e, f, d, n)
  BY <1>5, FrameForm
<1>7. f = FrameOf(S, D, e) /\ n \in 1..70 /\ SizeIn(D, e) = n + 5
      /\ f[2] = n + 3
  BY <1>6 DEF FrameIs, AnswerShape
<1>8. n + 5 > z
  <2>1. 1 + (n + 5) > z + 1
    BY <1>1, <1>7, Zenon
  <2> QED
    BY <1>2, <1>7, <2>1
<1>9. CASE z < 4
  BY <1>1, <1>3, <1>9 DEF Outcome
<1>10. CASE ~(z < 4)
  <2>1. 1 \in Nat /\ 1 + 1 = 2 /\ 1 + 1 <= z /\ 1 + 1 <= n + 5
        /\ (n + 3) + 2 = n + 5 /\ ~(z >= n + 5)
    BY <1>2, <1>7, <1>8, <1>10
  <2>2. Within(D, s, 1, 1)
    BY <1>1, <1>4, <1>7, <2>1, Zenon DEF Within
  <2>3. Bytes(s)[1 + 1] = FrameOf(S, D, s[1])[s[1].i + 1]
    BY <2>2, ByteAt
  <2>4. b[2] = n + 3
    BY <1>1, <1>7, <2>1, <2>3, Zenon
  <2>5. ~Complete(b)
    BY <1>3, <2>1, <2>4, Zenon DEF Complete
  <2> QED
    BY <1>1, <2>5, Zenon DEF Outcome
<1> QED
  BY <1>9, <1>10

(* A buffer that opens with a complete frame f, of the data d: p, where    *)
(* its complete frames begin, A, its atoms, and w, the heads of p.         *)
Opened(S, D, s, b, p, A, w, f, d, n) ==
    /\ Stream(S, D, s) /\ Proper(S, D, s[1])
    /\ b = Bytes(s) /\ b \in Seq(Byte) /\ Len(b) = Len(s)
    /\ FrameIs(S, D, s[1], f, d, n) /\ HasFrame(b, 1, f, n)
    /\ OpensWith(b, CodeIn(S, s[1]), d, n)
    /\ p = PacketStarts(b) /\ Layout(S, D, s, 1, p, A)
    /\ Len(p) \in Nat /\ 1 \in 1..Len(p) /\ p[1] = 1
    /\ w = Atomic!Whole(A) /\ HeadsOf(S, D, s, p, w)
    /\ w # <<>> /\ w[1].cmd = S[s[1].q].op /\ w[1].shape = ShapeOf(n)
    /\ w[1] = AtomIn(S, D, s[1], "head")

LEMMA OpenedBuffer ==
    ASSUME NEW S, NEW D, NEW s, Stream(S, D, s), s # <<>>, s[1].i = 1,
           ~(1 + SizeIn(D, s[1]) > Len(s) + 1), NEW A, A = AtomsIn(S, D, s)
    PROVE  \E b, p, w, f, d, n : Opened(S, D, s, b, p, A, w, f, d, n)
<1>1. PICK z, b, e : z = Len(s) /\ b = Bytes(s) /\ e = s[1]
  OBVIOUS
<1>2. s \in Seq(Elem) /\ z \in Nat /\ z # 0
  BY <1>1, LenProperties, EmptySeq DEF Stream
<1>3. b \in Seq(Byte) /\ Len(b) = z
  BY <1>1, <1>2, BytesForm
<1>4. 1 \in 1..z /\ 1 \in 1..(z + 1) /\ 1 # z + 1 /\ 1 >= 1
  BY <1>2
<1>5. Proper(S, D, e)
  BY <1>1, <1>4 DEF Stream
<1>6. PICK f, d, n : FrameIs(S, D, e, f, d, n)
  BY <1>5, FrameForm
<1>7. PICK g : Starts(b, g) /\ PacketStarts(b) = g[1]
  BY <1>3, StartsOf
<1>8. PICK p : p = PacketStarts(b)
  OBVIOUS
<1>9. Layout(S, D, s, 1, p, A)
  <2>1. Layout(S, D, s, 1, g[1], AtomsFrom(S, D, s, 1))
    BY <1>1, <1>4, <1>7, StartsLayout
  <2>2. SubSeq(s, 1, Len(s)) = s
    BY <1>2, WholePiece
  <2> QED
    BY <1>7, <1>8, <2>1, <2>2, Zenon DEF AtomsFrom
<1>10. /\ p \in Seq(Nat)
       /\ Len(p) > 0 => p[1] = 1
       /\ Len(p) # 0
  BY <1>1, <1>4, <1>9, Zenon DEF Layout
<1>11. Len(p) \in Nat
  BY <1>10, LenProperties
<1>12. 1 \in 1..Len(p) /\ Len(p) > 0
  BY <1>10, <1>11
<1>13. PICK w : w = Atomic!Whole(A)
  OBVIOUS
<1>14. HeadsOf(S, D, s, p, w)
  BY <1>9, <1>13, WholeForm
<1>15. w \in Seq(AllAtoms(S, D)) /\ Len(w) = Len(p)
       /\ w[1] = AtomIn(S, D, s[1], "head")
  BY <1>10, <1>12, <1>14 DEF HeadsOf
<1>16. w # <<>>
  BY <1>10, <1>15, EmptySeq
<1>17. n = Len(D[e.q].data[e.k]) /\ SizeIn(D, e) = n + 5 /\ n \in 1..70
  BY <1>6 DEF FrameIs, DataOf
<1>18. w[1].cmd = S[e.q].op /\ w[1].shape = ShapeOf(n)
  <2>1. w[1] = AtomIn(S, D, e, "head")
    BY <1>1, <1>15, Zenon
  <2>2. PICK x : x = ShapeOf(Len(D[e.q].data[e.k]))
    OBVIOUS
  <2>3. w[1].cmd = S[e.q].op /\ w[1].shape = x
    BY <2>1, <2>2 DEF AtomIn
  <2> QED
    BY <1>17, <2>2, <2>3, Zenon
<1>19. HasFrame(b, 1, f, n)
  <2>1. 1 + SizeIn(D, e) <= z + 1
    <3>1. ~(1 + (n + 5) > z + 1)
      BY <1>1, <1>17, Zenon
    <3>2. 1 + (n + 5) <= z + 1
      BY <1>2, <1>17, <3>1
    <3> QED
      BY <1>17, <3>2, Zenon
  <2>2. WholeAt(S, D, s, 1, 1, AtomIn(S, D, s[1], "head"))
    BY <1>1, <1>4, <2>1, Zenon DEF WholeAt
  <2>3. FrameIs(S, D, s[1], f, d, n)
    BY <1>1, <1>6, Zenon
  <2>4. HasFrame(Bytes(s), 1, f, n)
    BY <2>2, <2>3, HasFrameAt
  <2> QED
    BY <1>1, <2>4, Zenon
<1>20. OpensWith(b, CodeIn(S, e), d, n)
  BY <1>3, <1>6, <1>19, OpensForm
<1>21. Opened(S, D, s, b, p, A, w, f, d, n)
  BY <1>1, <1>3, <1>5, <1>6, <1>8, <1>9, <1>10, <1>11, <1>12, <1>13, <1>14,
     <1>15, <1>16, <1>18, <1>19, <1>20, Zenon DEF Opened
<1> QED
  BY <1>21

-----------------------------------------------------------------------------
(* What reading the buffer comes to: o, the outcome of the bytes, is one   *)
(* that Exchange has for the atoms, and the frames taken are the same.     *)
TakenIn(S, D, s, c) ==
    LET starts == PacketStarts(Bytes(s))
        frames == IF c.op \in Inventories THEN starts ELSE <<1>>
    IN [k \in DOMAIN frames |-> AtomIn(S, D, s[frames[k]], "head")]

ReadAs(S, D, s, c, A, o) ==
    /\ o.is \in {"unparsed", "panic", "value", "error"}
    /\ o.is = "unparsed" => ~Atomic!Settled(A, c.op)
    /\ o.is = "panic" => Atomic!ParsePanics(A, c.op)
    /\ o.is \in {"value", "error"} =>
         /\ Atomic!Parses(A, c.op)
         /\ TakenIn(S, D, s, c) = Atomic!Content(A, c.op)

LEMMA KindOf ==
    ASSUME NEW c \in Requests
    PROVE  /\ c.op \in Ops
           /\ c.op \in Atomic!Inventory <=> c.op \in Inventories
           /\ c.op \in Ops \cap {"GetFirmwareVersion"}
                <=> c.op = "GetFirmwareVersion"
           /\ c.op \in Ops \cap {"GetFrequencyRegion"}
                <=> c.op = "GetFrequencyRegion"
           /\ c.op \in Ops \cap {"FastSwitchAntInventory"}
                <=> c.op = "FastSwitchAntInventory"
<1>1. c.op \in Ops
  BY DEF Ops
<1> QED
  BY <1>1 DEF Atomic!Inventory, Inventories

(* Where nothing whole of the command opens the buffer, the call goes on.  *)
LEMMA NoMatch ==
    ASSUME NEW S, NEW D, NEW s, NEW c, NEW A, NEW o, o.is = "unparsed",
           ~Atomic!Matches(Atomic!Whole(A), c.op)
    PROVE  ReadAs(S, D, s, c, A, o)
<1>1. o.is = "unparsed"
  OBVIOUS
<1>2. ~Atomic!EndsInTotal(A, c.op) /\ ~Atomic!ParsesAsSimple(A, c.op)
  BY DEF Atomic!EndsInTotal, Atomic!ParsesAsSimple
<1>3. ~Atomic!Parses(A, c.op) /\ ~Atomic!ParsePanics(A, c.op)
  BY <1>2 DEF Atomic!Parses, Atomic!ParsesAsInventory, Atomic!ParsePanics
<1>4. ~Atomic!Settled(A, c.op)
  BY <1>2, <1>3 DEF Atomic!Settled
<1> QED
  BY <1>1, <1>4 DEF ReadAs

LEMMA OneFrameAnswer ==
    ASSUME NEW c, c.op \in OneFrameOps, NEW a \in Answers(c)
    PROVE  \E d : OneFrame(a, c.op, d)
<1>1. CASE a = Fail
  BY <1>1, RefusalForm
<1>2. CASE \E d, v : /\ a = Says(<<d>>, v) /\ Answer(c.op, d, v)
                     /\ c.op = "SetBeeperMode" => v = Value(c.args)
  <2>1. PICK d, v : a = Says(<<d>>, v) /\ Answer(c.op, d, v)
    BY <1>2
  <2>2. PICK op : op = c.op
    OBVIOUS
  <2>3. \A e : e.op = op => Decoded(op, d, v, e)
    BY <2>1, <2>2, AnswerDecoded
  <2>4. Decoded(op, d, v, c)
    BY <2>2, <2>3
  <2>5. /\ GoodData(op, d)
        /\ op # "GetFrequencyRegion" => Len(d) \in {1, 2, 4}
        /\ op = "GetFrequencyRegion" => Len(d) \in {3, 6}
        /\ op = "GetFirmwareVersion" => Len(d) # 1
    BY <2>4 DEF Decoded
  <2>6. a.data = <<d>>
    BY <2>1 DEF Says
  <2>7. ShapeOf(Len(d)) \in {"status", "block"} \cup
            (IF op = "GetFrequencyRegion" THEN {"short"}
             ELSE {"pair", "brief"})
    BY <2>5 DEF ShapeOf
  <2>8. ASSUME NEW e, e.op = op
        PROVE  Decode(e, Len(d) + 3, d).is \in {"value", "error"}
    <3>1. Decoded(op, d, v, e)
      BY <2>3, <2>8
    <3>2. CASE op = "SetBeeperMode"
      <4>1. Decode(e, Len(d) + 3, d) = Value(e.args)
        BY <3>1, <3>2 DEF Decoded
      <4> QED
        BY <4>1 DEF Value
    <3>3. CASE op # "SetBeeperMode"
      BY <3>1, <3>3 DEF Decoded
    <3> QED
      BY <3>2, <3>3
  <2>9. /\ op = "GetFirmwareVersion" => Len(d) # 1
        /\ op = "GetFrequencyRegion" => Len(d) # 1
    BY <2>5
  <2>10. OneFrame(a, op, d)
    BY <2>5, <2>6, <2>7, <2>8, <2>9, Zenon DEF OneFrame
  <2> QED
    BY <2>2, <2>10
<1> QED
  BY <1>1, <1>2, AnswersCases

LEMMA ShapeForm ==
    ASSUME NEW n \in 1..70, NEW h, h = ShapeOf(n)
    PROVE  /\ h = "status" <=> n = 1
           /\ h = "pair" <=> n = 2
           /\ h = "brief" <=> n \in {4, 5}
           /\ h = "total" <=> n = 7
           /\ h = "block" <=> n \notin {1, 2, 3, 4, 5, 7}
<1>1. CASE n = 1
  BY <1>1 DEF ShapeOf
<1>2. CASE n = 2
  BY <1>2 DEF ShapeOf
<1>3. CASE n = 3
  BY <1>3 DEF ShapeOf
<1>4. CASE n \in {4, 5}
  BY <1>4 DEF ShapeOf
<1>5. CASE n = 7
  BY <1>5 DEF ShapeOf
<1>6. CASE n \notin {1, 2, 3, 4, 5, 7}
  BY <1>6 DEF ShapeOf
<1> QED
  BY <1>1, <1>2, <1>3, <1>4, <1>5, <1>6

(* An answer of one frame: it is parsed for what it says, or by no means.  *)
LEMMA ReadSimple ==
    ASSUME NEW S, NEW D, NEW s, NEW b, NEW p, NEW A, NEW w, NEW f, NEW d,
           NEW n, Opened(S, D, s, b, p, A, w, f, d, n),
           NEW c \in Requests, c.op \notin Inventories
    PROVE  ReadAs(S, D, s, c, A, Outcome(b, c))
<1>1. PICK e, r, op, o : /\ e = s[1] /\ r = S[e.q] /\ op = c.op
                         /\ o = Outcome(b, c)
  OBVIOUS
<1>2. /\ r \in Requests /\ D[e.q] \in Answers(r) /\ n \in 1..70
      /\ d = D[e.q].data[e.k] /\ e.k \in 1..Len(D[e.q].data) /\ n = Len(d)
      /\ OpensWith(b, Code[r.op], d, n)
      /\ w = Atomic!Whole(A) /\ w # <<>> /\ w[1].cmd = r.op
      /\ w[1].shape = ShapeOf(n)
      /\ w[1] = AtomIn(S, D, e, "head")
  BY <1>1 DEF Opened, Proper, FrameIs, DataOf, CodeIn
<1>3. /\ op \in OneFrameOps \cup Inventories
      /\ r.op \in OneFrameOps \cup Inventories /\ op \in OneFrameOps
  BY <1>1, <1>2, OpsOfRequests
<1>4. /\ op \notin Atomic!Inventory
      /\ op \in Ops \cap {"GetFirmwareVersion"} <=> op = "GetFirmwareVersion"
      /\ op \in Ops \cap {"GetFrequencyRegion"} <=> op = "GetFrequencyRegion"
  BY <1>1, KindOf
<1>5. CASE r.op # op
  <2>1. Code[r.op] # Code[op]
    BY <1>3, <1>5, CodesDiffer
  <2>2. o = Unparsed
    BY <1>1, <1>2, <2>1 DEF Outcome, OpensWith
  <2>3. ~Atomic!Matches(Atomic!Whole(A), op)
    BY <1>2, <1>5 DEF Atomic!Matches
  <2> QED
    BY <1>1, <2>2, <2>3, NoMatch DEF Unparsed
<1>6. CASE r.op = op
  <2>1. PICK h : OneFrame(D[e.q], op, h)
    BY <1>2, <1>3, <1>6, OneFrameAnswer
  <2>2. h = d
    <3>1. D[e.q].data = <<h>> /\ Len(<<h>>) = 1 /\ <<h>>[1] = h
      BY <2>1 DEF OneFrame
    <3>2. e.k = 1
      BY <1>2, <3>1
    <3> QED
      BY <1>2, <3>1, <3>2
  <2>3. PICK v : v = Decode(c, n + 3, d)
    OBVIOUS
  <2>4. /\ op = "GetFirmwareVersion" /\ n = 1 => v = Panics
        /\ op = "GetFrequencyRegion" /\ n = 1 => v = Unparsed
        /\ ~(op \in {"GetFirmwareVersion", "GetFrequencyRegion"} /\ n = 1)
             => v.is \in {"value", "error"}
    BY <1>1, <1>2, <2>1, <2>2, <2>3, Zenon DEF OneFrame
  <2>5. o = IF Checks(b) THEN v ELSE Unparsed
    BY <1>1, <1>2, <1>6, <2>3 DEF Outcome, OpensWith
  <2>6. w[1].shape = "status" <=> n = 1
    BY <1>2, ShapeForm
  <2>7. Atomic!Matches(w, op)
    BY <1>2, <1>6 DEF Atomic!Matches
  <2>8. Atomic!Parses(A, op)
          <=> ~(op \in {"GetFirmwareVersion", "GetFrequencyRegion"} /\ n = 1)
    BY <1>2, <1>4, <2>6, <2>7 DEF Atomic!Parses, Atomic!ParsesAsSimple
  <2>9. Atomic!ParsePanics(A, op) <=> op = "GetFirmwareVersion" /\ n = 1
    BY <1>2, <1>4, <2>6, <2>7 DEF Atomic!ParsePanics
  <2>10. Atomic!Settled(A, op) => Checks(b)
    <3> SUFFICES ASSUME Atomic!Settled(A, op)
                 PROVE  Checks(b)
      OBVIOUS
    <3>1. Len(A) = 2
      BY <1>4 DEF Atomic!Settled
    <3>2. 1 + SizeIn(D, s[1]) = Len(s) + 1
      <4>1. Layout(S, D, s, 1, p, A)
        BY DEF Opened
      <4> QED
        BY <3>1, <4>1, Zenon DEF Layout
    <3>3. FrameIs(S, D, e, f, d, n) /\ HasFrame(b, 1, f, n)
          /\ b \in Seq(Byte) /\ Len(b) = Len(s)
      BY <1>1 DEF Opened
    <3>4. PICK z : z = Len(b)
      OBVIOUS
    <3>5. z = n + 5
      <4>1. 1 + (n + 5) = z + 1
        BY <1>1, <3>2, <3>3, <3>4, Zenon DEF FrameIs
      <4>2. z \in Nat
        BY <3>3, <3>4, LenProperties
      <4>3. n \in Nat
        <5>1. \A i \in 1..70 : i \in Nat
          OBVIOUS
        <5> QED
          BY <1>2, <5>1, Zenon
      <4>4. \A i, j \in Nat : 1 + (i + 5) = j + 1 => j = i + 5
        OBVIOUS
      <4> QED
        BY <4>1, <4>2, <4>3, <4>4, Zenon
    <3>6. SubSeq(b, 1, 1 + b[1 + 1] + 1) = f
      BY <3>3, PacketForm
    <3>7. b[2] = n + 3 /\ 1 + (n + 3) + 1 = n + 5 /\ 1 + 1 = 2
      BY <1>2 DEF OpensWith
    <3>8. SubSeq(b, 1, Len(b)) = b
      BY <3>3, WholePiece
    <3>9. b = f
      BY <3>4, <3>5, <3>6, <3>7, <3>8, Zenon
    <3> QED
      BY <3>3, <3>9, FrameRead
  <2>11. Atomic!Settled(A, op) =>
             Atomic!Parses(A, op) \/ Atomic!ParsePanics(A, op)
    BY <1>4 DEF Atomic!Settled
  <2>12. o.is \in {"unparsed", "panic", "value", "error"}
    BY <2>4, <2>5 DEF Panics, Unparsed
  <2>13. o.is = "unparsed" => ~Atomic!Settled(A, op)
    <3> SUFFICES ASSUME o.is = "unparsed", Atomic!Settled(A, op)
                 PROVE  FALSE
      OBVIOUS
    <3>1. v.is = "unparsed"
      BY <2>5, <2>10
    <3>2. op = "GetFrequencyRegion" /\ n = 1
      BY <2>4, <3>1 DEF Panics
    <3> QED
      BY <2>8, <2>9, <2>11, <3>2
  <2>14. o.is = "panic" => Atomic!ParsePanics(A, op)
    BY <2>4, <2>5, <2>9 DEF Unparsed
  <2>15. o.is \in {"value", "error"} => Atomic!Parses(A, op)
    BY <2>4, <2>5, <2>8 DEF Unparsed, Panics
  <2>16. TakenIn(S, D, s, c) = Atomic!Content(A, op)
    <3>1. TakenIn(S, D, s, c) = <<AtomIn(S, D, e, "head")>>
      <4>1. PICK g : g = <<1>>
        OBVIOUS
      <4>2. TakenIn(S, D, s, c)
              = [k \in DOMAIN g |-> AtomIn(S, D, s[g[k]], "head")]
        BY <4>1 DEF TakenIn
      <4>3. DOMAIN g = 1..1 /\ g[1] = 1 /\ \A k \in 1..1 : k = 1
        BY <4>1
      <4>4. [k \in 1..1 |-> AtomIn(S, D, s[g[k]], "head")]
              = [k \in 1..1 |-> AtomIn(S, D, e, "head")]
        BY <1>1, <4>3, Zenon
      <4>5. \A x : [k \in 1..1 |-> x] = <<x>>
        OBVIOUS
      <4> QED
        BY <4>2, <4>3, <4>4, <4>5, Zenon
    <3>2. Atomic!Content(A, op) = <<w[1]>>
      BY <1>2, <1>4 DEF Atomic!Content
    <3> QED
      BY <1>2, <3>1, <3>2, Zenon
  <2> QED
    BY <1>1, <2>12, <2>13, <2>14, <2>15, <2>16, Zenon DEF ReadAs
<1> QED
  BY <1>5, <1>6

-----------------------------------------------------------------------------
(* What a frame of an inventory is read for, by the shape of its head.     *)
ReadFor(c, packet, x, shape, sender) ==
    /\ x.is \in {"value", "panic", "unparsed"}
    /\ packet[2] = 10 <=> shape = "total"
    /\ shape = "total" => x.is = "value"
    /\ x.is = "unparsed" => shape = "pair" /\ c.op = "FastSwitchAntInventory"
    /\ x.is = "panic" =>
         /\ shape \notin {"block", "total"}
         /\ ~(shape = "pair" /\ sender = c.op
                /\ c.op = "FastSwitchAntInventory")
    /\ x.is = "value" => shape \in {"block", "brief", "total"}

LEMMA FrameIsRead ==
    ASSUME NEW S, NEW D, NEW e, NEW f, NEW d, NEW n, FrameIs(S, D, e, f, d, n),
           NEW c, c.op \in Inventories
    PROVE  ReadFor(c, f, FrameOutcome(f, c), ShapeOf(n), S[e.q].op)
<1>1. PICK x, h, r : x = FrameOutcome(f, c) /\ h = ShapeOf(n) /\ r = S[e.q].op
  OBVIOUS
<1>2. /\ f[2] = n + 3 /\ Complete(f) /\ Checks(f) /\ Data(f) = d
      /\ n \in 1..70 /\ Len(d) = n /\ GoodData(r, d) /\ d \in Seq(Byte)
  <2>1. /\ f[2] = n + 3 /\ Complete(f) /\ Checks(f) /\ Data(f) = d
        /\ n \in 1..70 /\ Len(d) = n /\ d \in Seq(Byte)
    BY FrameRead
  <2>2. GoodData(r, d)
    BY <1>1 DEF FrameIs
  <2> QED
    BY <2>1, <2>2, Zenon
<1>3. /\ h = "status" <=> n = 1
      /\ h = "pair" <=> n = 2
      /\ h = "brief" <=> n \in {4, 5}
      /\ h = "total" <=> n = 7
      /\ h = "block" <=> n \notin {1, 2, 3, 4, 5, 7}
  BY <1>1, <1>2, ShapeForm
<1>4. /\ f[2] = 10 <=> n = 7
      /\ f[2] = 5 <=> n = 2
  <2>1. \A m \in 1..70 : (m + 3 = 10 <=> m = 7) /\ (m + 3 = 5 <=> m = 2)
    OBVIOUS
  <2> QED
    BY <1>2, <2>1, Zenon
<1>5. x = IF n = 7 THEN Value(TotalOf(d, c))
          ELSE IF n = 2 /\ c.op = "FastSwitchAntInventory"
          THEN IF d[2] \in ErrorCodes \cup {Success} THEN Unparsed ELSE Panics
          ELSE IF IsTag(d, c) THEN Value(TagOf(d, c)) ELSE Panics
  BY <1>1, <1>2, <1>4, Zenon DEF FrameOutcome
<1>6. PICK u, v : u = TotalOf(d, c) /\ v = TagOf(d, c)
  OBVIOUS
<1>7. Value(u).is = "value" /\ Value(v).is = "value"
      /\ Unparsed.is = "unparsed" /\ Panics.is = "panic"
  BY DEF Value, Unparsed, Panics
<1>8. CASE n = 7
  <2>1. x.is = "value" /\ h = "total"
    BY <1>3, <1>5, <1>6, <1>7, <1>8
  <2> QED
    BY <1>1, <1>3, <1>4, <1>8, <2>1 DEF ReadFor
<1>9. CASE n = 2 /\ c.op = "FastSwitchAntInventory"
  <2>1. h = "pair" /\ n # 7
    BY <1>3, <1>9
  <2>2. r = "FastSwitchAntInventory" => d[2] \in ErrorCodes
    BY <1>2, <1>9 DEF GoodData
  <2>3. x = IF d[2] \in ErrorCodes \cup {Success} THEN Unparsed ELSE Panics
    BY <1>5, <1>9
  <2>4. /\ x.is = "unparsed" \/ x.is = "panic"
        /\ x.is = "panic" => r # "FastSwitchAntInventory"
    BY <1>7, <2>2, <2>3
  <2> QED
    BY <1>1, <1>3, <1>4, <1>9, <2>1, <2>4 DEF ReadFor
<1>10. CASE n # 7 /\ ~(n = 2 /\ c.op = "FastSwitchAntInventory")
  <2>1. x = IF IsTag(d, c) THEN Value(v) ELSE Panics
    BY <1>5, <1>6, <1>10
  <2>2. /\ x.is = "value" \/ x.is = "panic"
        /\ x.is = "value" <=> IsTag(d, c)
    BY <1>7, <2>1
  <2>3. ~(h = "pair" /\ c.op = "FastSwitchAntInventory")
    BY <1>3, <1>10
  <2>4. PICK y : y = AfterEpc(c)
    OBVIOUS
  <2>5. y = 1 \/ y = 3
    BY <2>4 DEF AfterEpc
  <2>6. IsTag(d, c) => h \in {"block", "brief", "total"}
    <3>1. IsTag(d, c) => n >= 3 + y
      BY <1>2, <2>4 DEF IsTag
    <3>2. n \in {1, 2, 3} => ~(n >= 3 + y)
      BY <2>5
    <3>3. n \notin {1, 2, 3} => h \in {"block", "brief", "total"}
      BY <1>3
    <3> QED
      BY <3>1, <3>2, <3>3
  <2>7. h = "block" => IsTag(d, c)
    <3> SUFFICES ASSUME h = "block"
                 PROVE  IsTag(d, c)
      OBVIOUS
    <3>1. n \notin {1, 2, 3, 4, 5, 7}
      BY <1>3
    <3>2. n >= 3 + y
      BY <1>2, <2>5, <3>1
    <3>3. d[1] \div 4 \in Params
      BY <1>2, <3>1 DEF GoodData
    <3> QED
      BY <1>2, <2>4, <3>2, <3>3, Zenon DEF IsTag
  <2>8. h # "total"
    BY <1>3, <1>10
  <2> QED
    BY <1>1, <1>3, <1>4, <1>10, <2>2, <2>3, <2>6, <2>7, <2>8 DEF ReadFor
<1> QED
  BY <1>8, <1>9, <1>10

LEMMA PacketRead ==
    ASSUME NEW S, NEW D, NEW s, NEW b, NEW p, NEW A, NEW w, NEW f, NEW d,
           NEW n, Opened(S, D, s, b, p, A, w, f, d, n),
           NEW c, c.op \in Inventories, NEW k \in 1..Len(p)
    PROVE  ReadFor(c, Packets(b)[k], FrameOutcome(Packets(b)[k], c),
                   w[k].shape, w[k].cmd)
<1>1. /\ Stream(S, D, s) /\ b = Bytes(s) /\ b \in Seq(Byte)
      /\ p = PacketStarts(b) /\ Layout(S, D, s, 1, p, A)
      /\ HeadsOf(S, D, s, p, w)
  BY DEF Opened
<1>2. PICK x, e : x = p[k] /\ e = s[x]
  OBVIOUS
<1>3. WholeAt(S, D, s, 1, x, A[2 * k - 1])
  BY <1>1, <1>2 DEF Layout
<1>4. Proper(S, D, e)
  <2>1. x \in 1..Len(s)
    BY <1>3 DEF WholeAt
  <2> QED
    BY <1>1, <1>2, <2>1 DEF Stream
<1>5. PICK g, u, m : FrameIs(S, D, e, g, u, m)
  BY <1>4, FrameForm
<1>6. HasFrame(b, x, g, m)
  <2>1. FrameIs(S, D, s[x], g, u, m)
    BY <1>2, <1>5, Zenon
  <2> QED
    BY <1>1, <1>3, <2>1, HasFrameAt
<1>7. SubSeq(b, x, x + b[x + 1] + 1) = g
  BY <1>1, <1>5, <1>6, PacketForm
<1>8. Packets(b)[k] = g
  <2>1. DOMAIN p = 1..Len(p)
    <3>1. p \in Seq(Nat)
      BY <1>1 DEF Layout
    <3> QED
      BY <3>1, LenProperties
  <2>2. Packets(b)[k] = SubSeq(b, p[k], p[k] + b[p[k] + 1] + 1)
    BY <1>1, <2>1 DEF Packets
  <2> QED
    BY <1>2, <1>7, <2>2, Zenon
<1>9. w[k] = AtomIn(S, D, e, "head")
  BY <1>1, <1>2 DEF HeadsOf
<1>10. m = Len(D[e.q].data[e.k])
  BY <1>5 DEF FrameIs, DataOf
<1>11. w[k].shape = ShapeOf(m) /\ w[k].cmd = S[e.q].op
  BY <1>9, <1>10 DEF AtomIn
<1>12. ReadFor(c, g, FrameOutcome(g, c), ShapeOf(m), S[e.q].op)
  BY <1>5, FrameIsRead
<1> QED
  BY <1>8, <1>11, <1>12, Zenon

EndsWith(P, x, stops, totals, o) ==
    \E v : o = IF P[Len(P)][2] # 10 THEN Unparsed
               ELSE IF stops # {} THEN x[Max(stops)]
               ELSE IF totals = {} THEN Panics ELSE Value(v)

LEMMA ParseTagsForm ==
    ASSUME NEW b, NEW c, NEW P, P = Packets(b), P # <<>>,
           NEW x, x = [k \in DOMAIN P |-> FrameOutcome(P[k], c)],
           NEW stops, stops = {k \in DOMAIN P : x[k].is # "value"},
           NEW totals, totals = {k \in DOMAIN P : P[k][2] = 10}
    PROVE  EndsWith(P, x, stops, totals, ParseTags(b, c))
<1>1. PICK tags : tags = SelectedBack(x, DOMAIN P \ totals)
  OBVIOUS
<1>2. PICK v : v = <<x[Min(totals)].value,
                     [k \in DOMAIN tags |-> tags[k].value]>>
  OBVIOUS
<1>3. PICK y : y = ParseTags(b, c)
  OBVIOUS
<1>4. y = IF P # <<>> /\ TooSoon(Last(P)) THEN Unparsed
          ELSE IF stops # {} THEN x[Max(stops)]
          ELSE IF totals = {} THEN Panics ELSE Value(v)
  BY <1>1, <1>2, <1>3 DEF ParseTags
<1>5. P # <<>> /\ TooSoon(Last(P)) <=> P[Len(P)][2] # 10
  BY DEF TooSoon, Last
<1> QED
  BY <1>3, <1>4, <1>5, Zenon DEF EndsWith

(* An inventory: the frames of the buffer are gone through from the last.  *)
LEMMA ReadInventory ==
    ASSUME NEW S, NEW D, NEW s, NEW b, NEW p, NEW A, NEW w, NEW f, NEW d,
           NEW n, Opened(S, D, s, b, p, A, w, f, d, n),
           NEW c \in Requests, c.op \in Inventories
    PROVE  ReadAs(S, D, s, c, A, Outcome(b, c))
<1>1. PICK e, r, op, o, N : /\ e = s[1] /\ r = S[e.q] /\ op = c.op
                            /\ o = Outcome(b, c) /\ N = Len(p)
  OBVIOUS
<1>2. /\ r \in Requests /\ D[e.q] \in Answers(r) /\ n \in 1..70
      /\ d = D[e.q].data[e.k] /\ e.k \in 1..Len(D[e.q].data) /\ n = Len(d)
      /\ OpensWith(b, Code[r.op], d, n)
      /\ w = Atomic!Whole(A) /\ w # <<>> /\ w[1].cmd = r.op
      /\ w[1].shape = ShapeOf(n)
  BY <1>1 DEF Opened, Proper, FrameIs, DataOf, CodeIn
<1>3. /\ op \in OneFrameOps \cup Inventories
      /\ r.op \in OneFrameOps \cup Inventories
  BY <1>1, <1>2, OpsOfRequests
<1>4. /\ op \in Atomic!Inventory
      /\ op \in Ops \cap {"FastSwitchAntInventory"}
           <=> op = "FastSwitchAntInventory"
      /\ op \notin Ops \cap {"GetFirmwareVersion"}
  <2>1. op # "GetFirmwareVersion"
    BY <1>1 DEF Inventories
  <2> QED
    BY <1>1, <2>1, KindOf
<1>5. /\ N \in Nat /\ 1 \in 1..N /\ p = PacketStarts(b) /\ DOMAIN p = 1..N
      /\ Len(w) = N /\ DOMAIN w = 1..N
      /\ \A k \in 1..N : w[k] = AtomIn(S, D, s[p[k]], "head")
  <2>1. /\ N \in Nat /\ 1 \in 1..N /\ p = PacketStarts(b)
        /\ Layout(S, D, s, 1, p, A) /\ HeadsOf(S, D, s, p, w)
    BY <1>1 DEF Opened
  <2>2. /\ p \in Seq(Nat) /\ w \in Seq(AllAtoms(S, D)) /\ Len(w) = N
        /\ \A k \in 1..N : w[k] = AtomIn(S, D, s[p[k]], "head")
    BY <1>1, <2>1 DEF Layout, HeadsOf
  <2> QED
    BY <1>1, <2>1, <2>2, LenProperties
<1>6. w[1].shape = "status" <=> n = 1
  BY <1>2, ShapeForm
<1>7. CASE r.op # op
  <2>1. Code[r.op] # Code[op]
    BY <1>3, <1>7, CodesDiffer
  <2>2. o = Unparsed
    BY <1>1, <1>2, <2>1 DEF Outcome, OpensWith
  <2>3. ~Atomic!Matches(Atomic!Whole(A), op)
    BY <1>2, <1>7 DEF Atomic!Matches
  <2> QED
    BY <1>1, <2>2, <2>3, NoMatch DEF Unparsed
<1>8. ASSUME r.op = op
      PROVE  o = LET read == StatusOrValue(d, ParseTags(b, c))
                 IN IF read.is = "error" THEN Unparsed ELSE read
  BY <1>1, <1>2, <1>8 DEF Outcome, OpensWith
<1>9. CASE r.op = op /\ n = 1
  <2>1. d[1] = 17
    <3>1. GoodAnswer(r.op, D[e.q])
      BY <1>2, AnswersGood
    <3> QED
      BY <1>1, <1>2, <1>9, <3>1 DEF GoodAnswer
  <2>2. StatusOrValue(d, ParseTags(b, c)) = Error(17)
    <3>1. StatusOrValue(d, ParseTags(b, c)) = Status(17, ParseTags(b, c))
      BY <1>2, <1>9, <2>1 DEF StatusOrValue
    <3>2. 17 # Success /\ 17 \in ErrorCodes
      BY DEF Success, ErrorCodes
    <3> QED
      BY <3>1, <3>2 DEF Status
  <2>3. o = Unparsed
    BY <1>8, <1>9, <2>2 DEF Error
  <2>4. ~Atomic!EndsInTotal(A, op)
    BY <1>2, <1>6, <1>9 DEF Atomic!EndsInTotal
  <2>5. ~Atomic!Settled(A, op)
    BY <1>4, <2>4 DEF Atomic!Settled
  <2> QED
    BY <1>1, <2>3, <2>5 DEF ReadAs, Unparsed
<1>10. CASE r.op = op /\ n # 1
  <2>1. o = LET read == ParseTags(b, c)
            IN IF read.is = "error" THEN Unparsed ELSE read
    BY <1>2, <1>8, <1>10 DEF StatusOrValue
  <2>2. PICK P : P = Packets(b)
    OBVIOUS
  <2>3. PICK x : x = [k \in DOMAIN P |-> FrameOutcome(P[k], c)]
    OBVIOUS
  <2>4. DOMAIN P = 1..N /\ P # <<>> /\ Len(P) = N
    <3>1. P = [k \in 1..N |-> SubSeq(b, p[k], p[k] + b[p[k] + 1] + 1)]
      BY <1>5, <2>2 DEF Packets
    <3>2. DOMAIN P = 1..N /\ Len(P) = N
      BY <1>5, <3>1
    <3>3. P # <<>>
      BY <1>5, <3>2
    <3> QED
      BY <3>2, <3>3
  <2>5. \A k \in 1..N : ReadFor(c, P[k], x[k], w[k].shape, w[k].cmd)
    <3> SUFFICES ASSUME NEW k \in 1..N
                 PROVE  ReadFor(c, P[k], x[k], w[k].shape, w[k].cmd)
      OBVIOUS
    <3>1. x[k] = FrameOutcome(P[k], c)
      BY <2>3, <2>4
    <3>2. k \in 1..Len(p)
      BY <1>1
    <3> QED
      BY <1>1, <2>2, <3>1, <3>2, PacketRead
  <2>6. PICK stops, totals :
            /\ stops = {k \in 1..N : x[k].is # "value"}
            /\ totals = {k \in 1..N : P[k][2] = 10}
    OBVIOUS
  <2>8. \E v : ParseTags(b, c) =
            IF P[N][2] # 10 THEN Unparsed
            ELSE IF stops # {} THEN x[Max(stops)]
            ELSE IF totals = {} THEN Panics ELSE Value(v)
    <3>1. /\ stops = {k \in DOMAIN P : x[k].is # "value"}
          /\ totals = {k \in DOMAIN P : P[k][2] = 10}
      BY <2>4, <2>6, Zenon
    <3>2. EndsWith(P, x, stops, totals, ParseTags(b, c))
      BY <2>2, <2>3, <2>4, <3>1, ParseTagsForm
    <3> QED
      BY <2>4, <3>2, Zenon DEF EndsWith
  <2>9. N \in 1..N
    BY <1>5
  <2>10. PICK h : h = w[N].shape
    OBVIOUS
  <2>11. P[N][2] = 10 <=> h = "total"
    BY <2>5, <2>9, <2>10 DEF ReadFor
  <2>12. Atomic!EndsInTotal(A, op) <=> h = "total"
    BY <1>2, <1>5, <1>6, <1>10, <2>10
       DEF Atomic!EndsInTotal, Atomic!Matches
  <2>13. CASE h # "total"
    <3>1. o = Unparsed
      BY <2>1, <2>8, <2>11, <2>13 DEF Unparsed
    <3>2. ~Atomic!Settled(A, op)
      BY <1>4, <2>12, <2>13 DEF Atomic!Settled
    <3> QED
      BY <1>1, <3>1, <3>2 DEF ReadAs, Unparsed
  <2>14. PICK others : others = Atomic!NotATag(w)
    OBVIOUS
  <2>15. others = {k \in 1..N : w[k].shape \notin {"block", "brief", "total"}}
    BY <1>5, <2>14 DEF Atomic!NotATag
  <2>16. others \subseteq stops
    <3> SUFFICES ASSUME NEW k \in 1..N,
                        w[k].shape \notin {"block", "brief", "total"}
                 PROVE  x[k].is # "value"
      BY <2>6, <2>15
    <3> QED
      BY <2>5 DEF ReadFor
  <2>17. CASE h = "total" /\ stops = {}
    <3>1. N \in totals
      BY <2>6, <2>9, <2>11, <2>17
    <3>2. \E v : o = Value(v)
      <4>1. \E v : ParseTags(b, c) = Value(v)
        BY <2>8, <2>11, <2>17, <3>1
      <4>2. PICK v : ParseTags(b, c) = Value(v)
        BY <4>1
      <4>3. Value(v).is # "error"
        BY DEF Value
      <4>4. o = Value(v)
        BY <2>1, <4>2, <4>3, Zenon
      <4> QED
        BY <4>4
    <3>3. Atomic!Parses(A, op)
      <4>1. Atomic!NotATag(Atomic!Whole(A)) = {}
        BY <1>2, <2>14, <2>16, <2>17
      <4> QED
        BY <1>4, <2>12, <2>17, <4>1
           DEF Atomic!Parses, Atomic!ParsesAsInventory
    <3>4. TakenIn(S, D, s, c) = w
      <4>1. TakenIn(S, D, s, c)
              = [k \in 1..N |-> AtomIn(S, D, s[p[k]], "head")]
        <5>1. b = Bytes(s)
          BY DEF Opened
        <5> QED
          BY <1>5, <5>1, Zenon DEF TakenIn
      <4>2. w = [k \in 1..N |-> w[k]]
        <5>1. w \in Seq(AllAtoms(S, D))
          BY DEF Opened, HeadsOf
        <5> QED
          BY <1>5, <5>1
      <4> QED
        BY <1>5, <4>1, <4>2, Zenon
    <3>5. Atomic!Content(A, op) = w
      BY <1>2, <1>4 DEF Atomic!Content
    <3> QED
      BY <1>1, <3>2, <3>3, <3>4, <3>5 DEF ReadAs, Value
  <2>18. CASE h = "total" /\ stops # {}
    <3>1. PICK m : m = Max(stops)
      OBVIOUS
    <3>2. m \in stops /\ \A y \in stops : y <= m
      <4>1. stops \in SUBSET (1..N)
        BY <2>6
      <4> QED
        BY <1>5, <2>18, <3>1, <4>1, GreatestOf
    <3>3. m \in 1..N /\ x[m].is # "value"
      BY <2>6, <3>2
    <3>4. ReadFor(c, P[m], x[m], w[m].shape, w[m].cmd)
      BY <2>5, <3>3
    <3>5. ParseTags(b, c) = x[m]
      BY <2>8, <2>11, <2>18, <3>1
    <3>6. x[m].is = "unparsed" \/ x[m].is = "panic"
      BY <3>3, <3>4 DEF ReadFor
    <3>7. o = x[m]
      BY <2>1, <3>5, <3>6
    <3>8. \A j \in Atomic!NotATag(Atomic!Whole(A)) : j <= m
      BY <1>2, <2>14, <2>16, <3>2
    <3>9. CASE x[m].is = "unparsed"
      <4>1. w[m].shape = "pair" /\ op = "FastSwitchAntInventory"
        BY <1>1, <3>4, <3>9 DEF ReadFor
      <4>2. m \in Atomic!NotATag(Atomic!Whole(A))
        BY <1>2, <2>14, <2>15, <3>3, <4>1
      <4>3. Atomic!EndsInError(Atomic!Whole(A), op)
        BY <1>2, <1>4, <3>8, <4>1, <4>2 DEF Atomic!EndsInError
      <4>4. ~Atomic!Settled(A, op)
        BY <1>4, <4>3 DEF Atomic!Settled
      <4> QED
        BY <1>1, <3>7, <3>9, <4>4 DEF ReadAs
    <3>10. CASE x[m].is = "panic"
      <4>1. Atomic!MayPanicOn(Atomic!Whole(A)[m], op)
        BY <1>1, <1>2, <1>4, <3>4, <3>10 DEF ReadFor, Atomic!MayPanicOn
      <4>2. m \in DOMAIN Atomic!Whole(A)
        BY <1>2, <1>5, <3>3
      <4>3. Atomic!ParsePanics(A, op)
        BY <1>4, <2>12, <2>18, <3>8, <4>1, <4>2, Zenon
           DEF Atomic!ParsePanics
      <4> QED
        BY <1>1, <3>7, <3>10, <4>3 DEF ReadAs
    <3> QED
      BY <3>6, <3>9, <3>10
  <2> QED
    BY <2>13, <2>17, <2>18
<1> QED
  BY <1>7, <1>9, <1>10

(* Whatever is in the buffer, frames of any answers cut anywhere, what     *)
(* Command::from_bytes makes of it is what Exchange has for its atoms: the *)
(* value, the panic, or reading on.  The only buffer this leaves out is    *)
(* one that opens inside a frame and is taken for a frame.                 *)
THEOREM Reading ==
    ASSUME NEW S, NEW D, NEW s, Stream(S, D, s), NEW c \in Requests,
           NEW A, A = AtomsIn(S, D, s),
           \/ s = <<>> \/ s[1].i = 1
           \/ Outcome(Bytes(s), c).is = "unparsed"
    PROVE  ReadAs(S, D, s, c, A, Outcome(Bytes(s), c))
<1>1. CASE s = <<>> \/ s[1].i # 1
  <2>1. Outcome(Bytes(s), c).is = "unparsed"
    <3>1. CASE s = <<>>
      BY <3>1, TailsAreReadOn DEF Unparsed
    <3>2. CASE s # <<>>
      BY <1>1, <3>2
    <3> QED
      BY <3>1, <3>2
  <2>2. Atomic!Whole(A) = <<>>
    BY <1>1, MidWhole
  <2>3. ~Atomic!Matches(Atomic!Whole(A), c.op)
    BY <2>2 DEF Atomic!Matches
  <2> QED
    BY <2>1, <2>3, NoMatch
<1>2. CASE /\ s # <<>> /\ s[1].i = 1
           /\ 1 + SizeIn(D, s[1]) > Len(s) + 1
  <2>1. Outcome(Bytes(s), c).is = "unparsed"
    BY <1>2, CutUnparsed DEF Unparsed
  <2>2. s \in Seq(Elem) /\ Len(s) \in Nat
    BY LenProperties DEF Stream
  <2>3. 1 \in 1..Len(s)
    <3>1. Len(s) # 0
      BY <1>2, <2>2, EmptySeq
    <3> QED
      BY <2>2, <3>1
  <2>4. Layout(S, D, s, 1, <<>>, A)
    <3>1. Layout(S, D, s, 1, <<>>, AtomsFrom(S, D, s, 1))
      BY <1>2, <2>3, LayoutCut
    <3>2. SubSeq(s, 1, Len(s)) = s
      BY <2>2, WholePiece
    <3> QED
      BY <3>1, <3>2, Zenon DEF AtomsFrom
  <2>5. PICK w : w = Atomic!Whole(A)
    OBVIOUS
  <2>6. HeadsOf(S, D, s, <<>>, w)
    BY <2>4, <2>5, WholeForm
  <2>7. w \in Seq(AllAtoms(S, D)) /\ Len(w) = 0
    BY <2>6, EmptySeq DEF HeadsOf
  <2>8. w = <<>>
    BY <2>7, EmptySeq
  <2>9. ~Atomic!Matches(Atomic!Whole(A), c.op)
    BY <2>5, <2>8 DEF Atomic!Matches
  <2> QED
    BY <2>1, <2>9, NoMatch
<1>3. CASE /\ s # <<>> /\ s[1].i = 1
           /\ ~(1 + SizeIn(D, s[1]) > Len(s) + 1)
  <2>1. PICK b, p, w, f, d, n : Opened(S, D, s, b, p, A, w, f, d, n)
    BY <1>3, OpenedBuffer
  <2>2. b = Bytes(s)
    BY <2>1 DEF Opened
  <2>3. CASE c.op \in Inventories
    BY <2>1, <2>2, <2>3, ReadInventory
  <2>4. CASE c.op \notin Inventories
    BY <2>1, <2>2, <2>4, ReadSimple
  <2> QED
    BY <2>3, <2>4
<1> QED
  BY <1>1, <1>2, <1>3

-----------------------------------------------------------------------------
(* A stream, and its atoms, are the same whatever else is sent and said.   *)
SameFor(S, D, T, E, s) ==
    \A i \in 1..Len(s) : T[s[i].q] = S[s[i].q] /\ E[s[i].q] = D[s[i].q]

LEMMA MarksSame ==
    ASSUME NEW S, NEW D, NEW T, NEW E, NEW e,
           T[e.q] = S[e.q], E[e.q] = D[e.q]
    PROVE  MarksIn(T, E, e) = MarksIn(S, D, e)
<1>1. SizeIn(E, e) = SizeIn(D, e)
  BY Zenon DEF SizeIn
<1>2. /\ AtomIn(T, E, e, "head") = AtomIn(S, D, e, "head")
      /\ AtomIn(T, E, e, "tail") = AtomIn(S, D, e, "tail")
  BY Zenon DEF AtomIn
<1> QED
  BY <1>1, <1>2, Zenon DEF MarksIn

LEMMA StreamSame ==
    ASSUME NEW S, NEW D, NEW T, NEW E, NEW s, Stream(S, D, s),
           SameFor(S, D, T, E, s)
    PROVE  Stream(T, E, s) /\ AtomsIn(T, E, s) = AtomsIn(S, D, s)
<1>1. PICK z : z = Len(s)
  OBVIOUS
<1>2. s \in Seq(Elem) /\ z \in Nat /\ DOMAIN s = 1..z
  BY <1>1, LenProperties DEF Stream
<1>3. \A i \in 1..z : T[s[i].q] = S[s[i].q] /\ E[s[i].q] = D[s[i].q]
  BY <1>1 DEF SameFor
<1>4. ASSUME NEW i \in 1..z
      PROVE  Proper(T, E, s[i])
  <2>1. PICK e : e = s[i]
    OBVIOUS
  <2>2. Proper(S, D, e)
    BY <1>1, <2>1 DEF Stream
  <2>3. T[e.q] = S[e.q] /\ E[e.q] = D[e.q]
    BY <1>3, <2>1
  <2>4. SizeIn(E, e) = SizeIn(D, e)
    BY <2>3, Zenon DEF SizeIn
  <2>5. Proper(T, E, e)
    BY <2>2, <2>3, <2>4, Zenon DEF Proper
  <2> QED
    BY <2>1, <2>5
<1>5. ASSUME NEW i \in 1..(z - 1)
      PROVE  Follows(E, s[i], s[i + 1])
  <2>1. PICK e, g : e = s[i] /\ g = s[i + 1]
    OBVIOUS
  <2>2. Follows(D, e, g)
    BY <1>1, <2>1 DEF Stream
  <2>3. i \in 1..z
    BY <1>2
  <2>4. E[e.q] = D[e.q]
    BY <1>3, <2>1, <2>3
  <2>5. SizeIn(E, e) = SizeIn(D, e)
    BY <2>4, Zenon DEF SizeIn
  <2>6. Follows(E, e, g)
    BY <2>2, <2>5, Zenon DEF Follows
  <2> QED
    BY <2>1, <2>6
<1>6. Stream(T, E, s)
  BY <1>1, <1>2, <1>4, <1>5 DEF Stream
<1>7. \A i \in DOMAIN s : MarksIn(T, E, s[i]) = MarksIn(S, D, s[i])
  BY <1>2, <1>3, MarksSame
<1>8. Marked(T, E, s) = Marked(S, D, s)
  BY <1>7, Zenon DEF Marked
<1> QED
  BY <1>6, <1>8, Zenon DEF AtomsIn

-----------------------------------------------------------------------------
(* The bytes of an answer.                                                 *)
MarkOf(S, D, q, k, part) ==
    [id |-> q, cmd |-> S[q].op, n |-> k, shape |-> ShapeOf(Len(D[q].data[k])),
     last |-> k = Len(D[q].data), part |-> part]

FrameAt(S, D, q, k) == FrameBytes(q, k, Answered(S[q], D[q].data[k]))

(* t has the bytes of the k-th frame, and A its atoms.                     *)
FrameHas(S, D, q, k, t, A) ==
    /\ Stream(S, D, t) /\ t # <<>>
    /\ \A i \in 1..Len(t) : t[i].q = q /\ t[i].k = k
    /\ t[1].i = 1 /\ t[Len(t)].i = SizeIn(D, t[Len(t)])
    /\ A = <<MarkOf(S, D, q, k, "head"), MarkOf(S, D, q, k, "tail")>>
    /\ MarkOf(S, D, q, k, "head") \in AllAtoms(S, D)
    /\ MarkOf(S, D, q, k, "tail") \in AllAtoms(S, D)

LEMMA FrameAtForm ==
    ASSUME NEW S, NEW D, NEW q \in Ids, S[q] \in Requests,
           D[q] \in Answers(S[q]), NEW k \in 1..Len(D[q].data),
           NEW t, t = FrameAt(S, D, q, k)
    PROVE  FrameHas(S, D, q, k, t, AtomsIn(S, D, t))
<1>1. PICK f, d, n, x, w : /\ f = Answered(S[q], D[q].data[k])
                           /\ d = D[q].data[k] /\ n = Len(d)
                           /\ x = Code[S[q].op] /\ w = n + 5
  OBVIOUS
<1>2. GoodAnswer(S[q].op, D[q])
  BY AnswersGood
<1>3. d \in Seq(Byte) /\ n \in 1..70 /\ Len(D[q].data) \in Nat
  <2>1. GoodData(S[q].op, d)
    BY <1>1, <1>2 DEF GoodAnswer
  <2>2. D[q].data \in Seq(Seq(Byte))
    BY <1>2 DEF GoodAnswer
  <2>3. Len(D[q].data) \in Nat
    BY <2>2, LenProperties
  <2> QED
    BY <1>1, <2>1, <2>3 DEF GoodData
<1>4. x \in Byte
  <2>1. x \in 98..139
    BY <1>1, OpsOfRequests, CodesDiffer
  <2> QED
    BY <2>1 DEF Byte
<1>5. f = AnswerFrame(x, d)
  BY <1>1 DEF Answered, AnswerFrame
<1>6. f \in Seq(Byte) /\ Len(f) = w
  <2>1. n \in 0..252
    BY <1>3
  <2>2. AnswerShape(f, x, d, n)
    BY <1>1, <1>3, <1>4, <1>5, <2>1, AnswerForm
  <2> QED
    BY <1>1, <2>2 DEF AnswerShape
<1>7. /\ w \in Nat /\ 1 \in 1..w /\ w \in 1..w /\ w # 0 /\ w # 1 /\ k \in Nat
      /\ \A i \in 1..w : i \in Nat /\ 1 + (i - 1) = i
      /\ \A i \in 1..(w - 1) : i \in 1..w /\ i + 1 \in 1..w
  BY <1>1, <1>3
<1>8. t = [i \in 1..w |-> [b |-> f[i], q |-> q, k |-> k, i |-> i]]
  <2>1. DOMAIN f = 1..w
    BY <1>6, LenProperties
  <2>2. t = [i \in DOMAIN f |-> [b |-> f[i], q |-> q, k |-> k, i |-> i]]
    BY <1>1, Zenon DEF FrameAt, FrameBytes
  <2> QED
    BY <2>1, <2>2, Zenon
<1>9. \A i \in 1..w : f[i] \in Byte
  BY <1>6, ElementOfSeq
<1>10. t \in [1..w -> Elem]
  <2>1. ASSUME NEW i \in 1..w
        PROVE  [b |-> f[i], q |-> q, k |-> k, i |-> i] \in Elem
    BY <1>7, <1>9 DEF Elem
  <2> QED
    BY <1>8, <2>1
<1>11. t \in Seq(Elem) /\ Len(t) = w
  BY <1>7, <1>10, FunctionIsSeq
<1>12. \A i \in 1..w : /\ t[i].b = f[i] /\ t[i].q = q /\ t[i].k = k
                       /\ t[i].i = i
  BY <1>8
<1>13. \A i \in 1..w : SizeIn(D, t[i]) = w
  <2> SUFFICES ASSUME NEW i \in 1..w
               PROVE  SizeIn(D, t[i]) = w
    OBVIOUS
  <2>1. t[i].q = q /\ t[i].k = k
    BY <1>12
  <2> QED
    BY <1>1, <2>1, Zenon DEF SizeIn
<1>14. Stream(S, D, t)
  <2>1. ASSUME NEW i \in 1..w
        PROVE  Proper(S, D, t[i])
    <3>1. PICK e : e = t[i]
      OBVIOUS
    <3>2. /\ e \in Elem /\ e.b = f[i] /\ e.q = q /\ e.k = k /\ e.i = i
          /\ SizeIn(D, e) = w
      BY <1>10, <1>12, <1>13, <3>1
    <3>3. Proper(S, D, e)
      BY <1>1, <3>2, Zenon DEF Proper
    <3> QED
      BY <3>1, <3>3
  <2>2. ASSUME NEW i \in 1..(w - 1)
        PROVE  Follows(D, t[i], t[i + 1])
    <3>1. i \in 1..w /\ i + 1 \in 1..w
      BY <1>7
    <3> QED
      BY <1>12, <3>1, Zenon DEF Follows
  <2> QED
    BY <1>11, <2>1, <2>2 DEF Stream
<1>15. t # <<>>
  BY <1>7, <1>11, EmptySeq
<1>16. Run(D, t)
  <2>1. Len(D[t[1].q].data[t[1].k]) \in Nat
    <3>1. n \in Nat
      <4>1. \A u \in 1..70 : u \in Nat
        OBVIOUS
      <4> QED
        BY <1>3, <4>1, Zenon
    <3> QED
      BY <1>1, <1>7, <1>12, <3>1, Zenon
  <2>2. ASSUME NEW i \in 1..Len(t)
        PROVE  /\ t[i].q = t[1].q /\ t[i].k = t[1].k
               /\ t[i].i = t[1].i + (i - 1)
               /\ t[i].i \in 1..SizeIn(D, t[1])
    <3>1. i \in 1..w /\ i \in Nat
      BY <1>7, <1>11, <2>2, Zenon
    <3>2. /\ t[i].q = q /\ t[i].k = k /\ t[i].i = i
          /\ t[1].q = q /\ t[1].k = k /\ t[1].i = 1
      BY <1>7, <1>12, <3>1, Zenon
    <3>3. SizeIn(D, t[1]) = w /\ 1 + (i - 1) = i
      BY <1>7, <1>13, <3>1, Zenon
    <3> QED
      BY <3>1, <3>2, <3>3, Zenon
  <2> QED
    BY <1>11, <1>15, <2>1, <2>2, Zenon DEF Run
<1>17. PICK h, y : /\ h = MarkOf(S, D, q, k, "head")
                   /\ y = MarkOf(S, D, q, k, "tail")
  OBVIOUS
<1>18. /\ AtomIn(S, D, t[1], "head") = h /\ AtomIn(S, D, t[w], "tail") = y
       /\ h \in AllAtoms(S, D) /\ y \in AllAtoms(S, D)
  <2>1. AtomIn(S, D, t[1], "head") = h /\ AtomIn(S, D, t[w], "tail") = y
    BY <1>7, <1>12, <1>17, Zenon DEF AtomIn, MarkOf
  <2>2. t[1] \in Elem /\ t[w] \in Elem
    BY <1>7, <1>10
  <2>3. /\ AtomIn(S, D, t[1], "head") \in AllAtoms(S, D)
        /\ AtomIn(S, D, t[w], "tail") \in AllAtoms(S, D)
    BY <2>2 DEF AllAtoms
  <2> QED
    BY <2>1, <2>3
<1>19. AtomsIn(S, D, t) = <<h, y>>
  <2>1. Opening(S, D, t[1]) = <<h>>
    BY <1>7, <1>12, <1>18, Zenon DEF Opening
  <2>2. Closing(S, D, t[w]) = <<y>>
    BY <1>7, <1>12, <1>13, <1>18, Zenon DEF Closing
  <2>3. AtomsIn(S, D, t) = <<h>> \o <<y>>
    BY <1>11, <1>16, <2>1, <2>2, RunAtoms
  <2> QED
    BY <1>18, <2>3, PairOf
<1>20. t[1].i = 1 /\ t[Len(t)].i = SizeIn(D, t[Len(t)])
  BY <1>7, <1>11, <1>12, <1>13, Zenon
<1>21. \A i \in 1..Len(t) : t[i].q = q /\ t[i].k = k
  BY <1>11, <1>12, Zenon
<1> QED
  BY <1>14, <1>15, <1>17, <1>18, <1>19, <1>20, <1>21, Zenon DEF FrameHas

FramesTo(S, D, q, m) == [k \in 1..m |-> FrameAt(S, D, q, k)]

(* t has the bytes of the first m frames, and A their atoms.               *)
AnswerHas(S, D, q, m, t, A) ==
    /\ Stream(S, D, t) /\ A \in Seq(AllAtoms(S, D)) /\ Len(A) = 2 * m
    /\ \A k \in 1..m : /\ A[2 * k - 1] = MarkOf(S, D, q, k, "head")
                       /\ A[2 * k] = MarkOf(S, D, q, k, "tail")
    /\ \A i \in 1..Len(t) : t[i].q = q
    /\ m > 0 => t # <<>>
    /\ t # <<>> => /\ t[1].i = 1 /\ t[Len(t)].k = m
                   /\ t[Len(t)].i = SizeIn(D, t[Len(t)])

LEMMA OneMoreFrame ==
    ASSUME NEW S, NEW D, NEW q, NEW m \in Nat,
           NEW t, NEW A, AnswerHas(S, D, q, m, t, A), A = AtomsIn(S, D, t),
           NEW u, NEW B, FrameHas(S, D, q, m + 1, u, B), B = AtomsIn(S, D, u),
           NEW v, v = t \o u, NEW C, C = AtomsIn(S, D, v)
    PROVE  AnswerHas(S, D, q, m + 1, v, C)
<1>1. PICK x, y, h, g : /\ x = Len(t) /\ y = Len(u)
                        /\ h = MarkOf(S, D, q, m + 1, "head")
                        /\ g = MarkOf(S, D, q, m + 1, "tail")
  OBVIOUS
<1>2. /\ Stream(S, D, t) /\ A \in Seq(AllAtoms(S, D)) /\ Len(A) = 2 * m
      /\ \A k \in 1..m : /\ A[2 * k - 1] = MarkOf(S, D, q, k, "head")
                         /\ A[2 * k] = MarkOf(S, D, q, k, "tail")
      /\ \A i \in 1..x : t[i].q = q
      /\ t # <<>> => /\ t[1].i = 1 /\ t[x].k = m
                     /\ t[x].i = SizeIn(D, t[x])
  BY <1>1, Zenon DEF AnswerHas
<1>3. /\ Stream(S, D, u) /\ u # <<>>
      /\ \A i \in 1..y : u[i].q = q /\ u[i].k = m + 1
      /\ u[1].i = 1 /\ u[y].i = SizeIn(D, u[y])
      /\ B = <<h, g>> /\ h \in AllAtoms(S, D) /\ g \in AllAtoms(S, D)
  BY <1>1, Zenon DEF FrameHas
<1>4. /\ t \in Seq(Elem) /\ u \in Seq(Elem) /\ x \in Nat /\ y \in Nat
      /\ y # 0
      /\ x = 0 <=> t = <<>>
  <2>1. t \in Seq(Elem) /\ u \in Seq(Elem)
    BY <1>2, <1>3 DEF Stream
  <2> QED
    BY <1>1, <1>3, <2>1, LenProperties, EmptySeq
<1>5. /\ 1 \in 1..y /\ y \in 1..y
      /\ x # 0 => 1 \in 1..x /\ x \in 1..x
      /\ x + y # 0
  BY <1>4
<1>6. v \in Seq(Elem) /\ Joined(v, t, u)
  BY <1>4, ConcatJoined
<1>7. /\ Len(v) = x + y
      /\ \A i \in 1..x : v[i] = t[i]
      /\ \A i \in 1..y : v[x + i] = u[i]
  BY <1>1, <1>6 DEF Joined
<1>8. Stream(S, D, v)
  <2>1. ASSUME t # <<>>
        PROVE  Follows(D, t[x], u[1])
    <3>1. /\ t[x].i = SizeIn(D, t[x]) /\ t[x].k = m /\ u[1].i = 1
          /\ u[1].k = m + 1
      BY <1>2, <1>3, <1>5, <2>1, Zenon
    <3> QED
      BY <3>1, Zenon DEF Follows
  <2> QED
    BY <1>1, <1>2, <1>3, <2>1, StreamJoin
<1>9. C = A \o B
  BY <1>4, AtomsConcat
<1>10. B \in Seq(AllAtoms(S, D)) /\ Len(B) = 2 /\ B[1] = h /\ B[2] = g
  BY <1>3
<1>11. C \in Seq(AllAtoms(S, D)) /\ Joined(C, A, B)
  BY <1>2, <1>9, <1>10, ConcatJoined
<1>12. /\ Len(C) = 2 * m + 2
       /\ \A i \in 1..(2 * m) : C[i] = A[i]
       /\ C[2 * m + 1] = h /\ C[2 * m + 2] = g
  <2>1. /\ Len(C) = Len(A) + Len(B)
        /\ \A i \in 1..Len(A) : C[i] = A[i]
        /\ \A i \in 1..Len(B) : C[Len(A) + i] = B[i]
    BY <1>11 DEF Joined
  <2>2. 1 \in 1..2 /\ 2 \in 1..2
    OBVIOUS
  <2> QED
    BY <1>2, <1>10, <2>1, <2>2, Zenon
<1>13. ASSUME NEW k \in 1..(m + 1)
       PROVE  /\ C[2 * k - 1] = MarkOf(S, D, q, k, "head")
              /\ C[2 * k] = MarkOf(S, D, q, k, "tail")
  <2>1. CASE k = m + 1
    <3>1. 2 * k - 1 = 2 * m + 1 /\ 2 * k = 2 * m + 2
      BY <2>1
    <3> QED
      BY <1>1, <1>12, <2>1, <3>1, Zenon
  <2>2. CASE k # m + 1
    <3>1. k \in 1..m /\ 2 * k - 1 \in 1..(2 * m) /\ 2 * k \in 1..(2 * m)
      BY <2>2
    <3> QED
      BY <1>2, <1>12, <3>1, Zenon
  <2> QED
    BY <2>1, <2>2
<1>14. ASSUME NEW i \in 1..(x + y)
       PROVE  v[i].q = q
  <2>1. CASE i <= x
    <3>1. i \in 1..x
      BY <1>4, <2>1
    <3> QED
      BY <1>2, <1>7, <3>1
  <2>2. CASE ~(i <= x)
    <3>1. i - x \in 1..y /\ x + (i - x) = i
      BY <1>4, <2>2
    <3>2. v[i] = u[i - x] /\ u[i - x].q = q
      BY <1>3, <1>7, <3>1
    <3> QED
      BY <3>2
  <2> QED
    BY <2>1, <2>2
<1>15. v # <<>>
  <2>1. Len(v) # 0
    BY <1>4, <1>5, <1>7
  <2> QED
    BY <1>6, <2>1, EmptySeq
<1>16. v[x + y] = u[y]
  BY <1>5, <1>7
<1>17. v[1].i = 1
  <2>1. CASE x = 0
    <3>1. v[x + 1] = u[1] /\ x + 1 = 1
      BY <1>5, <1>7, <2>1
    <3> QED
      BY <1>3, <3>1, Zenon
  <2>2. CASE x # 0
    BY <1>2, <1>4, <1>5, <1>7, <2>2, Zenon
  <2> QED
    BY <2>1, <2>2
<1>18. v[x + y].k = m + 1 /\ v[x + y].i = SizeIn(D, v[x + y])
  BY <1>3, <1>5, <1>16, Zenon
<1>19. Len(C) = 2 * (m + 1)
  BY <1>12
<1> QED
  BY <1>7, <1>8, <1>11, <1>13, <1>14, <1>15, <1>17, <1>18, <1>19, Zenon
     DEF AnswerHas

LEMMA FramesForm ==
    ASSUME NEW S, NEW D, NEW q \in Ids, S[q] \in Requests,
           D[q] \in Answers(S[q]), NEW m \in Nat, m <= Len(D[q].data),
           NEW t, t = FlattenSeq(FramesTo(S, D, q, m))
    PROVE  AnswerHas(S, D, q, m, t, AtomsIn(S, D, t))
<1> DEFINE F(n) == FlattenSeq(FramesTo(S, D, q, n))
           N == {n \in Nat : n <= Len(D[q].data) =>
                   AnswerHas(S, D, q, n, F(n), AtomsIn(S, D, F(n)))}
<1>1. PICK z : z = Len(D[q].data)
  OBVIOUS
<1>2. z \in Nat
  <2>1. D[q].data \in Seq(Seq(Byte))
    BY AnswersGood DEF GoodAnswer
  <2> QED
    BY <1>1, <2>1, LenProperties
<1>3. \A k \in 1..z :
        FrameHas(S, D, q, k, FrameAt(S, D, q, k),
                 AtomsIn(S, D, FrameAt(S, D, q, k)))
  BY <1>1, FrameAtForm
<1>4. \A k \in 1..z : FrameAt(S, D, q, k) \in Seq(Elem)
  BY <1>3 DEF FrameHas, Stream
<1>5. \A n \in Nat : n <= z =>
         /\ FramesTo(S, D, q, n) \in Seq(Seq(Elem))
         /\ Len(FramesTo(S, D, q, n)) = n
  <2> SUFFICES ASSUME NEW n \in Nat, n <= z
               PROVE  /\ FramesTo(S, D, q, n) \in Seq(Seq(Elem))
                      /\ Len(FramesTo(S, D, q, n)) = n
    OBVIOUS
  <2>1. \A k \in 1..n : k \in 1..z
    BY <1>2
  <2>2. FramesTo(S, D, q, n) \in [1..n -> Seq(Elem)]
    BY <1>4, <2>1 DEF FramesTo
  <2> QED
    BY <2>2, FunctionIsSeq
<1>6. 0 \in N
  <2>1. FramesTo(S, D, q, 0) = <<>>
    <3>1. 0 <= z
      BY <1>2
    <3>2. FramesTo(S, D, q, 0) \in Seq(Seq(Elem))
          /\ Len(FramesTo(S, D, q, 0)) = 0
      BY <1>5, <3>1
    <3> QED
      BY <3>2, EmptySeq
  <2>2. F(0) = <<>>
    BY <2>1, FlattenEmpty, Zenon
  <2>3. AtomsIn(S, D, <<>>) = <<>>
    BY AtomsEmpty
  <2>4. PICK s, A : s = <<>> /\ A = <<>>
    OBVIOUS
  <2>5. Stream(S, D, s)
    BY <2>4, StreamEmpty
  <2>6. /\ A \in Seq(AllAtoms(S, D)) /\ Len(A) = 2 * 0 /\ Len(s) = 0
        /\ ~(0 > 0)
        /\ \A k \in 1..0 : FALSE
    BY <2>4, EmptySeq
  <2>7. AnswerHas(S, D, q, 0, s, A)
    BY <2>4, <2>5, <2>6, Zenon DEF AnswerHas
  <2>8. AnswerHas(S, D, q, 0, F(0), AtomsIn(S, D, F(0)))
    BY <2>2, <2>3, <2>4, <2>7, Zenon
  <2> QED
    BY <2>8
<1>7. ASSUME NEW n \in Nat, n \in N
      PROVE  n + 1 \in N
  <2> SUFFICES ASSUME n + 1 <= z
               PROVE  AnswerHas(S, D, q, n + 1, F(n + 1),
                                AtomsIn(S, D, F(n + 1)))
    BY <1>1
  <2>1. n <= z /\ n + 1 \in 1..z /\ n + 1 \in Nat
    BY <1>2
  <2>2. PICK fs, u : fs = FramesTo(S, D, q, n) /\ u = FrameAt(S, D, q, n + 1)
    OBVIOUS
  <2>3. fs \in Seq(Seq(Elem)) /\ Len(fs) = n /\ u \in Seq(Elem)
    BY <1>4, <1>5, <2>1, <2>2
  <2>4. FramesTo(S, D, q, n + 1) = Append(fs, u)
    <3>1. PICK gs : gs = FramesTo(S, D, q, n + 1)
      OBVIOUS
    <3>2. gs \in Seq(Seq(Elem)) /\ Len(gs) = n + 1
      BY <1>5, <2>1, <3>1
    <3>3. PICK hs : hs = Append(fs, u)
      OBVIOUS
    <3>4. /\ hs \in Seq(Seq(Elem)) /\ Len(hs) = n + 1
          /\ \A i \in 1..n : hs[i] = fs[i]
          /\ hs[n + 1] = u
      BY <2>3, <3>3, AppendProperties
    <3>5. \A i \in 1..n : fs[i] = FrameAt(S, D, q, i)
      BY <2>2 DEF FramesTo
    <3>6. \A i \in 1..(n + 1) : gs[i] = FrameAt(S, D, q, i)
      BY <3>1 DEF FramesTo
    <3>7. \A i \in 1..(n + 1) : gs[i] = hs[i]
      <4>1. \A i \in 1..(n + 1) : i = n + 1 \/ i \in 1..n
        BY <2>1
      <4> QED
        BY <2>2, <3>4, <3>5, <3>6, <4>1, Zenon
    <3>8. gs = hs
      BY <3>2, <3>4, <3>7, SeqEqual
    <3> QED
      BY <3>1, <3>3, <3>8
  <2>5. F(n + 1) = F(n) \o u
    <3>1. FlattenSeq(fs) \in Seq(Elem)
      BY <2>3, FlattenType
    <3>2. FlattenSeq(Append(fs, u)) = FlattenSeq(fs) \o u
      BY <2>3, <3>1, FlattenAppend
    <3> QED
      BY <2>2, <2>4, <3>2, Zenon
  <2>6. AnswerHas(S, D, q, n, F(n), AtomsIn(S, D, F(n)))
    BY <1>1, <1>7, <2>1
  <2>7. FrameHas(S, D, q, n + 1, u, AtomsIn(S, D, u))
    BY <1>3, <2>1, <2>2
  <2> HIDE DEF F
  <2> QED
    BY <2>5, <2>6, <2>7, OneMoreFrame
<1> HIDE DEF N
<1>8. m \in N
  BY <1>6, <1>7, NumbersFollow
<1> QED
  BY <1>8 DEF N

ShapesOf(a) == [k \in DOMAIN a.data |-> ShapeOf(Len(a.data[k]))]

LEMMA OneShape ==
    ASSUME NEW a, NEW d, a.data = <<d>>
    PROVE  ShapesOf(a) = <<ShapeOf(Len(d))>>
<1>1. PICK s : s = <<d>>
  OBVIOUS
<1>2. DOMAIN s = 1..1 /\ s[1] = d /\ \A k \in 1..1 : k = 1
  BY <1>1
<1>3. ShapesOf(a) = [k \in 1..1 |-> ShapeOf(Len(s[k]))]
  BY <1>1, <1>2, Zenon DEF ShapesOf
<1>4. [k \in 1..1 |-> ShapeOf(Len(s[k]))] = [k \in 1..1 |-> ShapeOf(Len(d))]
  BY <1>2, Zenon
<1>5. \A x : [k \in 1..1 |-> x] = <<x>>
  OBVIOUS
<1> QED
  BY <1>3, <1>4, <1>5, Zenon

(* An answer has shapes that Exchange's reader answers with.               *)
LEMMA ShapesAreReplies ==
    ASSUME NEW c \in Requests, NEW a \in Answers(c)
    PROVE  ShapesOf(a) \in Atomic!Replies(c.op)
<1>1. /\ c.op \in Atomic!Inventory <=> c.op \in Inventories
      /\ c.op \in Ops \cap {"GetFrequencyRegion"}
           <=> c.op = "GetFrequencyRegion"
      /\ c.op \in Ops \cap {"FastSwitchAntInventory"}
           <=> c.op = "FastSwitchAntInventory"
  BY KindOf
<1>2. c.op \in OneFrameOps \cup Inventories
  BY OpsOfRequests
<1>3. CASE c.op \notin Inventories
  <2>1. PICK d : OneFrame(a, c.op, d)
    BY <1>2, <1>3, OneFrameAnswer
  <2>2. PICK h : h = ShapeOf(Len(d))
    OBVIOUS
  <2>3. /\ a.data = <<d>>
        /\ h \in {"status", "block"} \cup
             (IF c.op = "GetFrequencyRegion" THEN {"short"}
              ELSE {"pair", "brief"})
    BY <2>1, <2>2 DEF OneFrame
  <2>4. ShapesOf(a) = <<h>>
    BY <2>2, <2>3, OneShape
  <2> QED
    BY <1>1, <1>3, <2>3, <2>4 DEF Atomic!Replies
<1>4. CASE c.op \in Inventories
  <2>1. Atomic!Replies(c.op) =
            {<<"status">>} \cup {Append(s, "total") : s \in Atomic!Lists(c.op)}
    BY <1>1, <1>4 DEF Atomic!Replies
  <2>2. CASE a = Fail
    <3>1. a.data = <<<<17>>>> /\ Len(<<17>>) = 1
      BY <2>2 DEF Fail, Says
    <3>2. ShapesOf(a) = <<ShapeOf(1)>>
      BY <3>1, OneShape
    <3>3. ShapeOf(1) = "status"
      BY DEF ShapeOf
    <3> QED
      BY <2>1, <3>2, <3>3
  <2>3. CASE \E n \in 0..MaxTags : \E tags \in [1..n -> Tags] :
                 a = Listing(tags, c)
    <3>0. PICK n \in 0..MaxTags :
             \E tags \in [1..n -> Tags] : a = Listing(tags, c)
      BY <2>3
    <3>1. PICK tags \in [1..n -> Tags] : a = Listing(tags, c)
      BY <3>0
    <3>2. GoodAnswer(c.op, a) /\ ListingFrames(a, tags, c, n)
      BY <1>4, <3>1, ListingForm
    <3>3. PICK s, t, u : /\ s = [i \in 1..n |-> "block"]
                         /\ t = Append(s, "total") /\ u = ShapesOf(a)
      OBVIOUS
    <3>4. n \in Nat /\ \A i \in 1..(n + 1) : i = n + 1 \/ i \in 1..n
      BY <3>1, BoundsAssumption
    <3>5. s \in Seq({"block", "total"}) /\ Len(s) = n
          /\ \A i \in 1..n : s[i] = "block"
      <4>1. s \in [1..n -> {"block", "total"}]
        BY <3>3
      <4> QED
        BY <3>3, <3>4, <4>1, FunctionIsSeq
    <3>6. /\ t \in Seq({"block", "total"}) /\ Len(t) = n + 1
          /\ \A i \in 1..n : t[i] = s[i]
          /\ t[n + 1] = "total"
      BY <3>3, <3>5, AppendProperties
    <3>7. /\ a.data \in Seq(Seq(Byte)) /\ Len(a.data) = n + 1
          /\ \A i \in 1..n : a.data[i] = TagData(tags[i], c)
          /\ a.data[n + 1] = Total(n, c).data
      BY <3>2 DEF GoodAnswer, ListingFrames
    <3>8. DOMAIN a.data = 1..(n + 1)
      BY <3>7, LenProperties
    <3>9. \A i \in 1..(n + 1) : u[i] = ShapeOf(Len(a.data[i]))
      BY <3>3, <3>8 DEF ShapesOf
    <3>10. ASSUME NEW i \in 1..n
           PROVE  u[i] = "block"
      <4>1. PICK m : m = Len(TagData(tags[i], c))
        OBVIOUS
      <4>2. m \in 6..70 /\ m # 7
        BY <3>1, <4>1, TagDataGood
      <4>3. u[i] = ShapeOf(m)
        <5>1. i \in 1..(n + 1)
          BY <3>4
        <5> QED
          BY <3>7, <3>9, <4>1, <5>1, Zenon
      <4>4. m \in 1..70 /\ m \notin {1, 2, 3, 4, 5, 7}
        BY <4>2
      <4> QED
        BY <4>3, <4>4, ShapeForm
    <3>11. u[n + 1] = "total"
      <4>1. Len(Total(n, c).data) = 7
        <5>1. n < 256 * 256 * 256
          BY <3>1, BoundsAssumption
        <5> QED
          BY <1>4, <3>4, <5>1, TotalForm
      <4>2. u[n + 1] = ShapeOf(7)
        <5>1. n + 1 \in 1..(n + 1)
          BY <3>4
        <5> QED
          BY <3>7, <3>9, <4>1, <5>1, Zenon
      <4> QED
        BY <4>2 DEF ShapeOf
    <3>12. u \in Seq({"block", "total"}) /\ Len(u) = n + 1
      <4>1. u = [i \in 1..(n + 1) |-> ShapeOf(Len(a.data[i]))]
        BY <3>3, <3>8, Zenon DEF ShapesOf
      <4>2. \A i \in 1..(n + 1) : u[i] \in {"block", "total"}
        BY <3>4, <3>10, <3>11
      <4>3. u \in [1..(n + 1) -> {"block", "total"}]
        BY <4>1, <4>2
      <4>4. n + 1 \in Nat
        BY <3>4
      <4> QED
        BY <4>3, <4>4, FunctionIsSeq
    <3>13. \A i \in 1..(n + 1) : u[i] = t[i]
      BY <3>4, <3>5, <3>6, <3>10, <3>11
    <3>14. u = t
      BY <3>6, <3>12, <3>13, SeqEqual
    <3>15. s \in Atomic!Lists(c.op)
      <4>1. PICK items :
                items = IF c.op \in Ops \cap {"FastSwitchAntInventory"}
                        THEN {"block", "pair"} ELSE {"block"}
        OBVIOUS
      <4>2. s \in [1..n -> items]
        BY <3>3, <4>1
      <4>3. Atomic!Lists(c.op) = UNION {[1..m -> items] : m \in 0..MaxTags}
        BY <4>1 DEF Atomic!Lists
      <4> QED
        BY <3>1, <4>2, <4>3
    <3> QED
      BY <2>1, <3>3, <3>14, <3>15
  <2>4. CASE c.op = "FastSwitchAntInventory" /\ a = Unusable(c)
    <3>1. /\ GoodAnswer(c.op, a) /\ Len(a.data) = 2
          /\ Len(a.data[1]) = 2 /\ Len(a.data[2]) = 7
      BY <2>4, UnusableForm
    <3>2. DOMAIN a.data = 1..2
      BY <3>1, LenProperties DEF GoodAnswer
    <3>3. PICK u : u = ShapesOf(a)
      OBVIOUS
    <3>4. u = [k \in 1..2 |-> ShapeOf(Len(a.data[k]))]
      BY <3>2, <3>3, Zenon DEF ShapesOf
    <3>5. u[1] = "pair" /\ u[2] = "total"
      <4>1. u[1] = ShapeOf(2) /\ u[2] = ShapeOf(7)
        <5>1. 1 \in 1..2 /\ 2 \in 1..2
          OBVIOUS
        <5>2. /\ u[1] = ShapeOf(Len(a.data[1]))
              /\ u[2] = ShapeOf(Len(a.data[2]))
          BY <3>4, <5>1, Zenon
        <5> QED
          BY <3>1, <5>2, Zenon
      <4> QED
        BY <4>1 DEF ShapeOf
    <3>6. u = <<"pair", "total">>
      <4>1. DOMAIN u = 1..2 /\ u = [k \in 1..2 |-> u[k]]
        BY <3>4
      <4> QED
        BY <3>5, <4>1
    <3>7. Append(<<"pair">>, "total") = <<"pair", "total">>
      <4>1. PICK A, x, y, z : /\ A = {"pair", "total"} /\ x = <<"pair">>
                              /\ y = Append(x, "total")
                              /\ z = <<"pair", "total">>
        OBVIOUS
      <4>2. /\ x \in Seq(A) /\ Len(x) = 1 /\ x[1] = "pair"
            /\ z \in Seq(A) /\ Len(z) = 2 /\ z[1] = "pair" /\ z[2] = "total"
        BY <4>1
      <4>3. y \in Seq(A) /\ Len(y) = 2 /\ y[1] = x[1] /\ y[2] = "total"
        <5>1. "total" \in A
          BY <4>1
        <5>2. /\ y \in Seq(A) /\ Len(y) = Len(x) + 1
              /\ \A i \in 1..Len(x) : y[i] = x[i]
              /\ y[Len(x) + 1] = "total"
          BY <4>1, <4>2, <5>1, AppendProperties
        <5> QED
          BY <4>2, <5>2
      <4>4. \A i \in 1..2 : y[i] = z[i]
        <5>1. \A i \in 1..2 : i = 1 \/ i = 2
          OBVIOUS
        <5> QED
          BY <4>2, <4>3, <5>1, Zenon
      <4>5. y = z
        BY <4>2, <4>3, <4>4, SeqEqual
      <4> QED
        BY <4>1, <4>5, Zenon
    <3>8. <<"pair">> \in Atomic!Lists(c.op)
      <4>1. c.op \in Ops \cap {"FastSwitchAntInventory"}
        BY <1>1, <2>4
      <4>2. Atomic!Lists(c.op)
              = UNION {[1..m -> {"block", "pair"}] : m \in 0..MaxTags}
        BY <4>1 DEF Atomic!Lists
      <4>3. 1 \in 0..MaxTags
        BY BoundsAssumption
      <4>4. <<"pair">> \in [1..1 -> {"block", "pair"}]
        OBVIOUS
      <4> QED
        BY <4>2, <4>3, <4>4
    <3> QED
      BY <2>1, <3>3, <3>6, <3>7, <3>8
  <2> QED
    BY <1>4, <2>2, <2>3, <2>4, InventoryCases
<1> QED
  BY <1>3, <1>4

(* The bytes of an answer, and the atoms Exchange has for it.              *)
LEMMA AnswerAtoms ==
    ASSUME NEW q \in Ids, q <= last, sent[q] \in Requests,
           NEW a \in Answers(sent[q]), NEW D, D[q] = a,
           NEW t, t = AnswerBytes(q, a.data), NEW A, A = AtomsIn(sent, D, t)
    PROVE  /\ AnswerHas(sent, D, q, Len(a.data), t, A)
           /\ A = Atomic!Atoms(q, ShapesOf(a))
           /\ Len(ShapesOf(a)) = Len(a.data)
<1>1. PICK m : m = Len(a.data)
  OBVIOUS
<1>2. a.data \in Seq(Seq(Byte)) /\ m \in Nat /\ DOMAIN a.data = 1..m
  <2>1. a.data \in Seq(Seq(Byte))
    BY AnswersGood DEF GoodAnswer
  <2> QED
    BY <1>1, <2>1, LenProperties
<1>3. t = FlattenSeq(FramesTo(sent, D, q, m))
  <2>1. [k \in DOMAIN a.data |->
            FrameBytes(q, k, Answered(sent[q], a.data[k]))]
          = FramesTo(sent, D, q, m)
    BY <1>2, Zenon DEF FramesTo, FrameAt
  <2> QED
    BY <2>1, Zenon DEF AnswerBytes
<1>4. AnswerHas(sent, D, q, m, t, A)
  <2>1. m <= Len(D[q].data)
    <3>1. m <= m
      BY <1>2
    <3> QED
      BY <1>1, <3>1, Zenon
  <2> QED
    BY <1>2, <1>3, <2>1, FramesForm
<1>5. PICK u : u = ShapesOf(a)
  OBVIOUS
<1>6. /\ Len(u) = m
      /\ \A k \in 1..m : u[k] = ShapeOf(Len(a.data[k]))
  <2>1. u = [k \in 1..m |-> ShapeOf(Len(a.data[k]))]
    BY <1>2, <1>5, Zenon DEF ShapesOf
  <2>2. u \in [1..m -> {ShapeOf(Len(a.data[k])) : k \in 1..m}]
    BY <2>1
  <2> QED
    BY <1>2, <2>1, <2>2, FunctionIsSeq
<1>7. PICK x : x = sent[q].op
  OBVIOUS
<1>8. Atomic!Atoms(q, u) =
        [i \in 1..(2 * m) |->
            [id |-> q, cmd |-> x, n |-> (i + 1) \div 2,
             shape |-> u[(i + 1) \div 2], last |-> (i + 1) \div 2 = m,
             part |-> IF i % 2 = 1 THEN "head" ELSE "tail"]]
  BY <1>6, <1>7, Zenon DEF Atomic!Atoms
<1>9. /\ A \in Seq(AllAtoms(sent, D)) /\ Len(A) = 2 * m
      /\ \A k \in 1..m : /\ A[2 * k - 1] = MarkOf(sent, D, q, k, "head")
                         /\ A[2 * k] = MarkOf(sent, D, q, k, "tail")
  BY <1>4, Zenon DEF AnswerHas
<1>10. PICK B : B = Atomic!Atoms(q, u)
  OBVIOUS
<1>11. ASSUME NEW i \in 1..(2 * m)
       PROVE  A[i] = B[i]
  <2>1. PICK k : k = (i + 1) \div 2
    OBVIOUS
  <2>2. /\ k \in 1..m
        /\ i % 2 = 1 => i = 2 * k - 1
        /\ i % 2 # 1 => i = 2 * k
    <3>1. m \in Nat
      BY <1>2
    <3>2. i \in 1..(2 * m)
      OBVIOUS
    <3>3. ASSUME NEW x1 \in Nat, NEW y1 \in 1..(2 * x1)
          PROVE  /\ (y1 + 1) \div 2 \in 1..x1
                 /\ y1 % 2 = 1 => y1 = 2 * ((y1 + 1) \div 2) - 1
                 /\ y1 % 2 # 1 => y1 = 2 * ((y1 + 1) \div 2)
      OBVIOUS
    <3> QED
      BY <2>1, <3>1, <3>2, <3>3, Zenon
  <2>3. PICK part : part = IF i % 2 = 1 THEN "head" ELSE "tail"
    OBVIOUS
  <2>4. B[i] = [id |-> q, cmd |-> x, n |-> k, shape |-> u[k],
                last |-> k = m, part |-> part]
    BY <1>8, <1>10, <2>1, <2>3, Zenon
  <2>5. B[i] = MarkOf(sent, D, q, k, part)
    BY <1>1, <1>6, <1>7, <2>2, <2>4, Zenon DEF MarkOf
  <2>6. A[i] = MarkOf(sent, D, q, k, part)
    BY <1>9, <2>2, <2>3, Zenon
  <2> QED
    BY <2>5, <2>6
<1>12. DOMAIN A = 1..(2 * m) /\ A = [i \in 1..(2 * m) |-> A[i]]
  BY <1>9, LenProperties
<1>13. B = [i \in 1..(2 * m) |-> B[i]]
  BY <1>8, <1>10
<1>14. A = B
  BY <1>11, <1>12, <1>13, Zenon
<1> QED
  BY <1>1, <1>4, <1>5, <1>6, <1>10, <1>14, Zenon

-----------------------------------------------------------------------------
(* What is on the link: what was read and kept, and what was not yet read. *)

(* Bytes of answers in the order they were sent, to the end of a frame.    *)
OnLink(S, D, s) ==
    /\ Stream(S, D, s)
    /\ s # <<>> => s[Len(s)].i = SizeIn(D, s[Len(s)])

LEMMA LinkRest ==
    ASSUME NEW S, NEW D, NEW b \in Seq(Elem), NEW r \in Seq(Elem),
           OnLink(S, D, b \o r)
    PROVE  OnLink(S, D, r) /\ Stream(S, D, b)
<1>1. PICK u, x, y : u = b \o r /\ x = Len(b) /\ y = Len(r)
  OBVIOUS
<1>2. x \in Nat /\ y \in Nat /\ (y = 0 <=> r = <<>>)
  BY <1>1, LenProperties, EmptySeq
<1>3. u \in Seq(Elem) /\ Joined(u, b, r)
  BY <1>1, ConcatJoined
<1>4. Len(u) = x + y /\ \A i \in 1..y : u[x + i] = r[i]
  BY <1>1, <1>3 DEF Joined
<1>5. Stream(S, D, u)
  BY <1>1 DEF OnLink
<1>6. SubSeq(u, 0 + 1, 0 + x) = b
  <2>1. \A i \in 1..x : u[0 + i] = b[i]
    <3>1. \A i \in 1..x : u[i] = b[i]
      BY <1>1, <1>3 DEF Joined
    <3>2. \A i \in 1..x : 0 + i = i
      OBVIOUS
    <3> QED
      BY <3>1, <3>2, Zenon
  <2>2. 0 + x <= Len(u)
    BY <1>2, <1>4
  <2> QED
    BY <1>1, <1>2, <1>3, <2>1, <2>2, SubSeqIs
<1>7. SubSeq(u, x + 1, x + y) = r
  <2>1. x + y <= Len(u)
    BY <1>2, <1>4
  <2>2. Len(r) = y /\ x \in Nat /\ y \in Nat
    BY <1>1, <1>2, Zenon
  <2>3. \A i \in 1..y : u[x + i] = r[i]
    BY <1>4, Zenon
  <2>4. u \in Seq(Elem)
    BY <1>3, Zenon
  <2> QED
    BY <2>1, <2>2, <2>3, <2>4, SubSeqIs
<1>8. Stream(S, D, b)
  <2>1. 0 + x <= Len(u)
    BY <1>2, <1>4
  <2>2. Stream(S, D, SubSeq(u, 0 + 1, 0 + x))
    BY <1>2, <1>5, <2>1, StreamPiece
  <2> QED
    BY <1>6, <2>2, Zenon
<1>9. Stream(S, D, r)
  <2>1. x + y <= Len(u)
    BY <1>2, <1>4
  <2>2. Stream(S, D, SubSeq(u, x + 1, x + y))
    BY <1>2, <1>5, <2>1, StreamPiece
  <2> QED
    BY <1>7, <2>2, Zenon
<1>10. ASSUME r # <<>>
       PROVE  r[y].i = SizeIn(D, r[y])
  <2>1. y \in 1..y /\ x + y # 0
    BY <1>2, <1>10
  <2>2. u # <<>>
    BY <1>3, <1>4, <2>1, EmptySeq
  <2>3. u[x + y].i = SizeIn(D, u[x + y])
    BY <1>1, <1>4, <2>2, Zenon DEF OnLink
  <2>4. u[x + y] = r[y]
    BY <1>4, <2>1
  <2> QED
    BY <2>3, <2>4
<1> QED
  BY <1>1, <1>8, <1>9, <1>10, Zenon DEF OnLink

LEMMA LinkSame ==
    ASSUME NEW S, NEW D, NEW T, NEW E, NEW s, OnLink(S, D, s),
           SameFor(S, D, T, E, s)
    PROVE  OnLink(T, E, s) /\ AtomsIn(T, E, s) = AtomsIn(S, D, s)
<1>1. Stream(S, D, s)
  BY DEF OnLink
<1>2. Stream(T, E, s) /\ AtomsIn(T, E, s) = AtomsIn(S, D, s)
  BY <1>1, StreamSame
<1>3. ASSUME s # <<>>
      PROVE  s[Len(s)].i = SizeIn(E, s[Len(s)])
  <2>1. PICK z : z = Len(s)
    OBVIOUS
  <2>2. z \in Nat /\ z # 0
    BY <1>1, <1>3, <2>1, LenProperties, EmptySeq DEF Stream
  <2>3. z \in 1..z
    BY <2>2
  <2>4. E[s[z].q] = D[s[z].q]
    BY <2>1, <2>3 DEF SameFor
  <2>5. SizeIn(E, s[z]) = SizeIn(D, s[z])
    BY <2>4, Zenon DEF SizeIn
  <2>6. s[z].i = SizeIn(D, s[z])
    BY <1>3, <2>1, Zenon DEF OnLink
  <2> QED
    BY <2>1, <2>5, <2>6, Zenon
<1> QED
  BY <1>2, <1>3, Zenon DEF OnLink

(* An answer joins what is there: it is to a call that has none there yet. *)
LEMMA LinkJoin ==
    ASSUME NEW S, NEW D, NEW s, OnLink(S, D, s), NEW q, NEW m, NEW t, NEW A,
           AnswerHas(S, D, q, m, t, A), \A i \in 1..Len(s) : s[i].q # q
    PROVE  OnLink(S, D, s \o t)
<1>1. PICK u, x, y : u = s \o t /\ x = Len(s) /\ y = Len(t)
  OBVIOUS
<1>2. Stream(S, D, s) /\ Stream(S, D, t)
  BY DEF OnLink, AnswerHas
<1>3. s \in Seq(Elem) /\ t \in Seq(Elem)
  BY <1>2 DEF Stream
<1>4. /\ x \in Nat /\ y \in Nat
      /\ x = 0 <=> s = <<>>
      /\ y = 0 <=> t = <<>>
  BY <1>1, <1>3, LenProperties, EmptySeq
<1>5. u \in Seq(Elem) /\ Joined(u, s, t)
  BY <1>1, <1>3, ConcatJoined
<1>6. /\ Len(u) = x + y
      /\ \A i \in 1..x : u[i] = s[i]
      /\ \A i \in 1..y : u[x + i] = t[i]
  BY <1>1, <1>5 DEF Joined
<1>7. ASSUME s # <<>>, t # <<>>
      PROVE  Follows(D, s[x], t[1])
  <2>1. x \in 1..x /\ 1 \in 1..y
    BY <1>4, <1>7
  <2>2. s[x].i = SizeIn(D, s[x])
    BY <1>1, <1>7, Zenon DEF OnLink
  <2>3. t[1].i = 1 /\ t[1].q = q
    BY <1>1, <1>7, <2>1, Zenon DEF AnswerHas
  <2>4. s[x].q # q
    BY <1>1, <2>1
  <2> QED
    BY <2>2, <2>3, <2>4, Zenon DEF Follows
<1>8. Stream(S, D, u)
  <2>1. s # <<>> /\ t # <<>> => Follows(D, s[Len(s)], t[1])
    BY <1>1, <1>7, Zenon
  <2> QED
    BY <1>1, <1>2, <2>1, StreamJoin
<1>9. ASSUME u # <<>>
      PROVE  u[x + y].i = SizeIn(D, u[x + y])
  <2>1. CASE t = <<>>
    <3>1. x + y = x /\ x # 0
      <4>1. x + y # 0
        BY <1>5, <1>6, <1>9, EmptySeq
      <4> QED
        BY <1>4, <2>1, <4>1
    <3>2. x \in 1..x
      BY <1>4, <3>1
    <3>3. u[x] = s[x] /\ s[x].i = SizeIn(D, s[x])
      <4>1. s # <<>>
        BY <1>4, <3>1
      <4> QED
        BY <1>1, <1>6, <3>2, <4>1, Zenon DEF OnLink
    <3> QED
      BY <3>1, <3>3
  <2>2. CASE t # <<>>
    <3>1. y \in 1..y
      BY <1>4, <2>2
    <3>2. t[y].i = SizeIn(D, t[y])
      BY <1>1, <2>2, Zenon DEF AnswerHas
    <3>3. u[x + y] = t[y]
      BY <1>6, <3>1
    <3> QED
      BY <3>2, <3>3
  <2> QED
    BY <2>1, <2>2
<1> QED
  BY <1>1, <1>6, <1>8, <1>9, Zenon DEF OnLink

(* A is x and y, cut behind m. *)
CutAt(A, m, x, y) ==
    /\ m \in 0..Len(A)
    /\ SubSeq(A, 1, m) = x
    /\ SubSeq(A, m + 1, Len(A)) = y

LEMMA AtomsSplit ==
    ASSUME NEW S, NEW D, NEW s \in Seq(Elem), NEW t \in Seq(Elem)
    PROVE  CutAt(AtomsIn(S, D, s \o t), Len(AtomsIn(S, D, s)),
                 AtomsIn(S, D, s), AtomsIn(S, D, t))
<1>0. PICK A, m : A = AtomsIn(S, D, s \o t) /\ m = Len(AtomsIn(S, D, s))
  OBVIOUS
<1>1. PICK U, x, y, k : /\ U = AllAtoms(S, D)
                        /\ x = AtomsIn(S, D, s) /\ y = AtomsIn(S, D, t)
                        /\ k = Len(y)
  OBVIOUS
<1>2. x \in Seq(U) /\ y \in Seq(U)
  BY <1>1, AtomsType
<1>3. m = Len(x) /\ m \in Nat /\ k \in Nat
  BY <1>0, <1>1, <1>2, LenProperties
<1>4. A = x \o y
  BY <1>0, <1>1, AtomsConcat
<1>5. A \in Seq(U) /\ Joined(A, x, y)
  BY <1>2, <1>4, ConcatJoined
<1>6. /\ Len(A) = m + k
      /\ \A i \in 1..m : A[i] = x[i]
      /\ \A i \in 1..k : A[m + i] = y[i]
  BY <1>1, <1>3, <1>5 DEF Joined
<1>7. /\ m \in 0..(m + k) /\ 0 + 1 = 1 /\ 0 + m = m /\ 0 + m <= m + k
      /\ m + k <= m + k /\ 0 \in Nat
      /\ \A i \in 1..m : 0 + i = i
  BY <1>3
<1>8. SubSeq(A, 0 + 1, 0 + m) = x
  <2>1. 0 + m <= Len(A) /\ \A i \in 1..m : A[0 + i] = x[i]
    BY <1>6, <1>7, Zenon
  <2> QED
    BY <1>2, <1>3, <1>5, <1>7, <2>1, SubSeqIs
<1>9. SubSeq(A, m + 1, m + k) = y
  <2>1. m + k <= Len(A)
    BY <1>6, <1>7, Zenon
  <2> QED
    BY <1>1, <1>2, <1>3, <1>5, <1>6, <2>1, SubSeqIs
<1> QED
  BY <1>0, <1>1, <1>6, <1>7, <1>8, <1>9, Zenon DEF CutAt

(* The calls the frames at the reader belong to.                           *)
IdsOf(s) == [i \in DOMAIN s |-> s[i][1]]

LEMMA IdsAppend ==
    ASSUME NEW F, NEW s \in Seq(Nat \X F), NEW x \in Nat \X F,
           NEW q, x[1] = q
    PROVE  IdsOf(Append(s, x)) = Append(IdsOf(s), q)
<1>1. PICK n, t, u, v : /\ n = Len(s) /\ t = Append(s, x)
                        /\ u = IdsOf(s) /\ v = IdsOf(t)
  OBVIOUS
<1>2. n \in Nat /\ DOMAIN s = 1..n /\ \A i \in 1..n : s[i] \in Nat \X F
  BY <1>1, LenProperties, ElementOfSeq
<1>3. /\ t \in Seq(Nat \X F) /\ Len(t) = n + 1
      /\ \A i \in 1..n : t[i] = s[i]
      /\ t[n + 1] = x
  BY <1>1, AppendProperties
<1>4. /\ DOMAIN t = 1..(n + 1) /\ n + 1 \in Nat
      /\ \A i \in 1..(n + 1) : i \in 1..n \/ i = n + 1
      /\ \A i \in 1..n : i \in 1..(n + 1)
  BY <1>2, <1>3, LenProperties
<1>5. u \in Seq(Nat) /\ Len(u) = n /\ \A i \in 1..n : u[i] = s[i][1]
  <2>1. u = [i \in 1..n |-> s[i][1]]
    BY <1>1, <1>2, Zenon DEF IdsOf
  <2>2. u \in [1..n -> Nat] /\ \A i \in 1..n : u[i] = s[i][1]
    BY <1>2, <2>1
  <2> QED
    BY <1>2, <2>2, FunctionIsSeq
<1>6. /\ v \in Seq(Nat) /\ Len(v) = n + 1
      /\ \A i \in 1..n : v[i] = u[i]
      /\ v[n + 1] = q
  <2>1. v = [i \in 1..(n + 1) |-> t[i][1]]
    BY <1>1, <1>4, Zenon DEF IdsOf
  <2>2. /\ \A i \in 1..(n + 1) : v[i] = t[i][1] /\ t[i][1] \in Nat
        /\ v \in [1..(n + 1) -> Nat]
    <3>1. \A i \in 1..(n + 1) : t[i] \in Nat \X F
      BY <1>3, ElementOfSeq
    <3> QED
      BY <2>1, <3>1
  <2>3. v \in Seq(Nat) /\ Len(v) = n + 1
    BY <1>4, <2>2, FunctionIsSeq
  <2>4. n + 1 \in 1..(n + 1)
    BY <1>2
  <2>5. \A i \in 1..n : v[i] = u[i]
    BY <1>3, <1>4, <1>5, <2>2, Zenon
  <2>6. v[n + 1] = q
    BY <1>3, <2>2, <2>4, Zenon
  <2> QED
    BY <2>3, <2>5, <2>6, Zenon
<1>7. q \in Nat
  OBVIOUS
<1>8. /\ Append(u, q) \in Seq(Nat) /\ Len(Append(u, q)) = n + 1
      /\ \A i \in 1..n : Append(u, q)[i] = u[i]
      /\ Append(u, q)[n + 1] = q
  BY <1>5, <1>7, AppendProperties
<1>9. \A i \in 1..(n + 1) : v[i] = Append(u, q)[i]
  BY <1>4, <1>6, <1>8
<1>10. v = Append(u, q)
  BY <1>6, <1>8, <1>9, SeqEqual
<1> QED
  BY <1>1, <1>10, Zenon

LEMMA IdsTail ==
    ASSUME NEW F, NEW s \in Seq(Nat \X F), s # <<>>
    PROVE  /\ IdsOf(s) # <<>> /\ Head(IdsOf(s)) = Head(s)[1]
           /\ IdsOf(Tail(s)) = Tail(IdsOf(s))
<1>1. PICK n, t, u, v : /\ n = Len(s) /\ t = Tail(s)
                        /\ u = IdsOf(s) /\ v = IdsOf(t)
  OBVIOUS
<1>2. /\ n \in Nat /\ DOMAIN s = 1..n /\ n # 0
      /\ \A i \in 1..n : s[i] \in Nat \X F
  BY <1>1, LenProperties, ElementOfSeq, EmptySeq
<1>3. /\ t \in Seq(Nat \X F) /\ Len(t) = n - 1
      /\ \A i \in 1..(n - 1) : t[i] = s[i + 1]
      /\ Head(s) = s[1]
  BY <1>1, <1>2, HeadTailProperties
<1>4. /\ DOMAIN t = 1..(n - 1) /\ n - 1 \in Nat /\ 1 \in 1..n
      /\ \A i \in 1..(n - 1) : i + 1 \in 1..n
  BY <1>2, <1>3, LenProperties
<1>5. u \in Seq(Nat) /\ Len(u) = n /\ \A i \in 1..n : u[i] = s[i][1]
  <2>1. u = [i \in 1..n |-> s[i][1]]
    BY <1>1, <1>2, Zenon DEF IdsOf
  <2>2. u \in [1..n -> Nat] /\ \A i \in 1..n : u[i] = s[i][1]
    BY <1>2, <2>1
  <2> QED
    BY <1>2, <2>2, FunctionIsSeq
<1>6. u # <<>>
  BY <1>2, <1>5, EmptySeq
<1>7. /\ Tail(u) \in Seq(Nat) /\ Len(Tail(u)) = n - 1
      /\ \A i \in 1..(n - 1) : Tail(u)[i] = u[i + 1]
      /\ Head(u) = u[1]
  BY <1>5, <1>6, HeadTailProperties
<1>8. /\ v \in Seq(Nat) /\ Len(v) = n - 1
      /\ \A i \in 1..(n - 1) : v[i] = t[i][1]
  <2>1. v = [i \in 1..(n - 1) |-> t[i][1]]
    BY <1>1, <1>4, Zenon DEF IdsOf
  <2>2. \A i \in 1..(n - 1) : t[i] \in Nat \X F
    BY <1>3, ElementOfSeq
  <2>3. v \in [1..(n - 1) -> Nat] /\ \A i \in 1..(n - 1) : v[i] = t[i][1]
    BY <2>1, <2>2
  <2> QED
    BY <1>4, <2>3, FunctionIsSeq
<1>9. \A i \in 1..(n - 1) : v[i] = Tail(u)[i]
  BY <1>3, <1>4, <1>5, <1>7, <1>8
<1>10. v = Tail(u)
  BY <1>7, <1>8, <1>9, SeqEqual
<1>11. Head(u) = Head(s)[1]
  BY <1>3, <1>4, <1>5, <1>7
<1> QED
  BY <1>1, <1>6, <1>10, <1>11, Zenon

-----------------------------------------------------------------------------
(* The invariant of the refinement.  A call has an answer once, and only   *)
(* bytes of answers are on the link, whole to the last frame.              *)
Silent == Says(<<>>, Unparsed)

AnswersSaid ==
    /\ DOMAIN said = Ids
    /\ \A q \in Ids :
          said[q] = Silent \/ (q <= last /\ said[q] \in Answers(sent[q]))
    /\ \A i \in 1..Len(inbox) : said[inbox[i][1]] = Silent
    /\ \A i, j \in 1..Len(inbox) : i # j => inbox[i][1] # inbox[j][1]

(* Strays are calls that have ended.                                       *)
StraysEnded == \A q \in strays : q \in 1..last /\ status[q] # "open"

LinkInv ==
    /\ RequestInv /\ AnswersSaid /\ StraysEnded
    /\ status = [q \in Ids |-> status[q]]
    /\ buf \in Seq(Elem) /\ line \in Seq(Elem)
    /\ OnLink(sent, said, buf \o line)

(* Only answered calls are on the link.                                    *)
LEMMA OnLinkAnswered ==
    ASSUME LinkInv, NEW i \in 1..Len(buf \o line)
    PROVE  /\ (buf \o line)[i].q \in 1..last
           /\ said[(buf \o line)[i].q] # Silent
<1>1. PICK z, e : z = buf \o line /\ e = z[i]
  OBVIOUS
<1>2. Proper(sent, said, e)
  BY <1>1 DEF LinkInv, OnLink, Stream
<1>3. PICK q : q = e.q
  OBVIOUS
<1>4. e \in Elem /\ e.k \in 1..Len(said[q].data)
  BY <1>2, <1>3 DEF Proper
<1>5. q \in Ids
  BY <1>3, <1>4 DEF Elem
<1>6. said[q] # Silent
  <2>1. ASSUME said[q] = Silent
        PROVE  FALSE
    <3>1. said[q].data = <<>>
      BY <2>1 DEF Silent, Says
    <3>2. Len(<<>>) = 0
      OBVIOUS
    <3>3. e.k \in 1..0
      BY <1>4, <3>1, <3>2, Zenon
    <3> QED
      BY <3>3
  <2> QED
    BY <2>1
<1>7. q <= last
  BY <1>5, <1>6 DEF LinkInv, AnswersSaid
<1>8. q \in 1..last
  BY <1>5, <1>7, BoundsAssumption DEF LinkInv, RequestInv, Ids
<1> QED
  BY <1>1, <1>3, <1>6, <1>8, Zenon

-----------------------------------------------------------------------------
(* The variables of Exchange.                                              *)
Calls == [q \in Ids |-> IF q <= last THEN sent[q].op
                        ELSE CHOOSE c \in Ops : TRUE]

Counts == [q \in Ids |-> Len(said[q].data)]

LEMMA MappedAtoms ==
    /\ AtomsOf(buf) = AtomsIn(sent, said, buf)
    /\ AtomsOf(line) = AtomsIn(sent, said, line)
    /\ AtomsOf(buf)' = AtomsIn(sent', said', buf')
    /\ AtomsOf(line)' = AtomsIn(sent', said', line')
<1>1. /\ AtomsOf(buf)' = AtomsIn(sent', said', buf')
      /\ AtomsOf(line)' = AtomsIn(sent', said', line')
  BY DEF AtomsOf, AtomsIn, Marked, Marks, MarksIn, AtomOf, AtomIn, SizeIn
<1> QED
  BY <1>1, AtomsOfStream

LEMMA CommandsAreOps == Atomic!Commands = Ops /\ Atomic!Ids = Ids
<1>1. \A x \in Ops : x \in Inventories =>
          x \in {"CustomizeSessionTargetInventory", "FastSwitchAntInventory"}
  BY DEF Inventories
<1> QED
  BY <1>1 DEF Atomic!Commands, Atomic!Ids, Ids

LEMMA LinkInit ==
    ASSUME Init
    PROVE  LinkInv /\ Atomic!Init
<1>1. /\ last = 0 /\ inbox = <<>> /\ buf = <<>> /\ line = <<>>
      /\ sent = [q \in Ids |-> CHOOSE c \in Requests : TRUE]
      /\ status = [q \in Ids |-> "unused"]
      /\ took = [q \in Ids |-> <<>>]
      /\ said = [q \in Ids |-> Silent] /\ strays = {}
  BY DEF Init, Silent
<1>2. RequestInv
  BY RequestInvInit
<1>3. Len(inbox) = 0 /\ 1..Len(inbox) = {} /\ DOMAIN inbox = {}
  BY <1>1
<1>4. AnswersSaid
  BY <1>1, <1>3 DEF AnswersSaid
<1>5. buf \o line = <<>> /\ buf \in Seq(Elem) /\ line \in Seq(Elem)
  <2>1. <<>> \in Seq(Elem)
    BY EmptySeq
  <2> QED
    BY <1>1, <2>1, ConcatEmptySeq
<1>6. OnLink(sent, said, buf \o line)
  BY <1>5, StreamEmpty, Zenon DEF OnLink
<1>7. LinkInv
  BY <1>1, <1>2, <1>4, <1>5, <1>6 DEF LinkInv, StraysEnded
<1>8. AtomsOf(buf) = <<>> /\ AtomsOf(line) = <<>>
  BY <1>1, MappedAtoms, AtomsEmpty
<1>9. Calls \in [Atomic!Ids -> {CHOOSE c \in Atomic!Commands : TRUE}]
  <2>1. ASSUME NEW q \in Ids
        PROVE  ~(q <= last)
    BY <1>1, BoundsAssumption DEF Ids
  <2> QED
    BY <2>1, CommandsAreOps DEF Calls
<1>10. [i \in DOMAIN inbox |-> inbox[i][1]] = <<>>
  <2>1. PICK s : s = [i \in DOMAIN inbox |-> inbox[i][1]]
    OBVIOUS
  <2>2. DOMAIN s = {}
    BY <1>3, <2>1
  <2>3. s = [i \in {} |-> s[i]]
    BY <1>3, <2>1
  <2>4. s \in Seq(Nat) /\ Len(s) = 0
    <3>1. 1..0 = {}
      OBVIOUS
    <3>2. s \in [1..0 -> Nat]
      BY <2>3, <3>1
    <3> QED
      BY <3>2, FunctionIsSeq
  <2> QED
    BY <2>1, <2>4, EmptySeq
<1>11. Counts = [q \in Atomic!Ids |-> 0]
  <2>1. Len(Silent.data) = 0
    BY DEF Silent, Says
  <2> QED
    BY <1>1, <2>1, CommandsAreOps DEF Counts
<1> QED
  BY <1>1, <1>7, <1>8, <1>9, <1>10, <1>11, CommandsAreOps
     DEF Atomic!Init, Calls, Counts

(* A request is written, or fails to be.                                   *)
LEMMA LinkSend ==
    ASSUME LinkInv, NEW c \in Requests, NEW s \in {"open", "failed"},
           Send(c, s)
    PROVE  /\ LinkInv'
           /\ IF s = "open" THEN Atomic!Send(c.op) ELSE Atomic!SendFails(c.op)
<1>1. /\ last < MaxCalls /\ last' = last + 1 /\ Idle
      /\ sent' = [sent EXCEPT ![last + 1] = c]
      /\ status' = [status EXCEPT ![last + 1] = s]
      /\ \/ inbox' = Append(inbox, <<last + 1, Encode(c)>>)
         \/ s = "failed" /\ inbox' = inbox
      /\ buf' = <<>> /\ line' = line /\ took' = took /\ said' = said
      /\ strays' = strays
  BY DEF Send
<1>2. RequestInv /\ RequestInv'
  BY RequestSent DEF LinkInv
<1>3. /\ last \in 0..MaxCalls /\ DOMAIN sent = Ids /\ DOMAIN said = Ids
      /\ inbox \in Seq(Nat \X {Encode(d) : d \in Requests})
      /\ \A i \in 1..Len(inbox) : inbox[i][1] \in 1..last
      /\ \A q \in Ids :
            said[q] = Silent \/ (q <= last /\ said[q] \in Answers(sent[q]))
      /\ \A i \in 1..Len(inbox) : said[inbox[i][1]] = Silent
      /\ \A i, j \in 1..Len(inbox) : i # j => inbox[i][1] # inbox[j][1]
      /\ buf \in Seq(Elem) /\ line \in Seq(Elem)
  BY DEF LinkInv, RequestInv, AnswersSaid
<1>4. PICK q0 : q0 = last + 1
  OBVIOUS
<1>5. /\ q0 \in Ids /\ q0 \in Nat /\ ~(q0 <= last) /\ q0 \notin 1..last
      /\ \A q \in Ids : q <= last' <=> (q <= last \/ q = q0)
      /\ \A q \in 1..last : q \in Ids /\ q # q0
      /\ \A q \in Ids : q <= last => q # q0
  BY <1>1, <1>3, <1>4, BoundsAssumption DEF Ids
<1>6. /\ sent'[q0] = c
      /\ \A q \in Ids : q # q0 => sent'[q] = sent[q]
  BY <1>1, <1>3, <1>4, <1>5
<1>7. said[q0] = Silent
  BY <1>3, <1>5
<1>8. AnswersSaid'
  <2>1. ASSUME NEW q \in Ids
        PROVE  \/ said'[q] = Silent
               \/ q <= last' /\ said'[q] \in Answers(sent'[q])
    <3>1. CASE said[q] = Silent
      BY <1>1, <3>1
    <3>2. CASE q <= last /\ said[q] \in Answers(sent[q])
      <4>1. sent'[q] = sent[q] /\ q <= last'
        BY <1>5, <1>6, <3>2
      <4> QED
        BY <1>1, <3>2, <4>1
    <3> QED
      BY <1>3, <3>1, <3>2
  <2>2. /\ \A i \in 1..Len(inbox') : said'[inbox'[i][1]] = Silent
        /\ \A i, j \in 1..Len(inbox') : i # j => inbox'[i][1] # inbox'[j][1]
    <3>1. CASE inbox' = inbox
      BY <1>1, <1>3, <3>1
    <3>2. CASE inbox' = Append(inbox, <<last + 1, Encode(c)>>)
      <4>1. PICK F, n, x : /\ F = Nat \X {Encode(d) : d \in Requests}
                           /\ n = Len(inbox) /\ x = <<q0, Encode(c)>>
        OBVIOUS
      <4>2. x \in F /\ x[1] = q0 /\ inbox' = Append(inbox, x)
        BY <1>4, <1>5, <3>2, <4>1
      <4>3. inbox \in Seq(F) /\ n \in Nat
        BY <1>3, <4>1, LenProperties
      <4>4. /\ Len(inbox') = n + 1 /\ inbox'[n + 1] = x
            /\ \A i \in 1..n : inbox'[i] = inbox[i]
        BY <4>1, <4>2, <4>3, AppendProperties
      <4>5. \A i \in 1..(n + 1) : i \in 1..n \/ i = n + 1
        BY <4>3
      <4>6. ASSUME NEW i \in 1..(n + 1)
            PROVE  \/ i \in 1..n /\ inbox'[i] = inbox[i]
                                 /\ inbox'[i][1] \in 1..last
                   \/ i = n + 1 /\ inbox'[i][1] = q0
        <5>1. CASE i \in 1..n
          BY <1>3, <4>1, <4>4, <5>1, Zenon
        <5>2. CASE i = n + 1
          BY <4>2, <4>4, <5>2, Zenon
        <5> QED
          BY <4>5, <5>1, <5>2
      <4>7. ASSUME NEW i \in 1..(n + 1)
            PROVE  said'[inbox'[i][1]] = Silent
        BY <1>1, <1>3, <1>7, <4>1, <4>6, Zenon
      <4>8. ASSUME NEW i \in 1..(n + 1), NEW j \in 1..(n + 1), i # j
            PROVE  inbox'[i][1] # inbox'[j][1]
        BY <1>3, <1>5, <4>1, <4>6, <4>8, Zenon
      <4> QED
        BY <4>4, <4>7, <4>8, Zenon
    <3> QED
      BY <1>1, <3>1, <3>2
  <2>3. DOMAIN said' = Ids
    BY <1>1, <1>3
  <2> QED
    BY <2>1, <2>2, <2>3, Zenon DEF AnswersSaid
<1>9. OnLink(sent, said, line)
  BY <1>3, LinkRest DEF LinkInv
<1>10. SameFor(sent, said, sent', said', line)
  <2>1. ASSUME NEW i \in 1..Len(line)
        PROVE  sent'[line[i].q] = sent[line[i].q]
    <3>1. PICK z, n, m : z = buf \o line /\ n = Len(buf) /\ m = Len(line)
      OBVIOUS
    <3>2. n \in Nat /\ m \in Nat
      BY <1>3, <3>1, LenProperties
    <3>3. Joined(z, buf, line)
      BY <1>3, <3>1, ConcatJoined
    <3>4. Len(z) = n + m /\ z[n + i] = line[i]
      BY <3>1, <3>3 DEF Joined
    <3>5. n + i \in 1..Len(z)
      BY <3>1, <3>2, <3>4
    <3>6. z[n + i].q \in 1..last
      BY <3>1, <3>5, OnLinkAnswered
    <3> QED
      BY <1>5, <1>6, <3>4, <3>6, Zenon
  <2> QED
    BY <1>1, <2>1 DEF SameFor
<1>11. /\ OnLink(sent', said', line)
       /\ AtomsIn(sent', said', line) = AtomsIn(sent, said, line)
  BY <1>9, <1>10, LinkSame
<1>12. LinkInv'
  <2>1. buf' \in Seq(Elem) /\ buf' \o line' = line
    <3>1. <<>> \in Seq(Elem)
      BY EmptySeq
    <3> QED
      BY <1>1, <1>3, <3>1, ConcatEmptySeq
  <2>2. status' = [q \in Ids |-> status'[q]]
    <3>1. status = [q \in Ids |-> status[q]]
      BY DEF LinkInv
    <3> QED
      BY <1>1, <3>1
  <2>3. OnLink(sent', said', buf' \o line') /\ line' \in Seq(Elem)
    BY <1>1, <1>3, <1>11, <2>1, Zenon
  <2>4. StraysEnded'
    <3>1. StraysEnded
      BY DEF LinkInv
    <3>2. \A q \in 1..last : q \in 1..last' /\ status'[q] = status[q]
      <4>1. \A q \in 1..last : q \in 1..(last + 1)
        BY <1>3
      <4> QED
        BY <1>1, <1>4, <1>5, <4>1
    <3> QED
      BY <1>1, <3>1, <3>2, Zenon DEF StraysEnded
  <2> QED
    BY <1>2, <1>8, <2>1, <2>2, <2>3, <2>4 DEF LinkInv
<1>13. Calls' = [Calls EXCEPT ![q0] = c.op]
  <2>1. PICK u : u = CHOOSE d \in Ops : TRUE
    OBVIOUS
  <2>2. ASSUME NEW q \in Ids
        PROVE  (IF q <= last' THEN sent'[q].op ELSE u)
                 = IF q = q0 THEN c.op
                   ELSE IF q <= last THEN sent[q].op ELSE u
    BY <1>5, <1>6
  <2>3. Calls' = [q \in Ids |-> IF q <= last' THEN sent'[q].op ELSE u]
    BY <2>1 DEF Calls
  <2>4. Calls = [q \in Ids |-> IF q <= last THEN sent[q].op ELSE u]
    BY <2>1 DEF Calls
  <2> QED
    BY <1>5, <2>2, <2>3, <2>4
<1>14. inbox' = Append(inbox, <<last + 1, Encode(c)>>) =>
           IdsOf(inbox') = Append(IdsOf(inbox), q0)
  <2>1. PICK F, x : /\ F = {Encode(d) : d \in Requests}
                    /\ x = <<q0, Encode(c)>>
    OBVIOUS
  <2>2. inbox \in Seq(Nat \X F) /\ x \in Nat \X F /\ x[1] = q0
    BY <1>3, <1>5, <2>1
  <2>3. IdsOf(Append(inbox, x)) = Append(IdsOf(inbox), q0)
    BY <2>2, IdsAppend
  <2> QED
    BY <1>4, <2>1, <2>3, Zenon
<1>15. /\ AtomsOf(buf)' = <<>>
       /\ AtomsOf(line)' = AtomsOf(line)
  <2>1. AtomsOf(buf)' = AtomsIn(sent', said', buf')
    BY MappedAtoms
  <2>2. AtomsIn(sent', said', buf') = <<>>
    BY <1>1, AtomsEmpty
  <2>3. AtomsOf(line)' = AtomsIn(sent', said', line')
    BY MappedAtoms
  <2>4. AtomsOf(line) = AtomsIn(sent, said, line)
    BY MappedAtoms
  <2> QED
    BY <1>1, <1>11, <2>1, <2>2, <2>3, <2>4, Zenon
<1>16. Counts' = Counts
  BY <1>1 DEF Counts
<1>17. Atomic!Idle /\ c.op \in Ops
  BY <1>1, CommandsAreOps DEF Atomic!Idle, Idle, Ops
<1>18. Atomic!Begin(c.op, s)
  BY <1>1, <1>4, <1>13, <1>15, <1>16, <1>17 DEF Atomic!Begin, Calls, Counts
<1>19. CASE s = "open"
  <2>1. IdsOf(inbox') = Append(IdsOf(inbox), q0)
    BY <1>1, <1>14, <1>19
  <2> QED
    BY <1>4, <1>12, <1>18, <1>19, <2>1 DEF Atomic!Send, IdsOf
<1>20. CASE s = "failed"
  <2>1. \/ IdsOf(inbox') = Append(IdsOf(inbox), q0)
        \/ IdsOf(inbox') = IdsOf(inbox)
    BY <1>1, <1>14
  <2> QED
    BY <1>4, <1>12, <1>18, <1>20, <2>1 DEF Atomic!SendFails, IdsOf
<1> QED
  BY <1>19, <1>20

(* The requests at the reader, when it takes the first.                    *)
LEMMA LinkTaken ==
    ASSUME LinkInv, inbox # <<>>, inbox' = Tail(inbox),
           UNCHANGED <<last, sent>>
    PROVE  /\ RequestInv'
           /\ Head(inbox)[1] \in 1..last
           /\ said[Head(inbox)[1]] = Silent
           /\ \A i \in 1..Len(inbox') :
                 /\ inbox'[i][1] # Head(inbox)[1]
                 /\ said[inbox'[i][1]] = Silent
           /\ \A i, j \in 1..Len(inbox') : i # j => inbox'[i][1] # inbox'[j][1]
           /\ IdsOf(inbox) # <<>> /\ Head(IdsOf(inbox)) = Head(inbox)[1]
           /\ IdsOf(inbox') = Tail(IdsOf(inbox))
<1>1. PICK F, n : F = {Encode(d) : d \in Requests} /\ n = Len(inbox)
  OBVIOUS
<1>2. /\ inbox \in Seq(Nat \X F)
      /\ \A i \in 1..n : inbox[i][1] \in 1..last
      /\ \A i \in 1..n : said[inbox[i][1]] = Silent
      /\ \A i, j \in 1..n : i # j => inbox[i][1] # inbox[j][1]
  BY <1>1 DEF LinkInv, RequestInv, AnswersSaid
<1>3. n \in Nat /\ n # 0
  BY <1>1, <1>2, LenProperties, EmptySeq
<1>4. /\ Len(inbox') = n - 1 /\ Head(inbox) = inbox[1]
      /\ \A i \in 1..(n - 1) : inbox'[i] = inbox[i + 1]
  BY <1>1, <1>2, HeadTailProperties
<1>5. /\ 1 \in 1..n
      /\ \A i \in 1..(n - 1) : i + 1 \in 1..n /\ i + 1 # 1
      /\ \A i, j \in 1..(n - 1) : i # j => i + 1 # j + 1
  BY <1>3
<1>6. RequestInv'
  BY RequestTaken DEF LinkInv
<1>7. /\ IdsOf(inbox) # <<>> /\ Head(IdsOf(inbox)) = Head(inbox)[1]
      /\ IdsOf(inbox') = Tail(IdsOf(inbox))
  BY <1>2, IdsTail
<1>8. /\ inbox[1][1] \in 1..last /\ said[inbox[1][1]] = Silent
  BY <1>2, <1>5
<1>9. ASSUME NEW i \in 1..(n - 1)
      PROVE  /\ inbox'[i][1] # inbox[1][1]
             /\ said[inbox'[i][1]] = Silent
  BY <1>2, <1>4, <1>5
<1>10. ASSUME NEW i \in 1..(n - 1), NEW j \in 1..(n - 1), i # j
       PROVE  inbox'[i][1] # inbox'[j][1]
  BY <1>2, <1>4, <1>5, <1>10
<1> QED
  BY <1>4, <1>6, <1>7, <1>8, <1>9, <1>10, Zenon

LEMMA LinkIgnored ==
    ASSUME LinkInv, ReaderIgnores
    PROVE  LinkInv' /\ Atomic!ReaderIgnores
<1>1. /\ inbox # <<>> /\ inbox' = Tail(inbox)
      /\ UNCHANGED <<last, sent, status, outcome, buf, line, took, said,
                     strays>>
  BY DEF ReaderIgnores
<1>2. /\ RequestInv'
      /\ \A i \in 1..Len(inbox') : said[inbox'[i][1]] = Silent
      /\ \A i, j \in 1..Len(inbox') : i # j => inbox'[i][1] # inbox'[j][1]
      /\ IdsOf(inbox) # <<>> /\ IdsOf(inbox') = Tail(IdsOf(inbox))
  BY <1>1, LinkTaken
<1>3. AnswersSaid'
  BY <1>1, <1>2 DEF AnswersSaid, LinkInv
<1>4. LinkInv'
  BY <1>1, <1>2, <1>3 DEF LinkInv, StraysEnded
<1>5. AtomsOf(buf)' = AtomsOf(buf) /\ AtomsOf(line)' = AtomsOf(line)
  BY <1>1, MappedAtoms
<1>6. Calls' = Calls /\ Counts' = Counts
  BY <1>1 DEF Calls, Counts
<1>7. Atomic!ReaderIgnores
  BY <1>1, <1>2, <1>5, <1>6
     DEF Atomic!ReaderIgnores, Atomic!caller, IdsOf, Calls, Counts
<1> QED
  BY <1>4, <1>7

LEMMA LinkAnswered ==
    ASSUME LinkInv, ReaderAnswers
    PROVE  LinkInv' /\ Atomic!ReaderAnswers
<1>1. PICK q : q = Head(inbox)[1]
  OBVIOUS
<1>2. PICK a \in Answers(sent[q]) :
          /\ line' = line \o AnswerBytes(q, a.data)
          /\ said' = [said EXCEPT ![q] = a]
  BY <1>1 DEF ReaderAnswers
<1>3. /\ inbox # <<>> /\ inbox' = Tail(inbox)
      /\ UNCHANGED <<last, sent, status, outcome, buf, took, strays>>
  BY DEF ReaderAnswers
<1>4. /\ RequestInv' /\ q \in 1..last /\ said[q] = Silent
      /\ \A i \in 1..Len(inbox') :
            inbox'[i][1] # q /\ said[inbox'[i][1]] = Silent
      /\ \A i, j \in 1..Len(inbox') : i # j => inbox'[i][1] # inbox'[j][1]
      /\ IdsOf(inbox) # <<>> /\ Head(IdsOf(inbox)) = q
      /\ IdsOf(inbox') = Tail(IdsOf(inbox))
  BY <1>1, <1>3, LinkTaken
<1>5. /\ last \in 0..MaxCalls /\ sent[q] \in Requests /\ DOMAIN said = Ids
      /\ inbox \in Seq(Nat \X {Encode(d) : d \in Requests})
      /\ \A i \in 1..Len(inbox) : inbox[i][1] \in 1..last
      /\ \A p \in Ids :
            said[p] = Silent \/ (p <= last /\ said[p] \in Answers(sent[p]))
      /\ buf \in Seq(Elem) /\ line \in Seq(Elem)
      /\ OnLink(sent, said, buf \o line)
  BY <1>4 DEF LinkInv, RequestInv, AnswersSaid
<1>6. q \in Ids /\ q <= last
  BY <1>4, <1>5, BoundsAssumption DEF Ids
<1>7. /\ said'[q] = a /\ DOMAIN said' = Ids
      /\ \A p \in Ids : p # q => said'[p] = said[p]
  BY <1>2, <1>5, <1>6
<1>8. AnswersSaid'
  <2>1. ASSUME NEW p \in Ids
        PROVE  \/ said'[p] = Silent
               \/ p <= last' /\ said'[p] \in Answers(sent'[p])
    BY <1>2, <1>3, <1>5, <1>6, <1>7
  <2>2. ASSUME NEW i \in 1..Len(inbox')
        PROVE  said'[inbox'[i][1]] = Silent
    <3>1. inbox'[i][1] # q /\ said[inbox'[i][1]] = Silent
      BY <1>4
    <3>2. inbox'[i][1] \in 1..last
      BY <1>3, <1>4 DEF RequestInv
    <3>3. inbox'[i][1] \in Ids
      BY <1>5, <3>2, BoundsAssumption DEF Ids
    <3> QED
      BY <1>7, <3>1, <3>3
  <2> QED
    BY <1>4, <1>7, <2>1, <2>2, Zenon DEF AnswersSaid
<1>9. PICK t, A, m, z : /\ t = AnswerBytes(q, a.data)
                        /\ A = AtomsIn(sent, said', t)
                        /\ m = Len(a.data) /\ z = buf \o line
  OBVIOUS
<1>10. /\ AnswerHas(sent, said', q, m, t, A)
       /\ A = Atomic!Atoms(q, ShapesOf(a))
       /\ Len(ShapesOf(a)) = m
  BY <1>5, <1>6, <1>7, <1>9, AnswerAtoms
<1>11. \A i \in 1..Len(z) : z[i].q # q /\ z[i].q \in Ids
  <2>1. ASSUME NEW i \in 1..Len(z)
        PROVE  z[i].q \in 1..last /\ said[z[i].q] # Silent
    BY <1>9, OnLinkAnswered
  <2> QED
    BY <1>4, <1>5, <2>1, BoundsAssumption DEF Ids
<1>12. SameFor(sent, said, sent, said', z)
  BY <1>7, <1>11, Zenon DEF SameFor
<1>13. OnLink(sent, said', z)
  BY <1>5, <1>9, <1>12, LinkSame
<1>14. OnLink(sent, said', z \o t)
  BY <1>10, <1>11, <1>13, LinkJoin
<1>15. t \in Seq(Elem)
  BY <1>10 DEF AnswerHas, Stream
<1>16. z \o t = buf \o (line \o t) /\ line \o t \in Seq(Elem)
  <2>1. PICK x, y : x = buf /\ y = line
    OBVIOUS
  <2>2. x \in Seq(Elem) /\ y \in Seq(Elem) /\ z = x \o y
    BY <1>5, <1>9, <2>1, Zenon
  <2>3. Associate(x, y, t)
    BY <1>15, <2>2, JoinsAssociate
  <2>4. y \o t \in Seq(Elem)
    BY <1>15, <2>2, ConcatJoined
  <2> QED
    BY <2>1, <2>2, <2>3, <2>4, Zenon DEF Associate
<1>17. LinkInv'
  <2>1. status' = [p \in Ids |-> status'[p]]
    BY <1>3 DEF LinkInv
  <2>2. OnLink(sent', said', buf' \o line') /\ line' \in Seq(Elem)
    BY <1>2, <1>3, <1>9, <1>14, <1>16, Zenon
  <2> QED
    BY <1>3, <1>4, <1>5, <1>8, <2>1, <2>2 DEF LinkInv, StraysEnded
<1>18. /\ Stream(sent, said, buf) /\ OnLink(sent, said, line)
  BY <1>5, LinkRest
<1>19. /\ SameFor(sent, said, sent, said', buf)
       /\ SameFor(sent, said, sent, said', line)
  <2>1. PICK x, y : x = Len(buf) /\ y = Len(line)
    OBVIOUS
  <2>2. x \in Nat /\ y \in Nat
    BY <1>5, <2>1, LenProperties
  <2>3. Joined(z, buf, line)
    BY <1>5, <1>9, ConcatJoined
  <2>4. /\ Len(z) = x + y
        /\ \A i \in 1..x : z[i] = buf[i]
        /\ \A i \in 1..y : z[x + i] = line[i]
    BY <2>1, <2>3 DEF Joined
  <2>5. /\ \A i \in 1..x : i \in 1..(x + y)
        /\ \A i \in 1..y : x + i \in 1..(x + y)
    BY <2>2
  <2>6. \A i \in 1..(x + y) : said'[z[i].q] = said[z[i].q]
    BY <1>7, <1>11, <2>4, Zenon
  <2>7. ASSUME NEW i \in 1..x
        PROVE  said'[buf[i].q] = said[buf[i].q]
    <3>1. z[i] = buf[i] /\ i \in 1..(x + y)
      BY <2>4, <2>5
    <3>2. said'[z[i].q] = said[z[i].q]
      BY <2>6, <3>1
    <3> QED
      BY <3>1, <3>2, Zenon
  <2>8. ASSUME NEW i \in 1..y
        PROVE  said'[line[i].q] = said[line[i].q]
    <3>1. z[x + i] = line[i] /\ x + i \in 1..(x + y)
      BY <2>4, <2>5
    <3>2. said'[z[x + i].q] = said[z[x + i].q]
      BY <2>6, <3>1
    <3> QED
      BY <3>1, <3>2, Zenon
  <2> QED
    BY <2>1, <2>7, <2>8, Zenon DEF SameFor
<1>20. /\ AtomsIn(sent, said', buf) = AtomsIn(sent, said, buf)
       /\ AtomsIn(sent, said', line) = AtomsIn(sent, said, line)
  BY <1>18, <1>19, StreamSame, LinkSame
<1>21. AtomsIn(sent, said', line \o t) = AtomsIn(sent, said', line) \o A
  BY <1>5, <1>9, <1>15, AtomsConcat
<1>22. AtomsOf(buf)' = AtomsOf(buf)
  BY <1>3, <1>20, MappedAtoms
<1>23. AtomsOf(line)' = AtomsOf(line) \o Atomic!Atoms(q, ShapesOf(a))
  <2>1. AtomsOf(line)' = AtomsIn(sent, said', line \o t)
    BY <1>2, <1>3, <1>9, MappedAtoms
  <2>2. AtomsOf(line) = AtomsIn(sent, said, line)
    BY MappedAtoms
  <2> QED
    BY <1>10, <1>20, <1>21, <2>1, <2>2, Zenon
<1>24. Calls' = Calls /\ Calls[q] = sent[q].op
  BY <1>3, <1>6 DEF Calls
<1>25. Counts' = [Counts EXCEPT ![q] = Len(ShapesOf(a))]
  <2>1. Counts = [p \in Ids |-> Len(said[p].data)]
    BY DEF Counts
  <2>2. Counts' = [p \in Ids |-> Len(said'[p].data)]
    BY DEF Counts
  <2>3. Len(said'[q].data) = Len(ShapesOf(a))
    BY <1>7, <1>9, <1>10, Zenon
  <2> QED
    BY <1>6, <1>7, <2>1, <2>2, <2>3
<1>26. PICK w : w = ShapesOf(a)
  OBVIOUS
<1>27. w \in Atomic!Replies(Calls[q])
  BY <1>5, <1>24, <1>26, ShapesAreReplies
<1>28. Atomic!ReaderAnswers
  <2>1. IdsOf(inbox) # <<>> /\ w \in Atomic!Replies(Calls[Head(IdsOf(inbox))])
    BY <1>4, <1>27
  <2>2. /\ AtomsOf(line)'
             = AtomsOf(line) \o Atomic!Atoms(Head(IdsOf(inbox)), w)
        /\ Counts' = [Counts EXCEPT ![Head(IdsOf(inbox))] = Len(w)]
    BY <1>4, <1>23, <1>25, <1>26, Zenon
  <2>3. IdsOf(inbox') = Tail(IdsOf(inbox))
    BY <1>4
  <2> QED
    BY <1>3, <1>22, <1>24, <2>1, <2>2, <2>3
       DEF Atomic!ReaderAnswers, Atomic!caller, IdsOf, Calls, Counts
<1> QED
  BY <1>17, <1>28

(* What a read is for Exchange: read and y are what is read and what is    *)
(* left, m the atoms of the line among it.                                 *)
ReadOf(n, read, y, m, c) ==
    /\ read = Read(n) /\ y = SubSeq(line, n + 1, Len(line))
    /\ read \in Seq(Elem) /\ y \in Seq(Elem)
    /\ read \o y = buf \o line
    /\ c = sent[last] /\ c \in Requests /\ Calls[last] = c.op
    /\ m \in 0..Len(AtomsOf(line))
    /\ Atomic!Read(m) = AtomsIn(sent, said, read)
    /\ Atomic!Unread(m) = AtomsIn(sent, said, y)
    /\ \/ read = <<>> \/ read[1].i = 1
       \/ Outcome(Bytes(read), c).is = "unparsed"
       => ReadAs(sent, said, read, c, AtomsIn(sent, said, read),
                 Outcome(Bytes(read), c))

LEMMA ReadForm ==
    ASSUME LinkInv, Waiting, NEW n \in 0..Len(line)
    PROVE  \E read, y, m, c : ReadOf(n, read, y, m, c)
<1>1. /\ buf \in Seq(Elem) /\ line \in Seq(Elem)
      /\ OnLink(sent, said, buf \o line)
  BY DEF LinkInv
<1>2. PICK x, y : x = SubSeq(line, 1, n) /\ y = SubSeq(line, n + 1, Len(line))
  OBVIOUS
<1>3. x \in Seq(Elem) /\ y \in Seq(Elem) /\ line = x \o y
  BY <1>1, <1>2, LineSplits
<1>4. PICK read, b : read = b \o x /\ b = buf
  OBVIOUS
<1>5. b \in Seq(Elem)
  BY <1>1, <1>4
<1>6. read \in Seq(Elem)
  BY <1>3, <1>4, <1>5, ConcatJoined
<1>7. read \o y = buf \o line
  <2>1. Associate(b, x, y)
    BY <1>3, <1>5, JoinsAssociate
  <2> QED
    BY <1>3, <1>4, <2>1, Zenon DEF Associate
<1>8. Stream(sent, said, read)
  <2>1. OnLink(sent, said, read \o y)
    BY <1>1, <1>7
  <2> QED
    BY <1>3, <1>6, <2>1, LinkRest
<1>9. PICK c : c = sent[last]
  OBVIOUS
<1>10. last \in 1..last /\ last \in Ids /\ last <= last
  BY BoundsAssumption DEF Waiting, Ids
<1>11. c \in Requests
  BY <1>9, <1>10 DEF LinkInv, RequestInv
<1>12. Calls[last] = c.op
  BY <1>9, <1>10 DEF Calls
<1>13. \/ read = <<>> \/ read[1].i = 1
       \/ Outcome(Bytes(read), c).is = "unparsed"
       => ReadAs(sent, said, read, c, AtomsIn(sent, said, read),
                 Outcome(Bytes(read), c))
  BY <1>8, <1>11, Reading
<1>14. PICK A, m : A = AtomsIn(sent, said, x \o y)
                   /\ m = Len(AtomsIn(sent, said, x))
  OBVIOUS
<1>15. /\ m \in 0..Len(A) /\ SubSeq(A, 1, m) = AtomsIn(sent, said, x)
       /\ SubSeq(A, m + 1, Len(A)) = AtomsIn(sent, said, y)
  <2>1. CutAt(A, m, AtomsIn(sent, said, x), AtomsIn(sent, said, y))
    BY <1>3, <1>14, AtomsSplit, Zenon
  <2> QED
    BY <2>1, Zenon DEF CutAt
<1>16. AtomsOf(line) = A /\ AtomsOf(buf) = AtomsIn(sent, said, b)
  <2>1. /\ AtomsOf(buf) = AtomsIn(sent, said, buf)
        /\ AtomsOf(line) = AtomsIn(sent, said, line)
    BY MappedAtoms
  <2> QED
    BY <1>3, <1>4, <1>14, <2>1, Zenon
<1>17. AtomsIn(sent, said, read)
         = AtomsIn(sent, said, b) \o AtomsIn(sent, said, x)
  BY <1>3, <1>4, <1>5, AtomsConcat
<1>18. Atomic!Read(m) = AtomsIn(sent, said, read)
  BY <1>15, <1>16, <1>17, Zenon DEF Atomic!Read
<1>19. Atomic!Unread(m) = AtomsIn(sent, said, y)
  BY <1>15, <1>16, Zenon DEF Atomic!Unread
<1>20. read = Read(n)
  BY <1>2, <1>4 DEF Read
<1> QED
  BY <1>2, <1>3, <1>4, <1>6, <1>7, <1>9, <1>11, <1>12, <1>13, <1>15, <1>16,
     <1>18, <1>19, <1>20, Zenon DEF ReadOf

LEMMA TakenIs ==
    ASSUME NEW s, NEW c
    PROVE  TakenFrom(s, c) = TakenIn(sent, said, s, c)
BY DEF TakenFrom, TakenIn, AtomOf, AtomIn

(* The parts of the invariant that no read touches.                        *)
LEMMA LinkKept ==
    ASSUME LinkInv, UNCHANGED <<last, sent, inbox, said>>, StraysEnded',
           status' = [q \in Ids |-> status'[q]],
           buf' \in Seq(Elem), line' \in Seq(Elem),
           OnLink(sent, said, buf' \o line')
    PROVE  LinkInv'
<1>1. RequestInv' /\ AnswersSaid'
  BY DEF LinkInv, RequestInv, AnswersSaid
<1>2. OnLink(sent', said', buf' \o line')
  OBVIOUS
<1> QED
  BY <1>1, <1>2 DEF LinkInv

LEMMA LinkReceive ==
    ASSUME LinkInv, NEW n \in Sizes, Receive(n)
    PROVE  LinkInv' /\ (strays' # strays \/ Atomic!Receive)
<1>1. n \in 0..Len(line) /\ Waiting
  <2>1. Len(line) \in Nat
    BY LenProperties DEF LinkInv
  <2> QED
    BY <2>1, BoundsAssumption DEF Sizes, Receive
<1>2. PICK read, y, m, c : ReadOf(n, read, y, m, c)
  BY <1>1, ReadForm
<1>3. /\ read = Read(n)
      /\ y = SubSeq(line, n + 1, Len(line))
      /\ read \in Seq(Elem) /\ y \in Seq(Elem)
      /\ read \o y = buf \o line
      /\ c = sent[last] /\ c \in Requests /\ Calls[last] = c.op
      /\ m \in 0..Len(AtomsOf(line))
      /\ Atomic!Read(m) = AtomsIn(sent, said, read)
      /\ Atomic!Unread(m) = AtomsIn(sent, said, y)
  BY <1>2 DEF ReadOf
<1>4. PICK out, A : /\ out = Outcome(Bytes(read), c)
                    /\ A = AtomsIn(sent, said, read)
  OBVIOUS
<1>6. PICK e : e = CASE out.is = "unparsed" -> "open"
                     [] out.is = "panic" -> "panicked"
                     [] OTHER -> "replied"
  OBVIOUS
<1>7. /\ status' = [status EXCEPT ![last] = e]
      /\ took' = IF e = "replied"
                 THEN [took EXCEPT ![last] = TakenFrom(read, c)] ELSE took
      /\ buf' = IF out.is = "unparsed" THEN read ELSE <<>>
      /\ strays' = IF out.is # "unparsed" /\ read[1].i # 1
                   THEN strays \cup {last} ELSE strays
      /\ line' = y
      /\ UNCHANGED <<last, sent, inbox, said>>
  BY <1>3, <1>4, <1>6, Zenon DEF Receive
<1>8. /\ out.is = "unparsed" => e = "open"
      /\ out.is = "panic" => e = "panicked"
      /\ out.is \in {"value", "error"} => e = "replied"
      /\ out.is # "unparsed" => e # "open"
  BY <1>6
<1>9. /\ status = [q \in Ids |-> status[q]] /\ last \in Ids
      /\ status[last] = "open" /\ OnLink(sent, said, read \o y)
      /\ StraysEnded /\ last \in 1..last
  <2>1. last \in Ids /\ status[last] = "open"
    BY <1>1 DEF Waiting
  <2>2. last \in 1..last
    BY <2>1, BoundsAssumption DEF Ids
  <2>3. status = [q \in Ids |-> status[q]] /\ StraysEnded
    BY DEF LinkInv
  <2>4. OnLink(sent, said, read \o y)
    BY <1>3, Zenon DEF LinkInv
  <2> QED
    BY <2>1, <2>2, <2>3, <2>4
<1>10. status' = [q \in Ids |-> status'[q]]
  BY <1>7, <1>9
<1>11. OnLink(sent, said, y)
  BY <1>3, <1>9, LinkRest
<1>20. last \notin strays /\ StraysEnded'
  <2>1. last \notin strays
    BY <1>9 DEF StraysEnded
  <2>2. \A q \in strays :
            q \in 1..last' /\ status'[q] = status[q] /\ status[q] # "open"
    <3>1. \A q \in strays : q \in 1..last /\ q # last
      BY <1>9, <2>1 DEF StraysEnded
    <3>2. \A q \in 1..last : q \in Ids
      BY <1>9, BoundsAssumption DEF Ids
    <3> QED
      BY <1>7, <1>9, <3>1, <3>2 DEF StraysEnded
  <2>3. last \in strays' => status'[last] # "open"
    BY <1>7, <1>8, <1>9, <2>1
  <2>4. \A q \in strays' : q \in strays \/ q = last
    BY <1>7
  <2> QED
    BY <1>7, <1>9, <2>1, <2>2, <2>3, <2>4 DEF StraysEnded
<1>12. LinkInv'
  <2>1. CASE out.is = "unparsed"
    BY <1>3, <1>7, <1>9, <1>10, <1>20, <2>1, LinkKept
  <2>2. CASE out.is # "unparsed"
    <3>1. <<>> \in Seq(Elem) /\ <<>> \o y = y
      BY <1>3, EmptySeq, ConcatEmptySeq
    <3> QED
      BY <1>3, <1>7, <1>10, <1>11, <1>20, <2>2, <3>1, LinkKept
  <2> QED
    BY <2>1, <2>2
<1> SUFFICES ASSUME strays' = strays
             PROVE  Atomic!Receive
  BY <1>12
<1>5. /\ out.is \in {"unparsed", "panic", "value", "error"}
      /\ out.is = "unparsed" => ~Atomic!Settled(A, c.op)
      /\ out.is = "panic" => Atomic!ParsePanics(A, c.op)
      /\ out.is \in {"value", "error"} =>
            /\ Atomic!Parses(A, c.op)
            /\ TakenFrom(read, c) = Atomic!Content(A, c.op)
  <2>1. read[1].i = 1 \/ out.is = "unparsed"
    BY <1>7, <1>20
  <2>2. ReadAs(sent, said, read, c, A, out)
    BY <1>2, <1>4, <2>1 DEF ReadOf
  <2> QED
    BY <2>2, TakenIs DEF ReadAs
<1>13. /\ Atomic!Waiting /\ Calls' = Calls /\ Counts' = Counts
       /\ IdsOf(inbox') = IdsOf(inbox)
  BY <1>1, <1>7, CommandsAreOps DEF Waiting, Atomic!Waiting, Calls, Counts
<1>14. AtomsOf(line)' = Atomic!Unread(m)
  BY <1>3, <1>7, MappedAtoms
<1>15. AtomsOf(buf)' = IF out.is = "unparsed" THEN Atomic!Read(m) ELSE <<>>
  <2>1. AtomsOf(buf)' = AtomsIn(sent, said, buf')
    BY <1>7, MappedAtoms
  <2>2. AtomsIn(sent, said, <<>>) = <<>>
    BY AtomsEmpty
  <2> QED
    BY <1>3, <1>7, <2>1, <2>2
<1>16. CASE out.is = "unparsed"
  <2>1. ~Atomic!Settled(Atomic!Read(m), Calls[last])
    BY <1>3, <1>4, <1>5, <1>16
  <2>2. status' = status /\ took' = took
    BY <1>7, <1>8, <1>9, <1>16
  <2>3. Atomic!KeepReading(m)
    BY <1>7, <1>13, <1>14, <1>15, <1>16, <2>1, <2>2
       DEF Atomic!KeepReading, Atomic!caller, IdsOf, Calls, Counts
  <2> QED
    BY <1>3, <1>12, <2>3 DEF Atomic!Receive
<1>17. CASE out.is = "panic"
  <2>1. Atomic!ParsePanics(Atomic!Read(m), Calls[last])
    BY <1>3, <1>4, <1>5, <1>17
  <2>2. status' = [status EXCEPT ![last] = "panicked"] /\ took' = took
    BY <1>7, <1>8, <1>17
  <2>3. Atomic!Panic(m)
    BY <1>7, <1>13, <1>14, <1>15, <1>17, <2>1, <2>2
       DEF Atomic!Panic, IdsOf, Calls, Counts
  <2> QED
    BY <1>3, <1>12, <2>3 DEF Atomic!Receive
<1>18. CASE out.is \in {"value", "error"}
  <2>1. /\ Atomic!Parses(Atomic!Read(m), Calls[last])
        /\ TakenFrom(read, c) = Atomic!Content(Atomic!Read(m), Calls[last])
    BY <1>3, <1>4, <1>5, <1>18
  <2>2. /\ status' = [status EXCEPT ![last] = "replied"]
        /\ took' = [took EXCEPT ![last] =
                        Atomic!Content(Atomic!Read(m), Calls[last])]
    BY <1>7, <1>8, <1>18, <2>1
  <2>3. Atomic!Accept(m)
    BY <1>7, <1>13, <1>14, <1>15, <1>18, <2>1, <2>2
       DEF Atomic!Accept, IdsOf, Calls, Counts
  <2> QED
    BY <1>3, <1>12, <2>3 DEF Atomic!Receive
<1> QED
  BY <1>5, <1>16, <1>17, <1>18

LEMMA LinkAbandon ==
    ASSUME LinkInv, Abandon
    PROVE  LinkInv' /\ Atomic!ReadFails
<1>1. /\ Waiting /\ status' = [status EXCEPT ![last] = "failed"] /\ buf' = <<>>
      /\ UNCHANGED <<last, sent, outcome, inbox, line, took, said, strays>>
  BY DEF Abandon
<1>2. /\ status = [q \in Ids |-> status[q]] /\ line \in Seq(Elem)
      /\ OnLink(sent, said, line)
  BY LinkRest DEF LinkInv
<1>3. <<>> \in Seq(Elem) /\ <<>> \o line = line
  BY <1>2, EmptySeq, ConcatEmptySeq
<1>4. LinkInv'
  <2>1. status' = [q \in Ids |-> status'[q]]
    BY <1>1, <1>2
  <2>2. StraysEnded
    BY DEF LinkInv
  <2>3. StraysEnded'
    <3>1. \A q \in strays : q \in 1..last' /\ status'[q] # "open"
      <4>1. last \in Ids
        BY <1>1 DEF Waiting
      <4>2. \A q \in 1..last : q \in Ids
        BY <4>1, BoundsAssumption DEF Ids
      <4> QED
        BY <1>1, <1>2, <2>2, <4>2 DEF StraysEnded
    <3> QED
      BY <1>1, <3>1, Zenon DEF StraysEnded
  <2> QED
    BY <1>1, <1>2, <1>3, <2>1, <2>3, LinkKept
<1>5. AtomsOf(buf)' = <<>> /\ AtomsOf(line)' = AtomsOf(line)
  BY <1>1, MappedAtoms, AtomsEmpty
<1>6. Atomic!Waiting /\ Calls' = Calls /\ Counts' = Counts
  BY <1>1, CommandsAreOps DEF Waiting, Atomic!Waiting, Calls, Counts
<1>7. Atomic!ReadFails
  BY <1>1, <1>5, <1>6
     DEF Atomic!ReadFails, Atomic!Abandon, Calls, Counts
<1> QED
  BY <1>4, <1>7

LEMMA LinkStep ==
    LinkInv /\ [Next]_vars =>
        LinkInv' /\ (strays' # strays \/ [Atomic!Next]_(Atomic!vars))
<1> SUFFICES ASSUME LinkInv, [Next]_vars
             PROVE  /\ LinkInv'
                    /\ strays' # strays \/ [Atomic!Next]_(Atomic!vars)
  OBVIOUS
<1>1. ASSUME NEW c \in Requests, NEW s \in {"open", "failed"}, Send(c, s)
      PROVE  LinkInv' /\ Atomic!Next
  <2>1. /\ LinkInv'
        /\ IF s = "open" THEN Atomic!Send(c.op) ELSE Atomic!SendFails(c.op)
    BY <1>1, LinkSend
  <2>2. c.op \in Atomic!Commands
    BY CommandsAreOps DEF Ops
  <2> QED
    BY <2>1, <2>2 DEF Atomic!Next
<1>2. CASE ReaderAnswers
  BY <1>2, LinkAnswered DEF Atomic!Next
<1>3. CASE ReaderIgnores
  BY <1>3, LinkIgnored DEF Atomic!Next
<1>4. ASSUME NEW n \in Sizes, Receive(n)
      PROVE  LinkInv' /\ (strays' # strays \/ Atomic!Next)
  BY <1>4, LinkReceive DEF Atomic!Next
<1>5. CASE Abandon
  BY <1>5, LinkAbandon DEF Atomic!Next
<1>6. CASE UNCHANGED vars
  <2>1. UNCHANGED <<last, sent, status, outcome, buf, inbox, line, took, said,
                    strays>>
    BY <1>6 DEF vars
  <2>2. LinkInv'
    BY <2>1 DEF LinkInv, RequestInv, AnswersSaid, StraysEnded
  <2>3. AtomsOf(buf)' = AtomsOf(buf) /\ AtomsOf(line)' = AtomsOf(line)
    BY <2>1, MappedAtoms
  <2> QED
    BY <2>1, <2>2, <2>3 DEF Atomic!vars
<1> QED
  BY <1>1, <1>2, <1>3, <1>4, <1>5, <1>6 DEF Next

(* The exchange in bytes implements the exchange in atoms: whatever the    *)
(* requests, the tags, the sizes of the reads and the calls abandoned, the *)
(* code accepts, refuses and panics on what Exchange says, and takes the   *)
(* frames Exchange says (read_response, split_packets, from_bytes), until  *)
(* and after a step that ends a call on a buffer opening inside a frame.   *)
THEOREM BytesRefineAtoms == Spec => ReadsAtoms
<1>1. Init => LinkInv /\ Atomic!Init
  BY LinkInit
<1>2. LinkInv /\ [Next]_vars =>
          LinkInv' /\ (strays' # strays \/ [Atomic!Next]_(Atomic!vars))
  BY LinkStep
<1> QED
  BY <1>1, <1>2, PTL DEF Spec, ReadsAtoms

Proofs == INSTANCE ExchangeProofs WITH
    Simple <- Ops \ (Inventories \cup {"GetFirmwareVersion",
                                       "GetFrequencyRegion"}),
    Firmware <- Ops \cap {"GetFirmwareVersion"},
    Region <- Ops \cap {"GetFrequencyRegion"},
    Single <- Ops \cap {"CustomizeSessionTargetInventory"},
    Fast <- Ops \cap {"FastSwitchAntInventory"},
    Nonblocking <- FALSE,
    cmd <- Calls,
    inbox <- IdsOf(inbox),
    buf <- AtomsOf(buf),
    line <- AtomsOf(line),
    answered <- Counts

LEMMA SameExchange ==
    /\ Atomic!Init => Proofs!Init
    /\ [Atomic!Next]_(Atomic!vars) => [Proofs!Next]_(Proofs!vars)
<1>1. Atomic!Init => Proofs!Init
  BY DEF Atomic!Init, Proofs!Init, Atomic!Ids, Proofs!Ids,
         Atomic!Commands, Proofs!Commands, Calls, Counts, IdsOf
<1>2. [Atomic!Next]_(Atomic!vars) => [Proofs!Next]_(Proofs!vars)
  BY DEF Atomic!Next, Proofs!Next, Atomic!vars, Proofs!vars,
    Atomic!Commands, Proofs!Commands, Atomic!Inventory, Proofs!Inventory,
    Atomic!Ids, Proofs!Ids, Atomic!caller, Proofs!caller,
    Atomic!Lists, Proofs!Lists, Atomic!Replies, Proofs!Replies,
    Atomic!Atoms, Proofs!Atoms, Atomic!Whole, Proofs!Whole,
    Atomic!Matches, Proofs!Matches,
    Atomic!ParsesAsSimple, Proofs!ParsesAsSimple,
    Atomic!EndsInTotal, Proofs!EndsInTotal, Atomic!NotATag, Proofs!NotATag,
    Atomic!ParsesAsInventory, Proofs!ParsesAsInventory,
    Atomic!MayPanicOn, Proofs!MayPanicOn,
    Atomic!ParsePanics, Proofs!ParsePanics, Atomic!Parses, Proofs!Parses,
    Atomic!EndsInError, Proofs!EndsInError,
    Atomic!Settled, Proofs!Settled, Atomic!Content, Proofs!Content,
    Atomic!Idle, Proofs!Idle, Atomic!Waiting, Proofs!Waiting,
    Atomic!Begin, Proofs!Begin, Atomic!Send, Proofs!Send,
    Atomic!SendFails, Proofs!SendFails,
    Atomic!ReaderAnswers, Proofs!ReaderAnswers,
    Atomic!ReaderIgnores, Proofs!ReaderIgnores,
    Atomic!Read, Proofs!Read, Atomic!Unread, Proofs!Unread,
    Atomic!Accept, Proofs!Accept, Atomic!Panic, Proofs!Panic,
    Atomic!KeepReading, Proofs!KeepReading, Atomic!Receive, Proofs!Receive,
    Atomic!Abandon, Proofs!Abandon, Atomic!TimeOut, Proofs!TimeOut,
    Atomic!ReadFails, Proofs!ReadFails, Calls, Counts, IdsOf
<1> QED
  BY <1>1, <1>2

(* The constants of the exchange are as its proofs take them.              *)
LEMMA ExchangeConstants ==
    /\ MaxCalls \in Nat /\ MaxTags \in Nat /\ FALSE \in BOOLEAN
    /\ Proofs!Commands # {}
    /\ (Ops \cap {"GetFirmwareVersion"}) \cap Proofs!Inventory = {}
<1>1. Proofs!Commands = Ops
  BY CommandsAreOps DEF Atomic!Commands, Proofs!Commands
<1>2. Ops # {}
  BY RequestsAssumption DEF Ops
<1> QED
  BY <1>1, <1>2, BoundsAssumption DEF Proofs!Inventory

(* Until a call is a stray, the exchange keeps what it keeps in atoms.     *)
KeptByBytes == LinkInv /\ (strays = {} => Proofs!KeptInv)

LEMMA StraysGrow ==
    ASSUME [Next]_vars
    PROVE  strays \subseteq strays'
<1>1. ASSUME NEW n \in Sizes, Receive(n)
      PROVE  strays \subseteq strays'
  <2>1. PICK x : strays' = IF x THEN strays \cup {last} ELSE strays
    BY <1>1 DEF Receive
  <2> QED
    BY <2>1
<1> QED
  BY <1>1 DEF Next, vars, Send, ReaderAnswers, ReaderIgnores, Abandon

LEMMA KeptByBytesInit == Init => KeptByBytes
<1>1. Proofs!Init => Proofs!KeptInv
  BY ExchangeConstants, Proofs!KeptInit
<1> QED
  BY <1>1, LinkInit, SameExchange DEF KeptByBytes

LEMMA KeptByBytesNext == KeptByBytes /\ [Next]_vars => KeptByBytes'
<1> SUFFICES ASSUME KeptByBytes, [Next]_vars
             PROVE  KeptByBytes'
  OBVIOUS
<1>1. LinkInv' /\ (strays' # strays \/ [Atomic!Next]_(Atomic!vars))
  BY LinkStep DEF KeptByBytes
<1>2. ASSUME strays' = {}
      PROVE  Proofs!KeptInv'
  <2>1. strays = {} /\ strays' = strays
    BY <1>2, StraysGrow
  <2>2. Proofs!KeptInv /\ [Proofs!Next]_(Proofs!vars)
    BY <1>1, <2>1, SameExchange DEF KeptByBytes
  <2>3. Proofs!KeptInv /\ [Proofs!Next]_(Proofs!vars) => Proofs!KeptInv'
    BY ExchangeConstants, Proofs!KeptStep
  <2> QED
    BY <2>2, <2>3
<1> QED
  BY <1>1, <1>2 DEF KeptByBytes

(* What the exchange in atoms keeps, the bytes keep while no call is a     *)
(* stray: a call returns its own answer unless an earlier call of the same *)
(* command was abandoned; no frame is reported twice; an inventory is      *)
(* whole while no call has been abandoned; and parsing panics only after   *)
(* two calls were.                                                         *)
THEOREM BytesKeepExchange ==
    Spec => [](strays = {} =>
                 /\ Atomic!OwnUnlessAbandoned /\ Atomic!FramesReportedOnce
                 /\ Atomic!InventoryComplete /\ Atomic!PanicNeedsTwoAbandoned)
<1>1. Spec => []KeptByBytes
  BY KeptByBytesInit, KeptByBytesNext, PTL DEF Spec
<1>2. Proofs!KeptInv =>
        /\ Proofs!OwnUnlessAbandoned /\ Proofs!FramesReportedOnce
        /\ Proofs!InventoryComplete /\ Proofs!PanicNeedsTwoAbandoned
  BY ExchangeConstants, Proofs!KeptSays
<1>3. Proofs!OwnUnlessAbandoned => Atomic!OwnUnlessAbandoned
  <2>1. Proofs!OwnUnlessAbandoned <=> Proofs!Port!OwnUnlessAbandoned
    BY DEF Proofs!OwnUnlessAbandoned
  <2>2. Atomic!OwnUnlessAbandoned <=> Atomic!Port!OwnUnlessAbandoned
    BY DEF Atomic!OwnUnlessAbandoned
  <2>3. Proofs!Port!OwnUnlessAbandoned => Atomic!Port!OwnUnlessAbandoned
    BY DEF Proofs!Port!OwnUnlessAbandoned, Atomic!Port!OwnUnlessAbandoned,
           Proofs!Port!Ids, Atomic!Port!Ids, Proofs!Ids, Atomic!Ids,
           Proofs!From, Atomic!From, Calls
  <2> QED
    BY <2>1, <2>2, <2>3, Zenon
<1>4. Proofs!FramesReportedOnce => Atomic!FramesReportedOnce
  BY DEF Proofs!FramesReportedOnce, Atomic!FramesReportedOnce, Proofs!Ids,
         Atomic!Ids, Proofs!Upto, Atomic!Upto, Proofs!From, Atomic!From
<1>5. Proofs!InventoryComplete => Atomic!InventoryComplete
  BY DEF Proofs!InventoryComplete, Atomic!InventoryComplete, Proofs!Ids,
         Atomic!Ids, Proofs!Inventory, Atomic!Inventory, Calls, Counts
<1>6. Proofs!PanicNeedsTwoAbandoned => Atomic!PanicNeedsTwoAbandoned
  BY DEF Proofs!PanicNeedsTwoAbandoned, Atomic!PanicNeedsTwoAbandoned,
         Proofs!Ids, Atomic!Ids, Proofs!Inventory, Atomic!Inventory, Calls
<1>7. KeptByBytes =>
        (strays = {} =>
           /\ Atomic!OwnUnlessAbandoned /\ Atomic!FramesReportedOnce
           /\ Atomic!InventoryComplete /\ Atomic!PanicNeedsTwoAbandoned)
  BY <1>2, <1>3, <1>4, <1>5, <1>6 DEF KeptByBytes
<1> QED
  BY <1>1, <1>7, PTL

-----------------------------------------------------------------------------
(* Strays come after abandoned calls.                                      *)

(* A link that opens inside a frame holds atoms, and none is a head first. *)
LEMMA MidLink ==
    ASSUME NEW S, NEW D, NEW z, OnLink(S, D, z), z # <<>>, z[1].i # 1
    PROVE  AtomsIn(S, D, z) # <<>> /\ Atomic!Whole(AtomsIn(S, D, z)) = <<>>
<1>1. Atomic!Whole(AtomsIn(S, D, z)) = <<>>
  BY MidWhole DEF OnLink
<1>2. PICK n, g : n = Len(z) /\ g = z[n]
  OBVIOUS
<1>3. z \in Seq(Elem) /\ n \in Nat /\ n # 0 /\ Stream(S, D, z)
  BY <1>2, LenProperties, EmptySeq DEF OnLink, Stream
<1>4. PICK m, x, y : /\ m = n - 1 /\ x = SubSeq(z, 1, m)
                     /\ y = SubSeq(z, m + 1, n)
  OBVIOUS
<1>5. m \in 0..n /\ m \in Nat /\ m + 1 = n /\ m + 1 <= n /\ n \in 1..n
  BY <1>3, <1>4
<1>6. x \in Seq(Elem) /\ y \in Seq(Elem) /\ z = x \o y
  BY <1>2, <1>3, <1>4, <1>5, LineSplits
<1>7. AtomsIn(S, D, z) = AtomsIn(S, D, x) \o AtomsIn(S, D, y)
  BY <1>6, AtomsConcat
<1>8. Len(y) = 1 /\ y[1] = g
  <2>1. y = SubSeq(z, m + 1, m + 1)
    BY <1>4, <1>5
  <2> QED
    BY <1>2, <1>3, <1>5, <2>1
<1>9. g.i = SizeIn(D, g)
  BY <1>2, <1>3, Zenon DEF OnLink
<1>10. g \in Elem /\ y = <<g>>
  <2>1. g \in Elem
    BY <1>2, <1>3, <1>5, ElementOfSeq
  <2> QED
    BY <1>6, <1>8, <2>1
<1>11. AtomsIn(S, D, y) = MarksIn(S, D, g)
  BY <1>10, AtomsOne
<1>12. AtomsIn(S, D, y) # <<>>
  BY <1>9, <1>11 DEF MarksIn
<1>13. /\ AtomsIn(S, D, x) \in Seq(AllAtoms(S, D))
       /\ AtomsIn(S, D, y) \in Seq(AllAtoms(S, D))
  BY <1>6, AtomsType
<1>14. PICK u, v : u = AtomsIn(S, D, x) /\ v = AtomsIn(S, D, y)
  OBVIOUS
<1>15. Len(v) \in Nat /\ Len(v) # 0 /\ Len(u) \in Nat
  BY <1>12, <1>13, <1>14, LenProperties, EmptySeq
<1>16. Len(u \o v) = Len(u) + Len(v)
  BY <1>13, <1>14, ConcatProperties
<1>17. AtomsIn(S, D, z) # <<>>
  <2>1. Len(u \o v) # 0
    BY <1>15, <1>16
  <2>2. u \o v # <<>>
    BY <2>1, EmptySeq
  <2> QED
    BY <1>7, <1>14, <2>2
<1> QED
  BY <1>1, <1>17

LEMMA ReadNotEmpty ==
    ASSUME LinkInv, NEW n \in Sizes
    PROVE  Read(n) # <<>> /\ n \in 0..Len(line)
<1>1. buf \in Seq(Elem) /\ line \in Seq(Elem) /\ Len(line) \in Nat
  BY LenProperties DEF LinkInv
<1>2. n \in 0..Len(line) /\ 0 < n
  BY <1>1, BoundsAssumption DEF Sizes
<1>3. PICK x : x = SubSeq(line, 1, n)
  OBVIOUS
<1>4. x \in Seq(Elem) /\ Len(x) = n
  BY <1>1, <1>2, <1>3
<1>5. Len(buf) \in Nat /\ Len(buf \o x) = Len(buf) + Len(x)
  BY <1>1, <1>4, LenProperties, ConcatProperties
<1>6. Len(buf \o x) # 0
  BY <1>2, <1>4, <1>5
<1>7. buf \o x # <<>>
  BY <1>6, EmptySeq
<1> QED
  BY <1>2, <1>3, <1>7 DEF Read

(* The buffer that makes a call a stray when none is, if the calls before  *)
(* were all answered: there is none, as the link holds but its answer.     *)
LEMMA FirstStray ==
    ASSUME KeptByBytes, strays = {}, NEW n \in Sizes, Receive(n),
           Read(n)[1].i # 1
    PROVE  \E p \in 1..(last - 1) : status[p] = "failed"
<1>1. n \in 0..Len(line) /\ Waiting /\ LinkInv
  BY ReadNotEmpty DEF Receive, KeptByBytes
<1>2. Proofs!Inv /\ Proofs!Alone
  BY DEF KeptByBytes, Proofs!KeptInv, Proofs!CompleteInv
<1>3. last \in Nat /\ last \in Ids /\ Proofs!Waiting /\ status[last] = "open"
  BY <1>1, BoundsAssumption
     DEF Waiting, Proofs!Waiting, Ids, Proofs!Ids
<1>4. \A q \in Ids : q < last => status[q] \in {"replied", "failed"}
  BY <1>2 DEF Proofs!Inv, Proofs!TypeOK, Proofs!Ids, Ids
<1>5. PICK z, A : z = buf \o line /\ A = AtomsIn(sent, said, z)
  OBVIOUS
<1>6. /\ buf \in Seq(Elem) /\ line \in Seq(Elem)
      /\ OnLink(sent, said, z)
  BY <1>1, <1>5 DEF LinkInv
<1>7. z # <<>> /\ z[1].i # 1
  <2>1. PICK read, y, m, c : ReadOf(n, read, y, m, c)
    BY <1>1, ReadForm
  <2>2. /\ read = Read(n) /\ read \in Seq(Elem) /\ y \in Seq(Elem)
        /\ z = read \o y
    BY <1>5, <2>1 DEF ReadOf
  <2>3. read # <<>>
    BY <1>1, <2>2, ReadNotEmpty
  <2>4. Len(read) \in Nat /\ Len(read) # 0 /\ Len(y) \in Nat
    BY <2>2, <2>3, LenProperties, EmptySeq
  <2>5. /\ Len(z) = Len(read) + Len(y)
        /\ \A j \in 1..Len(read) : z[j] = read[j]
    BY <2>2, ConcatAt
  <2>6. 1 \in 1..Len(read) /\ Len(z) # 0
    BY <2>4, <2>5
  <2>7. z[1] = Read(n)[1]
    BY <2>2, <2>5, <2>6
  <2> QED
    BY <2>6, <2>7, EmptySeq
<1>8. A # <<>> /\ Atomic!Whole(A) = <<>>
  BY <1>5, <1>6, <1>7, MidLink
<1>9. Proofs!Stream = A
  <2>1. A = AtomsIn(sent, said, buf) \o AtomsIn(sent, said, line)
    BY <1>5, <1>6, AtomsConcat
  <2> QED
    BY <2>1, MappedAtoms DEF Proofs!Stream
<1> SUFFICES ASSUME \A p \in 1..(last - 1) : status[p] # "failed"
             PROVE  FALSE
  OBVIOUS
<1>10. Proofs!Clean(last - 1)
  <2>1. \A p \in 1..(last - 1) : p \in Ids /\ p < last
    BY <1>3, BoundsAssumption DEF Ids
  <2> QED
    BY <1>4, <2>1 DEF Proofs!Clean
<1>11. Proofs!HoldsAnswer(last)
  BY <1>2, <1>3, <1>8, <1>9, <1>10 DEF Proofs!Alone
<1>12. PICK w \in Proofs!Replies(Calls[last]) : A = Proofs!Atoms(last, w)
  BY <1>9, <1>11 DEF Proofs!HoldsAnswer
<1>13. A[1].part = "head" /\ Len(A) \in Nat /\ Len(A) \div 2 >= 1
  <2>1. PICK l : l = Len(w)
    OBVIOUS
  <2>2. Calls[last] \in Proofs!Commands
    BY <1>2, <1>3 DEF Proofs!Inv, Proofs!TypeOK, Proofs!Ids, Ids
  <2>3. l \in 1..(MaxTags + 1)
    BY <1>12, <2>1, <2>2, ExchangeConstants, Proofs!RepliesForm
  <2>4. l \in Nat /\ l >= 1 /\ 1 \in 1..(2 * l) /\ (2 * l) \div 2 >= 1
    BY <2>3, BoundsAssumption
  <2>5. DOMAIN A = 1..(2 * l) /\ A[1].part = "head" /\ Len(A) = 2 * l
    BY <1>12, <2>1, <2>4 DEF Proofs!Atoms
  <2> QED
    BY <2>4, <2>5
<1>14. 1 \in DOMAIN Atomic!Whole(A)
  BY <1>8, <1>13 DEF Atomic!Whole
<1> QED
  BY <1>8, <1>14

StrayInv == KeptByBytes /\ StraysNeedAbandoned

LEMMA StrayInvNext == StrayInv /\ [Next]_vars => StrayInv'
<1> SUFFICES ASSUME StrayInv, [Next]_vars
             PROVE  StrayInv'
  OBVIOUS
<1>1. KeptByBytes /\ KeptByBytes' /\ StraysNeedAbandoned
  BY KeptByBytesNext DEF StrayInv
<1>2. /\ last \in Nat /\ status = [q \in Ids |-> status[q]]
      /\ \A q \in strays : q \in 1..last
  <2>1. LinkInv
    BY <1>1 DEF KeptByBytes
  <2>2. last \in 0..MaxCalls /\ status = [q \in Ids |-> status[q]]
    BY <2>1 DEF LinkInv, RequestInv
  <2>3. \A q \in strays : q \in 1..last
    BY <2>1 DEF LinkInv, StraysEnded
  <2> QED
    BY <2>2, <2>3, BoundsAssumption
<1>3. ASSUME NEW q \in strays
      PROVE  \E p \in 1..(q - 1) : status[p] = "failed" /\ p \in 1..(last - 1)
  <2>1. PICK p \in 1..(q - 1) : status[p] = "failed"
    BY <1>1 DEF StraysNeedAbandoned
  <2>2. p \in 1..(last - 1)
    BY <1>2
  <2> QED
    BY <2>1, <2>2
<1>4. ASSUME strays' = strays,
             \A p \in 1..(last - 1) : status'[p] = status[p]
      PROVE  StrayInv'
  <2>1. StraysNeedAbandoned'
    BY <1>3, <1>4 DEF StraysNeedAbandoned
  <2> QED
    BY <1>1, <2>1 DEF StrayInv
<1>5. \A x, e : status' = [status EXCEPT ![x] = e] /\ x \in {last, last + 1}
                  => \A p \in 1..(last - 1) : status'[p] = status[p]
  <2>1. \A p \in 1..(last - 1) : p # last /\ p # last + 1
    BY <1>2
  <2> QED
    BY <1>2, <2>1
<1>6. ASSUME NEW c \in Requests, NEW s \in {"open", "failed"}, Send(c, s)
      PROVE  StrayInv'
  BY <1>4, <1>5, <1>6 DEF Send
<1>7. CASE ReaderAnswers
  BY <1>4, <1>7 DEF ReaderAnswers
<1>8. CASE ReaderIgnores
  BY <1>4, <1>8 DEF ReaderIgnores
<1>9. CASE Abandon
  BY <1>4, <1>5, <1>9 DEF Abandon
<1>10. CASE UNCHANGED vars
  BY <1>4, <1>10 DEF vars
<1>11. ASSUME NEW n \in Sizes, Receive(n)
       PROVE  StrayInv'
  <2>1. PICK e : status' = [status EXCEPT ![last] = e]
    BY <1>11, Zenon DEF Receive
  <2>2. PICK x \in BOOLEAN :
            strays' = IF x /\ Read(n)[1].i # 1
                      THEN strays \cup {last} ELSE strays
    <3>1. PICK x : x = (Outcome(Bytes(Read(n)), sent[last]).is # "unparsed")
      OBVIOUS
    <3>2. strays' = IF x /\ Read(n)[1].i # 1
                    THEN strays \cup {last} ELSE strays
      BY <1>11, <3>1, Zenon DEF Receive
    <3> QED
      BY <3>1, <3>2
  <2>3. \A p \in 1..(last - 1) : status'[p] = status[p]
    BY <1>5, <2>1
  <2>4. CASE strays' = strays
    BY <1>4, <2>3, <2>4
  <2>5. CASE strays' # strays
    <3>1. strays' = strays \cup {last} /\ Read(n)[1].i # 1
      BY <2>2, <2>5
    <3>2. \E p \in 1..(last - 1) : status[p] = "failed"
      <4>1. CASE strays = {}
        BY <1>1, <1>11, <3>1, <4>1, FirstStray
      <4>2. CASE strays # {}
        BY <1>3, <4>2
      <4> QED
        BY <4>1, <4>2
    <3>3. StraysNeedAbandoned'
      BY <1>3, <2>3, <3>1, <3>2 DEF StraysNeedAbandoned
    <3> QED
      BY <1>1, <3>3 DEF StrayInv
  <2> QED
    BY <2>4, <2>5
<1> QED
  BY <1>6, <1>7, <1>8, <1>9, <1>10, <1>11 DEF Next

(* A call is taken in by the rest of a frame only after a call that was    *)
(* abandoned, whatever the requests, the tags and the sizes of the reads:  *)
(* until then the link holds nothing but the answer that is waited for     *)
(* (read_response, and from_bytes, which does not look for the header).    *)
THEOREM StraysComeLate == Spec => []StraysNeedAbandoned
<1>1. Init => StrayInv
  BY KeptByBytesInit DEF StrayInv, StraysNeedAbandoned, Init
<1>2. StrayInv /\ [Next]_vars => StrayInv'
  BY StrayInvNext
<1>3. StrayInv => StraysNeedAbandoned
  BY DEF StrayInv
<1> QED
  BY <1>1, <1>2, <1>3, PTL DEF Spec

-----------------------------------------------------------------------------
(* What a call returns for an answer it took whole.                        *)

(* Where a frame ends in the buffer the next one begins, wherever it is.   *)
LEMMA FramesNext ==
    ASSUME NEW S, NEW D, NEW s, Stream(S, D, s)
    PROVE  \A u \in 1..Len(s), v \in Nat :
              s[u].i + v = SizeIn(D, s[u]) /\ u + v < Len(s)
              => /\ s[u + v + 1].i = 1
                 /\ s[u + v + 1].q = s[u].q => s[u + v + 1].k = s[u].k + 1
<1> TAKE u \in 1..Len(s), v \in Nat
<1> HAVE s[u].i + v = SizeIn(D, s[u]) /\ u + v < Len(s)
<1> QED
  BY FrameNext

(* The frames of one answer follow each other in the buffer.               *)
LEMMA FrameAfter ==
    ASSUME NEW S, NEW D, NEW s, Stream(S, D, s), NEW p, NEW A,
           Layout(S, D, s, 1, p, A), NEW j \in 1..Len(p), NEW i \in 1..Len(p),
           i = j + 1, s[p[i]].q = s[p[j]].q
    PROVE  s[p[i]].k = s[p[j]].k + 1
<1>1. PICK x, y, e : x = p[j] /\ y = p[i] /\ e = s[x]
  OBVIOUS
<1>2. PICK n : n = Len(p)
  OBVIOUS
<1>3. n \in Nat
  BY <1>2, LenProperties DEF Layout
<1>4. j \in 1..(n - 1)
  BY <1>2, <1>3
<1>5. /\ y = x + SizeIn(D, e)
      /\ WholeAt(S, D, s, 1, x, A[2 * j - 1])
      /\ WholeAt(S, D, s, 1, y, A[2 * i - 1])
  <2>1. \A k \in 1..(n - 1) : p[k + 1] = p[k] + SizeIn(D, s[p[k]])
    BY <1>2, Zenon DEF Layout
  <2>2. \A k \in 1..n : WholeAt(S, D, s, 1, p[k], A[2 * k - 1])
    BY <1>2, Zenon DEF Layout
  <2> QED
    BY <1>1, <1>2, <1>4, <2>1, <2>2, Zenon
<1>6. x \in 1..Len(s) /\ y \in 1..Len(s) /\ e.i = 1
  BY <1>1, <1>5, Zenon DEF WholeAt
<1>7. Proper(S, D, e)
  BY <1>1, <1>6 DEF Stream
<1>8. PICK f, d, m : FrameIs(S, D, e, f, d, m)
  BY <1>7, FrameForm
<1>9. m \in 1..70 /\ SizeIn(D, e) = m + 5
  BY <1>8 DEF FrameIs
<1>10. PICK z : z = Len(s)
  OBVIOUS
<1>11. z \in Nat
  BY <1>10, LenProperties DEF Stream
<1>12. y = x + (m + 5) /\ x \in 1..z /\ y \in 1..z
  BY <1>5, <1>6, <1>9, <1>10, Zenon
<1>13. /\ m + 4 \in Nat /\ 1 + (m + 4) = m + 5 /\ x + (m + 4) < z
       /\ x + (m + 4) + 1 = y
  BY <1>9, <1>11, <1>12
<1>14. PICK w : w = m + 4
  OBVIOUS
<1>15. /\ s[x].i + w = SizeIn(D, s[x]) /\ x + w < Len(s)
       /\ w \in Nat /\ x + w + 1 = y
  BY <1>1, <1>6, <1>9, <1>10, <1>13, <1>14, Zenon
<1>16. x \in 1..Len(s)
  BY <1>6
<1>17. s[x].i + w = SizeIn(D, s[x]) /\ x + w < Len(s) /\ w \in Nat
  BY <1>15
<1>18. \A u \in 1..Len(s), v \in Nat :
         s[u].i + v = SizeIn(D, s[u]) /\ u + v < Len(s)
         => /\ s[u + v + 1].i = 1
            /\ s[u + v + 1].q = s[u].q => s[u + v + 1].k = s[u].k + 1
  BY FramesNext
<1>19. /\ s[x + w + 1].i = 1
       /\ s[x + w + 1].q = s[x].q => s[x + w + 1].k = s[x].k + 1
  BY <1>16, <1>17, <1>18, Zenon
<1>20. s[x].q = s[y].q /\ s[y].q = s[x + w + 1].q
  BY <1>1, <1>15, Zenon
<1>21. s[y].k = s[x].k + 1
  BY <1>15, <1>19, <1>20, Zenon
<1> QED
  BY <1>1, <1>21

AllOf(s, p, q) == \A j \in 1..Len(p) : s[p[j]].q = q

LEMMA FramesRise ==
    ASSUME NEW S, NEW D, NEW s, Stream(S, D, s), NEW p, NEW A,
           Layout(S, D, s, 1, p, A), NEW q, AllOf(s, p, q),
           NEW x \in Nat, Len(p) > 0 => s[p[1]].k = x
    PROVE  \A j \in 1..Len(p) : s[p[j]].k = x + (j - 1)
<1>1. PICK n : n = Len(p)
  OBVIOUS
<1>2. n \in Nat
  BY <1>1, LenProperties DEF Layout
<1> DEFINE N == {m \in Nat : m + 1 \in 1..n => s[p[m + 1]].k = x + m}
<1>3. 0 \in N
  <2>1. 0 + 1 = 1 /\ x + 0 = x /\ (1 \in 1..n => n > 0)
    BY <1>2
  <2>2. 1 \in 1..n => s[p[1]].k = x
    BY <1>1, <2>1
  <2> QED
    BY <2>1, <2>2
<1>4. ASSUME NEW m \in Nat, m \in N
      PROVE  m + 1 \in N
  <2> SUFFICES ASSUME (m + 1) + 1 \in 1..n
               PROVE  s[p[(m + 1) + 1]].k = x + (m + 1)
    OBVIOUS
  <2>1. PICK j, i : j = m + 1 /\ i = j + 1
    OBVIOUS
  <2>2. j \in 1..n /\ i \in 1..n
    BY <1>1, <1>2, <2>1
  <2>3. s[p[j]].k = x + m
    BY <1>4, <2>1, <2>2
  <2>4. j \in 1..Len(p) /\ i \in 1..Len(p)
    BY <1>1, <2>2
  <2>5. s[p[i]].q = s[p[j]].q
    BY <2>4, Zenon DEF AllOf
  <2>6. s[p[i]].k = s[p[j]].k + 1
    BY <2>1, <2>4, <2>5, FrameAfter
  <2>7. (x + m) + 1 = x + (m + 1)
    OBVIOUS
  <2> QED
    BY <2>1, <2>3, <2>6, <2>7, Zenon
<1> HIDE DEF N
<1>5. ASSUME NEW j \in 1..n
      PROVE  s[p[j]].k = x + (j - 1)
  <2>1. j - 1 \in Nat /\ (j - 1) + 1 = j
    BY <1>2
  <2>2. j - 1 \in N
    BY <1>3, <1>4, <2>1, NumbersFollow
  <2> QED
    BY <2>1, <2>2 DEF N
<1> QED
  BY <1>1, <1>5

(* The packet g has the data d.                                           *)
FrameHolds(g, d) ==
    Complete(g) /\ Checks(g) /\ Data(g) = d /\ g[2] = Len(d) + 3

(* The packets P are the frames of the answer a.                           *)
PacketsAre(P, a) ==
    /\ DOMAIN P = 1..Len(a.data) /\ P = [j \in 1..Len(a.data) |-> P[j]]
    /\ \A j \in 1..Len(a.data) : FrameHolds(P[j], a.data[j])

(* p is where the packets of b, the bytes of s, begin.                     *)
Parted(S, D, s, b, p, A) ==
    /\ Stream(S, D, s) /\ b = Bytes(s) /\ b \in Seq(Byte)
    /\ p = PacketStarts(b) /\ Layout(S, D, s, 1, p, A)

LEMMA PacketIs ==
    ASSUME NEW S, NEW D, NEW s, NEW b, NEW p, NEW A,
           Parted(S, D, s, b, p, A), NEW j \in 1..Len(p)
    PROVE  FrameHolds(Packets(b)[j], D[s[p[j]].q].data[s[p[j]].k])
<1> DEFINE e == s[p[j]]
           g == Packets(b)[j]
           d == D[e.q].data[e.k]
<1> HIDE DEF e, g, d
<1>0. /\ Stream(S, D, s) /\ b = Bytes(s) /\ b \in Seq(Byte)
      /\ p = PacketStarts(b) /\ Layout(S, D, s, 1, p, A)
  BY DEF Parted
<1>1. PICK x : x = p[j]
  OBVIOUS
<1>2. WholeAt(S, D, s, 1, x, A[2 * j - 1])
  BY <1>0, <1>1 DEF Layout
<1>3. Proper(S, D, e)
  <2>1. x \in 1..Len(s)
    BY <1>2 DEF WholeAt
  <2> QED
    BY <1>0, <1>1, <2>1 DEF Stream, e
<1>4. PICK f, u, m : FrameIs(S, D, e, f, u, m)
  BY <1>3, FrameForm
<1>5. HasFrame(b, x, f, m)
  <2>1. FrameIs(S, D, s[x], f, u, m)
    BY <1>1, <1>4, Zenon DEF e
  <2> QED
    BY <1>0, <1>2, <2>1, HasFrameAt
<1>6. SubSeq(b, x, x + b[x + 1] + 1) = f
  BY <1>0, <1>4, <1>5, PacketForm
<1>7. DOMAIN p = 1..Len(p)
  <2>1. p \in Seq(Nat)
    BY <1>0 DEF Layout
  <2> QED
    BY <2>1, LenProperties
<1>8. g = SubSeq(b, p[j], p[j] + b[p[j] + 1] + 1)
  BY <1>0, <1>7 DEF Packets, g
<1>9. g = f
  BY <1>1, <1>6, <1>8, Zenon
<1>10. u = d /\ m = Len(u)
  BY <1>4 DEF FrameIs, DataOf, d
<1>11. Complete(f) /\ Checks(f) /\ Data(f) = u /\ f[2] = m + 3
  BY <1>4, FrameRead
<1>12. FrameHolds(g, d)
  BY <1>9, <1>10, <1>11, Zenon DEF FrameHolds
<1> QED
  BY <1>12 DEF g, d, e

(* As many frames of an answer as it has are the answer.                   *)
LEMMA OwnPackets ==
    ASSUME NEW S, NEW D, NEW s, NEW b, NEW p, NEW A,
           Parted(S, D, s, b, p, A), NEW q, AllOf(s, p, q),
           Len(p) = Len(D[q].data), Len(p) # 0
    PROVE  PacketsAre(Packets(b), D[q]) /\ s[p[1]].k = 1
<1>0. /\ Stream(S, D, s) /\ b = Bytes(s) /\ b \in Seq(Byte)
      /\ p = PacketStarts(b) /\ Layout(S, D, s, 1, p, A)
  BY DEF Parted
<1>1. PICK n, x : n = Len(p) /\ x = s[p[1]].k
  OBVIOUS
<1>2. n \in Nat /\ DOMAIN p = 1..n
  BY <1>0, <1>1, LenProperties DEF Layout
<1>3. 1 \in 1..n /\ n \in 1..n /\ n > 0
  BY <1>1, <1>2
<1>4. ASSUME NEW j \in 1..n
      PROVE  s[p[j]].k \in 1..n
  <2>1. WholeAt(S, D, s, 1, p[j], A[2 * j - 1])
    BY <1>0, <1>1 DEF Layout
  <2>2. p[j] \in 1..Len(s)
    BY <2>1 DEF WholeAt
  <2>3. Proper(S, D, s[p[j]])
    BY <1>0, <2>2 DEF Stream
  <2>4. s[p[j]].q = q
    BY <1>1, Zenon DEF AllOf
  <2> QED
    BY <1>1, <2>3, <2>4 DEF Proper
<1>5. x \in 1..n
  BY <1>1, <1>3, <1>4
<1>6. \A j \in 1..n : s[p[j]].k = x + (j - 1)
  <2>1. Len(p) > 0 => s[p[1]].k = x
    BY <1>1
  <2>2. x \in Nat
    BY <1>2, <1>5
  <2>3. Stream(S, D, s) /\ Layout(S, D, s, 1, p, A)
    BY <1>0
  <2>4. \A j \in 1..Len(p) : s[p[j]].k = x + (j - 1)
    BY <2>1, <2>2, <2>3, FramesRise
  <2> QED
    BY <1>1, <2>4, Zenon
<1>7. x = 1
  <2>1. x + (n - 1) \in 1..n
    BY <1>3, <1>4, <1>6
  <2> QED
    BY <1>2, <1>5, <2>1
<1>8. ASSUME NEW j \in 1..n
      PROVE  s[p[j]].k = j
  <2>1. 1 + (j - 1) = j
    OBVIOUS
  <2> QED
    BY <1>6, <1>7, <2>1
<1>9. PICK P : P = Packets(b)
  OBVIOUS
<1>10. DOMAIN P = 1..n /\ P = [j \in 1..n |-> P[j]]
  BY <1>0, <1>2, <1>9 DEF Packets
<1>11. ASSUME NEW j \in 1..n
       PROVE  FrameHolds(P[j], D[q].data[j])
  <2>1. j \in 1..Len(p)
    BY <1>1
  <2>2. FrameHolds(Packets(b)[j], D[s[p[j]].q].data[s[p[j]].k])
    BY <2>1, PacketIs
  <2>3. s[p[j]].q = q /\ s[p[j]].k = j
    BY <1>8, <2>1, Zenon DEF AllOf
  <2> QED
    BY <1>9, <2>2, <2>3, Zenon
<1> QED
  BY <1>1, <1>7, <1>9, <1>10, <1>11, Zenon DEF PacketsAre

LEMMA TagFrameRead ==
    ASSUME NEW c, ~IgnoresPhase(c), NEW t \in Tags,
           NEW g, FrameHolds(g, TagData(t, c))
    PROVE  FrameOutcome(g, c) = Value(Seen(t, c)) /\ g[2] # 10
<1>1. PICK d, n : d = TagData(t, c) /\ n = Len(d)
  OBVIOUS
<1>2. Complete(g) /\ Checks(g) /\ Data(g) = d /\ g[2] = n + 3
  BY <1>1 DEF FrameHolds
<1>3. n \in 6..70 /\ n # 7
  BY <1>1, TagDataGood
<1>4. \A m \in 6..70 : m # 7 => m + 3 # 10 /\ m + 3 # 5
  OBVIOUS
<1>5. g[2] # 10 /\ g[2] # 5
  BY <1>2, <1>3, <1>4, Zenon
<1>6. IsTag(d, c) /\ TagOf(d, c) = Seen(t, c)
  BY <1>1, TagIsRead
<1>7. FrameOutcome(g, c) = Value(TagOf(d, c))
  BY <1>2, <1>5, <1>6, Zenon DEF FrameOutcome
<1> QED
  BY <1>5, <1>6, <1>7, Zenon

LEMMA TotalFrameRead ==
    ASSUME NEW c, c.op \in Inventories, NEW n \in Nat, n < 256 * 256 * 256,
           NEW g, FrameHolds(g, Total(n, c).data)
    PROVE  FrameOutcome(g, c) = Value(Total(n, c).means) /\ g[2] = 10
<1>1. PICK d : d = Total(n, c).data
  OBVIOUS
<1>2. Len(d) = 7 /\ TotalOf(d, c) = Total(n, c).means
  BY <1>1, TotalForm
<1>3. Complete(g) /\ Checks(g) /\ Data(g) = d /\ g[2] = Len(d) + 3
  BY <1>1 DEF FrameHolds
<1>4. g[2] = 10
  BY <1>2, <1>3
<1>5. FrameOutcome(g, c) = Value(TotalOf(d, c))
  BY <1>3, <1>4, Zenon DEF FrameOutcome
<1> QED
  BY <1>2, <1>4, <1>5, Zenon

(* What the packets P of b are parsed to: x, what each of them is.         *)
ParsedTo(P, x, stops, totals, tags, o) ==
    o = IF P # <<>> /\ TooSoon(Last(P)) THEN Unparsed
        ELSE IF stops # {} THEN x[Max(stops)]
        ELSE IF totals = {} THEN Panics
        ELSE Value(<<x[Min(totals)].value,
                     [k \in DOMAIN tags |-> tags[k].value]>>)

LEMMA ParsedForm ==
    ASSUME NEW b, NEW c, NEW P, P = Packets(b),
           NEW x, x = [k \in DOMAIN P |-> FrameOutcome(P[k], c)],
           NEW stops, stops = {k \in DOMAIN P : x[k].is # "value"},
           NEW totals, totals = {k \in DOMAIN P : P[k][2] = 10},
           NEW tags, tags = SelectedBack(x, DOMAIN P \ totals)
    PROVE  ParsedTo(P, x, stops, totals, tags, ParseTags(b, c))
BY DEF ParsedTo, ParseTags

(* The tags of an answer, the last one first, and its total.               *)
LEMMA ListingRead ==
    ASSUME NEW c, c.op \in Inventories, ~IgnoresPhase(c),
           NEW n \in 0..MaxTags,
           NEW tags \in [1..n -> Tags], NEW a, a = Listing(tags, c),
           NEW b, PacketsAre(Packets(b), a)
    PROVE  ParseTags(b, c) = a.means
<1>1. n \in Nat /\ n < 256 * 256 * 256 /\ n + 1 \in 1..(n + 1)
  BY BoundsAssumption
<1>2. PICK P, N : P = Packets(b) /\ N = n + 1
  OBVIOUS
<1>3. /\ Len(a.data) = N
      /\ \A i \in 1..n : a.data[i] = TagData(tags[i], c)
      /\ a.data[N] = Total(n, c).data
  BY <1>2, ListingForm DEF ListingFrames
<1>4. /\ DOMAIN P = 1..N /\ P = [j \in 1..N |-> P[j]]
      /\ \A j \in 1..N : FrameHolds(P[j], a.data[j])
  BY <1>2, <1>3, Zenon DEF PacketsAre
<1>5. Len(P) = N /\ P # <<>> /\ Last(P) = P[N]
  <2>1. Len(P) = N
    BY <1>1, <1>2, <1>4
  <2>2. P # <<>>
    BY <1>1, <1>2, <1>4
  <2> QED
    BY <2>1, <2>2 DEF Last
<1>6. PICK x : x = [k \in DOMAIN P |-> FrameOutcome(P[k], c)]
  OBVIOUS
<1>7. \A i \in 1..n : x[i] = Value(Seen(tags[i], c)) /\ P[i][2] # 10
  <2> SUFFICES ASSUME NEW i \in 1..n
               PROVE  x[i] = Value(Seen(tags[i], c)) /\ P[i][2] # 10
    OBVIOUS
  <2>1. i \in 1..N /\ tags[i] \in Tags
    BY <1>1, <1>2
  <2>2. PICK t : t = tags[i]
    OBVIOUS
  <2>3. FrameHolds(P[i], TagData(t, c)) /\ t \in Tags
    BY <1>3, <1>4, <2>1, <2>2, Zenon
  <2>4. FrameOutcome(P[i], c) = Value(Seen(t, c)) /\ P[i][2] # 10
    BY <2>3, TagFrameRead
  <2> QED
    BY <1>4, <1>6, <2>1, <2>2, <2>4, Zenon
<1>8. x[N] = Value(Total(n, c).means) /\ P[N][2] = 10
  <2>1. FrameHolds(P[N], Total(n, c).data)
    BY <1>1, <1>2, <1>3, <1>4, Zenon
  <2>2. FrameOutcome(P[N], c) = Value(Total(n, c).means) /\ P[N][2] = 10
    BY <1>1, <2>1, TotalFrameRead
  <2> QED
    BY <1>1, <1>2, <1>4, <1>6, <2>2, Zenon
<1>9. \A k \in 1..N : k \in 1..n \/ k = N
  BY <1>1, <1>2
<1>10. PICK stops, totals :
           /\ stops = {k \in DOMAIN P : x[k].is # "value"}
           /\ totals = {k \in DOMAIN P : P[k][2] = 10}
  OBVIOUS
<1>11. stops = {}
  <2>1. \A v : Value(v).is = "value"
    BY DEF Value
  <2>2. ASSUME NEW k \in 1..N
        PROVE  x[k].is = "value"
    <3>1. CASE k \in 1..n
      <4>1. x[k] = Value(Seen(tags[k], c))
        BY <1>7, <3>1, Zenon
      <4> QED
        BY <2>1, <4>1
    <3>2. CASE k = N
      <4>1. x[k] = Value(Total(n, c).means)
        BY <1>8, <3>2, Zenon
      <4> QED
        BY <2>1, <4>1
    <3> QED
      BY <1>9, <3>1, <3>2
  <2> QED
    BY <1>4, <1>10, <2>2
<1>12. totals = {N} /\ DOMAIN P \ totals = 1..n
  <2>1. N \in 1..N /\ ~(N \in 1..n) /\ \A k \in 1..n : k \in 1..N
    BY <1>1, <1>2
  <2>2. totals = {N}
    BY <1>4, <1>7, <1>8, <1>9, <1>10, <2>1
  <2> QED
    BY <1>4, <1>9, <2>1, <2>2
<1>13. Min(totals) = N
  <2>1. N \in Int
    BY <1>1, <1>2
  <2>2. N <= N
    BY <2>1
  <2> QED
    BY <1>12, <2>2 DEF Min
<1>14. PICK back : back = SelectedBack(x, DOMAIN P \ totals)
  OBVIOUS
<1>15. back = [k \in 1..n |-> x[Nth(1..n, n + 1 - k)]]
  <2>1. Cardinality(1..n) = n
    BY <1>1, NthInterval
  <2> QED
    BY <1>12, <1>14, <2>1, Zenon DEF SelectedBack
<1>16. ASSUME NEW k \in 1..n
       PROVE  back[k].value = Seen(tags[n + 1 - k], c)
  <2>1. PICK i : i = n + 1 - k
    OBVIOUS
  <2>2. i \in 1..n
    BY <1>1, <2>1
  <2>3. Nth(1..n, i) = i
    BY <1>1, <2>2, NthInterval
  <2>4. back[k] = x[i]
    BY <1>15, <2>1, <2>3, Zenon
  <2>5. back[k] = Value(Seen(tags[i], c))
    BY <1>7, <2>2, <2>4, Zenon
  <2> QED
    BY <2>1, <2>5 DEF Value
<1>17. [k \in DOMAIN back |-> back[k].value]
         = [k \in 1..n |-> Seen(tags[n + 1 - k], c)]
  <2>1. DOMAIN back = 1..n
    BY <1>15
  <2> QED
    BY <1>16, <2>1, Zenon
<1>18. ParsedTo(P, x, stops, totals, back, ParseTags(b, c))
  BY <1>2, <1>6, <1>10, <1>14, ParsedForm
<1>19. ParseTags(b, c) = Value(<<x[Min(totals)].value,
                                 [k \in DOMAIN back |-> back[k].value]>>)
  <2>1. ~TooSoon(Last(P))
    BY <1>5, <1>8 DEF TooSoon
  <2>2. totals # {}
    BY <1>12
  <2> QED
    BY <1>11, <1>18, <2>1, <2>2, Zenon DEF ParsedTo
<1>20. x[Min(totals)].value = Total(n, c).means
  BY <1>8, <1>13 DEF Value
<1>21. a.means = Value(<<Total(n, c).means,
                         [k \in 1..n |-> Seen(tags[n + 1 - k], c)]>>)
  <2>1. Len(tags) = n
    BY <1>1, FunctionIsSeq
  <2> QED
    BY <2>1 DEF Listing, Says
<1> QED
  BY <1>17, <1>19, <1>20, <1>21, Zenon

(* An antenna that could not be used leaves nothing to be read.            *)
LEMMA UnusableRead ==
    ASSUME NEW c, c.op = "FastSwitchAntInventory", NEW a, a = Unusable(c),
           NEW b, PacketsAre(Packets(b), a)
    PROVE  ParseTags(b, c) = Unparsed
<1>1. PICK P, d, u : /\ P = Packets(b) /\ d = <<1, 34>>
                     /\ u = <<0, 0, 0, 0, 0, 1, 4>>
  OBVIOUS
<1>2. a.data = <<d, u>> /\ Len(d) = 2 /\ d[2] = 34 /\ Len(u) = 7
  BY <1>1 DEF Unusable, Says
<1>3. Len(a.data) = 2 /\ a.data[1] = d /\ a.data[2] = u
  BY <1>2
<1>4. /\ DOMAIN P = 1..2 /\ P = [j \in 1..2 |-> P[j]]
      /\ \A j \in 1..2 : FrameHolds(P[j], a.data[j])
  BY <1>1, <1>3, Zenon DEF PacketsAre
<1>5. FrameHolds(P[1], d) /\ FrameHolds(P[2], u)
  <2>1. 1 \in 1..2 /\ 2 \in 1..2
    OBVIOUS
  <2> QED
    BY <1>3, <1>4, <2>1, Zenon
<1>6. /\ Complete(P[1]) /\ Checks(P[1]) /\ Data(P[1]) = d
      /\ P[1][2] = 5 /\ P[2][2] = 10
  <2>1. P[1][2] = 2 + 3 /\ P[2][2] = 7 + 3
    BY <1>2, <1>5, Zenon DEF FrameHolds
  <2> QED
    BY <1>5, <2>1 DEF FrameHolds
<1>7. Complete(P[2]) /\ Checks(P[2])
  BY <1>5 DEF FrameHolds
<1>8. PICK x : x = [k \in DOMAIN P |-> FrameOutcome(P[k], c)]
  OBVIOUS
<1>9. x[1] = Unparsed
  <2>1. FrameOutcome(P[1], c) =
            IF d[2] \in ErrorCodes \cup {Success} THEN Unparsed ELSE Panics
    BY <1>6 DEF FrameOutcome
  <2>2. d[2] \in ErrorCodes
    BY <1>2 DEF ErrorCodes
  <2>3. 1 \in DOMAIN P
    BY <1>4
  <2> QED
    BY <1>8, <2>1, <2>2, <2>3
<1>10. x[2].is = "value"
  <2>1. FrameOutcome(P[2], c) = Value(TotalOf(Data(P[2]), c))
    BY <1>6, <1>7, Zenon DEF FrameOutcome
  <2>2. 2 \in DOMAIN P
    BY <1>4
  <2> QED
    BY <1>8, <2>1, <2>2 DEF Value
<1>11. PICK stops, totals :
           /\ stops = {k \in DOMAIN P : x[k].is # "value"}
           /\ totals = {k \in DOMAIN P : P[k][2] = 10}
  OBVIOUS
<1>12. stops = {1}
  <2>1. \A k \in 1..2 : k = 1 \/ k = 2
    OBVIOUS
  <2>2. Unparsed.is # "value" /\ 1 \in 1..2
    BY DEF Unparsed
  <2>3. \A k \in 1..2 : x[k].is # "value" <=> k = 1
    BY <1>9, <1>10, <2>1, <2>2
  <2> QED
    BY <1>4, <1>11, <2>2, <2>3
<1>13. Max(stops) = 1
  BY <1>12 DEF Max
<1>14. PICK back : back = SelectedBack(x, DOMAIN P \ totals)
  OBVIOUS
<1>15. ParsedTo(P, x, stops, totals, back, ParseTags(b, c))
  BY <1>1, <1>8, <1>11, <1>14, ParsedForm
<1> QED
  BY <1>9, <1>12, <1>13, <1>15 DEF ParsedTo

(* An answer of one frame is decoded to what is meant by it.               *)
LEMMA DecodedIsMeant ==
    ASSUME NEW c, c.op \in OneFrameOps, NEW a \in Answers(c), NEW d,
           a.data = <<d>>, NEW v, v = Decode(c, Len(d) + 3, d),
           v.is \in {"value", "error"},
           ~(TakesErrorForValue(c) /\ a.means.is = "error")
    PROVE  v = a.means
<1>1. CASE a = Fail
  <2>1. PICK u : u = <<17>>
    OBVIOUS
  <2>2. Fail.data = <<u>> /\ Fail.means = Error(17)
    BY <2>1 DEF Fail, Says
  <2>3. d = u
    <3>1. <<d>> = <<u>> /\ <<d>>[1] = d /\ <<u>>[1] = u
      BY <1>1, <2>2
    <3> QED
      BY <3>1, Zenon
  <2>4. Len(d) = 1 /\ d[1] = 17
    BY <2>1, <2>3
  <2>5. ~TakesErrorForValue(c)
    BY <1>1, <2>2 DEF Error
  <2>6. 17 \in ErrorCodes /\ 17 # Success /\ 17 \notin RfLinkProfile
    BY DEF ErrorCodes, Success, RfLinkProfile
  <2>7. \A w : Status(17, w) = Error(17)
    BY <2>6 DEF Status
  <2>8. \A w : StatusOrValue(d, w) = Error(17)
    BY <2>4, <2>7 DEF StatusOrValue
  <2>9. \A w : AtLeast(1, d, w) = w
    BY <2>4 DEF AtLeast
  <2>10. AtLeast(2, d, Value(SubSeq(d, 1, 2))).is = "panic"
    BY <2>4 DEF AtLeast, Panics
  <2>11. RegionOf(Len(d) + 3, d).is = "unparsed"
    BY <2>4 DEF RegionOf, Unparsed
  <2>12. CASE c.op \in Setters
    <3>1. v = AtLeast(1, d, Status(d[1], Value(<<>>)))
      BY <2>12 DEF Decode, Setters
    <3> QED
      BY <1>1, <2>2, <2>4, <2>7, <2>9, <3>1
  <2>13. CASE c.op = "SetBeeperMode"
    <3>1. v = StatusOrValue(d, Value(c.args))
      BY <2>13 DEF Decode, Setters
    <3> QED
      BY <1>1, <2>2, <2>8, <3>1
  <2>14. CASE c.op = "GetFirmwareVersion"
    <3>1. v = AtLeast(2, d, Value(SubSeq(d, 1, 2)))
      BY <2>14 DEF Decode, Setters
    <3> QED
      BY <2>10, <3>1
  <2>15. CASE c.op = "GetReaderTemperature"
    <3>1. \E w : v = StatusOrValue(d, w)
      BY <2>15 DEF Decode, Setters
    <3> QED
      BY <1>1, <2>2, <2>8, <3>1
  <2>16. CASE c.op = "GetRfLinkProfile"
    <3>1. v = AtLeast(1, d, IF d[1] \in RfLinkProfile THEN Profile(d[1])
                            ELSE StatusOrValue(d, Profile(d[1])))
      BY <2>16 DEF Decode, Setters
    <3> QED
      BY <1>1, <2>2, <2>4, <2>6, <2>8, <2>9, <3>1
  <2>17. CASE c.op = "GetFrequencyRegion"
    <3>1. v = AtLeast(1, d, RegionOf(Len(d) + 3, d))
      BY <2>17 DEF Decode, Setters
    <3> QED
      BY <2>9, <2>11, <3>1
  <2> QED
    BY <2>5, <2>12, <2>13, <2>14, <2>15, <2>16, <2>17
       DEF OneFrameOps, TakesErrorForValue
<1>2. CASE a # Fail
  <2>1. PICK e, w : /\ a = Says(<<e>>, w) /\ Answer(c.op, e, w)
                    /\ c.op = "SetBeeperMode" => w = Value(c.args)
    BY <1>2, AnswersCases
  <2>2. a.data = <<e>> /\ a.means = w
    BY <2>1 DEF Says
  <2>3. d = e
    <3>1. <<d>> = <<e>> /\ <<d>>[1] = d /\ <<e>>[1] = e
      BY <2>2
    <3> QED
      BY <3>1, Zenon
  <2>4. Decoded(c.op, e, w, c)
    <3>1. Answer(c.op, e, w)
      BY <2>1
    <3> QED
      BY <3>1, AnswerDecoded
  <2>5. v = IF c.op = "SetBeeperMode" THEN Value(c.args) ELSE w
    BY <2>3, <2>4, Zenon DEF Decoded
  <2> QED
    BY <2>1, <2>2, <2>5
<1> QED
  BY <1>1, <1>2

(* What is made of a buffer that opens with a frame of the command.        *)
OpenedTo(c, b, d, n, o) ==
    IF c.op \in Inventories
    THEN o = LET read == StatusOrValue(d, ParseTags(b, c))
             IN IF read.is = "error" THEN Unparsed ELSE read
    ELSE o = IF Checks(b) THEN Decode(c, n + 3, d) ELSE Unparsed

LEMMA OpenedOutcome ==
    ASSUME NEW c, NEW b, NEW d, NEW n, OpensWith(b, Code[c.op], d, n)
    PROVE  OpenedTo(c, b, d, n, Outcome(b, c))
<1>1. CASE c.op \in Inventories
  BY <1>1 DEF Outcome, OpensWith, OpenedTo
<1>2. CASE c.op \notin Inventories
  BY <1>2 DEF Outcome, OpensWith, OpenedTo
<1> QED
  BY <1>1, <1>2

-----------------------------------------------------------------------------
(* A call that took the frames of one answer to its command, all of them.  *)
TookWhole(S, D, s, c, q) ==
    /\ Stream(S, D, s) /\ S[q] = c /\ c \in Requests /\ ~IgnoresPhase(c)
    /\ \A k \in DOMAIN TakenIn(S, D, s, c) : TakenIn(S, D, s, c)[k].id = q
    /\ Len(TakenIn(S, D, s, c)) = Len(D[q].data)
    /\ ~(TakesErrorForValue(c) /\ D[q].means.is = "error")

LEMMA WholeSimple ==
    ASSUME NEW S, NEW D, NEW s, NEW b, NEW p, NEW A, NEW w, NEW f, NEW d,
           NEW n, Opened(S, D, s, b, p, A, w, f, d, n),
           NEW c, NEW q, TookWhole(S, D, s, c, q), c.op \notin Inventories,
           Outcome(b, c).is \in {"value", "error"}
    PROVE  Outcome(b, c) = D[q].means
<1>1. PICK e, o, T : /\ e = s[1] /\ o = Outcome(b, c)
                     /\ T = TakenIn(S, D, s, c)
  OBVIOUS
<1>2. /\ S[e.q] \in Requests /\ D[e.q] \in Answers(S[e.q])
      /\ d = D[e.q].data[e.k] /\ e.k \in 1..Len(D[e.q].data) /\ n = Len(d)
      /\ OpensWith(b, Code[S[e.q].op], d, n)
  BY <1>1 DEF Opened, Proper, FrameIs, DataOf, CodeIn
<1>3. T = <<AtomIn(S, D, e, "head")>>
  <2>1. PICK g : g = <<1>>
    OBVIOUS
  <2>2. T = [k \in DOMAIN g |-> AtomIn(S, D, s[g[k]], "head")]
    BY <1>1, <2>1 DEF TakenIn
  <2>3. DOMAIN g = 1..1 /\ g[1] = 1 /\ \A k \in 1..1 : k = 1
    BY <2>1
  <2>4. [k \in 1..1 |-> AtomIn(S, D, s[g[k]], "head")]
          = [k \in 1..1 |-> AtomIn(S, D, e, "head")]
    BY <1>1, <2>3, Zenon
  <2>5. \A x : [k \in 1..1 |-> x] = <<x>>
    OBVIOUS
  <2> QED
    BY <2>2, <2>3, <2>4, <2>5, Zenon
<1>4. /\ S[q] = c /\ c \in Requests
      /\ \A k \in DOMAIN T : T[k].id = q
      /\ Len(T) = Len(D[q].data)
      /\ ~(TakesErrorForValue(c) /\ D[q].means.is = "error")
  BY <1>1, Zenon DEF TookWhole
<1>5. PICK h : h = AtomIn(S, D, e, "head")
  OBVIOUS
<1>6. e.q = q
  <2>1. 1 \in DOMAIN T /\ T[1] = h
    BY <1>3, <1>5
  <2>2. h.id = e.q
    BY <1>5 DEF AtomIn
  <2> QED
    BY <1>4, <2>1, <2>2
<1>7. Len(D[q].data) = 1
  BY <1>3, <1>4, <1>5
<1>8. e.k = 1
  BY <1>2, <1>6, <1>7
<1>9. c.op \in OneFrameOps
  BY <1>4, OpsOfRequests
<1>10. D[q] \in Answers(c)
  BY <1>2, <1>4, <1>6
<1>11. D[q].data = <<d>>
  <2>1. PICK g : D[q].data = <<g>>
    BY <1>9, <1>10, OneFrameGood
  <2>2. d = D[q].data[1]
    BY <1>2, <1>6, <1>8
  <2>3. <<g>>[1] = g
    OBVIOUS
  <2> QED
    BY <2>1, <2>2, <2>3, Zenon
<1>12. OpensWith(b, Code[c.op], d, n)
  BY <1>2, <1>4, <1>6
<1>13. o = IF Checks(b) THEN Decode(c, n + 3, d) ELSE Unparsed
  <2>1. OpenedTo(c, b, d, n, o)
    BY <1>1, <1>12, OpenedOutcome
  <2> QED
    BY <2>1 DEF OpenedTo
<1>14. o.is \in {"value", "error"} /\ o # Unparsed
  <2>1. o.is \in {"value", "error"}
    BY <1>1
  <2> QED
    BY <2>1 DEF Unparsed
<1>15. o = Decode(c, Len(d) + 3, d)
  <2>1. n = Len(d)
    BY <1>2
  <2> QED
    BY <1>13, <1>14, <2>1, Zenon
<1>16. ~(TakesErrorForValue(c) /\ D[q].means.is = "error")
  BY <1>4
<1>17. o = D[q].means
  BY <1>9, <1>10, <1>11, <1>14, <1>15, <1>16, DecodedIsMeant
<1> QED
  BY <1>1, <1>17

LEMMA WholeInventory ==
    ASSUME NEW S, NEW D, NEW s, NEW b, NEW p, NEW A, NEW w, NEW f, NEW d,
           NEW n, Opened(S, D, s, b, p, A, w, f, d, n),
           NEW c, NEW q, TookWhole(S, D, s, c, q), c.op \in Inventories,
           Outcome(b, c).is \in {"value", "error"}
    PROVE  Outcome(b, c) = D[q].means
<1>1. PICK e, o, T, a : /\ e = s[1] /\ o = Outcome(b, c) /\ a = D[q]
                        /\ T = TakenIn(S, D, s, c)
  OBVIOUS
<1>2. /\ S[e.q] \in Requests /\ D[e.q] \in Answers(S[e.q])
      /\ d = D[e.q].data[e.k] /\ e.k \in 1..Len(D[e.q].data) /\ n = Len(d)
      /\ OpensWith(b, Code[S[e.q].op], d, n)
      /\ p[1] = 1 /\ 1 \in 1..Len(p) /\ Len(p) \in Nat
  BY <1>1 DEF Opened, Proper, FrameIs, DataOf, CodeIn
<1>3. Parted(S, D, s, b, p, A) /\ DOMAIN p = 1..Len(p)
  <2>1. Parted(S, D, s, b, p, A)
    BY DEF Opened, Parted
  <2>2. p \in Seq(Nat)
    BY <2>1 DEF Parted, Layout
  <2> QED
    BY <2>1, <2>2, LenProperties
<1>4. /\ S[q] = c /\ c \in Requests /\ ~IgnoresPhase(c)
      /\ \A k \in DOMAIN T : T[k].id = q
      /\ Len(T) = Len(a.data)
  BY <1>1, Zenon DEF TookWhole
<1>5. T = [k \in 1..Len(p) |-> AtomIn(S, D, s[p[k]], "head")]
  <2>1. p = PacketStarts(Bytes(s))
    BY <1>3 DEF Parted
  <2> QED
    BY <1>1, <1>3, <2>1, Zenon DEF TakenIn
<1>6. DOMAIN T = 1..Len(p) /\ Len(T) = Len(p)
  <2>1. DOMAIN T = 1..Len(p)
    BY <1>5
  <2> QED
    BY <1>2, <2>1
<1>7. AllOf(s, p, q)
  <2> SUFFICES ASSUME NEW k \in 1..Len(p)
               PROVE  s[p[k]].q = q
    BY DEF AllOf
  <2>1. T[k].id = q /\ T[k] = AtomIn(S, D, s[p[k]], "head")
    BY <1>4, <1>5, <1>6
  <2> QED
    BY <2>1 DEF AtomIn
<1>8. Len(p) = Len(D[q].data) /\ Len(p) # 0
  <2>1. Len(p) = Len(D[q].data)
    BY <1>1, <1>4, <1>6, Zenon
  <2>2. Len(p) # 0
    BY <1>2
  <2> QED
    BY <2>1, <2>2
<1>9. PacketsAre(Packets(b), D[q]) /\ s[p[1]].k = 1
  BY <1>3, <1>7, <1>8, OwnPackets
<1>10. e.k = 1 /\ e.q = q
  BY <1>1, <1>2, <1>7, <1>9 DEF AllOf
<1>11. a \in Answers(c) /\ d = a.data[1] /\ n = Len(d)
  BY <1>1, <1>2, <1>4, <1>10
<1>12. OpenedTo(c, b, d, n, o)
  <2>1. OpensWith(b, Code[c.op], d, n)
    BY <1>2, <1>4, <1>10
  <2> QED
    BY <1>1, <2>1, OpenedOutcome
<1>13. o = LET read == StatusOrValue(d, ParseTags(b, c))
           IN IF read.is = "error" THEN Unparsed ELSE read
  BY <1>12 DEF OpenedTo
<1>14. o # Unparsed
  BY <1>1 DEF Unparsed
<1>15. ASSUME a = Fail
       PROVE  o = a.means
  <2>1. d = <<17>>
    <3>1. a.data = <<<<17>>>>
      BY <1>15 DEF Fail, Says
    <3>2. \A x : <<x>>[1] = x
      OBVIOUS
    <3> QED
      BY <1>11, <3>1, <3>2, Zenon
  <2>2. Len(d) = 1 /\ d[1] = 17
    BY <2>1
  <2>3. 17 # Success /\ 17 \in ErrorCodes
    BY DEF Success, ErrorCodes
  <2>4. StatusOrValue(d, ParseTags(b, c)) = Error(17)
    BY <2>2, <2>3 DEF StatusOrValue, Status
  <2>5. o = Unparsed
    BY <1>13, <2>4 DEF Error
  <2> QED
    BY <1>14, <2>5
<1>16. ASSUME NEW m \in 0..MaxTags, NEW tags \in [1..m -> Tags],
              a = Listing(tags, c)
       PROVE  o = a.means
  <2>1. PacketsAre(Packets(b), a)
    BY <1>1, <1>9
  <2>2. ParseTags(b, c) = a.means
    BY <1>4, <1>16, <2>1, ListingRead
  <2>3. a.means.is = "value"
    BY <1>16 DEF Listing, Says, Value
  <2>4. Len(d) # 1
    <3>1. ListingFrames(a, tags, c, m)
      BY <1>16, ListingForm
    <3>2. m \in Nat /\ m < 256 * 256 * 256
      BY BoundsAssumption
    <3>3. CASE m = 0
      <4>1. d = Total(m, c).data
        BY <1>11, <3>1, <3>3 DEF ListingFrames
      <4>2. Len(Total(m, c).data) = 7
        BY <3>2, TotalForm
      <4> QED
        BY <4>1, <4>2
    <3>4. CASE m # 0
      <4>1. 1 \in 1..m
        BY <3>2, <3>4
      <4>2. d = TagData(tags[1], c) /\ tags[1] \in Tags
        BY <1>11, <3>1, <4>1 DEF ListingFrames
      <4>3. Len(d) \in 6..70
        BY <4>2, TagDataGood
      <4>4. \A x \in 6..70 : x # 1
        OBVIOUS
      <4> QED
        BY <4>3, <4>4, Zenon
    <3> QED
      BY <3>3, <3>4
  <2>5. StatusOrValue(d, ParseTags(b, c)) = a.means
    BY <2>2, <2>4 DEF StatusOrValue
  <2> QED
    BY <1>13, <2>3, <2>5
<1>17. ASSUME c.op = "FastSwitchAntInventory", a = Unusable(c)
       PROVE  o = a.means
  <2>1. ParseTags(b, c) = Unparsed
    BY <1>1, <1>9, <1>17, UnusableRead
  <2>2. Len(d) = 2
    BY <1>11, <1>17, UnusableForm
  <2>3. o = Unparsed
    BY <1>13, <2>1, <2>2 DEF StatusOrValue, Unparsed
  <2> QED
    BY <1>14, <2>3
<1>18. o = a.means
  <2>1. \/ a = Fail
        \/ \E m \in 0..MaxTags : \E tags \in [1..m -> Tags] :
              a = Listing(tags, c)
        \/ c.op = "FastSwitchAntInventory" /\ a = Unusable(c)
    BY <1>11, InventoryCases
  <2> QED
    BY <1>15, <1>16, <1>17, <2>1
<1> QED
  BY <1>1, <1>18

(* It returns what was meant.                                              *)
LEMMA ReadIsAnswer ==
    ASSUME NEW S, NEW D, NEW s, NEW c, NEW q, TookWhole(S, D, s, c, q),
           s # <<>>, s[1].i = 1,
           Outcome(Bytes(s), c).is \in {"value", "error"}
    PROVE  Outcome(Bytes(s), c) = D[q].means
<1>1. Stream(S, D, s) /\ c \in Requests
  BY DEF TookWhole
<1>2. Unparsed.is \notin {"value", "error"}
  BY DEF Unparsed
<1>3. s # <<>> /\ s[1].i = 1
  OBVIOUS
<1>4. ~(1 + SizeIn(D, s[1]) > Len(s) + 1)
  BY <1>1, <1>2, <1>3, CutUnparsed
<1>5. PICK A : A = AtomsIn(S, D, s)
  OBVIOUS
<1>6. PICK b, p, w, f, d, n : Opened(S, D, s, b, p, A, w, f, d, n)
  BY <1>1, <1>3, <1>4, <1>5, OpenedBuffer
<1>7. b = Bytes(s)
  BY <1>6 DEF Opened
<1>8. Outcome(b, c).is \in {"value", "error"}
  BY <1>7
<1>9. CASE c.op \in Inventories
  BY <1>6, <1>7, <1>8, <1>9, WholeInventory
<1>10. CASE c.op \notin Inventories
  BY <1>6, <1>7, <1>8, <1>10, WholeSimple
<1> QED
  BY <1>9, <1>10

(* What is taken are frames of the buffer, one at least.                   *)
LEMMA TakenFrames ==
    ASSUME NEW S, NEW D, NEW s, Stream(S, D, s), NEW c \in Requests,
           s # <<>>, s[1].i = 1,
           Outcome(Bytes(s), c).is \in {"value", "error"},
           NEW T, T = TakenIn(S, D, s, c)
    PROVE  /\ 1 \in DOMAIN T
           /\ \A k \in DOMAIN T : \E i \in 1..Len(s) : T[k].id = s[i].q
<1>1. Unparsed.is \notin {"value", "error"}
  BY DEF Unparsed
<1>2. s # <<>> /\ s[1].i = 1
  OBVIOUS
<1>3. ~(1 + SizeIn(D, s[1]) > Len(s) + 1)
  BY <1>1, <1>2, CutUnparsed
<1>4. PICK A : A = AtomsIn(S, D, s)
  OBVIOUS
<1>5. PICK b, p, w, f, d, n : Opened(S, D, s, b, p, A, w, f, d, n)
  BY <1>2, <1>3, <1>4, OpenedBuffer
<1>6. /\ p = PacketStarts(Bytes(s)) /\ 1 \in 1..Len(p)
      /\ Layout(S, D, s, 1, p, A)
  BY <1>5 DEF Opened
<1>7. DOMAIN p = 1..Len(p)
  <2>1. p \in Seq(Nat)
    BY <1>6 DEF Layout
  <2> QED
    BY <2>1, LenProperties
<1>8. ASSUME NEW k \in 1..Len(p)
      PROVE  p[k] \in 1..Len(s)
  <2>1. WholeAt(S, D, s, 1, p[k], A[2 * k - 1])
    BY <1>6 DEF Layout
  <2> QED
    BY <2>1 DEF WholeAt
<1>9. \A e : AtomIn(S, D, e, "head").id = e.q
  BY DEF AtomIn
<1>10. CASE c.op \in Inventories
  <2>1. T = [k \in 1..Len(p) |-> AtomIn(S, D, s[p[k]], "head")]
    BY <1>6, <1>7, <1>10, Zenon DEF TakenIn
  <2>2. DOMAIN T = 1..Len(p)
    BY <2>1
  <2>3. ASSUME NEW k \in 1..Len(p)
        PROVE  \E i \in 1..Len(s) : T[k].id = s[i].q
    <3>1. T[k] = AtomIn(S, D, s[p[k]], "head")
      BY <2>1
    <3>2. T[k].id = s[p[k]].q
      BY <1>9, <3>1
    <3> QED
      BY <1>8, <3>2
  <2> QED
    BY <1>6, <2>2, <2>3
<1>11. CASE c.op \notin Inventories
  <2>1. PICK g : g = <<1>>
    OBVIOUS
  <2>2. T = [k \in DOMAIN g |-> AtomIn(S, D, s[g[k]], "head")]
    BY <1>11, <2>1 DEF TakenIn
  <2>3. DOMAIN g = 1..1 /\ g[1] = 1 /\ 1 \in 1..1 /\ \A k \in 1..1 : k = 1
    BY <2>1
  <2>4. DOMAIN T = 1..1 /\ T[1] = AtomIn(S, D, s[1], "head")
    BY <2>2, <2>3, Zenon
  <2>5. 1 \in 1..Len(s)
    <3>1. s \in Seq(Elem)
      BY DEF Stream
    <3>2. Len(s) \in Nat /\ Len(s) # 0
      BY <1>2, <3>1, LenProperties, EmptySeq
    <3> QED
      BY <3>2
  <2>6. T[1].id = s[1].q
    BY <1>9, <2>4
  <2> QED
    BY <2>3, <2>4, <2>5, <2>6, Zenon
<1> QED
  BY <1>10, <1>11

-----------------------------------------------------------------------------
(* The invariant of what is returned: a call that has returned did so with *)
(* frames of answers given, and with what was meant if they are all of one.*)
ReadBy(q) ==
    status[q] = "replied" /\ q \notin strays =>
      /\ q \in 1..last /\ 1 \in DOMAIN took[q]
      /\ \A k \in DOMAIN took[q] :
            took[q][k].id \in 1..last /\ said[took[q][k].id] # Silent
      /\ \A p \in Ids :
            WholeAnswer(q, p) /\ ~IgnoresPhase(sent[q])
              => outcome[q] = said[p].means

ReadInv ==
    /\ LinkInv
    /\ DOMAIN outcome = Ids /\ DOMAIN took = Ids
    /\ \A q \in Ids : ReadBy(q)

LEMMA ReadInvSays == ReadInv => AnswersAreRead
<1> SUFFICES ASSUME ReadInv, NEW q \in Ids, NEW p \in Ids,
                    status[q] = "replied", q \notin strays,
                    WholeAnswer(q, p), ~IgnoresPhase(sent[q])
             PROVE  Returns(q, p)
  BY DEF AnswersAreRead
<1>1. outcome[q] = said[p].means
  BY DEF ReadInv, ReadBy
<1> QED
  BY <1>1 DEF Returns

LEMMA ReadInvInit ==
    ASSUME Init
    PROVE  ReadInv
<1>1. LinkInv
  BY LinkInit
<1>2. /\ DOMAIN outcome = Ids /\ DOMAIN took = Ids
      /\ \A q \in Ids : status[q] # "replied"
  BY DEF Init
<1> QED
  BY <1>1, <1>2 DEF ReadInv, ReadBy

(* What a step leaves alone.                                               *)
Keeps(q) ==
    /\ \A x \in 1..last : x \in 1..last' /\ sent'[x] = sent[x]
    /\ \A x \in 1..last : said[x] # Silent => said'[x] = said[x]
    /\ status'[q] = "replied" /\ q \notin strays' =>
         /\ status[q] = "replied" /\ q \notin strays
         /\ outcome'[q] = outcome[q] /\ took'[q] = took[q]

LEMMA ReadByKept ==
    ASSUME NEW q \in Ids, ReadBy(q), Keeps(q)
    PROVE  ReadBy(q)'
<1> SUFFICES ASSUME status'[q] = "replied", q \notin strays'
             PROVE  /\ q \in 1..last' /\ 1 \in DOMAIN took'[q]
                    /\ \A k \in DOMAIN took'[q] :
                          /\ took'[q][k].id \in 1..last'
                          /\ said'[took'[q][k].id] # Silent
                    /\ \A p \in Ids :
                          WholeAnswer(q, p)' /\ ~IgnoresPhase(sent'[q])
                            => outcome'[q] = said'[p].means
  BY DEF ReadBy, Silent, Says, Unparsed, IgnoresPhase, SendsPhase
<1>1. outcome'[q] = outcome[q] /\ took'[q] = took[q]
  BY DEF Keeps
<1>2. /\ q \in 1..last /\ 1 \in DOMAIN took[q]
      /\ \A k \in DOMAIN took[q] :
            took[q][k].id \in 1..last /\ said[took[q][k].id] # Silent
      /\ \A p \in Ids :
            WholeAnswer(q, p) /\ ~IgnoresPhase(sent[q])
              => outcome[q] = said[p].means
  BY DEF Keeps, ReadBy
<1>3. /\ \A x \in 1..last : x \in 1..last' /\ sent'[x] = sent[x]
      /\ \A x \in 1..last : said[x] # Silent => said'[x] = said[x]
  BY DEF Keeps
<1>4. ASSUME NEW k \in DOMAIN took'[q]
      PROVE  took'[q][k].id \in 1..last' /\ said'[took'[q][k].id] # Silent
  <2>1. took[q][k].id \in 1..last /\ said[took[q][k].id] # Silent
    BY <1>1, <1>2
  <2> QED
    BY <1>1, <1>3, <2>1
<1>5. ASSUME NEW p \in Ids, WholeAnswer(q, p)', ~IgnoresPhase(sent'[q])
      PROVE  outcome'[q] = said'[p].means
  <2>1. /\ \A k \in DOMAIN took[q] : took[q][k].id = p
        /\ Len(took[q]) = Len(said'[p].data)
        /\ sent'[p] = sent'[q]
        /\ ~(TakesErrorForValue(sent'[q]) /\ said'[p].means.is = "error")
    BY <1>1, <1>5 DEF WholeAnswer, TakesErrorForValue
  <2>2. took[q][1].id = p
    BY <1>2, <2>1
  <2>3. p \in 1..last /\ said[p] # Silent
    BY <1>2, <2>2
  <2>4. said'[p] = said[p] /\ sent'[p] = sent[p] /\ sent'[q] = sent[q]
    BY <1>2, <1>3, <2>3
  <2>5. WholeAnswer(q, p)
    BY <2>1, <2>4 DEF WholeAnswer
  <2> QED
    BY <1>1, <1>2, <1>5, <2>4, <2>5
<1> QED
  BY <1>1, <1>2, <1>3, <1>4, <1>5

LEMMA ReadByReader ==
    ASSUME ReadInv, NEW n \in Sizes, Receive(n),
           NEW out, out = Outcome(Bytes(Read(n)), sent[last]),
           out.is \in {"value", "error"}, NEW r \in Ids, r = last,
           Read(n)[1].i = 1
    PROVE  ReadBy(r)'
<1>1. n \in 0..Len(line) /\ Waiting /\ LinkInv
  <2>1. Len(line) \in Nat
    BY LenProperties DEF ReadInv, LinkInv
  <2> QED
    BY <2>1, BoundsAssumption DEF Sizes, Receive, ReadInv
<1>2. PICK read, y, m, c : ReadOf(n, read, y, m, c)
  BY <1>1, ReadForm
<1>3. /\ read = Read(n) /\ read[1].i = 1
      /\ read \in Seq(Elem) /\ y \in Seq(Elem) /\ read \o y = buf \o line
      /\ c = sent[last] /\ c \in Requests
  BY <1>2 DEF ReadOf
<1>4. out = Outcome(Bytes(read), c)
  BY <1>3
<1>5. Stream(sent, said, read)
  <2>1. OnLink(sent, said, read \o y)
    BY <1>1, <1>3 DEF LinkInv
  <2> QED
    BY <1>3, <2>1, LinkRest
<1>6. last \in Ids /\ last \in 1..last /\ last <= last
  BY <1>1, BoundsAssumption DEF Waiting, Ids
<1>7. PICK T : T = TakenIn(sent, said, read, c)
  OBVIOUS
<1>8. /\ outcome' = [outcome EXCEPT ![last] = out]
      /\ took' = [took EXCEPT ![last] = T]
      /\ UNCHANGED <<last, sent, said>>
  <2>1. TakenFrom(read, c) = T
    BY <1>7, TakenIs
  <2>2. (CASE out.is = "unparsed" -> "open"
           [] out.is = "panic" -> "panicked"
           [] OTHER -> "replied") = "replied"
    OBVIOUS
  <2> QED
    BY <1>3, <1>4, <2>1, <2>2, Zenon DEF Receive
<1>9. outcome'[r] = out /\ took'[r] = T
  BY <1>6, <1>8 DEF ReadInv
<1>14. read # <<>>
  BY <1>1, <1>3, ReadNotEmpty DEF ReadInv
<1>10. /\ 1 \in DOMAIN T
       /\ \A k \in DOMAIN T : \E i \in 1..Len(read) : T[k].id = read[i].q
  <2>1. Outcome(Bytes(read), c).is \in {"value", "error"}
    BY <1>4
  <2> QED
    <3>1. c \in Requests /\ read # <<>> /\ read[1].i = 1
      BY <1>3, <1>14
    <3> QED
      BY <1>5, <1>7, <2>1, <3>1, TakenFrames
<1>11. ASSUME NEW k \in DOMAIN T
       PROVE  T[k].id \in 1..last /\ said[T[k].id] # Silent
  <2>1. PICK i \in 1..Len(read) : T[k].id = read[i].q
    BY <1>10
  <2>2. PICK z : z = read \o y
    OBVIOUS
  <2>3. Len(z) = Len(read) + Len(y) /\ z[i] = read[i]
    <3>1. read \in Seq(Elem) /\ y \in Seq(Elem)
      BY <1>3
    <3>2. /\ Len(z) = Len(read) + Len(y)
          /\ \A j \in 1..Len(read) : z[j] = read[j]
      BY <2>2, <3>1, ConcatAt
    <3> QED
      BY <3>2
  <2>4. i \in 1..Len(z)
    <3>1. Len(read) \in Nat /\ Len(y) \in Nat
      BY <1>3, LenProperties
    <3> QED
      BY <2>3, <3>1
  <2>5. z[i].q \in 1..last /\ said[z[i].q] # Silent
    <3>1. i \in 1..Len(buf \o line) /\ z = buf \o line
      BY <1>3, <2>2, <2>4
    <3> QED
      BY <1>1, <3>1, OnLinkAnswered
  <2> QED
    BY <2>1, <2>3, <2>5
<1>12. ASSUME NEW p \in Ids, WholeAnswer(r, p)', ~IgnoresPhase(sent'[r])
       PROVE  out = said[p].means
  <2>1. /\ \A k \in DOMAIN T : T[k].id = p
        /\ Len(T) = Len(said[p].data)
        /\ sent[p] = c
        /\ ~(TakesErrorForValue(c) /\ said[p].means.is = "error")
    BY <1>3, <1>8, <1>9, <1>12 DEF WholeAnswer, TakesErrorForValue
  <2>2. ~IgnoresPhase(c)
    BY <1>3, <1>8, <1>12
  <2>3. TookWhole(sent, said, read, c, p)
    BY <1>3, <1>5, <1>7, <2>1, <2>2, Zenon DEF TookWhole
  <2> QED
    BY <1>3, <1>4, <1>14, <2>3, ReadIsAnswer
<1>13. /\ r \in 1..last' /\ 1 \in DOMAIN took'[r]
       /\ \A k \in DOMAIN took'[r] :
             /\ took'[r][k].id \in 1..last'
             /\ said'[took'[r][k].id] # Silent
       /\ \A p \in Ids :
             WholeAnswer(r, p)' /\ ~IgnoresPhase(sent'[r])
               => outcome'[r] = said'[p].means
  BY <1>6, <1>8, <1>9, <1>10, <1>11, <1>12
<1> QED
  BY <1>13 DEF ReadBy, Silent, Says, Unparsed, IgnoresPhase, SendsPhase

LEMMA ReadInvNext == ReadInv /\ [Next]_vars => ReadInv'
<1> SUFFICES ASSUME ReadInv, [Next]_vars
             PROVE  ReadInv'
  OBVIOUS
<1>1. LinkInv /\ LinkInv'
  BY LinkStep DEF ReadInv
<1>2. /\ DOMAIN outcome = Ids /\ DOMAIN took = Ids
      /\ status = [q \in Ids |-> status[q]] /\ DOMAIN sent = Ids
      /\ DOMAIN said = Ids /\ last \in Nat
  BY <1>1 DEF ReadInv, LinkInv, RequestInv, AnswersSaid
<1>3. ASSUME DOMAIN outcome' = Ids, DOMAIN took' = Ids,
             \A q \in Ids : Keeps(q)
      PROVE  ReadInv'
  <2>1. \A q \in Ids : ReadBy(q)'
    BY <1>3, ReadByKept DEF ReadInv
  <2> QED
    BY <1>1, <1>3, <2>1 DEF ReadInv
<1>4. ASSUME NEW c \in Requests, NEW s \in {"open", "failed"}, Send(c, s)
      PROVE  ReadInv'
  <2>1. /\ last' = last + 1
        /\ sent' = [sent EXCEPT ![last + 1] = c]
        /\ status' = [status EXCEPT ![last + 1] = s]
        /\ outcome' = outcome /\ took' = took /\ said' = said
        /\ strays' = strays
    BY <1>4 DEF Send
  <2>2. s # "replied"
    BY <1>4
  <2>3. \A x \in 1..last : x \in 1..(last + 1) /\ x # last + 1
    BY <1>2
  <2>4. \A x \in 1..last : x \in 1..last' /\ sent'[x] = sent[x]
    BY <2>1, <2>3
  <2>5. \A q \in Ids : status'[q] = "replied" => status[q] = "replied"
    BY <1>2, <2>1, <2>2
  <2> QED
    BY <1>2, <1>3, <2>1, <2>4, <2>5 DEF Keeps
<1>5. CASE ReaderAnswers
  <2>1. PICK x : x = Head(inbox)[1]
    OBVIOUS
  <2>2. PICK a : said' = [said EXCEPT ![x] = a]
    BY <1>5, <2>1 DEF ReaderAnswers
  <2>3. /\ inbox # <<>> /\ inbox' = Tail(inbox)
        /\ UNCHANGED <<last, sent, status, outcome, buf, took, strays>>
    BY <1>5 DEF ReaderAnswers
  <2>4. said[x] = Silent
    BY <1>1, <2>1, <2>3, LinkTaken
  <2>5. \A r \in 1..last : said[r] # Silent => said'[r] = said[r]
    BY <2>2, <2>4
  <2> QED
    BY <1>2, <1>3, <2>3, <2>5 DEF Keeps
<1>6. CASE ReaderIgnores
  BY <1>2, <1>3, <1>6 DEF Keeps, ReaderIgnores
<1>7. ASSUME NEW n \in Sizes, Receive(n)
      PROVE  ReadInv'
  <2>1. PICK out, e, read :
            /\ read = Read(n) /\ out = Outcome(Bytes(read), sent[last])
            /\ e = CASE out.is = "unparsed" -> "open"
                     [] out.is = "panic" -> "panicked"
                     [] OTHER -> "replied"
    OBVIOUS
  <2>2. /\ status' = [status EXCEPT ![last] = e]
        /\ outcome' = [outcome EXCEPT ![last] = out]
        /\ \/ took' = took
           \/ \E t : took' = [took EXCEPT ![last] = t]
        /\ strays' = IF out.is # "unparsed" /\ read[1].i # 1
                     THEN strays \cup {last} ELSE strays
        /\ UNCHANGED <<last, sent, inbox, said>>
    BY <1>7, <2>1, Zenon DEF Receive
  <2>3. n \in 0..Len(line) /\ Waiting
    BY <1>1, <1>7, ReadNotEmpty DEF Receive
  <2>4. DOMAIN outcome' = Ids /\ DOMAIN took' = Ids
    BY <1>2, <2>2
  <2>5. ASSUME NEW q \in Ids, q # last
        PROVE  ReadBy(q)'
    <3>1. /\ status'[q] = status[q] /\ outcome'[q] = outcome[q]
          /\ took'[q] = took[q] /\ (q \in strays => q \in strays')
      BY <1>2, <2>2, <2>5
    <3>2. Keeps(q)
      BY <2>2, <3>1 DEF Keeps
    <3> QED
      BY <3>2, ReadByKept DEF ReadInv
  <2>6. ASSUME NEW q \in Ids, q = last
        PROVE  ReadBy(q)'
    <3>1. status'[q] = e
      BY <1>2, <2>2, <2>6
    <3>2. CASE out.is = "unparsed"
      <4>1. e # "replied"
        BY <2>1, <3>2
      <4> QED
        BY <3>1, <4>1 DEF ReadBy
    <3>3. CASE out.is # "unparsed" /\ read[1].i # 1
      <4>1. q \in strays'
        BY <2>2, <2>6, <3>3
      <4> QED
        BY <4>1 DEF ReadBy
    <3>4. CASE out.is # "unparsed" /\ read[1].i = 1
      <4>1. out.is \in {"unparsed", "panic", "value", "error"}
        <5>1. PICK r, y, m, c : ReadOf(n, r, y, m, c)
          BY <1>1, <2>3, ReadForm
        <5> QED
          BY <2>1, <3>4, <5>1 DEF ReadOf, ReadAs
      <4>2. CASE out.is \in {"value", "error"}
        BY <1>7, <2>1, <2>6, <3>4, <4>2, ReadByReader
      <4>3. CASE out.is = "panic"
        <5>1. e # "replied"
          BY <2>1, <4>3
        <5> QED
          BY <3>1, <5>1 DEF ReadBy
      <4> QED
        BY <3>4, <4>1, <4>2, <4>3
    <3> QED
      BY <3>2, <3>3, <3>4
  <2>7. ASSUME NEW q \in Ids
        PROVE  ReadBy(q)'
    BY <2>5, <2>6
  <2> QED
    BY <1>1, <2>4, <2>7 DEF ReadInv
<1>8. CASE Abandon
  <2>1. /\ status' = [status EXCEPT ![last] = "failed"]
        /\ UNCHANGED <<last, sent, outcome, inbox, line, took, said, strays>>
    BY <1>8 DEF Abandon
  <2>2. \A q \in Ids : status'[q] = "replied" => status[q] = "replied"
    BY <1>2, <2>1
  <2> QED
    BY <1>2, <1>3, <2>1, <2>2 DEF Keeps
<1>9. CASE UNCHANGED vars
  BY <1>2, <1>3, <1>9 DEF Keeps, vars
<1> QED
  BY <1>4, <1>5, <1>6, <1>7, <1>8, <1>9 DEF Next

(* A call returns what was meant by the answer it took whole, however it   *)
(* was cut and however late it is: for every request there is, every set   *)
(* of tags and any number of calls (Command::from_bytes).                  *)
THEOREM AnswersAreMeant == Spec => []AnswersAreRead
<1>1. Init => ReadInv
  BY ReadInvInit
<1>2. ReadInv /\ [Next]_vars => ReadInv'
  BY ReadInvNext
<1> QED
  BY <1>1, <1>2, ReadInvSays, PTL DEF Spec
=============================================================================
