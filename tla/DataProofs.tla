----------------------------- MODULE DataProofs -----------------------------
(***************************************************************************)
(* What the operators on data that the models share compute: the table of  *)
(* frequencies, which setup_reader and the measuring of antennas rely on   *)
(* for every range of table frequencies; the elements that a loop picks    *)
(* out of a sequence of any length; sequences joined and cut.              *)
(***************************************************************************)
EXTENDS Frequencies, Selection, SequencesExt, WellFoundedInduction,
        FiniteSetTheorems, SequenceTheorems, TLAPS

-----------------------------------------------------------------------------
(* The table of frequencies.                                               *)

(* Every row of get_param is one of get_frequency, and the reverse.        *)
LEMMA RowsAgree ==
    /\ \A row \in ParamRows :
          row[2] \in Params /\ row[1] = GetFrequency(row[2])
    /\ \A p \in Params : <<GetFrequency(p), p>> \in ParamRows
<1>1. \A row \in ParamRows :
          row[2] \in Params /\ row[1] = GetFrequency(row[2])
  BY SMT DEF ParamRows, Params, Low, GetFrequency
<1>2. ASSUME NEW p \in Params
      PROVE  <<GetFrequency(p), p>> \in ParamRows
  BY <1>2, SMT DEF ParamRows, Params, Low, GetFrequency
<1> QED  BY <1>1, <1>2

(* The two tables, get_param and get_frequency, are inverse to each other, *)
(* and have the same frequencies: a region written by index reads back as  *)
(* the frequencies that were wanted.                                       *)
THEOREM TableRoundTrip ==
    /\ \A p \in Params :
          GetFrequency(p) \in Table /\ GetParam(GetFrequency(p)) = p
    /\ \A f \in Table : GetParam(f) \in Params /\ GetFrequency(GetParam(f)) = f
<1>1. ASSUME NEW p \in Params, NEW q \in Params,
             GetFrequency(p) = GetFrequency(q)
      PROVE  p = q
  BY <1>1, SMT DEF Params, Low, GetFrequency
<1>2. ASSUME NEW f \in Table
      PROVE  GetParam(f) \in Params /\ GetFrequency(GetParam(f)) = f
  <2>1. PICK row \in ParamRows : row[1] = f
    BY <1>2 DEF Table
  <2>2. PICK r : r = CHOOSE x \in ParamRows : x[1] = f
    OBVIOUS
  <2>3. r \in ParamRows /\ r[1] = f
    BY <2>1, <2>2
  <2>4. r[2] \in Params /\ r[1] = GetFrequency(r[2])
    BY <2>3, RowsAgree
  <2> QED  BY <2>2, <2>3, <2>4 DEF GetParam
<1>3. ASSUME NEW p \in Params
      PROVE  GetFrequency(p) \in Table /\ GetParam(GetFrequency(p)) = p
  <2>1. GetFrequency(p) \in Table
    <3>1. <<GetFrequency(p), p>> \in ParamRows
      BY RowsAgree
    <3> QED  BY <3>1 DEF Table
  <2>2. /\ GetParam(GetFrequency(p)) \in Params
        /\ GetFrequency(GetParam(GetFrequency(p))) = GetFrequency(p)
    BY <1>2, <2>1
  <2> QED  BY <1>1, <2>1, <2>2
<1> QED  BY <1>2, <1>3

(* A whole number of MHz between the ends of a band is in the table.       *)
LEMMA WholeMHzInTable ==
    ASSUME NEW m \in Int,
           (865 <= m /\ m <= 868) \/ (902 <= m /\ m <= 928)
    PROVE  1000 * m \in Table
<1>1. CASE 865 <= m /\ m <= 868
  <2> DEFINE p == 2 * (m - 865)
  <2>1. p \in Params /\ GetFrequency(p) = 1000 * m
    BY <1>1 DEF Params, Low, GetFrequency
  <2> QED  BY <2>1, TableRoundTrip
<1>2. CASE 902 <= m /\ m <= 928
  <2> DEFINE p == 7 + 2 * (m - 902)
  <2>1. p \in Params /\ GetFrequency(p) = 1000 * m
    BY <1>2 DEF Params, Low, GetFrequency
  <2> QED  BY <2>1, TableRoundTrip
<1> QED  BY <1>1, <1>2

(* The measuring of antennas does not panic on a range within one band:    *)
(* the middle, truncated to MHz, is itself a frequency of the table.       *)
THEOREM ReferenceInTable ==
    ASSUME NEW p \in Params, NEW q \in Params, SameBand(p, q)
    PROVE  ReferenceFrequency(GetFrequency(p), GetFrequency(q)) \in Table
<1> DEFINE mid == (GetFrequency(p) + GetFrequency(q)) \div 2
           m == mid \div 1000
<1>1. CASE p \in Low /\ q \in Low
  <2>1. mid \in Int /\ 865000 <= mid /\ mid <= 868000
    BY <1>1 DEF Low, GetFrequency
  <2> HIDE DEF mid
  <2>2. m \in Int /\ 865 <= m /\ m <= 868
    BY <2>1
  <2>3. 1000 * m \in Table
    BY <2>2, WholeMHzInTable
  <2> QED  BY <2>2, <2>3 DEF ReferenceFrequency, mid
<1>2. CASE p \in High /\ q \in High
  <2>1. mid \in Int /\ 902000 <= mid /\ mid <= 928000
    BY <1>2 DEF Low, High, GetFrequency
  <2> HIDE DEF mid
  <2>2. m \in Int /\ 902 <= m /\ m <= 928
    BY <2>1
  <2>3. 1000 * m \in Table
    BY <2>2, WholeMHzInTable
  <2> QED  BY <2>2, <2>3 DEF ReferenceFrequency, mid
<1> QED  BY <1>1, <1>2 DEF SameBand

-----------------------------------------------------------------------------
(* The elements picked out of a sequence.                                  *)

(* A set of numbers has a least one.                                       *)
LEMMA LeastNumber ==
    ASSUME NEW S \in SUBSET Nat, S # {}
    PROVE  \E m \in S : \A i \in S : m <= i
<1>1. PICK m \in S : \A i \in S : <<i, m>> \notin OpToRel(<, Nat)
  BY NatLessThanWellFounded, WFMin
<1>2. \A i \in S : i \in Nat
  OBVIOUS
<1>3. \A i \in S : ~(i < m)
  BY <1>1, <1>2 DEF OpToRel
<1> QED
  BY <1>2, <1>3

LEMMA UpToElement ==
    ASSUME NEW I, NEW i, NEW x
    PROVE  x \in UpTo(I, i) <=> x \in I /\ x <= i
BY DEF UpTo

(* The elements of a set of positions, counted in their order.             *)
LEMMA UpToForm ==
    ASSUME NEW n \in Nat, NEW I \in SUBSET (1..n)
    PROVE  /\ IsFiniteSet(I) /\ Cardinality(I) \in 0..n
           /\ \A i \in Nat : /\ IsFiniteSet(UpTo(I, i))
                             /\ Cardinality(UpTo(I, i)) \in Nat
           /\ \A i \in Nat : i >= n => UpTo(I, i) = I
           /\ Cardinality(UpTo(I, 0)) = 0
<1>0. \A e \in I : e \in Nat /\ 1 <= e /\ e <= n
  OBVIOUS
<1>1. IsFiniteSet(1..n) /\ Cardinality(1..n) = n
  BY FS_Interval
<1>2. IsFiniteSet(I) /\ Cardinality(I) <= n /\ Cardinality(I) \in Nat
  BY <1>1, FS_Subset, FS_CardinalityType
<1>3. \A i \in Nat : UpTo(I, i) \in SUBSET I
  BY <1>0 DEF UpTo
<1>4. ASSUME NEW i \in Nat
      PROVE  IsFiniteSet(UpTo(I, i)) /\ Cardinality(UpTo(I, i)) \in Nat
  BY <1>2, <1>3, FS_Subset, FS_CardinalityType
<1>5. \A i \in Nat : i >= n => UpTo(I, i) = I
  <2> SUFFICES ASSUME NEW i \in Nat, i >= n, NEW x
               PROVE  x \in UpTo(I, i) <=> x \in I
    OBVIOUS
  <2>1. x \in I => x <= i
    BY <1>0
  <2> QED
    BY <2>1, UpToElement
<1>6. UpTo(I, 0) = {}
  <2> SUFFICES ASSUME NEW x \in UpTo(I, 0)
               PROVE  FALSE
    OBVIOUS
  <2> QED
    BY <1>0 DEF UpTo
<1> QED
  BY <1>2, <1>4, <1>5, <1>6, FS_EmptySet

LEMMA UpToNext ==
    ASSUME NEW n \in Nat, NEW I \in SUBSET (1..n), NEW i \in Nat
    PROVE  Cardinality(UpTo(I, i + 1)) =
               IF i + 1 \in I THEN Cardinality(UpTo(I, i)) + 1
               ELSE Cardinality(UpTo(I, i))
<1>0. \A e \in I : e \in Nat /\ 1 <= e /\ e <= n
  OBVIOUS
<1>1. IsFiniteSet(UpTo(I, i))
  BY UpToForm
<1>2. i + 1 \notin UpTo(I, i)
  BY DEF UpTo
<1>3. CASE i + 1 \in I
  <2>1. UpTo(I, i + 1) = UpTo(I, i) \cup {i + 1}
    <3> SUFFICES ASSUME NEW x
                 PROVE  /\ x \in UpTo(I, i + 1) =>
                              x \in UpTo(I, i) \/ x = i + 1
                        /\ x \in UpTo(I, i) \/ x = i + 1 =>
                              x \in UpTo(I, i + 1)
      OBVIOUS
    <3>1. x \in I => (x <= i + 1 <=> x <= i \/ x = i + 1)
      BY <1>0
    <3> QED
      BY <1>3, <3>1, UpToElement
  <2> QED
    BY <1>1, <1>2, <1>3, <2>1, FS_AddElement
<1>4. CASE i + 1 \notin I
  <2>1. UpTo(I, i + 1) = UpTo(I, i)
    <3> SUFFICES ASSUME NEW x
                 PROVE  x \in UpTo(I, i + 1) <=> x \in UpTo(I, i)
      OBVIOUS
    <3>1. x \in I => (x <= i + 1 <=> x <= i)
      BY <1>0, <1>4
    <3> QED
      BY <3>1, UpToElement
  <2> QED
    BY <1>4, <2>1
<1> QED
  BY <1>3, <1>4

LEMMA UpToGrows ==
    ASSUME NEW n \in Nat, NEW I \in SUBSET (1..n),
           NEW i \in Nat, NEW j \in Nat, i <= j
    PROVE  UpTo(I, i) \in SUBSET UpTo(I, j)
<1> SUFFICES ASSUME NEW x \in UpTo(I, i)
             PROVE  x \in UpTo(I, j)
  OBVIOUS
<1>1. x \in I /\ x <= i
  BY DEF UpTo
<1>2. x \in Nat
  BY <1>1
<1>3. x <= j
  BY <1>1, <1>2
<1> QED
  BY <1>1, <1>3 DEF UpTo

(* Each count is reached, at an element of the set.                        *)
LEMMA NthForm ==
    ASSUME NEW n \in Nat, NEW I \in SUBSET (1..n),
           NEW k \in 1..Cardinality(I)
    PROVE  Nth(I, k) \in I /\ Cardinality(UpTo(I, Nth(I, k))) = k
<1>0. \A e \in I : e \in Nat /\ 1 <= e /\ e <= n
  OBVIOUS
<1> DEFINE c(e) == Cardinality(UpTo(I, e))
           S == {i \in Nat : c(i) >= k}
<1>1. /\ Cardinality(I) \in 0..n /\ c(n) = Cardinality(I)
      /\ c(0) = 0 /\ \A i \in Nat : c(i) \in Nat
  BY UpToForm
<1>2. k \in Nat /\ k >= 1
  BY <1>1
<1>3. n \in S /\ S \in SUBSET Nat
  BY <1>1, <1>2
<1>4. PICK m \in S : \A i \in S : m <= i
  BY <1>3, LeastNumber
<1>5. m \in Nat /\ c(m) >= k /\ m # 0
  BY <1>1, <1>2, <1>4
<1>6. m - 1 \in Nat /\ (m - 1) + 1 = m
  BY <1>5
<1>7. c(m - 1) < k /\ c(m - 1) \in Nat
  BY <1>1, <1>2, <1>4, <1>6
<1>8. c(m) = IF m \in I THEN c(m - 1) + 1 ELSE c(m - 1)
  BY <1>6, UpToNext
<1> HIDE DEF c
<1>9. m \in I /\ c(m) = k
  BY <1>1, <1>2, <1>5, <1>7, <1>8
<1> QED
  BY <1>9 DEF Nth, c

(* The k-th elements are in the order of k.                                *)
LEMMA NthOrder ==
    ASSUME NEW n \in Nat, NEW I \in SUBSET (1..n),
           NEW j \in 1..Cardinality(I), NEW k \in 1..Cardinality(I), j < k
    PROVE  Nth(I, j) < Nth(I, k)
<1>0. \A e \in I : e \in Nat /\ 1 <= e /\ e <= n
  OBVIOUS
<1> DEFINE x == Nth(I, j)
           y == Nth(I, k)
<1>1. /\ x \in I /\ Cardinality(UpTo(I, x)) = j
      /\ y \in I /\ Cardinality(UpTo(I, y)) = k
  BY NthForm
<1>2. x \in Nat /\ y \in Nat /\ IsFiniteSet(UpTo(I, x))
  <2>1. x \in Nat /\ y \in Nat
    BY <1>0, <1>1
  <2> QED
    BY <2>1, UpToForm
<1> HIDE DEF x, y
<1>3. SUFFICES ASSUME y <= x
               PROVE  FALSE
  BY <1>2 DEF x, y
<1>4. UpTo(I, y) \in SUBSET UpTo(I, x)
  BY <1>0, <1>2, <1>3, UpToGrows
<1>5. k <= j
  BY <1>1, <1>2, <1>4, FS_Subset
<1>6. j \in Nat /\ k \in Nat
  BY UpToForm
<1> QED
  BY <1>5, <1>6

(* An element is the k-th for its own count.                               *)
LEMMA NthOf ==
    ASSUME NEW n \in Nat, NEW I \in SUBSET (1..n), NEW i \in I
    PROVE  /\ Cardinality(UpTo(I, i)) \in 1..Cardinality(I)
           /\ Nth(I, Cardinality(UpTo(I, i))) = i
<1>0. \A e \in I : e \in Nat /\ 1 <= e /\ e <= n
  OBVIOUS
<1> DEFINE k == Cardinality(UpTo(I, i))
           x == Nth(I, k)
<1>1. i \in Nat /\ i \in UpTo(I, i) /\ UpTo(I, i) \in SUBSET I
  BY <1>0 DEF UpTo
<1>2. IsFiniteSet(I) /\ Cardinality(I) \in Nat
  BY UpToForm
<1>3. IsFiniteSet(UpTo(I, i)) /\ k \in Nat /\ k <= Cardinality(I)
  BY <1>1, <1>2, UpToForm, FS_Subset
<1>4. k # 0
  BY <1>1, <1>3, FS_EmptySet
<1>5. k \in 1..Cardinality(I)
  BY <1>2, <1>3, <1>4
<1>6. x \in I /\ Cardinality(UpTo(I, x)) = k
  BY <1>5, NthForm
<1>7. x \in Nat /\ x \in UpTo(I, x) /\ IsFiniteSet(UpTo(I, x))
  <2>1. x \in Nat
    BY <1>0, <1>6
  <2>2. IsFiniteSet(UpTo(I, x))
    BY <2>1, UpToForm
  <2> QED
    BY <1>6, <2>1, <2>2 DEF UpTo
<1> HIDE DEF x, k
<1>8. x = i
  <2>1. CASE x <= i
    <3>1. UpTo(I, x) \in SUBSET UpTo(I, i)
      BY <1>0, <1>1, <1>7, <2>1, UpToGrows
    <3>2. UpTo(I, i) = UpTo(I, x)
      BY <1>3, <1>6, <3>1, FS_Subset DEF k
    <3> QED
      BY <1>1, <1>7, <2>1, <3>2 DEF UpTo
  <2>2. CASE i <= x
    <3>1. UpTo(I, i) \in SUBSET UpTo(I, x)
      BY <1>0, <1>1, <1>7, <2>2, UpToGrows
    <3>2. UpTo(I, x) = UpTo(I, i)
      BY <1>3, <1>6, <1>7, <3>1, FS_Subset DEF k
    <3> QED
      BY <1>1, <1>7, <2>2, <3>2 DEF UpTo
  <2> QED
    BY <1>1, <1>7, <2>1, <2>2
<1> QED
  BY <1>5, <1>8 DEF x, k

(* Of an initial interval the k-th element is k.                           *)
LEMMA NthInterval ==
    ASSUME NEW n \in Nat
    PROVE  Cardinality(1..n) = n /\ \A k \in 1..n : Nth(1..n, k) = k
<1>1. Cardinality(1..n) = n
  BY FS_Interval
<1>2. ASSUME NEW k \in 1..n
      PROVE  Nth(1..n, k) = k
  <2>1. UpTo(1..n, k) = 1..k
    <3> SUFFICES ASSUME NEW x
                 PROVE  x \in UpTo(1..n, k) <=> x \in 1..k
      OBVIOUS
    <3>1. x \in 1..n /\ x <= k <=> x \in 1..k
      OBVIOUS
    <3> QED
      BY <3>1, UpToElement
  <2>2. Cardinality(1..k) = k
    BY FS_Interval
  <2>3. Nth(1..n, Cardinality(UpTo(1..n, k))) = k
    BY NthOf
  <2> QED
    BY <2>1, <2>2, <2>3
<1> QED
  BY <1>1, <1>2

LEMMA SelectedForm ==
    ASSUME NEW A, NEW s \in Seq(A), NEW I \in SUBSET (1..Len(s))
    PROVE  LET t == Selected(s, I)
           IN /\ t \in Seq(A) /\ Len(t) = Cardinality(I)
              /\ \A k \in 1..Len(t) : Nth(I, k) \in I /\ t[k] = s[Nth(I, k)]
<1> DEFINE n == Cardinality(I)
           e(k) == s[Nth(I, k)]
<1>1. Len(s) \in Nat /\ n \in Nat
  BY UpToForm
<1>2. ASSUME NEW k \in 1..n
      PROVE  Nth(I, k) \in I /\ e(k) \in A
  <2>1. Nth(I, k) \in I
    BY <1>1, NthForm
  <2>2. Nth(I, k) \in 1..Len(s)
    BY <2>1
  <2> QED
    BY <2>1, <2>2
<1>3. Selected(s, I) = [k \in 1..n |-> e(k)]
  BY DEF Selected
<1> HIDE DEF n, e
<1>4. Selected(s, I) \in Seq(A) /\ Len(Selected(s, I)) = n
  BY <1>1, <1>2, <1>3, IsASeq, LenProperties
<1>5. \A k \in 1..n : Selected(s, I)[k] = e(k)
  BY <1>3
<1> QED
  BY <1>2, <1>4, <1>5 DEF n, e

LEMMA SelectedBackForm ==
    ASSUME NEW A, NEW s \in Seq(A), NEW I \in SUBSET (1..Len(s))
    PROVE  LET t == SelectedBack(s, I)
               n == Cardinality(I)
           IN /\ t \in Seq(A) /\ Len(t) = n /\ n \in Nat
              /\ \A k \in 1..n : /\ n + 1 - k \in 1..n
                                 /\ Nth(I, n + 1 - k) \in I
                                 /\ t[k] = s[Nth(I, n + 1 - k)]
<1> DEFINE n == Cardinality(I)
           e(k) == s[Nth(I, n + 1 - k)]
<1>1. Len(s) \in Nat /\ n \in Nat
  BY UpToForm
<1>2. ASSUME NEW k \in 1..n
      PROVE  /\ n + 1 - k \in 1..n
             /\ Nth(I, n + 1 - k) \in I /\ e(k) \in A
  <2>1. n + 1 - k \in 1..n
    BY <1>1
  <2>2. Nth(I, n + 1 - k) \in I
    BY <1>1, <2>1, NthForm
  <2>3. Nth(I, n + 1 - k) \in 1..Len(s)
    BY <2>2
  <2> QED
    BY <2>1, <2>2, <2>3
<1>3. SelectedBack(s, I) = [k \in 1..n |-> e(k)]
  BY DEF SelectedBack
<1> HIDE DEF n, e
<1>4. SelectedBack(s, I) \in Seq(A) /\ Len(SelectedBack(s, I)) = n
  BY <1>1, <1>2, <1>3, IsASeq, LenProperties
<1>5. \A k \in 1..n : SelectedBack(s, I)[k] = e(k)
  BY <1>3
<1> QED
  BY <1>1, <1>2, <1>4, <1>5 DEF n, e

-----------------------------------------------------------------------------
(* Sequences made of sequences: what FlattenSeq joins.                     *)

LEMMA NumbersFollow ==
    ASSUME NEW S, 0 \in S, \A n \in Nat : n \in S => n + 1 \in S
    PROVE  \A n \in Nat : n \in S
<1> SUFFICES ASSUME Nat \ S # {}
             PROVE  FALSE
  OBVIOUS
<1> DEFINE Bad == Nat \ S
<1>1. PICK m \in Bad : \A i \in Bad : m <= i
  <2>1. Bad \in SUBSET Nat /\ Bad # {}
    OBVIOUS
  <2> HIDE DEF Bad
  <2> QED
    BY <2>1, LeastNumber
<1>2. m \in Nat /\ m \notin S /\ m # 0
  BY <1>1
<1>3. m - 1 \in Nat /\ ~(m <= m - 1) /\ (m - 1) + 1 = m
  BY <1>2
<1>4. m - 1 \in S
  BY <1>1, <1>3
<1> QED
  BY <1>2, <1>3, <1>4

(* f has, for each number up to n, that many of the sequences joined.      *)
Joins(s, n, f) ==
    f = [i \in 1..n |-> IF i = 1 THEN s[i] ELSE f[i - 1] \o s[i]]

LEMMA JoinsExist ==
    ASSUME NEW s, NEW n \in Nat
    PROVE  \E f : Joins(s, n, f)
<1> DEFINE S == {m \in Nat : \E f : Joins(s, m, f)}
<1>1. 0 \in S
  <2>1. LET f == [i \in 1..0 |-> 0] IN Joins(s, 0, f)
    BY DEF Joins
  <2> QED
    BY <2>1
<1>2. ASSUME NEW m \in Nat, m \in S
      PROVE  m + 1 \in S
  <2>1. PICK f : f = [i \in 1..m |-> IF i = 1 THEN s[i] ELSE f[i - 1] \o s[i]]
    BY <1>2 DEF Joins
  <2> DEFINE g == [i \in 1..(m + 1) |->
                      IF i = 1 THEN s[i]
                      ELSE IF i = m + 1 THEN f[m] \o s[i] ELSE f[i]]
  <2>2. ASSUME NEW i \in 1..(m + 1)
        PROVE  g[i] = IF i = 1 THEN s[i] ELSE g[i - 1] \o s[i]
    <3>1. CASE i = 1
      BY <3>1
    <3>2. CASE i # 1 /\ i = m + 1
      <4>1. m \in 1..(m + 1) /\ m # m + 1 /\ m \in 1..m /\ i - 1 = m
        BY <3>2
      <4>2. g[m] = f[m]
        BY <2>1, <4>1
      <4> QED
        BY <3>2, <4>1, <4>2
    <3>3. CASE i # 1 /\ i # m + 1
      <4>1. /\ i \in 1..m /\ i - 1 \in 1..m /\ i - 1 \in 1..(m + 1)
            /\ i - 1 # m + 1
        BY <3>3
      <4>2. g[i - 1] = f[i - 1] /\ g[i] = f[i]
        BY <2>1, <3>3, <4>1
      <4>3. f[i] = f[i - 1] \o s[i]
        BY <2>1, <3>3, <4>1
      <4> QED
        BY <3>3, <4>2, <4>3
    <3> QED
      BY <3>1, <3>2, <3>3
  <2>3. Joins(s, m + 1, g)
    <3>1. g = [i \in 1..(m + 1) |-> g[i]]
      OBVIOUS
    <3> HIDE DEF g
    <3> QED
      BY <2>2, <3>1 DEF Joins
  <2> QED
    BY <2>3
<1> HIDE DEF S
<1>3. n \in S
  BY <1>1, <1>2, NumbersFollow
<1> QED
  BY <1>3 DEF S

(* s and t agree up to n.                                                  *)
Agree(s, t, n) == \A i \in 1..n : s[i] = t[i]

LEMMA JoinsAgree ==
    ASSUME NEW n \in Nat, NEW m \in Nat, n <= m,
           NEW s, NEW t, Agree(s, t, n),
           NEW f, Joins(s, n, f), NEW g, Joins(t, m, g)
    PROVE  Agree(f, g, n)
<1> DEFINE S == {k \in Nat : k \in 1..n => f[k] = g[k]}
<1>1. 0 \in S
  OBVIOUS
<1>2. ASSUME NEW k \in Nat, k \in S
      PROVE  k + 1 \in S
  <2> SUFFICES ASSUME k + 1 \in 1..n
               PROVE  f[k + 1] = g[k + 1]
    OBVIOUS
  <2>1. k + 1 \in 1..m /\ (k + 1) - 1 = k
    OBVIOUS
  <2>2. /\ f[k + 1] = IF k + 1 = 1 THEN s[k + 1] ELSE f[k] \o s[k + 1]
        /\ g[k + 1] = IF k + 1 = 1 THEN t[k + 1] ELSE g[k] \o t[k + 1]
    BY <2>1 DEF Joins
  <2>3. s[k + 1] = t[k + 1]
    BY DEF Agree
  <2>4. k + 1 # 1 => f[k] = g[k]
    <3>1. k + 1 # 1 => k \in 1..n
      OBVIOUS
    <3> QED
      BY <1>2, <3>1
  <2> QED
    BY <2>2, <2>3, <2>4
<1> HIDE DEF S
<1>3. \A k \in Nat : k \in S
  BY <1>1, <1>2, NumbersFollow
<1>4. \A k \in 1..n : k \in Nat
  OBVIOUS
<1> QED
  BY <1>3, <1>4 DEF S, Agree

LEMMA FlattenOf ==
    ASSUME NEW s, Len(s) \in Nat \ {0}, NEW f, Joins(s, Len(s), f)
    PROVE  FlattenSeq(s) = f[Len(s)]
<1> DEFINE n == Len(s)
           Step(g) == [i \in 1..n |-> IF i = 1 THEN s[i]
                                      ELSE g[i - 1] \o s[i]]
           flatten == CHOOSE g : g = Step(g)
<1>1. flatten = Step(flatten)
  <2>1. f = Step(f)
    BY DEF Joins
  <2> HIDE DEF Step
  <2> QED
    BY <2>1
<1>2. FlattenSeq(s) = flatten[n]
  BY DEF FlattenSeq
<1>3. PICK g : g = flatten
  OBVIOUS
<1> HIDE DEF flatten
<1>4. Joins(s, n, g)
  BY <1>1, <1>3 DEF Joins
<1> HIDE DEF n
<1>5. n \in Nat /\ n \in 1..n
  BY DEF n
<1>6. f[n] = g[n]
  <2>1. PICK m : m = n
    OBVIOUS
  <2>2. Joins(s, m, f) /\ Joins(s, m, g) /\ m \in Nat /\ m <= m
    BY <1>4, <1>5, <2>1 DEF n
  <2>3. Agree(s, s, m)
    BY DEF Agree
  <2>4. Agree(f, g, m)
    BY <2>2, <2>3, JoinsAgree
  <2> QED
    BY <1>5, <2>1, <2>4 DEF Agree
<1> QED
  BY <1>2, <1>3, <1>6 DEF n

LEMMA FlattenEmpty == FlattenSeq(<<>>) = <<>>
BY DEF FlattenSeq

LEMMA FlattenAppend ==
    ASSUME NEW A, NEW s \in Seq(Seq(A)), NEW x \in Seq(A),
           FlattenSeq(s) \in Seq(A)
    PROVE  FlattenSeq(Append(s, x)) = FlattenSeq(s) \o x
<1>1. PICK t : t = Append(s, x)
  OBVIOUS
<1>2. PICK n : n = Len(s)
  OBVIOUS
<1>3. /\ n \in Nat /\ Len(t) = n + 1 /\ t[n + 1] = x
      /\ \A i \in 1..n : t[i] = s[i]
  BY <1>1, <1>2, AppendProperties, LenProperties
<1>4. PICK g : Joins(t, n + 1, g)
  <2>1. n + 1 \in Nat
    BY <1>3
  <2> QED
    BY <2>1, JoinsExist
<1>5. FlattenSeq(t) = g[n + 1]
  <2>1. Len(t) \in Nat \ {0} /\ Joins(t, Len(t), g)
    BY <1>3, <1>4
  <2> QED
    BY <1>3, <2>1, FlattenOf
<1>6. n + 1 \in 1..(n + 1) /\ (n + 1) - 1 = n
  BY <1>3
<1>7. g[n + 1] = IF n + 1 = 1 THEN x ELSE g[n] \o x
  BY <1>3, <1>4, <1>6 DEF Joins
<1>8. CASE n = 0
  <2>1. s = <<>>
    BY <1>2, <1>8, EmptySeq
  <2>2. FlattenSeq(s) \o x = x
    BY <2>1, FlattenEmpty, ConcatEmptySeq
  <2> QED
    BY <1>1, <1>5, <1>7, <1>8, <2>2
<1>9. CASE n # 0
  <2>1. PICK f : Joins(s, n, f)
    BY <1>3, JoinsExist
  <2>2. FlattenSeq(s) = f[n]
    <3>1. Len(s) \in Nat \ {0} /\ Joins(s, Len(s), f)
      BY <1>2, <1>3, <1>9, <2>1
    <3> QED
      BY <1>2, <3>1, FlattenOf
  <2>3. f[n] = g[n]
    <3>1. n <= n + 1 /\ n \in 1..n /\ n + 1 \in Nat
      BY <1>3, <1>9
    <3>2. Agree(s, t, n)
      BY <1>3 DEF Agree
    <3>3. Agree(f, g, n)
      BY <1>3, <1>4, <2>1, <3>1, <3>2, JoinsAgree
    <3> QED
      BY <3>1, <3>3 DEF Agree
  <2>4. n + 1 # 1
    BY <1>3, <1>9
  <2> QED
    BY <1>1, <1>5, <1>7, <2>2, <2>3, <2>4
<1> QED
  BY <1>8, <1>9

LEMMA FlattenType ==
    ASSUME NEW A, NEW s \in Seq(Seq(A))
    PROVE  FlattenSeq(s) \in Seq(A)
<1> DEFINE S == {n \in Nat : \A t \in Seq(Seq(A)) :
                     Len(t) = n => FlattenSeq(t) \in Seq(A)}
<1>1. 0 \in S
  <2>1. \A t \in Seq(Seq(A)) : Len(t) = 0 => t = <<>>
    BY EmptySeq
  <2> QED
    BY <2>1, FlattenEmpty, EmptySeq
<1>2. ASSUME NEW n \in Nat, n \in S
      PROVE  n + 1 \in S
  <2> SUFFICES ASSUME NEW t \in Seq(Seq(A)), Len(t) = n + 1
               PROVE  FlattenSeq(t) \in Seq(A)
    OBVIOUS
  <2>1. t # <<>>
    BY EmptySeq
  <2>2. PICK u \in Seq(Seq(A)), x \in Seq(A) : t = Append(u, x)
    BY <2>1, SequenceEmptyOrAppend
  <2>3. Len(u) = n
    <3>1. Len(u) + 1 = n + 1 /\ Len(u) \in Nat
      BY <2>2, AppendProperties, LenProperties
    <3> QED
      BY <3>1
  <2>4. FlattenSeq(u) \in Seq(A)
    BY <1>2, <2>3
  <2>5. FlattenSeq(t) = FlattenSeq(u) \o x
    BY <2>2, <2>4, FlattenAppend
  <2> QED
    BY <2>4, <2>5, ConcatProperties
<1> HIDE DEF S
<1>3. Len(s) \in Nat
  BY LenProperties
<1>4. Len(s) \in S
  BY <1>1, <1>2, <1>3, NumbersFollow
<1> QED
  BY <1>4 DEF S

(* Stated under a name, for the provers.                                   *)
Associate(p, r, y) == (p \o r) \o y = p \o (r \o y)

LEMMA JoinsAssociate ==
    ASSUME NEW A, NEW p \in Seq(A), NEW r \in Seq(A), NEW y \in Seq(A)
    PROVE  Associate(p, r, y)
BY ConcatAssociative DEF Associate

LEMMA FlattenConcat ==
    ASSUME NEW A, NEW s \in Seq(Seq(A)), NEW t \in Seq(Seq(A))
    PROVE  FlattenSeq(s \o t) = FlattenSeq(s) \o FlattenSeq(t)
<1> DEFINE S == {n \in Nat : \A u \in Seq(Seq(A)) :
                     Len(u) = n =>
                        FlattenSeq(s \o u) = FlattenSeq(s) \o FlattenSeq(u)}
<1>0. FlattenSeq(s) \in Seq(A)
  BY FlattenType
<1>1. 0 \in S
  <2>1. ASSUME NEW u \in Seq(Seq(A)), Len(u) = 0
        PROVE  FlattenSeq(s \o u) = FlattenSeq(s) \o FlattenSeq(u)
    <3>1. u = <<>>
      BY <2>1, EmptySeq
    <3>2. s \o u = s /\ FlattenSeq(u) = <<>>
      BY <3>1, FlattenEmpty, ConcatEmptySeq
    <3> QED
      BY <1>0, <3>2, ConcatEmptySeq
  <2> QED
    BY <2>1
<1>2. ASSUME NEW n \in Nat, n \in S
      PROVE  n + 1 \in S
  <2> SUFFICES ASSUME NEW u \in Seq(Seq(A)), Len(u) = n + 1
               PROVE  FlattenSeq(s \o u) = FlattenSeq(s) \o FlattenSeq(u)
    OBVIOUS
  <2>1. u # <<>>
    BY EmptySeq
  <2>2. PICK v \in Seq(Seq(A)), x \in Seq(A) : u = Append(v, x)
    BY <2>1, SequenceEmptyOrAppend
  <2>3. Len(v) = n
    <3>1. Len(v) + 1 = n + 1 /\ Len(v) \in Nat
      BY <2>2, AppendProperties, LenProperties
    <3> QED
      BY <3>1
  <2>4. FlattenSeq(s \o v) = FlattenSeq(s) \o FlattenSeq(v)
    BY <1>2, <2>3
  <2>5. s \o u = Append(s \o v, x)
    <3>1. /\ s \o v \in Seq(Seq(A)) /\ <<x>> \in Seq(Seq(A))
      BY ConcatProperties
    <3>2. /\ u = v \o <<x>>
          /\ Append(s \o v, x) = (s \o v) \o <<x>>
      BY <2>2, <3>1, AppendIsConcat
    <3> QED
      BY <3>1, <3>2, ConcatAssociative
  <2>6. s \o v \in Seq(Seq(A))
    BY ConcatProperties
  <2>7. FlattenSeq(Append(s \o v, x)) = FlattenSeq(s \o v) \o x
    BY <2>6, FlattenType, FlattenAppend
  <2>8. FlattenSeq(u) = FlattenSeq(v) \o x
    BY <2>2, FlattenType, FlattenAppend
  <2>9. FlattenSeq(v) \in Seq(A)
    BY FlattenType
  <2>10. (FlattenSeq(s) \o FlattenSeq(v)) \o x
            = FlattenSeq(s) \o (FlattenSeq(v) \o x)
    <3>1. PICK p \in Seq(A), r \in Seq(A), y \in Seq(A) :
              p = FlattenSeq(s) /\ r = FlattenSeq(v) /\ y = x
      BY <1>0, <2>2, <2>9
    <3>2. Associate(p, r, y)
      BY JoinsAssociate, Zenon
    <3> QED
      BY <3>1, <3>2 DEF Associate
  <2> QED
    BY <2>4, <2>5, <2>7, <2>8, <2>10
<1> HIDE DEF S
<1>3. Len(t) \in Nat
  BY LenProperties
<1>4. Len(t) \in S
  BY <1>1, <1>2, <1>3, NumbersFollow
<1> QED
  BY <1>4 DEF S

LEMMA FlattenOne ==
    ASSUME NEW A, NEW x \in Seq(A)
    PROVE  FlattenSeq(<<x>>) = x
<1>1. <<>> \in Seq(Seq(A)) /\ FlattenSeq(<<>>) = <<>>
  BY EmptySeq, FlattenEmpty
<1>2. <<>> \in Seq(A)
  BY EmptySeq
<1>3. FlattenSeq(Append(<<>>, x)) = FlattenSeq(<<>>) \o x
  BY <1>1, <1>2, FlattenAppend
<1>4. Append(<<>>, x) = <<x>>
  OBVIOUS
<1> QED
  BY <1>1, <1>3, <1>4, ConcatEmptySeq

-----------------------------------------------------------------------------
(* Sequences joined, and pieces of one.                                    *)

LEMMA ConcatAt ==
    ASSUME NEW S, NEW s \in Seq(S), NEW t \in Seq(S), NEW u, u = s \o t
    PROVE  /\ u \in Seq(S) /\ Len(u) = Len(s) + Len(t)
           /\ \A i \in 1..Len(s) : u[i] = s[i]
           /\ \A i \in 1..Len(t) : u[Len(s) + i] = t[i]
<1>1. /\ u \in Seq(S) /\ Len(u) = Len(s) + Len(t)
      /\ \A i \in 1..(Len(s) + Len(t)) :
            u[i] = IF i <= Len(s) THEN s[i] ELSE t[i - Len(s)]
  BY ConcatProperties
<1>2. Len(s) \in Nat /\ Len(t) \in Nat
  BY LenProperties
<1> DEFINE m == Len(s)
           n == Len(t)
<1>3. /\ \A i \in 1..m : i \in 1..(m + n) /\ i <= m
      /\ \A i \in 1..n : /\ m + i \in 1..(m + n) /\ ~(m + i <= m)
                         /\ (m + i) - m = i
  <2> HIDE DEF m, n
  <2>1. m \in Nat /\ n \in Nat
    BY <1>2 DEF m, n
  <2> QED
    BY <2>1
<1> QED
  BY <1>1, <1>3

LEMMA SubSeqIs ==
    ASSUME NEW S, NEW s \in Seq(S), NEW t \in Seq(S), NEW a \in Nat,
           NEW n \in Nat, Len(t) = n, a + n <= Len(s),
           \A i \in 1..n : s[a + i] = t[i]
    PROVE  SubSeq(s, a + 1, a + n) = t
<1>1. PICK u, z : u = SubSeq(s, a + 1, a + n) /\ z = Len(s)
  OBVIOUS
<1>2. z \in Nat /\ a + n <= z
  BY <1>1, LenProperties
<1>3. \A i \in (a + 1)..(a + n) : s[i] \in S
  <2>1. \A i \in (a + 1)..(a + n) : i \in 1..z
    BY <1>2
  <2> QED
    BY <1>1, <2>1, ElementOfSeq
<1>4. /\ u \in Seq(S)
      /\ Len(u) = IF a + 1 <= a + n THEN (a + n) - (a + 1) + 1 ELSE 0
      /\ \A i \in 1..((a + n) - (a + 1) + 1) : u[i] = s[(a + 1) + i - 1]
  <2>1. a + 1 \in Int /\ a + n \in Int
    OBVIOUS
  <2> QED
    BY <1>1, <1>3, <2>1, SubSeqProperties
<1>5. /\ (a + n) - (a + 1) + 1 = n /\ (a + 1 <= a + n \/ n = 0)
      /\ \A i \in 1..n : (a + 1) + i - 1 = a + i
  OBVIOUS
<1>6. Len(u) = n /\ \A i \in 1..n : u[i] = s[a + i]
  BY <1>4, <1>5
<1>7. u = t
  BY <1>4, <1>6, SeqEqual
<1> QED
  BY <1>1, <1>7

(* u is s followed by t.                                                   *)
Joined(u, s, t) ==
    /\ Len(u) = Len(s) + Len(t)
    /\ \A i \in 1..Len(s) : u[i] = s[i]
    /\ \A i \in 1..Len(t) : u[Len(s) + i] = t[i]

LEMMA ConcatJoined ==
    ASSUME NEW S, NEW s \in Seq(S), NEW t \in Seq(S), NEW u, u = s \o t
    PROVE  u \in Seq(S) /\ Joined(u, s, t)
BY ConcatAt DEF Joined

LEMMA FunctionIsSeq ==
    ASSUME NEW A, NEW n \in Nat, NEW s \in [1..n -> A]
    PROVE  s \in Seq(A) /\ Len(s) = n
OBVIOUS

LEMMA PairOf ==
    ASSUME NEW A, NEW x \in A, NEW y \in A
    PROVE  <<x>> \o <<y>> = <<x, y>>
<1>1. PICK s, t, u, v : s = <<x>> /\ t = <<y>> /\ u = s \o t /\ v = <<x, y>>
  OBVIOUS
<1>2. /\ s \in Seq(A) /\ Len(s) = 1 /\ s[1] = x
      /\ t \in Seq(A) /\ Len(t) = 1 /\ t[1] = y
      /\ v \in Seq(A) /\ Len(v) = 2 /\ v[1] = x /\ v[2] = y
  BY <1>1
<1>3. u \in Seq(A) /\ Joined(u, s, t)
  BY <1>1, <1>2, ConcatJoined
<1>4. Len(u) = 2 /\ u[1] = x /\ u[2] = y
  <2>1. 1 \in 1..1 /\ 1 + 1 = 2
    OBVIOUS
  <2> QED
    BY <1>2, <1>3, <2>1 DEF Joined
<1>5. \A i \in 1..2 : u[i] = v[i]
  <2>1. \A i \in 1..2 : i = 1 \/ i = 2
    OBVIOUS
  <2> QED
    BY <1>2, <1>4, <2>1
<1>6. u = v
  BY <1>2, <1>3, <1>4, <1>5, SeqEqual
<1> QED
  BY <1>1, <1>6

LEMMA PieceForm ==
    ASSUME NEW A, NEW s \in Seq(A), NEW a \in Nat, NEW n \in Nat,
           a + n <= Len(s), NEW t, t = SubSeq(s, a + 1, a + n)
    PROVE  /\ t \in Seq(A) /\ Len(t) = n
           /\ \A i \in 1..n : t[i] = s[a + i]
<1>1. PICK z : z = Len(s)
  OBVIOUS
<1>2. z \in Nat /\ a + n <= z
  BY <1>1, LenProperties
<1>3. \A i \in (a + 1)..(a + n) : s[i] \in A
  <2>1. \A i \in (a + 1)..(a + n) : i \in 1..z
    BY <1>2
  <2> QED
    BY <1>1, <2>1, ElementOfSeq
<1>4. /\ t \in Seq(A)
      /\ Len(t) = IF a + 1 <= a + n THEN (a + n) - (a + 1) + 1 ELSE 0
      /\ \A i \in 1..((a + n) - (a + 1) + 1) : t[i] = s[(a + 1) + i - 1]
  <2>1. a + 1 \in Int /\ a + n \in Int
    OBVIOUS
  <2> QED
    BY <1>3, <2>1, SubSeqProperties
<1>5. /\ (a + n) - (a + 1) + 1 = n /\ (a + 1 <= a + n \/ n = 0)
      /\ \A i \in 1..n : (a + 1) + i - 1 = a + i
  OBVIOUS
<1> QED
  BY <1>4, <1>5

LEMMA PiecesJoin ==
    ASSUME NEW A, NEW s \in Seq(A), NEW a \in Nat, NEW n \in Nat,
           NEW m \in Nat, a + n + m <= Len(s)
    PROVE  SubSeq(s, a + 1, a + n + m)
             = SubSeq(s, a + 1, a + n) \o SubSeq(s, a + n + 1, a + n + m)
<1>1. PICK t, u, w : /\ t = SubSeq(s, a + 1, a + n)
                     /\ u = SubSeq(s, a + n + 1, a + n + m)
                     /\ w = SubSeq(s, a + 1, a + n + m)
  OBVIOUS
<1>2. PICK z : z = Len(s)
  OBVIOUS
<1>3. z \in Nat /\ a + n + m <= z
  BY <1>2, LenProperties
<1>4. t \in Seq(A) /\ Len(t) = n /\ \A i \in 1..n : t[i] = s[a + i]
  <2>1. a + n <= Len(s)
    BY <1>2, <1>3
  <2>2. t = SubSeq(s, a + 1, a + n)
    BY <1>1
  <2> QED
    BY <2>1, <2>2, PieceForm
<1>5. u \in Seq(A) /\ Len(u) = m /\ \A i \in 1..m : u[i] = s[(a + n) + i]
  <2>1. a + n \in Nat /\ (a + n) + m <= z
    BY <1>3
  <2> QED
    BY <1>1, <1>2, <2>1, PieceForm
<1>6. /\ w \in Seq(A) /\ Len(w) = n + m
      /\ \A i \in 1..(n + m) : w[i] = s[a + i]
  <2>1. PICK p : p = n + m
    OBVIOUS
  <2>2. p \in Nat /\ a + p <= Len(s) /\ a + p = a + n + m
    BY <1>2, <1>3, <2>1
  <2>3. w = SubSeq(s, a + 1, a + p)
    BY <1>1, <2>2
  <2>4. w \in Seq(A) /\ Len(w) = p /\ \A i \in 1..p : w[i] = s[a + i]
    BY <2>2, <2>3, PieceForm
  <2> QED
    BY <2>1, <2>4
<1>7. PICK v : v = t \o u
  OBVIOUS
<1>8. v \in Seq(A) /\ Joined(v, t, u)
  BY <1>4, <1>5, <1>7, ConcatJoined
<1>9. Len(v) = n + m
  BY <1>4, <1>5, <1>8 DEF Joined
<1>10. ASSUME NEW i \in 1..(n + m)
       PROVE  v[i] = w[i]
  <2>1. CASE i <= n
    <3>1. i \in 1..n
      BY <2>1
    <3> QED
      BY <1>4, <1>6, <1>8, <3>1 DEF Joined
  <2>2. CASE ~(i <= n)
    <3>1. i - n \in 1..m /\ n + (i - n) = i /\ (a + n) + (i - n) = a + i
      BY <2>2
    <3>2. v[n + (i - n)] = u[i - n]
      BY <1>4, <1>5, <1>8, <3>1 DEF Joined
    <3>3. u[i - n] = s[(a + n) + (i - n)]
      BY <1>5, <3>1
    <3> QED
      BY <1>6, <3>1, <3>2, <3>3
  <2> QED
    BY <2>1, <2>2
<1>11. v = w
  BY <1>6, <1>8, <1>9, <1>10, SeqEqual
<1> QED
  BY <1>1, <1>7, <1>11

LEMMA WholePiece ==
    ASSUME NEW A, NEW s \in Seq(A)
    PROVE  SubSeq(s, 1, Len(s)) = s
<1>1. PICK t, z : t = SubSeq(s, 1, Len(s)) /\ z = Len(s)
  OBVIOUS
<1>2. z \in Nat /\ 0 + z <= z /\ 0 + 1 = 1 /\ 0 + z = z
  BY <1>1, LenProperties
<1>3. t = SubSeq(s, 0 + 1, 0 + z)
  BY <1>1, <1>2
<1>4. t \in Seq(A) /\ Len(t) = z /\ \A i \in 1..z : t[i] = s[0 + i]
  BY <1>1, <1>2, <1>3, PieceForm
<1>5. \A i \in 1..z : t[i] = s[i]
  BY <1>4
<1> QED
  BY <1>1, <1>4, <1>5, SeqEqual

LEMMA LineSplits ==
    ASSUME NEW A, NEW s \in Seq(A), NEW n \in 0..Len(s)
    PROVE  /\ SubSeq(s, 1, n) \in Seq(A)
           /\ SubSeq(s, n + 1, Len(s)) \in Seq(A)
           /\ s = SubSeq(s, 1, n) \o SubSeq(s, n + 1, Len(s))
<1>1. PICK z, m : z = Len(s) /\ m = z - n
  OBVIOUS
<1>2. z \in Nat
  BY <1>1, LenProperties
<1>3. /\ n \in Nat /\ m \in Nat /\ n + m = z /\ 0 + 1 = 1 /\ 0 + n = n
      /\ 0 + n + m = z /\ 0 + n <= z /\ n + m <= z /\ 0 + n + m <= z
  BY <1>1, <1>2
<1>4. SubSeq(s, 0 + 1, 0 + n + m)
        = SubSeq(s, 0 + 1, 0 + n) \o SubSeq(s, 0 + n + 1, 0 + n + m)
  <2>1. 0 + n + m <= Len(s)
    BY <1>1, <1>3, Zenon
  <2>2. 0 \in Nat
    OBVIOUS
  <2> QED
    BY <1>3, <2>1, <2>2, PiecesJoin
<1>5. SubSeq(s, 1, z) = SubSeq(s, 1, n) \o SubSeq(s, n + 1, z)
  BY <1>3, <1>4, Zenon
<1>6. SubSeq(s, 1, z) = s
  BY <1>1, WholePiece
<1>7. SubSeq(s, 0 + 1, 0 + n) \in Seq(A)
  <2>1. 0 \in Nat /\ 0 + n <= Len(s)
    BY <1>1, <1>3, Zenon
  <2> QED
    BY <1>3, <2>1, PieceForm
<1>8. SubSeq(s, n + 1, n + m) \in Seq(A)
  <2>1. n + m <= Len(s)
    BY <1>1, <1>3, Zenon
  <2> QED
    BY <1>3, <2>1, PieceForm
<1> QED
  BY <1>1, <1>3, <1>5, <1>6, <1>7, <1>8, Zenon

(* The greatest of some numbers.                                           *)
LEMMA GreatestOf ==
    ASSUME NEW n \in Nat, NEW S \in SUBSET (1..n), S # {}
    PROVE  Max(S) \in S /\ \A y \in S : y <= Max(S)
<1> DEFINE Back == {m \in Nat : n - m \in S}
<1>1. PICK x \in S : TRUE
  OBVIOUS
<1>2. x \in 1..n
  BY <1>1
<1>3. n - x \in Nat /\ n - (n - x) = x
  BY <1>2
<1>4. Back # {} /\ Back \in SUBSET Nat
  BY <1>1, <1>3
<1>5. PICK m \in Back : \A k \in Back : m <= k
  BY <1>4, LeastNumber
<1>6. m \in Nat /\ n - m \in S
  BY <1>5
<1>7. PICK g : g = n - m
  OBVIOUS
<1>8. g \in S /\ g \in Int
  BY <1>6, <1>7
<1>9. ASSUME NEW y \in S
      PROVE  g >= y
  <2>1. y \in 1..n
    OBVIOUS
  <2>2. n - y \in Nat /\ n - (n - y) = y
    BY <2>1
  <2>3. n - y \in Back
    BY <2>2
  <2>4. m <= n - y
    BY <1>5, <2>3
  <2> QED
    BY <1>6, <1>7, <2>1, <2>4
<1>10. Max(S) \in S /\ \A y \in S : Max(S) >= y
  BY <1>8, <1>9, Zenon DEF Max
<1>11. ASSUME NEW y \in S
       PROVE  y <= Max(S)
  <2>1. PICK h : h = Max(S)
    OBVIOUS
  <2>2. h \in 1..n /\ y \in 1..n /\ h >= y
    BY <1>10, <2>1
  <2>3. y <= h
    BY <2>2
  <2> QED
    BY <2>1, <2>3
<1> QED
  BY <1>10, <1>11
=============================================================================
