--------------------------- MODULE ExchangeProofs ---------------------------
(***************************************************************************)
(* The exchange over the byte stream is type correct and implements the    *)
(* command port, for any commands, list lengths and number of calls; with  *)
(* the theorem on the port it follows that a call returns its own answer   *)
(* unless an earlier call of the same command was abandoned.               *)
(*                                                                         *)
(* Then what an answer is built from, for any number of tags and calls:    *)
(* the frames of an inventory, whole while no call has been abandoned, in  *)
(* order always, and when parsing them panics.                             *)
(***************************************************************************)
EXTENDS Exchange, SequenceTheorems, FiniteSetTheorems, TLAPS

-----------------------------------------------------------------------------
(* Lemmas about the reader's answers.                                      *)

(* An answer has at least one frame, a total only as its last frame, and   *)
(* just one frame unless the command is an inventory.                      *)
LEMMA RepliesForm ==
    ASSUME NEW c \in Commands, NEW s \in Replies(c)
    PROVE  /\ s \in Seq(Shapes)
           /\ Len(s) \in 1..(MaxTags + 1)
           /\ \A k \in 1..Len(s) : s[k] = "total" => k = Len(s)
           /\ c \notin Inventory => Len(s) = 1
<1>1. CASE c \notin Inventory
  <2>1. PICK x \in {"status", "short", "pair", "brief", "block"} : s = <<x>>
    BY <1>1 DEF Replies
  <2>2. x \in Shapes /\ x # "total"
    BY DEF Shapes
  <2> QED
    BY <2>1, <2>2, BoundsAssumption
<1>2. CASE c \in Inventory /\ s = <<"status">>
  BY <1>2, BoundsAssumption DEF Shapes
<1>3. CASE c \in Inventory /\ s # <<"status">>
  <2>1. PICK t \in Lists(c) : s = Append(t, "total")
    BY <1>3 DEF Replies
  <2>2. PICK m \in 0..MaxTags : t \in [1..m -> {"block", "pair"}]
    BY <2>1, BoundsAssumption DEF Lists
  <2>3. t \in Seq({"block", "pair"}) /\ Len(t) = m
    BY <2>2, BoundsAssumption
  <2>4. /\ Len(s) = m + 1
        /\ \A k \in 1..m : s[k] = t[k]
        /\ s[m + 1] = "total"
    BY <2>1, <2>3
  <2>5. s \in Seq(Shapes)
    BY <2>1, <2>3, AppendProperties DEF Shapes
  <2>6. \A k \in 1..m : t[k] # "total"
    BY <2>2
  <2> QED
    BY <1>3, <2>2, <2>4, <2>5, <2>6, BoundsAssumption
<1> QED
  BY <1>1, <1>2, <1>3

(* All the atoms of an answer carry its call and its command; a frame that *)
(* ends an answer is followed by nothing but its own tail.                 *)
LEMMA AtomsForm ==
    ASSUME TypeOK, NEW q \in Ids, NEW s \in Replies(cmd[q])
    PROVE  LET a == Atoms(q, s)
           IN /\ a \in Seq(Atom)
              /\ \A i \in 1..Len(a) :
                    /\ a[i].id = q
                    /\ a[i].cmd = cmd[q]
                    /\ (cmd[q] \notin Inventory \/ a[i].shape = "total")
                          => a[i].last
                    /\ \A j \in 1..Len(a) : (i < j /\ a[i].last) => j = i + 1
<1> DEFINE L == Len(s)
           a == Atoms(q, s)
           k(i) == (i + 1) \div 2
           e(i) == [id |-> q, cmd |-> cmd[q], n |-> k(i), shape |-> s[k(i)],
                    last |-> k(i) = L,
                    part |-> IF i % 2 = 1 THEN "head" ELSE "tail"]
<1>1. cmd[q] \in Commands
  BY DEF TypeOK
<1>2. /\ s \in Seq(Shapes) /\ L \in 1..(MaxTags + 1)
      /\ \A j \in 1..L : s[j] = "total" => j = L
      /\ cmd[q] \notin Inventory => L = 1
  BY <1>1, RepliesForm
<1>3. a = [i \in 1..(2 * L) |-> e(i)]
  BY DEF Atoms
<1>4. \A i \in 1..(2 * L) : k(i) \in 1..L
  BY <1>2, BoundsAssumption
<1>5. \A i \in 1..(2 * L) : e(i) \in Atom
  <2> TAKE i \in 1..(2 * L)
  <2>1. k(i) \in 1..L
    BY <1>4
  <2>2. s[k(i)] \in Shapes
    BY <1>2, <2>1
  <2>3. k(i) \in 1..(MaxTags + 1)
    BY <1>2, <2>1, BoundsAssumption
  <2>4. (k(i) = L) \in BOOLEAN
    OBVIOUS
  <2>5. (IF i % 2 = 1 THEN "head" ELSE "tail") \in {"head", "tail"}
    OBVIOUS
  <2> HIDE DEF k, L
  <2> QED
    BY <1>1, <2>2, <2>3, <2>4, <2>5, Zenon DEF Atom
<1>6. a \in Seq(Atom) /\ Len(a) = 2 * L
  <2>1. 2 * L \in Nat
    BY <1>2, BoundsAssumption
  <2> HIDE DEF e, L, a
  <2>2. [i \in 1..(2 * L) |-> e(i)] \in Seq(Atom)
    BY <1>5, <2>1, IsASeq
  <2>3. Len([i \in 1..(2 * L) |-> e(i)]) = 2 * L
    BY <2>1, LenProperties, <2>2
  <2> QED
    BY <1>3, <2>2, <2>3
<1>7. ASSUME NEW i \in 1..(2 * L)
      PROVE  /\ a[i].id = q /\ a[i].cmd = cmd[q]
             /\ a[i].shape = s[k(i)] /\ a[i].last = (k(i) = L)
  BY <1>3, <1>7
<1>8. ASSUME NEW i \in 1..(2 * L)
      PROVE  (cmd[q] \notin Inventory \/ a[i].shape = "total") => k(i) = L
  BY <1>2, <1>4, <1>7, <1>8
<1>9. ASSUME NEW i \in 1..(2 * L), NEW j \in 1..(2 * L), i < j, k(i) = L
      PROVE  j = i + 1
  BY <1>2, <1>9, BoundsAssumption
<1> HIDE DEF a, L, k, e
<1> QED
  BY <1>6, <1>7, <1>8, <1>9 DEF a

-----------------------------------------------------------------------------
(* Lemmas about reading and parsing.                                       *)

(* What has been read and not dropped, then what has not been read.        *)
Stream == buf \o line

(* A read splits the stream: the buffer it leads to, and the rest.         *)
LEMMA ReadSplits ==
    ASSUME TypeOK, NEW n \in 0..Len(line)
    PROVE  /\ Read(n) \in Seq(Atom)
           /\ Unread(n) \in Seq(Atom)
           /\ Len(Read(n)) + Len(Unread(n)) = Len(Stream)
           /\ \A i \in 1..Len(Read(n)) : Read(n)[i] = Stream[i]
           /\ \A i \in 1..Len(Unread(n)) :
                 Unread(n)[i] = Stream[Len(Read(n)) + i]
<1>1. buf \in Seq(Atom) /\ line \in Seq(Atom)
  BY DEF TypeOK
<1> DEFINE u == SubSeq(line, 1, n)
           v == SubSeq(line, n + 1, Len(line))
<1>2. /\ u \in Seq(Atom) /\ Len(u) = n
      /\ \A i \in 1..n : u[i] = line[i]
  BY <1>1, SubSeqProperties
<1>3. /\ v \in Seq(Atom) /\ Len(v) = Len(line) - n
      /\ \A i \in 1..(Len(line) - n) : v[i] = line[n + i]
  BY <1>1, SubSeqProperties
<1>4. /\ Stream \in Seq(Atom) /\ Len(Stream) = Len(buf) + Len(line)
      /\ \A i \in 1..(Len(buf) + Len(line)) :
            Stream[i] = IF i <= Len(buf) THEN buf[i] ELSE line[i - Len(buf)]
  BY <1>1, ConcatProperties DEF Stream
<1>5. /\ buf \o u \in Seq(Atom) /\ Len(buf \o u) = Len(buf) + n
      /\ \A i \in 1..(Len(buf) + n) :
            (buf \o u)[i] = IF i <= Len(buf) THEN buf[i] ELSE u[i - Len(buf)]
  BY <1>1, <1>2, ConcatProperties
<1>6. Len(buf) \in Nat /\ Len(line) \in Nat
  BY <1>1, LenProperties
<1> HIDE DEF u, v
<1>7. ASSUME NEW i \in 1..(Len(buf) + n)
      PROVE  (buf \o u)[i] = Stream[i]
  <2>1. CASE i <= Len(buf)
    BY <1>4, <1>5, <1>6, <2>1
  <2>2. CASE ~(i <= Len(buf))
    <3>1. i - Len(buf) \in 1..n /\ i \in 1..(Len(buf) + Len(line))
      BY <1>6, <2>2
    <3> QED
      BY <1>2, <1>4, <1>5, <2>2, <3>1
  <2> QED
    BY <2>1, <2>2
<1>8. ASSUME NEW i \in 1..(Len(line) - n)
      PROVE  v[i] = Stream[Len(buf) + n + i]
  <2> DEFINE j == Len(buf) + n + i
  <2>1. /\ j \in 1..(Len(buf) + Len(line))
        /\ ~(j <= Len(buf)) /\ j - Len(buf) = n + i
    BY <1>6
  <2>2. Stream[j] = line[n + i]
    BY <1>4, <2>1
  <2> QED
    BY <1>3, <2>2
<1>9. Read(n) = buf \o u /\ Unread(n) = v
  BY DEF Read, Unread, u, v
<1>10. /\ Len(Read(n)) = Len(buf) + n
       /\ Len(Unread(n)) = Len(line) - n
  BY <1>3, <1>5, <1>9
<1>11. Len(Read(n)) + Len(Unread(n)) = Len(Stream)
  BY <1>4, <1>6, <1>10
<1> QED
  BY <1>3, <1>5, <1>7, <1>8, <1>9, <1>10, <1>11

(* The complete frames of a buffer are given by every other atom of it.    *)
LEMMA WholeForm ==
    ASSUME NEW b \in Seq(Atom)
    PROVE  /\ Whole(b) \in Seq(Atom)
           /\ 2 * Len(Whole(b)) <= Len(b)
           /\ \A k \in 1..Len(Whole(b)) : Whole(b)[k] = b[2 * k - 1]
<1>1. CASE Whole(b) = <<>>
  BY <1>1
<1>2. CASE Whole(b) # <<>>
  <2> DEFINE h == Len(b) \div 2
             e(k) == b[2 * k - 1]
  <2>1. h \in Nat /\ 2 * h <= Len(b)
    OBVIOUS
  <2>2. Whole(b) = [k \in 1..h |-> e(k)]
    BY <1>2 DEF Whole
  <2>3. \A k \in 1..h : e(k) \in Atom
    BY <2>1
  <2> HIDE DEF h, e
  <2>4. Whole(b) \in Seq(Atom)
    BY <2>1, <2>2, <2>3, IsASeq
  <2>5. Len(Whole(b)) = h
    BY <2>1, <2>2, <2>4, LenProperties
  <2>6. \A k \in 1..h : Whole(b)[k] = e(k)
    BY <2>2
  <2> QED
    BY <2>1, <2>4, <2>5, <2>6 DEF e
<1> QED
  BY <1>1, <1>2

(* An accepted buffer begins with a frame of the command, what is returned *)
(* begins with that frame and ends with a frame, complete in the buffer,   *)
(* that is the end of an answer if the rules of the reader are kept.       *)
LEMMA ParsesForm ==
    ASSUME NEW b \in Seq(Atom), NEW c \in Commands, Parses(b, c)
    PROVE  /\ Len(b) >= 2
           /\ b[1].cmd = c
           /\ Content(b, c) \in Seq(Atom)
           /\ Content(b, c) # <<>>
           /\ Content(b, c)[1] = b[1]
           /\ \E p \in 1..(Len(b) - 1) :
                 /\ IF c \in Inventory THEN b[p].shape = "total" ELSE p = 1
                 /\ Content(b, c)[Len(Content(b, c))] = b[p]
<1> DEFINE w == Whole(b)
<1>1. /\ w \in Seq(Atom) /\ 2 * Len(w) <= Len(b)
      /\ \A k \in 1..Len(w) : w[k] = b[2 * k - 1]
  BY WholeForm
<1>2. w # <<>> /\ w[1].cmd = c
  BY DEF Parses, ParsesAsInventory, ParsesAsSimple, EndsInTotal, Matches
<1> HIDE DEF w
<1>3. Len(w) \in Nat \ {0} /\ Len(b) \in Nat
  BY <1>1, <1>2, EmptySeq, LenProperties
<1>4. w[1] = b[1] /\ Len(b) >= 2
  BY <1>1, <1>3
<1>5. CASE c \in Inventory
  <2>1. w[Len(w)].shape = "total"
    BY <1>5 DEF Parses, ParsesAsInventory, EndsInTotal, w
  <2>2. /\ 2 * Len(w) - 1 \in 1..(Len(b) - 1)
        /\ w[Len(w)] = b[2 * Len(w) - 1]
    <3>1. Len(w) \in 1..Len(w)
      BY <1>3
    <3>2. w[Len(w)] = b[2 * Len(w) - 1]
      BY <1>1, <3>1
    <3>3. 2 * Len(w) - 1 \in 1..(Len(b) - 1)
      BY <1>1, <1>3
    <3> QED
      BY <3>2, <3>3
  <2> QED
    BY <1>1, <1>2, <1>4, <1>5, <2>1, <2>2 DEF Content, w
<1>6. CASE c \notin Inventory
  <2>1. Content(b, c) = <<w[1]>>
    BY <1>6 DEF Content, w
  <2>2. w[1] \in Atom
    BY <1>1, <1>3
  <2>3. 1 \in 1..(Len(b) - 1)
    BY <1>3, <1>4
  <2> QED
    BY <1>2, <1>4, <1>6, <2>1, <2>2, <2>3
<1> QED
  BY <1>5, <1>6

-----------------------------------------------------------------------------
(* The inductive invariant.                                                *)

(* Where the answers returned begin, and where they end.                   *)
Firsts == [q \in Ids |-> From(q)]
Returned == [q \in Ids |-> Upto(q)]

(* The frames of the stream are in the order of their calls, and none of   *)
(* an answer comes after its last one.                                     *)
Sorted(s) ==
    \A i, j \in 1..Len(s) :
        i < j => /\ s[i].id <= s[j].id
                 /\ (s[i].last /\ j # i + 1) => s[i].id < s[j].id

(* They answer calls made so far, l of them sending the commands c.        *)
Sent(s, l, c) ==
    \A i \in 1..Len(s) :
        /\ s[i].id \in Ids
        /\ s[i].id <= l
        /\ s[i].cmd = c[s[i].id]
        /\ (s[i].cmd \notin Inventory \/ s[i].shape = "total") => s[i].last

(* Nothing of them has been returned: f holds what has.                    *)
Unreturned(s, f) == \A i \in 1..Len(s) : \A q \in Ids : f[q] < s[i].id

(* The commands waiting in the reader are later still.                     *)
Pending(ib, s, f, l) ==
    \A i \in 1..Len(ib) :
        /\ ib[i] \in Ids
        /\ ib[i] <= l
        /\ \A j \in 1..Len(ib) : i < j => ib[i] < ib[j]
        /\ \A j \in 1..Len(s) : s[j].id < ib[i]
        /\ \A q \in Ids : f[q] < ib[i]

Queued(s, ib, f, l, c) ==
    Sorted(s) /\ Sent(s, l, c) /\ Unreturned(s, f) /\ Pending(ib, s, f, l)

Inv ==
    /\ TypeOK
    /\ \A q \in Ids : Returned[q] <= last
    /\ Queued(Stream, inbox, Returned, last, cmd)

-----------------------------------------------------------------------------
(* How the queue of answers moves.                                         *)

(* Call ids are ordered as numbers are.                                    *)
LEMMA IdOrder ==
    ASSUME NEW x \in Ids, NEW y \in Ids
    PROVE  /\ x <= x
           /\ x < y => x <= y
           /\ \A z \in Ids : (x <= y /\ y < z) => x < z
           /\ \A z \in Ids : (x < y /\ y < z) => x < z
BY BoundsAssumption DEF Ids

(* The front of the stream is dropped.                                     *)
LEMMA DropFront ==
    ASSUME NEW s \in Seq(Atom), NEW ib \in Seq(Ids), NEW f, NEW l \in Nat,
           NEW c, Queued(s, ib, f, l, c),
           NEW t \in Seq(Atom), NEW m \in Nat, m + Len(t) = Len(s),
           \A i \in 1..Len(t) : t[i] = s[m + i]
    PROVE  Queued(t, ib, f, l, c)
<1>1. \A i \in 1..Len(t) : m + i \in 1..Len(s)
  OBVIOUS
<1>2. Sorted(t)
  <2> SUFFICES ASSUME NEW i \in 1..Len(t), NEW j \in 1..Len(t), i < j
               PROVE  /\ t[i].id <= t[j].id
                      /\ (t[i].last /\ j # i + 1) => t[i].id < t[j].id
    BY DEF Sorted
  <2>1. /\ m + i \in 1..Len(s) /\ m + j \in 1..Len(s) /\ m + i < m + j
        /\ j # i + 1 => m + j # (m + i) + 1
    BY <1>1
  <2>2. /\ s[m + i].id <= s[m + j].id
        /\ (s[m + i].last /\ m + j # (m + i) + 1) => s[m + i].id < s[m + j].id
    BY <2>1 DEF Queued, Sorted
  <2> QED
    BY <2>1, <2>2
<1>3. Sent(t, l, c)
  BY <1>1 DEF Queued, Sent
<1>4. Unreturned(t, f)
  BY <1>1 DEF Queued, Unreturned
<1>5. Pending(ib, t, f, l)
  BY <1>1 DEF Queued, Pending
<1> QED
  BY <1>2, <1>3, <1>4, <1>5 DEF Queued

(* A buffer of m atoms is accepted by the last call: it holds a frame that *)
(* ends an answer, so what is left belongs to later ones.                  *)
LEMMA TakeFront ==
    ASSUME NEW s \in Seq(Atom), NEW ib \in Seq(Ids),
           NEW f \in [Ids -> Nat], NEW l \in Ids, NEW c,
           Queued(s, ib, f, l, c),
           NEW t \in Seq(Atom), NEW m \in Nat, m + Len(t) = Len(s),
           \A i \in 1..Len(t) : t[i] = s[m + i],
           NEW p \in 1..(m - 1), s[p].last
    PROVE  Queued(t, ib, [f EXCEPT ![l] = s[p].id], l, c)
<1> DEFINE g == [f EXCEPT ![l] = s[p].id]
<1>1. \A q \in Ids : g[q] = IF q = l THEN s[p].id ELSE f[q]
  OBVIOUS
<1>2. l \in Nat /\ m \in 1..Len(s) /\ 1 \in 1..Len(s) /\ p \in 1..Len(s)
  BY BoundsAssumption DEF Ids
<1> HIDE DEF g
<1>3. Queued(t, ib, f, l, c)
  BY <1>2, DropFront
<1>4. Unreturned(t, g)
  <2> SUFFICES ASSUME NEW i \in 1..Len(t), NEW q \in Ids
               PROVE  g[q] < t[i].id
    BY DEF Unreturned
  <2>1. f[q] < t[i].id
    BY <1>3 DEF Queued, Unreturned
  <2>2. /\ m + i \in 1..Len(s) /\ p < m + i /\ m + i # p + 1
        /\ t[i] = s[m + i]
    BY <1>2
  <2>3. s[p].id < t[i].id
    BY <1>2, <2>2 DEF Queued, Sorted
  <2> QED
    BY <1>1, <2>1, <2>3
<1>5. Pending(ib, t, g, l)
  <2>1. \A i \in 1..Len(ib) : s[p].id < ib[i]
    BY <1>2 DEF Queued, Pending
  <2> QED
    BY <1>1, <1>3, <2>1 DEF Queued, Pending
<1> QED
  BY <1>3, <1>4, <1>5 DEF Queued, g

(* A call is made, and the reader may get its command.                     *)
LEMMA AddCall ==
    ASSUME NEW s \in Seq(Atom), NEW ib \in Seq(Ids), NEW f \in [Ids -> Nat],
           NEW l \in Nat, NEW c \in [Ids -> Commands], l < MaxCalls,
           Queued(s, ib, f, l, c), \A q \in Ids : f[q] <= l,
           NEW d \in Commands,
           NEW ic, ic = ib \/ ic = Append(ib, l + 1)
    PROVE  /\ ic \in Seq(Ids)
           /\ Queued(s, ic, f, l + 1, [c EXCEPT ![l + 1] = d])
<1>1. l + 1 \in Ids
  BY BoundsAssumption DEF Ids
<1>2. ic \in Seq(Ids)
  <2>1. Append(ib, l + 1) \in Seq(Ids)
    BY <1>1, AppendProperties
  <2> QED
    BY <2>1
<1>3. \A i \in 1..Len(ic) : IF i <= Len(ib) THEN ic[i] = ib[i]
                                            ELSE ic[i] = l + 1
  <2>1. CASE ic = ib
    BY <2>1, LenProperties
  <2>2. CASE ic = Append(ib, l + 1)
    <3>1. /\ Len(ic) = Len(ib) + 1 /\ ic[Len(ib) + 1] = l + 1
          /\ \A i \in 1..Len(ib) : ic[i] = ib[i]
      BY <1>1, <2>2, AppendProperties
    <3> QED
      BY <3>1, LenProperties
  <2> QED
    BY <2>1, <2>2
<1>4. Sent(s, l + 1, [c EXCEPT ![l + 1] = d])
  BY DEF Queued, Sent, Ids
<1>5. Pending(ic, s, f, l + 1)
  <2> SUFFICES ASSUME NEW i \in 1..Len(ic)
               PROVE  /\ ic[i] \in Ids /\ ic[i] <= l + 1
                      /\ \A j \in 1..Len(ic) : i < j => ic[i] < ic[j]
                      /\ \A j \in 1..Len(s) : s[j].id < ic[i]
                      /\ \A q \in Ids : f[q] < ic[i]
    BY DEF Pending
  <2>1. CASE i <= Len(ib)
    <3>1. i \in 1..Len(ib) /\ ic[i] = ib[i]
      BY <1>2, <1>3, <2>1
    <3>2. ib[i] \in Ids /\ ib[i] <= l
      BY <3>1 DEF Queued, Pending
    <3>3. ASSUME NEW j \in 1..Len(ic), i < j
          PROVE  ib[i] < ic[j]
      <4>1. CASE j <= Len(ib)
        BY <1>3, <3>1, <3>3, <4>1 DEF Queued, Pending
      <4>2. CASE ~(j <= Len(ib))
        BY <1>3, <3>2, <4>2 DEF Ids
      <4> QED
        BY <4>1, <4>2
    <3> QED
      BY <3>1, <3>2, <3>3 DEF Queued, Pending, Ids
  <2>2. CASE ~(i <= Len(ib))
    <3>1. ic[i] = l + 1 /\ i = Len(ic)
      BY <1>3, <2>2, AppendProperties
    <3>2. \A j \in 1..Len(s) : s[j].id < l + 1
      BY DEF Queued, Sent, Ids
    <3>3. \A q \in Ids : f[q] < l + 1
      OBVIOUS
    <3> QED
      BY <1>1, <1>2, <3>1, <3>2, <3>3
  <2> QED
    BY <2>1, <2>2
<1> QED
  BY <1>2, <1>4, <1>5 DEF Queued

(* The reader answers its oldest command with the atoms a.                 *)
LEMMA AddAnswer ==
    ASSUME NEW s \in Seq(Atom), NEW ib \in Seq(Ids), NEW f \in [Ids -> Nat],
           NEW l \in Nat, NEW c, Queued(s, ib, f, l, c), ib # <<>>,
           NEW a \in Seq(Atom),
           \A i \in 1..Len(a) :
              /\ a[i].id = ib[1]
              /\ a[i].cmd = c[ib[1]]
              /\ (c[ib[1]] \notin Inventory \/ a[i].shape = "total")
                    => a[i].last
              /\ \A j \in 1..Len(a) : (i < j /\ a[i].last) => j = i + 1
    PROVE  Queued(s \o a, Tail(ib), f, l, c)
<1> DEFINE t == s \o a
           ic == Tail(ib)
<1>1. /\ t \in Seq(Atom) /\ Len(t) = Len(s) + Len(a)
      /\ \A i \in 1..(Len(s) + Len(a)) :
            t[i] = IF i <= Len(s) THEN s[i] ELSE a[i - Len(s)]
  BY ConcatProperties
<1>2. /\ ic \in Seq(Ids) /\ Len(ic) = Len(ib) - 1
      /\ \A i \in 1..Len(ic) : ic[i] = ib[i + 1]
  BY HeadTailProperties
<1>3. Len(ib) >= 1 /\ 1 \in 1..Len(ib) /\ Len(ib) \in Nat
  BY EmptySeq, LenProperties
<1>4. ib[1] \in Ids /\ ib[1] <= l
  BY <1>3 DEF Queued, Pending
<1>5. Len(s) \in Nat /\ Len(a) \in Nat
  BY LenProperties
<1> HIDE DEF t, ic
<1>6. ASSUME NEW i \in 1..Len(t)
      PROVE  \/ /\ i \in 1..Len(s) /\ t[i] = s[i] /\ s[i].id \in Ids
                /\ s[i].id < ib[1]
             \/ /\ i - Len(s) \in 1..Len(a) /\ t[i] = a[i - Len(s)]
                /\ t[i].id = ib[1] /\ i > Len(s)
  <2>1. CASE i <= Len(s)
    BY <1>1, <1>3, <1>5, <2>1 DEF Queued, Pending, Sent
  <2>2. CASE ~(i <= Len(s))
    <3>1. i - Len(s) \in 1..Len(a) /\ t[i] = a[i - Len(s)] /\ i > Len(s)
      BY <1>1, <1>5, <2>2
    <3> QED
      BY <3>1
  <2> QED
    BY <2>1, <2>2
<1>7. Sorted(t)
  <2> SUFFICES ASSUME NEW i \in 1..Len(t), NEW j \in 1..Len(t), i < j
               PROVE  /\ t[i].id <= t[j].id
                      /\ (t[i].last /\ j # i + 1) => t[i].id < t[j].id
    BY DEF Sorted
  <2>1. CASE j \in 1..Len(s) /\ t[j] = s[j]
    <3>1. i \in 1..Len(s) /\ t[i] = s[i]
      BY <1>1, <1>5, <2>1
    <3> QED
      BY <2>1, <3>1 DEF Queued, Sorted
  <2>2. CASE i \in 1..Len(s) /\ t[i].id < ib[1] /\ t[j].id = ib[1]
    <3>1. t[i].id \in Ids /\ t[j].id \in Ids /\ t[i].id < t[j].id
      BY <1>4, <1>6, <2>2
    <3> QED
      BY <3>1, IdOrder
  <2>3. CASE /\ i - Len(s) \in 1..Len(a) /\ t[i] = a[i - Len(s)]
             /\ j - Len(s) \in 1..Len(a) /\ t[j] = a[j - Len(s)]
             /\ t[i].id = ib[1] /\ t[j].id = ib[1]
    <3>1. t[i].last => j - Len(s) = (i - Len(s)) + 1
      <4>1. i - Len(s) < j - Len(s)
        BY <1>5
      <4>2. a[i - Len(s)].last => j - Len(s) = (i - Len(s)) + 1
        BY <2>3, <4>1
      <4> QED
        BY <2>3, <4>2
    <3>2. t[i].last => j = i + 1
      BY <1>5, <2>3, <3>1
    <3>3. t[i].id <= t[j].id
      BY <1>4, <2>3, IdOrder
    <3> QED
      BY <3>2, <3>3
  <2> QED
    BY <1>6, <1>5, <2>1, <2>2, <2>3
<1>8. Sent(t, l, c)
  <2> SUFFICES ASSUME NEW i \in 1..Len(t)
               PROVE  /\ t[i].id \in Ids /\ t[i].id <= l
                      /\ t[i].cmd = c[t[i].id]
                      /\ (t[i].cmd \notin Inventory \/ t[i].shape = "total")
                            => t[i].last
    BY DEF Sent
  <2>1. CASE i \in 1..Len(s) /\ t[i] = s[i]
    BY <2>1 DEF Queued, Sent
  <2>2. CASE i - Len(s) \in 1..Len(a) /\ t[i] = a[i - Len(s)]
    BY <1>4, <2>2
  <2> QED
    BY <1>6, <2>1, <2>2
<1>9. Unreturned(t, f)
  <2>1. \A q \in Ids : f[q] < ib[1]
    BY <1>3 DEF Queued, Pending
  <2> QED
    BY <1>6, <2>1 DEF Queued, Unreturned
<1>10. ASSUME NEW k \in 1..Len(ic)
       PROVE  k + 1 \in 1..Len(ib) /\ ic[k] = ib[k + 1]
  BY <1>2, <1>3
<1>11. Pending(ic, t, f, l)
  <2> SUFFICES ASSUME NEW i \in 1..Len(ic)
               PROVE  /\ ic[i] \in Ids /\ ic[i] <= l
                      /\ \A j \in 1..Len(ic) : i < j => ic[i] < ic[j]
                      /\ \A j \in 1..Len(t) : t[j].id < ic[i]
                      /\ \A q \in Ids : f[q] < ic[i]
    BY DEF Pending
  <2>1. i + 1 \in 1..Len(ib) /\ ic[i] = ib[i + 1]
    BY <1>10
  <2>2. ib[1] < ib[i + 1] /\ ib[i + 1] \in Ids /\ ib[i + 1] <= l
    BY <1>3, <2>1 DEF Queued, Pending
  <2>3. \A j \in 1..Len(t) : t[j].id < ib[i + 1]
    <3> SUFFICES ASSUME NEW j \in 1..Len(t)
                 PROVE  t[j].id < ib[i + 1]
      OBVIOUS
    <3>1. CASE t[j].id = ib[1]
      BY <2>2, <3>1
    <3>2. CASE t[j].id \in Ids /\ t[j].id < ib[1]
      BY <1>4, <2>2, <3>2, IdOrder
    <3> QED
      BY <1>6, <3>1, <3>2
  <2>4. \A j \in 1..Len(ic) : i < j => ib[i + 1] < ic[j]
    <3> SUFFICES ASSUME NEW j \in 1..Len(ic), i < j
                 PROVE  ib[i + 1] < ic[j]
      OBVIOUS
    <3>1. j + 1 \in 1..Len(ib) /\ ic[j] = ib[j + 1]
      BY <1>10
    <3>2. i + 1 < j + 1
      OBVIOUS
    <3> QED
      BY <2>1, <3>1, <3>2 DEF Queued, Pending
  <2>5. \A q \in Ids : f[q] < ib[i + 1]
    BY <2>1 DEF Queued, Pending
  <2> QED
    BY <2>1, <2>2, <2>3, <2>4, <2>5
<1> QED
  BY <1>7, <1>8, <1>9, <1>11 DEF Queued, t, ic

-----------------------------------------------------------------------------
(* Every action keeps the invariant, and is an action of the port or does  *)
(* not change what the port sees.                                          *)

LEMMA ReturnedType ==
    TypeOK => /\ Firsts \in [Ids -> 0..MaxCalls]
              /\ Returned \in [Ids -> 0..MaxCalls]
<1> SUFFICES ASSUME TypeOK, NEW q \in Ids
             PROVE  From(q) \in 0..MaxCalls /\ Upto(q) \in 0..MaxCalls
  BY DEF Firsts, Returned
<1>1. took[q] \in Seq(Atom)
  BY DEF TypeOK
<1>2. CASE took[q] = <<>>
  BY <1>2, BoundsAssumption DEF From, Upto
<1>3. CASE took[q] # <<>>
  <2>1. took[q][1] \in Atom /\ took[q][Len(took[q])] \in Atom
    BY <1>1, <1>3, EmptySeq, LenProperties
  <2>2. took[q][1].id \in Ids /\ took[q][Len(took[q])].id \in Ids
    BY <2>1, Zenon DEF Atom
  <2> QED
    BY <1>3, <2>2, BoundsAssumption DEF From, Upto, Ids
<1> QED
  BY <1>2, <1>3

LEMMA StreamForm ==
    TypeOK => /\ Stream \in Seq(Atom)
              /\ Len(Stream) = Len(buf) + Len(line)
              /\ \A i \in 1..Len(line) : line[i] = Stream[Len(buf) + i]
              /\ Len(buf) \in Nat /\ Len(line) \in Nat
              /\ <<>> \o line = line
<1> SUFFICES ASSUME TypeOK
             PROVE  /\ Stream \in Seq(Atom)
                    /\ Len(Stream) = Len(buf) + Len(line)
                    /\ \A i \in 1..Len(line) : line[i] = Stream[Len(buf) + i]
                    /\ Len(buf) \in Nat /\ Len(line) \in Nat
                    /\ <<>> \o line = line
  OBVIOUS
<1>1. buf \in Seq(Atom) /\ line \in Seq(Atom)
  BY DEF TypeOK
<1>2. Len(buf) \in Nat /\ Len(line) \in Nat
  BY <1>1, LenProperties
<1>3. /\ Stream \in Seq(Atom) /\ Len(Stream) = Len(buf) + Len(line)
      /\ \A i \in 1..(Len(buf) + Len(line)) :
            Stream[i] = IF i <= Len(buf) THEN buf[i] ELSE line[i - Len(buf)]
  BY <1>1, ConcatProperties DEF Stream
<1>4. ASSUME NEW i \in 1..Len(line)
      PROVE  line[i] = Stream[Len(buf) + i]
  <2>1. /\ Len(buf) + i \in 1..(Len(buf) + Len(line))
        /\ ~(Len(buf) + i <= Len(buf)) /\ (Len(buf) + i) - Len(buf) = i
    BY <1>2
  <2> QED
    BY <1>3, <2>1
<1> QED
  BY <1>1, <1>2, <1>3, <1>4, ConcatEmptySeq

(* A call that ends or begins drops the buffer: the line is what is left.  *)
LEMMA DropBuffer ==
    ASSUME Inv
    PROVE  Queued(line, inbox, Returned, last, cmd)
<1>1. /\ line \in Seq(Atom) /\ inbox \in Seq(Ids) /\ last \in Nat
  BY BoundsAssumption DEF Inv, TypeOK
<1>2. Queued(Stream, inbox, Returned, last, cmd)
  BY DEF Inv
<1> QED
  BY <1>1, <1>2, StreamForm, DropFront DEF Inv

LEMMA BeginStep ==
    ASSUME Inv, NEW c \in Commands, NEW s \in {"open", "failed"}, Begin(c, s),
           inbox' = inbox \/ inbox' = Append(inbox, last + 1)
    PROVE  Inv' /\ Port!Begin(c, s)
<1>1. /\ line \in Seq(Atom) /\ inbox \in Seq(Ids) /\ last \in Nat
      /\ cmd \in [Ids -> Commands] /\ last < MaxCalls
  BY BoundsAssumption DEF Inv, TypeOK, Begin
<1>2. /\ Returned \in [Ids -> Nat] /\ Returned' = Returned /\ Firsts' = Firsts
      /\ \A q \in Ids : Returned[q] <= last
  BY ReturnedType, BoundsAssumption
     DEF Inv, Begin, Returned, Firsts, From, Upto
<1>3. /\ inbox' \in Seq(Ids)
      /\ Queued(line, inbox', Returned, last + 1, [cmd EXCEPT ![last + 1] = c])
  BY <1>1, <1>2, DropBuffer, AddCall
<1>4. Stream' = line
  BY StreamForm DEF Inv, Begin, Stream
<1>5. last' = last + 1 /\ cmd' = [cmd EXCEPT ![last + 1] = c]
  BY DEF Begin
<1>6. TypeOK'
  <2>1. last + 1 \in Ids
    BY <1>1, BoundsAssumption DEF Ids
  <2>2. last' \in 0..MaxCalls /\ cmd' \in [Ids -> Commands]
    <3>1. last' \in 0..MaxCalls
      BY <1>1, <1>5, BoundsAssumption
    <3>2. cmd' \in [Ids -> Commands]
      BY <1>1, <1>5
    <3> QED
      BY <3>1, <3>2
  <2>3. status' \in [Ids -> Statuses]
    BY <2>1 DEF Inv, TypeOK, Begin, Statuses
  <2>4. \A q \in Ids : status'[q] = IF q = last + 1 THEN s ELSE status[q]
    BY DEF Inv, TypeOK, Begin
  <2>5. \A q \in Ids : status'[q] = "unused" <=> q > last'
    BY <1>1, <1>5, <2>4 DEF Inv, TypeOK, Ids
  <2>6. ASSUME NEW q \in Ids, q < last'
        PROVE  status'[q] \in {"replied", "failed"}
    <3>1. q # last + 1 /\ ~(q > last)
      BY <1>1, <1>5, <2>6 DEF Ids
    <3>2. status[q] \in Statuses \ {"unused", "open", "panicked"}
      BY <3>1 DEF Inv, TypeOK, Begin, Idle
    <3> QED
      BY <2>4, <3>1, <3>2 DEF Statuses
  <2>7. buf' \in Seq(Atom) /\ UNCHANGED <<took, line, answered>>
    BY EmptySeq DEF Begin
  <2> QED
    BY <1>3, <2>2, <2>3, <2>5, <2>6, <2>7 DEF Inv, TypeOK
<1>7. Port!Begin(c, s)
  BY <1>2 DEF Begin, Idle, Port!Begin, Port!Idle, Ids, Port!Ids,
              Returned, Firsts
<1>8. \A q \in Ids : Returned[q] <= last + 1
  BY <1>1, <1>2
<1> QED
  BY <1>2, <1>3, <1>4, <1>5, <1>6, <1>7, <1>8 DEF Inv

LEMMA AnswerStep ==
    ASSUME Inv, ReaderAnswers
    PROVE  Inv' /\ UNCHANGED Port!vars
<1>1. /\ Stream \in Seq(Atom) /\ inbox \in Seq(Ids) /\ last \in Nat
      /\ inbox # <<>> /\ line \in Seq(Atom) /\ buf \in Seq(Atom)
  BY StreamForm, BoundsAssumption DEF Inv, TypeOK, ReaderAnswers
<1>2. Head(inbox) \in Ids /\ Tail(inbox) \in Seq(Ids) /\ Head(inbox) = inbox[1]
  BY <1>1, HeadTailProperties
<1>3. PICK s \in Replies(cmd[Head(inbox)]) :
          /\ line' = line \o Atoms(Head(inbox), s)
          /\ answered' = [answered EXCEPT ![Head(inbox)] = Len(s)]
  BY DEF ReaderAnswers
<1> DEFINE a == Atoms(Head(inbox), s)
<1>4. /\ a \in Seq(Atom)
      /\ \A i \in 1..Len(a) :
            /\ a[i].id = inbox[1]
            /\ a[i].cmd = cmd[inbox[1]]
            /\ (cmd[inbox[1]] \notin Inventory \/ a[i].shape = "total")
                  => a[i].last
            /\ \A j \in 1..Len(a) : (i < j /\ a[i].last) => j = i + 1
  BY <1>2, AtomsForm DEF Inv
<1> HIDE DEF a
<1>5. line' = line \o a
  BY <1>3 DEF a
<1>6. Stream' = Stream \o a
  <2>1. buf' = buf
    BY DEF ReaderAnswers
  <2>2. buf \o (line \o a) = (buf \o line) \o a
    <3> buf \in Seq(Atom) /\ line \in Seq(Atom) /\ a \in Seq(Atom)
      BY <1>1, <1>4
    <3> QED
      BY ConcatAssociative
  <2> QED
    BY <1>5, <2>1, <2>2 DEF Stream
<1>7. Returned \in [Ids -> Nat] /\ Returned' = Returned /\ Firsts' = Firsts
  BY ReturnedType, BoundsAssumption
     DEF Inv, ReaderAnswers, Returned, Firsts, From, Upto, caller
<1>8. Queued(Stream', inbox', Returned', last', cmd')
  <2>1. Queued(Stream, inbox, Returned, last, cmd)
    BY DEF Inv
  <2>2. Queued(Stream \o a, Tail(inbox), Returned, last, cmd)
    BY <1>1, <1>4, <1>7, <2>1, AddAnswer
  <2> QED
    BY <1>6, <1>7, <2>2 DEF ReaderAnswers, caller
<1>9. TypeOK'
  <2>1. line' \in Seq(Atom)
    BY <1>1, <1>4, <1>5, ConcatProperties
  <2>2. Len(s) \in 0..(MaxTags + 1)
    BY <1>2, RepliesForm, BoundsAssumption DEF Inv, TypeOK
  <2>3. answered' \in [Ids -> 0..(MaxTags + 1)]
    BY <1>2, <1>3, <2>2 DEF Inv, TypeOK
  <2> QED
    BY <1>2, <2>1, <2>3 DEF Inv, TypeOK, ReaderAnswers, caller
<1>10. UNCHANGED Port!vars
  BY <1>7 DEF ReaderAnswers, caller, Port!vars, Returned, Firsts
<1> QED
  BY <1>7, <1>8, <1>9, <1>10 DEF Inv, ReaderAnswers, caller

LEMMA IgnoreStep ==
    ASSUME Inv, ReaderIgnores
    PROVE  Inv' /\ UNCHANGED Port!vars
<1>1. inbox \in Seq(Ids) /\ inbox # <<>>
  BY DEF Inv, TypeOK, ReaderIgnores
<1>2. /\ Tail(inbox) \in Seq(Ids) /\ Len(inbox) \in Nat
      /\ Len(Tail(inbox)) = Len(inbox) - 1
      /\ \A i \in 1..Len(Tail(inbox)) : Tail(inbox)[i] = inbox[i + 1]
  BY <1>1, HeadTailProperties, LenProperties
<1>3. Returned' = Returned /\ Firsts' = Firsts /\ Stream' = Stream
  BY DEF ReaderIgnores, Returned, Firsts, From, Upto, caller, Stream
<1>4. Pending(Tail(inbox), Stream, Returned, last)
  <2> SUFFICES ASSUME NEW i \in 1..Len(Tail(inbox))
               PROVE  /\ inbox[i + 1] \in Ids /\ inbox[i + 1] <= last
                      /\ \A j \in 1..Len(Tail(inbox)) :
                            i < j => inbox[i + 1] < inbox[j + 1]
                      /\ \A j \in 1..Len(Stream) : Stream[j].id < inbox[i + 1]
                      /\ \A q \in Ids : Returned[q] < inbox[i + 1]
    BY <1>2 DEF Pending
  <2>1. i + 1 \in 1..Len(inbox)
    BY <1>2
  <2>2. \A j \in 1..Len(Tail(inbox)) :
            i < j => j + 1 \in 1..Len(inbox) /\ i + 1 < j + 1
    BY <1>2
  <2> QED
    BY <2>1, <2>2 DEF Inv, Queued, Pending
<1>5. Queued(Stream', inbox', Returned', last', cmd')
  BY <1>3, <1>4 DEF Inv, Queued, ReaderIgnores, caller
<1>6. TypeOK'
  BY <1>2 DEF Inv, TypeOK, ReaderIgnores, caller
<1>7. UNCHANGED Port!vars
  BY <1>3 DEF ReaderIgnores, caller, Port!vars, Returned, Firsts
<1> QED
  BY <1>3, <1>5, <1>6, <1>7 DEF Inv, ReaderIgnores, caller

(* The last call ends: its status is all that the types depend on.         *)
LEMMA EndTypes ==
    ASSUME TypeOK, Waiting, NEW s \in {"replied", "failed", "panicked"},
           status' = [status EXCEPT ![last] = s],
           UNCHANGED <<last, cmd, inbox, answered>>,
           took' \in [Ids -> Seq(Atom)],
           buf' \in Seq(Atom), line' \in Seq(Atom)
    PROVE  TypeOK'
<1>1. last \in Ids
  BY DEF Waiting
<1>2. \A q \in Ids : status'[q] = IF q = last THEN s ELSE status[q]
  BY DEF TypeOK
<1>3. status' \in [Ids -> Statuses]
  BY DEF TypeOK, Statuses
<1>4. \A q \in Ids : status'[q] = "unused" <=> q > last'
  BY <1>1, <1>2, BoundsAssumption DEF TypeOK, Ids
<1>5. \A q \in Ids : q < last' => status'[q] \in {"replied", "failed"}
  BY <1>1, <1>2, BoundsAssumption DEF TypeOK, Ids
<1> QED
  BY <1>3, <1>4, <1>5 DEF TypeOK

LEMMA AbandonStep ==
    ASSUME Inv, Abandon
    PROVE  Inv' /\ Port!GiveUp("failed")
<1>1. Stream' = line /\ Returned' = Returned /\ Firsts' = Firsts
  BY StreamForm DEF Inv, Abandon, Stream, Returned, Firsts, From, Upto
<1>2. TypeOK'
  BY EndTypes, EmptySeq DEF Inv, TypeOK, Abandon
<1>3. Queued(Stream', inbox', Returned', last', cmd')
  BY <1>1, DropBuffer DEF Abandon
<1>4. Port!GiveUp("failed")
  BY <1>1 DEF Abandon, Waiting, Ids, Port!GiveUp, Port!Ids, Returned, Firsts
<1> QED
  BY <1>1, <1>2, <1>3, <1>4 DEF Inv, Abandon

LEMMA KeepReadingStep ==
    ASSUME Inv, NEW n \in 0..Len(line), KeepReading(n)
    PROVE  Inv' /\ UNCHANGED Port!vars
<1>1. Read(n) \in Seq(Atom) /\ Unread(n) \in Seq(Atom)
  BY ReadSplits DEF Inv
<1>2. Returned' = Returned /\ Firsts' = Firsts
  BY DEF KeepReading, Returned, Firsts, From, Upto, caller
<1>3. Stream' = Stream
  <2>1. /\ Stream \in Seq(Atom) /\ Stream' = Read(n) \o Unread(n)
        /\ Len(Read(n)) + Len(Unread(n)) = Len(Stream)
        /\ \A i \in 1..Len(Read(n)) : Read(n)[i] = Stream[i]
        /\ \A i \in 1..Len(Unread(n)) : Unread(n)[i] = Stream[Len(Read(n)) + i]
    BY StreamForm, ReadSplits DEF Inv, KeepReading, Stream
  <2>2. Len(Read(n)) \in Nat /\ Len(Unread(n)) \in Nat
    BY <1>1, LenProperties
  <2>3. /\ Stream' \in Seq(Atom)
        /\ Len(Stream') = Len(Read(n)) + Len(Unread(n))
        /\ \A i \in 1..(Len(Read(n)) + Len(Unread(n))) :
              Stream'[i] = IF i <= Len(Read(n)) THEN Read(n)[i]
                           ELSE Unread(n)[i - Len(Read(n))]
    BY <1>1, <2>1, ConcatProperties
  <2>4. ASSUME NEW i \in 1..Len(Stream)
        PROVE  Stream'[i] = Stream[i]
    <3>1. CASE i <= Len(Read(n))
      <4>1. i \in 1..Len(Read(n)) /\ i \in 1..(Len(Read(n)) + Len(Unread(n)))
        BY <2>2, <3>1
      <4> QED
        BY <2>1, <2>3, <3>1, <4>1
    <3>2. CASE ~(i <= Len(Read(n)))
      <4>1. /\ i - Len(Read(n)) \in 1..Len(Unread(n))
            /\ Len(Read(n)) + (i - Len(Read(n))) = i
        BY <2>1, <2>2, <3>2
      <4> QED
        BY <2>1, <2>3, <3>2, <4>1
    <3> QED
      BY <3>1, <3>2
  <2> QED
    BY <2>1, <2>3, <2>4, SeqEqual
<1>4. TypeOK'
  BY <1>1 DEF Inv, TypeOK, KeepReading, caller
<1>5. UNCHANGED Port!vars
  BY <1>2 DEF KeepReading, caller, Port!vars, Returned, Firsts
<1> QED
  BY <1>2, <1>3, <1>4, <1>5 DEF Inv, KeepReading, caller

(* What a read leaves is the end of the stream.                            *)
LEMMA RestQueued ==
    ASSUME Inv, NEW n \in 0..Len(line)
    PROVE  Queued(Unread(n), inbox, Returned, last, cmd)
<1>1. /\ Stream \in Seq(Atom) /\ inbox \in Seq(Ids) /\ last \in Nat
      /\ Queued(Stream, inbox, Returned, last, cmd)
  BY StreamForm, BoundsAssumption DEF Inv, TypeOK
<1>2. Read(n) \in Seq(Atom) /\ Len(Read(n)) \in Nat
  BY ReadSplits, LenProperties DEF Inv
<1> QED
  BY <1>1, <1>2, ReadSplits, DropFront DEF Inv

LEMMA PanicStep ==
    ASSUME Inv, NEW n \in 0..Len(line), Panic(n)
    PROVE  Inv' /\ Port!GiveUp("panicked")
<1>1. /\ Unread(n) \in Seq(Atom) /\ <<>> \o Unread(n) = Unread(n)
  BY ReadSplits, ConcatEmptySeq DEF Inv
<1>2. Stream' = Unread(n) /\ Returned' = Returned /\ Firsts' = Firsts
  BY <1>1 DEF Panic, Stream, Returned, Firsts, From, Upto
<1>3. TypeOK'
  BY <1>1, EndTypes, EmptySeq DEF Inv, TypeOK, Panic
<1>4. Queued(Stream', inbox', Returned', last', cmd')
  BY <1>2, RestQueued DEF Panic
<1>5. Port!GiveUp("panicked")
  BY <1>2 DEF Panic, Waiting, Ids, Port!GiveUp, Port!Ids, Returned, Firsts
<1> QED
  BY <1>2, <1>3, <1>4, <1>5 DEF Inv, Panic

LEMMA AcceptStep ==
    ASSUME Inv, NEW n \in 0..Len(line), Accept(n)
    PROVE  Inv' /\ \E r, u \in Ids : Port!Return(r, u)
<1> DEFINE b == Read(n)
           t == Unread(n)
           w == Content(b, cmd[last])
           r == Stream[1].id
<1>1. /\ b \in Seq(Atom) /\ t \in Seq(Atom)
      /\ Stream \in Seq(Atom)
      /\ Len(b) + Len(t) = Len(Stream)
      /\ \A i \in 1..Len(b) : b[i] = Stream[i]
      /\ \A i \in 1..Len(t) : t[i] = Stream[Len(b) + i]
      /\ <<>> \o t = t
  <2>1. TypeOK /\ Stream \in Seq(Atom)
    BY StreamForm DEF Inv
  <2>2. t \in Seq(Atom)
    BY <2>1, ReadSplits
  <2>3. <<>> \o t = t
    BY <2>2, ConcatEmptySeq
  <2> QED
    BY <2>1, <2>3, ReadSplits
<1>2. /\ last \in Ids /\ last \in Nat /\ status[last] = "open"
      /\ cmd[last] \in Commands /\ inbox \in Seq(Ids)
      /\ Returned \in [Ids -> Nat]
  <2>1. TypeOK
    BY DEF Inv
  <2>2. last \in Ids /\ status[last] = "open"
    BY DEF Accept, Waiting
  <2>3. last \in Nat /\ inbox \in Seq(Ids) /\ cmd[last] \in Commands
    BY <2>1, <2>2, BoundsAssumption DEF TypeOK
  <2> QED
    BY <2>1, <2>2, <2>3, ReturnedType, BoundsAssumption
<1>3. /\ Len(b) >= 2 /\ b[1].cmd = cmd[last]
      /\ w \in Seq(Atom) /\ w # <<>> /\ w[1] = b[1]
  <2>1. Parses(b, cmd[last])
    BY DEF Accept
  <2> HIDE DEF b
  <2> QED
    BY <1>1, <1>2, <2>1, ParsesForm
<1>4. PICK p \in 1..(Len(b) - 1) :
          /\ IF cmd[last] \in Inventory THEN b[p].shape = "total" ELSE p = 1
          /\ w[Len(w)] = b[p]
  BY <1>1, <1>2, ParsesForm DEF Accept
<1> DEFINE u == Stream[p].id
           f == [Returned EXCEPT ![last] = u]
<1>5. /\ Len(b) \in Nat /\ Len(t) \in Nat
  BY <1>1, LenProperties
<1>6. Queued(Stream, inbox, Returned, last, cmd)
  BY DEF Inv
<1> HIDE DEF b, t, w
<1>7. /\ 1 \in 1..Len(Stream) /\ b[1] = Stream[1]
      /\ p \in 1..Len(Stream) /\ b[p] = Stream[p]
  <2>1. Len(Stream) \in Nat /\ Len(b) <= Len(Stream)
    BY <1>1, <1>5, LenProperties
  <2>2. 1 \in 1..Len(b) /\ p \in 1..Len(b)
    BY <1>3, <1>5
  <2>3. \A i \in 1..Len(b) : i \in 1..Len(Stream)
    BY <1>5, <2>1
  <2> QED
    BY <1>1, <2>2, <2>3
<1>8. Stream[p].last
  <2>1. cmd[last] \notin Inventory => Stream[p].cmd \notin Inventory
    BY <1>3, <1>4, <1>7
  <2> QED
    BY <1>4, <1>6, <1>7, <2>1 DEF Queued, Sent
<1>9. /\ r \in Ids /\ u \in Ids /\ r <= u /\ u <= last
      /\ cmd[r] = cmd[last]
      /\ \A q \in Ids : Returned[q] < r
  <2>1. r <= u
    <3>1. CASE p = 1
      BY <1>6, <1>7, <3>1, IdOrder DEF Queued, Sent
    <3>2. CASE 1 < p
      BY <1>6, <1>7, <3>2 DEF Queued, Sorted
    <3> QED
      BY <3>1, <3>2
  <2> QED
    BY <1>3, <1>6, <1>7, <2>1 DEF Queued, Sent, Unreturned
<1>10. /\ status' = [status EXCEPT ![last] = "replied"]
       /\ took' = [took EXCEPT ![last] = w]
       /\ buf' = <<>> /\ line' = t
       /\ UNCHANGED <<last, cmd, inbox, answered>>
  BY DEF Accept, b, t, w
<1>11. Returned' = f /\ Firsts' = [Firsts EXCEPT ![last] = r]
  <2>1. \A q \in Ids : took'[q] = IF q = last THEN w ELSE took[q]
    BY <1>10 DEF Inv, TypeOK
  <2>2. \A q \in Ids : /\ From(q)' = IF q = last THEN r ELSE From(q)
                       /\ Upto(q)' = IF q = last THEN u ELSE Upto(q)
    BY <1>3, <1>4, <1>7, <2>1 DEF From, Upto
  <2> HIDE DEF r, u
  <2> QED
    BY <2>2 DEF Returned, Firsts
<1>12. Queued(t, inbox, f, last, cmd)
  BY <1>1, <1>2, <1>5, <1>6, <1>8, TakeFront
<1>13. TypeOK'
  <2>1. took' \in [Ids -> Seq(Atom)]
    BY <1>3, <1>10 DEF Inv, TypeOK
  <2> QED
    BY <1>1, <1>10, <2>1, EndTypes, EmptySeq DEF Inv, Accept
<1>14. Stream' = t
  BY <1>1, <1>10 DEF Stream
<1>15. \A q \in Ids : f[q] <= last
  BY <1>2, <1>9 DEF Inv
<1>16. Port!Return(r, u)
  BY <1>2, <1>9, <1>10, <1>11
     DEF Port!Return, Port!Ids, Ids, Returned, Firsts
<1> QED
  BY <1>9, <1>10, <1>11, <1>12, <1>13, <1>14, <1>15, <1>16 DEF Inv

-----------------------------------------------------------------------------
(* The theorems.                                                           *)

LEMMA InitStep == Init => Inv /\ Port!Init
<1> SUFFICES ASSUME Init
             PROVE  Inv /\ Port!Init
  OBVIOUS
<1>1. TypeOK
  BY CommandsAssumption, BoundsAssumption, EmptySeq
     DEF Init, TypeOK, Ids, Statuses
<1>2. /\ Returned = [q \in Ids |-> 0] /\ Firsts = [q \in Ids |-> 0]
  BY DEF Init, Returned, Firsts, From, Upto
<1>3. Stream = <<>> /\ inbox = <<>>
  <2>1. <<>> \in Seq(Atom)
    BY EmptySeq
  <2> QED
    BY <2>1, ConcatEmptySeq DEF Init, Stream
<1>4. Queued(Stream, inbox, Returned, last, cmd)
  BY <1>3 DEF Queued, Sorted, Sent, Unreturned, Pending
<1>5. Port!Init
  BY <1>1, <1>2 DEF Init, TypeOK, Port!Init, Port!Ids, Ids, Returned, Firsts
<1> QED
  BY <1>1, <1>2, <1>4, <1>5 DEF Init, Inv

LEMMA NextStep == Inv /\ [Next]_vars => Inv' /\ [Port!Next]_(Port!vars)
<1> SUFFICES ASSUME Inv, [Next]_vars
             PROVE  Inv' /\ [Port!Next]_(Port!vars)
  OBVIOUS
<1>1. ASSUME NEW c \in Commands, Send(c)
      PROVE  Inv' /\ Port!Next
  BY <1>1, BeginStep DEF Send, Port!Next
<1>2. ASSUME NEW c \in Commands, SendFails(c)
      PROVE  Inv' /\ Port!Next
  BY <1>2, BeginStep DEF SendFails, Port!Next
<1>3. CASE ReaderAnswers
  BY <1>3, AnswerStep
<1>4. CASE ReaderIgnores
  BY <1>4, IgnoreStep
<1>5. ASSUME NEW n \in 0..Len(line), Accept(n)
      PROVE  Inv' /\ Port!Next
  BY <1>5, AcceptStep DEF Port!Next, Port!Ids, Ids
<1>6. ASSUME NEW n \in 0..Len(line), Panic(n)
      PROVE  Inv' /\ Port!Next
  BY <1>6, PanicStep DEF Port!Next
<1>7. ASSUME NEW n \in 0..Len(line), KeepReading(n)
      PROVE  Inv' /\ UNCHANGED Port!vars
  BY <1>7, KeepReadingStep
<1>8. CASE TimeOut \/ ReadFails
  BY <1>8, AbandonStep DEF TimeOut, ReadFails, Port!Next
<1>9. CASE UNCHANGED vars
  <2>1. Stream' = Stream /\ Returned' = Returned /\ Firsts' = Firsts
    BY <1>9 DEF vars, Stream, Returned, Firsts, From, Upto
  <2> QED
    BY <1>9, <2>1 DEF vars, Inv, TypeOK, Port!vars, Returned, Firsts
<1> QED
  BY <1>1, <1>2, <1>3, <1>4, <1>5, <1>6, <1>7, <1>8, <1>9 DEF Next, Receive

(* The types hold in every run, whatever the bounds: among them that only  *)
(* the last call may be waiting (a Connector is borrowed mutably).         *)
THEOREM ExchangeTypeOK == Spec => []TypeOK
<1>1. Inv => TypeOK
  BY DEF Inv
<1> QED
  BY <1>1, InitStep, NextStep, PTL DEF Spec

(* The exchange implements the command port: whatever is lost, late, split *)
(* or merged on the line, an answer is returned to a call of its command,  *)
(* at most once and in order.                                              *)
THEOREM ExchangeImplementsPort == Spec => PortSpec
<1>1. Init => Inv /\ Port!Init
  BY InitStep
<1>2. Inv /\ [Next]_vars => Inv' /\ [Port!Next]_(Port!vars)
  BY NextStep
<1> QED
  BY <1>1, <1>2, PTL DEF Spec, PortSpec, Port!Spec

PortProofs == INSTANCE CommandPortProofs
                  WITH from <- [q \in Ids |-> From(q)],
                       upto <- [q \in Ids |-> Upto(q)]

LEMMA PortStep ==
    /\ Port!Init => PortProofs!Init
    /\ [Port!Next]_(Port!vars) => [PortProofs!Next]_(PortProofs!vars)
<1>1. Port!Init => PortProofs!Init
  BY DEF Port!Init, PortProofs!Init, Port!Ids, PortProofs!Ids
<1>2. [Port!Next]_(Port!vars) => [PortProofs!Next]_(PortProofs!vars)
  BY DEF Port!Next, PortProofs!Next, Port!vars, PortProofs!vars,
         Port!Begin, PortProofs!Begin, Port!Idle, PortProofs!Idle,
         Port!Return, PortProofs!Return, Port!GiveUp, PortProofs!GiveUp,
         Port!Ids, PortProofs!Ids
<1> QED
  BY <1>1, <1>2

(* What is proved of the port alone holds of the exchange.                 *)
LEMMA PortProperties ==
    Spec => [](PortProofs!InOrder /\ PortProofs!OwnUnlessAbandoned)
<1>1. MaxCalls \in Nat
  BY BoundsAssumption
<1>2. PortProofs!Spec =>
          [](PortProofs!TypeOK /\ PortProofs!InOrder
               /\ PortProofs!OwnUnlessAbandoned)
  BY <1>1, PortProofs!PortOwnUnlessAbandoned
<1>3. Port!Spec => PortProofs!Spec
  BY PortStep, PTL DEF Port!Spec, PortProofs!Spec
<1> QED
  BY <1>2, <1>3, ExchangeImplementsPort, PTL DEF PortSpec

(* Hence a call returns its own answer unless an earlier call of the same  *)
(* command was abandoned: stale answers come from abandoned calls only.    *)
THEOREM ExchangeOwnUnlessAbandoned == Spec => []OwnUnlessAbandoned
<1>1. PortProofs!OwnUnlessAbandoned => OwnUnlessAbandoned
  BY DEF OwnUnlessAbandoned, Port!OwnUnlessAbandoned,
         PortProofs!OwnUnlessAbandoned, Port!Ids, PortProofs!Ids
<1> QED
  BY <1>1, PortProperties, PTL

(* And no frame, so no tag, is reported by two calls: whatever answers are *)
(* merged, each call returns frames sent after those of the calls before.  *)
THEOREM ExchangeFramesReportedOnce == Spec => []FramesReportedOnce
<1>1. PortProofs!InOrder => FramesReportedOnce
  BY DEF FramesReportedOnce, PortProofs!InOrder, PortProofs!Ids, Ids
<1> QED
  BY <1>1, PortProperties, PTL

-----------------------------------------------------------------------------
(* Whole inventories.                                                      *)
(*                                                                         *)
(* Until a call is abandoned, the link holds nothing but the answer of the *)
(* call that waits, whole or not yet sent, and nothing at all when no call *)
(* waits (Alone).  A part of that answer that parses ends in its total,    *)
(* which only its last frame is, so the part is all of it.                 *)

(* The calls up to l have all been answered.                               *)
Clean(l) == \A p \in 1..l : status[p] = "replied"

(* The stream holds the answer of q, as the reader has sent it.            *)
HoldsAnswer(q) ==
    \E s \in Replies(cmd[q]) : Stream = Atoms(q, s) /\ answered[q] = Len(s)

Alone ==
    /\ Clean(last) => inbox = <<>> /\ Stream = <<>>
    /\ (Waiting /\ Clean(last - 1)) =>
          \/ inbox = <<last>> /\ Stream = <<>>
          \/ inbox = <<>> /\ Stream = <<>>
          \/ inbox = <<>> /\ HoldsAnswer(last)

(* The reader has done with the calls that have been answered.             *)
Later == \A q \in Ids : Clean(q) => \A i \in 1..Len(inbox) : q < inbox[i]

CompleteInv == Inv /\ Alone /\ Later /\ InventoryComplete

-----------------------------------------------------------------------------
(* The frames of an answer, in the order the reader numbered them.         *)
LEMMA AtomsFrames ==
    ASSUME TypeOK, NEW q \in Ids, NEW s \in Replies(cmd[q])
    PROVE  /\ Len(Atoms(q, s)) = 2 * Len(s)
           /\ \A k \in 1..Len(s) : /\ Atoms(q, s)[2 * k - 1].id = q
                                   /\ Atoms(q, s)[2 * k - 1].n = k
<1> DEFINE e(i) == [id |-> q, cmd |-> cmd[q], n |-> (i + 1) \div 2,
                    shape |-> s[(i + 1) \div 2],
                    last |-> (i + 1) \div 2 = Len(s),
                    part |-> IF i % 2 = 1 THEN "head" ELSE "tail"]
<1>1. Len(s) \in Nat
  <2>1. cmd[q] \in Commands
    BY DEF TypeOK
  <2> QED
    BY <2>1, RepliesForm, BoundsAssumption
<1>2. Atoms(q, s) = [i \in 1..(2 * Len(s)) |-> e(i)]
  BY DEF Atoms
<1>3. Atoms(q, s) \in Seq(Atom)
  BY AtomsForm
<1>4. \A k \in 1..Len(s) : /\ 2 * k - 1 \in 1..(2 * Len(s))
                           /\ ((2 * k - 1) + 1) \div 2 = k
  BY <1>1
<1>5. \A i \in 1..(2 * Len(s)) : e(i).id = q /\ e(i).n = (i + 1) \div 2
  OBVIOUS
<1> HIDE DEF e
<1>6. Len(Atoms(q, s)) = 2 * Len(s)
  BY <1>1, <1>2, <1>3, LenProperties
<1>7. ASSUME NEW k \in 1..Len(s)
      PROVE  Atoms(q, s)[2 * k - 1].id = q /\ Atoms(q, s)[2 * k - 1].n = k
  <2>1. 2 * k - 1 \in 1..(2 * Len(s)) /\ ((2 * k - 1) + 1) \div 2 = k
    BY <1>4
  <2>2. Atoms(q, s)[2 * k - 1] = e(2 * k - 1)
    BY <1>2, <2>1
  <2>3. e(2 * k - 1).id = q /\ e(2 * k - 1).n = ((2 * k - 1) + 1) \div 2
    BY <1>5, <2>1
  <2> QED
    BY <2>1, <2>2, <2>3
<1> QED
  BY <1>6, <1>7

(* No proper part of an answer parses, and an inventory is all its frames. *)
LEMMA PartParsed ==
    ASSUME TypeOK, NEW q \in Ids, NEW s \in Replies(cmd[q]),
           NEW b \in Seq(Atom), Len(b) <= Len(Atoms(q, s)),
           \A i \in 1..Len(b) : b[i] = Atoms(q, s)[i],
           Parses(b, cmd[q])
    PROVE  /\ Len(b) = Len(Atoms(q, s))
           /\ cmd[q] \in Inventory =>
                 /\ Len(Content(b, cmd[q])) = Len(s)
                 /\ \A k \in 1..Len(s) : /\ Content(b, cmd[q])[k].id = q
                                         /\ Content(b, cmd[q])[k].n = k
<1> DEFINE a == Atoms(q, s)
           c == cmd[q]
<1>1. c \in Commands
  BY DEF TypeOK
<1>2. /\ a \in Seq(Atom)
      /\ \A i \in 1..Len(a) :
            /\ a[i].cmd = c
            /\ (c \notin Inventory \/ a[i].shape = "total") => a[i].last
            /\ \A j \in 1..Len(a) : (i < j /\ a[i].last) => j = i + 1
  BY AtomsForm
<1>3. /\ Len(a) = 2 * Len(s)
      /\ \A k \in 1..Len(s) : a[2 * k - 1].id = q /\ a[2 * k - 1].n = k
  BY AtomsFrames
<1>4. Len(s) \in Nat /\ Len(b) \in Nat /\ Len(a) \in Nat
  <2>1. Len(s) \in Nat
    BY <1>1, RepliesForm, BoundsAssumption
  <2> QED
    BY <1>2, <2>1, LenProperties
<1>5. /\ Len(b) <= Len(a)
      /\ \A i \in 1..Len(b) : b[i] = a[i]
      /\ Parses(b, c)
  OBVIOUS
<1>6. Whole(b) # <<>>
  BY <1>5 DEF Parses, ParsesAsInventory, ParsesAsSimple, EndsInTotal, Matches
<1> HIDE DEF a, c
<1>7. PICK p \in 1..(Len(b) - 1) :
          IF c \in Inventory THEN b[p].shape = "total" ELSE p = 1
  BY <1>1, <1>5, ParsesForm
<1>8. p \in 1..Len(a) /\ b[p] = a[p]
  BY <1>4, <1>5, <1>7
<1>9. a[p].last
  BY <1>2, <1>7, <1>8
<1>10. Len(b) = Len(a)
  <2> SUFFICES ASSUME Len(b) # Len(a)
               PROVE  FALSE
    OBVIOUS
  <2>1. Len(a) \in 1..Len(a) /\ p < Len(a) /\ Len(a) # p + 1
    BY <1>4, <1>5, <1>7
  <2> QED
    BY <1>2, <1>8, <1>9, <2>1
<1>11. ASSUME c \in Inventory
       PROVE  /\ Len(Content(b, c)) = Len(s)
              /\ \A k \in 1..Len(s) : /\ Content(b, c)[k].id = q
                                      /\ Content(b, c)[k].n = k
  <2>1. Content(b, c) = Whole(b)
    BY <1>11 DEF Content
  <2>2. Len(b) \div 2 = Len(s)
    BY <1>3, <1>4, <1>10
  <2>3. Whole(b) = [k \in 1..Len(s) |-> b[2 * k - 1]]
    BY <1>6, <2>2 DEF Whole
  <2>4. Whole(b) \in Seq(Atom)
    BY WholeForm
  <2>5. Len(Whole(b)) = Len(s)
    BY <1>4, <2>3, <2>4, LenProperties
  <2>6. ASSUME NEW k \in 1..Len(s)
        PROVE  Whole(b)[k].id = q /\ Whole(b)[k].n = k
    <3>1. 2 * k - 1 \in 1..Len(b)
      BY <1>3, <1>4, <1>10
    <3> QED
      BY <1>3, <1>5, <2>3, <3>1
  <2> QED
    BY <2>1, <2>5, <2>6
<1> QED
  BY <1>10, <1>11 DEF a, c

(* Reading moves the boundary between buffer and line, and nothing else.   *)
LEMMA StreamStays ==
    ASSUME TypeOK, NEW n \in 0..Len(line)
    PROVE  Read(n) \o Unread(n) = Stream
<1> DEFINE r == Read(n)
           u == Unread(n)
           t == r \o u
<1>1. /\ r \in Seq(Atom) /\ u \in Seq(Atom)
      /\ Len(r) + Len(u) = Len(Stream)
      /\ \A i \in 1..Len(r) : r[i] = Stream[i]
      /\ \A i \in 1..Len(u) : u[i] = Stream[Len(r) + i]
  BY ReadSplits
<1>2. Stream \in Seq(Atom) /\ Len(Stream) \in Nat
  BY StreamForm, LenProperties
<1> HIDE DEF r, u
<1>3. /\ t \in Seq(Atom) /\ Len(t) = Len(r) + Len(u)
      /\ \A i \in 1..(Len(r) + Len(u)) :
            t[i] = IF i <= Len(r) THEN r[i] ELSE u[i - Len(r)]
  BY <1>1, ConcatProperties
<1>4. Len(r) \in Nat /\ Len(u) \in Nat
  BY <1>1, LenProperties
<1> HIDE DEF t
<1>5. ASSUME NEW i \in 1..Len(Stream)
      PROVE  t[i] = Stream[i]
  <2>1. CASE i <= Len(r)
    BY <1>1, <1>3, <1>4, <2>1
  <2>2. CASE ~(i <= Len(r))
    <3>1. i - Len(r) \in 1..Len(u) /\ Len(r) + (i - Len(r)) = i
      BY <1>1, <1>2, <1>4, <2>2
    <3> QED
      BY <1>1, <1>3, <2>2, <3>1
  <2> QED
    BY <2>1, <2>2
<1>6. t = Stream
  BY <1>1, <1>2, <1>3, <1>5, SeqEqual
<1> QED
  BY <1>6 DEF t, r, u

-----------------------------------------------------------------------------
(* Every action keeps the invariant.                                       *)

(* A step that answers no call leaves what is said of answered calls as it *)
(* is, if their answers and the commands waiting stay.                     *)
LEMMA CleanStays ==
    ASSUME Later, InventoryComplete,
           \A q \in Ids : status'[q] = "replied" => status[q] = "replied",
           \A q \in Ids : Clean(q) => cmd'[q] = cmd[q],
           took' = took,
           \A q \in Ids : Clean(q) => answered'[q] = answered[q],
           \A q \in Ids : Clean(q) =>
               \A i \in 1..Len(inbox') : q < inbox'[i]
    PROVE  /\ Later' /\ InventoryComplete'
           /\ \A l \in 0..MaxCalls : Clean(l)' => Clean(l)
<1>1. ASSUME NEW l \in 0..MaxCalls, Clean(l)'
      PROVE  Clean(l)
  <2>1. \A p \in 1..l : p \in Ids
    BY BoundsAssumption DEF Ids
  <2> QED
    BY <1>1, <2>1 DEF Clean
<1>2. Later'
  <2>1. \A q \in Ids : q \in 0..MaxCalls
    BY BoundsAssumption DEF Ids
  <2> QED
    BY <1>1, <2>1 DEF Later
<1>3. InventoryComplete'
  <2> SUFFICES ASSUME NEW q \in Ids, status'[q] = "replied",
                      cmd'[q] \in Inventory,
                      \A p \in 1..(q - 1) : status'[p] = "replied"
               PROVE  /\ Len(took[q]) = answered'[q]
                      /\ \A k \in DOMAIN took[q] :
                            took[q][k].id = q /\ took[q][k].n = k
    BY DEF InventoryComplete
  <2>1. /\ \A p \in 1..q : p \in 1..(q - 1) \/ p = q
        /\ \A p \in 1..q : p \in Ids
        /\ \A p \in 1..(q - 1) : p \in 1..q
    BY BoundsAssumption DEF Ids
  <2>2. Clean(q)
    BY <2>1 DEF Clean
  <2>3. /\ status[q] = "replied" /\ cmd[q] \in Inventory
        /\ \A p \in 1..(q - 1) : status[p] = "replied"
    BY <2>1, <2>2 DEF Clean
  <2> QED
    BY <2>2, <2>3 DEF InventoryComplete
<1> QED
  BY <1>1, <1>2, <1>3

(* Of the answered calls only the last ones are of interest.               *)
LEMMA CleanForm ==
    ASSUME TypeOK, NEW q \in Ids, Clean(q)
    PROVE  q <= last /\ status[q] = "replied"
<1>1. q \in 1..q /\ last \in Nat /\ q \in Nat
  BY BoundsAssumption DEF Ids, TypeOK
<1>2. status[q] = "replied"
  BY <1>1 DEF Clean
<1> QED
  BY <1>1, <1>2 DEF TypeOK

LEMMA CompleteBegin ==
    ASSUME CompleteInv, NEW c \in Commands,
           \/ Begin(c, "open") /\ inbox' = Append(inbox, last + 1)
           \/ /\ Begin(c, "failed")
              /\ inbox' = inbox \/ inbox' = Append(inbox, last + 1)
    PROVE  Alone' /\ Later' /\ InventoryComplete'
<1>1. PICK s \in {"open", "failed"} :
          /\ Begin(c, s)
          /\ inbox' = inbox \/ inbox' = Append(inbox, last + 1)
          /\ s = "open" => inbox' = Append(inbox, last + 1)
  OBVIOUS
<1>2. /\ TypeOK /\ last \in Nat /\ last + 1 \in Ids /\ last' = last + 1
      /\ inbox \in Seq(Ids) /\ line \in Seq(Atom) /\ buf \in Seq(Atom)
      /\ UNCHANGED <<took, line, answered>> /\ buf' = <<>>
  BY <1>1, BoundsAssumption DEF CompleteInv, Inv, TypeOK, Begin, Ids
<1>3. /\ status'[last + 1] = s /\ s # "replied"
      /\ \A q \in Ids : q # last + 1 =>
             status'[q] = status[q] /\ cmd'[q] = cmd[q]
  BY <1>1, <1>2 DEF TypeOK, Begin
<1>4. ASSUME NEW q \in Ids, Clean(q)
      PROVE  /\ cmd'[q] = cmd[q]
             /\ \A i \in 1..Len(inbox') : q < inbox'[i]
  <2>1. q <= last /\ q # last + 1 /\ q < last + 1
    BY <1>2, <1>4, CleanForm DEF Ids
  <2>2. \A i \in 1..Len(inbox) : q < inbox[i]
    BY <1>4 DEF CompleteInv, Later
  <2>3. CASE inbox' = Append(inbox, last + 1)
    <3>1. /\ Len(inbox') = Len(inbox) + 1 /\ Len(inbox) \in Nat
          /\ inbox'[Len(inbox) + 1] = last + 1
          /\ \A i \in 1..Len(inbox) : inbox'[i] = inbox[i]
      BY <1>2, <2>3, AppendProperties, LenProperties
    <3>2. \A i \in 1..(Len(inbox) + 1) :
              i \in 1..Len(inbox) \/ i = Len(inbox) + 1
      BY <3>1
    <3> QED
      BY <1>3, <2>1, <2>2, <3>1, <3>2
  <2> QED
    BY <1>1, <1>3, <2>1, <2>2, <2>3
<1>5. /\ Later' /\ InventoryComplete'
      /\ \A l \in 0..MaxCalls : Clean(l)' => Clean(l)
  BY <1>2, <1>3, <1>4, CleanStays DEF CompleteInv
<1>6. Alone'
  <2>1. ~ Clean(last)'
    <3>1. last + 1 \in 1..(last + 1)
      BY <1>2
    <3> QED
      BY <1>2, <1>3, <3>1 DEF Clean
  <2>2. ASSUME Waiting', Clean(last - 1)'
        PROVE  inbox' = <<last'>> /\ Stream' = <<>>
    <3>1. s = "open"
      BY <1>2, <1>3, <2>2 DEF Waiting
    <3>2. last' - 1 = last /\ last \in 0..MaxCalls
      BY <1>2 DEF TypeOK
    <3>3. Clean(last)
      BY <1>5, <2>2, <3>2 DEF Clean
    <3>4. inbox = <<>> /\ Stream = <<>>
      BY <3>3 DEF CompleteInv, Alone
    <3>5. line = <<>>
      BY <1>2, <3>4, ConcatEqualIffEmpty DEF Stream
    <3>6. <<>> \o line = line
      BY <1>2, ConcatEmptySeq
    <3> QED
      BY <1>1, <1>2, <3>1, <3>4, <3>5, <3>6 DEF Stream
  <2> QED
    BY <2>1, <2>2 DEF Alone
<1> QED
  BY <1>5, <1>6

(* The reader takes its oldest command, and answers it with a, or not.     *)
LEMMA CompleteReader ==
    ASSUME CompleteInv, ReaderAnswers \/ ReaderIgnores
    PROVE  Alone' /\ Later' /\ InventoryComplete'
<1> DEFINE h == Head(inbox)
<1>1. /\ TypeOK /\ last \in 0..MaxCalls /\ inbox \in Seq(Ids)
      /\ inbox # <<>> /\ inbox' = Tail(inbox)
      /\ UNCHANGED <<last, cmd, status, took, buf>>
  BY DEF CompleteInv, Inv, TypeOK, ReaderAnswers, ReaderIgnores, caller
<1>2. /\ h \in Ids /\ h = inbox[1] /\ 1 \in 1..Len(inbox)
      /\ Len(inbox') = Len(inbox) - 1
      /\ \A i \in 1..Len(inbox') : /\ inbox'[i] = inbox[i + 1]
                                   /\ i + 1 \in 1..Len(inbox)
  BY <1>1, HeadTailProperties, EmptySeq, LenProperties
<1>3. \A q \in Ids : q # h => answered'[q] = answered[q]
  BY <1>1 DEF ReaderAnswers, ReaderIgnores, TypeOK
<1>4. ASSUME NEW q \in Ids, Clean(q)
      PROVE  /\ answered'[q] = answered[q]
             /\ \A i \in 1..Len(inbox') : q < inbox'[i]
  <2>1. \A i \in 1..Len(inbox) : q < inbox[i]
    BY <1>4 DEF CompleteInv, Later
  <2>2. q # h
    BY <1>2, <2>1, BoundsAssumption DEF Ids
  <2> QED
    BY <1>2, <1>3, <2>1, <2>2
<1>5. Later' /\ InventoryComplete'
  BY <1>1, <1>4, CleanStays DEF CompleteInv
<1>6. ~ Clean(last)'
  BY <1>1 DEF CompleteInv, Alone, Clean
<1>7. ASSUME Waiting', Clean(last - 1)'
      PROVE  inbox' = <<>> /\ (Stream' = <<>> \/ HoldsAnswer(last)')
  <2>1. Waiting /\ Clean(last - 1)
    BY <1>1, <1>7 DEF Waiting, Clean
  <2>2. inbox = <<last>> /\ Stream = <<>>
    BY <1>1, <2>1 DEF CompleteInv, Alone
  <2>3. h = last /\ inbox' = <<>>
    BY <1>1, <2>2
  <2>4. CASE ReaderIgnores
    BY <1>1, <2>2, <2>3, <2>4 DEF ReaderIgnores, Stream
  <2>5. CASE ReaderAnswers
    <3>1. PICK s \in Replies(cmd[h]) :
              /\ line' = line \o Atoms(h, s)
              /\ answered' = [answered EXCEPT ![h] = Len(s)]
      BY <2>5 DEF ReaderAnswers
    <3>2. /\ line \in Seq(Atom) /\ buf \in Seq(Atom)
          /\ line = <<>> /\ buf = <<>>
      BY <1>1, <2>2, ConcatEqualIffEmpty DEF TypeOK, Stream
    <3>3. Atoms(h, s) \in Seq(Atom)
      BY <1>1, <1>2, AtomsForm
    <3>4. Stream' = Atoms(h, s)
      BY <1>1, <3>1, <3>2, <3>3, ConcatEmptySeq DEF Stream
    <3>5. answered'[last] = Len(s)
      BY <1>1, <1>2, <2>3, <3>1 DEF TypeOK
    <3>6. /\ Atoms(last, s)' = Atoms(last, s)
          /\ Replies(cmd'[last']) = Replies(cmd[h])
      BY <1>1, <2>3 DEF Atoms
    <3> QED
      BY <1>1, <2>3, <3>4, <3>5, <3>6 DEF HoldsAnswer
  <2> QED
    BY <1>1, <2>3, <2>4, <2>5
<1> QED
  BY <1>5, <1>6, <1>7 DEF Alone

(* The call that waits gives up.                                           *)
LEMMA CompleteGiveUp ==
    ASSUME CompleteInv, Waiting, NEW s \in {"failed", "panicked"},
           status' = [status EXCEPT ![last] = s],
           UNCHANGED <<last, cmd, took, inbox, answered>>
    PROVE  Alone' /\ Later' /\ InventoryComplete'
<1>1. /\ last \in Ids /\ status'[last] = s
      /\ \A q \in Ids : q # last => status'[q] = status[q]
  BY DEF CompleteInv, Inv, TypeOK, Waiting
<1>2. Later' /\ InventoryComplete'
  BY <1>1, CleanStays DEF CompleteInv, Later
<1>3. ~ Clean(last)' /\ ~ Waiting'
  <2>1. last \in 1..last
    BY <1>1, BoundsAssumption DEF Ids
  <2> QED
    BY <1>1, <2>1 DEF Clean, Waiting
<1> QED
  BY <1>2, <1>3 DEF Alone

(* The stream, and all that is said of it, stays.                          *)
LEMMA CompleteStutter ==
    ASSUME CompleteInv, Stream' = Stream,
           UNCHANGED <<last, cmd, status, took, inbox, answered>>
    PROVE  Alone' /\ Later' /\ InventoryComplete'
<1>1. Later' /\ InventoryComplete'
  BY CleanStays DEF CompleteInv, Later
<1>2. \A s : Atoms(last, s)' = Atoms(last, s)
  BY DEF Atoms
<1>3. HoldsAnswer(last)' <=> HoldsAnswer(last)
  BY <1>2 DEF HoldsAnswer
<1>4. Alone'
  BY <1>3 DEF CompleteInv, Alone, Clean, Waiting
<1> QED
  BY <1>1, <1>4

LEMMA CompleteAccept ==
    ASSUME CompleteInv, NEW n \in 0..Len(line), Accept(n)
    PROVE  Alone' /\ Later' /\ InventoryComplete'
<1> DEFINE b == Read(n)
<1>1. /\ TypeOK /\ last \in Ids /\ last \in Nat
      /\ status[last] = "open" /\ status'[last] = "replied"
      /\ \A q \in Ids : q # last => status'[q] = status[q]
      /\ took'[last] = Content(b, cmd[last])
      /\ \A q \in Ids : q # last => took'[q] = took[q]
      /\ UNCHANGED <<last, cmd, inbox, answered>>
      /\ Parses(b, cmd[last]) /\ cmd[last] \in Commands
  BY BoundsAssumption DEF CompleteInv, Inv, TypeOK, Accept, Waiting, Ids
<1>2. ~ Waiting'
  BY <1>1 DEF Waiting
<1>3. ASSUME Clean(last - 1)
      PROVE  /\ inbox = <<>> /\ Stream' = <<>>
             /\ cmd[last] \in Inventory =>
                   /\ Len(took'[last]) = answered[last]
                   /\ \A k \in DOMAIN took'[last] :
                         took'[last][k].id = last /\ took'[last][k].n = k
  <2>1. /\ b \in Seq(Atom) /\ Unread(n) \in Seq(Atom)
        /\ Len(b) + Len(Unread(n)) = Len(Stream)
        /\ \A i \in 1..Len(b) : b[i] = Stream[i]
        /\ Len(b) \in Nat /\ Len(Unread(n)) \in Nat
    BY <1>1, ReadSplits, LenProperties
  <2>2. Len(b) >= 2 /\ Content(b, cmd[last]) \in Seq(Atom)
    BY <1>1, <2>1, ParsesForm
  <2>3. Stream # <<>>
    BY <2>1, <2>2
  <2>4. inbox = <<>> /\ HoldsAnswer(last)
    BY <1>1, <1>3, <2>3 DEF CompleteInv, Alone, Waiting
  <2>5. PICK s \in Replies(cmd[last]) :
            Stream = Atoms(last, s) /\ answered[last] = Len(s)
    BY <2>4 DEF HoldsAnswer
  <2>6. Len(b) <= Len(Stream)
    BY <2>1
  <2>7. /\ Len(b) = Len(Stream)
        /\ cmd[last] \in Inventory =>
              /\ Len(Content(b, cmd[last])) = Len(s)
              /\ \A k \in 1..Len(s) : /\ Content(b, cmd[last])[k].id = last
                                      /\ Content(b, cmd[last])[k].n = k
    <3>1. /\ Len(b) <= Len(Atoms(last, s))
          /\ \A i \in 1..Len(b) : b[i] = Atoms(last, s)[i]
      BY <2>1, <2>5, <2>6
    <3> HIDE DEF b
    <3> QED
      BY <1>1, <2>1, <2>5, <3>1, PartParsed
  <2>8. Unread(n) = <<>>
    BY <2>1, <2>7, EmptySeq
  <2>9. Stream' = <<>>
    BY <2>8, EmptySeq, ConcatEmptySeq DEF Stream, Accept
  <2> QED
    BY <1>1, <2>2, <2>4, <2>5, <2>7, <2>9, LenProperties
<1>4. ASSUME NEW q \in Ids, Clean(q)'
      PROVE  (q < last /\ Clean(q)) \/ (q = last /\ Clean(last - 1))
  <2>1. q \in 1..q /\ q \in Nat
    BY BoundsAssumption DEF Ids
  <2>2. status'[q] = "replied"
    BY <1>4, <2>1 DEF Clean
  <2>3. q <= last
    BY <1>1, <2>1, <2>2 DEF TypeOK
  <2>4. /\ \A p \in 1..q : p \in Ids /\ (q < last => p # last)
        /\ \A p \in 1..(last - 1) : p \in Ids /\ p # last
                                   /\ (q = last => p \in 1..q)
    BY <1>1, <2>3, BoundsAssumption DEF Ids
  <2>5. CASE q < last
    <3>1. Clean(q)
      BY <1>1, <1>4, <2>4, <2>5 DEF Clean
    <3> QED
      BY <2>5, <3>1
  <2>6. CASE q = last
    <3>1. ASSUME NEW p \in 1..(last - 1)
          PROVE  status[p] = "replied"
      <4>1. p \in 1..q /\ p \in Ids /\ p # last
        BY <2>4, <2>6
      <4> QED
        BY <1>1, <1>4, <4>1 DEF Clean
    <3>2. Clean(last - 1)
      BY <3>1 DEF Clean
    <3> QED
      BY <2>6, <3>2
  <2> QED
    BY <1>1, <2>1, <2>3, <2>5, <2>6
<1>5. Later'
  <2> SUFFICES ASSUME NEW q \in Ids, Clean(q)', NEW i \in 1..Len(inbox)
               PROVE  q < inbox[i]
    BY <1>1 DEF Later
  <2>1. CASE q < last /\ Clean(q)
    BY <2>1 DEF CompleteInv, Later
  <2>2. CASE q = last /\ Clean(last - 1)
    BY <1>3, <2>2
  <2> QED
    BY <1>4, <2>1, <2>2
<1>6. InventoryComplete'
  <2> SUFFICES ASSUME NEW q \in Ids, status'[q] = "replied",
                      cmd[q] \in Inventory,
                      \A p \in 1..(q - 1) : status'[p] = "replied"
               PROVE  /\ Len(took'[q]) = answered[q]
                      /\ \A k \in DOMAIN took'[q] :
                            took'[q][k].id = q /\ took'[q][k].n = k
    BY <1>1 DEF InventoryComplete
  <2>1. Clean(q)'
    <3>1. \A p \in 1..q : p \in 1..(q - 1) \/ p = q
      BY BoundsAssumption DEF Ids
    <3> QED
      BY <3>1 DEF Clean
  <2>2. CASE q = last /\ Clean(last - 1)
    BY <1>3, <2>2
  <2>3. CASE q < last /\ Clean(q)
    <3>1. q # last /\ q \in 1..q /\ \A p \in 1..(q - 1) : p \in 1..q
      BY <1>1, <2>3, BoundsAssumption DEF Ids
    <3> QED
      BY <1>1, <2>3, <3>1 DEF CompleteInv, InventoryComplete, Clean
  <2> QED
    BY <1>4, <2>1, <2>2, <2>3
<1>7. Alone'
  <2>1. ASSUME Clean(last)'
        PROVE  Clean(last - 1)
    BY <1>1, <1>4, <2>1
  <2> QED
    BY <1>1, <1>2, <1>3, <2>1 DEF Alone
<1> QED
  BY <1>5, <1>6, <1>7

-----------------------------------------------------------------------------
LEMMA CompleteInit == Init => CompleteInv
<1> SUFFICES ASSUME Init
             PROVE  CompleteInv
  OBVIOUS
<1>1. Inv
  BY InitStep
<1>2. Stream = <<>> /\ inbox = <<>>
  BY EmptySeq, ConcatEmptySeq DEF Init, Stream
<1>3. \A q \in Ids : status[q] # "replied" /\ q \in 1..q
  BY BoundsAssumption DEF Init, Ids
<1>4. Later /\ InventoryComplete
  BY <1>3 DEF Later, Clean, InventoryComplete
<1> QED
  BY <1>1, <1>2, <1>3, <1>4 DEF CompleteInv, Alone, Waiting, Init

LEMMA CompleteStep == CompleteInv /\ [Next]_vars => CompleteInv'
<1> SUFFICES ASSUME CompleteInv, [Next]_vars
             PROVE  Alone' /\ Later' /\ InventoryComplete'
  BY NextStep DEF CompleteInv
<1>1. ASSUME NEW c \in Commands, Send(c) \/ SendFails(c)
      PROVE  Alone' /\ Later' /\ InventoryComplete'
  BY <1>1, CompleteBegin DEF Send, SendFails
<1>2. CASE ReaderAnswers \/ ReaderIgnores
  BY <1>2, CompleteReader
<1>3. ASSUME NEW n \in 0..Len(line), Accept(n)
      PROVE  Alone' /\ Later' /\ InventoryComplete'
  BY <1>3, CompleteAccept
<1>4. ASSUME NEW n \in 0..Len(line), Panic(n)
      PROVE  Alone' /\ Later' /\ InventoryComplete'
  BY <1>4, CompleteGiveUp DEF Panic
<1>5. ASSUME NEW n \in 0..Len(line), KeepReading(n)
      PROVE  Alone' /\ Later' /\ InventoryComplete'
  <2>1. Stream' = Stream
    BY <1>5, StreamStays DEF CompleteInv, Inv, KeepReading, Stream
  <2> QED
    BY <1>5, <2>1, CompleteStutter DEF KeepReading, caller
<1>6. CASE TimeOut \/ ReadFails
  BY <1>6, CompleteGiveUp DEF TimeOut, ReadFails, Abandon
<1>7. CASE UNCHANGED vars
  BY <1>7, CompleteStutter DEF vars, Stream
<1> QED
  BY <1>1, <1>2, <1>3, <1>4, <1>5, <1>6, <1>7 DEF Next, Receive

(* While no call has been abandoned, an inventory returns exactly the      *)
(* frames the reader sent for it, however many they are and wherever the   *)
(* reads cut them.                                                         *)
THEOREM ExchangeInventoryComplete == Spec => []InventoryComplete
<1>1. CompleteInv => InventoryComplete
  BY DEF CompleteInv
<1> QED
  BY <1>1, CompleteInit, CompleteStep, PTL DEF Spec

-----------------------------------------------------------------------------
(* The frames of an answer are in order: none comes twice, and those of    *)
(* one call come as the reader numbered them, a total last.                *)

Precedes(f, g) ==
    \/ f.id < g.id
    \/ f.id = g.id /\ f.n < g.n /\ f.shape # "total"

(* Of a line of atoms, of which two in a row may be of one frame.          *)
Spread(s) == \A i, j \in 1..Len(s) : i + 1 < j => Precedes(s[i], s[j])

Ordered(w) == \A i, j \in 1..Len(w) : i < j => Precedes(w[i], w[j])

(* A call has been answered, and an inventory read up to a total.          *)
ToTotal(w) == w # <<>> /\ w[Len(w)].shape = "total"

TookInOrder == \A q \in Ids : Ordered(took[q])

TookToTotal ==
    \A q \in Ids :
        status[q] = "replied" =>
            took[q] # <<>> /\ (cmd[q] \in Inventory => ToTotal(took[q]))

OrderInv == Inv /\ Spread(Stream) /\ TookInOrder /\ TookToTotal

LEMMA AtomsSpread ==
    ASSUME TypeOK, NEW q \in Ids, NEW s \in Replies(cmd[q])
    PROVE  Spread(Atoms(q, s))
<1> DEFINE a == Atoms(q, s)
           e(i) == [id |-> q, cmd |-> cmd[q], n |-> (i + 1) \div 2,
                    shape |-> s[(i + 1) \div 2],
                    last |-> (i + 1) \div 2 = Len(s),
                    part |-> IF i % 2 = 1 THEN "head" ELSE "tail"]
<1>1. /\ a \in Seq(Atom)
      /\ \A i \in 1..Len(a) :
            /\ a[i].id = q
            /\ a[i].shape = "total" => a[i].last
            /\ \A j \in 1..Len(a) : (i < j /\ a[i].last) => j = i + 1
  BY AtomsForm
<1>2. a = [i \in 1..(2 * Len(s)) |-> e(i)]
  BY DEF Atoms
<1>3. Len(a) = 2 * Len(s) /\ Len(s) \in Nat
  <2>1. cmd[q] \in Commands
    BY DEF TypeOK
  <2> QED
    BY <2>1, AtomsFrames, RepliesForm, BoundsAssumption
<1>4. \A i \in 1..Len(a) : e(i).n = (i + 1) \div 2
  OBVIOUS
<1> HIDE DEF e
<1>5. \A i \in 1..Len(a) : a[i].n = (i + 1) \div 2
  BY <1>2, <1>3, <1>4
<1> HIDE DEF a
<1> SUFFICES ASSUME NEW i \in 1..Len(a), NEW j \in 1..Len(a), i + 1 < j
             PROVE  Precedes(a[i], a[j])
  BY DEF Spread, a
<1>6. i < j /\ j # i + 1 /\ (i + 1) \div 2 < (j + 1) \div 2
  BY <1>3
<1> QED
  BY <1>1, <1>5, <1>6 DEF Precedes

(* The front of the stream is dropped.                                     *)
LEMMA SpreadDrop ==
    ASSUME NEW s \in Seq(Atom), Spread(s), NEW t \in Seq(Atom),
           NEW m \in Nat, m + Len(t) = Len(s),
           \A i \in 1..Len(t) : t[i] = s[m + i]
    PROVE  Spread(t)
<1> SUFFICES ASSUME NEW i \in 1..Len(t), NEW j \in 1..Len(t), i + 1 < j
             PROVE  Precedes(t[i], t[j])
  BY DEF Spread
<1>1. /\ m + i \in 1..Len(s) /\ m + j \in 1..Len(s)
      /\ (m + i) + 1 < m + j
  OBVIOUS
<1> QED
  BY <1>1 DEF Spread

(* The frames of a later call join it.                                     *)
LEMMA SpreadAdd ==
    ASSUME NEW s \in Seq(Atom), NEW a \in Seq(Atom), Spread(s), Spread(a),
           \A i \in 1..Len(s) : \A j \in 1..Len(a) : s[i].id < a[j].id
    PROVE  Spread(s \o a)
<1> DEFINE t == s \o a
<1>1. /\ t \in Seq(Atom) /\ Len(t) = Len(s) + Len(a)
      /\ \A i \in 1..(Len(s) + Len(a)) :
            t[i] = IF i <= Len(s) THEN s[i] ELSE a[i - Len(s)]
      /\ Len(s) \in Nat /\ Len(a) \in Nat
  BY ConcatProperties, LenProperties
<1> HIDE DEF t
<1> SUFFICES ASSUME NEW i \in 1..(Len(s) + Len(a)),
                    NEW j \in 1..(Len(s) + Len(a)), i + 1 < j
             PROVE  Precedes(t[i], t[j])
  BY <1>1 DEF Spread, t
<1>2. CASE j <= Len(s)
  <2>1. i \in 1..Len(s) /\ j \in 1..Len(s)
    BY <1>1, <1>2
  <2> QED
    BY <1>1, <2>1 DEF Spread
<1>3. CASE i <= Len(s) /\ ~(j <= Len(s))
  <2>1. i \in 1..Len(s) /\ j - Len(s) \in 1..Len(a)
    BY <1>1, <1>3
  <2> QED
    BY <1>1, <1>3, <2>1 DEF Precedes
<1>4. CASE ~(i <= Len(s)) /\ ~(j <= Len(s))
  <2>1. /\ i - Len(s) \in 1..Len(a) /\ j - Len(s) \in 1..Len(a)
        /\ (i - Len(s)) + 1 < j - Len(s)
    BY <1>1, <1>4
  <2> QED
    BY <1>1, <1>4, <2>1 DEF Spread
<1>5. i <= Len(s) \/ ~(j <= Len(s)) \/ j <= Len(s)
  OBVIOUS
<1> QED
  BY <1>1, <1>2, <1>3, <1>4

LEMMA ContentOrdered ==
    ASSUME NEW b \in Seq(Atom), Spread(b), NEW c \in Commands, Parses(b, c)
    PROVE  /\ Ordered(Content(b, c))
           /\ Content(b, c) # <<>>
           /\ c \in Inventory => ToTotal(Content(b, c))
<1>0. Content(b, c) # <<>>
  BY ParsesForm
<1> DEFINE w == Whole(b)
<1>1. /\ w \in Seq(Atom) /\ 2 * Len(w) <= Len(b)
      /\ \A k \in 1..Len(w) : w[k] = b[2 * k - 1]
      /\ Len(w) \in Nat /\ Len(b) \in Nat
  BY WholeForm, LenProperties
<1>2. CASE c \in Inventory
  <2>1. Content(b, c) = w
    BY <1>2 DEF Content
  <2>2. w # <<>> /\ w[Len(w)].shape = "total"
    BY <1>2 DEF Parses, ParsesAsInventory, EndsInTotal, Matches
  <2> HIDE DEF w
  <2>3. ASSUME NEW i \in 1..Len(w), NEW j \in 1..Len(w), i < j
        PROVE  Precedes(w[i], w[j])
    <3>1. /\ 2 * i - 1 \in 1..Len(b) /\ 2 * j - 1 \in 1..Len(b)
          /\ (2 * i - 1) + 1 < 2 * j - 1
      BY <1>1, <2>3
    <3> QED
      BY <1>1, <3>1 DEF Spread
  <2> QED
    BY <2>1, <2>2, <2>3 DEF Ordered, ToTotal
<1>3. CASE c \notin Inventory
  <2>1. Content(b, c) = <<w[1]>>
    BY <1>3 DEF Content
  <2> HIDE DEF w
  <2>2. Len(<<w[1]>>) = 1
    OBVIOUS
  <2> QED
    BY <1>3, <2>1, <2>2 DEF Ordered
<1> QED
  BY <1>0, <1>2, <1>3

(* A call begins or ends without an answer, or nothing happens.            *)
LEMMA OrderStays ==
    ASSUME OrderInv, Inv', took' = took,
           Stream' = Stream \/ Stream' = line,
           \A q \in Ids : status'[q] = "replied" =>
               status[q] = "replied" /\ cmd'[q] = cmd[q]
    PROVE  OrderInv'
<1>1. /\ Stream \in Seq(Atom) /\ line \in Seq(Atom)
      /\ Len(Stream) = Len(buf) + Len(line) /\ Len(buf) \in Nat
      /\ \A i \in 1..Len(line) : line[i] = Stream[Len(buf) + i]
  BY StreamForm DEF OrderInv, Inv, TypeOK
<1>2. Spread(line)
  BY <1>1, SpreadDrop DEF OrderInv
<1>3. Spread(Stream')
  BY <1>2 DEF OrderInv
<1>4. TookInOrder' /\ TookToTotal'
  BY DEF OrderInv, TookInOrder, TookToTotal
<1> QED
  BY <1>3, <1>4 DEF OrderInv, Spread, Precedes

LEMMA OrderAnswer ==
    ASSUME OrderInv, Inv', ReaderAnswers
    PROVE  OrderInv'
<1> DEFINE h == Head(inbox)
<1>1. /\ TypeOK /\ inbox \in Seq(Ids) /\ inbox # <<>> /\ line \in Seq(Atom)
      /\ buf \in Seq(Atom) /\ UNCHANGED <<cmd, status, took, buf>>
      /\ Stream \in Seq(Atom)
  BY StreamForm DEF OrderInv, Inv, TypeOK, ReaderAnswers, caller
<1>2. h \in Ids /\ h = inbox[1] /\ 1 \in 1..Len(inbox)
  BY <1>1, HeadTailProperties, EmptySeq, LenProperties
<1>3. PICK s \in Replies(cmd[h]) : line' = line \o Atoms(h, s)
  BY DEF ReaderAnswers
<1> DEFINE a == Atoms(h, s)
<1>4. a \in Seq(Atom) /\ Spread(a) /\ \A j \in 1..Len(a) : a[j].id = h
  BY <1>1, <1>2, AtomsForm, AtomsSpread
<1>5. \A i \in 1..Len(Stream) : Stream[i].id < h
  BY <1>2 DEF OrderInv, Inv, Queued, Pending
<1> HIDE DEF h, a
<1>6. Stream' = Stream \o a
  BY <1>1, <1>3, <1>4, ConcatAssociative DEF Stream, a
<1>7. Spread(Stream \o a)
  BY <1>1, <1>4, <1>5, SpreadAdd DEF OrderInv
<1>8. TookInOrder' /\ TookToTotal'
  BY <1>1 DEF OrderInv, TookInOrder, TookToTotal
<1> QED
  BY <1>6, <1>7, <1>8 DEF OrderInv, Spread, Precedes

LEMMA OrderAccept ==
    ASSUME OrderInv, Inv', NEW n \in 0..Len(line), Accept(n)
    PROVE  OrderInv'
<1> DEFINE b == Read(n)
           u == Unread(n)
<1>1. /\ TypeOK /\ last \in Ids /\ cmd[last] \in Commands
      /\ took \in [Ids -> Seq(Atom)] /\ status \in [Ids -> Statuses]
      /\ Parses(b, cmd[last])
      /\ took' = [took EXCEPT ![last] = Content(b, cmd[last])]
      /\ status' = [status EXCEPT ![last] = "replied"]
      /\ cmd' = cmd
  BY DEF OrderInv, Inv, TypeOK, Accept, Waiting
<1>2. /\ b \in Seq(Atom) /\ u \in Seq(Atom)
      /\ Len(b) + Len(u) = Len(Stream)
      /\ \A i \in 1..Len(b) : b[i] = Stream[i]
      /\ \A i \in 1..Len(u) : u[i] = Stream[Len(b) + i]
      /\ Len(b) \in Nat /\ Len(u) \in Nat /\ Stream \in Seq(Atom)
  BY <1>1, ReadSplits, StreamForm, LenProperties
<1>3. Stream' = u
  BY <1>2, ConcatEmptySeq DEF Accept, Stream
<1> HIDE DEF b, u
<1>4. Spread(u)
  BY <1>2, SpreadDrop DEF OrderInv
<1>5. Spread(b)
  <2> SUFFICES ASSUME NEW i \in 1..Len(b), NEW j \in 1..Len(b), i + 1 < j
               PROVE  Precedes(b[i], b[j])
    BY DEF Spread
  <2>1. i \in 1..Len(Stream) /\ j \in 1..Len(Stream)
    BY <1>2
  <2> QED
    BY <1>2, <2>1 DEF OrderInv, Spread
<1>6. /\ Ordered(Content(b, cmd[last]))
      /\ Content(b, cmd[last]) # <<>>
      /\ cmd[last] \in Inventory => ToTotal(Content(b, cmd[last]))
  BY <1>1, <1>2, <1>5, ContentOrdered
<1>7. TookInOrder'
  BY <1>1, <1>6 DEF OrderInv, TookInOrder, Ordered, Precedes
<1>8. TookToTotal'
  BY <1>1, <1>6 DEF OrderInv, TookToTotal, ToTotal
<1> QED
  BY <1>3, <1>4, <1>7, <1>8 DEF OrderInv, Spread, Precedes

LEMMA OrderInit == Init => OrderInv
<1> SUFFICES ASSUME Init
             PROVE  OrderInv
  OBVIOUS
<1>1. Inv
  BY InitStep
<1>2. Stream = <<>> /\ Len(<<>>) = 0
  BY EmptySeq, ConcatEmptySeq DEF Init, Stream
<1>3. \A q \in Ids : took[q] = <<>> /\ status[q] # "replied"
  BY DEF Init
<1> QED
  BY <1>1, <1>2, <1>3 DEF OrderInv, Spread, TookInOrder, Ordered, TookToTotal

LEMMA OrderStep == OrderInv /\ [Next]_vars => OrderInv'
<1> SUFFICES ASSUME OrderInv, [Next]_vars
             PROVE  OrderInv'
  OBVIOUS
<1>1. Inv'
  BY NextStep DEF OrderInv
<1>2. /\ last \in Nat /\ status \in [Ids -> Statuses] /\ line \in Seq(Atom)
      /\ cmd \in [Ids -> Commands] /\ <<>> \o line = line
      /\ last < MaxCalls => last + 1 \in Ids
  BY StreamForm, BoundsAssumption DEF OrderInv, Inv, TypeOK, Ids
<1>3. ASSUME NEW c \in Commands, NEW s \in {"open", "failed"}, Begin(c, s)
      PROVE  OrderInv'
  <2>1. took' = took /\ Stream' = line
    BY <1>2, <1>3 DEF Begin, Stream
  <2>2. \A q \in Ids : status'[q] = "replied" =>
            status[q] = "replied" /\ cmd'[q] = cmd[q]
    BY <1>2, <1>3 DEF Begin
  <2> QED
    BY <1>1, <2>1, <2>2, OrderStays
<1>4. CASE ReaderAnswers
  BY <1>1, <1>4, OrderAnswer
<1>5. CASE ReaderIgnores
  BY <1>1, <1>5, OrderStays DEF ReaderIgnores, caller, Stream
<1>6. ASSUME NEW n \in 0..Len(line), Accept(n)
      PROVE  OrderInv'
  BY <1>1, <1>6, OrderAccept
<1>7. ASSUME NEW n \in 0..Len(line), Panic(n)
      PROVE  OrderInv'
  <2>1. /\ Unread(n) \in Seq(Atom) /\ Stream \in Seq(Atom)
        /\ Len(Read(n)) + Len(Unread(n)) = Len(Stream)
        /\ \A i \in 1..Len(Unread(n)) : Unread(n)[i] = Stream[Len(Read(n)) + i]
        /\ Len(Read(n)) \in Nat
    BY ReadSplits, StreamForm, LenProperties DEF OrderInv, Inv
  <2>2. Stream' = Unread(n)
    BY <1>7, <2>1, ConcatEmptySeq DEF Panic, Stream
  <2>3. Spread(Unread(n))
    BY <2>1, SpreadDrop DEF OrderInv
  <2>4. TookInOrder' /\ TookToTotal'
    BY <1>2, <1>7 DEF OrderInv, TookInOrder, TookToTotal, Panic
  <2> QED
    BY <1>1, <2>2, <2>3, <2>4 DEF OrderInv, Spread, Precedes
<1>8. ASSUME NEW n \in 0..Len(line), KeepReading(n)
      PROVE  OrderInv'
  <2>1. Stream' = Stream
    BY <1>8, StreamStays DEF OrderInv, Inv, KeepReading, Stream
  <2> QED
    BY <1>1, <1>8, <2>1, OrderStays DEF KeepReading, caller
<1>9. CASE Abandon
  <2>1. Stream' = line /\ took' = took
    BY <1>2, <1>9 DEF Abandon, Stream
  <2>2. \A q \in Ids : status'[q] = "replied" =>
            status[q] = "replied" /\ cmd'[q] = cmd[q]
    BY <1>2, <1>9 DEF Abandon
  <2> QED
    BY <1>1, <2>1, <2>2, OrderStays
<1>10. CASE UNCHANGED vars
  BY <1>1, <1>10, OrderStays DEF vars, Stream
<1> QED
  BY <1>3, <1>4, <1>5, <1>6, <1>7, <1>8, <1>9, <1>10
     DEF Next, Send, SendFails, Receive, TimeOut, ReadFails

(* The frames an answer is built from are in the order the reader numbered *)
(* them, none comes twice, and those of an inventory end in a total,       *)
(* whatever was abandoned before and however the reads cut the frames.     *)
THEOREM ExchangeTookInOrder == Spec => [](TookInOrder /\ TookToTotal)
<1>1. OrderInv => TookInOrder /\ TookToTotal
  BY DEF OrderInv
<1> QED
  BY <1>1, OrderInit, OrderStep, PTL DEF Spec

(* The frames an answer is built from are of the calls it was merged from. *)
LEMMA TookBetween ==
    ASSUME Inv, TookInOrder, NEW q \in Ids, NEW k \in 1..Len(took[q])
    PROVE  /\ From(q) <= took[q][k].id /\ took[q][k].id <= Upto(q)
           /\ took[q][k].id \in Ids /\ From(q) \in Ids /\ Upto(q) \in Ids
<1> DEFINE w == took[q]
<1>1. w \in Seq(Atom) /\ Ordered(w)
  BY DEF Inv, TypeOK, TookInOrder
<1>2. Len(w) \in Nat /\ k \in 1..Len(w)
  BY <1>1, LenProperties
<1> HIDE DEF w
<1>3. 1 \in 1..Len(w) /\ Len(w) \in 1..Len(w) /\ w # <<>>
  BY <1>2, EmptySeq
<1>4. From(q) = w[1].id /\ Upto(q) = w[Len(w)].id
  BY <1>3 DEF From, Upto, w
<1>5. \A i \in 1..Len(w) : w[i].id \in Ids
  <2>1. \A i \in 1..Len(w) : w[i] \in Atom
    BY <1>1
  <2> QED
    BY <2>1, Zenon DEF Atom
<1>6. w[1].id <= w[k].id
  <2>1. CASE k = 1
    BY <1>3, <1>5, <2>1, BoundsAssumption DEF Ids
  <2>2. CASE k # 1
    <3>1. Precedes(w[1], w[k])
      BY <1>1, <1>2, <1>3, <2>2 DEF Ordered
    <3>2. w[1].id \in Nat /\ w[k].id \in Nat
      BY <1>2, <1>3, <1>5, BoundsAssumption DEF Ids
    <3> QED
      BY <3>1, <3>2 DEF Precedes
  <2> QED
    BY <2>1, <2>2
<1>7. w[k].id <= w[Len(w)].id
  <2>1. CASE k = Len(w)
    BY <1>3, <1>5, <2>1, BoundsAssumption DEF Ids
  <2>2. CASE k # Len(w)
    <3>1. Precedes(w[k], w[Len(w)])
      BY <1>1, <1>2, <1>3, <2>2 DEF Ordered
    <3>2. w[k].id \in Nat /\ w[Len(w)].id \in Nat
      BY <1>2, <1>3, <1>5, BoundsAssumption DEF Ids
    <3> QED
      BY <3>1, <3>2 DEF Precedes
  <2> QED
    BY <2>1, <2>2
<1> QED
  BY <1>2, <1>3, <1>4, <1>5, <1>6, <1>7 DEF w

-----------------------------------------------------------------------------
(* When parsing an inventory panics, the buffer holds frames of the        *)
(* answers of two earlier calls: one that opens it, and one that is then   *)
(* read as a tag.  Every answer that has been returned is of calls earlier *)
(* than both, so two of the calls before the panic have returned none.     *)

(* What the frames of an answer can be.                                    *)
Shaped(s) ==
    \A i \in 1..Len(s) :
        /\ s[i].shape = "status" => s[i].n = 1 /\ s[i].last
        /\ s[i].cmd \in Inventory =>
              /\ s[i].shape \in {"status", "block", "pair", "total"}
              /\ s[i].shape = "pair" => s[i].cmd \in Fast

PanicInv == Shaped(Stream) /\ PanicNeedsTwoAbandoned

LEMMA AtomsShaped ==
    ASSUME TypeOK, NEW q \in Ids, NEW s \in Replies(cmd[q])
    PROVE  Shaped(Atoms(q, s))
<1> DEFINE c == cmd[q]
           k(i) == (i + 1) \div 2
           e(i) == [id |-> q, cmd |-> c, n |-> k(i), shape |-> s[k(i)],
                    last |-> k(i) = Len(s),
                    part |-> IF i % 2 = 1 THEN "head" ELSE "tail"]
           a == Atoms(q, s)
<1>1. c \in Commands
  BY DEF TypeOK
<1>2. Len(s) \in Nat /\ a \in Seq(Atom) /\ Len(a) = 2 * Len(s)
  BY <1>1, RepliesForm, AtomsForm, AtomsFrames, BoundsAssumption
<1>3. a = [i \in 1..(2 * Len(s)) |-> e(i)]
  BY DEF Atoms
<1>4. \A i \in 1..Len(a) : k(i) \in 1..Len(s)
  BY <1>2
<1>5. \A i \in 1..Len(a) : /\ a[i].cmd = c /\ a[i].n = k(i)
                           /\ a[i].shape = s[k(i)]
                           /\ a[i].last = (k(i) = Len(s))
  BY <1>2, <1>3
<1>6. \A j \in 1..Len(s) : s[j] = "status" => j = 1 /\ Len(s) = 1
  <2>1. CASE c \in Inventory /\ s # <<"status">>
    <3>1. PICK t \in Lists(c) : s = Append(t, "total")
      BY <2>1 DEF Replies
    <3>2. PICK m \in 0..MaxTags : t \in [1..m -> {"block", "pair"}]
      BY <3>1, BoundsAssumption DEF Lists
    <3>3. t \in Seq({"block", "pair"}) /\ Len(t) = m
      BY <3>2, BoundsAssumption
    <3>4. /\ Len(s) = m + 1 /\ \A j \in 1..m : s[j] = t[j]
          /\ s[m + 1] = "total"
      BY <3>1, <3>3
    <3>5. \A j \in 1..m : t[j] # "status"
      BY <3>2
    <3>6. \A j \in 1..Len(s) : j \in 1..m \/ j = m + 1
      BY <3>2, <3>4, BoundsAssumption
    <3> QED
      BY <3>4, <3>5, <3>6
  <2>2. CASE s = <<"status">>
    BY <2>2
  <2>3. CASE c \notin Inventory
    <3>1. Len(s) = 1
      BY <1>1, <2>3, RepliesForm
    <3> QED
      BY <3>1
  <2> QED
    BY <2>1, <2>2, <2>3
<1>7. ASSUME c \in Inventory, NEW j \in 1..Len(s)
      PROVE  /\ s[j] \in {"status", "block", "pair", "total"}
             /\ s[j] = "pair" => c \in Fast
  <2>1. CASE s = <<"status">>
    BY <2>1
  <2>2. CASE s # <<"status">>
    <3> DEFINE items == IF c \in Fast THEN {"block", "pair"} ELSE {"block"}
    <3>1. PICK t \in Lists(c) : s = Append(t, "total")
      BY <1>7, <2>2 DEF Replies
    <3>2. PICK m \in 0..MaxTags : t \in [1..m -> items]
      BY <3>1, BoundsAssumption DEF Lists
    <3> HIDE DEF items
    <3>3. t \in Seq(items) /\ Len(t) = m
      BY <3>2, BoundsAssumption
    <3>4. /\ Len(s) = m + 1 /\ \A i \in 1..m : s[i] = t[i] /\ t[i] \in items
          /\ s[m + 1] = "total"
      BY <3>1, <3>2, <3>3
    <3>5. j \in 1..m \/ j = m + 1
      BY <3>2, <3>4, BoundsAssumption
    <3> QED
      BY <3>4, <3>5 DEF items
  <2> QED
    BY <2>1, <2>2
<1> HIDE DEF a, k, c, e
<1> QED
  BY <1>4, <1>5, <1>6, <1>7 DEF Shaped, a

LEMMA ShapedAdd ==
    ASSUME NEW s \in Seq(Atom), NEW a \in Seq(Atom), Shaped(s), Shaped(a)
    PROVE  Shaped(s \o a)
<1> DEFINE t == s \o a
<1>1. /\ Len(t) = Len(s) + Len(a)
      /\ \A i \in 1..(Len(s) + Len(a)) :
            t[i] = IF i <= Len(s) THEN s[i] ELSE a[i - Len(s)]
      /\ Len(s) \in Nat /\ Len(a) \in Nat
  BY ConcatProperties, LenProperties
<1> HIDE DEF t
<1>2. ASSUME NEW i \in 1..Len(t)
      PROVE  \/ \E j \in 1..Len(s) : t[i] = s[j]
             \/ \E j \in 1..Len(a) : t[i] = a[j]
  <2>1. CASE i <= Len(s)
    <3>1. i \in 1..Len(s) /\ t[i] = s[i]
      BY <1>1, <2>1
    <3> QED
      BY <3>1
  <2>2. CASE ~(i <= Len(s))
    <3>1. i - Len(s) \in 1..Len(a) /\ t[i] = a[i - Len(s)]
      BY <1>1, <2>2
    <3> QED
      BY <3>1
  <2> QED
    BY <2>1, <2>2
<1>3. Shaped(t)
  BY <1>2 DEF Shaped
<1> QED
  BY <1>3 DEF t

(* Numbers below x are not enough for all but one of those below q.        *)
LEMMA TwoLeft ==
    ASSUME NEW q \in Nat, NEW x \in Nat \ {0}, x + 2 <= q,
           NEW R \in SUBSET (1..(q - 1)), NEW f \in [R -> 1..(x - 1)],
           \A a, b \in R : a < b => f[a] < f[b]
    PROVE  \E a, b \in 1..(q - 1) : a # b /\ a \notin R /\ b \notin R
<1> SUFFICES ASSUME \A a, b \in 1..(q - 1) :
                        (a \notin R /\ b \notin R) => a = b
             PROVE  FALSE
  OBVIOUS
<1>1. \E c \in Nat : \A a \in 1..(q - 1) : a \notin R => a = c
  <2>1. CASE \E a \in 1..(q - 1) : a \notin R
    <3>1. PICK c \in 1..(q - 1) : c \notin R
      BY <2>1
    <3>2. c \in Nat /\ \A a \in 1..(q - 1) : a \notin R => a = c
      BY <3>1
    <3> QED
      BY <3>2
  <2>2. CASE ~ \E a \in 1..(q - 1) : a \notin R
    BY <2>2
  <2> QED
    BY <2>1, <2>2
<1>2. PICK c \in Nat : \A a \in 1..(q - 1) : a \notin R => a = c
  BY <1>1
<1> DEFINE S == (1..(q - 1)) \ {c}
<1>3. /\ IsFiniteSet(1..(q - 1)) /\ Cardinality(1..(q - 1)) = q - 1
      /\ IsFiniteSet(1..(x - 1)) /\ Cardinality(1..(x - 1)) = x - 1
  BY FS_Interval
<1>4. IsFiniteSet(R) /\ Cardinality(R) \in Nat
  BY <1>3, FS_Subset, FS_CardinalityType
<1>5. Cardinality(S) \in {q - 1, q - 2}
  <2>1. Cardinality(S) = IF c \in 1..(q - 1) THEN Cardinality(1..(q - 1)) - 1
                         ELSE Cardinality(1..(q - 1))
    BY <1>3, FS_RemoveElement
  <2>2. CASE c \in 1..(q - 1)
    BY <1>3, <2>1, <2>2
  <2>3. CASE c \notin 1..(q - 1)
    BY <1>3, <2>1, <2>3
  <2> QED
    BY <2>2, <2>3
<1>6. S \in SUBSET R
  BY <1>2
<1> HIDE DEF S
<1>7. Cardinality(S) <= Cardinality(R)
  BY <1>4, <1>6, FS_Subset
<1>8. x - 1 < Cardinality(R)
  BY <1>4, <1>5, <1>7
<1>9. f \in Injection(R, 1..(x - 1))
  <2> SUFFICES ASSUME NEW a \in R, NEW b \in R, f[a] = f[b]
               PROVE  a = b
    BY DEF Injection, IsInjective
  <2>1. a \in Nat /\ b \in Nat /\ f[a] \in Nat /\ f[b] \in Nat
    OBVIOUS
  <2>2. ~(a < b) /\ ~(b < a)
    BY <2>1
  <2> QED
    BY <2>1, <2>2
<1>10. Cardinality(R) <= Cardinality(1..(x - 1))
  BY <1>3, <1>9, FS_Injection
<1> QED
  BY <1>3, <1>4, <1>8, <1>10

(* The answers that the buffer holds when parsing it panics: the first of  *)
(* its frames is of one call, and the frame taken for a tag of another,    *)
(* which is not the call that reads them either.                           *)
LEMMA PanicHolds ==
    ASSUME OrderInv, Shaped(Stream), NEW n \in 0..Len(line), last \in Ids,
           ParsePanics(Read(n), cmd[last]), cmd[last] \in Inventory
    PROVE  \E x, y \in Ids :
               x < y /\ y < last /\ \A q \in Ids : Upto(q) < x
<1> DEFINE b == Read(n)
           c == cmd[last]
           w == Whole(b)
<1>1. /\ b \in Seq(Atom) /\ Len(b) <= Len(Stream)
      /\ \A k \in 1..Len(b) : b[k] = Stream[k]
      /\ Len(b) \in Nat /\ Len(Stream) \in Nat
  <2> DEFINE u == Unread(n)
  <2>1. /\ b \in Seq(Atom) /\ u \in Seq(Atom) /\ Stream \in Seq(Atom)
        /\ Len(b) + Len(u) = Len(Stream)
        /\ \A k \in 1..Len(b) : b[k] = Stream[k]
    BY ReadSplits, StreamForm DEF OrderInv, Inv
  <2>2. Len(b) \in Nat /\ Len(u) \in Nat /\ Len(Stream) \in Nat
    BY <2>1, LenProperties
  <2> HIDE DEF b, u
  <2> QED
    BY <2>1, <2>2
<1>2. /\ w \in Seq(Atom) /\ 2 * Len(w) <= Len(b)
      /\ \A k \in 1..Len(w) : w[k] = b[2 * k - 1]
      /\ Len(w) \in Nat
  BY <1>1, WholeForm, LenProperties
<1>3. /\ EndsInTotal(b, c)
      /\ \E i \in 1..Len(w) : MayPanicOn(w[i], c)
  BY <1>2, FirmwareAssumption DEF ParsePanics
<1>4. PICK i \in 1..Len(w) :
          /\ w[i].shape \notin {"block", "total"}
          /\ ~(w[i].shape = "pair" /\ w[i].cmd = c /\ c \in Fast)
  BY <1>3 DEF MayPanicOn
<1>5. /\ w # <<>> /\ w[1].cmd = c /\ w[1].shape # "status"
      /\ w[Len(w)].shape = "total"
  BY <1>3 DEF EndsInTotal, Matches
<1> HIDE DEF b, w
<1>6. \A k \in 1..Len(w) : /\ 2 * k - 1 \in 1..Len(Stream)
                           /\ w[k] = Stream[2 * k - 1]
  <2> SUFFICES ASSUME NEW k \in 1..Len(w)
               PROVE  2 * k - 1 \in 1..Len(Stream) /\ w[k] = Stream[2 * k - 1]
    OBVIOUS
  <2>1. 2 * k - 1 \in 1..Len(b) /\ 2 * k - 1 \in 1..Len(Stream)
    BY <1>1, <1>2
  <2> QED
    BY <1>1, <1>2, <2>1
<1>7. ASSUME NEW k \in 1..Len(w)
      PROVE  /\ w[k].id \in Ids /\ w[k].id <= last /\ w[k].cmd = cmd[w[k].id]
             /\ \A q \in Ids : Upto(q) < w[k].id
             /\ w[k].shape = "status" => w[k].n = 1 /\ w[k].last
             /\ w[k].cmd \in Inventory =>
                   /\ w[k].shape \in {"status", "block", "pair", "total"}
                   /\ w[k].shape = "pair" => w[k].cmd \in Fast
             /\ w[k].n \in Nat /\ w[k].n >= 1
  <2>1. 2 * k - 1 \in 1..Len(Stream) /\ w[k] = Stream[2 * k - 1]
    BY <1>6
  <2>2. Sent(Stream, last, cmd) /\ Unreturned(Stream, Returned)
    BY DEF OrderInv, Inv, Queued
  <2>3. w[k].id \in Ids /\ w[k].id <= last /\ w[k].cmd = cmd[w[k].id]
    BY <2>1, <2>2 DEF Sent
  <2>4. \A q \in Ids : Upto(q) < w[k].id
    BY <2>1, <2>2 DEF Unreturned, Returned
  <2>5. w[k].n \in 1..(MaxTags + 1)
    <3>1. w[k] \in Atom
      BY <1>2
    <3> QED
      BY <3>1, Zenon DEF Atom
  <2>6. w[k].n \in Nat /\ w[k].n >= 1
    BY <2>5, BoundsAssumption
  <2> QED
    BY <2>1, <2>3, <2>4, <2>6 DEF Shaped
<1>8. ASSUME NEW k \in 1..Len(w), NEW l \in 1..Len(w), k < l
      PROVE  Precedes(w[k], w[l]) /\ (w[k].last => w[k].id < w[l].id)
  <2>1. /\ 2 * k - 1 \in 1..Len(Stream) /\ w[k] = Stream[2 * k - 1]
        /\ 2 * l - 1 \in 1..Len(Stream) /\ w[l] = Stream[2 * l - 1]
        /\ (2 * k - 1) + 1 < 2 * l - 1
        /\ 2 * k - 1 < 2 * l - 1 /\ 2 * l - 1 # (2 * k - 1) + 1
    BY <1>2, <1>6, <1>8
  <2>2. Spread(Stream) /\ Sorted(Stream)
    BY DEF OrderInv, Inv, Queued
  <2>3. Precedes(w[k], w[l])
    BY <2>1, <2>2 DEF Spread
  <2>4. w[k].last => w[k].id < w[l].id
    BY <2>1, <2>2 DEF Sorted
  <2> QED
    BY <2>3, <2>4
<1>9. 1 \in 1..Len(w) /\ Len(w) \in 1..Len(w)
  BY <1>2, <1>5, EmptySeq
<1> DEFINE x == w[1].id
           y == w[i].id
<1>10. i # 1 /\ i # Len(w) /\ 1 < i /\ i < Len(w)
  <2>1. i # 1
    BY <1>4, <1>5, <1>7, <1>9
  <2>2. i # Len(w)
    BY <1>4, <1>5
  <2> QED
    BY <1>2, <2>1, <2>2
<1>11. x \in Ids /\ y \in Ids
  BY <1>7, <1>9
<1>12. x # y
  <2> SUFFICES ASSUME x = y
               PROVE  FALSE
    OBVIOUS
  <2>1. w[i].cmd = c
    BY <1>5, <1>7, <1>9
  <2>2. w[i].n = 1
    BY <1>4, <1>7, <2>1
  <2>3. Precedes(w[1], w[i])
    BY <1>8, <1>9, <1>10
  <2>4. w[1].n < 1
    BY <1>11, <2>2, <2>3, BoundsAssumption DEF Precedes, Ids
  <2> QED
    BY <1>7, <1>9, <2>4
<1>13. x < y
  <2>1. Precedes(w[1], w[i])
    BY <1>8, <1>9, <1>10
  <2> QED
    BY <1>12, <2>1 DEF Precedes
<1>14. y # last
  <2> SUFFICES ASSUME y = last
               PROVE  FALSE
    OBVIOUS
  <2>1. w[i].cmd = c
    BY <1>7
  <2>2. w[i].last
    BY <1>4, <1>7, <2>1
  <2>3. y < w[Len(w)].id /\ w[Len(w)].id <= last /\ w[Len(w)].id \in Ids
    BY <1>7, <1>8, <1>9, <1>10, <2>2
  <2> QED
    BY <2>3, BoundsAssumption DEF Ids
<1>15. y < last
  BY <1>7, <1>11, <1>14, BoundsAssumption DEF Ids
<1> QED
  BY <1>7, <1>9, <1>11, <1>13, <1>15

(* The call panics: two of the calls before it have failed.                *)
LEMMA PanicCounted ==
    ASSUME OrderInv, Shaped(Stream), FramesReportedOnce,
           NEW n \in 0..Len(line), Panic(n), cmd[last] \in Inventory
    PROVE  \E p1, p2 \in 1..(last - 1) :
               p1 # p2 /\ status[p1] = "failed" /\ status[p2] = "failed"
<1>1. /\ TypeOK /\ last \in Ids /\ last \in Nat
      /\ ParsePanics(Read(n), cmd[last])
  BY BoundsAssumption DEF OrderInv, Inv, Panic, Waiting, Ids
<1>2. PICK x \in Ids, y \in Ids :
          x < y /\ y < last /\ \A q \in Ids : Upto(q) < x
  BY <1>1, PanicHolds
<1>3. x \in Nat \ {0} /\ x + 2 <= last
  BY <1>1, <1>2, BoundsAssumption DEF Ids
<1> DEFINE R == {p \in 1..(last - 1) : status[p] = "replied"}
           f == [p \in R |-> Upto(p)]
<1>4. \A p \in 1..(last - 1) : p \in Ids /\ p < last
  BY <1>1, BoundsAssumption DEF Ids
<1>5. ASSUME NEW p \in R
      PROVE  /\ p \in Ids /\ status[p] = "replied"
             /\ From(p) \in Ids /\ Upto(p) \in Ids /\ From(p) <= Upto(p)
  <2>1. p \in Ids /\ status[p] = "replied"
    BY <1>4
  <2>2. took[p] \in Seq(Atom) /\ took[p] # <<>>
    BY <1>1, <2>1 DEF OrderInv, TookToTotal, TypeOK
  <2>3. 1 \in 1..Len(took[p])
    BY <2>2, EmptySeq, LenProperties
  <2>4. /\ From(p) <= took[p][1].id /\ took[p][1].id <= Upto(p)
        /\ took[p][1].id \in Ids /\ From(p) \in Ids /\ Upto(p) \in Ids
    BY <2>1, <2>3, TookBetween DEF OrderInv
  <2> HIDE DEF R
  <2>5. From(p) <= Upto(p)
    BY <2>4, BoundsAssumption DEF Ids
  <2> QED
    BY <2>1, <2>4, <2>5
<1>6. R \in SUBSET (1..(last - 1))
  OBVIOUS
<1> HIDE DEF R
<1>7. f \in [R -> 1..(x - 1)]
  <2> SUFFICES ASSUME NEW p \in R
               PROVE  Upto(p) \in 1..(x - 1)
    OBVIOUS
  <2> QED
    BY <1>2, <1>3, <1>5, BoundsAssumption DEF Ids
<1>8. \A a, b \in R : a < b => f[a] < f[b]
  <2> SUFFICES ASSUME NEW a \in R, NEW b \in R, a < b
               PROVE  Upto(a) < Upto(b)
    OBVIOUS
  <2> DEFINE u == Upto(a)
             v == From(b)
             z == Upto(b)
  <2>1. u < v
    BY <1>5 DEF FramesReportedOnce
  <2>2. v <= z /\ u \in Ids /\ v \in Ids /\ z \in Ids
    BY <1>5
  <2> HIDE DEF u, v, z
  <2>3. u < z
    BY <2>1, <2>2, BoundsAssumption DEF Ids
  <2> QED
    BY <2>3 DEF u, z
<1> HIDE DEF f
<1>9. PICK p1 \in 1..(last - 1), p2 \in 1..(last - 1) :
          p1 # p2 /\ p1 \notin R /\ p2 \notin R
  BY <1>1, <1>3, <1>6, <1>7, <1>8, TwoLeft
<1>10. \A p \in 1..(last - 1) : p \notin R => status[p] = "failed"
  BY <1>1, <1>4 DEF TypeOK, R
<1> QED
  BY <1>9, <1>10

(* No call panics, and calls that have failed stay so.                     *)
LEMMA PanicStays ==
    ASSUME Inv, PanicNeedsTwoAbandoned,
           \A q \in Ids : status'[q] = "panicked" =>
               status[q] = "panicked" /\ cmd'[q] = cmd[q],
           \A q \in Ids : status[q] = "failed" => status'[q] = "failed"
    PROVE  PanicNeedsTwoAbandoned'
<1> SUFFICES ASSUME NEW q \in Ids, status'[q] = "panicked",
                    cmd'[q] \in Inventory
             PROVE  \E p1, p2 \in 1..(q - 1) :
                        /\ p1 # p2
                        /\ status'[p1] = "failed" /\ status'[p2] = "failed"
  BY DEF PanicNeedsTwoAbandoned
<1>1. PICK p1 \in 1..(q - 1), p2 \in 1..(q - 1) :
          p1 # p2 /\ status[p1] = "failed" /\ status[p2] = "failed"
  BY DEF PanicNeedsTwoAbandoned
<1>2. p1 \in Ids /\ p2 \in Ids
  BY BoundsAssumption DEF Ids
<1> QED
  BY <1>1, <1>2

(* A part of the stream is shaped as all of it.                            *)
LEMMA ShapedDrop ==
    ASSUME NEW s \in Seq(Atom), Shaped(s), NEW t \in Seq(Atom),
           NEW m \in Nat, m + Len(t) = Len(s),
           \A i \in 1..Len(t) : t[i] = s[m + i]
    PROVE  Shaped(t)
<1> SUFFICES ASSUME NEW i \in 1..Len(t)
             PROVE  t[i] = s[m + i] /\ m + i \in 1..Len(s)
  BY DEF Shaped
<1> QED
  OBVIOUS

LEMMA PanicInvStep ==
    ASSUME OrderInv, FramesReportedOnce, PanicInv, [Next]_vars
    PROVE  PanicInv'
<1>1. /\ Inv /\ TypeOK /\ Shaped(Stream) /\ PanicNeedsTwoAbandoned
      /\ last \in Nat /\ status \in [Ids -> Statuses]
      /\ cmd \in [Ids -> Commands]
      /\ line \in Seq(Atom) /\ <<>> \o line = line
      /\ \A q \in Ids : status[q] = "unused" <=> q > last
  BY StreamForm, BoundsAssumption DEF OrderInv, PanicInv, Inv, TypeOK
<1>2. Shaped(line)
  <2>1. /\ Stream \in Seq(Atom) /\ Len(Stream) = Len(buf) + Len(line)
        /\ Len(buf) \in Nat
        /\ \A i \in 1..Len(line) : line[i] = Stream[Len(buf) + i]
    BY <1>1, StreamForm
  <2> QED
    BY <1>1, <2>1, ShapedDrop
<1>3. ASSUME NEW n \in 0..Len(line)
      PROVE  Shaped(Unread(n)) /\ <<>> \o Unread(n) = Unread(n)
  <2>1. /\ Unread(n) \in Seq(Atom) /\ Stream \in Seq(Atom)
        /\ Len(Read(n)) + Len(Unread(n)) = Len(Stream)
        /\ Len(Read(n)) \in Nat
        /\ \A i \in 1..Len(Unread(n)) :
               Unread(n)[i] = Stream[Len(Read(n)) + i]
    BY <1>1, ReadSplits, StreamForm, LenProperties
  <2> QED
    BY <1>1, <2>1, ShapedDrop, ConcatEmptySeq
<1>4. ASSUME NEW c \in Commands, NEW s \in {"open", "failed"}, Begin(c, s)
      PROVE  PanicInv'
  <2>1. Stream' = line
    BY <1>1, <1>4 DEF Begin, Stream
  <2>2. /\ \A q \in Ids : status'[q] = "panicked" =>
               status[q] = "panicked" /\ cmd'[q] = cmd[q]
        /\ \A q \in Ids : status[q] = "failed" => status'[q] = "failed"
    <3>1. ASSUME NEW q \in Ids, q # last + 1
          PROVE  status'[q] = status[q] /\ cmd'[q] = cmd[q]
      BY <1>1, <1>4, <3>1 DEF Begin
    <3>2. last + 1 \in Ids => /\ status'[last + 1] = s
                              /\ status[last + 1] = "unused"
      <4>1. last + 1 > last
        BY <1>1
      <4> QED
        BY <1>1, <1>4, <4>1 DEF Begin
    <3> QED
      BY <3>1, <3>2
  <2>3. PanicNeedsTwoAbandoned'
    BY <1>1, <2>2, PanicStays
  <2> QED
    BY <1>2, <2>1, <2>3 DEF PanicInv, Shaped
<1>5. CASE ReaderAnswers
  <2> DEFINE h == Head(inbox)
  <2>1. /\ inbox \in Seq(Ids) /\ inbox # <<>> /\ buf \in Seq(Atom)
        /\ UNCHANGED <<cmd, status, buf>> /\ Stream \in Seq(Atom)
    BY <1>1, <1>5, StreamForm DEF TypeOK, ReaderAnswers, caller
  <2>2. h \in Ids
    BY <2>1, HeadTailProperties
  <2>3. PICK s \in Replies(cmd[h]) : line' = line \o Atoms(h, s)
    BY <1>5 DEF ReaderAnswers
  <2> DEFINE a == Atoms(h, s)
  <2>4. a \in Seq(Atom) /\ Shaped(a)
    BY <1>1, <2>2, AtomsForm, AtomsShaped
  <2> HIDE DEF h, a
  <2>5. Stream' = Stream \o a
    BY <1>1, <2>1, <2>3, <2>4, ConcatAssociative DEF Stream, a
  <2>6. Shaped(Stream \o a)
    BY <1>1, <2>1, <2>4, ShapedAdd
  <2>7. PanicNeedsTwoAbandoned'
    BY <1>1, <2>1, PanicStays
  <2> QED
    BY <2>5, <2>6, <2>7 DEF PanicInv, Shaped
<1>6. ASSUME UNCHANGED <<cmd, status>>, Stream' = Stream
      PROVE  PanicInv'
  <2>1. PanicNeedsTwoAbandoned'
    BY <1>1, <1>6, PanicStays
  <2> QED
    BY <1>1, <1>6, <2>1 DEF PanicInv, Shaped
<1>7. CASE ReaderIgnores
  BY <1>6, <1>7 DEF ReaderIgnores, caller, Stream
<1>8. ASSUME NEW n \in 0..Len(line), Accept(n)
      PROVE  PanicInv'
  <2>1. Stream' = Unread(n)
    BY <1>3, <1>8 DEF Accept, Stream
  <2>2. PanicNeedsTwoAbandoned'
    <3>1. /\ \A q \in Ids : q # last => status'[q] = status[q]
          /\ status[last] = "open" /\ status'[last] = "replied" /\ cmd' = cmd
      BY <1>1, <1>8 DEF Accept, Waiting
    <3> QED
      BY <1>1, <3>1, PanicStays
  <2> QED
    BY <1>3, <2>1, <2>2 DEF PanicInv, Shaped
<1>9. ASSUME NEW n \in 0..Len(line), Panic(n)
      PROVE  PanicInv'
  <2>1. Stream' = Unread(n)
    BY <1>3, <1>9 DEF Panic, Stream
  <2>2. /\ last \in Ids /\ cmd' = cmd /\ status[last] = "open"
        /\ \A q \in Ids : q # last => status'[q] = status[q]
    BY <1>1, <1>9 DEF Panic, Waiting
  <2>3. PanicNeedsTwoAbandoned'
    <3> SUFFICES ASSUME NEW q \in Ids, status'[q] = "panicked",
                        cmd[q] \in Inventory
                 PROVE  \E p1, p2 \in 1..(q - 1) :
                            /\ p1 # p2
                            /\ status'[p1] = "failed"
                            /\ status'[p2] = "failed"
      BY <2>2 DEF PanicNeedsTwoAbandoned
    <3>1. PICK p1 \in 1..(q - 1), p2 \in 1..(q - 1) :
              p1 # p2 /\ status[p1] = "failed" /\ status[p2] = "failed"
      <4>1. CASE q = last
        BY <1>1, <1>9, <4>1, PanicCounted
      <4>2. CASE q # last
        BY <1>1, <2>2, <4>2 DEF PanicNeedsTwoAbandoned
      <4> QED
        BY <4>1, <4>2
    <3>2. p1 \in Ids /\ p2 \in Ids
      BY BoundsAssumption DEF Ids
    <3> QED
      BY <2>2, <3>1, <3>2
  <2> QED
    BY <1>3, <2>1, <2>3 DEF PanicInv, Shaped
<1>10. ASSUME NEW n \in 0..Len(line), KeepReading(n)
       PROVE  PanicInv'
  <2>1. Stream' = Stream
    BY <1>1, <1>10, StreamStays DEF KeepReading, Stream
  <2> QED
    BY <1>6, <1>10, <2>1 DEF KeepReading, caller
<1>11. CASE Abandon
  <2>1. Stream' = line
    BY <1>1, <1>11 DEF Abandon, Stream
  <2>2. PanicNeedsTwoAbandoned'
    <3>1. /\ \A q \in Ids : q # last => status'[q] = status[q]
          /\ status[last] = "open" /\ status'[last] = "failed" /\ cmd' = cmd
      BY <1>1, <1>11 DEF Abandon, Waiting
    <3> QED
      BY <1>1, <3>1, PanicStays
  <2> QED
    BY <1>2, <2>1, <2>2 DEF PanicInv, Shaped
<1>12. CASE UNCHANGED vars
  BY <1>6, <1>12 DEF vars, Stream
<1> QED
  BY <1>4, <1>5, <1>7, <1>8, <1>9, <1>10, <1>11, <1>12
     DEF Next, Send, SendFails, Receive, TimeOut, ReadFails

LEMMA PanicInit == Init => PanicInv
<1> SUFFICES ASSUME Init
             PROVE  PanicInv
  OBVIOUS
<1>1. Stream = <<>>
  BY EmptySeq, ConcatEmptySeq DEF Init, Stream
<1>2. \A q \in Ids : status[q] # "panicked"
  BY DEF Init
<1> QED
  BY <1>1, <1>2 DEF PanicInv, Shaped, PanicNeedsTwoAbandoned

(* Parsing an inventory indexes out of bounds only after two calls have    *)
(* been abandoned, however many calls and tags there are.                  *)
THEOREM ExchangePanicNeedsTwo == Spec => []PanicNeedsTwoAbandoned
<1>1. Init => PanicInv
  BY PanicInit
<1>2. PanicInv => PanicNeedsTwoAbandoned
  BY DEF PanicInv
<1>3. (OrderInv /\ FramesReportedOnce) /\ PanicInv /\ [Next]_vars => PanicInv'
  BY PanicInvStep
<1>4. Spec => [](OrderInv /\ FramesReportedOnce)
  BY OrderInit, OrderStep, ExchangeFramesReportedOnce, PTL DEF Spec
<1> QED
  BY <1>1, <1>2, <1>3, <1>4, PTL DEF Spec
-----------------------------------------------------------------------------
(* The four together, as an invariant that a step keeps: for what follows  *)
(* the exchange for a part of its behaviour only.                          *)
KeptInv == CompleteInv /\ OrderInv /\ PanicInv /\ PortProofs!Inv

LEMMA KeptInit == Init => KeptInv
<1>1. Init => PanicInv
  BY PanicInit
<1>2. Init => PortProofs!Inv
  <2>1. MaxCalls \in Nat
    BY BoundsAssumption
  <2> QED
    BY <2>1, InitStep, PortStep, PortProofs!InitInv
<1> QED
  BY <1>1, <1>2, CompleteInit, OrderInit DEF KeptInv

LEMMA KeptSays ==
    KeptInv => /\ OwnUnlessAbandoned
               /\ FramesReportedOnce
               /\ InventoryComplete
               /\ PanicNeedsTwoAbandoned
<1>1. KeptInv => PortProofs!InOrder /\ PortProofs!OwnUnlessAbandoned
  BY DEF KeptInv, PortProofs!Inv
<1>2. PortProofs!OwnUnlessAbandoned => OwnUnlessAbandoned
  BY DEF OwnUnlessAbandoned, Port!OwnUnlessAbandoned,
         PortProofs!OwnUnlessAbandoned, Port!Ids, PortProofs!Ids
<1>3. PortProofs!InOrder => FramesReportedOnce
  BY DEF FramesReportedOnce, PortProofs!InOrder, PortProofs!Ids, Ids
<1> QED
  BY <1>1, <1>2, <1>3 DEF KeptInv, CompleteInv, PanicInv

LEMMA KeptStep == KeptInv /\ [Next]_vars => KeptInv'
<1> SUFFICES ASSUME KeptInv, [Next]_vars
             PROVE  KeptInv'
  OBVIOUS
<1>1. CompleteInv' /\ OrderInv'
  BY CompleteStep, OrderStep DEF KeptInv
<1>2. PanicInv'
  BY KeptSays, PanicInvStep DEF KeptInv
<1>3. PortProofs!Inv'
  <2>1. MaxCalls \in Nat /\ PortProofs!Inv
    BY BoundsAssumption DEF KeptInv
  <2>2. [PortProofs!Next]_(PortProofs!vars)
    BY NextStep, PortStep DEF KeptInv, CompleteInv
  <2> QED
    BY <2>1, <2>2, PortProofs!InvNext
<1> QED
  BY <1>1, <1>2, <1>3 DEF KeptInv
=============================================================================
