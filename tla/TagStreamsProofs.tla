-------------------------- MODULE TagStreamsProofs --------------------------
(***************************************************************************)
(* A connector with tag streams is a connector: a stream only makes calls, *)
(* of a fast switching inventory, that the caller could have made itself,  *)
(* and what is proved of calls holds of those of a stream, polled at       *)
(* leisure or dropped half way.  What a stream yields are then the tags of *)
(* the answer to its call, each of them once, and when it ends all.        *)
(***************************************************************************)
EXTENDS TagStreams, ExchangeProofs, DataProofs

LEMMA StreamStep == [StreamNext]_allVars => [Next]_vars
<1> SUFFICES ASSUME [StreamNext]_allVars
             PROVE  [Next]_vars
  OBVIOUS
<1>1. CASE DirectCall
  BY <1>1 DEF DirectCall, Next
<1>2. CASE DirectReceive \/ DirectTimesOut \/ DirectReadFails
  BY <1>2 DEF DirectReceive, DirectTimesOut, DirectReadFails, Next
<1>3. CASE Reader
  BY <1>3 DEF Reader, Next
<1>4. CASE Open \/ Poll \/ Drop
  BY <1>4 DEF Open, Poll, Drop
<1>5. CASE FirstPoll \/ FirstPollFails
  BY <1>5 DEF FirstPoll, FirstPollFails, Next, Commands
<1>6. CASE StreamAccepts
  BY <1>6 DEF StreamAccepts, Next, Receive
<1>7. CASE StreamReads
  BY <1>7 DEF StreamReads, Next, Receive
<1>8. CASE StreamTimesOut \/ StreamReadFails
  BY <1>8 DEF StreamTimesOut, StreamReadFails, Next
<1>9. CASE DropWhileWaiting
  BY <1>9 DEF DropWhileWaiting, Next, ReadFails
<1>10. CASE UNCHANGED allVars
  BY <1>10 DEF allVars
<1> QED
  BY <1>1, <1>2, <1>3, <1>4, <1>5, <1>6, <1>7, <1>8, <1>9, <1>10
     DEF StreamNext

(* What a caller does through streams, it could do through calls.          *)
THEOREM StreamsAreCalls == StreamSpec => Spec
<1>1. StreamInit => Init
  BY DEF StreamInit
<1> QED
  BY <1>1, StreamStep, PTL DEF StreamSpec, Spec

(* Hence what is proved of calls holds of those of streams: their answers  *)
(* are their own unless a call of the same command was abandoned, report   *)
(* no frame twice, and are whole while no call has been abandoned.         *)
THEOREM StreamsKeepTheExchange ==
    StreamSpec =>
        [](OwnUnlessAbandoned /\ FramesReportedOnce /\ InventoryComplete)
BY StreamsAreCalls, ExchangeOwnUnlessAbandoned, ExchangeFramesReportedOnce,
   ExchangeInventoryComplete, PTL

-----------------------------------------------------------------------------
(* The tags of an answer.                                                  *)

(* The positions of the tags among frames, of which Tags goes back.        *)
TagsOf(w) == {i \in DOMAIN w : w[i].shape # "total"}

LEMMA TagsForm ==
    ASSUME NEW w \in Seq(Atom)
    PROVE  LET n == Cardinality(TagsOf(w))
           IN /\ TagsOf(w) \in SUBSET (1..Len(w)) /\ Len(w) \in Nat
              /\ Tags(w) \in Seq(Atom) /\ Len(Tags(w)) = n /\ n \in Nat
              /\ \A k \in 1..n :
                    /\ n + 1 - k \in 1..n
                    /\ Nth(TagsOf(w), n + 1 - k) \in TagsOf(w)
                    /\ Tags(w)[k] = w[Nth(TagsOf(w), n + 1 - k)]
<1>1. DOMAIN w = 1..Len(w) /\ Len(w) \in Nat
  BY LenProperties
<1>2. TagsOf(w) \in SUBSET (1..Len(w))
  BY <1>1 DEF TagsOf
<1>3. Tags(w) = SelectedBack(w, TagsOf(w))
  BY DEF Tags, TagsOf
<1> QED
  BY <1>1, <1>2, <1>3, SelectedBackForm

(* Two tags of one answer are two frames of it.                            *)
LEMMA TagsDiffer ==
    ASSUME NEW w \in Seq(Atom), Ordered(w),
           NEW i \in 1..Len(Tags(w)), NEW j \in 1..Len(Tags(w)), i < j
    PROVE  Precedes(Tags(w)[j], Tags(w)[i])
<1> DEFINE I == TagsOf(w)
           n == Cardinality(I)
           x == Nth(I, n + 1 - j)
           y == Nth(I, n + 1 - i)
<1>1. /\ I \in SUBSET (1..Len(w)) /\ Len(w) \in Nat /\ n \in Nat
      /\ n + 1 - i \in 1..n /\ n + 1 - j \in 1..n
      /\ x \in 1..Len(w) /\ y \in 1..Len(w)
      /\ Tags(w)[i] = w[y] /\ Tags(w)[j] = w[x] /\ Len(Tags(w)) = n
  BY TagsForm
<1>2. n + 1 - j < n + 1 - i
  BY <1>1
<1> HIDE DEF I
<1>3. x < y
  BY <1>1, <1>2, NthOrder
<1> QED
  BY <1>1, <1>3 DEF Ordered

(* Of an inventory read in full, the tags are all frames but the last.     *)
LEMMA TagsOfWhole ==
    ASSUME NEW w \in Seq(Atom), Ordered(w), ToTotal(w), NEW q \in Ids,
           \A k \in DOMAIN w : w[k].id = q /\ w[k].n = k
    PROVE  /\ Len(Tags(w)) + 1 = Len(w)
           /\ \A k \in 1..Len(Tags(w)) :
                 /\ Tags(w)[k].id = q
                 /\ Tags(w)[k].n = Len(w) - k
<1>1. Len(w) \in Nat \ {0} /\ DOMAIN w = 1..Len(w)
  BY EmptySeq, LenProperties DEF ToTotal
<1> DEFINE n == Len(w) - 1
<1>2. n \in Nat /\ Len(w) = n + 1
  BY <1>1
<1>3. TagsOf(w) = 1..n
  <2> SUFFICES ASSUME NEW k
               PROVE  k \in TagsOf(w) <=> k \in 1..n
    OBVIOUS
  <2>1. CASE k \in 1..n
    <3>1. k \in 1..Len(w) /\ Len(w) \in 1..Len(w) /\ k < Len(w)
      BY <1>2, <2>1
    <3>2. Precedes(w[k], w[Len(w)])
      BY <3>1 DEF Ordered
    <3>3. w[k].id = q /\ w[Len(w)].id = q
      BY <1>1, <3>1
    <3>4. w[k].shape # "total"
      BY <3>2, <3>3, BoundsAssumption DEF Precedes, Ids
    <3> QED
      BY <1>1, <2>1, <3>1, <3>4 DEF TagsOf
  <2>2. CASE k = Len(w)
    BY <1>2, <2>2 DEF TagsOf, ToTotal
  <2>3. CASE k \notin 1..n /\ k # Len(w)
    <3>1. k \notin 1..Len(w)
      BY <1>2, <2>3
    <3> QED
      BY <1>1, <2>3, <3>1 DEF TagsOf
  <2> QED
    BY <2>1, <2>2, <2>3
<1> HIDE DEF n
<1>4. Cardinality(1..n) = n /\ \A k \in 1..n : Nth(1..n, k) = k
  BY <1>2, NthInterval
<1>5. /\ Len(Tags(w)) = n
      /\ \A k \in 1..n : n + 1 - k \in 1..n /\ Tags(w)[k] = w[n + 1 - k]
  <2>1. /\ Len(Tags(w)) = n
        /\ \A k \in 1..n : /\ n + 1 - k \in 1..n
                           /\ Tags(w)[k] = w[Nth(1..n, n + 1 - k)]
    <3>1. Cardinality(TagsOf(w)) = n
      BY <1>3, <1>4
    <3>2. LET c == Cardinality(TagsOf(w))
          IN /\ Len(Tags(w)) = c
             /\ \A k \in 1..c :
                   /\ c + 1 - k \in 1..c
                   /\ Tags(w)[k] = w[Nth(TagsOf(w), c + 1 - k)]
      BY TagsForm, Zenon
    <3> QED
      BY <1>3, <3>1, <3>2
  <2> QED
    BY <1>4, <2>1
<1>6. ASSUME NEW k \in 1..n
      PROVE  Tags(w)[k].id = q /\ Tags(w)[k].n = Len(w) - k
  <2>1. /\ n + 1 - k \in DOMAIN w /\ Tags(w)[k] = w[n + 1 - k]
        /\ n + 1 - k = Len(w) - k
    BY <1>1, <1>2, <1>5
  <2> QED
    BY <2>1
<1> QED
  BY <1>2, <1>5, <1>6

-----------------------------------------------------------------------------
(* The inductive invariant: what a stream has yielded are the first tags   *)
(* of the answer to its call, and its queue is the others.                 *)

Begins(s, t) == Len(s) <= Len(t) /\ \A k \in 1..Len(s) : s[k] = t[k]

Splits(t, s, r) ==
    /\ Len(t) = Len(s) + Len(r)
    /\ \A k \in 1..Len(s) : s[k] = t[k]
    /\ \A k \in 1..Len(r) : r[k] = t[Len(s) + k]

YieldsTags(q) ==
    /\ status[q] # "replied" => yielded[q] = <<>>
    /\ status[q] \in {"unused", "open"} => outcome[q] = "none"
    /\ Begins(yielded[q], Tags(took[q]))
    /\ (outcome[q] = "end" /\ status[q] = "replied") =>
          cmd[q] \in Fast /\ Len(yielded[q]) = Len(Tags(took[q]))

StreamInv ==
    /\ Inv
    /\ StreamTypeOK
    /\ \A q \in Ids : YieldsTags(q)
    /\ state \in {"waiting", "yielding"} => last \in Ids /\ cmd[last] \in Fast
    /\ state = "yielding" => /\ status[last] = "replied"
                             /\ Splits(Tags(took[last]), yielded[last], queue)

(* The calls made so far are over when the last one is.                    *)
LEMMA LastOver ==
    ASSUME NEW l \in Nat, NEW s,
           \A q \in Ids : s[q] = "unused" <=> q > l,
           \A q \in Ids : q < l => s[q] \in {"replied", "failed"},
           l \in Ids => s[l] \notin {"open", "panicked"}
    PROVE  \A q \in Ids : s[q] \notin {"open", "panicked"}
<1> SUFFICES ASSUME NEW q \in Ids
             PROVE  s[q] \notin {"open", "panicked"}
  OBVIOUS
<1>1. q < l \/ q > l \/ q = l
  BY BoundsAssumption DEF Ids
<1> QED
  BY <1>1

(* An answer, once accepted, is not touched again, and it is the last call *)
(* that gets one.                                                          *)
LEMMA AnswerStays ==
    ASSUME Inv, [Next]_vars, NEW q \in Ids
    PROVE  /\ status[q] = "replied" =>
                 /\ status'[q] = "replied"
                 /\ took'[q] = took[q] /\ cmd'[q] = cmd[q]
           /\ status'[q] \in {"unused", "open"} =>
                 status[q] \in {"unused", "open"}
           /\ status'[q] = "replied" => status[q] \in {"replied", "open"}
<1>1. /\ last \in Nat /\ status \in [Ids -> Statuses]
      /\ cmd \in [Ids -> Commands] /\ took \in [Ids -> Seq(Atom)]
      /\ \A p \in Ids : status[p] = "unused" <=> p > last
  BY BoundsAssumption DEF Inv, TypeOK
<1>2. ASSUME NEW c \in Commands, NEW s \in {"open", "failed"}, Begin(c, s)
      PROVE  /\ took' = took /\ (q = last + 1 => status'[q] = s)
             /\ q # last + 1 => status'[q] = status[q] /\ cmd'[q] = cmd[q]
             /\ q = last + 1 => status[q] = "unused"
  BY <1>1, <1>2, BoundsAssumption DEF Begin, Ids
<1>3. CASE \E c \in Commands : Send(c) \/ SendFails(c)
  <2>1. PICK c \in Commands, s \in {"open", "failed"} : Begin(c, s)
    BY <1>3 DEF Send, SendFails
  <2> QED
    BY <1>2, <2>1
<1>4. CASE ReaderAnswers \/ ReaderIgnores
  BY <1>1, <1>4 DEF ReaderAnswers, ReaderIgnores, caller
<1>5. ASSUME NEW n \in 0..Len(line), Accept(n)
      PROVE  /\ q # last => status'[q] = status[q] /\ took'[q] = took[q]
             /\ cmd' = cmd
             /\ status[last] = "open" /\ status'[last] = "replied"
  BY <1>1, <1>5 DEF Accept, Waiting
<1>6. ASSUME NEW n \in 0..Len(line), Panic(n) \/ KeepReading(n)
      PROVE  /\ q # last => status'[q] = status[q]
             /\ took' = took /\ cmd' = cmd /\ status[last] = "open"
             /\ status'[last] \in {"open", "panicked"}
  BY <1>1, <1>6 DEF Panic, KeepReading, Waiting, caller
<1>7. CASE Receive
  BY <1>5, <1>6, <1>7 DEF Receive
<1>8. CASE Abandon
  BY <1>1, <1>8 DEF Abandon, Waiting
<1>9. CASE UNCHANGED vars
  BY <1>9 DEF vars
<1> QED
  BY <1>3, <1>4, <1>7, <1>8, <1>9 DEF Next, TimeOut, ReadFails

(* What a stream has yielded, and how it ended, stays.                     *)
LEMMA YieldsStay ==
    ASSUME StreamInv, [Next]_vars, Inv', NEW q \in Ids,
           yielded'[q] = yielded[q], outcome'[q] = outcome[q]
    PROVE  YieldsTags(q)'
<1>1. YieldsTags(q) /\ Inv
  BY DEF StreamInv
<1>2. /\ status[q] = "replied" =>
            status'[q] = "replied" /\ took'[q] = took[q] /\ cmd'[q] = cmd[q]
      /\ status'[q] \in {"unused", "open"} => status[q] \in {"unused", "open"}
      /\ status'[q] = "replied" => status[q] \in {"replied", "open"}
  BY <1>1, AnswerStays
<1>3. Begins(yielded[q], Tags(took'[q]))
  <2>1. CASE status[q] = "replied"
    BY <1>1, <1>2, <2>1 DEF YieldsTags
  <2>2. CASE status[q] # "replied"
    <3>1. took'[q] \in Seq(Atom)
      BY DEF Inv, TypeOK
    <3>2. Len(Tags(took'[q])) \in Nat
      BY <3>1, TagsForm
    <3>3. yielded[q] = <<>> /\ Len(<<>>) = 0
      BY <1>1, <2>2 DEF YieldsTags
    <3> QED
      BY <3>2, <3>3 DEF Begins
  <2> QED
    BY <2>1, <2>2
<1>4. status'[q] # "replied" => yielded'[q] = <<>>
  BY <1>1, <1>2 DEF YieldsTags
<1>5. status'[q] \in {"unused", "open"} => outcome'[q] = "none"
  BY <1>1, <1>2 DEF YieldsTags
<1>6. (outcome'[q] = "end" /\ status'[q] = "replied") =>
         cmd'[q] \in Fast /\ Len(yielded'[q]) = Len(Tags(took'[q]))
  BY <1>1, <1>2 DEF YieldsTags
<1> QED
  BY <1>3, <1>4, <1>5, <1>6 DEF YieldsTags, Begins, Tags

-----------------------------------------------------------------------------
(* Every action keeps the invariant.                                       *)

(* A step that leaves the stream alone.                                    *)
LEMMA StreamUntouched ==
    ASSUME StreamInv, [Next]_vars, Inv', UNCHANGED streamVars,
           state = "waiting" =>
               /\ last' = last /\ cmd' = cmd
               /\ status'[last] \in {"open", "panicked"},
           state \in {"fresh", "yielding", "finished"} =>
               UNCHANGED <<last, cmd, status, took>>
    PROVE  StreamInv'
<1>1. \A q \in Ids : YieldsTags(q)'
  BY YieldsStay DEF streamVars
<1>2. StreamTypeOK'
  <2>1. TypeOK'
    BY DEF Inv
  <2>2. state \in {"fresh", "yielding", "finished"} => Idle'
    BY DEF StreamInv, StreamTypeOK, Idle
  <2> QED
    BY <2>1, <2>2 DEF StreamInv, StreamTypeOK, streamVars
<1>3. state' \in {"waiting", "yielding"} =>
          last' \in Ids /\ cmd'[last'] \in Fast
  BY DEF StreamInv, streamVars
<1>4. state' = "yielding" =>
          /\ status'[last'] = "replied"
          /\ Splits(Tags(took[last]), yielded[last], queue)
          /\ UNCHANGED <<last, took, yielded, queue>>
  BY DEF StreamInv, streamVars
<1> QED
  BY <1>1, <1>2, <1>3, <1>4 DEF StreamInv, Splits, Tags

(* The tags t of an answer, of which those of ts are still to be yielded.  *)
LEMMA DeliverMoves ==
    ASSUME StreamTypeOK, NEW q \in Ids, NEW t \in Seq(Atom),
           NEW ts \in Seq(Atom), Splits(t, yielded[q], ts),
           outcome[q] = "end" => ts = <<>>, Deliver(q, ts)
    PROVE  /\ state' \in {"yielding", "finished"}
           /\ queue' \in Seq(Atom)
           /\ queue' # <<>> => state' = "yielding"
           /\ yielded' \in [Ids -> Seq(Atom)]
           /\ outcome' \in [Ids -> Outcomes]
           /\ \A p \in Ids : p # q => /\ yielded'[p] = yielded[p]
                                      /\ outcome'[p] = outcome[p]
           /\ Begins(yielded'[q], t)
           /\ state' = "yielding" => Splits(t, yielded'[q], queue')
           /\ outcome'[q] = "end" => Len(yielded'[q]) = Len(t)
<1> DEFINE y == yielded[q]
<1>1. /\ y \in Seq(Atom) /\ yielded \in [Ids -> Seq(Atom)]
      /\ outcome \in [Ids -> Outcomes]
      /\ Len(y) \in Nat /\ Len(t) \in Nat /\ Len(ts) \in Nat
      /\ Len(t) = Len(y) + Len(ts)
      /\ \A k \in 1..Len(y) : y[k] = t[k]
      /\ \A k \in 1..Len(ts) : ts[k] = t[Len(y) + k]
  BY LenProperties DEF StreamTypeOK, Splits
<1>2. CASE ts = <<>>
  <2>1. Finish(q, "end")
    BY <1>2 DEF Deliver
  <2>2. Len(y) = Len(t)
    BY <1>1, <1>2, EmptySeq
  <2>3. /\ state' = "finished" /\ queue' = <<>> /\ yielded' = yielded
        /\ outcome' = [outcome EXCEPT ![q] = "end"]
    BY <2>1 DEF Finish
  <2>4. Begins(y, t)
    BY <1>1, <2>2 DEF Begins
  <2> QED
    BY <1>1, <2>2, <2>3, <2>4, EmptySeq DEF Outcomes
<1>3. CASE ts # <<>>
  <2>1. /\ state' = "yielding" /\ queue' = Tail(ts) /\ outcome' = outcome
        /\ yielded' = [yielded EXCEPT ![q] = Append(y, Head(ts))]
    BY <1>3 DEF Deliver
  <2>2. /\ Head(ts) \in Atom /\ Head(ts) = ts[1] /\ 1 \in 1..Len(ts)
        /\ Tail(ts) \in Seq(Atom) /\ Len(Tail(ts)) = Len(ts) - 1
        /\ \A k \in 1..Len(Tail(ts)) : Tail(ts)[k] = ts[k + 1]
    BY <1>1, <1>3, HeadTailProperties, EmptySeq
  <2> DEFINE z == Append(y, Head(ts))
  <2>3. /\ z \in Seq(Atom) /\ Len(z) = Len(y) + 1
        /\ \A k \in 1..Len(y) : z[k] = y[k]
        /\ z[Len(y) + 1] = Head(ts)
    BY <1>1, <2>2, AppendProperties
  <2>4. /\ yielded' \in [Ids -> Seq(Atom)] /\ yielded'[q] = z
        /\ \A p \in Ids : p # q => yielded'[p] = yielded[p]
    BY <1>1, <2>1, <2>3
  <2> HIDE DEF z, y
  <2>5. \A k \in 1..Len(z) : z[k] = t[k]
    <3> SUFFICES ASSUME NEW k \in 1..Len(z)
                 PROVE  z[k] = t[k]
      OBVIOUS
    <3>1. k \in 1..Len(y) \/ k = Len(y) + 1
      BY <1>1, <2>3
    <3> QED
      BY <1>1, <2>2, <2>3, <3>1
  <2>6. \A k \in 1..Len(Tail(ts)) : Tail(ts)[k] = t[Len(z) + k]
    <3> SUFFICES ASSUME NEW k \in 1..Len(Tail(ts))
                 PROVE  Tail(ts)[k] = t[Len(z) + k]
      OBVIOUS
    <3>1. /\ k + 1 \in 1..Len(ts) /\ k \in Nat
          /\ Len(y) + (k + 1) = Len(z) + k
      BY <1>1, <2>2, <2>3
    <3> QED
      BY <1>1, <2>2, <3>1
  <2>7. Len(t) = Len(z) + Len(Tail(ts)) /\ Len(z) <= Len(t)
    BY <1>1, <2>2, <2>3
  <2>8. Begins(z, t) /\ Splits(t, z, Tail(ts))
    BY <2>5, <2>6, <2>7 DEF Begins, Splits
  <2> QED
    BY <1>1, <1>3, <2>1, <2>2, <2>4, <2>8
<1> QED
  BY <1>2, <1>3

(* A poll of an answered call: the next tag, or the end.                   *)
LEMMA DeliverStep ==
    ASSUME StreamInv, [Next]_vars, Inv', last' = last, last \in Ids,
           cmd'[last] \in Fast, status'[last] = "replied",
           NEW ts \in Seq(Atom),
           Splits(Tags(took'[last]), yielded[last], ts),
           outcome[last] = "end" => ts = <<>>, Deliver(last, ts)
    PROVE  StreamInv'
<1> DEFINE t == Tags(took'[last])
<1>1. t \in Seq(Atom)
  BY TagsForm DEF Inv, TypeOK
<1> HIDE DEF t
<1>2. /\ state' \in {"yielding", "finished"}
      /\ queue' \in Seq(Atom)
      /\ queue' # <<>> => state' = "yielding"
      /\ yielded' \in [Ids -> Seq(Atom)]
      /\ outcome' \in [Ids -> Outcomes]
      /\ \A p \in Ids : p # last => /\ yielded'[p] = yielded[p]
                                    /\ outcome'[p] = outcome[p]
      /\ Begins(yielded'[last], t)
      /\ state' = "yielding" => Splits(t, yielded'[last], queue')
      /\ outcome'[last] = "end" => Len(yielded'[last]) = Len(t)
  BY <1>1, DeliverMoves DEF StreamInv, t
<1>3. Idle'
  <2>1. /\ last' \in Nat
        /\ \A q \in Ids : status'[q] = "unused" <=> q > last'
        /\ \A q \in Ids : q < last' => status'[q] \in {"replied", "failed"}
    BY BoundsAssumption DEF Inv, TypeOK
  <2> QED
    BY <2>1, LastOver DEF Idle
<1>4. StreamTypeOK'
  BY <1>2, <1>3 DEF StreamTypeOK, Inv, States
<1>5. YieldsTags(last)'
  BY <1>2 DEF YieldsTags, Begins, Tags, t
<1>6. \A q \in Ids : q # last => YieldsTags(q)'
  BY <1>2, YieldsStay
<1>7. state' = "yielding" => /\ status'[last'] = "replied"
                             /\ Splits(t, yielded'[last'], queue')
  BY <1>2
<1> QED
  BY <1>2, <1>4, <1>5, <1>6, <1>7 DEF StreamInv, Splits, Tags, t

(* A stream ends or is dropped, without an answer or with one.             *)
LEMMA FinishStep ==
    ASSUME StreamInv, [Next]_vars, Inv',
           state' \in {"none", "finished"}, queue' = <<>>, yielded' = yielded,
           state' = "finished" => Idle',
           NEW q \in Ids, NEW o \in Outcomes,
           \/ outcome' = outcome
           \/ /\ outcome' = [outcome EXCEPT ![q] = o]
              /\ \/ status'[q] = "failed"
                 \/ status'[q] = "replied" /\ o # "end"
    PROVE  StreamInv'
<1>1. StreamTypeOK'
  <2>1. TypeOK' /\ outcome' \in [Ids -> Outcomes]
    BY DEF Inv, StreamInv, StreamTypeOK
  <2> QED
    BY <2>1, EmptySeq DEF StreamInv, StreamTypeOK, States
<1>2. \A p \in Ids : p # q => outcome'[p] = outcome[p]
  BY DEF StreamInv, StreamTypeOK
<1>3. \A p \in Ids : p # q => YieldsTags(p)'
  BY <1>2, YieldsStay
<1>4. YieldsTags(q)'
  <2>1. CASE outcome' = outcome
    BY <2>1, YieldsStay
  <2>2. CASE outcome' # outcome
    <3>1. /\ outcome'[q] = o /\ status'[q] \notin {"unused", "open"}
          /\ outcome'[q] = "end" => status'[q] # "replied"
      BY <2>2 DEF StreamInv, StreamTypeOK
    <3>2. YieldsTags(q) /\ Inv
      BY DEF StreamInv
    <3>3. /\ status[q] = "replied" =>
                status'[q] = "replied" /\ took'[q] = took[q]
          /\ status[q] # "replied" => yielded[q] = <<>>
      BY <3>2, AnswerStays DEF YieldsTags
    <3>4. Begins(yielded[q], Tags(took'[q]))
      <4>1. Len(Tags(took'[q])) \in Nat /\ Len(<<>>) = 0
        BY TagsForm DEF Inv, TypeOK
      <4>2. CASE status[q] = "replied"
        BY <3>2, <3>3, <4>2 DEF YieldsTags
      <4>3. CASE status[q] # "replied"
        BY <3>3, <4>1, <4>3 DEF Begins
      <4> QED
        BY <4>2, <4>3
    <3>5. status'[q] # "replied" => yielded'[q] = <<>>
      BY <3>3
    <3> QED
      BY <3>1, <3>4, <3>5 DEF YieldsTags, Begins, Tags
  <2> QED
    BY <2>1, <2>2
<1> QED
  BY <1>1, <1>3, <1>4 DEF StreamInv

LEMMA StreamInitial == StreamInit => StreamInv
<1> SUFFICES ASSUME StreamInit
             PROVE  StreamInv
  OBVIOUS
<1>1. Init /\ Inv
  BY InitStep DEF StreamInit
<1>2. StreamTypeOK
  <2>1. TypeOK
    BY <1>1 DEF Inv
  <2> QED
    BY <2>1, EmptySeq DEF StreamInit, StreamTypeOK, States, Outcomes
<1>3. ASSUME NEW q \in Ids
      PROVE  YieldsTags(q)
  <2>1. took[q] \in Seq(Atom) /\ status[q] = "unused"
    BY <1>1 DEF Inv, TypeOK, Init
  <2>2. Len(Tags(took[q])) \in Nat /\ Len(<<>>) = 0
    BY <2>1, TagsForm
  <2>3. Begins(<<>>, Tags(took[q]))
    BY <2>2 DEF Begins
  <2> QED
    BY <2>1, <2>3 DEF StreamInit, YieldsTags
<1> QED
  BY <1>1, <1>2, <1>3 DEF StreamInv, StreamInit

LEMMA StreamInvStep == StreamInv /\ [StreamNext]_allVars => StreamInv'
<1> SUFFICES ASSUME StreamInv, [StreamNext]_allVars
             PROVE  StreamInv'
  OBVIOUS
<1>1. [Next]_vars /\ Inv /\ Inv'
  BY StreamStep, NextStep DEF StreamInv
<1>2. /\ TypeOK /\ last \in Nat /\ status \in [Ids -> Statuses]
      /\ took \in [Ids -> Seq(Atom)] /\ cmd \in [Ids -> Commands]
      /\ last < MaxCalls => last + 1 \in Ids
  <2>1. TypeOK
    BY <1>1 DEF Inv
  <2>2. last \in Nat /\ (last < MaxCalls => last + 1 \in Ids)
    BY <2>1, BoundsAssumption DEF TypeOK, Ids
  <2> QED
    BY <2>1, <2>2 DEF TypeOK
<1>3. CASE DirectCall \/ DirectReceive \/ DirectTimesOut \/ DirectReadFails
  <2>1. state = "none" /\ UNCHANGED streamVars
    BY <1>3 DEF DirectCall, DirectReceive, DirectTimesOut, DirectReadFails
  <2> QED
    BY <1>1, <2>1, StreamUntouched
<1>4. CASE Reader
  <2>1. UNCHANGED <<last, cmd, status, took>> /\ UNCHANGED streamVars
    BY <1>4 DEF Reader, ReaderAnswers, ReaderIgnores, caller
  <2> QED
    BY <1>1, <2>1, StreamUntouched DEF StreamInv, StreamTypeOK
<1>5. CASE StreamReads
  <2>1. PICK n \in 0..Len(line) : KeepReading(n) \/ Panic(n)
    BY <1>5 DEF StreamReads
  <2>2. /\ state = "waiting" /\ UNCHANGED streamVars
        /\ last' = last /\ cmd' = cmd
        /\ status'[last] \in {"open", "panicked"}
    BY <1>2, <1>5, <2>1
       DEF StreamReads, KeepReading, Panic, Waiting, caller
  <2> QED
    BY <1>1, <2>2, StreamUntouched
<1>6. CASE Open
  <2>1. /\ state' = "fresh" /\ state = "none" /\ Idle
        /\ UNCHANGED <<vars, queue, yielded, outcome>>
    BY <1>6 DEF Open
  <2>2. Idle' /\ queue = <<>>
    BY <2>1 DEF StreamInv, StreamTypeOK, Idle, vars
  <2>3. StreamTypeOK'
    BY <1>1, <2>1, <2>2 DEF StreamInv, StreamTypeOK, States, Inv
  <2>4. \A q \in Ids : YieldsTags(q)'
    BY <1>1, <2>1, YieldsStay
  <2> QED
    BY <1>1, <2>1, <2>3, <2>4 DEF StreamInv
<1>7. CASE FirstPoll
  <2>1. PICK c \in Fast : Send(c)
    BY <1>7 DEF FirstPoll
  <2>2. /\ state = "fresh" /\ state' = "waiting"
        /\ UNCHANGED <<queue, yielded, outcome>>
    BY <1>7 DEF FirstPoll
  <2>3. /\ last' = last + 1 /\ last + 1 \in Ids
        /\ status'[last + 1] = "open" /\ cmd'[last + 1] = c
    BY <1>2, <2>1 DEF Send, Begin
  <2>4. queue = <<>>
    BY <2>2 DEF StreamInv, StreamTypeOK
  <2>5. StreamTypeOK'
    BY <1>1, <2>2, <2>3, <2>4 DEF StreamInv, StreamTypeOK, States, Inv
  <2>6. \A q \in Ids : YieldsTags(q)'
    BY <1>1, <2>2, YieldsStay
  <2> QED
    BY <1>1, <2>2, <2>3, <2>5, <2>6 DEF StreamInv
<1>8. CASE FirstPollFails
  <2>1. PICK c \in Fast : SendFails(c)
    BY <1>8 DEF FirstPollFails
  <2> DEFINE o == IF Async THEN "error" ELSE "end"
  <2>2. /\ state = "fresh" /\ state' = "finished" /\ queue' = <<>>
        /\ yielded' = yielded
        /\ outcome' = [outcome EXCEPT ![last + 1] = o]
    BY <1>8 DEF FirstPollFails, Finish
  <2>3. /\ Idle /\ last + 1 \in Ids
        /\ status' = [status EXCEPT ![last + 1] = "failed"]
    BY <1>2, <2>1 DEF SendFails, Begin
  <2>4. Idle' /\ status'[last + 1] = "failed"
    BY <1>2, <2>3 DEF Idle
  <2>5. o \in Outcomes
    BY DEF Outcomes
  <2> HIDE DEF o
  <2> QED
    BY <1>1, <2>2, <2>3, <2>4, <2>5, FinishStep
<1>9. CASE StreamAccepts
  <2>1. PICK n \in 0..Len(line) :
            /\ Accept(n)
            /\ Deliver(last, Tags(Content(Read(n), cmd[last])))
    BY <1>9 DEF StreamAccepts
  <2>2. /\ state = "waiting" /\ last' = last /\ last \in Ids
        /\ cmd' = cmd /\ cmd[last] \in Fast
        /\ status[last] = "open" /\ status'[last] = "replied"
        /\ took'[last] = Content(Read(n), cmd[last])
    BY <1>2, <1>9, <2>1 DEF StreamAccepts, StreamInv, Accept, Waiting
  <2> DEFINE ts == Tags(took'[last])
  <2>3. ts \in Seq(Atom) /\ Len(ts) \in Nat
    BY <1>1, <2>2, TagsForm DEF Inv, TypeOK
  <2>4. yielded[last] = <<>> /\ outcome[last] = "none"
    BY <2>2 DEF StreamInv, YieldsTags
  <2>5. Deliver(last, ts)
    BY <2>1, <2>2
  <2> HIDE DEF ts
  <2>6. Splits(ts, yielded[last], ts)
    <3>1. Len(<<>>) = 0 /\ \A k \in 1..Len(ts) : 0 + k = k
      OBVIOUS
    <3> QED
      BY <2>3, <2>4, <3>1 DEF Splits
  <2> QED
    BY <1>1, <2>2, <2>3, <2>4, <2>5, <2>6, DeliverStep DEF ts
<1>10. ASSUME Abandon, state = "waiting", last \in Ids
       PROVE  status'[last] = "failed" /\ last' = last /\ Idle'
  <2>1. last' = last /\ status'[last] = "failed"
    BY <1>2, <1>10 DEF Abandon
  <2>2. /\ last' \in Nat
        /\ \A q \in Ids : status'[q] = "unused" <=> q > last'
        /\ \A q \in Ids : q < last' => status'[q] \in {"replied", "failed"}
    BY <1>1, BoundsAssumption DEF Inv, TypeOK
  <2> QED
    BY <2>1, <2>2, LastOver DEF Idle
<1>11. CASE StreamTimesOut \/ StreamReadFails
  <2>1. PICK o \in {"end", "error"} : Finish(last, o)
    BY <1>11 DEF StreamTimesOut, StreamReadFails
  <2>2. Abandon /\ state = "waiting"
    BY <1>11 DEF StreamTimesOut, StreamReadFails, TimeOut, ReadFails
  <2>3. last \in Ids /\ status'[last] = "failed" /\ Idle'
    BY <1>10, <2>2 DEF Abandon, Waiting
  <2>4. /\ state' = "finished" /\ queue' = <<>> /\ yielded' = yielded
        /\ outcome' = [outcome EXCEPT ![last] = o] /\ o \in Outcomes
    BY <2>1 DEF Finish, Outcomes
  <2> QED
    BY <1>1, <2>3, <2>4, FinishStep
<1>12. CASE Poll
  <2>1. /\ state = "yielding" /\ Deliver(last, queue)
        /\ UNCHANGED <<last, cmd, status, took>>
    BY <1>12 DEF Poll, vars
  <2>2. /\ last \in Ids /\ cmd[last] \in Fast /\ status[last] = "replied"
        /\ Splits(Tags(took[last]), yielded[last], queue)
        /\ YieldsTags(last)
        /\ queue \in Seq(Atom) /\ yielded[last] \in Seq(Atom)
    BY <2>1 DEF StreamInv, StreamTypeOK
  <2>3. outcome[last] = "end" => queue = <<>>
    <3>1. outcome[last] = "end" => Len(queue) = 0
      BY <2>2, LenProperties DEF YieldsTags, Splits
    <3> QED
      BY <2>2, <3>1, EmptySeq
  <2> QED
    BY <1>1, <2>1, <2>2, <2>3, DeliverStep
<1>13. CASE Drop
  <2>1. /\ state' = "none" /\ queue' = <<>> /\ yielded' = yielded
        /\ UNCHANGED <<last, status>>
        /\ outcome' = IF state = "yielding"
                      THEN [outcome EXCEPT ![last] = "dropped"] ELSE outcome
    BY <1>13 DEF Drop, vars
  <2>2. CASE state = "yielding"
    <3>1. last \in Ids /\ status'[last] = "replied" /\ "dropped" \in Outcomes
      BY <2>1, <2>2 DEF StreamInv, Outcomes
    <3> QED
      BY <1>1, <2>1, <2>2, <3>1, FinishStep
  <2>3. CASE state # "yielding"
    <3>1. StreamTypeOK'
      BY <1>1, <2>1, <2>3, EmptySeq DEF StreamInv, StreamTypeOK, States, Inv
    <3>2. \A q \in Ids : YieldsTags(q)'
      BY <1>1, <2>1, <2>3, YieldsStay
    <3> QED
      BY <1>1, <2>1, <3>1, <3>2 DEF StreamInv
  <2> QED
    BY <2>2, <2>3
<1>14. CASE DropWhileWaiting
  <2>1. /\ state = "waiting" /\ state' = "none" /\ Abandon
        /\ outcome' = [outcome EXCEPT ![last] = "dropped"]
        /\ queue' = queue /\ yielded' = yielded
    BY <1>14 DEF DropWhileWaiting
  <2>2. last \in Ids /\ status'[last] = "failed" /\ "dropped" \in Outcomes
    BY <1>10, <2>1 DEF Abandon, Waiting, Outcomes
  <2>3. queue' = <<>>
    BY <2>1 DEF StreamInv, StreamTypeOK
  <2> QED
    BY <1>1, <2>1, <2>2, <2>3, FinishStep
<1>15. CASE UNCHANGED allVars
  <2>1. UNCHANGED <<last, cmd, status, took>> /\ UNCHANGED streamVars
    BY <1>15 DEF allVars, vars
  <2> QED
    BY <1>1, <2>1, StreamUntouched DEF StreamInv, StreamTypeOK
<1> QED
  BY <1>3, <1>4, <1>5, <1>6, <1>7, <1>8, <1>9, <1>11, <1>12, <1>13, <1>14,
     <1>15 DEF StreamNext

LEMMA StreamAlways == StreamSpec => [](StreamInv /\ TookInOrder /\ TookToTotal)
<1>1. StreamSpec => []StreamInv
  BY StreamInitial, StreamInvStep, PTL DEF StreamSpec
<1> QED
  BY <1>1, StreamsAreCalls, ExchangeTookInOrder, PTL

-----------------------------------------------------------------------------
(* The queue, the state and the status of the call of a stream agree: tags *)
(* wait only in a stream that is yielding, a stream waits only for a call  *)
(* that has no answer, and holds no call open otherwise.                   *)
THEOREM StreamsTypeCorrect == StreamSpec => []StreamTypeOK
<1>1. StreamInv => StreamTypeOK
  BY DEF StreamInv
<1> QED
  BY <1>1, StreamAlways, PTL

(* A tag that a stream has yielded is a frame of the answer to its call.   *)
LEMMA YieldedTook ==
    ASSUME StreamInv, NEW q \in Ids, NEW i \in DOMAIN yielded[q]
    PROVE  /\ status[q] = "replied"
           /\ i \in 1..Len(Tags(took[q])) /\ yielded[q][i] = Tags(took[q])[i]
           /\ \E k \in 1..Len(took[q]) : yielded[q][i] = took[q][k]
<1>1. /\ yielded[q] \in Seq(Atom) /\ took[q] \in Seq(Atom)
      /\ YieldsTags(q)
  BY DEF StreamInv, StreamTypeOK, TypeOK
<1>2. /\ DOMAIN yielded[q] = 1..Len(yielded[q]) /\ Len(yielded[q]) \in Nat
      /\ Len(Tags(took[q])) \in Nat
  BY <1>1, LenProperties, TagsForm
<1>3. yielded[q] # <<>>
  BY <1>1, <1>2, EmptySeq
<1>4. /\ i \in 1..Len(Tags(took[q])) /\ yielded[q][i] = Tags(took[q])[i]
      /\ status[q] = "replied"
  BY <1>1, <1>2, <1>3 DEF YieldsTags, Begins
<1>5. \E k \in 1..Len(took[q]) : Tags(took[q])[i] = took[q][k]
  BY <1>1, <1>4, TagsForm
<1> QED
  BY <1>4, <1>5

(* No tag comes out twice, of one stream or of two, however answers were   *)
(* delayed, merged, abandoned or dropped half way.                         *)
THEOREM StreamsYieldTagsOnce == StreamSpec => []TagsYieldedOnce
<1> DEFINE Same(f, g) == f.id = g.id /\ f.n = g.n
<1>1. ASSUME StreamInv, TookInOrder, FramesReportedOnce
      PROVE  TagsYieldedOnce
  <2>1. ASSUME NEW p \in Ids, NEW q \in Ids, p < q,
               NEW i \in DOMAIN yielded[p], NEW j \in DOMAIN yielded[q]
        PROVE  yielded[p][i].id < yielded[q][j].id
    <3>1. PICK k \in 1..Len(took[p]) : yielded[p][i] = took[p][k]
      BY <1>1, YieldedTook
    <3>2. PICK l \in 1..Len(took[q]) : yielded[q][j] = took[q][l]
      BY <1>1, YieldedTook
    <3>3. status[p] = "replied" /\ status[q] = "replied"
      BY <1>1, YieldedTook
    <3>4. Upto(p) < From(q)
      BY <1>1, <2>1, <3>3 DEF FramesReportedOnce
    <3>5. /\ took[p][k].id <= Upto(p) /\ From(q) <= took[q][l].id
          /\ took[p][k].id \in Ids /\ took[q][l].id \in Ids
          /\ Upto(p) \in Ids /\ From(q) \in Ids
      BY <1>1, TookBetween DEF StreamInv
    <3>6. took[p][k].id < took[q][l].id
      <4> DEFINE a == took[p][k].id
                 b == took[q][l].id
                 u == Upto(p)
                 f == From(q)
      <4>1. a \in Ids /\ b \in Ids /\ u \in Ids /\ f \in Ids
        BY <3>5
      <4>2. a <= u /\ u < f /\ f <= b
        BY <3>4, <3>5
      <4> HIDE DEF a, b, u, f
      <4>3. a < b
        BY <4>1, <4>2, BoundsAssumption DEF Ids
      <4> QED
        BY <4>3 DEF a, b
    <3> QED
      BY <3>1, <3>2, <3>6
  <2>2. ASSUME NEW q \in Ids, NEW i \in DOMAIN yielded[q],
               NEW j \in DOMAIN yielded[q], i < j
        PROVE  ~ Same(yielded[q][i], yielded[q][j])
    <3> DEFINE f == yielded[q][i]
               g == yielded[q][j]
    <3>1. /\ i \in 1..Len(Tags(took[q])) /\ f = Tags(took[q])[i]
          /\ j \in 1..Len(Tags(took[q])) /\ g = Tags(took[q])[j]
      BY <1>1, YieldedTook
    <3>2. took[q] \in Seq(Atom) /\ Ordered(took[q])
      BY <1>1 DEF StreamInv, Inv, TypeOK, TookInOrder
    <3>3. Precedes(g, f)
      BY <2>2, <3>1, <3>2, TagsDiffer
    <3>4. yielded[q] \in Seq(Atom)
      BY <1>1 DEF StreamInv, StreamTypeOK
    <3>5. f \in Atom /\ g \in Atom
      BY <3>4
    <3> HIDE DEF f, g
    <3>6. f.id \in Ids /\ g.id \in Ids /\ f.n \in Nat /\ g.n \in Nat
      <4>1. /\ f.id \in Ids /\ g.id \in Ids
            /\ f.n \in 1..(MaxTags + 1) /\ g.n \in 1..(MaxTags + 1)
        BY <3>5, Zenon DEF Atom
      <4> QED
        BY <4>1, BoundsAssumption
    <3>7. ~ Same(f, g)
      BY <3>3, <3>6, BoundsAssumption DEF Precedes, Ids
    <3> QED
      BY <3>7 DEF f, g
  <2> SUFFICES ASSUME NEW p \in Ids, NEW q \in Ids,
                      NEW i \in DOMAIN yielded[p],
                      NEW j \in DOMAIN yielded[q], p # q \/ i # j
               PROVE  ~ Same(yielded[p][i], yielded[q][j])
    BY DEF TagsYieldedOnce
  <2>3. CASE p # q
    <3>1. p < q \/ q < p
      BY <2>3, BoundsAssumption DEF Ids
    <3>2. yielded[p][i].id < yielded[q][j].id
              \/ yielded[q][j].id < yielded[p][i].id
      BY <2>1, <3>1
    <3>3. \A r \in Ids : \A k \in DOMAIN yielded[r] : yielded[r][k].id \in Nat
      <4> SUFFICES ASSUME NEW r \in Ids, NEW k \in DOMAIN yielded[r]
                   PROVE  yielded[r][k].id \in Nat
        OBVIOUS
      <4>1. PICK l \in 1..Len(took[r]) : yielded[r][k] = took[r][l]
        BY <1>1, YieldedTook
      <4>2. took[r][l].id \in Ids
        BY <1>1, TookBetween DEF StreamInv
      <4> QED
        BY <4>1, <4>2, BoundsAssumption DEF Ids
    <3> QED
      BY <3>2, <3>3
  <2>4. CASE p = q /\ i # j
    <3>1. i \in Nat /\ j \in Nat
      <4>1. yielded[q] \in Seq(Atom)
        BY <1>1 DEF StreamInv, StreamTypeOK
      <4>2. \A k \in DOMAIN yielded[q] : k \in Nat
        BY <4>1, LenProperties
      <4> QED
        BY <2>4, <4>2
    <3>2. i < j \/ j < i
      BY <2>4, <3>1
    <3> QED
      BY <2>2, <2>4, <3>2
  <2> QED
    BY <2>3, <2>4
<1> QED
  BY <1>1, StreamAlways, StreamsKeepTheExchange, PTL

(* A stream that ends by itself after an answer has yielded every tag of   *)
(* it, the last one first, and no other, unless a call before it failed.   *)
THEOREM EndedStreamsAreComplete == StreamSpec => []EndedStreamIsComplete
<1>1. ASSUME StreamInv, TookInOrder, TookToTotal, InventoryComplete
      PROVE  EndedStreamIsComplete
  <2> SUFFICES ASSUME NEW q \in Ids,
                      outcome[q] = "end", status[q] = "replied",
                      \A p \in 1..(q - 1) : status[p] = "replied"
               PROVE  /\ Len(yielded[q]) + 1 = answered[q]
                      /\ \A k \in DOMAIN yielded[q] :
                            /\ yielded[q][k].id = q
                            /\ yielded[q][k].n = answered[q] - k
    BY DEF EndedStreamIsComplete
  <2> DEFINE w == took[q]
  <2>1. /\ cmd[q] \in Inventory /\ Len(yielded[q]) = Len(Tags(w))
        /\ yielded[q] \in Seq(Atom)
    BY <1>1 DEF StreamInv, YieldsTags, StreamTypeOK, Inventory
  <2>2. /\ Len(w) = answered[q]
        /\ \A k \in DOMAIN w : w[k].id = q /\ w[k].n = k
    BY <1>1, <2>1 DEF InventoryComplete
  <2>3. w \in Seq(Atom) /\ Ordered(w) /\ ToTotal(w)
    BY <1>1, <2>1 DEF StreamInv, Inv, TypeOK, TookInOrder, TookToTotal
  <2>4. \A k \in DOMAIN yielded[q] :
            k \in 1..Len(Tags(w)) /\ yielded[q][k] = Tags(w)[k]
    BY <1>1, YieldedTook
  <2> HIDE DEF w
  <2>5. /\ Len(Tags(w)) + 1 = Len(w)
        /\ \A k \in 1..Len(Tags(w)) : /\ Tags(w)[k].id = q
                                      /\ Tags(w)[k].n = Len(w) - k
    BY <2>2, <2>3, TagsOfWhole
  <2> QED
    BY <2>1, <2>2, <2>4, <2>5
<1> QED
  BY <1>1, StreamAlways, StreamsKeepTheExchange, PTL

-----------------------------------------------------------------------------
(* The iterator whose command gets no answer ends with an error (the async *)
(* stream takes a timeout for the end of the tags).                        *)
THEOREM IteratorReportsReadFailures ==
    ASSUME ~Async
    PROVE  StreamSpec => ReadFailureIsReported
<1>1. ASSUME StreamInv, [StreamNext]_allVars,
             state = "waiting", state' = "finished", status'[last] = "failed"
      PROVE  outcome'[last] = "error"
  <2>1. StreamAccepts \/ StreamTimesOut \/ StreamReadFails
    BY <1>1 DEF StreamNext, allVars, streamVars, DirectCall, DirectReceive,
       DirectTimesOut, DirectReadFails, Reader, Open, FirstPoll,
       FirstPollFails, StreamReads, Poll, Drop, DropWhileWaiting
  <2>2. /\ TypeOK /\ status \in [Ids -> Statuses]
        /\ outcome \in [Ids -> Outcomes]
    BY <1>1 DEF StreamInv, StreamTypeOK, TypeOK
  <2>3. last \in Ids
    BY <2>1, <2>2 DEF StreamAccepts, StreamTimesOut, StreamReadFails,
       Accept, TimeOut, ReadFails, Abandon, Waiting, TypeOK, Ids
  <2>4. ~StreamAccepts
    <3>1. StreamAccepts => status'[last] = "replied"
      BY <2>2, <2>3 DEF StreamAccepts, Accept
    <3> QED
      BY <1>1, <3>1
  <2>5. outcome' = [outcome EXCEPT ![last] = "error"]
    BY <2>1, <2>4 DEF StreamTimesOut, StreamReadFails, Finish
  <2> QED
    BY <2>2, <2>3, <2>5
<1>2. StreamInv /\ [StreamNext]_allVars
          => [state = "waiting" /\ state' = "finished"
                  /\ status'[last] = "failed"
                 => outcome'[last] = "error"]_allVars
  BY <1>1
<1> QED
  BY <1>2, StreamAlways, PTL DEF StreamSpec, ReadFailureIsReported
=============================================================================
