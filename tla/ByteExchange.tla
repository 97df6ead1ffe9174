---------------------------- MODULE ByteExchange ----------------------------
(***************************************************************************)
(* The exchange of Exchange.tla, with the bytes of the frames: requests    *)
(* are encoded, answers are read byte by byte or in pieces, and what has   *)
(* been read is parsed by Command::from_bytes, as FrameCodec.tla has it.   *)
(*                                                                         *)
(* Each byte on the link knows its place: the call answered, the frame and *)
(* the byte of it.  Parsing does not see that.  With it the bytes are      *)
(* shown to refine Exchange: wherever reads cut the frames, the code       *)
(* accepts what Exchange says it accepts.                                  *)
(***************************************************************************)
EXTENDS FrameCodec

CONSTANTS
    Requests,   \* the requests made
    ReadSizes,  \* sizes of a read, less than all there is
    Tags,       \* tags in the field
    MaxTags,    \* bound on the frames before the total of an inventory
    MaxCalls    \* bound on the number of calls

(* What the length byte of a frame can count: a list of powers has no      *)
(* other bound (a reader has one per antenna).                             *)
FitsFrame(c) == c.op = "SetOutputPower" => Len(c.args) <= 252

ASSUME RequestsAssumption ==
    /\ Requests # {}
    /\ \A c \in Requests : c \in Command /\ Encodable(c) /\ FitsFrame(c)

(* An EPC is of up to 31 words, and a tag that is heard has a strength.    *)
ASSUME TagsAssumption ==
    \A t \in Tags :
        /\ t \in [frequency: Table, antenna: 0..3, pc: [1..2 -> Byte],
                  epc: Seq(Byte), rssi: 1..127, choosing: [1..1 -> 0..1],
                  phase: [1..2 -> Byte]]
        /\ \E words \in 1..31 : Len(t.epc) = 2 * words

ASSUME BoundsAssumption ==
    /\ MaxCalls \in Nat
    /\ MaxTags \in Nat \ {0} /\ MaxTags < 256 * 256 * 256
    /\ ReadSizes \subseteq Nat

Ids == 1..MaxCalls

VARIABLES
    last,       \* number of calls made so far
    sent,       \* id |-> the request
    status,     \* id |-> how far the call went
    outcome,    \* id |-> what the call returned
    buf,        \* the buffer local to read_response
    inbox,      \* requests at the reader: <<id, frame>>
    line,       \* bytes sent by the reader and not yet read
    took,       \* id |-> atoms of the frames its answer was built from
    said,       \* id |-> what the reader answered (history)
    strays      \* calls ended by a buffer that opens inside a frame (history)

vars ==
    <<last, sent, status, outcome, buf, inbox, line, took, said, strays>>

-----------------------------------------------------------------------------
(* The reader (external).  It acts on a request it understands: a frame of *)
(* the right length and sum, with the fields of the command where the      *)
(* protocol has them.                                                      *)

WellFormed(f) ==
    f[1] = HEADER /\ Len(f) = f[2] + 2 /\ f[3] = ADDRESS /\ ByteSum(f) = 0

(* It ignores antennas above 7 in a fast switching request.                *)
Known(antennas) ==
    Selected(antennas, {i \in DOMAIN antennas : antennas[i][1] \in 0..7})
Pairs(slots) == [k \in 1..8 |-> <<slots[2 * k - 1], slots[2 * k]>>]

Understands(f, c) ==
    /\ WellFormed(f)
    /\ f[4] = Code[c.op]
    /\ CASE c.op = "FastSwitchAntInventory" ->
               /\ Len(f) = 34
               /\ Known(Pairs(SubSeq(f, 5, 20))) = Known(c.antennas)
               /\ f[21] = c.interval /\ f[27] = c.session
               /\ f[28] = c.target /\ f[32] = c.phase /\ f[33] = c.repeat
         [] c.op = "CustomizeSessionTargetInventory" ->
               SubSeq(f, 5, Len(f) - 1) =
                   <<c.session, c.target, 0, c.phase, c.repeat>>
         [] c.op = "SetDefaultFrequencyRegion" ->
               /\ f[5] = SpectrumByte[c.spectrum]
               /\ GetFrequency(f[6]) = c.low /\ GetFrequency(f[7]) = c.high
         [] c.op = "GetRfPortReturnLoss" -> GetFrequency(f[5]) = c.frequency
         [] OTHER -> SubSeq(f, 5, Len(f) - 1) = c.args

(* Either inventory has a field that asks for the phase of every tag.      *)
SendsPhase(c) == c.op \in Inventories /\ c.phase = 1

(* A tag as the answer has it.                                             *)
Seen(t, c) == IF SendsPhase(c) THEN t ELSE [t EXCEPT !.phase = <<0, 0>>]

TagData(t, c) ==
    <<4 * GetParam(t.frequency) + t.antenna>> \o t.pc \o t.epc
        \o <<t.rssi + 128 * t.choosing[1]>>
        \o (IF SendsPhase(c) THEN t.phase ELSE <<>>)

(* What it answers: the data of each frame, and what it means by them.     *)
Says(data, v) == [data |-> data, means |-> v]
Fail == Says(<<<<17>>>>, Error(17))

(* A count, and what follows or precedes it in the closing frame: 260 ms,  *)
(* or the antenna and the rate.                                            *)
ThreeBytes(n) == <<(n \div 256) \div 256, (n \div 256) % 256, n % 256>>
Total(n, c) ==
    IF c.op = "FastSwitchAntInventory"
    THEN Says(ThreeBytes(n) \o <<0, 0, 1, 4>>,
              <<0, n, IF n > 0 THEN 260 \div n ELSE 0>>)
    ELSE Says(<<1, 0, 5, 0>> \o ThreeBytes(n), <<1, n, 5>>)

Listing(tags, c) ==
    LET n == Len(tags)
        total == Total(n, c)
    IN Says(Append([i \in 1..n |-> TagData(tags[i], c)], total.data),
            Value(<<total.means, [i \in 1..n |-> Seen(tags[n + 1 - i], c)]>>))

Inventoried(c) ==
    UNION {{Listing(tags, c) : tags \in [1..n -> Tags]} : n \in 0..MaxTags}

(* An antenna that could not be used, among the frames.                    *)
Unusable(c) == Says(<<<<1, 34>>, <<0, 0, 0, 0, 0, 1, 4>>>>, Error(34))

Answers(c) ==
    {Fail} \cup
    CASE c.op \in Setters -> {Says(<<<<Success>>>>, Value(<<>>))}
      [] c.op = "SetBeeperMode" -> {Says(<<<<Success>>>>, Value(c.args))}
      [] c.op = "GetOutputPower" -> {Says(<<<<30>>>>, Value(<<30>>)),
                                     Says(<<<<30, 0, 0, 30>>>>,
                                          Value(<<30, 0, 0, 30>>))}
      [] c.op = "GetFirmwareVersion" -> {Says(<<<<8, 0>>>>, Value(<<8, 0>>))}
      [] c.op = "GetWorkAntenna" -> {Says(<<<<0>>>>, Value(<<1>>))}
      [] c.op = "GetAntConnectionDetector" -> {Says(<<<<0>>>>, Value(<<0>>))}
      [] c.op = "GetReaderTemperature" ->
            {Says(<<<<0, 5>>>>, Value(<<-5>>)),
              Says(<<<<1, 0>>>>, Value(<<0>>))}
      [] c.op = "GetRfLinkProfile" -> {Says(<<<<209>>>>, Value(<<209>>))}
      [] c.op = "GetRfPortReturnLoss" ->
            {Says(<<<<20>>>>, Value(<<20>>)), Says(<<<<0>>>>, Error(0))}
      [] c.op = "GetFrequencyRegion" ->
            {Says(<<<<1, 7, 59>>>>, Value(<<1, 902000, 928000>>)),
             Says(<<<<4, 0, 9, 13, 45, 0>>>>, Value(<<4, 0, 0>>))}
      [] c.op = "CustomizeSessionTargetInventory" -> Inventoried(c)
      [] c.op = "FastSwitchAntInventory" -> Inventoried(c) \cup {Unusable(c)}

-----------------------------------------------------------------------------
(* The bytes of an answer, and the atoms they stand for: the first byte of *)
(* a frame the head, the last one the tail, the others none.               *)
Answered(c, data) == Framed(<<Code[c.op]>> \o data)

FrameBytes(q, k, f) ==
    [i \in DOMAIN f |-> [b |-> f[i], q |-> q, k |-> k, i |-> i]]

AnswerBytes(q, datas) ==
    FlattenSeq([k \in DOMAIN datas |->
                    FrameBytes(q, k, Answered(sent[q], datas[k]))])

ShapeOf(n) ==
    CASE n = 1 -> "status"
      [] n = 2 -> "pair"
      [] n = 3 -> "short"
      [] n \in {4, 5} -> "brief"
      [] n = 7 -> "total"
      [] OTHER -> "block"

AtomOf(e, part) ==
    [id |-> e.q, cmd |-> sent[e.q].op, n |-> e.k,
     shape |-> ShapeOf(Len(said[e.q].data[e.k])),
     last |-> e.k = Len(said[e.q].data), part |-> part]

Marks(e) ==
    IF e.i = 1 THEN <<AtomOf(e, "head")>>
    ELSE IF e.i = Len(said[e.q].data[e.k]) + 5 THEN <<AtomOf(e, "tail")>>
    ELSE <<>>

Bytes(s) == [i \in DOMAIN s |-> s[i].b]
AtomsOf(s) == FlattenSeq([i \in DOMAIN s |-> Marks(s[i])])

-----------------------------------------------------------------------------
Init ==
    /\ last = 0
    /\ sent = [q \in Ids |-> CHOOSE c \in Requests : TRUE]
    /\ status = [q \in Ids |-> "unused"]
    /\ outcome = [q \in Ids |-> Unparsed]
    /\ buf = <<>>
    /\ inbox = <<>>
    /\ line = <<>>
    /\ took = [q \in Ids |-> <<>>]
    /\ said = [q \in Ids |-> Says(<<>>, Unparsed)]
    /\ strays = {}

Idle == \A q \in Ids : status[q] \notin {"open", "panicked"}
Waiting == last \in Ids /\ status[last] = "open"

(* command_to_frame_bytes, then write_all and flush, which may fail with   *)
(* the frame on its way or not.                                            *)
Send(c, s) ==
    /\ Idle
    /\ last < MaxCalls
    /\ last' = last + 1
    /\ sent' = [sent EXCEPT ![last + 1] = c]
    /\ status' = [status EXCEPT ![last + 1] = s]
    /\ \/ inbox' = Append(inbox, <<last + 1, Encode(c)>>)
       \/ s = "failed" /\ inbox' = inbox
    /\ buf' = <<>>
    /\ UNCHANGED <<outcome, line, took, said, strays>>

ReaderAnswers ==
    /\ inbox # <<>>
    /\ LET q == Head(inbox)[1]
       IN /\ Understands(Head(inbox)[2], sent[q])
          /\ \E a \in Answers(sent[q]) :
                /\ line' = line \o AnswerBytes(q, a.data)
                /\ said' = [said EXCEPT ![q] = a]
    /\ inbox' = Tail(inbox)
    /\ UNCHANGED <<last, sent, status, outcome, buf, took, strays>>

ReaderIgnores ==
    /\ inbox # <<>>
    /\ inbox' = Tail(inbox)
    /\ UNCHANGED <<last, sent, status, outcome, buf, line, took, said, strays>>

(* The frames an outcome is built from: all packets, or the first.         *)
TakenFrom(b, c) ==
    LET starts == PacketStarts(Bytes(b))
        frames == IF c.op \in Inventories THEN starts ELSE <<1>>
    IN [k \in DOMAIN frames |-> AtomOf(b[frames[k]], "head")]

(* Mutant: the buffer is made anew for every read.                         *)
ReadAlone(n) == SubSeq(line, 1, n)
(* What has been read of the answer with n bytes more.                     *)
Read(n) == buf \o SubSeq(line, 1, n)

(* One read of the loop of read_response, of n bytes.                      *)
Receive(n) ==
    /\ Waiting
    /\ LET read == Read(n)
           out == Outcome(Bytes(read), sent[last])
           ended == CASE out.is = "unparsed" -> "open"
                      [] out.is = "panic" -> "panicked"
                      [] OTHER -> "replied"
       IN /\ status' = [status EXCEPT ![last] = ended]
          /\ outcome' = [outcome EXCEPT ![last] = out]
          /\ took' = IF ended = "replied"
                     THEN [took EXCEPT ![last] = TakenFrom(read, sent[last])]
                     ELSE took
          /\ buf' = IF out.is = "unparsed" THEN read ELSE <<>>
          /\ strays' = IF out.is # "unparsed" /\ read[1].i # 1
                       THEN strays \cup {last} ELSE strays
    /\ line' = SubSeq(line, n + 1, Len(line))
    /\ UNCHANGED <<last, sent, inbox, said>>

(* The timeout, the end of the stream, an error of the socket, or the      *)
(* future dropped: the buffer goes with the call.                          *)
Abandon ==
    /\ Waiting
    /\ status' = [status EXCEPT ![last] = "failed"]
    /\ buf' = <<>>
    /\ UNCHANGED <<last, sent, outcome, inbox, line, took, said, strays>>

Sizes == {n \in ReadSizes \cup {Len(line)} : 0 < n /\ n <= Len(line)}

Next ==
    \/ \E c \in Requests, s \in {"open", "failed"} : Send(c, s)
    \/ ReaderAnswers
    \/ ReaderIgnores
    \/ \E n \in Sizes : Receive(n)
    \/ Abandon

Spec == Init /\ [][Next]_vars

-----------------------------------------------------------------------------
(* Reading the bytes is what Exchange says it is: a frame that is cut      *)
(* anywhere is neither accepted early nor missed when it is whole, and a   *)
(* buffer that holds other frames is accepted only where Exchange does.    *)
Ops == {c.op : c \in Requests}

Atomic == INSTANCE Exchange WITH
    Simple <- Ops \ (Inventories \cup {"GetFirmwareVersion",
                                       "GetFrequencyRegion"}),
    Firmware <- Ops \cap {"GetFirmwareVersion"},
    Region <- Ops \cap {"GetFrequencyRegion"},
    Single <- Ops \cap {"CustomizeSessionTargetInventory"},
    Fast <- Ops \cap {"FastSwitchAntInventory"},
    Nonblocking <- FALSE,
    cmd <- [q \in Ids |-> IF q <= last THEN sent[q].op
                          ELSE CHOOSE c \in Ops : TRUE],
    inbox <- [i \in DOMAIN inbox |-> inbox[i][1]],
    buf <- AtomsOf(buf),
    line <- AtomsOf(line),
    answered <- [q \in Ids |-> Len(said[q].data)]

(* Every step is one of Exchange, but for a reading that ends a call on a  *)
(* buffer that opens inside a frame.                                       *)
ReadsAtoms ==
    Atomic!Init /\ [][strays' # strays \/ [Atomic!Next]_(Atomic!vars)]_vars

(* from_bytes does not look for the header: the rest of a frame is read as *)
(* a frame when its bytes happen to look like one, an EPC byte as the      *)
(* length, another as the code.  But a rest opens the buffer only after a  *)
(* call that was abandoned.                                                *)
StraysNeedAbandoned ==
    \A q \in strays : \E p \in 1..(q - 1) : status[p] = "failed"

(* The reader understands every request as it was meant: the fields of the *)
(* command, up to eight antennas and the frequencies of the table.         *)
RequestsUnderstood ==
    \A i \in DOMAIN inbox : Understands(inbox[i][2], sent[inbox[i][1]])

(* Commands that take an error code for a value: what they return is not   *)
(* told apart from a refusal.                                              *)
TakesErrorForValue(c) ==
    c.op \in {"GetOutputPower", "GetWorkAntenna", "GetAntConnectionDetector",
              "GetRfPortReturnLoss"}

(* The call q took the whole of the answer to the same request p, and that *)
(* is no refusal that the command takes for a value.                       *)
WholeAnswer(q, p) ==
    /\ \A k \in DOMAIN took[q] : took[q][k].id = p
    /\ Len(took[q]) = Len(said[p].data)
    /\ sent[p] = sent[q]
    /\ ~(TakesErrorForValue(sent[q]) /\ said[p].means.is = "error")

Returns(q, p) ==
    outcome[q].is = said[p].means.is /\ outcome[q].value = said[p].means.value

(* parse_tag_response has no case for the phase of this inventory.         *)
IgnoresPhase(c) == c.op = "CustomizeSessionTargetInventory" /\ SendsPhase(c)

(* A call returns what the reader meant by the answer it took, tags in the *)
(* reverse order, however late the answer was and whatever the reads and   *)
(* the calls abandoned cut it into.                                        *)
AnswersAreRead ==
    \A q, p \in Ids :
        (/\ status[q] = "replied" /\ q \notin strays
         /\ WholeAnswer(q, p) /\ ~IgnoresPhase(sent[q]))
            => Returns(q, p)

-----------------------------------------------------------------------------
(* What the code says of itself, and does not do.                          *)

(* "Phase Value; 00 for turn it off; 01 for turn it on. [SE usiamo il      *)
(* parametro dobbiam parsare in modo diverso il risultato]": an inventory  *)
(* that asks for phases returns the tags, and their phases, as they were   *)
(* sent.                                                                   *)
PhasesAreRead ==
    \A q, p \in Ids :
        (/\ status[q] = "replied" /\ q \notin strays
         /\ WholeAnswer(q, p) /\ SendsPhase(sent[q]))
            => Returns(q, p)
=============================================================================
