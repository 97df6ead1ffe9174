----------------------------- MODULE FrameCodec -----------------------------
(***************************************************************************)
(* The bytes of requests and answers: how Frame and Command encode a       *)
(* request, and what Command::from_bytes makes of what has been read.      *)
(*                                                                         *)
(* A request is a record: `op`, the name of the command, and its fields;   *)
(* for commands that send their bytes as they are, the bytes, `args`.      *)
(* Parsing has an OUTCOME: not parsed (read on), a panic, a value (a tuple *)
(* per command), or an error of the reader.                                *)
(***************************************************************************)
EXTENDS Frequencies, Selection, SequencesExt

HEADER == 160       \* FRAME_HEADER
ADDRESS == 1        \* RS485_ADDRESS

Code ==
    [Reset |-> 112, GetFirmwareVersion |-> 114, SetWorkAntenna |-> 116,
     GetWorkAntenna |-> 117, SetOutputPower |-> 118, GetOutputPower |-> 119,
     SetDefaultFrequencyRegion |-> 120, GetFrequencyRegion |-> 121,
     SetBeeperMode |-> 122, GetReaderTemperature |-> 123,
     GetRfPortReturnLoss |-> 126, SetAntConnectionDetector |-> 98,
     GetAntConnectionDetector |-> 99, SetRfLinkProfile |-> 105,
     GetRfLinkProfile |-> 106, FastSwitchAntInventory |-> 138,
     CustomizeSessionTargetInventory |-> 139]

Setters == {"Reset", "SetWorkAntenna", "SetOutputPower", "SetRfLinkProfile",
            "SetDefaultFrequencyRegion", "SetAntConnectionDetector"}
Inventories == {"FastSwitchAntInventory", "CustomizeSessionTargetInventory"}

SpectrumByte == [FCC |-> 1, ETSI |-> 2, CHN |-> 3, CUSTOM |-> 4]

Byte == 0..255
Session == 0..3
Target == 0..1
PhaseStatus == 0..1
BeeperMode == 0..2
RfLinkProfile == 208..211

(* The requests there are, with what their fields range over.              *)
Plain ==
    [op: {"Reset", "GetFirmwareVersion", "GetWorkAntenna", "GetOutputPower",
          "GetFrequencyRegion", "GetReaderTemperature", "GetRfLinkProfile",
          "GetAntConnectionDetector"},
     args: {<<>>}]
    \cup [op: {"SetWorkAntenna", "SetAntConnectionDetector"},
          args: [1..1 -> Byte]]
    \cup [op: {"SetBeeperMode"}, args: [1..1 -> BeeperMode]]
    \cup [op: {"SetRfLinkProfile"}, args: [1..1 -> RfLinkProfile]]
    \cup [op: {"SetOutputPower"}, args: Seq(Byte)]

RegionRequests ==
    [op: {"SetDefaultFrequencyRegion"}, spectrum: Spectrums,
     low: Nat, high: Nat]
LossRequests == [op: {"GetRfPortReturnLoss"}, frequency: Nat]
SingleRequests ==
    [op: {"CustomizeSessionTargetInventory"}, session: Session,
     target: Target, phase: PhaseStatus, repeat: Byte]
FastRequests ==
    [op: {"FastSwitchAntInventory"}, antennas: Seq(Byte \X Byte),
     interval: Byte, session: Session, target: Target,
     phase: PhaseStatus, repeat: Byte]

Command ==
    Plain \cup RegionRequests \cup LossRequests \cup SingleRequests
        \cup FastRequests

-----------------------------------------------------------------------------
(* Requests.                                                               *)

ByteSum(s) ==
    LET sum[i \in 0..Len(s)] == IF i = 0 THEN 0 ELSE sum[i - 1] + s[i]
    IN sum[Len(s)] % 256

(* calculate_checksum: the byte that makes the sum of a frame 0.           *)
Checksum(s) == (256 - ByteSum(s)) % 256

Zeros(n) == [i \in 1..n |-> 0]

(* Mutant: the slots left over are antenna 0, for no round.                *)
SlotsOfZero(antennas) ==
    FlattenSeq(antennas) \o Zeros(16 - 2 * Len(antennas))

(* The antennas of a fast switching inventory fill eight slots; an antenna *)
(* above 7 is ignored by the reader.                                       *)
Slots(antennas) ==
    LET slot(k) == IF k <= Len(antennas) THEN antennas[k] ELSE <<8, 0>>
    IN [i \in 1..16 |-> slot((i + 1) \div 2)[2 - (i % 2)]]

(* Where to_bytes does not panic.                                          *)
Encodable(c) ==
    CASE c.op = "SetDefaultFrequencyRegion" -> {c.low, c.high} \subseteq Table
      [] c.op = "GetRfPortReturnLoss" -> c.frequency \in Table
      [] c.op = "FastSwitchAntInventory" -> Len(c.antennas) <= 8
      [] OTHER -> TRUE

Args(c) ==
    CASE c.op = "SetDefaultFrequencyRegion" ->
            <<SpectrumByte[c.spectrum], GetParam(c.low), GetParam(c.high)>>
      [] c.op = "GetRfPortReturnLoss" -> <<GetParam(c.frequency)>>
      [] c.op = "CustomizeSessionTargetInventory" ->
            <<c.session, c.target, 0, c.phase, c.repeat>>
      [] c.op = "FastSwitchAntInventory" ->
            Slots(c.antennas) \o <<c.interval>> \o Zeros(5)
                \o <<c.session, c.target>> \o Zeros(3) \o <<c.phase, c.repeat>>
      [] OTHER -> c.args

Framed(payload) ==
    LET v == <<HEADER, (Len(payload) + 2) % 256, ADDRESS>> \o payload
    IN Append(v, Checksum(v))

Encode(c) == Framed(<<Code[c.op]>> \o Args(c))

-----------------------------------------------------------------------------
(* Outcomes.                                                               *)
Unparsed == [is |-> "unparsed", value |-> <<>>]
Panics == [is |-> "panic", value |-> <<>>]
Value(v) == [is |-> "value", value |-> v]
Error(e) == [is |-> "error", value |-> <<e>>]

Success == 16
ErrorCodes ==
    {17, 60, 238} \cup (32..37) \cup (49..56) \cup (64..87)

(* ErrorCode::from_hex, and what parse_response! makes of it: any byte     *)
(* that is neither the success nor an error code is unreachable!.          *)
Status(b, v) ==
    CASE b = Success -> v
      [] b \in ErrorCodes -> Error(b)
      [] OTHER -> Panics

(* The form of parse_response! for commands that answer with a value: only *)
(* a single byte is taken for a status.                                    *)
StatusOrValue(data, v) == IF Len(data) = 1 THEN Status(data[1], v) ELSE v

(* Indexing the data panics when it is too short.                          *)
AtLeast(n, data, v) == IF Len(data) < n THEN Panics ELSE v

-----------------------------------------------------------------------------
(* Frames.                                                                 *)

(* try_split_in_base_frame_parts; its parts are below.                     *)
Complete(raw) == Len(raw) >= 2 /\ raw[2] >= 3 /\ Len(raw) >= raw[2] + 2
Data(raw) == SubSeq(raw, 5, raw[2] + 1)
ChecksumByte(raw) == raw[raw[2] + 2]

(* The sum is that of all that was read but its last byte.                 *)
Checks(raw) == ChecksumByte(raw) = Checksum(Front(raw))

(* split_packets: where the complete frames of a buffer begin; bytes that  *)
(* are no header are skipped, an incomplete frame ends it.                 *)
PacketStarts(b) ==
    LET from[i \in 1..(Len(b) + 1)] ==
            IF i > Len(b) THEN <<>>
            ELSE IF b[i] # HEADER THEN from[i + 1]
            ELSE IF i = Len(b) \/ i + b[i + 1] + 1 > Len(b) THEN <<>>
            ELSE <<i>> \o from[i + b[i + 1] + 2]
    IN from[1]

Packets(b) ==
    LET starts == PacketStarts(b)
    IN [k \in DOMAIN starts |->
            SubSeq(b, starts[k], starts[k] + b[starts[k] + 1] + 1)]

-----------------------------------------------------------------------------
(* Tags.                                                                   *)

PhaseOn(c) == c.op = "FastSwitchAntInventory" /\ c.phase = 1
(* Mutant: a tag is taken to end in a phase, whatever was asked for.       *)
AfterEpcWithPhase(c) == 3
AfterEpc(c) == IF PhaseOn(c) THEN 3 ELSE 1     \* rssi, and two of phase

IsTag(data, c) ==
    Len(data) >= 3 + AfterEpc(c) /\ data[1] \div 4 \in Params

(* Tag::from_raw and from_raw_with_phase.                                  *)
TagOf(data, c) ==
    LET end == Len(data) - AfterEpc(c)
        rssi == data[end + 1]
    IN [frequency |-> GetFrequency(data[1] \div 4), antenna |-> data[1] % 4,
        pc |-> SubSeq(data, 2, 3), epc |-> SubSeq(data, 4, end),
        rssi |-> rssi % 128,
        choosing |-> IF rssi = 0 THEN <<>> ELSE <<rssi \div 128>>,
        phase |-> IF PhaseOn(c) THEN SubSeq(data, end + 2, end + 3)
                  ELSE <<0, 0>>]

(* u32::from_be_bytes.                                                     *)
BigEndian(a, b, c, d) == 256 * (256 * (256 * a + b) + c) + d

(* The closing frame: antenna, tags read, and tags per second or the time  *)
(* per tag.                                                                *)
TotalOf(data, c) ==
    IF c.op = "CustomizeSessionTargetInventory"
    THEN <<data[1], BigEndian(data[4], data[5], data[6], data[7]),
           BigEndian(0, 0, data[2], data[3])>>
    ELSE LET read == BigEndian(0, data[1], data[2], data[3])
             duration == BigEndian(data[4], data[5], data[6], data[7])
         IN <<0, read, IF read > 0 THEN duration \div read ELSE 0>>

(* What a frame of an inventory is parsed to: the total, a tag, an antenna *)
(* error, or nothing that can be read.                                     *)
FrameOutcome(frame, c) ==
    LET data == Data(frame)
    IN IF ~Complete(frame) \/ ~Checks(frame) THEN Unparsed
       ELSE IF frame[2] = 10 THEN Value(TotalOf(data, c))
       ELSE IF frame[2] = 5 /\ c.op = "FastSwitchAntInventory"
       THEN IF data[2] \in ErrorCodes \cup {Success} THEN Unparsed ELSE Panics
       ELSE IF IsTag(data, c) THEN Value(TagOf(data, c)) ELSE Panics

(* Mutant: tags are taken before the total has been met.                   *)
NeverTooSoon(frame) == FALSE
(* The first frame, from the end, must be the total.                       *)
TooSoon(frame) == frame[2] # 10

(* parse_tag_response: the loop goes from the last frame to the first and  *)
(* stops at one that is not parsed.  Each total replaces the one before.   *)
ParseTags(raw, c) ==
    LET packets == Packets(raw)
        read == [k \in DOMAIN packets |-> FrameOutcome(packets[k], c)]
        stops == {k \in DOMAIN packets : read[k].is # "value"}
        totals == {k \in DOMAIN packets : packets[k][2] = 10}
        tags == SelectedBack(read, DOMAIN packets \ totals)
    IN IF packets # <<>> /\ TooSoon(Last(packets)) THEN Unparsed
       ELSE IF stops # {} THEN read[Max(stops)]
       ELSE IF totals = {} THEN Panics
       ELSE Value(<<read[Min(totals)].value,
                    [k \in DOMAIN tags |-> tags[k].value]>>)

-----------------------------------------------------------------------------
(* What a one-frame answer says, command by command.                       *)

RegionOf(length, data) ==
    CASE data[1] \in 1..3 /\ length = 6 ->
            IF {data[2], data[3]} \subseteq Params
            THEN Value(<<data[1], GetFrequency(data[2]),
                         GetFrequency(data[3])>>)
            ELSE Panics
      [] data[1] = 4 /\ length = 9 -> Value(<<4, 0, 0>>)
      [] OTHER -> Unparsed

(* A return loss of 0 dB is no antenna; the VSWR is a function of it.      *)
ReturnLoss(b) == IF b = 0 THEN Error(0) ELSE Value(<<b>>)
Profile(b) == IF b \in RfLinkProfile THEN Value(<<b>>) ELSE Error(b)

Decode(c, length, data) ==
    CASE c.op \in Setters -> AtLeast(1, data, Status(data[1], Value(<<>>)))
      [] c.op = "SetBeeperMode" -> StatusOrValue(data, Value(c.args))
      [] c.op = "GetOutputPower" -> Value(data)
      [] c.op = "GetFirmwareVersion" ->
            AtLeast(2, data, Value(SubSeq(data, 1, 2)))
      [] c.op = "GetAntConnectionDetector" ->
            AtLeast(1, data, Value(<<data[1]>>))
      [] c.op = "GetWorkAntenna" ->
            AtLeast(1, data,
                    IF data[1] < 255 THEN Value(<<data[1] + 1>>) ELSE Panics)
      [] c.op = "GetReaderTemperature" ->
            StatusOrValue(data, AtLeast(2, data,
                Value(<<IF data[1] = 0 THEN -data[2] ELSE data[2]>>)))
      [] c.op = "GetRfLinkProfile" ->
            AtLeast(1, data, IF data[1] \in RfLinkProfile THEN Profile(data[1])
                             ELSE StatusOrValue(data, Profile(data[1])))
      [] c.op = "GetRfPortReturnLoss" ->
            AtLeast(1, data, IF data[1] \in 0..30 THEN ReturnLoss(data[1])
                             ELSE StatusOrValue(data, ReturnLoss(data[1])))
     [] c.op = "GetFrequencyRegion" ->
            AtLeast(1, data, RegionOf(length, data))

(* Command::from_bytes with try_parsing_results: the error of an inventory *)
(* is read on after, that of another command is its answer.                *)
Outcome(raw, c) ==
    IF Len(raw) < 4 \/ ~Complete(raw) \/ raw[4] # Code[c.op] THEN Unparsed
    ELSE IF c.op \in Inventories
    THEN LET read == StatusOrValue(Data(raw), ParseTags(raw, c))
         IN IF read.is = "error" THEN Unparsed ELSE read
    ELSE IF Checks(raw) THEN Decode(c, raw[2], Data(raw)) ELSE Unparsed
=============================================================================
