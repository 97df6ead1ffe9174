------------------------------ MODULE Exchange ------------------------------
(***************************************************************************)
(* One Connector, its serial or TCP link, and the reader at the far end.   *)
(*                                                                         *)
(* The connector sends one frame per command and then reads the link until *)
(* what it has read parses as the answer, or until it gives up.  Each call *)
(* of read_response starts from an empty buffer and drops it when it ends, *)
(* frames carry no sequence number, and nothing ever drains the link, so   *)
(* what a call left unread is the first thing the next call reads.         *)
(*                                                                         *)
(* Bytes are abstracted to ATOMS: each frame is a head and a tail, which   *)
(* is what it takes for a read, or a timeout, to fall inside a frame.  A   *)
(* frame keeps what the parser can tell apart: its command byte and the    *)
(* class of its length byte.  Two things are assumed of bytes: those of a  *)
(* tail never pass for the start of a frame of the awaited command, and    *)
(* bits are not corrupted.  ByteExchange.tla has the bytes themselves and  *)
(* is checked to refine this module.                                       *)
(***************************************************************************)
EXTENDS Naturals, Sequences

CONSTANTS
    Simple,     \* commands answered by one status or value frame, of which
                \* any is readable (all but the four below)
    Firmware,   \* GetFirmwareVersion: parsing panics on an error status
    Region,     \* GetFrequencyRegion: its error status is not readable
    Single,     \* CustomizeSessionTargetInventory (0x8B)
    Fast,       \* FastSwitchAntInventory (0x8A)
    MaxTags,    \* bound on the frames before the total of an inventory
    MaxCalls,   \* bound on the number of calls
    Nonblocking \* TRUE: an empty read is WouldBlock; FALSE: Ok(0) or TimedOut

Commands == Simple \cup Firmware \cup Region \cup Single \cup Fast
Inventory == Single \cup Fast
Ids == 1..MaxCalls
Statuses == {"unused", "open", "replied", "failed", "panicked"}

ASSUME BoundsAssumption == MaxCalls \in Nat /\ MaxTags \in Nat
ASSUME CommandsAssumption == Commands # {}
ASSUME FirmwareAssumption == Firmware \cap Inventory = {}
ASSUME NonblockingAssumption == Nonblocking \in BOOLEAN

(* Length classes of a reply frame, by its length byte:                    *)
(*   status  0x04, one data byte          pair   0x05, two data bytes      *)
(*   short   0x06, too short for a tag    brief  0x07, 0x08, too short for *)
(*   block   long enough for any tag             a tag with a phase        *)
(*   total   0x0A, the closing frame of an inventory                       *)
Shapes == {"status", "pair", "short", "brief", "block", "total"}

Atom == [id: Ids, cmd: Commands, n: 1..(MaxTags + 1), shape: Shapes,
         last: BOOLEAN, part: {"head", "tail"}]

VARIABLES
    last,       \* number of calls made so far
    cmd,        \* id |-> command sent
    status,     \* id |-> how far the call went
    took,       \* id |-> frames its answer was built from
    buf,        \* the buffer local to read_response
    inbox,      \* commands the reader has received and not answered
    line,       \* atoms sent by the reader and not yet read
    answered    \* id |-> number of frames the reader sent for it (history)

vars == <<last, cmd, status, took, buf, inbox, line, answered>>
caller == <<last, cmd, status, took>>

-----------------------------------------------------------------------------
(* The reader's answers (external).  An inventory sends one block per tag, *)
(* in fast switching also a pair per antenna it could not use, and then    *)
(* the total; or a status when it refuses the command.                     *)
Lists(c) ==
    LET items == IF c \in Fast THEN {"block", "pair"} ELSE {"block"}
    IN UNION {[1..m -> items] : m \in 0..MaxTags}

Replies(c) ==
    IF c \in Inventory
    THEN {<<"status">>} \cup {Append(s, "total") : s \in Lists(c)}
    ELSE {<<"status">>, <<"block">>} \cup
            (IF c \in Region THEN {<<"short">>} ELSE {<<"pair">>, <<"brief">>})

Atoms(q, s) ==
    [i \in 1..(2 * Len(s)) |->
        LET k == (i + 1) \div 2
        IN [id |-> q, cmd |-> cmd[q], n |-> k, shape |-> s[k],
            last |-> k = Len(s),
            part |-> IF i % 2 = 1 THEN "head" ELSE "tail"]]

-----------------------------------------------------------------------------
(* Parsing what has been read so far.                                      *)

(* split_packets and try_split_in_base_frame_parts: the complete frames of *)
(* a buffer that starts at a frame boundary, each given by its head.       *)
Whole(b) ==
    IF b # <<>> /\ b[1].part = "head"
    THEN [k \in 1..(Len(b) \div 2) |-> b[2 * k - 1]]
    ELSE <<>>

(* Mutant: the command byte is not compared.                               *)
MatchesAny(w, c) == w # <<>>
Matches(w, c) == w # <<>> /\ w[1].cmd = c

(* A one-frame answer.  The checksum is computed over the whole buffer.    *)
(* If that is more than the frame, it passes by chance: when it ends in a  *)
(* frame with the same checksum byte, or in one cut after a data byte that *)
(* is what the answer adds, say 0 for an answer of 0.                      *)
ParsesAsSimple(b, c) ==
    /\ Matches(Whole(b), c)
    /\ ~(c \in Region \cup Firmware /\ Whole(b)[1].shape = "status")

(* Mutant: an inventory may end in any frame.                              *)
EndsInAnything(b, c) ==
    /\ Matches(Whole(b), c)
    /\ Whole(b)[1].shape # "status"

(* Mutant: an inventory may begin with the frame of any command.           *)
BeginsWithAnything(b, c) ==
    LET w == Whole(b)
    IN /\ w # <<>>
       /\ w[1].shape # "status"
       /\ w[Len(w)].shape = "total"

(* An inventory: the last complete frame is the total; going back from it, *)
(* every frame, of whatever command, is a total or a tag.                  *)
EndsInTotal(b, c) ==
    LET w == Whole(b)
    IN /\ Matches(w, c)
       /\ w[1].shape # "status"
       /\ w[Len(w)].shape = "total"

NotATag(w) ==
    {i \in DOMAIN w : w[i].shape \notin {"block", "brief", "total"}}

ParsesAsInventory(b, c) == EndsInTotal(b, c) /\ NotATag(Whole(b)) = {}

(* Mutant: a frame of length 0x05 has no case of its own.                  *)
MayPanicOnPair(f, c) == f.shape \notin {"block", "total"}

(* Frames too short for Tag::from_raw, or from_raw_with_phase when phases  *)
(* were asked for, are indexed out of bounds.  A frame of length 0x05 is   *)
(* an antenna error to a fast switching inventory, and then not accepted;  *)
(* that of another command may hold no error code, which panics.           *)
MayPanicOn(f, c) ==
    /\ f.shape \notin {"block", "total"}
    /\ ~(f.shape = "pair" /\ f.cmd = c /\ c \in Fast)

(* So is the one byte of a status where two are the firmware's version.    *)
ParsePanics(b, c) ==
    \/ /\ c \in Inventory
       /\ EndsInTotal(b, c)
       /\ \E i \in DOMAIN Whole(b) :
             /\ \A j \in NotATag(Whole(b)) : j <= i
             /\ MayPanicOn(Whole(b)[i], c)
    \/ /\ c \in Firmware
       /\ Matches(Whole(b), c)
       /\ Whole(b)[1].shape = "status"

Parses(b, c) ==
    IF c \in Inventory THEN ParsesAsInventory(b, c) ELSE ParsesAsSimple(b, c)

(* Going back from the total, the first frame that is no tag is one that a *)
(* fast switching inventory takes for an antenna error.                    *)
EndsInError(w, c) ==
    /\ c \in Fast
    /\ \E i \in NotATag(w) :
          (\A j \in NotATag(w) : j <= i) /\ w[i].shape = "pair"

(* The call ends with the buffer for sure, and not by chance.              *)
Settled(b, c) ==
    IF c \in Inventory
    THEN EndsInTotal(b, c) /\ ~EndsInError(Whole(b), c)
    ELSE (Parses(b, c) \/ ParsePanics(b, c)) /\ Len(b) = 2

(* The frames an accepted buffer is turned into: the first one, or all the *)
(* complete ones of an inventory.  The rest of the buffer is dropped.      *)
Content(b, c) ==
    IF c \in Inventory THEN Whole(b) ELSE <<Whole(b)[1]>>

-----------------------------------------------------------------------------
Init ==
    /\ last = 0
    /\ cmd \in [Ids -> {CHOOSE c \in Commands : TRUE}]
    /\ status = [q \in Ids |-> "unused"]
    /\ took = [q \in Ids |-> <<>>]
    /\ buf = <<>>
    /\ inbox = <<>>
    /\ line = <<>>
    /\ answered = [q \in Ids |-> 0]

Idle == \A q \in Ids : status[q] \notin {"open", "panicked"}
Waiting == last \in Ids /\ status[last] = "open"

(* Mutant: a call may begin while another one waits.                       *)
BeginAnytime(c, s) ==
    /\ last < MaxCalls
    /\ last' = last + 1
    /\ cmd' = [cmd EXCEPT ![last + 1] = c]
    /\ status' = [status EXCEPT ![last + 1] = s]
    /\ buf' = <<>>
    /\ UNCHANGED <<took, line, answered>>

(* A method of Connector borrows it mutably: one call at a time.           *)
Begin(c, s) ==
    /\ Idle
    /\ last < MaxCalls
    /\ last' = last + 1
    /\ cmd' = [cmd EXCEPT ![last + 1] = c]
    /\ status' = [status EXCEPT ![last + 1] = s]
    /\ buf' = <<>>
    /\ UNCHANGED <<took, line, answered>>

(* send_command, then read_command: the frame is written and flushed.      *)
Send(c) ==
    /\ Begin(c, "open")
    /\ inbox' = Append(inbox, last + 1)

(* write_all or flush fails: the reader has the frame or not, the call     *)
(* ends and its answer, if there is one, is read by nobody.                *)
SendFails(c) ==
    /\ Begin(c, "failed")
    /\ \/ inbox' = Append(inbox, last + 1)
       \/ inbox' = inbox

(* The reader answers its oldest command, or never does (external).        *)
ReaderAnswers ==
    /\ inbox # <<>>
    /\ \E s \in Replies(cmd[Head(inbox)]) :
          /\ line' = line \o Atoms(Head(inbox), s)
          /\ answered' = [answered EXCEPT ![Head(inbox)] = Len(s)]
    /\ inbox' = Tail(inbox)
    /\ UNCHANGED <<caller, buf>>

ReaderIgnores ==
    /\ inbox # <<>>
    /\ inbox' = Tail(inbox)
    /\ UNCHANGED <<caller, buf, line, answered>>

(* One read of the loop: the first n atoms of the line join the buffer, or *)
(* no atom does, when all that was read is the inside of a frame.          *)
Read(n) == buf \o SubSeq(line, 1, n)
(* Mutant: what is read stays on the line.                                 *)
Peeked(n) == line
Unread(n) == SubSeq(line, n + 1, Len(line))

Accept(n) ==
    /\ Waiting
    /\ Parses(Read(n), cmd[last])
    /\ took' = [took EXCEPT ![last] = Content(Read(n), cmd[last])]
    /\ status' = [status EXCEPT ![last] = "replied"]
    /\ buf' = <<>>
    /\ line' = Unread(n)
    /\ UNCHANGED <<last, cmd, inbox, answered>>

Panic(n) ==
    /\ Waiting
    /\ ParsePanics(Read(n), cmd[last])
    /\ status' = [status EXCEPT ![last] = "panicked"]
    /\ buf' = <<>>
    /\ line' = Unread(n)
    /\ UNCHANGED <<last, cmd, took, inbox, answered>>

KeepReading(n) ==
    /\ Waiting
    /\ ~Settled(Read(n), cmd[last])
    /\ buf' = Read(n)
    /\ line' = Unread(n)
    /\ UNCHANGED <<caller, inbox, answered>>

Receive == \E n \in 0..Len(line) : Accept(n) \/ Panic(n) \/ KeepReading(n)

(* The call ends without an answer; what it had read is dropped.           *)
Abandon ==
    /\ Waiting
    /\ status' = [status EXCEPT ![last] = "failed"]
    /\ buf' = <<>>
    /\ UNCHANGED <<last, cmd, took, inbox, line, answered>>

(* Mutant: the timer only covers the wait for the first byte.              *)
TimeOutBeforeData == ~Nonblocking /\ buf = <<>> /\ Abandon

(* The reads found nothing for timeout_waiting_packet.  What is on the     *)
(* line has not arrived yet, so this may happen whatever the line holds.   *)
(* A WouldBlock read skips the check of the timer.                         *)
TimeOut == ~Nonblocking /\ Abandon

(* Any other error of the socket, the end of the stream for the async      *)
(* connector, or the caller dropping the future of an async call.          *)
ReadFails == Abandon

Next ==
    \/ \E c \in Commands : Send(c) \/ SendFails(c)
    \/ ReaderAnswers
    \/ ReaderIgnores
    \/ Receive
    \/ TimeOut
    \/ ReadFails

Spec == Init /\ [][Next]_vars

(* The loop of read_response keeps reading what is there, and once nothing *)
(* is left its timer expires.  Nothing is assumed of the reader, nor that  *)
(* the socket ever fails.                                                  *)
ReadsOn == line # <<>> /\ Receive
SilentTimeOut == line = <<>> /\ TimeOut
FairSpec == Spec /\ WF_vars(ReadsOn) /\ WF_vars(SilentTimeOut)

-----------------------------------------------------------------------------
TypeOK ==
    /\ last \in 0..MaxCalls
    /\ cmd \in [Ids -> Commands]
    /\ status \in [Ids -> Statuses]
    /\ \A q \in Ids : status[q] = "unused" <=> q > last
    /\ \A q \in Ids : q < last => status[q] \in {"replied", "failed"}
    /\ took \in [Ids -> Seq(Atom)]
    /\ buf \in Seq(Atom)
    /\ inbox \in Seq(Ids)
    /\ line \in Seq(Atom)
    /\ answered \in [Ids -> 0..(MaxTags + 1)]

(* The call whose answer q returned: that of the first frame it accepted.  *)
From(q) == IF took[q] = <<>> THEN 0 ELSE took[q][1].id

(* The last call whose answer was merged into it.                          *)
Upto(q) == IF took[q] = <<>> THEN 0 ELSE took[q][Len(took[q])].id

Port == INSTANCE CommandPort WITH from <- [q \in Ids |-> From(q)],
                                  upto <- [q \in Ids |-> Upto(q)]

(* The byte stream implements the command port: an answer is returned for  *)
(* a call of the same command, never twice and never out of order.         *)
PortSpec == Port!Spec

(* A call returns its own answer unless an earlier call of the same        *)
(* command was abandoned.                                                  *)
OwnUnlessAbandoned == Port!OwnUnlessAbandoned

(* No frame, so no tag, is reported by two calls, and calls report them in *)
(* the order the reader sent them, even when stale answers are merged.     *)
FramesReportedOnce ==
    \A p, q \in Ids :
        (p < q /\ status[p] = "replied" /\ status[q] = "replied")
            => Upto(p) < From(q)

(* While no call has been abandoned, an inventory returns exactly the      *)
(* frames the reader sent for it, wherever the reads cut them: neither a   *)
(* prefix (a tag is not taken for the end), nor anything of another answer.*)
InventoryComplete ==
    \A q \in Ids :
        (/\ status[q] = "replied"
         /\ cmd[q] \in Inventory
         /\ \A p \in 1..(q - 1) : status[p] = "replied")
            => /\ Len(took[q]) = answered[q]
               /\ \A k \in DOMAIN took[q] :
                     took[q][k].id = q /\ took[q][k].n = k

(* Parsing an inventory indexes out of bounds only on a line that holds    *)
(* the answers of two abandoned calls at least: one whose frames open the  *)
(* buffer and a later one whose frame is then read as a tag.               *)
PanicNeedsTwoAbandoned ==
    \A q \in Ids :
        (status[q] = "panicked" /\ cmd[q] \in Inventory) =>
            \E p1, p2 \in 1..(q - 1) :
                p1 # p2 /\ status[p1] = "failed" /\ status[p2] = "failed"

(* Every call ends: a reader that never answers, or answers something that *)
(* never parses, does not hold the caller for ever.                        *)
CallsEnd == \A q \in Ids : status[q] = "open" ~> status[q] # "open"

-----------------------------------------------------------------------------
(* What the code says of itself, and does not do.                          *)

(* send_and_read_command means to send the command again when the answer   *)
(* read is that of another command, and the iterators mean to end with     *)
(* FastSwitchingAntConfiguration when the reader reports an antenna it     *)
(* could not use: a call does not fail with such an answer, complete, in   *)
(* its buffer.                                                             *)
WrongOrder(b) == Whole(b) # <<>> /\ Whole(b)[1].cmd # cmd[last]
AntennaReport(b) ==
    /\ cmd[last] \in Fast
    /\ EndsInTotal(b, cmd[last])
    /\ \E i \in DOMAIN Whole(b) : Whole(b)[i].shape = "pair"
ParseErrorsAreReturned ==
    [][(last' = last /\ status'[last] = "failed")
          => ~WrongOrder(buf) /\ ~AntennaReport(buf)]_vars
=============================================================================
