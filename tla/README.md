# TLA+ models of the E710 UHF RFID reader library

The library drives an Impinj E710 UHF reader over a serial port or a TCP
connection: configuration, antenna survey, and tag inventories delivered as an
iterator or an async stream. This directory holds models of its control logic,
TLC configurations for small instances, and proofs for all instances.
Source paths are relative to the repository (`src/` is its Rust crate directory,
`src/src/...` below, as in `PROJECT.json`).

## 1. Inventory

| component | code | state | operations |
|---|---|---|---|
| exchange | `connector/sync.rs`, `connector/async_impl.rs`, `frame/command.rs` | the socket; the buffer of one `read_response`; nothing else survives a call | `send_command`, `send_frame`, `read_response`, `read_command`, `send_and_read_command`, `try_parsing_results`, `parse_tag_response` |
| tag streams | `tag_iterator.rs`, `tag_iterator_async.rs` | queue of tags, `finished` flag, the borrowed connector | `next`, `poll_next`, drop |
| setup | `setup_reader`, `set_*_if_not` | the reader's own settings | four read-compare-write steps |
| survey | `get_statistic_to_all_antennas`, `build_fast_switching_antenna_cfg`, `core_*` of `connector.rs` | the reader's working antenna; the list being built | select, measure, choose |
| frame codec | `frame.rs`, `frame/command.rs`, `frame/frame_error.rs` | none | encode, checksum, split, decode |
| tag decoding | `tag.rs` | none | `Tag::from_raw`, accessors |
| frequency tables | `frequency_references.rs` | none | code <-> MHz, spectrum limits |
| error codes | `error_references.rs` | none | code <-> error |
| display, logging, examples | | none | |

**Interactions.** Setup, the survey and the tag streams are callers of the
exchange; they hold the connector by `&mut`, so its calls are strictly one after
the other. Everything concurrent is on the other side of the socket: the reader
answers when it wants, the link delivers bytes in pieces, and a call may stop
waiting (timeout, socket error, dropped future) while its answer is under way.

**What is hard.** The protocol has no sequence number, a call starts with an empty
buffer and drops what is in it when it ends, and nothing drains the link. So after
one abandoned call every later call may read bytes that are not its own: a late
answer, the second half of a frame, several answers merged in one read. Whether an
inventory is complete is decided by its last frame alone. The checksum is computed
over the whole buffer. `setup_reader` and the survey drop the answers of their
writes, and survey answers do not name the antenna. All of this is listed line by
line under `hazards` in `PROJECT.json`.

**What makes each part correct.** Exchange: an answer goes to a call of its command,
once, in order, complete, and every call ends. Tag streams: each tag once, all of
them, an end that can be told from a failure. Setup: what is reported as done is
done, what is right is left alone. Survey: what is said of an antenna was measured on
it. Codec and tables: encode and decode are inverse where both are defined, and total
where the code assumes so.

## 2. Modules

    CommandPort  <--implements--  Exchange  <--extends--  TagStreams
         ^                           ^
         |                           +-----implements---  ByteExchange
         |                                                    |
         |                                                FrameCodec
         |                                                    |
         +-- ReaderPort  <--extends--  Setup, Survey ---- Frequencies

* **CommandPort** is the abstract specification: what a `Connector` promises to the code
  that drives it. Variables `last`, `cmd`, `status`, `from`, `upto` are a history of
  calls. `Begin` sends or fails to; `Return(r, u)` returns the answer of call `r`, of
  the same command, with the answers merged into it up to call `u`, all later than
  whatever was returned before; `GiveUp` is an error or a panic.
* **Exchange** is the stream of frames. Each frame is two *atoms*, a head and a tail, so
  that reads and timeouts can fall inside a frame; `line` is the link, `buf` the local
  buffer of `read_response`, `inbox` the commands the reader has yet to answer, `took`
  what a call accepted. `Send`/`SendFails` are `send_frame`; `Accept`, `Panic` and
  `KeepReading` are one round of the read loop, for any number of atoms; `TimeOut` and
  `ReadFails` are its exits. `ParsesAsSimple` is `Command::from_bytes`,
  `ParsesAsInventory` and `ParsePanics` are `parse_tag_response` with `Tag::from_raw`,
  `Whole` is `split_packets`. A frame has a `shape`, what the code tells it by: its
  length (`Shapes`). Two of them are too short for a tag: one always (`short`), one only
  with the phase on (`brief`). Where the bytes decide what the atoms cannot, both
  outcomes are there: whether a one-frame answer followed by others passes the checksum
  (`Settled`), and whether a brief frame panics. The refinement of CommandPort maps
  `from` and `upto` to the call of the first and of the last frame accepted.
* **FrameCodec** has the bytes: `Encode` is `Command::to_bytes` with `Frame::to_bytes`
  (length byte, checksum, every field of every command, the eight antenna slots of a
  fast switching request), `Outcome` is `Command::from_bytes` with
  `try_parsing_results`, `split_packets`, `parse_tag_response`, `Tag::from_raw`, the
  error codes and the overlap between values and codes. Parsing ends in a value, an
  error of the reader, a panic, or "not yet". Frequencies are kHz and antennas, powers
  and EPC bytes numbers.
* **Frequencies** has the two tables of `frequency_references.rs`, each with the rows
  the code has (`GetFrequency`; `ParamRows` for `get_param`), and
  `core_reference_frequency`; all its numbers are multiples of 500 kHz, so that the
  code's `f64` are exact.
* **ByteExchange** runs FrameCodec over a link: `Send` encodes a request, the reader
  acts on it if it understands it and answers with the tags in the field (`Tags`) or
  with a refusal; `said` remembers what it meant. `Receive(n)` adds `n` bytes to the
  buffer and parses it. Each byte on the link carries its place (call, frame, byte),
  which the parser does not see; by it the bytes are shown to refine Exchange
  (`ReadsAtoms`), which justifies Exchange's atoms. `strays` is a history of the calls
  that were ended by a buffer opening inside a frame, for which Exchange has no step.
  What the reader puts behind a tag's strength follows the request's phase field
  (`SendsPhase`); what the parser expects there is its own branch (`PhaseOn`), and the
  two differ for a single inventory (`IgnoresPhase`).
* **TagStreams** adds the `TagIterator` (`Async = FALSE`) and the async stream (`Async =
  TRUE`) to Exchange, with other calls before and after, and drops at every point (in
  the async one also while a call waits). The tags come out last first, as
  `parse_tag_response` collects them.
* **ReaderPort** is the port with the reader's side: it serves commands in order,
  possibly long after the caller gave up. An answer can only be returned once it has
  been sent. Setup and Survey build on it instead of Exchange: what is shown about them
  holds for any link that implements the port, and Exchange does.
* **Setup** is `setup_reader`; `at` is the setting it is at, `device` compares each
  setting of the reader with the wanted one, `region` is `working_freq_setup`. `Got` is
  the four `set_*_if_not`, with what each makes of an error status: `PowerIsErrorCode`
  says that the wanted power is a value that a refusal reads as. A custom region never
  reads back as wanted, and one with an end off the table panics when it is written
  (`CallPanics`).
* **Survey** is `get_statistic_to_all_antennas`, which panics where the middle of the
  working range is no table frequency; `Chosen` is `core_build_fast_switching_antennas`.
* **MCExchange, MCByteExchange, MCTagStreams, MCSetup, MCSurvey** are the instances for
  TLC.
* **Selection** has the elements that a loop picks out of a sequence, by their
  positions: the tags of an answer, the antennas fit for use, the slots of a request
  that hold an antenna. They are defined without recursion, so that they can be proved
  about.
* **CommandPortProofs, ExchangeProofs, TagStreamsProofs, ReaderPortProofs, SetupProofs,
  SurveyProofs, CodecProofs, DataProofs** hold the proofs (section 4). DataProofs has
  the lemmas that are not about one component: the table, selections, sequences joined
  and cut.

`Peek`, `PollShort` and other definitions headed `Mutant` are wrong variants kept to
show that the properties can fail; nothing uses them. Sync and async connectors have the
same control except where an action says so.

## 3. Runs

| run | question | states |
|---|---|---|
| `exchange` | do three calls of two inventories, of a command whose refusal panics and of one whose refusal is unreadable keep the promises of the port, and end? | 222 662 |
| `bytes` | does the reader get what was asked, and the call what was meant, byte by byte, and is Exchange right about where bytes are accepted, and panic? | 222 941 |
| `tag_iterator` | is every tag yielded once, all of them at a clean end, errors told from the end, and is the end reached? | 23 558 |
| `tag_stream` | the same with streams dropped while they wait | 524 373 |
| `setup` | does what setup passed hold, over failed and repeated runs, whatever the region? | 4 247 654 |
| `survey` | is what is said of an antenna measured on it, over two surveys, and which ranges panic? | 1 896 164 |
| `exchange_errors`, `exchange_wouldblock`, `tag_stream_timeout`, `setup_refused`, `setup_panics`, `single_phase` | findings, section 5 | |

What the properties say, beyond types:

* `OwnUnlessAbandoned`, `PortSpec`, `FramesReportedOnce`: a call can get a stale answer,
  but only after an abandoned call of the same command; never twice, never out of order.
* `InventoryComplete`: with no failed call before it, an inventory returns exactly the
  frames sent for it, wherever the reads cut them.
* `PanicNeedsTwoAbandoned`: out-of-bounds indexing in `Tag::from_raw` needs two
  abandoned calls.
* `RequestsUnderstood`: every request reaches the reader well formed, with the fields of
  the command in the places the protocol has them; `AnswersAreRead`: a call that took
  the whole of an answer to its request, its own or a late one, returns the values
  (tags, powers, regions, errors) that the reader meant, except where the code reads a
  refusal as a value; it is not of single inventories that ask for phases (finding 6),
  nor of strays; `ReadsAtoms`: the refinement of Exchange, so that a frame cut anywhere
  is neither accepted early nor missed when it is whole, in every step but one that
  ends a call as a stray; `StraysNeedAbandoned`: a stray comes after an abandoned call.
* `TagsYieldedOnce`, `EndedStreamIsComplete`, `ReadFailureIsReported`, `StreamsEnd`: the
  same at the level of tags. That a read failure is reported is checked of the iterator;
  the async stream logs a timeout and ends (finding 3). The iterator logs a send failure
  and ends, which nothing says it should not.
* `PassedSettingsHold`: every setting behind `at` is the wanted one, unless the reader
  refused to write that very setting or its refusal read as the wanted power.
  `WritesAreNeeded`: a reader that is set is left alone, unless stale reads, refusals or
  a custom region mislead setup.
* `MeasuredOnItsAntenna`, `MissingAreOpen`, `ChosenAreFit`: with selections carried out
  and no abandoned measurement, the list is about the right antennas, complete, and only
  fit antennas are used. `PanicsOffBand`: no working range within a band panics.

**Bounds.** `MaxCalls` bounds a history. Three calls of an exchange suffice for an
answer to be stale, for two stale answers to be merged with a third call's own (the
panic needs exactly that), and for a call to come after a stale read. `MaxTags` is the
number of frames before the total: one is enough for an inventory to be cut before its
end; two, for order among tags (`tag_iterator`). `bytes` has two calls of any of
thirteen requests, with one answer in front of another of every length, and a third call
where the requests are a fast inventory with the phase on and two commands with answers
shorter than its tags (`ThirdIsMerged`): frames of two abandoned calls end up before an
inventory or inside it. Reads are of five bytes (`ReadSizes`) or of all there is, which
cuts frames in front of, inside and behind their lengths. Its tag is chosen for strays:
the rest of its frame looks like a frame of a fast inventory, so that they occur. The
order of several tags of one answer in bytes is left to the proof (`AnswersAreMeant`).
`single_phase` needs one call. Setup has six calls: a run that fails at its first or
second call, and a second one that goes through with what was left behind, or a whole
run with up to two writes; its regions are one in the table and, with five calls
(`OtherRegionsShort`), a custom one and the one of the tests. Six calls of a survey of
two antennas are a whole survey after one cut short at any of its first two calls; its
ranges are within either band or across both. Deadlock is not checked: a history ends
when its calls are used up, and after a panic.

**Fairness.** `FairSpec` assumes that the loop of `read_response` goes on reading what
is there (`WF(ReadsOn)`: it is a loop that only sleeps 1.3 ms in between, and nothing is
assumed of it once the line is empty) and that its timer expires once nothing is left to
read (`WF(SilentTimeOut)`: `start` is only reset by data). Nothing is assumed of the
reader, nor that the socket fails. `StreamFairSpec` adds that the caller keeps polling a
stream it opened. Both need a socket whose empty read returns `Ok(0)` or `TimedOut`;
`exchange_wouldblock` shows that `CallsEnd` fails without it.

## 4. Proofs

For every value of the constants (assumptions: `MaxCalls`, `MaxTags`, `Total` naturals,
`Commands` not empty and with the commands of Setup or Survey, `Nonblocking`, `Async`
Boolean, `Wanted` regions with natural ends, GetFirmwareVersion not an inventory
(`FirmwareAssumption`); in ByteExchange `Requests` commands that `to_bytes` can encode,
`Tags` of table frequencies, with an EPC of 1 to 31 words and a strength, at least one
frame before the total and fewer than its three bytes can count; all evaluated by TLC in
the runs):

* **The port.** `PortOwnUnlessAbandoned`: the port alone gives types, order, and own
  answers unless an earlier call of the command was abandoned. Invariant: only the last
  call may be open (`OlderEnded`), answers are of calls of the same command and no later
  (`SameCommand`). If call `q` returns the answer of an earlier `p` of its command, then
  `p` was abandoned, or it returned an answer of its command that is older still than
  `p` (answers come in order), for which the invariant already names an abandoned call.
* **The exchange implements it.** `ExchangeTypeOK`, `ExchangeImplementsPort`: `Spec =>
  PortSpec`. Type correctness is not enough: that `Return` is allowed depends on what is
  under way. The inductive invariant is `Inv`: for the stream `buf \o line`, its atoms
  are sorted by call (`Sorted`), were sent for calls already made and of the command
  they carry (`Sent`), belong to calls later than anything returned (`Unreturned`), and
  the reader's inbox is later still (`Pending`). Reading only moves the border between
  `buf` and `line`; accepting drops a prefix of the stream. Two facts make the prefix
  end where one answer ends: a one-frame answer is followed by the next answer, and a
  total is the last frame of its answer (`RepliesForm`, `AtomsForm`).
  `ExchangeOwnUnlessAbandoned` and `ExchangeFramesReportedOnce` follow from the
  refinement and the port's theorem, without another look at the stream.
* **Whole inventories.** `ExchangeInventoryComplete`: for any number of tags.
  `CompleteInv` adds to `Inv` that until a call is abandoned the link holds nothing but
  the answer of the call that waits, or nothing (`Alone`), and that the reader is done
  with calls that have been answered (`Later`). No proper part of an answer parses
  (`PartParsed`): the frame it ends in would be the total, after which the answer has
  nothing but that frame's tail.
* **Order of frames.** `ExchangeTookInOrder`: whatever was abandoned before, what a call
  returns has the frames in the order in which the reader numbered them, none twice, a
  total closes those of its call, and an inventory ends in a total. `OrderInv` adds to
  `Inv` that any two frames of the stream are so related (`Precedes`, in `Spread`);
  neighbouring atoms are left out, they may be the halves of one frame.
* **When parsing panics.** `ExchangePanicNeedsTwo`. Indexing out of bounds needs a frame
  too short for a tag between the first frame of the buffer and a total. In no answer is
  there such a frame behind another or before a total (`Shaped`, of the stream: only
  one-frame answers are that short), so the first frame and the short one are of two
  calls, both before the one that waits and later than whatever was returned
  (`PanicHolds`). As many calls as there are numbers below the first one's can have
  returned something, so at least two have not (`TwoLeft`, `PanicCounted`).
* **Streams are calls.** `StreamsAreCalls`: `StreamSpec => Spec`, step by step; so
  `StreamsKeepTheExchange`: own answers, no frame twice and whole inventories hold for
  streams too.
* **Tags.** `StreamsTypeCorrect`, `StreamsYieldTagsOnce`, `EndedStreamsAreComplete`, for
  any number of tags, streams and calls. `StreamInv` adds to the invariants of the
  exchange that what a stream has yielded are the first tags of the answer to its own
  call (`YieldsTags`, `Begins`), and that what is queued are the others (`Splits`). That
  the tags of one answer differ is the order of frames; that those of two answers do is
  the port's.
  `IteratorReportsReadFailures`: an iterator whose command gets no answer ends with an
  error, after any history.
* **Setup.** `SetupTypes`, `SetupPassedSettingsHold`. The invariant is that what the
  reader has answered about a setting is true since and still (`Truthful`): its settings
  only ever become the wanted ones, and it answers in the order in which it carries out.
  So it does not matter which call an answer goes to. ReaderPortProofs has what both
  callers need: the port's invariant, and that the history of ended calls and given
  answers is kept (`HistoryKept`).
  `SetupWritesAreNeeded`: by `WriteInv`, a read is answered with a setting or refused
  (`ReadsAnswered`), the answer that the reader gave last is true of it as it is
  (`JustRead`), and when a write is due the reader has carried out nothing since the
  read, which was not as wanted (`WriteDue`).
* **Survey.** `SurveyTypeCorrect`, `SurveyMeasuredOnItsAntenna`: a return loss asked for
  and waited for is the call's own (by the port's theorem); the reader works on the
  antenna it selected last (`CarriedOut`), so it is the loss of the antenna that the
  call before selected (`Measured`), and that is the one the survey is at
  (`SelectedFirst`). `SurveyMissingAreOpen`: an antenna behind the one the survey is at
  is listed or was asked about in this survey and found open (`MissingAsked`), and a
  finished survey is behind all of them (`EndsAtTotal`). `SurveyChosenAreFit`: the
  configuration is a selection of the list, of any length. `SurveyPanicsOffBand`: no
  working range within a band panics, by `ReferenceInTable`.
* **Requests.** `EncodedIsUnderstood`: of every command that `to_bytes` can encode into
  one frame (`Encodable`, `FitsFrame`) the bytes are a frame with the right length and
  sum, with each field in its place; `RequestsAreUnderstood` is the run's property. The
  sum is a fold over bytes; the lemmas on it (`SumsExist`, `SumsUnique`, `SumAppend`)
  use a least counterexample instead of induction.
* **Answers.** `AnswersAreReadWhole`: no proper beginning of a frame is parsed, and a
  whole one-frame answer is decoded from exactly its data, for any data. `TagIsRead`: a
  tag with an EPC of any length is read as it was sent, with its phase if the request
  asked for it; of a single inventory that did, two bytes too many are taken for the
  EPC, whatever the tag (finding 6).
* **Bytes refine atoms.** `Reading` is the heart: of any buffer that opens with a frame,
  frames of any answers cut anywhere, `from_bytes` makes what Exchange has for its
  atoms. A buffer is described by the *stream* of its bytes, each with its place
  (`Stream`): a byte is followed by the next one of its frame, or by the first of a
  frame. `split_packets` then finds just the whole frames (`Layout`); for a command of
  one frame the sum and the length settle whether it is accepted, except where Exchange
  leaves it open. A buffer that opens inside a frame holds no frame for Exchange, and
  the bytes agree if they are read on; `TailsAreReadOn`: they are, unless two bytes of
  that rest are what `from_bytes` takes for a length and for the code of the call.
* `BytesRefineAtoms`: `Spec => ReadsAtoms`. The invariant is `LinkInv`: the bytes of
  `buf \o line` are such a stream, of answers that were given (`OnLink`), calls not yet
  answered have nothing on the link, each is at most once in the inbox (`AnswersSaid`),
  and the reader has understood what it was asked (`RequestInv`). Types do not suffice:
  that the atoms of a new answer go behind those on the link needs that the call has
  none there yet, and that the atoms read are a prefix needs that frames come in order.
  The sizes of reads do not matter, and nothing is assumed of the bytes of tags: the one
  step that is not Exchange's adds its call to `strays`. `BytesKeepExchange`: while
  `strays` is empty, own answers, no frame twice, whole inventories and two abandoned
  calls before a panic hold of the bytes. A run with strays has no image in Exchange, so
  this is not by the theorems of ExchangeProofs but by their invariants, taken over one
  step at a time (`KeptInv`, `KeptStep`, `KeptByBytes`).
* `StraysComeLate`: `Spec => []StraysNeedAbandoned`. Until a call is abandoned the link
  holds nothing but the answer that is waited for (`Alone`, of the atoms), so what is
  read begins with a head, and the buffer with the first byte of a frame (`MidLink`,
  `FirstStray`).
* **What calls return.** `AnswersAreMeant`: `Spec => []AnswersAreRead`, for any number
  of tags and however an answer was cut, and whatever strays there were: of a stray
  itself nothing is said, nor of a single inventory that asks for phases. The property
  speaks of what a call took, and becomes inductive in `ReadInv`: `LinkInv`, and of each
  call that has returned that it took frames of answers given by then (`ReadBy`), since
  an answer given later may not be one it took. The step is `ReadIsAnswer`: if all the
  frames of the buffer are of one answer to the request, they are that answer, whole and
  in order (`FramesRise`); a one-frame answer is decoded by `AnswersAreReadWhole`
  (`WholeSimple`), and the fold over an inventory's frames gives the tags of the answer,
  by `TagIsRead`, backwards, or its error (`WholeInventory`). The tags are arbitrary; of
  the one-frame answers the model has the samples in `Answers`, a value or two and a
  refusal for each command, and what is decoded of any other data is
  `AnswersAreReadWhole`.
* **Data.** `TableRoundTrip`: the two tables of the code, written out row by row, are
  inverse on all 60 entries (`RowsAgree`).
  `ReferenceInTable`: the middle of any range within a band, truncated to MHz, is in the
  table. The lemmas on Selection (`NthForm`, `NthOrder`, `SelectedForm`,
  `SelectedBackForm`) say that a selection has the elements picked, in their order or
  backwards, each once.

**Only model-checked:** liveness (`CallsEnd`, `StreamsEnd`), which the prover does not
cover. Every other property of the passing runs is a theorem. Two attempts at a proof
found the models wrong, not the code. An answer of four or five bytes of data to another
command is too short for a tag with a phase, and panics when it is taken for one:
Exchange had a tag in it, and now has a `brief` frame. And with no frame allowed before
a total, a fast inventory could not be answered by an antenna error, which is such a
frame: ByteExchange now has `MaxTags` of at least 1.

## 5. Findings

1. `exchange_errors`: `try_parsing_results` turns every error into "not yet". So the
   retry after `InvalidPacketOrder` is dead code, and a call with a stale answer of
   another command in front times out; and the antenna error of a fast switching
   inventory never reaches the caller, who sees a timeout.
2. `exchange_wouldblock`: the `WouldBlock` arm skips the timer, so the call may never
   end.
3. `tag_stream_timeout`: the async stream ends without an error on a timeout, its
   comment promises the error.
4. `setup_refused`: `setup_reader` returns `Ok` when a setting was refused. For the same
   reason, an answer to a `Set` that nobody looks at, a survey goes on after a refused
   antenna selection: the condition `SelectionsCarriedOut` of its properties.
5. `setup_panics`: `setup_reader` panics on the region the tests give their connectors,
   920.125 to 924.875 MHz, which is not in the table.
6. `single_phase`: a single inventory that asks for phases gets tags with two bytes of
   phase, and parses them as tags without (`_ => Tag::from_raw`): the strength and half
   the phase come out as EPC, the other half as strength. The comment on the request's
   phase byte says that the result has to be parsed differently.

## 6. What is left out, and assumed

* What a stray call returns. `from_bytes` does not look for the header of a frame, so
  the rest of an answer that a call left unread in its middle may be taken for a frame
  when it opens the next buffer: one of its bytes, of an EPC say, is at least 3 and the
  next but one is the code of the command. EPCs of the repository's own tests, E280 6915
  0000 501D 63E2, are such a case for the commands 0x69 and 0x63 of `setup_reader`. Such
  a call reads an answer out of the middle of another, and may panic; it is in the model
  and in the run, and counted in `strays`. What is shown: it takes an abandoned call
  before it (`StraysNeedAbandoned`), a rest that does not look so is read on
  (`TailsAreReadOn`), and calls after a stray still return what was meant if they took a
  whole answer (`AnswersAreRead`). Exchange has no strays: a run is one of Exchange up
  to its first stray, and what is shown over Exchange holds so far
  (`BytesKeepExchange`).
* No bit is corrupted, and a tag frame is never of length 0x0A or 0x05 (the code tells
  frames apart by it).
* An inventory after an abandoned one may return the rest of its answer only: that is
  allowed by `OwnUnlessAbandoned`, and `InventoryComplete` says nothing of it.
* The reader answers a command at most once, with known error codes and with frequencies
  of the table, and unasked never; it does not restart, and nobody else changes its
  settings. A reader outside of this makes `unreachable!` or `panic!` fire in the
  tables; the hazards without a property are these.
* Requests have at most eight antennas (`Encodable`) and 252 powers (`FitsFrame`).
* `SetOutputPower` is answered by `CommandResult::Reset` in the code; results without a
  value are not told apart, since no caller looks at them.
* The rate limit of `read_response` pauses and the `interval` of the iterator (always 0)
  are time only. The VSWR is a monotonic function of the return loss, which is what the
  models have.

**Not modelled:** display, logging and the examples keep no state and decide nothing.

## 7. Plan

Done, in this order: CommandPort and Exchange (every other part runs over them), the
proof of the refinement, TagStreams, ReaderPort with Setup and Survey; then Frequencies,
FrameCodec and ByteExchange, regions in Setup and Survey, and the proofs of whole
inventories, streams, setup and survey; then those of the order of frames, panics, tags,
writes, missing and chosen antennas, and of requests byte by byte; last, of answers byte
by byte: that the bytes refine the atoms, for any tags, and that calls return what was
meant.

Left:

1. What a stray call may return, and which EPCs make it return what.
2. Survey and Setup composed over Exchange in one run, to complement the argument by
   refinement.
