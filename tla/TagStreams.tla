----------------------------- MODULE TagStreams -----------------------------
(***************************************************************************)
(* The tags of a fast switching inventory, delivered one at a time: the    *)
(* TagIterator of the blocking connector and the Stream of the async one.  *)
(* Both borrow the connector for as long as they live, send their command  *)
(* when they are first polled, read the answer, then yield the tags of it  *)
(* out of a queue.  The caller may make other calls before and after, and  *)
(* may drop a stream: the async one even while its command is on the wire. *)
(***************************************************************************)
EXTENDS Exchange, Selection

CONSTANT Async      \* TRUE: tag_stream_async, FALSE: TagIterator

ASSUME AsyncAssumption == Async \in BOOLEAN

VARIABLES
    state,      \* of the stream; its call, once made, is call last
    queue,      \* tags received and not yet yielded
    yielded,    \* id |-> the tags the stream that made call id has yielded
    outcome     \* id |-> how that stream finished

streamVars == <<state, queue, yielded, outcome>>
allVars == <<vars, streamVars>>

States == {"none", "fresh", "waiting", "yielding", "finished"}
Outcomes == {"none", "end", "error", "dropped"}

(* parse_tag_response goes through the frames from the last to the first,  *)
(* and keeps those that are not a total.                                   *)
Tags(frames) ==
    SelectedBack(frames, {i \in DOMAIN frames : frames[i].shape # "total"})

StreamInit ==
    /\ Init
    /\ state = "none"
    /\ queue = <<>>
    /\ yielded = [q \in Ids |-> <<>>]
    /\ outcome = [q \in Ids |-> "none"]

-----------------------------------------------------------------------------
(* Calls made while no stream borrows the connector.                       *)
DirectCall ==
    /\ state = "none"
    /\ \E c \in Commands : Send(c) \/ SendFails(c)
    /\ UNCHANGED streamVars

DirectReceive == state = "none" /\ Receive /\ UNCHANGED streamVars
DirectTimesOut == state = "none" /\ TimeOut /\ UNCHANGED streamVars
DirectReadFails == state = "none" /\ ReadFails /\ UNCHANGED streamVars

Reader == (ReaderAnswers \/ ReaderIgnores) /\ UNCHANGED streamVars

-----------------------------------------------------------------------------
(* new_fast_switching_antenna_iterator: nothing is sent yet.               *)
Open ==
    /\ state = "none"
    /\ Idle
    /\ last < MaxCalls
    /\ state' = "fresh"
    /\ UNCHANGED <<vars, queue, yielded, outcome>>

Finish(q, o) ==
    /\ state' = "finished"
    /\ queue' = <<>>
    /\ outcome' = [outcome EXCEPT ![q] = o]
    /\ UNCHANGED yielded

(* The next tag of ts is yielded, or there is none left.                   *)
Deliver(q, ts) ==
    \/ /\ ts = <<>>
       /\ Finish(q, "end")
    \/ /\ ts # <<>>
       /\ state' = "yielding"
       /\ queue' = Tail(ts)
       /\ yielded' = [yielded EXCEPT ![q] = Append(@, Head(ts))]
       /\ UNCHANGED outcome

(* Mutant: the tag stays in the queue.                                     *)
Peek ==
    /\ state = "yielding"
    /\ queue # <<>>
    /\ yielded' = [yielded EXCEPT ![last] = Append(@, Head(queue))]
    /\ UNCHANGED <<vars, state, queue, outcome>>

(* Mutant: the last tag is dropped with the stream.                        *)
PollShort ==
    /\ state = "yielding"
    /\ IF Len(queue) = 1 THEN Finish(last, "end") ELSE Deliver(last, queue)
    /\ UNCHANGED vars

(* The first poll sends the command; the iterator logs a failure and ends, *)
(* the async stream ends with it.                                          *)
FirstPoll ==
    /\ state = "fresh"
    /\ \E c \in Fast : Send(c)
    /\ state' = "waiting"
    /\ UNCHANGED <<queue, yielded, outcome>>

FirstPollFails ==
    /\ state = "fresh"
    /\ \E c \in Fast : SendFails(c)
    /\ Finish(last + 1, IF Async THEN "error" ELSE "end")

(* The answer is accepted, and the poll that waited for it goes on.        *)
StreamAccepts ==
    /\ state = "waiting"
    /\ \E n \in 0..Len(line) :
          /\ Accept(n)
          /\ Deliver(last, Tags(Content(Read(n), cmd[last])))

StreamReads ==
    /\ state = "waiting"
    /\ \E n \in 0..Len(line) : KeepReading(n) \/ Panic(n)
    /\ UNCHANGED streamVars

(* Mutant: both take a timeout for the end of the tags.                    *)
StreamEndsOnTimeOut ==
    /\ state = "waiting"
    /\ TimeOut
    /\ Finish(last, "end")

(* A timeout ends the async stream without an error.                       *)
StreamTimesOut ==
    /\ state = "waiting"
    /\ TimeOut
    /\ Finish(last, IF Async THEN "end" ELSE "error")

StreamReadFails ==
    /\ state = "waiting"
    /\ ReadFails
    /\ Finish(last, "error")

(* A later poll: the queue first; the finished flag, or the end of the     *)
(* loop over the tags, keeps the command from being sent again.            *)
Poll ==
    /\ state = "yielding"
    /\ Deliver(last, queue)
    /\ UNCHANGED vars

(* The caller drops the stream and has the connector back: the tags in the *)
(* queue are lost.                                                         *)
Drop ==
    /\ state \in {"fresh", "yielding", "finished"}
    /\ state' = "none"
    /\ queue' = <<>>
    /\ outcome' = IF state = "yielding"
                  THEN [outcome EXCEPT ![last] = "dropped"] ELSE outcome
    /\ UNCHANGED <<vars, yielded>>

(* The future of an async poll is dropped before the answer has come.      *)
DropWhileWaiting ==
    /\ Async
    /\ state = "waiting"
    /\ Abandon
    /\ state' = "none"
    /\ outcome' = [outcome EXCEPT ![last] = "dropped"]
    /\ UNCHANGED <<queue, yielded>>

StreamNext ==
    \/ DirectCall
    \/ DirectReceive
    \/ DirectTimesOut
    \/ DirectReadFails
    \/ Reader
    \/ Open
    \/ FirstPoll
    \/ FirstPollFails
    \/ StreamAccepts
    \/ StreamReads
    \/ StreamTimesOut
    \/ StreamReadFails
    \/ Poll
    \/ Drop
    \/ DropWhileWaiting

StreamSpec == StreamInit /\ [][StreamNext]_allVars

(* As for FairSpec, and a caller that keeps polling the stream it opened.  *)
StreamFairSpec ==
    /\ StreamSpec
    /\ WF_allVars(/\ line # <<>>
                  /\ DirectReceive \/ StreamAccepts \/ StreamReads)
    /\ WF_allVars(line = <<>> /\ (DirectTimesOut \/ StreamTimesOut))
    /\ WF_allVars(FirstPoll)
    /\ WF_allVars(Poll)

-----------------------------------------------------------------------------
StreamTypeOK ==
    /\ TypeOK
    /\ state \in States
    /\ queue \in Seq(Atom)
    /\ yielded \in [Ids -> Seq(Atom)]
    /\ outcome \in [Ids -> Outcomes]
    /\ queue # <<>> => state = "yielding"
    /\ state = "waiting" => status[last] \in {"open", "panicked"}
    /\ state \in {"fresh", "yielding", "finished"} => Idle

(* No tag comes out twice, of one stream or of two, however answers were   *)
(* delayed, merged, abandoned or dropped half way.                         *)
TagsYieldedOnce ==
    \A p, q \in Ids : \A i \in DOMAIN yielded[p], j \in DOMAIN yielded[q] :
        (p # q \/ i # j) =>
            \/ yielded[p][i].id # yielded[q][j].id
            \/ yielded[p][i].n # yielded[q][j].n

(* A stream that ends by itself after an answer has yielded every tag of   *)
(* it, the last one first, and no other, unless a call before it failed.   *)
EndedStreamIsComplete ==
    \A q \in Ids :
        (/\ outcome[q] = "end"
         /\ status[q] = "replied"
         /\ \A p \in 1..(q - 1) : status[p] = "replied")
            => /\ Len(yielded[q]) + 1 = answered[q]
               /\ \A k \in DOMAIN yielded[q] :
                     yielded[q][k].id = q /\ yielded[q][k].n = answered[q] - k

(* A stream whose command gets no answer ends with an error: the caller    *)
(* does not take a silent reader for a field without tags.                 *)
ReadFailureIsReported ==
    [][state = "waiting" /\ state' = "finished" /\ status'[last] = "failed"
          => outcome'[last] = "error"]_allVars

(* A caller that polls a stream to its end gets there: neither a silent    *)
(* reader nor one whose answer never parses holds it, unless parsing       *)
(* panics or the stream is dropped.                                        *)
StreamsEnd ==
    state = "fresh" ~> \/ state \in {"none", "finished"}
                       \/ \E q \in Ids : status[q] = "panicked"
=============================================================================
