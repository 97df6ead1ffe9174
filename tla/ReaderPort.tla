----------------------------- MODULE ReaderPort -----------------------------
(***************************************************************************)
(* A command port with the reader at its far end: what the multi-command   *)
(* operations of a Connector (Setup, Survey) are built on.  The reader     *)
(* gets the commands in the order they were sent, and carries out each of  *)
(* them when it gets to it, which for an abandoned call may be long after  *)
(* the caller has gone on.                                                 *)
(***************************************************************************)
EXTENDS CommandPort, Sequences

ASSUME CallsAssumption == MaxCalls \in Nat
ASSUME PortAssumption == Commands # {}

VARIABLES
    served,     \* number of calls whose command the reader is done with
    answer      \* id |-> what the reader answered, <<>> if nothing (yet)

readerVars == <<served, answer>>

ReaderInit ==
    /\ cmd \in [Ids -> {CHOOSE c \in Commands : TRUE}]
    /\ Init
    /\ served = 0
    /\ answer = [q \in Ids |-> <<>>]

(* The reader is done with its next command, and answers a; <<>> if it     *)
(* never got the command, or does not answer it (external).                *)
Serve(a) ==
    /\ served < last
    /\ served' = served + 1
    /\ answer' = [answer EXCEPT ![served + 1] = a]
    /\ UNCHANGED vars

(* The call returns the answer of call r: it and those merged into it have *)
(* been sent.                                                              *)
Answered(r, u) ==
    /\ Return(r, u)
    /\ answer[r] # <<>>
    /\ answer[u] # <<>>
    /\ UNCHANGED readerVars

ReaderTypeOK ==
    /\ served \in 0..last
    /\ answer = [q \in Ids |-> answer[q]]
    /\ \A q \in Ids : answer[q] # <<>> => q <= served

(* No answer of an abandoned call of command c can still be on its way.    *)
NoStale(c) == \A q \in Ids : cmd[q] = c => status[q] # "failed"
=============================================================================
