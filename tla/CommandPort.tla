---------------------------- MODULE CommandPort ----------------------------
(***************************************************************************)
(* What a Connector promises to the code that drives it, whatever the      *)
(* socket does: calls are made one at a time, and a call ends with the     *)
(* answer the reader gave to SOME call of the same command, or it fails.   *)
(* An answer may swallow the ones that follow it (reads merge what stale   *)
(* calls left), but no answer is used twice, nor out of the order of the   *)
(* calls.  The protocol carries no sequence number, so nothing stronger    *)
(* (the answer of a call is its own) can be promised: Exchange.tla, the    *)
(* byte stream underneath, is shown to implement this.                     *)
(***************************************************************************)
EXTENDS Naturals

CONSTANTS
    Commands,   \* command codes (Command::to_bytes()[0])
    MaxCalls    \* bound on the number of calls of a history, in Nat

VARIABLES
    last,       \* number of calls made so far; call ids are 1..last
    cmd,        \* id |-> command sent by that call
    status,     \* id |-> how far the call went
    from,       \* id |-> id of the call whose answer it returned, 0 if none
    upto        \* id |-> id of the last call whose answer was merged into it

vars == <<last, cmd, status, from, upto>>

Ids == 1..MaxCalls
Statuses == {"unused", "open", "replied", "failed", "panicked"}

TypeOK ==
    /\ last \in 0..MaxCalls
    /\ cmd \in [Ids -> Commands]
    /\ status \in [Ids -> Statuses]
    /\ from \in [Ids -> 0..MaxCalls]
    /\ upto \in [Ids -> 0..MaxCalls]
    /\ \A q \in Ids : status[q] = "unused" <=> q > last

Idle == \A q \in Ids : status[q] \notin {"open", "panicked"}

Init ==
    /\ last = 0
    /\ cmd \in [Ids -> Commands]
    /\ status = [q \in Ids |-> "unused"]
    /\ from = [q \in Ids |-> 0]
    /\ upto = [q \in Ids |-> 0]

(* A call is sent and waits for its answer, or its send fails at once.     *)
Begin(c, s) ==
    /\ Idle
    /\ last < MaxCalls
    /\ last' = last + 1
    /\ cmd' = [cmd EXCEPT ![last + 1] = c]
    /\ status' = [status EXCEPT ![last + 1] = s]
    /\ UNCHANGED <<from, upto>>

(* Mutant: an answer can be read again.                                    *)
ReturnAgain(r, u) ==
    /\ last \in Ids
    /\ status[last] = "open"
    /\ r <= u
    /\ u <= last
    /\ cmd[r] = cmd[last]
    /\ status' = [status EXCEPT ![last] = "replied"]
    /\ from' = [from EXCEPT ![last] = r]
    /\ upto' = [upto EXCEPT ![last] = u]
    /\ UNCHANGED <<last, cmd>>

(* The call returns the answer of call r, with what was merged into it up  *)
(* to call u: r is of the same command, none is later than the call, and   *)
(* they come after every answer returned before.                           *)
Return(r, u) ==
    /\ last \in Ids
    /\ status[last] = "open"
    /\ r <= u
    /\ u <= last
    /\ cmd[r] = cmd[last]
    /\ \A q \in Ids : status[q] = "replied" => upto[q] < r
    /\ status' = [status EXCEPT ![last] = "replied"]
    /\ from' = [from EXCEPT ![last] = r]
    /\ upto' = [upto EXCEPT ![last] = u]
    /\ UNCHANGED <<last, cmd>>

(* The call gives up, or panics while parsing.                             *)
GiveUp(s) ==
    /\ last \in Ids
    /\ status[last] = "open"
    /\ status' = [status EXCEPT ![last] = s]
    /\ UNCHANGED <<last, cmd, from, upto>>

Next ==
    \/ \E c \in Commands, s \in {"open", "failed"} : Begin(c, s)
    \/ \E r, u \in Ids : Return(r, u)
    \/ \E s \in {"failed", "panicked"} : GiveUp(s)

Spec == Init /\ [][Next]_vars

-----------------------------------------------------------------------------
(* The answers come back in the order of the calls they belong to, each    *)
(* one at most once: the link is read front to back and never rewound.     *)
InOrder ==
    \A p, q \in Ids :
        (p < q /\ status[p] = "replied" /\ status[q] = "replied")
            => upto[p] < from[q]

(* A call returns its own answer unless an earlier call of the same        *)
(* command was abandoned: read_response matches answers to calls by the    *)
(* command byte alone, and only abandoned calls leave answers behind.      *)
OwnUnlessAbandoned ==
    \A q \in Ids :
        status[q] = "replied" =>
            \/ from[q] = q
            \/ \E p \in 1..(q - 1) : cmd[p] = cmd[q] /\ status[p] = "failed"
=============================================================================
