-------------------------- MODULE ReaderPortProofs --------------------------
(***************************************************************************)
(* What every operation built on the reader's port can rely on: the        *)
(* invariant of the port, an answer only from a call that was served, and  *)
(* no call but the last one that waits.                                    *)
(***************************************************************************)
EXTENDS ReaderPort, CommandPortProofs

NoPanic == \A q \in Ids : status[q] # "panicked"
ReaderInv == Inv /\ ReaderTypeOK /\ NoPanic

(* No step undoes what has come of a call, nor what was answered to it.    *)
HistoryKept ==
    /\ served' \in Nat /\ served <= served'
    /\ \A q \in Ids : status[q] \in {"replied", "failed"} =>
          cmd'[q] = cmd[q] /\ status'[q] = status[q]
    /\ \A q \in Ids : q <= served => answer'[q] = answer[q]

LEMMA ReaderInitInv == ReaderInit => ReaderInv
<1> SUFFICES ASSUME ReaderInit
             PROVE  ReaderInv
  OBVIOUS
<1>1. Inv
  BY CallsAssumption, InitInv DEF ReaderInit
<1>2. ReaderTypeOK /\ NoPanic
  BY CallsAssumption DEF ReaderInit, Init, ReaderTypeOK, NoPanic, Ids
<1> QED
  BY <1>1, <1>2 DEF ReaderInv

(* Only the last call waits: once it has ended the connector is idle.      *)
LEMMA EndedIsIdle ==
    ASSUME ReaderInv, last \in Ids => status[last] # "open"
    PROVE  Idle
BY CallsAssumption
   DEF ReaderInv, Inv, NoPanic, OlderEnded, Idle, TypeOK, Ids, Statuses

LEMMA ReaderBegin ==
    ASSUME ReaderInv, NEW c \in Commands, NEW s \in {"open", "failed"},
           Begin(c, s), UNCHANGED readerVars
    PROVE  /\ ReaderInv' /\ HistoryKept
           /\ last + 1 \in Ids /\ last' = last + 1
           /\ cmd'[last'] = c /\ status'[last'] = s
           /\ answer[last'] = <<>>
           /\ \A q \in Ids : q # last' => cmd'[q] = cmd[q]
<1>1. Inv'
  BY CallsAssumption, BeginInv DEF ReaderInv
<1>2. /\ last + 1 \in Ids /\ last' = last + 1
      /\ cmd'[last'] = c /\ status'[last'] = s
      /\ \A q \in Ids : q # last' => cmd'[q] = cmd[q] /\ status'[q] = status[q]
  BY CallsAssumption DEF ReaderInv, Inv, TypeOK, Begin, Ids
<1>3. answer[last'] = <<>>
  BY <1>2, CallsAssumption DEF ReaderInv, ReaderTypeOK, Inv, TypeOK, Ids
<1>4. ReaderTypeOK'
  BY <1>2, CallsAssumption
     DEF ReaderInv, ReaderTypeOK, Inv, TypeOK, readerVars, Ids
<1>5. NoPanic'
  BY <1>2 DEF ReaderInv, NoPanic, Ids
<1>6. HistoryKept
  BY <1>2, <1>4, CallsAssumption
     DEF HistoryKept, ReaderInv, ReaderTypeOK, Inv, TypeOK, readerVars, Ids
<1> QED
  BY <1>1, <1>2, <1>3, <1>4, <1>5, <1>6 DEF ReaderInv

LEMMA ReaderServe ==
    ASSUME ReaderInv, NEW a, Serve(a)
    PROVE  /\ ReaderInv' /\ HistoryKept
           /\ served' = served + 1 /\ served + 1 \in Ids
           /\ answer[served + 1] = <<>> /\ answer'[served + 1] = a
           /\ \A q \in Ids : q # served + 1 => answer'[q] = answer[q]
<1>1. Inv'
  BY DEF Serve, vars, ReaderInv, Inv, TypeOK, OlderEnded, SameCommand,
         InOrder, OwnUnlessAbandoned
<1>2. served \in Nat /\ served + 1 <= last /\ served + 1 \in Ids
  BY CallsAssumption
     DEF Serve, ReaderInv, ReaderTypeOK, Inv, TypeOK, Ids
<1>3. \A q \in Ids : answer[q] # <<>> => q <= served
  BY DEF ReaderInv, ReaderTypeOK
<1>4. answer[served + 1] = <<>>
  BY <1>2, <1>3, CallsAssumption DEF Ids
<1>5. /\ answer'[served + 1] = a
      /\ \A q \in Ids : q # served + 1 => answer'[q] = answer[q]
  BY <1>2 DEF Serve, ReaderInv, ReaderTypeOK
<1>6. ReaderTypeOK'
  <2>1. answer' = [q \in Ids |-> answer'[q]]
    BY DEF Serve, ReaderInv, ReaderTypeOK
  <2>2. served' = served + 1 /\ last' = last /\ served' \in 0..last'
    BY <1>2 DEF Serve, vars, ReaderInv, Inv, TypeOK
  <2>3. ASSUME NEW q \in Ids, answer'[q] # <<>>
        PROVE  q <= served'
    BY <2>2, <2>3, <1>2, <1>3, <1>5, CallsAssumption DEF Ids
  <2> QED
    BY <2>1, <2>2, <2>3 DEF ReaderTypeOK
<1>7. NoPanic'
  BY DEF Serve, vars, ReaderInv, NoPanic
<1>8. HistoryKept
  BY <1>2, <1>5, CallsAssumption DEF HistoryKept, Serve, vars, Ids
<1> QED
  BY <1>1, <1>2, <1>4, <1>5, <1>6, <1>7, <1>8 DEF ReaderInv, Serve

LEMMA ReaderReturn ==
    ASSUME ReaderInv, NEW r \in Ids, NEW u \in Ids, Answered(r, u)
    PROVE  /\ ReaderInv' /\ HistoryKept
           /\ last \in Ids /\ status[last] = "open"
           /\ status'[last] = "replied"
           /\ cmd[r] = cmd[last] /\ answer[r] # <<>>
           /\ UNCHANGED <<last, cmd, served, answer>>
<1> USE DEF Answered, readerVars
<1>1. Inv'
  BY CallsAssumption, ReturnInv DEF ReaderInv
<1>2. /\ last \in Ids /\ status[last] = "open"
      /\ status'[last] = "replied"
      /\ cmd[r] = cmd[last] /\ answer[r] # <<>>
      /\ UNCHANGED <<last, cmd, served, answer>>
      /\ \A q \in Ids : q # last => status'[q] = status[q]
  BY DEF ReaderInv, Inv, TypeOK, Return
<1>3. ReaderTypeOK' /\ NoPanic'
  BY <1>2 DEF ReaderInv, ReaderTypeOK, NoPanic
<1>4. HistoryKept
  BY <1>2, <1>3 DEF HistoryKept, ReaderInv, ReaderTypeOK, Inv, TypeOK
<1> QED
  BY <1>1, <1>2, <1>3, <1>4 DEF ReaderInv

LEMMA ReaderGiveUp ==
    ASSUME ReaderInv, GiveUp("failed"), UNCHANGED readerVars
    PROVE  /\ ReaderInv' /\ HistoryKept
           /\ last \in Ids /\ status[last] = "open"
           /\ status'[last] = "failed"
           /\ UNCHANGED <<last, cmd, served, answer>>
<1>1. Inv'
  BY CallsAssumption, GiveUpInv DEF ReaderInv
<1>2. /\ last \in Ids /\ status[last] = "open"
      /\ status'[last] = "failed"
      /\ UNCHANGED <<last, cmd, served, answer>>
      /\ \A q \in Ids : q # last => status'[q] = status[q]
  BY DEF ReaderInv, Inv, TypeOK, GiveUp, readerVars
<1>3. ReaderTypeOK' /\ NoPanic'
  BY <1>2 DEF ReaderInv, ReaderTypeOK, NoPanic
<1>4. HistoryKept
  BY <1>2, <1>3 DEF HistoryKept, ReaderInv, ReaderTypeOK, Inv, TypeOK
<1> QED
  BY <1>1, <1>2, <1>3, <1>4 DEF ReaderInv

LEMMA ReaderStutter ==
    ASSUME ReaderInv, UNCHANGED <<vars, readerVars>>
    PROVE  ReaderInv' /\ HistoryKept
BY DEF vars, readerVars, ReaderInv, ReaderTypeOK, NoPanic, Inv, TypeOK,
       OlderEnded, SameCommand, InOrder, OwnUnlessAbandoned, HistoryKept
=============================================================================
