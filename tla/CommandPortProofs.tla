------------------------- MODULE CommandPortProofs -------------------------
(***************************************************************************)
(* What follows from the command port alone, for any number of calls and   *)
(* any set of commands: a call returns its own answer unless an earlier    *)
(* call of the same command was abandoned.                                 *)
(***************************************************************************)
EXTENDS CommandPort, TLAPS

(* Only the last call may be open or have panicked.                        *)
OlderEnded == \A q \in Ids : q < last => status[q] \in {"replied", "failed"}

(* An answer is that of a call of the same command, made no later.         *)
SameCommand ==
    \A q \in Ids :
        status[q] = "replied" =>
            /\ from[q] \in Ids
            /\ from[q] <= upto[q]
            /\ upto[q] <= q
            /\ cmd[from[q]] = cmd[q]

Inv == TypeOK /\ OlderEnded /\ SameCommand /\ InOrder /\ OwnUnlessAbandoned

-----------------------------------------------------------------------------
LEMMA InitInv == MaxCalls \in Nat /\ Init => Inv
BY DEF Init, Inv, TypeOK, OlderEnded, SameCommand, InOrder,
       OwnUnlessAbandoned, Ids, Statuses

LEMMA BeginInv ==
    ASSUME MaxCalls \in Nat, Inv, NEW c \in Commands,
           NEW s \in {"open", "failed"}, Begin(c, s)
    PROVE  Inv'
<1> USE DEF Inv, TypeOK, Ids, Statuses, Begin
<1>1. last + 1 \in Ids /\ last' = last + 1
  OBVIOUS
<1>2. \A q \in Ids : q # last + 1 =>
          cmd'[q] = cmd[q] /\ status'[q] = status[q]
  OBVIOUS
<1>3. cmd'[last + 1] = c /\ status'[last + 1] = s /\ from' = from
      /\ upto' = upto
  OBVIOUS
<1>4. TypeOK'
  OBVIOUS
<1>5. OlderEnded'
  BY <1>1, <1>2 DEF Idle, OlderEnded
<1>6. SameCommand'
  BY <1>1, <1>2, <1>3 DEF SameCommand
<1>7. InOrder'
  BY <1>1, <1>2, <1>3 DEF InOrder
<1>8. OwnUnlessAbandoned'
  BY <1>1, <1>2, <1>3 DEF OwnUnlessAbandoned
<1> QED
  BY <1>4, <1>5, <1>6, <1>7, <1>8

LEMMA ReturnInv ==
    ASSUME MaxCalls \in Nat, Inv, NEW r \in Ids, NEW u \in Ids, Return(r, u)
    PROVE  Inv'
<1> USE DEF Inv, TypeOK, Ids, Statuses, Return
<1>1. \A q \in Ids : q # last =>
          /\ from'[q] = from[q] /\ upto'[q] = upto[q]
          /\ status'[q] = status[q]
  OBVIOUS
<1>2. /\ from'[last] = r /\ upto'[last] = u
      /\ status'[last] = "replied"
      /\ last' = last /\ cmd' = cmd
  OBVIOUS
<1>3. TypeOK'
  OBVIOUS
<1>4. OlderEnded'
  BY <1>1, <1>2 DEF OlderEnded
<1>5. SameCommand'
  BY <1>1, <1>2 DEF SameCommand
<1>6. InOrder'
  BY <1>1, <1>2 DEF InOrder
<1>7. OwnUnlessAbandoned'
  <2>1. r = last \/ \E p \in 1..(last - 1) :
            cmd[p] = cmd[last] /\ status[p] = "failed"
    <3> SUFFICES ASSUME r < last
                 PROVE  \E p \in 1..(last - 1) :
                            cmd[p] = cmd[last] /\ status[p] = "failed"
      OBVIOUS
    <3>1. CASE status[r] = "failed"
      BY <3>1
    <3>2. CASE status[r] = "replied"
      (* call r returned an older answer: its own is only now returned.    *)
      <4>1. from[r] # r
        <5>1. upto[r] < r
          BY <3>2
        <5>2. from[r] <= upto[r]
          BY <3>2 DEF SameCommand
        <5> QED
          BY <5>1, <5>2
      <4>2. \E p \in 1..(r - 1) : cmd[p] = cmd[r] /\ status[p] = "failed"
        BY <3>2, <4>1 DEF OwnUnlessAbandoned
      <4> QED
        BY <4>2
    <3> QED
      BY <3>1, <3>2 DEF OlderEnded
  <2> SUFFICES ASSUME NEW q \in Ids, status'[q] = "replied"
               PROVE  \/ from'[q] = q
                      \/ \E p \in 1..(q - 1) :
                            cmd'[p] = cmd'[q] /\ status'[p] = "failed"
    BY DEF OwnUnlessAbandoned
  <2>2. \A p \in Ids : status[p] = "failed" => status'[p] = "failed"
    BY <1>1
  <2>3. CASE q = last
    BY <1>2, <2>1, <2>2, <2>3
  <2>4. CASE q # last
    BY <1>1, <1>2, <2>2, <2>4 DEF OwnUnlessAbandoned
  <2> QED
    BY <2>3, <2>4
<1> QED
  BY <1>3, <1>4, <1>5, <1>6, <1>7

LEMMA GiveUpInv ==
    ASSUME MaxCalls \in Nat, Inv, NEW s \in {"failed", "panicked"}, GiveUp(s)
    PROVE  Inv'
<1> USE DEF Inv, TypeOK, Ids, Statuses, GiveUp
<1>1. \A q \in Ids : q # last => status'[q] = status[q]
  OBVIOUS
<1>2. status'[last] = s /\ UNCHANGED <<last, cmd, from, upto>>
  OBVIOUS
<1>3. TypeOK' /\ OlderEnded'
  BY <1>1, <1>2 DEF OlderEnded
<1>4. SameCommand' /\ InOrder'
  BY <1>1, <1>2 DEF SameCommand, InOrder
<1>5. OwnUnlessAbandoned'
  BY <1>1, <1>2 DEF OwnUnlessAbandoned
<1> QED
  BY <1>3, <1>4, <1>5

LEMMA InvNext ==
    ASSUME MaxCalls \in Nat, Inv, [Next]_vars
    PROVE  Inv'
<1>1. ASSUME NEW c \in Commands, NEW s \in {"open", "failed"}, Begin(c, s)
      PROVE  Inv'
  BY <1>1, BeginInv
<1>2. ASSUME NEW r \in Ids, NEW u \in Ids, Return(r, u)
      PROVE  Inv'
  BY <1>2, ReturnInv
<1>3. ASSUME NEW s \in {"failed", "panicked"}, GiveUp(s)
      PROVE  Inv'
  BY <1>3, GiveUpInv
<1>4. CASE UNCHANGED vars
  BY <1>4 DEF vars, Inv, TypeOK, OlderEnded, SameCommand, InOrder,
              OwnUnlessAbandoned
<1> QED
  BY <1>1, <1>2, <1>3, <1>4 DEF Next

(* A port whose calls are matched by command alone returns to every call   *)
(* its own answer, unless an earlier call of that command was abandoned.   *)
THEOREM PortOwnUnlessAbandoned ==
    ASSUME MaxCalls \in Nat
    PROVE  Spec => [](TypeOK /\ InOrder /\ OwnUnlessAbandoned)
<1>1. Init => Inv
  BY InitInv
<1>2. Inv /\ [Next]_vars => Inv'
  BY InvNext
<1>3. Inv => TypeOK /\ InOrder /\ OwnUnlessAbandoned
  BY DEF Inv
<1> QED
  BY <1>1, <1>2, <1>3, PTL DEF Spec
=============================================================================
