---------------------------- MODULE SetupProofs ----------------------------
(***************************************************************************)
(* What setup_reader has passed holds: for any number of calls and runs,   *)
(* any answers and any delays, on any link that implements the port.       *)
(*                                                                         *)
(* That a late answer does no harm rests on two facts about the reader:    *)
(* its settings only ever become the wanted ones (nobody else writes       *)
(* them), and it answers in the order in which it carries out commands.    *)
(* So what an answer says of a setting stays true (Truthful), whichever    *)
(* call it is returned to.                                                 *)
(***************************************************************************)
EXTENDS Setup, ReaderPortProofs

(* What the reader has answered is true of its settings, since and still.  *)
Truthful ==
    \A q \in Ids, k \in Keys :
        /\ (cmd[q] = Settings[k].get /\ answer[q] = <<"wanted">>)
               => device[k] = "wanted"
        /\ cmd[q] = Settings[k].set
               => answer[q] \in {<<>>, <<"success">>, <<"refused">>}
        /\ (cmd[q] = Settings[k].set /\ answer[q] = <<"success">>)
               => device[k] = "wanted"

(* setup_reader waits for the answer to the command it is at.              *)
WaitsForCommand ==
    (last \in Ids /\ status[last] = "open")
        => result = "running" /\ cmd[last] = Command

(* at, op and result go together.                                          *)
ControlOK ==
    /\ region \in Wanted
    /\ device \in [Keys -> {"wanted", "other"}]
    /\ at \in 1..5
    /\ op \in {"get", "set"}
    /\ result \in {"none", "running", "ok", "failed", "panicked"}
    /\ result = "ok" <=> at = 5

SetupInv ==
    /\ ReaderInv
    /\ ControlOK
    /\ Truthful
    /\ WaitsForCommand
    /\ PassedSettingsHold

-----------------------------------------------------------------------------
(* No command reads or writes two settings.                                *)
LEMMA KeysAre == Keys = 1..4 /\ Len(Settings) = 4
BY DEF Keys, Settings

LEMMA CommandsDiffer ==
    /\ \A j, k \in Keys : Settings[j].get # Settings[k].set
    /\ \A j, k \in Keys :
           (\/ Settings[j].get = Settings[k].get
            \/ Settings[j].set = Settings[k].set)
              => j = k
<1>1. \A k \in Keys : k = 1 \/ k = 2 \/ k = 3 \/ k = 4
  BY KeysAre
<1> QED
  BY <1>1 DEF Settings

LEMMA CommandInCommands ==
    ASSUME SetupInv, result = "running"
    PROVE  Command \in Commands /\ at \in Keys
<1>1. at \in Keys
  BY KeysAre DEF SetupInv, ControlOK
<1> QED
  BY <1>1, SettingsAssumption DEF Command

(* What misled setup_reader once, by a refusal, is there for ever: no      *)
(* answer is taken back.                                                   *)
LEMMA PassedStays ==
    ASSUME PassedSettingsHold,
           at' <= at, at \in Nat, at' \in Nat, region' = region,
           \A k \in Keys : device[k] = "wanted" => device'[k] = "wanted",
           \A q \in Ids : answer[q] # <<>> =>
               answer'[q] = answer[q] /\ cmd'[q] = cmd[q]
    PROVE  PassedSettingsHold'
<1> SUFFICES ASSUME NEW k \in Keys, k < at'
             PROVE  device'[k] = "wanted" \/ Misled(k)'
  BY DEF PassedSettingsHold
<1>1. k < at
  BY KeysAre
<1>2. CASE device[k] = "wanted"
  BY <1>2
<1>3. CASE Misled(k)
  <2>1. PICK q \in Ids :
            /\ answer[q] = <<"refused">>
            /\ \/ cmd[q] = Settings[k].set
               \/ cmd[q] = Settings[k].get /\ Same(k, answer[q])
    BY <1>3 DEF Misled
  <2>2. answer'[q] = answer[q] /\ cmd'[q] = cmd[q]
    BY <2>1
  <2> QED
    BY <2>1, <2>2 DEF Misled, Same
<1> QED
  BY <1>1, <1>2, <1>3 DEF PassedSettingsHold

-----------------------------------------------------------------------------
LEMMA SetupInitInv == SetupInit => SetupInv
<1> SUFFICES ASSUME SetupInit
             PROVE  SetupInv
  OBVIOUS
<1>1. ReaderInv
  BY ReaderInitInv DEF SetupInit
<1>2. ControlOK /\ PassedSettingsHold
  BY KeysAre DEF SetupInit, ControlOK, PassedSettingsHold
<1>3. Truthful /\ WaitsForCommand
  BY CallsAssumption
     DEF SetupInit, ReaderInit, Init, Truthful, WaitsForCommand, Ids
<1> QED
  BY <1>1, <1>2, <1>3 DEF SetupInv

(* The reader carries out a command: it says what is so, and then it is.   *)
LEMMA ServeSetup ==
    ASSUME SetupInv, NEW k \in Keys, NEW a,
           Serve(a), UNCHANGED setupVars,
           device' \in [Keys -> {"wanted", "other"}],
           \A j \in Keys : device[j] = "wanted" => device'[j] = "wanted",
           \/ /\ cmd[served + 1] = Settings[k].get
              /\ a = <<"wanted">> => device'[k] = "wanted"
           \/ /\ cmd[served + 1] = Settings[k].set
              /\ a \in {<<>>, <<"success">>, <<"refused">>}
              /\ a = <<"success">> => device'[k] = "wanted"
    PROVE  SetupInv'
<1>1. /\ ReaderInv'
      /\ served + 1 \in Ids
      /\ answer[served + 1] = <<>> /\ answer'[served + 1] = a
      /\ \A q \in Ids : q # served + 1 => answer'[q] = answer[q]
  BY ReaderServe DEF SetupInv
<1>2. UNCHANGED <<last, cmd, status>>
  BY DEF Serve, vars
<1>3. ControlOK' /\ WaitsForCommand'
  BY <1>2 DEF SetupInv, ControlOK, WaitsForCommand, Command, setupVars
<1>4. PassedSettingsHold'
  <2>1. at \in Nat /\ UNCHANGED <<at, region>>
    BY DEF SetupInv, ControlOK, setupVars
  <2>2. \A q \in Ids : answer[q] # <<>> =>
            answer'[q] = answer[q] /\ cmd'[q] = cmd[q]
    BY <1>1, <1>2
  <2> QED
    BY <2>1, <2>2, PassedStays DEF SetupInv
<1>5. Truthful'
  <2> SUFFICES ASSUME NEW q \in Ids, NEW j \in Keys
               PROVE
                 /\ (cmd[q] = Settings[j].get /\ answer'[q] = <<"wanted">>)
                        => device'[j] = "wanted"
                 /\ cmd[q] = Settings[j].set
                        => answer'[q] \in {<<>>, <<"success">>, <<"refused">>}
                 /\ (cmd[q] = Settings[j].set /\ answer'[q] = <<"success">>)
                        => device'[j] = "wanted"
    BY <1>2 DEF Truthful
  <2>1. CASE q = served + 1
    BY <2>1, <1>1, CommandsDiffer
  <2>2. CASE q # served + 1
    BY <2>2, <1>1 DEF SetupInv, Truthful
  <2> QED
    BY <2>1, <2>2
<1> QED
  BY <1>1, <1>3, <1>4, <1>5 DEF SetupInv

(* A call begins: nothing has been answered to it.                         *)
LEMMA BeginSetup ==
    ASSUME SetupInv, result = "running", NEW s \in {"open", "failed"},
           Begin(Command, s), UNCHANGED <<readerVars, device, at, op, region>>,
           result' = IF s = "open" THEN "running" ELSE "failed"
    PROVE  SetupInv'
<1>1. Command \in Commands /\ at \in Keys
  BY CommandInCommands
<1> DEFINE c == Command
<1>2. /\ ReaderInv'
      /\ last + 1 \in Ids /\ last' = last + 1
      /\ cmd'[last'] = Command /\ status'[last'] = s
      /\ answer[last'] = <<>>
      /\ \A q \in Ids : q # last' => cmd'[q] = cmd[q]
  BY <1>1, ReaderBegin DEF SetupInv
<1>3. answer' = answer
  BY DEF readerVars
<1>4. ControlOK' /\ WaitsForCommand'
  BY <1>1, <1>2, KeysAre
     DEF SetupInv, ControlOK, WaitsForCommand, Command
<1>5. PassedSettingsHold'
  <2>1. at \in Nat /\ UNCHANGED <<at, region>>
    BY DEF SetupInv, ControlOK
  <2>2. \A q \in Ids : answer[q] # <<>> =>
            answer'[q] = answer[q] /\ cmd'[q] = cmd[q]
    BY <1>2, <1>3
  <2> QED
    BY <2>1, <2>2, PassedStays DEF SetupInv
<1>6. Truthful'
  BY <1>2, <1>3 DEF SetupInv, Truthful
<1> QED
  BY <1>2, <1>4, <1>5, <1>6 DEF SetupInv

(* What is left alone when the control moves on after a call has ended.    *)
LEMMA EndSetup ==
    ASSUME SetupInv, ReaderInv', ControlOK', last \in Ids,
           status'[last] # "open",
           UNCHANGED <<last, cmd, served, answer, device, region>>
    PROVE  Truthful' /\ WaitsForCommand'
BY DEF SetupInv, Truthful, WaitsForCommand

LEMMA GiveUpSetup ==
    ASSUME SetupInv, CallGivesUp
    PROVE  SetupInv'
<1>1. /\ ReaderInv'
      /\ last \in Ids /\ status'[last] = "failed"
      /\ UNCHANGED <<last, cmd, served, answer>>
  BY ReaderGiveUp DEF CallGivesUp, SetupInv
<1>2. UNCHANGED <<device, at, op, region>> /\ result' = "failed"
  BY DEF CallGivesUp, Finish
<1>3. ControlOK'
  BY <1>2, CommandInCommands, KeysAre DEF SetupInv, ControlOK, CallGivesUp
<1>4. PassedSettingsHold'
  BY <1>1, <1>2, PassedStays DEF SetupInv, ControlOK
<1> QED
  BY <1>1, <1>2, <1>3, <1>4, EndSetup DEF SetupInv

(* setup_reader goes on: the setting it leaves is the wanted one, or a     *)
(* refusal has misled it.                                                  *)
LEMMA GoOnSetup ==
    ASSUME SetupInv, result = "running", ReaderInv', last \in Ids,
           status'[last] # "open",
           UNCHANGED <<last, cmd, served, answer, device>>,
           GoOn, device[at] = "wanted" \/ Misled(at)
    PROVE  SetupInv'
<1>1. at \in Keys /\ at \in 1..4
  BY CommandInCommands, KeysAre
<1>2. at' = at + 1 /\ region' = region
  BY DEF GoOn
<1>3. ControlOK'
  BY <1>1, KeysAre DEF SetupInv, ControlOK, GoOn
<1>4. PassedSettingsHold'
  <2> SUFFICES ASSUME NEW k \in Keys, k < at'
               PROVE  device'[k] = "wanted" \/ Misled(k)'
    BY DEF PassedSettingsHold
  <2>1. k < at \/ k = at
    BY <1>1, <1>2, KeysAre
  <2>2. device[k] = "wanted" \/ Misled(k)
    BY <2>1 DEF SetupInv, PassedSettingsHold
  <2> QED
    BY <2>2, <1>2 DEF Misled, Same
<1>5. Truthful' /\ WaitsForCommand'
  BY <1>2, <1>3, EndSetup
<1> QED
  BY <1>3, <1>4, <1>5 DEF SetupInv

LEMMA GetSetup ==
    ASSUME SetupInv, GetReturns
    PROVE  SetupInv'
<1>1. PICK r \in Ids, u \in Ids :
          Answered(r, u) /\ Readable(at, answer[r]) /\ Got(answer[r])
  BY DEF GetReturns
<1>2. /\ ReaderInv'
      /\ last \in Ids /\ status[last] = "open"
      /\ status'[last] = "replied"
      /\ cmd[r] = cmd[last] /\ answer[r] # <<>>
      /\ UNCHANGED <<last, cmd, served, answer>>
  BY <1>1, ReaderReturn DEF SetupInv
<1>3. result = "running" /\ op = "get" /\ device' = device
  BY DEF GetReturns
<1>4. at \in Keys /\ cmd[r] = Settings[at].get
  BY <1>2, <1>3, CommandInCommands DEF SetupInv, WaitsForCommand, Command
<1>5. CASE Same(at, answer[r]) /\ GoOn
  <2>1. device[at] = "wanted" \/ Misled(at)
    <3>1. CASE answer[r] = <<"wanted">>
      BY <3>1, <1>4 DEF SetupInv, Truthful
    <3>2. CASE answer[r] = <<"refused">>
      BY <3>2, <1>4, <1>5 DEF Misled
    <3> QED
      BY <3>1, <3>2, <1>5 DEF Same
  <2> QED
    BY <2>1, <1>2, <1>3, <1>5, GoOnSetup
<1>6. CASE UNCHANGED <<at, region>> /\ op' \in {"get", "set"}
           /\ result' \in {"running", "failed"}
  <2>1. ControlOK'
    BY <1>3, <1>4, <1>6, KeysAre DEF SetupInv, ControlOK
  <2>2. PassedSettingsHold'
    BY <1>2, <1>3, <1>6, PassedStays DEF SetupInv, ControlOK
  <2>3. Truthful' /\ WaitsForCommand'
    BY <1>2, <1>3, <1>6, <2>1, EndSetup
  <2> QED
    BY <1>2, <2>1, <2>2, <2>3 DEF SetupInv
<1> QED
  BY <1>1, <1>3, <1>5, <1>6 DEF Got, Finish

LEMMA SetSetup ==
    ASSUME SetupInv, SetReturns
    PROVE  SetupInv'
<1>1. PICK r \in Ids, u \in Ids : Answered(r, u)
  BY DEF SetReturns
<1>2. /\ ReaderInv'
      /\ last \in Ids /\ status[last] = "open"
      /\ status'[last] = "replied"
      /\ cmd[r] = cmd[last] /\ answer[r] # <<>>
      /\ UNCHANGED <<last, cmd, served, answer>>
  BY <1>1, ReaderReturn DEF SetupInv
<1>3. result = "running" /\ op = "set" /\ device' = device /\ GoOn
  BY DEF SetReturns
<1>4. at \in Keys /\ cmd[r] = Settings[at].set
  BY <1>2, <1>3, CommandInCommands DEF SetupInv, WaitsForCommand, Command
<1>5. device[at] = "wanted" \/ Misled(at)
  BY <1>2, <1>4 DEF SetupInv, Truthful, Misled
<1> QED
  BY <1>2, <1>3, <1>5, GoOnSetup

LEMMA StartSetup ==
    ASSUME SetupInv, Start
    PROVE  SetupInv'
<1>1. /\ UNCHANGED <<last, cmd, status, served, answer, device, region>>
      /\ ReaderInv'
  BY ReaderStutter DEF Start, SetupInv, vars, readerVars
<1>2. ControlOK' /\ PassedSettingsHold'
  BY KeysAre DEF Start, SetupInv, ControlOK, PassedSettingsHold
<1>3. Truthful' /\ WaitsForCommand'
  BY <1>1 DEF SetupInv, Truthful, WaitsForCommand, Start, Idle
<1> QED
  BY <1>1, <1>2, <1>3 DEF SetupInv

LEMMA PanicSetup ==
    ASSUME SetupInv, CallPanics
    PROVE  SetupInv'
<1>1. /\ UNCHANGED <<last, cmd, status, served, answer, device, region>>
      /\ UNCHANGED <<at, op>>
      /\ ReaderInv' /\ result' = "panicked"
  BY ReaderStutter DEF CallPanics, Finish, SetupInv, vars, readerVars
<1>2. ControlOK'
  BY <1>1, CommandInCommands, KeysAre DEF SetupInv, ControlOK, CallPanics
<1>3. PassedSettingsHold'
  BY <1>1, PassedStays DEF SetupInv, ControlOK
<1>4. Truthful' /\ WaitsForCommand'
  BY <1>1 DEF SetupInv, Truthful, WaitsForCommand, CallPanics, Idle
<1> QED
  BY <1>1, <1>2, <1>3, <1>4 DEF SetupInv

-----------------------------------------------------------------------------
LEMMA StepSetup == SetupInv /\ [SetupNext]_allVars => SetupInv'
<1> SUFFICES ASSUME SetupInv, [SetupNext]_allVars
             PROVE  SetupInv'
  OBVIOUS
<1>1. ASSUME NEW k \in Keys, ServesGet(k)
      PROVE  SetupInv'
  <2>1. PICK a \in {<<device[k]>>, <<"refused">>, <<>>} : Serve(a)
    BY <1>1 DEF ServesGet
  <2>2. UNCHANGED <<device, setupVars>> /\ cmd[served + 1] = Settings[k].get
    BY <1>1 DEF ServesGet
  <2>3. a = <<"wanted">> => device'[k] = "wanted"
    BY <2>1, <2>2
  <2> QED
    BY <2>1, <2>2, <2>3, ServeSetup DEF SetupInv, ControlOK
<1>2. ASSUME NEW k \in Keys, ServesSet(k)
      PROVE  SetupInv'
  <2>1. cmd[served + 1] = Settings[k].set /\ UNCHANGED setupVars
    BY <1>2 DEF ServesSet
  <2>2. CASE /\ \E a \in {<<"success">>, <<>>} : Serve(a)
             /\ device' = [device EXCEPT ![k] = "wanted"]
    <3>1. PICK a \in {<<"success">>, <<>>} : Serve(a)
      BY <2>2
    <3>2. /\ device' \in [Keys -> {"wanted", "other"}]
          /\ device'[k] = "wanted"
          /\ \A j \in Keys : device[j] = "wanted" => device'[j] = "wanted"
      BY <2>2 DEF SetupInv, ControlOK
    <3> QED
      BY <2>1, <3>1, <3>2, ServeSetup
  <2>3. CASE /\ \E a \in {<<"refused">>, <<>>} : Serve(a)
             /\ UNCHANGED device
    <3>1. PICK a \in {<<"refused">>, <<>>} : Serve(a)
      BY <2>3
    <3>2. device' = device /\ device' \in [Keys -> {"wanted", "other"}]
      BY <2>3 DEF SetupInv, ControlOK
    <3>3. a # <<"success">>
      BY <3>1
    <3> QED
      BY <2>1, <3>1, <3>2, <3>3, ServeSetup
  <2> QED
    BY <1>2, <2>2, <2>3 DEF ServesSet
<1>3. CASE Start
  BY <1>3, StartSetup
<1>4. CASE Call
  BY <1>4, BeginSetup DEF Call, setupVars
<1>5. CASE CallFails
  BY <1>5, BeginSetup DEF CallFails, Finish
<1>6. CASE CallPanics
  BY <1>6, PanicSetup
<1>7. CASE CallGivesUp
  BY <1>7, GiveUpSetup
<1>8. CASE GetReturns
  BY <1>8, GetSetup
<1>9. CASE SetReturns
  BY <1>9, SetSetup
<1>10. CASE UNCHANGED allVars
  <2>1. ReaderInv'
    BY <1>10, ReaderStutter DEF allVars, SetupInv
  <2> QED
    BY <1>10, <2>1
       DEF allVars, vars, readerVars, setupVars, SetupInv, ControlOK, Truthful,
           WaitsForCommand, Command, PassedSettingsHold, Misled, Same
<1> QED
  BY <1>1, <1>2, <1>3, <1>4, <1>5, <1>6, <1>7, <1>8, <1>9, <1>10
     DEF SetupNext

(* Types hold for all constants; among them that setup_reader leaves no    *)
(* call waiting when it returns.                                           *)
THEOREM SetupTypes == SetupSpec => []SetupTypeOK
<1>1. SetupInv => SetupTypeOK
  <2> SUFFICES ASSUME SetupInv
               PROVE  SetupTypeOK
    OBVIOUS
  <2>1. result # "running" => Idle
    BY EndedIsIdle DEF SetupInv, WaitsForCommand
  <2> QED
    BY <2>1, KeysAre DEF SetupInv, ControlOK, SetupTypeOK, ReaderInv, Inv
<1> QED
  BY <1>1, SetupInitInv, StepSetup, PTL DEF SetupSpec

(* As far as setup_reader has come, and wholly when it returns Ok, the     *)
(* settings are the wanted ones, unless a refusal of that very setting     *)
(* misled it: late answers, failed runs and repeated ones do not.          *)
THEOREM SetupPassedSettingsHold == SetupSpec => []PassedSettingsHold
<1>1. SetupInv => PassedSettingsHold
  BY DEF SetupInv
<1> QED
  BY <1>1, SetupInitInv, StepSetup, PTL DEF SetupSpec

-----------------------------------------------------------------------------
(* What makes setup_reader write: between the answer to its read and the   *)
(* write, the reader has nothing else to carry out, unless it was misled.  *)

Open == last \in Ids /\ status[last] = "open"

(* Nothing makes a read of the setting look different from what it is.     *)
Plain(k) ==
    /\ ~(Settings[k].get = "GetFrequencyRegion" /\ region.spectrum = "CUSTOM")
    /\ NoStale(Settings[k].get)
    /\ \A q \in Ids : cmd[q] = Settings[k].get => answer[q] # <<"refused">>

ReadsAnswered ==
    \A q \in Ids, k \in Keys :
        cmd[q] = Settings[k].get
            => answer[q] \in {<<>>, <<"wanted">>, <<"other">>, <<"refused">>}

(* The last answer is true of the reader as it is.                         *)
JustRead ==
    \A k \in Keys :
        (/\ served \in Ids
         /\ cmd[served] = Settings[k].get
         /\ answer[served] = <<"other">>) => device[k] = "other"

WriteDue ==
    (result = "running" /\ op = "set" /\ ~Open /\ Plain(at))
        => served = last /\ device[at] = "other"

WriteInv == SetupInv /\ ReadsAnswered /\ JustRead /\ WriteDue

LEMMA PlainBefore ==
    ASSUME ReaderInv, HistoryKept, region' = region, NEW k \in Keys, Plain(k)',
           \A q \in Ids : q <= last => cmd'[q] = cmd[q]
    PROVE  Plain(k)
<1>1. NoStale(Settings[k].get)
  BY DEF Plain, NoStale, HistoryKept
<1>2. ASSUME NEW q \in Ids, cmd[q] = Settings[k].get
      PROVE  answer[q] # <<"refused">>
  <2> SUFFICES ASSUME answer[q] = <<"refused">>
               PROVE  FALSE
    OBVIOUS
  <2>1. q <= served /\ q <= last
    <3>1. answer[q] # <<>>
      OBVIOUS
    <3>2. q <= served /\ served <= last /\ served \in Nat /\ last \in Nat
      BY <3>1 DEF ReaderInv, ReaderTypeOK, Inv, TypeOK
    <3> QED
      BY <3>2, CallsAssumption DEF Ids
  <2>2. answer'[q] = answer[q] /\ cmd'[q] = cmd[q]
    BY <2>1 DEF HistoryKept
  <2> QED
    BY <1>2, <2>2 DEF Plain
<1> QED
  BY <1>1, <1>2 DEF Plain

(* A step that the reader has no part in, and that leads to no write.      *)
LEMMA NoWriteStep ==
    ASSUME WriteInv, UNCHANGED <<cmd, served, answer, device>>,
           result' # "running" \/ op' = "get"
    PROVE  ReadsAnswered' /\ JustRead' /\ WriteDue'
BY DEF WriteInv, ReadsAnswered, JustRead, WriteDue

LEMMA WriteServes ==
    ASSUME WriteInv, NEW k \in Keys, NEW a, Serve(a), UNCHANGED setupVars,
           \/ /\ cmd[served + 1] = Settings[k].get
              /\ a \in {<<device[k]>>, <<"refused">>, <<>>}
              /\ device' = device
           \/ cmd[served + 1] = Settings[k].set
    PROVE  ReadsAnswered' /\ JustRead' /\ WriteDue'
<1>1. /\ HistoryKept /\ served' = served + 1 /\ served + 1 \in Ids
      /\ answer'[served + 1] = a
      /\ \A q \in Ids : q # served + 1 => answer'[q] = answer[q]
  BY ReaderServe DEF WriteInv, SetupInv
<1>2. UNCHANGED <<last, cmd, status, at, op, result, region>>
  BY DEF Serve, vars, setupVars
<1>3. device[k] \in {"wanted", "other"}
  BY DEF WriteInv, SetupInv, ControlOK
<1>4. ReadsAnswered'
  <2> SUFFICES ASSUME NEW q \in Ids, NEW j \in Keys,
                      cmd[q] = Settings[j].get
               PROVE  answer'[q] \in
                          {<<>>, <<"wanted">>, <<"other">>, <<"refused">>}
    BY <1>2 DEF ReadsAnswered
  <2>1. CASE q = served + 1
    BY <2>1, <1>1, <1>3, CommandsDiffer
  <2>2. CASE q # served + 1
    BY <2>2, <1>1 DEF WriteInv, ReadsAnswered
  <2> QED
    BY <2>1, <2>2
<1>5. JustRead'
  <2> SUFFICES ASSUME NEW j \in Keys, cmd[served + 1] = Settings[j].get,
                      a = <<"other">>
               PROVE  device'[j] = "other"
    BY <1>1, <1>2 DEF JustRead
  <2>1. cmd[served + 1] = Settings[k].get /\ j = k
    BY CommandsDiffer
  <2>2. a = <<device[k]>> /\ device' = device
    BY <2>1, CommandsDiffer
  <2> QED
    BY <2>1, <2>2
<1>6. WriteDue'
  <2> SUFFICES ASSUME result = "running", op = "set", ~Open, Plain(at)'
               PROVE  FALSE
    BY <1>2 DEF WriteDue, Open
  <2>1. at \in Keys
    BY CommandInCommands DEF WriteInv
  <2>2. Plain(at)
    <3>1. ReaderInv
      BY DEF WriteInv, SetupInv
    <3> QED
      BY <1>1, <1>2, <2>1, <3>1, PlainBefore
  <2>3. served = last
    BY <2>2 DEF WriteInv, WriteDue
  <2> QED
    BY <2>3 DEF Serve, WriteInv, SetupInv, ReaderInv, ReaderTypeOK, Inv, TypeOK
<1> QED
  BY <1>4, <1>5, <1>6

LEMMA WriteBegin ==
    ASSUME WriteInv, Call \/ CallFails
    PROVE  ReadsAnswered' /\ JustRead' /\ WriteDue'
<1>1. PICK s \in {"open", "failed"} :
          /\ Begin(Command, s)
          /\ result' = IF s = "open" THEN "running" ELSE "failed"
          /\ UNCHANGED <<readerVars, device>>
  BY DEF Call, CallFails, Finish, setupVars
<1>2. Command \in Commands
  BY CommandInCommands DEF Call, CallFails, WriteInv
<1>3. /\ last + 1 \in Ids /\ last' = last + 1
      /\ status'[last'] = s /\ answer[last'] = <<>>
      /\ \A q \in Ids : q # last' => cmd'[q] = cmd[q]
  BY <1>1, <1>2, ReaderBegin DEF WriteInv, SetupInv
<1>4. UNCHANGED <<served, answer, device>> /\ served # last'
  BY <1>1, <1>3
     DEF readerVars, WriteInv, SetupInv, ReaderInv, ReaderTypeOK, Inv, TypeOK
<1>5. ReadsAnswered' /\ JustRead'
  BY <1>3, <1>4 DEF WriteInv, ReadsAnswered, JustRead
<1>6. result' = "running" => Open'
  BY <1>1, <1>3 DEF Open
<1> QED
  BY <1>5, <1>6 DEF WriteDue

(* The answer to a read that is not misleading is the call's own, so that  *)
(* the reader has done all it was told when setup_reader compares it.      *)
LEMMA WriteGet ==
    ASSUME WriteInv, GetReturns
    PROVE  ReadsAnswered' /\ JustRead' /\ WriteDue'
<1>1. PICK r \in Ids, u \in Ids :
          Answered(r, u) /\ Readable(at, answer[r]) /\ Got(answer[r])
  BY DEF GetReturns
<1>2. /\ ReaderInv' /\ HistoryKept
      /\ last \in Ids /\ status[last] = "open"
      /\ status'[last] = "replied"
      /\ cmd[r] = cmd[last] /\ answer[r] # <<>>
      /\ UNCHANGED <<last, cmd, served, answer>>
  BY <1>1, ReaderReturn DEF WriteInv, SetupInv
<1>3. result = "running" /\ op = "get" /\ device' = device
  BY DEF GetReturns
<1>4. at \in Keys /\ cmd[r] = Settings[at].get
  BY <1>2, <1>3, CommandInCommands
     DEF WriteInv, SetupInv, WaitsForCommand, Command
<1>5. ReadsAnswered' /\ JustRead'
  BY <1>2, <1>3 DEF WriteInv, ReadsAnswered, JustRead
<1>6. CASE ~ Got(answer[r]) \/ op' = "get" \/ result' # "running"
  BY <1>1, <1>5, <1>6 DEF WriteDue
<1>7. CASE op' = "set" /\ result' = "running"
  <2>1. /\ ~Same(at, answer[r]) /\ ~Unchecked(at, answer[r])
        /\ UNCHANGED <<at, region>>
    BY <1>1, <1>3, <1>7 DEF Got, GoOn, Finish
  <2> SUFFICES ASSUME Plain(at)'
               PROVE  served = last /\ device[at] = "other"
    BY <1>2, <1>3, <1>5, <2>1 DEF WriteDue
  <2>2. Plain(at)
    <3>1. ReaderInv
      BY DEF WriteInv, SetupInv
    <3> QED
      BY <1>2, <1>4, <2>1, <3>1, PlainBefore DEF Plain
  <2>3. r = last
    <3>1. from'[last] = r
      BY <1>1, <1>2
         DEF Answered, Return, WriteInv, SetupInv, ReaderInv, Inv, TypeOK
    <3>2. \/ from'[last] = last
          \/ \E p \in 1..(last - 1) :
                cmd'[p] = cmd'[last] /\ status'[p] = "failed"
      BY <1>2 DEF ReaderInv, Inv, OwnUnlessAbandoned
    <3>3. \A p \in 1..(last - 1) : p \in Ids
      BY <1>2, CallsAssumption DEF Ids
    <3> QED
      BY <1>2, <1>4, <2>1, <3>1, <3>2, <3>3 DEF Plain, NoStale
  <2>4. served = last
    BY <1>2, <2>3, CallsAssumption
       DEF WriteInv, SetupInv, ReaderInv, ReaderTypeOK, Inv, TypeOK, Ids
  <2>5. answer[r] = <<"other">>
    <3>1. answer[r] \in {<<"wanted">>, <<"other">>, <<"refused">>}
      BY <1>2, <1>4 DEF WriteInv, ReadsAnswered
    <3>2. answer[r] # <<"refused">>
      BY <1>4, <2>2 DEF Plain
    <3>3. answer[r] # <<"wanted">>
      BY <2>1, <2>2 DEF Plain, Same
    <3> QED
      BY <3>1, <3>2, <3>3
  <2> QED
    BY <1>2, <1>4, <2>3, <2>4, <2>5 DEF WriteInv, JustRead
<1> QED
  BY <1>1, <1>3, <1>6, <1>7, <1>5 DEF Got, GoOn, Finish

LEMMA WriteInit == SetupInit => WriteInv
<1> SUFFICES ASSUME SetupInit
             PROVE  WriteInv
  OBVIOUS
<1>1. ReadsAnswered /\ JustRead /\ WriteDue
  BY CallsAssumption
     DEF SetupInit, ReaderInit, ReadsAnswered, JustRead, WriteDue, Ids
<1> QED
  BY <1>1, SetupInitInv DEF WriteInv

LEMMA WriteStep == WriteInv /\ [SetupNext]_allVars => WriteInv'
<1> SUFFICES ASSUME WriteInv, [SetupNext]_allVars
             PROVE  ReadsAnswered' /\ JustRead' /\ WriteDue'
  BY StepSetup DEF WriteInv
<1>1. ASSUME NEW k \in Keys, ServesGet(k)
      PROVE  ReadsAnswered' /\ JustRead' /\ WriteDue'
  BY <1>1, WriteServes DEF ServesGet
<1>2. ASSUME NEW k \in Keys, ServesSet(k)
      PROVE  ReadsAnswered' /\ JustRead' /\ WriteDue'
  <2>1. PICK a : Serve(a)
    BY <1>2 DEF ServesSet
  <2> QED
    BY <1>2, <2>1, WriteServes DEF ServesSet
<1>3. CASE Start
  BY <1>3, NoWriteStep DEF Start, vars, readerVars
<1>4. CASE Call \/ CallFails
  BY <1>4, WriteBegin
<1>5. CASE CallPanics
  BY <1>5, NoWriteStep DEF CallPanics, Finish, vars, readerVars
<1>6. CASE CallGivesUp
  BY <1>6, NoWriteStep DEF CallGivesUp, Finish, GiveUp, readerVars
<1>7. CASE GetReturns
  BY <1>7, WriteGet
<1>8. CASE SetReturns
  <2>1. UNCHANGED <<cmd, served, answer, device>>
    BY <1>8 DEF SetReturns, Answered, Return, readerVars
  <2>2. result' # "running" \/ op' = "get"
    BY <1>8 DEF SetReturns, GoOn
  <2> QED
    BY <2>1, <2>2, NoWriteStep
<1>9. CASE UNCHANGED allVars
  BY <1>9 DEF allVars, vars, readerVars, setupVars, WriteInv, ReadsAnswered,
              JustRead, WriteDue, Open, Plain, NoStale
<1> QED
  BY <1>1, <1>2, <1>3, <1>4, <1>5, <1>6, <1>7, <1>8, <1>9 DEF SetupNext

(* setup_reader writes a setting only if the reader holds another value of *)
(* it at that moment, however many calls were abandoned and runs failed    *)
(* before: only reads of that very setting can mislead it.                 *)
THEOREM SetupWritesAreNeeded == SetupSpec => WritesAreNeeded
<1> DEFINE W == \A k \in Keys :
          (/\ last' > last
           /\ ~(Settings[k].get = "GetFrequencyRegion"
                   /\ region.spectrum = "CUSTOM")
           /\ cmd'[last'] = Settings[k].set
           /\ NoStale(Settings[k].get)
           /\ \A q \in Ids :
                 cmd[q] = Settings[k].get => answer[q] # <<"refused">>)
             => device[k] = "other"
<1>1. ASSUME WriteInv, [SetupNext]_allVars
      PROVE  [W]_allVars
  <2> SUFFICES ASSUME NEW k \in Keys, last' > last, Plain(k),
                      cmd'[last'] = Settings[k].set
               PROVE  device[k] = "other"
    BY DEF Plain
  <2>1. last \in Nat
    BY <1>1 DEF WriteInv, SetupInv, ReaderInv, Inv, TypeOK
  <2>2. Call \/ CallFails
    <3>1. last' # last
      BY <2>1
    <3> QED
      BY <1>1, <3>1
         DEF SetupNext, ServesGet, ServesSet, Serve, Start, CallPanics,
             CallGivesUp, GiveUp, GetReturns, SetReturns, Answered, Return,
             allVars, vars
  <2>3. /\ result = "running" /\ at \in Keys /\ Command \in Commands
        /\ Idle /\ cmd'[last'] = Command
    <3>1. PICK s \in {"open", "failed"} : Begin(Command, s)
      BY <2>2 DEF Call, CallFails
    <3>2. result = "running" /\ UNCHANGED readerVars
      BY <2>2 DEF Call, CallFails
    <3>3. Command \in Commands /\ at \in Keys
      BY <1>1, <3>2, CommandInCommands DEF WriteInv
    <3>4. cmd'[last'] = Command
      BY <1>1, <3>1, <3>2, <3>3, ReaderBegin DEF WriteInv, SetupInv
    <3> QED
      BY <3>1, <3>2, <3>3, <3>4 DEF Begin
  <2>4. op = "set" /\ at = k
    BY <2>3, CommandsDiffer, <1>1 DEF Command, WriteInv, SetupInv, ControlOK
  <2>5. ~Open
    BY <2>3 DEF Open, Idle
  <2> QED
    BY <1>1, <2>3, <2>4, <2>5 DEF WriteInv, WriteDue
<1>2. [][W]_allVars => WritesAreNeeded
  BY PTL DEF WritesAreNeeded
<1> QED
  BY <1>1, <1>2, WriteInit, WriteStep, PTL DEF SetupSpec
=============================================================================
