---------------------------- MODULE SurveyProofs ----------------------------
(***************************************************************************)
(* What a survey says of an antenna was measured on it, for any number of  *)
(* antennas and calls, on any link that implements the port.               *)
(*                                                                         *)
(* The argument: a return loss asked for and always waited for is the      *)
(* call's own (OwnUnlessAbandoned); the reader carries out commands in     *)
(* order, so that it was working on the antenna selected by the call       *)
(* before (Measured); and that call selected the antenna that the survey   *)
(* is at (SelectedFirst).                                                  *)
(***************************************************************************)
EXTENDS Survey, ReaderPortProofs, DataProofs

Select == "SetWorkAntenna"
Measure == "GetRfPortReturnLoss"

(* The reader works on the antenna it has selected last.                   *)
CarriedOut ==
    (served \in Ids /\ cmd[served] = Select /\ answer[served] = <<"success">>)
        => antenna = arg[served]

(* A return loss is that of the antenna selected by the call before.       *)
Measured ==
    \A q \in Ids :
        (cmd[q] = Measure /\ answer[q] # <<>>) =>
            /\ answer[q] \in Measures \X Antennas
            /\ (/\ q - 1 \in Ids
                /\ cmd[q - 1] = Select
                /\ answer[q - 1] = <<"success">>)
                   => answer[q][2] = arg[q - 1]

Open == last \in Ids /\ status[last] = "open"

WaitsForCommand ==
    Open => result = "running" /\ cmd[last] = Command

(* Before the return loss is asked for, and while it is waited for, the    *)
(* call before has selected the antenna the survey is at.                  *)
SelectedBy(s) ==
    s \in Ids /\ cmd[s] = Select /\ status[s] = "replied" /\ arg[s] = at

SelectedFirst ==
    result = "running" =>
        /\ (op = "select" /\ Open) => arg[last] = at
        /\ (op = "measure" /\ Open) => SelectedBy(last - 1)
        /\ (op = "measure" /\ ~Open) => SelectedBy(last)

ControlOK ==
    /\ low \in Lows /\ high \in Highs
    /\ antenna \in Antennas
    /\ arg \in [Ids -> Antennas]
    /\ at \in 0..Total
    /\ op \in {"select", "measure"}
    /\ result \in {"none", "running", "ok", "failed", "panicked"}
    /\ result = "running" => at \in Antennas
    /\ result = "panicked" => ReferenceFrequency(low, high) \notin Table

(* The list is about antennas the survey has been at, in order, by calls   *)
(* that have ended.                                                        *)
ListOK ==
    /\ list \in Seq(Antennas \X Measures \X Ids)
    /\ \A i \in DOMAIN list :
          /\ list[i][1] < at
          /\ list[i][3] <= last
          /\ Open => list[i][3] < last

SurveyInv ==
    /\ ReaderInv
    /\ ControlOK
    /\ CarriedOut
    /\ Measured
    /\ WaitsForCommand
    /\ SelectedFirst
    /\ ListOK
    /\ MeasuredOnItsAntenna

Told == SelectionsCarriedOut /\ NoStale(Measure)

-----------------------------------------------------------------------------
(* What spoils a survey, a selection not carried out or a return loss not  *)
(* waited for, spoils it for good.                                         *)
LEMMA ToldBefore ==
    ASSUME ReaderInv, HistoryKept, Told'
    PROVE  Told
<1>1. SelectionsCarriedOut
  <2> SUFFICES ASSUME NEW q \in 1..served, cmd[q] = Select,
                      status[q] = "replied"
               PROVE  answer[q] = <<"success">>
    BY DEF SelectionsCarriedOut, Select
  <2>1. q \in Ids /\ q <= served /\ q \in 1..served'
    BY CallsAssumption
       DEF ReaderInv, ReaderTypeOK, Inv, TypeOK, Ids, HistoryKept
  <2>2. cmd'[q] = Select /\ status'[q] = "replied" /\ answer'[q] = answer[q]
    BY <2>1 DEF HistoryKept
  <2> QED
    BY <2>1, <2>2 DEF Told, SelectionsCarriedOut, Select
<1>2. NoStale(Measure)
  BY DEF Told, NoStale, HistoryKept
<1> QED
  BY <1>1, <1>2 DEF Told

LEMMA ListStays ==
    ASSUME SurveyInv, HistoryKept, list' = list
    PROVE  MeasuredOnItsAntenna'
<1> SUFFICES ASSUME Told', NEW i \in DOMAIN list, NEW j \in DOMAIN list
             PROVE  /\ answer'[list[i][3]] = <<list[i][2], list[i][1]>>
                    /\ i < j => /\ list[i][1] < list[j][1]
                                /\ list[i][3] < list[j][3]
  BY DEF MeasuredOnItsAntenna, Told, Measure
<1>1. /\ answer[list[i][3]] = <<list[i][2], list[i][1]>>
      /\ i < j => list[i][1] < list[j][1] /\ list[i][3] < list[j][3]
  BY ToldBefore DEF SurveyInv, MeasuredOnItsAntenna, Told, Measure
<1>2. list[i][3] \in Ids
  BY DEF SurveyInv, ListOK
<1>3. list[i][3] <= served
  <2>1. <<list[i][2], list[i][1]>> # <<>>
    OBVIOUS
  <2> QED
    BY <1>1, <1>2, <2>1 DEF SurveyInv, ReaderInv, ReaderTypeOK
<1> QED
  BY <1>1, <1>2, <1>3 DEF HistoryKept

-----------------------------------------------------------------------------
LEMMA SurveyInitInv == SurveyInit => SurveyInv
<1> SUFFICES ASSUME SurveyInit
             PROVE  SurveyInv
  OBVIOUS
<1>1. ReaderInv
  BY ReaderInitInv DEF SurveyInit
<1>2. ControlOK
  BY TotalAssumption DEF SurveyInit, ControlOK, Antennas
<1>3. CarriedOut /\ Measured /\ WaitsForCommand /\ SelectedFirst
  BY CallsAssumption
     DEF SurveyInit, ReaderInit, Init, CarriedOut, Measured, WaitsForCommand,
         SelectedFirst, Open, Ids
<1>4. ListOK /\ MeasuredOnItsAntenna
  BY DEF SurveyInit, ListOK, MeasuredOnItsAntenna
<1> QED
  BY <1>1, <1>2, <1>3, <1>4 DEF SurveyInv

(* The reader carries out a command of either kind.                        *)
LEMMA ServeSurvey ==
    ASSUME SurveyInv, NEW a, Serve(a), UNCHANGED surveyVars,
           antenna' \in Antennas,
           (cmd[served + 1] = Select /\ a = <<"success">>)
               => antenna' = arg[served + 1],
           cmd[served + 1] = Measure =>
               /\ antenna' = antenna
               /\ a # <<>> => /\ a \in Measures \X Antennas
                             /\ a[2] = antenna
    PROVE  SurveyInv'
<1>1. /\ ReaderInv' /\ HistoryKept
      /\ served' = served + 1 /\ served + 1 \in Ids
      /\ answer[served + 1] = <<>> /\ answer'[served + 1] = a
      /\ \A q \in Ids : q # served + 1 => answer'[q] = answer[q]
  BY ReaderServe DEF SurveyInv
<1>2. UNCHANGED <<last, cmd, status, arg, at, op, list, result, low, high>>
  BY DEF Serve, vars, surveyVars, range
<1>3. ControlOK' /\ ListOK' /\ WaitsForCommand' /\ SelectedFirst'
  BY <1>2 DEF SurveyInv, ControlOK, ListOK, WaitsForCommand, SelectedFirst,
              SelectedBy, Open, Command
<1>4. CarriedOut'
  BY <1>1, <1>2 DEF CarriedOut
<1>5. Measured'
  <2> SUFFICES ASSUME NEW q \in Ids, cmd[q] = Measure, answer'[q] # <<>>
               PROVE  /\ answer'[q] \in Measures \X Antennas
                      /\ (/\ q - 1 \in Ids
                          /\ cmd[q - 1] = Select
                          /\ answer'[q - 1] = <<"success">>)
                             => answer'[q][2] = arg[q - 1]
    BY <1>2 DEF Measured
  <2>1. CASE q = served + 1
    <3>1. a \in Measures \X Antennas /\ a[2] = antenna
      BY <1>1, <2>1
    <3>2. q - 1 = served
      BY <2>1 DEF SurveyInv, ReaderInv, ReaderTypeOK, Inv, TypeOK
    <3>3. answer'[served] = answer[served] \/ served \notin Ids
      BY <1>1 DEF SurveyInv, ReaderInv, ReaderTypeOK, Inv, TypeOK
    <3> QED
      BY <1>1, <2>1, <3>1, <3>2, <3>3 DEF SurveyInv, CarriedOut
  <2>2. CASE q # served + 1
    <3>1. answer'[q] = answer[q] /\ q <= served
      BY <1>1, <2>2 DEF SurveyInv, ReaderInv, ReaderTypeOK
    <3>2. q - 1 \in Ids => answer'[q - 1] = answer[q - 1]
      BY <1>1, <3>1 DEF SurveyInv, ReaderInv, ReaderTypeOK, Inv, TypeOK, Ids
    <3> QED
      BY <3>1, <3>2 DEF SurveyInv, Measured
  <2> QED
    BY <2>1, <2>2
<1>6. MeasuredOnItsAntenna'
  BY <1>1, <1>2, ListStays
<1> QED
  BY <1>1, <1>3, <1>4, <1>5, <1>6 DEF SurveyInv

LEMMA BeginSurvey ==
    ASSUME SurveyInv, NEW s \in {"open", "failed"}, Call(s),
           UNCHANGED <<at, op>>,
           result' = IF s = "open" THEN "running" ELSE "failed"
    PROVE  SurveyInv'
<1>1. result = "running" /\ Command \in Commands /\ at \in Antennas
  BY SurveyAssumption DEF Call, Command, SurveyInv, ControlOK
<1>2. /\ ReaderInv' /\ HistoryKept
      /\ last + 1 \in Ids /\ last' = last + 1
      /\ cmd'[last'] = Command /\ status'[last'] = s
      /\ answer[last'] = <<>>
      /\ \A q \in Ids : q # last' => cmd'[q] = cmd[q]
  BY <1>1, ReaderBegin DEF Call, SurveyInv
<1>3. UNCHANGED <<answer, served, antenna, list, low, high>>
  BY DEF Call, readerVars, range
<1>4. /\ arg' = [arg EXCEPT ![last + 1] = at]
      /\ arg'[last'] = at /\ \A q \in Ids : q # last' => arg'[q] = arg[q]
  BY <1>2 DEF Call, SurveyInv, ControlOK
<1>5. last \in Nat /\ served \in Nat /\ served <= last /\ ~Open
  BY DEF SurveyInv, ReaderInv, ReaderTypeOK, Inv, TypeOK, Call, Begin, Idle,
         Open
<1>6. ControlOK'
  BY <1>1, <1>3, <1>4 DEF SurveyInv, ControlOK
<1>7. CarriedOut'
  BY <1>2, <1>3, <1>4, <1>5 DEF SurveyInv, CarriedOut
<1>8. Measured'
  <2> SUFFICES ASSUME NEW q \in Ids, cmd'[q] = Measure, answer[q] # <<>>
               PROVE  /\ answer[q] \in Measures \X Antennas
                      /\ (/\ q - 1 \in Ids
                          /\ cmd'[q - 1] = Select
                          /\ answer[q - 1] = <<"success">>)
                             => answer[q][2] = arg'[q - 1]
    BY <1>3 DEF Measured
  <2>1. q <= served
    BY DEF SurveyInv, ReaderInv, ReaderTypeOK
  <2>2. q # last' /\ q - 1 # last'
    BY <2>1, <1>2, <1>5 DEF Ids
  <2> QED
    BY <2>2, <1>2, <1>4 DEF SurveyInv, Measured
<1>9. WaitsForCommand'
  BY <1>2 DEF WaitsForCommand, Open, Command
<1>10. SelectedFirst'
  <2> SUFFICES ASSUME result' = "running"
               PROVE  /\ Open'
                      /\ op = "select" => arg'[last'] = at
                      /\ op = "measure" =>
                            /\ last \in Ids /\ cmd'[last] = Select
                            /\ status'[last] = "replied"
                            /\ arg'[last] = at
    <3>1. last' - 1 = last
      BY <1>2, <1>5
    <3> QED
      BY <3>1 DEF SelectedFirst, SelectedBy
  <2>1. Open'
    BY <1>2 DEF Open
  <2>2. ASSUME op = "measure"
        PROVE  SelectedBy(last)
    BY <1>1, <1>5, <2>2 DEF SurveyInv, SelectedFirst
  <2>3. ASSUME op = "measure"
        PROVE  /\ last \in Ids /\ cmd'[last] = Select
               /\ status'[last] = "replied" /\ arg'[last] = at
    <3>1. last # last'
      BY <1>2, <1>5
    <3> QED
      BY <2>2, <2>3, <3>1, <1>2, <1>4 DEF SelectedBy, HistoryKept
  <2> QED
    BY <1>4, <2>1, <2>3
<1>11. ListOK'
  BY <1>2, <1>3, <1>5 DEF SurveyInv, ListOK, Open, Ids
<1>12. MeasuredOnItsAntenna'
  BY <1>2, <1>3, ListStays
<1> QED
  BY <1>2, <1>6, <1>7, <1>8, <1>9, <1>10, <1>11, <1>12 DEF SurveyInv

(* What a step of the survey that leaves the reader alone keeps.           *)
LEMMA ReaderSideStays ==
    ASSUME SurveyInv, UNCHANGED <<cmd, served, answer, antenna, arg>>
    PROVE  CarriedOut' /\ Measured'
BY DEF SurveyInv, CarriedOut, Measured

LEMMA GiveUpSurvey ==
    ASSUME SurveyInv, CallGivesUp
    PROVE  SurveyInv'
<1>1. /\ ReaderInv' /\ HistoryKept
      /\ last \in Ids /\ status[last] = "open"
      /\ status'[last] = "failed"
      /\ UNCHANGED <<last, cmd, served, answer>>
  BY ReaderGiveUp DEF CallGivesUp, SurveyInv
<1>2. /\ UNCHANGED <<antenna, arg, list, low, high, at, op>>
      /\ result' = "failed"
  BY DEF CallGivesUp, Finish, range
<1>3. ControlOK' /\ ListOK'
  BY <1>1, <1>2 DEF SurveyInv, ControlOK, ListOK, Open
<1>4. WaitsForCommand' /\ SelectedFirst'
  BY <1>1, <1>2 DEF WaitsForCommand, SelectedFirst, Open
<1>5. CarriedOut' /\ Measured'
  BY <1>1, <1>2, ReaderSideStays
<1>6. MeasuredOnItsAntenna'
  BY <1>1, <1>2, ListStays
<1> QED
  BY <1>1, <1>3, <1>4, <1>5, <1>6 DEF SurveyInv

LEMMA SelectSurvey ==
    ASSUME SurveyInv, SelectReturns
    PROVE  SurveyInv'
<1>1. PICK r \in Ids, u \in Ids : Answered(r, u)
  BY DEF SelectReturns
<1>2. /\ ReaderInv' /\ HistoryKept
      /\ last \in Ids /\ status[last] = "open"
      /\ status'[last] = "replied"
      /\ UNCHANGED <<last, cmd, served, answer>>
  BY <1>1, ReaderReturn DEF SurveyInv
<1>3. /\ result = "running" /\ op = "select" /\ op' = "measure"
      /\ UNCHANGED <<antenna, arg, at, list, result, low, high>>
  BY DEF SelectReturns, range
<1>4. ControlOK' /\ ListOK'
  BY <1>2, <1>3 DEF SurveyInv, ControlOK, ListOK, Open
<1>5. cmd[last] = Select /\ arg[last] = at
  BY <1>2, <1>3
     DEF SurveyInv, WaitsForCommand, SelectedFirst, Open, Command, Select
<1>6. WaitsForCommand' /\ SelectedFirst'
  BY <1>2, <1>3, <1>5 DEF WaitsForCommand, SelectedFirst, SelectedBy, Open
<1>7. CarriedOut' /\ Measured'
  BY <1>2, <1>3, ReaderSideStays
<1>8. MeasuredOnItsAntenna'
  BY <1>2, <1>3, ListStays
<1> QED
  BY <1>2, <1>4, <1>6, <1>7, <1>8 DEF SurveyInv

(* The return loss listed for the antenna the survey is at was measured    *)
(* on it, when nothing has spoilt the survey.                              *)
LEMMA OwnMeasure ==
    ASSUME SurveyInv, ReaderInv', HistoryKept, Told',
           NEW r \in Ids, NEW u \in Ids, Answered(r, u),
           result = "running", op = "measure"
    PROVE  r = last /\ answer[r] = <<answer[r][1], at>>
<1>1. /\ last \in Ids /\ status[last] = "open"
      /\ status'[last] = "replied"
      /\ cmd[r] = cmd[last] /\ answer[r] # <<>>
      /\ UNCHANGED <<last, cmd, served, answer>>
  BY ReaderReturn DEF SurveyInv
<1>2. cmd[last] = Measure /\ SelectedBy(last - 1)
  BY <1>1 DEF SurveyInv, WaitsForCommand, SelectedFirst, Open, Command, Measure
<1>3. r = last
  <2>1. from'[last] = r
    BY <1>1 DEF Answered, Return, SurveyInv, ReaderInv, Inv, TypeOK
  <2>2. \/ from'[last] = last
        \/ \E p \in 1..(last - 1) :
              cmd'[p] = cmd'[last] /\ status'[p] = "failed"
    BY <1>1 DEF ReaderInv, Inv, OwnUnlessAbandoned
  <2>3. \A p \in 1..(last - 1) : p \in Ids
    BY <1>1, CallsAssumption DEF Ids
  <2> QED
    BY <1>1, <1>2, <2>1, <2>2, <2>3 DEF Told, NoStale
<1>4. answer[last - 1] = <<"success">>
  <2>1. last <= served /\ served \in Nat
    BY <1>1, <1>3 DEF SurveyInv, ReaderInv, ReaderTypeOK, Inv, TypeOK
  <2>2. last - 1 \in 1..served
    BY <1>1, <1>2, <2>1, CallsAssumption DEF SelectedBy, Ids
  <2> QED
    BY <1>2, <2>2, ToldBefore
       DEF SurveyInv, Told, SelectionsCarriedOut, SelectedBy, Select
<1>5. answer[last] \in Measures \X Antennas /\ answer[last][2] = at
  BY <1>1, <1>2, <1>3, <1>4 DEF SurveyInv, Measured, SelectedBy
<1> QED
  BY <1>3, <1>5

LEMMA MeasureSurvey ==
    ASSUME SurveyInv, MeasureReturns
    PROVE  SurveyInv'
<1>1. PICK r \in Ids, u \in Ids :
          /\ Answered(r, u)
          /\ list' = IF IsVswr(answer[r][1]) THEN Appended(r) ELSE list
  BY DEF MeasureReturns
<1>2. /\ ReaderInv' /\ HistoryKept
      /\ last \in Ids /\ status[last] = "open"
      /\ status'[last] = "replied"
      /\ cmd[r] = cmd[last] /\ answer[r] # <<>>
      /\ UNCHANGED <<last, cmd, served, answer>>
  BY <1>1, ReaderReturn DEF SurveyInv
<1>3. /\ result = "running" /\ op = "measure" /\ NextAntenna
      /\ UNCHANGED <<antenna, arg, low, high>>
  BY DEF MeasureReturns, range
<1>4. /\ at \in Antennas /\ at' = at + 1
      /\ \/ op' = "select" /\ result' = "running" /\ at' \in Antennas
         \/ op' = op /\ result' = "ok" /\ at' \in 0..Total
  BY <1>3, TotalAssumption DEF SurveyInv, ControlOK, NextAntenna, Antennas
<1>5. ControlOK'
  BY <1>3, <1>4, TotalAssumption DEF SurveyInv, ControlOK, Antennas
<1>6. WaitsForCommand' /\ SelectedFirst'
  BY <1>2, <1>4 DEF WaitsForCommand, SelectedFirst, Open
<1>7. CarriedOut' /\ Measured'
  BY <1>2, <1>3, ReaderSideStays
<1>8. /\ answer[r] \in Measures \X Antennas
      /\ r <= last
  <2>1. cmd[r] = Measure
    BY <1>2, <1>3 DEF SurveyInv, WaitsForCommand, Open, Command, Measure
  <2>2. r <= last
    BY <1>1 DEF Answered, Return, Ids, SurveyInv, ReaderInv, Inv, TypeOK
  <2> QED
    BY <1>2, <2>1, <2>2 DEF SurveyInv, Measured
<1>9. CASE list' = list
  <2>1. ListOK'
    BY <1>2, <1>4, <1>9, TotalAssumption
       DEF SurveyInv, ListOK, Open, Antennas
  <2> QED
    BY <1>2, <1>5, <1>6, <1>7, <1>9, <2>1, ListStays DEF SurveyInv
<1>10. CASE list' = Appended(r)
  <2> DEFINE n == Len(list)
             e == <<at, answer[r][1], r>>
  <2>1. /\ list \in Seq(Antennas \X Measures \X Ids)
        /\ e \in Antennas \X Measures \X Ids
        /\ n \in Nat
    BY <1>4, <1>8 DEF SurveyInv, ListOK
  <2>2. /\ list' \in Seq(Antennas \X Measures \X Ids)
        /\ DOMAIN list' = 1..(n + 1) /\ DOMAIN list = 1..n
        /\ list'[n + 1] = e
        /\ \A i \in 1..n : list'[i] = list[i]
    BY <1>10, <2>1 DEF Appended
  <2> HIDE DEF n, e
  <2>3. \A i \in 1..n : list[i][1] < at /\ list[i][3] < last
    BY <1>2, <2>2 DEF SurveyInv, ListOK, Open
  <2>4. \A i \in 1..n : list[i][1] \in Int /\ list[i][3] \in Int
    BY <2>1, <2>2, TotalAssumption, CallsAssumption DEF Antennas, Ids
  <2>5. ListOK'
    <3> SUFFICES ASSUME NEW i \in 1..(n + 1)
                 PROVE  /\ list'[i][1] < at'
                        /\ list'[i][3] <= last'
                        /\ ~Open'
      BY <2>2 DEF ListOK
    <3>1. CASE i = n + 1
      BY <3>1, <1>2, <1>4, <1>8, <2>2, TotalAssumption
         DEF e, Open, Antennas
    <3>2. CASE i # n + 1
      <4>1. i \in 1..n
        BY <3>2, <2>1
      <4> QED
        BY <4>1, <1>2, <1>4, <2>2, <2>3, <2>4, TotalAssumption
           DEF Open, Antennas, Ids
    <3> QED
      BY <3>1, <3>2
  <2>6. MeasuredOnItsAntenna'
    <3> SUFFICES ASSUME Told', NEW i \in 1..(n + 1), NEW j \in 1..(n + 1)
                 PROVE  /\ answer[list'[i][3]] = <<list'[i][2], list'[i][1]>>
                        /\ i < j => /\ list'[i][1] < list'[j][1]
                                    /\ list'[i][3] < list'[j][3]
      BY <1>2, <2>2 DEF MeasuredOnItsAntenna, Told, Measure
    <3>1. r = last /\ answer[r] = <<answer[r][1], at>>
      BY <1>1, <1>2, <1>3, OwnMeasure
    <3>2. \A k, l \in 1..n :
              /\ answer[list[k][3]] = <<list[k][2], list[k][1]>>
              /\ k < l => list[k][1] < list[l][1] /\ list[k][3] < list[l][3]
      BY <1>2, <2>2, ToldBefore
         DEF SurveyInv, MeasuredOnItsAntenna, Told, Measure
    <3>3. (i \in 1..n \/ i = n + 1) /\ (j \in 1..n \/ j = n + 1)
      BY <2>1
    <3>4. answer[list'[i][3]] = <<list'[i][2], list'[i][1]>>
      <4>1. CASE i \in 1..n
        BY <4>1, <2>2, <3>2
      <4>2. CASE i = n + 1
        <5>1. list'[i] = <<at, answer[r][1], r>>
          BY <4>2, <2>2 DEF e
        <5> QED
          BY <5>1, <3>1
      <4> QED
        BY <3>3, <4>1, <4>2
    <3>5. ASSUME i < j
          PROVE  list'[i][1] < list'[j][1] /\ list'[i][3] < list'[j][3]
      <4>1. i \in 1..n
        BY <3>5, <2>1
      <4>2. CASE j \in 1..n
        BY <3>2, <3>5, <4>1, <4>2, <2>2
      <4>3. CASE j = n + 1
        <5>1. list'[i] = list[i] /\ list'[j] = <<at, answer[r][1], last>>
          BY <3>1, <4>1, <4>3, <2>2 DEF e
        <5>2. list[i][1] < at /\ list[i][3] < last
          BY <4>1, <2>3
        <5> QED
          BY <5>1, <5>2
      <4> QED
        BY <3>3, <4>2, <4>3
    <3> QED
      BY <3>4, <3>5
  <2> QED
    BY <1>2, <1>5, <1>6, <1>7, <2>5, <2>6 DEF SurveyInv
<1> QED
  BY <1>1, <1>9, <1>10

LEMMA StartSurvey ==
    ASSUME SurveyInv, Start
    PROVE  SurveyInv'
<1>1. /\ UNCHANGED <<last, cmd, status, served, answer, antenna, arg>>
      /\ UNCHANGED <<low, high>>
      /\ ReaderInv' /\ HistoryKept /\ ~Open
  BY ReaderStutter DEF Start, SurveyInv, vars, readerVars, range, Idle, Open
<1>2. /\ at' = 0 /\ op' = "select" /\ list' = <<>>
      /\ result' \in {"ok", "running"}
      /\ result' = "running" => Total # 0
  BY DEF Start
<1>3. ControlOK'
  <2>1. at' \in 0..Total /\ (result' = "running" => at' \in Antennas)
    BY <1>2, TotalAssumption DEF Antennas
  <2> QED
    BY <1>1, <1>2, <2>1 DEF SurveyInv, ControlOK
<1>4. CarriedOut' /\ Measured'
  BY <1>1, ReaderSideStays
<1>5. ~Open'
  BY <1>1 DEF Open
<1>6. WaitsForCommand' /\ SelectedFirst'
  BY <1>2, <1>5 DEF WaitsForCommand, SelectedFirst
<1>7. ListOK'
  BY <1>2 DEF ListOK
<1>8. MeasuredOnItsAntenna'
  BY <1>2 DEF MeasuredOnItsAntenna
<1> QED
  BY <1>1, <1>3, <1>4, <1>6, <1>7, <1>8 DEF SurveyInv

LEMMA PanicSurvey ==
    ASSUME SurveyInv, CallPanics
    PROVE  SurveyInv'
<1>1. /\ UNCHANGED <<last, cmd, status, served, answer, antenna, arg>>
      /\ UNCHANGED <<low, high>>
      /\ UNCHANGED <<at, op, list>>
      /\ ReaderInv' /\ HistoryKept /\ ~Open /\ result' = "panicked"
  BY ReaderStutter
     DEF CallPanics, Finish, SurveyInv, vars, readerVars, range, Idle, Open
<1>2. ControlOK'
  BY <1>1 DEF CallPanics, Encodable, SurveyInv, ControlOK
<1>3. CarriedOut' /\ Measured'
  BY <1>1, ReaderSideStays
<1>4. WaitsForCommand' /\ SelectedFirst' /\ ListOK'
  BY <1>1 DEF SurveyInv, WaitsForCommand, SelectedFirst, Open, ListOK
<1>5. MeasuredOnItsAntenna'
  BY <1>1, ListStays
<1> QED
  BY <1>1, <1>2, <1>3, <1>4, <1>5 DEF SurveyInv

-----------------------------------------------------------------------------
LEMMA StepSurvey == SurveyInv /\ [SurveyNext]_allVars => SurveyInv'
<1> SUFFICES ASSUME SurveyInv, [SurveyNext]_allVars
             PROVE  SurveyInv'
  OBVIOUS
<1>1. CASE ServesSelect
  <2>1. cmd[served + 1] = Select /\ UNCHANGED surveyVars /\ served + 1 \in Ids
    BY <1>1, CallsAssumption
       DEF ServesSelect, Select, SurveyInv, ReaderInv, ReaderTypeOK, Inv,
           TypeOK, Ids
  <2>2. Select # Measure
    BY DEF Select, Measure
  <2>3. CASE /\ \E a \in {<<"success">>, <<>>} : Serve(a)
             /\ antenna' = arg[served + 1]
    BY <2>1, <2>2, <2>3, ServeSurvey DEF SurveyInv, ControlOK
  <2>4. CASE /\ \E a \in {<<"refused">>, <<>>} : Serve(a)
             /\ UNCHANGED antenna
    <3>1. PICK a \in {<<"refused">>, <<>>} : Serve(a)
      BY <2>4
    <3>2. a # <<"success">>
      BY <3>1
    <3> QED
      BY <2>1, <2>2, <2>4, <3>1, <3>2, ServeSurvey DEF SurveyInv, ControlOK
  <2> QED
    BY <1>1, <2>3, <2>4 DEF ServesSelect
<1>2. CASE ServesMeasure
  <2>1. /\ cmd[served + 1] = Measure /\ UNCHANGED <<antenna, surveyVars>>
        /\ antenna \in Antennas
    BY <1>2 DEF ServesMeasure, Measure, SurveyInv, ControlOK
  <2>2. PICK a \in {<<m, antenna>> : m \in Measures} \cup {<<>>} : Serve(a)
    BY <1>2 DEF ServesMeasure
  <2>3. a # <<>> => a \in Measures \X Antennas /\ a[2] = antenna
    BY <2>1, <2>2
  <2>4. Select # Measure
    BY DEF Select, Measure
  <2> QED
    BY <2>1, <2>2, <2>3, <2>4, ServeSurvey
<1>3. CASE Start
  BY <1>3, StartSurvey
<1>4. CASE CallIsSent
  BY <1>4, BeginSurvey DEF CallIsSent, Call
<1>5. CASE CallFails
  BY <1>5, BeginSurvey DEF CallFails, Finish
<1>6. CASE CallPanics
  BY <1>6, PanicSurvey
<1>7. CASE CallGivesUp
  BY <1>7, GiveUpSurvey
<1>8. CASE SelectReturns
  BY <1>8, SelectSurvey
<1>9. CASE MeasureReturns
  BY <1>9, MeasureSurvey
<1>10. CASE UNCHANGED allVars
  <2>1. ReaderInv' /\ HistoryKept
    BY <1>10, ReaderStutter DEF allVars, SurveyInv
  <2>2. MeasuredOnItsAntenna'
    BY <1>10, <2>1, ListStays DEF allVars, surveyVars
  <2> QED
    BY <1>10, <2>1, <2>2
       DEF allVars, vars, readerVars, surveyVars, range, SurveyInv, ControlOK,
           CarriedOut, Measured, WaitsForCommand, SelectedFirst, SelectedBy,
           ListOK, Open, Command
<1> QED
  BY <1>1, <1>2, <1>3, <1>4, <1>5, <1>6, <1>7, <1>8, <1>9, <1>10
     DEF SurveyNext

(* For any number of antennas: what a survey says of an antenna was        *)
(* measured on it, in this survey, once, unless a selection was not        *)
(* carried out or a return loss was asked for and not waited for.          *)
THEOREM SurveyMeasuredOnItsAntenna == SurveySpec => []MeasuredOnItsAntenna
<1>1. SurveyInv => MeasuredOnItsAntenna
  BY DEF SurveyInv
<1> QED
  BY <1>1, SurveyInitInv, StepSurvey, PTL DEF SurveySpec

(* A survey panics on no range within a band of the table.                 *)
THEOREM SurveyPanicsOffBand == SurveySpec => []PanicsOffBand
<1>1. SurveyInv => PanicsOffBand
  BY ReferenceInTable DEF SurveyInv, ControlOK, PanicsOffBand
<1> QED
  BY <1>1, SurveyInitInv, StepSurvey, PTL DEF SurveySpec

(* Type correctness, and a caller that has the connector back when no      *)
(* survey is running: every call of a survey has ended with it.            *)
THEOREM SurveyTypeCorrect == SurveySpec => []SurveyTypeOK
<1>1. SurveyInv => SurveyTypeOK
  <2> SUFFICES ASSUME SurveyInv
               PROVE  SurveyTypeOK
    OBVIOUS
  <2>1. TypeOK /\ ReaderTypeOK
    BY DEF SurveyInv, ReaderInv, Inv
  <2>2. ASSUME NEW e \in ToSet(list)
        PROVE  e[1] \in Antennas /\ e[2] \in Measures /\ e[3] \in Ids
    <3>1. PICK i \in DOMAIN list : e = list[i]
      BY <2>2 DEF ToSet
    <3>2. list[i] \in Antennas \X Measures \X Ids
      BY DEF SurveyInv, ListOK
    <3> QED
      BY <3>1, <3>2
  <2>3. result # "running" => Idle
    BY EndedIsIdle DEF SurveyInv, WaitsForCommand, Open
  <2> QED
    BY <2>1, <2>2, <2>3 DEF SurveyInv, ControlOK, SurveyTypeOK
<1> QED
  BY <1>1, SurveyInitInv, StepSurvey, PTL DEF SurveySpec

-----------------------------------------------------------------------------
(* The calls made for the antenna the survey is at.                        *)
Made ==
    IF result # "running" THEN 0
    ELSE IF op = "select" THEN (IF Open THEN 1 ELSE 0)
    ELSE (IF Open THEN 2 ELSE 1)

(* Two calls are made for each antenna, and the second of them found out   *)
(* why an antenna that the survey is done with is not in the list.         *)
AskedOf(a) ==
    \E q \in Ids :
        /\ q <= last
        /\ answer[q] \in {<<"open", a>>, <<"error", a>>}
        /\ last <= q + 2 * (at - a - 1) + Made

MissingAsked ==
    (result \in {"running", "ok"} /\ Told) =>
        \A a \in Antennas :
            (a < at /\ \A i \in DOMAIN list : list[i][1] # a) => AskedOf(a)

EndsAtTotal == result = "ok" => at = Total

MissingInv == SurveyInv /\ EndsAtTotal /\ MissingAsked

(* What has been found out about the antennas left out stays.              *)
LEMMA MissingStays ==
    ASSUME MissingInv, HistoryKept, UNCHANGED <<at, list>>,
           result' \in {"running", "ok"} =>
               /\ result \in {"running", "ok"}
               /\ last' \in Nat /\ last <= last'
               /\ last' - Made' <= last - Made
    PROVE  MissingAsked'
<1> SUFFICES ASSUME result' \in {"running", "ok"}, Told',
                    NEW a \in Antennas, a < at,
                    \A i \in DOMAIN list : list[i][1] # a
             PROVE  AskedOf(a)'
  BY DEF MissingAsked
<1>1. Told
  BY ToldBefore DEF MissingInv, SurveyInv
<1>2. PICK q \in Ids : /\ q <= last
                       /\ answer[q] \in {<<"open", a>>, <<"error", a>>}
                       /\ last <= q + 2 * (at - a - 1) + Made
  BY <1>1 DEF MissingInv, MissingAsked, AskedOf
<1>3. answer'[q] = answer[q]
  <2>1. <<"open", a>> # <<>> /\ <<"error", a>> # <<>>
    OBVIOUS
  <2>2. answer[q] # <<>>
    BY <1>2, <2>1
  <2> QED
    BY <2>2 DEF HistoryKept, MissingInv, SurveyInv, ReaderInv, ReaderTypeOK
<1>4. /\ last \in Nat /\ at \in Nat /\ q \in Nat
      /\ Made \in 0..2 /\ Made' \in 0..2
  BY TotalAssumption, CallsAssumption
     DEF MissingInv, SurveyInv, ReaderInv, Inv, TypeOK, ControlOK, Made, Ids
<1>5. a \in Nat
  BY TotalAssumption DEF Antennas
<1>6. q <= last' /\ last' <= q + 2 * (at - a - 1) + Made'
  <2> HIDE DEF Made
  <2> QED
    BY <1>2, <1>4, <1>5
<1> QED
  BY <1>2, <1>3, <1>6 DEF AskedOf

LEMMA MissingBegin ==
    ASSUME MissingInv, CallIsSent \/ CallFails
    PROVE  EndsAtTotal' /\ MissingAsked'
<1>1. /\ last \in Nat /\ result = "running"
      /\ UNCHANGED <<at, op, list>> /\ ~Open
  BY DEF CallIsSent, CallFails, Call, Finish, Begin, Idle, Open, MissingInv,
         SurveyInv, ReaderInv, Inv, TypeOK
<1>2. CASE CallFails
  BY <1>2 DEF CallFails, Finish, EndsAtTotal, MissingAsked
<1>3. CASE CallIsSent
  <2>1. Command \in Commands
    BY SurveyAssumption DEF Command
  <2>2. /\ HistoryKept /\ last' = last + 1 /\ last + 1 \in Ids
        /\ status'[last'] = "open"
    BY <1>3, <2>1, ReaderBegin DEF CallIsSent, Call, MissingInv, SurveyInv
  <2>3. result' = "running"
    BY <1>1, <1>3 DEF CallIsSent
  <2>4. Made' = Made + 1
    BY <1>1, <2>2, <2>3 DEF Made, Open
  <2>5. last' \in Nat /\ last <= last' /\ last' - Made' <= last - Made
    <3>1. Made \in 0..2
      BY DEF Made
    <3> HIDE DEF Made
    <3> QED
      BY <1>1, <2>2, <2>4, <3>1
  <2>6. MissingAsked'
    BY <1>1, <2>2, <2>5, MissingStays
  <2> QED
    BY <2>3, <2>6 DEF EndsAtTotal
<1> QED
  BY <1>2, <1>3

LEMMA MissingSelect ==
    ASSUME MissingInv, SelectReturns
    PROVE  EndsAtTotal' /\ MissingAsked'
<1>1. PICK r \in Ids, u \in Ids : Answered(r, u)
  BY DEF SelectReturns
<1>2. /\ HistoryKept /\ last \in Ids /\ last' = last
      /\ status[last] = "open" /\ status'[last] = "replied"
  BY <1>1, ReaderReturn DEF MissingInv, SurveyInv
<1>3. /\ result = "running" /\ result' = result
      /\ op = "select" /\ op' = "measure" /\ UNCHANGED <<at, list>>
  BY DEF SelectReturns
<1>4. Made = 1 /\ Made' = 1
  BY <1>2, <1>3 DEF Made, Open
<1>5. last \in Nat
  BY DEF MissingInv, SurveyInv, ReaderInv, Inv, TypeOK
<1>6. MissingAsked'
  BY <1>2, <1>3, <1>4, <1>5, MissingStays
<1> QED
  BY <1>3, <1>6 DEF EndsAtTotal

LEMMA MissingMeasure ==
    ASSUME MissingInv, MeasureReturns
    PROVE  EndsAtTotal' /\ MissingAsked'
<1>1. PICK r \in Ids, u \in Ids :
          /\ Answered(r, u)
          /\ list' = IF IsVswr(answer[r][1]) THEN Appended(r) ELSE list
  BY DEF MeasureReturns
<1>2. /\ ReaderInv' /\ HistoryKept /\ last \in Ids
      /\ status[last] = "open" /\ status'[last] = "replied"
      /\ cmd[r] = cmd[last] /\ answer[r] # <<>>
      /\ UNCHANGED <<last, cmd, served, answer>>
  BY <1>1, ReaderReturn DEF MissingInv, SurveyInv
<1>3. /\ result = "running" /\ op = "measure" /\ NextAntenna
      /\ at \in Antennas /\ at' = at + 1
  BY DEF MeasureReturns, NextAntenna, MissingInv, SurveyInv, ControlOK
<1>4. Made = 2 /\ Made' = 0
  BY <1>2, <1>3 DEF Made, Open, NextAntenna
<1>5. EndsAtTotal'
  BY <1>3, TotalAssumption DEF EndsAtTotal, NextAntenna, Antennas
<1>6. ASSUME Told', NEW a \in Antennas, a < at',
             \A i \in DOMAIN list' : list'[i][1] # a
      PROVE  AskedOf(a)'
  <2>1. r = last /\ answer[r] = <<answer[r][1], at>>
    BY <1>1, <1>2, <1>3, <1>6, OwnMeasure DEF MissingInv
  <2>2. /\ last \in Nat /\ at \in Nat /\ a \in Nat
    BY TotalAssumption, CallsAssumption, <1>2, <1>3 DEF Antennas, Ids
  <2>3. CASE a = at
    <3>1. ~ IsVswr(answer[r][1])
      <4> SUFFICES ASSUME list' = Appended(r)
                   PROVE  FALSE
        BY <1>1
      <4>1. list \in Seq(Antennas \X Measures \X Ids)
        BY DEF MissingInv, SurveyInv, ListOK
      <4>2. Len(list) + 1 \in DOMAIN list'
        BY <4>1 DEF Appended
      <4>3. list'[Len(list) + 1] = <<at, answer[r][1], r>>
        BY <4>1 DEF Appended
      <4> QED
        BY <1>6, <2>3, <4>2, <4>3
    <3>2. answer[r] \in Measures \X Antennas
      <4>1. cmd[r] = Measure
        BY <1>2, <1>3 DEF MissingInv, SurveyInv, WaitsForCommand, Open,
                          Command, Measure
      <4> QED
        BY <1>2, <4>1 DEF MissingInv, SurveyInv, Measured
    <3>3. answer[r][1] \in {"open", "error"}
      BY <3>1, <3>2 DEF IsVswr, Measures
    <3>4. answer'[last] \in {<<"open", a>>, <<"error", a>>}
      BY <1>2, <2>1, <2>3, <3>3
    <3>5. last <= last + 2 * (at + 1 - a - 1) + 0
      BY <2>2, <2>3
    <3> QED
      BY <1>2, <1>3, <1>4, <2>2, <3>4, <3>5 DEF AskedOf
  <2>4. CASE a # at
    <3>1. a < at
      BY <1>3, <1>6, <2>2, <2>4
    <3>2. \A i \in DOMAIN list : list[i][1] # a
      <4>1. list \in Seq(Antennas \X Measures \X Ids)
        BY DEF MissingInv, SurveyInv, ListOK
      <4>2. \A i \in DOMAIN list : i \in DOMAIN list' /\ list'[i] = list[i]
        BY <1>1, <4>1 DEF Appended
      <4> QED
        BY <1>6, <4>2
    <3>3. Told
      BY <1>2, <1>6, ToldBefore DEF MissingInv, SurveyInv
    <3>4. PICK q \in Ids : /\ q <= last
                           /\ answer[q] \in {<<"open", a>>, <<"error", a>>}
                           /\ last <= q + 2 * (at - a - 1) + Made
      BY <1>3, <3>1, <3>2, <3>3 DEF MissingInv, MissingAsked, AskedOf
    <3>5. q \in Nat
      BY CallsAssumption DEF Ids
    <3>6. last <= q + 2 * (at + 1 - a - 1) + 0
      BY <1>4, <2>2, <3>4, <3>5
    <3>7. last' <= q + 2 * (at' - a - 1) + Made'
      BY <1>2, <1>3, <1>4, <2>2, <3>5, <3>6
    <3>8. q <= last' /\ answer'[q] \in {<<"open", a>>, <<"error", a>>}
      BY <1>2, <3>4
    <3> QED
      BY <3>7, <3>8 DEF AskedOf
  <2> QED
    BY <2>3, <2>4
<1> QED
  BY <1>5, <1>6 DEF MissingAsked

LEMMA MissingInit == SurveyInit => MissingInv
BY SurveyInitInv DEF SurveyInit, MissingInv, EndsAtTotal, MissingAsked

LEMMA MissingStep == MissingInv /\ [SurveyNext]_allVars => MissingInv'
<1> SUFFICES ASSUME MissingInv, [SurveyNext]_allVars
             PROVE  EndsAtTotal' /\ MissingAsked'
  BY StepSurvey DEF MissingInv
<1>1. last \in Nat /\ Made \in 0..2
  BY DEF MissingInv, SurveyInv, ReaderInv, Inv, TypeOK, Made
<1>2. CASE ServesSelect \/ ServesMeasure
  <2>1. PICK a : Serve(a)
    BY <1>2 DEF ServesSelect, ServesMeasure
  <2>2. HistoryKept
    BY <2>1, ReaderServe DEF MissingInv, SurveyInv
  <2>3. UNCHANGED <<last, status, at, op, list, result>>
    BY <1>2, <2>1 DEF ServesSelect, ServesMeasure, surveyVars, Serve, vars
  <2>4. Made' = Made
    BY <2>3 DEF Made, Open
  <2>5. last' - Made' <= last - Made
    <3> HIDE DEF Made
    <3> QED
      BY <1>1, <2>3, <2>4
  <2>6. MissingAsked'
    BY <1>1, <2>2, <2>3, <2>5, MissingStays
  <2> QED
    BY <2>3, <2>6 DEF MissingInv, EndsAtTotal
<1>3. CASE Start
  <2>1. /\ at' = 0 /\ \A a \in Antennas : ~(a < 0)
        /\ result' = "ok" => Total = 0
    BY <1>3, TotalAssumption DEF Start, Antennas
  <2> QED
    BY <2>1 DEF EndsAtTotal, MissingAsked
<1>4. CASE CallIsSent \/ CallFails
  BY <1>4, MissingBegin
<1>5. CASE CallPanics \/ CallGivesUp
  BY <1>5 DEF CallPanics, CallGivesUp, Finish, EndsAtTotal, MissingAsked
<1>6. CASE SelectReturns
  BY <1>6, MissingSelect
<1>7. CASE MeasureReturns
  BY <1>7, MissingMeasure
<1>8. CASE UNCHANGED allVars
  <2>1. HistoryKept
    BY <1>8, ReaderStutter DEF allVars, MissingInv, SurveyInv
  <2>2. UNCHANGED <<last, status, at, op, list, result>>
    BY <1>8 DEF allVars, vars, surveyVars
  <2>3. Made' = Made
    BY <2>2 DEF Made, Open
  <2>4. last' - Made' <= last - Made
    <3> HIDE DEF Made
    <3> QED
      BY <1>1, <2>2, <2>3
  <2>5. MissingAsked'
    BY <1>1, <2>1, <2>2, <2>4, MissingStays
  <2> QED
    BY <2>2, <2>5 DEF MissingInv, EndsAtTotal
<1> QED
  BY <1>2, <1>3, <1>4, <1>5, <1>6, <1>7, <1>8 DEF SurveyNext

(* For any number of antennas: of one that a survey that ended Ok does not *)
(* list, the reader said, when asked by that survey, that it is open or    *)
(* that it could not measure it.                                           *)
THEOREM SurveyMissingAreOpen == SurveySpec => []MissingAreOpen
<1>1. MissingInv => MissingAreOpen
  <2> SUFFICES ASSUME MissingInv, result = "ok", Told, NEW a \in Antennas,
                      \A e \in ToSet(list) : e[1] # a
               PROVE  \E q \in Ids :
                          /\ last < q + 2 * Total
                          /\ answer[q] \in {<<"open", a>>, <<"error", a>>}
    BY DEF MissingAreOpen, Told, Measure
  <2>1. a \in Nat /\ a < Total /\ at = Total /\ Made = 0
    BY TotalAssumption DEF Antennas, MissingInv, EndsAtTotal, Made
  <2>2. \A i \in DOMAIN list : list[i][1] # a
    BY DEF ToSet
  <2>3. PICK q \in Ids : /\ answer[q] \in {<<"open", a>>, <<"error", a>>}
                         /\ last <= q + 2 * (at - a - 1) + Made
    BY <2>1, <2>2 DEF MissingInv, MissingAsked, AskedOf
  <2>4. last < q + 2 * Total
    BY <2>1, <2>3, TotalAssumption, CallsAssumption
       DEF Ids, MissingInv, SurveyInv, ReaderInv, Inv, TypeOK
  <2> QED
    BY <2>3, <2>4
<1> QED
  BY <1>1, MissingInit, MissingStep, PTL DEF SurveySpec

(* Only antennas found fit are used for fast switching, whatever the       *)
(* others are, unless CommandFail has been read as a return loss.          *)
THEOREM SurveyChosenAreFit == SurveySpec => []ChosenAreFit
<1>1. SurveyInv => ChosenAreFit
  <2> SUFFICES ASSUME SurveyInv, Told,
                      \A q \in Ids, a \in Antennas :
                          answer[q] # <<"failed", a>>,
                      NEW e \in ToSet(Chosen)
               PROVE  answer[e[3]] = <<"fit", e[1]>>
    BY DEF ChosenAreFit, Told, Measure
  <2> DEFINE I == {i \in DOMAIN list : list[i][2] \in {"fit", "failed"}}
  <2>1. list \in Seq(Antennas \X Measures \X Ids)
    BY DEF SurveyInv, ListOK
  <2>2. I \in SUBSET (1..Len(list)) /\ Chosen = Selected(list, I)
    BY <2>1 DEF Chosen
  <2>3. PICK i \in I : e = list[i]
    <3> HIDE DEF I
    <3> DEFINE t == Selected(list, I)
    <3>1. /\ t \in Seq(Antennas \X Measures \X Ids)
          /\ \A k \in 1..Len(t) : Nth(I, k) \in I /\ t[k] = list[Nth(I, k)]
      BY <2>1, <2>2, SelectedForm
    <3>2. PICK k \in DOMAIN t : e = t[k]
      BY <2>2 DEF ToSet
    <3>3. k \in 1..Len(t)
      BY <3>1
    <3> QED
      BY <3>1, <3>2, <3>3
  <2>4. /\ answer[e[3]] = <<e[2], e[1]>>
        /\ e[1] \in Antennas /\ e[3] \in Ids /\ e[2] \in {"fit", "failed"}
    <3>1. i \in DOMAIN list /\ list[i][2] \in {"fit", "failed"}
      BY <2>3
    <3>2. list[i] \in Antennas \X Measures \X Ids
      BY <2>1, <3>1
    <3>3. answer[list[i][3]] = <<list[i][2], list[i][1]>>
      BY <3>1 DEF SurveyInv, MeasuredOnItsAntenna, Told, Measure
    <3> QED
      BY <2>3, <3>1, <3>2, <3>3
  <2> QED
    BY <2>4
<1> QED
  BY <1>1, SurveyInitInv, StepSurvey, PTL DEF SurveySpec
=============================================================================
