------------------------------- MODULE Survey -------------------------------
(***************************************************************************)
(* Connector::get_statistic_to_all_antennas, and the antennas that         *)
(* build_fast_switching_antenna_cfg picks from it: antenna by antenna, the *)
(* reader is made to work on it and asked for its return loss.  The answer *)
(* does not say which antenna it is about, and the answer to the selection *)
(* is dropped, whatever it says.                                           *)
(***************************************************************************)
EXTENDS ReaderPort, Frequencies, Selection, SequencesExt

CONSTANTS
    Total,          \* total_number_of_antennas
    Lows, Highs     \* ends, in kHz, that the working range may have

ASSUME TotalAssumption == Total \in Nat
ASSUME SurveyAssumption ==
    {"SetWorkAntenna", "GetRfPortReturnLoss"} \subseteq Commands

Antennas == 0..(Total - 1)

(* What the reader answers to GetRfPortReturnLoss:                         *)
(*   fit     a return loss above 9 dB, a VSWR below 2.0                    *)
(*   unfit   a return loss of 1 to 9 dB                                    *)
(*   open    a return loss of 0: no antenna                                *)
(*   failed  CommandFail, 0x11: below 0x1E, it is read as 17 dB            *)
(*   error   any other error code                                          *)
Measures == {"fit", "unfit", "open", "failed", "error"}

VARIABLES
    low, high,  \* the working range: working_freq_setup
    antenna,    \* the reader's working antenna
    arg,        \* id |-> the antenna the call selects
    at,         \* the antenna the survey is at
    op,         \* what it does with it: "select" or "measure"
    list,       \* the antennas measured so far: <<id, measure, call>>
    result      \* "none" before the first survey, "running", "ok", "failed",
                \* or "panicked"

range == <<low, high>>
surveyVars == <<arg, at, op, list, result, range>>
allVars == <<vars, readerVars, antenna, surveyVars>>

SurveyInit ==
    /\ ReaderInit
    /\ low \in Lows
    /\ high \in Highs
    /\ antenna \in Antennas
    /\ arg = [q \in Ids |-> 0]
    /\ at = 0
    /\ op = "select"
    /\ list = <<>>
    /\ result = "none"

-----------------------------------------------------------------------------
(* The reader (external).                                                  *)

ServesSelect ==
    /\ served < last
    /\ cmd[served + 1] = "SetWorkAntenna"
    /\ \/ /\ \E a \in {<<"success">>, <<>>} : Serve(a)
          /\ antenna' = arg[served + 1]
       \/ /\ \E a \in {<<"refused">>, <<>>} : Serve(a)
          /\ UNCHANGED antenna
    /\ UNCHANGED surveyVars

ServesMeasure ==
    /\ served < last
    /\ cmd[served + 1] = "GetRfPortReturnLoss"
    /\ \E a \in {<<m, antenna>> : m \in Measures} \cup {<<>>} : Serve(a)
    /\ UNCHANGED <<antenna, surveyVars>>

-----------------------------------------------------------------------------
(* A survey may follow another, finished or failed.                        *)
Start ==
    /\ result \notin {"running", "panicked"}
    /\ Idle
    /\ last < MaxCalls
    /\ at' = 0
    /\ op' = "select"
    /\ list' = <<>>
    /\ result' = IF Total = 0 THEN "ok" ELSE "running"
    /\ UNCHANGED <<vars, readerVars, antenna, arg, range>>

Finish(r) == result' = r /\ UNCHANGED <<at, op>>

(* The next call of send_and_read_command; `?` takes its error out.        *)
Command == IF op = "select" THEN "SetWorkAntenna" ELSE "GetRfPortReturnLoss"

(* The return loss is asked for at the middle of the working range, looked *)
(* up in the table of frequencies by to_bytes, which panics.               *)
Encodable == op = "measure" => ReferenceFrequency(low, high) \in Table

CallPanics ==
    /\ result = "running"
    /\ Idle
    /\ last < MaxCalls
    /\ ~Encodable
    /\ Finish("panicked")
    /\ UNCHANGED <<vars, readerVars, antenna, arg, list, range>>

Call(s) ==
    /\ result = "running"
    /\ Encodable
    /\ Begin(Command, s)
    /\ arg' = [arg EXCEPT ![last + 1] = at]
    /\ UNCHANGED <<readerVars, antenna, list, range>>

CallIsSent == Call("open") /\ UNCHANGED <<at, op, result>>
CallFails == Call("failed") /\ Finish("failed")

CallGivesUp ==
    /\ result = "running"
    /\ GiveUp("failed")
    /\ Finish("failed")
    /\ UNCHANGED <<readerVars, antenna, arg, list, range>>

SelectReturns ==
    /\ result = "running" /\ op = "select"
    /\ \E r, u \in Ids : Answered(r, u)
    /\ op' = "measure"
    /\ UNCHANGED <<antenna, arg, at, list, result, range>>

(* core_map_get_rf_port_return_loss: an antenna whose return loss is an    *)
(* error is left out.                                                      *)
IsVswr(m) == m \in {"fit", "unfit", "failed"}

(* Mutant: the last antenna is never reached.                              *)
NextAntennaButLast ==
    /\ at' = at + 1
    /\ IF at + 2 < Total
       THEN op' = "select" /\ UNCHANGED result
       ELSE result' = "ok" /\ UNCHANGED op

NextAntenna ==
    /\ at' = at + 1
    /\ IF at + 1 < Total
       THEN op' = "select" /\ UNCHANGED result
       ELSE result' = "ok" /\ UNCHANGED op

(* Mutant: antennas are counted from 1.                                    *)
AppendedFromOne(r) == Append(list, <<at + 1, answer[r][1], r>>)
Appended(r) == Append(list, <<at, answer[r][1], r>>)

MeasureReturns ==
    /\ result = "running" /\ op = "measure"
    /\ \E r, u \in Ids :
          /\ Answered(r, u)
          /\ list' = IF IsVswr(answer[r][1]) THEN Appended(r) ELSE list
    /\ NextAntenna
    /\ UNCHANGED <<antenna, arg, range>>

SurveyNext ==
    \/ ServesSelect
    \/ ServesMeasure
    \/ Start
    \/ CallIsSent
    \/ CallPanics
    \/ CallFails
    \/ CallGivesUp
    \/ SelectReturns
    \/ MeasureReturns

SurveySpec == SurveyInit /\ [][SurveyNext]_allVars

(* Mutant: every antenna measured is used.                                 *)
AllMeasured == list

(* core_build_fast_switching_antennas: those with a VSWR below 2.0.        *)
Chosen ==
    Selected(list, {i \in DOMAIN list : list[i][2] \in {"fit", "failed"}})

-----------------------------------------------------------------------------
SurveyTypeOK ==
    /\ TypeOK
    /\ ReaderTypeOK
    /\ low \in Lows /\ high \in Highs
    /\ antenna \in Antennas
    /\ arg \in [Ids -> Antennas]
    /\ at \in 0..Total
    /\ op \in {"select", "measure"}
    /\ \A e \in ToSet(list) :
          e[1] \in Antennas /\ e[2] \in Measures /\ e[3] \in Ids
    /\ result \in {"none", "running", "ok", "failed", "panicked"}
    /\ result # "running" => Idle

(* No selection was refused, nor lost while the call that made it returned *)
(* the answer of an older one.                                             *)
SelectionsCarriedOut ==
    \A q \in 1..served :
        (cmd[q] = "SetWorkAntenna" /\ status[q] = "replied")
            => answer[q] = <<"success">>

(* What is said of an antenna was measured on it, in this survey, and each *)
(* antenna is said one thing of at most, even when answers of selections   *)
(* of an earlier survey are still coming in: unless a return loss was      *)
(* asked for and not waited for before, or a selection not carried out.    *)
MeasuredOnItsAntenna ==
    (SelectionsCarriedOut /\ NoStale("GetRfPortReturnLoss")) =>
        \A i, j \in DOMAIN list :
            /\ answer[list[i][3]] = <<list[i][2], list[i][1]>>
            /\ i < j => list[i][1] < list[j][1] /\ list[i][3] < list[j][3]

(* A survey that ends Ok has asked for the return loss of every antenna    *)
(* (its calls are the last 2 * Total): of one it does not list the reader  *)
(* said that it is open, or that it could not measure it.                  *)
MissingAreOpen ==
    (/\ result = "ok"
     /\ SelectionsCarriedOut
     /\ NoStale("GetRfPortReturnLoss")) =>
        \A a \in Antennas :
            (\A e \in ToSet(list) : e[1] # a) =>
                \E q \in Ids :
                    /\ last < q + 2 * Total
                    /\ answer[q] \in {<<"open", a>>, <<"error", a>>}

(* Only antennas found fit are used for fast switching, unless CommandFail *)
(* has been read as a return loss.                                         *)
ChosenAreFit ==
    (/\ SelectionsCarriedOut
     /\ NoStale("GetRfPortReturnLoss")
     /\ \A q \in Ids, a \in Antennas : answer[q] # <<"failed", a>>)
        => \A e \in ToSet(Chosen) : answer[e[3]] = <<"fit", e[1]>>

(* The middle of a range within a band of the table is in the table: only  *)
(* a range with an end outside of the table, or one that spans both bands, *)
(* makes a survey panic (after the first antenna has been selected).       *)
PanicsOffBand ==
    result = "panicked" =>
        ~ \E p, q \in Params : /\ SameBand(p, q)
                               /\ low = GetFrequency(p)
                               /\ high = GetFrequency(q)
=============================================================================
