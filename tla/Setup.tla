------------------------------- MODULE Setup -------------------------------
(***************************************************************************)
(* Connector::setup_reader: four settings of the reader, each read, and    *)
(* written when it is not the wanted one.  The same in sync and async.     *)
(* Only an error of the call itself stops it: the answer to a write is     *)
(* dropped, whatever it says.                                              *)
(***************************************************************************)
EXTENDS ReaderPort, Frequencies

CONSTANTS
    Wanted,             \* regions that may be wanted: spectrum and ends, kHz
    PowerIsErrorCode    \* the wanted power is one byte, 0x11, 0x20 or 0x21

ASSUME WantedAssumption ==
    Wanted \subseteq [spectrum: Spectrums, low: Nat, high: Nat]
ASSUME PowerAssumption == PowerIsErrorCode \in BOOLEAN

(* The settings, in the order in which setup_reader goes through them.     *)
Settings ==
    << [get |-> "GetAntConnectionDetector",
        set |-> "SetAntConnectionDetector"],
       [get |-> "GetFrequencyRegion", set |-> "SetDefaultFrequencyRegion"],
       [get |-> "GetOutputPower", set |-> "SetOutputPower"],
       [get |-> "GetRfLinkProfile", set |-> "SetRfLinkProfile"] >>

Keys == DOMAIN Settings

ASSUME SettingsAssumption ==
    \A k \in Keys : {Settings[k].get, Settings[k].set} \subseteq Commands

VARIABLES
    region,     \* the wanted region: working_freq_setup
    device,     \* the reader's settings, as compared to the wanted ones
    at,         \* the setting setup_reader is at
    op,         \* what it does with it: "get" or "set"
    result      \* "none" before the first run, "running", "ok", "failed",
                \* or "panicked"

setupVars == <<at, op, result, region>>
allVars == <<vars, readerVars, device, setupVars>>

(* The wanted region can be written, and so be that of a reader.           *)
InTable == {region.low, region.high} \subseteq Table

SetupInit ==
    /\ ReaderInit
    /\ region \in Wanted
    /\ device \in [Keys -> {"wanted", "other"}]
    /\ \A k \in Keys :
          (Settings[k].get = "GetFrequencyRegion" /\ device[k] = "wanted")
              => InTable
    /\ at = 1
    /\ op = "get"
    /\ result = "none"

-----------------------------------------------------------------------------
(* The reader (external).                                                  *)

ServesGet(k) ==
    /\ served < last
    /\ cmd[served + 1] = Settings[k].get
    /\ \E a \in {<<device[k]>>, <<"refused">>, <<>>} : Serve(a)
    /\ UNCHANGED <<device, setupVars>>

(* A write is carried out, refused, or lost; it may also be carried out    *)
(* and not answered.                                                       *)
ServesSet(k) ==
    /\ served < last
    /\ cmd[served + 1] = Settings[k].set
    /\ \/ /\ \E a \in {<<"success">>, <<>>} : Serve(a)
          /\ device' = [device EXCEPT ![k] = "wanted"]
       \/ /\ \E a \in {<<"refused">>, <<>>} : Serve(a)
          /\ UNCHANGED device
    /\ UNCHANGED setupVars

-----------------------------------------------------------------------------
(* setup_reader may be called again, after it succeeded or failed.         *)
Start ==
    /\ result \notin {"running", "panicked"}
    /\ Idle
    /\ last < MaxCalls
    /\ at' = 1
    /\ op' = "get"
    /\ result' = "running"
    /\ UNCHANGED <<vars, readerVars, device, region>>

Finish(r) == result' = r /\ UNCHANGED <<at, op, region>>

(* The next call of send_and_read_command: its command is sent, or `?`     *)
(* takes the error of the send out of setup_reader.                        *)
Command == IF op = "get" THEN Settings[at].get ELSE Settings[at].set

(* to_bytes looks the frequencies up in the table, and panics.             *)
Encodable == Command = "SetDefaultFrequencyRegion" => InTable

CallPanics ==
    /\ result = "running"
    /\ Idle
    /\ last < MaxCalls
    /\ ~Encodable
    /\ Finish("panicked")
    /\ UNCHANGED <<vars, readerVars, device>>

Call ==
    /\ result = "running"
    /\ Encodable
    /\ Begin(Command, "open")
    /\ UNCHANGED <<readerVars, device, setupVars>>

CallFails ==
    /\ result = "running"
    /\ Encodable
    /\ Begin(Command, "failed")
    /\ Finish("failed")
    /\ UNCHANGED <<readerVars, device>>

CallGivesUp ==
    /\ result = "running"
    /\ GiveUp("failed")
    /\ Finish("failed")
    /\ UNCHANGED <<readerVars, device>>

(* How the answer to a read compares to the wanted value.  The refusal is  *)
(* one byte of data where the code takes any data for the value (detector, *)
(* power), an error where it tells them apart (link profile), and not      *)
(* readable at all for the region: the call goes on waiting.               *)
Readable(k, a) ==
    ~(Settings[k].get = "GetFrequencyRegion" /\ a = <<"refused">>)

(* A custom region is read back as (CUSTOM, 0.0, 0.0): as no wanted one.   *)
Same(k, a) ==
    \/ /\ a = <<"wanted">>
       /\ ~(Settings[k].get = "GetFrequencyRegion"
               /\ region.spectrum = "CUSTOM")
    \/ /\ a = <<"refused">>
       /\ Settings[k].get = "GetOutputPower"
       /\ PowerIsErrorCode

Unchecked(k, a) == Settings[k].get = "GetRfLinkProfile" /\ a = <<"refused">>

(* Mutant: the last setting is left out.                                   *)
GoOnEarly ==
    IF at + 1 < Len(Settings)
    THEN at' = at + 1 /\ op' = "get" /\ UNCHANGED <<result, region>>
    ELSE at' = at + 1 /\ result' = "ok" /\ UNCHANGED <<op, region>>

GoOn ==
    IF at < Len(Settings)
    THEN at' = at + 1 /\ op' = "get" /\ UNCHANGED <<result, region>>
    ELSE at' = at + 1 /\ result' = "ok" /\ UNCHANGED <<op, region>>

(* Mutant: any answer to the read is taken for the wanted value.           *)
GotAny(a) == GoOn

(* Mutant: the setting is written whatever the read said.                  *)
GotAlways(a) == op' = "set" /\ UNCHANGED <<at, result, region>>

Got(a) ==
    \/ Unchecked(at, a) /\ Finish("failed")
    \/ Same(at, a) /\ GoOn
    \/ /\ ~Same(at, a)
       /\ ~Unchecked(at, a)
       /\ op' = "set"
       /\ UNCHANGED <<at, result, region>>

GetReturns ==
    /\ result = "running" /\ op = "get"
    /\ \E r, u \in Ids :
          /\ Answered(r, u)
          /\ Readable(at, answer[r])
          /\ Got(answer[r])
    /\ UNCHANGED device

(* The answer to a write is not looked at.                                 *)
SetReturns ==
    /\ result = "running" /\ op = "set"
    /\ \E r, u \in Ids : Answered(r, u)
    /\ GoOn
    /\ UNCHANGED device

SetupNext ==
    \/ \E k \in Keys : ServesGet(k) \/ ServesSet(k)
    \/ Start
    \/ Call
    \/ CallPanics
    \/ CallFails
    \/ CallGivesUp
    \/ GetReturns
    \/ SetReturns

SetupSpec == SetupInit /\ [][SetupNext]_allVars

-----------------------------------------------------------------------------
SetupTypeOK ==
    /\ TypeOK
    /\ ReaderTypeOK
    /\ region \in Wanted
    /\ device \in [Keys -> {"wanted", "other"}]
    /\ at \in 1..(Len(Settings) + 1)
    /\ op \in {"get", "set"}
    /\ result \in {"none", "running", "ok", "failed", "panicked"}
    /\ result # "running" => Idle
    /\ result = "ok" <=> at = Len(Settings) + 1

(* The reader refused to write setting k, or to say what its power is, in  *)
(* one byte that is the wanted power.                                      *)
Misled(k) ==
    \E q \in Ids :
        /\ answer[q] = <<"refused">>
        /\ \/ cmd[q] = Settings[k].set
           \/ cmd[q] = Settings[k].get /\ Same(k, answer[q])

(* As far as setup_reader has come, the settings are the wanted ones, and  *)
(* all of them when it returns Ok: however late answers come, whichever    *)
(* call they answer and however often setup is run again.  Only a refused  *)
(* write, or a refusal that reads as the wanted power, of that very        *)
(* setting breaks this: no other refusal does.                             *)
PassedSettingsHold ==
    \A k \in Keys : k < at => (device[k] = "wanted" \/ Misled(k))

(* A reader that holds the wanted settings is not written to: setup can be *)
(* run again and changes nothing, unless a read is answered with the stale *)
(* answer of an abandoned one, or refused, or the region is a custom one.  *)
WritesAreNeeded ==
    [][\A k \in Keys :
          (/\ last' > last
           /\ ~(Settings[k].get = "GetFrequencyRegion"
                   /\ region.spectrum = "CUSTOM")
           /\ cmd'[last'] = Settings[k].set
           /\ NoStale(Settings[k].get)
           /\ \A q \in Ids :
                 cmd[q] = Settings[k].get => answer[q] # <<"refused">>)
             => device[k] = "other"]_allVars

(* "Power and Frequency configuration (supports FCC, ETSI, CHN, and CUSTOM *)
(* spectrums)" (README.md): setup does not panic on the region it is given *)
(* (the tests make connectors for CHN, 920.125 to 924.875 MHz).            *)
SupportsRegion == result # "panicked"

(* "Initialize the reader with the provided settings" (README.md).         *)
SetupConfigures == result = "ok" => \A k \in Keys : device[k] = "wanted"
=============================================================================
