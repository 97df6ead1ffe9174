--------------------------- MODULE MCByteExchange ---------------------------
(* Instances of ByteExchange for TLC.                                      *)
EXTENDS ByteExchange

Ask(op, args) == [op |-> op, args |-> args]

Fast(antennas, phase) ==
    [op |-> "FastSwitchAntInventory", antennas |-> antennas, interval |-> 5,
     session |-> 1, target |-> 0, phase |-> phase, repeat |-> 1]
Single(phase) ==
    [op |-> "CustomizeSessionTargetInventory", session |-> 1, target |-> 1,
     phase |-> phase, repeat |-> 1]
EightAntennas == [i \in 1..8 |-> <<i - 1, 1>>]

(* An inventory with phases, and answers of the lengths of an antenna      *)
(* error and of a tag without a phase.                                     *)
MergedRequests ==
    {Ask("GetOutputPower", <<>>), Ask("GetReaderTemperature", <<>>),
     Fast(EightAntennas, 1)}

(* Answers of every length: a single byte that is 0, the version, a region *)
(* of a band, the temperature, a setter; both inventories.                 *)
AllRequests ==
    MergedRequests \cup
    {Ask("GetAntConnectionDetector", <<>>),
     Ask("GetFirmwareVersion", <<>>),
     Ask("GetFrequencyRegion", <<>>),
     Ask("GetRfLinkProfile", <<>>),
     Ask("SetOutputPower", <<30, 25>>),
     Ask("SetBeeperMode", <<2>>),
     [op |-> "SetDefaultFrequencyRegion", spectrum |-> "ETSI",
      low |-> 865000, high |-> 868000],
     [op |-> "GetRfPortReturnLoss", frequency |-> 866000],
     Fast(<< <<0, 1>>, <<3, 2>> >>, 0),
     Single(0)}

PhaseRequests == {Single(1), Fast(EightAntennas, 1)}

(* A bound: three calls are made of the merged requests only.              *)
ThirdIsMerged ==
    last = 3 => \A q \in 1..3 : sent[q] \in MergedRequests

(* A tag of one word.  The rest of its frame, from PC on, looks like a     *)
(* frame: PC has a length, and the EPC the code of the fast switching      *)
(* inventory.                                                              *)
LikeAFrame ==
    [frequency |-> 866000, antenna |-> 2, pc |-> <<8, 5>>,
     epc |-> <<226, 138>>, rssi |-> 61, choosing |-> <<1>>, phase |-> <<2, 9>>]
OneTag == {LikeAFrame}
=============================================================================
