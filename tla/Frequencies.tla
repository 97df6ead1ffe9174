----------------------------- MODULE Frequencies -----------------------------
(***************************************************************************)
(* The tables of working frequencies that a request carries by index, in   *)
(* kHz (the code's f64 are multiples of 0.5 MHz, all exact).  It has two   *)
(* bands of steps of 500 kHz: indices 0..6 from 865 MHz and 7..59 from     *)
(* 902 MHz.  The lookups match literals, and panic on anything else.       *)
(***************************************************************************)
EXTENDS Integers

Spectrums == {"FCC", "ETSI", "CHN", "CUSTOM"}

Params == 0..59
Low == 0..6         \* the indices of the lower band
High == 7..59       \* the indices of the upper band

GetFrequency(param) ==
    IF param \in Low THEN 865000 + 500 * param ELSE 902000 + 500 * (param - 7)

(* get_param is a table of its own, written the other way round.           *)
ParamRows ==
    {<<865000, 0>>, <<865500, 1>>, <<866000, 2>>, <<866500, 3>>,
     <<867000, 4>>, <<867500, 5>>, <<868000, 6>>, <<902000, 7>>,
     <<902500, 8>>, <<903000, 9>>, <<903500, 10>>, <<904000, 11>>,
     <<904500, 12>>, <<905000, 13>>, <<905500, 14>>, <<906000, 15>>,
     <<906500, 16>>, <<907000, 17>>, <<907500, 18>>, <<908000, 19>>,
     <<908500, 20>>, <<909000, 21>>, <<909500, 22>>, <<910000, 23>>,
     <<910500, 24>>, <<911000, 25>>, <<911500, 26>>, <<912000, 27>>,
     <<912500, 28>>, <<913000, 29>>, <<913500, 30>>, <<914000, 31>>,
     <<914500, 32>>, <<915000, 33>>, <<915500, 34>>, <<916000, 35>>,
     <<916500, 36>>, <<917000, 37>>, <<917500, 38>>, <<918000, 39>>,
     <<918500, 40>>, <<919000, 41>>, <<919500, 42>>, <<920000, 43>>,
     <<920500, 44>>, <<921000, 45>>, <<921500, 46>>, <<922000, 47>>,
     <<922500, 48>>, <<923000, 49>>, <<923500, 50>>, <<924000, 51>>,
     <<924500, 52>>, <<925000, 53>>, <<925500, 54>>, <<926000, 55>>,
     <<926500, 56>>, <<927000, 57>>, <<927500, 58>>, <<928000, 59>>}

(* The frequencies it knows; it panics on any other.                       *)
Table == {row[1] : row \in ParamRows}

GetParam(f) == (CHOOSE row \in ParamRows : row[1] = f)[2]

(* Mutant: the middle of the range is not truncated.                       *)
MiddleFrequency(lo, hi) == (lo + hi) \div 2

(* The frequency the antennas are measured at: the middle of the working   *)
(* range, truncated to MHz.                                                *)
ReferenceFrequency(lo, hi) == (((lo + hi) \div 2) \div 1000) * 1000

SameBand(p, q) == (p \in Low /\ q \in Low) \/ (p \in High /\ q \in High)
=============================================================================
