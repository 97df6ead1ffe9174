----------------------------- MODULE MCExchange -----------------------------
(* Instances of Exchange for TLC: which commands of Command::to_bytes each *)
(* configuration sends.                                                    *)
EXTENDS Exchange
=============================================================================
