------------------------------ MODULE MCSetup ------------------------------
(* Instances of Setup for TLC: the regions that are wanted.                *)
EXTENDS Setup

InBand == [spectrum |-> "ETSI", low |-> 865000, high |-> 868000]
Custom == [InBand EXCEPT !.spectrum = "CUSTOM"]

(* That of the connectors the tests make.                                  *)
OfTests == [spectrum |-> "CHN", low |-> 920125, high |-> 924875]

AllRegions == {InBand, Custom, OfTests}
OneRegion == {InBand}
TestRegion == {OfTests}

(* A bound: regions that setup cannot read back, or not write, have five   *)
(* calls, enough for a run that fails and one that gets to the region.     *)
OtherRegionsShort == region # InBand => last <= 5
=============================================================================
