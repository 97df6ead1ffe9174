---------------------------- MODULE MCTagStreams ----------------------------
(* Instances of TagStreams for TLC: the blocking iterator and the async    *)
(* stream, over the commands of each configuration.                        *)
EXTENDS TagStreams
=============================================================================
