----------------------------- MODULE MCSurvey -----------------------------
(* Instances of Survey for TLC.                                            *)
EXTENDS Survey
=============================================================================
