---------------------------- MODULE MCEpochFold ----------------------------
(* Instances of EpochFold for TLC. *)
EXTENDS EpochFold
=============================================================================
