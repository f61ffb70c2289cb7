---------------------------- MODULE MCCheckpoint ----------------------------
(* Instances of Checkpoint for TLC: two writers, each with its process. *)
EXTENDS Checkpoint

MCWriter == 1..2
=============================================================================
