------------------------------- MODULE MCSync -------------------------------
(* Instances of Sync for TLC: peers are the writers of the same name. *)
EXTENDS Sync

MCWriter == 1..3
MCClient == {1}
MCTrusted == {1, 2}
=============================================================================
