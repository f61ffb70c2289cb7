----------------------------- MODULE MCTemporal -----------------------------
(* Temporal by itself, for TLC. *)
EXTENDS Temporal

Spec == TemporalInit /\ [][TemporalNext]_temporalVars
=============================================================================
