------------------------------ MODULE MCProbes ------------------------------
(* Instances of Probes for TLC. *)
EXTENDS Probes, TLC

CONSTANTS poller, retention, r1, r2, d1

SomeBounds == <<10>>
RequestsAlike == Permutations(Readers)
=============================================================================
