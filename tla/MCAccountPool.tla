---------------------------- MODULE MCAccountPool ----------------------------
(* AccountPool on small instances: the run checks liveness, so without symmetry. *)
EXTENDS AccountPool, TLC

=============================================================================
