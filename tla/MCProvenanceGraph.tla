------------------------- MODULE MCProvenanceGraph -------------------------
(* Nothing tells one PID from another, nor one object. *)
EXTENDS ProvenanceGraph, TLC

Symmetry == Permutations(Pids)
=============================================================================
