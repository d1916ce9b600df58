----------------------------- MODULE MCQuickRun -----------------------------
(* A small instance of QuickRun: CPUs are interchangeable. *)
EXTENDS QuickRun

MCSymmetry == Permutations(Cpus)
=============================================================================
