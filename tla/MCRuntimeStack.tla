---------------------------- MODULE MCRuntimeStack ----------------------------
(* Small instances of RuntimeStack: the detector and one agent. *)
EXTENDS RuntimeStack, TLC

MCOrder == <<"detector", "agent">>
MCSymmetry == Permutations(Pids)

(* Nothing but QuickStartsClean reads what the logs hold. *)
MCView == <<proc, manifest, cli, issued, rebooted, ghosts>>
=============================================================================
