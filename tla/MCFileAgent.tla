----------------------------- MODULE MCFileAgent -----------------------------
(* A small instance of FileAgent: one other process, with two threads. *)
EXTENDS FileAgent

CONSTANTS ta, t1, t2, pa, p1

MCPid == [t \in {ta, t1, t2} |-> IF t = ta THEN pa ELSE p1]
=============================================================================
