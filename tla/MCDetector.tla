----------------------------- MODULE MCDetector -----------------------------
(* Small instances of Detector. *)
EXTENDS Detector

MCFilesTwo == <<"kmod", "memory">>
MCFilesOne == <<"memory">>
MCFilesThree == <<"kmod", "memory", "syscall">>
MCNoHistory == <<>>

(* What an earlier owner of PID 11 left in the log. *)
Old(k) == [key |-> k, ts |-> 0, bytes |-> 0, long |-> FALSE, rare |-> FALSE,
           pid |-> 11, inst |-> 0, shielded |-> FALSE]
MCHistory == <<Old("memory.mmap"), Old("memory.mprotect")>>
=============================================================================
