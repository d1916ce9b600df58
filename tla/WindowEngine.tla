---------------------------- MODULE WindowEngine ----------------------------
(***************************************************************************)
(* The pure scoring core of monitoring/window_engine.py: what the metrics  *)
(* of a window are and which reasons make its score.                       *)
(*                                                                         *)
(* Time is a whole number of the 0.001 s that window_duration_seconds      *)
(* never goes below, so that the rates are compared by multiplying out.    *)
(* A DNS host name is reduced to the two questions asked of it: is it long *)
(* and is a label of it of high entropy.  timeline_ts and sort_ts are one  *)
(* timestamp ts here.                                                      *)
(***************************************************************************)
EXTENDS Integers, SequencesExt

CONSTANTS
  RenameBurst, DeleteBurst,   \* ThresholdProfile, counts
  WriteBytesBurst,            \* ThresholdProfile, bytes in the window
  WriteRate,                  \* ThresholdProfile, bytes per time unit
  OpsInterval,                \* ThresholdProfile, time units per file operation
  SyscallBurst, DnsBurst, LongDns, RareDns

ASSUME ThresholdAssumption ==
  /\ {RenameBurst, DeleteBurst, WriteBytesBurst, WriteRate, OpsInterval,
      SyscallBurst, DnsBurst, LongDns, RareDns} \subseteq Nat \ {0}

(* event_key, in the string order that breaks ties of time. *)
KeyOrder == <<"dns.query", "file.delete", "file.open", "file.rename",
  "file.write", "kmod.load", "memory.mmap", "memory.mprotect",
  "memory.vm_writev", "syscall.ptrace">>

EventKey == ToSet(KeyOrder)
Event == [key : EventKey, ts : Nat, bytes : Nat, long : BOOLEAN, rare : BOOLEAN]

Rank == [k \in EventKey |-> CHOOSE i \in DOMAIN KeyOrder : KeyOrder[i] = k]

(* event_order_key: time first, the event key last. *)
Precedes(a, b) ==
  \/ a.ts < b.ts
  \/ a.ts = b.ts /\ Rank[a.key] < Rank[b.key]

(* Faulty variant: the window is scored in the order of arrival. *)
SortEventsNot(events) == events

(* sort_events, by the place of every event; of two events that neither     *)
(* precedes the other the earlier arrival stays first, as in sorted().      *)
Before(events, i, j) ==
  \/ Precedes(events[i], events[j])
  \/ i < j /\ ~Precedes(events[j], events[i])

Place(events, i) == 1 + Cardinality({j \in DOMAIN events : Before(events, j, i)})

SortEvents(events) ==
  [n \in DOMAIN events |->
     events[CHOOSE i \in DOMAIN events : Place(events, i) = n]]

(* The sum of the natural numbers f takes, as the size of a set of as many  *)
(* units, so that sums are compared without a fold.                         *)
TotalOf(f) == Cardinality(UNION {{x} \X (1..f[x]) : x \in DOMAIN f})

(* The metrics. *)
Count(events, k) == Cardinality({i \in DOMAIN events : events[i].key = k})
LongNames(events) == Cardinality({i \in DOMAIN events : events[i].long})
RareNames(events) == Cardinality({i \in DOMAIN events : events[i].rare})
WriteBytes(events) == TotalOf([i \in DOMAIN events |-> events[i].bytes])

Duration(sorted) ==
  IF sorted = <<>> THEN 1
  ELSE LET d == sorted[Len(sorted)].ts - sorted[1].ts
       IN  IF d > 1 THEN d ELSE 1

FileChurn(events) ==
  Count(events, "file.rename") + Count(events, "file.delete")
    + Count(events, "file.write")

(* count_named_patterns: the pattern occurs as consecutive event keys. *)
HasPattern(sorted, pattern) ==
  \E i \in 1..(Len(sorted) - Len(pattern) + 1) :
    \A j \in DOMAIN pattern : sorted[i + j - 1].key = pattern[j]

RansomwareSequence(sorted) ==
  \/ HasPattern(sorted, <<"file.open", "file.write", "file.rename">>)
  \/ HasPattern(sorted, <<"file.write", "file.rename", "file.delete">>)

(* Faulty variant: the two halves must be consecutive. *)
MemoryExecComboSeq(events) ==
  HasPattern(SortEvents(events), <<"memory.mmap", "memory.mprotect">>)

MemoryExecCombo(events) ==
  Count(events, "memory.mmap") > 0 /\ Count(events, "memory.mprotect") > 0

MemoryInjectCombo(events) ==
  Count(events, "memory.vm_writev") > 0 /\ Count(events, "memory.mprotect") > 0

(* The reasons that only count events; they hold of any order and spacing.  *)
CountReasons(events) ==
  {r \in {"rename burst", "delete burst", "exec memory", "injection",
          "syscalls", "dns burst", "entropy", "kmod"} :
    CASE r = "rename burst" -> Count(events, "file.rename") >= RenameBurst
                               /\ WriteBytes(events) >= WriteBytesBurst
      [] r = "delete burst" -> Count(events, "file.delete") >= DeleteBurst
      [] r = "exec memory"  -> MemoryExecCombo(events)
      [] r = "injection"    -> MemoryInjectCombo(events)
      [] r = "syscalls"     -> Count(events, "syscall.ptrace") >= SyscallBurst
      [] r = "dns burst"    -> Count(events, "dns.query") >= DnsBurst
                               /\ LongNames(events) >= LongDns
      [] r = "entropy"      -> RareNames(events) >= RareDns
      [] r = "kmod"         -> Count(events, "kmod.load") > 0}

(* The reasons that depend on when, and in which order, things happened.    *)
TimedReasons(sorted) ==
  {r \in {"write rate", "file spike", "sequence"} :
    CASE r = "write rate" -> WriteBytes(sorted) >= WriteRate * Duration(sorted)
      [] r = "file spike" -> FileChurn(sorted) * OpsInterval >= Duration(sorted)
      [] r = "sequence"   -> RansomwareSequence(sorted)}

Reasons(events) == CountReasons(events) \cup TimedReasons(SortEvents(events))

Weight(r) ==
  CASE r \in {"rename burst", "exec memory", "injection", "kmod"} -> 4
    [] r \in {"sequence", "dns burst"} -> 3
    [] OTHER -> 2

Score(events) == TotalOf([r \in Reasons(events) |-> Weight(r)])
=============================================================================
