----------------------------- MODULE TraceAgent -----------------------------
(***************************************************************************)
(* The six agents that are a BPF program, a perf buffer and a loop:        *)
(* process, net, dns, kmod, memory and syscall.  They attach their probes, *)
(* open the buffer, and turn one event after the other into a line of      *)
(* their log until a signal ends them.  Where their code is the same line  *)
(* for line it is modelled once.                                           *)
(*                                                                         *)
(* The kernel keeps one ring per CPU and drops what does not fit.  A log   *)
(* may be moved away at any moment: a record goes into the file that was   *)
(* at the path when the agent opened it.  A record is flushed when the     *)
(* file is closed, so that killing the agent before loses it whole.        *)
(***************************************************************************)
EXTENDS Naturals, SequencesExt

CONSTANTS
  Agents,     \* agents that run, by the names of RUNTIME_COMPONENTS
  Cpus,
  RingLen,    \* events a ring holds
  MaxEvents   \* bound: calls in the traced programs

ASSUME TraceAssumption ==
  /\ Agents \subseteq {"process", "net", "dns", "kmod", "memory", "syscall"}
  /\ RingLen \in Nat \ {0} /\ MaxEvents \in Nat

VARIABLES
  at,        \* where each agent is: "off", "attach", "poll",
             \* "open" and "write" of handle_event
  attached,  \* of the probes a call passes, how many are attached
  ring,      \* the perf buffer: the events of each CPU
  hand,      \* the event handle_event works on, 0 for none
  holds,     \* which of its log files write_record has opened
  files,     \* its log files in the order they were made
  live,      \* the last of them is at the path
  termed,    \* SIGTERM is pending
  calls,     \* the calls so far; an event is the number of its call
  cpuOf,     \* history: the CPU of each call
  lost       \* history: events given up on a full ring, a failing write or
             \* the end of an agent

logs      == <<files, live>>
agentVars == <<at, attached, ring, hand, holds, termed>>
traceHist == <<calls, cpuOf, lost>>
traceVars == <<agentVars, logs, traceHist>>

Events == 1..MaxEvents

TypeOK ==
  /\ at \in [Agents -> {"off", "attach", "poll", "open", "write"}]
  /\ attached \in [Agents -> Nat]
  /\ ring \in [Agents -> [Cpus -> Seq(Events)]]
  /\ \A a \in Agents, c \in Cpus : Len(ring[a][c]) <= RingLen
  /\ hand \in [Agents -> Events \cup {0}]
  /\ files \in [Agents -> Seq(Seq(Events))]
  /\ \A a \in Agents : holds[a] \in 0..Len(files[a])
  /\ \A a \in Agents : at[a] = "write" => holds[a] # 0 /\ hand[a] # 0
  /\ \A a \in Agents : live[a] => files[a] # <<>>
  /\ termed \in [Agents -> BOOLEAN]
  /\ calls \in 0..MaxEvents /\ lost \subseteq Events

EmptyRing == [c \in Cpus |-> <<>>]

TraceInit ==
  /\ at = [a \in Agents |-> "off"]
  /\ attached = [a \in Agents |-> 0]
  /\ ring = [a \in Agents |-> EmptyRing]
  /\ hand = [a \in Agents |-> 0]
  /\ holds = [a \in Agents |-> 0]
  /\ files = [a \in Agents |-> <<>>]
  /\ live = [a \in Agents |-> FALSE]
  /\ termed = [a \in Agents |-> FALSE]
  /\ calls = 0 /\ cpuOf = <<>> /\ lost = {}

Up == {a \in Agents : at[a] # "off"}

(* What the kernel and the interpreter hold for an agent. *)
Inside(a) == ({hand[a]} \ {0})
               \cup UNION {ToSet(ring[a][c]) : c \in Cpus}

(* The agents of A are gone, and what was on its way in them. *)
Gone(A) ==
  /\ at' = [a \in Agents |-> IF a \in A THEN "off" ELSE at[a]]
  /\ attached' = [a \in Agents |-> IF a \in A THEN 0 ELSE attached[a]]
  /\ ring' = [a \in Agents |-> IF a \in A THEN EmptyRing ELSE ring[a]]
  /\ hand' = [a \in Agents |-> IF a \in A THEN 0 ELSE hand[a]]
  /\ holds' = [a \in Agents |-> IF a \in A THEN 0 ELSE holds[a]]
  /\ termed' = [a \in Agents |-> IF a \in A THEN FALSE ELSE termed[a]]
-----------------------------------------------------------------------------
(* The start of an agent. *)

(* Faulty variant of the next definition: no break after the first success. *)
OnCallEvery(a) == IF a = "net" THEN {1, 2} ELSE {0, 1}

(* How many of the probes on the way of a call may come to be attached: net *)
(* tries two that every connect passes and takes the first; memory and      *)
(* syscall do with the probes there are, so that a call may pass none; the  *)
(* others have one, or the loader attaches theirs.                          *)
OnCall(a) == IF a \in {"memory", "syscall"} THEN {0, 1} ELSE {1}

(* The probes, and open_perf_buffer: of calls before it nobody hears. *)
Attach(a) ==
  /\ at[a] = "attach"
  /\ \E n \in OnCall(a) : attached' = [attached EXCEPT ![a] = n]
  /\ at' = [at EXCEPT ![a] = "poll"]
  /\ UNCHANGED <<ring, hand, holds, termed, logs, traceHist>>

(* No probe can be attached: the agent leaves. *)
AttachNone(a) ==
  /\ at[a] = "attach"
  /\ Gone({a})
  /\ UNCHANGED <<logs, traceHist>>
-----------------------------------------------------------------------------
(* The kernel: perf_submit on the CPU of the call. *)

Traces(a) == at[a] \in {"poll", "open", "write"}

(* The ring after a call: one event of each attached probe, if it fits. *)
Submitted(a, c) ==
  LET all == ring[a][c] \o [i \in 1..attached[a] |-> calls + 1]
  IN  SubSeq(all, 1, IF Len(all) <= RingLen THEN Len(all) ELSE RingLen)

Call(a, c) ==
  /\ calls < MaxEvents
  /\ Traces(a) /\ attached[a] > 0
  /\ calls' = calls + 1
  /\ cpuOf' = Append(cpuOf, c)
  /\ ring' = [ring EXCEPT ![a][c] = Submitted(a, c)]
  /\ lost' = IF Len(ring[a][c]) < RingLen THEN lost ELSE lost \cup {calls + 1}
  /\ UNCHANGED <<at, attached, hand, holds, termed, logs>>
-----------------------------------------------------------------------------
(* perf_buffer_poll, handle_event and write_record. *)

Poll(a, c) ==
  /\ at[a] = "poll"
  /\ ring[a][c] # <<>>
  /\ hand' = [hand EXCEPT ![a] = Head(ring[a][c])]
  /\ ring' = [ring EXCEPT ![a][c] = Tail(@)]
  /\ at' = [at EXCEPT ![a] = "open"]
  /\ UNCHANGED <<attached, holds, termed, logs, traceHist>>

(* Faulty variant of the next definition: opened to write, which empties it. *)
OpenLogEmptied(a) ==
  /\ at[a] = "open"
  /\ files' = [files EXCEPT ![a] = IF live[a] THEN [@ EXCEPT ![Len(@)] = <<>>]
                                   ELSE Append(@, <<>>)]
  /\ live' = [live EXCEPT ![a] = TRUE]
  /\ holds' = [holds EXCEPT ![a] = Len(files'[a])]
  /\ at' = [at EXCEPT ![a] = "write"]
  /\ UNCHANGED <<attached, ring, hand, termed, traceHist>>

(* open(OUT_FILE, "a") *)
OpenLog(a) ==
  /\ at[a] = "open"
  /\ files' = [files EXCEPT ![a] = IF live[a] THEN @ ELSE Append(@, <<>>)]
  /\ live' = [live EXCEPT ![a] = TRUE]
  /\ holds' = [holds EXCEPT ![a] = Len(files'[a])]
  /\ at' = [at EXCEPT ![a] = "write"]
  /\ UNCHANGED <<attached, ring, hand, termed, traceHist>>

(* The line, and the close that flushes it. *)
WriteLine(a) ==
  /\ at[a] = "write"
  /\ files' = [files EXCEPT ![a][holds[a]] = Append(@, hand[a])]
  /\ hand' = [hand EXCEPT ![a] = 0]
  /\ holds' = [holds EXCEPT ![a] = 0]
  /\ at' = [at EXCEPT ![a] = "poll"]
  /\ UNCHANGED <<attached, ring, termed, live, traceHist>>

(* Back to the loop without the record. *)
GiveUp(a) ==
  /\ at' = [at EXCEPT ![a] = "poll"]
  /\ lost' = lost \cup {hand[a]}
  /\ hand' = [hand EXCEPT ![a] = 0]
  /\ holds' = [holds EXCEPT ![a] = 0]
  /\ UNCHANGED <<attached, ring, logs, calls, cpuOf>>

(* open or write fails: the exception is caught, or, in memory, ends with   *)
(* the callback of ctypes.                                                  *)
WriteFails(a) ==
  /\ at[a] \in {"open", "write"}
  /\ GiveUp(a)
  /\ UNCHANGED termed
-----------------------------------------------------------------------------
(* Signals. *)

(* The end of agents: what they had not written is lost. *)
End(A) ==
  /\ Gone(A)
  /\ lost' = lost \cup UNION {Inside(a) : a \in A}
  /\ UNCHANGED <<logs, calls, cpuOf>>

(* handle_sig ends the interpreter.  net has no handler and is ended by the *)
(* kernel.                                                                  *)
Sigterm(a) ==
  /\ termed[a]
  /\ End({a})

(* Raised in the callback, SystemExit may be dropped by ctypes: the record  *)
(* is lost, the agent goes on.                                              *)
SigtermSwallowed(a) ==
  /\ termed[a] /\ a # "net"
  /\ at[a] \in {"open", "write"}
  /\ GiveUp(a)
  /\ termed' = [termed EXCEPT ![a] = FALSE]

(* SIGTERM to every agent of A. *)
Term(A) ==
  /\ termed' = [a \in Agents |-> termed[a] \/ a \in A]
  /\ UNCHANGED <<at, attached, ring, hand, holds, logs, traceHist>>

AgentStep(a) ==
  \/ Attach(a) \/ AttachNone(a)
  \/ \E c \in Cpus : Poll(a, c)
  \/ OpenLog(a) \/ WriteLine(a) \/ WriteFails(a)
  \/ Sigterm(a) \/ SigtermSwallowed(a)
=============================================================================
