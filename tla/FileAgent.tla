------------------------------ MODULE FileAgent ------------------------------
(***************************************************************************)
(* agent/file_agent.py: the BPF programs that note which path a descriptor *)
(* was opened under, and the user-space loop that turns their events into  *)
(* records.  The loop writes its records to a file and is itself traced.   *)
(*                                                                         *)
(* openat and close are what they are to the tracepoints: the entry, the   *)
(* work of the kernel and, for openat, the return are three steps of a     *)
(* thread.  Descriptors that socket, dup2, fork and the like make go past  *)
(* the tracepoints, and so does the end of a process.                      *)
(*                                                                         *)
(* A program uses a descriptor only after the call that made it returned.  *)
(***************************************************************************)
EXTENDS Naturals, Sequences, FiniteSets

CONSTANTS
  Threads,     \* the traced threads, AgentThread among them
  AgentThread, \* the only thread of the agent
  Pids,        \* the processes
  AgentPid,
  Pid,         \* the process a thread belongs to (pid_tgid >> 32)
  LastFd,      \* bound: descriptors of a process
  Paths,       \* file names
  OwnLog,      \* fileio.jsonl
  NoisePaths,  \* names is_noise knows: /proc, /sys, ..., the log directory
  Capacity,    \* entries a BPF_HASH holds, 10240
  QueueLen,    \* events the perf buffer holds; a later one is lost
  FlushEvery,  \* printed lines that fill the buffer of stdout
  Sampled,     \* WRITE_SAMPLE_RATE is above 1
  CanFault,    \* the name passed to openat may not be in memory yet
  MaxCalls,    \* bound: system calls of the other processes
  MaxStarts    \* bound: processes that take over a PID

Fds == 1..LastFd

ASSUME FileAgentAssumption ==
  /\ Pid \in [Threads -> Pids]
  /\ AgentThread \in Threads /\ AgentPid \in Pids
  /\ \A t \in Threads : Pid[t] = AgentPid <=> t = AgentThread
  /\ LastFd \in Nat \ {0}
  /\ OwnLog \in NoisePaths /\ NoisePaths \subseteq Paths /\ "" \notin Paths
  /\ {Capacity, QueueLen, FlushEvery, MaxCalls, MaxStarts} \subseteq Nat
  /\ {Sampled, CanFault} \subseteq BOOLEAN

VARIABLES
  table,     \* the kernel's descriptors of each process
  thr,       \* where each thread is in a system call
  inflight,  \* inflight_open: the name each thread is opening
  fdPaths,   \* fd_paths: the name of each descriptor
  queue,     \* the perf buffer
  job,       \* the calls handle_event still makes
  printed,   \* lines in the buffer of stdout
  fedBack,   \* history: a write of a record was recorded itself
  refused,   \* history: an update found its map full
  calls, starts

vars == <<table, thr, inflight, fdPaths, queue, job, printed, fedBack, refused,
          calls, starts>>

(* How a descriptor came to be: openat has made it and not returned yet; it *)
(* has, and its entry was noted, or was not; or some other call made it.    *)
Origin == {"closed", "opening", "openat", "unnoted", "other"}
Closed == [by |-> "closed", path |-> ""]
Other  == [by |-> "other", path |-> ""]
Usable(p, f) == table[p][f].by \in {"openat", "unnoted", "other"}

AtUser == [at |-> "user", path |-> "", noted |-> FALSE, fd |-> 0]
Name == Paths \cup {""}

(* Of an event, the name that is_noise looks at, and whether it is the      *)
(* agent's write of a record.                                               *)
Event == [path : Name, own : BOOLEAN]

Descriptor == [by : Origin, path : Name]
ThreadState == [at : {"user", "entered", "opened", "failed", "closing"},
                path : Name, noted : BOOLEAN, fd : Fds \cup {0}]

TypeOK ==
  /\ table \in [Pids -> [Fds -> Descriptor]]
  /\ thr \in [Threads -> ThreadState]
  /\ inflight \in [Threads -> Name]
  /\ fdPaths \in [Pids \X Fds -> Name]
  /\ queue \in Seq(Event)
  /\ job \in Seq({"flush", "open", "write", "close"})
  /\ printed \in Nat
  /\ fedBack \in BOOLEAN
  /\ refused \in BOOLEAN
  /\ calls \in Nat /\ starts \in Nat

(* A new process has inherited some descriptors; stdout is one of them. *)
Inherited == {d \in [Fds -> {Closed, Other}] : d[1] = Other}

Init ==
  /\ table = [p \in Pids |-> [f \in Fds |-> IF f = 1 THEN Other ELSE Closed]]
  /\ thr = [t \in Threads |-> AtUser]
  /\ inflight = [t \in Threads |-> ""]
  /\ fdPaths = [k \in Pids \X Fds |-> ""]
  /\ queue = <<>> /\ job = <<>> /\ printed = 0
  /\ fedBack = FALSE /\ refused = FALSE
  /\ calls = 0 /\ starts = 0
-----------------------------------------------------------------------------
(* The maps and the perf buffer. *)

(* update of a full BPF_HASH replaces an entry and adds none. *)
HasRoom(map, key) ==
  map[key] # "" \/ Cardinality({k \in DOMAIN map : map[k] # ""}) < Capacity

Submit(e) == queue' = IF Len(queue) < QueueLen THEN Append(queue, e) ELSE queue

(* The next call of the agent is due; other programs call what they like.   *)
May(t, call) ==
  /\ thr[t].at = "user"
  /\ IF t = AgentThread THEN job # <<>> /\ Head(job) = call ELSE calls < MaxCalls

Called(t) ==
  IF t = AgentThread THEN job' = Tail(job) /\ calls' = calls
                     ELSE calls' = calls + 1 /\ job' = job
-----------------------------------------------------------------------------
(* System calls. *)

(* trace_openat; a name that is not in memory reads as "" and is ignored.   *)
EnterOpen(t, path, readable) ==
  /\ May(t, "open") /\ (t = AgentThread => path = OwnLog)
  /\ readable \/ (CanFault /\ t # AgentThread)
  /\ LET noted == readable /\ HasRoom(inflight, t) IN
       /\ inflight' = IF noted THEN [inflight EXCEPT ![t] = path] ELSE inflight
       /\ thr' = [thr EXCEPT ![t] = [at |-> "entered", path |-> path,
                                     noted |-> noted, fd |-> 0]]
       /\ refused' = (refused \/ (readable /\ ~noted))
  /\ IF readable
     THEN Submit([path |-> path, own |-> FALSE])
     ELSE queue' = queue
  /\ Called(t)
  /\ UNCHANGED <<table, fdPaths, printed, fedBack, starts>>

(* The kernel opens the file under the lowest descriptor that is free.      *)
DoOpen(t) ==
  /\ thr[t].at = "entered"
  /\ \E f \in Fds :
       /\ table[Pid[t]][f] = Closed
       /\ \A g \in 1..(f - 1) : table[Pid[t]][g] # Closed
       /\ table' = [table EXCEPT ![Pid[t]][f] =
                      [by |-> "opening", path |-> thr[t].path]]
       /\ thr' = [thr EXCEPT ![t] = [@ EXCEPT !.at = "opened", !.fd = f]]
  /\ UNCHANGED <<inflight, fdPaths, queue, job, printed, fedBack, refused, calls,
                 starts>>

OpenFails(t) ==
  /\ thr[t].at = "entered" /\ t # AgentThread
  /\ thr' = [thr EXCEPT ![t].at = "failed"]
  /\ UNCHANGED <<table, inflight, fdPaths, queue, job, printed, fedBack, refused,
                 calls, starts>>

(* The agent keeps the descriptor. *)
Returned(t) == [AtUser EXCEPT !.fd = IF t = AgentThread THEN thr[t].fd ELSE 0]

(* Faulty variant of the next definition: an entry that is there is not     *)
(* replaced.                                                                *)
ExitOpenInsert(t) ==
  /\ thr[t].at = "opened"
  /\ LET key == <<Pid[t], thr[t].fd>>
     IN  fdPaths' = IF fdPaths[key] = "" THEN [fdPaths EXCEPT ![key] = inflight[t]]
                    ELSE fdPaths
  /\ inflight' = [inflight EXCEPT ![t] = ""]
  /\ table' = [table EXCEPT ![Pid[t]][thr[t].fd].by =
                  IF thr[t].noted THEN "openat" ELSE "unnoted"]
  /\ thr' = [thr EXCEPT ![t] = Returned(t)]
  /\ UNCHANGED <<queue, job, printed, fedBack, refused, calls, starts>>

(* trace_openat_ret *)
ExitOpen(t) ==
  /\ thr[t].at \in {"opened", "failed"}
  /\ LET key == <<Pid[t], thr[t].fd>>
         update == thr[t].at = "opened" /\ inflight[t] # ""
     IN  /\ fdPaths' = IF update /\ HasRoom(fdPaths, key)
                       THEN [fdPaths EXCEPT ![key] = inflight[t]] ELSE fdPaths
         /\ refused' = (refused \/ (update /\ ~HasRoom(fdPaths, key)))
  /\ inflight' = [inflight EXCEPT ![t] = ""]
  /\ table' = IF thr[t].at = "failed" THEN table
              ELSE [table EXCEPT ![Pid[t]][thr[t].fd].by =
                      IF thr[t].noted THEN "openat" ELSE "unnoted"]
  /\ thr' = [thr EXCEPT ![t] = Returned(t)]
  /\ UNCHANGED <<queue, job, printed, fedBack, calls, starts>>

(* trace_close *)
EnterClose(t, f) ==
  /\ May(t, "close") /\ (t = AgentThread => f = thr[t].fd)
  /\ Usable(Pid[t], f)
  /\ fdPaths' = [fdPaths EXCEPT ![<<Pid[t], f>>] = ""]
  /\ thr' = [thr EXCEPT ![t] = [AtUser EXCEPT !.at = "closing", !.fd = f]]
  /\ Called(t)
  /\ UNCHANGED <<table, inflight, queue, printed, fedBack, refused, starts>>

(* Another thread may have closed it meanwhile. *)
DoClose(t) ==
  /\ thr[t].at = "closing"
  /\ table' = IF Usable(Pid[t], thr[t].fd)
              THEN [table EXCEPT ![Pid[t]][thr[t].fd] = Closed] ELSE table
  /\ thr' = [thr EXCEPT ![t] = AtUser]
  /\ UNCHANGED <<inflight, fdPaths, queue, job, printed, fedBack, refused, calls,
                 starts>>

(* trace_write *)
Write(t, f) ==
  /\ \/ May(t, "write") /\ (t = AgentThread => f = thr[t].fd)
     \/ May(t, "flush") /\ t = AgentThread /\ f = 1
  /\ Usable(Pid[t], f)
  /\ \/ Submit([path |-> fdPaths[<<Pid[t], f>>],
                own |-> t = AgentThread /\ table[AgentPid][f].path = OwnLog])
     \/ Sampled /\ queue' = queue
  /\ Called(t)
  /\ UNCHANGED <<table, thr, inflight, fdPaths, printed, fedBack, refused, starts>>

(* trace_unlinkat, trace_renameat, trace_renameat2: only the old name of a  *)
(* rename is looked at by is_noise.                                         *)
NameCall(t, path) ==
  /\ t # AgentThread /\ May(t, "name")
  /\ Submit([path |-> path, own |-> FALSE])
  /\ Called(t)
  /\ UNCHANGED <<table, thr, inflight, fdPaths, printed, fedBack, refused, starts>>

(* socket, pipe, accept, open, dup, dup2 onto a descriptor in use: none of  *)
(* them is traced.                                                          *)
OtherCall(t, f) ==
  /\ t # AgentThread /\ May(t, "other")
  /\ table[Pid[t]][f].by # "opening"
  /\ table' = [table EXCEPT ![Pid[t]][f] = Other]
  /\ Called(t)
  /\ UNCHANGED <<thr, inflight, fdPaths, queue, printed, fedBack, refused, starts>>

(* A process ends, wherever its threads are, and its PID goes to a new one, *)
(* which inherits descriptors from its parent.                              *)
Replace(p) ==
  /\ p # AgentPid /\ starts < MaxStarts
  /\ \E d \in Inherited : table' = [table EXCEPT ![p] = d]
  /\ thr' = [t \in Threads |-> IF Pid[t] = p THEN AtUser ELSE thr[t]]
  /\ starts' = starts + 1
  /\ UNCHANGED <<inflight, fdPaths, queue, job, printed, fedBack, refused, calls>>
-----------------------------------------------------------------------------
(* The agent. *)

(* Faulty variant of the next definition: the log directory is not noise. *)
IsNoiseNoLog(path) == path \in NoisePaths \ {OwnLog}

IsNoise(path) == path \in NoisePaths

(* Faulty variant of the next definition: print flushes every line. *)
JobForFlushing(lines) == <<"flush", "open", "write", "close">>

(* Calls of write_record, after the print that may fill the buffer. *)
JobFor(lines) ==
  (IF lines = FlushEvery THEN <<"flush">> ELSE <<>>) \o <<"open", "write", "close">>

(* handle_event, up to its own system calls. *)
HandleEvent ==
  /\ job = <<>> /\ thr[AgentThread].at = "user"
  /\ queue # <<>>
  /\ queue' = Tail(queue)
  /\ IF IsNoise(Head(queue).path)
     THEN UNCHANGED <<job, printed, fedBack>>
     ELSE /\ fedBack' = (fedBack \/ Head(queue).own)
          /\ job' = JobFor(printed + 1)
          /\ printed' = IF printed + 1 = FlushEvery THEN 0 ELSE printed + 1
  /\ UNCHANGED <<table, thr, inflight, fdPaths, refused, calls, starts>>

SystemCall(t) ==
  \/ \E path \in Paths, readable \in BOOLEAN : EnterOpen(t, path, readable)
  \/ DoOpen(t) \/ OpenFails(t) \/ ExitOpen(t)
  \/ \E f \in Fds : EnterClose(t, f) \/ Write(t, f) \/ OtherCall(t, f)
  \/ DoClose(t)
  \/ \E path \in Paths : NameCall(t, path)

Agent == HandleEvent \/ SystemCall(AgentThread)

Next ==
  \/ \E t \in Threads : SystemCall(t)
  \/ \E p \in Pids : Replace(p)
  \/ HandleEvent

Spec == Init /\ [][Next]_vars

(* main() polls for ever; a system call of the agent returns. *)
FairSpec == Spec /\ WF_vars(Agent)
-----------------------------------------------------------------------------
(* A descriptor that openat made, and whose name was noted, is never known  *)
(* under another name, whatever the threads of the process, the earlier     *)
(* owners of its PID and full maps have done (fd_paths).                    *)
OpenedPathsRight ==
  \A p \in Pids, f \in Fds :
    table[p][f].by = "openat" => fdPaths[<<p, f>>] \in {"", table[p][f].path}

(* While no map was full, the agent never records the writes it makes to    *)
(* its own log (is_noise).                                                  *)
OwnWritesFiltered == ~refused => ~fedBack

(* While no map is full, the agent comes to rest once the others do: its    *)
(* print of a record may fill the buffer of stdout and lead to one more     *)
(* record, but not for ever.                                                *)
Settles == <>[](refused \/ (queue = <<>> /\ job = <<>>))
=============================================================================
