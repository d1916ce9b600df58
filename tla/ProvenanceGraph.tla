-------------------------- MODULE ProvenanceGraph --------------------------
(***************************************************************************)
(* build_provenance_graph of features/graph_utils.py over the events of    *)
(* one session, and what graph_summary of features/feature_builder.py      *)
(* reads out of it.                                                        *)
(*                                                                         *)
(* The function sees events in the order of time, so that the host that    *)
(* produces them and the loop that consumes them take their steps          *)
(* together.  The host forks, execs, exits and gives free PIDs to new      *)
(* tasks; a session is a window of its life, and nothing of what came      *)
(* before the window is known to the loop.                                 *)
(*                                                                         *)
(* The scheduler's tracepoints know tasks: a thread has a fork and an exit *)
(* of its own, under its TID, which the loop takes for a PID.  Every other *)
(* event carries the PID of the process, and current_ppid() that of the    *)
(* process's real parent.                                                  *)
(*                                                                         *)
(* A process node is a pair <<pid, k>>, the k-th instance of its PID: the  *)
(* code's key is the time of the event that made it, which is unique.  An  *)
(* object is a file, an endpoint, a host name, a region of memory, a       *)
(* system call or a module.  Labels and edge attributes are left out.      *)
(***************************************************************************)
EXTENDS Naturals, FiniteSets

CONSTANTS
  Pids,      \* PIDs, without 0
  Objects,   \* what events other than those of processes name
  MaxLives,  \* bound: tasks that ever run
  MaxExecs,  \* bound: execs of one process
  MaxEvents  \* bound: events of the session

ASSUME GraphAssumption ==
  /\ 0 \notin Pids /\ IsFiniteSet(Pids)
  /\ {MaxLives, MaxExecs, MaxEvents} \subseteq Nat

VARIABLES
  life,       \* host: which task holds the PID, in order of birth (0: none)
  leader,     \* host: the PID of its process: its own, but for a thread
  execs,      \* host: how often that process has exec'ed
  parent,     \* host: the process's real parent (0: init, which is outside)
  lives,      \* host: tasks born so far
  observing,  \* the window has begun
  seen,       \* events of the session so far
  instance,   \* process_instances
  births,     \* process_birth_index
  edges,      \* the edges, as <<from, to, source>>
  touched,    \* history: which image had an event put on which node
  stands,     \* history: which process a node was taken for, by any event
  did         \* history: which image acted on which object

host    == <<life, leader, execs, parent, lives>>
graph   == <<instance, births, edges>>
history == <<touched, stands, did>>
session == <<observing, seen>>
vars    == <<host, session, graph, history>>

None == <<0, 0>>    \* the PID is not in process_instances

Node  == Pids \X Nat
Image == Nat \X Nat                \* a task, and how often it had exec'ed
ImageOf(p) == <<life[p], execs[p]>>

TypeOK ==
  /\ life \in [Pids -> Nat]
  /\ leader \in [Pids -> Pids]
  /\ execs \in [Pids -> Nat]
  /\ parent \in [Pids -> Pids \cup {0}]
  /\ lives \in Nat
  /\ observing \in BOOLEAN /\ seen \in 0..MaxEvents
  /\ instance \in [Pids -> Node \cup {None}]
  /\ births \in [Pids -> Nat]
  /\ \A e \in edges : e[1] \in Node /\ e[2] \in Node \cup Objects
  /\ touched \subseteq Image \X Node
  /\ stands \subseteq Node \X Nat
  /\ did \subseteq Image \X Objects

Init ==
  /\ life = [p \in Pids |-> 0]
  /\ leader = [p \in Pids |-> p]
  /\ execs = [p \in Pids |-> 0]
  /\ parent = [p \in Pids |-> 0]
  /\ lives = 0
  /\ observing = FALSE /\ seen = 0
  /\ instance = [p \in Pids |-> None]
  /\ births = [p \in Pids |-> 0]
  /\ edges = {} /\ touched = {} /\ stands = {} /\ did = {}
-----------------------------------------------------------------------------
(* The loop body. *)

Known(p) == instance[p] # None

(* Faulty variant of the next definition: an exec goes on with the node. *)
RotatesNew(p, action) == ~Known(p)

(* should_rotate_instance *)
Rotates(p, action) == ~Known(p) \/ action = "exec"

(* Faulty variant of the next definition: a node named by the PID alone. *)
FreshPid(p) == <<p, 1>>

(* _create_process_instance *)
Fresh(p) == <<p, births[p] + 1>>

Subject(p, action) == IF Rotates(p, action) THEN Fresh(p) ELSE instance[p]

(* The node of the PID that causes the event, made or found. *)
PutSubject(p, action) ==
  /\ instance' = [instance EXCEPT ![p] = Subject(p, action)]
  /\ births' = [births EXCEPT ![p] = IF Rotates(p, action) THEN @ + 1 ELSE @]

(* An event of the process agent: an edge from the parent's instance, if    *)
(* the parent has been seen.                                                *)
Lineage(p, pp, action) ==
  IF pp \in Pids /\ Known(pp)
  THEN {<<instance[pp], Subject(p, action), "process">>}
  ELSE {}

Counted == seen < MaxEvents /\ seen' = seen + 1

(* The PIDs an event is about, as the host knows them when it happens. *)
StandsFor(S, inst, lf) == {<<inst[q], lf[q]>> : q \in {r \in S : inst[r] # None}}

(* The PIDs are held as `lf` and `ex` say. *)
ProcessEvent(p, pp, action, lf, ex) ==
  /\ PutSubject(p, action)
  /\ edges' = edges \cup Lineage(p, pp, action)
  /\ touched' = touched \cup {<<<<lf[p], ex[p]>>, Subject(p, action)>>}
  /\ stands' = stands \cup StandsFor({p, pp} \cap Pids, instance', lf)
  /\ Counted
  /\ UNCHANGED did

Unseen == UNCHANGED <<seen, graph, history>>
-----------------------------------------------------------------------------
(* The host, and what its steps look like to the loop. *)

OpenWindow ==
  /\ ~observing
  /\ observing' = TRUE
  /\ UNCHANGED <<host, seen, graph, history>>

Live == {p \in Pids : life[p] # 0}

Threads(p) == {t \in Live : t # p /\ leader[t] = p}

(* A task of process `of`, forked by the task pp. *)
NewTask(c, pp, of, up) ==
  /\ life[c] = 0
  /\ lives < MaxLives
  /\ lives' = lives + 1
  /\ life' = [life EXCEPT ![c] = lives + 1]
  /\ leader' = [leader EXCEPT ![c] = of]
  /\ execs' = [execs EXCEPT ![c] = 0]
  /\ parent' = [parent EXCEPT ![c] = up]
  /\ IF observing THEN ProcessEvent(c, pp, "fork", life', execs') ELSE Unseen
  /\ UNCHANGED observing

(* pp = 0: a process whose parent is outside. *)
Fork(c, pp) ==
  /\ pp \in {0} \cup Live
  /\ NewTask(c, pp, c, IF pp = 0 THEN 0 ELSE leader[pp])

(* A thread has the parent of its process. *)
StartThread(c, pp) ==
  /\ pp \in Live
  /\ NewTask(c, pp, leader[pp], parent[leader[pp]])

(* The other threads have exited by then. *)
Exec(p) ==
  /\ p \in Live /\ leader[p] = p /\ Threads(p) = {}
  /\ execs[p] < MaxExecs
  /\ execs' = [execs EXCEPT ![p] = @ + 1]
  /\ UNCHANGED <<life, leader, parent, lives, observing>>
  /\ IF observing THEN ProcessEvent(p, parent[p], "exec", life, execs') ELSE Unseen

(* The processes above p, from its parent to init. *)
Ancestors(p) ==
  {a \in Pids \cup {0} :
     \A S \in SUBSET (Pids \cup {0}) :
       parent[p] \in S /\ (\A q \in S \ {0} : parent[q] \in S) => a \in S}

(* The PID is free, and the children go to init or to a subreaper above.    *)
Leave(p) ==
  /\ life' = [life EXCEPT ![p] = 0]
  /\ leader' = [leader EXCEPT ![p] = p]
  /\ \E reaper \in {0} \cup Ancestors(p) :
       parent' = [q \in Pids |-> IF q = p THEN 0
                                 ELSE IF parent[q] = p THEN reaper
                                 ELSE parent[q]]

(* The exit of a thread or of a process, with the wait that frees the PID;  *)
(* a leader that leaves threads behind keeps its PID until they are gone.   *)
Exit(p) ==
  /\ p \in Live
  /\ IF observing THEN ProcessEvent(p, parent[p], "exit", life, execs) ELSE Unseen
  /\ IF Threads(p) = {} THEN Leave(p) ELSE UNCHANGED <<life, leader, parent>>
  /\ UNCHANGED <<execs, lives, observing>>

(* That leader is freed in the end without another event, and so is the TID *)
(* of a thread that execs: it takes the PID.                                *)
LeaveUnseen(p) ==
  /\ p \in Live /\ Threads(p) = {}
  /\ Leave(p)
  /\ Unseen
  /\ UNCHANGED <<execs, lives, observing>>

(* An event of any other agent, naming an object. *)
Act(p, o) ==
  /\ observing
  /\ p \in Live /\ leader[p] = p
  /\ PutSubject(p, "act")
  /\ edges' = edges \cup {<<Subject(p, "act"), o, "other">>}
  /\ touched' = touched \cup {<<ImageOf(p), Subject(p, "act")>>}
  /\ stands' = stands \cup StandsFor({p}, instance', life)
  /\ did' = did \cup {<<ImageOf(p), o>>}
  /\ Counted
  /\ UNCHANGED <<host, observing>>

(* One that names none, a connection without an address for one, makes or   *)
(* finds the process node all the same.                                     *)
ActOnNothing(p) ==
  /\ observing
  /\ p \in Live /\ leader[p] = p
  /\ PutSubject(p, "act")
  /\ touched' = touched \cup {<<ImageOf(p), Subject(p, "act")>>}
  /\ stands' = stands \cup StandsFor({p}, instance', life)
  /\ Counted
  /\ UNCHANGED <<host, observing, edges, did>>

(* Faulty variant of the next definition: the target is always made anew. *)
VmWritevFresh(p, t) ==
  /\ observing
  /\ p \in Live /\ leader[p] = p /\ t # p
  /\ instance' = [instance EXCEPT ![p] = Subject(p, "act"), ![t] = Fresh(t)]
  /\ births' = [births EXCEPT ![p] = IF Rotates(p, "act") THEN @ + 1 ELSE @,
                              ![t] = @ + 1]
  /\ edges' = edges \cup {<<Subject(p, "act"), Fresh(t), "memory">>}
  /\ touched' = touched \cup {<<ImageOf(p), Subject(p, "act")>>}
  /\ stands' = stands \cup StandsFor({p, t}, instance', life)
  /\ Counted
  /\ UNCHANGED <<host, observing, did>>

(* process_vm_writev: the call is seen on entry, so that its target need    *)
(* not exist; an unknown target is made like a subject.                     *)
VmWritev(p, t) ==
  /\ observing
  /\ p \in Live /\ leader[p] = p /\ t # p
  /\ instance' = [instance EXCEPT ![p] = Subject(p, "act"),
                                  ![t] = Subject(t, "act")]
  /\ births' = [births EXCEPT ![p] = IF Rotates(p, "act") THEN @ + 1 ELSE @,
                              ![t] = IF Rotates(t, "act") THEN @ + 1 ELSE @]
  /\ edges' = edges \cup {<<Subject(p, "act"), Subject(t, "act"), "memory">>}
  /\ touched' = touched \cup {<<ImageOf(p), Subject(p, "act")>>}
  /\ stands' = stands \cup StandsFor({p, t}, instance', life)
  /\ Counted
  /\ UNCHANGED <<host, observing, did>>

Next ==
  \/ OpenWindow
  \/ \E p \in Pids :
       \/ \E pp \in Pids \cup {0} : Fork(p, pp) \/ StartThread(p, pp)
       \/ Exec(p) \/ Exit(p) \/ LeaveUnseen(p) \/ ActOnNothing(p)
       \/ \E o \in Objects : Act(p, o)
       \/ \E t \in Pids : VmWritev(p, t)

Spec == Init /\ [][Next]_vars
-----------------------------------------------------------------------------
(* graph_summary *)

ProcessNodes == UNION {{p} \X (1..births[p]) : p \in Pids}

(* Faulty variant of the next definition: every edge between processes. *)
ProcessEdgesAll ==
  {<<e[1], e[2]>> : e \in {f \in edges : f[3] \in {"process", "memory"}}}

ProcessEdges == {<<e[1], e[2]>> : e \in {f \in edges : f[3] = "process"}}

Roots == {n \in ProcessNodes : \A m \in ProcessNodes : <<m, n>> \notin ProcessEdges}

(* What the loop over the roots reaches. *)
Reached ==
  LET step[i \in Nat] ==
        IF i = 0 THEN Roots
        ELSE LET S == step[i - 1] IN
             S \cup {n \in ProcessNodes : \E m \in S : <<m, n>> \in ProcessEdges}
  IN  step[Cardinality(ProcessNodes)]
-----------------------------------------------------------------------------
(* All events of one process image are on one node, however they interleave *)
(* with other processes' writes into it (lines 73-98 and 178-196).          *)
ImageOneNode == \A a, b \in touched : a[1] = b[1] => a[2] = b[2]

(* Two images share a node only when a later task got the PID and had       *)
(* not exec'ed: an exec always ends an instance, an exit never does         *)
(* (graph_utils.py:73-80).                                                  *)
SharedOnlyByReuse ==
  \A a, b \in touched :
    a[2] = b[2] /\ a[1] # b[1] =>
      /\ a[1][1] # b[1][1]
      /\ a[1][1] < b[1][1] => b[1][2] = 0

(* A node that has stood for two tasks. *)
Mixed(n) == \E a, b \in stands : a[1] = n /\ b[1] = n /\ a[2] # b[2]

(* Asked who acted on an object, a node that stands for one process answers *)
(* for exactly the image that did.                                          *)
BlameExact ==
  \A a \in touched : ~Mixed(a[2]) =>
    \A o \in Objects : <<a[2], o, "other">> \in edges <=> <<a[1], o>> \in did

(* While no node has stood for two tasks, every task lies below a           *)
(* root, so that graph_process_depth takes it into account: lineage has no  *)
(* cycle, whoever writes into whose memory (feature_builder.py:53-67).      *)
DepthSeesAll ==
  (\A n \in ProcessNodes : ~Mixed(n)) => ProcessNodes \subseteq Reached
=============================================================================
