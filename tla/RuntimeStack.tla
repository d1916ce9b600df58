---------------------------- MODULE RuntimeStack ----------------------------
(***************************************************************************)
(* os_monitor.py: the commands start, stop and quick, run by one or more   *)
(* CLI processes, the components they spawn, the manifest and the logs.    *)
(* watch is start followed by a dashboard that changes nothing.            *)
(*                                                                         *)
(* The kernel side is what matters to the code: a PID is free, held by a   *)
(* running process or by a zombie; a zombie answers kill(pid, 0); a child  *)
(* that dies is a zombie until its CLI reaps it, which the subprocess      *)
(* module does whenever the CLI starts another process, or ends; a free    *)
(* PID may be given to a stranger.  SIGKILL takes effect at once.          *)
(*                                                                         *)
(* A read of the manifest and the liveness check of its rows are one step, *)
(* so are the signals of one loop; every wait is a step of its own.        *)
(***************************************************************************)
EXTENDS Naturals, Sequences, FiniteSets

CONSTANTS
  Clis,         \* CLI processes that may run at the same time
  Order,        \* the components in the order they are started, the
                \* detector first
  Pids,         \* bound: the PIDs
  Commands,     \* the commands issued, among start, restart, quick, stop
  MaxCommands,  \* bound: how many
  CanCrash,     \* a component may die on its own
  CanAbort,     \* a CLI may be killed between two steps
  CanReboot,    \* the host may reboot, once; the logs survive
  CanOmit,      \* a start may be given --no-detector
  Strangers     \* other processes may take a free PID

Components == {Order[i] : i \in DOMAIN Order}

ASSUME StackAssumption ==
  /\ Order \in Seq(Components) /\ Order # <<>>
  /\ \A i, j \in DOMAIN Order : Order[i] = Order[j] => i = j
  /\ Components \cap {"", "stranger"} = {}
  /\ Commands \subseteq {"start", "restart", "quick", "stop"}
  /\ MaxCommands \in Nat
  /\ {CanCrash, CanAbort, CanReboot, CanOmit, Strangers} \subseteq BOOLEAN
  /\ 0 \notin Pids /\ "init" \notin Clis

VARIABLES
  proc,       \* the process table
  manifest,   \* runtime_state.json: the PID of each component, or NoManifest
  log,        \* the runs whose events the live logs hold
  cli,        \* each CLI: its command and where it is in it
  issued,     \* commands issued; the number of the latest run
  rebooted,
  overlap,    \* history: two CLIs were active at once
  alone       \* history: CLIs that no other was active beside

ghosts == <<overlap, alone>>
vars == <<proc, manifest, log, cli, issued, rebooted, ghosts>>

NoManifest == [k \in Components |-> 0]
Free == [who |-> "", st |-> "free", parent |-> "init", termed |-> FALSE, run |-> 0]

Idle == [cmd |-> "", pc |-> "idle", phase |-> "start", todo |-> {}, next |-> 1,
         started |-> NoManifest, run |-> 0, kept |-> FALSE]

Init ==
  /\ proc = [p \in Pids |-> Free]
  /\ manifest = NoManifest
  /\ log = {}
  /\ cli = [c \in Clis |-> Idle]
  /\ issued = 0 /\ rebooted = FALSE
  /\ overlap = FALSE /\ alone = {}

TypeOK ==
  /\ proc \in [Pids -> [who : Components \cup {"", "stranger"},
                        st : {"free", "run", "zombie"},
                        parent : Clis \cup {"init"},
                        termed : BOOLEAN, run : 0..MaxCommands]]
  /\ manifest \in [Components -> Pids \cup {0}]
  /\ log \subseteq 1..MaxCommands
  /\ \A c \in Clis :
       /\ cli[c].pc \in {"idle", "archive", "load", "term1", "wait1", "unlink",
                         "legacy", "term2", "wait2", "spawn", "probe",
                         "truncate", "write", "workload"}
       /\ cli[c].todo \subseteq Pids
       /\ cli[c].next \in 1..(Len(Order) + 1)
       /\ cli[c].pc \in {"spawn", "probe"} => cli[c].next \in DOMAIN Order
  /\ issued \in 0..MaxCommands
  /\ alone \subseteq Clis
-----------------------------------------------------------------------------
(* process_alive: kill(pid, 0) succeeds for a zombie and for a stranger. *)
Alive(p) == p # 0 /\ proc[p].st # "free"
Running(k) == {p \in Pids : proc[p].st = "run" /\ proc[p].who = k}
AnyRunning == UNION {Running(k) : k \in Components}

Tracked == {manifest[k] : k \in Components} \ {0}
TrackedAlive == {p \in Tracked : Alive(p)}

(* runtime_health *)
Health ==
  IF manifest = NoManifest \/ TrackedAlive = {} THEN "stopped"
  ELSE IF \A k \in Components : manifest[k] # 0 => Alive(manifest[k])
       THEN "running" ELSE "partial"

(* subprocess._cleanup, on every Popen of c: its zombies are reaped. *)
Reaped(c) ==
  [p \in Pids |-> IF proc[p].st = "zombie" /\ proc[p].parent = c
                  THEN Free ELSE proc[p]]

Active == {c \in Clis : cli[c].pc # "idle"}
Goto(c, label) == cli' = [cli EXCEPT ![c].pc = label]

(* The process table after c has ended: init adopts and reaps its children. *)
Orphaned(c, table) ==
  [p \in Pids |-> IF table[p].parent # c THEN table[p]
                  ELSE IF table[p].st = "zombie" THEN Free
                  ELSE [table[p] EXCEPT !.parent = "init"]]

(* c goes on to `label`, the process table being `table`. *)
Proceed(c, label, table) ==
  IF label = "end"
  THEN proc' = Orphaned(c, table) /\ cli' = [cli EXCEPT ![c] = Idle]
  ELSE proc' = table /\ Goto(c, label)

End(c) == Proceed(c, "end", proc)
-----------------------------------------------------------------------------
(* The commands. *)

(* Where start_stack begins in Order: --no-detector leaves out the first.   *)
FirstToStart(command) ==
  {1} \cup {i \in DOMAIN Order : i = 2 /\ CanOmit /\ command # "stop"}

Begin(c, command) ==
  /\ cli[c].pc = "idle"
  /\ issued < MaxCommands
  /\ issued' = issued + 1
  /\ \E first \in FirstToStart(command) :
       cli' = [cli EXCEPT ![c] =
         [Idle EXCEPT !.cmd = command,
                      !.pc = IF command = "quick" THEN "archive" ELSE "load",
                      !.phase = IF command = "stop" THEN "stop" ELSE "start",
                      !.next = first,
                      !.run = issued + 1]]
  /\ overlap' = (overlap \/ Active # {})
  /\ alone' = IF Active = {} THEN {c} ELSE {}
  /\ UNCHANGED <<proc, manifest, log, rebooted>>

(* Faulty variant of the next definition: the logs stay where they are. *)
ArchiveNothing(c) ==
  /\ cli[c].pc = "archive"
  /\ cli' = [cli EXCEPT ![c].pc = "load", ![c].kept = AnyRunning # {}]
  /\ UNCHANGED <<proc, manifest, log, issued, rebooted, ghosts>>

(* archive_runtime_logs; that a stack runs meanwhile is noted, history. *)
Archive(c) ==
  /\ cli[c].pc = "archive"
  /\ log' = {}
  /\ cli' = [cli EXCEPT ![c].pc = "load", ![c].kept = AnyRunning # {}]
  /\ UNCHANGED <<proc, manifest, issued, rebooted, ghosts>>

(* load_runtime_state and runtime_health, then where the health leads. *)
Load(c) ==
  /\ cli[c].pc = "load"
  /\ ~(cli[c].cmd = "start" /\ cli[c].phase = "start" /\ Health = "running")
  /\ LET stopping == \/ cli[c].phase = "stop" /\ manifest # NoManifest
                     \/ cli[c].phase = "start" /\ Health # "stopped"
     IN  cli' = [cli EXCEPT ![c].todo = IF stopping THEN TrackedAlive ELSE {},
                            ![c].pc = IF stopping THEN "term1" ELSE "legacy"]
  /\ UNCHANGED <<proc, manifest, log, issued, rebooted, ghosts>>

(* start finds a running stack and reuses it. *)
ReuseStack(c) ==
  /\ cli[c].pc = "load"
  /\ cli[c].cmd = "start" /\ cli[c].phase = "start" /\ Health = "running"
  /\ End(c)
  /\ UNCHANGED <<manifest, log, issued, rebooted, ghosts>>

WaitLabel(label) == IF label = "term1" THEN "wait1" ELSE "wait2"

(* After the legacy processes are gone: start spawns, stop is done. *)
AfterLegacy(c) == IF cli[c].phase = "start" THEN "spawn" ELSE "end"
AfterWait(c) == IF cli[c].pc \in {"term1", "wait1"} THEN "unlink" ELSE AfterLegacy(c)

(* terminate_pid_map with nothing to stop. *)
NothingToStop(c) ==
  /\ cli[c].pc \in {"term1", "term2"}
  /\ cli[c].todo = {}
  /\ Proceed(c, AfterWait(c), proc)
  /\ UNCHANGED <<manifest, log, issued, rebooted, ghosts>>

(* terminate_pid_map: ps, which reaps, and SIGTERM to all. *)
Terminate(c) ==
  /\ cli[c].pc \in {"term1", "term2"}
  /\ cli[c].todo # {}
  /\ proc' = [p \in Pids |->
       LET q == Reaped(c)[p] IN
       IF p \in cli[c].todo /\ q.st = "run" THEN [q EXCEPT !.termed = TRUE] ELSE q]
  /\ Goto(c, WaitLabel(cli[c].pc))
  /\ UNCHANGED <<manifest, log, issued, rebooted, ghosts>>

(* All of them are gone within the five seconds. *)
WaitOver(c) ==
  /\ cli[c].pc \in {"wait1", "wait2"}
  /\ \A p \in cli[c].todo : ~Alive(p)
  /\ Proceed(c, AfterWait(c), proc)
  /\ UNCHANGED <<manifest, log, issued, rebooted, ghosts>>

(* Faulty variants of Escalate: the loop has no deadline; who did not stop  *)
(* is left alone.                                                           *)
EscalateNever(c) == cli[c].pc = "idle" /\ UNCHANGED vars

EscalateNot(c) ==
  /\ cli[c].pc \in {"wait1", "wait2"}
  /\ {p \in cli[c].todo : Alive(p)} # {}
  /\ Proceed(c, AfterWait(c), proc)
  /\ UNCHANGED <<manifest, log, issued, rebooted, ghosts>>

(* The five seconds are over: SIGKILL to whoever still looks alive. *)
Escalate(c) ==
  /\ cli[c].pc \in {"wait1", "wait2"}
  /\ LET left == {p \in cli[c].todo : Alive(p)} IN
       /\ left # {}
       /\ Proceed(c, AfterWait(c),
            [p \in Pids |-> IF p \notin left \/ proc[p].st # "run" THEN proc[p]
                            ELSE IF proc[p].parent = "init" THEN Free
                            ELSE [proc[p] EXCEPT !.st = "zombie"]])
  /\ UNCHANGED <<manifest, log, issued, rebooted, ghosts>>

(* remove_runtime_state *)
Unlink(c) ==
  /\ cli[c].pc = "unlink"
  /\ manifest' = NoManifest
  /\ Goto(c, "legacy")
  /\ UNCHANGED <<proc, log, issued, rebooted, ghosts>>

(* Faulty variant of the next definition: only processes of no manifest are *)
(* sought when stopping.                                                    *)
CollectLegacySkip(c) ==
  /\ cli[c].pc = "legacy"
  /\ Proceed(c, AfterLegacy(c), Reaped(c))
  /\ UNCHANGED <<manifest, log, issued, rebooted, ghosts>>

(* collect_legacy_processes: pgrep finds every running component, whoever   *)
(* started it, and no zombie.                                               *)
CollectLegacy(c) ==
  /\ cli[c].pc = "legacy"
  /\ IF AnyRunning = {}
     THEN Proceed(c, AfterLegacy(c), Reaped(c))
     ELSE /\ proc' = Reaped(c)
          /\ cli' = [cli EXCEPT ![c].todo = AnyRunning, ![c].pc = "term2"]
  /\ UNCHANGED <<manifest, log, issued, rebooted, ghosts>>

(* start_component: Popen. *)
Spawn(c) ==
  /\ cli[c].pc = "spawn"
  /\ \E p \in Pids :
       /\ Reaped(c)[p].st = "free"
       /\ LET k == Order[cli[c].next] IN
            /\ proc' = [Reaped(c) EXCEPT ![p] =
                 [who |-> k, st |-> "run", parent |-> c, termed |-> FALSE,
                  run |-> cli[c].run]]
            /\ cli' = [cli EXCEPT ![c].started[k] = p, ![c].pc = "probe"]
  /\ UNCHANGED <<manifest, log, issued, rebooted, ghosts>>

(* Faulty variant of the next definition: the last component is not seen. *)
ProbeUpNoEnd(c) ==
  /\ cli[c].pc = "probe"
  /\ proc[cli[c].started[Order[cli[c].next]]].st = "run"
  /\ cli' = [cli EXCEPT ![c].next = @ + 1, ![c].pc = "spawn"]
  /\ UNCHANGED <<proc, manifest, log, issued, rebooted, ghosts>>

(* The three seconds are over and the child still runs. *)
ProbeUp(c) ==
  /\ cli[c].pc = "probe"
  /\ proc[cli[c].started[Order[cli[c].next]]].st = "run"
  /\ cli' = [cli EXCEPT ![c].next = @ + 1,
                        ![c].pc = IF cli[c].next = Len(Order) THEN "truncate"
                                  ELSE "spawn"]
  /\ UNCHANGED <<proc, manifest, log, issued, rebooted, ghosts>>

(* The child has exited: SystemExit, the others are left running. *)
ProbeDown(c) ==
  /\ cli[c].pc = "probe"
  /\ proc[cli[c].started[Order[cli[c].next]]].st # "run"
  /\ End(c)
  /\ UNCHANGED <<manifest, log, issued, rebooted, ghosts>>

(* write_runtime_state: open("w") empties the file, the dump fills it. *)
TruncateManifest(c) ==
  /\ cli[c].pc = "truncate"
  /\ manifest' = NoManifest
  /\ Goto(c, "write")
  /\ UNCHANGED <<proc, log, issued, rebooted, ghosts>>

WriteManifest(c) ==
  /\ cli[c].pc = "write"
  /\ manifest' = cli[c].started
  /\ Proceed(c, IF cli[c].cmd = "quick" THEN "workload" ELSE "end", proc)
  /\ UNCHANGED <<log, issued, rebooted, ghosts>>

(* quick_run: the workload is over; stop, unless --keep-running. *)
WorkloadOver(c) ==
  /\ cli[c].pc = "workload"
  /\ cli' = [cli EXCEPT ![c].pc = "load", ![c].phase = "stop"]
  /\ UNCHANGED <<proc, manifest, log, issued, rebooted, ghosts>>

KeepRunning(c) ==
  /\ cli[c].pc = "workload"
  /\ End(c)
  /\ UNCHANGED <<manifest, log, issued, rebooted, ghosts>>

Step(c) ==
  \/ Archive(c) \/ Load(c) \/ ReuseStack(c)
  \/ NothingToStop(c) \/ Terminate(c) \/ WaitOver(c) \/ Escalate(c)
  \/ Unlink(c) \/ CollectLegacy(c)
  \/ Spawn(c) \/ ProbeUp(c) \/ ProbeDown(c)
  \/ TruncateManifest(c) \/ WriteManifest(c)
-----------------------------------------------------------------------------
(* The world. *)

(* A CLI is killed between two steps. *)
Abort(c) ==
  /\ CanAbort
  /\ cli[c].pc # "idle"
  /\ End(c)
  /\ UNCHANGED <<manifest, log, issued, rebooted, ghosts>>

(* A process ends: after SIGTERM, by a crash, or a stranger when it likes.  *)
Die(p) ==
  /\ proc[p].st = "run"
  /\ proc[p].termed \/ CanCrash \/ proc[p].who = "stranger"
  /\ proc' = [proc EXCEPT ![p] = IF @.parent = "init" THEN Free
                                 ELSE [@ EXCEPT !.st = "zombie"]]
  /\ UNCHANGED <<manifest, log, cli, issued, rebooted, ghosts>>

StrangerTakes(p) ==
  /\ Strangers
  /\ proc[p].st = "free"
  /\ proc' = [proc EXCEPT ![p] = [Free EXCEPT !.who = "stranger", !.st = "run"]]
  /\ UNCHANGED <<manifest, log, cli, issued, rebooted, ghosts>>

(* write_record, or the alert of the detector. *)
WriteEvent(p) ==
  /\ proc[p].st = "run" /\ proc[p].who \in Components
  /\ log' = log \cup {proc[p].run}
  /\ UNCHANGED <<proc, manifest, cli, issued, rebooted, ghosts>>

Reboot ==
  /\ CanReboot /\ ~rebooted
  /\ rebooted' = TRUE
  /\ proc' = [p \in Pids |-> Free]
  /\ cli' = [c \in Clis |-> Idle]
  /\ UNCHANGED <<manifest, log, issued, ghosts>>

Next ==
  \/ \E c \in Clis, command \in Commands : Begin(c, command)
  \/ \E c \in Clis : Step(c) \/ WorkloadOver(c) \/ KeepRunning(c) \/ Abort(c)
  \/ \E p \in Pids : Die(p) \/ StrangerTakes(p) \/ WriteEvent(p)
  \/ Reboot

Spec == Init /\ [][Next]_vars

(* A CLI is a sequential program all of whose waits are bounded. *)
FairSpec == Spec /\ \A c \in Clis : WF_vars(Step(c))
-----------------------------------------------------------------------------
(* While no two CLIs have been active at once, no component ever runs       *)
(* twice, whatever crashed, was aborted or rebooted in between: the legacy  *)
(* cleanup of start_stack finds what no manifest names.                     *)
NoDuplicateComponent ==
  ~overlap => \A k \in Components : Cardinality(Running(k)) <= 1

(* A stop that no other CLI ran beside leaves no component running, even    *)
(* after starts that overlapped or were aborted (stop_stack).               *)
StopStopsAll ==
  [][\A c \in alone :
       /\ cli[c].phase = "stop"
       /\ CollectLegacy(c) \/ NothingToStop(c) \/ WaitOver(c) \/ Escalate(c)
       /\ cli'[c].pc = "idle"
       => AnyRunning' = {}]_vars

(* A command always comes to its end, or to the workload of quick.          *)
CommandsEnd ==
  \A c \in Clis : cli[c].pc # "idle" ~> cli[c].pc \in {"idle", "workload"}

(* Logs are archived "so each quick run starts clean" (os_monitor.py:510):  *)
(* when the workload of a quick that ran alone begins, the live logs hold   *)
(* no event of an earlier run, unless components ran while it archived,     *)
(* which it stops only afterwards (lines 686-700).                          *)
QuickStartsClean ==
  \A c \in alone :
    cli[c].pc = "workload" /\ ~cli[c].kept => log \subseteq {cli[c].run}
=============================================================================
