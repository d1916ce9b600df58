------------------------------ MODULE QuickRun ------------------------------
(***************************************************************************)
(* os_monitor.py quick and build over the agents of TraceAgent: the logs   *)
(* are archived, the stack is restarted, a workload runs, the stack is     *)
(* stopped or kept, and collector.py, prepare_dataset.py and               *)
(* feature_builder.py turn the logs into the files of a run directory.     *)
(*                                                                         *)
(* Here one command runs at a time; what commands that overlap do to the   *)
(* stack is the matter of RuntimeStack, where start_stack and stop_stack   *)
(* have their steps.  A stage is a child process that reads the logs at    *)
(* one instant; one that fails ends the command (check=True), and whoever  *)
(* kills the command kills the stage.  Only the latest run directory is    *)
(* kept: no command touches an earlier one unless it is named again.       *)
(***************************************************************************)
EXTENDS TraceAgent

CONSTANTS StrideFits,  \* --stride-ms is at most --window-ms
          MaxRuns,     \* bound: run directories
          MaxTries     \* bound: builds in one of them

ASSUME QuickAssumption ==
  /\ StrideFits \in BOOLEAN
  /\ MaxRuns \in Nat /\ MaxTries \in Nat \ {0}

Stages == {"count", "collect", "insert", "prepare", "features", "manifest"}

VARIABLES
  pc,       \* where the command is, "idle" without one
  keep,     \* --keep-running
  then,     \* where it goes once the stack is stopped: "start", "count", "idle"
  todo,     \* "archive": the logs to move; "insert": the rows to insert
  txn,      \* the rows of the transaction that is not committed
  runs,     \* run directories so far
  dir,      \* what the latest holds
  tries,    \* history: builds begun in it
  commits,  \* history: transactions committed in it
  stopped,  \* history: its stack was stopped before the build
  mine      \* history: the calls traced by its own stack

command == <<pc, keep, then, todo, txn, runs>>
outcome == <<dir, tries, commits, stopped>>
vars    == <<traceVars, command, outcome, mine>>

EmptyDir == [rows     |-> [e \in Events |-> 0],  \* events.db
             sessions |-> {},                    \* raw_sessions.pkl
             features |-> {},                    \* features.parquet
             manifest |-> FALSE]                 \* manifest.json

QuickTypeOK ==
  /\ TypeOK
  /\ pc \in {"idle", "archive", "stop", "wait", "start", "workload"} \cup Stages
  /\ keep \in BOOLEAN /\ stopped \in BOOLEAN
  /\ then \in {"start", "count", "idle"}
  /\ todo \subseteq (IF pc = "archive" THEN Agents ELSE Events)
  /\ txn \subseteq Events /\ mine \subseteq Events
  /\ runs \in 0..MaxRuns /\ tries \in 0..MaxTries /\ commits \in 0..tries
  /\ pc \in Stages => runs > 0
  /\ pc = "start" => Up = {}
  /\ dir \in [rows : [Events -> Nat], sessions : SUBSET Events,
              features : SUBSET Events, manifest : BOOLEAN]

Init ==
  /\ TraceInit
  /\ pc = "idle" /\ keep = FALSE /\ then = "idle" /\ todo = {} /\ txn = {}
  /\ runs = 0 /\ dir = EmptyDir /\ tries = 0 /\ commits = 0
  /\ stopped = FALSE /\ mine = {}

(* The events in the logs that are at their paths. *)
LiveEvents ==
  UNION {ToSet(files[a][Len(files[a])]) : a \in {b \in Agents : live[b]}}
-----------------------------------------------------------------------------
(* The commands. *)

NewDir ==
  /\ runs < MaxRuns
  /\ runs' = runs + 1
  /\ dir' = EmptyDir /\ commits' = 0 /\ stopped' = FALSE

Quick(k) ==
  /\ pc = "idle"
  /\ NewDir /\ tries' = 0 /\ mine' = {}
  /\ keep' = k
  /\ pc' = "archive" /\ then' = "start"
  /\ todo' = {a \in Agents : live[a]}
  /\ UNCHANGED <<traceVars, txn>>

(* build into a new run directory, or with --run-id into the latest.        *)
Build(again) ==
  /\ pc = "idle"
  /\ IF again
     THEN /\ runs > 0 /\ tries < MaxTries
          /\ tries' = tries + 1
          /\ UNCHANGED <<runs, dir, commits, stopped>>
     ELSE NewDir /\ tries' = 1
  /\ pc' = "collect"
  /\ UNCHANGED <<traceVars, keep, then, todo, txn, mine>>

(* The command ends: its work is done, it failed or it was killed. *)
Finish ==
  /\ pc' = "idle" /\ keep' = FALSE /\ then' = "idle"
  /\ todo' = {} /\ txn' = {}
  /\ UNCHANGED runs

Goto(label) ==
  /\ pc' = label
  /\ UNCHANGED <<keep, then, todo, txn, runs>>

(* archive_runtime_logs moves one log after the other. *)
ArchiveLog(a) ==
  /\ pc = "archive" /\ a \in todo
  /\ live' = [live EXCEPT ![a] = FALSE]
  /\ todo' = todo \ {a}
  /\ UNCHANGED <<agentVars, files, traceHist, pc, keep, then, txn, runs,
                 outcome, mine>>

(* start_stack begins with ensure_log_layout, which makes the missing logs. *)
LayOut ==
  /\ pc = "archive" /\ todo = {}
  /\ files' = [a \in Agents |-> IF live[a] THEN files[a] ELSE Append(files[a], <<>>)]
  /\ live' = [a \in Agents |-> TRUE]
  /\ Goto("stop")
  /\ UNCHANGED <<agentVars, traceHist, outcome, mine>>
-----------------------------------------------------------------------------
(* The stack. *)

(* stop_stack: SIGTERM to all, and a wait. *)
StopStack ==
  /\ pc = "stop"
  /\ Term(Up)
  /\ Goto("wait")
  /\ UNCHANGED <<outcome, mine>>

(* Where the command goes when the stack is stopped. *)
AfterStop ==
  /\ IF then = "idle" THEN Finish ELSE Goto(then)
  /\ stopped' = (then = "count")
  /\ UNCHANGED <<traceVars, dir, tries, commits, mine>>

(* Faulty variant of the next definition: nobody waits. *)
StackGoneAtOnce == pc = "wait" /\ AfterStop

StackGone == pc = "wait" /\ Up = {} /\ AfterStop

(* The five seconds are over: SIGKILL. *)
Escalate ==
  /\ pc = "wait" /\ Up # {}
  /\ End(Up)
  /\ UNCHANGED <<command, outcome, mine>>

(* start_stack; when one component fails the command ends, and those before *)
(* it stay.                                                                 *)
StartStack ==
  /\ pc = "start" /\ Up = {}
  /\ \E up \in SUBSET Agents :
       /\ at' = [a \in Agents |-> IF a \in up THEN "attach" ELSE "off"]
       /\ IF up = Agents THEN Goto("workload") ELSE Finish
  /\ mine' = {}
  /\ UNCHANGED <<attached, ring, hand, holds, termed, logs, traceHist, outcome>>

(* run_workload returns, and the finally clause. *)
WorkloadOver ==
  /\ pc = "workload"
  /\ pc' = IF keep THEN "count" ELSE "stop"
  /\ then' = "count"
  /\ UNCHANGED <<traceVars, keep, todo, txn, runs, outcome, mine>>

(* It is interrupted: the finally clause and no build. *)
Interrupted ==
  /\ pc = "workload"
  /\ IF keep THEN Finish
     ELSE /\ pc' = "stop" /\ then' = "idle"
          /\ UNCHANGED <<keep, todo, txn, runs>>
  /\ UNCHANGED <<traceVars, outcome, mine>>
-----------------------------------------------------------------------------
(* build_outputs *)

(* runtime_event_count, and whether there is anything to build from. *)
CountEvents ==
  /\ pc = "count"
  /\ IF LiveEvents = {} THEN Finish /\ UNCHANGED tries
     ELSE Goto("collect") /\ tries' = tries + 1
  /\ UNCHANGED <<traceVars, dir, commits, stopped, mine>>

(* collector.py reads the logs and drops repeated events. *)
Collect ==
  /\ pc = "collect"
  /\ pc' = "insert" /\ todo' = LiveEvents
  /\ UNCHANGED <<traceVars, keep, then, txn, runs, outcome, mine>>

(* Faulty variant of the next definition: every row is committed. *)
InsertForGood ==
  /\ pc = "insert" /\ todo # {}
  /\ todo' = todo \ {Min(todo)}
  /\ dir' = [dir EXCEPT !.rows[Min(todo)] = @ + 1]
  /\ UNCHANGED <<traceVars, pc, keep, then, txn, runs, tries, commits, stopped,
                 mine>>

(* write_sqlite: the rows, in the order of time. *)
Insert ==
  /\ pc = "insert" /\ todo # {}
  /\ todo' = todo \ {Min(todo)} /\ txn' = txn \cup {Min(todo)}
  /\ UNCHANGED <<traceVars, pc, keep, then, runs, outcome, mine>>

Commit ==
  /\ pc = "insert" /\ todo = {}
  /\ dir' = [dir EXCEPT !.rows =
               [e \in Events |-> @[e] + (IF e \in txn THEN 1 ELSE 0)]]
  /\ txn' = {} /\ pc' = "prepare"
  /\ commits' = commits + 1
  /\ UNCHANGED <<traceVars, keep, then, todo, runs, tries, stopped, mine>>

(* prepare_dataset.py reads the logs again; without an event it fails.  A   *)
(* stride above the window leaves out what falls between two windows        *)
(* (BuildWindows has the windows themselves).                               *)
Prepare ==
  /\ pc = "prepare"
  /\ \E kept \in SUBSET LiveEvents \ {{}} :
       /\ StrideFits => kept = LiveEvents
       /\ dir' = [dir EXCEPT !.sessions = kept]
  /\ Goto("features")
  /\ UNCHANGED <<traceVars, tries, commits, stopped, mine>>

BuildFeatures ==
  /\ pc = "features"
  /\ dir' = [dir EXCEPT !.features = dir.sessions]
  /\ Goto("manifest")
  /\ UNCHANGED <<traceVars, tries, commits, stopped, mine>>

WriteManifest ==
  /\ pc = "manifest"
  /\ dir' = [dir EXCEPT !.manifest = TRUE]
  /\ Finish
  /\ UNCHANGED <<traceVars, tries, commits, stopped, mine>>

(* A stage fails, or the command is killed in one. *)
StageFails ==
  /\ pc \in Stages
  /\ Finish
  /\ UNCHANGED <<traceVars, outcome, mine>>
-----------------------------------------------------------------------------
Command ==
  \/ \E k \in BOOLEAN : Quick(k)
  \/ \E again \in BOOLEAN : Build(again)
  \/ \E a \in Agents : ArchiveLog(a)
  \/ LayOut \/ StopStack \/ StackGone \/ Escalate \/ StartStack
  \/ WorkloadOver \/ Interrupted
  \/ CountEvents \/ Collect \/ Insert \/ Commit \/ Prepare \/ BuildFeatures
  \/ WriteManifest \/ StageFails

Alone == UNCHANGED <<command, outcome, mine>>

(* A call is traced. *)
Traced(a, c) ==
  /\ Call(a, c)
  /\ mine' = mine \cup {calls + 1}
  /\ UNCHANGED <<command, outcome>>

World == \E a \in Agents : \/ AgentStep(a) /\ Alone
                           \/ \E c \in Cpus : Traced(a, c)

Next == Command \/ World

Spec == Init /\ [][Next]_vars
-----------------------------------------------------------------------------
InFiles(a) == UNION {ToSet(files[a][k]) : k \in DOMAIN files[a]}
Written == UNION {InFiles(a) : a \in Agents}
OnTheWay == UNION {Inside(a) : a \in Agents}

(* The log of an agent, archived files and live one together, holds no      *)
(* record twice and those of one CPU in order, across archives and restarts *)
(* (handle_event and write_record of the agents).                           *)
RecordedInOrder ==
  \A a \in Agents : \A k, m \in DOMAIN files[a] :
    \A i \in DOMAIN files[a][k], j \in DOMAIN files[a][m] :
      LET e == files[a][k][i]
          f == files[a][m][j]
      IN  (k < m \/ (k = m /\ i < j)) /\ cpuOf[e] = cpuOf[f] => e < f

(* What entered a ring is on its way, in a file, or was given up: neither   *)
(* an archive beneath an open log nor a restart takes a record away.        *)
NothingVanishes == 1..calls \subseteq lost \cup Written \cup OnTheWay

(* events.db holds the rows of whole transactions only, whichever stage     *)
(* failed: a row is there at most once per committed collector run          *)
(* (collector.py:68-127).                                                   *)
RowsByCommit == \A e \in Events : dir.rows[e] <= commits

Rows == {e \in Events : dir.rows[e] > 0}

(* The files of a run directory that was built once, over a stopped stack,  *)
(* agree: the two stages that read the logs saw the same events, of which   *)
(* only a stride above the window takes any out of the sessions, and they   *)
(* hold every event of the run that was not given up (os_monitor.py:600).   *)
StoppedBuildAgrees ==
  stopped /\ dir.manifest /\ tries = 1 =>
    /\ dir.sessions \subseteq Rows /\ dir.features = dir.sessions
    /\ StrideFits => dir.sessions = Rows
    /\ mine \subseteq Rows \cup lost

(* With --keep-running the later stage may see more, never less, as long as *)
(* the windows leave nothing out.                                           *)
KeptBuildGrows ==
  StrideFits /\ dir.manifest /\ tries = 1 => Rows \subseteq dir.sessions
=============================================================================
