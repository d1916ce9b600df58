# Verification of os-monitor

os-monitor observes a Linux host with seven eBPF agents, writes what they see
into JSONL logs, scores the behaviour of each PID in a short sliding window and
raises alerts or, in block mode, signals the process. The same logs are later
cut into windows, labelled and split to train models.

This directory holds TLA+ models of that code, TLC runs over small instances,
and TLAPS proofs for every value of the constants. Paths such as
`os_monitor.py:509` are relative to the repository.

## The system

| part | state | operations | talks to |
|---|---|---|---|
| file agent (`agent/file_agent.py`) | BPF maps of names, one log | note a system call, attach its name, filter, `write_record` | appends to a log, sees its own writes |
| the six other agents (`agent/*_agent.py`) | perf buffer, one log each | attach probes, poll, `write_record`, end on a signal | append to the logs |
| log follower (`detector/realtime_blocker.py`, `JsonlFollower`) | inode and offset | `read_new_lines` | looks at a path that agents append to and the CLI renames |
| scoring (`monitoring/window_engine.py`, `event_schema.py`) | none | sort, metrics, score | called by the detector and the dataset builder |
| detector (`realtime_blocker.main`) | a window, an alert time per PID | poll, expire, score, alert, block, clean up | followers, scoring, `os.kill`, `/proc` |
| runtime CLI (`os_monitor.py`) | the manifest `runtime_state.json`, child processes | start, stop, restart, quick, watch, status, build | processes, logs, another CLI |
| window builder and split (`dataset/prepare_dataset.py`, `experiments/split_utils.py`, `train_baseline.py`) | two indices and a cursor | `build_windows`, label join, holdout | reads the collected events |
| log shipper (`agent/log_shipper.py`) | an open handle and a socket per log | follow, send, reconnect | logs, a remote collector |
| collectors (`aggregator/collector.py`, `fast_collector.py`) | a set of seen events, an SQLite table | read, deduplicate, insert, commit | logs, run directory |
| provenance graph (`features/graph_utils.py`) | process instances, edges | one update per event | events of one session |
| feature builder (`features/feature_builder.py`) | none | one row and one graph per session, depth of the process tree | sessions, run directory |
| models, simulators, metadata | none that others read | | |

### What makes each part correct, and what is hard

* **Follower.** A log is created late, renamed away by an archive and created
  again while it is read. No line is lost, none is returned twice without
  reason. `exists`, `stat` and `open` are three looks at a path that may change
  between any two of them.
* **Detector.** The seven logs are drained one after another, so events reach a
  window out of the order of time; cooldown counts wall-clock time and cleanup
  event time; a PID can change hands between any two looks of the safety check
  and before `os.kill`.
* **Scoring.** Two orders of arrival must give one score; more evidence must
  not weaken it.
* **Runtime CLI.** No lock: commands overlap, are killed between two steps, meet
  processes that crashed, manifests of an earlier boot and PIDs that belong to
  others now. One instance of each component at most, and a stop that stops
  everything.
* **Window builder.** Half-open intervals, two indices that never go back, a
  stride that need not divide the window, an overlap that must not leak from
  the training into the test set.
* **File agent.** Names are noted at the entry of `openat` and attached at its
  return, per thread, in maps of bounded size that nothing tidies up when a
  process ends; the agent is one of the processes it observes.

* **Other agents.** A perf buffer drops what does not fit; an archive renames
  the log under an open handle; a signal may arrive in the callback that writes.
  What is not dropped must come out once and in order.
* **Log shipper.** It keeps its handle across renames and truncations, and one
  connection whose loss it learns of late.
* **Quick and build.** Four programs read and write one after the other while
  the agents may still run; each may fail, and a directory may be built again.
* **Provenance graph.** A window opens in the middle of the life of a host whose
  PIDs are reused; instances are made by exec and by first sight only, and the
  TIDs of threads, which the scheduler's events carry, are taken for PIDs.

PROJECT.json lists the hazards line by line with the property that watches each.

## Modules

| module | models | state that corresponds to the code |
|---|---|---|
| `LogTail` | what a follower promises (abstract) | |
| `JsonlFollower` | the follower and its file | `fIno`, `offset` are `self.inode`, `self.offset`; `pc` is the place in `read_new_lines` |
| `WindowEngine` | sorting, metrics, score (operators) | |
| `Detector` | `main()` of the detector; EXTENDS `WindowEngine` | `window` is `state`, `lastAlert` `last_alert_at`, `lastCleanup` `last_cleanup_at`, `batch` and `turn` the two loops |
| `RuntimeStack` | the CLI, the processes, the manifest | `cli[c]` is the call a CLI is in, `manifest` the file, `proc` the process table |
| `BuildWindows` | window builder, label join, split | `left`, `right`, `cursor`, `sessions` as in `build_windows` |
| `FileAgent` | the tracepoints, the noise filter and the agent as a traced process | `inflight`, `fdPaths` are the BPF maps, `job` the system calls of `write_record` still to come |
| `LogShipper` | one shipping thread, its connection and receiver; EXTENDS `JsonlFollower` | `sPc` is the place in `ship_file`, `pos` and `next` the read buffer, `sent` what the kernel took |
| `TraceAgent` | the six agents with a perf buffer | `at` is the place in `main`, `handle_event` or `write_record`; `ring` the perf buffer, `files` the log and its archived predecessors |
| `QuickRun` | `quick` and `build` over the agents; EXTENDS `TraceAgent` | `pc` is the place in `quick_run` and `build_outputs`, `txn` the open SQLite transaction, `dir` the run directory |
| `ProvenanceGraph` | `build_provenance_graph` and `graph_summary`, beside a host | `instance`, `births` are `process_instances`, `process_birth_index`; `edges` the graph |
| `*Proofs` | the theorems of the module they extend | |
| `MC*` | instances for TLC | |

Every action is one handler or one step of it up to the next place where
another process can interfere. Variables called *history* in their comment
record what happened and are read by no guard. Definitions whose comment says
*faulty variant* are plausible mistakes: each property of a passing run is
violated once the variant named in PROJECT.json takes the place of the
definition it follows.

`JsonlFollower` shows that a poll returns exactly the lines that are new;
`Detector` relies on it and takes a log as the sequence of its unread lines.
`RuntimeStack` renames logs, which `JsonlFollower` sees as `Rotate`, and starts
the detector, which `Detector` sees with a log of earlier runs (`History`).
`LogShipper` puts the shipper beside the follower on the same log, and
`QuickRun` the commands of the CLI beside the agents they start; there one
command runs at a time, since overlapping commands are the matter of
`RuntimeStack`.

### Abstractions

* A log line is a number in a content (follower), an event (detector) or the
  number of a run (CLI). One append is atomic: a record is far below the size
  of one write buffer. `open`, `seek`, `readlines` and `tell` are one step.
  What an agent that opened the log before a rename writes after it is a line of
  the renamed file (`LateAppend` in `LogShipper`); the follower never looks at
  that file again.
* Lines that are no JSON or carry no PID are skipped by the code and are not
  written in the models.
* In `Detector` an event happens when it is written, on one clock; `Lag` bounds
  how old a line may be when it is handled and `History` is no older. Each of the
  four looks of `is_safe_to_block` at `/proc` is a step and the kill another. A
  process keeps what the looks ask for, and its comm, for its whole life, so
  that one that execs or changes its user between two looks is left out.
  `timeline_ts` and `sort_ts` are one timestamp.
* In `WindowEngine` time is counted in the milliseconds below which a window
  is never taken to be, and rates are compared by multiplying out. Entropy and
  length of a host name are two truth values. A sum is the size of a set of as
  many units and the sort puts every event at the place that those before it
  leave, so that both can be reasoned about for windows of any length;
  `TotalAssumption` compares the sum with a fold.
* In `RuntimeStack` reading the manifest and asking which of its PIDs live is
  one step, as is one loop of signals. SIGKILL works at once. `ps` and `pgrep`
  are child processes, so calling them reaps zombies (`Reaped`). `status` is
  left out, the workload and the build of `quick` are in `QuickRun`, and
  `watch` is `start`. A start with `--no-detector` begins at the second
  component (`FirstToStart`); `CanOmit` allows it.
* In `BuildWindows` times are whole milliseconds where the code adds floats,
  and `--allow-overlap-windows` is not modelled. Which rows have a label is
  arbitrary. So is the phase of
  the sampling (`--sampling-phase`). The random split, which takes over when a
  class would be missing, is covered by `NoEventKeptTwice` only.
* In `FileAgent` an event is reduced to the name the filter looks at and
  whether it is the agent's own write of a record. A program uses a descriptor
  only after the call that made it has returned. Any call no tracepoint sees
  (`dup2`, `socket`, `open`, ...) may put an unnamed descriptor anywhere.
  Perf buffers are one queue: the order of events does not matter to the filter.

* In `LogShipper` a read takes all there is behind the position, and a line is
  sent whole. The peer reads in order; when it closes, what it has not read is
  gone. `lost` marks those places.
* In `TraceAgent` an event is the number of its call. Attaching the probes and
  opening the perf buffer is one step: nobody hears of calls before it. A record
  is flushed when its file is closed, so the line and the close are one step. Of
  the probes only how many lie on the way of one call matters. `Agents` names
  two of the six in the run: `net`, which chooses between two probes, and
  `memory`, whose probes may all be missing.
* In `QuickRun` a stage reads the logs at one instant, and two events that the
  collector would take for one do not occur: its key holds the time in
  nanoseconds. `dir` is the latest run directory. A quick run always archives
  (`--no-archive-logs` is not modelled) and always builds. A stride above the
  window leaves events between the windows out: `StrideFits` says that it is not,
  and without it the sessions hold any events of the logs.
* In `ProvenanceGraph` events reach the loop in the order in which the host
  produced them, as the session is sorted by monotonic time. A node is the k-th
  instance of its PID where the code uses the time of the event that made it.
  Labels and edge attributes are left out. A thread has a fork and an exit event
  of its own, with its TID, and shares parent and exec count with its process;
  it acts under the PID of the process. Only a process without other threads
  execs, and a process exits when its threads have. Orphans go to any ancestor,
  the nearest subreaper, or to init; `CLONE_PARENT` is left out.

## Runs

`expect` is in PROJECT.json; the number of distinct states is for the bounds
in the .cfg.

| run | states | what it shows |
|---|---|---|
| `FollowerRotate` | 13,345 | with `--start-at-end`: no line lost while the detector lives, what was passed over stays so, doubles only through a rename between stat and open, implements `LogTail` |
| `TwoReaders` | 84,269 | a follower that reads from the start and a shipper, with rotation, late appends, truncation and a peer that closes: the shipper sends in order, once, and without unexplained gaps |
| `WindowEngine` | all windows of up to 4 events | the score does not depend on arrival order; counting evidence stays |
| `DetectorWindow` | 4.2 million | two PIDs, three logs, cleanup: no event dropped while it is in the window, alerts spaced, a combination alerted with the line that completes it and every further one, but for a cooldown or a newer line in between |
| `DetectorBlock` | 215,610 | a protected process is signalled only when it took the PID over after the look that would have spared it; one with a protected comm only when the window is mostly another's |
| `DetectorReplay` | violated | a process signalled for what an earlier owner of its PID did |
| `StackAlone` | 477,673 | with and without `--no-detector`, crashes and aborted commands: no component twice, stop stops all, commands end, a quick run starts on clean logs unless components ran while it archived |
| `StackOverlap` | 911,398 | two CLIs at once, aborts, a reboot, strangers: the next lone command repairs |
| `Windows` | 475,131 | exact windows, full cover, disjoint holdout in time order, termination |
| `FileAgent` | 480,109 | right names, no record of the agent's own records, rest after activity |
| `Graph` | 605,110 | one node per process image, sharing only by reuse without exec, exact blame, lineage without a cycle |
| `QuickRun` | 2.9 million | records in order and none vanished; whole transactions; a build over a stopped stack agrees with itself and has the whole run |

### Bounds and why they are enough

* **Follower**: three lines in each of three contents. A loss needs a rename
  and a new file at most as long as the old offset; a second rename meets the
  follower in the middle of handling the first.
* **Shipper**: two lines in two contents and two broken connections: one for
  the line that is sent again, one that breaks under the second try.
* **Scoring**: four events are enough for each pattern (three events) with one
  event in front, between or after; thresholds are lowered to be met by two.
* **Detector**: three events and a clock that goes past the cooldown and the
  time after which cleanup forgets. Cleanup compares PIDs with one another, so
  `DetectorWindow` has two. Three logs and two halves
  of one combination in different logs let a newer event of a third come
  between them. `DetectorBlock` needs a single PID with two owners
  and every kind of protection; time matters to no look, so a clock of two ticks
  does, and two events tell a window that is mostly one owner's from a mixed one. Thresholds are set so that a single `memory.mmap` matters.
* **Stack**: a detector and one agent stand for the eight components, since
  every component is treated alike and the order matters only between first
  and last. Four commands in a row let a crash, an abort and a repair happen;
  two CLIs with four PIDs can start everything twice. `StackOverlap` has no
  `--no-detector`, which only skips the first component; it identifies
  states that differ by a permutation of PIDs or in what the logs hold, which
  none of its properties reads; it checks no liveness.
* **Windows**: window 3 and stride 2 do not divide each other; six events over
  ten instants give gaps, ties and events on every border. `TestPercent` 80
  rounds to all of two rows, where the clamp must leave one to train on.
* **File agent**: two threads in one process, two descriptors, a reused PID
  and maps of two entries, so that a map is full after two opens.
  `MaxCalls = 3` calls of the others: open, replace or close, open again. The
  agent's own calls are unbounded.

* **Graph**: three PIDs and three tasks: parent, child or thread, and a later
  owner of either PID, or a writer into a third process's memory. Four events
  let an image exec, act and share a node, and a lineage close a cycle through a
  shared node.
* **QuickRun**: two agents, rings of two events on two CPUs and three calls, so
  that a ring overflows and CPUs overtake one another; two run directories with
  two builds each: a restart over a running stack and a repeated build. CPUs
  are symmetric.

`CHECK_DEADLOCK` is off: each system may come to rest (a detector that died, a
CLI with no more commands, a finished batch job, no more calls allowed).

### Fairness

* `JsonlFollower`: weak fairness of the follower; `main()` polls for ever and
  each poll runs to its end. Nothing makes an agent write.
* `RuntimeStack`: weak fairness of each CLI's own steps: a sequential program
  whose every wait has a deadline. No fairness for components: a process may
  ignore SIGTERM, which is what SIGKILL is for. The workload may last for ever.
* `BuildWindows`: weak fairness of the program.
* `FileAgent`: weak fairness of the agent's loop and its system calls.
* `LogShipper`: weak fairness of the thread and of the receiver's reads. The
  network may refuse any connection, so `LineShipped` allows for a thread that
  died.
* `Detector`, `WindowEngine`, `ProvenanceGraph`, `QuickRun`, `StackOverlap`:
  safety only. `CommandsEnd` is asked of the commands of `RuntimeStack`.

## Proofs

A theorem holds for every value of the constants its module declares: any
number of PIDs, threads, agents, CPUs, lines and commands. Type correctness is
proved of every module with state (`TypeCorrect`, `ShipTypeCorrect`); the runs check
a type invariant where it says more than the types (`RuntimeStack`, `QuickRun`).
Every safety invariant and every action property of a run is proved.

| theorem | statement | argument |
|---|---|---|
| `LogReaderProofs`: `ExactlyOnceCorrect`, `HistoryIgnoredCorrect` | a double is the mark of a torn read; what was passed over stays so; truncation in place included (`TruncSpec`) | `ReadInv`: what was returned or passed over lies at or before the offset, or in an older content, unless that content was torn |
| `NothingSkippedCorrect` | the offset never runs ahead, while nobody truncates in place (`Spec`) | `SkipInv`: also between stat and open, the offset that will be used is covered |
| `RefinesLogTail` | the follower implements the safety part of `LogTail`, under `Spec` | initial states map to initial states, each step to a step or a stutter |
| `ShippedInOrderCorrect` | lines are sent in order and never twice | `SendInv`: all that was sent lies before the line at hand, which is one that was read |
| `GapsExplainedCorrect` | of a content, nothing is passed over that was written after the shipper met it | `GapInv`: a content the handle has met and not yet read begins at its position |
| `WindowEngineProofs`: `SortEventsSorts` | `SortEvents` is a stable sort | the places of two events of a window differ, so that they are a permutation, and a place is lower where an event comes before |
| `ReasonsIgnoreOrder`, `ArrivalOrderIrrelevantCorrect` | any permutation of a window, of any length, has the same reasons | a count is the size of a set that the permutation maps one to one; two sorted windows of the same events agree in time and key at every index, which is all that the timed reasons read |
| `EvidenceStaysCorrect` | another event takes no reason away that counts events | `CountReasonsGrow`: every count of a window is at most that of a longer one |
| `DetectorProofs`: `AlertSpacingCorrect` | two alerts of a PID are `MinGap` apart | `AlertInv`: the last alert is remembered, or was forgotten by a cleanup, and then the events are old enough |
| `ProtectedSparedCorrect` | a protected process is signalled only when it took the PID over after the look that would have spared it, one with a protected comm only when the window is not mostly its own | `SpareInv`: after each look, the owner is a later one than the look met or is not what the look asks for (`LookRight`), and an event says of its process whether its comm is protected (`HonestInv`) |
| `NoEarlyExpiryCorrect` | no event still inside its window is expired or cleaned away, if `Lag + WindowLen <= StaleAfter` | `KeepInv`: no line of a window is more than `Lag` newer than its last one, so that what the last one expires or cleanup forgets is old |
| `PairDetectedCorrect` | an mmap and an mprotect of a PID raise an alert with the line that completes them and with every further one, until a line newer by more than the window has overtaken one of them, but for a cooldown that is on, if `AlertScore <= 4` and `2 * Lag + WindowLen <= StaleAfter` | `PairInv`: an event that was handled is in its window, or was overtaken, or is so old that the next line overtakes it (`HeldOrPast`); a cooldown runs from an alert (`CooldownBacked`). A window that holds both halves scores four or more (`ReasonScores`) |
| `BuildWindowsProofs`: `SlicesExactCorrect` | each session holds exactly the events of its interval | `SliceInv`: everything left of `left` is before the cursor, everything left of `right` before its end |
| `EveryEventCoveredCorrect` | no event is left out when windows overlap and none is dropped | `CoverInv`: every event before the cursor is in a session |
| `NoEventKeptTwiceCorrect`, `TrainBeforeTestCorrect` | no event is in two kept windows; neither side of the holdout is empty, and training ends before the test begins | `SplitInv`: rows are strides apart and kept rows a window, and the boundary is inside them |
| `EveryStepNearerCorrect` | every step lowers a natural number, so that the loops end | `WorkLeft`: the time before the cursor, the events before both indices and the stage; the cursor always moves, an index never goes back |
| `FileAgentProofs`: `OpenedPathsRightCorrect` | a descriptor that `openat` made is known by its own name or none | `NameInv`: a thread inside `openat` has its own name in flight, the new descriptor waits for it, and no two threads wait with the same |
| `OwnWritesFilteredCorrect` | the agent records none of its own writes while no map was full | `OwnInv`: where the agent is in `write_record`, that its descriptor is not stdout and is known by the log's name, and that its writes in the queue carry it |
| `EffortFallsCorrect` | while no map is full, every step of the agent lowers the work before it, if `FlushEvery >= 2` | `Effort`: a record costs the agent calls that are traced in their turn, all but one of them filtered (`OwnInv`); every printed line pays ahead for the flush of stdout, and so for the one more record it causes |
| `ProvenanceGraphProofs`: `BlameExactCorrect` | a node that stands for one process answers for exactly the image that acted | `BlameInv`: an edge to an object is the deed of an image with an event on that node, and every deed has its edge |
| `ImageOneNodeCorrect`, `SharedOnlyByReuseCorrect` | the events of one image are on one node; two images share a node only by reuse of the PID without exec | `GraphInv`: the latest instance of a PID belongs to the image that last touched it, and an image that exec'ed has it alone |
| `DepthSeesAllCorrect` | while no node has stood for two processes, every process lies below a root | `DepthInv`: parents are older than their children, a thread lives no longer than its process, and an edge of lineage goes from a node that stood for a process to one that stood for a later one. A node that stands for one process has its rank, which edges raise, so that a node without a root above it would have an older one above it, without end |
| `RuntimeStackProofs`: `NoDuplicateComponentCorrect`, `StopStopsAllCorrect`, `QuickStartsCleanCorrect` | while no two CLIs were active at once no component runs twice; a stop that nobody ran beside leaves nothing running; a quick run that ran alone starts on clean logs unless components ran while it archived | `FitInv`: the types, with what each place in a command implies; `LoneInv`: a lone command has every running component in hand once it has looked for unnamed processes, and none it has yet to start runs |
| `CommandShortensCorrect` | every step of a command, whatever it finds and whoever interferes, lowers the steps it has left, at most twice the number of components and ten | `StepsLeft`, over `FitInv`, which says what the place in a command implies for the component it is at |
| `QuickRunProofs`: `NothingVanishesCorrect` | what entered a ring is on its way, in a file, or was given up | `Traceable`, over `TraceFits`, which ties the place of an agent to its handle and its record |
| `RowsByCommitCorrect`, `KeptBuildGrowsCorrect` | rows come by whole transactions; the sessions of a directory built once hold at least what the collector saw | `BuildInv`: what each stage of a first build has left in the run directory |
| `StoppedBuildAgreesCorrect` | built once over a stopped stack, the files of a run agree and have all of its events that were not given up | `StoppedInv`: what the run produced stays in the logs, which nobody changes between the two readers |
| `RecordedInOrderCorrect` | an agent's files hold no record twice and those of one CPU in order | `InOrder`: per CPU, files before hand before ring, archives in the order of their rename |

The two properties of `WindowEngine` follow from what its operators compute.
Apart from them and the types, no property here is inductive by itself.
`OpenedPathsRight` says nothing of a call in progress, and the step that
attaches a name is right only because the name in flight is that of the same
thread and the descriptor has not been given away. `ExactlyOnceUnlessTorn` says
nothing of the offset, from which the next batch is cut. `AlertSpacing` says
nothing of events that will be handled, whose age decides when cleanup forgets.
`NoDuplicateComponent` says nothing of the rest of a start that is under way, or
of processes that an aborted start left and no manifest names. The strengthenings
add what is missing.

Assumptions are the named ASSUMEs of the modules: constants are natural
numbers of the ranges the code enforces, the initial history is no older than
`Lag`, threads belong to processes, each component is started once per start, a
run directory is built at least once, a host has finitely many PIDs.
`AlertSpacing` says something only when `Lag` is smaller than the time after
which cleanup forgets (five seconds), and `NoEarlyExpiry` when it is smaller by
a window (one second by default). Three theorems have hypotheses of their own:
`NoEarlyExpiryCorrect`; `PairDetectedCorrect`, which takes an alert score no
higher than the default of four, all that a pair alone earns, and a lag of at
most two seconds with the other defaults; and `EffortFallsCorrect`, since a
stdout of one line would be flushed by every record and each flush is recorded.

Only model-checked: all liveness (`EveryLineDelivered`, `LineShipped`,
`CommandsEnd`, `Terminates`, `Settles`) and the liveness half of `LogTail`, since
fairness and ENABLED are out of the prover's reach. Of three the part that
needs no fairness is proved: `EveryStepNearer` (`Terminates`),
`CommandShortens` (`CommandsEnd`) and `EffortFalls` (`Settles`) say that every
step comes closer to the end by a natural number, so that nothing but a step
that is never taken can keep them from it.

## Where code and documents disagree

One run ends in a violation on purpose; PROJECT.json quotes the document.

* `DetectorReplay`: `os_monitor.py` starts the detector without
  `--start-at-end`; it reads old logs and signals whoever holds a PID now.

Others were met while modelling and have no run of their own:

* An event of a log polled earlier expires an mmap before the mprotect of the
  same window is read (`realtime_blocker.py:263`), so that the pair never
  scores. `PairDetected` holds with this exception named in it (`overtaken`).
* `quick` archives the logs first and stops the old stack afterwards
  (`os_monitor.py:686`), which goes on writing in between; `os_monitor.py:510`
  says each quick run starts clean. `QuickStartsClean` has the exception.
* A second `build` into one run directory appends every row to `events.db` once
  more (`collector.py:99`). One that fails leaves the manifest of the build
  before beside the new rows. `RowsByCommit` allows the first, and the properties
  of a build speak of the first into a directory.
* With `--keep-running` the collector and the dataset builder see different
  logs (`os_monitor.py:605`, `617`).
* `sendall` succeeds on a connection whose peer has closed, so the lines before
  the first `BrokenPipeError` are lost and only the last is sent again
  (`log_shipper.py:50`); a connection that is reset ends the thread for good.
* A SIGTERM that arrives inside the perf callback may be dropped with the record
  at hand; `stop` then waits five seconds and sends SIGKILL.
* A PID that is reused without exec continues the node of the dead process
  (`graph_utils.py:75`). Such a node can close a cycle of lineage, and what lies
  on it does not count for `graph_process_depth` (`feature_builder.py:63`).
* `realtime_blocker.py:27` says the follower survives truncation. A log that is
  truncated and has grown past the old offset before the next poll is read from
  that offset, and its first lines are lost: size is the only sign looked at.
* `realtime_blocker.py:69` promises to ignore historical events. The first
  lines of a log that appears later are passed over as well.
* A window can hold events further apart than `--window-ms`: its bound comes
  from the line at hand, which may be older than one handled before.
* After an alert below the block score, a window that reaches the block score
  within the cooldown is not blocked (`realtime_blocker.py:271`).
* `realtime_blocker.py:74` says that a process with a comm of `--protect-comm`
  will never be blocked, and `README.md:178` counts it among the protected. The
  comm compared is the most common one of the window's events, not that of the
  process (`realtime_blocker.py:197`): one that holds a PID whose window is
  mostly an earlier owner's is signalled, even if it held the PID before the
  check. `ProtectedSpared` has the exception.
* `log_shipper.py:5` says that the shipper tails all seven logs. It follows each
  up to the next archive only: it keeps the handle of the renamed file and never
  opens the new one (`log_shipper.py:46`).
* `quick` stops its own children. They exit but stay zombies, which
  `kill(pid, 0)` finds alive; the stop waits five seconds and sends SIGKILL.
* After a reboot the manifest names PIDs that may belong to others, and `stop`
  signals them (`os_monitor.py:367`).
* Once `fd_paths` holds 10240 entries the agent's own writes carry no name,
  pass the filter and are recorded, each record causing the next. A file agent
  run on a terminal does the same from the start: `print` then writes every
  line, to a descriptor that no `openat` of the agent has made.

## Not modelled, and the plan

* `fast_collector.py`: started by hand, one pass that writes a new file no other
  part reads.
* Feature columns, entropy, training and evaluation: stateless arithmetic over
  data frames and external libraries. Which rows they train on is in
  `BuildWindows`.
* The metadata writer and the simulators: one-shot I/O that nothing reads back.
* The dashboard of `watch`, and `status`: they change nothing.
* The offset to the epoch that each agent fixes at its start
  (`time_utils.py:10`): the models have one clock.
* Events that no agent has heard of yet: `start_component` takes a component
  for started after three seconds (`os_monitor.py:198`), attached or not.
