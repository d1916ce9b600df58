------------------------------ MODULE Detector ------------------------------
(***************************************************************************)
(* main() of detector/realtime_blocker.py: the loop that drains the seven  *)
(* logs one after the other, keeps a sliding window per PID, raises an     *)
(* alert at most once per cooldown and, in block mode, signals a process.  *)
(*                                                                         *)
(* A log is the sequence of its unread lines: read_new_lines takes them    *)
(* all, which is what JsonlFollower shows of it.  The agents write an      *)
(* event when it happens; that the detector sees logs at different times   *)
(* is what puts a window out of order.  The safety check looks at /proc up *)
(* to four times before os.kill; each is a step, so that the PID may       *)
(* change hands between any two of them.                                   *)
(*                                                                         *)
(* The variables called history record what happened; no guard reads them. *)
(***************************************************************************)
EXTENDS WindowEngine

CONSTANTS
  Pids,           \* the PIDs that events are about; none is 0 or 1
  Files,          \* the logs, in the order of RAW_EVENT_FILES
  EmitKeys,       \* the events the agents report
  History,        \* what the first log holds when the detector starts
  StartTime,      \* the time then
  Mode,           \* --mode
  AllowRootBlock, \* --allow-root-block
  Classes,        \* the kinds of process that take over a PID
  WindowLen, Cooldown, AlertScore, BlockScore,
  StaleFloor,     \* the 5.0 s of cleanup_stale_state
  CleanupEvery,   \* the 10.0 s between two cleanups
  Lag,            \* a line is handled at most so long after its timestamp
  MaxTime, MaxEvents, MaxInst   \* bounds: clock, events, owners of a PID

ASSUME DetectorAssumption ==
  /\ Files \in Seq({"fileio", "dns", "kmod", "memory", "syscall"})
  /\ Files # <<>>
  /\ EmitKeys \subseteq EventKey
  /\ Mode \in {"detect", "block"}
  /\ AllowRootBlock \in BOOLEAN
  /\ Classes \subseteq {"plain", "root", "service", "cmdline", "monitor", "comm"}
  /\ {StartTime, WindowLen, Cooldown, AlertScore, BlockScore, StaleFloor,
      CleanupEvery, Lag, MaxTime, MaxEvents, MaxInst} \subseteq Nat

LoggedEvent ==
  [key : EventKey, ts : Nat, bytes : Nat, long : BOOLEAN, rare : BOOLEAN,
   pid : Pids, inst : Nat, shielded : BOOLEAN]

(* What the log holds at the start is old, but not older than Lag says, and *)
(* of the owner each PID has at the start or of one before it.              *)
ASSUME HistoryAssumption ==
  /\ Pids # {}
  /\ History \in Seq(LoggedEvent)
  /\ \A i \in DOMAIN History :
       /\ History[i].ts <= StartTime /\ StartTime <= History[i].ts + Lag
       /\ History[i].inst \in {0, 1}

VARIABLES
  now,          \* time.time(), and the clock of every event
  log,          \* unread lines of every log
  written,      \* number of events written so far
  proc,         \* who holds each PID: [inst, class, alive]
  pc,           \* "poll" | "handle" | a look of the safety check | "kill"
  turn,         \* index of the follower in the for loop
  batch,        \* lines returned by read_new_lines and not handled yet
  window,       \* state: the deque of each PID, <<>> when it has none
  lastAlert,    \* last_alert_at, NoAlert when the PID is absent
  lastCleanup,  \* last_cleanup_at
  target,       \* the PID that is_safe_to_block looks at
  looks,        \* history: the owner of target that each look met
  alertTimes,   \* history: when alerts were raised, per PID
  handled,      \* history: the events taken from the logs
  overtaken,    \* history: those after which a line of their PID was handled
                \* that is newer by more than the window
  signalled     \* history: the processes os.kill reached

histVars == <<looks, alertTimes, handled, overtaken, signalled>>
loopVars == <<pc, turn, batch, window, lastAlert, lastCleanup, target>>
vars     == <<now, log, written, proc, loopVars, histVars>>

NoAlert == -1
FileNames == ToSet(Files)

FileOf(k) ==
  CASE k = "dns.query" -> "dns"
    [] k = "kmod.load" -> "kmod"
    [] k = "syscall.ptrace" -> "syscall"
    [] k \in {"memory.mmap", "memory.mprotect", "memory.vm_writev"} -> "memory"
    [] OTHER -> "fileio"

ASSUME FilesAssumption == \A k \in EmitKeys : FileOf(k) \in FileNames

(* An event, with the PID, the owner of the PID and whether its comm is one *)
(* of --protect-comm.                                                       *)
DetectorEvent(p, k) ==
  [key |-> k, ts |-> now, bytes |-> IF k = "file.write" THEN 1 ELSE 0,
   long |-> k = "dns.query", rare |-> FALSE,
   pid |-> p, inst |-> proc[p].inst, shielded |-> proc[p].class = "comm"]

Process == [inst : Nat, class : Classes, alive : BOOLEAN]

(* The looks of is_safe_to_block, in its order: the ancestors of the PID,   *)
(* its command line, its user, its parent.                                  *)
Looks == {"tree", "cmdline", "uid", "ppid"}

TypeOK ==
  /\ now \in Nat /\ written \in Nat /\ lastCleanup \in Nat
  /\ log \in [FileNames -> Seq(LoggedEvent)]
  /\ proc \in [Pids -> Process]
  /\ pc \in {"poll", "handle", "kill"} \cup Looks
  /\ turn \in DOMAIN Files
  /\ batch \in Seq(LoggedEvent)
  /\ window \in [Pids -> Seq(LoggedEvent)]
  /\ lastAlert \in [Pids -> Nat \cup {NoAlert}]
  /\ target \in Pids
  /\ looks \in [Looks -> Nat]
  /\ alertTimes \in [Pids -> Seq(Nat)]
  /\ handled \subseteq LoggedEvent
  /\ overtaken \subseteq handled
  /\ signalled \subseteq [pid : Pids, inst : Nat, class : Classes,
                          met : SUBSET Looks, most : BOOLEAN, own : BOOLEAN]

Init ==
  /\ now = StartTime
  /\ log = [f \in FileNames |-> IF f = Files[1] THEN History ELSE <<>>]
  /\ written = 0
  /\ proc \in [Pids -> {[inst |-> 1, class |-> c, alive |-> TRUE] : c \in Classes}]
  /\ \A i \in DOMAIN History :
       History[i].inst = 1 =>
         (History[i].shielded <=> proc[History[i].pid].class = "comm")
  /\ pc = "poll" /\ turn = 1 /\ batch = <<>>
  /\ window = [p \in Pids |-> <<>>]
  /\ lastAlert = [p \in Pids |-> NoAlert]
  /\ lastCleanup = StartTime
  /\ target = CHOOSE p \in Pids : TRUE
  /\ looks = [l \in Looks |-> 0]
  /\ alertTimes = [p \in Pids |-> <<>>]
  /\ handled = {} /\ overtaken = {} /\ signalled = {}
-----------------------------------------------------------------------------
(* The world around the detector. *)

(* Time passes while no unread line is older than Lag allows. *)
Tick ==
  /\ now < MaxTime
  /\ \A f \in FileNames : \A i \in DOMAIN log[f] : now < log[f][i].ts + Lag
  /\ \A i \in DOMAIN batch : now < batch[i].ts + Lag
  /\ now' = now + 1
  /\ UNCHANGED <<log, written, proc, loopVars, histVars>>

(* write_record of an agent, for an event of the owner of p. *)
Emit(p, k) ==
  /\ proc[p].alive
  /\ written < MaxEvents
  /\ written' = written + 1
  /\ log' = [log EXCEPT ![FileOf(k)] = Append(@, DetectorEvent(p, k))]
  /\ UNCHANGED <<now, proc, loopVars, histVars>>

Exit(p) ==
  /\ proc[p].alive
  /\ proc[p].inst < MaxInst
  /\ proc' = [proc EXCEPT ![p].alive = FALSE]
  /\ UNCHANGED <<now, log, written, loopVars, histVars>>

(* The kernel gives the PID of a dead process to a new one. *)
Reuse(p, c) ==
  /\ ~proc[p].alive
  /\ proc' = [proc EXCEPT ![p] = [inst |-> @.inst + 1, class |-> c, alive |-> TRUE]]
  /\ UNCHANGED <<now, log, written, loopVars, histVars>>
-----------------------------------------------------------------------------
(* The loop. *)

(* read_new_lines of the follower whose turn it is. *)
PollFile ==
  /\ pc = "poll"
  /\ batch' = log[Files[turn]]
  /\ log' = [log EXCEPT ![Files[turn]] = <<>>]
  /\ pc' = "handle"
  /\ UNCHANGED <<now, written, proc, turn, window, lastAlert, lastCleanup,
                 target, histVars>>

(* Faulty variant of the next definition: the bound is missed by one. *)
ExpireOneMore(w, before) ==
  LET fresh == {i \in DOMAIN w : w[i].ts > before}
  IN  IF fresh = {} THEN <<>> ELSE SubSeq(w, Min(fresh), Len(w))

(* popleft until the head is not older than `before`. *)
Expire(w, before) ==
  LET fresh == {i \in DOMAIN w : w[i].ts >= before}
  IN  IF fresh = {} THEN <<>> ELSE SubSeq(w, Min(fresh), Len(w))

(* The comm that most events of the window carry is a protected one; of two *)
(* equally common ones the first in time counts.                            *)
ShieldedComm(w) ==
  LET by == Cardinality({i \in DOMAIN w : w[i].shielded})
  IN  by * 2 > Len(w) \/ (by * 2 = Len(w) /\ SortEvents(w)[1].shielded)

(* What /proc shows of the owner of p; of a dead process it shows nothing.  *)
Shows(p, class) == proc[p].alive /\ proc[p].class = class

(* Faulty variant of the next definition: a root process passes. *)
SparesNoRoot(l, p) ==
  CASE l = "tree"    -> Shows(p, "monitor") \/ ShieldedComm(window[p])
    [] l = "cmdline" -> Shows(p, "cmdline")
    [] l = "uid"     -> FALSE
    [] l = "ppid"    -> ~proc[p].alive \/ Shows(p, "service")

(* is_safe_to_block answers no.  The protected comm is that of the events,  *)
(* not of the process, and a process that has died passes for a child of    *)
(* init at the last look only.                                              *)
Spares(l, p) ==
  CASE l = "tree"    -> Shows(p, "monitor") \/ ShieldedComm(window[p])
    [] l = "cmdline" -> Shows(p, "cmdline")
    [] l = "uid"     -> Shows(p, "root")
    [] l = "ppid"    -> ~proc[p].alive \/ Shows(p, "service")

NextLook(l) ==
  CASE l = "tree"    -> "cmdline"
    [] l = "cmdline" -> IF AllowRootBlock THEN "ppid" ELSE "uid"
    [] l = "uid"     -> "ppid"
    [] l = "ppid"    -> "kill"

(* Faulty variant of the next definition: one alert per PID, for ever. *)
InCooldownForEver(p) == lastAlert[p] # NoAlert

InCooldown(p) == lastAlert[p] # NoAlert /\ now - lastAlert[p] < Cooldown

(* One line: append, expire, score, cooldown and alert.                     *)
HandleLine ==
  /\ pc = "handle"
  /\ batch # <<>>
  /\ LET e == Head(batch)
         p == e.pid
         w == Expire(Append(window[p], e), e.ts - WindowLen)
         alert == Score(w) >= AlertScore /\ ~InCooldown(p)
         block == alert /\ Score(w) >= BlockScore /\ Mode = "block"
     IN  /\ window' = [window EXCEPT ![p] = w]
         /\ lastAlert' = IF alert THEN [lastAlert EXCEPT ![p] = now]
                                  ELSE lastAlert
         /\ alertTimes' = IF alert THEN [alertTimes EXCEPT ![p] = Append(@, now)]
                                   ELSE alertTimes
         /\ handled' = handled \cup {e}
         /\ overtaken' = overtaken \cup
              {x \in handled : x.pid = p /\ x.ts < e.ts - WindowLen}
         /\ pc' = IF block THEN "tree" ELSE "handle"
         /\ target' = IF block THEN p ELSE target
         /\ looks' = IF block THEN [l \in Looks |-> 0] ELSE looks
  /\ batch' = Tail(batch)
  /\ UNCHANGED <<now, log, written, proc, turn, lastCleanup, signalled>>

(* One look of is_safe_to_block. *)
Look(l) ==
  /\ pc = l
  /\ pc' = IF Spares(l, target) THEN "handle" ELSE NextLook(l)
  /\ looks' = [looks EXCEPT ![l] = proc[target].inst]
  /\ UNCHANGED <<now, log, written, proc, turn, batch, window, lastAlert,
                 lastCleanup, target, alertTimes, handled, overtaken, signalled>>

(* Most events of w are of the owner that p has now. *)
MostOwn(w, p) ==
  2 * Cardinality({i \in DOMAIN w : w[i].inst = proc[p].inst}) > Len(w)

(* os.kill; of a dead process it is a ProcessLookupError, which is caught.  *)
Kill ==
  /\ pc = "kill"
  /\ LET q == proc[target]
         w == window[target]
     IN  signalled' = signalled \cup
           {s \in {[pid |-> target, inst |-> q.inst, class |-> q.class,
                    met |-> {l \in Looks : looks[l] = q.inst},
                    most |-> MostOwn(w, target),
                    own |-> \A i \in DOMAIN w : w[i].inst = q.inst]} : q.alive}
  /\ pc' = "handle"
  /\ UNCHANGED <<now, log, written, proc, turn, batch, window, lastAlert,
                 lastCleanup, target, looks, alertTimes, handled, overtaken>>

NextFile ==
  /\ pc = "handle" /\ batch = <<>>
  /\ turn < Len(Files)
  /\ turn' = turn + 1
  /\ pc' = "poll"
  /\ UNCHANGED <<now, log, written, proc, batch, window, lastAlert,
                 lastCleanup, target, histVars>>

StaleAfter == IF 4 * WindowLen > StaleFloor THEN 4 * WindowLen ELSE StaleFloor

LastTs(p) == window[p][Len(window[p])].ts

(* Faulty variant of the next definition: a PID is stale after one window.  *)
StaleShort(p) ==
  \E q \in Pids : /\ window[p] # <<>> /\ window[q] # <<>>
                  /\ LastTs(p) < LastTs(q) - WindowLen

(* The last event of p is older than the newest last event by StaleAfter.   *)
Stale(p) ==
  \E q \in Pids : /\ window[p] # <<>> /\ window[q] # <<>>
                  /\ LastTs(p) < LastTs(q) - StaleAfter

CleanupDue == now - lastCleanup >= CleanupEvery

(* After the last log: cleanup_stale_state when it is due. *)
EndRound ==
  /\ pc = "handle" /\ batch = <<>>
  /\ turn = Len(Files)
  /\ turn' = 1
  /\ pc' = "poll"
  /\ IF CleanupDue
     THEN /\ window' = [p \in Pids |-> IF Stale(p) THEN <<>> ELSE window[p]]
          /\ lastAlert' = [p \in Pids |-> IF Stale(p) THEN NoAlert ELSE lastAlert[p]]
          /\ lastCleanup' = now
     ELSE UNCHANGED <<window, lastAlert, lastCleanup>>
  /\ UNCHANGED <<now, log, written, proc, batch, target, histVars>>
-----------------------------------------------------------------------------
World == \/ Tick
         \/ \E p \in Pids, k \in EmitKeys : Emit(p, k)
         \/ \E p \in Pids : Exit(p)
         \/ \E p \in Pids, c \in Classes : Reuse(p, c)
Loop  == PollFile \/ HandleLine \/ (\E l \in Looks : Look(l)) \/ Kill
           \/ NextFile \/ EndRound
Next  == World \/ Loop
Spec  == Init /\ [][Next]_vars
-----------------------------------------------------------------------------
(* Two alerts of one PID are the cooldown apart, or as far apart as the     *)
(* cleanup allows: it forgets last_alert_at by the time of the last event,  *)
(* which may be Lag behind the alert (cleanup_stale_state).                 *)
MinGap == IF Cooldown < StaleAfter - Lag THEN Cooldown ELSE StaleAfter - Lag

AlertSpacing ==
  \A p \in Pids : \A i \in DOMAIN alertTimes[p] :
    i > 1 => alertTimes[p][i] - alertTimes[p][i - 1] >= MinGap

(* No event that is still inside the window is expired or cleaned away,     *)
(* whatever the order in which the logs were drained.                       *)
NoEarlyExpiry ==
  \A e \in handled : e.ts >= now - WindowLen =>
    \E i \in DOMAIN window[e.pid] : window[e.pid][i] = e

(* A protected process is signalled only when it took the PID over after    *)
(* the one look of the check that would have spared it; one with a          *)
(* protected comm, which no look asks for, only when the window that raised *)
(* the alert is not mostly its own (README.md:178, realtime_blocker.py:74). *)
ProtectedSpared ==
  \A s \in signalled :
    /\ s.class = "monitor" => "tree" \notin s.met
    /\ s.class = "cmdline" => "cmdline" \notin s.met
    /\ s.class = "root" /\ ~AllowRootBlock => "uid" \notin s.met
    /\ s.class = "service" => "ppid" \notin s.met
    /\ s.class = "comm" => ~s.most

(* A line of p is handled. *)
Handles(p) == batch # <<>> /\ batch' = Tail(batch) /\ Head(batch).pid = p

(* An mmap and an mprotect of one PID raise an alert with the line that     *)
(* completes them and with every further line of the PID, in whatever order *)
(* and from whichever logs they are read, until a line newer by more than   *)
(* the window has followed one of them; only a cooldown that is on, from an *)
(* alert raised less than Cooldown ago, keeps the alert back (main,         *)
(* README.md:5).                                                            *)
PairDetected ==
  [][\A e, f \in handled' \ overtaken' :
       /\ e.key = "memory.mmap" /\ f.key = "memory.mprotect"
       /\ e.pid = f.pid /\ Handles(e.pid)
       => \/ alertTimes'[e.pid] = Append(alertTimes[e.pid], now)
          \/ \E i \in DOMAIN alertTimes[e.pid] :
               now - alertTimes[e.pid][i] < Cooldown]_vars

(* README.md:31: what is terminated is the suspicious process: the events   *)
(* of the window are its own.                                               *)
SignalsOnlySuspects == \A s \in signalled : s.own
=============================================================================
