------------------------- MODULE RuntimeStackProofs -------------------------
(***************************************************************************)
(* The commands of the CLI, for every order of components, number of CLIs, *)
(* PIDs and commands, with crashes, aborts, a reboot and strangers.        *)
(***************************************************************************)
EXTENDS RuntimeStack, FiniteSetTheorems, TLAPS

Labels == {"idle", "archive", "load", "term1", "wait1", "unlink", "legacy",
           "term2", "wait2", "spawn", "probe", "truncate", "write", "workload"}
Starting == {"spawn", "probe", "truncate", "write", "workload"}

Process == [who : Components \cup {"", "stranger"}, st : {"free", "run", "zombie"},
            parent : Clis \cup {"init"}, termed : BOOLEAN, run : 0..MaxCommands]

Call == [cmd : Commands \cup {""}, pc : Labels, phase : {"start", "stop"},
         todo : SUBSET Pids, next : 1..(Len(Order) + 1),
         started : [Components -> Pids \cup {0}], run : 0..MaxCommands,
         kept : BOOLEAN]

(* What a component and a call owe to the command they belong to: its       *)
(* number, and a component to start next while it starts.                   *)
ProcessFits(q) == q.st = "run" /\ q.who \in Components => q.run # 0

CallFits(call) ==
  /\ call.phase = "start" /\ call.pc \notin Starting => call.next \in DOMAIN Order
  /\ call.pc \in {"spawn", "probe"} => call.next \in DOMAIN Order
  /\ call.pc \in Starting => call.phase = "start"
  /\ call.pc \in {"archive", "workload"} => call.cmd = "quick"
  /\ call.pc # "idle" => call.run # 0

FitInv ==
  /\ proc \in [Pids -> Process] /\ \A p \in Pids : ProcessFits(proc[p])
  /\ cli \in [Clis -> Call] /\ \A c \in Clis : CallFits(cli[c])
  /\ manifest \in [Components -> Pids \cup {0}]
  /\ log \subseteq 1..MaxCommands
  /\ issued \in 0..MaxCommands
  /\ alone \subseteq Clis

LEMMA OrderFacts ==
  /\ Len(Order) \in Nat /\ Len(Order) > 0 /\ DOMAIN Order = 1..Len(Order)
  /\ \A i \in DOMAIN Order : Order[i] \in Components
<1>1. Order \in Seq(Components) /\ Order # <<>>
  BY StackAssumption
<1> QED
  BY <1>1

LEMMA OrderOnce == \A i, j \in DOMAIN Order : Order[i] = Order[j] => i = j
BY Zenon, StackAssumption

LEMMA Bounded == MaxCommands \in Nat
BY StackAssumption

LEMMA NoComponent == "" \notin Components /\ "stranger" \notin Components
BY StackAssumption

LEMMA FreeFits == Free \in Process /\ ProcessFits(Free)
BY Bounded DEF Free, Process, ProcessFits

LEMMA IdleFits == Idle \in Call /\ CallFits(Idle)
<1>1. NoManifest \in [Components -> Pids \cup {0}]
  BY DEF NoManifest
<1>2. 1 \in 1..(Len(Order) + 1) /\ 0 \in 0..MaxCommands
  BY OrderFacts, Bounded
<1>3. Idle \in Call
  BY <1>1, <1>2 DEF Idle, Call, Labels
<1>4. 1 \in DOMAIN Order
  BY OrderFacts
<1>5. CallFits(Idle)
  BY <1>4 DEF Idle, CallFits, Starting
<1> QED
  BY <1>3, <1>5

LEMMA FitInit == Init => FitInv
<1> SUFFICES ASSUME Init PROVE FitInv
  OBVIOUS
<1>1. proc \in [Pids -> Process] /\ \A p \in Pids : ProcessFits(proc[p])
  BY FreeFits DEF Init
<1>2. cli \in [Clis -> Call] /\ \A c \in Clis : CallFits(cli[c])
  BY IdleFits DEF Init
<1> QED
  BY <1>1, <1>2, Bounded DEF Init, FitInv, NoManifest
-----------------------------------------------------------------------------
(* The tables that the steps of a CLI leave behind. *)

Tables == {t \in [Pids -> Process] : \A p \in Pids : ProcessFits(t[p])}

LEMMA ReapedFits ==
  ASSUME FitInv, NEW c \in Clis
  PROVE  Reaped(c) \in Tables
BY FreeFits DEF Reaped, Tables, FitInv

LEMMA OrphanedFits ==
  ASSUME NEW c \in Clis, NEW t \in Tables
  PROVE  Orphaned(c, t) \in Tables
<1>1. ASSUME NEW p \in Pids
      PROVE  Orphaned(c, t)[p] \in Process /\ ProcessFits(Orphaned(c, t)[p])
  BY FreeFits DEF Orphaned, Tables, Process, ProcessFits
<1> QED
  BY <1>1 DEF Orphaned, Tables

(* A call of c that fits, over a table that does. *)
LEMMA StepFits ==
  ASSUME FitInv, NEW c \in Clis, NEW call \in Call, CallFits(call),
         cli' = [cli EXCEPT ![c] = call], proc' \in Tables,
         manifest' \in [Components -> Pids \cup {0}],
         log' \subseteq 1..MaxCommands,
         UNCHANGED <<issued, ghosts>>
  PROVE  FitInv'
BY DEF FitInv, Tables, ghosts

(* To go on to a label needs the label to fit the call. *)
LEMMA ProceedFits ==
  ASSUME FitInv, NEW c \in Clis, NEW t \in Tables, NEW label \in Labels \cup {"end"},
         label \in Labels => CallFits([cli[c] EXCEPT !.pc = label]),
         Proceed(c, label, t),
         manifest' \in [Components -> Pids \cup {0}],
         log' \subseteq 1..MaxCommands,
         UNCHANGED <<issued, ghosts>>
  PROVE  FitInv'
<1>0. "end" \notin Labels
  BY DEF Labels
<1>1. CASE label = "end"
  BY <1>1, IdleFits, OrphanedFits, StepFits DEF Proceed
<1>2. CASE label # "end"
  <2> DEFINE call == [cli[c] EXCEPT !.pc = label]
  <2>1. call \in Call /\ CallFits(call)
    BY <1>2 DEF FitInv, Call
  <2>2. cli' = [cli EXCEPT ![c] = call]
    BY <1>2 DEF Proceed, Goto
  <2>3. proc' = t
    BY <1>2 DEF Proceed
  <2> HIDE DEF call
  <2> QED
    BY <2>1, <2>2, <2>3, StepFits
<1> QED
  BY <1>1, <1>2

LEMMA ProcFits == FitInv => proc \in Tables
BY DEF FitInv, Tables

(* A call that has not begun to start may go on to any step before that. *)
LEMMA GoOnFits ==
  ASSUME NEW call \in Call, CallFits(call), NEW label \in Labels \ {"archive", "workload"},
         call.pc # "idle",
         call.pc \notin Starting, label \in Starting => label = "spawn" /\ call.phase = "start"
  PROVE  [call EXCEPT !.pc = label] \in Call /\ CallFits([call EXCEPT !.pc = label])
<1>1. [call EXCEPT !.pc = label] \in Call
  BY DEF Call
<1>2. 1 \in DOMAIN Order
  BY OrderFacts
<1>3. label = "spawn" => call.next \in DOMAIN Order
  BY DEF CallFits, Starting
<1> DEFINE new == [call EXCEPT !.pc = label]
<1>4. /\ new.pc = label /\ new.phase = call.phase /\ new.next = call.next
      /\ new.cmd = call.cmd /\ new.run = call.run
  BY DEF Call
<1> HIDE DEF new
<1>5. CallFits(new)
  BY <1>2, <1>3, <1>4 DEF CallFits, Starting
<1> QED
  BY <1>1, <1>5 DEF new

(* After a legacy cleanup a start begins with a component of Order. *)
LEMMA AfterLegacyFits ==
  ASSUME FitInv, NEW c \in Clis, cli[c].pc \in {"legacy", "term1", "wait1", "term2", "wait2"}
  PROVE  /\ AfterLegacy(c) \in Labels \cup {"end"}
         /\ AfterLegacy(c) \in Labels => CallFits([cli[c] EXCEPT !.pc = AfterLegacy(c)])
         /\ AfterWait(c) \in Labels \cup {"end"}
         /\ AfterWait(c) \in Labels => CallFits([cli[c] EXCEPT !.pc = AfterWait(c)])
<1>1. cli[c] \in Call /\ CallFits(cli[c]) /\ cli[c].pc \notin Starting /\ cli[c].pc # "idle"
  BY DEF FitInv, Starting
<1>2. CallFits([cli[c] EXCEPT !.pc = "unlink"])
  BY <1>1, GoOnFits DEF Labels, Starting
<1>3. cli[c].phase = "start" => CallFits([cli[c] EXCEPT !.pc = "spawn"])
  BY <1>1, GoOnFits DEF Labels, Starting
<1> QED
  BY <1>2, <1>3 DEF AfterLegacy, AfterWait, Labels
-----------------------------------------------------------------------------
(* FitInv is inductive. *)

LEMMA BeginFits ==
  ASSUME FitInv, NEW c \in Clis, NEW command \in Commands, Begin(c, command)
  PROVE  FitInv'
<1>0. PICK first \in FirstToStart(command) :
        cli' = [cli EXCEPT ![c] =
          [Idle EXCEPT !.cmd = command,
                       !.pc = IF command = "quick" THEN "archive" ELSE "load",
                       !.phase = IF command = "stop" THEN "stop" ELSE "start",
                       !.next = first,
                       !.run = issued + 1]]
  BY DEF Begin
<1> DEFINE call == [Idle EXCEPT !.cmd = command,
                    !.pc = IF command = "quick" THEN "archive" ELSE "load",
                    !.phase = IF command = "stop" THEN "stop" ELSE "start",
                    !.next = first,
                    !.run = issued + 1]
<1>1. issued + 1 \in 0..MaxCommands /\ issued + 1 # 0
  BY Bounded DEF Begin, FitInv
<1>7. first \in DOMAIN Order /\ first \in 1..(Len(Order) + 1)
  BY OrderFacts DEF FirstToStart
<1>2. /\ call.cmd = command /\ call.run = issued + 1 /\ call.next = first
      /\ call.pc = IF command = "quick" THEN "archive" ELSE "load"
      /\ call \in Call
  BY <1>1, <1>7, IdleFits DEF Idle, Call, Labels
<1>3. cli' = [cli EXCEPT ![c] = call]
  BY <1>0
<1> HIDE DEF call
<1>4. CallFits(call)
  BY <1>1, <1>2, <1>7 DEF CallFits, Starting
<1>5. cli' \in [Clis -> Call] /\ \A d \in Clis : CallFits(cli'[d])
  BY <1>2, <1>3, <1>4 DEF FitInv
<1>6. issued' \in 0..MaxCommands /\ alone' \subseteq Clis
  BY <1>1 DEF Begin
<1> QED
  BY <1>5, <1>6 DEF Begin, FitInv

LEMMA ArchiveFits ==
  ASSUME FitInv, NEW c \in Clis, Archive(c)
  PROVE  FitInv'
<1> DEFINE call == [cli[c] EXCEPT !.pc = "load", !.kept = AnyRunning # {}]
<1>1. cli[c] \in Call /\ CallFits(cli[c]) /\ cli[c].pc = "archive"
  BY DEF FitInv, Archive
<1>2. call \in Call
  BY <1>1 DEF Call, Labels
<1>3. CallFits(call)
  BY <1>1 DEF Call, CallFits, Starting
<1>4. cli' = [cli EXCEPT ![c] = call]
  BY DEF Archive
<1> HIDE DEF call
<1> QED
  BY <1>2, <1>3, <1>4, ProcFits, StepFits DEF Archive, FitInv

LEMMA LoadFits ==
  ASSUME FitInv, NEW c \in Clis, Load(c)
  PROVE  FitInv'
<1>1. cli[c] \in Call /\ CallFits(cli[c]) /\ cli[c].pc = "load"
  BY DEF FitInv, Load
<1>2. PICK stopping \in BOOLEAN :
        cli' = [cli EXCEPT ![c].todo = IF stopping THEN TrackedAlive ELSE {},
                           ![c].pc = IF stopping THEN "term1" ELSE "legacy"]
  BY DEF Load
<1>3. TrackedAlive \subseteq Pids
  BY DEF TrackedAlive, Tracked, FitInv
<1> DEFINE call == [cli[c] EXCEPT !.todo = IF stopping THEN TrackedAlive ELSE {},
                                  !.pc = IF stopping THEN "term1" ELSE "legacy"]
<1>4. call \in Call
  BY <1>1, <1>3 DEF Call, Labels
<1>5. CallFits(call)
  BY <1>1 DEF Call, CallFits, Starting
<1>6. cli' = [cli EXCEPT ![c] = call]
  BY <1>2
<1> HIDE DEF call
<1> QED
  BY <1>4, <1>5, <1>6, ProcFits, StepFits DEF Load, FitInv

LEMMA EndFits ==
  ASSUME FitInv, NEW c \in Clis, End(c), UNCHANGED <<manifest, log, issued, ghosts>>
  PROVE  FitInv'
BY ProcFits, ProceedFits DEF End, FitInv, Labels

(* Table entry r is q grown older: no component begins to run. *)
Older(q, r) ==
  r.st = "run" /\ r.who # "stranger"
    => q.st = "run" /\ r.who = q.who /\ r.run = q.run

LEMMA FreeStill == Free.st # "run"
BY DEF Free

(* SIGKILL: a table in which none of those who were left runs. *)
LEMMA EscalateTable ==
  ASSUME FitInv, NEW c \in Clis, Escalate(c)
  PROVE  \E t \in Tables :
           /\ Proceed(c, AfterWait(c), t)
           /\ \A p \in Pids : Older(proc[p], t[p])
           /\ \A p \in Pids : p \in cli[c].todo /\ Alive(p) => t[p].st # "run"
<1> DEFINE left == {p \in cli[c].todo : Alive(p)}
           t == [p \in Pids |-> IF p \notin left \/ proc[p].st # "run" THEN proc[p]
                          ELSE IF proc[p].parent = "init" THEN Free
                          ELSE [proc[p] EXCEPT !.st = "zombie"]]
<1>1. ASSUME NEW p \in Pids
      PROVE  /\ t[p] \in Process /\ ProcessFits(t[p]) /\ Older(proc[p], t[p])
             /\ p \in left => t[p].st # "run"
  <2>1. proc[p] \in Process /\ ProcessFits(proc[p])
    BY DEF FitInv
  <2> DEFINE z == [proc[p] EXCEPT !.st = "zombie"]
  <2>2. z \in Process /\ z.st # "run"
    BY <2>1 DEF Process
  <2> HIDE DEF z
  <2>3. CASE p \notin left \/ proc[p].st # "run"
    <3>1. t[p] = proc[p]
      BY <2>3
    <3> HIDE DEF t
    <3> QED
      BY <2>1, <2>3, <3>1 DEF Older
  <2>4. CASE p \in left /\ proc[p].st = "run"
    <3>1. t[p] \in {Free, z}
      BY <2>4 DEF z
    <3>2. t[p] \in Process /\ t[p].st # "run"
      BY Zenon, <2>2, <3>1, FreeFits, FreeStill
    <3> HIDE DEF t
    <3> QED
      BY <3>2 DEF Older, ProcessFits
  <2> QED
    BY <2>3, <2>4
<1>2. t \in Tables
  BY <1>1 DEF Tables
<1>3. Proceed(c, AfterWait(c), t)
  BY DEF Escalate
<1> HIDE DEF t
<1> QED
  BY <1>1, <1>2, <1>3

LEMMA WaitsFit ==
  ASSUME FitInv, NEW c \in Clis,
         NothingToStop(c) \/ WaitOver(c) \/ Escalate(c) \/ Terminate(c)
  PROVE  FitInv'
<1>1. cli[c].pc \in {"term1", "wait1", "term2", "wait2"}
  BY DEF NothingToStop, WaitOver, Escalate, Terminate
<1>2. CASE NothingToStop(c) \/ WaitOver(c)
  BY <1>1, <1>2, ProcFits, AfterLegacyFits, ProceedFits DEF NothingToStop, WaitOver, FitInv
<1>3. CASE Escalate(c)
  BY <1>1, <1>3, EscalateTable, AfterLegacyFits, ProceedFits DEF Escalate, FitInv
<1>4. CASE Terminate(c)
  <2>1. cli[c] \in Call /\ CallFits(cli[c]) /\ cli[c].pc \in {"term1", "term2"}
    BY <1>4 DEF FitInv, Terminate
  <2>2. WaitLabel(cli[c].pc) \in {"wait1", "wait2"}
    BY DEF WaitLabel
  <2> DEFINE call == [cli[c] EXCEPT !.pc = WaitLabel(cli[c].pc)]
  <2>3. call \in Call /\ CallFits(call)
    BY <2>1, <2>2, GoOnFits DEF Labels, Starting
  <2>4. cli' = [cli EXCEPT ![c] = call]
    BY <1>4 DEF Terminate, Goto
  <2>5. ASSUME NEW p \in Pids
        PROVE  proc'[p] \in Process /\ ProcessFits(proc'[p])
    <3>1. Reaped(c)[p] \in Process /\ ProcessFits(Reaped(c)[p])
      BY ReapedFits DEF Tables
    <3>2. proc'[p] \in {Reaped(c)[p], [Reaped(c)[p] EXCEPT !.termed = TRUE]}
      BY <1>4 DEF Terminate
    <3>3. ASSUME NEW q \in Process, ProcessFits(q)
          PROVE  [q EXCEPT !.termed = TRUE] \in Process /\ ProcessFits([q EXCEPT !.termed = TRUE])
      BY <3>3 DEF Process, ProcessFits
    <3> QED
      BY <3>1, <3>2, <3>3
  <2>6. proc' \in Tables
    BY <1>4, <2>5 DEF Tables, Terminate
  <2> HIDE DEF call
  <2> QED
    BY <1>4, <2>3, <2>4, <2>6, StepFits DEF Terminate, FitInv
<1> QED
  BY <1>2, <1>3, <1>4

LEMMA UnlinkFits ==
  ASSUME FitInv, NEW c \in Clis, Unlink(c)
  PROVE  FitInv'
<1>1. cli[c] \in Call /\ CallFits(cli[c]) /\ cli[c].pc = "unlink"
  BY DEF FitInv, Unlink
<1> DEFINE call == [cli[c] EXCEPT !.pc = "legacy"]
<1>2. call \in Call /\ CallFits(call)
  BY <1>1, GoOnFits DEF Labels, Starting
<1>3. cli' = [cli EXCEPT ![c] = call]
  BY DEF Unlink, Goto
<1> HIDE DEF call
<1> QED
  BY <1>2, <1>3, ProcFits, StepFits DEF Unlink, FitInv, NoManifest

LEMMA CollectLegacyFits ==
  ASSUME FitInv, NEW c \in Clis, CollectLegacy(c)
  PROVE  FitInv'
<1>1. cli[c] \in Call /\ CallFits(cli[c]) /\ cli[c].pc = "legacy"
  BY DEF FitInv, CollectLegacy
<1>2. CASE AnyRunning = {}
  BY <1>1, <1>2, ReapedFits, AfterLegacyFits, ProceedFits DEF CollectLegacy, FitInv
<1>3. CASE AnyRunning # {}
  <2> DEFINE call == [cli[c] EXCEPT !.todo = AnyRunning, !.pc = "term2"]
  <2>1. AnyRunning \subseteq Pids
    BY DEF AnyRunning, Running
  <2>2. call \in Call
    BY <1>1, <2>1 DEF Call, Labels
  <2>3. CallFits(call)
    BY <1>1 DEF Call, CallFits, Starting
  <2>4. cli' = [cli EXCEPT ![c] = call] /\ proc' = Reaped(c)
    BY <1>3 DEF CollectLegacy
  <2> HIDE DEF call
  <2> QED
    BY <2>2, <2>3, <2>4, ReapedFits, StepFits DEF CollectLegacy, FitInv
<1> QED
  BY <1>2, <1>3

LEMMA SpawnFits ==
  ASSUME FitInv, NEW c \in Clis, Spawn(c)
  PROVE  FitInv'
<1>1. cli[c] \in Call /\ CallFits(cli[c]) /\ cli[c].pc = "spawn"
  BY DEF FitInv, Spawn
<1> DEFINE k == Order[cli[c].next]
<1>2. k \in Components
  BY <1>1, OrderFacts DEF CallFits
<1>3. PICK p \in Pids :
        /\ proc' = [Reaped(c) EXCEPT ![p] =
             [who |-> k, st |-> "run", parent |-> c, termed |-> FALSE, run |-> cli[c].run]]
        /\ cli' = [cli EXCEPT ![c].started[k] = p, ![c].pc = "probe"]
  BY DEF Spawn
<1> DEFINE call == [cli[c] EXCEPT !.started[k] = p, !.pc = "probe"]
           q == [who |-> k, st |-> "run", parent |-> c, termed |-> FALSE, run |-> cli[c].run]
<1>4. q \in Process /\ ProcessFits(q)
  BY <1>1, <1>2 DEF Process, ProcessFits, Call, CallFits
<1>5. proc' \in Tables
  <2> HIDE DEF q
  <2> QED
    BY <1>3, <1>4, ReapedFits DEF q, Tables
<1>6. call \in Call
  BY <1>1, <1>2 DEF Call, Labels
<1>7. CallFits(call)
  BY <1>1 DEF Call, CallFits, Starting
<1>8. cli' = [cli EXCEPT ![c] = call]
  BY <1>3
<1> HIDE DEF call
<1> QED
  BY <1>5, <1>6, <1>7, <1>8, StepFits DEF Spawn, FitInv

LEMMA ProbeUpFits ==
  ASSUME FitInv, NEW c \in Clis, ProbeUp(c)
  PROVE  FitInv'
<1>1. cli[c] \in Call /\ CallFits(cli[c]) /\ cli[c].pc = "probe"
  BY DEF FitInv, ProbeUp
<1>2. cli[c].next \in 1..Len(Order)
  BY <1>1, OrderFacts DEF CallFits
<1> DEFINE call == [cli[c] EXCEPT !.next = @ + 1,
                        !.pc = IF cli[c].next = Len(Order) THEN "truncate" ELSE "spawn"]
<1>3. cli[c].next + 1 \in 1..(Len(Order) + 1)
  BY <1>2, OrderFacts
<1>4. call \in Call
  BY <1>1, <1>3 DEF Call, Labels
<1>5. /\ call.next = cli[c].next + 1 /\ call.phase = cli[c].phase /\ call.run = cli[c].run
      /\ call.pc = IF cli[c].next = Len(Order) THEN "truncate" ELSE "spawn"
  BY <1>1 DEF Call
<1>6. cli' = [cli EXCEPT ![c] = call]
  BY DEF ProbeUp
<1> HIDE DEF call
<1>7. call.pc = "spawn" => call.next \in DOMAIN Order
  BY <1>2, <1>5, OrderFacts
<1>8. CallFits(call)
  BY <1>1, <1>5, <1>7 DEF CallFits, Starting
<1> QED
  BY <1>4, <1>6, <1>8, ProcFits, StepFits DEF ProbeUp, FitInv

LEMMA WriteFits ==
  ASSUME FitInv, NEW c \in Clis, TruncateManifest(c) \/ WriteManifest(c)
  PROVE  FitInv'
<1>1. cli[c] \in Call /\ CallFits(cli[c]) /\ cli[c].pc \in {"truncate", "write"}
  BY DEF FitInv, TruncateManifest, WriteManifest
<1>2. CASE TruncateManifest(c)
  <2> DEFINE call == [cli[c] EXCEPT !.pc = "write"]
  <2>1. call \in Call
    BY <1>1 DEF Call, Labels
  <2>2. CallFits(call)
    BY <1>1 DEF Call, CallFits, Starting
  <2>3. cli' = [cli EXCEPT ![c] = call]
    BY <1>2 DEF TruncateManifest, Goto
  <2> HIDE DEF call
  <2> QED
    BY <1>2, <2>1, <2>2, <2>3, ProcFits, StepFits DEF TruncateManifest, FitInv, NoManifest
<1>3. CASE WriteManifest(c)
  <2> DEFINE label == IF cli[c].cmd = "quick" THEN "workload" ELSE "end"
  <2>1. label \in Labels => CallFits([cli[c] EXCEPT !.pc = label])
    BY <1>1 DEF Call, CallFits, Starting, Labels
  <2>2. manifest' \in [Components -> Pids \cup {0}]
    BY <1>1, <1>3 DEF WriteManifest, Call
  <2>3. Proceed(c, label, proc) /\ label \in Labels \cup {"end"}
    BY <1>3 DEF WriteManifest, Labels
  <2> HIDE DEF label
  <2> QED
    BY <1>3, <2>1, <2>2, <2>3, ProcFits, ProceedFits DEF WriteManifest, FitInv
<1> QED
  BY <1>2, <1>3

LEMMA WorkloadOverFits ==
  ASSUME FitInv, NEW c \in Clis, WorkloadOver(c)
  PROVE  FitInv'
<1>1. cli[c] \in Call /\ CallFits(cli[c]) /\ cli[c].pc = "workload"
  BY DEF FitInv, WorkloadOver
<1> DEFINE call == [cli[c] EXCEPT !.pc = "load", !.phase = "stop"]
<1>2. call \in Call
  BY <1>1 DEF Call, Labels
<1>3. CallFits(call)
  BY <1>1 DEF Call, CallFits, Starting
<1>4. cli' = [cli EXCEPT ![c] = call]
  BY DEF WorkloadOver
<1> HIDE DEF call
<1> QED
  BY <1>2, <1>3, <1>4, ProcFits, StepFits DEF WorkloadOver, FitInv

LEMMA WorldFits ==
  ASSUME FitInv,
         (\E p \in Pids : Die(p) \/ StrangerTakes(p) \/ WriteEvent(p)) \/ Reboot
  PROVE  FitInv'
<1>1. ASSUME NEW p \in Pids, Die(p)
      PROVE  FitInv'
  <2>1. proc[p] \in Process /\ proc' \in {[proc EXCEPT ![p] = Free],
                                         [proc EXCEPT ![p] = [@ EXCEPT !.st = "zombie"]]}
    BY <1>1 DEF Die, FitInv
  <2>2. /\ [proc[p] EXCEPT !.st = "zombie"] \in Process
        /\ ProcessFits([proc[p] EXCEPT !.st = "zombie"])
    BY <2>1 DEF Process, ProcessFits
  <2>3. proc' \in [Pids -> Process] /\ \A x \in Pids : ProcessFits(proc'[x])
    BY <2>1, <2>2, FreeFits DEF FitInv
  <2> QED
    BY <1>1, <2>3 DEF Die, FitInv, ghosts
<1>2. ASSUME NEW p \in Pids, StrangerTakes(p)
      PROVE  FitInv'
  <2> DEFINE q == [Free EXCEPT !.who = "stranger", !.st = "run"]
  <2>1. q \in Process
    BY FreeFits DEF Process
  <2>2. q.who = "stranger"
    BY DEF Free
  <2>3. proc' = [proc EXCEPT ![p] = q]
    BY <1>2 DEF StrangerTakes
  <2> HIDE DEF q
  <2>4. ProcessFits(q)
    BY <2>2, NoComponent DEF ProcessFits
  <2>5. proc' \in [Pids -> Process] /\ \A x \in Pids : ProcessFits(proc'[x])
    BY <2>1, <2>3, <2>4 DEF FitInv
  <2> QED
    BY <1>2, <2>5 DEF StrangerTakes, FitInv, ghosts
<1>3. ASSUME NEW p \in Pids, WriteEvent(p)
      PROVE  FitInv'
  <2>1. proc[p].run \in 0..MaxCommands /\ proc[p].run # 0
    BY <1>3 DEF WriteEvent, FitInv, ProcessFits, Process
  <2>2. log' = log \cup {proc[p].run} /\ log \subseteq 1..MaxCommands
    BY <1>3 DEF WriteEvent, FitInv
  <2> DEFINE n == proc[p].run
  <2>3. n \in 1..MaxCommands
    <3> HIDE DEF n
    <3>1. n \in 0..MaxCommands /\ n # 0
      BY <2>1 DEF n
    <3> QED
      BY <3>1, Bounded
  <2>4. log' \subseteq 1..MaxCommands
    BY Zenon, <2>2, <2>3
  <2> QED
    BY <1>3, <2>4 DEF WriteEvent, FitInv, ghosts
<1>4. CASE Reboot
  BY <1>4, FreeFits, IdleFits DEF Reboot, FitInv, ghosts
<1> QED
  BY <1>1, <1>2, <1>3, <1>4

LEMMA FitInductive ==
  ASSUME FitInv, [Next]_vars
  PROVE  FitInv'
<1>1. ASSUME NEW c \in Clis, NEW command \in Commands, Begin(c, command)
      PROVE  FitInv'
  BY <1>1, BeginFits
<1>2. ASSUME NEW c \in Clis, Step(c)
      PROVE  FitInv'
  <2>1. CASE ReuseStack(c) \/ ProbeDown(c)
    BY <2>1, EndFits DEF ReuseStack, ProbeDown
  <2> QED
    BY <1>2, <2>1, ArchiveFits, LoadFits, WaitsFit, UnlinkFits, CollectLegacyFits,
       SpawnFits, ProbeUpFits, WriteFits DEF Step
<1>3. ASSUME NEW c \in Clis, WorkloadOver(c) \/ KeepRunning(c) \/ Abort(c)
      PROVE  FitInv'
  BY <1>3, WorkloadOverFits, EndFits DEF KeepRunning, Abort
<1>4. CASE UNCHANGED vars
  BY <1>4 DEF FitInv, vars, ghosts
<1> QED
  BY <1>1, <1>2, <1>3, <1>4, WorldFits DEF Next

(* Every variable keeps its type. *)
THEOREM TypeCorrect == Spec => []TypeOK
<1>1. FitInv => TypeOK
  <2> SUFFICES ASSUME FitInv PROVE TypeOK
    OBVIOUS
  <2>1. ASSUME NEW c \in Clis
        PROVE  /\ cli[c].pc \in Labels
               /\ cli[c].todo \subseteq Pids
               /\ cli[c].next \in 1..(Len(Order) + 1)
               /\ cli[c].pc \in {"spawn", "probe"} => cli[c].next \in DOMAIN Order
    BY DEF FitInv, Call, CallFits
  <2> QED
    BY <2>1 DEF FitInv, TypeOK, Process, Labels
<1> QED
  BY <1>1, FitInit, FitInductive, PTL DEF Spec
-----------------------------------------------------------------------------
(* What a command that no other ran beside knows of the components: once it *)
(* has looked for processes of no manifest it has all of them in hand; what *)
(* it has yet to start does not run; and whatever runs or wrote since a     *)
(* quick archived over a stopped stack is its own.                          *)
RunOnly(n) == log \subseteq {n} /\ \A p \in AnyRunning : proc[p].run = n

LoneFits(call) ==
  /\ call.pc \in {"term2", "wait2"} => AnyRunning \subseteq call.todo
  /\ call.pc = "spawn" =>
       \A i \in DOMAIN Order : i >= call.next => Running(Order[i]) = {}
  /\ call.pc = "probe" =>
       \A i \in DOMAIN Order : i > call.next => Running(Order[i]) = {}
  /\ call.cmd = "quick" /\ call.pc # "archive" /\ ~call.kept => RunOnly(call.run)

Unique == \A k \in Components : \A p, q \in Running(k) : p = q

LoneInv ==
  /\ ~overlap => Active \subseteq alone /\ Unique
  /\ \A c \in alone : Active \subseteq {c} /\ LoneFits(cli[c])

Fewer ==
  /\ \A k \in Components : Running(k)' \subseteq Running(k)
  /\ AnyRunning' \subseteq AnyRunning
  /\ \A p \in AnyRunning' : proc'[p].run = proc[p].run

LEMMA OlderFewer ==
  ASSUME \A p \in Pids : Older(proc[p], proc'[p])
  PROVE  Fewer
<1>1. ASSUME NEW k \in Components, NEW p \in Running(k)'
      PROVE  p \in Running(k) /\ proc'[p].run = proc[p].run
  <2>1. p \in Pids /\ proc'[p].st = "run" /\ proc'[p].who = k
    BY <1>1 DEF Running
  <2>2. proc'[p].who # "stranger"
    BY <2>1, NoComponent
  <2>3. proc[p].st = "run" /\ proc[p].who = k /\ proc'[p].run = proc[p].run
    BY <2>1, <2>2 DEF Older
  <2> QED
    BY <2>1, <2>3 DEF Running
<1>2. ASSUME NEW p \in AnyRunning'
      PROVE  p \in AnyRunning /\ proc'[p].run = proc[p].run
  <2>1. PICK k \in Components : p \in Running(k)'
    BY DEF AnyRunning
  <2> QED
    BY <2>1, <1>1 DEF AnyRunning
<1> QED
  BY <1>1, <1>2 DEF Fewer

LEMMA SameFewer == UNCHANGED proc => Fewer
BY OlderFewer DEF Older

LEMMA FreeOlder == \A q : Older(q, Free)
BY DEF Older, Free

LEMMA ReapedOlder ==
  ASSUME NEW c \in Clis, NEW p \in Pids
  PROVE  Older(proc[p], Reaped(c)[p])
BY FreeOlder DEF Reaped, Older

LEMMA OrphanedOlder ==
  ASSUME NEW c \in Clis, NEW t \in Tables, NEW p \in Pids, NEW q, Older(q, t[p])
  PROVE  Older(q, Orphaned(c, t)[p])
<1>1. Orphaned(c, t)[p] \in {t[p], Free, [t[p] EXCEPT !.parent = "init"]}
  BY DEF Orphaned
<1>2. t[p] \in Process
  BY DEF Tables
<1>3. Older(q, [t[p] EXCEPT !.parent = "init"])
  BY <1>2 DEF Older, Process
<1> QED
  BY <1>1, <1>3, FreeOlder

LEMMA ProceedOlder ==
  ASSUME NEW c \in Clis, NEW t \in Tables, NEW label, Proceed(c, label, t),
         \A p \in Pids : Older(proc[p], t[p])
  PROVE  Fewer
<1>1. proc' = t \/ proc' = Orphaned(c, t)
  BY DEF Proceed
<1> QED
  BY <1>1, OrphanedOlder, OlderFewer

LEMMA RunningPids == \A p \in AnyRunning : p \in Pids /\ Alive(p) /\ proc[p].st = "run"
<1>1. 0 \notin Pids
  BY StackAssumption
<1>2. \A p \in AnyRunning : p \in Pids /\ proc[p].st = "run"
  BY DEF AnyRunning, Running
<1> QED
  BY <1>1, <1>2 DEF Alive

LEMMA NoneRuns ==
  ASSUME AnyRunning = {}, NEW i \in DOMAIN Order
  PROVE  Running(Order[i]) = {}
BY OrderFacts DEF AnyRunning

(* With fewer components and nothing logged, what a call knows stays true.  *)
LEMMA FewerKeeps ==
  ASSUME Fewer, UNCHANGED log, NEW call, LoneFits(call)
  PROVE  LoneFits(call)'
<1>1. \A i \in DOMAIN Order : Running(Order[i])' \subseteq Running(Order[i])
  BY OrderFacts DEF Fewer
<1>2. \A n : RunOnly(n) => RunOnly(n)'
  BY DEF Fewer, RunOnly
<1> QED
  BY <1>1, <1>2 DEF LoneFits, Fewer

(* A step of the CLI d, after which its call is call. *)
LEMMA LoneStep ==
  ASSUME FitInv, LoneInv, NEW d \in Clis, cli[d].pc # "idle",
         NEW call, cli' = [cli EXCEPT ![d] = call], UNCHANGED ghosts,
         d \in alone => LoneFits(call)',
         ~overlap => Unique'
  PROVE  LoneInv'
<1>1. Active' \subseteq Active
  BY DEF Active, FitInv
<1>2. ASSUME NEW c \in alone
      PROVE  c = d
  BY DEF LoneInv, Active, FitInv
<1>3. \A c \in alone : cli'[c] = call
  BY <1>2 DEF FitInv
<1>4. ASSUME NEW c \in alone'
      PROVE  Active' \subseteq {c} /\ LoneFits(cli[c])'
  <2>1. c \in alone /\ c = d /\ cli'[c] = call
    BY <1>2, <1>3 DEF ghosts
  <2>2. LoneFits(cli[c])'
    BY <2>1 DEF LoneFits, RunOnly
  <2> QED
    BY <2>1, <2>2, <1>1 DEF LoneInv
<1> QED
  BY <1>1, <1>4 DEF LoneInv, ghosts

LEMMA FewerUnique == Unique /\ Fewer => Unique'
BY DEF Unique, Fewer
-----------------------------------------------------------------------------
(* LoneInv is inductive. *)

LEMMA LoneInit == Init => LoneInv
<1> SUFFICES ASSUME Init PROVE LoneInv
  OBVIOUS
<1>1. Active = {}
  BY DEF Init, Active, Idle
<1>2. \A k \in Components : Running(k) = {}
  BY DEF Init, Running, Free
<1> QED
  BY <1>1, <1>2 DEF Init, LoneInv, Unique

(* Who has waited for all that ran, or found nothing, leaves nothing        *)
(* running, unless it has just begun to look.                               *)
LEMMA Cleared ==
  ASSUME FitInv, LoneInv, NEW c \in alone,
         NothingToStop(c) \/ WaitOver(c) \/ Escalate(c) \/ CollectLegacy(c),
         cli'[c].pc \notin {"unlink", "term2"}
  PROVE  AnyRunning' = {} /\ Fewer
<1>0. c \in Clis /\ proc \in Tables /\ Reaped(c) \in Tables
  BY ProcFits, ReapedFits DEF FitInv
<1>1. LoneFits(cli[c])
  BY DEF LoneInv
<1>2. ASSUME cli[c].pc \in {"term1", "wait1"}, NEW t, Proceed(c, AfterWait(c), t)
      PROVE  FALSE
  <2>1. AfterWait(c) = "unlink"
    BY <1>2 DEF AfterWait
  <2>2. cli' = [cli EXCEPT ![c].pc = "unlink"]
    BY <1>2, <2>1 DEF Proceed, Goto
  <2> QED
    BY <1>0, <2>2 DEF FitInv, Call
<1>3. CASE NothingToStop(c)
  <2>1. cli[c].pc = "term2" /\ cli[c].todo = {}
    BY <1>2, <1>3 DEF NothingToStop
  <2>2. AnyRunning = {}
    BY <1>1, <2>1 DEF LoneFits
  <2>3. Fewer
    BY <1>0, <1>3, ProceedOlder DEF NothingToStop, Older
  <2> QED
    BY <2>2, <2>3 DEF Fewer
<1>4. CASE WaitOver(c)
  <2>1. cli[c].pc = "wait2" /\ \A p \in cli[c].todo : ~Alive(p)
    BY <1>2, <1>4 DEF WaitOver
  <2>2. AnyRunning = {}
    BY <1>1, <2>1, RunningPids DEF LoneFits
  <2>3. Fewer
    BY <1>0, <1>4, ProceedOlder DEF WaitOver, Older
  <2> QED
    BY <2>2, <2>3 DEF Fewer
<1>5. CASE Escalate(c)
  <2>1. PICK t \in Tables :
          /\ Proceed(c, AfterWait(c), t)
          /\ \A p \in Pids : Older(proc[p], t[p])
          /\ \A p \in Pids : p \in cli[c].todo /\ Alive(p) => t[p].st # "run"
    BY <1>0, <1>5, EscalateTable
  <2>2. cli[c].pc = "wait2"
    BY <1>2, <1>5, <2>1 DEF Escalate
  <2>3. Fewer
    BY <1>0, <2>1, ProceedOlder
  <2>4. ASSUME NEW p \in AnyRunning'
        PROVE  FALSE
    <3>1. p \in AnyRunning /\ p \in Pids /\ Alive(p)
      BY <2>3, RunningPids DEF Fewer
    <3>2. t[p].st # "run" /\ t[p] \in Process
      BY <1>1, <2>1, <2>2, <3>1 DEF LoneFits, Tables
    <3>3. proc'[p].st = "run"
      BY DEF AnyRunning, Running
    <3>4. proc' = t \/ proc' = Orphaned(c, t)
      BY <2>1 DEF Proceed
    <3>5. Orphaned(c, t)[p] \in {t[p], Free, [t[p] EXCEPT !.parent = "init"]}
      BY <3>1 DEF Orphaned
    <3>6. [t[p] EXCEPT !.parent = "init"].st # "run"
      BY <3>2 DEF Process
    <3>7. Orphaned(c, t)[p].st # "run"
      BY Zenon, <3>2, <3>5, <3>6, FreeStill
    <3> QED
      BY <3>2, <3>3, <3>4, <3>7
  <2> QED
    BY <2>3, <2>4
<1>6. CASE CollectLegacy(c)
  <2>1. CASE AnyRunning = {}
    <3>1. Proceed(c, AfterLegacy(c), Reaped(c))
      BY <1>6, <2>1 DEF CollectLegacy
    <3>2. Fewer
      BY <1>0, <3>1, ReapedOlder, ProceedOlder
    <3> QED
      BY <2>1, <3>2 DEF Fewer
  <2>2. CASE AnyRunning # {}
    BY <1>0, <1>6, <2>2 DEF CollectLegacy, FitInv, Call
  <2> QED
    BY <2>1, <2>2
<1> QED
  BY <1>3, <1>4, <1>5, <1>6

(* A step that starts nothing and logs nothing, to a place where the call   *)
(* owes nothing new or nothing runs.                                        *)
LEMMA QuietFits ==
  ASSUME Fewer, UNCHANGED log, NEW old, NEW new, LoneFits(old), old.pc # "archive",
         new.cmd = old.cmd, new.kept = old.kept, new.run = old.run,
         new.pc \notin {"term2", "wait2", "spawn", "probe"} \/ AnyRunning' = {}
  PROVE  LoneFits(new)'
<1>1. RunOnly(old.run) => RunOnly(old.run)'
  BY DEF Fewer, RunOnly
<1>2. AnyRunning' = {} => \A i \in DOMAIN Order : Running(Order[i])' = {}
  BY OrderFacts DEF AnyRunning
<1> QED
  BY <1>1, <1>2 DEF LoneFits

LEMMA EndLone ==
  ASSUME FitInv, LoneInv, NEW c \in Clis, cli[c].pc # "idle", End(c), UNCHANGED <<log, ghosts>>
  PROVE  LoneInv'
<1>1. Fewer
  BY ProcFits, ProceedOlder DEF End, Older
<1>2. cli' = [cli EXCEPT ![c] = Idle]
  BY DEF End, Proceed
<1>3. PICK call : call = Idle
  OBVIOUS
<1>4. LoneFits(call)'
  BY <1>3 DEF LoneFits, Idle
<1>5. ~overlap => Unique'
  BY <1>1, FewerUnique DEF LoneInv
<1> QED
  BY <1>2, <1>3, <1>4, <1>5, LoneStep

LEMMA BeginLone ==
  ASSUME FitInv, LoneInv, NEW c \in Clis, NEW command \in Commands, Begin(c, command)
  PROVE  LoneInv'
<1>1. PICK call :
        /\ \E first : call = [Idle EXCEPT !.cmd = command,
                    !.pc = IF command = "quick" THEN "archive" ELSE "load",
                    !.phase = IF command = "stop" THEN "stop" ELSE "start",
                    !.next = first,
                    !.run = issued + 1]
        /\ cli' = [cli EXCEPT ![c] = call]
  BY DEF Begin
<1>2. call.cmd = command /\ call.pc = IF command = "quick" THEN "archive" ELSE "load"
  BY <1>1 DEF Idle
<1>3. LoneFits(call)'
  BY <1>2 DEF LoneFits
<1>4. cli'[c] = call /\ \A d \in Clis : d # c => cli'[d] = cli[d]
  BY <1>1 DEF FitInv
<1>5. ASSUME NEW d \in alone'
      PROVE  Active' \subseteq {d} /\ LoneFits(cli[d])'
  <2>1. Active = {} /\ d = c
    BY DEF Begin
  <2>2. LoneFits(cli[d])'
    BY <1>3, <1>4, <2>1 DEF LoneFits, RunOnly
  <2> QED
    BY <1>4, <2>1, <2>2 DEF Active
<1>6. ASSUME ~overlap'
      PROVE  Active' \subseteq alone' /\ Unique'
  <2>1. ~overlap /\ Active = {} /\ alone' = {c}
    BY <1>6 DEF Begin
  <2>2. Unique'
    BY <2>1, SameFewer, FewerUnique DEF Begin, LoneInv
  <2> QED
    BY <1>4, <2>1, <2>2 DEF Active
<1> QED
  BY <1>5, <1>6 DEF LoneInv

LEMMA ArchiveLone ==
  ASSUME FitInv, LoneInv, NEW c \in Clis, Archive(c)
  PROVE  LoneInv'
<1>1. PICK call :
        /\ call = [cli[c] EXCEPT !.pc = "load", !.kept = AnyRunning # {}]
        /\ cli' = [cli EXCEPT ![c] = call]
  BY DEF Archive
<1>2. cli[c] \in Call
  BY DEF FitInv
<1>3. call.pc = "load" /\ call.kept = (AnyRunning # {})
  BY <1>1, <1>2 DEF Call
<1>4. Fewer
  BY SameFewer DEF Archive
<1>5. ~call.kept => RunOnly(call.run)'
  BY <1>3, <1>4 DEF Archive, RunOnly, Fewer
<1>6. LoneFits(call)'
  BY <1>3, <1>5 DEF LoneFits
<1>7. ~overlap => Unique'
  BY <1>4, FewerUnique DEF LoneInv
<1> QED
  BY <1>1, <1>6, <1>7, LoneStep DEF Archive

LEMMA LoadLone ==
  ASSUME FitInv, LoneInv, NEW c \in Clis, Load(c)
  PROVE  LoneInv'
<1>1. PICK stopping \in BOOLEAN :
        cli' = [cli EXCEPT ![c].todo = IF stopping THEN TrackedAlive ELSE {},
                           ![c].pc = IF stopping THEN "term1" ELSE "legacy"]
  BY DEF Load
<1>2. PICK call :
        call = [cli[c] EXCEPT !.todo = IF stopping THEN TrackedAlive ELSE {},
                              !.pc = IF stopping THEN "term1" ELSE "legacy"]
  OBVIOUS
<1>3. PICK old : old = cli[c]
  OBVIOUS
<1>4. /\ old \in Call /\ old.pc = "load" /\ cli' = [cli EXCEPT ![c] = call]
      /\ call.pc \in {"term1", "legacy"}
      /\ call.cmd = old.cmd /\ call.kept = old.kept /\ call.run = old.run
  <2>1. old \in Call /\ old.pc = "load"
    BY <1>3 DEF FitInv, Load
  <2>2. cli' = [cli EXCEPT ![c] = call]
    BY <1>1, <1>2
  <2> QED
    BY <1>2, <1>3, <2>1, <2>2 DEF Call
<1>5. Fewer
  BY SameFewer DEF Load
<1>6. c \in alone => LoneFits(call)'
  BY <1>3, <1>4, <1>5, QuietFits DEF LoneInv, Load
<1>7. ~overlap => Unique'
  BY <1>5, FewerUnique DEF LoneInv
<1> QED
  BY <1>3, <1>4, <1>6, <1>7, LoneStep DEF Load

(* A step that goes on through Proceed with nothing started or logged.      *)
LEMMA ProceedLone ==
  ASSUME FitInv, LoneInv, NEW c \in Clis, cli[c].pc \notin {"idle", "archive"},
         NEW t, NEW label, Proceed(c, label, t), label # "idle", Fewer,
         UNCHANGED <<log, ghosts>>,
         c \in alone =>
           label \notin {"term2", "wait2", "spawn", "probe"} \/ AnyRunning' = {}
  PROVE  LoneInv'
<1>1. ~overlap => Unique'
  BY FewerUnique DEF LoneInv
<1>2. CASE label = "end"
  <2>1. PICK call : call = Idle
    OBVIOUS
  <2>2. LoneFits(call)'
    BY <2>1 DEF LoneFits, Idle
  <2>3. cli' = [cli EXCEPT ![c] = call]
    BY <1>2, <2>1 DEF Proceed
  <2> QED
    BY <1>1, <2>2, <2>3, LoneStep
<1>3. CASE label # "end"
  <2>1. PICK old, call : old = cli[c] /\ call = [cli[c] EXCEPT !.pc = label]
    OBVIOUS
  <2>2. /\ old \in Call /\ cli' = [cli EXCEPT ![c] = call] /\ call.pc = label
        /\ call.cmd = old.cmd /\ call.kept = old.kept /\ call.run = old.run
    <3>1. old \in Call
      BY <2>1 DEF FitInv
    <3>2. cli' = [cli EXCEPT ![c].pc = label]
      BY Zenon, <1>3 DEF Proceed, Goto
    <3>3. cli' = [cli EXCEPT ![c] = call]
      BY <2>1, <3>2
    <3> QED
      BY <2>1, <3>1, <3>3 DEF Call
  <2>3. c \in alone => LoneFits(call)'
    BY <2>1, <2>2, QuietFits DEF LoneInv
  <2> QED
    BY <1>1, <2>2, <2>3, LoneStep
<1> QED
  BY <1>2, <1>3

LEMMA AfterLabels ==
  ASSUME NEW c \in Clis
  PROVE  /\ AfterLegacy(c) \in {"spawn", "end"}
         /\ AfterWait(c) \in {"unlink", "spawn", "end"}
BY DEF AfterLegacy, AfterWait

(* Where Proceed leaves the call. *)
LEMMA ProceedTo ==
  ASSUME FitInv, NEW c \in Clis, NEW t, NEW label, Proceed(c, label, t), label # "end"
  PROVE  cli'[c].pc = label
<1>1. cli' = [cli EXCEPT ![c].pc = label]
  BY Zenon DEF Proceed, Goto
<1> QED
  BY <1>1 DEF FitInv, Call

LEMMA EndsIdle ==
  ASSUME FitInv, NEW c \in Clis, NEW t, Proceed(c, "end", t)
  PROVE  cli'[c].pc = "idle"
<1>1. cli' = [cli EXCEPT ![c] = Idle]
  BY Zenon DEF Proceed
<1> QED
  BY <1>1 DEF FitInv, Idle

LEMMA WaitsLone ==
  ASSUME FitInv, LoneInv, NEW c \in Clis,
         NothingToStop(c) \/ WaitOver(c) \/ Escalate(c)
  PROVE  LoneInv'
<1>1. /\ cli[c].pc \notin {"idle", "archive"}
      /\ UNCHANGED <<log, ghosts>>
  BY DEF NothingToStop, WaitOver, Escalate
<1>2. PICK label : label = AfterWait(c)
  OBVIOUS
<1>3. PICK t \in Tables : Proceed(c, label, t) /\ \A p \in Pids : Older(proc[p], t[p])
  <2>1. CASE NothingToStop(c) \/ WaitOver(c)
    BY <1>2, <2>1, ProcFits DEF NothingToStop, WaitOver, Older
  <2>2. CASE Escalate(c)
    BY <1>2, <2>2, EscalateTable
  <2> QED
    BY <2>1, <2>2
<1>4. Fewer
  BY <1>3, ProceedOlder
<1>5. label \in {"unlink", "spawn", "end"}
  BY <1>2, AfterLabels
<1>6. ASSUME c \in alone, label # "unlink"
      PROVE  AnyRunning' = {}
  <2>1. cli'[c].pc \notin {"unlink", "term2"}
    BY <1>3, <1>5, <1>6, ProceedTo, EndsIdle
  <2> QED
    BY <1>6, <2>1, Cleared
<1> QED
  BY <1>1, <1>3, <1>4, <1>5, <1>6, ProceedLone

LEMMA TerminateLone ==
  ASSUME FitInv, LoneInv, NEW c \in Clis, Terminate(c)
  PROVE  LoneInv'
<1>1. PICK old, call : old = cli[c] /\ call = [cli[c] EXCEPT !.pc = WaitLabel(cli[c].pc)]
  OBVIOUS
<1>2. old \in Call /\ old.pc \in {"term1", "term2"}
  BY <1>1 DEF FitInv, Terminate
<1>3. cli' = [cli EXCEPT ![c] = call]
  BY <1>1 DEF Terminate, Goto
<1>4. /\ call.pc \in {"wait1", "wait2"}
      /\ call.pc = "wait2" => old.pc = "term2"
      /\ call.cmd = old.cmd /\ call.kept = old.kept /\ call.run = old.run
      /\ call.todo = old.todo
  BY <1>1, <1>2 DEF Call, WaitLabel
<1>5. ASSUME NEW p \in Pids
      PROVE  Older(proc[p], proc'[p])
  <2>1. Older(proc[p], Reaped(c)[p]) /\ Reaped(c)[p] \in Process
    BY ReapedOlder, ReapedFits DEF Tables
  <2>2. proc'[p] \in {Reaped(c)[p], [Reaped(c)[p] EXCEPT !.termed = TRUE]}
    BY DEF Terminate
  <2>3. Older(proc[p], [Reaped(c)[p] EXCEPT !.termed = TRUE])
    BY <2>1 DEF Older, Process
  <2> QED
    BY Zenon, <2>1, <2>2, <2>3
<1>6. Fewer
  BY <1>5, OlderFewer
<1>7. ASSUME LoneFits(old)
      PROVE  LoneFits(call)'
  <2>1. RunOnly(old.run) => RunOnly(old.run)'
    BY <1>6 DEF Fewer, RunOnly, Terminate
  <2>2. old.pc = "term2" => AnyRunning' \subseteq call.todo
    <3>1. old.pc = "term2" => AnyRunning \subseteq old.todo
      BY <1>7 DEF LoneFits
    <3>2. AnyRunning' \subseteq AnyRunning
      BY <1>6 DEF Fewer
    <3> QED
      BY <1>4, <3>1, <3>2
  <2> QED
    BY <1>2, <1>4, <1>7, <2>1, <2>2 DEF LoneFits
<1>8. ~overlap => Unique'
  BY <1>6, FewerUnique DEF LoneInv
<1> QED
  BY <1>1, <1>2, <1>3, <1>7, <1>8, LoneStep DEF LoneInv, Terminate

LEMMA UnlinkLone ==
  ASSUME FitInv, LoneInv, NEW c \in Clis, Unlink(c)
  PROVE  LoneInv'
<1>1. Proceed(c, "legacy", proc)
  BY DEF Unlink, Proceed
<1> QED
  BY <1>1, SameFewer, ProceedLone DEF Unlink

LEMMA CollectLegacyLone ==
  ASSUME FitInv, LoneInv, NEW c \in Clis, CollectLegacy(c)
  PROVE  LoneInv'
<1>0. cli[c].pc = "legacy" /\ Reaped(c) \in Tables /\ UNCHANGED <<log, ghosts>>
  BY ReapedFits DEF CollectLegacy
<1>1. CASE AnyRunning = {}
  <2>1. PICK label : label = AfterLegacy(c) /\ Proceed(c, label, Reaped(c))
    BY <1>1 DEF CollectLegacy
  <2>2. Fewer
    BY <1>0, <2>1, ReapedOlder, ProceedOlder
  <2>3. AnyRunning' = {} /\ label # "idle"
    BY <1>1, <2>1, <2>2, AfterLabels DEF Fewer
  <2> QED
    BY <1>0, <2>1, <2>2, <2>3, ProceedLone
<1>2. CASE AnyRunning # {}
  <2>1. PICK old, call : old = cli[c] /\ call = [cli[c] EXCEPT !.todo = AnyRunning, !.pc = "term2"]
    OBVIOUS
  <2>2. old \in Call /\ old.pc = "legacy"
    BY <1>0, <2>1 DEF FitInv
  <2>3. cli' = [cli EXCEPT ![c] = call] /\ proc' = Reaped(c)
    BY <1>2, <2>1 DEF CollectLegacy
  <2>4. /\ call.pc = "term2" /\ call.todo = AnyRunning
        /\ call.cmd = old.cmd /\ call.kept = old.kept /\ call.run = old.run
    BY <2>1, <2>2 DEF Call
  <2>5. Fewer
    BY <2>3, ReapedOlder, OlderFewer
  <2>6. ASSUME LoneFits(old)
        PROVE  LoneFits(call)'
    <3>1. RunOnly(old.run) => RunOnly(old.run)'
      BY <1>0, <2>5 DEF Fewer, RunOnly
    <3>2. AnyRunning' \subseteq call.todo
      BY <2>4, <2>5 DEF Fewer
    <3> QED
      BY <2>2, <2>4, <2>6, <3>1, <3>2 DEF LoneFits
  <2>7. ~overlap => Unique'
    BY <2>5, FewerUnique DEF LoneInv
  <2> QED
    BY <1>0, <2>1, <2>3, <2>6, <2>7, LoneStep DEF LoneInv
<1> QED
  BY <1>1, <1>2

LEMMA ProbeUpLone ==
  ASSUME FitInv, LoneInv, NEW c \in Clis, ProbeUp(c)
  PROVE  LoneInv'
<1>1. PICK old, call :
        /\ old = cli[c]
        /\ call = [cli[c] EXCEPT !.next = @ + 1,
                     !.pc = IF cli[c].next = Len(Order) THEN "truncate" ELSE "spawn"]
  OBVIOUS
<1>2. old \in Call /\ old.pc = "probe"
  BY <1>1 DEF FitInv, ProbeUp
<1>3. cli' = [cli EXCEPT ![c] = call]
  BY <1>1 DEF ProbeUp
<1>4. /\ call.pc \in {"truncate", "spawn"} /\ call.next = old.next + 1
      /\ call.cmd = old.cmd /\ call.kept = old.kept /\ call.run = old.run
  BY <1>1, <1>2 DEF Call
<1>5. Fewer
  BY SameFewer DEF ProbeUp
<1>6. ASSUME LoneFits(old)
      PROVE  LoneFits(call)'
  <2>1. RunOnly(old.run) => RunOnly(old.run)'
    BY <1>5 DEF Fewer, RunOnly, ProbeUp
  <2>2. ASSUME NEW i \in DOMAIN Order, i >= call.next
        PROVE  Running(Order[i])' = {}
    <3>1. i \in Int /\ old.next \in Int
      <4>1. old.next \in 1..(Len(Order) + 1)
        BY <1>2 DEF Call
      <4> QED
        BY <4>1, OrderFacts
    <3>2. i > old.next
      BY <1>4, <2>2, <3>1
    <3>3. Running(Order[i]) = {}
      BY <1>2, <1>6, <3>2 DEF LoneFits
    <3> QED
      BY <1>5, <3>3, OrderFacts DEF Fewer
  <2> QED
    BY <1>2, <1>4, <1>6, <2>1, <2>2 DEF LoneFits
<1>7. ~overlap => Unique'
  BY <1>5, FewerUnique DEF LoneInv
<1> QED
  BY <1>1, <1>2, <1>3, <1>6, <1>7, LoneStep DEF LoneInv, ProbeUp

LEMMA SpawnLone ==
  ASSUME FitInv, LoneInv, NEW c \in Clis, Spawn(c)
  PROVE  LoneInv'
<1>1. PICK old, k : old = cli[c] /\ k = Order[cli[c].next]
  OBVIOUS
<1>2. old \in Call /\ old.pc = "spawn" /\ old.next \in DOMAIN Order /\ k \in Components
  BY <1>1, OrderFacts DEF FitInv, CallFits, Spawn
<1>3. PICK q : q = [who |-> k, st |-> "run", parent |-> c, termed |-> FALSE, run |-> old.run]
  OBVIOUS
<1>4. PICK p \in Pids :
        /\ Reaped(c)[p].st = "free"
        /\ proc' = [Reaped(c) EXCEPT ![p] = q]
        /\ cli' = [cli EXCEPT ![c].started[k] = p, ![c].pc = "probe"]
  BY <1>1, <1>3 DEF Spawn
<1>5. PICK call : call = [old EXCEPT !.started[k] = p, !.pc = "probe"]
  OBVIOUS
<1>6. cli' = [cli EXCEPT ![c] = call]
  BY <1>1, <1>4, <1>5
<1>7. /\ call.pc = "probe" /\ call.next = old.next
      /\ call.cmd = old.cmd /\ call.kept = old.kept /\ call.run = old.run
  BY <1>2, <1>5 DEF Call
<1>8. q.who = k /\ q.run = old.run
  BY <1>3
<1>9. proc'[p] = q /\ \A r \in Pids \ {p} : Older(proc[r], proc'[r])
  <2>1. Reaped(c) \in [Pids -> Process]
    BY ReapedFits DEF Tables
  <2>2. proc'[p] = q /\ \A r \in Pids \ {p} : proc'[r] = Reaped(c)[r]
    BY <1>4, <2>1
  <2> QED
    BY <2>2, ReapedOlder
<1>10. ASSUME NEW j \in Components, NEW r \in Running(j)'
       PROVE  \/ r = p /\ j = k
              \/ r # p /\ r \in Running(j) /\ proc'[r].run = proc[r].run
  <2>1. r \in Pids /\ proc'[r].st = "run" /\ proc'[r].who = j
    BY <1>10 DEF Running
  <2>2. CASE r = p
    BY <1>8, <1>9, <2>1, <2>2
  <2>3. CASE r # p
    <3>1. Older(proc[r], proc'[r]) /\ proc'[r].who # "stranger"
      BY <1>9, <2>1, <2>3, NoComponent
    <3> QED
      BY <2>1, <2>3, <3>1 DEF Older, Running
  <2> QED
    BY <2>2, <2>3
<1>11. ASSUME LoneFits(old)
       PROVE  LoneFits(call)'
  <2>1. ASSUME NEW i \in DOMAIN Order, i > old.next
        PROVE  Running(Order[i])' = {}
    <3>1. i >= old.next /\ i # old.next
      BY <1>2, <2>1, OrderFacts
    <3>2. Order[i] # k /\ Order[i] \in Components
      BY <1>1, <1>2, <3>1, OrderOnce, OrderFacts
    <3>3. Running(Order[i]) = {}
      BY <1>2, <1>11, <3>1 DEF LoneFits
    <3> QED
      BY <1>10, <3>2, <3>3
  <2>2. ASSUME RunOnly(old.run)
        PROVE  RunOnly(old.run)'
    <3>1. ASSUME NEW r \in AnyRunning'
          PROVE  proc'[r].run = old.run
      <4>1. PICK j \in Components : r \in Running(j)'
        BY DEF AnyRunning
      <4>2. CASE r = p
        BY <1>8, <1>9, <4>2
      <4>3. CASE r # p
        <5>1. r \in Running(j) /\ proc'[r].run = proc[r].run
          BY <1>10, <4>1, <4>3
        <5>2. r \in AnyRunning
          BY <5>1 DEF AnyRunning
        <5> QED
          BY <2>2, <5>1, <5>2 DEF RunOnly
      <4> QED
        BY <4>2, <4>3
    <3> QED
      BY <2>2, <3>1 DEF RunOnly, Spawn
  <2>3. old.cmd = "quick" /\ ~old.kept => RunOnly(old.run)
    BY <1>2, <1>11 DEF LoneFits
  <2> QED
    BY <1>7, <2>1, <2>2, <2>3 DEF LoneFits
<1>12. ASSUME ~overlap
       PROVE  Unique'
  <2>1. c \in alone /\ Unique
    BY <1>1, <1>2, <1>12 DEF LoneInv, Active
  <2>2. old.next >= old.next
    BY <1>2, OrderFacts
  <2>3. Running(k) = {}
    BY <1>1, <1>2, <2>1, <2>2 DEF LoneInv, LoneFits
  <2>4. ASSUME NEW j \in Components, NEW r \in Running(j)', NEW u \in Running(j)'
        PROVE  r = u
    BY <1>10, <2>1, <2>3 DEF Unique
  <2> QED
    BY <2>4 DEF Unique
<1> QED
  BY <1>1, <1>2, <1>6, <1>11, <1>12, LoneStep DEF LoneInv, Spawn

LEMMA WriteLone ==
  ASSUME FitInv, LoneInv, NEW c \in Clis, TruncateManifest(c) \/ WriteManifest(c)
  PROVE  LoneInv'
<1>1. CASE TruncateManifest(c)
  <2>1. Proceed(c, "write", proc)
    BY <1>1 DEF TruncateManifest, Proceed
  <2> QED
    BY <1>1, <2>1, SameFewer, ProceedLone DEF TruncateManifest
<1>2. CASE WriteManifest(c)
  <2>1. PICK label \in {"workload", "end"} : Proceed(c, label, proc)
    BY <1>2 DEF WriteManifest
  <2>2. Fewer
    BY <2>1, ProcFits, ProceedOlder DEF Older
  <2> QED
    BY <1>2, <2>1, <2>2, ProceedLone DEF WriteManifest
<1> QED
  BY <1>1, <1>2

LEMMA WorkloadOverLone ==
  ASSUME FitInv, LoneInv, NEW c \in Clis, WorkloadOver(c)
  PROVE  LoneInv'
<1>1. PICK old, call : old = cli[c] /\ call = [cli[c] EXCEPT !.pc = "load", !.phase = "stop"]
  OBVIOUS
<1>2. old \in Call /\ old.pc = "workload"
  BY <1>1 DEF FitInv, WorkloadOver
<1>3. cli' = [cli EXCEPT ![c] = call]
  BY <1>1 DEF WorkloadOver
<1>4. /\ call.pc = "load"
      /\ call.cmd = old.cmd /\ call.kept = old.kept /\ call.run = old.run
  BY <1>1, <1>2 DEF Call
<1>5. Fewer
  BY SameFewer DEF WorkloadOver
<1>6. c \in alone => LoneFits(call)'
  BY <1>1, <1>2, <1>4, <1>5, QuietFits DEF LoneInv, WorkloadOver
<1>7. ~overlap => Unique'
  BY <1>5, FewerUnique DEF LoneInv
<1> QED
  BY <1>1, <1>2, <1>3, <1>6, <1>7, LoneStep DEF WorkloadOver

(* The world starts no component, and logs only for one that runs. *)
LEMMA WorldKeeps ==
  ASSUME LoneInv, Fewer, UNCHANGED <<cli, ghosts>>,
         \A n : RunOnly(n) => RunOnly(n)'
  PROVE  LoneInv'
<1>1. Active' = Active
  BY DEF Active
<1>2. \A i \in DOMAIN Order : Running(Order[i])' \subseteq Running(Order[i])
  BY OrderFacts DEF Fewer
<1>3. ASSUME NEW c \in alone
      PROVE  LoneFits(cli[c])'
  <2>1. PICK call : call = cli[c]
    OBVIOUS
  <2>2. LoneFits(call)
    BY <2>1 DEF LoneInv
  <2>3. LoneFits(call)'
    BY <1>2, <2>2 DEF LoneFits, Fewer
  <2> QED
    BY <2>1, <2>3 DEF LoneFits, RunOnly
<1> QED
  BY <1>1, <1>3, FewerUnique DEF LoneInv, ghosts

LEMMA WorldLone ==
  ASSUME FitInv, LoneInv,
         (\E p \in Pids : Die(p) \/ StrangerTakes(p) \/ WriteEvent(p)) \/ Reboot
  PROVE  LoneInv'
<1>1. ASSUME NEW p \in Pids, Die(p)
      PROVE  LoneInv'
  <2>1. proc[p] \in Process
    BY DEF FitInv
  <2>2. [proc[p] EXCEPT !.st = "zombie"].st # "run"
    BY <2>1 DEF Process
  <2>3. ASSUME NEW r \in Pids
        PROVE  proc'[r] \in {proc[r], Free, [proc[r] EXCEPT !.st = "zombie"]}
               /\ (r # p => proc'[r] = proc[r])
    BY <1>1 DEF Die, FitInv
  <2>4. ASSUME NEW r \in Pids
        PROVE  Older(proc[r], proc'[r])
    <3>1. CASE proc'[r] = proc[r]
      BY <3>1 DEF Older
    <3>2. CASE proc'[r] # proc[r]
      <4>1. r = p /\ proc'[r].st # "run"
        BY Zenon, <2>2, <2>3, <3>2, FreeStill
      <4> QED
        BY <4>1 DEF Older
    <3> QED
      BY <3>1, <3>2
  <2>5. Fewer
    BY <2>4, OlderFewer
  <2> QED
    BY <1>1, <2>5, WorldKeeps DEF Die, Fewer, RunOnly
<1>2. ASSUME NEW p \in Pids, StrangerTakes(p)
      PROVE  LoneInv'
  <2>1. PICK q : q = [Free EXCEPT !.who = "stranger", !.st = "run"]
    OBVIOUS
  <2>2. q.who = "stranger"
    BY <2>1 DEF Free
  <2>3. proc' = [proc EXCEPT ![p] = q]
    BY <1>2, <2>1 DEF StrangerTakes
  <2>4. \A r \in Pids : Older(proc[r], proc'[r])
    BY <2>2, <2>3 DEF Older, FitInv
  <2>5. Fewer
    BY <2>4, OlderFewer
  <2> QED
    BY <1>2, <2>5, WorldKeeps DEF StrangerTakes, Fewer, RunOnly
<1>3. ASSUME NEW p \in Pids, WriteEvent(p)
      PROVE  LoneInv'
  <2>1. Fewer
    BY <1>3, SameFewer DEF WriteEvent
  <2>2. p \in AnyRunning
    BY <1>3 DEF WriteEvent, AnyRunning, Running
  <2>3. ASSUME NEW n, RunOnly(n)
        PROVE  RunOnly(n)'
    <3>1. proc[p].run = n /\ log \subseteq {n}
      BY <2>2, <2>3 DEF RunOnly
    <3>2. log' \subseteq {n}
      BY <1>3, <3>1 DEF WriteEvent
    <3> QED
      BY <2>1, <2>3, <3>2 DEF RunOnly, Fewer
  <2> QED
    BY <1>3, <2>1, <2>3, WorldKeeps DEF WriteEvent
<1>4. CASE Reboot
  <2>1. Active' = {} /\ \A k \in Components : Running(k)' = {}
    BY <1>4 DEF Reboot, Active, Idle, Running, Free
  <2>2. PICK call : call = Idle
    OBVIOUS
  <2>3. LoneFits(call)'
    BY <2>2 DEF LoneFits, Idle
  <2>4. \A c \in alone' : LoneFits(cli[c])'
    <3>1. \A c \in alone' : cli'[c] = call
      BY <1>4, <2>2 DEF Reboot, ghosts, FitInv
    <3> QED
      BY <2>3, <3>1 DEF LoneFits, RunOnly
  <2> QED
    BY <2>1, <2>4 DEF LoneInv, Unique
<1> QED
  BY <1>1, <1>2, <1>3, <1>4

LEMMA LoneInductive ==
  ASSUME FitInv, LoneInv, [Next]_vars
  PROVE  LoneInv'
<1>1. ASSUME NEW c \in Clis, NEW command \in Commands, Begin(c, command)
      PROVE  LoneInv'
  BY <1>1, BeginLone
<1>2. ASSUME NEW c \in Clis, Step(c)
      PROVE  LoneInv'
  <2>1. CASE ReuseStack(c) \/ ProbeDown(c)
    BY <2>1, EndLone DEF ReuseStack, ProbeDown
  <2>2. CASE NothingToStop(c) \/ WaitOver(c) \/ Escalate(c)
    BY <2>2, WaitsLone
  <2> QED
    BY <1>2, <2>1, <2>2, ArchiveLone, LoadLone, TerminateLone, UnlinkLone,
       CollectLegacyLone, SpawnLone, ProbeUpLone, WriteLone DEF Step
<1>3. ASSUME NEW c \in Clis, WorkloadOver(c) \/ KeepRunning(c) \/ Abort(c)
      PROVE  LoneInv'
  BY <1>3, WorkloadOverLone, EndLone DEF KeepRunning, Abort
<1>4. CASE UNCHANGED vars
  BY <1>4, SameFewer, WorldKeeps DEF vars, RunOnly, Fewer
<1> QED
  BY <1>1, <1>2, <1>3, <1>4, WorldLone DEF Next
-----------------------------------------------------------------------------
(* While no two CLIs have been active at once, no component runs twice,     *)
(* whatever crashed, was aborted or rebooted (start_stack).                 *)
THEOREM NoDuplicateComponentCorrect == Spec => []NoDuplicateComponent
<1>1. LoneInv => NoDuplicateComponent
  <2> SUFFICES ASSUME LoneInv, ~overlap, NEW k \in Components
               PROVE  Cardinality(Running(k)) <= 1
    BY DEF NoDuplicateComponent
  <2>1. CASE Running(k) = {}
    BY <2>1, FS_EmptySet
  <2>2. CASE Running(k) # {}
    <3>1. PICK p : p \in Running(k)
      BY <2>2
    <3>2. Running(k) = {p}
      BY <3>1 DEF LoneInv, Unique
    <3>3. Cardinality({p}) = 1
      BY Zenon, FS_Singleton
    <3> QED
      BY <3>2, <3>3
  <2> QED
    BY <2>1, <2>2
<1> QED
  BY <1>1, FitInit, FitInductive, LoneInit, LoneInductive, PTL DEF Spec

(* When the workload of a quick that ran alone begins, the live logs hold   *)
(* only its own events, unless components ran while it archived (quick_run, *)
(* archive_runtime_logs).                                                   *)
THEOREM QuickStartsCleanCorrect == Spec => []QuickStartsClean
<1>1. FitInv /\ LoneInv => QuickStartsClean
  <2> SUFFICES ASSUME FitInv, LoneInv, NEW c \in alone,
                      cli[c].pc = "workload", ~cli[c].kept
               PROVE  log \subseteq {cli[c].run}
    BY DEF QuickStartsClean
  <2>1. cli[c].cmd = "quick"
    BY DEF FitInv, CallFits
  <2> QED
    BY <2>1 DEF LoneInv, LoneFits, RunOnly
<1> QED
  BY <1>1, FitInit, FitInductive, LoneInit, LoneInductive, PTL DEF Spec

(* A stop that no other CLI ran beside leaves no component running: what it *)
(* waited for was all there was (stop_stack, collect_legacy_processes).     *)
THEOREM StopStopsAllCorrect == Spec => StopStopsAll
<1>1. ASSUME FitInv, LoneInv, NEW c \in alone,
             CollectLegacy(c) \/ NothingToStop(c) \/ WaitOver(c) \/ Escalate(c),
             cli'[c].pc = "idle"
      PROVE  AnyRunning' = {}
  BY <1>1, Cleared
<1> DEFINE A == \A c \in alone :
       /\ cli[c].phase = "stop"
       /\ CollectLegacy(c) \/ NothingToStop(c) \/ WaitOver(c) \/ Escalate(c)
       /\ cli'[c].pc = "idle"
       => AnyRunning' = {}
<1>2. FitInv /\ LoneInv /\ [Next]_vars => A
  BY <1>1
<1> HIDE DEF A
<1>3. Spec => [][A]_vars
  BY <1>2, FitInit, FitInductive, LoneInit, LoneInductive, PTL DEF Spec
<1> QED
  BY <1>3 DEF A, StopStopsAll
-----------------------------------------------------------------------------
(* The steps a call has at most before it, up to its end or to the workload *)
(* of quick.                                                                *)
StepsLeft(call) ==
  LET N == Len(Order)
      toStart == N + 1 - call.next
  IN  CASE call.pc \in {"idle", "workload"} -> 0
        [] call.pc = "write"    -> 1
        [] call.pc = "truncate" -> 2
        [] call.pc = "probe"    -> 2 * toStart + 1
        [] call.pc = "spawn"    -> 2 * toStart + 2
        [] call.pc = "wait2"    -> 2 * N + 3
        [] call.pc = "term2"    -> 2 * N + 4
        [] call.pc = "legacy"   -> 2 * N + 5
        [] call.pc = "unlink"   -> 2 * N + 6
        [] call.pc = "wait1"    -> 2 * N + 7
        [] call.pc = "term1"    -> 2 * N + 8
        [] call.pc = "load"     -> 2 * N + 9
        [] call.pc = "archive"  -> 2 * N + 10

(* No command loops: each of its steps leaves it fewer, whatever it finds   *)
(* of processes and manifest and whoever interferes, so that it takes at    *)
(* most 2 * Len(Order) + 10 steps to its end or to the workload of quick    *)
(* (start_stack, stop_stack, terminate_pid_map).                            *)
CommandShortens ==
  /\ [](\A c \in Clis : StepsLeft(cli[c]) \in 0..(2 * Len(Order) + 10))
  /\ [][\A c \in Clis :
          \/ Step(c)
          \/ cli[c].pc \notin {"idle", "workload"} /\ cli'[c] # cli[c]
          => StepsLeft(cli'[c]) < StepsLeft(cli[c])]_vars

LEMMA StepsLeftRange ==
  ASSUME NEW call \in Call, CallFits(call)
  PROVE  /\ StepsLeft(call) \in 0..(2 * Len(Order) + 10)
         /\ call.pc \notin {"idle", "workload"} => StepsLeft(call) > 0
<1> DEFINE N == Len(Order)
<1>1. N \in Nat /\ call.pc \in Labels /\ call.next \in 1..(N + 1)
  BY OrderFacts DEF Call
<1>2. call.pc \in {"spawn", "probe"} => call.next \in 1..N
  BY OrderFacts, Zenon DEF CallFits
<1> HIDE DEF N
<1>3. StepsLeft(call) \in Int
  <2>1. \E k \in Int : StepsLeft(call) = k
    BY <1>1 DEF StepsLeft, Labels, N
  <2>2. QED
    BY <2>1
<1>4. StepsLeft(call) <= 2 * N + 10
  BY <1>1, <1>2 DEF StepsLeft, Labels, N
<1>5. StepsLeft(call) >= 0
  BY <1>1 DEF StepsLeft, Labels, N
<1>6. call.pc \notin {"idle", "workload"} => StepsLeft(call) # 0
  BY <1>1 DEF StepsLeft, Labels, N
<1>7. QED
  BY <1>3, <1>4, <1>5, <1>6, OrderFacts DEF N

LEMMA IdleHasNone == StepsLeft(Idle) = 0
BY DEF StepsLeft, Idle

LEMMA GoneTo ==
  ASSUME FitInv, NEW c \in Clis, NEW label, NEW table, Proceed(c, label, table)
  PROVE  /\ label = "end" => cli'[c] = Idle
         /\ label # "end" => cli'[c].pc = label /\ cli'[c].next = cli[c].next
         /\ \A d \in Clis \ {c} : cli'[d] = cli[d]
BY DEF FitInv, Call, Proceed, Goto

LEMMA OwnStepOnly ==
  ASSUME FitInv, NEW c \in Clis,
         Step(c) \/ WorkloadOver(c) \/ KeepRunning(c) \/ Abort(c)
                 \/ \E command \in Commands : Begin(c, command)
  PROVE  \A d \in Clis \ {c} : cli'[d] = cli[d]
<1>1. cli \in [Clis -> Call]
  BY DEF FitInv
<1>2. CASE \E label, table : Proceed(c, label, table)
  BY <1>2, GoneTo
<1>3. CASE \E label : Goto(c, label)
  BY <1>1, <1>3 DEF Goto
<1>4. CASE Archive(c) \/ Load(c)
  BY <1>1, <1>4 DEF Archive, Load
<1>5. CASE CollectLegacy(c)
  <2>1. CASE AnyRunning = {}
    BY <1>2, <1>5, <2>1 DEF CollectLegacy
  <2>2. CASE AnyRunning # {}
    BY <1>1, <1>5, <2>2 DEF CollectLegacy
  <2>3. QED
    BY <2>1, <2>2
<1>6. CASE Spawn(c)
  BY <1>1, <1>6 DEF Spawn
<1>7. CASE ProbeUp(c)
  BY <1>1, <1>7 DEF ProbeUp
<1>8. CASE WorkloadOver(c) \/ \E command \in Commands : Begin(c, command)
  BY <1>1, <1>8 DEF WorkloadOver, Begin
<1>9. CASE NothingToStop(c) \/ WaitOver(c) \/ WriteManifest(c)
  BY <1>2, <1>9 DEF NothingToStop, WaitOver, WriteManifest
<1>10. CASE Escalate(c)
  BY <1>2, <1>10 DEF Escalate
<1>11. CASE ReuseStack(c) \/ ProbeDown(c) \/ KeepRunning(c) \/ Abort(c)
  BY <1>2, <1>11 DEF ReuseStack, ProbeDown, KeepRunning, Abort, End
<1>12. CASE Terminate(c) \/ Unlink(c) \/ TruncateManifest(c)
  BY <1>3, <1>12 DEF Terminate, Unlink, TruncateManifest
<1>13. QED
  BY <1>4, <1>5, <1>6, <1>7, <1>8, <1>9, <1>10, <1>11, <1>12 DEF Step

LEMMA StepShortens ==
  ASSUME FitInv, NEW c \in Clis, Step(c)
  PROVE  StepsLeft(cli'[c]) < StepsLeft(cli[c])
<1> DEFINE N == Len(Order)
           call == cli[c]
           new == cli'[c]
<1>1. /\ cli \in [Clis -> Call] /\ call \in Call /\ CallFits(call)
      /\ N \in Nat /\ N > 0
  BY OrderFacts DEF FitInv
<1>2. /\ call.next \in 1..(N + 1)
      /\ call.pc \in {"spawn", "probe"} => call.next \in 1..N
      /\ call.phase = "start" /\ call.pc \notin Starting => call.next \in DOMAIN Order
      /\ StepsLeft(call) \in Nat
  <2>1. call.next \in 1..(N + 1)
    BY <1>1 DEF Call
  <2>2. /\ call.pc \in {"spawn", "probe"} => call.next \in 1..N
        /\ call.phase = "start" /\ call.pc \notin Starting => call.next \in DOMAIN Order
    BY <1>1, OrderFacts, Zenon DEF CallFits
  <2>3. StepsLeft(call) \in 0..(2 * N + 10)
    BY <1>1, StepsLeftRange
  <2> HIDE DEF call, N
  <2>4. StepsLeft(call) \in Nat
    BY <1>1, <2>3
  <2>5. QED
    BY <2>1, <2>2, <2>4
(* To the end, from anywhere. *)
<1>3. ASSUME new = Idle, call.pc \notin {"idle", "workload"}
      PROVE  StepsLeft(new) < StepsLeft(call)
  <2>1. StepsLeft(call) > 0
    BY <1>1, <1>3, StepsLeftRange
  <2>2. StepsLeft(new) = 0
    BY <1>3, IdleHasNone
  <2> HIDE DEF new, call
  <2>3. StepsLeft(new) < StepsLeft(call)
    BY <1>2, <2>1, <2>2
  <2>4. QED
    BY <2>3
(* Down the stages that come before the first start. *)
<1>4. ASSUME new.next = call.next,
             \/ call.pc = "archive" /\ new.pc = "load"
             \/ call.pc = "load" /\ new.pc \in {"term1", "legacy"}
             \/ call.pc = "term1" /\ new.pc \in {"wait1", "unlink"}
             \/ call.pc = "wait1" /\ new.pc = "unlink"
             \/ call.pc = "unlink" /\ new.pc = "legacy"
             \/ call.pc = "legacy" /\ new.pc = "term2"
             \/ call.pc = "term2" /\ new.pc = "wait2"
             \/ call.pc = "truncate" /\ new.pc = "write"
             \/ call.pc = "write" /\ new.pc = "workload"
             \/ call.pc = "spawn" /\ new.pc = "probe"
      PROVE  StepsLeft(new) < StepsLeft(call)
  <2> HIDE DEF new, call, N
  <2>1. StepsLeft(new) < StepsLeft(call)
    BY <1>1, <1>2, <1>4 DEF StepsLeft, N
  <2>2. QED
    BY <2>1
(* To the first start. *)
<1>5. ASSUME call.pc \in {"legacy", "term2", "wait2"}, new.pc = "spawn",
             new.next = call.next, call.phase = "start"
      PROVE  StepsLeft(new) < StepsLeft(call)
  <2>1. new.next \in 1..N
    BY <1>1, <1>2, <1>5, OrderFacts DEF Starting
  <2> HIDE DEF new, call, N
  <2>2. QED
    BY <1>1, <1>5, <2>1 DEF StepsLeft, N
(* From one start to the next. *)
<1>6. ASSUME call.pc = "probe", new.next = call.next + 1,
             new.pc = IF call.next = N THEN "truncate" ELSE "spawn"
      PROVE  StepsLeft(new) < StepsLeft(call)
  <2> HIDE DEF new, call, N
  <2>1. CASE call.next = N
    BY <1>1, <1>2, <1>6, <2>1 DEF StepsLeft, N
  <2>2. CASE call.next # N
    BY <1>1, <1>2, <1>6, <2>2 DEF StepsLeft, N
  <2>3. QED
    BY <2>1, <2>2
<1>7. ASSUME NEW label, NEW table, Proceed(c, label, table),
             \/ call.pc \in {"term1", "term2", "wait1", "wait2"} /\ label = AfterWait(c)
             \/ call.pc = "legacy" /\ label = AfterLegacy(c)
             \/ call.pc \notin {"idle", "workload"} /\ label = "end"
             \/ call.pc = "write" /\ label = "workload"
      PROVE  StepsLeft(new) < StepsLeft(call)
  <2>1. CASE label = "end"
    <3>1. call.pc \notin {"idle", "workload"}
      BY <1>7
    <3>2. QED
      BY <1>3, <1>7, <2>1, <3>1, GoneTo
  <2>2. CASE label # "end"
    <3>1. new.pc = label /\ new.next = call.next
      BY <1>7, <2>2, GoneTo
    <3>2. \/ call.pc \in {"term1", "wait1"} /\ label = "unlink"
          \/ /\ call.pc \in {"legacy", "term2", "wait2"}
             /\ label = "spawn" /\ call.phase = "start"
          \/ call.pc = "write" /\ label = "workload"
      BY <1>7, <2>2 DEF AfterWait, AfterLegacy
    <3>3. QED
      BY <1>4, <1>5, <3>1, <3>2
  <2>3. QED
    BY <2>1, <2>2
<1>8. CASE Archive(c)
  <2>1. call.pc = "archive" /\ new.pc = "load" /\ new.next = call.next
    BY <1>1, <1>8 DEF Archive, Call
  <2>2. QED
    BY <1>4, <2>1
<1>9. CASE Load(c)
  <2>1. call.pc = "load" /\ new.pc \in {"term1", "legacy"} /\ new.next = call.next
    BY <1>1, <1>9 DEF Load, Call
  <2>2. QED
    BY <1>4, <2>1
<1>10. CASE ReuseStack(c) \/ ProbeDown(c)
  <2>1. Proceed(c, "end", proc) /\ call.pc \notin {"idle", "workload"}
    BY <1>10 DEF ReuseStack, ProbeDown, End
  <2>2. QED
    BY <1>7, <2>1
<1>11. CASE NothingToStop(c) \/ WaitOver(c)
  <2>1. /\ Proceed(c, AfterWait(c), proc)
        /\ call.pc \in {"term1", "term2", "wait1", "wait2"}
    BY <1>11 DEF NothingToStop, WaitOver
  <2>2. QED
    BY <1>7, <2>1
<1>12. CASE Escalate(c)
  <2>1. PICK table : /\ Proceed(c, AfterWait(c), table)
                     /\ call.pc \in {"wait1", "wait2"}
    BY <1>12 DEF Escalate
  <2>2. QED
    BY <1>7, <2>1
<1>13. CASE Terminate(c)
  <2>1. /\ call.pc \in {"term1", "term2"} /\ new.next = call.next
        /\ new.pc = WaitLabel(call.pc)
    BY <1>1, <1>13 DEF Terminate, Goto, Call
  <2>2. QED
    BY <1>4, <2>1 DEF WaitLabel
<1>14. CASE Unlink(c) \/ TruncateManifest(c)
  <2>1. /\ new.next = call.next
        /\ \/ call.pc = "unlink" /\ new.pc = "legacy"
           \/ call.pc = "truncate" /\ new.pc = "write"
    BY <1>1, <1>14 DEF Unlink, TruncateManifest, Goto, Call
  <2>2. QED
    BY <1>4, <2>1
<1>15. CASE CollectLegacy(c)
  <2>1. CASE AnyRunning = {}
    <3>1. Proceed(c, AfterLegacy(c), Reaped(c)) /\ call.pc = "legacy"
      BY <1>15, <2>1 DEF CollectLegacy
    <3>2. QED
      BY <1>7, <3>1
  <2>2. CASE AnyRunning # {}
    <3>1. call.pc = "legacy" /\ new.pc = "term2" /\ new.next = call.next
      BY <1>1, <1>15, <2>2 DEF CollectLegacy, Call
    <3>2. QED
      BY <1>4, <3>1
  <2>3. QED
    BY <2>1, <2>2
<1>16. CASE Spawn(c)
  <2>1. call.pc = "spawn" /\ new.pc = "probe" /\ new.next = call.next
    BY <1>1, <1>16 DEF Spawn, Call
  <2>2. QED
    BY <1>4, <2>1
<1>17. CASE ProbeUp(c)
  <2>1. /\ call.pc = "probe" /\ new.next = call.next + 1
        /\ new.pc = IF call.next = N THEN "truncate" ELSE "spawn"
    BY <1>1, <1>17 DEF ProbeUp, Call
  <2>2. QED
    BY <1>6, <2>1
<1>18. CASE WriteManifest(c)
  <2>1. /\ call.pc = "write"
        /\ Proceed(c, IF call.cmd = "quick" THEN "workload" ELSE "end", proc)
    BY <1>18 DEF WriteManifest
  <2>2. QED
    BY <1>7, <2>1
<1>19. QED
  BY <1>8, <1>9, <1>10, <1>11, <1>12, <1>13, <1>14, <1>15, <1>16, <1>17, <1>18
     DEF Step

(* What changes a call that is under way shortens it: a step of its own, or *)
(* its end.                                                                 *)
LEMMA ChangeShortens ==
  ASSUME FitInv, NEW c \in Clis, [Next]_vars,
         cli[c].pc \notin {"idle", "workload"}, cli'[c] # cli[c]
  PROVE  StepsLeft(cli'[c]) < StepsLeft(cli[c])
<1>1. cli[c] \in Call /\ CallFits(cli[c]) /\ StepsLeft(cli[c]) > 0
      /\ StepsLeft(cli[c]) \in Nat
  BY StepsLeftRange DEF FitInv
<1>2. ~UNCHANGED cli
  OBVIOUS
<1>3. ASSUME NEW d \in Clis,
             Step(d) \/ WorkloadOver(d) \/ KeepRunning(d) \/ Abort(d)
                     \/ \E command \in Commands : Begin(d, command)
      PROVE  StepsLeft(cli'[c]) < StepsLeft(cli[c])
  <2>1. d = c
    BY <1>3, OwnStepOnly
  <2>2. Step(c) \/ Abort(c)
    BY <1>3, <2>1 DEF WorkloadOver, KeepRunning, Begin
  <2>3. Abort(c) => cli'[c] = Idle
    BY GoneTo DEF Abort, End
  <2>4. QED
    BY <1>1, <2>2, <2>3, StepShortens, IdleHasNone
<1>4. CASE Reboot
  <2>1. cli'[c] = Idle
    BY <1>4 DEF Reboot
  <2>2. QED
    BY <1>1, <2>1, IdleHasNone
<1>5. ~\E p \in Pids : Die(p) \/ StrangerTakes(p) \/ WriteEvent(p)
  BY <1>2 DEF Die, StrangerTakes, WriteEvent
<1>6. QED
  BY <1>2, <1>3, <1>4, <1>5 DEF Next, vars

(* No command loops, for every set of components, CLIs and PIDs.            *)
THEOREM CommandShortensCorrect == Spec => CommandShortens
<1> DEFINE B == \A c \in Clis : StepsLeft(cli[c]) \in 0..(2 * Len(Order) + 10)
           A == \A c \in Clis :
                  \/ Step(c)
                  \/ cli[c].pc \notin {"idle", "workload"} /\ cli'[c] # cli[c]
                  => StepsLeft(cli'[c]) < StepsLeft(cli[c])
<1>1. FitInv => B
  BY StepsLeftRange DEF FitInv
<1>2. FitInv /\ [Next]_vars => A
  BY StepShortens, ChangeShortens
<1> HIDE DEF A, B
<1>3. Spec => []B /\ [][A]_vars
  BY <1>1, <1>2, FitInit, FitInductive, PTL DEF Spec
<1>4. QED
  BY <1>3 DEF A, B, CommandShortens
=============================================================================
