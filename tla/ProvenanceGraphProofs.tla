----------------------- MODULE ProvenanceGraphProofs -----------------------
(***************************************************************************)
(* What the provenance graph keeps for any number of PIDs, processes,      *)
(* execs and events: the events of one image are on one node, two images   *)
(* share a node only when a PID was reused without an exec, and without    *)
(* such sharing every process lies below a root.                           *)
(***************************************************************************)
EXTENDS ProvenanceGraph, FiniteSetTheorems, FunctionTheorems,
        WellFoundedInduction, TLAPS

LEMMA NoneIsNoNode == None \notin Node
BY GraphAssumption DEF None, Node

LEMMA SubjectType ==
  ASSUME TypeOK, NEW p \in Pids, NEW action
  PROVE  Subject(p, action) \in Node /\ Fresh(p) \in Node
BY DEF TypeOK, Subject, Fresh, Rotates, Known, Node

LEMMA PutSubjectType ==
  ASSUME TypeOK, NEW p \in Pids, NEW action, PutSubject(p, action)
  PROVE  /\ instance' \in [Pids -> Node \cup {None}]
         /\ births' \in [Pids -> Nat]
BY SubjectType DEF TypeOK, PutSubject

LEMMA StandsForType ==
  ASSUME NEW S \in SUBSET Pids, NEW inst \in [Pids -> Node \cup {None}],
         NEW lf \in [Pids -> Nat]
  PROVE  StandsFor(S, inst, lf) \subseteq Node \X Nat
BY DEF StandsFor

LEMMA LineageType ==
  ASSUME TypeOK, NEW p \in Pids, NEW pp, NEW action
  PROVE  \A e \in Lineage(p, pp, action) : e[1] \in Node /\ e[2] \in Node
BY SubjectType DEF TypeOK, Lineage, Known

(* One event keeps the graph and the histories in their types. *)
GraphTypeOK ==
  /\ seen \in 0..MaxEvents
  /\ instance \in [Pids -> Node \cup {None}]
  /\ births \in [Pids -> Nat]
  /\ \A e \in edges : e[1] \in Node /\ e[2] \in Node \cup Objects
  /\ touched \subseteq Image \X Node
  /\ stands \subseteq Node \X Nat
  /\ did \subseteq Image \X Objects

LEMMA CountedType == TypeOK /\ Counted => seen' \in 0..MaxEvents
BY GraphAssumption DEF TypeOK, Counted

LEMMA ProcessEventType ==
  ASSUME TypeOK, NEW p \in Pids, NEW pp, NEW action,
         NEW lf \in [Pids -> Nat], NEW ex \in [Pids -> Nat],
         ProcessEvent(p, pp, action, lf, ex)
  PROVE  GraphTypeOK'
<1>1. instance' \in [Pids -> Node \cup {None}] /\ births' \in [Pids -> Nat]
  BY PutSubjectType DEF ProcessEvent
<1>2. StandsFor({p, pp} \cap Pids, instance', lf) \subseteq Node \X Nat
  BY <1>1, StandsForType
<1>3. <<<<lf[p], ex[p]>>, Subject(p, action)>> \in Image \X Node
  BY SubjectType DEF Image
<1>4. \A e \in edges' : e[1] \in Node /\ e[2] \in Node \cup Objects
  BY LineageType DEF ProcessEvent, TypeOK
<1>5. touched' \subseteq Image \X Node
  BY <1>3 DEF ProcessEvent, TypeOK
<1>6. stands' \subseteq Node \X Nat
  BY <1>2 DEF ProcessEvent, TypeOK
<1>7. did' \subseteq Image \X Objects /\ seen' \in 0..MaxEvents
  BY CountedType DEF ProcessEvent, TypeOK
<1>8. QED
  BY <1>1, <1>4, <1>5, <1>6, <1>7 DEF GraphTypeOK

(* A fork and the start of a thread make a task of some process. *)
LEMMA BornIsNewTask ==
  ASSUME TypeOK, NEW c \in Pids, NEW pp \in Pids \cup {0},
         Fork(c, pp) \/ StartThread(c, pp)
  PROVE  /\ pp \in {0} \cup Live
         /\ \E of \in Pids, up \in Pids \cup {0} : NewTask(c, pp, of, up)
<1>1. CASE Fork(c, pp)
  <2>1. (IF pp = 0 THEN 0 ELSE leader[pp]) \in Pids \cup {0}
    BY DEF TypeOK
  <2>2. QED
    BY <1>1, <2>1 DEF Fork
<1>2. CASE StartThread(c, pp)
  <2>1. pp \in Live /\ pp \in Pids
    BY <1>2 DEF StartThread, Live
  <2>2. leader[pp] \in Pids /\ parent[leader[pp]] \in Pids \cup {0}
    BY <2>1 DEF TypeOK
  <2>3. QED
    BY <1>2, <2>1, <2>2 DEF StartThread
<1>3. QED
  BY <1>1, <1>2

LEMMA LeaveType ==
  ASSUME TypeOK, NEW p \in Pids, Leave(p)
  PROVE  /\ life' \in [Pids -> Nat] /\ leader' \in [Pids -> Pids]
         /\ parent' \in [Pids -> Pids \cup {0}]
<1>1. PICK reaper \in {0} \cup Ancestors(p) :
        parent' = [q \in Pids |-> IF q = p THEN 0
                                  ELSE IF parent[q] = p THEN reaper
                                  ELSE parent[q]]
  BY DEF Leave
<1>2. reaper \in Pids \cup {0}
  BY <1>1 DEF Ancestors
<1>3. parent' \in [Pids -> Pids \cup {0}]
  BY <1>1, <1>2 DEF TypeOK
<1>4. QED
  BY <1>3 DEF Leave, TypeOK

LEMMA TypeInductive == TypeOK /\ [Next]_vars => TypeOK'
<1> SUFFICES ASSUME TypeOK, [Next]_vars
             PROVE  TypeOK'
  OBVIOUS
<1>a. \A p \in Pids : ImageOf(p) \in Image
  BY DEF TypeOK, ImageOf, Image
<1>1. CASE OpenWindow
  BY <1>1 DEF OpenWindow, TypeOK, host, graph, history
<1>2. ASSUME NEW c \in Pids, NEW pp \in Pids \cup {0},
             Fork(c, pp) \/ StartThread(c, pp)
      PROVE  TypeOK'
  <2>0. PICK of \in Pids, up \in Pids \cup {0} : NewTask(c, pp, of, up)
    BY <1>2, BornIsNewTask
  <2>1. /\ life' \in [Pids -> Nat] /\ execs' \in [Pids -> Nat]
        /\ leader' \in [Pids -> Pids]
        /\ parent' \in [Pids -> Pids \cup {0}] /\ lives' \in Nat
        /\ observing' \in BOOLEAN
    BY <2>0 DEF NewTask, TypeOK
  <2>2. GraphTypeOK'
    <3>1. CASE observing
      BY <2>0, <2>1, <3>1, ProcessEventType DEF NewTask
    <3>2. CASE ~observing
      BY <2>0, <3>2 DEF NewTask, Unseen, graph, history, TypeOK, GraphTypeOK
    <3>3. QED
      BY <3>1, <3>2
  <2>3. QED
    BY <2>1, <2>2 DEF TypeOK, GraphTypeOK
<1>3. ASSUME NEW p \in Pids, Exec(p)
      PROVE  TypeOK'
  <2>1. /\ life \in [Pids -> Nat] /\ execs' \in [Pids -> Nat]
        /\ life' = life /\ leader' = leader /\ parent' = parent
        /\ lives' = lives /\ observing' = observing
    BY <1>3 DEF Exec, TypeOK
  <2>2. GraphTypeOK'
    <3>1. CASE observing
      BY <1>3, <2>1, <3>1, ProcessEventType DEF Exec
    <3>2. CASE ~observing
      BY <1>3, <3>2 DEF Exec, Unseen, graph, history, TypeOK, GraphTypeOK
    <3>3. QED
      BY <3>1, <3>2
  <2>3. QED
    BY <2>1, <2>2 DEF TypeOK, GraphTypeOK
<1>4. ASSUME NEW p \in Pids, Exit(p) \/ LeaveUnseen(p)
      PROVE  TypeOK'
  <2>1. execs' = execs /\ lives' = lives /\ observing' = observing
    BY <1>4 DEF Exit, LeaveUnseen
  <2>2. /\ life' \in [Pids -> Nat] /\ leader' \in [Pids -> Pids]
        /\ parent' \in [Pids -> Pids \cup {0}]
    BY <1>4, LeaveType DEF Exit, LeaveUnseen, TypeOK
  <2>3. GraphTypeOK'
    <3>1. CASE observing /\ Exit(p)
      <4>1. life \in [Pids -> Nat] /\ execs \in [Pids -> Nat]
        BY DEF TypeOK
      <4>2. QED
        BY <3>1, <4>1, ProcessEventType DEF Exit
    <3>2. CASE Unseen
      BY <3>2 DEF Unseen, graph, history, TypeOK, GraphTypeOK
    <3>3. QED
      BY <1>4, <3>1, <3>2 DEF Exit, LeaveUnseen
  <2>4. QED
    BY <2>1, <2>2, <2>3 DEF TypeOK, GraphTypeOK
<1>5. ASSUME NEW p \in Pids, ActOnNothing(p) \/ \E o \in Objects : Act(p, o)
      PROVE  TypeOK'
  <2>0. UNCHANGED <<host, observing>> /\ PutSubject(p, "act") /\ Counted
    BY <1>5 DEF Act, ActOnNothing
  <2>1. instance' \in [Pids -> Node \cup {None}] /\ births' \in [Pids -> Nat]
    BY <2>0, PutSubjectType
  <2>2. StandsFor({p}, instance', life) \subseteq Node \X Nat
    BY <2>1, StandsForType DEF TypeOK
  <2>3. stands' \subseteq Node \X Nat
    BY <1>5, <2>2 DEF Act, ActOnNothing, TypeOK
  <2>4. touched' \subseteq Image \X Node
    BY <1>5, <1>a, SubjectType DEF Act, ActOnNothing, TypeOK
  <2>5. \A e \in edges' : e[1] \in Node /\ e[2] \in Node \cup Objects
    BY <1>5, SubjectType DEF Act, ActOnNothing, TypeOK
  <2>6. did' \subseteq Image \X Objects
    BY <1>5, <1>a DEF Act, ActOnNothing, TypeOK
  <2>7. seen' \in 0..MaxEvents
    BY <2>0, CountedType
  <2>8. QED
    BY <2>0, <2>1, <2>3, <2>4, <2>5, <2>6, <2>7 DEF TypeOK, host
<1>6. ASSUME NEW p \in Pids, NEW t \in Pids, VmWritev(p, t)
      PROVE  TypeOK'
  <2>0. UNCHANGED <<host, observing, did>> /\ Counted
    BY <1>6 DEF VmWritev
  <2>a. Subject(p, "act") \in Node /\ Subject(t, "act") \in Node
    BY SubjectType
  <2>1. instance' \in [Pids -> Node \cup {None}] /\ births' \in [Pids -> Nat]
    BY <1>6, <2>a DEF VmWritev, TypeOK
  <2>2. StandsFor({p, t}, instance', life) \subseteq Node \X Nat
    BY <2>1, StandsForType DEF TypeOK
  <2>3. stands' \subseteq Node \X Nat
    BY <1>6, <2>2 DEF VmWritev, TypeOK
  <2>4. touched' \subseteq Image \X Node
    BY <1>6, <1>a, <2>a DEF VmWritev, TypeOK
  <2>5. \A e \in edges' : e[1] \in Node /\ e[2] \in Node \cup Objects
    BY <1>6, <2>a DEF VmWritev, TypeOK
  <2>6. seen' \in 0..MaxEvents
    BY <2>0, CountedType
  <2>7. QED
    BY <2>0, <2>1, <2>3, <2>4, <2>5, <2>6 DEF TypeOK, host
<1>7. CASE UNCHANGED vars
  BY <1>7 DEF vars, host, session, graph, history, TypeOK
<1>8. QED
  BY <1>1, <1>2, <1>3, <1>4, <1>5, <1>6, <1>7 DEF Next

LEMMA TypeInit == Init => TypeOK
<1> SUFFICES ASSUME Init
             PROVE  TypeOK
  OBVIOUS
<1>1. seen \in 0..MaxEvents
  BY GraphAssumption DEF Init
<1>2. touched \subseteq Image \X Node /\ stands \subseteq Node \X Nat
      /\ did \subseteq Image \X Objects
  BY DEF Init
<1>3. QED
  BY <1>1, <1>2 DEF Init, TypeOK

(* Every variable of host and graph keeps its type. *)
THEOREM TypeCorrect == Spec => []TypeOK
BY TypeInit, TypeInductive, PTL DEF Spec
-----------------------------------------------------------------------------
(* The parts of the inductive invariant, of any host and graph.             *)

(* A process holds one PID. *)
OneHolder(lf, lv) ==
  \A p, q \in Pids : lf[p] <= lv /\ (lf[p] # 0 /\ lf[p] = lf[q] => p = q)

(* An instance is one of those made for its PID. *)
InstanceMade(inst, br) ==
  \A p \in Pids : inst[p] # None => inst[p][1] = p /\ inst[p][2] <= br[p]

(* An image that has an event put on a node is of a process that has been   *)
(* born, and the node has been made for its PID.                            *)
TouchedMade(lv, br, T) ==
  \A a \in T : a[1][1] \in 1..lv /\ a[2][2] <= br[a[2][1]]

(* Of the process that holds a PID: its events are on nodes of that PID,    *)
(* its earlier images exec'ed less often, and its present one is on the     *)
(* present instance.                                                        *)
HolderTouched(lf, ex, inst, T) ==
  \A a \in T, p \in Pids :
    lf[p] # 0 /\ a[1][1] = lf[p] =>
      /\ a[2][1] = p /\ a[1][2] <= ex[p]
      /\ a[1][2] = ex[p] => a[2] = inst[p]

(* No later process than its holder has had an event on a node of a PID. *)
HolderLatest(lf, T) ==
  \A a \in T, p \in Pids : lf[p] # 0 /\ a[2][1] = p => a[1][1] <= lf[p]

(* The node of an image that has exec'ed is its own. *)
ExecedAlone(lf, ex, inst, T) ==
  \A a \in T, p \in Pids :
    lf[p] # 0 /\ ex[p] > 0 /\ a[2] = inst[p] => a[1] = <<lf[p], ex[p]>>

OneNode(T) == \A a, b \in T : a[1] = b[1] => a[2] = b[2]

SharedByReuse(T) ==
  \A a, b \in T :
    a[2] = b[2] /\ a[1] # b[1] =>
      a[1][1] # b[1][1] /\ (a[1][1] < b[1][1] => b[1][2] = 0)

Holds(lf, ex, lv, inst, br, T) ==
  /\ OneHolder(lf, lv) /\ InstanceMade(inst, br) /\ TouchedMade(lv, br, T)
  /\ HolderTouched(lf, ex, inst, T) /\ HolderLatest(lf, T)
  /\ ExecedAlone(lf, ex, inst, T)
  /\ OneNode(T) /\ SharedByReuse(T)

(* Nothing is known of the time before the window. *)
NothingBefore ==
  ~observing => touched = {} /\ instance = [p \in Pids |-> None]

GraphInv ==
  /\ TypeOK
  /\ NothingBefore
  /\ Holds(life, execs, lives, instance, births, touched)

LEMMA GraphInvInit == Init => GraphInv
BY TypeInit DEF Init, GraphInv, Holds, OneHolder, InstanceMade, TouchedMade,
   HolderTouched, HolderLatest, ExecedAlone, NothingBefore, OneNode,
   SharedByReuse

(* The three ways an event finds its process: as it was, with one more      *)
(* exec, or just born.                                                      *)
SameImage(p, lf, ex, lv) ==
  life[p] # 0 /\ lf = life /\ ex = execs /\ lv = lives
NextImage(p, lf, ex, lv) ==
  life[p] # 0 /\ lf = life /\ lv = lives /\ ex = [execs EXCEPT ![p] = @ + 1]
NewProcess(p, lf, ex, lv) ==
  /\ life[p] = 0 /\ lv = lives + 1
  /\ lf = [life EXCEPT ![p] = lives + 1] /\ ex = [execs EXCEPT ![p] = 0]

(* One event of the image <<lf[p], ex[p]>>, put on the node inst[p]. *)
LEMMA Attributed ==
  ASSUME GraphInv, NEW p \in Pids, NEW lf, NEW ex, NEW lv \in Nat,
         NEW inst \in [Pids -> Node \cup {None}], NEW br \in [Pids -> Nat],
         NEW T,
         \/ SameImage(p, lf, ex, lv) /\ (inst[p] = Fresh(p) \/ inst[p] = instance[p])
         \/ NextImage(p, lf, ex, lv) /\ inst[p] = Fresh(p)
         \/ NewProcess(p, lf, ex, lv) /\ (inst[p] = Fresh(p) \/ inst[p] = instance[p]),
         inst[p] # None,
         instance[p] # None /\ ~NextImage(p, lf, ex, lv) => inst[p] = instance[p],
         \A q \in Pids :
           /\ br[q] >= births[q]
           /\ inst[q] = instance[q] \/ (inst[q] = Fresh(q) /\ br[q] = births[q] + 1),
         \A q \in Pids \ {p} : inst[q] # instance[q] => instance[q] = None,
         T = touched \cup {<<<<lf[p], ex[p]>>, inst[p]>>}
  PROVE  Holds(lf, ex, lv, inst, br, T)
<1> DEFINE new == <<<<lf[p], ex[p]>>, inst[p]>>
<1>1. /\ life \in [Pids -> Nat] /\ execs \in [Pids -> Nat] /\ lives \in Nat
      /\ instance \in [Pids -> Node \cup {None}] /\ births \in [Pids -> Nat]
      /\ touched \subseteq Image \X Node
  BY DEF GraphInv, TypeOK
<1>a. SameImage(p, lf, ex, lv) \/ NewProcess(p, lf, ex, lv)
        => ~NextImage(p, lf, ex, lv)
  BY <1>1 DEF SameImage, NextImage, NewProcess
<1>2. /\ lf \in [Pids -> Nat] /\ ex \in [Pids -> Nat] /\ lf[p] # 0
      /\ lv >= lives /\ lf[p] <= lv
      /\ \A q \in Pids \ {p} : lf[q] = life[q] /\ ex[q] = execs[q]
  BY <1>1 DEF SameImage, NextImage, NewProcess, GraphInv, Holds, OneHolder
<1>3. \A a \in touched :
        /\ a[1][1] \in Nat /\ a[1][2] \in Nat /\ a[1] = <<a[1][1], a[1][2]>>
        /\ a[2][1] \in Pids /\ a[2][2] \in Nat /\ a[2] = <<a[2][1], a[2][2]>>
        /\ a[2] # None
  BY <1>1, NoneIsNoNode DEF Image, Node
<1>4. \A a \in T : a \in touched \/ a = new
  OBVIOUS
<1>5. new[1] = <<lf[p], ex[p]>> /\ new[2] = inst[p] /\ new[1][1] = lf[p]
      /\ new[1][2] = ex[p]
  OBVIOUS
<1>6. inst[p][1] = p /\ inst[p][2] <= br[p] /\ inst[p] = <<p, inst[p][2]>>
  BY <1>1 DEF GraphInv, Holds, InstanceMade, Fresh, Node, None
<1>7. \A a \in touched, q \in Pids : a[2] # Fresh(q)
  BY <1>1, <1>3 DEF GraphInv, Holds, TouchedMade, Fresh
<1>8. OneHolder(lf, lv)
  BY <1>1, <1>2 DEF SameImage, NextImage, NewProcess, GraphInv, Holds, OneHolder
<1>9. InstanceMade(inst, br)
  <2> SUFFICES ASSUME NEW q \in Pids, inst[q] # None
               PROVE  inst[q][1] = q /\ inst[q][2] <= br[q]
    BY DEF InstanceMade
  <2>1. CASE inst[q] = instance[q]
    <3>1. inst[q][1] = q /\ inst[q][2] <= births[q]
      BY <2>1 DEF GraphInv, Holds, InstanceMade
    <3>2. inst[q][2] \in Nat
      BY DEF Node, None
    <3>3. QED
      BY <1>1, <3>1, <3>2
  <2>2. CASE inst[q] = Fresh(q) /\ br[q] = births[q] + 1
    BY <2>2, <1>1 DEF Fresh
  <2>3. QED
    BY <2>1, <2>2
<1>10. TouchedMade(lv, br, T)
  <2>1. ASSUME NEW a \in touched
        PROVE  a[1][1] \in 1..lv /\ a[2][2] <= br[a[2][1]]
    BY <1>1, <1>2, <1>3 DEF GraphInv, Holds, TouchedMade
  <2>2. new[1][1] \in 1..lv /\ new[2][2] <= br[new[2][1]]
    BY <1>2, <1>6
  <2>3. QED
    BY <1>4, <2>1, <2>2 DEF TouchedMade
<1>11. \A a \in touched : a[1][1] = lf[p] =>
         /\ a[2][1] = p /\ a[1][2] <= ex[p]
         /\ a[1][2] = ex[p] => a[2] = inst[p]
  <2> SUFFICES ASSUME NEW a \in touched, a[1][1] = lf[p]
               PROVE  /\ a[2][1] = p /\ a[1][2] <= ex[p]
                      /\ a[1][2] = ex[p] => a[2] = inst[p]
    OBVIOUS
  <2>1. ~NewProcess(p, lf, ex, lv)
    BY <1>1, <1>3 DEF NewProcess, GraphInv, Holds, TouchedMade
  <2>2. life[p] # 0 /\ lf = life
    BY <2>1 DEF SameImage, NextImage
  <2>3. /\ a[2][1] = p /\ a[1][2] <= execs[p]
        /\ a[1][2] = execs[p] => a[2] = instance[p]
    BY <2>2 DEF GraphInv, Holds, HolderTouched
  <2>4. CASE SameImage(p, lf, ex, lv)
    BY <2>3, <2>4, <1>3, <1>a DEF SameImage
  <2>5. CASE NextImage(p, lf, ex, lv)
    BY <2>3, <2>5, <1>1, <1>3 DEF NextImage
  <2>6. QED
    BY <2>1, <2>4, <2>5
<1>12. \A a \in touched, q \in Pids \ {p} : lf[q] # 0 /\ a[1][1] = lf[q] =>
         /\ a[2][1] = q /\ a[1][2] <= ex[q]
         /\ a[1][2] = ex[q] => a[2] = inst[q]
  BY <1>2, <1>3 DEF GraphInv, Holds, HolderTouched
<1>13. HolderTouched(lf, ex, inst, T)
  <2> SUFFICES ASSUME NEW a \in T, NEW q \in Pids, lf[q] # 0, a[1][1] = lf[q]
               PROVE  /\ a[2][1] = q /\ a[1][2] <= ex[q]
                      /\ a[1][2] = ex[q] => a[2] = inst[q]
    BY DEF HolderTouched
  <2>1. CASE a \in touched
    BY <2>1, <1>11, <1>12
  <2>2. CASE a = new
    <3>1. q = p
      BY <2>2, <1>2, <1>5, <1>8 DEF OneHolder
    <3>2. QED
      BY <2>2, <3>1, <1>2, <1>5, <1>6
  <2>3. QED
    BY <1>4, <2>1, <2>2
<1>14. \A a \in touched : a[2][1] = p => a[1][1] <= lf[p]
  BY <1>1, <1>2, <1>3
  DEF SameImage, NextImage, NewProcess, GraphInv, Holds, HolderLatest, TouchedMade
<1>15. HolderLatest(lf, T)
  <2> SUFFICES ASSUME NEW a \in T, NEW q \in Pids, lf[q] # 0, a[2][1] = q
               PROVE  a[1][1] <= lf[q]
    BY DEF HolderLatest
  <2>1. CASE a \in touched
    BY <2>1, <1>2, <1>14 DEF GraphInv, Holds, HolderLatest
  <2>2. CASE a = new
    BY <2>2, <1>2, <1>5, <1>6
  <2>3. QED
    BY <1>4, <2>1, <2>2
<1>16. ASSUME NEW a \in touched, a[2] = inst[p]
       PROVE  inst[p] = instance[p] /\ ~NextImage(p, lf, ex, lv)
              /\ (ex[p] > 0 => a[1] = <<lf[p], ex[p]>>)
  <2>1. inst[p] # Fresh(p)
    BY <1>7, <1>16
  <2>2. inst[p] = instance[p] /\ ~NextImage(p, lf, ex, lv)
    BY <2>1, <1>a
  <2>3. CASE SameImage(p, lf, ex, lv)
    BY <2>2, <2>3, <1>16 DEF SameImage, GraphInv, Holds, ExecedAlone
  <2>4. CASE NewProcess(p, lf, ex, lv)
    BY <2>2, <2>4, <1>1 DEF NewProcess
  <2>5. QED
    BY <2>2, <2>3, <2>4
<1>17. ExecedAlone(lf, ex, inst, T)
  <2> SUFFICES ASSUME NEW a \in T, NEW q \in Pids,
                      lf[q] # 0, ex[q] > 0, a[2] = inst[q]
               PROVE  a[1] = <<lf[q], ex[q]>>
    BY DEF ExecedAlone
  <2>1. CASE a \in touched /\ q # p
    <3>1. inst[q] = instance[q]
      BY <2>1, <1>7
    <3>2. QED
      BY <2>1, <3>1, <1>2 DEF GraphInv, Holds, ExecedAlone
  <2>2. CASE a \in touched /\ q = p
    BY <2>2, <1>16
  <2>3. CASE a = new
    <3>1. q = p
      BY <2>3, <1>5, <1>6, <1>9 DEF InstanceMade
    <3>2. QED
      BY <2>3, <3>1, <1>5
  <2>4. QED
    BY <1>4, <2>1, <2>2, <2>3
<1>18. OneNode(T)
  <2>1. \A a \in touched : a[1] = new[1] => a[2] = new[2]
    BY <1>5, <1>11
  <2>2. QED
    BY <1>4, <2>1 DEF OneNode, GraphInv, Holds
<1>19. SharedByReuse(T)
  <2>1. ASSUME NEW a \in touched, a[2] = inst[p], a[1] # <<lf[p], ex[p]>>
        PROVE  a[1][1] < lf[p] /\ ex[p] = 0
    <3>1. ex[p] = 0
      BY <1>2, <1>16, <2>1
    <3>2. a[1][1] # lf[p]
      BY <1>2, <1>3, <1>11, <2>1, <3>1
    <3>3. a[1][1] <= lf[p]
      BY <1>6, <1>14, <2>1
    <3>4. QED
      BY <1>2, <1>3, <3>1, <3>2, <3>3
  <2>2. \A a \in touched : a[2] = new[2] /\ a[1] # new[1] =>
          a[1][1] < new[1][1] /\ new[1][2] = 0
    BY <1>5, <2>1
  <2>3. \A a \in touched, b \in T :
          a[2] = b[2] /\ a[1] # b[1] =>
            /\ a[1][1] # b[1][1]
            /\ a[1][1] < b[1][1] => b[1][2] = 0
            /\ b[1][1] < a[1][1] => a[1][2] = 0
    <3>1. \A a \in touched : a[1][1] \in Nat /\ new[1][1] \in Nat
      BY <1>2, <1>3, <1>5
    <3>2. \A a, b \in touched :
            a[2] = b[2] /\ a[1] # b[1] =>
              /\ a[1][1] # b[1][1]
              /\ a[1][1] < b[1][1] => b[1][2] = 0
              /\ b[1][1] < a[1][1] => a[1][2] = 0
      BY DEF GraphInv, Holds, SharedByReuse
    <3>3. \A a \in touched :
            a[2] = new[2] /\ a[1] # new[1] =>
              /\ a[1][1] # new[1][1]
              /\ a[1][1] < new[1][1] => new[1][2] = 0
              /\ new[1][1] < a[1][1] => a[1][2] = 0
      <4> SUFFICES ASSUME NEW a \in touched, a[2] = new[2], a[1] # new[1]
                   PROVE  /\ a[1][1] # new[1][1]
                          /\ a[1][1] < new[1][1] => new[1][2] = 0
                          /\ new[1][1] < a[1][1] => a[1][2] = 0
        OBVIOUS
      <4> HIDE DEF new
      <4>1. a[1][1] < new[1][1] /\ new[1][2] = 0
        BY <2>2
      <4>2. QED
        BY <3>1, <4>1
    <3> HIDE DEF new
    <3>4. QED
      BY <1>4, <3>2, <3>3
  <2> HIDE DEF new
  <2>4. QED
    BY <1>4, <2>3 DEF SharedByReuse
<1>20. QED
  BY <1>8, <1>9, <1>10, <1>13, <1>15, <1>17, <1>18, <1>19 DEF Holds

(* A PID without a process asks nothing more of its nodes. *)
LEMMA Vacated ==
  ASSUME NEW p \in Pids, NEW lf \in [Pids -> Nat], NEW ex, NEW lv \in Nat,
         NEW inst, NEW br, NEW T, Holds(lf, ex, lv, inst, br, T)
  PROVE  Holds([lf EXCEPT ![p] = 0], ex, lv, inst, br, T)
<1> DEFINE out == [lf EXCEPT ![p] = 0]
<1>1. \A q \in Pids : out[q] # 0 => out[q] = lf[q]
  OBVIOUS
<1>2. OneHolder(out, lv)
  BY DEF Holds, OneHolder
<1> HIDE DEF out
<1>3. HolderTouched(out, ex, inst, T)
  BY <1>1 DEF Holds, HolderTouched
<1>4. HolderLatest(out, T)
  BY <1>1 DEF Holds, HolderLatest
<1>5. ExecedAlone(out, ex, inst, T)
  BY <1>1 DEF Holds, ExecedAlone
<1>6. Holds(out, ex, lv, inst, br, T)
  BY <1>2, <1>3, <1>4, <1>5 DEF Holds
<1>7. QED
  BY <1>6 DEF out

(* One event that leaves the host's steps to its caller. *)
LEMMA OneEvent ==
  ASSUME GraphInv, NEW p \in Pids, NEW action, NEW lf, NEW ex, NEW lv \in Nat,
         PutSubject(p, action),
         touched' = touched \cup {<<<<lf[p], ex[p]>>, Subject(p, action)>>},
         \/ SameImage(p, lf, ex, lv) /\ action # "exec"
         \/ NextImage(p, lf, ex, lv) /\ action = "exec"
         \/ NewProcess(p, lf, ex, lv) /\ action # "exec"
  PROVE  Holds(lf, ex, lv, instance', births', touched')
<1>1. /\ life \in [Pids -> Nat] /\ execs \in [Pids -> Nat] /\ lives \in Nat
      /\ instance \in [Pids -> Node \cup {None}] /\ births \in [Pids -> Nat]
      /\ instance' \in [Pids -> Node \cup {None}] /\ births' \in [Pids -> Nat]
  BY PutSubjectType DEF GraphInv, TypeOK
<1>2. /\ instance'[p] = Subject(p, action) /\ instance'[p] # None
      /\ \A q \in Pids \ {p} : instance'[q] = instance[q] /\ births'[q] = births[q]
  BY <1>1, SubjectType, NoneIsNoNode DEF PutSubject, GraphInv
<1>3. births'[p] = IF Rotates(p, action) THEN births[p] + 1 ELSE births[p]
  BY <1>1 DEF PutSubject
<1>4. \A q \in Pids :
        /\ births'[q] >= births[q]
        /\ instance'[q] = instance[q]
           \/ (instance'[q] = Fresh(q) /\ births'[q] = births[q] + 1)
  BY <1>1, <1>2, <1>3 DEF Subject
<1>5. action # "exec" /\ instance[p] # None => instance'[p] = instance[p]
  BY <1>2 DEF Subject, Rotates, Known
<1>6. action = "exec" => instance'[p] = Fresh(p)
  BY <1>2 DEF Subject, Rotates
<1>7. SameImage(p, lf, ex, lv) \/ NewProcess(p, lf, ex, lv)
        => ~NextImage(p, lf, ex, lv)
  BY <1>1 DEF SameImage, NextImage, NewProcess
<1>8. instance'[p] = Fresh(p) \/ instance'[p] = instance[p]
  BY <1>4
<1>9. touched' = touched \cup {<<<<lf[p], ex[p]>>, instance'[p]>>}
  BY <1>2
<1> QED
  BY <1>1, <1>2, <1>4, <1>5, <1>6, <1>7, <1>8, <1>9, Attributed

(* Before the window only the host counts. *)
LEMMA HoldsUnseen ==
  ASSUME NEW lf, NEW ex, NEW lv, NEW br, OneHolder(lf, lv)
  PROVE  Holds(lf, ex, lv, [p \in Pids |-> None], br, {})
BY DEF Holds, InstanceMade, TouchedMade, HolderTouched, HolderLatest,
   ExecedAlone, OneNode, SharedByReuse

LEMMA HoldsInductive ==
  ASSUME GraphInv, [Next]_vars
  PROVE  Holds(life, execs, lives, instance, births, touched)'
<1>1. /\ life \in [Pids -> Nat] /\ execs \in [Pids -> Nat] /\ lives \in Nat
      /\ instance \in [Pids -> Node \cup {None}] /\ births \in [Pids -> Nat]
      /\ OneHolder(life, lives) /\ observing \in BOOLEAN
      /\ Holds(life, execs, lives, instance, births, touched)
  BY DEF GraphInv, TypeOK, Holds
<1>2. CASE OpenWindow
  BY <1>1, <1>2 DEF OpenWindow, host, graph, history
<1>3. ASSUME NEW c \in Pids, NEW pp \in Pids \cup {0},
             Fork(c, pp) \/ StartThread(c, pp)
      PROVE  Holds(life, execs, lives, instance, births, touched)'
  <2>0. PICK of \in Pids, up \in Pids \cup {0} : NewTask(c, pp, of, up)
    BY <1>3, BornIsNewTask DEF GraphInv
  <2>1. NewProcess(c, life', execs', lives')
    BY <2>0 DEF NewTask, NewProcess
  <2>2. CASE observing
    <3>1. /\ PutSubject(c, "fork") /\ lives' \in Nat
          /\ touched' = touched
               \cup {<<<<life'[c], execs'[c]>>, Subject(c, "fork")>>}
      BY <1>1, <2>0, <2>2 DEF NewTask, ProcessEvent
    <3>2. QED
      BY <2>1, <3>1, OneEvent
  <2>3. CASE ~observing
    <3>1. OneHolder(life', lives')
      BY <1>1, <2>1 DEF NewProcess, OneHolder
    <3>2. instance' = [p \in Pids |-> None] /\ touched' = {}
      BY <2>0, <2>3 DEF NewTask, Unseen, graph, history, GraphInv, NothingBefore
    <3>3. QED
      BY <3>1, <3>2, HoldsUnseen
  <2>4. QED
    BY <1>1, <2>2, <2>3
<1>4. ASSUME NEW p \in Pids, Exec(p)
      PROVE  Holds(life, execs, lives, instance, births, touched)'
  <2>1. NextImage(p, life', execs', lives')
    BY <1>4 DEF Exec, Live, NextImage
  <2>2. CASE observing
    BY <1>1, <1>4, <2>1, <2>2, OneEvent DEF Exec, ProcessEvent
  <2>3. CASE ~observing
    <3>1. instance' = [q \in Pids |-> None] /\ touched' = {}
      BY <1>4, <2>3 DEF Exec, Unseen, graph, history, GraphInv, NothingBefore
    <3>2. QED
      BY <1>1, <1>4, <3>1, HoldsUnseen DEF Exec
  <2>4. QED
    BY <1>1, <2>2, <2>3
<1>5. ASSUME NEW p \in Pids, Exit(p) \/ LeaveUnseen(p)
      PROVE  Holds(life, execs, lives, instance, births, touched)'
  <2>1. /\ life' = life \/ life' = [life EXCEPT ![p] = 0]
        /\ execs' = execs /\ lives' = lives
    BY <1>5 DEF Exit, LeaveUnseen, Leave
  <2>2. Holds(life, execs, lives, instance', births', touched')
    <3>1. CASE observing /\ Exit(p)
      <4>1. SameImage(p, life, execs, lives)
        BY <3>1 DEF Exit, Live, SameImage
      <4>2. QED
        BY <1>1, <3>1, <4>1, OneEvent DEF Exit, ProcessEvent
    <3>2. CASE Unseen
      BY <1>1, <3>2 DEF Unseen, graph, history
    <3>3. QED
      BY <1>5, <3>1, <3>2 DEF Exit, LeaveUnseen
  <2>3. Holds(life', execs, lives, instance', births', touched')
    BY <1>1, <2>1, <2>2, Vacated
  <2>4. QED
    BY <2>1, <2>3
<1>6. ASSUME NEW p \in Pids, ActOnNothing(p) \/ \E o \in Objects : Act(p, o)
      PROVE  Holds(life, execs, lives, instance, births, touched)'
  <2>1. /\ life' = life /\ execs' = execs /\ lives' = lives
        /\ SameImage(p, life, execs, lives) /\ PutSubject(p, "act")
        /\ touched' = touched \cup {<<<<life[p], execs[p]>>, Subject(p, "act")>>}
    BY <1>6 DEF Act, ActOnNothing, ImageOf, host, Live, SameImage
  <2>2. Holds(life, execs, lives, instance', births', touched')
    BY <1>1, <2>1, OneEvent
  <2>3. QED
    BY <2>1, <2>2
<1>7. ASSUME NEW p \in Pids, NEW t \in Pids, VmWritev(p, t)
      PROVE  Holds(life, execs, lives, instance, births, touched)'
  <2>1. /\ life' = life /\ execs' = execs /\ lives' = lives /\ t # p
        /\ SameImage(p, life, execs, lives)
        /\ touched' = touched \cup {<<<<life[p], execs[p]>>, Subject(p, "act")>>}
    BY <1>7 DEF VmWritev, ImageOf, host, Live, SameImage
  <2>2. Subject(p, "act") \in Node /\ Subject(t, "act") \in Node
    BY SubjectType DEF GraphInv
  <2>3. /\ instance' \in [Pids -> Node \cup {None}] /\ births' \in [Pids -> Nat]
        /\ instance'[p] = Subject(p, "act") /\ instance'[t] = Subject(t, "act")
        /\ births'[p] = IF Rotates(p, "act") THEN births[p] + 1 ELSE births[p]
        /\ births'[t] = IF Rotates(t, "act") THEN births[t] + 1 ELSE births[t]
        /\ \A q \in Pids \ {p, t} :
             instance'[q] = instance[q] /\ births'[q] = births[q]
    BY <1>1, <1>7, <2>1, <2>2 DEF VmWritev
  <2>4. \A q \in Pids :
          /\ births'[q] >= births[q]
          /\ instance'[q] = instance[q]
             \/ (instance'[q] = Fresh(q) /\ births'[q] = births[q] + 1)
    BY <1>1, <2>3 DEF Subject
  <2>5. \A q \in Pids : instance[q] # None => instance'[q] = instance[q]
    BY <2>3 DEF Subject, Rotates, Known
  <2>6. instance'[p] # None
    BY <2>2, <2>3, NoneIsNoNode
  <2>7. touched' = touched \cup {<<<<life[p], execs[p]>>, instance'[p]>>}
    BY <2>1, <2>3
  <2>8. instance'[p] = Fresh(p) \/ instance'[p] = instance[p]
    BY <2>4
  <2>9. Holds(life, execs, lives, instance', births', touched')
    BY <1>1, <2>1, <2>3, <2>4, <2>5, <2>6, <2>7, <2>8, Attributed
  <2>10. QED
    BY <2>1, <2>9
<1>8. CASE UNCHANGED vars
  BY <1>1, <1>8 DEF vars, host, graph, history
<1>9. QED
  BY <1>2, <1>3, <1>4, <1>5, <1>6, <1>7, <1>8 DEF Next

LEMMA NothingBeforeInductive ==
  ASSUME GraphInv, [Next]_vars
  PROVE  NothingBefore'
<1>1. observing \in BOOLEAN
  BY DEF GraphInv, TypeOK
<1>2. CASE OpenWindow
  BY <1>2 DEF OpenWindow, NothingBefore
<1>3. ASSUME NEW p \in Pids,
             \/ \E pp \in Pids \cup {0} : Fork(p, pp) \/ StartThread(p, pp)
             \/ Exec(p) \/ Exit(p) \/ LeaveUnseen(p)
      PROVE  NothingBefore'
  <2>1. observing' = observing
    BY <1>3 DEF Fork, StartThread, NewTask, Exec, Exit, LeaveUnseen
  <2>2. ~observing => Unseen
    BY <1>3 DEF Fork, StartThread, NewTask, Exec, Exit, LeaveUnseen
  <2>3. QED
    BY <1>1, <2>1, <2>2 DEF Unseen, graph, history, NothingBefore, GraphInv
<1>4. ASSUME NEW p \in Pids,
             \/ ActOnNothing(p)
             \/ \E o \in Objects : Act(p, o)
             \/ \E t \in Pids : VmWritev(p, t)
      PROVE  NothingBefore'
  <2>1. observing /\ observing' = observing
    BY <1>4 DEF ActOnNothing, Act, VmWritev
  <2>2. QED
    BY <2>1 DEF NothingBefore
<1>5. CASE UNCHANGED vars
  BY <1>5 DEF vars, session, graph, history, NothingBefore, GraphInv
<1>6. QED
  BY <1>2, <1>3, <1>4, <1>5 DEF Next

LEMMA GraphInvInductive == GraphInv /\ [Next]_vars => GraphInv'
<1> SUFFICES ASSUME GraphInv, [Next]_vars
             PROVE  GraphInv'
  OBVIOUS
<1>1. TypeOK'
  BY TypeInductive DEF GraphInv
<1>2. QED
  BY <1>1, NothingBeforeInductive, HoldsInductive DEF GraphInv

(* All events of one process image are on one node. *)
THEOREM ImageOneNodeCorrect == Spec => []ImageOneNode
<1>1. GraphInv => ImageOneNode
  BY DEF GraphInv, Holds, OneNode, ImageOneNode
<1>2. QED
  BY <1>1, GraphInvInit, GraphInvInductive, PTL DEF Spec

(* Two images share a node only by reuse of the PID without an exec. *)
THEOREM SharedOnlyByReuseCorrect == Spec => []SharedOnlyByReuse
<1>1. GraphInv => SharedOnlyByReuse
  BY DEF GraphInv, Holds, SharedByReuse, SharedOnlyByReuse
<1>2. QED
  BY <1>1, GraphInvInit, GraphInvInductive, PTL DEF Spec
-----------------------------------------------------------------------------
(* Who stands behind the edges: a node an image has an event on has stood   *)
(* for its process, an edge to an object is the deed of an image of its     *)
(* node, and every deed has its edge.                                       *)
TouchedStood == \A a \in touched : <<a[2], a[1][1]>> \in stands

EdgesMeant ==
  \A n, o : <<n, o, "other">> \in edges =>
    \E a \in touched : a[2] = n /\ <<a[1], o>> \in did

DeedsShown ==
  \A i, o : <<i, o>> \in did =>
    \E a \in touched : a[1] = i /\ <<a[2], o, "other">> \in edges

BlameInv == TouchedStood /\ EdgesMeant /\ DeedsShown

LEMMA BlameInit == Init => BlameInv
BY DEF Init, BlameInv, TouchedStood, EdgesMeant, DeedsShown

(* One event of image i on node n. *)
LEMMA BlameGrows ==
  ASSUME BlameInv, NEW i, NEW n,
         touched' = touched \cup {<<i, n>>},
         <<n, i[1]>> \in stands', stands \subseteq stands',
         edges \subseteq edges', did \subseteq did',
         \A m, o : <<m, o, "other">> \in edges' =>
           <<m, o, "other">> \in edges \/ (m = n /\ <<i, o>> \in did'),
         \A j, o : <<j, o>> \in did' =>
           <<j, o>> \in did \/ (j = i /\ <<n, o, "other">> \in edges')
  PROVE  BlameInv'
<1> DEFINE new == <<i, n>>
<1>1. new \in touched' /\ touched \subseteq touched' /\ new[1] = i /\ new[2] = n
  OBVIOUS
<1>2. \A a \in touched' : a \in touched \/ a = new
  OBVIOUS
<1> HIDE DEF new
<1>3. TouchedStood'
  <2>1. ASSUME NEW a \in touched'
        PROVE  <<a[2], a[1][1]>> \in stands'
    <3>1. CASE a \in touched
      BY <3>1 DEF BlameInv, TouchedStood
    <3>2. CASE a = new
      <4>1. a[2] = n /\ a[1] = i
        BY <3>2, <1>1
      <4>2. QED
        BY <4>1
    <3>3. QED
      BY <1>2, <3>1, <3>2
  <2>2. QED
    BY <2>1, Zenon DEF TouchedStood
<1>4. EdgesMeant'
  <2> SUFFICES ASSUME NEW m, NEW o, <<m, o, "other">> \in edges'
               PROVE  \E a \in touched' : a[2] = m /\ <<a[1], o>> \in did'
    BY DEF EdgesMeant
  <2>1. CASE <<m, o, "other">> \in edges
    <3>1. PICK a \in touched : a[2] = m /\ <<a[1], o>> \in did
      BY <2>1 DEF BlameInv, EdgesMeant
    <3>2. QED
      BY <1>1, <3>1
  <2>2. CASE m = n /\ <<i, o>> \in did'
    BY <1>1, <2>2
  <2>3. QED
    BY <2>1, <2>2
<1>5. DeedsShown'
  <2> SUFFICES ASSUME NEW j, NEW o, <<j, o>> \in did'
               PROVE  \E a \in touched' : a[1] = j /\ <<a[2], o, "other">> \in edges'
    BY DEF DeedsShown
  <2>1. CASE <<j, o>> \in did
    <3>1. PICK a \in touched : a[1] = j /\ <<a[2], o, "other">> \in edges
      BY <2>1 DEF BlameInv, DeedsShown
    <3>2. QED
      BY <1>1, <3>1
  <2>2. CASE j = i /\ <<n, o, "other">> \in edges'
    BY <1>1, <2>2
  <2>3. QED
    BY <2>1, <2>2
<1>6. QED
  BY <1>3, <1>4, <1>5 DEF BlameInv

LEMMA BlameIdle ==
  ASSUME BlameInv, UNCHANGED <<edges, history>>
  PROVE  BlameInv'
BY DEF history, BlameInv, TouchedStood, EdgesMeant, DeedsShown

(* The subject of an event is one of the PIDs it stands for. *)
LEMMA SubjectStands ==
  ASSUME TypeOK, NEW p \in Pids, NEW action, NEW S, p \in S, NEW lf,
         instance'[p] = Subject(p, action)
  PROVE  <<Subject(p, action), lf[p]>> \in StandsFor(S, instance', lf)
<1>1. instance'[p] # None
  BY SubjectType, NoneIsNoNode
<1>2. QED
  BY <1>1 DEF StandsFor

LEMMA PutSubjectIs ==
  ASSUME TypeOK, NEW p \in Pids, NEW action, PutSubject(p, action)
  PROVE  instance'[p] = Subject(p, action)
BY DEF TypeOK, PutSubject

LEMMA ProcessEventBlame ==
  ASSUME TypeOK, BlameInv, NEW p \in Pids, NEW pp, NEW action, NEW lf, NEW ex,
         ProcessEvent(p, pp, action, lf, ex)
  PROVE  BlameInv'
<1> DEFINE i == <<lf[p], ex[p]>>
           n == Subject(p, action)
<1>1. instance'[p] = n
  BY PutSubjectIs DEF ProcessEvent
<1>2. /\ touched' = touched \cup {<<i, n>>} /\ did' = did
      /\ stands' = stands \cup StandsFor({p, pp} \cap Pids, instance', lf)
      /\ edges' = edges \cup Lineage(p, pp, action)
  BY DEF ProcessEvent
<1>3. <<n, lf[p]>> \in stands' /\ stands \subseteq stands'
  <2>1. p \in {p, pp} \cap Pids
    OBVIOUS
  <2>2. <<n, lf[p]>> \in StandsFor({p, pp} \cap Pids, instance', lf)
    BY <1>1, <2>1, SubjectStands
  <2>3. QED
    BY <1>2, <2>2
<1>4. i[1] = lf[p]
  OBVIOUS
<1>5. \A m, o : <<m, o, "other">> \in edges' => <<m, o, "other">> \in edges
  <2>1. \A m, o : <<m, o, "other">> \notin Lineage(p, pp, action)
    BY DEF Lineage
  <2>2. QED
    BY <1>2, <2>1
<1> HIDE DEF i, n
<1>6. QED
  BY <1>2, <1>3, <1>4, <1>5, BlameGrows

(* An event of p by any other agent, about o or about nothing. *)
LEMMA ActBlame ==
  ASSUME TypeOK, BlameInv, NEW p \in Pids, NEW S, p \in S,
         instance'[p] = Subject(p, "act"),
         touched' = touched \cup {<<ImageOf(p), Subject(p, "act")>>},
         stands' = stands \cup StandsFor(S, instance', life),
         \/ /\ did' = did /\ edges \subseteq edges'
            /\ \A m, o : <<m, o, "other">> \in edges' => <<m, o, "other">> \in edges
         \/ \E o \in Objects :
              /\ edges' = edges \cup {<<Subject(p, "act"), o, "other">>}
              /\ did' = did \cup {<<ImageOf(p), o>>}
  PROVE  BlameInv'
<1> DEFINE i == ImageOf(p)
           n == Subject(p, "act")
<1>1. i[1] = life[p]
  BY DEF ImageOf
<1>2. <<n, life[p]>> \in stands' /\ stands \subseteq stands'
  <2>1. <<n, life[p]>> \in StandsFor(S, instance', life)
    BY SubjectStands
  <2>2. QED
    BY <2>1
<1> HIDE DEF i, n
<1>3. CASE /\ did' = did /\ edges \subseteq edges'
           /\ \A m, o : <<m, o, "other">> \in edges' => <<m, o, "other">> \in edges
  <2>1. touched' = touched \cup {<<i, n>>}
    BY DEF i, n
  <2>2. QED
    BY <1>1, <1>2, <1>3, <2>1, BlameGrows
<1>4. ASSUME NEW o \in Objects,
             edges' = edges \cup {<<Subject(p, "act"), o, "other">>},
             did' = did \cup {<<ImageOf(p), o>>}
      PROVE  BlameInv'
  <2>1. /\ touched' = touched \cup {<<i, n>>}
        /\ edges' = edges \cup {<<n, o, "other">>}
        /\ did' = did \cup {<<i, o>>}
    BY <1>4 DEF i, n
  <2>2. \A m, x : <<m, x, "other">> \in edges' =>
          <<m, x, "other">> \in edges \/ (m = n /\ <<i, x>> \in did')
    BY <2>1
  <2>3. \A j, x : <<j, x>> \in did' =>
          <<j, x>> \in did \/ (j = i /\ <<n, x, "other">> \in edges')
    BY <2>1
  <2>4. edges \subseteq edges' /\ did \subseteq did'
    BY <2>1
  <2>5. QED
    BY <1>1, <1>2, <2>1, <2>2, <2>3, <2>4, BlameGrows
<1>5. QED
  BY <1>3, <1>4

LEMMA BlameInductive ==
  ASSUME TypeOK, BlameInv, [Next]_vars
  PROVE  BlameInv'
<1>1. CASE OpenWindow
  BY <1>1, BlameIdle DEF OpenWindow, graph
<1>2. ASSUME NEW c \in Pids, NEW pp \in Pids \cup {0},
             Fork(c, pp) \/ StartThread(c, pp)
      PROVE  BlameInv'
  <2>1. ProcessEvent(c, pp, "fork", life', execs') \/ Unseen
    BY <1>2 DEF Fork, StartThread, NewTask
  <2>2. QED
    BY <2>1, ProcessEventBlame, BlameIdle DEF Unseen, graph
<1>3. ASSUME NEW p \in Pids, Exec(p)
      PROVE  BlameInv'
  <2>1. ProcessEvent(p, parent[p], "exec", life, execs') \/ Unseen
    BY <1>3 DEF Exec
  <2>2. QED
    BY <2>1, ProcessEventBlame, BlameIdle DEF Unseen, graph
<1>4. ASSUME NEW p \in Pids, Exit(p) \/ LeaveUnseen(p)
      PROVE  BlameInv'
  <2>1. ProcessEvent(p, parent[p], "exit", life, execs) \/ Unseen
    BY <1>4 DEF Exit, LeaveUnseen
  <2>2. QED
    BY <2>1, ProcessEventBlame, BlameIdle DEF Unseen, graph
<1>5. ASSUME NEW p \in Pids, NEW o \in Objects, Act(p, o)
      PROVE  BlameInv'
  <2>1. /\ instance'[p] = Subject(p, "act")
        /\ touched' = touched \cup {<<ImageOf(p), Subject(p, "act")>>}
        /\ stands' = stands \cup StandsFor({p}, instance', life)
        /\ edges' = edges \cup {<<Subject(p, "act"), o, "other">>}
        /\ did' = did \cup {<<ImageOf(p), o>>}
    BY <1>5, PutSubjectIs DEF Act
  <2>2. QED
    BY <2>1, ActBlame
<1>6. ASSUME NEW p \in Pids, ActOnNothing(p)
      PROVE  BlameInv'
  <2>1. /\ instance'[p] = Subject(p, "act")
        /\ touched' = touched \cup {<<ImageOf(p), Subject(p, "act")>>}
        /\ stands' = stands \cup StandsFor({p}, instance', life)
        /\ edges' = edges /\ did' = did
    BY <1>6, PutSubjectIs DEF ActOnNothing
  <2>2. QED
    BY <2>1, ActBlame
<1>7. ASSUME NEW p \in Pids, NEW t \in Pids, VmWritev(p, t)
      PROVE  BlameInv'
  <2>1. /\ touched' = touched \cup {<<ImageOf(p), Subject(p, "act")>>}
        /\ stands' = stands \cup StandsFor({p, t}, instance', life)
        /\ edges' = edges \cup {<<Subject(p, "act"), Subject(t, "act"), "memory">>}
        /\ did' = did
    BY <1>7 DEF VmWritev
  <2>2. instance'[p] = Subject(p, "act")
    BY <1>7 DEF VmWritev, TypeOK
  <2>3. \A m, o : <<m, o, "other">> \in edges' => <<m, o, "other">> \in edges
    BY <2>1
  <2>4. QED
    BY <2>1, <2>2, <2>3, ActBlame
<1>8. CASE UNCHANGED vars
  BY <1>8, BlameIdle DEF vars, graph
<1>9. QED
  BY <1>1, <1>2, <1>3, <1>4, <1>5, <1>6, <1>7, <1>8 DEF Next

LEMMA BlameFollows ==
  ASSUME GraphInv, BlameInv
  PROVE  BlameExact
<1> SUFFICES ASSUME NEW a \in touched, ~Mixed(a[2]), NEW o \in Objects
             PROVE  <<a[2], o, "other">> \in edges <=> <<a[1], o>> \in did
  BY DEF BlameExact
<1>1. ASSUME NEW b \in touched, b[2] = a[2]
      PROVE  b[1] = a[1]
  <2>1. <<a[2], a[1][1]>> \in stands /\ <<a[2], b[1][1]>> \in stands
    BY <1>1 DEF BlameInv, TouchedStood
  <2>2. a[1][1] = b[1][1]
    <3>1. \A u, v \in stands : u[1] = a[2] /\ v[1] = a[2] => u[2] = v[2]
      BY DEF Mixed
    <3>2. QED
      BY <2>1, <3>1
  <2>3. QED
    BY <1>1, <2>2 DEF GraphInv, Holds, SharedByReuse
<1>2. ASSUME <<a[2], o, "other">> \in edges
      PROVE  <<a[1], o>> \in did
  <2>1. PICK b \in touched : b[2] = a[2] /\ <<b[1], o>> \in did
    BY <1>2 DEF BlameInv, EdgesMeant
  <2>2. QED
    BY <1>1, <2>1
<1>3. ASSUME <<a[1], o>> \in did
      PROVE  <<a[2], o, "other">> \in edges
  <2>1. PICK b \in touched : b[1] = a[1] /\ <<b[2], o, "other">> \in edges
    BY <1>3 DEF BlameInv, DeedsShown
  <2>2. b[2] = a[2]
    BY <2>1 DEF GraphInv, Holds, OneNode
  <2>3. QED
    BY <2>1, <2>2
<1>4. QED
  BY <1>2, <1>3

(* For every host and session, a node that stands for one process answers   *)
(* for exactly the image that acted on an object (build_provenance_graph).  *)
THEOREM BlameExactCorrect == Spec => []BlameExact
<1>1. GraphInv => TypeOK
  BY DEF GraphInv
<1>2. QED
  BY GraphInvInit, GraphInvInductive, BlameInit, BlameInductive, BlameFollows,
     <1>1, PTL DEF Spec
-----------------------------------------------------------------------------
(* Depth.  The levels the loop over the roots goes through are a function   *)
(* defined by recursion; that there is one is shown from its beginnings.    *)

LEMMA LeastNatural ==
  ASSUME NEW S \in SUBSET Nat, S # {}
  PROVE  \E x \in S : \A y \in S : x <= y
<1>1. PICK x \in S : \A y \in S : ~(<<y, x>> \in OpToRel(<, Nat))
  BY NatLessThanWellFounded, WFMin
<1>2. ASSUME NEW y \in S
      PROVE  x <= y
  <2>1. x \in Nat /\ y \in Nat /\ <<y, x>> \in Nat \X Nat
    OBVIOUS
  <2>2. ~(y < x)
    BY <1>1, <2>1 DEF OpToRel
  <2>3. QED
    BY <2>1, <2>2
<1>3. QED
  BY <1>2

(* One level further down. *)
Deeper(S) ==
  S \cup {n \in ProcessNodes : \E m \in S : <<m, n>> \in ProcessEdges}

UpTo(f, n) ==
  /\ DOMAIN f = 0..n /\ f[0] = Roots
  /\ \A i \in 1..n : f[i] = Deeper(f[i - 1])

LEMMA UpToExists == \A n \in Nat : \E f : UpTo(f, n)
<1> DEFINE Bad == {n \in Nat : ~\E f : UpTo(f, n)}
<1> SUFFICES ASSUME Bad # {}
             PROVE  FALSE
  OBVIOUS
<1>1. PICK n \in Bad : \A k \in Bad : n <= k
  <2>1. Bad \in SUBSET Nat
    OBVIOUS
  <2> HIDE DEF Bad
  <2>2. QED
    BY <2>1, LeastNatural
<1>2. n # 0
  <2>1. UpTo([i \in 0..0 |-> Roots], 0)
    BY DEF UpTo
  <2>2. QED
    BY <2>1
<1>3. n \in Nat /\ n - 1 \in Nat /\ n - 1 \notin Bad
  BY <1>1, <1>2
<1>4. PICK f : UpTo(f, n - 1)
  BY <1>3
<1> DEFINE g == [i \in 0..n |-> IF i = n THEN Deeper(f[n - 1]) ELSE f[i]]
<1>5. UpTo(g, n)
  <2>1. DOMAIN g = 0..n /\ g[0] = Roots
    BY <1>3, <1>2, <1>4 DEF UpTo
  <2>2. ASSUME NEW i \in 1..n
        PROVE  g[i] = Deeper(g[i - 1])
    <3>1. i - 1 \in 0..n /\ i - 1 # n /\ i \in 0..n
      BY <1>3
    <3>2. g[i - 1] = f[i - 1]
      BY <3>1
    <3>3. CASE i = n
      BY <3>1, <3>2, <3>3
    <3>4. CASE i # n
      <4>1. i \in 1..(n - 1) /\ g[i] = f[i]
        BY <3>1, <3>4, <1>3
      <4>2. f[i] = Deeper(f[i - 1])
        BY <4>1, <1>4 DEF UpTo
      <4>3. QED
        BY <4>1, <4>2, <3>2
    <3>5. QED
      BY <3>3, <3>4
  <2> HIDE DEF g
  <2>3. QED
    BY <2>1, <2>2 DEF UpTo
<1>6. QED
  BY <1>5

LEMMA UpToAgree ==
  ASSUME NEW m \in Nat, NEW n \in Nat, m <= n,
         NEW f, UpTo(f, m), NEW g, UpTo(g, n)
  PROVE  f[m] = g[m]
<1> DEFINE Bad == {i \in 0..m : f[i] # g[i]}
<1> SUFFICES ASSUME Bad # {}
             PROVE  FALSE
  OBVIOUS
<1>1. PICK i \in Bad : \A k \in Bad : i <= k
  <2>1. Bad \in SUBSET Nat
    OBVIOUS
  <2> HIDE DEF Bad
  <2>2. QED
    BY <2>1, LeastNatural
<1>2. i # 0
  BY DEF UpTo
<1>3. i \in 1..m /\ i \in 1..n /\ i - 1 \in 0..m
  BY <1>1, <1>2
<1>4. i - 1 \notin Bad
  BY <1>1, <1>3
<1>5. f[i - 1] = g[i - 1]
  BY <1>3, <1>4
<1>6. f[i] = g[i]
  BY <1>3, <1>5 DEF UpTo
<1>7. QED
  BY <1>6

Levels(L) == L = [i \in Nat |-> IF i = 0 THEN Roots ELSE Deeper(L[i - 1])]

LEMMA LevelsExist == \E L : Levels(L)
<1> DEFINE start(n) == CHOOSE f : UpTo(f, n)
           L == [n \in Nat |-> start(n)[n]]
<1>1. ASSUME NEW n \in Nat
      PROVE  UpTo(start(n), n)
  BY UpToExists, Zenon
<1>2. ASSUME NEW n \in Nat
      PROVE  L[n] = IF n = 0 THEN Roots ELSE Deeper(L[n - 1])
  <2>1. CASE n = 0
    <3>1. start(0)[0] = Roots
      BY <1>1 DEF UpTo
    <3> HIDE DEF start
    <3>2. QED
      BY <2>1, <3>1
  <2>2. CASE n # 0
    <3>1. n - 1 \in Nat /\ n - 1 <= n /\ n \in 1..n
      BY <2>2
    <3>2. UpTo(start(n), n) /\ UpTo(start(n - 1), n - 1)
      BY <1>1, <3>1
    <3> HIDE DEF start
    <3>3. start(n)[n] = Deeper(start(n)[n - 1])
      BY <3>1, <3>2 DEF UpTo
    <3>4. start(n - 1)[n - 1] = start(n)[n - 1]
      BY <3>1, <3>2, UpToAgree
    <3>5. QED
      BY <2>2, <3>1, <3>3, <3>4
  <2>3. QED
    BY <2>1, <2>2
<1> HIDE DEF start
<1>3. L = [n \in Nat |-> IF n = 0 THEN Roots ELSE Deeper(L[n - 1])]
  <2>1. L = [n \in Nat |-> L[n]]
    OBVIOUS
  <2> HIDE DEF L
  <2>2. QED
    BY <1>2, <2>1
<1>4. QED
  BY <1>3 DEF Levels

(* What is reached is the level of as many steps as there are nodes. *)
LEMMA ReachedIsLevel ==
  \E L : Levels(L) /\ Reached = L[Cardinality(ProcessNodes)]
<1> DEFINE Q(g) == g = [i \in Nat |-> IF i = 0 THEN Roots ELSE Deeper(g[i - 1])]
           step == CHOOSE g : Q(g)
<1>1. Q(step)
  BY LevelsExist, Zenon DEF Levels
<1>2. Reached = step[Cardinality(ProcessNodes)]
  BY Zenon DEF Reached, Deeper
<1>3. QED
  BY <1>1, <1>2, Zenon DEF Levels

LEMMA LevelsGrow ==
  ASSUME NEW L, Levels(L), NEW m \in Nat, NEW n \in Nat, m <= n
  PROVE  L[m] \subseteq L[n]
<1> DEFINE Bad == {k \in Nat : m <= k /\ ~(L[m] \subseteq L[k])}
<1> SUFFICES ASSUME Bad # {}
             PROVE  FALSE
  OBVIOUS
<1>1. PICK k \in Bad : \A j \in Bad : k <= j
  <2>1. Bad \in SUBSET Nat
    OBVIOUS
  <2> HIDE DEF Bad
  <2>2. QED
    BY <2>1, LeastNatural
<1>2. k # m /\ k \in Nat /\ m <= k
  BY <1>1
<1>3. k - 1 \in Nat /\ m <= k - 1 /\ k - 1 \notin Bad /\ k # 0
  BY <1>1, <1>2
<1>4. L[m] \subseteq L[k - 1]
  BY <1>3
<1>5. L[k] = Deeper(L[k - 1])
  BY <1>2, <1>3 DEF Levels
<1>6. QED
  BY <1>1, <1>4, <1>5 DEF Deeper

(* There are finitely many process nodes. *)
LEMMA NodesFinite ==
  ASSUME births \in [Pids -> Nat]
  PROVE  IsFiniteSet(ProcessNodes)
<1> DEFINE nodes == [p \in Pids |-> {p} \X (1..births[p])]
           parts == {{p} \X (1..births[p]) : p \in Pids}
<1>1. nodes \in Surjection(Pids, parts)
  <2>1. nodes \in [Pids -> parts]
    OBVIOUS
  <2>2. \A s \in parts : \E p \in Pids : nodes[p] = s
    OBVIOUS
  <2>3. QED
    BY <2>1, <2>2, Fun_IsSurj
<1>2. IsFiniteSet(parts)
  BY <1>1, FS_Surjection, GraphAssumption
<1>3. ASSUME NEW p \in Pids
      PROVE  IsFiniteSet({p} \X (1..births[p]))
  <2>1. births[p] \in Nat /\ 1 \in Int
    OBVIOUS
  <2>2. IsFiniteSet(1..births[p])
    BY <2>1, FS_Interval
  <2>3. QED
    BY <2>2, FS_Singleton, FS_Product
<1>4. \A s \in parts : IsFiniteSet(s)
  BY <1>3
<1>5. QED
  BY <1>2, <1>4, FS_UNION DEF ProcessNodes

(* A parent is the older process: a fork makes a child younger than all,    *)
(* a thread has the parent of its process, and the reaper of an orphan is   *)
(* init or an ancestor.                                                     *)
ParentsOlder ==
  \A q \in Pids :
    life[q] # 0 /\ parent[q] # 0 =>
      life[parent[q]] # 0 /\ life[parent[q]] < life[q]

(* No leader is gone before its threads, or younger than one. *)
LeadersLive ==
  \A q \in Pids :
    life[q] # 0 => life[leader[q]] # 0 /\ life[leader[q]] <= life[q]

(* So an edge of lineage goes from a node that has stood for a process to   *)
(* one that has stood for a later one.                                      *)
LineageOrdered ==
  \A e \in edges :
    e[3] = "process" =>
      \E a, b \in stands : a[1] = e[1] /\ b[1] = e[2] /\ a[2] < b[2]

DepthInv == ParentsOlder /\ LeadersLive /\ LineageOrdered

LEMMA DepthInit == Init => DepthInv
BY DEF Init, DepthInv, ParentsOlder, LeadersLive, LineageOrdered

(* Whoever is above a process is alive and older: the older ones and 0 are  *)
(* closed under parents.                                                    *)
LEMMA AncestorsOlder ==
  ASSUME TypeOK, ParentsOlder, NEW p \in Pids, life[p] # 0, 0 \notin Pids,
         NEW a \in Ancestors(p), a # 0
  PROVE  a \in Pids /\ life[a] # 0 /\ life[a] < life[p]
<1> DEFINE S == {0} \cup {q \in Pids : life[q] # 0 /\ life[q] < life[p]}
<1>1. life \in [Pids -> Nat] /\ parent \in [Pids -> Pids \cup {0}]
  BY DEF TypeOK
<1>2. parent[p] \in S
  BY <1>1 DEF ParentsOlder
<1>3. ASSUME NEW q \in S \ {0}
      PROVE  parent[q] \in S
  <2>1. q \in Pids /\ life[q] # 0 /\ life[q] < life[p]
    OBVIOUS
  <2>2. parent[q] # 0 => life[parent[q]] # 0 /\ life[parent[q]] < life[q]
    BY <2>1 DEF ParentsOlder
  <2>3. CASE parent[q] = 0
    BY <2>3
  <2>4. CASE parent[q] # 0
    <3>1. parent[q] \in Pids /\ life[parent[q]] \in Nat /\ life[q] \in Nat
          /\ life[p] \in Nat
      BY <1>1, <2>1, <2>4
    <3>2. life[parent[q]] # 0 /\ life[parent[q]] < life[p]
      BY <2>1, <2>2, <2>4, <3>1
    <3>3. QED
      BY <3>1, <3>2
  <2>5. QED
    BY <2>3, <2>4
<1>4. S \in SUBSET (Pids \cup {0})
  OBVIOUS
<1>5. a \in S
  <2> HIDE DEF S
  <2>1. QED
    BY <1>2, <1>3, <1>4 DEF Ancestors
<1>6. QED
  BY <1>5

LEMMA TasksInductive ==
  ASSUME GraphInv, ParentsOlder, LeadersLive, [Next]_vars
  PROVE  ParentsOlder' /\ LeadersLive'
<1>0. /\ life \in [Pids -> Nat] /\ parent \in [Pids -> Pids \cup {0}]
      /\ leader \in [Pids -> Pids] /\ 0 \notin Pids
      /\ lives \in Nat /\ \A q \in Pids : life[q] <= lives
  BY GraphAssumption DEF GraphInv, TypeOK, Holds, OneHolder
<1>1. CASE UNCHANGED <<life, leader, parent>>
  BY <1>1 DEF ParentsOlder, LeadersLive
<1>2. ASSUME NEW c \in Pids, NEW pp \in Pids \cup {0},
             NEW of \in Pids, NEW up \in Pids \cup {0}, NewTask(c, pp, of, up),
             up # 0 => life[up] # 0,
             of = c \/ life[of] # 0
      PROVE  ParentsOlder' /\ LeadersLive'
  <2>1. /\ life[c] = 0 /\ life' = [life EXCEPT ![c] = lives + 1]
        /\ parent' = [parent EXCEPT ![c] = up]
        /\ leader' = [leader EXCEPT ![c] = of]
    BY <1>2 DEF NewTask
  <2>2. \A q \in Pids : life[q] # 0 =>
          q # c /\ life'[q] = life[q] /\ life'[q] < lives + 1
    BY <1>0, <2>1
  <2>3. life'[c] = lives + 1 /\ parent'[c] = up /\ leader'[c] = of
    BY <1>0, <2>1
  <2>4. \A q \in Pids : q # c =>
          life'[q] = life[q] /\ parent'[q] = parent[q] /\ leader'[q] = leader[q]
    BY <1>0, <2>1
  <2>5. ASSUME NEW q \in Pids, life'[q] # 0, parent'[q] # 0
        PROVE  life'[parent'[q]] # 0 /\ life'[parent'[q]] < life'[q]
    <3>1. CASE q = c
      BY <1>2, <2>2, <2>3, <2>5, <3>1
    <3>2. CASE q # c
      <4>1. /\ life[q] # 0 /\ parent'[q] = parent[q] /\ parent[q] \in Pids
        BY <1>0, <2>4, <2>5, <3>2
      <4>2. life[parent[q]] # 0 /\ life[parent[q]] < life[q]
        BY <2>5, <4>1 DEF ParentsOlder
      <4>3. QED
        BY <2>2, <4>1, <4>2
    <3>3. QED
      BY <3>1, <3>2
  <2>6. ASSUME NEW q \in Pids, life'[q] # 0
        PROVE  life'[leader'[q]] # 0 /\ life'[leader'[q]] <= life'[q]
    <3>1. CASE q = c
      BY <1>0, <1>2, <2>2, <2>3, <3>1
    <3>2. CASE q # c
      <4>1. life[q] # 0 /\ leader'[q] = leader[q] /\ leader[q] \in Pids
        BY <1>0, <2>4, <2>6, <3>2
      <4>2. life[leader[q]] # 0 /\ life[leader[q]] <= life[q]
        BY <4>1 DEF LeadersLive
      <4>3. QED
        BY <2>2, <4>1, <4>2
    <3>3. QED
      BY <3>1, <3>2
  <2>7. QED
    BY <2>5, <2>6 DEF ParentsOlder, LeadersLive
<1>3. ASSUME NEW p \in Pids, life[p] # 0, Threads(p) = {}, Leave(p)
      PROVE  ParentsOlder' /\ LeadersLive'
  <2>1. PICK reaper \in {0} \cup Ancestors(p) :
          parent' = [q \in Pids |-> IF q = p THEN 0
                                    ELSE IF parent[q] = p THEN reaper
                                    ELSE parent[q]]
    BY <1>3 DEF Leave
  <2>2. /\ life' = [life EXCEPT ![p] = 0]
        /\ leader' = [leader EXCEPT ![p] = p]
    BY <1>3 DEF Leave
  <2>3. \A q \in Pids : life'[q] # 0 =>
          q # p /\ life'[q] = life[q] /\ life[q] # 0 /\ leader'[q] = leader[q]
    BY <1>0, <2>2
  <2>4. \A q \in Pids : q # p => life'[q] = life[q]
    BY <1>0, <2>2
  <2>5. ASSUME NEW q \in Pids, life'[q] # 0, parent'[q] # 0
        PROVE  life'[parent'[q]] # 0 /\ life'[parent'[q]] < life'[q]
    <3>0. q # p /\ life'[q] = life[q] /\ life[q] # 0
      BY <2>3, <2>5
    <3>1. CASE parent[q] = p
      <4>1. parent'[q] = reaper /\ reaper # 0 /\ reaper \in Ancestors(p)
        BY <2>1, <2>5, <3>0, <3>1
      <4>2. reaper \in Pids /\ life[reaper] # 0 /\ life[reaper] < life[p]
        BY <1>0, <1>3, <4>1, AncestorsOlder DEF GraphInv
      <4>3. life[p] < life[q] /\ life[p] \in Nat
        BY <1>0, <3>0, <3>1 DEF ParentsOlder
      <4>4. reaper # p /\ life'[reaper] = life[reaper] /\ life[reaper] \in Nat
            /\ life[q] \in Nat
        BY <1>0, <2>4, <4>2
      <4>5. QED
        BY <3>0, <4>1, <4>2, <4>3, <4>4
    <3>2. CASE parent[q] # p
      <4>1. parent'[q] = parent[q] /\ parent[q] \in Pids
        BY <1>0, <2>1, <2>5, <3>0, <3>2
      <4>2. life[parent[q]] # 0 /\ life[parent[q]] < life[q]
        BY <2>5, <3>0, <4>1 DEF ParentsOlder
      <4>3. QED
        BY <2>4, <3>0, <3>2, <4>1, <4>2
    <3>3. QED
      BY <3>1, <3>2
  <2>6. ASSUME NEW q \in Pids, life'[q] # 0
        PROVE  life'[leader'[q]] # 0 /\ life'[leader'[q]] <= life'[q]
    <3>1. q # p /\ life'[q] = life[q] /\ life[q] # 0 /\ leader'[q] = leader[q]
      BY <2>3, <2>6
    <3>2. leader[q] # p
      BY <1>3, <3>1 DEF Threads, Live
    <3>3. QED
      BY <1>0, <2>4, <3>1, <3>2 DEF LeadersLive
  <2>7. QED
    BY <2>5, <2>6 DEF ParentsOlder, LeadersLive
<1>4. ASSUME NEW c \in Pids, NEW pp \in Pids \cup {0},
             Fork(c, pp) \/ StartThread(c, pp)
      PROVE  ParentsOlder' /\ LeadersLive'
  <2>1. CASE Fork(c, pp)
    <3> DEFINE up == IF pp = 0 THEN 0 ELSE leader[pp]
    <3>1. up \in Pids \cup {0} /\ (up # 0 => life[up] # 0)
      BY <1>0, <2>1 DEF Fork, Live, LeadersLive
    <3>2. NewTask(c, pp, c, up)
      BY <2>1 DEF Fork
    <3> HIDE DEF up
    <3>3. QED
      BY <1>2, <3>1, <3>2
  <2>2. CASE StartThread(c, pp)
    <3>1. pp \in Pids /\ life[pp] # 0 /\ leader[pp] \in Pids
      BY <1>0, <2>2 DEF StartThread, Live
    <3>2. life[leader[pp]] # 0
      BY <3>1 DEF LeadersLive
    <3>3. /\ parent[leader[pp]] \in Pids \cup {0}
          /\ parent[leader[pp]] # 0 => life[parent[leader[pp]]] # 0
      BY <1>0, <3>1, <3>2 DEF ParentsOlder
    <3>4. NewTask(c, pp, leader[pp], parent[leader[pp]])
      BY <2>2 DEF StartThread
    <3>5. QED
      BY <1>2, <3>1, <3>2, <3>3, <3>4
  <2>3. QED
    BY <1>4, <2>1, <2>2
<1>5. ASSUME NEW p \in Pids, Exit(p) \/ LeaveUnseen(p)
      PROVE  ParentsOlder' /\ LeadersLive'
  <2>1. life[p] # 0
    BY <1>5 DEF Exit, LeaveUnseen, Live
  <2>2. \/ Leave(p) /\ Threads(p) = {}
        \/ UNCHANGED <<life, leader, parent>>
    BY <1>5 DEF Exit, LeaveUnseen
  <2>3. QED
    BY <1>1, <1>3, <2>1, <2>2
<1>6. ASSUME NEW p \in Pids,
             \/ Exec(p) \/ ActOnNothing(p) \/ \E o \in Objects : Act(p, o)
             \/ \E t \in Pids : VmWritev(p, t)
      PROVE  UNCHANGED <<life, leader, parent>>
  BY <1>6 DEF Exec, ActOnNothing, Act, VmWritev, host
<1>7. OpenWindow \/ UNCHANGED vars => UNCHANGED <<life, leader, parent>>
  BY DEF OpenWindow, vars, host
<1>8. QED
  BY <1>1, <1>4, <1>5, <1>6, <1>7 DEF Next

(* One event of the process agent about a process and its parent. *)
LEMMA ProcessEventOrdered ==
  ASSUME GraphInv, LineageOrdered, NEW p \in Pids, NEW pp, NEW action, NEW lf, NEW ex,
         pp \in Pids => pp # p /\ lf[pp] < lf[p],
         ProcessEvent(p, pp, action, lf, ex)
  PROVE  LineageOrdered'
<1> DEFINE n == Subject(p, action)
           new == <<instance[pp], n, "process">>
<1>1. TypeOK
  BY DEF GraphInv
<1>2. instance' = [instance EXCEPT ![p] = n] /\ instance \in [Pids -> Node \cup {None}]
  BY <1>1 DEF ProcessEvent, PutSubject, TypeOK
<1>3. /\ stands' = stands \cup StandsFor({p, pp} \cap Pids, instance', lf)
      /\ edges' = edges \cup Lineage(p, pp, action)
  BY DEF ProcessEvent
<1> SUFFICES ASSUME NEW e \in edges', e[3] = "process"
             PROVE  \E a, b \in stands' : a[1] = e[1] /\ b[1] = e[2] /\ a[2] < b[2]
  BY DEF LineageOrdered
<1>4. CASE e \in edges
  BY <1>3, <1>4 DEF LineageOrdered
<1>5. CASE e \in Lineage(p, pp, action)
  <2>1. pp \in Pids /\ Known(pp) /\ e = new
    BY <1>5 DEF Lineage
  <2>2. instance'[p] = n /\ instance'[pp] = instance[pp]
    BY <1>2, <2>1
  <2>3. n # None /\ instance[pp] # None
    BY <1>1, <2>1, SubjectType, NoneIsNoNode DEF Known
  <2>4. <<instance[pp], lf[pp]>> \in stands' /\ <<n, lf[p]>> \in stands'
    <3> HIDE DEF n
    <3>1. /\ <<instance'[pp], lf[pp]>> \in StandsFor({p, pp} \cap Pids, instance', lf)
          /\ <<instance'[p], lf[p]>> \in StandsFor({p, pp} \cap Pids, instance', lf)
      BY <2>1, <2>2, <2>3 DEF StandsFor
    <3>2. QED
      BY <1>3, <2>2, <3>1
  <2>5. QED
    BY <2>1, <2>4
<1>6. QED
  BY <1>3, <1>4, <1>5

(* An event of any other agent draws no edge of lineage. *)
LEMMA OthersOrdered ==
  ASSUME LineageOrdered, stands \subseteq stands',
         \A e \in edges' : e \in edges \/ e[3] # "process"
  PROVE  LineageOrdered'
BY DEF LineageOrdered

LEMMA LineageOrderedInductive ==
  ASSUME GraphInv, DepthInv, [Next]_vars
  PROVE  LineageOrdered'
<1>0. /\ life \in [Pids -> Nat] /\ parent \in [Pids -> Pids \cup {0}]
      /\ lives \in Nat /\ \A q \in Pids : life[q] <= lives
  BY DEF GraphInv, TypeOK, Holds, OneHolder
<1>a. ParentsOlder /\ LineageOrdered
  BY DEF DepthInv
<1>b. ASSUME NEW p \in Pids, life[p] # 0
      PROVE  parent[p] \in Pids => parent[p] # p /\ life[parent[p]] < life[p]
  BY <1>0, <1>a, <1>b, GraphAssumption DEF ParentsOlder
<1>1. CASE UNCHANGED <<edges, stands>>
  BY <1>a, <1>1 DEF LineageOrdered
<1>2. ASSUME NEW c \in Pids, NEW pp \in Pids \cup {0},
             Fork(c, pp) \/ StartThread(c, pp), observing
      PROVE  LineageOrdered'
  <2>0. pp # 0 => life[pp] # 0
    BY <1>2 DEF Fork, StartThread, Live
  <2>1. /\ life[c] = 0
        /\ life' = [life EXCEPT ![c] = lives + 1]
        /\ ProcessEvent(c, pp, "fork", life', execs')
    BY <1>2 DEF Fork, StartThread, NewTask
  <2>2. pp \in Pids => pp # c /\ life'[pp] < life'[c]
    BY <1>0, <2>0, <2>1, GraphAssumption
  <2>3. QED
    BY <1>a, <2>1, <2>2, ProcessEventOrdered
<1>3. ASSUME NEW p \in Pids, Exec(p), observing
      PROVE  LineageOrdered'
  <2>1. life[p] # 0 /\ ProcessEvent(p, parent[p], "exec", life, execs')
    BY <1>3 DEF Exec, Live
  <2>2. QED
    BY <1>a, <1>b, <2>1, ProcessEventOrdered
<1>4. ASSUME NEW p \in Pids, Exit(p), observing
      PROVE  LineageOrdered'
  <2>1. life[p] # 0 /\ ProcessEvent(p, parent[p], "exit", life, execs)
    BY <1>4 DEF Exit, Live
  <2>2. QED
    BY <1>a, <1>b, <2>1, ProcessEventOrdered
<1>5. ASSUME NEW p \in Pids,
             \/ ActOnNothing(p) \/ \E o \in Objects : Act(p, o)
             \/ \E t \in Pids : VmWritev(p, t)
      PROVE  LineageOrdered'
  <2>1. stands \subseteq stands'
    BY <1>5 DEF ActOnNothing, Act, VmWritev
  <2>2. \A e \in edges' : e \in edges \/ e[3] # "process"
    <3>1. CASE ActOnNothing(p)
      BY <3>1 DEF ActOnNothing
    <3>2. ASSUME NEW o \in Objects, Act(p, o)
          PROVE  \A e \in edges' : e \in edges \/ e[3] # "process"
      BY <3>2 DEF Act
    <3>3. ASSUME NEW t \in Pids, VmWritev(p, t)
          PROVE  \A e \in edges' : e \in edges \/ e[3] # "process"
      BY <3>3 DEF VmWritev
    <3>4. QED
      BY <1>5, <3>1, <3>2, <3>3
  <2>3. QED
    BY <1>a, <2>1, <2>2, OthersOrdered
<1>6. QED
  <2>1. ASSUME NEW p \in Pids,
               \/ Exec(p) \/ Exit(p) \/ LeaveUnseen(p)
               \/ \E pp \in Pids \cup {0} : Fork(p, pp) \/ StartThread(p, pp),
               ~observing \/ LeaveUnseen(p)
        PROVE  UNCHANGED <<edges, stands>>
    BY <2>1 DEF Exec, Exit, LeaveUnseen, Fork, StartThread, NewTask, Unseen,
       graph, history
  <2>2. OpenWindow \/ UNCHANGED vars => UNCHANGED <<edges, stands>>
    BY DEF OpenWindow, vars, graph, history
  <2>3. QED
    BY <1>1, <1>2, <1>3, <1>4, <1>5, <2>1, <2>2 DEF Next

LEMMA DepthInvInductive ==
  ASSUME GraphInv, DepthInv, [Next]_vars
  PROVE  DepthInv'
BY TasksInductive, LineageOrderedInductive DEF DepthInv

(* The process a node stands for is its rank, which every edge of lineage   *)
(* raises; so a node lies no further below a root than there are nodes of   *)
(* a lower rank.                                                            *)
StandsAs(n) ==
  IF \E r : <<n, r>> \in stands THEN CHOOSE r : <<n, r>> \in stands ELSE 0

BelowOf(n) == {m \in ProcessNodes : StandsAs(m) < StandsAs(n)}

LEMMA RankRises ==
  ASSUME TypeOK, LineageOrdered, \A n \in ProcessNodes : ~Mixed(n)
  PROVE  /\ \A n : StandsAs(n) \in Nat
         /\ \A m, n \in ProcessNodes :
              <<m, n>> \in ProcessEdges => StandsAs(m) < StandsAs(n)
<1>1. \A a \in stands : a = <<a[1], a[2]>> /\ a[2] \in Nat
  BY DEF TypeOK
<1>2. \A a \in stands : a[1] \in ProcessNodes => StandsAs(a[1]) = a[2]
  <2> SUFFICES ASSUME NEW a \in stands, a[1] \in ProcessNodes
               PROVE  StandsAs(a[1]) = a[2]
    OBVIOUS
  <2> DEFINE r == CHOOSE r : <<a[1], r>> \in stands
  <2>1. <<a[1], a[2]>> \in stands
    BY <1>1
  <2>2. StandsAs(a[1]) = r /\ <<a[1], r>> \in stands
    BY <2>1, Zenon DEF StandsAs
  <2> HIDE DEF r
  <2>3. \A u, v \in stands : u[1] = a[1] /\ v[1] = a[1] => u[2] = v[2]
    BY DEF Mixed
  <2>4. r = a[2]
    BY <2>1, <2>2, <2>3
  <2>5. QED
    BY <2>2, <2>4
<1>3. ASSUME NEW n
      PROVE  StandsAs(n) \in Nat
  <2>1. CASE \E r : <<n, r>> \in stands
    <3>1. <<n, StandsAs(n)>> \in stands
      BY <2>1, Zenon DEF StandsAs
    <3>2. QED
      BY <1>1, <3>1
  <2>2. CASE ~\E r : <<n, r>> \in stands
    BY <2>2 DEF StandsAs
  <2>3. QED
    BY <2>1, <2>2
<1>4. ASSUME NEW m \in ProcessNodes, NEW n \in ProcessNodes,
             <<m, n>> \in ProcessEdges
      PROVE  StandsAs(m) < StandsAs(n)
  <2>1. PICK e \in edges : e[3] = "process" /\ e[1] = m /\ e[2] = n
    BY <1>4 DEF ProcessEdges
  <2>2. PICK a \in stands, b \in stands : a[1] = m /\ b[1] = n /\ a[2] < b[2]
    BY <2>1 DEF LineageOrdered
  <2>3. QED
    BY <1>2, <2>2
<1>5. QED
  BY <1>3, <1>4

LEMMA DepthFollows ==
  ASSUME TypeOK, LineageOrdered
  PROVE  DepthSeesAll
<1> SUFFICES ASSUME \A n \in ProcessNodes : ~Mixed(n)
             PROVE  ProcessNodes \subseteq Reached
  BY DEF DepthSeesAll
<1>1. PICK L : Levels(L) /\ Reached = L[Cardinality(ProcessNodes)]
  BY ReachedIsLevel
<1>2. IsFiniteSet(ProcessNodes)
  BY NodesFinite DEF TypeOK
<1>3. ASSUME NEW n
      PROVE  /\ BelowOf(n) \in SUBSET ProcessNodes /\ IsFiniteSet(BelowOf(n))
             /\ Cardinality(BelowOf(n)) \in Nat
             /\ Cardinality(BelowOf(n)) <= Cardinality(ProcessNodes)
  <2>1. BelowOf(n) \in SUBSET ProcessNodes
    BY DEF BelowOf
  <2>2. QED
    BY <1>2, <2>1, FS_Subset, FS_CardinalityType
<1>4. Cardinality(ProcessNodes) \in Nat
  BY <1>2, FS_CardinalityType
<1> DEFINE Lost == {n \in ProcessNodes : n \notin L[Cardinality(BelowOf(n))]}
<1>5. Lost = {}
  <2> SUFFICES ASSUME Lost # {}
               PROVE  FALSE
    OBVIOUS
  <2>1. PICK n \in Lost : \A m \in Lost : StandsAs(n) <= StandsAs(m)
    <3> DEFINE ranks == {StandsAs(m) : m \in Lost}
    <3>1. ranks \in SUBSET Nat /\ ranks # {}
      BY RankRises
    <3> HIDE DEF ranks
    <3>2. PICK r \in ranks : \A s \in ranks : r <= s
      BY <3>1, LeastNatural
    <3>3. QED
      BY <3>2 DEF ranks
  <2>2. n \in ProcessNodes /\ n \notin L[Cardinality(BelowOf(n))]
    BY <2>1
  <2>3. L[0] = Roots
    BY <1>1 DEF Levels
  <2>4. n \notin Roots
    <3>1. 0 <= Cardinality(BelowOf(n)) /\ 0 \in Nat
      BY <1>3
    <3>2. L[0] \subseteq L[Cardinality(BelowOf(n))]
      BY <1>1, <1>3, <3>1, LevelsGrow
    <3>3. QED
      BY <2>2, <2>3, <3>2
  <2>5. PICK m \in ProcessNodes : <<m, n>> \in ProcessEdges
    BY <2>2, <2>4 DEF Roots
  <2>6. StandsAs(m) < StandsAs(n)
    BY <2>2, <2>5, RankRises
  <2>7. m \in L[Cardinality(BelowOf(m))]
    <3>1. StandsAs(m) \in Nat /\ StandsAs(n) \in Nat
      BY RankRises
    <3>2. m \notin Lost
      BY <2>1, <2>6, <3>1
    <3>3. QED
      BY <3>2
  <2> HIDE DEF Lost
  <2>8. Cardinality(BelowOf(m)) + 1 <= Cardinality(BelowOf(n))
    <3>1. /\ StandsAs(m) \in Nat /\ StandsAs(n) \in Nat
          /\ \A k \in ProcessNodes : StandsAs(k) \in Nat
      BY RankRises
    <3>2. m \notin BelowOf(m) /\ BelowOf(m) \cup {m} \in SUBSET BelowOf(n)
      BY <2>5, <2>6, <3>1 DEF BelowOf
    <3>3. Cardinality(BelowOf(m) \cup {m}) = Cardinality(BelowOf(m)) + 1
      BY <1>3, <3>2, FS_AddElement
    <3>4. Cardinality(BelowOf(m) \cup {m}) <= Cardinality(BelowOf(n))
      BY <1>3, <3>2, FS_Subset
    <3>5. QED
      BY <3>3, <3>4
  <2> DEFINE k == Cardinality(BelowOf(m))
  <2>9. k \in Nat /\ k + 1 \in Nat /\ k + 1 # 0 /\ (k + 1) - 1 = k
    BY <1>3
  <2> HIDE DEF k
  <2>10. L[k + 1] = Deeper(L[k])
    BY <1>1, <2>9 DEF Levels
  <2>11. n \in L[k + 1]
    BY <2>2, <2>5, <2>7, <2>10 DEF Deeper, k
  <2>12. L[k + 1] \subseteq L[Cardinality(BelowOf(n))]
    BY <1>1, <1>3, <2>8, <2>9, LevelsGrow DEF k
  <2>13. QED
    BY <2>2, <2>11, <2>12
<1>6. ASSUME NEW n \in ProcessNodes
      PROVE  n \in Reached
  <2>1. n \in L[Cardinality(BelowOf(n))]
    BY <1>5
  <2>2. L[Cardinality(BelowOf(n))] \subseteq L[Cardinality(ProcessNodes)]
    BY <1>1, <1>3, <1>4, LevelsGrow
  <2>3. QED
    BY <1>1, <2>1, <2>2
<1>7. QED
  BY <1>6

(* For every host and session, while no node has stood for two processes    *)
(* every process lies below a root (graph_summary).                         *)
THEOREM DepthSeesAllCorrect == Spec => []DepthSeesAll
<1>1. GraphInv => TypeOK
  BY DEF GraphInv
<1>2. DepthInv => LineageOrdered
  BY DEF DepthInv
<1>3. QED
  BY GraphInvInit, GraphInvInductive, DepthInit, DepthInvInductive,
     DepthFollows, <1>1, <1>2, PTL DEF Spec
=============================================================================
