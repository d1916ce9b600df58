--------------------------- MODULE FileAgentProofs ---------------------------
(***************************************************************************)
(* The names of descriptors, the agent's own writes and the work they make *)
(* for it, for every number of threads, processes, descriptors and names   *)
(* and every size of the maps.                                             *)
(***************************************************************************)
EXTENDS FileAgent, FiniteSetTheorems, FunctionTheorems, SequenceTheorems,
        TLAPS

(* What the argument needs of the types. *)
MapTypes ==
  /\ table \in [Pids -> [Fds -> Descriptor]]
  /\ thr \in [Threads -> ThreadState]
  /\ inflight \in [Threads -> Name]
  /\ fdPaths \in [Pids \X Fds -> Name]

(* A thread that is opening a file has its own name in flight. *)
InflightRight ==
  \A t \in Threads :
    thr[t].at \in {"entered", "opened"} =>
      thr[t].path \in Paths /\ (thr[t].noted => inflight[t] = thr[t].path)

(* The descriptor that openat has made is there and waits for its return. *)
OpeningHeld ==
  \A t \in Threads :
    thr[t].at = "opened" =>
      /\ thr[t].fd \in Fds
      /\ table[Pid[t]][thr[t].fd] = [by |-> "opening", path |-> thr[t].path]

(* No two openat calls of one process wait with the same descriptor. *)
OpeningApart ==
  \A t, u \in Threads :
    t # u /\ thr[t].at = "opened" /\ thr[u].at = "opened" /\ Pid[t] = Pid[u] =>
      thr[t].fd # thr[u].fd

NameInv ==
  MapTypes /\ InflightRight /\ OpeningHeld /\ OpeningApart /\ OpenedPathsRight

LEMMA OriginTypes ==
  /\ Closed \in Descriptor /\ Other \in Descriptor
  /\ Closed.by = "closed" /\ Other.by = "other"
  /\ AtUser \in ThreadState
  /\ AtUser.at = "user"
  /\ "" \in Name /\ Paths \subseteq Name
  BY DEF Closed, Other, AtUser, Origin, Name, Descriptor, ThreadState

(* It holds at the start: no descriptor was made by openat. *)
LEMMA NameInit == Init => NameInv
  <1> SUFFICES ASSUME Init PROVE NameInv
    OBVIOUS
  <1>1. \A p \in Pids, f \in Fds : table[p][f] \in {Other, Closed}
    BY DEF Init
  <1>2. MapTypes
    <2>1. table \in [Pids -> [Fds -> Descriptor]]
      BY OriginTypes DEF Init
    <2>2. thr \in [Threads -> ThreadState]
      BY OriginTypes DEF Init
    <2>3. inflight \in [Threads -> Name] /\ fdPaths \in [Pids \X Fds -> Name]
      BY OriginTypes DEF Init
    <2>4. QED
      BY <2>1, <2>2, <2>3 DEF MapTypes
  <1>3. InflightRight /\ OpeningHeld /\ OpeningApart
    BY OriginTypes DEF Init, InflightRight, OpeningHeld, OpeningApart
  <1>4. OpenedPathsRight
    BY <1>1, OriginTypes DEF OpenedPathsRight
  <1>5. QED
    BY <1>2, <1>3, <1>4 DEF NameInv

(* Steps that leave the table, the maps and the threads alone. *)
LEMMA NameIdle ==
  NameInv /\ UNCHANGED <<table, thr, inflight, fdPaths>> => NameInv'
  <1> SUFFICES ASSUME NameInv, UNCHANGED <<table, thr, inflight, fdPaths>>
               PROVE  NameInv'
    OBVIOUS
  <1>1. MapTypes'
    BY DEF NameInv, MapTypes
  <1>2. InflightRight'
    BY DEF NameInv, InflightRight
  <1>3. OpeningHeld' /\ OpeningApart'
    BY DEF NameInv, OpeningHeld, OpeningApart
  <1>4. OpenedPathsRight'
    BY DEF NameInv, OpenedPathsRight
  <1>5. QED
    BY <1>1, <1>2, <1>3, <1>4 DEF NameInv

LEMMA NameEnterOpen ==
  ASSUME NameInv, NEW t \in Threads, NEW path \in Paths, NEW readable \in BOOLEAN,
         EnterOpen(t, path, readable)
  PROVE  NameInv'
  <1> DEFINE noted == readable /\ HasRoom(inflight, t)
  <1>1. /\ inflight' = IF noted THEN [inflight EXCEPT ![t] = path] ELSE inflight
        /\ thr' = [thr EXCEPT ![t] = [at |-> "entered", path |-> path,
                                      noted |-> noted, fd |-> 0]]
        /\ UNCHANGED <<table, fdPaths>>
    BY DEF EnterOpen
  <1>2. noted \in BOOLEAN
    BY DEF HasRoom
  <1> HIDE DEF noted
  <1> USE DEF NameInv, MapTypes
  <1>3. MapTypes'
    <2>1. [at |-> "entered", path |-> path, noted |-> noted, fd |-> 0] \in ThreadState
      BY <1>2, OriginTypes DEF ThreadState
    <2>2. thr' \in [Threads -> ThreadState]
      BY <1>1, <2>1
    <2>3. inflight' \in [Threads -> Name]
      BY <1>1, OriginTypes
    <2>4. QED
      BY <1>1, <2>2, <2>3
  <1>4. InflightRight'
    BY <1>1, <1>2 DEF InflightRight
  <1>5. OpeningHeld' /\ OpeningApart'
    BY <1>1, <1>2 DEF OpeningHeld, OpeningApart
  <1>6. OpenedPathsRight'
    BY <1>1 DEF OpenedPathsRight
  <1>7. QED
    BY <1>3, <1>4, <1>5, <1>6

LEMMA NameDoOpen ==
  ASSUME NameInv, NEW t \in Threads, DoOpen(t)
  PROVE  NameInv'
  <1> DEFINE made == [by |-> "opening", path |-> thr[t].path]
  <1>1. PICK f \in Fds :
          /\ thr[t].at = "entered"
          /\ table[Pid[t]][f] = Closed
          /\ table' = [table EXCEPT ![Pid[t]][f] = made]
          /\ thr' = [thr EXCEPT ![t] = [@ EXCEPT !.at = "opened", !.fd = f]]
          /\ UNCHANGED <<inflight, fdPaths>>
    BY DEF DoOpen
  <1> DEFINE waits == [thr[t] EXCEPT !.at = "opened", !.fd = f]
  <1> USE DEF NameInv, MapTypes
  <1>2. Pid[t] \in Pids /\ \A u \in Threads : Pid[u] \in Pids
    BY FileAgentAssumption
  <1>3. /\ waits \in ThreadState /\ waits.at = "opened" /\ waits.fd = f
        /\ waits.path = thr[t].path /\ waits.noted = thr[t].noted
    <2>1. thr[t] \in ThreadState
      OBVIOUS
    <2>2. QED
      BY <2>1 DEF ThreadState
  <1>4. made \in Descriptor /\ made.by = "opening"
    <2>1. thr[t] \in ThreadState
      OBVIOUS
    <2>2. thr[t].path \in Name
      BY <2>1 DEF ThreadState
    <2>3. QED
      BY <2>2 DEF Descriptor, Origin
  <1>5. thr' = [thr EXCEPT ![t] = waits]
    BY <1>1
  <1> HIDE DEF made, waits
  <1>6. /\ table'[Pid[t]][f] = made
        /\ \A p \in Pids, g \in Fds :
             p # Pid[t] \/ g # f => table'[p][g] = table[p][g]
    BY <1>1, <1>2
  <1>7. thr'[t] = waits /\ \A u \in Threads : u # t => thr'[u] = thr[u]
    BY <1>5
  <1>8. MapTypes'
    <2>1. table' \in [Pids -> [Fds -> Descriptor]]
      BY <1>1, <1>2, <1>4
    <2>2. thr' \in [Threads -> ThreadState]
      BY <1>5, <1>3
    <2>3. QED
      BY <1>1, <2>1, <2>2
  <1>9. InflightRight'
    BY <1>1, <1>3, <1>7 DEF InflightRight
  <1>10. \A u \in Threads :
          u # t /\ thr[u].at = "opened" /\ Pid[u] = Pid[t] => thr[u].fd # f
    <2> SUFFICES ASSUME NEW u \in Threads, thr[u].at = "opened",
                        Pid[u] = Pid[t], thr[u].fd = f
                 PROVE  FALSE
      OBVIOUS
    <2>1. table[Pid[t]][f].by = "opening"
      <3>1. table[Pid[u]][thr[u].fd] = [by |-> "opening", path |-> thr[u].path]
        BY DEF OpeningHeld
      <3>2. QED
        BY <3>1
    <2>2. table[Pid[t]][f].by = "closed"
      BY <1>1, OriginTypes
    <2>3. QED
      BY <2>1, <2>2
  <1>11. OpeningHeld'
    <2> SUFFICES ASSUME NEW u \in Threads, thr'[u].at = "opened"
                 PROVE  /\ thr'[u].fd \in Fds
                        /\ table'[Pid[u]][thr'[u].fd] =
                             [by |-> "opening", path |-> thr'[u].path]
      BY DEF OpeningHeld
    <2>1. CASE u = t
      BY <2>1, <1>3, <1>6, <1>7 DEF made
    <2>2. CASE u # t
      BY <2>2, <1>2, <1>6, <1>7, <1>10 DEF OpeningHeld
    <2>3. QED
      BY <2>1, <2>2
  <1>12. OpeningApart'
    BY <1>3, <1>7, <1>10 DEF OpeningApart
  <1>13. OpenedPathsRight'
    BY <1>1, <1>2, <1>4, <1>6 DEF OpenedPathsRight
  <1>14. QED
    BY <1>8, <1>9, <1>11, <1>12, <1>13

LEMMA NameOpenFails ==
  ASSUME NameInv, NEW t \in Threads, OpenFails(t)
  PROVE  NameInv'
  <1>1. /\ thr' = [thr EXCEPT ![t].at = "failed"]
        /\ UNCHANGED <<table, inflight, fdPaths>>
    BY DEF OpenFails
  <1> USE DEF NameInv, MapTypes
  <1>2. MapTypes'
    <2>1. [thr[t] EXCEPT !.at = "failed"] \in ThreadState
      <3>1. thr[t] \in ThreadState
        OBVIOUS
      <3>2. QED
        BY <3>1 DEF ThreadState
    <2>2. thr' \in [Threads -> ThreadState]
      BY <1>1, <2>1
    <2>3. QED
      BY <1>1, <2>2
  <1>3. InflightRight' /\ OpeningHeld' /\ OpeningApart'
    BY <1>1 DEF InflightRight, OpeningHeld, OpeningApart
  <1>4. OpenedPathsRight'
    BY <1>1 DEF OpenedPathsRight
  <1>5. QED
    BY <1>2, <1>3, <1>4

LEMMA NameExitOpen ==
  ASSUME NameInv, NEW t \in Threads, ExitOpen(t)
  PROVE  NameInv'
  <1> DEFINE f == thr[t].fd
             key == <<Pid[t], f>>
             update == thr[t].at = "opened" /\ inflight[t] # ""
             origin == IF thr[t].noted THEN "openat" ELSE "unnoted"
  <1>1. /\ thr[t].at \in {"opened", "failed"}
        /\ fdPaths' = IF update /\ HasRoom(fdPaths, key)
                      THEN [fdPaths EXCEPT ![key] = inflight[t]] ELSE fdPaths
        /\ inflight' = [inflight EXCEPT ![t] = ""]
        /\ table' = IF thr[t].at = "failed" THEN table
                    ELSE [table EXCEPT ![Pid[t]][f].by = origin]
        /\ thr' = [thr EXCEPT ![t] = Returned(t)]
    BY DEF ExitOpen
  <1>2. ~HasRoom(fdPaths, key) => fdPaths[key] = ""
    BY DEF HasRoom
  <1> USE DEF NameInv, MapTypes
  <1>3. Pid[t] \in Pids /\ \A u \in Threads : Pid[u] \in Pids
    BY FileAgentAssumption
  <1>4. Returned(t) \in ThreadState /\ Returned(t).at = "user"
    <2>1. thr[t] \in ThreadState
      OBVIOUS
    <2>2. thr[t].fd \in Fds \cup {0}
      BY <2>1 DEF ThreadState
    <2>3. QED
      BY <2>2 DEF Returned, AtUser, ThreadState, Name
  <1> HIDE DEF update
  <1>5. thr'[t] = Returned(t) /\ \A u \in Threads : u # t => thr'[u] = thr[u]
    BY <1>1
  <1>6. thr' \in [Threads -> ThreadState] /\ inflight' \in [Threads -> Name]
    BY <1>1, <1>4, OriginTypes
  <1>7. InflightRight'
    BY <1>1, <1>4, <1>5 DEF InflightRight
  <1>8. OpeningApart'
    BY <1>4, <1>5 DEF OpeningApart
  <1>9. CASE thr[t].at = "failed"
    <2>1. table' = table /\ fdPaths' = fdPaths
      BY <1>1, <1>9 DEF update
    <2>2. MapTypes'
      BY <1>6, <2>1
    <2>3. OpeningHeld'
      BY <1>4, <1>5, <2>1 DEF OpeningHeld
    <2>4. OpenedPathsRight'
      BY <2>1 DEF OpenedPathsRight
    <2>5. QED
      BY <1>7, <1>8, <2>2, <2>3, <2>4
  <1>10. CASE thr[t].at = "opened"
    <2>1. f \in Fds /\ table[Pid[t]][f] = [by |-> "opening", path |-> thr[t].path]
      BY <1>10 DEF OpeningHeld
    <2> DEFINE made == [by |-> origin, path |-> thr[t].path]
    <2> HIDE DEF f
    <2>2. table' = [table EXCEPT ![Pid[t]][f] = made]
      <3>1. [table[Pid[t]][f] EXCEPT !.by = origin] = made
        BY <2>1
      <3>2. QED
        BY <1>1, <1>10, <3>1
    <2>3. made \in Descriptor
      <3>1. thr[t].path \in Name
        <4>1. thr[t] \in ThreadState
          OBVIOUS
        <4>2. QED
          BY <4>1 DEF ThreadState
      <3>2. QED
        BY <3>1 DEF Descriptor, Origin
    <2>4. /\ made.by = "openat" => thr[t].noted
          /\ made.path = thr[t].path /\ made.by # "opening"
      OBVIOUS
    <2> HIDE DEF made
    <2>5. /\ table'[Pid[t]][f] = made
          /\ \A p \in Pids, g \in Fds :
               p # Pid[t] \/ g # f => table'[p][g] = table[p][g]
      BY <1>3, <2>1, <2>2
    <2>6. table' \in [Pids -> [Fds -> Descriptor]]
      BY <1>3, <2>1, <2>2, <2>3
    <2>7. /\ key \in Pids \X Fds
          /\ fdPaths' \in [Pids \X Fds -> Name]
          /\ fdPaths'[key] \in {fdPaths[key], inflight[t]}
          /\ \A k \in Pids \X Fds : k # key => fdPaths'[k] = fdPaths[k]
      BY <1>1, <1>3, <2>1
    <2>8. MapTypes'
      BY <1>6, <2>6, <2>7
    <2>9. \A u \in Threads :
            u # t /\ thr[u].at = "opened" => Pid[u] # Pid[t] \/ thr[u].fd # f
      BY <1>10 DEF OpeningApart, f
    <2>10. OpeningHeld'
      <3> SUFFICES ASSUME NEW u \in Threads, thr'[u].at = "opened"
                   PROVE  /\ thr'[u].fd \in Fds
                          /\ table'[Pid[u]][thr'[u].fd] =
                               [by |-> "opening", path |-> thr'[u].path]
        BY DEF OpeningHeld
      <3>1. u # t /\ thr'[u] = thr[u]
        BY <1>4, <1>5
      <3>2. QED
        BY <1>3, <2>5, <2>9, <3>1 DEF OpeningHeld
    <2>11. thr[t].noted => fdPaths'[key] \in {"", thr[t].path}
      <3> SUFFICES ASSUME thr[t].noted PROVE fdPaths'[key] \in {"", thr[t].path}
        OBVIOUS
      <3>1. inflight[t] = thr[t].path
        BY <1>10 DEF InflightRight
      <3>2. CASE update /\ HasRoom(fdPaths, key)
        BY <1>1, <2>7, <3>1, <3>2
      <3>3. CASE ~update
        <4>1. inflight[t] = ""
          BY <1>10, <3>3 DEF update
        <4>2. FALSE
          BY <1>10, <3>1, <4>1, FileAgentAssumption DEF InflightRight
        <4>3. QED
          BY <4>2
      <3>4. CASE ~HasRoom(fdPaths, key)
        BY <1>1, <1>2, <3>4
      <3>5. QED
        BY <3>2, <3>3, <3>4
    <2>12. OpenedPathsRight'
      <3> SUFFICES ASSUME NEW p \in Pids, NEW g \in Fds, table'[p][g].by = "openat"
                   PROVE  fdPaths'[<<p, g>>] \in {"", table'[p][g].path}
        BY DEF OpenedPathsRight
      <3>1. CASE p = Pid[t] /\ g = f
        BY <2>4, <2>5, <2>11, <3>1
      <3>2. CASE ~(p = Pid[t] /\ g = f)
        <4>1. table'[p][g] = table[p][g]
          BY <2>5, <3>2
        <4>2. <<p, g>> # key
          BY <3>2
        <4>3. QED
          BY <2>7, <4>1, <4>2 DEF OpenedPathsRight
      <3>3. QED
        BY <3>1, <3>2
    <2>13. QED
      BY <1>7, <1>8, <2>8, <2>10, <2>12
  <1>11. QED
    BY <1>1, <1>9, <1>10

LEMMA NameEnterClose ==
  ASSUME NameInv, NEW t \in Threads, NEW f \in Fds, EnterClose(t, f)
  PROVE  NameInv'
  <1> DEFINE closing == [AtUser EXCEPT !.at = "closing", !.fd = f]
  <1>1. /\ fdPaths' = [fdPaths EXCEPT ![<<Pid[t], f>>] = ""]
        /\ thr' = [thr EXCEPT ![t] = closing]
        /\ UNCHANGED <<table, inflight>>
    BY DEF EnterClose
  <1> USE DEF NameInv, MapTypes
  <1>2. closing \in ThreadState /\ closing.at = "closing"
    BY OriginTypes DEF AtUser, ThreadState
  <1> HIDE DEF closing
  <1>3. MapTypes'
    <2>1. thr' \in [Threads -> ThreadState]
      BY <1>1, <1>2
    <2>2. fdPaths' \in [Pids \X Fds -> Name]
      BY <1>1, OriginTypes
    <2>3. QED
      BY <1>1, <2>1, <2>2
  <1>4. InflightRight' /\ OpeningHeld' /\ OpeningApart'
    BY <1>1, <1>2 DEF InflightRight, OpeningHeld, OpeningApart
  <1>5. OpenedPathsRight'
    BY <1>1 DEF OpenedPathsRight
  <1>6. QED
    BY <1>3, <1>4, <1>5

(* A step that leaves the maps alone, puts every thread of p it touches back *)
(* into user space and gives descriptors of p to none that is opening.       *)
LEMMA NameTableStep ==
  ASSUME NameInv, NEW p \in Pids,
         UNCHANGED <<inflight, fdPaths>>,
         table' \in [Pids -> [Fds -> Descriptor]],
         thr' \in [Threads -> ThreadState],
         \A u \in Threads : thr'[u] = thr[u] \/ thr'[u].at = "user",
         \A q \in Pids, g \in Fds :
           table'[q][g] # table[q][g] =>
             /\ table'[q][g].by \in {"closed", "other"}
             /\ \/ table[q][g].by # "opening"
                \/ q = p /\ \A u \in Threads : Pid[u] = p => thr'[u].at = "user"
  PROVE  NameInv'
  <1> USE DEF NameInv
  <1>1. MapTypes'
    BY DEF MapTypes
  <1>2. InflightRight'
    BY DEF InflightRight
  <1>3. OpeningApart'
    BY DEF OpeningApart
  <1>4. OpeningHeld'
    <2> SUFFICES ASSUME NEW u \in Threads, thr'[u].at = "opened"
                 PROVE  /\ thr'[u].fd \in Fds
                        /\ table'[Pid[u]][thr'[u].fd] =
                             [by |-> "opening", path |-> thr'[u].path]
      BY DEF OpeningHeld
    <2>1. thr'[u] = thr[u]
      OBVIOUS
    <2>2. /\ thr[u].fd \in Fds
          /\ table[Pid[u]][thr[u].fd] = [by |-> "opening", path |-> thr[u].path]
      BY <2>1 DEF OpeningHeld
    <2>3. table[Pid[u]][thr[u].fd].by = "opening"
      <3> HIDE DEF NameInv
      <3>1. QED
        BY <2>2
    <2>4. Pid[u] \in Pids
      BY FileAgentAssumption
    <2>5. table'[Pid[u]][thr[u].fd] = table[Pid[u]][thr[u].fd]
      BY <2>2, <2>3, <2>4
    <2>6. QED
      BY <2>1, <2>2, <2>5
  <1>5. OpenedPathsRight'
    <2> SUFFICES ASSUME NEW q \in Pids, NEW g \in Fds, table'[q][g].by = "openat"
                 PROVE  fdPaths'[<<q, g>>] \in {"", table'[q][g].path}
      BY DEF OpenedPathsRight
    <2>1. table'[q][g] = table[q][g]
      OBVIOUS
    <2>2. QED
      BY <2>1 DEF OpenedPathsRight
  <1>6. QED
    BY <1>1, <1>2, <1>3, <1>4, <1>5

LEMMA NameDoClose ==
  ASSUME NameInv, NEW t \in Threads, DoClose(t)
  PROVE  NameInv'
  <1> DEFINE f == thr[t].fd
  <1>1. /\ table' = IF Usable(Pid[t], f)
                    THEN [table EXCEPT ![Pid[t]][f] = Closed] ELSE table
        /\ thr' = [thr EXCEPT ![t] = AtUser]
        /\ UNCHANGED <<inflight, fdPaths>>
    BY DEF DoClose
  <1> USE DEF NameInv, MapTypes
  <1>2. Pid[t] \in Pids
    BY FileAgentAssumption
  <1>3. thr' \in [Threads -> ThreadState]
    BY <1>1, OriginTypes
  <1>4. \A u \in Threads : thr'[u] = thr[u] \/ thr'[u].at = "user"
    BY <1>1, OriginTypes
  <1>5. Closed \in Descriptor /\ Closed.by = "closed"
    BY OriginTypes
  <1> HIDE DEF f
  <1>6. table' \in [Pids -> [Fds -> Descriptor]]
    BY <1>1, <1>2, <1>5
  <1>7. \A q \in Pids, g \in Fds :
          table'[q][g] # table[q][g] =>
            table'[q][g].by = "closed" /\ table[q][g].by # "opening"
    BY <1>1, <1>2, <1>5 DEF Usable
  <1>8. \A q \in Pids, g \in Fds :
          table'[q][g] # table[q][g] =>
            /\ table'[q][g].by \in {"closed", "other"}
            /\ \/ table[q][g].by # "opening"
               \/ q = Pid[t] /\ \A u \in Threads : Pid[u] = Pid[t] => thr'[u].at = "user"
    BY <1>7
  <1>9. UNCHANGED <<inflight, fdPaths>>
    BY <1>1
  <1> HIDE DEF NameInv, MapTypes
  <1>10. QED
    BY <1>2, <1>3, <1>4, <1>6, <1>8, <1>9, NameTableStep

LEMMA NameOtherCall ==
  ASSUME NameInv, NEW t \in Threads, NEW f \in Fds, OtherCall(t, f)
  PROVE  NameInv'
  <1>1. /\ table[Pid[t]][f].by # "opening"
        /\ table' = [table EXCEPT ![Pid[t]][f] = Other]
        /\ UNCHANGED <<thr, inflight, fdPaths>>
    BY DEF OtherCall
  <1> USE DEF NameInv, MapTypes
  <1>2. Pid[t] \in Pids
    BY FileAgentAssumption
  <1>3. Other \in Descriptor /\ Other.by = "other"
    BY OriginTypes
  <1>4. table' \in [Pids -> [Fds -> Descriptor]]
    BY <1>1, <1>2, <1>3
  <1>5. \A q \in Pids, g \in Fds :
          table'[q][g] # table[q][g] =>
            table'[q][g].by = "other" /\ table[q][g].by # "opening"
    BY <1>1, <1>2, <1>3
  <1>6. QED
    BY <1>1, <1>2, <1>4, <1>5, NameTableStep

LEMMA NameReplace ==
  ASSUME NameInv, NEW p \in Pids, Replace(p)
  PROVE  NameInv'
  <1>1. PICK d \in Inherited : table' = [table EXCEPT ![p] = d]
    BY DEF Replace
  <1>2. /\ thr' = [t \in Threads |-> IF Pid[t] = p THEN AtUser ELSE thr[t]]
        /\ UNCHANGED <<inflight, fdPaths>>
    BY DEF Replace
  <1> USE DEF NameInv, MapTypes
  <1>3. /\ d \in [Fds -> Descriptor]
        /\ \A g \in Fds : d[g].by \in {"closed", "other"}
    BY OriginTypes DEF Inherited
  <1>4. table' \in [Pids -> [Fds -> Descriptor]]
    BY <1>1, <1>3
  <1>5. /\ thr' \in [Threads -> ThreadState]
        /\ \A u \in Threads : thr'[u] = thr[u] \/ thr'[u].at = "user"
        /\ \A u \in Threads : Pid[u] = p => thr'[u].at = "user"
    BY <1>2, OriginTypes
  <1>6. \A q \in Pids, g \in Fds :
          table'[q][g] # table[q][g] =>
            q = p /\ table'[q][g].by \in {"closed", "other"}
    BY <1>1, <1>3
  <1>7. \A q \in Pids, g \in Fds :
          table'[q][g] # table[q][g] =>
            /\ table'[q][g].by \in {"closed", "other"}
            /\ \/ table[q][g].by # "opening"
               \/ q = p /\ \A u \in Threads : Pid[u] = p => thr'[u].at = "user"
    BY <1>5, <1>6
  <1> HIDE DEF NameInv, MapTypes
  <1>8. QED
    BY <1>2, <1>4, <1>5, <1>7, NameTableStep

LEMMA NameSystemCall ==
  ASSUME NameInv, NEW t \in Threads, SystemCall(t)
  PROVE  NameInv'
  <1>1. CASE \E path \in Paths, readable \in BOOLEAN : EnterOpen(t, path, readable)
    BY <1>1, NameEnterOpen
  <1>2. CASE DoOpen(t)
    BY <1>2, NameDoOpen
  <1>3. CASE OpenFails(t)
    BY <1>3, NameOpenFails
  <1>4. CASE ExitOpen(t)
    BY <1>4, NameExitOpen
  <1>5. CASE \E f \in Fds : EnterClose(t, f)
    BY <1>5, NameEnterClose
  <1>6. CASE \E f \in Fds : Write(t, f)
    BY <1>6, NameIdle DEF Write
  <1>7. CASE \E f \in Fds : OtherCall(t, f)
    BY <1>7, NameOtherCall
  <1>8. CASE DoClose(t)
    BY <1>8, NameDoClose
  <1>9. CASE \E path \in Paths : NameCall(t, path)
    BY <1>9, NameIdle DEF NameCall
  <1>10. QED
    BY <1>1, <1>2, <1>3, <1>4, <1>5, <1>6, <1>7, <1>8, <1>9 DEF SystemCall

LEMMA NameNext == NameInv /\ [Next]_vars => NameInv'
  <1> SUFFICES ASSUME NameInv, [Next]_vars PROVE NameInv'
    OBVIOUS
  <1>1. CASE \E t \in Threads : SystemCall(t)
    BY <1>1, NameSystemCall
  <1>2. CASE \E p \in Pids : Replace(p)
    BY <1>2, NameReplace
  <1>3. CASE HandleEvent
    BY <1>3, NameIdle DEF HandleEvent
  <1>4. CASE UNCHANGED vars
    BY <1>4, NameIdle DEF vars
  <1>5. QED
    BY <1>1, <1>2, <1>3, <1>4 DEF Next

(* A descriptor that openat made, and whose name was noted, is never known  *)
(* under another name (fd_paths): for every number of threads and           *)
(* processes, with full maps, PIDs that change hands and calls that no      *)
(* tracepoint sees.                                                         *)
THEOREM OpenedPathsRightCorrect == Spec => []OpenedPathsRight
  <1>1. NameInv => OpenedPathsRight
    BY DEF NameInv
  <1>2. QED
    BY <1>1, NameInit, NameNext, PTL DEF Spec
-----------------------------------------------------------------------------
(* The agent's own calls: what it still has to do decides where it is, its  *)
(* stdout stays what it was, and while no map was full the descriptor it    *)
(* writes records to is known by its name.                                  *)
Flushing  == <<"flush", "open", "write", "close">>
Recording == <<"open", "write", "close">>
Writing   == <<"write", "close">>
Closing   == <<"close">>

AgentAt == thr[AgentThread]

AgentSteps ==
  /\ table[AgentPid][1] = Other
  /\ AgentAt.at \in {"user", "entered", "opened", "closing"}
  /\ AgentAt.at = "user" => job \in {<<>>, Flushing, Recording, Writing, Closing}
  /\ AgentAt.at \in {"entered", "opened"} => job = Writing /\ AgentAt.path = OwnLog
  /\ AgentAt.at = "closing" => job = <<>>
  /\ AgentAt.at \in {"opened", "closing"} => AgentAt.fd # 1
  /\ AgentAt.at = "user" /\ job \in {Writing, Closing} =>
       AgentAt.fd \in Fds /\ AgentAt.fd # 1

QueueOwn == \A i \in DOMAIN queue : queue[i].own => queue[i].path = OwnLog

NamesKept ==
  /\ AgentAt.at \in {"entered", "opened"} => AgentAt.noted
  /\ AgentAt.at = "user" /\ job = Writing =>
       fdPaths[<<AgentPid, AgentAt.fd>>] = OwnLog
  /\ QueueOwn
  /\ ~fedBack

QueueTypes == queue \in Seq(Event) /\ refused \in BOOLEAN

OwnInv == NameInv /\ QueueTypes /\ AgentSteps /\ (~refused => NamesKept)

LEMMA JobFacts ==
  /\ Head(Flushing) = "flush" /\ Tail(Flushing) = Recording
  /\ Head(Recording) = "open" /\ Tail(Recording) = Writing
  /\ Head(Writing) = "write" /\ Tail(Writing) = Closing
  /\ Head(Closing) = "close" /\ Tail(Closing) = <<>>
  /\ <<>> \notin {Flushing, Recording, Writing, Closing}
  /\ Writing \notin {Flushing, Recording, Closing}
  /\ Closing \notin {Flushing, Recording}
BY DEF Flushing, Recording, Writing, Closing

LEMMA JobForFact ==
  ASSUME NEW lines
  PROVE  JobFor(lines) = IF lines = FlushEvery THEN Flushing ELSE Recording
<1>1. <<>> \o <<"open", "write", "close">> = Recording
  BY DEF Recording
<1>2. <<"flush">> \o <<"open", "write", "close">> = Flushing
  <2> DEFINE Words == {"flush", "open", "write", "close"}
             a == <<"flush">>
             b == <<"open", "write", "close">>
  <2>1. a \in Seq(Words) /\ Len(a) = 1
    OBVIOUS
  <2>2. b \in Seq(Words) /\ Len(b) = 3
    OBVIOUS
  <2>3. Flushing \in Seq(Words) /\ Len(Flushing) = 4
    BY DEF Flushing
  <2>4. a[1] = Flushing[1] /\ \A i \in 2..4 : b[i - 1] = Flushing[i]
    BY DEF Flushing
  <2> HIDE DEF a, b, Words
  <2>5. /\ a \o b \in Seq(Words) /\ Len(a \o b) = 4
        /\ \A i \in 1..4 : (a \o b)[i] = Flushing[i]
    <3>1. /\ a \o b \in Seq(Words) /\ Len(a \o b) = 4
          /\ \A i \in 1..4 : (a \o b)[i] = IF i <= 1 THEN a[i] ELSE b[i - 1]
      <4>1. /\ a \o b \in Seq(Words)
            /\ Len(a \o b) = Len(a) + Len(b)
            /\ \A i \in 1..(Len(a) + Len(b)) :
                 (a \o b)[i] = IF i <= Len(a) THEN a[i] ELSE b[i - Len(a)]
        BY <2>1, <2>2, ConcatProperties, Zenon
      <4>2. QED
        BY <2>1, <2>2, <4>1
    <3>2. QED
      BY <2>4, <3>1
  <2>6. a \o b = Flushing
    BY <2>3, <2>5, SeqEqual
  <2>7. QED
    BY <2>6 DEF a, b
<1>3. QED
  BY <1>1, <1>2 DEF JobFor

LEMMA AgentIsApart ==
  /\ AgentThread \in Threads /\ AgentPid \in Pids /\ Pid[AgentThread] = AgentPid
  /\ \A t \in Threads : Pid[t] \in Pids
  /\ \A t \in Threads \ {AgentThread} : Pid[t] # AgentPid
  /\ OwnLog \in Paths /\ OwnLog # "" /\ OwnLog \in NoisePaths
  /\ 1 \in Fds
<1>1. /\ AgentThread \in Threads /\ AgentPid \in Pids
      /\ Pid \in [Threads -> Pids]
      /\ \A t \in Threads : Pid[t] = AgentPid <=> t = AgentThread
  BY FileAgentAssumption
<1>2. OwnLog \in Paths /\ OwnLog # "" /\ OwnLog \in NoisePaths
  BY FileAgentAssumption
<1>3. 1 \in Fds
  <2>1. LastFd \in Nat \ {0}
    BY FileAgentAssumption
  <2>2. QED
    BY <2>1 DEF Fds
<1>4. QED
  BY <1>1, <1>2, <1>3

LEMMA SubmitKeeps ==
  ASSUME queue \in Seq(Event), NEW e \in Event, Submit(e) \/ queue' = queue
  PROVE  /\ queue' \in Seq(Event)
         /\ QueueOwn /\ (e.own => e.path = OwnLog) => QueueOwn'
<1>1. CASE queue' = queue
  BY <1>1 DEF QueueOwn
<1>2. CASE queue' = Append(queue, e)
  <2>1. /\ queue' \in Seq(Event) /\ DOMAIN queue' = 1..(Len(queue) + 1)
        /\ DOMAIN queue = 1..Len(queue) /\ Len(queue) \in Nat
        /\ queue'[Len(queue) + 1] = e
        /\ \A i \in 1..Len(queue) : queue'[i] = queue[i]
    BY <1>2, AppendProperties
  <2>2. ASSUME QueueOwn, e.own => e.path = OwnLog, NEW i \in DOMAIN queue'
        PROVE  queue'[i].own => queue'[i].path = OwnLog
    <3>1. CASE i = Len(queue) + 1
      BY <2>1, <2>2, <3>1
    <3>2. CASE i \in 1..Len(queue)
      BY <2>1, <2>2, <3>2 DEF QueueOwn
    <3>3. QED
      BY <2>1, <3>1, <3>2
  <2>3. QED
    BY <2>1, <2>2 DEF QueueOwn
<1>3. QED
  BY <1>1, <1>2 DEF Submit

LEMMA OwnInit == Init => OwnInv
<1> SUFFICES ASSUME Init
             PROVE  OwnInv
  OBVIOUS
<1>1. thr[AgentThread] = AtUser /\ AtUser.at = "user"
  BY AgentIsApart, OriginTypes DEF Init
<1>2. table[AgentPid][1] = Other
  BY AgentIsApart DEF Init
<1>3. AgentSteps
  BY <1>1, <1>2, JobFacts DEF Init, AgentSteps, AgentAt
<1>4. NamesKept
  <2>1. queue = <<>> /\ job = <<>>
    BY DEF Init
  <2>2. ~fedBack
    BY DEF Init
  <2>3. QueueOwn
    BY <2>1 DEF QueueOwn
  <2>4. QED
    BY <1>1, <2>1, <2>2, <2>3, JobFacts DEF NamesKept, AgentAt
<1>5. QueueTypes
  <2>1. queue \in Seq(Event)
    <3>1. queue = <<>>
      BY DEF Init
    <3>2. QED
      BY <3>1, EmptySeq
  <2>2. refused \in BOOLEAN
    BY DEF Init
  <2>3. QED
    BY <2>1, <2>2 DEF QueueTypes
<1>6. QED
  BY <1>3, <1>4, <1>5, NameInit DEF OwnInv

(* What the others do leaves the agent's calls and names alone.             *)
LEMMA OthersStep ==
  ASSUME OwnInv, NameInv', QueueTypes',
         table'[AgentPid] = table[AgentPid],
         thr'[AgentThread] = thr[AgentThread],
         UNCHANGED <<job, fedBack>>,
         \A f \in Fds : fdPaths'[<<AgentPid, f>>] = fdPaths[<<AgentPid, f>>],
         refused => refused',
         QueueOwn => QueueOwn'
  PROVE  OwnInv'
<1>1. AgentSteps'
  BY DEF OwnInv, AgentSteps, AgentAt
<1>2. ASSUME ~refused'
      PROVE  NamesKept'
  <2>1. NamesKept /\ AgentSteps
    BY <1>2 DEF OwnInv
  <2>2. QED
    BY <2>1 DEF NamesKept, AgentSteps, AgentAt
<1>3. QED
  BY <1>1, <1>2 DEF OwnInv

LEMMA OwnOthers ==
  ASSUME OwnInv, NEW t \in Threads \ {AgentThread}, SystemCall(t)
  PROVE  OwnInv'
<1>1. /\ NameInv /\ NameInv' /\ queue \in Seq(Event) /\ refused \in BOOLEAN
      /\ t \in Threads /\ t # AgentThread
  BY NameSystemCall DEF OwnInv, QueueTypes
<1>2. /\ Pid[t] \in Pids /\ Pid[t] # AgentPid /\ AgentPid \in Pids
      /\ AgentThread \in Threads
  BY AgentIsApart
<1>3. /\ table \in [Pids -> [Fds -> Descriptor]] /\ thr \in [Threads -> ThreadState]
      /\ fdPaths \in [Pids \X Fds -> Name]
  BY <1>1 DEF NameInv, MapTypes
<1>4. ASSUME NEW e \in Event, ~e.own, Submit(e) \/ queue' = queue
      PROVE  queue' \in Seq(Event) /\ (QueueOwn => QueueOwn')
  BY <1>1, <1>4, SubmitKeeps
<1>5. ASSUME NEW path \in Name
      PROVE  /\ [path |-> path, own |-> FALSE] \in Event
             /\ ~[path |-> path, own |-> FALSE].own
  BY DEF Event
<1>6. ASSUME queue' = queue
      PROVE  queue' \in Seq(Event) /\ (QueueOwn => QueueOwn')
  BY <1>1, <1>6 DEF QueueOwn
<1>7. ASSUME NEW path \in Paths, NEW readable \in BOOLEAN,
             EnterOpen(t, path, readable)
      PROVE  OwnInv'
  <2>1. /\ UNCHANGED <<table, fdPaths, fedBack>>
        /\ thr'[AgentThread] = thr[AgentThread]
        /\ job' = job
    BY <1>1, <1>2, <1>3, <1>7 DEF EnterOpen, Called
  <2>2. refused' \in BOOLEAN /\ (refused => refused')
    BY <1>1, <1>7 DEF EnterOpen
  <2>3. queue' \in Seq(Event) /\ (QueueOwn => QueueOwn')
    <3>1. path \in Name
      BY DEF Name
    <3>2. CASE readable
      BY <1>4, <1>5, <1>7, <3>1, <3>2 DEF EnterOpen
    <3>3. CASE ~readable
      BY <1>6, <1>7, <3>3 DEF EnterOpen
    <3>4. QED
      BY <3>2, <3>3
  <2>4. QED
    BY <1>1, <2>1, <2>2, <2>3, OthersStep DEF QueueTypes
<1>8. CASE DoOpen(t)
  <2>1. PICK f \in Fds :
          /\ table' = [table EXCEPT ![Pid[t]][f] =
                         [by |-> "opening", path |-> thr[t].path]]
          /\ thr' = [thr EXCEPT ![t] = [@ EXCEPT !.at = "opened", !.fd = f]]
    BY <1>8 DEF DoOpen
  <2>2. /\ UNCHANGED <<fdPaths, queue, job, fedBack, refused>>
        /\ table'[AgentPid] = table[AgentPid]
        /\ thr'[AgentThread] = thr[AgentThread]
    BY <1>1, <1>2, <1>3, <1>8, <2>1 DEF DoOpen
  <2>3. QED
    BY <1>1, <1>6, <2>2, OthersStep DEF QueueTypes
<1>9. CASE OpenFails(t)
  <2>1. /\ UNCHANGED <<table, fdPaths, queue, job, fedBack, refused>>
        /\ thr'[AgentThread] = thr[AgentThread]
    BY <1>1, <1>2, <1>3, <1>9 DEF OpenFails
  <2>2. QED
    BY <1>1, <1>6, <2>1, OthersStep DEF QueueTypes
<1>10. CASE ExitOpen(t)
  <2> DEFINE key == <<Pid[t], thr[t].fd>>
             update == thr[t].at = "opened" /\ inflight[t] # ""
  <2>1. /\ fdPaths' = IF update /\ HasRoom(fdPaths, key)
                      THEN [fdPaths EXCEPT ![key] = inflight[t]] ELSE fdPaths
        /\ refused' = (refused \/ (update /\ ~HasRoom(fdPaths, key)))
        /\ table' = IF thr[t].at = "failed" THEN table
                    ELSE [table EXCEPT ![Pid[t]][thr[t].fd].by =
                            IF thr[t].noted THEN "openat" ELSE "unnoted"]
        /\ thr' = [thr EXCEPT ![t] = Returned(t)]
        /\ UNCHANGED <<queue, job, fedBack>>
    BY <1>10 DEF ExitOpen
  <2> HIDE DEF update
  <2>2. refused' \in BOOLEAN /\ (refused => refused')
    BY <1>1, <2>1
  <2>3. \A f \in Fds : fdPaths'[<<AgentPid, f>>] = fdPaths[<<AgentPid, f>>]
    BY <1>2, <1>3, <2>1
  <2>4. table'[AgentPid] = table[AgentPid] /\ thr'[AgentThread] = thr[AgentThread]
    BY <1>1, <1>2, <1>3, <2>1
  <2>5. QED
    BY <1>1, <1>6, <2>1, <2>2, <2>3, <2>4, OthersStep DEF QueueTypes
<1>11. ASSUME NEW f \in Fds, EnterClose(t, f)
       PROVE  OwnInv'
  <2>1. /\ UNCHANGED <<table, queue, job, fedBack, refused>>
        /\ thr'[AgentThread] = thr[AgentThread]
        /\ fdPaths' = [fdPaths EXCEPT ![<<Pid[t], f>>] = ""]
    BY <1>1, <1>2, <1>3, <1>11 DEF EnterClose, Called
  <2>2. \A g \in Fds : fdPaths'[<<AgentPid, g>>] = fdPaths[<<AgentPid, g>>]
    BY <1>2, <1>3, <2>1
  <2>3. QED
    BY <1>1, <1>6, <2>1, <2>2, OthersStep DEF QueueTypes
<1>12. CASE DoClose(t)
  <2>1. /\ UNCHANGED <<fdPaths, queue, job, fedBack, refused>>
        /\ table'[AgentPid] = table[AgentPid]
        /\ thr'[AgentThread] = thr[AgentThread]
    BY <1>1, <1>2, <1>3, <1>12 DEF DoClose
  <2>2. QED
    BY <1>1, <1>6, <2>1, OthersStep DEF QueueTypes
<1>13. ASSUME NEW f \in Fds, Write(t, f)
       PROVE  OwnInv'
  <2> DEFINE e == [path |-> fdPaths[<<Pid[t], f>>],
                   own |-> t = AgentThread /\ table[AgentPid][f].path = OwnLog]
  <2>1. /\ UNCHANGED <<table, thr, fdPaths, job, fedBack, refused>>
        /\ Submit(e) \/ queue' = queue
    BY <1>1, <1>13 DEF Write, Called
  <2>2. e \in Event /\ ~e.own
    <3>1. fdPaths[<<Pid[t], f>>] \in Name
      BY <1>2, <1>3
    <3>2. e = [path |-> fdPaths[<<Pid[t], f>>], own |-> FALSE]
      BY <1>1
    <3>3. QED
      BY <1>5, <3>1, <3>2
  <2> HIDE DEF e
  <2>3. queue' \in Seq(Event) /\ (QueueOwn => QueueOwn')
    BY <1>4, <2>1, <2>2
  <2>4. QED
    BY <1>1, <2>1, <2>3, OthersStep DEF QueueTypes
<1>14. ASSUME NEW path \in Paths, NameCall(t, path)
       PROVE  OwnInv'
  <2>1. /\ UNCHANGED <<table, thr, fdPaths, job, fedBack, refused>>
        /\ Submit([path |-> path, own |-> FALSE])
    BY <1>1, <1>14 DEF NameCall, Called
  <2>2. path \in Name
    BY DEF Name
  <2>3. queue' \in Seq(Event) /\ (QueueOwn => QueueOwn')
    BY <1>4, <1>5, <2>1, <2>2
  <2>4. QED
    BY <1>1, <2>1, <2>3, OthersStep DEF QueueTypes
<1>15. ASSUME NEW f \in Fds, OtherCall(t, f)
       PROVE  OwnInv'
  <2>1. /\ UNCHANGED <<thr, fdPaths, queue, job, fedBack, refused>>
        /\ table'[AgentPid] = table[AgentPid]
    BY <1>1, <1>2, <1>3, <1>15 DEF OtherCall, Called
  <2>2. QED
    BY <1>1, <1>6, <2>1, OthersStep DEF QueueTypes
<1>16. QED
  BY <1>7, <1>8, <1>9, <1>10, <1>11, <1>12, <1>13, <1>14, <1>15 DEF SystemCall

LEMMA OwnReplace ==
  ASSUME OwnInv, NEW p \in Pids, Replace(p)
  PROVE  OwnInv'
<1>1. NameInv' /\ queue \in Seq(Event) /\ refused \in BOOLEAN
  BY NameReplace DEF OwnInv, QueueTypes
<1>2. /\ table \in [Pids -> [Fds -> Descriptor]] /\ thr \in [Threads -> ThreadState]
  BY DEF OwnInv, NameInv, MapTypes
<1>3. /\ UNCHANGED <<fdPaths, queue, job, fedBack, refused>>
      /\ table'[AgentPid] = table[AgentPid]
      /\ thr'[AgentThread] = thr[AgentThread]
  BY <1>2, AgentIsApart DEF Replace
<1>4. QueueOwn => QueueOwn'
  BY <1>3 DEF QueueOwn
<1>5. QED
  BY <1>1, <1>3, <1>4, OthersStep DEF QueueTypes

(* Agent's own calls, each due by the list of what it still has to do. *)
LEMMA OwnEnterOpen ==
  ASSUME OwnInv, NEW path \in Paths, NEW readable \in BOOLEAN,
         EnterOpen(AgentThread, path, readable)
  PROVE  OwnInv'
<1> DEFINE t == AgentThread
           noted == readable /\ HasRoom(inflight, t)
<1>1. NameInv /\ NameInv' /\ queue \in Seq(Event) /\ refused \in BOOLEAN
  BY NameEnterOpen, AgentIsApart DEF OwnInv, QueueTypes
<1>2. /\ thr \in [Threads -> ThreadState] /\ t \in Threads
  BY <1>1, AgentIsApart DEF NameInv, MapTypes
<1>3. /\ path = OwnLog /\ readable
      /\ thr[t].at = "user" /\ job # <<>> /\ Head(job) = "open" /\ job' = Tail(job)
      /\ thr' = [thr EXCEPT ![t] = [at |-> "entered", path |-> path,
                                    noted |-> noted, fd |-> 0]]
      /\ refused' = (refused \/ (readable /\ ~noted))
      /\ Submit([path |-> path, own |-> FALSE])
      /\ UNCHANGED <<table, fdPaths, fedBack>>
  BY DEF EnterOpen, May, Called
<1>4. AgentSteps
  BY DEF OwnInv
<1>5. job = Recording /\ job' = Writing
  BY <1>3, <1>4, JobFacts DEF AgentSteps, AgentAt
<1>6. noted \in BOOLEAN
  BY DEF HasRoom
<1> HIDE DEF noted
<1>7. /\ thr'[t].at = "entered" /\ thr'[t].path = OwnLog /\ thr'[t].noted = noted
  BY <1>2, <1>3
<1>8. AgentSteps'
  BY <1>3, <1>4, <1>5, <1>7 DEF AgentSteps, AgentAt
<1>9. queue' \in Seq(Event) /\ (QueueOwn => QueueOwn')
  <2>1. [path |-> path, own |-> FALSE] \in Event
    BY DEF Event, Name
  <2>2. ~[path |-> path, own |-> FALSE].own
    OBVIOUS
  <2>3. QED
    BY <1>1, <1>3, <2>1, <2>2, SubmitKeeps
<1>10. refused' \in BOOLEAN
  BY <1>1, <1>3, <1>6
<1>11. ASSUME ~refused' PROVE NamesKept'
  <2>1. ~refused /\ noted
    BY <1>3, <1>11
  <2>2. NamesKept
    BY <2>1 DEF OwnInv
  <2>3. QED
    BY <1>3, <1>7, <1>9, <2>1, <2>2 DEF NamesKept, AgentAt
<1>12. QED
  BY <1>1, <1>8, <1>9, <1>10, <1>11 DEF OwnInv, QueueTypes

LEMMA OwnDoOpen ==
  ASSUME OwnInv, DoOpen(AgentThread)
  PROVE  OwnInv'
<1> DEFINE t == AgentThread
<1>1. NameInv /\ NameInv' /\ queue \in Seq(Event) /\ refused \in BOOLEAN
  BY NameDoOpen, AgentIsApart DEF OwnInv, QueueTypes
<1>2. /\ thr \in [Threads -> ThreadState] /\ t \in Threads
      /\ table \in [Pids -> [Fds -> Descriptor]]
      /\ Pid[t] = AgentPid /\ AgentPid \in Pids
  BY <1>1, AgentIsApart DEF NameInv, MapTypes
<1>3. PICK f \in Fds :
        /\ thr[t].at = "entered"
        /\ table[AgentPid][f] = Closed
        /\ table' = [table EXCEPT ![AgentPid][f] =
                       [by |-> "opening", path |-> thr[t].path]]
        /\ thr' = [thr EXCEPT ![t] = [@ EXCEPT !.at = "opened", !.fd = f]]
        /\ UNCHANGED <<fdPaths, queue, job, fedBack, refused>>
  BY <1>2 DEF DoOpen
<1>4. AgentSteps
  BY DEF OwnInv
<1>5. f # 1
  BY <1>3, <1>4, OriginTypes DEF AgentSteps
<1>6. /\ thr'[t].at = "opened" /\ thr'[t].fd = f
      /\ thr'[t].path = thr[t].path /\ thr'[t].noted = thr[t].noted
  <2>1. thr[t] \in ThreadState
    BY <1>2
  <2>2. thr'[t] = [thr[t] EXCEPT !.at = "opened", !.fd = f]
    BY <1>2, <1>3
  <2>3. QED
    BY <2>1, <2>2 DEF ThreadState
<1>7. table'[AgentPid][1] = table[AgentPid][1]
  BY <1>2, <1>3, <1>5
<1>8. AgentSteps'
  BY <1>3, <1>4, <1>5, <1>6, <1>7 DEF AgentSteps, AgentAt
<1>9. QueueOwn => QueueOwn'
  BY <1>3 DEF QueueOwn
<1>10. ASSUME ~refused' PROVE NamesKept'
  <2>1. NamesKept
    BY <1>3, <1>10 DEF OwnInv
  <2>2. QED
    BY <1>3, <1>6, <1>9, <2>1 DEF NamesKept, AgentAt
<1>11. QED
  BY <1>1, <1>3, <1>8, <1>10 DEF OwnInv, QueueTypes

LEMMA OwnExitOpen ==
  ASSUME OwnInv, ExitOpen(AgentThread)
  PROVE  OwnInv'
<1> DEFINE t == AgentThread
           f == thr[t].fd
           key == <<AgentPid, f>>
           update == thr[t].at = "opened" /\ inflight[t] # ""
<1>1. NameInv /\ NameInv' /\ queue \in Seq(Event) /\ refused \in BOOLEAN
  BY NameExitOpen, AgentIsApart DEF OwnInv, QueueTypes
<1>2. /\ thr \in [Threads -> ThreadState] /\ t \in Threads
      /\ table \in [Pids -> [Fds -> Descriptor]]
      /\ fdPaths \in [Pids \X Fds -> Name]
      /\ Pid[t] = AgentPid /\ AgentPid \in Pids
  BY <1>1, AgentIsApart DEF NameInv, MapTypes
<1>3. AgentSteps
  BY DEF OwnInv
<1>4. thr[t].at = "opened"
  BY <1>3 DEF ExitOpen, AgentSteps, AgentAt
<1>5. /\ job = Writing /\ thr[t].path = OwnLog /\ f # 1
  BY <1>3, <1>4 DEF AgentSteps, AgentAt
<1>6. f \in Fds
  BY <1>1, <1>2, <1>4 DEF NameInv, OpeningHeld
<1>7. /\ fdPaths' = IF update /\ HasRoom(fdPaths, key)
                    THEN [fdPaths EXCEPT ![key] = inflight[t]] ELSE fdPaths
      /\ refused' = (refused \/ (update /\ ~HasRoom(fdPaths, key)))
      /\ table' = [table EXCEPT ![AgentPid][f].by =
                     IF thr[t].noted THEN "openat" ELSE "unnoted"]
      /\ thr' = [thr EXCEPT ![t] = Returned(t)]
      /\ UNCHANGED <<queue, job, fedBack>>
  BY <1>2, <1>4 DEF ExitOpen
<1>8. thr'[t].at = "user" /\ thr'[t].fd = f
  BY <1>2, <1>7 DEF Returned, AtUser
<1>9. table'[AgentPid][1] = table[AgentPid][1]
  <2> DEFINE d == [table[AgentPid][f] EXCEPT
                     !.by = IF thr[t].noted THEN "openat" ELSE "unnoted"]
  <2>1. table' = [table EXCEPT ![AgentPid] = [table[AgentPid] EXCEPT ![f] = d]]
    BY <1>7
  <2> HIDE DEF d, f
  <2>2. QED
    BY <1>2, <1>5, <2>1, AgentIsApart
<1>10. AgentSteps'
  BY <1>3, <1>5, <1>6, <1>7, <1>8, <1>9, JobFacts DEF AgentSteps, AgentAt
<1>11. refused' \in BOOLEAN
  <2> HIDE DEF update
  <2>1. QED
    BY <1>1, <1>7
<1>12. ASSUME ~refused' PROVE NamesKept'
  <2>1. ~refused
    BY <1>7, <1>12
  <2>2. NamesKept
    BY <2>1 DEF OwnInv
  <2>3. inflight[t] = OwnLog
    BY <1>1, <1>2, <1>4, <1>5, <2>2 DEF NameInv, InflightRight, NamesKept, AgentAt
  <2>4. update
    BY <1>4, <2>3, AgentIsApart
  <2>5. HasRoom(fdPaths, key)
    <3> HIDE DEF update
    <3>1. QED
      BY <1>7, <1>12, <2>4
  <2>6. fdPaths'[key] = OwnLog
    <3> HIDE DEF update
    <3>1. QED
      BY <1>2, <1>6, <1>7, <2>3, <2>4, <2>5
  <2>7. QueueOwn'
    BY <1>7, <2>2 DEF NamesKept, QueueOwn
  <2>8. QED
    BY <1>7, <1>8, <2>2, <2>6, <2>7 DEF NamesKept, AgentAt
<1>13. QED
  BY <1>1, <1>7, <1>10, <1>11, <1>12 DEF OwnInv, QueueTypes

LEMMA OwnEnterClose ==
  ASSUME OwnInv, NEW f \in Fds, EnterClose(AgentThread, f)
  PROVE  OwnInv'
<1> DEFINE t == AgentThread
<1>1. NameInv /\ NameInv' /\ queue \in Seq(Event) /\ refused \in BOOLEAN
  BY NameEnterClose, AgentIsApart DEF OwnInv, QueueTypes
<1>2. thr \in [Threads -> ThreadState] /\ t \in Threads
  BY <1>1, AgentIsApart DEF NameInv, MapTypes
<1>3. /\ f = thr[t].fd
      /\ thr[t].at = "user" /\ job # <<>> /\ Head(job) = "close" /\ job' = Tail(job)
      /\ thr' = [thr EXCEPT ![t] = [AtUser EXCEPT !.at = "closing", !.fd = f]]
      /\ UNCHANGED <<table, queue, fedBack, refused>>
  BY DEF EnterClose, May, Called
<1>4. AgentSteps
  BY DEF OwnInv
<1>5. job = Closing /\ job' = <<>> /\ f # 1
  BY <1>3, <1>4, JobFacts DEF AgentSteps, AgentAt
<1>6. thr'[t].at = "closing" /\ thr'[t].fd = f
  BY <1>2, <1>3 DEF AtUser
<1>7. AgentSteps'
  BY <1>3, <1>4, <1>5, <1>6 DEF AgentSteps, AgentAt
<1>8. ASSUME ~refused' PROVE NamesKept'
  <2>1. NamesKept /\ QueueOwn'
    BY <1>3, <1>8 DEF OwnInv, NamesKept, QueueOwn
  <2>2. QED
    BY <1>3, <1>6, <2>1 DEF NamesKept, AgentAt
<1>9. QED
  BY <1>1, <1>3, <1>7, <1>8 DEF OwnInv, QueueTypes

LEMMA OwnDoClose ==
  ASSUME OwnInv, DoClose(AgentThread)
  PROVE  OwnInv'
<1> DEFINE t == AgentThread
<1>1. NameInv /\ NameInv' /\ queue \in Seq(Event) /\ refused \in BOOLEAN
  BY NameDoClose, AgentIsApart DEF OwnInv, QueueTypes
<1>2. /\ thr \in [Threads -> ThreadState] /\ t \in Threads
      /\ table \in [Pids -> [Fds -> Descriptor]]
      /\ Pid[t] = AgentPid /\ AgentPid \in Pids
  BY <1>1, AgentIsApart DEF NameInv, MapTypes
<1>3. AgentSteps
  BY DEF OwnInv
<1>4. /\ thr[t].at = "closing"
      /\ table' = table \/ table' = [table EXCEPT ![AgentPid][thr[t].fd] = Closed]
      /\ thr' = [thr EXCEPT ![t] = AtUser]
      /\ UNCHANGED <<queue, job, fedBack, refused>>
  BY <1>2 DEF DoClose
<1>5. job = <<>> /\ thr[t].fd # 1
  BY <1>3, <1>4 DEF AgentSteps, AgentAt
<1>6. thr'[t].at = "user"
  BY <1>2, <1>4 DEF AtUser
<1>7. table'[AgentPid][1] = table[AgentPid][1]
  <2>1. CASE table' = [table EXCEPT ![AgentPid][thr[t].fd] = Closed]
    BY <1>2, <1>5, <2>1, AgentIsApart
  <2>2. CASE table' = table
    BY <2>2
  <2>3. QED
    BY <1>4, <2>1, <2>2
<1>8. AgentSteps'
  BY <1>3, <1>4, <1>5, <1>6, <1>7, JobFacts DEF AgentSteps, AgentAt
<1>9. ASSUME ~refused' PROVE NamesKept'
  <2>1. NamesKept /\ QueueOwn'
    BY <1>4, <1>9 DEF OwnInv, NamesKept, QueueOwn
  <2>2. QED
    BY <1>4, <1>5, <1>6, <2>1, JobFacts DEF NamesKept, AgentAt
<1>10. QED
  BY <1>1, <1>4, <1>8, <1>9 DEF OwnInv, QueueTypes

LEMMA OwnWrite ==
  ASSUME OwnInv, NEW f \in Fds, Write(AgentThread, f)
  PROVE  OwnInv'
<1> DEFINE t == AgentThread
           own == table[AgentPid][f].path = OwnLog
           e == [path |-> fdPaths[<<AgentPid, f>>], own |-> own]
<1>1. NameInv /\ NameInv' /\ queue \in Seq(Event) /\ refused \in BOOLEAN
  BY NameIdle DEF OwnInv, QueueTypes, Write
<1>2. /\ fdPaths \in [Pids \X Fds -> Name] /\ AgentPid \in Pids /\ Pid[t] = AgentPid
      /\ thr \in [Threads -> ThreadState] /\ t \in Threads
  BY <1>1, AgentIsApart DEF NameInv, MapTypes
<1>3. /\ thr[t].at = "user" /\ job # <<>> /\ job' = Tail(job)
      /\ \/ Head(job) = "write" /\ f = thr[t].fd
         \/ Head(job) = "flush" /\ f = 1
      /\ UNCHANGED <<table, thr, fdPaths, fedBack, refused>>
  BY DEF Write, May, Called
<1>4. Submit(e) \/ queue' = queue
  <2>1. Submit([path |-> fdPaths[<<Pid[t], f>>],
                own |-> t = AgentThread /\ table[AgentPid][f].path = OwnLog])
          \/ queue' = queue
    BY DEF Write
  <2>2. (t = AgentThread /\ table[AgentPid][f].path = OwnLog) = own
    OBVIOUS
  <2>3. QED
    BY <1>2, <2>1, <2>2
<1>5. AgentSteps
  BY DEF OwnInv
<1>6. \/ job = Flushing /\ job' = Recording /\ f = 1
      \/ job = Writing /\ job' = Closing /\ f = thr[t].fd
  BY <1>3, <1>5, JobFacts DEF AgentSteps, AgentAt
<1>7. AgentSteps'
  BY <1>3, <1>5, <1>6, JobFacts DEF AgentSteps, AgentAt
<1>8. e \in Event /\ e.path = fdPaths[<<AgentPid, f>>]
  <2>1. own \in BOOLEAN /\ fdPaths[<<AgentPid, f>>] \in Name
    BY <1>2
  <2> HIDE DEF own
  <2>2. QED
    BY <2>1 DEF Event
<1>9. e.own = own
  BY Zenon
<1>10. ASSUME ~refused, own PROVE fdPaths[<<AgentPid, f>>] = OwnLog
  <2>1. CASE f = 1
    <3>1. table[AgentPid][f] = Other
      BY <1>5, <2>1 DEF AgentSteps
    <3>2. Other.path = ""
      BY DEF Other
    <3>3. QED
      BY <1>10, <3>1, <3>2, AgentIsApart
  <2>2. CASE job = Writing /\ f = thr[t].fd
    BY <1>3, <1>10, <2>2 DEF OwnInv, NamesKept, AgentAt
  <2>3. QED
    BY <1>6, <2>1, <2>2
<1> HIDE DEF own, e
<1>11. queue' \in Seq(Event) /\ (~refused /\ QueueOwn => QueueOwn')
  <2>1. ~refused => (e.own => e.path = OwnLog)
    BY <1>8, <1>9, <1>10
  <2>2. QED
    BY <1>1, <1>4, <1>8, <2>1, SubmitKeeps
<1>12. ASSUME ~refused' PROVE NamesKept'
  <2>1. ~refused /\ NamesKept
    BY <1>3, <1>12 DEF OwnInv
  <2>2. job' # Writing
    BY <1>6, JobFacts
  <2>3. QED
    BY <1>3, <1>11, <2>1, <2>2 DEF NamesKept, AgentAt
<1>13. QED
  BY <1>1, <1>3, <1>7, <1>11, <1>12 DEF OwnInv, QueueTypes

LEMMA OwnHandleEvent == OwnInv /\ HandleEvent => OwnInv'
<1> SUFFICES ASSUME OwnInv, HandleEvent
             PROVE  OwnInv'
  OBVIOUS
<1>1. NameInv' /\ queue \in Seq(Event) /\ queue # <<>> /\ refused \in BOOLEAN
  BY NameIdle DEF OwnInv, QueueTypes, HandleEvent
<1>2. /\ job = <<>> /\ thr[AgentThread].at = "user"
      /\ queue' = Tail(queue)
      /\ UNCHANGED <<table, thr, fdPaths, refused>>
  BY DEF HandleEvent
<1>3. AgentSteps
  BY DEF OwnInv
<1>4. job' \in {<<>>, Flushing, Recording}
  <2>1. CASE IsNoise(Head(queue).path)
    BY <1>2, <2>1 DEF HandleEvent
  <2>2. CASE ~IsNoise(Head(queue).path)
    <3>1. job' = JobFor(printed + 1)
      BY <2>2 DEF HandleEvent
    <3>2. QED
      BY <3>1, JobForFact
  <2>3. QED
    BY <2>1, <2>2
<1>5. job' \notin {Writing, Closing}
  BY <1>4, JobFacts
<1>6. AgentSteps'
  BY <1>2, <1>3, <1>4, <1>5 DEF AgentSteps, AgentAt
<1>7. /\ queue' \in Seq(Event) /\ Len(queue') = Len(queue) - 1
      /\ \A i \in 1..Len(queue') : queue'[i] = queue[i + 1]
      /\ Len(queue) \in Nat /\ Len(queue) # 0 /\ Head(queue) = queue[1]
  BY <1>1, <1>2, HeadTailProperties
<1>8. ASSUME ~refused' PROVE NamesKept'
  <2>1. NamesKept
    BY <1>2, <1>8 DEF OwnInv
  <2>2. QueueOwn'
    <3> SUFFICES ASSUME NEW i \in DOMAIN queue', queue'[i].own
                 PROVE  queue'[i].path = OwnLog
      BY DEF QueueOwn
    <3>1. i \in 1..Len(queue') /\ i + 1 \in DOMAIN queue
      BY <1>1, <1>7
    <3>2. QED
      BY <1>7, <2>1, <3>1 DEF NamesKept, QueueOwn
  <2>3. ~fedBack'
    <3>1. 1 \in DOMAIN queue
      BY <1>1, <1>7
    <3>2. CASE IsNoise(Head(queue).path)
      BY <2>1, <3>2 DEF HandleEvent, NamesKept
    <3>3. CASE ~IsNoise(Head(queue).path)
      <4>1. Head(queue).path # OwnLog
        BY <3>3, AgentIsApart DEF IsNoise
      <4>2. ~Head(queue).own
        BY <1>7, <2>1, <3>1, <4>1 DEF NamesKept, QueueOwn
      <4>3. fedBack' = (fedBack \/ Head(queue).own)
        BY <3>3 DEF HandleEvent
      <4>4. QED
        BY <2>1, <4>2, <4>3 DEF NamesKept
    <3>4. QED
      BY <3>2, <3>3
  <2>4. QED
    BY <1>2, <1>5, <2>1, <2>2, <2>3 DEF NamesKept, AgentAt
<1>9. QED
  BY <1>1, <1>2, <1>6, <1>7, <1>8 DEF OwnInv, QueueTypes

LEMMA OwnNext == OwnInv /\ [Next]_vars => OwnInv'
<1> SUFFICES ASSUME OwnInv, [Next]_vars
             PROVE  OwnInv'
  OBVIOUS
<1>1. ASSUME NEW t \in Threads \ {AgentThread}, SystemCall(t)
      PROVE  OwnInv'
  BY <1>1, OwnOthers
<1>2. CASE SystemCall(AgentThread)
  <2>1. ASSUME NEW f \in Fds, EnterClose(AgentThread, f) PROVE OwnInv'
    BY <2>1, OwnEnterClose
  <2>2. ASSUME NEW f \in Fds, Write(AgentThread, f) PROVE OwnInv'
    BY <2>2, OwnWrite
  <2>3. ASSUME NEW path \in Paths, NEW readable \in BOOLEAN,
               EnterOpen(AgentThread, path, readable)
        PROVE  OwnInv'
    BY <2>3, OwnEnterOpen
  <2>4. /\ ~OpenFails(AgentThread)
        /\ \A f \in Fds : ~OtherCall(AgentThread, f)
        /\ \A path \in Paths : ~NameCall(AgentThread, path)
    BY DEF OpenFails, OtherCall, NameCall
  <2>5. QED
    BY <1>2, <2>1, <2>2, <2>3, <2>4, OwnDoOpen, OwnExitOpen, OwnDoClose
       DEF SystemCall
<1>3. ASSUME NEW p \in Pids, Replace(p)
      PROVE  OwnInv'
  BY <1>3, OwnReplace
<1>4. CASE HandleEvent
  BY <1>4, OwnHandleEvent
<1>5. CASE UNCHANGED vars
  <2>1. NameInv'
    BY <1>5, NameIdle DEF OwnInv, vars
  <2>2. QED
    BY <1>5, <2>1, OthersStep DEF vars, OwnInv, QueueTypes, QueueOwn
<1>6. QED
  BY <1>1, <1>2, <1>3, <1>4, <1>5 DEF Next

(* The agent never records the writes it makes to its own log while no map  *)
(* was full, whatever the other threads and processes do and whichever      *)
(* events are lost or sampled away (is_noise, fd_paths).                    *)
THEOREM OwnWritesFilteredCorrect == Spec => []OwnWritesFiltered
<1>1. OwnInv => OwnWritesFiltered
  BY DEF OwnInv, NamesKept, OwnWritesFiltered
<1>2. QED
  BY OwnInit, OwnNext, <1>1, PTL DEF Spec
-----------------------------------------------------------------------------
(* The counters and the list of calls that handle_event still makes. *)
CallNames == {"flush", "open", "write", "close"}

RestTypes ==
  /\ job \in Seq(CallNames)
  /\ printed \in Nat /\ calls \in Nat /\ starts \in Nat
  /\ fedBack \in BOOLEAN

LEMMA JobTypes ==
  /\ Flushing \in Seq(CallNames) /\ Recording \in Seq(CallNames)
  /\ <<>> \in Seq(CallNames)
BY DEF Flushing, Recording, CallNames

LEMMA CalledTypes ==
  ASSUME RestTypes, NEW t, NEW call, May(t, call), Called(t)
  PROVE  job' \in Seq(CallNames) /\ calls' \in Nat
<1>1. CASE t = AgentThread
  <2>1. job # <<>> /\ job' = Tail(job) /\ calls' = calls
    BY <1>1 DEF May, Called
  <2>2. QED
    BY <2>1, HeadTailProperties DEF RestTypes
<1>2. CASE t # AgentThread
  BY <1>2 DEF Called, RestTypes
<1>3. QED
  BY <1>1, <1>2

LEMMA RestInit == Init => RestTypes
<1> SUFFICES ASSUME Init
             PROVE  RestTypes
  OBVIOUS
<1>1. job = <<>> /\ printed = 0 /\ calls = 0 /\ starts = 0
  BY Zenon DEF Init
<1>2. fedBack = FALSE
  BY Zenon DEF Init
<1>3. QED
  BY <1>1, <1>2, JobTypes DEF RestTypes

LEMMA RestNext == OwnInv /\ RestTypes /\ [Next]_vars => RestTypes'
<1> SUFFICES ASSUME OwnInv, RestTypes, [Next]_vars
             PROVE  RestTypes'
  OBVIOUS
<1>1. ASSUME NEW t \in Threads, SystemCall(t)
      PROVE  RestTypes'
  <2> DEFINE Due == \/ UNCHANGED <<job, calls>>
                    \/ Called(t) /\ \E call : May(t, call)
             Others == UNCHANGED <<printed, fedBack, starts>>
  <2>a. ASSUME NEW path \in Paths, NEW readable \in BOOLEAN,
               EnterOpen(t, path, readable)
        PROVE  Due /\ Others
    BY <2>a DEF EnterOpen
  <2>b. ASSUME DoOpen(t) \/ OpenFails(t) \/ ExitOpen(t) \/ DoClose(t)
        PROVE  Due /\ Others
    <3>1. CASE DoOpen(t)
      BY <3>1 DEF DoOpen
    <3>2. CASE OpenFails(t)
      BY <3>2 DEF OpenFails
    <3>3. CASE ExitOpen(t)
      <4>1. UNCHANGED <<queue, job, printed, fedBack, calls, starts>>
        BY <3>3, Zenon DEF ExitOpen
      <4>2. QED
        BY <4>1
    <3>4. CASE DoClose(t)
      BY <3>4 DEF DoClose
    <3>5. QED
      BY <2>b, <3>1, <3>2, <3>3, <3>4
  <2>c. ASSUME NEW f \in Fds, EnterClose(t, f)
        PROVE  Due /\ Others
    <3>1. May(t, "close") /\ Called(t)
      BY <2>c, Zenon DEF EnterClose
    <3>2. UNCHANGED <<table, inflight, queue, printed, fedBack, refused, starts>>
      BY <2>c, Zenon DEF EnterClose
    <3>3. QED
      BY <3>1, <3>2
  <2>d. ASSUME NEW f \in Fds, Write(t, f)
        PROVE  Due /\ Others
    <3>1. May(t, "write") \/ May(t, "flush")
      BY <2>d DEF Write
    <3>2. Called(t) /\ Others
      BY <2>d DEF Write
    <3>3. QED
      BY <3>1, <3>2
  <2>e. ASSUME NEW f \in Fds, OtherCall(t, f)
        PROVE  Due /\ Others
    BY <2>e DEF OtherCall
  <2>f. ASSUME NEW path \in Paths, NameCall(t, path)
        PROVE  Due /\ Others
    BY <2>f DEF NameCall
  <2> HIDE DEF Due, Others
  <2>g. Due /\ Others
    BY <1>1, <2>a, <2>b, <2>c, <2>d, <2>e, <2>f DEF SystemCall
  <2>1. Others
    BY <2>g
  <2>2. Due
    BY <2>g
  <2>3. job' \in Seq(CallNames) /\ calls' \in Nat
    <3>1. CASE UNCHANGED <<job, calls>>
      BY <3>1 DEF RestTypes
    <3>2. ASSUME NEW call, May(t, call), Called(t)
          PROVE  job' \in Seq(CallNames) /\ calls' \in Nat
      BY <3>2, CalledTypes
    <3>3. QED
      BY <2>2, <3>1, <3>2 DEF Due
  <2>4. QED
    BY <2>1, <2>3 DEF RestTypes, Others
<1>2. ASSUME NEW p \in Pids, Replace(p)
      PROVE  RestTypes'
  BY <1>2 DEF Replace, RestTypes
<1>3. CASE HandleEvent
  <2>1. CASE IsNoise(Head(queue).path)
    <3>1. UNCHANGED <<job, printed, fedBack, calls, starts>>
      BY <1>3, <2>1 DEF HandleEvent
    <3>2. QED
      BY <3>1 DEF RestTypes
  <2>2. CASE ~IsNoise(Head(queue).path)
    <3>1. job' \in Seq(CallNames)
      BY <1>3, <2>2, JobForFact, JobTypes DEF HandleEvent
    <3>2. printed' \in Nat /\ UNCHANGED <<calls, starts>>
      BY <1>3, <2>2 DEF HandleEvent, RestTypes
    <3>3. fedBack' \in BOOLEAN
      <4>1. fedBack' = (fedBack \/ Head(queue).own)
        BY <1>3, <2>2 DEF HandleEvent
      <4>2. QED
        BY <4>1, Zenon
    <3>4. QED
      BY <3>1, <3>2, <3>3 DEF RestTypes
  <2>3. QED
    BY <2>1, <2>2
<1>4. CASE UNCHANGED vars
  BY <1>4 DEF vars, RestTypes
<1>5. QED
  BY <1>1, <1>2, <1>3, <1>4 DEF Next

(* Every variable of the agent and of the kernel's tables keeps its type,   *)
(* whatever calls are made in whatever order (handle_event).                *)
THEOREM TypeCorrect == Spec => []TypeOK
<1>1. OwnInv /\ RestTypes => TypeOK
  BY DEF OwnInv, QueueTypes, NameInv, MapTypes, RestTypes, CallNames, TypeOK
<1>2. QED
  BY OwnInit, OwnNext, RestInit, RestNext, <1>1, PTL DEF Spec
-----------------------------------------------------------------------------
(* That the agent comes to rest: what it has before it is the length of the *)
(* queue, its own calls, and for every event that will be recorded the      *)
(* calls and events of that record.  A printed line pays ahead for the      *)
(* flush it may lead to, and so for the one more record of that flush.      *)
LoudAt(q) == {i \in DOMAIN q : ~IsNoise(q[i].path)}
Loud(q) == Cardinality(LoudAt(q))

LeftOf(at, calling) ==
  CASE at = "closing" -> 1
    [] at = "opened"  -> 5
    [] at = "entered" -> 6
    [] at = "user" /\ calling = Closing   -> 2
    [] at = "user" /\ calling = Writing   -> 4
    [] at = "user" /\ calling = Recording -> 8
    [] at = "user" /\ calling = Flushing  -> 28
    [] OTHER -> 0

Effort == Len(queue) + 18 * Loud(queue) + LeftOf(AgentAt.at, job) + 10 * printed

(* While no map is full, every step of the agent leaves it less to do,      *)
(* although its calls are traced and make it work: alone it comes to rest   *)
(* after finitely many (handle_event, write_record, is_noise).              *)
EffortFalls ==
  /\ [](Effort \in Nat)
  /\ [][Agent /\ ~refused' => Effort' < Effort]_vars

LEMMA LoudFinite ==
  ASSUME NEW q \in Seq(Event)
  PROVE  LoudAt(q) \in SUBSET (1..Len(q)) /\ IsFiniteSet(LoudAt(q)) /\ Loud(q) \in Nat
<1>1. Len(q) \in Nat /\ DOMAIN q = 1..Len(q) /\ 1 \in Int /\ Len(q) \in Int
  OBVIOUS
<1>2. LoudAt(q) \in SUBSET (1..Len(q))
  BY <1>1 DEF LoudAt
<1>3. IsFiniteSet(1..Len(q))
  BY <1>1, FS_Interval
<1>4. QED
  BY <1>2, <1>3, FS_Subset, FS_CardinalityType DEF Loud

LEMMA LoudAppend ==
  ASSUME NEW q \in Seq(Event), NEW e \in Event
  PROVE  /\ Loud(Append(q, e)) <= Loud(q) + 1
         /\ IsNoise(e.path) => Loud(Append(q, e)) = Loud(q)
<1> DEFINE n == Len(q) + 1
           r == Append(q, e)
<1>1. /\ Len(q) \in Nat /\ DOMAIN q = 1..Len(q) /\ DOMAIN r = 1..n /\ r[n] = e
      /\ \A i \in 1..Len(q) : r[i] = q[i]
  BY AppendProperties
<1>2. LoudAt(r) = IF IsNoise(e.path) THEN LoudAt(q) ELSE LoudAt(q) \cup {n}
  <2>1. \A i \in 1..n : i = n \/ i \in 1..Len(q)
    BY <1>1
  <2>2. n \in 1..n /\ n \notin 1..Len(q) /\ 1..Len(q) \subseteq 1..n
    BY <1>1
  <2> HIDE DEF r, n
  <2>3. QED
    BY <1>1, <2>1, <2>2 DEF LoudAt
<1>3. n \notin LoudAt(q)
  BY <1>1 DEF LoudAt
<1>4. IsFiniteSet(LoudAt(q)) /\ Loud(q) \in Nat
  BY LoudFinite
<1> HIDE DEF r, n
<1>5. Cardinality(LoudAt(q) \cup {n}) = Loud(q) + 1
  BY <1>3, <1>4, FS_AddElement DEF Loud
<1>6. CASE IsNoise(e.path)
  BY <1>2, <1>4, <1>6 DEF Loud, r
<1>7. CASE ~IsNoise(e.path)
  BY <1>2, <1>4, <1>5, <1>7 DEF Loud, r
<1>8. QED
  BY <1>6, <1>7

LEMMA LoudTail ==
  ASSUME NEW q \in Seq(Event), q # <<>>
  PROVE  Loud(q) = Loud(Tail(q)) + IF IsNoise(Head(q).path) THEN 0 ELSE 1
<1> DEFINE r == Tail(q)
           rest == LoudAt(q) \ {1}
           shift == [i \in LoudAt(r) |-> i + 1]
<1>1. /\ Len(q) \in Nat /\ Len(q) > 0 /\ DOMAIN q = 1..Len(q)
      /\ r \in Seq(Event) /\ DOMAIN r = 1..(Len(q) - 1)
      /\ \A i \in 1..(Len(q) - 1) : r[i] = q[i + 1]
      /\ Head(q) = q[1]
  BY HeadTailProperties
<1>2. /\ LoudAt(r) \in SUBSET (1..(Len(q) - 1)) /\ IsFiniteSet(LoudAt(r))
      /\ Loud(r) \in Nat
      /\ LoudAt(q) \in SUBSET (1..Len(q)) /\ IsFiniteSet(LoudAt(q)) /\ Loud(q) \in Nat
  <2>1. Len(r) = Len(q) - 1
    BY HeadTailProperties
  <2> HIDE DEF r
  <2>2. QED
    BY <1>1, <2>1, LoudFinite
<1>3. \A i \in 1..(Len(q) - 1) : i \in LoudAt(r) <=> i + 1 \in LoudAt(q)
  <2> HIDE DEF r
  <2>1. \A i \in 1..(Len(q) - 1) : i + 1 \in 1..Len(q)
    BY <1>1
  <2>2. QED
    BY <1>1, <2>1 DEF LoudAt
<1> HIDE DEF r
<1>4. shift \in Bijection(LoudAt(r), rest)
  <2>1. shift \in [LoudAt(r) -> rest]
    <3>1. ASSUME NEW i \in LoudAt(r)
          PROVE  i + 1 \in rest
      <4>1. i \in 1..(Len(q) - 1)
        BY <1>2
      <4>2. i + 1 # 1 /\ i + 1 \in LoudAt(q)
        BY <1>1, <1>3, <4>1
      <4>3. QED
        BY <4>2
    <3>2. QED
      BY <3>1
  <2>2. \A a, b \in LoudAt(r) : shift[a] = shift[b] => a = b
    BY <1>1, <1>2
  <2>3. ASSUME NEW k \in rest
        PROVE  \E i \in LoudAt(r) : shift[i] = k
    <3>1. k \in 1..Len(q) /\ k # 1
      BY <1>2
    <3>2. k - 1 \in 1..(Len(q) - 1) /\ (k - 1) + 1 = k
      BY <1>1, <3>1
    <3>3. k - 1 \in LoudAt(r)
      BY <1>3, <3>2
    <3>4. QED
      BY <3>2, <3>3
  <2> HIDE DEF shift, rest
  <2>4. QED
    BY <2>1, <2>2, <2>3, Fun_IsBij
<1> HIDE DEF shift
<1>5. Cardinality(rest) = Loud(r)
  <2>1. ExistsBijection(LoudAt(r), rest)
    BY <1>4 DEF ExistsBijection
  <2> HIDE DEF rest
  <2>2. QED
    BY <1>2, <2>1, FS_Bijection DEF Loud
<1>6. 1 \in LoudAt(q) <=> ~IsNoise(Head(q).path)
  BY <1>1 DEF LoudAt
<1>7. Cardinality(rest) = IF 1 \in LoudAt(q) THEN Loud(q) - 1 ELSE Loud(q)
  BY <1>2, FS_RemoveElement DEF Loud
<1> HIDE DEF rest
<1>8. CASE IsNoise(Head(q).path)
  BY <1>2, <1>5, <1>6, <1>7, <1>8 DEF r
<1>9. CASE ~IsNoise(Head(q).path)
  BY <1>2, <1>5, <1>6, <1>7, <1>9 DEF r
<1>10. QED
  BY <1>8, <1>9

(* What an event adds: 1 when it is noise, and never more than 19. *)
LEMMA SubmitCosts ==
  ASSUME queue \in Seq(Event), NEW e \in Event, Submit(e) \/ queue' = queue
  PROVE  /\ Len(queue) \in Nat /\ Loud(queue) \in Nat
         /\ Len(queue') \in Nat /\ Loud(queue') \in Nat
         /\ Len(queue') <= Len(queue) + 1 /\ Loud(queue') <= Loud(queue) + 1
         /\ IsNoise(e.path) => Loud(queue') = Loud(queue)
<1>1. queue' = queue \/ queue' = Append(queue, e)
  BY DEF Submit
<1>2. Len(queue) \in Nat /\ Loud(queue) \in Nat
  BY LoudFinite
<1>3. CASE queue' = queue
  BY <1>2, <1>3
<1>4. CASE queue' = Append(queue, e)
  <2>1. queue' \in Seq(Event) /\ Len(queue') = Len(queue) + 1
    BY <1>4, AppendProperties
  <2>2. Loud(queue') \in Nat
    BY <2>1, LoudFinite
  <2>3. /\ Loud(queue') <= Loud(queue) + 1
        /\ IsNoise(e.path) => Loud(queue') = Loud(queue)
    BY <1>4, LoudAppend
  <2>4. QED
    BY <1>2, <2>1, <2>2, <2>3
<1>5. QED
  BY <1>1, <1>3, <1>4

LEMMA LeftOfIs ==
  /\ LeftOf("user", <<>>) = 0
  /\ LeftOf("user", Closing) = 2
  /\ LeftOf("user", Writing) = 4
  /\ LeftOf("user", Recording) = 8
  /\ LeftOf("user", Flushing) = 28
  /\ \A j : /\ LeftOf("closing", j) = 1
            /\ LeftOf("opened", j) = 5
            /\ LeftOf("entered", j) = 6
<1>1. Recording # Flushing
  BY JobFacts
<1>2. \A j : /\ LeftOf("closing", j) = 1
             /\ LeftOf("opened", j) = 5
             /\ LeftOf("entered", j) = 6
  BY DEF LeftOf
<1>3. LeftOf("user", <<>>) = 0
  BY JobFacts DEF LeftOf
<1>4. LeftOf("user", Closing) = 2
  BY JobFacts DEF LeftOf
<1>5. LeftOf("user", Writing) = 4
  BY JobFacts DEF LeftOf
<1>6. LeftOf("user", Recording) = 8
  BY <1>1, JobFacts DEF LeftOf
<1>7. LeftOf("user", Flushing) = 28
  BY <1>1, JobFacts DEF LeftOf
<1>8. QED
  BY <1>2, <1>3, <1>4, <1>5, <1>6, <1>7

LEMMA EffortType ==
  ASSUME OwnInv, RestTypes
  PROVE  /\ Effort \in Nat
         /\ Len(queue) \in Nat /\ Loud(queue) \in Nat /\ printed \in Nat
<1>1. LeftOf(AgentAt.at, job) \in Nat
  BY LeftOfIs DEF OwnInv, AgentSteps
<1>2. Len(queue) \in Nat /\ Loud(queue) \in Nat /\ printed \in Nat
  BY LoudFinite DEF OwnInv, QueueTypes, RestTypes
<1>3. QED
  BY <1>1, <1>2 DEF Effort

LEMMA EffortCall ==
  ASSUME OwnInv, RestTypes, SystemCall(AgentThread), ~refused'
  PROVE  Effort' < Effort
<1> DEFINE t == AgentThread
           at == AgentAt.at
           L == LeftOf(at, job)
<1>1. /\ NameInv /\ queue \in Seq(Event) /\ AgentSteps
      /\ thr \in [Threads -> ThreadState] /\ t \in Threads
      /\ thr[t] \in ThreadState
  BY AgentIsApart DEF OwnInv, QueueTypes, NameInv, MapTypes
<1>2. Len(queue) \in Nat /\ Loud(queue) \in Nat /\ printed \in Nat
  BY EffortType
<1>3. IsNoise(OwnLog)
  BY AgentIsApart DEF IsNoise
<1>4. ASSUME NEW path \in Paths, NEW readable \in BOOLEAN,
             EnterOpen(t, path, readable)
      PROVE  Effort' < Effort
  <2> DEFINE e == [path |-> path, own |-> FALSE]
  <2>1. /\ path = OwnLog /\ readable
        /\ thr[t].at = "user" /\ job # <<>> /\ Head(job) = "open" /\ job' = Tail(job)
        /\ thr'[t].at = "entered"
        /\ Submit(e) /\ printed' = printed
    BY <1>1, <1>4 DEF EnterOpen, May, Called
  <2>2. job = Recording
    BY <1>1, <2>1, JobFacts DEF AgentSteps, AgentAt
  <2>3. e \in Event /\ e.path = OwnLog
    BY <2>1, AgentIsApart DEF Event, Name
  <2> HIDE DEF e
  <2>4. /\ Len(queue') \in Nat /\ Len(queue') <= Len(queue) + 1
        /\ Loud(queue') = Loud(queue)
    BY <1>1, <1>3, <2>1, <2>3, SubmitCosts
  <2>5. L = 8 /\ LeftOf(AgentAt'.at, job') = 6
    BY <2>1, <2>2, LeftOfIs DEF AgentAt
  <2> HIDE DEF L, at
  <2>6. QED
    BY <1>2, <2>1, <2>4, <2>5 DEF Effort, L, at
<1>5. CASE DoOpen(t)
  <2>1. /\ thr[t].at = "entered" /\ thr'[t].at = "opened"
        /\ UNCHANGED <<queue, job, printed>>
    BY <1>1, <1>5 DEF DoOpen, ThreadState
  <2>2. L = 6 /\ LeftOf(AgentAt'.at, job') = 5
    BY <2>1, LeftOfIs DEF AgentAt
  <2> HIDE DEF L, at
  <2>3. QED
    BY <1>2, <2>1, <2>2 DEF Effort, L, at
<1>6. CASE ExitOpen(t)
  <2>1. /\ thr[t].at \in {"opened", "failed"} /\ thr'[t].at = "user"
        /\ UNCHANGED <<queue, job, printed>>
    BY <1>1, <1>6 DEF ExitOpen, Returned, AtUser
  <2>2. thr[t].at = "opened" /\ job = Writing
    BY <1>1, <2>1 DEF AgentSteps, AgentAt
  <2>3. L = 5 /\ LeftOf(AgentAt'.at, job') = 4
    BY <2>1, <2>2, LeftOfIs DEF AgentAt
  <2> HIDE DEF L, at
  <2>4. QED
    BY <1>2, <2>1, <2>3 DEF Effort, L, at
<1>7. ASSUME NEW f \in Fds, EnterClose(t, f)
      PROVE  Effort' < Effort
  <2>1. /\ thr[t].at = "user" /\ job # <<>> /\ Head(job) = "close" /\ job' = Tail(job)
        /\ thr'[t].at = "closing" /\ UNCHANGED <<queue, printed>>
    BY <1>1, <1>7 DEF EnterClose, May, Called, AtUser
  <2>2. job = Closing
    BY <1>1, <2>1, JobFacts DEF AgentSteps, AgentAt
  <2>3. L = 2 /\ LeftOf(AgentAt'.at, job') = 1
    BY <2>1, <2>2, LeftOfIs DEF AgentAt
  <2> HIDE DEF L, at
  <2>4. QED
    BY <1>2, <2>1, <2>3 DEF Effort, L, at
<1>8. CASE DoClose(t)
  <2>1. /\ thr[t].at = "closing" /\ thr'[t].at = "user"
        /\ UNCHANGED <<queue, job, printed>>
    BY <1>1, <1>8, OriginTypes DEF DoClose
  <2>2. job = <<>>
    BY <1>1, <2>1 DEF AgentSteps, AgentAt
  <2>3. L = 1 /\ LeftOf(AgentAt'.at, job') = 0
    BY <2>1, <2>2, LeftOfIs DEF AgentAt
  <2> HIDE DEF L, at
  <2>4. QED
    BY <1>2, <2>1, <2>3 DEF Effort, L, at
<1>9. ASSUME NEW f \in Fds, Write(t, f)
      PROVE  Effort' < Effort
  <2> DEFINE own == t = AgentThread /\ table[AgentPid][f].path = OwnLog
             e == [path |-> fdPaths[<<Pid[t], f>>], own |-> own]
  <2>1. /\ thr[t].at = "user" /\ job # <<>> /\ job' = Tail(job)
        /\ \/ Head(job) = "write" /\ f = thr[t].fd
           \/ Head(job) = "flush" /\ f = 1
        /\ UNCHANGED <<thr, printed, refused>>
    BY <1>9 DEF Write, May, Called
  <2>2. Submit(e) \/ queue' = queue
    BY <1>9 DEF Write
  <2>3. e \in Event /\ e.path = fdPaths[<<AgentPid, f>>]
    <3>1. /\ fdPaths \in [Pids \X Fds -> Name]
          /\ Pid[t] = AgentPid /\ AgentPid \in Pids
      BY <1>1, AgentIsApart DEF NameInv, MapTypes
    <3>2. fdPaths[<<Pid[t], f>>] \in Name /\ own \in BOOLEAN
      BY <3>1
    <3> HIDE DEF own
    <3>3. QED
      BY <3>1, <3>2 DEF Event
  <2> HIDE DEF e
  <2>4. CASE Head(job) = "write" /\ f = thr[t].fd
    <3>1. job = Writing /\ job' = Closing
      BY <1>1, <2>1, <2>4, JobFacts DEF AgentSteps, AgentAt
    <3>2. e.path = OwnLog
      <4>1. NamesKept
        BY <2>1 DEF OwnInv
      <4>2. QED
        BY <2>1, <2>3, <2>4, <3>1, <4>1 DEF NamesKept, AgentAt
    <3>3. /\ Len(queue') \in Nat /\ Len(queue') <= Len(queue) + 1
          /\ Loud(queue') = Loud(queue)
      BY <1>1, <1>3, <2>2, <2>3, <3>2, SubmitCosts
    <3>4. L = 4 /\ LeftOf(AgentAt'.at, job') = 2
      BY <2>1, <3>1, LeftOfIs DEF AgentAt
    <3> HIDE DEF L, at
    <3>5. QED
      BY <1>2, <2>1, <3>3, <3>4 DEF Effort, L, at
  <2>5. CASE Head(job) = "flush"
    <3>1. job = Flushing /\ job' = Recording
      BY <1>1, <2>1, <2>5, JobFacts DEF AgentSteps, AgentAt
    <3>2. /\ Len(queue') \in Nat /\ Len(queue') <= Len(queue) + 1
          /\ Loud(queue') \in Nat /\ Loud(queue') <= Loud(queue) + 1
      BY <1>1, <2>2, <2>3, SubmitCosts
    <3>3. L = 28 /\ LeftOf(AgentAt'.at, job') = 8
      BY <2>1, <3>1, LeftOfIs DEF AgentAt
    <3> HIDE DEF L, at
    <3>4. QED
      BY <1>2, <2>1, <3>2, <3>3 DEF Effort, L, at
  <2>6. QED
    BY <2>1, <2>4, <2>5
<1>10. /\ ~OpenFails(t)
       /\ \A f \in Fds : ~OtherCall(t, f)
       /\ \A path \in Paths : ~NameCall(t, path)
  BY DEF OpenFails, OtherCall, NameCall
<1>11. QED
  BY <1>4, <1>5, <1>6, <1>7, <1>8, <1>9, <1>10 DEF SystemCall

LEMMA EffortHandle ==
  ASSUME OwnInv, RestTypes, FlushEvery >= 2, HandleEvent
  PROVE  Effort' < Effort
<1>1. queue \in Seq(Event) /\ queue # <<>> /\ queue' = Tail(queue)
  BY DEF OwnInv, QueueTypes, HandleEvent
<1>2. AgentAt.at = "user" /\ AgentAt' = AgentAt /\ job = <<>>
  BY DEF HandleEvent, AgentAt
<1>3. Len(queue) \in Nat /\ Loud(queue) \in Nat /\ printed \in Nat /\ FlushEvery \in Nat
  BY EffortType, FileAgentAssumption
<1>4. /\ Len(queue') = Len(queue) - 1 /\ Loud(queue') \in Nat
      /\ Loud(queue) = Loud(queue') + IF IsNoise(Head(queue).path) THEN 0 ELSE 1
  BY <1>1, HeadTailProperties, LoudTail, LoudFinite
<1>5. LeftOf(AgentAt.at, job) = 0
  BY <1>2, LeftOfIs
<1>6. CASE IsNoise(Head(queue).path)
  <2>1. UNCHANGED <<job, printed>>
    BY <1>6 DEF HandleEvent
  <2>2. QED
    BY <1>2, <1>3, <1>4, <1>5, <1>6, <2>1 DEF Effort
<1>7. CASE ~IsNoise(Head(queue).path)
  <2>1. /\ job' = IF printed + 1 = FlushEvery THEN Flushing ELSE Recording
        /\ printed' = IF printed + 1 = FlushEvery THEN 0 ELSE printed + 1
    BY <1>7, JobForFact DEF HandleEvent
  <2>2. LeftOf(AgentAt'.at, job') = IF printed + 1 = FlushEvery THEN 28 ELSE 8
    BY <1>2, <2>1, LeftOfIs
  <2>3. QED
    BY <1>2, <1>3, <1>4, <1>5, <1>7, <2>1, <2>2 DEF Effort
<1>8. QED
  BY <1>6, <1>7

(* While no map is full the agent comes to rest by itself, for any number   *)
(* of threads, processes and names, once stdout holds two lines or more.    *)
THEOREM EffortFallsCorrect ==
  ASSUME FlushEvery >= 2
  PROVE  Spec => EffortFalls
<1> DEFINE A == Agent /\ ~refused' => Effort' < Effort
           B == Effort \in Nat
<1>1. OwnInv /\ RestTypes => B
  BY EffortType
<1>2. OwnInv /\ RestTypes => A
  BY EffortCall, EffortHandle DEF Agent
<1> HIDE DEF A, B
<1>3. Spec => []B /\ [][A]_vars
  BY <1>1, <1>2, OwnInit, OwnNext, RestInit, RestNext, PTL DEF Spec
<1>4. QED
  BY <1>3 DEF A, B, EffortFalls
=============================================================================
