-------------------------- MODULE BuildWindowsProofs --------------------------
(***************************************************************************)
(* The sessions, the holdout and the end of the loops, for every window,   *)
(* stride, minimum of events, test size and sorted event times.            *)
(***************************************************************************)
EXTENDS BuildWindows, TLAPS

(* The indices are where the cursor says: all events before left are before *)
(* the window, all events before right are before its end, and once a loop  *)
(* is over the next event is not.                                           *)
IndicesExact ==
  /\ \A i \in 1..left : times[i] < cursor
  /\ \A i \in 1..right : times[i] < cursor + Window
  /\ pc \in {"right", "emit"} => left = Len(times) \/ times[left + 1] >= cursor
  /\ pc = "emit" => right = Len(times) \/ times[right + 1] >= cursor + Window

(* The part of the type invariant that the slices need. *)
IndexTypes ==
  /\ times \in Seq(Int)
  /\ left \in 0..Len(times) /\ right \in 0..Len(times)
  /\ cursor \in Int
  /\ sessions \in Seq(Session)

SliceInv == IndexTypes /\ Sorted(times) /\ IndicesExact /\ SlicesExact

LEMMA SliceInvInit == Init => SliceInv
<1> SUFFICES ASSUME Init PROVE SliceInv
  OBVIOUS
<1> USE WindowsAssumption
<1>1. PICK n \in 1..MaxLen : times \in [1..n -> 0..MaxTime]
  BY DEF Init
<1>2. times \in Seq(Int) /\ Len(times) = n
  BY <1>1
<1>3. cursor \in Int
  BY <1>1 DEF Init
<1> QED
  BY <1>2, <1>3 DEF Init, SliceInv, IndexTypes, IndicesExact, SlicesExact

(* When both loops are over, left and right cut out exactly the events of   *)
(* the window at the cursor.                                                *)
LEMMA SliceAtEmit ==
  ASSUME SliceInv, pc = "emit"
  PROVE  (left + 1)..right =
           {i \in DOMAIN times : cursor <= times[i] /\ times[i] < cursor + Window}
<1> USE WindowsAssumption DEF SliceInv, IndexTypes, IndicesExact, Sorted
<1>1. ASSUME NEW i \in (left + 1)..right
      PROVE  i \in DOMAIN times /\ cursor <= times[i] /\ times[i] < cursor + Window
  <2>1. i \in 1..Len(times) /\ left + 1 \in 1..Len(times) /\ left + 1 <= i
    BY <1>1
  <2>2. times[left + 1] <= times[i]
    BY <2>1
  <2>3. times[left + 1] >= cursor
    BY <2>1
  <2>4. i \in 1..right
    BY <1>1
  <2> QED
    BY <2>1, <2>2, <2>3, <2>4
<1>2. ASSUME NEW i \in DOMAIN times, cursor <= times[i], times[i] < cursor + Window
      PROVE  i \in (left + 1)..right
  <2>1. i \in 1..Len(times) /\ times[i] \in Int
    BY <1>2
  <2>2. i > left
    BY <1>2, <2>1
  <2>3. i <= right
    <3> SUFFICES ASSUME i > right PROVE FALSE
      BY <2>1
    <3>1. right + 1 \in 1..Len(times) /\ right + 1 <= i
      BY <2>1
    <3>2. times[right + 1] <= times[i]
      BY <2>1, <3>1
    <3> QED
      BY <1>2, <2>1, <3>1, <3>2
  <2> QED
    BY <2>1, <2>2, <2>3
<1> QED
  BY <1>1, <1>2

LEMMA SliceInvStep == SliceInv /\ [Next]_vars => SliceInv'
<1> SUFFICES ASSUME SliceInv, [Next]_vars PROVE SliceInv'
  OBVIOUS
<1> USE WindowsAssumption
<1>1. CASE MoveLeft
  <2>1. IndexTypes'
    BY <1>1 DEF MoveLeft, SliceInv, IndexTypes
  <2>2. IndicesExact'
    BY <1>1 DEF MoveLeft, SliceInv, IndexTypes, IndicesExact
  <2> QED
    BY <1>1, <2>1, <2>2 DEF MoveLeft, SliceInv, SlicesExact, Sorted
<1>2. CASE MoveRight
  <2>1. IndexTypes'
    BY <1>2 DEF MoveRight, SliceInv, IndexTypes
  <2>2. IndicesExact'
    BY <1>2 DEF MoveRight, InWindow, SliceInv, IndexTypes, IndicesExact
  <2> QED
    BY <1>2, <2>1, <2>2 DEF MoveRight, SliceInv, SlicesExact, Sorted
<1>3. CASE Emit
  <2> DEFINE s == [start |-> cursor, from |-> left, to |-> right]
  <2>1. s \in Session
    BY DEF SliceInv, IndexTypes, Session
  <2>2. IndexTypes'
    BY <1>3, <2>1 DEF Emit, NextCursor, SliceInv, IndexTypes
  <2>3. IndicesExact'
    <3>1. /\ times' = times /\ left' = left /\ right' = right
          /\ cursor' = cursor + Stride /\ pc' \in {"left", "label"}
      BY <1>3 DEF Emit, NextCursor
    <3> QED
      BY <3>1 DEF SliceInv, IndexTypes, IndicesExact
  <2>4. SlicesExact'
    <3>1. CASE right - left >= MinEvents
      <4>1. sessions' = Append(sessions, s) /\ times' = times
        BY <1>3, <3>1 DEF Emit
      <4>2. /\ Len(sessions') = Len(sessions) + 1
            /\ sessions'[Len(sessions) + 1] = s
            /\ \A k \in DOMAIN sessions : sessions'[k] = sessions[k]
            /\ DOMAIN sessions' = 1..(Len(sessions) + 1)
            /\ DOMAIN sessions = 1..Len(sessions)
        BY <4>1, <2>1 DEF SliceInv, IndexTypes
      <4>3. Events(s) = {i \in DOMAIN times : cursor <= times[i] /\ times[i] < cursor + Window}
        BY <1>3, SliceAtEmit DEF Events, Emit
      <4>4. ASSUME NEW k \in DOMAIN sessions'
            PROVE  Events(sessions'[k]) =
                     {i \in DOMAIN times : /\ sessions'[k].start <= times[i]
                                           /\ times[i] < sessions'[k].start + Window}
        <5>1. CASE k = Len(sessions) + 1
          BY <4>2, <4>3, <5>1
        <5>2. CASE k \in DOMAIN sessions
          <6>1. sessions'[k] = sessions[k]
            BY <4>2, <5>2
          <6> QED
            BY <5>2, <6>1 DEF SliceInv, SlicesExact
        <5>3. Len(sessions) \in Nat
          BY DEF SliceInv, IndexTypes
        <5> QED
          BY <4>2, <5>1, <5>2, <5>3
      <4> QED
        BY <4>1, <4>4 DEF SlicesExact, Events
    <3>2. CASE ~(right - left >= MinEvents)
      BY <1>3, <3>2 DEF Emit, SliceInv, SlicesExact, Events
    <3> QED
      BY <3>1, <3>2
  <2> QED
    BY <1>3, <2>2, <2>3, <2>4 DEF Emit, SliceInv, Sorted
<1>4. CASE Label
  BY <1>4 DEF Label, SliceInv, IndexTypes, IndicesExact, SlicesExact, Sorted, Events
<1>5. CASE Split
  BY <1>5 DEF Split, SliceInv, IndexTypes, IndicesExact, SlicesExact, Sorted, Events
<1>6. CASE UNCHANGED vars
  BY <1>6 DEF vars, SliceInv, IndexTypes, IndicesExact, SlicesExact, Sorted, Events
<1> QED
  BY <1>1, <1>2, <1>3, <1>4, <1>5, <1>6 DEF Next

(* Every session of build_windows holds exactly the events of its interval, *)
(* for every window, stride and sorted sequence of event times.             *)
THEOREM SlicesExactCorrect == Spec => []SlicesExact
<1>1. SliceInv => SlicesExact
  BY DEF SliceInv
<1> QED
  BY SliceInvInit, SliceInvStep, <1>1, PTL DEF Spec
-----------------------------------------------------------------------------
Covered(i) == \E k \in DOMAIN sessions : i \in Events(sessions[k])

(* Every event that the cursor has passed is in a session.                  *)
PassedCovered ==
  MinEvents <= 1 /\ Stride <= Window =>
    \A i \in DOMAIN times : times[i] < cursor => Covered(i)

AllPassed ==
  /\ times # <<>>
  /\ pc \in {"left", "right", "emit", "label", "split", "done", "exit"}
  /\ pc \in {"label", "split", "done", "exit"} => cursor > times[Len(times)]

CoverInv == SliceInv /\ PassedCovered /\ AllPassed

LEMMA CoverInvInit == Init => CoverInv
<1> SUFFICES ASSUME Init PROVE CoverInv
  OBVIOUS
<1>1. SliceInv
  BY SliceInvInit
<1>2. \E n \in 1..MaxLen : times \in [1..n -> 0..MaxTime]
  BY DEF Init
<1>3. times # <<>> /\ DOMAIN times = 1..Len(times)
  BY <1>1, <1>2 DEF SliceInv, IndexTypes
<1>4. ASSUME NEW i \in DOMAIN times PROVE ~(times[i] < cursor)
  <2>1. 1 \in DOMAIN times /\ i \in 1..Len(times) /\ cursor = times[1]
    BY <1>3, <1>4 DEF Init
  <2>2. times[1] \in Int /\ times[i] \in Int
    BY <1>1, <1>3, <2>1 DEF SliceInv, IndexTypes
  <2>3. i = 1 \/ 1 < i
    BY <2>1
  <2>4. times[1] <= times[i]
    BY <1>1, <1>3, <2>1, <2>2, <2>3 DEF SliceInv, Sorted
  <2> QED
    BY <2>1, <2>2, <2>4
<1> QED
  BY <1>1, <1>3, <1>4 DEF CoverInv, PassedCovered, AllPassed, Init

LEMMA CoverInvStep == CoverInv /\ [Next]_vars => CoverInv'
<1> SUFFICES ASSUME CoverInv, [Next]_vars PROVE CoverInv'
  OBVIOUS
<1> USE WindowsAssumption
<1>0. SliceInv'
  BY SliceInvStep DEF CoverInv
<1>1. CASE MoveLeft
  BY <1>0, <1>1 DEF MoveLeft, CoverInv, PassedCovered, AllPassed, Covered, Events
<1>2. CASE MoveRight
  BY <1>0, <1>2 DEF MoveRight, CoverInv, PassedCovered, AllPassed, Covered, Events
<1>3. CASE Emit
  <2>0. /\ times' = times /\ cursor' = cursor + Stride /\ times # <<>>
        /\ IndexTypes /\ pc = "emit"
    BY <1>3 DEF Emit, NextCursor, CoverInv, AllPassed, SliceInv
  <2>1. AllPassed'
    <3>1. times[Len(times)] \in Int
      BY <2>0 DEF IndexTypes
    <3> QED
      BY <1>3, <2>0, <3>1 DEF Emit, NextCursor, AllPassed, IndexTypes
  <2>2. ASSUME MinEvents <= 1, Stride <= Window,
               NEW i \in DOMAIN times, times[i] < cursor + Stride
        PROVE  Covered(i)'
    <3> DEFINE s == [start |-> cursor, from |-> left, to |-> right]
    <3>1. times[i] \in Int
      BY <2>0 DEF IndexTypes
    <3>2. ASSUME NEW k \in DOMAIN sessions
          PROVE  k \in DOMAIN sessions' /\ sessions'[k] = sessions[k]
      BY <1>3, <2>0, <3>2 DEF Emit, IndexTypes
    <3>3. CASE times[i] < cursor
      <4>1. PICK k \in DOMAIN sessions : i \in Events(sessions[k])
        BY <2>2, <3>3 DEF CoverInv, PassedCovered, Covered
      <4> QED
        BY <3>2, <4>1 DEF Covered, Events
    <3>4. CASE cursor <= times[i]
      <4>1. times[i] < cursor + Window
        BY <2>0, <2>2, <3>1, <3>4 DEF IndexTypes
      <4>2. i \in (left + 1)..right
        BY <2>0, <2>2, <3>4, <4>1, SliceAtEmit DEF CoverInv
      <4>3. right - left >= MinEvents
        BY <2>0, <2>2, <4>2 DEF IndexTypes
      <4>4. sessions' = Append(sessions, s)
        BY <1>3, <4>3 DEF Emit
      <4>5. /\ Len(sessions) + 1 \in DOMAIN sessions'
            /\ sessions'[Len(sessions) + 1] = s
        BY <2>0, <4>4 DEF IndexTypes
      <4>6. i \in Events(s)
        BY <4>2 DEF Events
      <4> QED
        BY <4>5, <4>6 DEF Covered, Events
    <3> QED
      BY <2>0, <3>1, <3>3, <3>4 DEF IndexTypes
  <2> QED
    BY <1>0, <2>0, <2>1, <2>2 DEF CoverInv, PassedCovered
<1>4. CASE Label
  BY <1>0, <1>4 DEF Label, CoverInv, PassedCovered, AllPassed, Covered, Events
<1>5. CASE Split
  BY <1>0, <1>5 DEF Split, CoverInv, PassedCovered, AllPassed, Covered, Events
<1>6. CASE UNCHANGED vars
  BY <1>0, <1>6 DEF vars, CoverInv, PassedCovered, AllPassed, Covered, Events
<1> QED
  BY <1>1, <1>2, <1>3, <1>4, <1>5, <1>6 DEF Next

(* Overlapping windows of at least one event leave no event out.            *)
THEOREM EveryEventCoveredCorrect == Spec => []EveryEventCovered
<1>1. CoverInv => EveryEventCovered
  <2> SUFFICES ASSUME CoverInv, MinEvents <= 1, Stride <= Window,
                      pc \in {"label", "split", "done", "exit"}
               PROVE  UNION {Events(sessions[k]) : k \in DOMAIN sessions} = DOMAIN times
    BY DEF EveryEventCovered
  <2> USE WindowsAssumption
  <2>0. IndexTypes /\ Sorted(times) /\ SlicesExact /\ times # <<>>
    BY DEF CoverInv, SliceInv, AllPassed
  <2>1. ASSUME NEW i \in DOMAIN times PROVE Covered(i)
    <3>1. /\ i \in 1..Len(times) /\ Len(times) \in DOMAIN times
          /\ times[i] \in Int /\ times[Len(times)] \in Int
      BY <2>0 DEF IndexTypes
    <3>2. times[i] <= times[Len(times)]
      <4>1. i = Len(times) \/ i < Len(times)
        BY <3>1
      <4> QED
        BY <2>0, <3>1, <4>1 DEF Sorted
    <3>3. times[i] < cursor
      BY <2>0, <3>1, <3>2 DEF CoverInv, AllPassed, IndexTypes
    <3> QED
      BY <3>3 DEF CoverInv, PassedCovered
  <2>2. ASSUME NEW k \in DOMAIN sessions PROVE Events(sessions[k]) \subseteq DOMAIN times
    BY <2>0 DEF SlicesExact
  <2> QED
    BY <2>1, <2>2 DEF Covered
<1> QED
  BY CoverInvInit, CoverInvStep, <1>1, PTL DEF Spec
-----------------------------------------------------------------------------
(* What a session must be to hold the events of its interval. *)
Exact(s) ==
  Events(s) = {i \in DOMAIN times : s.start <= times[i] /\ times[i] < s.start + Window}

(* Sessions are at least a stride apart, also from the cursor. *)
SessionsApart ==
  /\ \A i, j \in DOMAIN sessions :
       i < j => sessions[j].start - sessions[i].start >= (j - i) * Stride
  /\ \A i \in DOMAIN sessions :
       cursor - sessions[i].start >= (Len(sessions) + 1 - i) * Stride

RowsFine ==
  /\ rows \in Seq(Session)
  /\ \A k \in DOMAIN rows : Exact(rows[k])
  /\ \A i, j \in DOMAIN rows :
       i < j => rows[j].start - rows[i].start >= (j - i) * Stride

(* Kept rows are at least a window apart. *)
KeptFine ==
  /\ kept \in Seq(Session)
  /\ \A k \in DOMAIN kept : Exact(kept[k])
  /\ \A i, j \in DOMAIN kept : i < j => kept[j].start - kept[i].start >= Window

BoundaryInside ==
  boundary \in Nat /\ (pc = "done" => boundary \in 1..(Len(kept) - 1))

SplitInv == SliceInv /\ SessionsApart /\ RowsFine /\ KeptFine /\ BoundaryInside

LEMMA TimesMonotone ==
  ASSUME NEW a \in Int, NEW b \in Int, NEW c \in Nat, a >= b
  PROVE  a * c >= b * c
OBVIOUS

LEMMA TimesMinus ==
  ASSUME NEW a \in Int, NEW b \in Int, NEW c \in Int
  PROVE  (a - b) * c = a * c - b * c
OBVIOUS

LEMMA TimesSucc ==
  ASSUME NEW a \in Int, NEW c \in Int
  PROVE  (a + 1) * c = a * c + c
OBVIOUS

LEMMA Quotient ==
  ASSUME NEW n \in Nat, NEW d \in Nat \ {0}
  PROVE  /\ n \div d \in Nat
         /\ (n \div d) * d <= n
         /\ n < (n \div d) * d + d
OBVIOUS

LEMMA SessionAt ==
  ASSUME NEW s \in Seq(Session), NEW i \in DOMAIN s
  PROVE  s[i].start \in Int /\ i \in Nat /\ i <= Len(s)
<1>1. s[i] \in Session
  OBVIOUS
<1>2. s[i].start \in Int
  BY <1>1 DEF Session
<1>3. DOMAIN s = 1..Len(s) /\ Len(s) \in Nat
  OBVIOUS
<1> QED
  BY <1>2, <1>3

LEMMA StridesApart ==
  ASSUME NEW s \in Seq(Session),
         \A i, j \in DOMAIN s :
           i < j => s[j].start - s[i].start >= (j - i) * Stride,
         NEW x \in DOMAIN s, NEW y \in DOMAIN s,
         NEW n \in Nat \ {0}, y - x >= n
  PROVE  s[y].start - s[x].start >= n * Stride
<1>1. /\ x \in Nat /\ y \in Nat /\ x < y
      /\ s[x].start \in Int /\ s[y].start \in Int
  BY SessionAt
<1>2. s[y].start - s[x].start >= (y - x) * Stride
  BY <1>1
<1>3. (y - x) * Stride >= n * Stride
  <2> DEFINE z == y - x
  <2>1. z \in Int /\ z >= n /\ n \in Int /\ Stride \in Nat
    BY <1>1, WindowsAssumption
  <2> HIDE DEF z
  <2>2. z * Stride >= n * Stride
    BY <2>1, TimesMonotone
  <2> QED
    BY <2>2 DEF z
<1>4. (y - x) * Stride \in Int /\ n * Stride \in Int
  BY <1>1, WindowsAssumption
<1> DEFINE a == (y - x) * Stride
           b == n * Stride
           c == s[y].start - s[x].start
<1>5. a \in Int /\ b \in Int /\ c \in Int /\ c >= a /\ a >= b
  BY <1>1, <1>2, <1>3, <1>4
<1> HIDE DEF a, b, c
<1>6. c >= b
  BY <1>5
<1> QED
  BY <1>6 DEF b, c

(* ceil(window / stride) strides are at least a window. *)
LEMMA DisjointStepWide ==
  DisjointStep \in Nat \ {0} /\ DisjointStep * Stride >= Window
<1> USE WindowsAssumption
<1> DEFINE n == Window + Stride - 1
           q == n \div Stride
<1>1. n \in Nat /\ Stride \in Nat \ {0} /\ n >= Stride
  OBVIOUS
<1>2. q \in Nat /\ n < q * Stride + Stride
  BY <1>1, Quotient
<1>3. q * Stride \in Int
  BY <1>1, <1>2
<1>4. q * Stride >= Window
  <2> HIDE DEF q
  <2> QED
    BY <1>2, <1>3
<1>5. q # 0
  <2> SUFFICES ASSUME q = 0 PROVE FALSE
    OBVIOUS
  <2> HIDE DEF q, n
  <2> QED
    BY <1>1, <1>2
<1> QED
  BY <1>2, <1>4, <1>5 DEF DisjointStep

LEMMA SplitInvInit == Init => SplitInv
<1> SUFFICES ASSUME Init PROVE SplitInv
  OBVIOUS
<1> QED
  BY SliceInvInit DEF Init, SplitInv, SessionsApart, RowsFine, KeptFine, BoundaryInside

(* The session that Emit appends is a stride behind those before it. *)
LEMMA ApartEmit ==
  ASSUME SplitInv, Emit
  PROVE  SessionsApart'
<1> USE WindowsAssumption DEF SplitInv, SliceInv, IndexTypes
<1> DEFINE s == [start |-> cursor, from |-> left, to |-> right]
           n == Len(sessions)
<1>1. s \in Session /\ n \in Nat /\ cursor' = cursor + Stride /\ cursor \in Int
  BY DEF Session, Emit, NextCursor
<1>2. ASSUME NEW i \in DOMAIN sessions
      PROVE  sessions[i].start \in Int /\ i \in Nat /\ i <= n
  <2> HIDE DEF IndexTypes, SliceInv, SplitInv
  <2>1. sessions \in Seq(Session)
    BY DEF IndexTypes, SliceInv, SplitInv
  <2> QED
    BY <2>1, SessionAt
<1>3. CASE right - left >= MinEvents
  <2>1. sessions' = Append(sessions, s)
    BY <1>3 DEF Emit
  <2>2. /\ Len(sessions') = n + 1 /\ DOMAIN sessions' = 1..(n + 1)
        /\ DOMAIN sessions = 1..n
        /\ sessions'[n + 1] = s
        /\ \A k \in 1..n : sessions'[k] = sessions[k]
    BY <1>1, <2>1
  <2>3. ASSUME NEW i \in DOMAIN sessions', NEW j \in DOMAIN sessions', i < j
        PROVE  sessions'[j].start - sessions'[i].start >= (j - i) * Stride
    <3>1. i \in 1..n
      BY <1>1, <2>2, <2>3
    <3>2. CASE j \in 1..n
      BY <2>2, <2>3, <3>1, <3>2 DEF SessionsApart
    <3>3. CASE j = n + 1
      BY <2>2, <3>1, <3>3 DEF SessionsApart
    <3> QED
      BY <1>1, <2>2, <3>2, <3>3
  <2>4. ASSUME NEW i \in DOMAIN sessions'
        PROVE  cursor' - sessions'[i].start >= (Len(sessions') + 1 - i) * Stride
    <3>1. CASE i \in 1..n
      <4> DEFINE x == sessions[i].start
                 k == n + 1 - i
                 m == Len(sessions') + 1 - i
      <4>1. cursor - x >= k * Stride
        BY <2>2, <3>1 DEF SessionsApart
      <4>2. x \in Int /\ k \in Int /\ m = k + 1 /\ sessions'[i] = sessions[i]
        BY <1>1, <1>2, <2>2, <3>1
      <4> HIDE DEF k, m
      <4>3. m * Stride = k * Stride + Stride /\ k * Stride \in Int
        BY <4>2, TimesSucc
      <4>4. cursor' - x >= m * Stride
        <5> HIDE DEF x
        <5> QED
          BY <1>1, <4>1, <4>2, <4>3
      <4> QED
        BY <4>2, <4>4 DEF m
    <3>2. CASE i = n + 1
      <4>1. (n + 2 - i) * Stride = Stride
        BY <1>1, <3>2
      <4> QED
        BY <1>1, <2>2, <3>2, <4>1
    <3> QED
      BY <1>1, <2>2, <3>1, <3>2
  <2> QED
    BY <2>3, <2>4 DEF SessionsApart
<1>4. CASE ~(right - left >= MinEvents)
  <2>1. sessions' = sessions
    BY <1>4 DEF Emit
  <2>2. ASSUME NEW i \in DOMAIN sessions
        PROVE  cursor' - sessions[i].start >= (n + 1 - i) * Stride
    <3>1. cursor - sessions[i].start >= (n + 1 - i) * Stride
      BY DEF SessionsApart
    <3>2. (n + 1 - i) * Stride \in Int /\ sessions[i].start \in Int
      BY <1>1, <1>2
    <3> QED
      BY <1>1, <3>1, <3>2
  <2> QED
    BY <2>1, <2>2 DEF SessionsApart
<1> QED
  BY <1>3, <1>4

(* Labelled rows are as far apart as the sessions they were. *)
LEMMA RowsLabel ==
  ASSUME SplitInv, Label
  PROVE  RowsFine'
<1> USE WindowsAssumption DEF SplitInv, SliceInv, IndexTypes
<1>1. PICK n \in 0..Len(sessions) : \E pick \in [1..n -> DOMAIN sessions] :
        InOrder(pick) /\ rows' = Rows(pick)
  BY DEF Label
<1>2. PICK pick \in [1..n -> DOMAIN sessions] : InOrder(pick) /\ rows' = Rows(pick)
  BY <1>1
<1>3. /\ n \in Nat /\ times' = times
      /\ DOMAIN rows' = 1..n
      /\ \A i \in 1..n : rows'[i] = sessions[pick[i]] /\ pick[i] \in DOMAIN sessions
  BY <1>2 DEF Rows, Label
<1>4. \A k \in DOMAIN sessions : sessions[k] \in Session /\ k \in Nat
  OBVIOUS
<1>5. rows' \in Seq(Session)
  <2>1. rows' = [i \in 1..n |-> sessions[pick[i]]]
    BY <1>2 DEF Rows
  <2> QED
    BY <1>3, <1>4, <2>1
<1>6. ASSUME NEW k \in DOMAIN rows' PROVE Exact(rows[k])'
  <2>1. k \in 1..n /\ rows'[k] = sessions[pick[k]] /\ pick[k] \in DOMAIN sessions
    BY <1>3
  <2>2. SlicesExact
    OBVIOUS
  <2> HIDE DEF SplitInv, SliceInv, IndexTypes
  <2>3. Exact(sessions[pick[k]])
    BY <2>1, <2>2 DEF Exact, SlicesExact
  <2> QED
    BY <1>3, <2>1, <2>3 DEF Exact, Events
<1>7. ASSUME NEW i \in DOMAIN rows', NEW j \in DOMAIN rows', i < j
      PROVE  rows'[j].start - rows'[i].start >= (j - i) * Stride
  <2>1. /\ i \in 1..n /\ j \in 1..n /\ pick[i] \in Nat /\ pick[j] \in Nat
        /\ pick[j] - pick[i] >= j - i
    BY <1>2, <1>3, <1>4, <1>7 DEF InOrder
  <2>2. /\ j - i \in Nat \ {0}
        /\ pick[i] \in DOMAIN sessions /\ pick[j] \in DOMAIN sessions
    BY <1>3, <1>7, <2>1
  <2> HIDE DEF SplitInv, SliceInv, IndexTypes
  <2>3. sessions \in Seq(Session)
    BY DEF SplitInv, SliceInv, IndexTypes
  <2>4. sessions[pick[j]].start - sessions[pick[i]].start >= (j - i) * Stride
    BY <2>1, <2>2, <2>3, StridesApart DEF SplitInv, SessionsApart
  <2> QED
    BY <1>3, <2>1, <2>4
<1> QED
  BY <1>5, <1>6, <1>7 DEF RowsFine

(* Every DisjointStep-th row: the kept ones are a window apart. *)
LEMMA KeptSplit ==
  ASSUME SplitInv, NEW phase \in 0..(DisjointStep - 1),
         kept' = EveryStep(phase), times' = times
  PROVE  KeptFine'
<1> USE WindowsAssumption
<1> DEFINE d == DisjointStep
           n == Len(rows)
<1>1. d \in Nat \ {0} /\ d * Stride >= Window /\ phase \in Nat
  BY DisjointStepWide
<1>2. rows \in Seq(Session) /\ n \in Nat
  BY DEF SplitInv, RowsFine
<1>3. CASE phase >= n
  <2>1. kept' = <<>>
    BY <1>3 DEF EveryStep
  <2> QED
    BY <2>1 DEF KeptFine
<1>4. CASE phase < n
  <2> DEFINE len == 1 + (n - 1 - phase) \div d
             at(i) == phase + 1 + (i - 1) * d
  <2>1. /\ (n - 1 - phase) \div d \in Nat
        /\ ((n - 1 - phase) \div d) * d <= n - 1 - phase
    <3>1. n - 1 - phase \in Nat
      BY <1>1, <1>2, <1>4
    <3> QED
      BY <1>1, <3>1, Quotient
  <2>2. kept' = [i \in 1..len |-> rows[at(i)]] /\ len \in Nat
    BY <1>1, <1>2, <1>4, <2>1 DEF EveryStep
  <2>3. ASSUME NEW i \in 1..len PROVE at(i) \in 1..n /\ (i - 1) * d \in Nat
    <3>1. i - 1 \in Nat /\ i - 1 <= (n - 1 - phase) \div d
      BY <2>1, <2>2
    <3>2. (i - 1) * d \in Nat /\ (i - 1) * d <= ((n - 1 - phase) \div d) * d
      BY <1>1, <2>1, <3>1, TimesMonotone
    <3> QED
      BY <1>1, <1>2, <1>4, <2>1, <3>2
  <2> HIDE DEF len
  <2>4. kept' \in Seq(Session)
    BY <1>2, <2>2, <2>3
  <2>5. DOMAIN kept' = 1..len /\ \A i \in 1..len : kept'[i] = rows[at(i)]
    BY <2>2
  <2>6. ASSUME NEW k \in DOMAIN kept' PROVE Exact(kept[k])'
    <3>1. Exact(rows[at(k)])
      BY <1>2, <2>3, <2>5 DEF SplitInv, RowsFine
    <3> QED
      BY <2>5, <3>1 DEF Exact, Events
  <2>7. ASSUME NEW i \in DOMAIN kept', NEW j \in DOMAIN kept', i < j
        PROVE  kept'[j].start - kept'[i].start >= Window
    <3>1. i \in 1..len /\ j \in 1..len /\ i \in Int /\ j \in Int
      BY <2>2, <2>5
    <3>2. at(i) \in 1..n /\ at(j) \in 1..n /\ (i - 1) * d \in Nat /\ (j - 1) * d \in Nat
      BY <2>3, <3>1
    <3>3. at(j) - at(i) >= d
      <4>1. (j - 1) * d - (i - 1) * d = (j - i) * d
        BY <1>1, <3>1, TimesMinus
      <4>2. (j - i) * d >= d
        BY <1>1, <2>7, <3>1, TimesMonotone
      <4> QED
        BY <1>1, <3>2, <4>1, <4>2
    <3> DEFINE x == at(i)
               y == at(j)
    <3>4. x \in DOMAIN rows /\ y \in DOMAIN rows /\ y - x >= d
      BY <1>2, <3>2, <3>3
    <3>5. kept'[i] = rows[x] /\ kept'[j] = rows[y]
      BY <2>5, <3>1
    <3> HIDE DEF x, y, d
    <3>6. rows[y].start - rows[x].start >= d * Stride
      BY <1>1, <1>2, <3>4, StridesApart DEF SplitInv, RowsFine
    <3>7. rows[y].start \in Int /\ rows[x].start \in Int
      BY <1>2, <3>4, SessionAt
    <3>8. d * Stride \in Int
      BY <1>1
    <3> DEFINE c == rows[y].start - rows[x].start
               w == d * Stride
    <3>9. c \in Int /\ w \in Int /\ c >= w /\ w >= Window
      BY <1>1, <3>6, <3>7, <3>8
    <3> HIDE DEF c, w
    <3>10. c >= Window
      BY <3>9
    <3> QED
      BY <3>5, <3>10 DEF c
  <2> QED
    BY <2>4, <2>6, <2>7 DEF KeptFine
<1> QED
  BY <1>1, <1>2, <1>3, <1>4

(* Both sides of the holdout get a row. *)
LEMMA TrainCountInside ==
  ASSUME NEW n \in Nat, n >= 2
  PROVE  TrainCount(n) \in 1..(n - 1)
<1>1. (n * TestPercent) \div 100 \in Int
  BY WindowsAssumption
<1>2. Round(n) \in Int
  BY <1>1 DEF Round
<1> QED
  BY <1>2 DEF TrainCount

LEMMA SplitInvStep == SplitInv /\ [Next]_vars => SplitInv'
<1> SUFFICES ASSUME SplitInv, [Next]_vars PROVE SplitInv'
  OBVIOUS
<1>0. SliceInv' /\ times' = times
  BY SliceInvStep DEF SplitInv, Next, vars, MoveLeft, MoveRight, Emit, Label, Split
<1>1. CASE MoveLeft
  BY <1>0, <1>1 DEF MoveLeft, SplitInv, SessionsApart, RowsFine, KeptFine,
     BoundaryInside, Exact, Events
<1>2. CASE MoveRight
  BY <1>0, <1>2 DEF MoveRight, SplitInv, SessionsApart, RowsFine, KeptFine,
     BoundaryInside, Exact, Events
<1>3. CASE Emit
  <2>1. SessionsApart'
    BY <1>3, ApartEmit
  <2> QED
    BY <1>0, <1>3, <2>1 DEF Emit, SplitInv, RowsFine, KeptFine, BoundaryInside,
       Exact, Events
<1>4. CASE Label
  <2>1. RowsFine'
    BY <1>4, RowsLabel
  <2> QED
    BY <1>0, <1>4, <2>1 DEF Label, SplitInv, SessionsApart, KeptFine,
       BoundaryInside, Exact, Events
<1>5. CASE Split
  <2>1. PICK phase \in 0..(DisjointStep - 1) :
          /\ kept' = EveryStep(phase)
          /\ IF Len(kept') < 2
             THEN pc' = "exit" /\ boundary' = boundary
             ELSE pc' = "done" /\ boundary' = TrainCount(Len(kept'))
    BY <1>5 DEF Split
  <2>2. KeptFine'
    BY <1>0, <2>1, KeptSplit
  <2>3. BoundaryInside'
    <3>1. Len(kept') \in Nat
      BY <2>2 DEF KeptFine
    <3>2. CASE Len(kept') < 2
      BY <2>1, <3>2 DEF SplitInv, BoundaryInside
    <3>3. CASE Len(kept') >= 2
      BY <2>1, <3>1, <3>3, TrainCountInside DEF BoundaryInside
    <3> QED
      BY <3>1, <3>2, <3>3
  <2>4. RowsFine' /\ SessionsApart'
    BY <1>0, <1>5 DEF Split, SplitInv, RowsFine, SessionsApart, Exact, Events
  <2> QED
    BY <1>0, <2>2, <2>3, <2>4 DEF SplitInv
<1>6. CASE UNCHANGED vars
  BY <1>0, <1>6 DEF vars, SplitInv, SessionsApart, RowsFine, KeptFine,
     BoundaryInside, Exact, Events
<1> QED
  BY <1>1, <1>2, <1>3, <1>4, <1>5, <1>6 DEF Next

(* Two kept rows are so far apart that the earlier ends before the later    *)
(* begins.                                                                  *)
LEMMA KeptDisjoint ==
  ASSUME SplitInv, NEW i \in DOMAIN kept, NEW j \in DOMAIN kept, i < j,
         NEW e \in Events(kept[i]), NEW f \in Events(kept[j])
  PROVE  times[e] < times[f]
<1>1. KeptFine /\ kept \in Seq(Session) /\ times \in Seq(Int)
  BY DEF SplitInv, SliceInv, IndexTypes, KeptFine
<1>2. /\ e \in DOMAIN times /\ times[e] < kept[i].start + Window
      /\ f \in DOMAIN times /\ kept[j].start <= times[f]
  BY <1>1 DEF KeptFine, Exact
<1>3. times[e] \in Int /\ times[f] \in Int
  BY <1>1, <1>2
<1>4. kept[i].start \in Int /\ kept[j].start \in Int
  BY <1>1, SessionAt
<1>5. kept[j].start - kept[i].start >= Window
  BY <1>1 DEF KeptFine
<1> QED
  BY WindowsAssumption, <1>2, <1>3, <1>4, <1>5

(* No event is in two kept windows, for every window and stride, whichever  *)
(* windows are left out or lack a label (infer_disjoint_step).              *)
THEOREM NoEventKeptTwiceCorrect == Spec => []NoEventKeptTwice
<1>1. SplitInv => NoEventKeptTwice
  <2> SUFFICES ASSUME SplitInv, NEW i \in DOMAIN kept, NEW j \in DOMAIN kept,
                      i # j, NEW e \in Events(kept[i]) \cap Events(kept[j])
               PROVE  FALSE
    BY DEF NoEventKeptTwice
  <2>1. i < j \/ j < i
    BY DEF SplitInv, KeptFine
  <2>2. times[e] < times[e]
    BY <2>1, KeptDisjoint
  <2>3. times[e] \in Int
    BY DEF SplitInv, KeptFine, SliceInv, IndexTypes, Exact
  <2> QED
    BY <2>2, <2>3
<1> QED
  BY SplitInvInit, SplitInvStep, <1>1, PTL DEF Spec

(* The holdout is chronological and neither side is empty, for every window,*)
(* stride and test size (time_split_boundary, choose_split_indices).        *)
THEOREM TrainBeforeTestCorrect == Spec => []TrainBeforeTest
<1>1. SplitInv => TrainBeforeTest
  <2> SUFFICES ASSUME SplitInv, pc = "done"
               PROVE  /\ boundary \in 1..(Len(kept) - 1)
                      /\ \A i \in 1..boundary, j \in (boundary + 1)..Len(kept) :
                           \A e \in Events(kept[i]), f \in Events(kept[j]) :
                             times[e] < times[f]
    BY DEF TrainBeforeTest
  <2>1. boundary \in 1..(Len(kept) - 1) /\ Len(kept) \in Nat
    BY DEF SplitInv, BoundaryInside, KeptFine
  <2>2. ASSUME NEW i \in 1..boundary, NEW j \in (boundary + 1)..Len(kept)
        PROVE  i \in DOMAIN kept /\ j \in DOMAIN kept /\ i < j
    BY <2>1 DEF SplitInv, KeptFine
  <2> QED
    BY <2>1, <2>2, KeptDisjoint
<1> QED
  BY SplitInvInit, SplitInvStep, <1>1, PTL DEF Spec

(* Every variable keeps its type. *)
THEOREM TypeCorrect == Spec => []TypeOK
<1>1. SplitInv /\ CoverInv => TypeOK
  BY DEF SplitInv, CoverInv, SliceInv, IndexTypes, AllPassed, RowsFine, KeptFine,
     BoundaryInside, TypeOK
<1> QED
  BY CoverInvInit, CoverInvStep, SplitInvInit, SplitInvStep, <1>1, PTL DEF Spec
-----------------------------------------------------------------------------
(* What is left to do: the time the cursor has before it, the events each   *)
(* index has before it, and the stages to come.                             *)
StagesLeft ==
  CASE pc = "left" -> 5 [] pc = "right" -> 4 [] pc = "emit" -> 3
    [] pc = "label" -> 2 [] pc = "split" -> 1 [] OTHER -> 0

TimeAhead ==
  IF cursor <= times[Len(times)] THEN times[Len(times)] - cursor + 1 ELSE 0

WorkLeft ==
  3 * TimeAhead + (Len(times) - left) + (Len(times) - right) + StagesLeft

(* Every step of the loops lowers what is left to do, however many events   *)
(* share a time and whichever windows are left out: the loop of             *)
(* build_windows cannot run for ever, because the cursor moves (line 161).  *)
EveryStepNearer == [](WorkLeft \in Nat) /\ [][WorkLeft' < WorkLeft]_vars

CursorInside == pc \in {"left", "right", "emit"} => cursor <= times[Len(times)]

LEMMA CursorInsideInit == Init => CursorInside
<1> SUFFICES ASSUME Init
             PROVE  CursorInside
  OBVIOUS
<1>1. PICK n \in 1..MaxLen : times \in [1..n -> 0..MaxTime]
  BY DEF Init
<1>2. n \in Nat /\ Len(times) = n /\ 1 \in DOMAIN times /\ n \in DOMAIN times
      /\ times[1] \in Int /\ times[n] \in Int
  BY <1>1, WindowsAssumption
<1>3. times[1] <= times[n]
  BY <1>2 DEF Init, Sorted
<1>4. QED
  BY <1>2, <1>3 DEF Init, CursorInside

LEMMA LastTime == TypeOK => times[Len(times)] \in Int
BY DEF TypeOK

LEMMA CursorInsideStep == TypeOK /\ CursorInside /\ [Next]_vars => CursorInside'
<1> SUFFICES ASSUME TypeOK, CursorInside, [Next]_vars
             PROVE  CursorInside'
  OBVIOUS
<1>1. CASE MoveLeft
  BY <1>1 DEF MoveLeft, CursorInside
<1>2. CASE MoveRight
  BY <1>2 DEF MoveRight, CursorInside
<1>3. CASE Emit
  BY <1>3 DEF Emit, CursorInside
<1>4. CASE Label
  BY <1>4 DEF Label, CursorInside
<1>5. CASE Split
  BY <1>5 DEF Split, CursorInside
<1>6. CASE UNCHANGED vars
  BY <1>6 DEF vars, CursorInside
<1>7. QED
  BY <1>1, <1>2, <1>3, <1>4, <1>5, <1>6 DEF Next

LEMMA WorkLeftType ==
  ASSUME TypeOK
  PROVE  /\ TimeAhead \in Nat /\ StagesLeft \in Nat
         /\ Len(times) - left \in Nat /\ Len(times) - right \in Nat
         /\ WorkLeft \in Nat
<1>1. TimeAhead \in Nat
  BY LastTime DEF TypeOK, TimeAhead
<1>2. StagesLeft \in Nat
  BY DEF StagesLeft
<1>3. Len(times) - left \in Nat /\ Len(times) - right \in Nat
  BY DEF TypeOK
<1>4. QED
  BY <1>1, <1>2, <1>3 DEF WorkLeft

LEMMA StepNearer ==
  ASSUME TypeOK, TypeOK', CursorInside, Next
  PROVE  WorkLeft' < WorkLeft
<1>0. /\ TimeAhead \in Nat /\ StagesLeft \in Nat /\ times[Len(times)] \in Int
      /\ left \in Int /\ right \in Int /\ Len(times) \in Int /\ cursor \in Int
  BY WorkLeftType, LastTime DEF TypeOK
<1>1. CASE MoveLeft
  <2>1. UNCHANGED <<times, right, cursor>> /\ TimeAhead' = TimeAhead /\ pc = "left"
    BY <1>1 DEF MoveLeft, TimeAhead
  <2>2. \/ left' = left + 1 /\ pc' = "left"
        \/ left' = left /\ pc' = "right"
    BY <1>1 DEF MoveLeft
  <2>3. \/ left' = left + 1 /\ StagesLeft' = StagesLeft
        \/ left' = left /\ StagesLeft' = StagesLeft - 1
    BY <2>1, <2>2 DEF StagesLeft
  <2>4. QED
    BY <1>0, <2>1, <2>3 DEF WorkLeft
<1>2. CASE MoveRight
  <2>1. UNCHANGED <<times, left, cursor>> /\ TimeAhead' = TimeAhead /\ pc = "right"
    BY <1>2 DEF MoveRight, TimeAhead
  <2>2. \/ right' = right + 1 /\ pc' = "right"
        \/ right' = right /\ pc' = "emit"
    BY <1>2 DEF MoveRight
  <2>3. \/ right' = right + 1 /\ StagesLeft' = StagesLeft
        \/ right' = right /\ StagesLeft' = StagesLeft - 1
    BY <2>1, <2>2 DEF StagesLeft
  <2>4. QED
    BY <1>0, <2>1, <2>3 DEF WorkLeft
<1>3. CASE Emit
  <2>1. UNCHANGED <<times, left, right>> /\ cursor' = cursor + Stride /\ pc = "emit"
        /\ (pc' = "left" \/ pc' = "label")
    BY <1>3 DEF Emit, NextCursor
  <2>2. cursor <= times[Len(times)]
    BY <2>1 DEF CursorInside
  <2>3. TimeAhead' < TimeAhead /\ TimeAhead' \in Nat
    BY <1>0, <2>1, <2>2, WindowsAssumption DEF TimeAhead
  <2>4. StagesLeft' <= 5 /\ StagesLeft = 3 /\ StagesLeft' \in Nat
    BY <2>1 DEF StagesLeft
  <2>5. QED
    BY <1>0, <2>1, <2>3, <2>4 DEF WorkLeft
<1>4. CASE Label
  <2>1. UNCHANGED <<times, left, right, cursor>> /\ TimeAhead' = TimeAhead
        /\ pc = "label" /\ (pc' = "exit" \/ pc' = "split")
    BY <1>4 DEF Label, TimeAhead
  <2>2. StagesLeft' < StagesLeft /\ StagesLeft' \in Nat
    BY <2>1 DEF StagesLeft
  <2>3. QED
    BY <1>0, <2>1, <2>2 DEF WorkLeft
<1>5. CASE Split
  <2>1. UNCHANGED <<times, left, right, cursor>> /\ TimeAhead' = TimeAhead
        /\ pc = "split" /\ (pc' = "exit" \/ pc' = "done")
    BY <1>5 DEF Split, TimeAhead
  <2>2. StagesLeft' < StagesLeft /\ StagesLeft' \in Nat
    BY <2>1 DEF StagesLeft
  <2>3. QED
    BY <1>0, <2>1, <2>2 DEF WorkLeft
<1>6. QED
  BY <1>1, <1>2, <1>3, <1>4, <1>5 DEF Next

(* For every window, stride and sorted event times, the builder's loops and *)
(* the split come to an end.                                                *)
THEOREM EveryStepNearerCorrect == Spec => EveryStepNearer
<1>1. TypeOK => WorkLeft \in Nat
  BY WorkLeftType
<1>2. TypeOK /\ TypeOK' /\ CursorInside /\ [Next]_vars => [WorkLeft' < WorkLeft]_vars
  BY StepNearer
<1>3. Spec => []TypeOK
  BY TypeCorrect
<1>4. QED
  BY <1>1, <1>2, <1>3, CursorInsideInit, CursorInsideStep, PTL
     DEF Spec, EveryStepNearer
=============================================================================
