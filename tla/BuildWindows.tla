---------------------------- MODULE BuildWindows ----------------------------
(***************************************************************************)
(* The sliding windows of dataset/prepare_dataset.py and their split for   *)
(* training by experiments/split_utils.py and train_baseline.py.           *)
(*                                                                         *)
(* build_windows moves two indices over the sorted events while a cursor   *)
(* jumps by the stride.  Windows of too few events are left out, labels    *)
(* exist for some of the rows only, and of the labelled rows every         *)
(* step-th is kept, so that no two kept windows share an event.            *)
(*                                                                         *)
(* Times are whole milliseconds.  An event is its index, from 1; left and  *)
(* right are the code's indices from 0, so that events[left:right] are the *)
(* events left + 1 .. right.                                               *)
(***************************************************************************)
EXTENDS Integers, Sequences

CONSTANTS
  Window, Stride,     \* window_ms and stride_ms
  MinEvents,          \* --min-events
  TestPercent,        \* --test-size, in percent
  MaxLen, MaxTime     \* bounds: number of events, their times

ASSUME WindowsAssumption ==
  /\ Window \in Nat \ {0} /\ Stride \in Nat \ {0}
  /\ MinEvents \in Nat
  /\ TestPercent \in 1..99
  /\ MaxLen \in Nat /\ MaxTime \in Nat

VARIABLES
  times,      \* event_times
  left, right,
  cursor,
  sessions,   \* what build_windows returns: the start and the slice of each
  pc,
  rows,       \* sessions with a label, in the order of start_ts
  kept,       \* rows that overlap-aware sampling has kept
  boundary    \* kept[1..boundary] are the training set

vars == <<times, left, right, cursor, sessions, pc, rows, kept, boundary>>

Sorted(s) == \A i, j \in DOMAIN s : i < j => s[i] <= s[j]

Session == [start : Int, from : Nat, to : Nat]

TypeOK ==
  /\ times \in Seq(Int) /\ times # <<>>
  /\ left \in 0..Len(times) /\ right \in 0..Len(times)
  /\ cursor \in Int
  /\ sessions \in Seq(Session)
  /\ pc \in {"left", "right", "emit", "label", "split", "done", "exit"}
  /\ rows \in Seq(Session)
  /\ kept \in Seq(Session)
  /\ boundary \in Nat

(* main leaves before build_windows when there is no event. *)
Init ==
  /\ \E n \in 1..MaxLen : times \in [1..n -> 0..MaxTime]
  /\ Sorted(times)
  /\ left = 0 /\ right = 0
  /\ cursor = times[1]
  /\ sessions = <<>>
  /\ pc = "left"
  /\ rows = <<>> /\ kept = <<>> /\ boundary = 0
-----------------------------------------------------------------------------
(* build_windows. *)

MoveLeft ==
  /\ pc = "left"
  /\ IF left < Len(times) /\ times[left + 1] < cursor
     THEN left' = left + 1 /\ pc' = pc
     ELSE left' = left /\ pc' = "right"
  /\ UNCHANGED <<times, right, cursor, sessions, rows, kept, boundary>>

(* Faulty variant of the next definition: the end of the window is in it. *)
InWindowClosed(t) == t <= cursor + Window

InWindow(t) == t < cursor + Window

MoveRight ==
  /\ pc = "right"
  /\ IF right < Len(times) /\ InWindow(times[right + 1])
     THEN right' = right + 1 /\ pc' = pc
     ELSE right' = right /\ pc' = "emit"
  /\ UNCHANGED <<times, left, cursor, sessions, rows, kept, boundary>>

(* Faulty variants of the next definition: the cursor jumps past the window *)
(* it leaves, or stays where a window was left out.                         *)
NextCursorPast == cursor + Window + 1
NextCursorStuck == IF right - left < MinEvents THEN cursor ELSE cursor + Stride

NextCursor == cursor + Stride

Emit ==
  /\ pc = "emit"
  /\ sessions' = IF right - left >= MinEvents
                 THEN Append(sessions, [start |-> cursor, from |-> left, to |-> right])
                 ELSE sessions
  /\ cursor' = NextCursor
  /\ pc' = IF NextCursor <= times[Len(times)] THEN "left" ELSE "label"
  /\ UNCHANGED <<times, left, right, rows, kept, boundary>>
-----------------------------------------------------------------------------
(* merge_features_and_labels, an inner join: any of the rows may lack a     *)
(* label, and no row at all is an error.  The rows are in the order of      *)
(* their start: rows i < j were sessions at least j - i apart.              *)
InOrder(pick) == \A i, j \in DOMAIN pick : i < j => pick[j] - pick[i] >= j - i

Rows(pick) == [i \in DOMAIN pick |-> sessions[pick[i]]]

Label ==
  /\ pc = "label"
  /\ \E n \in 0..Len(sessions) : \E pick \in [1..n -> DOMAIN sessions] :
       /\ InOrder(pick)
       /\ rows' = Rows(pick)
       /\ pc' = IF n = 0 THEN "exit" ELSE "split"
  /\ UNCHANGED <<times, left, right, cursor, sessions, kept, boundary>>

(* Faulty variant of the next definition: rounded down. *)
DisjointStepFloor == IF Window \div Stride > 1 THEN Window \div Stride ELSE 1

(* infer_disjoint_step: max(1, ceil(window / stride)). *)
DisjointStep == (Window + Stride - 1) \div Stride

(* iloc[phase::step] *)
EveryStep(phase) ==
  LET n == Len(rows)
  IN  IF phase >= n THEN <<>>
      ELSE [i \in 1..(1 + (n - 1 - phase) \div DisjointStep) |->
              rows[phase + 1 + (i - 1) * DisjointStep]]

(* Python's round of n * TestPercent / 100: a tie goes to the even number.  *)
Round(n) ==
  LET q == (n * TestPercent) \div 100
      r == (n * TestPercent) % 100
  IN  IF r > 50 \/ (r = 50 /\ q % 2 = 1) THEN q + 1 ELSE q

(* Faulty variant of the next definition: the test set may take it all. *)
TrainCountZero(n) == IF Round(n) > n - 1 THEN 0 ELSE n - Round(n)

(* time_split_boundary *)
TrainCount(n) ==
  IF Round(n) >= n THEN 1 ELSE IF Round(n) < 1 THEN n - 1 ELSE n - Round(n)

(* prepare_split_frame and choose_split_indices; fewer than two samples are *)
(* an error.                                                                *)
Split ==
  /\ pc = "split"
  /\ \E phase \in 0..(DisjointStep - 1) :
       /\ kept' = EveryStep(phase)
       /\ IF Len(kept') < 2
          THEN pc' = "exit" /\ boundary' = boundary
          ELSE pc' = "done" /\ boundary' = TrainCount(Len(kept'))
  /\ UNCHANGED <<times, left, right, cursor, sessions, rows>>

Next == MoveLeft \/ MoveRight \/ Emit \/ Label \/ Split
Spec == Init /\ [][Next]_vars

(* A sequential program: it goes on while it can. *)
FairSpec == Spec /\ WF_vars(Next)
-----------------------------------------------------------------------------
Events(s) == (s.from + 1)..s.to

(* The two indices, which only ever move forward, cut out of the events     *)
(* exactly those of [start, start + window): build_windows implements the   *)
(* definition of a sliding window.                                          *)
SlicesExact ==
  \A k \in DOMAIN sessions :
    Events(sessions[k]) =
      {i \in DOMAIN times : /\ sessions[k].start <= times[i]
                            /\ times[i] < sessions[k].start + Window}

(* When no window is left out and the stride is no longer than the window,  *)
(* every event is in a session when build_windows returns.                  *)
EveryEventCovered ==
  MinEvents <= 1 /\ Stride <= Window /\ pc \in {"label", "split", "done", "exit"} =>
    UNION {Events(sessions[k]) : k \in DOMAIN sessions} = DOMAIN times

(* README.md:176: no event is both in a training and in a test window, not  *)
(* even after the random fallback: no two kept windows share one, whichever *)
(* windows were left out or lack a label.                                   *)
NoEventKeptTwice ==
  \A i, j \in DOMAIN kept : i # j => Events(kept[i]) \cap Events(kept[j]) = {}

(* The chronological holdout: neither side is empty and every training      *)
(* event is earlier than every test event (choose_split_indices).           *)
TrainBeforeTest ==
  pc = "done" =>
    /\ boundary \in 1..(Len(kept) - 1)
    /\ \A i \in 1..boundary, j \in (boundary + 1)..Len(kept) :
         \A e \in Events(kept[i]), f \in Events(kept[j]) : times[e] < times[f]

(* build_windows comes to its end, whatever the events.                     *)
Terminates == <>(pc \in {"done", "exit"})
=============================================================================
