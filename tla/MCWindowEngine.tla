--------------------------- MODULE MCWindowEngine ---------------------------
(* Feeds WindowEngine with every small window, in every order of arrival.  *)
EXTENDS WindowEngine

CONSTANTS MaxWindow, MaxTs   \* bounds: events in a window, timestamps

ASSUME BoundAssumption == {MaxWindow, MaxTs} \subseteq Nat

(* TotalOf counts what a fold adds up, one value after the other.           *)
ASSUME TotalAssumption ==
  \A f \in [1..3 -> 0..3] : TotalOf(f) = FoldFunction(+, 0, f)

VARIABLE window

Feed == {"file.open", "file.write", "file.rename", "memory.mmap",
         "memory.mprotect", "dns.query"}

Event0(k, t) == [key |-> k, ts |-> t,
                 bytes |-> IF k = "file.write" THEN 2 ELSE 0,
                 long |-> k = "dns.query", rare |-> FALSE]

Init == window = <<>>

Arrive ==
  /\ Len(window) < MaxWindow
  /\ \E k \in Feed, t \in 0..MaxTs : window' = Append(window, Event0(k, t))

Spec == Init /\ [][Arrive]_window

(* The orders in which n events can arrive, listed once. *)
Orders == [n \in 0..MaxWindow |-> {p : p \in Bijection(1..n, 1..n)}]

Shuffled(w) == {[i \in DOMAIN w |-> w[p[i]]] : p \in Orders[Len(w)]}

(* The order in which the detector happens to poll the seven logs does not  *)
(* change what a window scores (extract_window_metrics sorts it).           *)
ArrivalOrderIrrelevant ==
  LET scored == Reasons(window)
  IN  \A w \in Shuffled(window) : Reasons(w) = scored

(* Another event never takes back a reason that counts events; only the     *)
(* rates and the file sequence can be diluted by more events                *)
(* (score_pid_metrics).                                                     *)
EvidenceStays == [][CountReasons(window) \subseteq CountReasons(window')]_window
=============================================================================
