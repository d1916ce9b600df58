--------------------------- MODULE QuickRunProofs ---------------------------
(***************************************************************************)
(* The agents with a perf buffer and the commands over them, for every set *)
(* of agents and CPUs, every ring and any number of calls and runs.        *)
(***************************************************************************)
EXTENDS QuickRun, SequenceTheorems, WellFoundedInduction, TLAPS

Places == {"off", "attach", "poll", "open", "write"}

TraceTypes ==
  /\ at \in [Agents -> Places]
  /\ attached \in [Agents -> {0, 1}]
  /\ ring \in [Agents -> [Cpus -> Seq(Events)]]
  /\ \A a \in Agents, c \in Cpus : Len(ring[a][c]) <= RingLen
  /\ hand \in [Agents -> Events \cup {0}]
  /\ holds \in [Agents -> Nat]
  /\ files \in [Agents -> Seq(Seq(Events))]
  /\ live \in [Agents -> BOOLEAN]
  /\ termed \in [Agents -> BOOLEAN]
  /\ calls \in 0..MaxEvents /\ lost \subseteq Events
  /\ cpuOf \in Seq(Cpus) /\ Len(cpuOf) = calls

(* What goes with the place where an agent is: an event in hand while       *)
(* handle_event runs, none before the buffer is open; the log file it has   *)
(* open is the last that holds anything.                                    *)
Fits(a) ==
  /\ holds[a] <= Len(files[a])
  /\ live[a] => files[a] # <<>>
  /\ at[a] \in {"off", "attach"} => ring[a] = EmptyRing
  /\ at[a] \in {"open", "write"} <=> hand[a] # 0
  /\ at[a] = "write" =>
       /\ holds[a] # 0
       /\ \A k \in DOMAIN files[a] : k > holds[a] => files[a][k] = <<>>

TraceFits == TraceTypes /\ \A a \in Agents : Fits(a)

(* Agent b takes no part in a step. *)
Same(b) ==
  /\ at'[b] = at[b] /\ attached'[b] = attached[b] /\ ring'[b] = ring[b]
  /\ hand'[b] = hand[b] /\ holds'[b] = holds[b] /\ termed'[b] = termed[b]
  /\ files'[b] = files[b] /\ live'[b] = live[b]

LEMMA SameFits == \A b : Fits(b) /\ Same(b) => Fits(b)'
BY DEF Fits, Same

LEMMA Bounds == RingLen \in Nat \ {0} /\ MaxEvents \in Nat /\ 0 \notin Events /\ Events \subseteq Nat
BY TraceAssumption DEF Events

LEMMA EmptyRingType == EmptyRing \in [Cpus -> Seq(Events)] /\ \A c \in Cpus : Len(EmptyRing[c]) = 0
<1>1. <<>> \in Seq(Events) /\ Len(<<>>) = 0
  BY EmptySeq
<1> QED
  BY <1>1 DEF EmptyRing

LEMMA TraceFitsInit == TraceInit => TraceFits
<1> SUFFICES ASSUME TraceInit PROVE TraceFits
  OBVIOUS
<1>1. <<>> \in Seq(Seq(Events)) /\ <<>> \in Seq(Cpus) /\ Len(<<>>) = 0
  OBVIOUS
<1>2. TraceTypes
  BY <1>1, Bounds, EmptyRingType DEF TraceInit, TraceTypes, Places
<1>3. \A a \in Agents : Fits(a)
  BY <1>1 DEF TraceInit, Fits
<1> QED
  BY <1>2, <1>3 DEF TraceFits
-----------------------------------------------------------------------------
(* What the files of an agent hold, what its rings hold. *)
Flat(fs) == UNION {ToSet(fs[k]) : k \in DOMAIN fs}
Buffered(r) == UNION {ToSet(r[c]) : c \in Cpus}

LEMMA InSeq ==
  ASSUME NEW S, NEW s \in Seq(S), NEW e
  PROVE  e \in ToSet(s) <=> \E i \in 1..Len(s) : e = s[i]
<1>1. DOMAIN s = 1..Len(s)
  OBVIOUS
<1> QED
  BY <1>1 DEF ToSet

LEMMA InFlat ==
  ASSUME NEW S, NEW fs \in Seq(Seq(S)), NEW e
  PROVE  e \in Flat(fs) <=> \E k \in 1..Len(fs) : \E i \in 1..Len(fs[k]) : e = fs[k][i]
<1>1. DOMAIN fs = 1..Len(fs)
  OBVIOUS
<1>2. \A k \in 1..Len(fs) : fs[k] \in Seq(S)
  BY ElementOfSeq
<1>3. e \in Flat(fs) <=> \E k \in 1..Len(fs) : e \in ToSet(fs[k])
  BY <1>1 DEF Flat
<1> QED
  BY <1>2, <1>3, InSeq

LEMMA InBuffered ==
  ASSUME NEW r \in [Cpus -> Seq(Events)], NEW e
  PROVE  e \in Buffered(r) <=> \E c \in Cpus : \E i \in 1..Len(r[c]) : e = r[c][i]
<1>1. e \in Buffered(r) <=> \E c \in Cpus : e \in ToSet(r[c])
  BY DEF Buffered
<1>2. \A c \in Cpus : r[c] \in Seq(Events)
  OBVIOUS
<1> QED
  BY <1>1, <1>2, InSeq

LEMMA ToSetAppend ==
  ASSUME NEW S, NEW s \in Seq(S), NEW x \in S
  PROVE  ToSet(Append(s, x)) = ToSet(s) \cup {x}
<1> DEFINE t == Append(s, x)
<1>1. /\ t \in Seq(S) /\ Len(t) = Len(s) + 1 /\ Len(s) \in Nat
      /\ \A i \in 1..Len(s) : t[i] = s[i]
      /\ t[Len(s) + 1] = x
  BY AppendProperties
<1> HIDE DEF t
<1>2. \A e : e \in ToSet(t) <=> e \in ToSet(s) \/ e = x
  <2> TAKE e
  <2>1. e \in ToSet(t) <=> \E i \in 1..(Len(s) + 1) : e = t[i]
    BY <1>1, InSeq
  <2>2. e \in ToSet(s) <=> \E i \in 1..Len(s) : e = s[i]
    BY InSeq
  <2>3. \A i \in 1..(Len(s) + 1) : i \in 1..Len(s) \/ i = Len(s) + 1
    BY <1>1
  <2>4. \A i \in 1..Len(s) : i \in 1..(Len(s) + 1)
    BY <1>1
  <2>5. Len(s) + 1 \in 1..(Len(s) + 1)
    BY <1>1
  <2>6. e \in ToSet(t) => e \in ToSet(s) \/ e = x
    BY <1>1, <2>1, <2>2, <2>3
  <2>7. e \in ToSet(s) \/ e = x => e \in ToSet(t)
    BY <1>1, <2>1, <2>2, <2>4, <2>5
  <2> QED
    BY <2>6, <2>7
<1> QED
  BY <1>2 DEF t

LEMMA FlatAppend ==
  ASSUME NEW S, NEW fs \in Seq(Seq(S))
  PROVE  Flat(Append(fs, <<>>)) = Flat(fs)
<1> DEFINE gs == Append(fs, <<>>)
<1>1. <<>> \in Seq(S) /\ ToSet(<<>>) = {}
  BY DEF ToSet
<1>2. /\ gs \in Seq(Seq(S)) /\ Len(gs) = Len(fs) + 1 /\ Len(fs) \in Nat
      /\ \A k \in 1..Len(fs) : gs[k] = fs[k]
      /\ gs[Len(fs) + 1] = <<>>
  BY <1>1, AppendProperties
<1>3. DOMAIN gs = 1..(Len(fs) + 1) /\ DOMAIN fs = 1..Len(fs)
  BY <1>2
<1> HIDE DEF gs
<1>4. \A e : e \in Flat(gs) <=> e \in Flat(fs)
  <2> TAKE e
  <2>1. e \in Flat(gs) <=> \E k \in 1..(Len(fs) + 1) : e \in ToSet(gs[k])
    BY <1>3 DEF Flat
  <2>2. e \in Flat(fs) <=> \E k \in 1..Len(fs) : e \in ToSet(fs[k])
    BY <1>3 DEF Flat
  <2>3. e \notin ToSet(gs[Len(fs) + 1])
    BY <1>1, <1>2
  <2>4. \A k \in 1..(Len(fs) + 1) : k \in 1..Len(fs) \/ k = Len(fs) + 1
    BY <1>2
  <2>5. \A k \in 1..Len(fs) : k \in 1..(Len(fs) + 1)
    BY <1>2
  <2>6. e \in Flat(gs) => e \in Flat(fs)
    BY <1>2, <2>1, <2>2, <2>3, <2>4
  <2>7. e \in Flat(fs) => e \in Flat(gs)
    BY <1>2, <2>1, <2>2, <2>5
  <2> QED
    BY <2>6, <2>7
<1> QED
  BY <1>4 DEF gs

LEMMA FlatWrite ==
  ASSUME NEW S, NEW fs \in Seq(Seq(S)), NEW h \in 1..Len(fs), NEW x \in S,
         NEW gs \in Seq(Seq(S)), Len(gs) = Len(fs), gs[h] = Append(fs[h], x),
         \A k \in 1..Len(fs) : k # h => gs[k] = fs[k]
  PROVE  Flat(gs) = Flat(fs) \cup {x}
<1>1. fs[h] \in Seq(S) /\ DOMAIN fs = 1..Len(fs)
  BY ElementOfSeq
<1>2. ToSet(Append(fs[h], x)) = ToSet(fs[h]) \cup {x}
  BY <1>1, ToSetAppend
<1>3. DOMAIN gs = 1..Len(fs)
  OBVIOUS
<1>4. \A e : e \in Flat(gs) <=> e \in Flat(fs) \/ e = x
  <2> TAKE e
  <2>1. e \in Flat(gs) <=> \E k \in 1..Len(fs) : e \in ToSet(gs[k])
    BY <1>3 DEF Flat
  <2>2. e \in Flat(fs) <=> \E k \in 1..Len(fs) : e \in ToSet(fs[k])
    BY <1>1 DEF Flat
  <2>3. e \in ToSet(gs[h]) <=> e \in ToSet(fs[h]) \/ e = x
    BY <1>2
  <2> QED
    BY <2>1, <2>2, <2>3
<1> QED
  BY <1>4

LEMMA BufferedAppend ==
  ASSUME NEW r \in [Cpus -> Seq(Events)], NEW c \in Cpus, NEW x \in Events
  PROVE  Buffered([r EXCEPT ![c] = Append(@, x)]) = Buffered(r) \cup {x}
<1> DEFINE q == [r EXCEPT ![c] = Append(@, x)]
<1>1. ToSet(Append(r[c], x)) = ToSet(r[c]) \cup {x}
  BY ToSetAppend
<1>2. q[c] = Append(r[c], x) /\ \A d \in Cpus : d # c => q[d] = r[d]
  OBVIOUS
<1> HIDE DEF q
<1>3. \A e : e \in Buffered(q) <=> e \in Buffered(r) \/ e = x
  <2> TAKE e
  <2>1. e \in Buffered(q) <=> \E d \in Cpus : e \in ToSet(q[d])
    BY DEF Buffered
  <2>2. e \in Buffered(r) <=> \E d \in Cpus : e \in ToSet(r[d])
    BY DEF Buffered
  <2>3. e \in ToSet(q[c]) <=> e \in ToSet(r[c]) \/ e = x
    BY <1>1, <1>2
  <2> QED
    BY <1>2, <2>1, <2>2, <2>3
<1> QED
  BY <1>3 DEF q

LEMMA BufferedTail ==
  ASSUME NEW r \in [Cpus -> Seq(Events)], NEW c \in Cpus, r[c] # <<>>
  PROVE  Buffered(r) = Buffered([r EXCEPT ![c] = Tail(@)]) \cup {Head(r[c])}
<1> DEFINE q == [r EXCEPT ![c] = Tail(@)]
           s == r[c]
<1>1. /\ s \in Seq(Events) /\ Len(s) \in Nat \ {0} /\ Tail(s) \in Seq(Events)
      /\ Len(Tail(s)) = Len(s) - 1 /\ Head(s) = s[1]
      /\ \A i \in 1..Len(Tail(s)) : Tail(s)[i] = s[i + 1]
  BY HeadTailProperties, EmptySeq
<1>2. q[c] = Tail(s) /\ \A d \in Cpus : d # c => q[d] = r[d]
  OBVIOUS
<1>3. \A e : e \in ToSet(s) <=> e \in ToSet(Tail(s)) \/ e = Head(s)
  <2> TAKE e
  <2> DEFINE t == Tail(s)
  <2> HIDE DEF s, t
  <2>1. e \in ToSet(s) <=> \E i \in 1..Len(s) : e = s[i]
    BY <1>1, InSeq
  <2>2. e \in ToSet(t) <=> \E i \in 1..(Len(s) - 1) : e = s[i + 1]
    <3>1. e \in ToSet(t) <=> \E i \in 1..Len(t) : e = t[i]
      BY <1>1, InSeq DEF t
    <3> QED
      BY <1>1, <3>1 DEF t
  <2>3. ASSUME NEW i \in 1..Len(s), i # 1
        PROVE  i - 1 \in 1..(Len(s) - 1) /\ (i - 1) + 1 = i
    BY <1>1, <2>3
  <2>4. \A i \in 1..(Len(s) - 1) : i + 1 \in 1..Len(s)
    BY <1>1
  <2>5. 1 \in 1..Len(s)
    BY <1>1
  <2>6. e \in ToSet(s) => e \in ToSet(t) \/ e = s[1]
    BY <2>1, <2>2, <2>3
  <2>7. e \in ToSet(t) \/ e = s[1] => e \in ToSet(s)
    BY <2>1, <2>2, <2>4, <2>5
  <2> QED
    BY <1>1, <2>6, <2>7 DEF t
<1> HIDE DEF q
<1>4. \A e : e \in Buffered(r) <=> e \in Buffered(q) \/ e = Head(r[c])
  <2> TAKE e
  <2>1. e \in Buffered(q) <=> \E d \in Cpus : e \in ToSet(q[d])
    BY DEF Buffered
  <2>2. e \in Buffered(r) <=> \E d \in Cpus : e \in ToSet(r[d])
    BY DEF Buffered
  <2>3. e \in ToSet(r[c]) <=> e \in ToSet(q[c]) \/ e = Head(r[c])
    BY <1>2, <1>3
  <2> QED
    BY <1>2, <2>1, <2>2, <2>3
<1> QED
  BY <1>4 DEF q

LEMMA BufferedEmpty == Buffered(EmptyRing) = {}
BY DEF Buffered, EmptyRing, ToSet
-----------------------------------------------------------------------------
(* The end of agents. *)
LEMMA GoneFits ==
  ASSUME TraceFits, NEW A \in SUBSET Agents, Gone(A), UNCHANGED <<logs, calls, cpuOf>>,
         lost' \subseteq Events
  PROVE  TraceFits'
<1>0. TraceTypes
  BY DEF TraceFits
<1>a. at' \in [Agents -> Places] /\ termed' \in [Agents -> BOOLEAN]
  BY <1>0 DEF TraceTypes, Gone, Places
<1>b. attached' \in [Agents -> {0, 1}] /\ holds' \in [Agents -> Nat]
  BY <1>0 DEF TraceTypes, Gone
<1>c. hand' \in [Agents -> Events \cup {0}]
  BY <1>0 DEF TraceTypes, Gone
<1>d. ring' \in [Agents -> [Cpus -> Seq(Events)]]
  BY <1>0, EmptyRingType DEF TraceTypes, Gone
<1>e. \A a \in Agents, c \in Cpus : Len(ring'[a][c]) <= RingLen
  BY <1>0, EmptyRingType, Bounds DEF TraceTypes, Gone
<1>1. TraceTypes'
  BY <1>0, <1>a, <1>b, <1>c, <1>d, <1>e DEF TraceTypes, logs
<1>2. ASSUME NEW b \in Agents
      PROVE  Fits(b)'
  <2>1. Fits(b) /\ files'[b] = files[b] /\ live'[b] = live[b] /\ Len(files[b]) \in Nat
    BY DEF TraceFits, TraceTypes, logs
  <2>2. CASE b \in A
    BY <2>1, <2>2 DEF Gone, Fits
  <2>3. CASE b \notin A
    <3>1. Same(b)
      BY <2>1, <2>3 DEF Gone, Same
    <3> QED
      BY <2>1, <3>1, SameFits
  <2> QED
    BY <2>2, <2>3
<1> QED
  BY <1>1, <1>2 DEF TraceFits

LEMMA InsideEvents ==
  ASSUME TraceFits, NEW a \in Agents
  PROVE  Inside(a) \subseteq Events
<1>1. hand[a] \in Events \cup {0} /\ ring[a] \in [Cpus -> Seq(Events)]
  BY DEF TraceFits, TraceTypes
<1>2. ASSUME NEW c \in Cpus, NEW i \in 1..Len(ring[a][c])
      PROVE  ring[a][c][i] \in Events
  BY <1>1, ElementOfSeq
<1>3. Inside(a) = ({hand[a]} \ {0}) \cup Buffered(ring[a])
  BY DEF Inside, Buffered
<1> QED
  BY <1>1, <1>2, <1>3, InBuffered

LEMMA EndFits ==
  ASSUME TraceFits, NEW A \in SUBSET Agents, End(A)
  PROVE  TraceFits'
<1>1. lost' \subseteq Events
  BY InsideEvents DEF End, TraceFits, TraceTypes
<1> QED
  BY <1>1, GoneFits DEF End
-----------------------------------------------------------------------------
(* A step of agent a that leaves the others alone. *)

LEMMA OneFits ==
  ASSUME TraceFits, NEW a \in Agents, TraceTypes', Fits(a)',
         \A b \in Agents \ {a} : Same(b)
  PROVE  TraceFits'
BY SameFits DEF TraceFits

LEMMA AttachFits ==
  ASSUME TraceFits, NEW a \in Agents, Attach(a)
  PROVE  TraceFits'
<1>0. TraceTypes /\ Fits(a)
  BY DEF TraceFits
<1>1. PICK n \in {0, 1} : attached' = [attached EXCEPT ![a] = n]
  BY DEF Attach, OnCall
<1>2. TraceTypes'
  BY <1>0, <1>1 DEF TraceTypes, Attach, Places, logs, traceHist
<1>3. at'[a] = "poll" /\ at[a] = "attach"
  BY <1>0 DEF TraceTypes, Attach
<1>4. Fits(a)'
  BY <1>0, <1>3 DEF Fits, Attach, logs
<1>5. \A b \in Agents \ {a} : Same(b)
  BY <1>0, <1>1 DEF Attach, Same, TraceTypes, logs
<1> QED
  BY <1>2, <1>4, <1>5, OneFits

(* What a call leaves in the ring of its CPU. *)
LEMMA SubmittedIs ==
  ASSUME TraceFits, NEW a \in Agents, NEW c \in Cpus, attached[a] > 0
  PROVE  Submitted(a, c) = IF Len(ring[a][c]) < RingLen
                           THEN Append(ring[a][c], calls + 1) ELSE ring[a][c]
<1> DEFINE r == ring[a][c]
<1>1. r \in Seq(Events) /\ Len(r) \in Nat /\ Len(r) <= RingLen /\ attached[a] = 1
  BY DEF TraceFits, TraceTypes
<1> DEFINE one == [i \in 1..attached[a] |-> calls + 1]
<1>2. one = <<calls + 1>>
  BY <1>1
<1>3. r \o one = Append(r, calls + 1)
  BY <1>1, <1>2
<1> DEFINE all == Append(r, calls + 1)
<1>4. all \in Seq(Nat) /\ Len(all) = Len(r) + 1 /\ \A i \in 1..Len(r) : all[i] = r[i]
  <2>1. r \in Seq(Nat) /\ calls + 1 \in Nat
    <3>1. r \in Seq(Nat)
      BY <1>1, Bounds, SeqMonotonic
    <3>2. calls \in Nat
      BY Bounds DEF TraceFits, TraceTypes
    <3> QED
      BY <3>1, <3>2
  <2> QED
    BY <2>1, AppendProperties
<1>5. Submitted(a, c) = SubSeq(all, 1, IF Len(all) <= RingLen THEN Len(all) ELSE RingLen)
  BY <1>3 DEF Submitted
<1> HIDE DEF all
<1>6. CASE Len(r) < RingLen
  <2>1. Len(all) <= RingLen
    BY <1>1, <1>4, <1>6, Bounds
  <2>2. SubSeq(all, 1, Len(all)) = all
    BY <1>4, SubSeqFull
  <2> QED
    BY <1>5, <1>6, <2>1, <2>2 DEF all
<1>7. CASE ~(Len(r) < RingLen)
  <2>1. Len(r) = RingLen /\ ~(Len(all) <= RingLen)
    BY <1>1, <1>4, <1>7, Bounds
  <2>2. SubSeq(all, 1, RingLen) = r
    BY <1>1, <1>4, <2>1
  <2> QED
    BY <1>5, <1>7, <2>1, <2>2
<1> QED
  BY <1>6, <1>7

LEMMA CallFits ==
  ASSUME TraceFits, NEW a \in Agents, NEW c \in Cpus, Call(a, c)
  PROVE  TraceFits'
<1>0. TraceTypes /\ Fits(a)
  BY DEF TraceFits
<1>1. calls \in Nat /\ calls' = calls + 1 /\ calls' \in 0..MaxEvents /\ calls + 1 \in Events
  BY <1>0, Bounds DEF TraceTypes, Call, Events
<1>2. cpuOf' \in Seq(Cpus) /\ Len(cpuOf') = calls'
  BY <1>0, <1>1, AppendProperties DEF TraceTypes, Call
<1>3. Submitted(a, c) \in Seq(Events) /\ Len(Submitted(a, c)) <= RingLen
  <2>1. /\ ring[a][c] \in Seq(Events) /\ Len(ring[a][c]) <= RingLen
        /\ Len(ring[a][c]) \in Nat
    BY <1>0 DEF TraceTypes
  <2>2. /\ Append(ring[a][c], calls + 1) \in Seq(Events)
        /\ Len(Append(ring[a][c], calls + 1)) = Len(ring[a][c]) + 1
    BY <1>1, <2>1, AppendProperties
  <2>3. Submitted(a, c) = IF Len(ring[a][c]) < RingLen
                          THEN Append(ring[a][c], calls + 1) ELSE ring[a][c]
    BY SubmittedIs DEF Call
  <2>4. CASE Len(ring[a][c]) < RingLen
    BY <2>1, <2>2, <2>3, <2>4, Bounds
  <2>5. CASE ~(Len(ring[a][c]) < RingLen)
    BY <2>1, <2>3, <2>5
  <2> QED
    BY <2>4, <2>5
<1>4. /\ ring' \in [Agents -> [Cpus -> Seq(Events)]]
      /\ \A b \in Agents, d \in Cpus : Len(ring'[b][d]) <= RingLen
  BY <1>0, <1>3 DEF TraceTypes, Call
<1>5. lost' \subseteq Events
  BY <1>0, <1>1 DEF TraceTypes, Call
<1>6. TraceTypes'
  BY <1>0, <1>1, <1>2, <1>4, <1>5 DEF TraceTypes, Call, logs
<1>7. Fits(a)'
  BY <1>0 DEF Fits, Call, Traces, logs
<1>8. \A b \in Agents \ {a} : Same(b)
  BY <1>0 DEF Call, Same, TraceTypes, logs
<1> QED
  BY <1>6, <1>7, <1>8, OneFits

LEMMA PollFits ==
  ASSUME TraceFits, NEW a \in Agents, NEW c \in Cpus, Poll(a, c)
  PROVE  TraceFits'
<1>0. TraceTypes /\ Fits(a)
  BY DEF TraceFits
<1>1. ring[a][c] \in Seq(Events) /\ ring[a][c] # <<>> /\ Len(ring[a][c]) <= RingLen
  BY <1>0 DEF TraceTypes, Poll
<1>2. /\ Head(ring[a][c]) \in Events /\ Tail(ring[a][c]) \in Seq(Events)
      /\ Len(Tail(ring[a][c])) = Len(ring[a][c]) - 1
  BY <1>1, HeadTailProperties
<1>3. /\ ring' \in [Agents -> [Cpus -> Seq(Events)]]
      /\ \A b \in Agents, d \in Cpus : Len(ring'[b][d]) <= RingLen
  <2>1. Len(Tail(ring[a][c])) <= RingLen
    BY <1>1, <1>2, Bounds
  <2> QED
    BY <1>0, <1>2, <2>1 DEF TraceTypes, Poll
<1>4. TraceTypes'
  BY <1>0, <1>2, <1>3 DEF TraceTypes, Poll, Places, logs, traceHist
<1>5. at'[a] = "open" /\ hand'[a] # 0
  BY <1>0, <1>2, Bounds DEF TraceTypes, Poll
<1>6. Fits(a)'
  BY <1>0, <1>5 DEF Fits, Poll, logs
<1>7. \A b \in Agents \ {a} : Same(b)
  BY <1>0 DEF Poll, Same, TraceTypes, logs
<1> QED
  BY <1>4, <1>6, <1>7, OneFits

LEMMA OpenFits ==
  ASSUME TraceFits, NEW a \in Agents, OpenLog(a)
  PROVE  TraceFits'
<1>0. TraceTypes /\ Fits(a)
  BY DEF TraceFits
<1> DEFINE fs == IF live[a] THEN files[a] ELSE Append(files[a], <<>>)
<1>1. files[a] \in Seq(Seq(Events)) /\ <<>> \in Seq(Events)
  BY <1>0 DEF TraceTypes
<1>2. fs \in Seq(Seq(Events)) /\ fs # <<>> /\ Len(fs) \in Nat \ {0}
  <2>1. fs \in Seq(Seq(Events)) /\ fs # <<>>
    <3>1. CASE live[a]
      BY <1>0, <1>1, <3>1 DEF Fits
    <3>2. CASE ~live[a]
      BY <1>1, <3>2, AppendProperties
    <3> QED
      BY <3>1, <3>2
  <2> HIDE DEF fs
  <2> QED
    BY <2>1, EmptySeq
<1>3. files' = [files EXCEPT ![a] = fs] /\ files'[a] = fs
  BY <1>0 DEF OpenLog, TraceTypes
<1>4. holds' = [holds EXCEPT ![a] = Len(fs)]
  BY <1>3 DEF OpenLog
<1> HIDE DEF fs
<1>5. TraceTypes'
  BY <1>0, <1>2, <1>3, <1>4 DEF TraceTypes, OpenLog, Places, traceHist
<1>6. at'[a] = "write" /\ at[a] = "open" /\ holds'[a] = Len(fs) /\ hand'[a] = hand[a]
  BY <1>0, <1>4 DEF TraceTypes, OpenLog
<1>7. Fits(a)'
  BY <1>0, <1>2, <1>3, <1>6 DEF Fits
<1>8. \A b \in Agents \ {a} : Same(b)
  BY <1>0, <1>3, <1>4 DEF OpenLog, Same, TraceTypes
<1> QED
  BY <1>5, <1>7, <1>8, OneFits

LEMMA WriteLineFits ==
  ASSUME TraceFits, NEW a \in Agents, WriteLine(a)
  PROVE  TraceFits'
<1>0. TraceTypes /\ Fits(a)
  BY DEF TraceFits
<1> DEFINE h == holds[a]
           line == Append(files[a][h], hand[a])
           fs == [files[a] EXCEPT ![h] = line]
<1>1. at[a] = "write" /\ h \in 1..Len(files[a]) /\ hand[a] \in Events
  BY <1>0 DEF WriteLine, TraceTypes, Fits
<1>2. files[a][h] \in Seq(Events)
  BY <1>0, <1>1, ElementOfSeq DEF TraceTypes
<1>3. line \in Seq(Events)
  BY <1>1, <1>2, AppendProperties
<1>4. files' = [files EXCEPT ![a] = fs] /\ files'[a] = fs
  BY <1>0 DEF WriteLine, TraceTypes
<1> HIDE DEF line
<1>5. fs \in Seq(Seq(Events)) /\ Len(fs) = Len(files[a])
  BY <1>0, <1>1, <1>3, ExceptSeq DEF TraceTypes
<1> HIDE DEF fs
<1>6. TraceTypes'
  BY <1>0, <1>4, <1>5 DEF TraceTypes, WriteLine, Places, traceHist
<1>7. at'[a] = "poll" /\ holds'[a] = 0 /\ hand'[a] = 0
  BY <1>0 DEF TraceTypes, WriteLine
<1>8. Fits(a)'
  <2>1. fs # <<>> /\ Len(fs) >= 0
    BY <1>1, <1>5
  <2> QED
    BY <1>0, <1>1, <1>4, <1>7, <2>1 DEF Fits, WriteLine
<1>9. \A b \in Agents \ {a} : Same(b)
  BY <1>0, <1>4 DEF WriteLine, Same, TraceTypes
<1> QED
  BY <1>6, <1>8, <1>9, OneFits

LEMMA GiveUpFits ==
  ASSUME TraceFits, NEW a \in Agents, at[a] \in {"open", "write"}, GiveUp(a),
         termed' \in [Agents -> BOOLEAN], \A b \in Agents \ {a} : termed'[b] = termed[b]
  PROVE  TraceFits'
<1>0. TraceTypes /\ Fits(a)
  BY DEF TraceFits
<1>1. hand[a] \in Events /\ Len(files[a]) \in Nat
  BY <1>0 DEF TraceTypes, Fits
<1>2. TraceTypes'
  BY <1>0, <1>1 DEF TraceTypes, GiveUp, Places, logs
<1>3. at'[a] = "poll" /\ holds'[a] = 0 /\ hand'[a] = 0
  BY <1>0 DEF TraceTypes, GiveUp
<1>4. Fits(a)'
  BY <1>0, <1>1, <1>3 DEF Fits, GiveUp, logs
<1>5. \A b \in Agents \ {a} : Same(b)
  BY <1>0 DEF GiveUp, Same, TraceTypes, logs
<1> QED
  BY <1>2, <1>4, <1>5, OneFits

LEMMA AgentFits ==
  ASSUME TraceFits, NEW a \in Agents, AgentStep(a)
  PROVE  TraceFits'
<1>1. CASE AttachNone(a)
  <2>1. lost' \subseteq Events /\ UNCHANGED <<logs, calls, cpuOf>>
    BY <1>1 DEF AttachNone, traceHist, TraceFits, TraceTypes
  <2> QED
    BY <1>1, <2>1, GoneFits DEF AttachNone
<1>2. CASE Sigterm(a)
  BY <1>2, EndFits DEF Sigterm
<1>3. CASE WriteFails(a)
  BY <1>3, GiveUpFits DEF WriteFails, TraceFits, TraceTypes
<1>4. CASE SigtermSwallowed(a)
  BY <1>4, GiveUpFits DEF SigtermSwallowed, TraceFits, TraceTypes
<1> QED
  BY <1>1, <1>2, <1>3, <1>4, AttachFits, PollFits, OpenFits, WriteLineFits DEF AgentStep
-----------------------------------------------------------------------------
(* What the commands do to agents and logs. *)

LEMMA TermFits ==
  ASSUME TraceFits, NEW A \in SUBSET Agents, Term(A)
  PROVE  TraceFits'
<1>1. TraceTypes'
  BY DEF TraceFits, TraceTypes, Term, logs, traceHist
<1>2. \A b \in Agents : Fits(b)'
  BY DEF TraceFits, Fits, Term, logs
<1> QED
  BY <1>1, <1>2 DEF TraceFits

LEMMA StartFits ==
  ASSUME TraceFits, StartStack
  PROVE  TraceFits'
<1>1. PICK up \in SUBSET Agents : at' = [a \in Agents |-> IF a \in up THEN "attach" ELSE "off"]
  BY DEF StartStack
<1>2. TraceTypes'
  BY <1>1 DEF TraceFits, TraceTypes, StartStack, Places, logs, traceHist
<1>3. ASSUME NEW b \in Agents
      PROVE  Fits(b)'
  <2>1. at[b] = "off" /\ at'[b] \in {"attach", "off"} /\ Fits(b)
    BY <1>1 DEF StartStack, Up, TraceFits
  <2> QED
    BY <2>1 DEF Fits, StartStack, logs
<1> QED
  BY <1>2, <1>3 DEF TraceFits

LEMMA ArchiveFits ==
  ASSUME TraceFits, NEW a \in Agents, ArchiveLog(a)
  PROVE  TraceFits'
<1>1. TraceTypes'
  BY DEF TraceFits, TraceTypes, ArchiveLog, agentVars, traceHist
<1>2. \A b \in Agents : live'[b] => live[b]
  BY DEF TraceFits, TraceTypes, ArchiveLog
<1>3. \A b \in Agents : Fits(b)'
  BY <1>2 DEF TraceFits, Fits, ArchiveLog, agentVars
<1> QED
  BY <1>1, <1>3 DEF TraceFits

LEMMA LayOutFiles ==
  ASSUME TraceFits, LayOut, NEW b \in Agents
  PROVE  /\ files'[b] \in Seq(Seq(Events)) /\ files'[b] # <<>>
         /\ Len(files[b]) \in Nat /\ Len(files'[b]) >= Len(files[b])
         /\ DOMAIN files'[b] = 1..Len(files'[b])
         /\ \A k \in 1..Len(files[b]) : files'[b][k] = files[b][k]
         /\ \A k \in DOMAIN files'[b] : k > Len(files[b]) => files'[b][k] = <<>>
         /\ live[b] => files'[b] = files[b]
<1>1. files[b] \in Seq(Seq(Events)) /\ <<>> \in Seq(Events) /\ Fits(b)
  BY DEF TraceFits, TraceTypes
<1>2. files'[b] = IF live[b] THEN files[b] ELSE Append(files[b], <<>>)
  BY DEF LayOut
<1>3. CASE live[b]
  BY <1>1, <1>2, <1>3 DEF Fits
<1>4. CASE ~live[b]
  <2> DEFINE fs == Append(files[b], <<>>)
  <2>1. /\ fs \in Seq(Seq(Events)) /\ fs # <<>> /\ Len(fs) = Len(files[b]) + 1
        /\ \A k \in 1..Len(files[b]) : fs[k] = files[b][k]
        /\ fs[Len(files[b]) + 1] = <<>>
    BY <1>1, AppendProperties
  <2>2. files'[b] = fs /\ Len(files[b]) \in Nat
    BY <1>1, <1>2, <1>4
  <2> HIDE DEF fs
  <2> QED
    BY <1>4, <2>1, <2>2
<1> QED
  BY <1>3, <1>4

LEMMA LayOutFits ==
  ASSUME TraceFits, LayOut
  PROVE  TraceFits'
<1>1. files' \in [Agents -> Seq(Seq(Events))]
  BY LayOutFiles DEF LayOut
<1>2. TraceTypes'
  BY <1>1 DEF TraceFits, TraceTypes, LayOut, agentVars, traceHist
<1>3. ASSUME NEW b \in Agents
      PROVE  Fits(b)'
  <2>1. Fits(b) /\ files[b] \in Seq(Seq(Events)) /\ holds[b] \in Nat
    BY DEF TraceFits, TraceTypes
  <2>2. holds[b] <= Len(files'[b])
    BY <2>1, LayOutFiles DEF Fits
  <2>3. ASSUME at[b] = "write", NEW k \in DOMAIN files'[b], k > holds[b]
        PROVE  files'[b][k] = <<>>
    <3>1. CASE k \in 1..Len(files[b])
      BY <2>1, <2>3, <3>1, LayOutFiles DEF Fits
    <3>2. CASE k \notin 1..Len(files[b])
      <4>1. k > Len(files[b])
        BY <3>2, LayOutFiles
      <4> QED
        BY <4>1, LayOutFiles
    <3> QED
      BY <3>1, <3>2
  <2> QED
    BY <2>1, <2>2, <2>3, LayOutFiles DEF Fits, LayOut, agentVars
<1> QED
  BY <1>2, <1>3 DEF TraceFits

LEMMA StillFits ==
  ASSUME TraceFits, UNCHANGED traceVars
  PROVE  TraceFits'
<1>1. TraceTypes'
  BY DEF TraceFits, TraceTypes, traceVars, agentVars, logs, traceHist
<1>2. \A b \in Agents : Fits(b)'
  BY DEF TraceFits, Fits, traceVars, agentVars, logs, traceHist
<1> QED
  BY <1>1, <1>2 DEF TraceFits

(* Every step is one of these, as far as agents and logs are concerned. *)
TraceMove ==
  \/ \E a \in Agents : AgentStep(a) \/ (\E c \in Cpus : Call(a, c)) \/ ArchiveLog(a)
  \/ \E A \in SUBSET Agents : Term(A) \/ End(A)
  \/ StartStack \/ LayOut \/ UNCHANGED traceVars

LEMMA Moves == [Next]_vars => TraceMove
<1>1. ASSUME Command
      PROVE  TraceMove
  <2>1. Up \in SUBSET Agents
    BY DEF Up
  <2>2. StopStack => Term(Up)
    BY DEF StopStack
  <2>3. Escalate => End(Up)
    BY DEF Escalate
  <2>4. \/ \E k \in BOOLEAN : Quick(k)
        \/ \E again \in BOOLEAN : Build(again)
        \/ StackGone \/ WorkloadOver \/ Interrupted \/ CountEvents \/ Collect
        \/ Insert \/ Commit \/ Prepare \/ BuildFeatures \/ WriteManifest \/ StageFails
        => UNCHANGED traceVars
    BY DEF Quick, Build, StackGone, AfterStop, WorkloadOver, Interrupted, CountEvents,
       Collect, Insert, Commit, Prepare, BuildFeatures, WriteManifest, StageFails
  <2> QED
    BY <1>1, <2>1, <2>2, <2>3, <2>4 DEF Command, TraceMove
<1>2. World => TraceMove
  BY DEF World, TraceMove, Traced
<1>3. UNCHANGED vars => UNCHANGED traceVars
  BY DEF vars
<1> QED
  BY <1>1, <1>2, <1>3 DEF Next, TraceMove

LEMMA TraceFitsInductive ==
  ASSUME TraceFits, TraceMove
  PROVE  TraceFits'
BY AgentFits, CallFits, ArchiveFits, TermFits, EndFits, StartFits, LayOutFits, StillFits
   DEF TraceMove
-----------------------------------------------------------------------------
(* Where the records are: nothing that an agent has moves anywhere but on,  *)
(* or is given up.                                                          *)
AllOf(a) == Flat(files[a]) \cup Buffered(ring[a]) \cup ({hand[a]} \ {0})

Kept == \A a \in Agents : AllOf(a) \subseteq lost' \cup AllOf(a)'

LEMMA SameKeeps == \A b : Same(b) => AllOf(b)' = AllOf(b)
BY DEF Same, AllOf

LEMMA OneKeeps ==
  ASSUME NEW a \in Agents, AllOf(a) \subseteq lost' \cup AllOf(a)',
         \A b \in Agents \ {a} : Same(b)
  PROVE  Kept
BY SameKeeps DEF Kept

LEMMA AttachKeeps ==
  ASSUME TraceFits, NEW a \in Agents, Attach(a)
  PROVE  Kept
<1>1. files' = files /\ ring' = ring /\ hand' = hand
  BY DEF Attach, logs
<1> QED
  BY <1>1 DEF Kept, AllOf

LEMMA CallBuffers ==
  ASSUME TraceFits, NEW a \in Agents, NEW c \in Cpus, Call(a, c)
  PROVE  /\ lost \subseteq lost'
         /\ Buffered(ring[a]) \subseteq Buffered(ring'[a])
         /\ calls + 1 \in lost' \cup Buffered(ring'[a])
<1>1. /\ ring[a] \in [Cpus -> Seq(Events)] /\ calls + 1 \in Events
      /\ ring'[a] = [ring[a] EXCEPT ![c] = Submitted(a, c)]
  BY Bounds DEF Call, TraceFits, TraceTypes, Events
<1>2. Submitted(a, c) = IF Len(ring[a][c]) < RingLen
                        THEN Append(ring[a][c], calls + 1) ELSE ring[a][c]
  BY SubmittedIs DEF Call
<1>3. CASE Len(ring[a][c]) < RingLen
  <2>1. ring'[a] = [ring[a] EXCEPT ![c] = Append(@, calls + 1)]
    BY <1>1, <1>2, <1>3
  <2>2. Buffered([ring[a] EXCEPT ![c] = Append(@, calls + 1)])
          = Buffered(ring[a]) \cup {calls + 1}
    BY <1>1, BufferedAppend
  <2>3. Buffered(ring'[a]) = Buffered(ring[a]) \cup {calls + 1}
    BY <2>1, <2>2
  <2> QED
    BY <1>3, <2>3 DEF Call
<1>4. CASE ~(Len(ring[a][c]) < RingLen)
  <2>1. ring'[a] = ring[a]
    BY <1>1, <1>2, <1>4
  <2> QED
    BY <1>4, <2>1 DEF Call
<1> QED
  BY <1>3, <1>4

LEMMA CallKeeps ==
  ASSUME TraceFits, NEW a \in Agents, NEW c \in Cpus, Call(a, c)
  PROVE  Kept /\ lost \subseteq lost' /\ calls + 1 \in lost' \cup AllOf(a)'
<1>1. files' = files /\ hand' = hand /\ \A b \in Agents \ {a} : ring'[b] = ring[b]
  BY DEF Call, logs, TraceFits, TraceTypes
<1> QED
  BY <1>1, CallBuffers DEF Kept, AllOf

LEMMA PollKeeps ==
  ASSUME TraceFits, NEW a \in Agents, NEW c \in Cpus, Poll(a, c)
  PROVE  Kept
<1>1. /\ ring[a] \in [Cpus -> Seq(Events)] /\ ring[a][c] # <<>>
      /\ ring'[a] = [ring[a] EXCEPT ![c] = Tail(@)]
      /\ hand'[a] = Head(ring[a][c]) /\ hand[a] = 0
  BY DEF Poll, TraceFits, TraceTypes, Fits
<1>2. Buffered(ring[a]) = Buffered(ring'[a]) \cup {hand'[a]}
  <2>1. Buffered(ring[a]) = Buffered([ring[a] EXCEPT ![c] = Tail(@)]) \cup {Head(ring[a][c])}
    BY <1>1, BufferedTail
  <2> QED
    BY <1>1, <2>1
<1>3. hand'[a] # 0
  <2>1. hand'[a] \in Events
    BY <1>1, HeadTailProperties
  <2> QED
    BY <2>1, Bounds
<1>4. files' = files /\ \A b \in Agents \ {a} : ring'[b] = ring[b] /\ hand'[b] = hand[b]
  BY DEF Poll, logs, TraceFits, TraceTypes
<1> QED
  BY <1>1, <1>2, <1>3, <1>4 DEF Kept, AllOf

LEMMA OpenKeeps ==
  ASSUME TraceFits, NEW a \in Agents, OpenLog(a)
  PROVE  Kept
<1>1. files[a] \in Seq(Seq(Events)) /\ ring' = ring /\ hand' = hand
  BY DEF OpenLog, TraceFits, TraceTypes
<1>2. Flat(files'[a]) = Flat(files[a])
  <2>1. files'[a] = IF live[a] THEN files[a] ELSE Append(files[a], <<>>)
    BY DEF OpenLog, TraceFits, TraceTypes
  <2> QED
    BY <1>1, <2>1, FlatAppend
<1>3. \A b \in Agents \ {a} : files'[b] = files[b]
  BY DEF OpenLog, TraceFits, TraceTypes
<1> QED
  BY <1>1, <1>2, <1>3 DEF Kept, AllOf

LEMMA WriteLineKeeps ==
  ASSUME TraceFits, NEW a \in Agents, WriteLine(a)
  PROVE  Kept
<1>1. /\ files[a] \in Seq(Seq(Events)) /\ ring' = ring
      /\ holds[a] \in 1..Len(files[a]) /\ hand[a] \in Events /\ hand'[a] = 0
      /\ files'[a] = [files[a] EXCEPT ![holds[a]] = Append(@, hand[a])]
  BY DEF WriteLine, TraceFits, TraceTypes, Fits
<1>2. Flat(files'[a]) = Flat(files[a]) \cup {hand[a]}
  <2> DEFINE fs == files[a]
             gs == files'[a]
             h  == holds[a]
             x  == hand[a]
  <2>1. gs \in Seq(Seq(Events))
    BY WriteLineFits DEF TraceFits, TraceTypes
  <2>2. /\ fs \in Seq(Seq(Events)) /\ h \in 1..Len(fs) /\ x \in Events
        /\ Len(gs) = Len(fs) /\ gs[h] = Append(fs[h], x)
        /\ \A k \in 1..Len(fs) : k # h => gs[k] = fs[k]
    BY <1>1
  <2> HIDE DEF fs, gs, h, x
  <2>3. Flat(gs) = Flat(fs) \cup {x}
    BY <2>1, <2>2, FlatWrite
  <2> QED
    BY <2>3 DEF fs, gs, x
<1>3. \A b \in Agents \ {a} : files'[b] = files[b] /\ hand'[b] = hand[b]
  BY DEF WriteLine, TraceFits, TraceTypes
<1> QED
  BY <1>1, <1>2, <1>3 DEF Kept, AllOf

LEMMA GiveUpKeeps ==
  ASSUME TraceFits, NEW a \in Agents, GiveUp(a)
  PROVE  Kept /\ lost \subseteq lost'
<1>1. /\ files' = files /\ ring' = ring /\ lost' = lost \cup {hand[a]}
      /\ \A b \in Agents \ {a} : hand'[b] = hand[b]
  BY DEF GiveUp, logs, TraceFits, TraceTypes
<1> QED
  BY <1>1 DEF Kept, AllOf

LEMMA GoneKeeps ==
  ASSUME TraceFits, NEW A \in SUBSET Agents, Gone(A), UNCHANGED logs,
         \A a \in A : Inside(a) \subseteq lost'
  PROVE  Kept
<1>1. \A a \in Agents : Inside(a) = ({hand[a]} \ {0}) \cup Buffered(ring[a])
  BY DEF Inside, Buffered
<1>2. \A b \in Agents \ A : ring'[b] = ring[b] /\ hand'[b] = hand[b]
  BY DEF Gone
<1>3. files' = files
  BY DEF logs
<1> QED
  BY <1>1, <1>2, <1>3 DEF Kept, AllOf

LEMMA EndKeeps ==
  ASSUME TraceFits, NEW A \in SUBSET Agents, End(A)
  PROVE  Kept /\ lost \subseteq lost'
<1>1. Gone(A) /\ UNCHANGED logs /\ lost \subseteq lost' /\ \A a \in A : Inside(a) \subseteq lost'
  BY DEF End
<1> QED
  BY <1>1, GoneKeeps

LEMMA AttachNoneKeeps ==
  ASSUME TraceFits, NEW a \in Agents, AttachNone(a)
  PROVE  Kept
<1>1. at[a] = "attach" /\ Gone({a}) /\ UNCHANGED logs
  BY DEF AttachNone
<1>2. hand[a] = 0 /\ ring[a] = EmptyRing
  BY <1>1 DEF TraceFits, TraceTypes, Fits
<1>3. Inside(a) = {}
  BY <1>2, BufferedEmpty DEF Inside, Buffered
<1> QED
  BY <1>1, <1>3, GoneKeeps

LEMMA AgentKeeps ==
  ASSUME TraceFits, NEW a \in Agents, AgentStep(a)
  PROVE  Kept /\ lost \subseteq lost' /\ calls' = calls
<1>1. CASE Attach(a)
  BY <1>1, AttachKeeps DEF Attach, traceHist
<1>2. CASE AttachNone(a)
  BY <1>2, AttachNoneKeeps DEF AttachNone, traceHist
<1>3. ASSUME NEW c \in Cpus, Poll(a, c)
      PROVE  Kept /\ lost \subseteq lost' /\ calls' = calls
  BY <1>3, PollKeeps DEF Poll, traceHist
<1>4. CASE OpenLog(a)
  BY <1>4, OpenKeeps DEF OpenLog, traceHist
<1>5. CASE WriteLine(a)
  BY <1>5, WriteLineKeeps DEF WriteLine, traceHist
<1>6. CASE WriteFails(a)
  BY <1>6, GiveUpKeeps DEF WriteFails, GiveUp
<1>7. CASE Sigterm(a)
  BY <1>7, EndKeeps DEF Sigterm, End
<1>8. CASE SigtermSwallowed(a)
  BY <1>8, GiveUpKeeps DEF SigtermSwallowed, GiveUp
<1> QED
  BY <1>1, <1>2, <1>3, <1>4, <1>5, <1>6, <1>7, <1>8 DEF AgentStep

LEMMA LayOutKeeps ==
  ASSUME TraceFits, LayOut
  PROVE  Kept
<1>1. ring' = ring /\ hand' = hand
  BY DEF LayOut, agentVars
<1>2. ASSUME NEW b \in Agents
      PROVE  Flat(files'[b]) = Flat(files[b])
  <2>1. files[b] \in Seq(Seq(Events))
    BY DEF TraceFits, TraceTypes
  <2>2. files'[b] = IF live[b] THEN files[b] ELSE Append(files[b], <<>>)
    BY DEF LayOut
  <2> QED
    BY <2>1, <2>2, FlatAppend
<1> QED
  BY <1>1, <1>2 DEF Kept, AllOf

LEMMA StillKeeps ==
  ASSUME UNCHANGED <<files, ring, hand>>
  PROVE  Kept
BY DEF Kept, AllOf

Traceable == 1..calls \subseteq lost \cup UNION {AllOf(a) : a \in Agents}

LEMMA KeptTraceable ==
  ASSUME Traceable, Kept, lost \subseteq lost', calls' = calls
  PROVE  Traceable'
BY DEF Traceable, Kept

LEMMA TraceableInductive ==
  ASSUME TraceFits, Traceable, TraceMove
  PROVE  Traceable'
<1>1. ASSUME NEW a \in Agents, AgentStep(a)
      PROVE  Traceable'
  BY <1>1, AgentKeeps, KeptTraceable
<1>2. ASSUME NEW a \in Agents, NEW c \in Cpus, Call(a, c)
      PROVE  Traceable'
  <2>1. Kept /\ lost \subseteq lost' /\ calls + 1 \in lost' \cup AllOf(a)'
    BY <1>2, CallKeeps
  <2>2. calls' = calls + 1 /\ calls \in Nat
    BY <1>2 DEF Call, TraceFits, TraceTypes
  <2>3. 1..calls' = 1..calls \cup {calls + 1}
    BY <2>2
  <2> QED
    BY <2>1, <2>3 DEF Traceable, Kept
<1>3. ASSUME NEW a \in Agents, ArchiveLog(a)
      PROVE  Traceable'
  BY <1>3, StillKeeps, KeptTraceable DEF ArchiveLog, agentVars, traceHist
<1>4. ASSUME NEW A \in SUBSET Agents, Term(A)
      PROVE  Traceable'
  BY <1>4, StillKeeps, KeptTraceable DEF Term, logs, traceHist
<1>5. ASSUME NEW A \in SUBSET Agents, End(A)
      PROVE  Traceable'
  BY <1>5, EndKeeps, KeptTraceable DEF End
<1>6. CASE StartStack
  BY <1>6, StillKeeps, KeptTraceable DEF StartStack, logs, traceHist
<1>7. CASE LayOut
  BY <1>7, LayOutKeeps, KeptTraceable DEF LayOut, traceHist
<1>8. CASE UNCHANGED traceVars
  BY <1>8, StillKeeps, KeptTraceable DEF traceVars, agentVars, logs, traceHist
<1> QED
  BY <1>1, <1>2, <1>3, <1>4, <1>5, <1>6, <1>7, <1>8 DEF TraceMove

LEMMA TraceableVanishes == Traceable => NothingVanishes
<1>1. \A a \in Agents : AllOf(a) = InFiles(a) \cup Inside(a)
  BY DEF AllOf, Flat, Buffered, InFiles, Inside
<1> QED
  BY <1>1 DEF Traceable, NothingVanishes, Written, OnTheWay

(* NothingVanishes for every set of agents and CPUs and rings of any        *)
(* length: an archive beneath an open log, a restart and a kill take no     *)
(* record away that is not counted as given up (handle_event, write_record  *)
(* of the agents, archive_runtime_logs and stop_stack of os_monitor.py).    *)
THEOREM NothingVanishesCorrect == Spec => []NothingVanishes
<1>1. Init => TraceFits /\ Traceable
  <2>1. ASSUME Init
        PROVE  TraceFits /\ Traceable
    <3>1. TraceInit
      BY <2>1 DEF Init
    <3>2. 1..calls = {}
      BY <3>1 DEF TraceInit
    <3> QED
      BY <3>1, <3>2, TraceFitsInit DEF Traceable
  <2> QED
    BY <2>1
<1>2. TraceFits /\ Traceable /\ [Next]_vars => (TraceFits /\ Traceable)'
  BY Moves, TraceFitsInductive, TraceableInductive
<1>3. TraceFits /\ Traceable => NothingVanishes
  BY TraceableVanishes
<1> QED
  BY <1>1, <1>2, <1>3, PTL DEF Spec
-----------------------------------------------------------------------------
(* The command and the run directory. *)
Labels == {"idle", "archive", "stop", "wait", "start", "workload"} \cup Stages

DirSets == [rows : [Events -> Nat], sessions : SUBSET Events,
            features : SUBSET Events, manifest : BOOLEAN]

CommandTypes ==
  /\ pc \in Labels /\ then \in {"start", "count", "idle"}
  /\ keep \in BOOLEAN /\ stopped \in BOOLEAN
  /\ todo \subseteq (IF pc = "archive" THEN Agents ELSE Events)
  /\ txn \subseteq Events /\ mine \subseteq Events
  /\ runs \in 0..MaxRuns /\ tries \in 0..MaxTries /\ commits \in 0..tries
  /\ dir \in DirSets

(* What goes with the place of the command: it has a run directory, a build *)
(* that is counted, and no work left over from a stage before.              *)
CommandFits ==
  /\ pc # "idle" => runs > 0
  /\ pc \in {"archive", "stop", "wait", "start", "workload", "count"} => tries = 0
  /\ pc \in {"collect", "insert"} => commits < tries
  /\ pc \in {"prepare", "features", "manifest"} => tries > 0
  /\ pc # "insert" => txn = {}
  /\ pc \notin {"archive", "insert"} => todo = {}
  /\ pc = "start" => Up = {}
  /\ \A e \in Events : dir.rows[e] <= commits
  /\ tries = 0 => ~dir.manifest

QuickFits == TraceFits /\ CommandTypes /\ CommandFits

LEMMA QuickBounds == MaxRuns \in Nat /\ MaxTries \in Nat \ {0}
BY QuickAssumption

LEMMA LiveEventsType ==
  ASSUME TraceFits
  PROVE  LiveEvents \subseteq Events
<1>1. ASSUME NEW a \in Agents, live[a]
      PROVE  ToSet(files[a][Len(files[a])]) \subseteq Events
  <2>1. files[a] \in Seq(Seq(Events)) /\ files[a] # <<>>
    BY <1>1 DEF TraceFits, TraceTypes, Fits
  <2>2. Len(files[a]) \in 1..Len(files[a])
    BY <2>1, EmptySeq
  <2>3. files[a][Len(files[a])] \in Seq(Events)
    BY <2>1, <2>2, ElementOfSeq
  <2> QED
    BY <2>3, InSeq, ElementOfSeq
<1> QED
  BY <1>1 DEF LiveEvents

LEMMA EmptyDirType ==
  /\ EmptyDir \in DirSets
  /\ \A e \in Events : EmptyDir.rows[e] = 0
  /\ ~EmptyDir.manifest
BY DEF EmptyDir, DirSets

LEMMA MinIn ==
  ASSUME NEW S \in SUBSET Nat, S # {}
  PROVE  Min(S) \in S
<1>1. PICK x \in S : \A y \in S : ~(<<y, x>> \in OpToRel(<, Nat))
  BY NatLessThanWellFounded, WFMin
<1>2. ASSUME NEW y \in S
      PROVE  x <= y
  <2>1. x \in Nat /\ y \in Nat /\ <<y, x>> \in Nat \X Nat
    OBVIOUS
  <2>2. ~(y < x)
    BY <1>1, <2>1 DEF OpToRel
  <2> QED
    BY <2>1, <2>2
<1> QED
  BY <1>2 DEF Min

(* A step of the world leaves a stopped stack stopped. *)
LEMMA StaysDown ==
  ASSUME TraceFits, NEW a \in Agents, AgentStep(a) \/ (\E c \in Cpus : Call(a, c)), Up = {}
  PROVE  Up' = {}
<1>1. \A b \in Agents : at[b] = "off"
  BY DEF Up
<1>2. \A A \in SUBSET Agents : Gone(A) => \A b \in Agents : at'[b] = "off"
  BY <1>1 DEF Gone
<1>3. \A b \in Agents : at'[b] = "off"
  BY <1>1, <1>2 DEF AgentStep, Attach, AttachNone, Poll, OpenLog, WriteLine, WriteFails,
     Sigterm, SigtermSwallowed, End, Call, Traces
<1> QED
  BY <1>3 DEF Up

LEMMA WorldQuickFits ==
  ASSUME QuickFits, World
  PROVE  (CommandTypes /\ CommandFits)'
<1>1. UNCHANGED <<command, outcome>> /\ mine' \subseteq Events
  <2>1. UNCHANGED <<command, outcome>>
    BY DEF World, Alone, Traced
  <2>2. mine \subseteq Events /\ calls \in Nat
    BY DEF QuickFits, CommandTypes, TraceFits, TraceTypes
  <2>3. ASSUME NEW a \in Agents, NEW c \in Cpus, Traced(a, c)
        PROVE  mine' \subseteq Events
    <3>1. calls + 1 \in Events /\ mine' = mine \cup {calls + 1}
      BY <2>2, <2>3, Bounds DEF Traced, Call, Events
    <3> QED
      BY <2>2, <3>1
  <2> QED
    BY <2>1, <2>2, <2>3 DEF World, Alone
<1>2. Up = {} => Up' = {}
  BY StaysDown DEF World, Traced, QuickFits
<1> QED
  BY <1>1, <1>2 DEF QuickFits, CommandTypes, CommandFits, command, outcome

(* The steps of the command that leave the agents and the logs alone. *)
LEMMA BeginFits ==
  ASSUME QuickFits, (\E k \in BOOLEAN : Quick(k)) \/ (\E again \in BOOLEAN : Build(again))
  PROVE  (CommandTypes /\ CommandFits)'
<1> USE QuickBounds, EmptyDirType DEF QuickFits, CommandTypes, CommandFits, Labels, Stages, NewDir, traceVars
<1>1. ASSUME NEW k \in BOOLEAN, Quick(k)
      PROVE  (CommandTypes /\ CommandFits)'
  <2>1. /\ runs' \in 0..MaxRuns /\ runs' > 0 /\ tries' = 0 /\ commits' = 0
        /\ tries' \in 0..MaxTries
    BY <1>1 DEF Quick
  <2>2. CommandTypes'
    <3>1. pc' \in Labels /\ then' \in {"start", "count", "idle"}
      BY <1>1 DEF Quick
    <3>2. keep' \in BOOLEAN /\ stopped' \in BOOLEAN
      BY <1>1 DEF Quick
    <3>3. todo' \subseteq (IF pc' = "archive" THEN Agents ELSE Events)
      BY <1>1 DEF Quick
    <3>4. txn' \subseteq Events /\ mine' \subseteq Events
      BY <1>1 DEF Quick
    <3>5. commits' \in 0..tries'
      BY <2>1
    <3>6. dir' \in DirSets
      BY <1>1 DEF Quick
    <3> QED
      BY <2>1, <3>1, <3>2, <3>3, <3>4, <3>5, <3>6 DEF CommandTypes
  <2>3. CommandFits'
    BY <1>1, <2>1 DEF Quick
  <2> QED
    BY <2>2, <2>3
<1>2. ASSUME Build(FALSE)
      PROVE  (CommandTypes /\ CommandFits)'
  <2>1. /\ runs' \in 0..MaxRuns /\ runs' > 0 /\ tries' = 1 /\ commits' = 0
        /\ tries' \in 0..MaxTries
    BY <1>2 DEF Build
  <2>2. CommandTypes'
    <3>1. pc' \in Labels /\ then' \in {"start", "count", "idle"}
      BY <1>2 DEF Build
    <3>2. keep' \in BOOLEAN /\ stopped' \in BOOLEAN
      BY <1>2 DEF Build
    <3>3. todo' \subseteq (IF pc' = "archive" THEN Agents ELSE Events)
      BY <1>2 DEF Build
    <3>4. txn' \subseteq Events /\ mine' \subseteq Events
      BY <1>2 DEF Build
    <3>5. commits' \in 0..tries'
      BY <2>1
    <3>6. dir' \in DirSets
      BY <1>2 DEF Build
    <3> QED
      BY <2>1, <3>1, <3>2, <3>3, <3>4, <3>5, <3>6 DEF CommandTypes
  <2>3. CommandFits'
    BY <1>2, <2>1 DEF Build
  <2> QED
    BY <2>2, <2>3
<1>3. ASSUME Build(TRUE)
      PROVE  (CommandTypes /\ CommandFits)'
  <2>1. /\ runs' = runs /\ dir' = dir /\ commits' = commits /\ stopped' = stopped
        /\ runs > 0 /\ tries' = tries + 1 /\ tries < MaxTries
    BY <1>3 DEF Build
  <2>2. CommandTypes'
    BY <1>3, <2>1 DEF Build
  <2>3. CommandFits'
    BY <1>3, <2>1 DEF Build
  <2> QED
    BY <2>2, <2>3
<1> QED
  BY <1>1, <1>2, <1>3

LEMMA StackStepFits ==
  ASSUME QuickFits,
         \/ \E a \in Agents : ArchiveLog(a)
         \/ LayOut \/ StopStack \/ StackGone \/ Escalate \/ StartStack
         \/ WorkloadOver \/ Interrupted
  PROVE  (CommandTypes /\ CommandFits)'
<1> USE DEF QuickFits, CommandTypes, CommandFits, Labels, Stages, Goto, Finish, outcome
<1>1. ASSUME NEW a \in Agents, ArchiveLog(a)
      PROVE  (CommandTypes /\ CommandFits)'
  BY <1>1 DEF ArchiveLog
<1>2. CASE LayOut
  BY <1>2 DEF LayOut
<1>3. CASE StopStack
  BY <1>3 DEF StopStack
<1>4. CASE StackGone
  <2>1. Up' = Up
    BY <1>4 DEF StackGone, AfterStop, Up, traceVars, agentVars
  <2>2. CASE then = "idle"
    BY <1>4, <2>1, <2>2 DEF StackGone, AfterStop
  <2>3. CASE then # "idle"
    BY <1>4, <2>1, <2>3 DEF StackGone, AfterStop
  <2> QED
    BY <2>2, <2>3
<1>5. CASE Escalate
  BY <1>5 DEF Escalate, command
<1>6. CASE StartStack
  BY <1>6 DEF StartStack
<1>7. CASE WorkloadOver
  BY <1>7 DEF WorkloadOver
<1>8. CASE Interrupted
  BY <1>8 DEF Interrupted
<1> QED
  BY <1>1, <1>2, <1>3, <1>4, <1>5, <1>6, <1>7, <1>8

LEMMA StageStepFits ==
  ASSUME QuickFits,
         \/ CountEvents \/ Collect \/ Insert \/ Commit \/ Prepare \/ BuildFeatures
         \/ WriteManifest \/ StageFails
  PROVE  (CommandTypes /\ CommandFits)'
<1> USE QuickBounds DEF QuickFits, CommandTypes, CommandFits, Labels, Stages, Goto, Finish, outcome
<1>0. LiveEvents \subseteq Events
  BY LiveEventsType
<1>1. CASE CountEvents
  <2>1. tries = 0 /\ 1 \in 0..MaxTries /\ commits = 0
    BY <1>1 DEF CountEvents
  <2>2. CASE LiveEvents = {}
    BY <1>1, <2>1, <2>2 DEF CountEvents
  <2>3. CASE LiveEvents # {}
    BY <1>1, <2>1, <2>3 DEF CountEvents
  <2> QED
    BY <2>2, <2>3
<1>2. CASE Collect
  BY <1>0, <1>2 DEF Collect
<1>3. CASE Insert
  <2>1. Min(todo) \in todo
    BY <1>3, MinIn, Bounds DEF Insert
  <2> QED
    BY <1>3, <2>1 DEF Insert
<1>4. CASE Commit
  <2>1. /\ dir' = [dir EXCEPT !.rows = [e \in Events |-> dir.rows[e] + (IF e \in txn THEN 1 ELSE 0)]]
        /\ commits' = commits + 1
    BY <1>4 DEF Commit
  <2>2. dir'.rows = [e \in Events |-> dir.rows[e] + (IF e \in txn THEN 1 ELSE 0)]
    BY <2>1
  <2>3. \A e \in Events : dir'.rows[e] \in Nat /\ dir'.rows[e] <= commits'
    BY <2>1, <2>2 DEF DirSets
  <2>4. dir' \in DirSets
    BY <2>1, <2>2, <2>3 DEF DirSets
  <2>5. CommandTypes'
    BY <1>4, <2>1, <2>4 DEF Commit
  <2>6. CommandFits'
    BY <1>4, <2>1, <2>3 DEF Commit
  <2> QED
    BY <2>5, <2>6
<1>5. CASE Prepare
  <2>1. dir' \in DirSets /\ dir'.rows = dir.rows /\ dir'.manifest = dir.manifest
    BY <1>0, <1>5 DEF Prepare, DirSets
  <2> QED
    BY <1>5, <2>1 DEF Prepare
<1>6. CASE BuildFeatures
  <2>1. dir' \in DirSets /\ dir'.rows = dir.rows /\ dir'.manifest = dir.manifest
    BY <1>6 DEF BuildFeatures, DirSets
  <2> QED
    BY <1>6, <2>1 DEF BuildFeatures
<1>7. CASE WriteManifest
  <2>1. dir' \in DirSets /\ dir'.rows = dir.rows /\ tries' = tries /\ tries > 0
    BY <1>7 DEF WriteManifest, DirSets
  <2>2. CommandTypes'
    BY <1>7, <2>1 DEF WriteManifest
  <2>3. CommandFits'
    BY <1>7, <2>1 DEF WriteManifest
  <2> QED
    BY <2>2, <2>3
<1>8. CASE StageFails
  BY <1>8 DEF StageFails
<1> QED
  BY <1>1, <1>2, <1>3, <1>4, <1>5, <1>6, <1>7, <1>8

LEMMA QuickFitsInit == Init => QuickFits
<1>1. Init => Up = {}
  BY DEF Init, TraceInit, Up
<1>2. Init => TraceFits
  BY TraceFitsInit DEF Init
<1>3. ASSUME Init
      PROVE  CommandTypes
  <2>1. pc \in Labels /\ then \in {"start", "count", "idle"}
    BY <1>3 DEF Init, Labels
  <2>2. keep \in BOOLEAN /\ stopped \in BOOLEAN
    BY <1>3 DEF Init
  <2>3. runs \in 0..MaxRuns /\ tries \in 0..MaxTries /\ commits \in 0..tries
    BY <1>3, QuickBounds DEF Init
  <2>4. dir \in DirSets
    BY <1>3, EmptyDirType DEF Init
  <2> QED
    BY <1>3, <2>1, <2>2, <2>3, <2>4 DEF Init, CommandTypes
<1>4. Init => CommandFits
  BY <1>1, EmptyDirType DEF Init, CommandFits
<1> QED
  BY <1>2, <1>3, <1>4 DEF QuickFits

LEMMA QuickFitsInductive == QuickFits /\ [Next]_vars => QuickFits'
<1> SUFFICES ASSUME QuickFits, [Next]_vars PROVE QuickFits'
  OBVIOUS
<1>0. TraceFits /\ TraceMove
  BY Moves DEF QuickFits
<1>1. TraceFits'
  BY <1>0, TraceFitsInductive
<1>2. CASE UNCHANGED vars
  <2>1. (CommandTypes /\ CommandFits)'
    BY <1>2 DEF QuickFits, CommandTypes, CommandFits, vars, traceVars, agentVars, command, outcome, Up
  <2> QED
    BY <1>1, <2>1 DEF QuickFits
<1>3. CASE Command
  <2>1. (CommandTypes /\ CommandFits)'
    BY <1>3, BeginFits, StackStepFits, StageStepFits DEF Command
  <2> QED
    BY <1>1, <2>1 DEF QuickFits
<1>4. CASE World
  <2>1. (CommandTypes /\ CommandFits)'
    BY <1>4, WorldQuickFits
  <2> QED
    BY <1>1, <2>1 DEF QuickFits
<1> QED
  BY <1>2, <1>3, <1>4 DEF Next

LEMMA FitsTypeOK == TraceFits => TypeOK
<1> SUFFICES ASSUME TraceFits PROVE TypeOK
  OBVIOUS
<1>1. \A a \in Agents : holds[a] \in 0..Len(files[a])
  BY DEF TraceFits, TraceTypes, Fits
<1>2. \A a \in Agents : at[a] = "write" => holds[a] # 0 /\ hand[a] # 0
  BY DEF TraceFits, Fits
<1>3. \A a \in Agents : live[a] => files[a] # <<>>
  BY DEF TraceFits, Fits
<1>4. attached \in [Agents -> Nat]
  <2>1. attached \in [Agents -> {0, 1}]
    BY DEF TraceFits, TraceTypes
  <2> QED
    BY <2>1
<1> QED
  BY <1>1, <1>2, <1>3, <1>4 DEF TraceFits, TraceTypes, TypeOK, Places

(* QuickTypeOK: in particular a stage runs only in a run directory, the     *)
(* stack is started only when the old one is gone, and a log that is being  *)
(* written has been opened (command_quick, start_stack, handle_event).      *)
THEOREM TypeCorrect == Spec => []QuickTypeOK
<1>1. QuickFits => QuickTypeOK
  <2> SUFFICES ASSUME QuickFits PROVE QuickTypeOK
    OBVIOUS
  <2>1. TypeOK
    BY FitsTypeOK DEF QuickFits
  <2>2. pc \in Stages => runs > 0
    BY DEF QuickFits, CommandFits, Stages
  <2> QED
    BY <2>1, <2>2 DEF QuickFits, CommandTypes, CommandFits, QuickTypeOK, Labels, DirSets
<1> QED
  BY <1>1, QuickFitsInit, QuickFitsInductive, PTL DEF Spec

(* RowsByCommit for any number of runs and builds: whichever stage fails or *)
(* is killed, events.db holds the rows of whole transactions only           *)
(* (write_sqlite of collector.py).                                          *)
THEOREM RowsByCommitCorrect == Spec => []RowsByCommit
<1>1. QuickFits => RowsByCommit
  BY DEF QuickFits, CommandFits, RowsByCommit
<1> QED
  BY <1>1, QuickFitsInit, QuickFitsInductive, PTL DEF Spec
-----------------------------------------------------------------------------
(* The logs at their paths, and what is built of them. *)
Newest(a) == files[a][Len(files[a])]

LEMMA LiveEventsIs == \A e : e \in LiveEvents <=> \E a \in Agents : live[a] /\ e \in ToSet(Newest(a))
BY DEF LiveEvents, Newest

LEMMA WriteLast ==
  ASSUME TraceFits, NEW a \in Agents, WriteLine(a)
  PROVE  ToSet(Newest(a)) \subseteq ToSet(Newest(a)')
<1> DEFINE n == Len(files[a])
<1>1. /\ files[a] \in Seq(Seq(Events)) /\ holds[a] \in 1..n /\ n \in Nat /\ hand[a] \in Events
      /\ files'[a] = [files[a] EXCEPT ![holds[a]] = Append(@, hand[a])]
  BY DEF WriteLine, TraceFits, TraceTypes, Fits
<1>2. Len(files'[a]) = n
  BY <1>1
<1>3. CASE holds[a] = n
  <2>1. files'[a][n] = Append(files[a][n], hand[a]) /\ files[a][n] \in Seq(Events)
    BY <1>1, <1>3, ElementOfSeq
  <2>2. ToSet(files'[a][n]) = ToSet(files[a][n]) \cup {hand[a]}
    BY <1>1, <2>1, ToSetAppend
  <2> QED
    BY <1>2, <2>2 DEF Newest
<1>4. CASE holds[a] # n
  <2>1. files'[a][n] = files[a][n]
    BY <1>1, <1>4
  <2> QED
    BY <1>2, <2>1 DEF Newest
<1> QED
  BY <1>3, <1>4

(* An agent only adds to the log at its path. *)
LEMMA LiveGrows ==
  ASSUME TraceFits, NEW a \in Agents, AgentStep(a) \/ (\E c \in Cpus : Call(a, c))
  PROVE  LiveEvents \subseteq LiveEvents'
<1>1. CASE UNCHANGED logs
  <2>1. files' = files /\ live' = live
    BY <1>1 DEF logs
  <2> QED
    BY <2>1 DEF LiveEvents
<1>2. CASE OpenLog(a)
  <2>1. \A b \in Agents : live[b] => live'[b] /\ files'[b] = files[b]
    BY <1>2 DEF OpenLog, TraceFits, TraceTypes
  <2>2. \A b \in Agents : live[b] => live'[b] /\ Newest(b)' = Newest(b)
    BY <2>1 DEF Newest
  <2>3. \A e : e \in LiveEvents' <=> \E b \in Agents : live'[b] /\ e \in ToSet(Newest(b)')
    BY DEF LiveEvents, Newest
  <2> QED
    BY <2>2, <2>3, LiveEventsIs
<1>3. CASE WriteLine(a)
  <2>1. live' = live /\ \A b \in Agents \ {a} : files'[b] = files[b]
    BY <1>3 DEF WriteLine, TraceFits, TraceTypes
  <2>2. \A b \in Agents : ToSet(Newest(b)) \subseteq ToSet(Newest(b)')
    BY <1>3, <2>1, WriteLast DEF Newest
  <2>3. \A e : e \in LiveEvents' <=> \E b \in Agents : live'[b] /\ e \in ToSet(Newest(b)')
    BY DEF LiveEvents, Newest
  <2> QED
    BY <2>1, <2>2, <2>3, LiveEventsIs
<1> QED
  BY <1>1, <1>2, <1>3 DEF AgentStep, Attach, AttachNone, Poll, WriteFails, GiveUp, Sigterm, End,
     SigtermSwallowed, Call

Building == pc \in {"collect", "insert", "prepare", "features", "manifest"}

(* The first build in a run directory, stage by stage. *)
BuildInv ==
  tries = 1 =>
    /\ Building => ~dir.manifest
    /\ pc = "insert" => todo \cup txn \subseteq LiveEvents
    /\ pc = "prepare" => Rows \subseteq LiveEvents
    /\ StrideFits /\ (pc \in {"features", "manifest"} \/ dir.manifest)
         => Rows \subseteq dir.sessions

LEMMA StillRows ==
  ASSUME dir'.rows = dir.rows
  PROVE  Rows' = Rows
BY DEF Rows

LEMMA WorldBuild ==
  ASSUME QuickFits, BuildInv, World
  PROVE  BuildInv'
<1>1. LiveEvents \subseteq LiveEvents'
  BY LiveGrows DEF QuickFits, World, Traced
<1>2. UNCHANGED <<command, outcome>>
  BY DEF World, Alone, Traced
<1>3. Rows' = Rows
  BY <1>2 DEF Rows, outcome
<1> QED
  BY <1>1, <1>2, <1>3 DEF BuildInv, Building, command, outcome

LEMMA CommandBuild ==
  ASSUME QuickFits, BuildInv, Command
  PROVE  BuildInv'
<1> USE DEF BuildInv, Building, Goto, Finish, outcome
<1>0. /\ tries \in Nat /\ commits \in Nat /\ commits <= tries /\ CommandFits
      /\ todo \subseteq (IF pc = "archive" THEN Agents ELSE Events)
  BY QuickBounds DEF QuickFits, CommandTypes
<1>1. ASSUME NEW k \in BOOLEAN, Quick(k)
      PROVE  BuildInv'
  BY <1>1 DEF Quick
<1>2. ASSUME NEW again \in BOOLEAN, Build(again)
      PROVE  BuildInv'
  <2>1. ~dir'.manifest \/ tries' # 1
    BY <1>0, <1>2, EmptyDirType DEF Build, NewDir, CommandFits
  <2> QED
    BY <1>2, <2>1 DEF Build
<1>3. ASSUME pc \in {"archive", "stop", "wait", "start", "workload"},
             UNCHANGED outcome \/ StackGone
      PROVE  BuildInv'
  <2>1. tries' # 1
    BY <1>0, <1>3 DEF CommandFits, StackGone, AfterStop
  <2> QED
    BY <2>1
<1>4. CASE CountEvents
  <2>1. tries = 0 /\ ~dir'.manifest
    BY <1>0, <1>4 DEF CommandFits, CountEvents
  <2> QED
    BY <1>4, <2>1 DEF CountEvents
<1>5. CASE Collect
  <2>1. txn = {} /\ LiveEvents' = LiveEvents
    BY <1>0, <1>5 DEF CommandFits, Collect, LiveEvents, traceVars, logs
  <2> QED
    BY <1>5, <2>1 DEF Collect
<1>6. CASE Insert
  <2>1. Min(todo) \in todo
    BY <1>0, <1>6, MinIn, Bounds DEF Insert
  <2>2. LiveEvents' = LiveEvents
    BY <1>6 DEF Insert, LiveEvents, traceVars, logs
  <2> QED
    BY <1>6, <2>1, <2>2 DEF Insert
<1>7. CASE Commit
  <2>1. LiveEvents' = LiveEvents /\ tries' = tries
    BY <1>7 DEF Commit, LiveEvents, traceVars, logs
  <2>2. ASSUME tries = 1
        PROVE  Rows' = txn
    <3>1. commits = 0
      BY <1>0, <1>7, <2>2 DEF CommandFits, Commit
    <3>2. \A e \in Events : dir.rows[e] = 0
      BY <1>0, <3>1 DEF CommandFits, QuickFits, CommandTypes, DirSets
    <3>3. dir'.rows = [e \in Events |-> dir.rows[e] + (IF e \in txn THEN 1 ELSE 0)]
      BY <1>7 DEF Commit, QuickFits, CommandTypes, DirSets
    <3>4. \A e \in Events : dir'.rows[e] > 0 <=> e \in txn
      BY <3>2, <3>3
    <3> QED
      BY <3>4 DEF Rows, QuickFits, CommandTypes
  <2>3. dir'.manifest = dir.manifest
    BY <1>7 DEF Commit, QuickFits, CommandTypes, DirSets
  <2> QED
    BY <1>7, <2>1, <2>2, <2>3 DEF Commit
<1>8. CASE Prepare
  <2>1. /\ StrideFits => dir'.sessions = LiveEvents
        /\ dir'.rows = dir.rows /\ dir'.manifest = dir.manifest
    BY <1>8 DEF Prepare, QuickFits, CommandTypes, DirSets
  <2> QED
    BY <1>8, <2>1, StillRows DEF Prepare
<1>9. CASE BuildFeatures
  <2>1. dir'.sessions = dir.sessions /\ dir'.rows = dir.rows /\ dir'.manifest = dir.manifest
    BY <1>9 DEF BuildFeatures, QuickFits, CommandTypes, DirSets
  <2> QED
    BY <1>9, <2>1, StillRows DEF BuildFeatures
<1>10. CASE WriteManifest
  <2>1. dir'.sessions = dir.sessions /\ dir'.rows = dir.rows
    BY <1>10 DEF WriteManifest, QuickFits, CommandTypes, DirSets
  <2> QED
    BY <1>10, <2>1, StillRows DEF WriteManifest
<1>11. CASE StageFails
  <2>1. dir' = dir /\ tries' = tries /\ pc' = "idle"
    BY <1>11 DEF StageFails
  <2>2. Rows' = Rows
    BY <2>1, StillRows
  <2> QED
    BY <2>1, <2>2
<1>12. \/ \E a \in Agents : ArchiveLog(a)
       \/ LayOut \/ StopStack \/ StackGone \/ Escalate \/ StartStack \/ WorkloadOver \/ Interrupted
       => /\ pc \in {"archive", "stop", "wait", "start", "workload"}
          /\ UNCHANGED outcome \/ StackGone
  BY DEF ArchiveLog, LayOut, StopStack, StackGone, Escalate, StartStack, WorkloadOver, Interrupted
<1> QED
  BY <1>1, <1>2, <1>3, <1>4, <1>5, <1>6, <1>7, <1>8, <1>9, <1>10, <1>11, <1>12 DEF Command

LEMMA StillBuild ==
  ASSUME BuildInv, UNCHANGED vars
  PROVE  BuildInv'
BY DEF BuildInv, Building, Rows, LiveEvents, vars, traceVars, logs, command, outcome

(* KeptBuildGrows: collector.py reads before prepare_dataset.py, and an     *)
(* agent that runs on only adds to its log (build_outputs of                *)
(* os_monitor.py).                                                          *)
THEOREM KeptBuildGrowsCorrect == Spec => []KeptBuildGrows
<1>1. Init => BuildInv
  BY DEF Init, BuildInv
<1>2. QuickFits /\ BuildInv /\ [Next]_vars => BuildInv'
  BY WorldBuild, CommandBuild, StillBuild DEF Next
<1>3. QuickFits /\ BuildInv => KeptBuildGrows
  BY DEF BuildInv, KeptBuildGrows
<1> QED
  BY <1>1, <1>2, <1>3, QuickFitsInit, QuickFitsInductive, PTL DEF Spec
-----------------------------------------------------------------------------
(* A run whose stack is stopped before the build. *)

(* What an agent holds for its log goes to the log at the path. *)
InPlace(a) == at[a] = "write" => live[a] /\ holds[a] = Len(files[a])

(* The events of the run are on their way, at the path or given up. *)
MineKept == mine \subseteq lost \cup LiveEvents \cup OnTheWay

(* From the start of its own stack to the end of a command that stops it. *)
Ours == pc = "workload" \/ (pc \in {"stop", "wait"} /\ then = "count") \/ stopped

(* The sessions were cut out of these events. *)
SessionsOf(read) ==
  dir.sessions \subseteq read /\ (StrideFits => dir.sessions = read)

StoppedInv ==
  /\ pc = "archive" => then = "start"
  /\ stopped => Up = {} /\ pc \notin {"archive", "stop", "wait", "start", "workload"}
  /\ Ours => MineKept /\ \A a \in Agents : InPlace(a)
  /\ stopped /\ tries = 1 =>
       /\ pc = "insert" => todo \cup txn = LiveEvents
       /\ pc = "prepare" => Rows = LiveEvents
       /\ pc \in {"features", "manifest"} \/ dir.manifest
            => Rows = LiveEvents /\ SessionsOf(LiveEvents)
       /\ pc = "manifest" \/ dir.manifest => dir.features = dir.sessions

LEMMA InsideIs == \A a : Inside(a) = ({hand[a]} \ {0}) \cup Buffered(ring[a])
BY DEF Inside, Buffered

LEMMA NothingOnTheWay ==
  ASSUME TraceFits, Up = {}
  PROVE  OnTheWay = {}
<1>1. ASSUME NEW a \in Agents
      PROVE  Inside(a) = {}
  <2>1. at[a] = "off"
    BY DEF Up
  <2>2. ring[a] = EmptyRing /\ hand[a] = 0
    BY <2>1 DEF TraceFits, Fits
  <2> QED
    BY <2>2, InsideIs, BufferedEmpty
<1> QED
  BY <1>1 DEF OnTheWay

(* An agent that is not running writes nothing. *)
LEMMA LogsDown ==
  ASSUME TraceFits, NEW a \in Agents, AgentStep(a), Up = {}
  PROVE  UNCHANGED logs /\ lost \subseteq lost'
<1>1. at[a] = "off"
  BY DEF Up
<1> QED
  BY <1>1 DEF AgentStep, Attach, AttachNone, Poll, OpenLog, WriteLine, WriteFails, Sigterm, End,
     SigtermSwallowed

LEMMA NoCallDown ==
  ASSUME TraceFits, NEW a \in Agents, NEW c \in Cpus, Call(a, c)
  PROVE  Up # {}
BY DEF Call, Traces, Up

LEMMA AgentInPlace ==
  ASSUME TraceFits, NEW a \in Agents, AgentStep(a) \/ (\E c \in Cpus : Call(a, c)),
         \A b \in Agents : InPlace(b)
  PROVE  \A b \in Agents : InPlace(b)'
<1> USE DEF TraceFits, TraceTypes, InPlace
<1>1. CASE Attach(a)
  BY <1>1 DEF Attach, logs
<1>2. CASE AttachNone(a)
  BY <1>2 DEF AttachNone, Gone, logs
<1>3. ASSUME NEW c \in Cpus, Poll(a, c)
      PROVE  \A b \in Agents : InPlace(b)'
  BY <1>3 DEF Poll, logs
<1>4. CASE OpenLog(a)
  <2>1. live'[a] /\ holds'[a] = Len(files'[a])
    BY <1>4 DEF OpenLog
  <2>2. \A b \in Agents \ {a} : /\ at'[b] = at[b] /\ live'[b] = live[b]
                                /\ holds'[b] = holds[b] /\ files'[b] = files[b]
    BY <1>4 DEF OpenLog
  <2> QED
    BY <2>1, <2>2
<1>5. CASE WriteLine(a)
  BY <1>5 DEF WriteLine
<1>6. CASE WriteFails(a) \/ SigtermSwallowed(a)
  BY <1>6 DEF WriteFails, SigtermSwallowed, GiveUp, logs
<1>7. CASE Sigterm(a)
  BY <1>7 DEF Sigterm, End, Gone, logs
<1>8. ASSUME NEW c \in Cpus, Call(a, c)
      PROVE  \A b \in Agents : InPlace(b)'
  BY <1>8 DEF Call, logs
<1> QED
  BY <1>1, <1>2, <1>3, <1>4, <1>5, <1>6, <1>7, <1>8 DEF AgentStep

(* What leaves an agent is in the log at the path or given up. *)
LEMMA AgentHandsOver ==
  ASSUME TraceFits, NEW a \in Agents, AgentStep(a), InPlace(a)
  PROVE  Inside(a) \subseteq lost' \cup LiveEvents' \cup Inside(a)' /\ lost \subseteq lost'
<1> USE DEF TraceFits, TraceTypes
<1>0. Inside(a)' = ({hand'[a]} \ {0}) \cup Buffered(ring'[a])
  BY InsideIs DEF Inside, Buffered
<1>1. CASE Attach(a)
  BY <1>0, <1>1, InsideIs DEF Attach, traceHist
<1>2. CASE AttachNone(a)
  <2>1. hand[a] = 0 /\ ring[a] = EmptyRing
    BY <1>2 DEF AttachNone, Fits
  <2> QED
    BY <1>2, <2>1, InsideIs, BufferedEmpty DEF AttachNone, traceHist
<1>3. ASSUME NEW c \in Cpus, Poll(a, c)
      PROVE  Inside(a) \subseteq lost' \cup LiveEvents' \cup Inside(a)' /\ lost \subseteq lost'
  <2>1. /\ ring[a] \in [Cpus -> Seq(Events)] /\ ring[a][c] # <<>>
        /\ ring'[a] = [ring[a] EXCEPT ![c] = Tail(@)]
        /\ hand'[a] = Head(ring[a][c]) /\ hand[a] = 0
    BY <1>3 DEF Poll, Fits
  <2>2. Buffered(ring[a]) = Buffered([ring[a] EXCEPT ![c] = Tail(@)]) \cup {Head(ring[a][c])}
    BY <2>1, BufferedTail
  <2>3. Buffered(ring[a]) = Buffered(ring'[a]) \cup {hand'[a]}
    BY <2>1, <2>2
  <2>4. hand'[a] # 0
    <3>1. hand'[a] \in Events
      BY <2>1, HeadTailProperties
    <3> QED
      BY <3>1, Bounds
  <2> QED
    BY <1>0, <1>3, <2>1, <2>3, <2>4, InsideIs DEF Poll, traceHist
<1>4. CASE OpenLog(a)
  BY <1>0, <1>4, InsideIs DEF OpenLog, traceHist
<1>5. CASE WriteLine(a)
  <2> DEFINE n == Len(files[a])
  <2>0. live[a] /\ holds[a] = n /\ n \in Nat /\ n # 0 /\ hand[a] # 0
    BY <1>5 DEF WriteLine, Fits, InPlace
  <2>1. /\ live[a] /\ holds[a] = n /\ n \in 1..n /\ files[a] \in Seq(Seq(Events))
        /\ hand[a] \in Events /\ hand'[a] = 0 /\ ring' = ring /\ live' = live
        /\ files'[a] = [files[a] EXCEPT ![n] = Append(@, hand[a])]
    BY <1>5, <2>0 DEF WriteLine
  <2>2. Len(files'[a]) = n /\ files'[a][n] = Append(files[a][n], hand[a])
    BY <2>1
  <2>3. ToSet(Append(files[a][n], hand[a])) = ToSet(files[a][n]) \cup {hand[a]}
    <3>1. files[a][n] \in Seq(Events)
      BY <2>1, ElementOfSeq
    <3> QED
      BY <2>1, <3>1, ToSetAppend
  <2>4. hand[a] \in LiveEvents'
    <3>1. \A e : e \in LiveEvents' <=> \E b \in Agents : live'[b] /\ e \in ToSet(Newest(b)')
      BY DEF LiveEvents, Newest
    <3>2. Newest(a)' = Append(files[a][n], hand[a])
      BY <2>2 DEF Newest
    <3> QED
      BY <2>1, <2>3, <3>1, <3>2
  <2> QED
    BY <1>0, <1>5, <2>1, <2>4, InsideIs DEF WriteLine, traceHist
<1>6. CASE WriteFails(a) \/ SigtermSwallowed(a)
  BY <1>0, <1>6, InsideIs DEF WriteFails, SigtermSwallowed, GiveUp
<1>7. CASE Sigterm(a)
  BY <1>7 DEF Sigterm, End
<1> QED
  BY <1>1, <1>2, <1>3, <1>4, <1>5, <1>6, <1>7 DEF AgentStep

LEMMA OthersInside ==
  ASSUME TraceFits, NEW a \in Agents, AgentStep(a) \/ (\E c \in Cpus : Call(a, c)),
         NEW b \in Agents \ {a}
  PROVE  Inside(b)' = Inside(b)
<1>1. hand'[b] = hand[b] /\ ring'[b] = ring[b]
  BY DEF TraceFits, TraceTypes, AgentStep, Attach, AttachNone, Gone, Poll, OpenLog, WriteLine,
     WriteFails, GiveUp, Sigterm, End, SigtermSwallowed, Call
<1> QED
  BY <1>1 DEF Inside

LEMMA AgentMine ==
  ASSUME TraceFits, NEW a \in Agents, AgentStep(a), mine' = mine, InPlace(a), MineKept
  PROVE  MineKept'
<1>1. LiveEvents \subseteq LiveEvents'
  BY LiveGrows
<1>2. \A b \in Agents \ {a} : Inside(b)' = Inside(b)
  BY OthersInside
<1>3. Inside(a) \subseteq lost' \cup LiveEvents' \cup Inside(a)' /\ lost \subseteq lost'
  BY AgentHandsOver
<1>4. OnTheWay \subseteq lost' \cup LiveEvents' \cup OnTheWay'
  BY <1>2, <1>3 DEF OnTheWay
<1> QED
  BY <1>1, <1>3, <1>4 DEF MineKept

LEMMA TracedMine ==
  ASSUME TraceFits, NEW a \in Agents, NEW c \in Cpus, Traced(a, c), MineKept
  PROVE  MineKept'
<1>1. Call(a, c) /\ mine' = mine \cup {calls + 1}
  BY DEF Traced
<1>2. LiveEvents' = LiveEvents /\ hand' = hand
  BY <1>1 DEF Call, LiveEvents, logs
<1>3. \A b \in Agents \ {a} : Inside(b)' = Inside(b)
  BY <1>1, OthersInside
<1>4. Inside(a)' = ({hand'[a]} \ {0}) \cup Buffered(ring'[a])
  BY DEF Inside, Buffered
<1>5. /\ lost \subseteq lost' /\ Inside(a) \subseteq Inside(a)'
      /\ calls + 1 \in lost' \cup Inside(a)'
  BY <1>1, <1>2, <1>4, CallBuffers, InsideIs
<1>6. OnTheWay \subseteq OnTheWay' /\ Inside(a)' \subseteq OnTheWay'
  BY <1>3, <1>5 DEF OnTheWay
<1> QED
  BY <1>1, <1>2, <1>5, <1>6 DEF MineKept

LEMMA WorldStopped ==
  ASSUME QuickFits, StoppedInv, World
  PROVE  StoppedInv'
<1>0. TraceFits
  BY DEF QuickFits
<1>1. UNCHANGED <<command, outcome>>
  BY DEF World, Alone, Traced
<1>2. Ours' = Ours /\ Rows' = Rows
  BY <1>1 DEF Ours, Rows, command, outcome
<1>3. stopped => Up' = {} /\ LiveEvents' = LiveEvents
  <2>1. PICK a \in Agents : \/ AgentStep(a) /\ Alone
                            \/ \E c \in Cpus : Traced(a, c)
    BY DEF World
  <2>2. ASSUME Up = {}
        PROVE  Up' = {} /\ LiveEvents' = LiveEvents
    <3>1. AgentStep(a)
      BY <1>0, <2>1, <2>2, NoCallDown DEF Traced
    <3> QED
      BY <1>0, <2>2, <3>1, StaysDown, LogsDown DEF LiveEvents, logs
  <2> QED
    BY <2>2 DEF StoppedInv
<1>4. Ours => MineKept' /\ \A a \in Agents : InPlace(a)'
  <2>1. SUFFICES ASSUME Ours
                 PROVE  MineKept' /\ \A a \in Agents : InPlace(a)'
    OBVIOUS
  <2>2. MineKept /\ \A a \in Agents : InPlace(a)
    BY <2>1 DEF StoppedInv
  <2>3. PICK a \in Agents : \/ AgentStep(a) /\ Alone
                            \/ \E c \in Cpus : Traced(a, c)
    BY DEF World
  <2>4. \A b \in Agents : InPlace(b)'
    BY <1>0, <2>2, <2>3, AgentInPlace DEF Traced
  <2>5. MineKept'
    BY <1>0, <2>2, <2>3, AgentMine, TracedMine DEF Alone
  <2> QED
    BY <2>4, <2>5
<1> QED
  BY <1>1, <1>2, <1>3, <1>4 DEF StoppedInv, SessionsOf, command, outcome

LEMMA StackStopped ==
  ASSUME QuickFits, StoppedInv,
         \/ \E a \in Agents : ArchiveLog(a)
         \/ LayOut \/ StopStack \/ StackGone \/ Escalate \/ StartStack
         \/ WorkloadOver \/ Interrupted
  PROVE  StoppedInv'
<1> USE DEF QuickFits, CommandFits, StoppedInv, Ours, Goto, Finish, outcome
<1>0. /\ TraceFits /\ tries = 0 /\ ~stopped /\ tries \in Nat
      /\ at \in [Agents -> Places] /\ then \in {"start", "count", "idle"}
  BY DEF ArchiveLog, LayOut, StopStack, StackGone, Escalate, StartStack, WorkloadOver, Interrupted,
     TraceFits, TraceTypes, CommandTypes
<1>1. ASSUME NEW a \in Agents, ArchiveLog(a)
      PROVE  StoppedInv'
  BY <1>0, <1>1 DEF ArchiveLog
<1>2. CASE LayOut
  BY <1>0, <1>2 DEF LayOut
<1>3. CASE StopStack
  <2>1. MineKept => MineKept'
    BY <1>3 DEF StopStack, Term, MineKept, LiveEvents, OnTheWay, Inside, logs, traceHist
  <2>2. \A a \in Agents : InPlace(a) => InPlace(a)'
    BY <1>3 DEF StopStack, Term, InPlace, logs
  <2> QED
    BY <1>0, <1>3, <2>1, <2>2 DEF StopStack
<1>4. CASE StackGone
  <2>1. /\ MineKept' = MineKept /\ Up = {} /\ Up' = Up
        /\ \A a \in Agents : InPlace(a)' = InPlace(a)
    BY <1>4 DEF StackGone, AfterStop, MineKept, InPlace, LiveEvents, OnTheWay, Inside, Up,
       traceVars, agentVars, logs, traceHist
  <2>2. pc = "wait" /\ tries' = 0 /\ stopped' = (then = "count")
    BY <1>0, <1>4 DEF StackGone, AfterStop
  <2>3. CASE then = "count"
    BY <1>4, <2>1, <2>2, <2>3 DEF StackGone, AfterStop
  <2>4. CASE then # "count"
    <3>1. pc' \in {"idle", "start"}
      BY <1>0, <1>4, <2>4 DEF StackGone, AfterStop
    <3> QED
      BY <2>2, <2>4, <3>1
  <2> QED
    BY <2>3, <2>4
<1>5. CASE Escalate
  <2>1. /\ End(Up) /\ UNCHANGED logs /\ lost \subseteq lost' /\ mine' = mine
        /\ pc' = pc /\ then' = then /\ stopped' = stopped /\ tries' = tries
    BY <1>5 DEF Escalate, End, command
  <2>2. \A a \in Up : Inside(a) \subseteq lost'
    BY <2>1 DEF End
  <2>3. \A a \in Agents \ Up : Inside(a)' = Inside(a)
    BY <2>1 DEF End, Gone, Inside
  <2>4. OnTheWay \subseteq lost' \cup OnTheWay'
    BY <2>2, <2>3 DEF OnTheWay
  <2>5. MineKept => MineKept'
    BY <2>1, <2>4 DEF MineKept, LiveEvents, logs
  <2>6. \A a \in Agents : InPlace(a) => InPlace(a)'
    BY <2>1 DEF End, Gone, InPlace, logs
  <2> QED
    BY <1>0, <2>1, <2>5, <2>6
<1>6. CASE StartStack
  <2>1. mine' = {} /\ stopped' = stopped /\ tries' = tries /\ pc' \in {"workload", "idle"}
    BY <1>6 DEF StartStack
  <2>2. \A a \in Agents : at'[a] # "write"
    BY <1>6 DEF StartStack
  <2>3. MineKept' /\ \A a \in Agents : InPlace(a)'
    BY <2>1, <2>2 DEF MineKept, InPlace
  <2> QED
    BY <1>0, <2>1, <2>3
<1>7. CASE WorkloadOver \/ Interrupted
  <2>1. /\ MineKept' = MineKept /\ \A a \in Agents : InPlace(a)' = InPlace(a)
        /\ pc = "workload" /\ stopped' = stopped /\ tries' = tries
    BY <1>7 DEF WorkloadOver, Interrupted, MineKept, InPlace, LiveEvents, OnTheWay, Inside,
       traceVars, agentVars, logs, traceHist
  <2>2. pc' \in {"count", "stop", "idle"}
    BY <1>7 DEF WorkloadOver, Interrupted
  <2> QED
    BY <1>0, <2>1, <2>2
<1> QED
  BY <1>1, <1>2, <1>3, <1>4, <1>5, <1>6, <1>7

LEMMA StillMine ==
  ASSUME UNCHANGED traceVars, mine' = mine
  PROVE  /\ MineKept' = MineKept /\ \A a \in Agents : InPlace(a)' = InPlace(a)
         /\ Up' = Up /\ LiveEvents' = LiveEvents
BY DEF MineKept, InPlace, LiveEvents, OnTheWay, Inside, Up, traceVars, agentVars, logs, traceHist

LEMMA BuildStopped ==
  ASSUME QuickFits, BuildInv, StoppedInv,
         \/ \E k \in BOOLEAN : Quick(k)
         \/ \E again \in BOOLEAN : Build(again)
         \/ CountEvents \/ Collect \/ Insert \/ Commit \/ Prepare \/ BuildFeatures
         \/ WriteManifest \/ StageFails
  PROVE  StoppedInv'
<1> USE DEF StoppedInv, Ours, Goto, Finish, outcome
<1>0. /\ tries \in Nat /\ commits \in Nat /\ commits <= tries /\ CommandFits /\ TraceFits
      /\ todo \subseteq (IF pc = "archive" THEN Agents ELSE Events) /\ dir \in DirSets
  BY QuickBounds DEF QuickFits, CommandTypes
<1>1. ASSUME NEW k \in BOOLEAN, Quick(k)
      PROVE  StoppedInv'
  BY <1>1 DEF Quick, NewDir
<1>2. ASSUME Build(FALSE)
      PROVE  StoppedInv'
  BY <1>2 DEF Build, NewDir
<1>3. ASSUME Build(TRUE)
      PROVE  StoppedInv'
  <2>1. /\ pc' = "collect" /\ stopped' = stopped /\ UNCHANGED traceVars /\ mine' = mine
        /\ tries' = 1 => ~dir'.manifest
    BY <1>0, <1>3 DEF Build, CommandFits
  <2> QED
    BY <1>3, <2>1, StillMine
<1>9. \/ CountEvents \/ Collect \/ Insert \/ Commit \/ Prepare \/ BuildFeatures
      \/ WriteManifest \/ StageFails
      => /\ UNCHANGED traceVars /\ mine' = mine /\ stopped' = stopped
         /\ pc' \in {"idle"} \cup Stages
         /\ ~(pc = "archive" \/ pc = "workload" \/ pc = "stop" \/ pc = "wait" \/ pc = "start")
  BY DEF CountEvents, Collect, Insert, Commit, Prepare, BuildFeatures, WriteManifest, StageFails, Stages
<1>4. ASSUME CountEvents \/ Collect \/ Insert \/ Commit \/ Prepare \/ BuildFeatures
             \/ WriteManifest \/ StageFails
      PROVE  StoppedInv'
  <2>1. /\ pc' = "archive" => then' = "start"
        /\ stopped' => Up' = {} /\ pc' \notin {"archive", "stop", "wait", "start", "workload"}
        /\ Ours' => MineKept' /\ \A a \in Agents : InPlace(a)'
        /\ LiveEvents' = LiveEvents
    BY <1>4, <1>9, StillMine DEF Stages
  <2> SUFFICES ASSUME stopped', tries' = 1
               PROVE  /\ pc' = "insert" => todo' \cup txn' = LiveEvents
                      /\ pc' = "prepare" => Rows' = LiveEvents
                      /\ pc' \in {"features", "manifest"} \/ dir'.manifest
                           => Rows' = LiveEvents /\ SessionsOf(LiveEvents)'
                      /\ pc' = "manifest" \/ dir'.manifest
                           => dir'.features = dir'.sessions
    BY <2>1
  <2>2. CASE CountEvents
    BY <1>0, <2>2 DEF CountEvents, CommandFits
  <2>3. stopped
    BY <1>4, <1>9
  <2>4. CASE Collect
    <3>1. txn = {} /\ ~dir'.manifest
      BY <1>0, <2>4 DEF Collect, CommandFits, BuildInv, Building
    <3> QED
      BY <2>4, <3>1 DEF Collect
  <2>5. CASE Insert
    <3>1. Min(todo) \in todo /\ ~dir'.manifest
      BY <1>0, <2>5, MinIn, Bounds DEF Insert, BuildInv, Building
    <3> QED
      BY <2>3, <2>5, <3>1 DEF Insert
  <2>6. CASE Commit
    <3>1. Rows' = txn
      <4>1. commits = 0
        BY <1>0, <2>6 DEF CommandFits, Commit
      <4>2. \A e \in Events : dir.rows[e] = 0
        BY <1>0, <4>1 DEF CommandFits, DirSets
      <4>3. dir'.rows = [e \in Events |-> dir.rows[e] + (IF e \in txn THEN 1 ELSE 0)]
        BY <1>0, <2>6 DEF Commit, DirSets
      <4>4. \A e \in Events : dir'.rows[e] > 0 <=> e \in txn
        BY <4>2, <4>3
      <4> QED
        BY <4>4 DEF Rows, QuickFits, CommandTypes
    <3>2. ~dir'.manifest
      BY <1>0, <2>6 DEF Commit, DirSets, BuildInv, Building
    <3> QED
      BY <2>3, <2>6, <3>1, <3>2 DEF Commit
  <2>7. CASE Prepare
    <3>1. /\ dir'.sessions \subseteq LiveEvents
          /\ StrideFits => dir'.sessions = LiveEvents
          /\ dir'.rows = dir.rows /\ ~dir'.manifest
      BY <1>0, <2>7 DEF Prepare, DirSets, BuildInv, Building
    <3> QED
      BY <2>1, <2>3, <2>7, <3>1, StillRows DEF Prepare, SessionsOf
  <2>8. CASE BuildFeatures
    <3>1. /\ dir'.features = dir.sessions /\ dir'.sessions = dir.sessions
          /\ dir'.rows = dir.rows /\ ~dir'.manifest
      BY <1>0, <2>8 DEF BuildFeatures, DirSets, BuildInv, Building
    <3> QED
      BY <2>1, <2>3, <2>8, <3>1, StillRows DEF BuildFeatures, SessionsOf
  <2>9. CASE WriteManifest
    <3>1. /\ dir'.features = dir.features /\ dir'.sessions = dir.sessions
          /\ dir'.rows = dir.rows
      BY <1>0, <2>9 DEF WriteManifest, DirSets
    <3> QED
      BY <2>1, <2>3, <2>9, <3>1, StillRows DEF WriteManifest, SessionsOf
  <2>10. CASE StageFails
    <3>1. dir' = dir /\ tries' = tries /\ pc' = "idle"
      BY <2>10 DEF StageFails
    <3>2. Rows' = Rows
      BY <3>1, StillRows
    <3> QED
      BY <2>1, <2>3, <3>1, <3>2 DEF SessionsOf
  <2> QED
    BY <1>4, <2>2, <2>4, <2>5, <2>6, <2>7, <2>8, <2>9, <2>10
<1> QED
  BY <1>1, <1>2, <1>3, <1>4

LEMMA StillStopped ==
  ASSUME StoppedInv, UNCHANGED vars
  PROVE  StoppedInv'
<1>1. Rows' = Rows
  BY DEF Rows, vars, outcome
<1> QED
  BY <1>1, StillMine DEF StoppedInv, SessionsOf, Ours, vars, command, outcome

(* StoppedBuildAgrees: a run that stops its stack before the build gets the *)
(* same events from both readers of the logs, and all of its own that no    *)
(* agent or kernel gave up (command_quick and build_outputs of              *)
(* os_monitor.py).                                                          *)
THEOREM StoppedBuildAgreesCorrect == Spec => []StoppedBuildAgrees
<1>1. Init => BuildInv /\ StoppedInv
  BY DEF Init, BuildInv, StoppedInv, Ours
<1>2. QuickFits /\ BuildInv /\ [Next]_vars => BuildInv'
  BY WorldBuild, CommandBuild, StillBuild DEF Next
<1>3. QuickFits /\ BuildInv /\ StoppedInv /\ [Next]_vars => StoppedInv'
  BY WorldStopped, StackStopped, BuildStopped, StillStopped DEF Next, Command
<1>4. QuickFits /\ StoppedInv => StoppedBuildAgrees
  <2>1. SUFFICES ASSUME QuickFits, StoppedInv, stopped, dir.manifest, tries = 1
                 PROVE  /\ dir.sessions \subseteq Rows
                        /\ dir.features = dir.sessions
                        /\ StrideFits => dir.sessions = Rows
                        /\ mine \subseteq Rows \cup lost
    BY DEF StoppedBuildAgrees
  <2>2. /\ Rows = LiveEvents /\ SessionsOf(LiveEvents)
        /\ dir.features = dir.sessions /\ Up = {} /\ MineKept
    BY <2>1 DEF StoppedInv, Ours
  <2>3. OnTheWay = {}
    BY <2>1, <2>2, NothingOnTheWay DEF QuickFits
  <2> QED
    BY <2>2, <2>3 DEF MineKept, SessionsOf
<1> QED
  BY <1>1, <1>2, <1>3, <1>4, QuickFitsInit, QuickFitsInductive, PTL DEF Spec
-----------------------------------------------------------------------------
(* The order of the records of one CPU: log, then hand, then ring. *)

Recorded(fs, cpu) ==
  \A k, m \in 1..Len(fs) : \A i \in 1..Len(fs[k]), j \in 1..Len(fs[m]) :
    (k < m \/ (k = m /\ i < j)) /\ cpu[fs[k][i]] = cpu[fs[m][j]] => fs[k][i] < fs[m][j]

RingOrder(r, cpu) ==
  \A c \in Cpus : \A i \in 1..Len(r[c]) :
    cpu[r[c][i]] = c /\ \A j \in 1..Len(r[c]) : i < j => r[c][i] < r[c][j]

Below(fs, r, h, n) ==
  /\ h <= n /\ \A e \in Flat(fs) : e <= n
  /\ \A c \in Cpus : \A i \in 1..Len(r[c]) : r[c][i] <= n

BeforeRing(fs, r, h, cpu) ==
  \A e \in Flat(fs) \cup ({h} \ {0}), c \in Cpus :
    cpu[e] = c => \A i \in 1..Len(r[c]) : e < r[c][i]

BeforeHand(fs, h, cpu) == h # 0 => \A e \in Flat(fs) : cpu[e] = cpu[h] => e < h

OrderOf(fs, r, h, n, cpu) ==
  /\ Below(fs, r, h, n) /\ RingOrder(r, cpu) /\ BeforeRing(fs, r, h, cpu)
  /\ BeforeHand(fs, h, cpu) /\ Recorded(fs, cpu)

FileSets == Seq(Seq(Events))
RingSets == [Cpus -> Seq(Events)]

(* Later calls do not change the CPU of the earlier ones. *)
LEMMA LaterOrder ==
  ASSUME NEW fs \in FileSets, NEW r \in RingSets, NEW h \in Events \cup {0},
         NEW n \in Nat, NEW m \in Nat, n <= m, NEW cpu, NEW cpu2,
         \A e \in 1..n : cpu2[e] = cpu[e], OrderOf(fs, r, h, n, cpu)
  PROVE  OrderOf(fs, r, h, m, cpu2)
<1>1. /\ Below(fs, r, h, n)
      /\ \A e \in Events : e <= n => e \in 1..n
  <2>1. \A e \in Events : e \in Nat /\ e # 0
    BY Bounds
  <2> QED
    BY <2>1 DEF OrderOf
<1>2. \A e \in Flat(fs) : e \in Events /\ e \in 1..n
  <2>1. \A e \in Flat(fs) : e \in Events
    BY InFlat, ElementOfSeq DEF FileSets
  <2> QED
    BY <1>1, <2>1 DEF Below
<1>3. \A c \in Cpus : \A i \in 1..Len(r[c]) : r[c][i] \in Events /\ r[c][i] \in 1..n
  <2>1. \A c \in Cpus : \A i \in 1..Len(r[c]) : r[c][i] \in Events
    BY ElementOfSeq DEF RingSets
  <2> QED
    BY <1>1, <2>1 DEF Below
<1>4. h # 0 => h \in 1..n
  BY <1>1 DEF Below
<1>5. Below(fs, r, h, m)
  BY <1>1, <1>2, <1>3 DEF Below
<1>6. RingOrder(r, cpu2)
  BY <1>3 DEF RingOrder, OrderOf
<1>7. BeforeRing(fs, r, h, cpu2)
  BY <1>2, <1>4 DEF BeforeRing, OrderOf
<1>8. BeforeHand(fs, h, cpu2)
  BY <1>2, <1>4 DEF BeforeHand, OrderOf
<1>9. Recorded(fs, cpu2)
  <2>1. \A k \in 1..Len(fs) : \A i \in 1..Len(fs[k]) : fs[k][i] \in 1..n
    BY <1>2, InFlat DEF FileSets
  <2> QED
    BY <2>1 DEF Recorded, OrderOf
<1> QED
  BY <1>5, <1>6, <1>7, <1>8, <1>9 DEF OrderOf

(* A new event behind the others of its CPU. *)
LEMMA SubmitOrder ==
  ASSUME NEW fs \in FileSets, NEW r \in RingSets, NEW h \in Events \cup {0},
         NEW n \in Nat, n + 1 \in Events, NEW cpu, NEW c \in Cpus, cpu[n + 1] = c,
         OrderOf(fs, r, h, n, cpu)
  PROVE  OrderOf(fs, [r EXCEPT ![c] = Append(r[c], n + 1)], h, n + 1, cpu)
<1> DEFINE q == [r EXCEPT ![c] = Append(r[c], n + 1)]
           l == Len(r[c])
<1>1. /\ l \in Nat /\ Len(q[c]) = l + 1 /\ q[c][l + 1] = n + 1
      /\ \A i \in 1..l : q[c][i] = r[c][i]
      /\ \A d \in Cpus : d # c => q[d] = r[d]
  BY AppendProperties DEF RingSets
<1>2. Below(fs, r, h, n) /\ Events \subseteq Nat \ {0}
  BY Bounds DEF OrderOf
<1>3. \A d \in Cpus : \A i \in 1..Len(r[d]) : r[d][i] \in Nat /\ r[d][i] <= n
  <2>1. \A d \in Cpus : \A i \in 1..Len(r[d]) : r[d][i] \in Events
    BY ElementOfSeq DEF RingSets
  <2> QED
    BY <1>2, <2>1 DEF Below
<1>4. \A e \in Flat(fs) \cup ({h} \ {0}) : e \in Nat /\ e <= n
  <2>1. \A e \in Flat(fs) : e \in Events
    BY InFlat, ElementOfSeq DEF FileSets
  <2> QED
    BY <1>2, <2>1 DEF Below
<1>5. ASSUME NEW d \in Cpus, NEW i \in 1..Len(q[d])
      PROVE  (d = c /\ i = l + 1) \/ (i \in 1..Len(r[d]) /\ q[d][i] = r[d][i])
  BY <1>1
<1> HIDE DEF q, l
<1>6. Below(fs, q, h, n + 1)
  <2>1. \A d \in Cpus : \A i \in 1..Len(q[d]) : q[d][i] <= n + 1
    BY <1>1, <1>3, <1>5
  <2> QED
    BY <1>2, <1>4, <2>1 DEF Below
<1>7. RingOrder(q, cpu)
  <2>1. ASSUME NEW d \in Cpus, NEW i \in 1..Len(q[d])
        PROVE  cpu[q[d][i]] = d
    <3>1. CASE d = c /\ i = l + 1
      BY <1>1, <3>1
    <3>2. CASE i \in 1..Len(r[d]) /\ q[d][i] = r[d][i]
      BY <3>2 DEF RingOrder, OrderOf
    <3> QED
      BY <1>5, <3>1, <3>2
  <2>2. ASSUME NEW d \in Cpus, NEW i \in 1..Len(q[d]), NEW j \in 1..Len(q[d]), i < j
        PROVE  q[d][i] < q[d][j]
    <3>1. i \in 1..Len(r[d]) /\ q[d][i] = r[d][i]
      BY <1>1, <1>5, <2>2
    <3>2. CASE j \in 1..Len(r[d]) /\ q[d][j] = r[d][j]
      BY <2>2, <3>1, <3>2 DEF RingOrder, OrderOf
    <3>3. CASE d = c /\ j = l + 1
      BY <1>1, <1>3, <3>1, <3>3
    <3> QED
      BY <1>5, <3>2, <3>3
  <2> QED
    BY <2>1, <2>2 DEF RingOrder
<1>8. BeforeRing(fs, q, h, cpu)
  <2> SUFFICES ASSUME NEW e \in Flat(fs) \cup ({h} \ {0}), NEW d \in Cpus, cpu[e] = d,
                      NEW i \in 1..Len(q[d])
               PROVE  e < q[d][i]
    BY DEF BeforeRing
  <2>1. CASE d = c /\ i = l + 1
    BY <1>1, <1>4, <2>1
  <2>2. CASE i \in 1..Len(r[d]) /\ q[d][i] = r[d][i]
    BY <2>2 DEF BeforeRing, OrderOf
  <2> QED
    BY <1>5, <2>1, <2>2
<1>9. OrderOf(fs, q, h, n + 1, cpu)
  BY <1>6, <1>7, <1>8 DEF OrderOf
<1> QED
  BY <1>9 DEF q

(* The first of a ring into the hand. *)
LEMMA PollOrder ==
  ASSUME NEW fs \in FileSets, NEW r \in RingSets, NEW n \in Nat, NEW cpu,
         NEW c \in Cpus, r[c] # <<>>, OrderOf(fs, r, 0, n, cpu)
  PROVE  OrderOf(fs, [r EXCEPT ![c] = Tail(r[c])], Head(r[c]), n, cpu)
<1> DEFINE q == [r EXCEPT ![c] = Tail(r[c])]
           h == Head(r[c])
           l == Len(r[c])
<1>1. /\ l \in Nat \ {0} /\ h = r[c][1] /\ Len(q[c]) = l - 1
      /\ \A i \in 1..(l - 1) : q[c][i] = r[c][i + 1]
      /\ \A d \in Cpus : d # c => q[d] = r[d]
      /\ q \in RingSets
  BY HeadTailProperties, EmptySeq DEF RingSets
<1>2. h \in Events /\ h # 0 /\ Events \subseteq Nat /\ 1 \in 1..l
  BY <1>1, Bounds, ElementOfSeq DEF RingSets
<1> HIDE DEF q, h, l
<1>3. ASSUME NEW d \in Cpus, NEW i \in 1..Len(q[d])
      PROVE  \/ d = c /\ i + 1 \in 1..l /\ q[d][i] = r[d][i + 1]
             \/ d # c /\ q[d] = r[d]
  BY <1>1
<1>4. Below(fs, q, h, n)
  <2>1. \A d \in Cpus : \A i \in 1..Len(q[d]) : q[d][i] <= n
    BY <1>1, <1>3 DEF OrderOf, Below, l
  <2>2. h <= n
    BY <1>1, <1>2 DEF OrderOf, Below, l
  <2> QED
    BY <2>1, <2>2 DEF OrderOf, Below
<1>5. RingOrder(q, cpu)
  <2>1. ASSUME NEW d \in Cpus, NEW i \in 1..Len(q[d])
        PROVE  cpu[q[d][i]] = d
    BY <1>3, <2>1 DEF RingOrder, OrderOf, l
  <2>2. ASSUME NEW d \in Cpus, NEW i \in 1..Len(q[d]), NEW j \in 1..Len(q[d]), i < j
        PROVE  q[d][i] < q[d][j]
    <3>1. CASE d = c
      <4>1. /\ i + 1 \in 1..l /\ j + 1 \in 1..l /\ i + 1 < j + 1
            /\ q[d][i] = r[d][i + 1] /\ q[d][j] = r[d][j + 1]
        BY <1>3, <2>2, <3>1
      <4> QED
        BY <3>1, <4>1 DEF RingOrder, OrderOf, l
    <3>2. CASE d # c
      BY <1>1, <2>2, <3>2 DEF RingOrder, OrderOf
    <3> QED
      BY <3>1, <3>2
  <2> QED
    BY <2>1, <2>2 DEF RingOrder
<1>6. cpu[h] = c
  BY <1>1, <1>2 DEF RingOrder, OrderOf, l
<1>7. BeforeRing(fs, q, h, cpu)
  <2> SUFFICES ASSUME NEW e \in Flat(fs) \cup ({h} \ {0}), NEW d \in Cpus, cpu[e] = d,
                      NEW i \in 1..Len(q[d])
               PROVE  e < q[d][i]
    BY DEF BeforeRing
  <2>1. CASE e \in Flat(fs)
    BY <1>3, <2>1 DEF BeforeRing, OrderOf, l
  <2>2. CASE e = h
    <3>1. d = c /\ i + 1 \in 1..l /\ q[d][i] = r[d][i + 1]
      BY <1>3, <1>6, <2>2
    <3>2. 1 < i + 1
      BY <1>1, <3>1
    <3>3. r[c][1] < r[c][i + 1]
      BY <1>2, <3>1, <3>2 DEF RingOrder, OrderOf, l
    <3> QED
      BY <1>1, <2>2, <3>1, <3>3
  <2> QED
    BY <2>1, <2>2
<1>8. BeforeHand(fs, h, cpu)
  BY <1>1, <1>2, <1>6 DEF BeforeHand, BeforeRing, OrderOf, l
<1>9. OrderOf(fs, q, h, n, cpu)
  BY <1>4, <1>5, <1>7, <1>8 DEF OrderOf
<1> QED
  BY <1>9 DEF q, h

(* The hand into the log file that is the last to hold anything. *)
LEMMA WriteOrder ==
  ASSUME NEW fs \in FileSets, NEW r \in RingSets, NEW x \in Events, NEW n \in Nat, NEW cpu,
         NEW h \in 1..Len(fs), \A k \in 1..Len(fs) : k > h => fs[k] = <<>>,
         NEW gs \in FileSets, Len(gs) = Len(fs), gs[h] = Append(fs[h], x),
         \A k \in 1..Len(fs) : k # h => gs[k] = fs[k],
         OrderOf(fs, r, x, n, cpu)
  PROVE  OrderOf(gs, r, 0, n, cpu)
<1>1. Flat(gs) = Flat(fs) \cup {x}
  <2> DEFINE S == Events
  <2>1. fs \in Seq(Seq(S)) /\ gs \in Seq(Seq(S)) /\ x \in S
    BY DEF FileSets
  <2>2. Len(gs) = Len(fs) /\ gs[h] = Append(fs[h], x) /\ h \in 1..Len(fs)
    OBVIOUS
  <2>3. \A k \in 1..Len(fs) : k # h => gs[k] = fs[k]
    OBVIOUS
  <2> HIDE DEF S
  <2> QED
    BY ONLY <2>1, <2>2, <2>3, FlatWrite
<1>2. x # 0 /\ Below(fs, r, x, n)
  BY Bounds DEF OrderOf
<1>3. Below(gs, r, 0, n)
  BY <1>1, <1>2 DEF Below
<1>4. BeforeRing(gs, r, 0, cpu)
  BY <1>1, <1>2 DEF BeforeRing, OrderOf
<1>5. BeforeHand(gs, 0, cpu)
  BY DEF BeforeHand
<1> DEFINE l == Len(fs[h])
<1>6. /\ l \in Nat /\ Len(gs[h]) = l + 1 /\ gs[h][l + 1] = x
      /\ \A i \in 1..l : gs[h][i] = fs[h][i]
  <2>1. fs[h] \in Seq(Events)
    BY ElementOfSeq DEF FileSets
  <2> QED
    BY <2>1, AppendProperties
<1> HIDE DEF l
<1>7. ASSUME NEW k \in 1..Len(fs), NEW i \in 1..Len(gs[k])
      PROVE  \/ k = h /\ i = l + 1 /\ gs[k][i] = x
             \/ i \in 1..Len(fs[k]) /\ gs[k][i] = fs[k][i]
  BY <1>6 DEF l
<1>8. Recorded(gs, cpu)
  <2> SUFFICES ASSUME NEW k \in 1..Len(fs), NEW m \in 1..Len(fs),
                      NEW i \in 1..Len(gs[k]), NEW j \in 1..Len(gs[m]),
                      k < m \/ (k = m /\ i < j), cpu[gs[k][i]] = cpu[gs[m][j]]
               PROVE  gs[k][i] < gs[m][j]
    BY DEF Recorded
  <2>1. CASE k = h /\ i = l + 1
    <3>1. CASE k < m
      <4>1. gs[m] = <<>>
        BY <2>1, <3>1
      <4> QED
        BY <4>1
    <3>2. CASE k = m /\ i < j
      BY <1>6, <2>1, <3>2
    <3> QED
      BY <3>1, <3>2
  <2>2. CASE i \in 1..Len(fs[k]) /\ gs[k][i] = fs[k][i]
    <3>1. CASE m = h /\ j = l + 1 /\ gs[m][j] = x
      <4>1. fs[k][i] \in Flat(fs)
        BY <2>2, InFlat DEF FileSets
      <4> QED
        BY <1>2, <2>2, <3>1, <4>1 DEF BeforeHand, OrderOf
    <3>2. CASE j \in 1..Len(fs[m]) /\ gs[m][j] = fs[m][j]
      BY <2>2, <3>2 DEF Recorded, OrderOf
    <3> QED
      BY <1>7, <3>1, <3>2
  <2> QED
    BY <1>7, <2>1, <2>2
<1> QED
  BY <1>3, <1>4, <1>5, <1>8 DEF OrderOf

(* A new log begins empty. *)
LEMMA NewLogOrder ==
  ASSUME NEW fs \in FileSets, NEW r, NEW h, NEW n, NEW cpu, OrderOf(fs, r, h, n, cpu)
  PROVE  OrderOf(Append(fs, <<>>), r, h, n, cpu)
<1> DEFINE gs == Append(fs, <<>>)
<1>1. Flat(gs) = Flat(fs)
  BY FlatAppend DEF FileSets
<1>2. <<>> \in Seq(Events) /\ Len(<<>>) = 0
  BY EmptySeq
<1>3. /\ Len(gs) = Len(fs) + 1 /\ Len(fs) \in Nat
      /\ \A k \in 1..Len(fs) : gs[k] = fs[k]
      /\ gs[Len(fs) + 1] = <<>>
  BY <1>2, AppendProperties DEF FileSets
<1> HIDE DEF gs
<1>4. ASSUME NEW k \in 1..Len(gs), NEW i \in 1..Len(gs[k])
      PROVE  k \in 1..Len(fs) /\ gs[k] = fs[k]
  BY <1>2, <1>3
<1>5. Recorded(gs, cpu)
  BY <1>4 DEF Recorded, OrderOf
<1>6. OrderOf(gs, r, h, n, cpu)
  BY <1>1, <1>5 DEF OrderOf, Below, BeforeRing, BeforeHand
<1> QED
  BY <1>6 DEF gs

(* An agent that is gone. *)
LEMMA GoneOrder ==
  ASSUME NEW fs, NEW r, NEW h, NEW n \in Nat, NEW cpu, OrderOf(fs, r, h, n, cpu)
  PROVE  OrderOf(fs, EmptyRing, 0, n, cpu) /\ OrderOf(fs, r, 0, n, cpu)
<1>1. \A c \in Cpus : Len(EmptyRing[c]) = 0
  BY EmptyRingType
<1>2. \A c \in Cpus : 1..Len(EmptyRing[c]) = {}
  BY <1>1
<1> QED
  BY <1>2 DEF OrderOf, Below, RingOrder, BeforeRing, BeforeHand

InOrder(a) == OrderOf(files[a], ring[a], hand[a], calls, cpuOf)

LEMMA TypedOrder ==
  ASSUME TraceFits, NEW a \in Agents
  PROVE  /\ files[a] \in FileSets /\ ring[a] \in RingSets /\ hand[a] \in Events \cup {0}
         /\ calls \in Nat
BY Bounds DEF TraceFits, TraceTypes, FileSets, RingSets

(* A step that writes no record and traces no call. *)
Quiet ==
  /\ calls' = calls /\ cpuOf' = cpuOf
  /\ \A b \in Agents :
       /\ files'[b] = files[b] \/ files'[b] = Append(files[b], <<>>)
       /\ \/ hand'[b] = hand[b] /\ ring'[b] = ring[b]
          \/ hand'[b] = 0 /\ ring'[b] \in {ring[b], EmptyRing}

LEMMA QuietOrder ==
  ASSUME TraceFits, \A a \in Agents : InOrder(a), Quiet, NEW b \in Agents
  PROVE  InOrder(b)'
<1> DEFINE fs == files[b]
           r  == ring[b]
           h  == hand[b]
<1>1. /\ fs \in FileSets /\ calls \in Nat /\ OrderOf(fs, r, h, calls, cpuOf)
      /\ calls' = calls /\ cpuOf' = cpuOf
  BY TypedOrder DEF InOrder, Quiet
<1>2. /\ OrderOf(fs, EmptyRing, 0, calls, cpuOf)
      /\ OrderOf(fs, r, 0, calls, cpuOf)
  BY <1>1, GoneOrder
<1>3. OrderOf(fs, ring'[b], hand'[b], calls, cpuOf)
  BY <1>1, <1>2 DEF Quiet
<1>4. OrderOf(Append(fs, <<>>), ring'[b], hand'[b], calls, cpuOf)
  BY <1>1, <1>3, NewLogOrder
<1>5. OrderOf(files'[b], ring'[b], hand'[b], calls, cpuOf)
  BY <1>3, <1>4 DEF Quiet
<1> QED
  BY <1>1, <1>5 DEF InOrder

LEMMA GoneQuiet ==
  ASSUME NEW A \in SUBSET Agents, Gone(A), UNCHANGED <<logs, calls, cpuOf>>
  PROVE  Quiet
BY DEF Gone, Quiet, logs

LEMMA AgentQuiet ==
  ASSUME TraceFits, NEW a \in Agents,
         \/ Attach(a) \/ AttachNone(a) \/ OpenLog(a) \/ WriteFails(a)
         \/ Sigterm(a) \/ SigtermSwallowed(a)
  PROVE  Quiet
<1> USE DEF TraceFits, TraceTypes
<1>1. CASE Attach(a)
  BY <1>1 DEF Attach, Quiet, logs, traceHist
<1>2. CASE AttachNone(a)
  BY <1>2, GoneQuiet DEF AttachNone, traceHist
<1>3. CASE OpenLog(a)
  BY <1>3 DEF OpenLog, Quiet, traceHist
<1>4. CASE WriteFails(a) \/ SigtermSwallowed(a)
  BY <1>4 DEF WriteFails, SigtermSwallowed, GiveUp, Quiet, logs
<1>5. CASE Sigterm(a)
  BY <1>5, GoneQuiet DEF Sigterm, End
<1> QED
  BY <1>1, <1>2, <1>3, <1>4, <1>5

LEMMA CallOrder ==
  ASSUME TraceFits, \A a \in Agents : InOrder(a), NEW a \in Agents, NEW c \in Cpus, Call(a, c),
         NEW b \in Agents
  PROVE  InOrder(b)'
<1> DEFINE n == calls
<1>1. /\ n \in Nat /\ n + 1 \in Events /\ n + 1 \in Nat /\ calls' = n + 1
      /\ cpuOf \in Seq(Cpus) /\ Len(cpuOf) = n /\ cpuOf' = Append(cpuOf, c)
      /\ files' = files /\ hand' = hand
      /\ ring' = [ring EXCEPT ![a][c] = Submitted(a, c)]
  BY Bounds DEF Call, TraceFits, TraceTypes, Events, logs
<1>2. cpuOf'[n + 1] = c /\ \A e \in 1..n : cpuOf'[e] = cpuOf[e]
  BY <1>1, AppendProperties
<1>3. /\ files[b] \in FileSets /\ ring[b] \in RingSets /\ hand[b] \in Events \cup {0}
      /\ ring \in [Agents -> RingSets]
  BY TypedOrder DEF TraceFits, TraceTypes, RingSets
<1>4. OrderOf(files[b], ring[b], hand[b], n, cpuOf)
  BY DEF InOrder
<1> DEFINE cpu == cpuOf'
<1> HIDE DEF n, cpu
<1>5. \A e \in 1..n : cpu[e] = cpuOf[e]
  BY <1>2 DEF cpu
<1>6. OrderOf(files[b], ring[b], hand[b], n, cpu)
  <2>1. n <= n
    BY <1>1
  <2> QED
    BY <1>1, <1>3, <1>4, <1>5, <2>1, LaterOrder
<1>7. OrderOf(files[b], ring[b], hand[b], n + 1, cpu)
  <2>1. n <= n + 1
    BY <1>1
  <2> QED
    BY <1>1, <1>3, <1>4, <1>5, <2>1, LaterOrder
<1>8. CASE ring'[b] = ring[b]
  BY <1>1, <1>7, <1>8 DEF InOrder, cpu
<1>9. CASE b = a /\ ring'[b] = [ring[b] EXCEPT ![c] = Append(ring[b][c], n + 1)]
  <2>1. cpu[n + 1] = c
    BY <1>2 DEF cpu
  <2>2. OrderOf(files[b], [ring[b] EXCEPT ![c] = Append(ring[b][c], n + 1)], hand[b], n + 1, cpu)
    BY <1>1, <1>3, <1>6, <2>1, SubmitOrder
  <2> QED
    BY <1>1, <1>9, <2>2 DEF InOrder, cpu
<1>10. \/ ring'[b] = ring[b]
       \/ b = a /\ ring'[b] = [ring[b] EXCEPT ![c] = Append(ring[b][c], n + 1)]
  <2>1. CASE b # a
    BY <1>1, <1>3, <2>1
  <2>2. CASE b = a
    <3>1. ring'[a] = [ring[a] EXCEPT ![c] = Submitted(a, c)]
      BY <1>1, <1>3
    <3>2. Submitted(a, c) = IF Len(ring[a][c]) < RingLen
                            THEN Append(ring[a][c], n + 1) ELSE ring[a][c]
      BY SubmittedIs DEF Call, n
    <3>3. [ring[a] EXCEPT ![c] = ring[a][c]] = ring[a]
      BY <1>3, <2>2 DEF RingSets
    <3> QED
      BY <2>2, <3>1, <3>2, <3>3
  <2> QED
    BY <2>1, <2>2
<1> QED
  BY <1>8, <1>9, <1>10

LEMMA PollStepOrder ==
  ASSUME TraceFits, \A a \in Agents : InOrder(a), NEW a \in Agents, NEW c \in Cpus, Poll(a, c),
         NEW b \in Agents
  PROVE  InOrder(b)'
<1>1. /\ files' = files /\ calls' = calls /\ cpuOf' = cpuOf
      /\ ring[a][c] # <<>> /\ hand[a] = 0 /\ hand'[a] = Head(ring[a][c])
      /\ ring'[a] = [ring[a] EXCEPT ![c] = Tail(ring[a][c])]
      /\ \A d \in Agents \ {a} : ring'[d] = ring[d] /\ hand'[d] = hand[d]
  BY DEF Poll, TraceFits, TraceTypes, Fits, logs, traceHist
<1>2. CASE b # a
  BY <1>1, <1>2 DEF InOrder
<1>3. CASE b = a
  <2>1. /\ files[a] \in FileSets /\ ring[a] \in RingSets /\ calls \in Nat
        /\ OrderOf(files[a], ring[a], 0, calls, cpuOf)
    BY <1>1, TypedOrder DEF InOrder
  <2>2. OrderOf(files[a], [ring[a] EXCEPT ![c] = Tail(ring[a][c])], Head(ring[a][c]), calls, cpuOf)
    BY <1>1, <2>1, PollOrder
  <2> QED
    BY <1>1, <1>3, <2>2 DEF InOrder
<1> QED
  BY <1>2, <1>3

LEMMA WriteStepOrder ==
  ASSUME TraceFits, \A a \in Agents : InOrder(a), NEW a \in Agents, WriteLine(a), NEW b \in Agents
  PROVE  InOrder(b)'
<1>0. /\ holds[a] \in 1..Len(files[a]) /\ hand[a] \in Events /\ files[a] \in FileSets
      /\ \A k \in 1..Len(files[a]) : k > holds[a] => files[a][k] = <<>>
  <2>1. /\ holds[a] # 0 /\ holds[a] <= Len(files[a]) /\ holds[a] \in Nat
        /\ Len(files[a]) \in Nat /\ hand[a] # 0 /\ DOMAIN files[a] = 1..Len(files[a])
    BY DEF WriteLine, TraceFits, TraceTypes, Fits
  <2>2. files[a] \in FileSets /\ hand[a] \in Events
    BY <2>1, TypedOrder
  <2>3. \A k \in DOMAIN files[a] : k > holds[a] => files[a][k] = <<>>
    BY DEF WriteLine, TraceFits, Fits
  <2> QED
    BY <2>1, <2>2, <2>3
<1>1. /\ calls' = calls /\ cpuOf' = cpuOf /\ ring' = ring /\ hand'[a] = 0
      /\ files'[a] = [files[a] EXCEPT ![holds[a]] = Append(files[a][holds[a]], hand[a])]
      /\ \A d \in Agents \ {a} : files'[d] = files[d] /\ hand'[d] = hand[d]
  BY DEF WriteLine, TraceFits, TraceTypes, traceHist
<1>2. CASE b # a
  BY <1>1, <1>2 DEF InOrder
<1>3. CASE b = a
  <2> DEFINE fs == files[a]
             gs == files'[a]
             h  == holds[a]
             x  == hand[a]
             r  == ring[a]
  <2>1. gs \in FileSets
    BY WriteLineFits DEF TraceFits, TraceTypes, FileSets
  <2>2. /\ fs \in FileSets /\ h \in 1..Len(fs) /\ x \in Events
        /\ Len(gs) = Len(fs) /\ gs[h] = Append(fs[h], x)
    BY <1>0, <1>1 DEF FileSets
  <2>3. \A k \in 1..Len(fs) : k # h => gs[k] = fs[k]
    BY <1>0, <1>1 DEF FileSets
  <2>4. \A k \in 1..Len(fs) : k > h => fs[k] = <<>>
    BY <1>0
  <2>5. r \in RingSets /\ calls \in Nat /\ OrderOf(fs, r, x, calls, cpuOf)
    BY TypedOrder DEF InOrder
  <2> HIDE DEF fs, gs, h, x, r
  <2>6. OrderOf(gs, r, 0, calls, cpuOf)
    BY <2>1, <2>2, <2>3, <2>4, <2>5, WriteOrder
  <2> QED
    BY <1>1, <1>3, <2>6 DEF InOrder, gs, r
<1> QED
  BY <1>2, <1>3

LEMMA OrderInductive ==
  ASSUME TraceFits, \A a \in Agents : InOrder(a), TraceMove
  PROVE  \A b \in Agents : InOrder(b)'
<1>1. ASSUME NEW a \in Agents, AgentStep(a)
      PROVE  \A b \in Agents : InOrder(b)'
  BY <1>1, AgentQuiet, QuietOrder, PollStepOrder, WriteStepOrder DEF AgentStep
<1>2. ASSUME NEW a \in Agents, NEW c \in Cpus, Call(a, c)
      PROVE  \A b \in Agents : InOrder(b)'
  BY <1>2, CallOrder
<1>3. ASSUME NEW a \in Agents, ArchiveLog(a)
      PROVE  Quiet
  BY <1>3 DEF ArchiveLog, agentVars, traceHist, Quiet
<1>4. ASSUME NEW A \in SUBSET Agents, Term(A)
      PROVE  Quiet
  BY <1>4 DEF Term, logs, traceHist, Quiet
<1>5. ASSUME NEW A \in SUBSET Agents, End(A)
      PROVE  Quiet
  BY <1>5, GoneQuiet DEF End
<1>6. CASE StartStack
  <2>1. Quiet
    BY <1>6 DEF StartStack, logs, traceHist, Quiet
  <2> QED
    BY <2>1, QuietOrder
<1>7. CASE LayOut
  <2>1. Quiet
    BY <1>7 DEF LayOut, agentVars, traceHist, Quiet
  <2> QED
    BY <2>1, QuietOrder
<1>8. CASE UNCHANGED traceVars
  <2>1. Quiet
    BY <1>8 DEF traceVars, agentVars, logs, traceHist, Quiet
  <2> QED
    BY <2>1, QuietOrder
<1> QED
  BY <1>1, <1>2, <1>3, <1>4, <1>5, <1>6, <1>7, <1>8, QuietOrder DEF TraceMove

LEMMA InitOrder == Init => \A a \in Agents : InOrder(a)
<1> SUFFICES ASSUME Init, NEW a \in Agents PROVE InOrder(a)
  OBVIOUS
<1>1. files[a] = <<>> /\ ring[a] = EmptyRing /\ hand[a] = 0 /\ calls = 0
  BY DEF Init, TraceInit
<1>2. Len(<<>>) = 0 /\ \A c \in Cpus : 1..Len(EmptyRing[c]) = {}
  BY EmptyRingType
<1>3. Flat(<<>>) = {}
  BY DEF Flat
<1>4. Recorded(<<>>, cpuOf)
  BY <1>2 DEF Recorded
<1> QED
  BY <1>1, <1>2, <1>3, <1>4
     DEF InOrder, OrderOf, Below, RingOrder, BeforeRing, BeforeHand

(* RecordedInOrder for every number of CPUs and rings of any length: no     *)
(* record is written twice, and those of one CPU are in order, across       *)
(* archives and restarts (handle_event and write_record of the agents).     *)
THEOREM RecordedInOrderCorrect == Spec => []RecordedInOrder
<1>1. TraceFits /\ (\A a \in Agents : InOrder(a)) => RecordedInOrder
  <2> SUFFICES ASSUME TraceFits, \A a \in Agents : InOrder(a), NEW a \in Agents
               PROVE  \A k, m \in DOMAIN files[a] :
                        \A i \in DOMAIN files[a][k], j \in DOMAIN files[a][m] :
                          (k < m \/ (k = m /\ i < j))
                            /\ cpuOf[files[a][k][i]] = cpuOf[files[a][m][j]]
                          => files[a][k][i] < files[a][m][j]
    BY DEF RecordedInOrder
  <2>1. DOMAIN files[a] = 1..Len(files[a])
    BY TypedOrder DEF FileSets
  <2>2. \A k \in 1..Len(files[a]) : DOMAIN files[a][k] = 1..Len(files[a][k])
    <3>1. \A k \in 1..Len(files[a]) : files[a][k] \in Seq(Events)
      BY TypedOrder, ElementOfSeq DEF FileSets
    <3> QED
      BY <3>1
  <2>3. Recorded(files[a], cpuOf)
    BY DEF InOrder, OrderOf
  <2> QED
    BY <2>1, <2>2, <2>3 DEF Recorded
<1>2. Init => TraceFits /\ \A a \in Agents : InOrder(a)
  BY InitOrder, TraceFitsInit DEF Init
<1>3. TraceFits /\ (\A a \in Agents : InOrder(a)) /\ [Next]_vars
        => (TraceFits /\ \A a \in Agents : InOrder(a))'
  <2>1. ASSUME TraceFits, \A a \in Agents : InOrder(a), [Next]_vars
        PROVE  (TraceFits /\ \A a \in Agents : InOrder(a))'
    <3>1. TraceMove
      BY <2>1, Moves
    <3>2. TraceFits' /\ \A b \in Agents : InOrder(b)'
      BY <2>1, <3>1, TraceFitsInductive, OrderInductive
    <3> QED
      BY <3>2
  <2> QED
    BY <2>1
<1> QED
  BY <1>1, <1>2, <1>3, PTL DEF Spec
=============================================================================
