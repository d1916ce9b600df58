--------------------------- MODULE DetectorProofs ---------------------------
(***************************************************************************)
(* For every window length, cooldown, lag and set of PIDs: the alerts of a *)
(* PID are MinGap apart, a protected process is signalled only if it took  *)
(* the PID over after the look that would have spared it, nothing is       *)
(* dropped early, and an mmap and an mprotect of one PID raise an alert    *)
(* until a newer line has followed, but for the cooldown.                  *)
(***************************************************************************)
EXTENDS Detector, FiniteSetTheorems, SequenceTheorems, WellFoundedInduction,
        TLAPS

LEMMA MinOfNaturals ==
  ASSUME NEW S, S \subseteq Nat, S # {}
  PROVE  Min(S) \in S /\ \A y \in S : Min(S) <= y
<1> DEFINE R == {ss \in Nat \X Nat : ss[1] < ss[2]}
<1>1. IsWellFoundedOn(R, Nat)
  BY NatLessThanWellFounded DEF OpToRel
<1> HIDE DEF R
<1>2. PICK x \in S : \A y \in S : ~ (<<y, x>> \in R)
  BY <1>1, WFMin
<1>3. \A y \in S : x <= y
  <2> SUFFICES ASSUME NEW y \in S, y < x
               PROVE  FALSE
    OBVIOUS
  <2>1. x \in Nat /\ y \in Nat
    OBVIOUS
  <2>2. <<y, x>> \in R
    BY <2>1 DEF R
  <2>3. QED
    BY <1>2, <2>2
<1>4. \A a, b \in S : (\A y \in S : a <= y) /\ (\A y \in S : b <= y) => a = b
  OBVIOUS
<1>5. QED
  BY <1>3 DEF Min

(* What popleft leaves of a window to which a line was just appended: its   *)
(* last line, preceded by nothing that was not there.                       *)
LEMMA ExpireKeepsLast ==
  ASSUME NEW w \in Seq(LoggedEvent), NEW e \in LoggedEvent, NEW before \in Int,
         before <= e.ts
  PROVE  LET x == Expire(Append(w, e), before)
         IN  /\ x \in Seq(LoggedEvent)
             /\ x # <<>>
             /\ x[Len(x)] = e
             /\ \A i \in DOMAIN x : \E j \in DOMAIN Append(w, e) :
                  x[i] = Append(w, e)[j]
<1> DEFINE v == Append(w, e)
           fresh == {i \in DOMAIN v : v[i].ts >= before}
           m == Min(fresh)
<1>1. /\ v \in Seq(LoggedEvent) /\ Len(v) = Len(w) + 1 /\ v[Len(v)] = e
      /\ DOMAIN v = 1..Len(v) /\ Len(v) \in Nat
  BY AppendProperties
<1>2. Len(v) \in fresh /\ fresh \subseteq Nat
  BY <1>1 DEF LoggedEvent
<1>3. m \in fresh
  BY <1>2, MinOfNaturals
<1>4. m \in 1..Len(v)
  BY <1>1, <1>3
<1> HIDE DEF v, m
<1>5. \A i \in m..Len(v) : v[i] \in LoggedEvent
  BY <1>1, <1>4
<1> DEFINE x == SubSeq(v, m, Len(v))
<1>6. /\ x \in Seq(LoggedEvent)
      /\ Len(x) = Len(v) - m + 1
      /\ \A i \in 1..(Len(v) - m + 1) : x[i] = v[m + i - 1]
  BY <1>1, <1>4, <1>5, SubSeqProperties
<1>7. Expire(v, before) = x
  BY <1>2 DEF Expire, m
<1> HIDE DEF x
<1>8. x # <<>> /\ x[Len(x)] = e
  BY <1>1, <1>4, <1>6
<1>9. \A i \in DOMAIN x : \E j \in DOMAIN v : x[i] = v[j]
  <2>1. DOMAIN x = 1..(Len(v) - m + 1)
    BY <1>6
  <2>2. \A i \in DOMAIN x : m + i - 1 \in DOMAIN v /\ x[i] = v[m + i - 1]
    BY <1>1, <1>4, <1>6, <2>1
  <2>3. QED
    BY <2>2
<1>10. QED
  BY <1>6, <1>7, <1>8, <1>9 DEF v
-----------------------------------------------------------------------------
(* The part of the type invariant that the alerts depend on. *)
AlertTypeOK ==
  /\ now \in Nat
  /\ log \in [FileNames -> Seq(LoggedEvent)]
  /\ batch \in Seq(LoggedEvent)
  /\ proc \in [Pids -> Process]
  /\ turn \in DOMAIN Files
  /\ window \in [Pids -> Seq(LoggedEvent)]
  /\ lastAlert \in [Pids -> Nat \cup {NoAlert}]
  /\ alertTimes \in [Pids -> Seq(Nat)]

(* Unread lines are neither from the future nor older than Lag. *)
Timely(s) == \A i \in DOMAIN s : s[i].ts <= now /\ now <= s[i].ts + Lag

LinesTimely ==
  /\ \A f \in FileNames : Timely(log[f])
  /\ Timely(batch)

WindowPast ==
  \A p \in Pids : \A i \in DOMAIN window[p] : window[p][i].ts <= now

(* last_alert_at has an entry only for a PID that has a window, whose last  *)
(* event is at most Lag older than the alert.                               *)
AlertBacked ==
  \A p \in Pids : lastAlert[p] # NoAlert =>
    /\ window[p] # <<>>
    /\ lastAlert[p] <= now
    /\ lastAlert[p] <= LastTs(p) + Lag

(* The last alert is remembered, or was forgotten late enough. *)
AlertRemembered ==
  \A p \in Pids : alertTimes[p] # <<>> =>
    LET t == alertTimes[p][Len(alertTimes[p])]
    IN  /\ t <= now
        /\ lastAlert[p] = t \/ now - t >= StaleAfter - Lag

AlertInv ==
  /\ AlertTypeOK
  /\ LinesTimely
  /\ WindowPast
  /\ AlertBacked
  /\ AlertRemembered
  /\ AlertSpacing

LEMMA ConstantTypes ==
  /\ WindowLen \in Nat /\ Cooldown \in Nat /\ Lag \in Nat
  /\ StartTime \in Nat /\ StaleFloor \in Nat
  /\ StaleAfter \in Nat
  /\ MinGap \in Int
  /\ MinGap <= Cooldown /\ MinGap <= StaleAfter - Lag
<1>1. {WindowLen, Cooldown, Lag, StaleFloor, StartTime} \subseteq Nat
  BY DetectorAssumption
<1>2. /\ WindowLen \in Nat /\ Cooldown \in Nat /\ Lag \in Nat
      /\ StartTime \in Nat /\ StaleFloor \in Nat
  BY <1>1
<1>3. StaleAfter \in Nat
  BY <1>2 DEF StaleAfter
<1>4. QED
  BY <1>2, <1>3 DEF MinGap

LEMMA AlertInvInit == Init => AlertInv
<1> SUFFICES ASSUME Init
             PROVE  AlertInv
  OBVIOUS
<1>1. AlertTypeOK
  <2>1. now \in Nat
    BY ConstantTypes DEF Init
  <2>2. log \in [FileNames -> Seq(LoggedEvent)]
    BY HistoryAssumption DEF Init
  <2>3. proc \in [Pids -> Process]
    <3>1. \A c \in Classes : [inst |-> 1, class |-> c, alive |-> TRUE] \in Process
      BY DEF Process
    <3>2. {[inst |-> 1, class |-> c, alive |-> TRUE] : c \in Classes} \subseteq Process
      BY <3>1
    <3>3. QED
      BY <3>2 DEF Init
  <2>4. turn \in DOMAIN Files
    BY DetectorAssumption DEF Init
  <2>5. QED
    BY <2>1, <2>2, <2>3, <2>4 DEF Init, AlertTypeOK, NoAlert
<1>2. LinesTimely
  BY HistoryAssumption DEF Init, LinesTimely, Timely
<1>3. QED
  BY <1>1, <1>2 DEF Init, AlertInv, WindowPast, AlertBacked, AlertRemembered,
     AlertSpacing

LEMMA TickInv == AlertInv /\ Tick => AlertInv'
<1> SUFFICES ASSUME AlertInv, Tick
             PROVE  AlertInv'
  OBVIOUS
<1> USE DEF AlertInv
<1>1. /\ now \in Nat /\ now' = now + 1
      /\ UNCHANGED <<log, batch, proc, turn, window, lastAlert, alertTimes>>
  BY DEF Tick, loopVars, histVars, AlertTypeOK
<1>2. AlertTypeOK'
  BY <1>1 DEF AlertTypeOK
<1>3. \A s \in Seq(LoggedEvent) : \A i \in DOMAIN s : s[i].ts \in Nat
  <2> SUFFICES ASSUME NEW s \in Seq(LoggedEvent), NEW i \in DOMAIN s
               PROVE  s[i].ts \in Nat
    OBVIOUS
  <2>1. s[i] \in LoggedEvent
    OBVIOUS
  <2>2. QED
    BY <2>1 DEF LoggedEvent
<1>4. LinesTimely'
  <2>1. Timely(batch)'
    BY <1>1, <1>3, ConstantTypes DEF Tick, LinesTimely, Timely, AlertTypeOK
  <2>2. ASSUME NEW f \in FileNames PROVE Timely(log[f])'
    BY <1>1, <1>3, ConstantTypes DEF Tick, LinesTimely, Timely, AlertTypeOK
  <2>3. QED
    BY <2>1, <2>2 DEF LinesTimely
<1>5. WindowPast'
  BY <1>1, <1>3 DEF WindowPast, AlertTypeOK
<1>6. AlertBacked'
  BY <1>1 DEF AlertBacked, LastTs, AlertTypeOK, NoAlert
<1>7. AlertRemembered'
  <2> SUFFICES ASSUME NEW p \in Pids, alertTimes[p] # <<>>
               PROVE  LET t == alertTimes[p][Len(alertTimes[p])]
                      IN  /\ t <= now'
                          /\ lastAlert[p] = t \/ now' - t >= StaleAfter - Lag
    BY <1>1 DEF AlertRemembered
  <2>1. alertTimes[p][Len(alertTimes[p])] \in Nat
    BY DEF AlertTypeOK
  <2>2. QED
    BY <1>1, <2>1, ConstantTypes DEF AlertRemembered
<1>8. QED
  BY <1>1, <1>2, <1>4, <1>5, <1>6, <1>7 DEF AlertSpacing

LEMMA EmitInv ==
  ASSUME AlertInv, NEW p \in Pids, NEW k \in EmitKeys, Emit(p, k)
  PROVE  AlertInv'
<1> USE DEF AlertInv
<1> DEFINE e == DetectorEvent(p, k)
           f == FileOf(k)
<1>1. /\ log' = [log EXCEPT ![f] = Append(@, e)]
      /\ UNCHANGED <<now, batch, proc, turn, window, lastAlert, alertTimes>>
  BY DEF Emit, loopVars, histVars
<1>2. e \in LoggedEvent /\ e.ts = now
  BY DetectorAssumption DEF DetectorEvent, LoggedEvent, AlertTypeOK, Process
<1>3. f \in FileNames
  BY FilesAssumption
<1> HIDE DEF e, f
<1>4. /\ log'[f] = Append(log[f], e)
      /\ \A g \in FileNames \ {f} : log'[g] = log[g]
      /\ DOMAIN log' = FileNames
  BY <1>1, <1>3 DEF AlertTypeOK
<1>5. /\ log'[f] \in Seq(LoggedEvent)
      /\ DOMAIN log'[f] = 1..(Len(log[f]) + 1)
      /\ \A i \in 1..Len(log[f]) : log'[f][i] = log[f][i]
      /\ log'[f][Len(log[f]) + 1] = e
  BY <1>2, <1>3, <1>4, AppendProperties DEF AlertTypeOK
<1>6. AlertTypeOK'
  BY <1>1, <1>4, <1>5 DEF AlertTypeOK
<1>7. LinesTimely'
  <2>1. now \in Nat /\ Len(log[f]) \in Nat /\ DOMAIN log[f] = 1..Len(log[f])
    BY <1>3 DEF AlertTypeOK
  <2>2. Timely(log[f])'
    BY <1>1, <1>2, <1>3, <1>5, <2>1, ConstantTypes DEF LinesTimely, Timely
  <2>3. \A g \in FileNames \ {f} : Timely(log[g])'
    BY <1>1, <1>4 DEF LinesTimely, Timely
  <2>4. QED
    BY <1>1, <2>2, <2>3 DEF LinesTimely, Timely
<1>8. QED
  BY <1>1, <1>6, <1>7 DEF WindowPast, AlertBacked, LastTs, AlertRemembered,
     AlertSpacing

LEMMA ProcessInv ==
  ASSUME AlertInv, NEW p \in Pids,
         Exit(p) \/ \E c \in Classes : Reuse(p, c)
  PROVE  AlertInv'
<1>1. proc' \in [Pids -> Process]
  <2>1. proc[p] \in Process
    BY DEF AlertInv, AlertTypeOK
  <2>2. CASE Exit(p)
    <3>1. [proc[p] EXCEPT !.alive = FALSE] \in Process
      BY <2>1 DEF Process
    <3>2. proc' = [proc EXCEPT ![p] = [proc[p] EXCEPT !.alive = FALSE]]
      BY <2>2 DEF Exit
    <3>3. QED
      BY <3>1, <3>2 DEF AlertInv, AlertTypeOK
  <2>3. CASE \E c \in Classes : Reuse(p, c)
    <3>1. PICK c \in Classes : Reuse(p, c)
      BY <2>3
    <3>2. [inst |-> proc[p].inst + 1, class |-> c, alive |-> TRUE] \in Process
      BY <2>1 DEF Process
    <3>3. QED
      BY <3>1, <3>2 DEF Reuse, AlertInv, AlertTypeOK
  <2>4. QED
    BY <2>2, <2>3
<1>2. UNCHANGED <<now, log, batch, turn, window, lastAlert, alertTimes>>
  BY DEF Exit, Reuse, loopVars, histVars
<1>3. QED
  BY <1>1, <1>2 DEF AlertInv, AlertTypeOK, LinesTimely, Timely, WindowPast,
     AlertBacked, LastTs, AlertRemembered, AlertSpacing

LEMMA PollFileInv == AlertInv /\ PollFile => AlertInv'
<1> SUFFICES ASSUME AlertInv, PollFile
             PROVE  AlertInv'
  OBVIOUS
<1> DEFINE f == Files[turn]
<1>1. /\ batch' = log[f]
      /\ log' = [log EXCEPT ![f] = <<>>]
      /\ UNCHANGED <<now, proc, turn, window, lastAlert, alertTimes>>
  BY DEF PollFile, histVars
<1>2. f \in FileNames
  BY DEF AlertInv, AlertTypeOK, FileNames, ToSet
<1> HIDE DEF f
<1>3. AlertTypeOK' /\ LinesTimely'
  BY <1>1, <1>2 DEF AlertInv, AlertTypeOK, LinesTimely, Timely
<1>4. QED
  BY <1>1, <1>3 DEF AlertInv, WindowPast, AlertBacked, LastTs,
     AlertRemembered, AlertSpacing

LEMMA QuietInv ==
  AlertInv /\ ((\E l \in Looks : Look(l)) \/ Kill \/ NextFile) => AlertInv'
<1> SUFFICES ASSUME AlertInv, (\E l \in Looks : Look(l)) \/ Kill \/ NextFile
             PROVE  AlertInv'
  OBVIOUS
<1>1. UNCHANGED <<now, log, batch, proc, window, lastAlert, alertTimes>>
  BY DEF Look, Kill, NextFile, histVars
<1>2. turn' \in DOMAIN Files
  <2>1. CASE (\E l \in Looks : Look(l)) \/ Kill
    BY <2>1 DEF Look, Kill, AlertInv, AlertTypeOK
  <2>2. CASE NextFile
    BY <2>2, DetectorAssumption DEF NextFile, AlertInv, AlertTypeOK
  <2>3. QED
    BY <2>1, <2>2
<1>3. QED
  BY <1>1, <1>2 DEF AlertInv, AlertTypeOK, LinesTimely, Timely, WindowPast,
     AlertBacked, LastTs, AlertRemembered, AlertSpacing

(* Cleanup forgets an alert only when the last event of the PID, and with   *)
(* it the alert, is old enough.                                             *)
LEMMA EndRoundInv == AlertInv /\ EndRound => AlertInv'
<1> SUFFICES ASSUME AlertInv, EndRound
             PROVE  AlertInv'
  OBVIOUS
<1>1. UNCHANGED <<now, log, batch, proc, alertTimes>> /\ turn' \in DOMAIN Files
  BY DetectorAssumption DEF EndRound, histVars
<1>2. CASE ~CleanupDue
  BY <1>1, <1>2 DEF EndRound, AlertInv, AlertTypeOK, LinesTimely, Timely,
     WindowPast, AlertBacked, LastTs, AlertRemembered, AlertSpacing
<1>3. CASE CleanupDue
  <2>1. /\ window' = [p \in Pids |-> IF Stale(p) THEN <<>> ELSE window[p]]
        /\ lastAlert' = [p \in Pids |-> IF Stale(p) THEN NoAlert ELSE lastAlert[p]]
    BY <1>3 DEF EndRound
  <2>2. AlertTypeOK' /\ LinesTimely' /\ WindowPast' /\ AlertSpacing'
    BY <1>1, <2>1 DEF AlertInv, AlertTypeOK, LinesTimely, Timely, WindowPast,
       AlertSpacing
  <2>3. AlertBacked'
    BY <1>1, <2>1 DEF AlertInv, AlertBacked, LastTs
  <2>4. ASSUME NEW p \in Pids, Stale(p)
        PROVE  LastTs(p) < now - StaleAfter /\ LastTs(p) \in Nat
    <3>1. PICK q \in Pids : /\ window[p] # <<>> /\ window[q] # <<>>
                            /\ LastTs(p) < LastTs(q) - StaleAfter
      BY <2>4 DEF Stale
    <3>2. \A r \in {p, q} : /\ Len(window[r]) \in DOMAIN window[r]
                             /\ window[r][Len(window[r])] \in LoggedEvent
      BY <3>1 DEF AlertInv, AlertTypeOK
    <3>3. LastTs(p) \in Nat /\ LastTs(q) \in Nat /\ LastTs(q) <= now
      BY <3>2 DEF LastTs, LoggedEvent, AlertInv, WindowPast
    <3>4. QED
      BY <3>1, <3>3, ConstantTypes DEF AlertInv, AlertTypeOK
  <2>5. AlertRemembered'
    <3> SUFFICES ASSUME NEW p \in Pids, alertTimes[p] # <<>>
                 PROVE  LET t == alertTimes[p][Len(alertTimes[p])]
                        IN  /\ t <= now
                            /\ lastAlert'[p] = t \/ now - t >= StaleAfter - Lag
      BY <1>1 DEF AlertRemembered
    <3> DEFINE t == alertTimes[p][Len(alertTimes[p])]
    <3>1. t \in Nat /\ t <= now /\ (lastAlert[p] = t \/ now - t >= StaleAfter - Lag)
      BY DEF AlertInv, AlertRemembered, AlertTypeOK
    <3>2. CASE lastAlert[p] = t /\ Stale(p)
      <4>1. t <= LastTs(p) + Lag
        BY <3>1, <3>2 DEF AlertInv, AlertBacked, NoAlert
      <4>2. QED
        BY <2>4, <3>1, <3>2, <4>1, ConstantTypes DEF AlertInv, AlertTypeOK
    <3>3. CASE lastAlert[p] = t /\ ~Stale(p)
      BY <2>1, <3>1, <3>3
    <3>4. QED
      BY <3>1, <3>2, <3>3
  <2>6. QED
    BY <2>2, <2>3, <2>5 DEF AlertInv
<1>4. QED
  BY <1>2, <1>3

(* One line: the new window ends in the new event, and an alert is raised   *)
(* only outside the cooldown of the last one that is remembered.            *)
LEMMA HandleLineInv == AlertInv /\ HandleLine => AlertInv'
<1> SUFFICES ASSUME AlertInv, HandleLine
             PROVE  AlertInv'
  OBVIOUS
<1> DEFINE e == Head(batch)
           p == e.pid
           w == Expire(Append(window[p], e), e.ts - WindowLen)
           alert == Score(w) >= AlertScore /\ ~InCooldown(p)
<1>1. batch # <<>> /\ batch \in Seq(LoggedEvent) /\ now \in Nat
  BY DEF HandleLine, AlertInv, AlertTypeOK
<1>2. /\ e \in LoggedEvent /\ p \in Pids
      /\ e.ts \in Nat /\ e.ts <= now /\ now <= e.ts + Lag
  <2>1. 1 \in DOMAIN batch /\ e = batch[1] /\ batch[1] \in LoggedEvent
    BY <1>1
  <2>2. QED
    BY <2>1 DEF LoggedEvent, AlertInv, LinesTimely, Timely
<1>3. /\ window' = [window EXCEPT ![p] = w]
      /\ lastAlert' = IF alert THEN [lastAlert EXCEPT ![p] = now] ELSE lastAlert
      /\ alertTimes' = IF alert THEN [alertTimes EXCEPT ![p] = Append(@, now)]
                                ELSE alertTimes
      /\ batch' = Tail(batch)
      /\ UNCHANGED <<now, log, proc, turn>>
  BY DEF HandleLine
<1>4. window[p] \in Seq(LoggedEvent)
  BY <1>2 DEF AlertInv, AlertTypeOK
<1>5. /\ w \in Seq(LoggedEvent) /\ w # <<>> /\ w[Len(w)] = e
      /\ \A i \in DOMAIN w : \E j \in DOMAIN Append(window[p], e) :
           w[i] = Append(window[p], e)[j]
  <2>1. e.ts - WindowLen \in Int /\ e.ts - WindowLen <= e.ts
    BY <1>2, ConstantTypes
  <2> HIDE DEF e, p
  <2>2. QED
    BY <1>2, <1>4, <2>1, ExpireKeepsLast
<1> HIDE DEF w, alert, e, p
<1>6. /\ batch' \in Seq(LoggedEvent)
      /\ Len(batch') = Len(batch) - 1
      /\ \A i \in 1..Len(batch') : batch'[i] = batch[i + 1]
  BY <1>1, <1>3, HeadTailProperties
<1>7. AlertTypeOK'
  <2>1. window' \in [Pids -> Seq(LoggedEvent)]
    BY <1>2, <1>3, <1>5 DEF AlertInv, AlertTypeOK
  <2>2. lastAlert' \in [Pids -> Nat \cup {NoAlert}]
    BY <1>1, <1>2, <1>3 DEF AlertInv, AlertTypeOK
  <2>3. alertTimes' \in [Pids -> Seq(Nat)]
    BY <1>1, <1>2, <1>3 DEF AlertInv, AlertTypeOK
  <2>4. QED
    BY <1>1, <1>3, <1>6, <2>1, <2>2, <2>3 DEF AlertInv, AlertTypeOK
<1>8. LinesTimely'
  <2>1. Timely(batch)'
    <3> SUFFICES ASSUME NEW i \in DOMAIN batch'
                 PROVE  batch'[i].ts <= now /\ now <= batch'[i].ts + Lag
      BY <1>3 DEF Timely
    <3>1. i \in 1..Len(batch') /\ i + 1 \in DOMAIN batch /\ batch'[i] = batch[i + 1]
      BY <1>1, <1>6
    <3>2. QED
      BY <3>1 DEF AlertInv, LinesTimely, Timely
  <2>2. \A f \in FileNames : Timely(log[f])'
    BY <1>3 DEF AlertInv, LinesTimely, Timely
  <2>3. QED
    BY <2>1, <2>2 DEF LinesTimely
<1>9. \A q \in Pids : window'[q] = IF q = p THEN w ELSE window[q]
  BY <1>2, <1>3 DEF AlertInv, AlertTypeOK
<1>10. WindowPast'
  <2>1. ASSUME NEW i \in DOMAIN w
        PROVE  w[i].ts <= now
    <3>1. PICK j \in DOMAIN Append(window[p], e) : w[i] = Append(window[p], e)[j]
      BY <1>5
    <3>2. /\ DOMAIN window[p] = 1..Len(window[p]) /\ Len(window[p]) \in Nat
          /\ DOMAIN Append(window[p], e) = 1..(Len(window[p]) + 1)
      BY <1>2, <1>4, AppendProperties
    <3>3. CASE j = Len(window[p]) + 1
      BY <1>2, <1>4, <3>1, <3>3, AppendProperties
    <3>4. CASE j \in 1..Len(window[p])
      BY <1>2, <1>4, <3>1, <3>2, <3>4, AppendProperties DEF AlertInv, WindowPast
    <3>5. QED
      BY <3>1, <3>2, <3>3, <3>4
  <2>2. QED
    BY <1>3, <1>9, <2>1 DEF AlertInv, WindowPast
<1>11. \A q \in Pids : lastAlert'[q] = IF alert /\ q = p THEN now ELSE lastAlert[q]
  BY <1>2, <1>3 DEF AlertInv, AlertTypeOK
<1>12. AlertBacked'
  <2> SUFFICES ASSUME NEW q \in Pids, lastAlert'[q] # NoAlert
               PROVE  /\ window'[q] # <<>>
                      /\ lastAlert'[q] <= now
                      /\ lastAlert'[q] <= window'[q][Len(window'[q])].ts + Lag
    BY <1>3 DEF AlertBacked, LastTs
  <2>1. CASE q = p /\ alert
    BY <1>1, <1>2, <1>5, <1>9, <1>11, <2>1
  <2>2. CASE q = p /\ ~alert
    <3>1. lastAlert[q] \in Nat /\ lastAlert[q] <= now /\ lastAlert'[q] = lastAlert[q]
      BY <1>11, <2>2 DEF AlertInv, AlertBacked, AlertTypeOK
    <3>2. QED
      BY <1>1, <1>2, <1>5, <1>9, <2>2, <3>1, ConstantTypes
  <2>3. CASE q # p
    BY <1>9, <1>11, <2>3 DEF AlertInv, AlertBacked, LastTs
  <2>4. QED
    BY <2>1, <2>2, <2>3
<1>13. ASSUME NEW q \in Pids, ~(alert /\ q = p)
       PROVE  alertTimes'[q] = alertTimes[q]
  BY <1>2, <1>3, <1>13 DEF AlertInv, AlertTypeOK
<1>14. alertTimes[p] \in Seq(Nat)
  BY <1>2 DEF AlertInv, AlertTypeOK
<1>15. ASSUME alert
       PROVE  /\ alertTimes'[p] = Append(alertTimes[p], now)
              /\ Len(alertTimes'[p]) = Len(alertTimes[p]) + 1
              /\ \A i \in 1..Len(alertTimes[p]) : alertTimes'[p][i] = alertTimes[p][i]
              /\ alertTimes'[p][Len(alertTimes[p]) + 1] = now
  <2>1. alertTimes'[p] = Append(alertTimes[p], now)
    BY <1>2, <1>3, <1>15 DEF AlertInv, AlertTypeOK
  <2>2. QED
    BY <1>1, <1>14, <2>1, AppendProperties
<1>16. AlertRemembered'
  <2> SUFFICES ASSUME NEW q \in Pids, alertTimes'[q] # <<>>
               PROVE  LET t == alertTimes'[q][Len(alertTimes'[q])]
                      IN  /\ t <= now
                          /\ lastAlert'[q] = t \/ now - t >= StaleAfter - Lag
    BY <1>3 DEF AlertRemembered
  <2>1. CASE alert /\ q = p
    BY <1>1, <1>11, <1>15, <2>1
  <2>2. CASE ~(alert /\ q = p)
    BY <1>11, <1>13, <2>2 DEF AlertInv, AlertRemembered
  <2>3. QED
    BY <2>1, <2>2
<1>17. ASSUME alert, alertTimes[p] # <<>>
       PROVE  now - alertTimes[p][Len(alertTimes[p])] >= MinGap
  <2> DEFINE t == alertTimes[p][Len(alertTimes[p])]
  <2>1. t \in Nat
    BY <1>14, <1>17
  <2>2. lastAlert[p] = t \/ now - t >= StaleAfter - Lag
    BY <1>2, <1>17 DEF AlertInv, AlertRemembered
  <2>3. CASE lastAlert[p] = t
    BY <1>1, <1>17, <2>1, <2>3, ConstantTypes DEF alert, InCooldown, NoAlert
  <2>4. CASE now - t >= StaleAfter - Lag
    BY <1>1, <2>1, <2>4, ConstantTypes
  <2>5. QED
    BY <2>2, <2>3, <2>4
<1>18. AlertSpacing'
  <2> SUFFICES ASSUME NEW q \in Pids, NEW i \in DOMAIN alertTimes'[q], i > 1
               PROVE  alertTimes'[q][i] - alertTimes'[q][i - 1] >= MinGap
    BY DEF AlertSpacing
  <2>1. CASE ~(alert /\ q = p)
    BY <1>13, <2>1 DEF AlertInv, AlertSpacing
  <2>2. CASE alert /\ q = p
    <3>1. /\ DOMAIN alertTimes[p] = 1..Len(alertTimes[p]) /\ Len(alertTimes[p]) \in Nat
          /\ i \in 1..(Len(alertTimes[p]) + 1)
      BY <1>7, <1>14, <1>15, <2>2 DEF AlertTypeOK
    <3>2. CASE i = Len(alertTimes[p]) + 1
      BY <1>14, <1>15, <1>17, <2>2, <3>1, <3>2
    <3>3. CASE i \in 1..Len(alertTimes[p])
      BY <1>2, <1>15, <2>2, <3>1, <3>3 DEF AlertInv, AlertSpacing
    <3>4. QED
      BY <3>1, <3>2, <3>3
  <2>3. QED
    BY <2>1, <2>2
<1>19. QED
  BY <1>7, <1>8, <1>10, <1>12, <1>16, <1>18 DEF AlertInv

LEMMA AlertInvInductive == AlertInv /\ [Next]_vars => AlertInv'
<1> SUFFICES ASSUME AlertInv, [Next]_vars
             PROVE  AlertInv'
  OBVIOUS
<1>1. CASE Tick
  BY <1>1, TickInv
<1>2. CASE \E p \in Pids, k \in EmitKeys : Emit(p, k)
  BY <1>2, EmitInv
<1>3. CASE \E p \in Pids : Exit(p)
  BY <1>3, ProcessInv
<1>4. CASE \E p \in Pids, c \in Classes : Reuse(p, c)
  BY <1>4, ProcessInv
<1>5. CASE PollFile
  BY <1>5, PollFileInv
<1>6. CASE HandleLine
  BY <1>6, HandleLineInv
<1>7. CASE (\E l \in Looks : Look(l)) \/ Kill \/ NextFile
  BY <1>7, QuietInv
<1>8. CASE EndRound
  BY <1>8, EndRoundInv
<1>9. CASE UNCHANGED vars
  BY <1>9 DEF vars, loopVars, histVars, AlertInv, AlertTypeOK, LinesTimely,
     Timely, WindowPast, AlertBacked, LastTs, AlertRemembered, AlertSpacing
<1>10. QED
  BY <1>1, <1>2, <1>3, <1>4, <1>5, <1>6, <1>7, <1>8, <1>9
     DEF Next, World, Loop

(* Alerts of one PID are at least MinGap apart: the cooldown, unless the    *)
(* cleanup may forget an alert sooner (README.md:31, cleanup_stale_state).  *)
THEOREM AlertSpacingCorrect == Spec => []AlertSpacing
<1>1. Init => AlertInv
  BY AlertInvInit
<1>2. AlertInv /\ [Next]_vars => AlertInv'
  BY AlertInvInductive
<1>3. AlertInv => AlertSpacing
  BY DEF AlertInv
<1>4. QED
  BY <1>1, <1>2, <1>3, PTL DEF Spec
-----------------------------------------------------------------------------
(* An event of the owner that its PID has now carries the comm of that      *)
(* owner; every other one is of an earlier owner.                           *)
Honest(e) ==
  /\ e.inst <= proc[e.pid].inst
  /\ e.inst = proc[e.pid].inst => (e.shielded <=> proc[e.pid].class = "comm")

HonestInv ==
  /\ \A f \in FileNames : \A i \in DOMAIN log[f] : Honest(log[f][i])
  /\ \A i \in DOMAIN batch : Honest(batch[i])
  /\ \A p \in Pids : \A i \in DOMAIN window[p] :
       window[p][i].pid = p /\ Honest(window[p][i])

LEMMA HonestInit == Init => HonestInv
<1> SUFFICES ASSUME Init
             PROVE  HonestInv
  OBVIOUS
<1>1. ASSUME NEW i \in DOMAIN History
      PROVE  Honest(History[i])
  <2>1. History[i] \in LoggedEvent
    BY <1>1, HistoryAssumption
  <2>2. History[i].pid \in Pids
    BY <2>1 DEF LoggedEvent
  <2>3. proc[History[i].pid].inst = 1
    BY <2>2 DEF Init
  <2>4. History[i].inst \in {0, 1}
    BY <1>1, HistoryAssumption
  <2>5. QED
    BY <1>1, <2>3, <2>4 DEF Init, Honest
<1>2. QED
  BY <1>1 DEF Init, HonestInv

(* A change of owner leaves honest what was honest. *)
LEMMA HonestStays ==
  ASSUME AlertTypeOK, HonestInv, UNCHANGED <<log, batch, window>>,
         \A q \in Pids :
           /\ proc'[q].inst \in Nat /\ proc'[q].inst >= proc[q].inst
           /\ proc'[q].inst = proc[q].inst => proc'[q].class = proc[q].class
  PROVE  HonestInv'
<1>1. \A q \in Pids : proc[q].inst \in Nat
  BY DEF AlertTypeOK, Process
<1>2. ASSUME NEW e \in LoggedEvent, Honest(e)
      PROVE  /\ e.inst <= proc'[e.pid].inst
             /\ e.inst = proc'[e.pid].inst =>
                  (e.shielded <=> proc'[e.pid].class = "comm")
  <2>1. e.pid \in Pids /\ e.inst \in Nat
    BY DEF LoggedEvent
  <2>2. e.inst <= proc[e.pid].inst
    BY <1>2 DEF Honest
  <2>3. e.inst <= proc'[e.pid].inst
    BY <1>1, <2>1, <2>2
  <2>4. ASSUME e.inst = proc'[e.pid].inst
        PROVE  e.shielded <=> proc'[e.pid].class = "comm"
    <3>1. proc'[e.pid].inst = proc[e.pid].inst
      BY <1>1, <2>1, <2>2, <2>4
    <3>2. proc'[e.pid].class = proc[e.pid].class
      BY <2>1, <3>1
    <3>3. QED
      BY <1>2, <2>4, <3>1, <3>2 DEF Honest
  <2>5. QED
    BY <2>3, <2>4
<1>3. ASSUME NEW f \in FileNames, NEW i \in DOMAIN log[f]
      PROVE  Honest(log[f][i])'
  <2>1. log[f][i] \in LoggedEvent /\ Honest(log[f][i])
    BY DEF AlertTypeOK, HonestInv
  <2>2. QED
    BY <1>2, <2>1 DEF Honest
<1>4. ASSUME NEW i \in DOMAIN batch
      PROVE  Honest(batch[i])'
  <2>1. batch[i] \in LoggedEvent /\ Honest(batch[i])
    BY DEF AlertTypeOK, HonestInv
  <2>2. QED
    BY <1>2, <2>1 DEF Honest
<1>5. ASSUME NEW p \in Pids, NEW i \in DOMAIN window[p]
      PROVE  window[p][i].pid = p /\ Honest(window[p][i])'
  <2>1. /\ window[p][i] \in LoggedEvent /\ window[p][i].pid = p
        /\ Honest(window[p][i])
    BY DEF AlertTypeOK, HonestInv
  <2>2. QED
    BY <1>2, <2>1 DEF Honest
<1>6. QED
  BY <1>3, <1>4, <1>5 DEF HonestInv

LEMMA EmitHonest ==
  ASSUME AlertInv, HonestInv, NEW p \in Pids, NEW k \in EmitKeys, Emit(p, k)
  PROVE  HonestInv'
<1> DEFINE e == DetectorEvent(p, k)
           f == FileOf(k)
<1>1. /\ log' = [log EXCEPT ![f] = Append(@, e)]
      /\ UNCHANGED <<batch, window, proc>>
  BY DEF Emit, loopVars, histVars
<1>2. /\ e.pid = p /\ e.inst = proc[p].inst
      /\ e.shielded = (proc[p].class = "comm")
  BY DEF DetectorEvent
<1>3. f \in FileNames
  BY FilesAssumption
<1>4. proc[p].inst \in Nat
  BY DEF AlertInv, AlertTypeOK, Process
<1> HIDE DEF e, f
<1>5. Honest(e)
  <2>1. e.inst <= proc[e.pid].inst
    BY <1>2, <1>4
  <2>2. e.shielded <=> proc[e.pid].class = "comm"
    BY <1>2, Zenon
  <2>3. QED
    BY <2>1, <2>2 DEF Honest
<1>6. log \in [FileNames -> Seq(LoggedEvent)]
  BY DEF AlertInv, AlertTypeOK
<1>7. ASSUME NEW g \in FileNames, NEW i \in DOMAIN log'[g]
      PROVE  Honest(log'[g][i])
  <2>1. CASE g = f
    <3>1. log'[g] = Append(log[f], e) /\ log[f] \in Seq(LoggedEvent)
      BY <1>1, <1>3, <1>6, <2>1
    <3>2. \/ i = Len(log[f]) + 1 /\ log'[g][i] = e
          \/ i \in DOMAIN log[f] /\ log'[g][i] = log[f][i]
      BY <1>7, <3>1
    <3>3. QED
      BY <1>3, <1>5, <3>2 DEF HonestInv
  <2>2. CASE g # f
    BY <1>1, <1>6, <1>7, <2>2 DEF HonestInv
  <2>3. QED
    BY <2>1, <2>2
<1>8. \A x : Honest(x)' <=> Honest(x')
  BY <1>1 DEF Honest
<1>9. QED
  BY <1>1, <1>7 DEF HonestInv, Honest

LEMMA HandleLineHonest ==
  ASSUME AlertInv, HonestInv, HandleLine
  PROVE  HonestInv'
<1> DEFINE e == Head(batch)
           p == e.pid
           v == Append(window[p], e)
           before == e.ts - WindowLen
           w == Expire(v, before)
<1>1. batch # <<>> /\ batch \in Seq(LoggedEvent)
  BY DEF HandleLine, AlertInv, AlertTypeOK
<1>2. e = batch[1] /\ 1 \in DOMAIN batch /\ e \in LoggedEvent
  BY <1>1
<1>3. p \in Pids /\ e.pid = p /\ Honest(e) /\ e.ts \in Nat
  BY <1>2 DEF LoggedEvent, HonestInv
<1>4. window \in [Pids -> Seq(LoggedEvent)] /\ window[p] \in Seq(LoggedEvent)
  BY <1>3 DEF AlertInv, AlertTypeOK
<1>5. /\ window' = [window EXCEPT ![p] = w] /\ batch' = Tail(batch)
      /\ UNCHANGED <<log, proc>>
  BY DEF HandleLine
<1>6. ASSUME NEW i \in DOMAIN v
      PROVE  v[i].pid = p /\ Honest(v[i])
  <2>1. \/ i \in DOMAIN window[p] /\ v[i] = window[p][i]
        \/ v[i] = e
    BY <1>2, <1>4, <1>6
  <2> HIDE DEF v, e, p
  <2>2. CASE i \in DOMAIN window[p] /\ v[i] = window[p][i]
    BY <1>3, <2>2 DEF HonestInv
  <2>3. CASE v[i] = e
    <3>1. v[i].pid = p
      BY <1>3, <2>3
    <3>2. Honest(v[i])
      BY <1>3, <2>3, Zenon
    <3>3. QED
      BY <3>1, <3>2
  <2>4. QED
    BY <2>1, <2>2, <2>3, Zenon
<1>7. e \in LoggedEvent /\ before \in Int /\ before <= e.ts
  BY <1>2, <1>3, ConstantTypes
<1> HIDE DEF e, before
<1>8. /\ w # <<>> /\ w[Len(w)] = e
      /\ \A i \in DOMAIN w : \E j \in DOMAIN v : w[i] = v[j]
  BY <1>4, <1>7, ExpireKeepsLast
<1> HIDE DEF w, v, p
<1>9. \A i \in DOMAIN w : w[i].pid = p /\ Honest(w[i])
  BY <1>6, <1>8
<1>10. ASSUME NEW i \in DOMAIN batch'
       PROVE  Honest(batch'[i])
  <2>1. i + 1 \in DOMAIN batch /\ batch'[i] = batch[i + 1]
    BY <1>1, <1>5, <1>10
  <2>2. QED
    BY <2>1 DEF HonestInv
<1>11. ASSUME NEW q \in Pids, NEW i \in DOMAIN window'[q]
       PROVE  window'[q][i].pid = q /\ Honest(window'[q][i])
  <2>1. CASE q = p
    BY <1>3, <1>4, <1>5, <1>9, <1>11, <2>1
  <2>2. CASE q # p
    <3>1. window'[q] = window[q]
      BY <1>3, <1>4, <1>5, <2>2
    <3>2. QED
      BY <1>11, <3>1 DEF HonestInv
  <2>3. QED
    BY <2>1, <2>2
<1>12. QED
  BY <1>5, <1>10, <1>11 DEF HonestInv, Honest

LEMMA HonestInductive ==
  AlertInv /\ HonestInv /\ [Next]_vars => HonestInv'
<1> SUFFICES ASSUME AlertInv, HonestInv, [Next]_vars
             PROVE  HonestInv'
  OBVIOUS
<1>1. CASE Tick \/ (\E l \in Looks : Look(l)) \/ Kill \/ NextFile \/ UNCHANGED vars
  <2>1. UNCHANGED <<log, batch, window, proc>>
    BY <1>1 DEF Tick, Look, Kill, NextFile, vars, loopVars, histVars
  <2>2. QED
    BY <2>1 DEF HonestInv, Honest
<1>2. ASSUME NEW p \in Pids, Exit(p) \/ \E c \in Classes : Reuse(p, c)
      PROVE  HonestInv'
  <2>1. proc \in [Pids -> Process] /\ AlertTypeOK
    BY DEF AlertInv, AlertTypeOK
  <2>2. UNCHANGED <<log, batch, window>>
    BY <1>2 DEF Exit, Reuse, loopVars
  <2>3. ASSUME NEW q \in Pids
        PROVE  /\ proc'[q].inst \in Nat /\ proc'[q].inst >= proc[q].inst
               /\ proc'[q].inst = proc[q].inst => proc'[q].class = proc[q].class
    <3>1. proc[q].inst \in Nat
      BY <2>1 DEF Process
    <3>2. CASE q # p
      <4>1. proc'[q] = proc[q]
        BY <1>2, <2>1, <3>2 DEF Exit, Reuse
      <4>2. QED
        BY <3>1, <4>1
    <3>3. CASE q = p /\ Exit(p)
      <4>1. proc' = [proc EXCEPT ![p] = [proc[p] EXCEPT !.alive = FALSE]]
        BY <3>3 DEF Exit
      <4>2. proc[p] \in Process
        BY <2>1
      <4>3. proc'[p].inst = proc[p].inst /\ proc'[p].class = proc[p].class
        BY <2>1, <4>1, <4>2 DEF Process
      <4>4. QED
        BY <3>1, <3>3, <4>3
    <3>4. ASSUME q = p, NEW c \in Classes, Reuse(p, c)
          PROVE  proc'[q].inst = proc[q].inst + 1
      BY <2>1, <3>4 DEF Reuse
    <3>5. QED
      BY <1>2, <3>1, <3>2, <3>3, <3>4
  <2>4. QED
    BY <2>1, <2>2, <2>3, HonestStays
<1>3. ASSUME NEW p \in Pids, NEW k \in EmitKeys, Emit(p, k)
      PROVE  HonestInv'
  BY <1>3, EmitHonest
<1>4. CASE PollFile
  <2>1. /\ batch' = log[Files[turn]] /\ log' = [log EXCEPT ![Files[turn]] = <<>>]
        /\ UNCHANGED <<window, proc>>
    BY <1>4 DEF PollFile
  <2>2. Files[turn] \in FileNames /\ log \in [FileNames -> Seq(LoggedEvent)]
    BY DEF AlertInv, AlertTypeOK, FileNames, ToSet
  <2>3. \A f \in FileNames : log'[f] = log[f] \/ log'[f] = <<>>
    BY <2>1, <2>2
  <2>4. QED
    BY <2>1, <2>2, <2>3 DEF HonestInv, Honest
<1>5. CASE HandleLine
  BY <1>5, HandleLineHonest
<1>6. CASE EndRound
  <2>1. UNCHANGED <<log, batch, proc>>
    BY <1>6 DEF EndRound
  <2>2. \A q \in Pids : window'[q] = window[q] \/ window'[q] = <<>>
    BY <1>6 DEF EndRound
  <2>3. QED
    BY <2>1, <2>2 DEF HonestInv, Honest
<1>7. QED
  BY <1>1, <1>2, <1>3, <1>4, <1>5, <1>6 DEF Next, World, Loop

(* A comm that most events of a window carry is the one that is_safe_to_    *)
(* block compares.                                                          *)
LEMMA MostOwnShielded ==
  ASSUME NEW p \in Pids, NEW w \in Seq(LoggedEvent),
         \A i \in DOMAIN w : w[i].pid = p /\ Honest(w[i]),
         proc[p].class = "comm", MostOwn(w, p)
  PROVE  ShieldedComm(w)
<1> DEFINE A == {i \in DOMAIN w : w[i].inst = proc[p].inst}
           B == {i \in DOMAIN w : w[i].shielded}
<1>1. Len(w) \in Nat /\ DOMAIN w = 1..Len(w) /\ 1 \in Int /\ Len(w) \in Int
  OBVIOUS
<1>2. IsFiniteSet(1..Len(w))
  BY <1>1, FS_Interval
<1>3. A \subseteq B /\ B \subseteq 1..Len(w)
  BY <1>1 DEF Honest
<1> HIDE DEF A, B
<1>4. IsFiniteSet(B)
  BY <1>2, <1>3, FS_Subset
<1>5. IsFiniteSet(A) /\ Cardinality(A) <= Cardinality(B)
  BY <1>3, <1>4, FS_Subset
<1>6. Cardinality(A) \in Nat /\ Cardinality(B) \in Nat
  BY <1>4, <1>5, FS_CardinalityType
<1>7. 2 * Cardinality(A) > Len(w)
  BY DEF MostOwn, A
<1>8. Cardinality(B) * 2 > Len(w)
  BY <1>1, <1>5, <1>6, <1>7
<1>9. QED
  BY <1>8 DEF ShieldedComm, B

(* What the check has found out so far: no look has met the owner of the    *)
(* target where it would have spared it.                                    *)
SafetyTypeOK ==
  /\ pc \in {"poll", "handle", "kill"} \cup Looks
  /\ target \in Pids
  /\ looks \in [Looks -> Nat]

Met(l) == looks[l] = proc[target].inst

LookRight ==
  /\ \A l \in Looks : looks[l] <= proc[target].inst
  /\ pc \in {"cmdline", "uid", "ppid", "kill"} =>
       ~ShieldedComm(window[target]) /\ ~(Shows(target, "monitor") /\ Met("tree"))
  /\ pc \in {"uid", "ppid", "kill"} => ~(Shows(target, "cmdline") /\ Met("cmdline"))
  /\ pc \in {"ppid", "kill"} /\ ~AllowRootBlock => ~(Shows(target, "root") /\ Met("uid"))
  /\ pc = "kill" => ~(Shows(target, "service") /\ Met("ppid"))

SpareInv ==
  /\ proc \in [Pids -> Process]
  /\ SafetyTypeOK
  /\ HonestInv
  /\ LookRight
  /\ ProtectedSpared

LEMMA SpareInvInit == Init => SpareInv
<1> SUFFICES ASSUME Init
             PROVE  SpareInv
  OBVIOUS
<1>1. proc \in [Pids -> Process]
  BY AlertInvInit DEF AlertInv, AlertTypeOK
<1>2. target \in Pids /\ looks \in [Looks -> Nat] /\ pc = "poll"
  <2>1. (CHOOSE p \in Pids : TRUE) \in Pids
    BY HistoryAssumption
  <2>2. QED
    BY <2>1 DEF Init
<1>3. \A l \in Looks : looks[l] <= proc[target].inst
  <2>1. proc[target].inst = 1
    BY <1>2 DEF Init
  <2>2. QED
    BY <2>1 DEF Init
<1>4. LookRight
  BY <1>2, <1>3 DEF LookRight
<1>5. ProtectedSpared
  BY DEF Init, ProtectedSpared
<1>6. QED
  BY <1>1, <1>2, <1>4, <1>5, HonestInit DEF SpareInv, SafetyTypeOK

(* A PID that changes hands is not the one that a look has met. *)
LEMMA OwnerChangeSpares ==
  ASSUME SpareInv, NEW p \in Pids, Exit(p) \/ \E c \in Classes : Reuse(p, c)
  PROVE  LookRight'
<1>1. /\ proc \in [Pids -> Process] /\ target \in Pids
      /\ looks \in [Looks -> Nat] /\ LookRight
  BY DEF SpareInv, SafetyTypeOK
<1>2. UNCHANGED <<pc, target, looks, window>>
  BY DEF Exit, Reuse, loopVars, histVars
<1>3. proc[target].inst \in Nat /\ proc[p] \in Process
  BY <1>1 DEF Process
<1>4. CASE p # target
  <2>1. proc'[target] = proc[target]
    BY <1>1, <1>4 DEF Exit, Reuse
  <2>2. QED
    BY <1>1, <1>2, <2>1 DEF LookRight, Shows, Met
<1>5. CASE p = target /\ Exit(p)
  <2>1. proc' = [proc EXCEPT ![p] = [proc[p] EXCEPT !.alive = FALSE]]
    BY <1>5 DEF Exit
  <2>2. proc'[target].inst = proc[target].inst /\ ~proc'[target].alive
    BY <1>1, <1>3, <1>5, <2>1 DEF Process
  <2>3. \A l \in Looks : looks'[l] <= proc'[target'].inst
    BY <1>1, <1>2, <2>2 DEF LookRight
  <2>4. \A c : ~Shows(target, c)'
    BY <1>2, <2>2 DEF Shows
  <2>5. ShieldedComm(window[target])' <=> ShieldedComm(window[target])
    BY <1>2
  <2>6. QED
    BY <1>1, <1>2, <2>3, <2>4, <2>5 DEF LookRight
<1>6. ASSUME p = target, NEW c \in Classes, Reuse(p, c)
      PROVE  LookRight'
  <2>1. proc'[target].inst = proc[target].inst + 1
    BY <1>1, <1>6 DEF Reuse
  <2>2. \A l \in Looks : looks'[l] < proc'[target'].inst /\ looks'[l] \in Nat
    BY <1>1, <1>2, <1>3, <2>1 DEF LookRight
  <2>3. \A l \in Looks : ~Met(l)'
    BY <1>2, <1>3, <2>1, <2>2 DEF Met
  <2>4. \A l \in Looks : looks'[l] <= proc'[target'].inst
    BY <1>2, <1>3, <2>1, <2>2
  <2>5. ShieldedComm(window[target])' <=> ShieldedComm(window[target])
    BY <1>2
  <2>6. ~Met("tree")' /\ ~Met("cmdline")' /\ ~Met("uid")' /\ ~Met("ppid")'
    BY <2>3 DEF Looks
  <2>7. QED
    BY <1>1, <1>2, <2>4, <2>5, <2>6 DEF LookRight
<1>7. QED
  BY <1>4, <1>5, <1>6

(* What a look lets pass is not what it would have spared. *)
LEMMA LookRights ==
  ASSUME SpareInv, NEW l \in Looks, Look(l)
  PROVE  SafetyTypeOK' /\ LookRight'
<1>1. /\ proc \in [Pids -> Process] /\ target \in Pids
      /\ looks \in [Looks -> Nat] /\ LookRight
  BY DEF SpareInv, SafetyTypeOK
<1>2. /\ pc = l /\ UNCHANGED <<proc, target, window>>
      /\ looks' = [looks EXCEPT ![l] = proc[target].inst]
      /\ pc' = IF Spares(l, target) THEN "handle" ELSE NextLook(l)
  BY DEF Look
<1>3. proc[target].inst \in Nat
  BY <1>1 DEF Process
<1>4. looks' \in [Looks -> Nat]
  BY <1>1, <1>2, <1>3
<1>5. \A m \in Looks : looks'[m] = IF m = l THEN proc[target].inst ELSE looks[m]
  BY <1>1, <1>2
<1>6. \A m \in Looks : looks'[m] <= proc'[target'].inst
  BY <1>1, <1>2, <1>3, <1>5 DEF LookRight
<1>7. /\ "tree" \in Looks /\ "cmdline" \in Looks /\ "uid" \in Looks
      /\ "ppid" \in Looks
  BY DEF Looks
<1>8. \A m \in Looks : m # l => (Met(m)' <=> Met(m))
  BY <1>2, <1>5 DEF Met
<1>9. \A c : Shows(target, c)' <=> Shows(target, c)
  BY <1>2 DEF Shows
<1>10. ShieldedComm(window[target])' <=> ShieldedComm(window[target])
  BY <1>2
<1>11. CASE Spares(l, target)
  <2>1. pc' = "handle"
    BY <1>2, <1>11
  <2>2. QED
    BY <1>1, <1>2, <1>4, <1>6, <2>1 DEF SafetyTypeOK, LookRight
<1>12. CASE ~Spares(l, target) /\ l = "tree"
  <2>1. pc' = "cmdline"
    BY <1>2, <1>12 DEF NextLook
  <2>2. ~ShieldedComm(window[target]) /\ ~Shows(target, "monitor")
    BY <1>12 DEF Spares
  <2>3. QED
    BY <1>1, <1>2, <1>4, <1>6, <1>7, <1>9, <1>10, <2>1, <2>2
       DEF SafetyTypeOK, LookRight
<1>13. CASE ~Spares(l, target) /\ l = "cmdline"
  <2>1. pc' = IF AllowRootBlock THEN "ppid" ELSE "uid"
    BY <1>2, <1>13 DEF NextLook
  <2>2. ~Shows(target, "cmdline")
    BY <1>13 DEF Spares
  <2>3. ~ShieldedComm(window[target]) /\ ~(Shows(target, "monitor") /\ Met("tree"))
    BY <1>1, <1>2, <1>13 DEF LookRight
  <2>4. Met("tree")' <=> Met("tree")
    BY <1>7, <1>8, <1>13
  <2>5. QED
    BY <1>1, <1>2, <1>4, <1>6, <1>7, <1>9, <1>10, <2>1, <2>2, <2>3, <2>4
       DEF SafetyTypeOK, LookRight
<1>14. CASE ~Spares(l, target) /\ l = "uid"
  <2>1. pc' = "ppid"
    BY <1>2, <1>14 DEF NextLook
  <2>2. ~Shows(target, "root")
    BY <1>14 DEF Spares
  <2>3. /\ ~ShieldedComm(window[target]) /\ ~(Shows(target, "monitor") /\ Met("tree"))
        /\ ~(Shows(target, "cmdline") /\ Met("cmdline"))
    BY <1>1, <1>2, <1>14 DEF LookRight
  <2>4. (Met("tree")' <=> Met("tree")) /\ (Met("cmdline")' <=> Met("cmdline"))
    BY <1>7, <1>8, <1>14
  <2>5. QED
    BY <1>1, <1>2, <1>4, <1>6, <1>7, <1>9, <1>10, <2>1, <2>2, <2>3, <2>4
       DEF SafetyTypeOK, LookRight
<1>15. CASE ~Spares(l, target) /\ l = "ppid"
  <2>1. pc' = "kill"
    BY <1>2, <1>15 DEF NextLook
  <2>2. ~Shows(target, "service")
    BY <1>15 DEF Spares
  <2>3. /\ ~ShieldedComm(window[target]) /\ ~(Shows(target, "monitor") /\ Met("tree"))
        /\ ~(Shows(target, "cmdline") /\ Met("cmdline"))
        /\ ~AllowRootBlock => ~(Shows(target, "root") /\ Met("uid"))
    BY <1>1, <1>2, <1>15 DEF LookRight
  <2>4. /\ (Met("tree")' <=> Met("tree")) /\ (Met("cmdline")' <=> Met("cmdline"))
        /\ (Met("uid")' <=> Met("uid"))
    BY <1>7, <1>8, <1>15
  <2>5. QED
    BY <1>1, <1>2, <1>4, <1>6, <1>7, <1>9, <1>10, <2>1, <2>2, <2>3, <2>4
       DEF SafetyTypeOK, LookRight
<1>16. QED
  BY <1>11, <1>12, <1>13, <1>14, <1>15 DEF Looks

(* The process that is signalled passed every look that met it, and its     *)
(* window passed the first.                                                 *)
LEMMA KillSpares ==
  ASSUME AlertInv, SpareInv, Kill
  PROVE  ProtectedSpared'
<1> DEFINE q == proc[target]
           w == window[target]
           met == {l \in Looks : looks[l] = q.inst}
           most == MostOwn(w, target)
           own == \A i \in DOMAIN w : w[i].inst = q.inst
           r == [pid |-> target, inst |-> q.inst, class |-> q.class,
                 met |-> met, most |-> most, own |-> own]
<1>1. target \in Pids /\ LookRight /\ HonestInv /\ pc = "kill"
  BY DEF SpareInv, SafetyTypeOK, Kill
<1>2. window[target] \in Seq(LoggedEvent)
  BY <1>1 DEF AlertInv, AlertTypeOK
<1>3. /\ ~ShieldedComm(w)
      /\ ~(Shows(target, "monitor") /\ Met("tree"))
      /\ ~(Shows(target, "cmdline") /\ Met("cmdline"))
      /\ ~AllowRootBlock => ~(Shows(target, "root") /\ Met("uid"))
      /\ ~(Shows(target, "service") /\ Met("ppid"))
  BY <1>1 DEF LookRight
<1>4. q.class = "comm" => ~most
  <2>1. \A i \in DOMAIN w : w[i].pid = target /\ Honest(w[i])
    BY <1>1 DEF HonestInv
  <2> HIDE DEF w
  <2>2. ASSUME q.class = "comm", most
        PROVE  FALSE
    <3>1. w \in Seq(LoggedEvent)
      BY <1>2 DEF w
    <3>2. ShieldedComm(w)
      BY <1>1, <2>1, <2>2, <3>1, MostOwnShielded
    <3>3. QED
      BY <1>3, <3>2
  <2>3. QED
    BY <2>2
<1>5. \A l \in Looks : l \in met <=> Met(l)
  BY DEF Met
<1>6. q.alive => \A c : q.class = c => Shows(target, c)
  BY DEF Shows
<1>7. /\ "tree" \in Looks /\ "cmdline" \in Looks /\ "uid" \in Looks
      /\ "ppid" \in Looks
  BY DEF Looks
<1>8. \A s \in signalled' : s \in signalled \/ (s = r /\ q.alive)
  BY DEF Kill
<1>9. r.class = q.class /\ r.met = met /\ r.most = most
  BY Zenon
<1> HIDE DEF q, met, most, own, r, w
<1>10. ASSUME q.alive
       PROVE  /\ q.class = "monitor" => "tree" \notin met
              /\ q.class = "cmdline" => "cmdline" \notin met
              /\ q.class = "root" /\ ~AllowRootBlock => "uid" \notin met
              /\ q.class = "service" => "ppid" \notin met
  BY <1>3, <1>5, <1>6, <1>7, <1>10
<1>11. ASSUME NEW s \in signalled'
       PROVE  /\ s.class = "monitor" => "tree" \notin s.met
              /\ s.class = "cmdline" => "cmdline" \notin s.met
              /\ (s.class = "root" /\ ~AllowRootBlock => "uid" \notin s.met)
              /\ s.class = "service" => "ppid" \notin s.met
              /\ s.class = "comm" => ~s.most
  <2>1. CASE s \in signalled
    BY <2>1 DEF SpareInv, ProtectedSpared
  <2>2. CASE s = r /\ q.alive
    BY <1>4, <1>9, <1>10, <2>2, Zenon
  <2>3. QED
    BY <1>8, <2>1, <2>2
<1>12. QED
  BY <1>11 DEF ProtectedSpared

LEMMA SpareInvInductive ==
  AlertInv /\ SpareInv /\ [Next]_vars => SpareInv'
<1> SUFFICES ASSUME AlertInv, SpareInv, [Next]_vars
             PROVE  SpareInv'
  OBVIOUS
<1>1. proc' \in [Pids -> Process]
  BY AlertInvInductive DEF AlertInv, AlertTypeOK
<1>2. HonestInv'
  BY HonestInductive DEF SpareInv
<1>3. SafetyTypeOK /\ LookRight /\ ProtectedSpared
  BY DEF SpareInv
<1>4. CASE Tick \/ (\E p \in Pids, k \in EmitKeys : Emit(p, k)) \/ UNCHANGED vars
  <2>1. UNCHANGED <<pc, target, looks, window, proc, signalled>>
    BY <1>4 DEF Tick, Emit, vars, loopVars, histVars
  <2>2. SafetyTypeOK' /\ ProtectedSpared'
    BY <1>3, <2>1 DEF SafetyTypeOK, ProtectedSpared
  <2>3. LookRight'
    BY <1>3, <2>1 DEF LookRight, Shows, Met
  <2>4. QED
    BY <1>1, <1>2, <2>2, <2>3 DEF SpareInv
<1>5. ASSUME NEW p \in Pids, Exit(p) \/ \E c \in Classes : Reuse(p, c)
      PROVE  SpareInv'
  <2>1. UNCHANGED <<pc, target, looks, signalled>>
    BY <1>5 DEF Exit, Reuse, loopVars, histVars
  <2>2. SafetyTypeOK' /\ ProtectedSpared'
    BY <1>3, <2>1 DEF SafetyTypeOK, ProtectedSpared
  <2>3. LookRight'
    BY <1>5, OwnerChangeSpares
  <2>4. QED
    BY <1>1, <1>2, <2>2, <2>3 DEF SpareInv
<1>6. CASE PollFile \/ NextFile \/ EndRound
  <2>1. pc' \in {"poll", "handle"} /\ UNCHANGED <<proc, target, looks, signalled>>
    BY <1>6 DEF PollFile, NextFile, EndRound, histVars
  <2>2. SafetyTypeOK' /\ ProtectedSpared'
    BY <1>3, <2>1 DEF SafetyTypeOK, ProtectedSpared
  <2>3. LookRight'
    BY <1>3, <2>1 DEF LookRight
  <2>4. QED
    BY <1>1, <1>2, <2>2, <2>3 DEF SpareInv
<1>7. CASE HandleLine
  <2> DEFINE p == Head(batch).pid
  <2>1. p \in Pids
    <3>1. batch # <<>> /\ batch \in Seq(LoggedEvent)
      BY <1>7 DEF HandleLine, AlertInv, AlertTypeOK
    <3>2. Head(batch) \in LoggedEvent
      BY <3>1
    <3>3. QED
      BY <3>2 DEF LoggedEvent
  <2>2. UNCHANGED <<proc, signalled>>
    BY <1>7 DEF HandleLine
  <2>3. \/ pc' = "tree" /\ target' = p /\ looks' = [l \in Looks |-> 0]
        \/ pc' = "handle" /\ target' = target /\ looks' = looks
    BY <1>7 DEF HandleLine
  <2> HIDE DEF p
  <2>4. SafetyTypeOK' /\ ProtectedSpared'
    <3>1. pc' \in {"handle", "tree"} /\ target' \in Pids /\ looks' \in [Looks -> Nat]
      BY <1>3, <2>1, <2>3 DEF SafetyTypeOK
    <3>2. QED
      BY <1>3, <2>2, <3>1 DEF SafetyTypeOK, ProtectedSpared, Looks
  <2>5. \A l \in Looks : looks'[l] <= proc'[target'].inst
    <3>1. proc[p].inst \in Nat
      BY <2>1 DEF SpareInv, Process
    <3>2. QED
      BY <1>3, <2>2, <2>3, <3>1 DEF LookRight
  <2>6. LookRight'
    BY <2>3, <2>5 DEF LookRight
  <2>7. QED
    BY <1>1, <1>2, <2>4, <2>6 DEF SpareInv
<1>8. ASSUME NEW l \in Looks, Look(l)
      PROVE  SpareInv'
  <2>1. ProtectedSpared'
    BY <1>3, <1>8 DEF Look, ProtectedSpared
  <2>2. QED
    BY <1>1, <1>2, <1>8, <2>1, LookRights DEF SpareInv
<1>9. CASE Kill
  <2>1. pc' = "handle" /\ UNCHANGED <<proc, target, looks>>
    BY <1>9 DEF Kill
  <2>2. SafetyTypeOK' /\ LookRight'
    BY <1>3, <2>1 DEF SafetyTypeOK, LookRight
  <2>3. QED
    BY <1>1, <1>2, <1>9, <2>2, KillSpares DEF SpareInv
<1>10. QED
  BY <1>4, <1>5, <1>6, <1>7, <1>8, <1>9 DEF Next, World, Loop

(* A protected process is signalled only when it took the PID over after    *)
(* the one look of is_safe_to_block that would have spared it; one with a   *)
(* protected comm only when most events of the window are an earlier        *)
(* owner's (README.md:178, realtime_blocker.py:74).                         *)
THEOREM ProtectedSparedCorrect == Spec => []ProtectedSpared
<1>1. SpareInv => ProtectedSpared
  BY DEF SpareInv
<1>2. QED
  BY AlertInvInit, AlertInvInductive, SpareInvInit, SpareInvInductive, <1>1,
     PTL DEF Spec
-----------------------------------------------------------------------------
(* What popleft leaves holds every line that is not too old. *)
LEMMA ExpireKeepsFresh ==
  ASSUME NEW v \in Seq(LoggedEvent), NEW before \in Int,
         NEW j \in DOMAIN v, v[j].ts >= before
  PROVE  \E i \in DOMAIN Expire(v, before) : Expire(v, before)[i] = v[j]
<1> DEFINE fresh == {i \in DOMAIN v : v[i].ts >= before}
           m == Min(fresh)
<1>1. DOMAIN v = 1..Len(v) /\ Len(v) \in Nat
  OBVIOUS
<1>2. j \in fresh /\ fresh \subseteq Nat
  BY <1>1
<1>3. m \in fresh /\ m <= j
  BY <1>2, MinOfNaturals
<1>4. m \in 1..Len(v) /\ j \in m..Len(v)
  BY <1>1, <1>3
<1> HIDE DEF m
<1>5. \A i \in m..Len(v) : v[i] \in LoggedEvent
  BY <1>1, <1>4
<1> DEFINE x == SubSeq(v, m, Len(v))
<1>6. /\ x \in Seq(LoggedEvent)
      /\ Len(x) = Len(v) - m + 1
      /\ \A i \in 1..(Len(v) - m + 1) : x[i] = v[m + i - 1]
  BY <1>1, <1>4, <1>5, SubSeqProperties
<1>7. Expire(v, before) = x
  BY <1>2 DEF Expire, m
<1> HIDE DEF x
<1>8. j - m + 1 \in 1..(Len(v) - m + 1) /\ m + (j - m + 1) - 1 = j
  BY <1>1, <1>4
<1>9. DOMAIN x = 1..(Len(v) - m + 1)
  BY <1>1, <1>4, <1>6
<1>10. j - m + 1 \in DOMAIN x /\ x[j - m + 1] = v[j]
  BY <1>6, <1>8, <1>9
<1>11. QED
  BY <1>7, <1>10

(* No line of a window is more than Lag newer than the last one. *)
WindowNear ==
  \A p \in Pids : \A i \in DOMAIN window[p] : window[p][i].ts <= LastTs(p) + Lag

KeepInv == handled \subseteq LoggedEvent /\ WindowNear /\ NoEarlyExpiry

LEMMA KeepInvInit == Init => KeepInv
BY DEF Init, KeepInv, WindowNear, NoEarlyExpiry

LEMMA HandleLineKeeps ==
  ASSUME AlertInv, KeepInv, HandleLine
  PROVE  KeepInv'
<1> DEFINE e == Head(batch)
           p == e.pid
           v == Append(window[p], e)
           before == e.ts - WindowLen
           w == Expire(v, before)
<1>1. batch # <<>> /\ batch \in Seq(LoggedEvent) /\ now \in Nat
  BY DEF HandleLine, AlertInv, AlertTypeOK
<1>2. /\ e \in LoggedEvent /\ p \in Pids
      /\ e.ts \in Nat /\ e.ts <= now /\ now <= e.ts + Lag
  <2>1. 1 \in DOMAIN batch /\ e = batch[1] /\ batch[1] \in LoggedEvent
    BY <1>1
  <2>2. QED
    BY <2>1 DEF LoggedEvent, AlertInv, LinesTimely, Timely
<1>3. /\ window' = [window EXCEPT ![p] = w]
      /\ handled' = handled \cup {e}
      /\ now' = now
  BY DEF HandleLine
<1>4. window \in [Pids -> Seq(LoggedEvent)] /\ window[p] \in Seq(LoggedEvent)
  BY <1>2 DEF AlertInv, AlertTypeOK
<1>5. before \in Int /\ before <= e.ts /\ before <= now - WindowLen
  BY <1>1, <1>2, ConstantTypes
<1> HIDE DEF e, p, before
<1>6. /\ v \in Seq(LoggedEvent) /\ Len(v) = Len(window[p]) + 1
      /\ DOMAIN v = 1..(Len(window[p]) + 1)
      /\ v[Len(window[p]) + 1] = e
      /\ \A i \in 1..Len(window[p]) : v[i] = window[p][i]
      /\ DOMAIN window[p] = 1..Len(window[p]) /\ Len(window[p]) \in Nat
  BY <1>2, <1>4, AppendProperties
<1>7. /\ w # <<>> /\ w[Len(w)] = e
      /\ \A i \in DOMAIN w : \E j \in DOMAIN v : w[i] = v[j]
  BY <1>2, <1>4, <1>5, ExpireKeepsLast
<1>8. ASSUME NEW j \in DOMAIN v, v[j].ts >= before
      PROVE  \E i \in DOMAIN w : w[i] = v[j]
  BY <1>5, <1>6, <1>8, ExpireKeepsFresh
<1> HIDE DEF w, v
<1>9. \A q \in Pids : window'[q] = IF q = p THEN w ELSE window[q]
  BY <1>2, <1>3, <1>4
<1>10. \A j \in DOMAIN v : v[j].ts \in Nat /\ v[j].ts <= now
  <2> SUFFICES ASSUME NEW j \in DOMAIN v
               PROVE  v[j].ts \in Nat /\ v[j].ts <= now
    OBVIOUS
  <2>1. v[j] \in LoggedEvent
    BY <1>6
  <2>2. CASE j = Len(window[p]) + 1
    BY <1>2, <1>6, <2>2
  <2>3. CASE j \in 1..Len(window[p])
    BY <1>2, <1>6, <2>1, <2>3 DEF LoggedEvent, AlertInv, WindowPast
  <2>4. QED
    BY <1>6, <2>2, <2>3
<1>11. WindowNear'
  <2> SUFFICES ASSUME NEW q \in Pids, NEW i \in DOMAIN window'[q]
               PROVE  window'[q][i].ts <= window'[q][Len(window'[q])].ts + Lag
    BY DEF WindowNear, LastTs
  <2>1. CASE q = p
    <3>1. PICK j \in DOMAIN v : w[i] = v[j]
      BY <1>7, <1>9, <2>1
    <3>2. QED
      BY <1>1, <1>2, <1>7, <1>9, <1>10, <2>1, <3>1, ConstantTypes
  <2>2. CASE q # p
    BY <1>9, <2>2 DEF KeepInv, WindowNear, LastTs
  <2>3. QED
    BY <2>1, <2>2
<1>12. NoEarlyExpiry'
  <2> SUFFICES ASSUME NEW g \in handled', g.ts >= now - WindowLen
               PROVE  \E i \in DOMAIN window'[g.pid] : window'[g.pid][i] = g
    BY <1>3 DEF NoEarlyExpiry
  <2>1. g \in LoggedEvent /\ g.pid \in Pids /\ g.ts \in Nat
    BY <1>2, <1>3 DEF KeepInv, LoggedEvent
  <2>2. g.ts >= before
    BY <1>1, <1>5, <2>1, ConstantTypes
  <2>3. CASE g = e
    <3>1. Len(window[p]) + 1 \in DOMAIN v /\ v[Len(window[p]) + 1] = g
      BY <1>6, <2>3
    <3>2. QED
      BY <1>8, <1>9, <2>1, <2>2, <2>3, <3>1 DEF p
  <2>4. CASE g \in handled
    <3>1. PICK i \in DOMAIN window[g.pid] : window[g.pid][i] = g
      BY <2>4 DEF KeepInv, NoEarlyExpiry
    <3>2. CASE g.pid = p
      <4>1. i \in DOMAIN v /\ v[i] = g
        BY <1>6, <3>1, <3>2
      <4>2. QED
        BY <1>8, <1>9, <2>1, <2>2, <3>2, <4>1
    <3>3. CASE g.pid # p
      BY <1>9, <2>1, <3>1, <3>3
    <3>4. QED
      BY <3>2, <3>3
  <2>5. QED
    BY <1>3, <2>3, <2>4
<1>13. QED
  BY <1>2, <1>3, <1>11, <1>12 DEF KeepInv

(* A window is cleaned away only when all of it is older than WindowLen. *)
LEMMA EndRoundKeeps ==
  ASSUME Lag + WindowLen <= StaleAfter, AlertInv, KeepInv, EndRound
  PROVE  KeepInv'
<1>1. UNCHANGED <<now, handled>>
  BY DEF EndRound, histVars
<1>2. CASE ~CleanupDue
  BY <1>1, <1>2 DEF EndRound, KeepInv, WindowNear, LastTs, NoEarlyExpiry
<1>3. CASE CleanupDue
  <2>1. window' = [p \in Pids |-> IF Stale(p) THEN <<>> ELSE window[p]]
    BY <1>3 DEF EndRound
  <2>2. WindowNear'
    BY <2>1 DEF KeepInv, WindowNear, LastTs
  <2>3. ASSUME NEW g \in handled, g.ts >= now - WindowLen
        PROVE  \E i \in DOMAIN window'[g.pid] : window'[g.pid][i] = g
    <3>1. PICK i \in DOMAIN window[g.pid] : window[g.pid][i] = g
      BY <2>3 DEF KeepInv, NoEarlyExpiry
    <3> DEFINE p == g.pid
    <3>2. p \in Pids /\ g.ts \in Nat
      BY DEF KeepInv, LoggedEvent
    <3>3. ~Stale(p)
      <4> SUFFICES ASSUME Stale(p) PROVE FALSE
        OBVIOUS
      <4>1. PICK q \in Pids : /\ window[p] # <<>> /\ window[q] # <<>>
                              /\ LastTs(p) < LastTs(q) - StaleAfter
        BY DEF Stale
      <4>2. \A r \in {p, q} : /\ Len(window[r]) \in DOMAIN window[r]
                               /\ window[r][Len(window[r])] \in LoggedEvent
        BY <3>2, <4>1 DEF AlertInv, AlertTypeOK
      <4>3. LastTs(p) \in Nat /\ LastTs(q) \in Nat /\ LastTs(q) <= now
        BY <3>2, <4>2 DEF LastTs, LoggedEvent, AlertInv, WindowPast
      <4>4. g.ts <= LastTs(p) + Lag
        BY <3>1, <3>2 DEF KeepInv, WindowNear
      <4>5. now \in Nat
        BY DEF AlertInv, AlertTypeOK
      <4> HIDE DEF p
      <4>6. QED
        BY <2>3, <3>2, <4>1, <4>3, <4>4, <4>5, ConstantTypes
    <3>4. window'[p] = window[p]
      BY <2>1, <3>2, <3>3
    <3>5. QED
      BY <3>1, <3>4
  <2>4. QED
    BY <1>1, <2>2, <2>3 DEF KeepInv, NoEarlyExpiry
<1>4. QED
  BY <1>2, <1>3

LEMMA KeepInvInductive ==
  ASSUME Lag + WindowLen <= StaleAfter
  PROVE  AlertInv /\ KeepInv /\ [Next]_vars => KeepInv'
<1> SUFFICES ASSUME AlertInv, KeepInv, [Next]_vars
             PROVE  KeepInv'
  OBVIOUS
<1>1. CASE Tick
  <2>1. now \in Nat /\ now' = now + 1 /\ UNCHANGED <<window, handled>>
    BY <1>1 DEF Tick, loopVars, histVars, AlertInv, AlertTypeOK
  <2>2. \A g \in handled : g.ts \in Nat
    BY DEF KeepInv, LoggedEvent
  <2>3. \A g \in handled : g.ts >= now' - WindowLen => g.ts >= now - WindowLen
    BY <2>1, <2>2, ConstantTypes
  <2>4. QED
    BY <2>1, <2>3 DEF KeepInv, WindowNear, LastTs, NoEarlyExpiry
<1>2. CASE \/ \E p \in Pids, k \in EmitKeys : Emit(p, k)
           \/ \E p \in Pids : Exit(p)
           \/ \E p \in Pids, c \in Classes : Reuse(p, c)
           \/ PollFile \/ (\E l \in Looks : Look(l)) \/ Kill \/ NextFile
           \/ UNCHANGED vars
  <2>1. UNCHANGED <<now, window, handled>>
    BY <1>2 DEF Emit, Exit, Reuse, PollFile, Look, Kill, NextFile, vars,
       loopVars, histVars
  <2>2. QED
    BY <2>1 DEF KeepInv, WindowNear, LastTs, NoEarlyExpiry
<1>3. CASE HandleLine
  BY <1>3, HandleLineKeeps
<1>4. CASE EndRound
  BY <1>4, EndRoundKeeps
<1>5. QED
  BY <1>1, <1>2, <1>3, <1>4 DEF Next, World, Loop

(* While no line is handled later than StaleAfter - WindowLen after its     *)
(* timestamp, an event that is still inside the window is neither expired   *)
(* nor cleaned away, whatever the order in which the logs were drained      *)
(* (expire_old_events, cleanup_stale_state).                                *)
THEOREM NoEarlyExpiryCorrect ==
  ASSUME Lag + WindowLen <= StaleAfter
  PROVE  Spec => []NoEarlyExpiry
<1>1. AlertInv /\ KeepInv /\ [Next]_vars => KeepInv'
  BY KeepInvInductive
<1>2. KeepInv => NoEarlyExpiry
  BY DEF KeepInv
<1>3. QED
  BY AlertInvInit, AlertInvInductive, KeepInvInit, <1>1, <1>2, PTL DEF Spec
-----------------------------------------------------------------------------
(* A window scores at least the weight of each of its reasons. *)
LEMMA ReasonsFinite ==
  ASSUME NEW w
  PROVE  IsFiniteSet(Reasons(w))
<1>1. \A S, a, b, c, d : IsFiniteSet(S) => IsFiniteSet(S \cup {a} \cup {b} \cup {c} \cup {d})
  BY FS_AddElement
<1> DEFINE F == {} \cup {"rename burst"} \cup {"delete burst"} \cup {"exec memory"}
                   \cup {"injection"}
           G == F \cup {"syscalls"} \cup {"dns burst"} \cup {"entropy"} \cup {"kmod"}
           H == G \cup {"write rate"} \cup {"file spike"} \cup {"sequence"} \cup {"kmod"}
<1>2. IsFiniteSet(F)
  BY <1>1, FS_EmptySet
<1>3. IsFiniteSet(G)
  BY <1>1, <1>2
<1>4. IsFiniteSet(H)
  BY <1>1, <1>3
<1>5. Reasons(w) \in SUBSET H
  BY DEF Reasons, CountReasons, TimedReasons
<1>6. QED
  BY <1>4, <1>5, FS_Subset

LEMMA UnitsOfOne ==
  ASSUME NEW x, NEW n \in Nat
  PROVE  IsFiniteSet(1..n) /\ Cardinality({x} \X (1..n)) = n
<1>1. 1 \in Int /\ n \in Int
  OBVIOUS
<1>2. IsFiniteSet(1..n) /\ Cardinality(1..n) = IF 1 > n THEN 0 ELSE n - 1 + 1
  BY <1>1, FS_Interval
<1>3. Cardinality(1..n) = n
  BY <1>2
<1>4. IsFiniteSet({x}) /\ Cardinality({x}) = 1
  BY FS_Singleton
<1>5. Cardinality({x} \X (1..n)) = 1 * n
  BY <1>2, <1>3, <1>4, FS_Product
<1>6. QED
  BY <1>2, <1>5

LEMMA WeightType == \A r : Weight(r) \in Nat /\ Weight(r) <= 4
BY DEF Weight

LEMMA ReasonScores ==
  ASSUME NEW w, NEW x \in Reasons(w)
  PROVE  Score(w) \in Nat /\ Score(w) >= Weight(x)
<1> DEFINE f == [r \in Reasons(w) |-> Weight(r)]
           units == UNION {{r} \X (1..f[r]) : r \in Reasons(w)}
<1>1. PICK n \in Nat : n = 4
  OBVIOUS
<1>2. \A r \in Reasons(w) : f[r] \in Nat /\ f[r] <= n
  BY <1>1, WeightType
<1>3. f[x] = Weight(x)
  OBVIOUS
<1>4. Score(w) = Cardinality(units)
  BY DEF Score, TotalOf
<1> HIDE DEF f
<1>5. units \in SUBSET (Reasons(w) \X (1..n))
  <2>1. \A r \in Reasons(w) : \A m \in 1..f[r] : m \in 1..n
    BY <1>2
  <2> SUFFICES ASSUME NEW u \in units PROVE u \in Reasons(w) \X (1..n)
    OBVIOUS
  <2>2. PICK r \in Reasons(w) : u \in {r} \X (1..f[r])
    OBVIOUS
  <2>3. u = <<r, u[2]>> /\ u[2] \in 1..f[r]
    BY <2>2
  <2>4. u[2] \in 1..n
    BY <2>1, <2>3
  <2>5. QED
    BY <2>3, <2>4
<1>6. {x} \X (1..f[x]) \in SUBSET units
  OBVIOUS
<1> HIDE DEF units
<1>7. IsFiniteSet(Reasons(w) \X (1..n))
  BY ReasonsFinite, UnitsOfOne, FS_Product
<1>8. IsFiniteSet(units)
  BY <1>5, <1>7, FS_Subset
<1>9. Cardinality(units) \in Nat
  BY <1>8, FS_CardinalityType
<1>10. Cardinality({x} \X (1..f[x])) <= Cardinality(units)
  BY <1>6, <1>8, FS_Subset
<1>11. Cardinality({x} \X (1..f[x])) = f[x]
  BY <1>2, UnitsOfOne
<1>12. QED
  BY <1>3, <1>4, <1>9, <1>10, <1>11

(* A window with an mmap and an mprotect scores at least 4. *)
LEMMA PairScores ==
  ASSUME NEW w \in Seq(LoggedEvent), NEW i \in DOMAIN w, NEW j \in DOMAIN w,
         w[i].key = "memory.mmap", w[j].key = "memory.mprotect"
  PROVE  Score(w) \in Nat /\ Score(w) >= 4
<1>1. IsFiniteSet(DOMAIN w)
  BY FS_Interval
<1>2. ASSUME NEW k, NEW n \in DOMAIN w, w[n].key = k
      PROVE  Count(w, k) > 0
  <2> DEFINE S == {m \in DOMAIN w : w[m].key = k}
  <2>1. S \in SUBSET DOMAIN w /\ n \in S
    BY <1>2
  <2> HIDE DEF S
  <2>2. IsFiniteSet(S)
    BY <1>1, <2>1, FS_Subset
  <2>3. Cardinality(S) \in Nat /\ Cardinality(S) # 0
    BY <2>1, <2>2, FS_CardinalityType, FS_EmptySet
  <2>4. QED
    BY <2>3 DEF Count, S
<1>3. MemoryExecCombo(w)
  BY <1>2 DEF MemoryExecCombo
<1>4. PICK r : r = "exec memory"
  OBVIOUS
<1>5. r \in Reasons(w) /\ Weight(r) = 4
  BY <1>3, <1>4 DEF Reasons, CountReasons, Weight
<1> HIDE <1>4
<1>6. QED
  BY <1>5, ReasonScores
-----------------------------------------------------------------------------
(* An event that was handled has been overtaken, or is still in its window, *)
(* or is so old that the next line of its PID overtakes it.                 *)
HeldOrPast ==
  \A e \in handled :
    \/ e \in overtaken
    \/ \E i \in DOMAIN window[e.pid] : window[e.pid][i] = e
    \/ e.ts + WindowLen + Lag < now

(* The cooldown runs from an alert. *)
CooldownBacked ==
  \A p \in Pids : lastAlert[p] # NoAlert =>
    \E i \in DOMAIN alertTimes[p] : alertTimes[p][i] = lastAlert[p]

NothingHeldBack == pc = "poll" => batch = <<>>

PairInv ==
  KeepInv /\ HeldOrPast /\ CooldownBacked /\ NothingHeldBack

LEMMA PairInvInit == Init => PairInv
BY KeepInvInit DEF Init, PairInv, HeldOrPast, CooldownBacked, NothingHeldBack

(* The line a step handles, the window it makes of it and what becomes of   *)
(* the variables that pairs depend on.                                      *)
LEMMA HandleLineStep ==
  ASSUME AlertInv, HandleLine
  PROVE  \E g \in LoggedEvent, w \in Seq(LoggedEvent) :
           /\ g = Head(batch)
           /\ g.pid \in Pids /\ g.ts \in Nat /\ g.ts <= now /\ now <= g.ts + Lag
           /\ handled' = handled \cup {g} /\ now' = now
           /\ overtaken' = overtaken \cup
                {x \in handled : x.pid = g.pid /\ x.ts < g.ts - WindowLen}
           /\ \A q \in Pids : window'[q] = IF q = g.pid THEN w ELSE window[q]
           /\ \E i \in DOMAIN w : w[i] = g
           /\ \A i \in DOMAIN window[g.pid] : window[g.pid][i].ts >= g.ts - WindowLen
                => \E j \in DOMAIN w : w[j] = window[g.pid][i]
           /\ \A q \in Pids :
                \/ alertTimes'[q] = alertTimes[q] /\ lastAlert'[q] = lastAlert[q]
                \/ alertTimes'[q] = Append(alertTimes[q], now) /\ lastAlert'[q] = now
           /\ Score(w) >= AlertScore =>
                \/ alertTimes'[g.pid] = Append(alertTimes[g.pid], now)
                \/ InCooldown(g.pid)
<1> DEFINE g == Head(batch)
           p == g.pid
           v == Append(window[p], g)
           before == g.ts - WindowLen
           w == Expire(v, before)
           alert == Score(w) >= AlertScore /\ ~InCooldown(p)
<1>1. batch # <<>> /\ batch \in Seq(LoggedEvent) /\ now \in Nat
  BY DEF HandleLine, AlertInv, AlertTypeOK
<1>2. /\ g \in LoggedEvent /\ p \in Pids
      /\ g.ts \in Nat /\ g.ts <= now /\ now <= g.ts + Lag
  <2>1. 1 \in DOMAIN batch /\ g = batch[1] /\ batch[1] \in LoggedEvent
    BY <1>1
  <2>2. QED
    BY <2>1 DEF LoggedEvent, AlertInv, LinesTimely, Timely
<1>3. /\ window' = [window EXCEPT ![p] = w]
      /\ handled' = handled \cup {g}
      /\ overtaken' = overtaken \cup {x \in handled : x.pid = p /\ x.ts < before}
      /\ lastAlert' = IF alert THEN [lastAlert EXCEPT ![p] = now] ELSE lastAlert
      /\ alertTimes' = IF alert THEN [alertTimes EXCEPT ![p] = Append(@, now)]
                                ELSE alertTimes
      /\ now' = now
  BY DEF HandleLine
<1>4. window \in [Pids -> Seq(LoggedEvent)] /\ window[p] \in Seq(LoggedEvent)
  BY <1>2 DEF AlertInv, AlertTypeOK
<1>5. before \in Int /\ before <= g.ts
  BY <1>2, ConstantTypes
<1>6. Score(w) >= AlertScore /\ ~alert => InCooldown(p)
  OBVIOUS
<1> HIDE DEF alert, g, p, before
<1>7. /\ v \in Seq(LoggedEvent)
      /\ DOMAIN v = 1..(Len(window[p]) + 1)
      /\ \A i \in 1..Len(window[p]) : v[i] = window[p][i]
      /\ DOMAIN window[p] = 1..Len(window[p]) /\ Len(window[p]) \in Nat
  BY <1>2, <1>4, AppendProperties
<1>8. w \in Seq(LoggedEvent) /\ w # <<>> /\ w[Len(w)] = g
  BY <1>2, <1>4, <1>5, ExpireKeepsLast
<1>9. ASSUME NEW j \in DOMAIN v, v[j].ts >= before
      PROVE  \E i \in DOMAIN w : w[i] = v[j]
  BY <1>5, <1>7, <1>9, ExpireKeepsFresh
<1> HIDE DEF w, v
<1>10. \A i \in DOMAIN window[p] : window[p][i].ts >= before
         => \E j \in DOMAIN w : w[j] = window[p][i]
  <2> SUFFICES ASSUME NEW i \in DOMAIN window[p], window[p][i].ts >= before
               PROVE  \E j \in DOMAIN w : w[j] = window[p][i]
    OBVIOUS
  <2>1. i \in DOMAIN v /\ v[i] = window[p][i]
    BY <1>7
  <2>2. QED
    BY <1>9, <2>1
<1>11. \A q \in Pids : window'[q] = IF q = p THEN w ELSE window[q]
  BY <1>2, <1>3, <1>4
<1>12. \E i \in DOMAIN w : w[i] = g
  BY <1>8
<1>13. lastAlert \in [Pids -> Nat \cup {NoAlert}] /\ alertTimes \in [Pids -> Seq(Nat)]
  BY DEF AlertInv, AlertTypeOK
<1>14. ASSUME NEW q \in Pids, ~(alert /\ q = p)
       PROVE  alertTimes'[q] = alertTimes[q] /\ lastAlert'[q] = lastAlert[q]
  BY <1>2, <1>3, <1>13, <1>14
<1>15. ASSUME alert
       PROVE  alertTimes'[p] = Append(alertTimes[p], now) /\ lastAlert'[p] = now
  BY <1>2, <1>3, <1>13, <1>15
<1>16. \A q \in Pids :
         \/ alertTimes'[q] = alertTimes[q] /\ lastAlert'[q] = lastAlert[q]
         \/ alertTimes'[q] = Append(alertTimes[q], now) /\ lastAlert'[q] = now
  BY <1>14, <1>15
<1>17. Score(w) >= AlertScore =>
         alertTimes'[p] = Append(alertTimes[p], now) \/ InCooldown(p)
  BY <1>6, <1>15
<1>18. g = Head(batch)
  BY DEF g
<1>19. QED
  BY <1>2, <1>3, <1>8, <1>10, <1>11, <1>12, <1>16, <1>17, <1>18 DEF p, before

LEMMA HandleLinePairs ==
  ASSUME AlertInv, PairInv, HandleLine
  PROVE  (HeldOrPast /\ CooldownBacked)'
<1>1. PICK g \in LoggedEvent, w \in Seq(LoggedEvent) :
           /\ g = Head(batch)
           /\ g.pid \in Pids /\ g.ts \in Nat /\ g.ts <= now /\ now <= g.ts + Lag
           /\ handled' = handled \cup {g} /\ now' = now
           /\ overtaken' = overtaken \cup
                {x \in handled : x.pid = g.pid /\ x.ts < g.ts - WindowLen}
           /\ \A q \in Pids : window'[q] = IF q = g.pid THEN w ELSE window[q]
           /\ \E i \in DOMAIN w : w[i] = g
           /\ \A i \in DOMAIN window[g.pid] : window[g.pid][i].ts >= g.ts - WindowLen
                => \E j \in DOMAIN w : w[j] = window[g.pid][i]
           /\ \A q \in Pids :
                \/ alertTimes'[q] = alertTimes[q] /\ lastAlert'[q] = lastAlert[q]
                \/ alertTimes'[q] = Append(alertTimes[q], now) /\ lastAlert'[q] = now
           /\ Score(w) >= AlertScore =>
                \/ alertTimes'[g.pid] = Append(alertTimes[g.pid], now)
                \/ InCooldown(g.pid)
  BY HandleLineStep
<1>2. \A x \in handled : x \in LoggedEvent /\ x.pid \in Pids /\ x.ts \in Nat
  BY DEF PairInv, KeepInv, LoggedEvent
<1>3. CooldownBacked'
  <2> SUFFICES ASSUME NEW q \in Pids, lastAlert'[q] # NoAlert
               PROVE  \E i \in DOMAIN alertTimes'[q] : alertTimes'[q][i] = lastAlert'[q]
    BY DEF CooldownBacked
  <2>1. CASE alertTimes'[q] = alertTimes[q] /\ lastAlert'[q] = lastAlert[q]
    BY <2>1 DEF PairInv, CooldownBacked
  <2>2. CASE alertTimes'[q] = Append(alertTimes[q], now) /\ lastAlert'[q] = now
    <3>1. alertTimes[q] \in Seq(Nat) /\ now \in Nat
      BY DEF AlertInv, AlertTypeOK
    <3>2. /\ Len(alertTimes[q]) + 1 \in DOMAIN alertTimes'[q]
          /\ alertTimes'[q][Len(alertTimes[q]) + 1] = now
      BY <2>2, <3>1, AppendProperties
    <3>3. QED
      BY <2>2, <3>2
  <2>3. QED
    BY <1>1, <2>1, <2>2
<1>4. ASSUME NEW x \in handled
      PROVE  \/ x \in overtaken'
             \/ \E i \in DOMAIN window'[x.pid] : window'[x.pid][i] = x
             \/ x.ts + WindowLen + Lag < now
  <2>1. CASE x \in overtaken
    BY <1>1, <2>1
  <2>2. ASSUME NEW i \in DOMAIN window[x.pid], window[x.pid][i] = x
        PROVE  \/ \E j \in DOMAIN window'[x.pid] : window'[x.pid][j] = x
               \/ x \in overtaken'
    <3>1. CASE x.pid # g.pid
      BY <1>1, <1>2, <2>2, <3>1
    <3>2. CASE x.pid = g.pid /\ x.ts >= g.ts - WindowLen
      BY <1>1, <2>2, <3>2
    <3>3. CASE x.pid = g.pid /\ x.ts < g.ts - WindowLen
      BY <1>1, <3>3
    <3>4. x.ts \in Int /\ g.ts - WindowLen \in Int
      BY <1>1, <1>2, ConstantTypes
    <3>5. QED
      BY <3>1, <3>2, <3>3, <3>4
  <2>3. QED
    BY <2>1, <2>2 DEF PairInv, HeldOrPast
<1>5. HeldOrPast'
  <2>1. \E i \in DOMAIN window'[g.pid] : window'[g.pid][i] = g
    BY <1>1
  <2>2. QED
    BY <1>1, <1>4, <2>1 DEF HeldOrPast
<1>6. QED
  BY <1>3, <1>5

(* A cleanup forgets a PID only when the next line of the PID would         *)
(* overtake its events.                                                     *)
LEMMA EndRoundPairs ==
  ASSUME 2 * Lag + WindowLen <= StaleAfter, AlertInv, PairInv, EndRound
  PROVE  (HeldOrPast /\ CooldownBacked)'
<1>1. UNCHANGED <<now, handled, overtaken, alertTimes>>
  BY DEF EndRound, histVars
<1>2. CASE ~CleanupDue
  <2>1. UNCHANGED <<window, lastAlert>>
    BY <1>2 DEF EndRound
  <2>2. QED
    BY <1>1, <2>1 DEF PairInv, HeldOrPast, CooldownBacked
<1>3. CASE CleanupDue
  <2>1. /\ window' = [p \in Pids |-> IF Stale(p) THEN <<>> ELSE window[p]]
        /\ lastAlert' = [p \in Pids |-> IF Stale(p) THEN NoAlert ELSE lastAlert[p]]
    BY <1>3 DEF EndRound
  <2>2. CooldownBacked'
    BY <1>1, <2>1 DEF PairInv, CooldownBacked
  <2>3. ASSUME NEW g \in handled, NEW i \in DOMAIN window[g.pid],
               window[g.pid][i] = g, Stale(g.pid)
        PROVE  g.ts + WindowLen + Lag < now
    <3> DEFINE p == g.pid
    <3>1. p \in Pids /\ g.ts \in Nat
      BY DEF PairInv, KeepInv, LoggedEvent
    <3>2. PICK q \in Pids : /\ window[p] # <<>> /\ window[q] # <<>>
                            /\ LastTs(p) < LastTs(q) - StaleAfter
      BY <2>3 DEF Stale
    <3>3. \A r \in {p, q} : /\ Len(window[r]) \in DOMAIN window[r]
                             /\ window[r][Len(window[r])] \in LoggedEvent
      BY <3>1, <3>2 DEF AlertInv, AlertTypeOK
    <3>4. LastTs(p) \in Nat /\ LastTs(q) \in Nat /\ LastTs(q) <= now
      BY <3>1, <3>3 DEF LastTs, LoggedEvent, AlertInv, WindowPast
    <3>5. g.ts <= LastTs(p) + Lag
      BY <2>3, <3>1 DEF PairInv, KeepInv, WindowNear
    <3>6. now \in Nat
      BY DEF AlertInv, AlertTypeOK
    <3> HIDE DEF p
    <3>7. QED
      BY <3>1, <3>2, <3>4, <3>5, <3>6, ConstantTypes
  <2>4. ASSUME NEW g \in handled, NEW i \in DOMAIN window[g.pid],
               window[g.pid][i] = g, ~Stale(g.pid)
        PROVE  \E j \in DOMAIN window'[g.pid] : window'[g.pid][j] = g
    <3>1. g.pid \in Pids
      BY DEF PairInv, KeepInv, LoggedEvent
    <3>2. window'[g.pid] = window[g.pid]
      BY <2>1, <2>4, <3>1
    <3>3. QED
      BY <2>4, <3>2
  <2>5. HeldOrPast'
    BY <1>1, <2>3, <2>4 DEF PairInv, HeldOrPast
  <2>6. QED
    BY <2>2, <2>5
<1>4. QED
  BY <1>2, <1>3

LEMMA PairInvInductive ==
  ASSUME 2 * Lag + WindowLen <= StaleAfter
  PROVE  AlertInv /\ PairInv /\ [Next]_vars => PairInv'
<1> SUFFICES ASSUME AlertInv, PairInv, [Next]_vars
             PROVE  PairInv'
  OBVIOUS
<1>1. KeepInv'
  <2>1. Lag + WindowLen <= StaleAfter
    BY ConstantTypes
  <2>2. QED
    BY <2>1, KeepInvInductive DEF PairInv
<1>2. CASE Tick
  <2>1. /\ now \in Nat /\ now' = now + 1
        /\ UNCHANGED <<window, handled, overtaken, lastAlert, alertTimes, pc, batch>>
    BY <1>2 DEF Tick, loopVars, histVars, AlertInv, AlertTypeOK
  <2>2. \A g \in handled : g.ts \in Nat
    BY DEF PairInv, KeepInv, LoggedEvent
  <2>3. \A g \in handled : g.ts + WindowLen + Lag < now => g.ts + WindowLen + Lag < now'
    BY <2>1, <2>2, ConstantTypes
  <2>4. HeldOrPast'
    BY <2>1, <2>3 DEF PairInv, HeldOrPast
  <2>5. QED
    BY <1>1, <2>1, <2>4 DEF PairInv, CooldownBacked, NothingHeldBack
<1>3. CASE \/ \E p \in Pids, k \in EmitKeys : Emit(p, k)
           \/ \E p \in Pids : Exit(p)
           \/ \E p \in Pids, c \in Classes : Reuse(p, c)
           \/ PollFile \/ (\E l \in Looks : Look(l)) \/ Kill \/ NextFile
           \/ UNCHANGED vars
  <2>1. UNCHANGED <<now, window, handled, overtaken, lastAlert, alertTimes>>
    BY <1>3 DEF Emit, Exit, Reuse, PollFile, Look, Kill, NextFile, vars,
       loopVars, histVars
  <2>2. NothingHeldBack'
    <3>1. CASE PollFile \/ (\E l \in Looks : Look(l)) \/ Kill
      <4>1. pc' # "poll"
        BY <3>1 DEF PollFile, Look, Kill, NextLook, Looks
      <4>2. QED
        BY <4>1 DEF NothingHeldBack
    <3>2. CASE NextFile
      BY <3>2 DEF NextFile, NothingHeldBack
    <3>3. CASE \/ \E p \in Pids, k \in EmitKeys : Emit(p, k)
               \/ \E p \in Pids : Exit(p)
               \/ \E p \in Pids, c \in Classes : Reuse(p, c)
               \/ UNCHANGED vars
      BY <3>3 DEF Emit, Exit, Reuse, vars, loopVars, PairInv, NothingHeldBack
    <3>4. QED
      BY <1>3, <3>1, <3>2, <3>3
  <2>3. QED
    BY <1>1, <2>1, <2>2 DEF PairInv, HeldOrPast, CooldownBacked
<1>4. CASE HandleLine
  <2>1. pc' # "poll"
    BY <1>4 DEF HandleLine
  <2>2. QED
    BY <1>1, <1>4, <2>1, HandleLinePairs DEF PairInv, NothingHeldBack
<1>5. CASE EndRound
  <2>1. batch' = <<>>
    BY <1>5 DEF EndRound
  <2>2. QED
    BY <1>1, <1>5, <2>1, EndRoundPairs DEF PairInv, NothingHeldBack
<1>6. QED
  BY <1>2, <1>3, <1>4, <1>5 DEF Next, World, Loop

(* Only HandleLine takes a line from the batch. *)
LEMMA HandlesIsHandleLine ==
  ASSUME AlertInv, PairInv, [Next]_vars, NEW p, Handles(p)
  PROVE  HandleLine
<1>1. batch \in Seq(LoggedEvent) /\ batch # <<>>
  BY DEF AlertInv, AlertTypeOK, Handles
<1>2. batch' # batch
  <2>1. Len(Tail(batch)) = Len(batch) - 1 /\ Len(batch) \in Nat
    BY <1>1, HeadTailProperties
  <2>2. Tail(batch) # batch
    BY <2>1
  <2>3. QED
    BY <2>2 DEF Handles
<1>3. ~(\/ Tick \/ (\E q \in Pids, k \in EmitKeys : Emit(q, k))
        \/ (\E q \in Pids : Exit(q))
        \/ (\E q \in Pids, c \in Classes : Reuse(q, c))
        \/ (\E l \in Looks : Look(l)) \/ Kill \/ UNCHANGED vars)
  BY <1>2 DEF Tick, Emit, Exit, Reuse, Look, Kill, vars, loopVars
<1>4. ~(PollFile \/ NextFile \/ EndRound)
  BY <1>1 DEF PollFile, NextFile, EndRound, PairInv, NothingHeldBack
<1>5. QED
  BY <1>3, <1>4 DEF Next, World, Loop

(* What was not overtaken is in the window that the step scores. *)
LEMMA PairAlerts ==
  ASSUME AlertScore <= 4, AlertInv, PairInv, PairInv', [Next]_vars,
         NEW e \in handled' \ overtaken', NEW f \in handled' \ overtaken',
         e.key = "memory.mmap", f.key = "memory.mprotect",
         e.pid = f.pid, Handles(e.pid)
  PROVE  \/ alertTimes'[e.pid] = Append(alertTimes[e.pid], now)
         \/ \E i \in DOMAIN alertTimes[e.pid] :
              now - alertTimes[e.pid][i] < Cooldown
<1>1. HandleLine
  BY HandlesIsHandleLine
<1>2. PICK g \in LoggedEvent, w \in Seq(LoggedEvent) :
           /\ g = Head(batch)
           /\ g.pid \in Pids /\ g.ts \in Nat /\ g.ts <= now /\ now <= g.ts + Lag
           /\ handled' = handled \cup {g} /\ now' = now
           /\ overtaken' = overtaken \cup
                {x \in handled : x.pid = g.pid /\ x.ts < g.ts - WindowLen}
           /\ \A q \in Pids : window'[q] = IF q = g.pid THEN w ELSE window[q]
           /\ \E i \in DOMAIN w : w[i] = g
           /\ \A i \in DOMAIN window[g.pid] : window[g.pid][i].ts >= g.ts - WindowLen
                => \E j \in DOMAIN w : w[j] = window[g.pid][i]
           /\ \A q \in Pids :
                \/ alertTimes'[q] = alertTimes[q] /\ lastAlert'[q] = lastAlert[q]
                \/ alertTimes'[q] = Append(alertTimes[q], now) /\ lastAlert'[q] = now
           /\ Score(w) >= AlertScore =>
                \/ alertTimes'[g.pid] = Append(alertTimes[g.pid], now)
                \/ InCooldown(g.pid)
  BY <1>1, HandleLineStep
<1>3. g.pid = e.pid /\ g.pid = f.pid
  BY <1>2 DEF Handles
<1>4. /\ now \in Nat /\ AlertScore \in Nat /\ WindowLen \in Nat /\ Lag \in Nat
      /\ g.ts \in Nat /\ now <= g.ts + Lag
  BY <1>2, DetectorAssumption DEF AlertInv, AlertTypeOK
<1>5. ASSUME NEW x \in handled', x \notin overtaken', x.pid = g.pid
      PROVE  \E i \in DOMAIN w : w[i] = x
  <2>1. x.ts \in Nat
    BY <1>5 DEF PairInv, KeepInv, LoggedEvent
  <2>2. CASE \E i \in DOMAIN window'[x.pid] : window'[x.pid][i] = x
    BY <1>2, <1>5, <2>2
  <2>3. CASE x.ts + WindowLen + Lag < now
    <3>1. x.ts < g.ts - WindowLen
      BY <1>4, <2>1, <2>3
    <3>2. x.ts # g.ts
      BY <1>4, <2>1, <3>1
    <3>3. x \in overtaken'
      BY <1>2, <1>5, <3>1, <3>2
    <3>4. QED
      BY <1>5, <3>3
  <2>4. QED
    BY <1>2, <1>5, <2>2, <2>3 DEF PairInv, HeldOrPast
<1>6. PICK i \in DOMAIN w : w[i] = e
  BY <1>3, <1>5
<1>7. PICK j \in DOMAIN w : w[j] = f
  BY <1>3, <1>5
<1>8. Score(w) \in Nat /\ Score(w) >= 4
  BY <1>6, <1>7, PairScores
<1>9. Score(w) >= AlertScore
  BY <1>4, <1>8
<1>10. CASE InCooldown(g.pid)
  <2>1. lastAlert[g.pid] # NoAlert /\ now - lastAlert[g.pid] < Cooldown
    BY <1>10 DEF InCooldown
  <2>2. PICK n \in DOMAIN alertTimes[g.pid] : alertTimes[g.pid][n] = lastAlert[g.pid]
    BY <1>2, <2>1 DEF PairInv, CooldownBacked
  <2>3. QED
    BY <1>3, <2>1, <2>2
<1>11. QED
  BY <1>2, <1>3, <1>9, <1>10

(* With the default --alert-score of 4, and while no line is handled later  *)
(* after its timestamp than cleanup allows for: an mmap and an mprotect of  *)
(* one PID raise an alert with the line that completes them and with every  *)
(* further one, in whatever order they are read, until a line newer by more *)
(* than the window has followed one of them, unless an alert raised less    *)
(* than the cooldown ago keeps it back (main of realtime_blocker.py).       *)
THEOREM PairDetectedCorrect ==
  ASSUME AlertScore <= 4, 2 * Lag + WindowLen <= StaleAfter
  PROVE  Spec => PairDetected
<1>1. AlertInv /\ PairInv /\ [Next]_vars => PairInv'
  BY PairInvInductive
<1>2. AlertInv /\ PairInv /\ PairInv' /\ [Next]_vars
        => [\A e, f \in handled' \ overtaken' :
              /\ e.key = "memory.mmap" /\ f.key = "memory.mprotect"
              /\ e.pid = f.pid /\ Handles(e.pid)
              => \/ alertTimes'[e.pid] = Append(alertTimes[e.pid], now)
                 \/ \E i \in DOMAIN alertTimes[e.pid] :
                      now - alertTimes[e.pid][i] < Cooldown]_vars
  BY PairAlerts
<1>3. QED
  BY AlertInvInit, AlertInvInductive, PairInvInit, <1>1, <1>2, PTL
     DEF Spec, PairDetected
-----------------------------------------------------------------------------
(* What no other argument needs of the types. *)
Signal == [pid : Pids, inst : Nat, class : Classes, met : SUBSET Looks,
           most : BOOLEAN, own : BOOLEAN]

RestTypes ==
  /\ written \in Nat /\ lastCleanup \in Nat
  /\ handled \subseteq LoggedEvent /\ overtaken \subseteq handled
  /\ signalled \subseteq Signal

LEMMA KillTypes ==
  ASSUME AlertInv, SpareInv, RestTypes, Kill
  PROVE  signalled' \subseteq Signal
<1> DEFINE q == proc[target]
           w == window[target]
           met == {l \in Looks : looks[l] = q.inst}
           most == MostOwn(w, target)
           own == \A i \in DOMAIN w : w[i].inst = q.inst
           s == [pid |-> target, inst |-> q.inst, class |-> q.class,
                 met |-> met, most |-> most, own |-> own]
<1>1. target \in Pids
  BY DEF SpareInv, SafetyTypeOK
<1>2. q \in Process
  BY <1>1 DEF SpareInv
<1>3. q.inst \in Nat /\ q.class \in Classes
  BY <1>2 DEF Process
<1>4. met \in SUBSET Looks /\ most \in BOOLEAN /\ own \in BOOLEAN
  BY DEF MostOwn
<1>5. signalled' \subseteq signalled \cup {s}
  BY DEF Kill
<1> HIDE DEF met, most, own, q
<1>6. s \in Signal
  BY <1>1, <1>3, <1>4 DEF Signal
<1>7. QED
  BY <1>5, <1>6 DEF RestTypes

LEMMA RestInductive ==
  AlertInv /\ SpareInv /\ RestTypes /\ [Next]_vars => RestTypes'
<1> SUFFICES ASSUME AlertInv, SpareInv, RestTypes, [Next]_vars
             PROVE  RestTypes'
  OBVIOUS
<1>1. CASE \/ Tick \/ \E p \in Pids, k \in EmitKeys : Emit(p, k)
           \/ \E p \in Pids : Exit(p)
           \/ \E p \in Pids, c \in Classes : Reuse(p, c)
           \/ PollFile \/ NextFile \/ (\E l \in Looks : Look(l))
           \/ UNCHANGED vars
  BY <1>1 DEF Tick, Emit, Exit, Reuse, PollFile, NextFile, Look, vars,
     loopVars, histVars, RestTypes
<1>2. CASE HandleLine
  <2>1. Head(batch) \in LoggedEvent
    BY <1>2, HeadTailProperties DEF HandleLine, AlertInv, AlertTypeOK
  <2>2. /\ handled' = handled \cup {Head(batch)}
        /\ overtaken' \subseteq overtaken \cup handled
        /\ UNCHANGED <<written, lastCleanup, signalled>>
    BY <1>2 DEF HandleLine
  <2>3. QED
    BY <2>1, <2>2 DEF RestTypes
<1>3. CASE Kill
  <2>1. UNCHANGED <<written, lastCleanup, handled, overtaken>>
    BY <1>3 DEF Kill
  <2>2. QED
    BY <1>3, <2>1, KillTypes DEF RestTypes
<1>4. CASE EndRound
  <2>1. lastCleanup' \in {lastCleanup, now}
    BY <1>4 DEF EndRound
  <2>2. UNCHANGED <<written, handled, overtaken, signalled>>
    BY <1>4 DEF EndRound, histVars
  <2>3. QED
    BY <2>1, <2>2 DEF AlertInv, AlertTypeOK, RestTypes
<1>5. QED
  BY <1>1, <1>2, <1>3, <1>4 DEF Next, World, Loop

(* Every variable of the loop and of the world around it keeps its type     *)
(* (main of realtime_blocker.py).                                           *)
THEOREM TypeCorrect == Spec => []TypeOK
<1>1. Init => RestTypes
  BY ConstantTypes DEF Init, RestTypes
<1>2. AlertInv /\ SpareInv /\ RestTypes => TypeOK
  BY DEF AlertInv, AlertTypeOK, SpareInv, SafetyTypeOK, RestTypes, Signal, TypeOK
<1>3. QED
  BY AlertInvInit, AlertInvInductive, SpareInvInit, SpareInvInductive,
     RestInductive, <1>1, <1>2, PTL DEF Spec
=============================================================================
