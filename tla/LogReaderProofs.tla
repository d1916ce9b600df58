-------------------------- MODULE LogReaderProofs --------------------------
(***************************************************************************)
(* What the two readers of a log guarantee for every bound and every       *)
(* setting of the flags.  The follower returns no line twice unless the    *)
(* path was renamed and recreated between stat and open, it never returns  *)
(* a line it has passed over and, without truncation, it skips nothing and *)
(* keeps the promise of LogTail.  The shipper sends the lines in the order *)
(* of the log and none twice, and it leaves out none of a content it has   *)
(* met, but those before the position from which it met it.                *)
(***************************************************************************)
EXTENDS LogShipper, TLAPS

LEMMA LinesOfElements ==
  ASSUME NEW g \in Nat, NEW from \in Nat, NEW to \in Nat,
         NEW l \in LinesOf(g, from, to)
  PROVE  l \in Line /\ l[1] = g /\ l[2] > from /\ l[2] <= to
BY DEF LinesOf, Line

LEMMA LinesOfMembers ==
  ASSUME NEW g \in Nat, NEW from \in Nat, NEW to \in Nat,
         NEW i \in (from + 1)..to
  PROVE  <<g, i>> \in LinesOf(g, from, to)
BY DEF LinesOf

LEMMA TypeInductive == TypeOK /\ [TruncNext]_vars => TypeOK'
<1> SUFFICES ASSUME TypeOK, [TruncNext]_vars
             PROVE  TypeOK'
  OBVIOUS
<1> USE DEF TypeOK
<1>1. CASE Create
  BY <1>1 DEF Create, history
<1>2. CASE AppendLine
  BY <1>2 DEF AppendLine, history
<1>3. CASE Rotate
  <2>1. /\ present' = FALSE /\ gen' = gen + 1 /\ size' = 0
        /\ UNCHANGED <<ino, pc, fIno, offset, history>>
    BY <1>3 DEF Rotate
  <2>2. present' \in BOOLEAN
    BY <2>1
  <2>3. /\ gen' \in Nat /\ size' \in Nat
        /\ UNCHANGED <<ino, pc, fIno, offset, delivered, skipped, dups, torn>>
    BY <2>1 DEF history
  <2>4. QED
    BY <2>2, <2>3
<1>4. CASE Truncate
  BY <1>4 DEF Truncate, history
<1>5. CASE CheckExists
  BY <1>5 DEF CheckExists, fileVars, history
<1>6. CASE Vanished
  BY <1>6 DEF Vanished, fileVars, history
<1>7. CASE SkipToEnd
  <2>1. LinesOf(gen, 0, size) \subseteq Line
    BY LinesOfElements
  <2>2. QED
    BY <1>7, <2>1 DEF SkipToEnd, fileVars
<1>8. CASE StatFile
  BY <1>8 DEF StatFile, OffsetAfterStat, fileVars, history
<1>9. CASE ReadLines
  <2>1. LinesOf(gen, offset, size) \subseteq Line
    BY LinesOfElements
  <2>2. QED
    BY <1>9, <2>1 DEF ReadLines, fileVars
<1>10. CASE UNCHANGED vars
  BY <1>10 DEF vars, fileVars, history
<1>11. QED
  BY <1>1, <1>2, <1>3, <1>4, <1>5, <1>6, <1>7, <1>8, <1>9, <1>10
     DEF TruncNext, Next, Writers, Follower

LEMMA TypeInit == Init => TypeOK
<1> SUFFICES ASSUME Init
             PROVE  TypeOK
  OBVIOUS
<1>1. size \in Nat
  BY FollowerAssumption DEF Init
<1>2. LinesOf(1, 0, size) \subseteq Line
  BY <1>1, LinesOfElements
<1>3. QED
  BY <1>1, <1>2 DEF Init, TypeOK, NoInode

(* Every state of the follower and of its file has its type, also when the  *)
(* log is truncated, as in the next two theorems.                           *)
THEOREM TypeCorrect == TruncSpec => []TypeOK
BY TypeInit, TypeInductive, PTL DEF TruncSpec
-----------------------------------------------------------------------------
(* The inductive invariant behind the two "no line twice" properties.      *)

(* self.inode is set before the file is opened, names a file the path has   *)
(* held, and nothing is returned before it is set.                          *)
InodeSane ==
  /\ present => ino # 0
  /\ fIno <= ino
  /\ pc = "open" => fIno # NoInode
  /\ fIno = NoInode => delivered = {}

(* No line of a content the path has not held yet has been seen. *)
NoFutureLine ==
  \A l \in delivered \cup skipped :
    l[1] <= gen /\ (l[1] = gen => present)

(* On the file of the path, what was returned lies behind the offset; a     *)
(* file the follower is not on has returned nothing.                        *)
DeliveredBehind ==
  \A l \in delivered :
    l[1] = gen /\ gen \notin torn =>
      fIno = ino /\ l[2] <= offset /\ offset <= size

(* What was passed over lies behind the offset, whether torn or not. *)
SkippedBehind ==
  \A l \in skipped :
    l[1] = gen => fIno = ino /\ l[2] <= offset /\ offset <= size

ReadInv ==
  /\ TypeOK
  /\ InodeSane
  /\ NoFutureLine
  /\ DeliveredBehind
  /\ SkippedBehind
  /\ ExactlyOnceUnlessTorn
  /\ HistoryStaysIgnored

LEMMA ReadInvInit == Init => ReadInv
BY TypeInit DEF Init, ReadInv, InodeSane, NoFutureLine, DeliveredBehind,
   SkippedBehind, ExactlyOnceUnlessTorn, HistoryStaysIgnored, NoInode, TypeOK

LEMMA ReadInvInductive == ReadInv /\ [TruncNext]_vars => ReadInv'
<1> SUFFICES ASSUME ReadInv, [TruncNext]_vars
             PROVE  ReadInv'
  OBVIOUS
<1>0. TypeOK'
  BY TypeInductive DEF ReadInv
<1> USE DEF ReadInv
<1>1. CASE Create
  BY <1>1, <1>0 DEF Create, history, TypeOK, InodeSane, NoFutureLine,
     DeliveredBehind, SkippedBehind, ExactlyOnceUnlessTorn,
     HistoryStaysIgnored, Line, NoInode
<1>2. CASE AppendLine
  BY <1>2, <1>0 DEF AppendLine, history, TypeOK, InodeSane, NoFutureLine,
     DeliveredBehind, SkippedBehind, ExactlyOnceUnlessTorn,
     HistoryStaysIgnored, Line, NoInode
<1>3. CASE Rotate
  BY <1>3, <1>0 DEF Rotate, history, TypeOK, InodeSane, NoFutureLine,
     DeliveredBehind, SkippedBehind, ExactlyOnceUnlessTorn,
     HistoryStaysIgnored, Line, NoInode
<1>4. CASE Truncate
  BY <1>4, <1>0 DEF Truncate, history, TypeOK, InodeSane, NoFutureLine,
     DeliveredBehind, SkippedBehind, ExactlyOnceUnlessTorn,
     HistoryStaysIgnored, Line, NoInode
<1>5. CASE CheckExists
  BY <1>5, <1>0 DEF CheckExists, fileVars, history, TypeOK, InodeSane,
     NoFutureLine, DeliveredBehind, SkippedBehind, ExactlyOnceUnlessTorn,
     HistoryStaysIgnored
<1>6. CASE Vanished
  BY <1>6, <1>0 DEF Vanished, fileVars, history, TypeOK, InodeSane,
     NoFutureLine, DeliveredBehind, SkippedBehind, ExactlyOnceUnlessTorn,
     HistoryStaysIgnored
<1>7. CASE SkipToEnd
  <2>1. \A l \in LinesOf(gen, 0, size) :
          l \in Line /\ l[1] = gen /\ l[2] <= size
    BY LinesOfElements DEF TypeOK
  <2>2. delivered = {} /\ delivered' = {}
    BY <1>7 DEF SkipToEnd, InodeSane
  <2>3. InodeSane' /\ HistoryStaysIgnored' /\ ExactlyOnceUnlessTorn'
    BY <1>7, <2>2 DEF SkipToEnd, fileVars, TypeOK, InodeSane,
       HistoryStaysIgnored, ExactlyOnceUnlessTorn
  <2>4. NoFutureLine' /\ DeliveredBehind'
    BY <1>7, <2>1, <2>2 DEF SkipToEnd, fileVars, TypeOK, NoFutureLine,
       DeliveredBehind, Line
  <2>5. SkippedBehind'
    BY <1>7, <2>1 DEF SkipToEnd, fileVars, TypeOK, SkippedBehind, InodeSane,
       Line
  <2>6. QED
    BY <1>0, <2>3, <2>4, <2>5
<1>8. CASE StatFile
  <2>1. UNCHANGED <<fileVars, history>> /\ fIno' = ino /\ pc' = "open"
    BY <1>8 DEF StatFile
  <2>2. InodeSane' /\ NoFutureLine'
    BY <1>8, <2>1 DEF StatFile, fileVars, history, TypeOK, InodeSane,
       NoFutureLine, NoInode
  <2>3. ExactlyOnceUnlessTorn' /\ HistoryStaysIgnored'
    BY <2>1 DEF history, ExactlyOnceUnlessTorn, HistoryStaysIgnored
  <2>4. DeliveredBehind'
    BY <1>8, <2>1 DEF StatFile, OffsetAfterStat, fileVars, history, TypeOK,
       InodeSane, DeliveredBehind, NoInode, Line
  <2>5. SkippedBehind'
    BY <1>8, <2>1 DEF StatFile, OffsetAfterStat, fileVars, history, TypeOK,
       InodeSane, SkippedBehind, NoInode, Line
  <2>6. QED
    BY <1>0, <2>2, <2>3, <2>4, <2>5
<1>9. CASE ReadLines
  <2> DEFINE batch == LinesOf(gen, offset, size)
  <2>1. \A l \in batch : /\ l \in Line /\ l[1] = gen
                         /\ l[2] > offset /\ l[2] <= size
    BY LinesOfElements DEF TypeOK
  <2>2. /\ delivered' = delivered \cup batch
        /\ dups' = dups \cup (delivered \cap batch)
        /\ offset' = (IF size > offset THEN size ELSE offset)
        /\ torn' = (IF fIno = ino THEN torn ELSE torn \cup {gen})
        /\ present /\ pc = "open" /\ pc' = "idle"
        /\ UNCHANGED <<present, ino, gen, size, fIno, skipped>>
    BY <1>9 DEF ReadLines, fileVars
  <2> HIDE DEF batch
  <2>3. InodeSane' /\ NoFutureLine'
    BY <2>1, <2>2 DEF InodeSane, NoFutureLine, TypeOK
  <2>4. DeliveredBehind'
    BY <2>1, <2>2 DEF DeliveredBehind, TypeOK, Line
  <2>5. SkippedBehind'
    BY <2>2 DEF SkippedBehind, TypeOK, Line
  <2>6. ExactlyOnceUnlessTorn'
    BY <2>1, <2>2 DEF ExactlyOnceUnlessTorn, DeliveredBehind, TypeOK, Line
  <2>7. HistoryStaysIgnored'
    BY <2>1, <2>2 DEF HistoryStaysIgnored, SkippedBehind, TypeOK, Line
  <2>8. QED
    BY <1>0, <2>3, <2>4, <2>5, <2>6, <2>7
<1>10. CASE UNCHANGED vars
  BY <1>10, <1>0 DEF vars, fileVars, history, TypeOK, InodeSane,
     NoFutureLine, DeliveredBehind, SkippedBehind, ExactlyOnceUnlessTorn,
     HistoryStaysIgnored
<1>11. QED
  BY <1>1, <1>2, <1>3, <1>4, <1>5, <1>6, <1>7, <1>8, <1>9, <1>10
     DEF TruncNext, Next, Writers, Follower

(* Whatever is renamed, recreated or truncated and whenever, the follower   *)
(* returns a line twice only of a content it opened in place of the file it *)
(* had stat'ed.                                                             *)
THEOREM ExactlyOnceCorrect == TruncSpec => []ExactlyOnceUnlessTorn
BY ReadInvInit, ReadInvInductive, PTL DEF TruncSpec, ReadInv

(* Under start_at_end a line that was passed over stays so. *)
THEOREM HistoryIgnoredCorrect == TruncSpec => []HistoryStaysIgnored
BY ReadInvInit, ReadInvInductive, PTL DEF TruncSpec, ReadInv
-----------------------------------------------------------------------------
(* Without truncation the offset stays inside the file and nothing before   *)
(* it was missed.  NothingSkipped is inductive once the file of the path    *)
(* and the file of the follower are known to be one when their inodes are.  *)
OffsetInside ==
  /\ present /\ fIno = ino => offset <= size
  /\ ~present => size = 0

SkipInv == ReadInv /\ OffsetInside /\ NothingSkipped

LEMMA SkipInvInit == Init => SkipInv
BY ReadInvInit DEF Init, SkipInv, OffsetInside, NothingSkipped, NoInode

LEMMA SkipInvInductive == SkipInv /\ [Next]_vars => SkipInv'
<1> SUFFICES ASSUME SkipInv, [Next]_vars
             PROVE  OffsetInside' /\ NothingSkipped'
  BY ReadInvInductive DEF SkipInv, TruncNext
<1>0. TypeOK /\ InodeSane /\ OffsetInside /\ NothingSkipped
  BY DEF SkipInv, ReadInv
<1> USE DEF OffsetInside, NothingSkipped
<1>1. CASE Create
  BY <1>0, <1>1 DEF Create, history, InodeSane, TypeOK
<1>2. CASE AppendLine
  BY <1>0, <1>2 DEF AppendLine, history, TypeOK
<1>3. CASE Rotate
  BY <1>3 DEF Rotate
<1>5. CASE CheckExists
  BY <1>0, <1>5 DEF CheckExists, fileVars, history
<1>6. CASE Vanished
  BY <1>0, <1>6 DEF Vanished, fileVars, history
<1>7. CASE SkipToEnd
  <2>1. \A i \in 1..size : <<gen, i>> \in LinesOf(gen, 0, size)
    BY <1>0, LinesOfMembers DEF TypeOK
  <2>2. QED
    BY <1>0, <1>7, <2>1 DEF SkipToEnd, fileVars, TypeOK
<1>8. CASE StatFile
  BY <1>0, <1>8 DEF StatFile, OffsetAfterStat, fileVars, history, TypeOK,
     InodeSane, NoInode
<1>9. CASE ReadLines
  <2>1. \A i \in (offset + 1)..size : <<gen, i>> \in LinesOf(gen, offset, size)
    BY <1>0, LinesOfMembers DEF TypeOK
  <2>2. /\ delivered' = delivered \cup LinesOf(gen, offset, size)
        /\ offset' = (IF size > offset THEN size ELSE offset)
        /\ UNCHANGED <<present, ino, gen, size, fIno, skipped>>
    BY <1>9 DEF ReadLines, fileVars
  <2>3. QED
    BY <1>0, <2>1, <2>2 DEF TypeOK
<1>10. CASE UNCHANGED vars
  BY <1>0, <1>10 DEF vars, fileVars, history
<1>11. QED
  BY <1>1, <1>2, <1>3, <1>5, <1>6, <1>7, <1>8, <1>9, <1>10
     DEF Next, Writers, Follower

(* Rotation, late creation and appends at any moment never make the         *)
(* follower pass a line by: only truncation in place can.                   *)
THEOREM NothingSkippedCorrect == Spec => []NothingSkipped
<1>1. Init => SkipInv
  BY SkipInvInit
<1>2. SkipInv /\ [Next]_vars => SkipInv'
  BY SkipInvInductive
<1>3. SkipInv => NothingSkipped
  BY DEF SkipInv
<1>4. QED
  BY <1>1, <1>2, <1>3, PTL DEF Spec
-----------------------------------------------------------------------------
(* Each step of the follower and of the file's owners is a step of LogTail. *)

LEMMA TailInit == Init => LogView!Init
BY FollowerAssumption
   DEF Init, LogView!Init, TailPosition, NoInode

LEMMA TailStep ==
  ASSUME SkipInv, SkipInv', [Next]_vars
  PROVE  [LogView!Next]_(LogView!tailVars)
<1>0. TypeOK /\ InodeSane /\ OffsetInside /\ NothingSkipped
  BY DEF SkipInv, ReadInv
<1> USE DEF TailPosition, LogView!tailVars, LogView!Next
<1>1. CASE Create
  <2>1. TailPosition = 0 /\ TailPosition' = 0 /\ size' = size
    BY <1>0, <1>1 DEF Create, OffsetInside, InodeSane, TypeOK
  <2>2. QED
    BY <2>1, <1>1 DEF Create, history
<1>2. CASE AppendLine
  BY <1>0, <1>2 DEF AppendLine, history, LogView!Write
<1>3. CASE Rotate
  BY <1>0, <1>3 DEF Rotate, history, LogView!NewContent
<1>5. CASE CheckExists
  BY <1>0, <1>5 DEF CheckExists, fileVars, history
<1>6. CASE Vanished
  BY <1>0, <1>6 DEF Vanished, fileVars, history, LogView!Die
<1>7. CASE SkipToEnd
  <2>1. LogView!HandOver
    <3>1. TailPosition = 0 /\ TailPosition' = size
      BY <1>0, <1>7 DEF SkipToEnd, fileVars, InodeSane, NoInode
    <3>2. (delivered \cup skipped)' =
            (delivered \cup skipped) \cup LogView!Lines(0, size)
      BY <1>7 DEF SkipToEnd, LinesOf, LogView!Lines
    <3>3. 0 \in 0..size /\ size \in 0..size
      BY <1>0 DEF TypeOK
    <3>4. LogView!Lines(0, size) \subseteq (delivered \cup skipped)'
      BY <3>2
    <3>5. UNCHANGED <<gen, size>> /\ pc # "dead" /\ pc' # "dead"
      BY <1>7 DEF SkipToEnd, fileVars
    <3>6. QED
      BY <3>1, <3>2, <3>3, <3>4, <3>5 DEF LogView!HandOver
  <2>2. QED
    BY <2>1
<1>8. CASE StatFile
  <2>1. /\ present /\ fIno' = ino /\ offset' = OffsetAfterStat
        /\ UNCHANGED <<present, ino, gen, size, delivered, skipped>>
        /\ pc # "dead" /\ pc' # "dead"
    BY <1>8 DEF StatFile, fileVars, history
  <2>2. TailPosition' = TailPosition
    BY <1>0, <2>1 DEF OffsetAfterStat, OffsetInside, TypeOK, InodeSane, NoInode
  <2>3. QED
    BY <2>1, <2>2
<1>9. CASE ReadLines
  <2>1. /\ delivered' = delivered \cup LinesOf(gen, offset, size)
        /\ offset' = (IF size > offset THEN size ELSE offset)
        /\ present /\ pc = "open" /\ pc' = "idle"
        /\ UNCHANGED <<present, ino, gen, size, fIno, skipped>>
    BY <1>9 DEF ReadLines, fileVars
  <2>2. CASE size < offset
    <3>1. LinesOf(gen, offset, size) = {}
      BY <1>0, <2>2 DEF LinesOf, TypeOK
    <3>2. QED
      BY <1>0, <2>1, <2>2, <3>1 DEF TypeOK
  <2>3. CASE offset <= size
    <3>1. (delivered \cup skipped)' =
            (delivered \cup skipped) \cup LogView!Lines(offset, size)
      BY <2>1 DEF LinesOf, LogView!Lines
    <3>2. offset \in 0..size /\ TailPosition' \in TailPosition..size
      BY <1>0, <2>1, <2>3 DEF TypeOK
    <3>3. LogView!Lines(0, TailPosition') \subseteq (delivered \cup skipped)'
      <4>1. \A i \in 1..TailPosition' : <<gen, i>> \in (delivered \cup skipped)'
        BY <2>1 DEF SkipInv, NothingSkipped
      <4>2. QED
        BY <4>1 DEF LogView!Lines
    <3>4. QED
      BY <2>1, <3>1, <3>2, <3>3 DEF LogView!HandOver
  <2>4. QED
    BY <1>0, <2>2, <2>3 DEF TypeOK
<1>10. CASE UNCHANGED vars
  BY <1>10 DEF vars, fileVars, history
<1>11. QED
  BY <1>1, <1>2, <1>3, <1>5, <1>6, <1>7, <1>8, <1>9, <1>10
     DEF Next, Writers, Follower

(* The safety half of the promise of LogTail: the position never passes a   *)
(* line that was not handed over and never falls back within a content.     *)
THEOREM RefinesLogTail == Spec => LogView!SafeSpec
<1>1. Init => SkipInv
  BY SkipInvInit
<1>2. SkipInv /\ [Next]_vars => SkipInv'
  BY SkipInvInductive
<1>3. Init => LogView!Init
  BY TailInit
<1>4. SkipInv /\ SkipInv' /\ [Next]_vars => [LogView!Next]_(LogView!tailVars)
  BY TailStep
<1>5. QED
  BY <1>1, <1>2, <1>3, <1>4, PTL DEF Spec, LogView!SafeSpec
-----------------------------------------------------------------------------
(* Every step of the two readers is a step of the follower or leaves it     *)
(* alone, so that what is shown of it above holds beside the shipper too.   *)
LEMMA FollowerStep == [ShipNext]_shipVars => [TruncNext]_vars
BY DEF ShipNext, shipVars, FileChanges, LateAppend, TruncNext, Next, Writers,
   Shipper, SeeFile, Connect, ThreadDies, OpenAtEnd, ReadAhead, Send, SendBroken, Resend,
   PeerReads, PeerCloses, ResetArrives

LEMMA HeldTypes ==
  ASSUME TypeOK, ShipTypeOK
  PROVE  HeldGen \in Nat /\ HeldSize \in Nat
BY DEF TypeOK, ShipTypeOK, HeldGen, HeldSize

LEMMA PlacesGrow ==
  ASSUME NEW g \in Nat, NEW n \in Nat, g <= n, NEW S \in SUBSET (1..g),
         NEW T, \A x \in T : x \in 1..n
  PROVE  S \cup T \subseteq 1..n
<1>1. \A x \in S : x \in 1..n
  OBVIOUS
<1>2. QED
  BY <1>1

LEMMA TakeLineTypes ==
  ASSUME ShipTypeOK, TakeLine
  PROVE  /\ sent' \in Seq(Line) /\ got' \in 0..Len(sent')
         /\ lost' \subseteq 1..got'
<1> DEFINE l == <<bufGen, next + 1>>
<1>1. l \in Line
  BY DEF ShipTypeOK, Line
<1>2. sent' = Append(sent, l) /\ sent \in Seq(Line)
  BY DEF TakeLine, ShipTypeOK
<1>3. sent' \in Seq(Line) /\ Len(sent') = Len(sent) + 1 /\ Len(sent) \in Nat
  BY <1>1, <1>2
<1>4. CASE conn = "up"
  <2>1. got' = got /\ lost' = lost
    BY <1>4 DEF TakeLine
  <2>2. got \in 0..Len(sent) /\ lost \subseteq 1..got
    BY DEF ShipTypeOK
  <2>3. QED
    BY <1>3, <2>1, <2>2
<1>5. CASE conn # "up"
  <2>1. got' = Len(sent) + 1 /\ lost' = lost \cup {Len(sent) + 1}
    BY <1>3, <1>5 DEF TakeLine
  <2>2. got \in Nat /\ got <= Len(sent) + 1 /\ lost \in SUBSET (1..got)
    BY <1>3 DEF ShipTypeOK
  <2>3. lost \cup {Len(sent) + 1} \subseteq 1..(Len(sent) + 1)
    <3>1. Len(sent) + 1 \in Nat
          /\ \A x \in {Len(sent) + 1} : x \in 1..(Len(sent) + 1)
      BY <1>3
    <3>2. QED
      BY <3>1, <2>2, PlacesGrow
  <2>4. QED
    BY <1>3, <2>1, <2>3
<1>6. QED
  BY <1>4, <1>5

(* The thread reconnects for a line it has read and not sent. *)
LineInHand == sPc \in {"reconnect", "resend"} => next < pos

LEMMA ShipTypeInductive ==
  TypeOK /\ ShipTypeOK /\ LineInHand /\ [ShipNext]_shipVars
    => ShipTypeOK' /\ LineInHand'
<1> SUFFICES ASSUME TypeOK, ShipTypeOK, LineInHand, [ShipNext]_shipVars
             PROVE  ShipTypeOK' /\ LineInHand'
  OBVIOUS
<1>0. HeldGen \in Nat /\ HeldSize \in Nat /\ Len(sent) \in Nat
  BY HeldTypes DEF ShipTypeOK, LineInHand
<1>1. CASE FileChanges
  <2>1. CASE (Create \/ AppendLine) /\ UNCHANGED shipper
    BY <2>1 DEF shipper, ShipTypeOK, LineInHand
  <2>2. CASE /\ Rotate
             /\ held' = (IF OnPath THEN [gen |-> gen, size |-> size] ELSE held)
             /\ UNCHANGED <<sPc, sIno, pos, next, bufGen, base, conn, sent, got,
                            lost, breaks>>
    BY <2>2 DEF TypeOK, ShipTypeOK, LineInHand
  <2>3. CASE /\ Truncate
             /\ base' = (IF OnPath THEN pos ELSE base)
             /\ UNCHANGED <<sPc, sIno, held, pos, next, bufGen, conn, sent, got,
                            lost, breaks>>
    BY <2>3 DEF ShipTypeOK, LineInHand
  <2>4. CASE LateAppend
    BY <2>4 DEF LateAppend, ShipTypeOK, LineInHand
  <2>5. QED
    BY <1>1, <2>1, <2>2, <2>3, <2>4 DEF FileChanges
<1>2. CASE Follower /\ UNCHANGED shipper
  BY <1>2 DEF shipper, ShipTypeOK, LineInHand
<1>3. CASE SeeFile
  BY <1>3 DEF SeeFile, ShipTypeOK, LineInHand
<1>4. CASE Connect
  BY <1>4, <1>0 DEF Connect, ShipTypeOK, LineInHand
<1>5. CASE ThreadDies
  BY <1>5 DEF ThreadDies, ShipTypeOK, LineInHand
<1>6. CASE OpenAtEnd
  BY <1>6 DEF OpenAtEnd, TypeOK, ShipTypeOK, LineInHand
<1>7. CASE ReadAhead
  BY <1>7, <1>0 DEF ReadAhead, ShipTypeOK, LineInHand
<1>8. CASE Send
  BY <1>8, TakeLineTypes DEF Send, ShipTypeOK, LineInHand
<1>9. CASE SendBroken
  BY <1>9 DEF SendBroken, ShipTypeOK, LineInHand
<1>10. CASE Resend
  BY <1>10, TakeLineTypes DEF Resend, ShipTypeOK, LineInHand
<1>11. CASE PeerReads
  BY <1>11, <1>0 DEF PeerReads, ShipTypeOK, LineInHand
<1>12. CASE PeerCloses
  <2>1. /\ breaks' \in 0..MaxBreaks /\ got' = Len(sent) /\ sent' = sent
        /\ lost' = lost \cup ((got + 1)..Len(sent))
    BY <1>12, ShipperAssumption DEF PeerCloses, ShipTypeOK
  <2>2. lost' \subseteq 1..got'
    <3>1. got \in Nat /\ got <= Len(sent) /\ lost \in SUBSET (1..got)
      BY <1>0 DEF ShipTypeOK
    <3>2. \A x \in (got + 1)..Len(sent) : x \in 1..Len(sent)
      BY <1>0, <3>1
    <3>3. lost \cup ((got + 1)..Len(sent)) \subseteq 1..Len(sent)
      BY <1>0, <3>1, <3>2, PlacesGrow
    <3>4. QED
      BY <2>1, <3>3
  <2>3. got' \in 0..Len(sent')
    BY <2>1, <1>0
  <2>4. QED
    BY <1>12, <2>1, <2>2, <2>3 DEF PeerCloses, ShipTypeOK, LineInHand
<1>13. CASE ResetArrives
  BY <1>13 DEF ResetArrives, ShipTypeOK, LineInHand
<1>14. CASE UNCHANGED shipVars
  BY <1>14 DEF shipVars, shipper, ShipTypeOK, LineInHand
<1>15. QED
  BY <1>1, <1>2, <1>3, <1>4, <1>5, <1>6, <1>7, <1>8, <1>9, <1>10, <1>11, <1>12,
     <1>13, <1>14 DEF ShipNext, Shipper

LEMMA ShipTypeInit == ShipInit => TypeOK /\ ShipTypeOK /\ LineInHand
BY TypeInit, ShipperAssumption DEF ShipInit, ShipTypeOK, LineInHand

(* Every state of the two readers has its type. *)
THEOREM ShipTypeCorrect == ShipSpec => [](TypeOK /\ ShipTypeOK /\ LineInHand)
<1>1. TypeOK /\ ShipTypeOK /\ LineInHand /\ [ShipNext]_shipVars
        => (TypeOK /\ ShipTypeOK /\ LineInHand)'
  BY FollowerStep, TypeInductive, ShipTypeInductive
<1>2. QED
  BY ShipTypeInit, <1>1, PTL DEF ShipSpec
-----------------------------------------------------------------------------
(* The handle is on no newer file than the path has named, and the buffered *)
(* lines are of no newer content than the handle holds.                     *)
HandleSane == sIno <= ino /\ bufGen <= HeldGen

(* Every sent line lies before the next one. *)
SentBehind ==
  \A k \in DOMAIN sent :
    sent[k][1] < bufGen \/ (sent[k][1] = bufGen /\ sent[k][2] <= next)

NothingSentYet == sPc \in {"wait", "connect", "open"} => sent = <<>>

SendInv ==
  /\ TypeOK /\ ShipTypeOK /\ LineInHand
  /\ HandleSane
  /\ SentBehind
  /\ NothingSentYet
  /\ ShippedInOrder

LEMMA SendInvInit == ShipInit => SendInv
BY ShipTypeInit, HeldTypes DEF ShipInit, SendInv, HandleSane, SentBehind,
   NothingSentYet, ShippedInOrder, TypeOK

(* What one more line does to the two facts about `sent`. *)
LEMMA TakeLineInOrder ==
  ASSUME SendInv, TakeLine, next' = next + 1, bufGen' = bufGen
  PROVE  SentBehind' /\ ShippedInOrder'
<1> DEFINE l == <<bufGen, next + 1>>
<1>1. /\ sent \in Seq(Line) /\ sent' = Append(sent, l)
      /\ bufGen \in Nat /\ next \in Nat /\ Len(sent) \in Nat
  BY DEF SendInv, TakeLine, ShipTypeOK
<1>2. \A k \in DOMAIN sent : sent[k][1] \in Nat /\ sent[k][2] \in Nat
  BY <1>1 DEF Line
<1>3. l \in Line
  BY <1>1 DEF Line
<1>4. \A k \in DOMAIN sent' :
        \/ k \in DOMAIN sent /\ sent'[k] = sent[k]
        \/ k = Len(sent) + 1 /\ sent'[k] = l
  BY <1>1, <1>3
<1>5. \A k \in DOMAIN sent : Before(sent[k], l)
  BY <1>1, <1>2 DEF SendInv, SentBehind, Before
<1>6. SentBehind'
  BY <1>1, <1>2, <1>4 DEF SendInv, SentBehind
<1>7. ShippedInOrder'
  <2> SUFFICES ASSUME NEW j \in DOMAIN sent', NEW k \in DOMAIN sent', j < k
               PROVE  Before(sent'[j], sent'[k])
    BY DEF ShippedInOrder
  <2>1. j \in DOMAIN sent /\ sent'[j] = sent[j]
    BY <1>1, <1>3, <1>4
  <2>2. CASE k \in DOMAIN sent
    BY <1>1, <1>4, <2>1, <2>2 DEF SendInv, ShippedInOrder
  <2>3. CASE k = Len(sent) + 1 /\ sent'[k] = l
    BY <1>5, <2>1, <2>3
  <2>4. QED
    BY <1>4, <1>1, <2>2, <2>3
<1>8. QED
  BY <1>6, <1>7

LEMMA SendInvInductive == SendInv /\ [ShipNext]_shipVars => SendInv'
<1> SUFFICES ASSUME SendInv, [ShipNext]_shipVars
             PROVE  SendInv'
  OBVIOUS
<1>0. (TypeOK /\ ShipTypeOK /\ LineInHand)'
  BY FollowerStep, TypeInductive, ShipTypeInductive DEF SendInv
<1>a. /\ HeldGen \in Nat /\ HeldSize \in Nat /\ ino \in Nat /\ sIno \in Nat
      /\ gen \in Nat /\ bufGen \in Nat /\ next \in Nat /\ pos \in Nat
      /\ sent \in Seq(Line)
  BY HeldTypes DEF SendInv, TypeOK, ShipTypeOK
<1>b. \A k \in DOMAIN sent : sent[k][1] \in Nat /\ sent[k][2] \in Nat
  BY <1>a DEF Line
<1> DEFINE
  SameSent == UNCHANGED <<sPc, sIno, bufGen, next, sent>>
  Kept     == HandleSane' /\ SentBehind' /\ NothingSentYet' /\ ShippedInOrder'
<1>c. ASSUME SameSent, ino' >= ino, HeldGen' >= HeldGen,
             ino' \in Nat, HeldGen' \in Nat
      PROVE  Kept
  BY <1>c, <1>a DEF SendInv, HandleSane, SentBehind, NothingSentYet,
     ShippedInOrder
<1>d. ASSUME UNCHANGED <<sent, bufGen, next>>,
             HandleSane', NothingSentYet'
      PROVE  Kept
  BY <1>d DEF SendInv, SentBehind, ShippedInOrder
<1>1. CASE FileChanges
  <2>1. CASE Create /\ UNCHANGED shipper
    <3>1. HeldGen' = HeldGen
      BY <2>1, <1>a DEF Create, shipper, HeldGen, OnPath, SendInv, HandleSane
    <3>2. QED
      BY <2>1, <3>1, <1>a, <1>0, <1>c DEF Create, shipper, SendInv
  <2>2. CASE AppendLine /\ UNCHANGED shipper
    BY <2>2, <1>a, <1>0, <1>c
       DEF AppendLine, shipper, HeldGen, OnPath, SendInv
  <2>3. CASE /\ Rotate
             /\ held' = (IF OnPath THEN [gen |-> gen, size |-> size] ELSE held)
             /\ UNCHANGED <<sPc, sIno, pos, next, bufGen, base, conn, sent, got,
                            lost, breaks>>
    <3>1. HeldGen' = HeldGen
      BY <2>3 DEF Rotate, HeldGen, OnPath
    <3>2. QED
      BY <2>3, <3>1, <1>a, <1>0, <1>c DEF Rotate, SendInv
  <2>4. CASE /\ Truncate
             /\ base' = (IF OnPath THEN pos ELSE base)
             /\ UNCHANGED <<sPc, sIno, held, pos, next, bufGen, conn, sent, got,
                            lost, breaks>>
    <3>1. HeldGen' \in Nat /\ HeldGen' >= HeldGen
      BY <2>4, <1>a DEF Truncate, HeldGen, OnPath
    <3>2. QED
      BY <2>4, <3>1, <1>a, <1>0, <1>c DEF Truncate, SendInv
  <2>5. CASE LateAppend
    <3>1. HeldGen' = HeldGen
      BY <2>5, <1>0 DEF LateAppend, vars, fileVars, HeldGen, OnPath, SendInv,
         ShipTypeOK
    <3>2. QED
      BY <2>5, <3>1, <1>a, <1>0, <1>c DEF LateAppend, vars, fileVars, SendInv
  <2>6. QED
    BY <1>1, <2>1, <2>2, <2>3, <2>4, <2>5 DEF FileChanges
<1>2. CASE Follower /\ UNCHANGED shipper
  <2>1. UNCHANGED fileVars
    BY <1>2 DEF Follower, CheckExists, Vanished, SkipToEnd, StatFile, ReadLines
  <2>2. QED
    BY <1>2, <2>1, <1>0, <1>a, <1>c
       DEF fileVars, shipper, HeldGen, OnPath, SendInv
<1>3. CASE SeeFile
  BY <1>3, <1>0, <1>d DEF SeeFile, SendInv, HandleSane, NothingSentYet, vars,
     fileVars, HeldGen, OnPath
<1>4. CASE Connect
  BY <1>4, <1>0, <1>d DEF Connect, SendInv, HandleSane, NothingSentYet, vars,
     fileVars, HeldGen, OnPath
<1>5. CASE ThreadDies
  BY <1>5, <1>0, <1>d DEF ThreadDies, SendInv, HandleSane, NothingSentYet, vars,
     fileVars, HeldGen, OnPath
<1>6. CASE OpenAtEnd
  <2>1. sent = <<>> /\ sent' = <<>>
    BY <1>6 DEF OpenAtEnd, SendInv, NothingSentYet
  <2>2. SentBehind' /\ ShippedInOrder' /\ NothingSentYet'
    BY <2>1 DEF SentBehind, ShippedInOrder, NothingSentYet
  <2>3. HandleSane'
    BY <1>6, <1>a DEF OpenAtEnd, HandleSane, HeldGen, OnPath, vars, fileVars
  <2>4. QED
    BY <2>2, <2>3, <1>0 DEF SendInv
<1>7. CASE ReadAhead
  <2>1. /\ UNCHANGED <<sent, next, sIno, sPc>> /\ ino' = ino
        /\ HeldGen' = HeldGen /\ bufGen' = HeldGen
    BY <1>7 DEF ReadAhead, vars, fileVars, HeldGen, OnPath
  <2>2. bufGen <= bufGen' /\ HandleSane'
    BY <1>7, <2>1, <1>a DEF ReadAhead, SendInv, HandleSane
  <2>3. SentBehind'
    BY <2>1, <2>2, <1>a, <1>b DEF SendInv, SentBehind
  <2>4. ShippedInOrder' /\ NothingSentYet'
    BY <2>1 DEF SendInv, ShippedInOrder, NothingSentYet
  <2>5. QED
    BY <2>2, <2>3, <2>4, <1>0 DEF SendInv
<1>8. CASE Send
  <2>1. SentBehind' /\ ShippedInOrder'
    BY <1>8, TakeLineInOrder DEF Send
  <2>2. HandleSane' /\ NothingSentYet'
    BY <1>8 DEF Send, SendInv, HandleSane, NothingSentYet, vars, fileVars,
       HeldGen, OnPath
  <2>3. QED
    BY <2>1, <2>2, <1>0 DEF SendInv
<1>9. CASE SendBroken
  BY <1>9, <1>0, <1>d DEF SendBroken, SendInv, HandleSane, NothingSentYet, vars,
     fileVars, HeldGen, OnPath
<1>10. CASE Resend
  <2>1. SentBehind' /\ ShippedInOrder'
    BY <1>10, TakeLineInOrder DEF Resend
  <2>2. HandleSane' /\ NothingSentYet'
    BY <1>10 DEF Resend, SendInv, HandleSane, NothingSentYet, vars, fileVars,
       HeldGen, OnPath
  <2>3. QED
    BY <2>1, <2>2, <1>0 DEF SendInv
<1>11. CASE PeerReads \/ PeerCloses \/ ResetArrives
  BY <1>11, <1>0, <1>d DEF PeerReads, PeerCloses, ResetArrives, SendInv,
     HandleSane, NothingSentYet, vars, fileVars, HeldGen, OnPath
<1>12. CASE UNCHANGED shipVars
  BY <1>12, <1>0, <1>d DEF shipVars, shipper, SendInv, HandleSane,
     NothingSentYet, vars, fileVars, HeldGen, OnPath
<1>13. QED
  BY <1>1, <1>2, <1>3, <1>4, <1>5, <1>6, <1>7, <1>8, <1>9, <1>10, <1>11, <1>12
     DEF ShipNext, Shipper

(* The lines reach the peer's kernel in the order of the log, none twice,   *)
(* however often the connection breaks and the file changes.                *)
THEOREM ShippedInOrderCorrect == ShipSpec => []ShippedInOrder
<1>1. SendInv => ShippedInOrder
  BY DEF SendInv
<1>2. QED
  BY SendInvInit, SendInvInductive, <1>1, PTL DEF ShipSpec
-----------------------------------------------------------------------------
(* A content the handle has met and not yet read begins at its position. *)
UnreadFromBase == HeldGen # bufGen => base = pos

GapInv == SendInv /\ UnreadFromBase /\ GapsExplained

LEMMA GapInvInit == ShipInit => GapInv
BY SendInvInit DEF ShipInit, GapInv, UnreadFromBase, GapsExplained

(* Taking the next line closes the gap between what is sent and what is     *)
(* behind the position.                                                     *)
LEMMA TakeLineNoGap ==
  ASSUME GapInv, TakeLine, next' = next + 1,
         UNCHANGED <<bufGen, base, pos, HeldGen>>
  PROVE  GapsExplained' /\ UnreadFromBase'
<1> DEFINE l == <<bufGen, next + 1>>
<1>1. /\ sent \in Seq(Line) /\ sent' = Append(sent, l) /\ Len(sent) \in Nat
      /\ next \in Nat /\ base \in Nat
  BY DEF GapInv, SendInv, TakeLine, ShipTypeOK
<1>2. l \in Line
  BY DEF GapInv, SendInv, ShipTypeOK, Line
<1>3. \A k \in DOMAIN sent : k \in DOMAIN sent' /\ sent'[k] = sent[k]
  BY <1>1, <1>2
<1>4. Len(sent) + 1 \in DOMAIN sent' /\ sent'[Len(sent) + 1] = l
  BY <1>1, <1>2
<1>5. ASSUME HeldGen = bufGen, NEW i \in (base + 1)..(next + 1)
      PROVE  \E k \in DOMAIN sent' : sent'[k] = <<bufGen, i>>
  <2>1. CASE i = next + 1
    BY <1>4, <2>1
  <2>2. CASE i # next + 1
    <3>1. i \in (base + 1)..next
      BY <1>1, <2>2
    <3>2. PICK k \in DOMAIN sent : sent[k] = <<bufGen, i>>
      BY <3>1, <1>5 DEF GapInv, GapsExplained
    <3>3. QED
      BY <3>2, <1>3
  <2>3. QED
    BY <2>1, <2>2
<1>6. QED
  BY <1>5 DEF GapInv, UnreadFromBase, GapsExplained

LEMMA GapInvInductive == GapInv /\ [ShipNext]_shipVars => GapInv'
<1> SUFFICES ASSUME GapInv, [ShipNext]_shipVars
             PROVE  UnreadFromBase' /\ GapsExplained'
  BY SendInvInductive DEF GapInv
<1> USE DEF UnreadFromBase, GapsExplained
<1>a. /\ HeldGen \in Nat /\ HeldSize \in Nat /\ bufGen \in Nat /\ gen \in Nat
      /\ next \in Nat /\ pos \in Nat /\ base \in Nat /\ next <= pos
      /\ ino \in Nat /\ sIno \in Nat /\ sIno <= ino /\ bufGen <= HeldGen
  BY HeldTypes DEF GapInv, SendInv, TypeOK, ShipTypeOK, HandleSane
<1>b. ASSUME UNCHANGED <<HeldGen, bufGen, base, pos, next, sent>>
      PROVE  UnreadFromBase' /\ GapsExplained'
  BY <1>b DEF GapInv
<1>1. CASE FileChanges
  <2>1. CASE (Create \/ AppendLine) /\ UNCHANGED shipper
    <3>1. HeldGen' = HeldGen
      BY <2>1, <1>a DEF Create, AppendLine, shipper, HeldGen, OnPath
    <3>2. QED
      BY <2>1, <3>1, <1>b DEF shipper
  <2>2. CASE /\ Rotate
             /\ held' = (IF OnPath THEN [gen |-> gen, size |-> size] ELSE held)
             /\ UNCHANGED <<sPc, sIno, pos, next, bufGen, base, conn, sent, got,
                            lost, breaks>>
    <3>1. HeldGen' = HeldGen
      BY <2>2 DEF Rotate, HeldGen, OnPath
    <3>2. QED
      BY <2>2, <3>1, <1>b
  <2>3. CASE /\ Truncate
             /\ base' = (IF OnPath THEN pos ELSE base)
             /\ UNCHANGED <<sPc, sIno, held, pos, next, bufGen, conn, sent, got,
                            lost, breaks>>
    <3>1. CASE OnPath
      <4>1. HeldGen' = gen + 1 /\ HeldGen = gen
        BY <2>3, <3>1 DEF Truncate, HeldGen, OnPath
      <4>2. HeldGen' # bufGen'
        BY <2>3, <4>1, <1>a
      <4>3. QED
        BY <2>3, <3>1, <4>2
    <3>2. CASE ~OnPath
      <4>1. HeldGen' = HeldGen /\ base' = base
        BY <2>3, <3>2 DEF Truncate, HeldGen, OnPath
      <4>2. QED
        BY <2>3, <4>1, <1>b
    <3>3. QED
      BY <3>1, <3>2
  <2>4. CASE LateAppend
    <3>1. HeldGen' = HeldGen
      BY <2>4 DEF LateAppend, vars, fileVars, HeldGen, OnPath, GapInv, SendInv,
         ShipTypeOK
    <3>2. QED
      BY <2>4, <3>1, <1>b DEF LateAppend
  <2>5. QED
    BY <1>1, <2>1, <2>2, <2>3, <2>4 DEF FileChanges
<1>2. CASE Follower /\ UNCHANGED shipper
  <2>1. UNCHANGED fileVars
    BY <1>2 DEF Follower, CheckExists, Vanished, SkipToEnd, StatFile, ReadLines
  <2>2. QED
    BY <1>2, <2>1, <1>b DEF fileVars, shipper, HeldGen, OnPath
<1>3. CASE SeeFile \/ Connect \/ ThreadDies \/ SendBroken
  BY <1>3, <1>b DEF SeeFile, Connect, ThreadDies, SendBroken, vars, fileVars,
     HeldGen, OnPath
<1>4. CASE OpenAtEnd
  <2>1. /\ base' = size /\ next' = size /\ pos' = size /\ size \in Nat
    BY <1>4 DEF OpenAtEnd, GapInv, SendInv, TypeOK
  <2>2. QED
    BY <2>1
<1>5. CASE ReadAhead
  <2>1. /\ UNCHANGED <<sent, next, base>> /\ next = pos
        /\ HeldGen' = HeldGen /\ bufGen' = HeldGen
    BY <1>5 DEF ReadAhead, vars, fileVars, HeldGen, OnPath
  <2>2. CASE HeldGen = bufGen
    BY <2>1, <2>2 DEF GapInv
  <2>3. CASE HeldGen # bufGen
    <3>1. base = next
      BY <2>1, <2>3 DEF GapInv
    <3>2. QED
      BY <2>1, <3>1, <1>a
  <2>4. QED
    BY <2>2, <2>3
<1>6. CASE Send \/ Resend
  BY <1>6, TakeLineNoGap DEF Send, Resend, vars, fileVars, HeldGen, OnPath
<1>7. CASE PeerReads \/ PeerCloses \/ ResetArrives
  BY <1>7, <1>b DEF PeerReads, PeerCloses, ResetArrives, vars, fileVars,
     HeldGen, OnPath
<1>8. CASE UNCHANGED shipVars
  BY <1>8, <1>b DEF shipVars, shipper, vars, fileVars, HeldGen, OnPath
<1>9. QED
  BY <1>1, <1>2, <1>3, <1>4, <1>5, <1>6, <1>7, <1>8 DEF ShipNext, Shipper

(* Between the position at which a content was met and the last line sent   *)
(* of it there is no line the shipper has left out.                         *)
THEOREM GapsExplainedCorrect == ShipSpec => []GapsExplained
<1>1. GapInv => GapsExplained
  BY DEF GapInv
<1>2. QED
  BY GapInvInit, GapInvInductive, <1>1, PTL DEF ShipSpec
=============================================================================
