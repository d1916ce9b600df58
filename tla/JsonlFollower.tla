---------------------------- MODULE JsonlFollower ----------------------------
(***************************************************************************)
(* One JsonlFollower of detector/realtime_blocker.py and the file it       *)
(* tails.  The file belongs to the agents, which append one record per     *)
(* write, to ensure_log_layout, which touches it, and to                   *)
(* archive_runtime_logs, which renames it away.                            *)
(*                                                                         *)
(* read_new_lines looks at the path three times: exists(), stat() and      *)
(* open().  They are three steps here, so that the path may change between *)
(* any two of them.  open, seek, readlines and tell are one step: a rename *)
(* after the open leaves the open handle alone and an append after it is   *)
(* found by the next poll.  What an agent writes into a log it opened      *)
(* before the rename is never seen under the path: here it is no line of   *)
(* any content (LogShipper, whose handle stays, has it).                   *)
(*                                                                         *)
(* A line is a pair <<g, i>>: the i-th line of the g-th content the path   *)
(* has held.  A record is far smaller than one write buffer, so that an    *)
(* append is atomic and offsets count lines.                               *)
(***************************************************************************)
EXTENDS Naturals

CONSTANTS
  StartAtEnd,   \* the --start-at-end flag
  CanRotate,    \* archive_runtime_logs may run
  MaxLines,     \* bound: lines per content
  MaxGen        \* bound: contents the path ever holds

ASSUME FollowerAssumption ==
  /\ StartAtEnd \in BOOLEAN
  /\ CanRotate \in BOOLEAN
  /\ MaxLines \in Nat
  /\ MaxGen \in Nat

VARIABLES
  present,     \* the path names a file
  ino,         \* inode of the newest file the path has named (0: none yet)
  gen,         \* which content the path holds, or will hold when created
  size,        \* lines in the file, st_size
  pc,          \* where the follower is in read_new_lines
  fIno,        \* self.inode
  offset,      \* self.offset
  delivered,   \* history: the lines read_new_lines has returned
  skipped,     \* history: the lines start_at_end passed over
  dups,        \* history: the lines returned more than once
  torn         \* history: contents opened in place of the file that was stat'ed

fileVars == <<present, ino, gen, size>>
history  == <<delivered, skipped, dups, torn>>
vars     == <<fileVars, pc, fIno, offset, history>>

NoInode == 0    \* self.inode is None

Line == Nat \X Nat

(* The lines after position `from`, up to `to`, of content g. *)
LinesOf(g, from, to) == {g} \X ((from + 1)..to)

TypeOK ==
  /\ present \in BOOLEAN
  /\ ino \in Nat /\ gen \in Nat /\ size \in Nat
  /\ pc \in {"idle", "stat", "open", "dead"}
  /\ fIno \in Nat /\ offset \in Nat
  /\ delivered \subseteq Line
  /\ skipped \subseteq Line
  /\ dups \subseteq Line
  /\ torn \subseteq Nat

Init ==
  /\ present \in BOOLEAN
  /\ gen = 1
  /\ ino = (IF present THEN 1 ELSE 0)
  /\ IF present THEN size \in 0..MaxLines ELSE size = 0
  /\ pc = "idle"
  /\ fIno = NoInode
  /\ offset = 0
  /\ delivered = {} /\ skipped = {} /\ dups = {} /\ torn = {}
-----------------------------------------------------------------------------
(* The owners of the file. *)

(* touch(exist_ok=True), or the open("a") of an agent's write_record. *)
Create ==
  /\ ~present
  /\ present' = TRUE
  /\ ino' = ino + 1
  /\ size' = 0
  /\ UNCHANGED <<gen, pc, fIno, offset, history>>

(* The write of an agent's write_record. *)
AppendLine ==
  /\ present
  /\ size < MaxLines
  /\ size' = size + 1
  /\ UNCHANGED <<present, ino, gen, pc, fIno, offset, history>>

(* shutil.move into the archive directory: the inode lives on elsewhere, so *)
(* that no later file of this path gets its number.                         *)
Rotate ==
  /\ CanRotate /\ present
  /\ gen < MaxGen
  /\ present' = FALSE
  /\ gen' = gen + 1
  /\ size' = 0
  /\ UNCHANGED <<ino, pc, fIno, offset, history>>

(* Truncation in place, the case the class docstring names.  Nothing in the *)
(* repository truncates a log: only TruncSpec has this action.              *)
Truncate ==
  /\ present
  /\ gen < MaxGen
  /\ gen' = gen + 1
  /\ size' = 0
  /\ UNCHANGED <<present, ino, pc, fIno, offset, history>>
-----------------------------------------------------------------------------
(* read_new_lines. *)

(* path.exists() is true; when it is false the poll returns [] unchanged. *)
CheckExists ==
  /\ pc = "idle"
  /\ present
  /\ pc' = "stat"
  /\ UNCHANGED <<fileVars, fIno, offset, history>>

(* FileNotFoundError out of stat() or open() is caught nowhere: it ends the *)
(* detector process.                                                        *)
Vanished ==
  /\ pc \in {"stat", "open"}
  /\ ~present
  /\ pc' = "dead"
  /\ UNCHANGED <<fileVars, fIno, offset, history>>

(* The first sight of the file under start_at_end. *)
SkipToEnd ==
  /\ pc = "stat"
  /\ present
  /\ fIno = NoInode /\ StartAtEnd
  /\ fIno' = ino
  /\ offset' = size
  /\ skipped' = skipped \cup LinesOf(gen, 0, size)
  /\ pc' = "idle"
  /\ UNCHANGED <<fileVars, delivered, dups, torn>>

(* Faulty variants of the next definition. *)
OffsetAfterStatNoInode ==
  IF fIno = NoInode \/ size < offset THEN 0 ELSE offset
OffsetAfterStatAtMost ==
  IF fIno = NoInode \/ ino # fIno \/ size <= offset THEN 0 ELSE offset

OffsetAfterStat ==
  IF fIno = NoInode \/ ino # fIno \/ size < offset THEN 0 ELSE offset

StatFile ==
  /\ pc = "stat"
  /\ present
  /\ ~(fIno = NoInode /\ StartAtEnd)
  /\ fIno' = ino
  /\ offset' = OffsetAfterStat
  /\ pc' = "open"
  /\ UNCHANGED <<fileVars, history>>

(* Faulty variants of ReadLines: the offset is not stored; the first line   *)
(* is dropped.                                                              *)
ReadLinesKeepOffset ==
  /\ pc = "open"
  /\ present
  /\ LET batch == LinesOf(gen, offset, size) IN
       /\ delivered' = delivered \cup batch
       /\ dups' = dups \cup (delivered \cap batch)
  /\ torn' = (IF fIno = ino THEN torn ELSE torn \cup {gen})
  /\ pc' = "idle"
  /\ UNCHANGED <<fileVars, offset, fIno, skipped>>

ReadLinesDropFirst ==
  /\ pc = "open"
  /\ present
  /\ LET batch == LinesOf(gen, offset + 1, size) IN
       /\ delivered' = delivered \cup batch
       /\ dups' = dups \cup (delivered \cap batch)
  /\ offset' = (IF size > offset THEN size ELSE offset)
  /\ torn' = (IF fIno = ino THEN torn ELSE torn \cup {gen})
  /\ pc' = "idle"
  /\ UNCHANGED <<fileVars, fIno, skipped>>

(* open, seek, readlines, tell.  A seek past the end reads nothing and tell *)
(* answers the position sought.                                             *)
ReadLines ==
  /\ pc = "open"
  /\ present
  /\ LET batch == LinesOf(gen, offset, size) IN
       /\ delivered' = delivered \cup batch
       /\ dups' = dups \cup (delivered \cap batch)
  /\ offset' = (IF size > offset THEN size ELSE offset)
  /\ torn' = (IF fIno = ino THEN torn ELSE torn \cup {gen})
  /\ pc' = "idle"
  /\ UNCHANGED <<fileVars, fIno, skipped>>
-----------------------------------------------------------------------------
Writers  == Create \/ AppendLine \/ Rotate
Follower == CheckExists \/ Vanished \/ SkipToEnd \/ StatFile \/ ReadLines
Next     == Writers \/ Follower
Spec     == Init /\ [][Next]_vars

(* The same where something else may truncate the log. *)
TruncNext == Next \/ Truncate
TruncSpec == Init /\ [][TruncNext]_vars

(* main() polls for ever and each poll runs to its end; nothing makes an    *)
(* agent write.                                                             *)
FairSpec == Spec /\ WF_vars(Follower)
-----------------------------------------------------------------------------
(* Between two polls, every line of the file the follower is on up to its   *)
(* offset has been returned or was passed over by start_at_end: the offset  *)
(* never runs ahead of what main() has seen (read_new_lines).               *)
NothingSkipped ==
  present /\ fIno = ino =>
    \A i \in 1..offset : <<gen, i>> \in delivered \cup skipped

(* A line comes back twice only when the path was renamed and recreated     *)
(* between stat() and open(), so that the old offset met the new file.      *)
ExactlyOnceUnlessTorn == \A l \in dups : l[1] \in torn

(* A line that start_at_end passed over is never returned by a later poll.  *)
HistoryStaysIgnored == skipped \cap delivered = {}

(* A line that stays in the file is returned, or was passed over, unless    *)
(* the detector has died of FileNotFoundError.                              *)
EveryLineDelivered ==
  \A g \in 1..MaxGen, i \in 1..MaxLines :
    (present /\ gen = g /\ i <= size) ~>
      (<<g, i>> \in delivered \cup skipped \/ gen # g \/ pc = "dead")

(* The follower keeps the promise of LogTail: a line counts as handed over  *)
(* when it is returned or passed over, and the position is the offset while *)
(* the follower is on the file of the path.                                 *)
TailPosition == IF present /\ fIno = ino THEN offset ELSE 0

LogView == INSTANCE LogTail WITH
  content <- gen, length <- size, position <- TailPosition,
  handed <- delivered \cup skipped, alive <- pc # "dead"

KeepsTailPromise == LogView!LiveSpec
=============================================================================
