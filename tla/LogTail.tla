------------------------------ MODULE LogTail ------------------------------
(***************************************************************************)
(* What a follower of a log promises to the loop that consumes it: it      *)
(* hands over lines of the current content only, its position never passes *)
(* a line it has not handed over, and, while it lives, it catches up with  *)
(* the end of the log.  It may hand over a line more than once.            *)
(***************************************************************************)
EXTENDS Naturals

VARIABLES
  content,   \* which content the log holds
  length,    \* its lines
  position,  \* the lines of this content known to be handed over
  handed,    \* every line handed over so far, as pairs <<content, number>>
  alive      \* the consumer has not died

tailVars == <<content, length, position, handed, alive>>

Lines(from, to) == {content} \X ((from + 1)..to)

Init ==
  /\ content = 1
  /\ length \in Nat
  /\ position = 0
  /\ handed = {}
  /\ alive = TRUE

Write ==
  /\ length' = length + 1
  /\ UNCHANGED <<content, position, handed, alive>>

NewContent ==
  /\ content' = content + 1
  /\ length' = 0
  /\ position' = 0
  /\ UNCHANGED <<handed, alive>>

(* Any tail end of the log may be handed over. *)
HandOver ==
  /\ alive
  /\ \E from \in 0..length, to \in position..length :
       /\ handed' = handed \cup Lines(from, length)
       /\ Lines(0, to) \subseteq handed'
       /\ position' = to
  /\ UNCHANGED <<content, length, alive>>

CatchUp ==
  /\ alive
  /\ position < length
  /\ handed' = handed \cup Lines(position, length)
  /\ position' = length
  /\ UNCHANGED <<content, length, alive>>

Die ==
  /\ alive' = FALSE
  /\ UNCHANGED <<content, length, position, handed>>

Next == Write \/ NewContent \/ HandOver \/ CatchUp \/ Die

SafeSpec == Init /\ [][Next]_tailVars
LiveSpec == SafeSpec /\ WF_tailVars(CatchUp)
=============================================================================
