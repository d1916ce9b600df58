----------------------------- MODULE LogShipper -----------------------------
(***************************************************************************)
(* One thread of agent/log_shipper.py beside the detector's follower: two  *)
(* readers of one log with different ideas of what happens to it.  The     *)
(* shipper opens the file once, at its end, and keeps the handle, so that  *)
(* it stays with a file that is renamed away; it reads ahead of what it    *)
(* has sent, so that it still sends lines a truncation has removed.        *)
(*                                                                         *)
(* What it sends goes over one TCP connection.  The kernel takes a line    *)
(* whether or not the peer will read it, and reports a closed peer only    *)
(* to a later send: as EPIPE, which the thread answers by a new connection *)
(* and the same line again, or as ECONNRESET, which ends it.               *)
(***************************************************************************)
EXTENDS JsonlFollower, Sequences

CONSTANT MaxBreaks   \* bound: connections the peer closes

ASSUME ShipperAssumption == MaxBreaks \in Nat

VARIABLES
  sPc,       \* where the thread is in ship_file
  sIno,      \* inode of the open file
  held,      \* its content and size, once the path does not name it any more
  pos,       \* lines read from it, or passed over
  next,      \* lines of those sent: next + 1 .. pos wait in the read buffer
  bufGen,    \* the content the buffered lines are of
  base,      \* history: position at which this content was first met
  conn,      \* the connection, as the kernel of the shipper sees it
  sent,      \* the lines taken by the kernel, in this order
  got,       \* how many of them the peer has read, or will never read
  lost,      \* history: the places in `sent` that nobody read
  breaks

shipper  == <<sPc, sIno, held, pos, next, bufGen, base, conn, sent, got, lost,
              breaks>>
shipVars == <<vars, shipper>>

ShipTypeOK ==
  /\ sPc \in {"wait", "connect", "open", "tail", "reconnect", "resend", "dead"}
  /\ sIno \in Nat
  /\ held \in [gen : Nat, size : Nat]
  /\ pos \in Nat /\ next \in 0..pos
  /\ bufGen \in Nat /\ base \in Nat
  /\ conn \in {"none", "up", "closed", "broken", "reset"}
  /\ sent \in Seq(Line)
  /\ got \in 0..Len(sent)
  /\ lost \subseteq 1..got
  /\ breaks \in 0..MaxBreaks

ShipInit ==
  /\ Init
  /\ sPc = "wait" /\ sIno = 0
  /\ held = [gen |-> 0, size |-> 0]
  /\ pos = 0 /\ next = 0 /\ bufGen = 0 /\ base = 0
  /\ conn = "none"
  /\ sent = <<>> /\ got = 0 /\ lost = {} /\ breaks = 0
-----------------------------------------------------------------------------
(* The file behind the handle. *)

OnPath == present /\ sIno = ino
HeldGen  == IF OnPath THEN gen ELSE held.gen
HeldSize == IF OnPath THEN size ELSE held.size

(* A renamed file keeps its lines, and gets the one of an agent that opened *)
(* the log before the rename and writes after it.                           *)
LateAppend ==
  /\ ~OnPath /\ held.gen # 0
  /\ held.size < MaxLines
  /\ held' = [held EXCEPT !.size = @ + 1]
  /\ UNCHANGED <<vars, sPc, sIno, pos, next, bufGen, base, conn, sent, got,
                 lost, breaks>>

(* A truncated file starts a new content at the position the handle is at.  *)
FileChanges ==
  \/ (Create \/ AppendLine) /\ UNCHANGED shipper
  \/ /\ Rotate
     /\ held' = (IF OnPath THEN [gen |-> gen, size |-> size] ELSE held)
     /\ UNCHANGED <<sPc, sIno, pos, next, bufGen, base, conn, sent, got, lost,
                    breaks>>
  \/ /\ Truncate
     /\ base' = (IF OnPath THEN pos ELSE base)
     /\ UNCHANGED <<sPc, sIno, held, pos, next, bufGen, conn, sent, got, lost,
                    breaks>>
  \/ LateAppend
-----------------------------------------------------------------------------
(* ship_file *)

(* The loop over os.path.exists. *)
SeeFile ==
  /\ sPc = "wait"
  /\ present
  /\ sPc' = "connect"
  /\ UNCHANGED <<vars, sIno, held, pos, next, bufGen, base, conn, sent, got,
                 lost, breaks>>

(* socket and connect; a new connection carries nothing of the old one. *)
Connect ==
  /\ sPc \in {"connect", "reconnect"}
  /\ conn' = "up"
  /\ got' = Len(sent)
  /\ sPc' = (IF sPc = "connect" THEN "open" ELSE "resend")
  /\ UNCHANGED <<vars, sIno, held, pos, next, bufGen, base, sent, lost, breaks>>

(* Any other exception than BrokenPipeError inside the loop leaves the      *)
(* function: the connection is refused, the file is gone, the send is       *)
(* reset, the line fails once more.                                         *)
ThreadDies ==
  /\ \/ sPc \in {"connect", "reconnect"}
     \/ sPc = "open" /\ ~present
     \/ sPc = "tail" /\ next < pos /\ conn = "reset"
     \/ sPc = "resend" /\ conn \in {"broken", "reset"}
  /\ sPc' = "dead"
  /\ UNCHANGED <<vars, sIno, held, pos, next, bufGen, base, conn, sent, got,
                 lost, breaks>>

(* open, and seek to the end: what is there already is passed over. *)
OpenAtEnd ==
  /\ sPc = "open"
  /\ present
  /\ sIno' = ino
  /\ pos' = size /\ next' = size /\ base' = size
  /\ bufGen' = gen
  /\ sPc' = "tail"
  /\ UNCHANGED <<vars, held, conn, sent, got, lost, breaks>>

(* Faulty variant of the next definition: a renamed file is left at once.   *)
ReadAheadOnPath ==
  /\ sPc = "tail"
  /\ OnPath
  /\ next = pos
  /\ pos < HeldSize
  /\ pos' = HeldSize
  /\ bufGen' = HeldGen
  /\ UNCHANGED <<vars, sPc, sIno, held, next, base, conn, sent, got, lost,
                 breaks>>

(* readline with an empty buffer reads all there is; behind the end of a    *)
(* file that has become shorter it reads nothing.                           *)
ReadAhead ==
  /\ sPc = "tail"
  /\ next = pos
  /\ pos < HeldSize
  /\ pos' = HeldSize
  /\ bufGen' = HeldGen
  /\ UNCHANGED <<vars, sPc, sIno, held, next, base, conn, sent, got, lost,
                 breaks>>

(* The kernel takes the next line: nobody will read it if the peer is gone. *)
TakeLine ==
  /\ conn \in {"up", "closed"}
  /\ sent' = Append(sent, <<bufGen, next + 1>>)
  /\ IF conn = "up" THEN UNCHANGED <<got, lost>>
     ELSE got' = Len(sent') /\ lost' = lost \cup {Len(sent')}

Send ==
  /\ sPc = "tail"
  /\ next < pos
  /\ TakeLine
  /\ next' = next + 1
  /\ UNCHANGED <<vars, sPc, sIno, held, pos, bufGen, base, conn, breaks>>

(* BrokenPipeError: close, and connect again with the line in hand. *)
SendBroken ==
  /\ sPc = "tail"
  /\ next < pos
  /\ conn = "broken"
  /\ conn' = "none"
  /\ sPc' = "reconnect"
  /\ UNCHANGED <<vars, sIno, held, pos, next, bufGen, base, sent, got, lost,
                 breaks>>

(* Faulty variants of the next definition: the line is given up; it is sent *)
(* and read once more from the generator.                                   *)
ResendNot ==
  /\ sPc = "resend"
  /\ next' = next + 1
  /\ sPc' = "tail"
  /\ UNCHANGED <<vars, sIno, held, pos, bufGen, base, conn, sent, got, lost,
                 breaks>>

ResendAndKeep ==
  /\ sPc = "resend"
  /\ TakeLine
  /\ sPc' = "tail"
  /\ UNCHANGED <<vars, sIno, held, pos, next, bufGen, base, conn, breaks>>

(* The same line on the new connection. *)
Resend ==
  /\ sPc = "resend"
  /\ TakeLine
  /\ next' = next + 1
  /\ sPc' = "tail"
  /\ UNCHANGED <<vars, sIno, held, pos, bufGen, base, conn, breaks>>

Shipper ==
  \/ SeeFile \/ Connect \/ ThreadDies \/ OpenAtEnd
  \/ ReadAhead \/ Send \/ SendBroken \/ Resend
-----------------------------------------------------------------------------
(* The peer and the network. *)

PeerReads ==
  /\ conn = "up"
  /\ got < Len(sent)
  /\ got' = got + 1
  /\ UNCHANGED <<vars, sPc, sIno, held, pos, next, bufGen, base, conn, sent,
                 lost, breaks>>

(* What it has not read by then it never reads. *)
PeerCloses ==
  /\ conn = "up"
  /\ breaks < MaxBreaks
  /\ breaks' = breaks + 1
  /\ lost' = lost \cup ((got + 1)..Len(sent))
  /\ got' = Len(sent)
  /\ conn' = "closed"
  /\ UNCHANGED <<vars, sPc, sIno, held, pos, next, bufGen, base, sent>>

(* The peer's kernel resets the connection: the next send fails, with EPIPE *)
(* when the close was seen first.                                           *)
ResetArrives ==
  /\ conn = "closed"
  /\ conn' \in {"broken", "reset"}
  /\ UNCHANGED <<vars, sPc, sIno, held, pos, next, bufGen, base, sent, got,
                 lost, breaks>>

ShipNext ==
  \/ FileChanges
  \/ Follower /\ UNCHANGED shipper
  \/ Shipper
  \/ PeerReads \/ PeerCloses \/ ResetArrives

ShipSpec == ShipInit /\ [][ShipNext]_shipVars

(* The thread runs and the receiver reads; nothing makes either connection  *)
(* or log change.  Connect and ThreadDies race: the network may always say  *)
(* no.                                                                      *)
FairShipSpec ==
  ShipSpec /\ WF_shipVars(Shipper) /\ WF_shipVars(PeerReads)
-----------------------------------------------------------------------------
Before(k, l) == k[1] < l[1] \/ (k[1] = l[1] /\ k[2] < l[2])

(* What reaches the host comes in the order of the log and no line comes    *)
(* twice, over all connections, reconnections, renames and truncations: a   *)
(* resend is of a line the kernel has refused (log_shipper.py:49-56).       *)
ShippedInOrder ==
  \A j, k \in DOMAIN sent : j < k => Before(sent[j], sent[k])

(* Of the content the handle is on, every line behind the position from     *)
(* which it was met was taken by the kernel or still waits in the buffer:   *)
(* only history, truncation and a closed connection lose lines.             *)
GapsExplained ==
  HeldGen = bufGen =>
    \A i \in (base + 1)..next :
      \E k \in DOMAIN sent : sent[k] = <<bufGen, i>>

(* A line written behind the position of a living thread is read by the     *)
(* peer, even out of a file that has been archived since, unless it is      *)
(* truncated first, its connection loses it, or the thread dies.            *)
LineShipped ==
  \A g \in 1..MaxGen, i \in 1..MaxLines :
    (sPc = "tail" /\ HeldGen = g /\ pos < i /\ i <= HeldSize) ~>
      \/ \E k \in DOMAIN sent : sent[k] = <<g, i>> /\ k <= got
      \/ HeldGen # g
      \/ sPc = "dead"
=============================================================================
