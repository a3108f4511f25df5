---------------------------- MODULE DccTransfer ----------------------------
(***************************************************************************)
(* A DCC file transfer between two Uplinks: DccSend and DccReceive         *)
(* (src/src/irc), and DccController (src/src/ui), which owns both, shows   *)
(* their dialogs and deletes them.                                         *)
(*                                                                         *)
(* In active mode the sender listens and the receiver connects; in passive *)
(* mode the other way round.  Bytes are counted, not kept.  TCP delivers   *)
(* them in order, in pieces of any size, until the link is closed or cut.  *)
(* Timers fire in any order: their durations are not compared.             *)
(***************************************************************************)
EXTENDS Integers, Sequences

CONSTANTS
  Total,        \* size of the file
  Chunk,        \* kChunk, what is read from the file at once (64 KiB)
  AckInterval,  \* kAckInterval, the boundary an ACK is due at (64 KiB)
  Setups        \* the circumstances under which transfers take place

(***************************************************************************)
(* The circumstances of a transfer: the receiver opens the port (passive), *)
(* the user chose to overwrite a file (exists), a message box may stay     *)
(* open until a timer of its transfer fires (lingers), a guard period may  *)
(* bring no ACK (slow), and neither the network nor the user ends the      *)
(* transfer (reliable).                                                    *)
(***************************************************************************)
Setup == [passive : BOOLEAN, exists : BOOLEAN, lingers : BOOLEAN,
          slow : BOOLEAN, reliable : BOOLEAN]

ASSUME SetupAssumption == Setups \subseteq Setup
ASSUME SizeAssumption == {Total, Chunk, AckInterval} \subseteq Nat \ {0}

VARIABLES
  setup, \* fixed when the offer is made
  snd,   \* the DccSend object, its dialog and its message box
  rcv,   \* the DccReceive object, its file, dialog and message box
  net    \* the TCP connection; mark is history: the bytes received when the
         \* sender's stall guard last looked

transfer == <<snd, rcv, net>>
vars == <<setup, transfer>>

Lesser(a, b) == IF a =< b THEN a ELSE b
SockState == {"none", "connecting", "connected", "closed"}
Box == {"none", "queued", "open"}

Outcome == {"none", "complete", "failed", "cancelled"}

DccSend ==
  [sock : SockState, sent : 0..Total, acked : 0..Total, seen : 0..Total,
   finished : BOOLEAN, guard : BOOLEAN, timer : BOOLEAN,
   reports : 0..2, outcome : Outcome, box : Box, dialog : BOOLEAN, alive : BOOLEAN]

DccReceive ==
  [sock : SockState, received : 0..Total, seen : 0..Total,
   done : BOOLEAN, guard : BOOLEAN, timer : BOOLEAN, first : BOOLEAN,
   file : {"none", "part", "saved"}, reports : 0..2, outcome : Outcome, box : Box,
   dialog : BOOLEAN, alive : BOOLEAN, asked : BOOLEAN]

Connection ==
  [link : {"none", "up", "closing", "cut"}, flushed : 0..Total,
   acks : Seq(1..Total), mark : 0..Total]

TypeOK == setup \in Setups /\ snd \in DccSend /\ rcv \in DccReceive /\ net \in Connection

\* A sender whose listen() or initPassive() succeeded: one that could not open
\* its file or a port is deleted before anything is offered.
NewSender ==
  [sock |-> "none", sent |-> 0, acked |-> 0, seen |-> 0,
   finished |-> FALSE, guard |-> FALSE, timer |-> TRUE,
   reports |-> 0, outcome |-> "none",
   box |-> "none", dialog |-> TRUE, alive |-> TRUE]

\* The receiver before the user has accepted.
NewReceiver ==
  [sock |-> "none", received |-> 0, seen |-> 0,
   done |-> FALSE, guard |-> FALSE, timer |-> FALSE, first |-> FALSE,
   file |-> "none", reports |-> 0, outcome |-> "none",
   box |-> "none", dialog |-> FALSE, alive |-> FALSE, asked |-> FALSE]

\* The sender has offered: it listens, or its token waits for the reply.
Init ==
  /\ setup \in Setups
  /\ snd = NewSender
  /\ rcv = NewReceiver
  /\ net = [link |-> "none", flushed |-> 0, acks |-> <<>>, mark |-> 0]

----------------------------------------------------------------------------
(* Both sides.                                                             *)

\* The field outcome is history: how the transfer first ended on this side.
FirstOutcome(x, outcome) == IF x.outcome = "none" THEN outcome ELSE x.outcome
Ends(x, outcome) == [x EXCEPT !.outcome = FirstOutcome(x, outcome)]

\* emit finished() or error(), which the controller handles queued.
Reports(x, outcome) ==
  [x EXCEPT !.outcome = FirstOutcome(x, outcome),
            !.reports = Lesser(@ + 1, 2),
            !.box = IF @ = "none" THEN "queued" ELSE @]

\* QAbstractSocket::abort() on either side.
Aborted(sock) == IF sock = "none" THEN sock ELSE "closed"
Cut(n) == [n EXCEPT !.link = IF @ = "none" THEN @ ELSE "cut"]

\* DccSend::cancel().
SendCancelled(s) ==
  IF s.finished THEN s
  ELSE [s EXCEPT !.finished = TRUE, !.sock = Aborted(@)]

\* Mutant: the partial file is left behind.
RecvCancelledKeepingFile(r) ==
  IF r.done THEN r ELSE [r EXCEPT !.done = TRUE, !.sock = Aborted(@)]

\* DccReceive::cancel().
RecvCancelled(r) ==
  IF r.done THEN r
  ELSE [r EXCEPT !.done = TRUE, !.sock = Aborted(@), !.file = "none"]

SenderGivesUp(s) ==
  /\ snd' = Reports(SendCancelled(s), "failed")
  /\ net' = IF s.finished THEN net ELSE Cut(net)
  /\ UNCHANGED rcv

ReceiverGivesUp(r) ==
  /\ rcv' = Reports(RecvCancelled(r), "failed")
  /\ net' = IF r.done THEN net ELSE Cut(net)
  /\ UNCHANGED snd

\* A timer fires while its object is there.  The event loop delivers a queued
\* report first, and an open message box may have been closed by then.
MayFire(x) == x.alive /\ (x.box = "none" \/ (setup.lingers /\ x.box = "open"))

----------------------------------------------------------------------------
(* Setting up the connection.                                              *)

\* start() connects, unless the size, the disk, the address or the file is
\* refused.
Start(r) ==
  {[r EXCEPT !.file = "part", !.timer = TRUE, !.sock = "connecting"], Reports(r, "failed")}

\* listenPassive() waits for the sender.
ListenPassive(r) == [r EXCEPT !.file = "part", !.timer = TRUE, !.sock = "none"]

Asked == [rcv EXCEPT !.asked = TRUE]

\* The user accepts the offer of a sender that listens.
AcceptActive ==
  /\ ~rcv.asked /\ ~setup.passive
  /\ rcv' \in Start([Asked EXCEPT !.alive = TRUE, !.dialog = TRUE])
  /\ UNCHANGED <<snd, net>>

\* The user accepts a passive offer.  A refusal by listenPassive() is emitted
\* before the controller listens.
AcceptPassive ==
  /\ ~rcv.asked /\ setup.passive
  /\ \/ rcv' = ListenPassive([Asked EXCEPT !.alive = TRUE, !.dialog = TRUE])
     \/ rcv' = Ends(Asked, "failed")
  /\ UNCHANGED <<snd, net>>

Accept == AcceptActive \/ AcceptPassive

\* The receiver's reply reaches the sender, which connects, unless the
\* address is private and LAN transfers are off.
PassiveReply ==
  /\ setup.passive
  /\ snd.timer /\ snd.alive
  /\ rcv.asked
  /\ rcv.file = "part" \/ rcv.done
  /\ \/ snd' = [snd EXCEPT !.timer = FALSE, !.sock = "connecting"]
     \/ snd' = Ends([snd EXCEPT !.timer = FALSE, !.alive = FALSE], "failed")
  /\ UNCHANGED <<rcv, net>>

\* Mutant: the end of the file is not noticed.
SendNextChunkPastEnd(s, n) ==
  IF s.finished \/ s.sock # "connected" \/ s.sent - n.flushed > 4 * Chunk
  THEN s
  ELSE [s EXCEPT !.sent = @ + Chunk]

\* sendNextChunk().
SendNextChunk(s, n) ==
  IF s.finished \/ s.sock # "connected" \/ s.sent - n.flushed > 4 * Chunk
  THEN s
  ELSE [s EXCEPT !.sent = Lesser(@ + Chunk, Total)]

Listening == IF setup.passive THEN rcv.alive /\ rcv.sock = "none" /\ ~rcv.done
                        ELSE snd.alive /\ snd.sock = "none" /\ ~snd.finished
Connecting == IF setup.passive THEN snd.alive /\ snd.sock = "connecting"
                         ELSE rcv.alive /\ rcv.sock = "connecting"

\* connected() and newConnection(): both arm their stall guards.
Connect ==
  /\ Listening /\ Connecting
  /\ net' = [net EXCEPT !.link = "up"]
  /\ snd' = SendNextChunk([snd EXCEPT !.sock = "connected", !.guard = TRUE], net')
  /\ rcv' = [rcv EXCEPT !.sock = "connected", !.guard = TRUE, !.first = setup.passive]

\* The sender's errorOccurred() only reports: cancelling is left to the
\* controller, which closes the dialog.
ConnectFails ==
  /\ Connecting
  /\ IF setup.passive
     THEN /\ snd' = Reports([snd EXCEPT !.sock = "closed"], "failed")
          /\ UNCHANGED <<rcv, net>>
     ELSE ReceiverGivesUp(rcv)

----------------------------------------------------------------------------
(* The transfer.                                                           *)

\* Bytes leave the sender's buffer: bytesWritten().
Flush ==
  /\ snd.alive /\ snd.sock = "connected"
  /\ net.link = "up"
  /\ \E flushed \in (net.flushed + 1)..snd.sent :
       /\ net' = [net EXCEPT !.flushed = flushed]
       /\ snd' = SendNextChunk(snd, net')
  /\ UNCHANGED rcv

\* Mutant: no ACK for what follows the last boundary.
AckDueWithoutLast(before, after) == after \div AckInterval > before \div AckInterval

\* Mutant: an ACK is only sent exactly at a boundary.
AckDueAtBoundary(before, after) == after % AckInterval = 0 \/ after >= Total

\* Whether the bytes just written call for an ACK.
AckDue(before, after) ==
  after \div AckInterval > before \div AckInterval \/ after >= Total

\* Mutant: the file is renamed while a piece is still missing.
AllReceivedEarly(received) == received + 1 >= Total

AllReceived(received) == received >= Total

\* Mutant: what the closed connection still reports is not ignored.
RecvClosedOpen(r) == [r EXCEPT !.sock = "closed"]

\* The file is complete: no later event of the socket counts.
RecvClosed(r) == [r EXCEPT !.done = TRUE, !.sock = "closed"]

\* onReadyRead() of the receiver: write, acknowledge, and on completion close
\* and rename, which fails when the target exists.
Receive ==
  /\ rcv.alive /\ ~rcv.done
  /\ rcv.sock = "connected"
  /\ \E received \in (rcv.received + 1)..net.flushed :
       LET r == [rcv EXCEPT !.received = received]
           acks == IF AckDue(rcv.received, received) THEN Append(net.acks, received)
                                                     ELSE net.acks
       IN  IF AllReceived(received)
           THEN /\ rcv' = IF setup.exists
                          THEN Reports(RecvClosed(r), "failed")
                          ELSE Reports([RecvClosed(r) EXCEPT !.file = "saved"], "complete")
                /\ net' = [net EXCEPT !.acks = acks,
                                      !.link = IF @ = "up" THEN "closing" ELSE @]
           ELSE /\ rcv' = r
                /\ net' = [net EXCEPT !.acks = acks]
  /\ UNCHANGED snd

\* The disk is full.
WriteFails ==
  /\ rcv.alive /\ ~rcv.done
  /\ rcv.sock = "connected"
  /\ rcv.received < net.flushed
  /\ ReceiverGivesUp(rcv)

Completed(s) == s.acked >= Total

\* onReadyRead() of the sender.
RecvAck ==
  /\ snd.alive
  /\ snd.sock = "connected"
  /\ net.acks # <<>>
  /\ net' = [net EXCEPT !.acks = Tail(@)]
  /\ LET acked == IF Head(net.acks) > snd.acked THEN Head(net.acks) ELSE snd.acked
         s == [snd EXCEPT !.acked = acked]
     IN  snd' = IF Completed(s) THEN Reports([s EXCEPT !.finished = TRUE], "complete") ELSE s
  /\ UNCHANGED rcv

\* The network drops the connection.
LinkCut ==
  /\ net.link = "up"
  /\ net' = Cut(net)
  /\ UNCHANGED <<snd, rcv>>

SenderError ==
  /\ snd.alive
  /\ snd.sock = "connected"
  /\ net.link = "cut" \/ (net.link = "closing" /\ net.acks = <<>>)
  /\ LET s == [snd EXCEPT !.sock = "closed"]
     IN  snd' = IF snd.finished THEN s ELSE Reports(s, "failed")
  /\ UNCHANGED <<rcv, net>>

ReceiverError ==
  /\ rcv.alive /\ ~rcv.done
  /\ \/ rcv.sock = "connected" /\ net.link = "cut"
     \/ rcv.sock = "closed" /\ net.link = "closing"
  /\ ReceiverGivesUp(rcv)

----------------------------------------------------------------------------
(* Timers.                                                                 *)

Stalled(x, progress) == progress = x.seen

SenderStallTick ==
  /\ snd.guard /\ MayFire(snd)
  /\ setup.slow \/ snd.finished \/ snd.acked > snd.seen
  /\ IF snd.finished
     THEN snd' = [snd EXCEPT !.guard = FALSE] /\ UNCHANGED <<rcv, net>>
     ELSE IF Stalled(snd, snd.acked)
          THEN SenderGivesUp([snd EXCEPT !.guard = FALSE])
          ELSE /\ snd' = [snd EXCEPT !.seen = snd.acked]
               /\ net' = [net EXCEPT !.mark = rcv.received]
               /\ UNCHANGED rcv

ReceiverStallTick ==
  /\ rcv.guard /\ MayFire(rcv)
  /\ setup.slow \/ rcv.done \/ rcv.received > rcv.seen
  /\ IF rcv.done
     THEN rcv' = [rcv EXCEPT !.guard = FALSE] /\ UNCHANGED <<snd, net>>
     ELSE IF Stalled(rcv, rcv.received)
          THEN ReceiverGivesUp([rcv EXCEPT !.guard = FALSE])
          ELSE rcv' = [rcv EXCEPT !.seen = rcv.received] /\ UNCHANGED <<snd, net>>

\* The sender's 60 s for a connection, or 120 s for a reply to the token.
SenderTimeout ==
  /\ snd.timer /\ MayFire(snd)
  /\ LET s == [snd EXCEPT !.timer = FALSE]
     IN  IF setup.passive
         THEN /\ snd' = Ends([SendCancelled(s) EXCEPT !.alive = FALSE], "failed")
              /\ UNCHANGED <<rcv, net>>
         ELSE IF s.sock = "none"
              THEN SenderGivesUp(s)
              ELSE snd' = s /\ UNCHANGED <<rcv, net>>

\* The receiver's 30 s to connect, or 60 s to be connected to.
ReceiverTimeout ==
  /\ rcv.timer /\ MayFire(rcv)
  /\ LET r == [rcv EXCEPT !.timer = FALSE]
     IN  IF (IF setup.passive THEN r.sock = "none" ELSE r.sock # "connected")
         THEN ReceiverGivesUp(r)
         ELSE rcv' = r /\ UNCHANGED <<snd, net>>

\* In passive mode, 30 s for the first byte.
FirstByteTimeout ==
  /\ rcv.first /\ MayFire(rcv)
  /\ setup.slow \/ rcv.received > 0 \/ rcv.done
  /\ LET r == [rcv EXCEPT !.first = FALSE]
     IN  IF r.received = 0
         THEN ReceiverGivesUp(r)
         ELSE rcv' = r /\ UNCHANGED <<snd, net>>

----------------------------------------------------------------------------
(* The controller and the user.                                            *)

\* The queued handler: closing the progress dialog emits canceled(), which
\* cancels the transfer; then the message box opens.
SenderNotified ==
  /\ snd.box = "queued"
  /\ snd' = [SendCancelled(snd) EXCEPT !.box = "open", !.dialog = FALSE]
  /\ net' = IF snd.finished THEN net ELSE Cut(net)
  /\ UNCHANGED rcv

ReceiverNotified ==
  /\ rcv.box = "queued"
  /\ rcv' = [RecvCancelled(rcv) EXCEPT !.box = "open", !.dialog = FALSE]
  /\ net' = IF rcv.done THEN net ELSE Cut(net)
  /\ UNCHANGED snd

\* deleteLater() takes effect when the message box has been closed.
SenderDeleted ==
  /\ snd.alive /\ snd.box = "open"
  /\ snd' = [snd EXCEPT !.alive = FALSE]
  /\ net' = IF net.link = "up" THEN Cut(net) ELSE net
  /\ UNCHANGED rcv

ReceiverDeleted ==
  /\ rcv.alive /\ rcv.box = "open"
  /\ rcv' = [rcv EXCEPT !.alive = FALSE]
  /\ UNCHANGED <<snd, net>>

SenderCancel ==
  /\ snd.alive /\ snd.dialog
  /\ snd' = Ends([SendCancelled(snd) EXCEPT !.alive = FALSE, !.dialog = FALSE], "cancelled")
  /\ net' = IF snd.finished THEN net ELSE Cut(net)
  /\ UNCHANGED rcv

ReceiverCancel ==
  /\ rcv.alive /\ rcv.dialog
  /\ rcv' = Ends([RecvCancelled(rcv) EXCEPT !.alive = FALSE, !.dialog = FALSE], "cancelled")
  /\ net' = IF rcv.done THEN net ELSE Cut(net)
  /\ UNCHANGED snd

Controller == SenderNotified \/ ReceiverNotified \/ SenderDeleted \/ ReceiverDeleted

Transfer == Connect \/ Flush \/ Receive \/ RecvAck

Guards == SenderStallTick \/ ReceiverStallTick \/ FirstByteTimeout

Failure ==
  \/ ConnectFails \/ WriteFails \/ LinkCut \/ SenderError \/ ReceiverError
  \/ SenderTimeout \/ ReceiverTimeout
  \/ SenderCancel \/ ReceiverCancel

Next ==
  /\ \/ Accept \/ PassiveReply
     \/ Transfer \/ Guards \/ Controller
     \/ ~setup.reliable /\ Failure
  /\ UNCHANGED setup

Spec == Init /\ [][Next]_vars

\* In a reliable setup TCP delivers, the event loops run and the users accept:
\* the guards are all that could end the transfer early.
LiveSpec ==
  /\ Spec
  /\ WF_transfer(setup.reliable /\ (Accept \/ PassiveReply \/ Transfer \/ Controller))

----------------------------------------------------------------------------
(* Safety.                                                                 *)

\* The pair implements the abstract file transfer: outcomes are learnt once,
\* and the sender's success means the receiver has every byte.
Abstract == INSTANCE FileTransfer
              WITH got <- rcv.received, sender <- snd.outcome, receiver <- rcv.outcome

IsFileTransfer == Abstract!FileTransferSpec

\* Each side tells its user once how the transfer ended, whichever errors,
\* timers and dialogs come after: the sender, whose guard stays armed, and the
\* receiver, whose socket may still report after cancel() and after the
\* orderly close of a completed transfer, as long as no message box keeps it
\* alive until its 30 s timer.
ReportsOnce ==
  /\ snd.reports =< 1
  /\ ~setup.lingers => rcv.reports =< 1

\* A completed download reports no error afterwards
\* (tests/tst_dcctransfer.cpp expects none after finished()).
SuccessIsFinal == rcv.outcome = "complete" => rcv.reports = 1

\* A transfer that has failed or was cancelled leaves no .part file, unless
\* it was to replace an existing file.
NoPartLeft ==
  rcv.outcome \in {"failed", "cancelled"} /\ ~setup.exists => rcv.file # "part"

\* The sender's stall guard strikes only when fewer than AckInterval bytes
\* arrived since its previous check, or the ACKs for them are still in flight.
StallMeansSlow ==
  [][SenderStallTick /\ snd'.finished /\ ~snd.finished =>
       net.acks # <<>> \/ rcv.received - net.mark < AckInterval]_vars

\* Nobody waits for the other: on a reliable network a connected transfer
\* completes on both sides, through the sender's flow control and the
\* receiver's coalesced ACKs.
Completes ==
  setup.reliable /\ net.link = "up"
    ~> (snd.outcome = "complete" /\ rcv.outcome = "complete")

\* A transfer ends cleanly, whatever fails and in whichever order its timers,
\* errors and dialogs come: it is reported once, and leaves no half of a file.
EndsCleanly == ReportsOnce /\ NoPartLeft

\* The coalesced ACKs are enough: for the guard not to take a transfer that
\* goes on for a stalled one, and for both sides to complete.
AcksSuffice == StallMeansSlow /\ Completes
=============================================================================
