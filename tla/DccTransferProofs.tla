------------------------- MODULE DccTransferProofs -------------------------
(***************************************************************************)
(* Proofs about DccTransfer: its types, and that the pair of transfer      *)
(* objects implements FileTransfer for every file size, chunk and ACK      *)
(* interval, in both modes, on fast links and slow ones.                   *)
(*                                                                         *)
(* The argument: bytes are counted down the pipeline, acked =< received =< *)
(* flushed =< sent, and so is every ACK in flight; hence the sender's      *)
(* success follows the receiver's last byte.  A receiver that can still    *)
(* take bytes has not learnt an outcome.                                   *)
(*                                                                         *)
(* That a transfer ends cleanly rests on the sockets and the timers: what  *)
(* has reported once no longer has a socket, an armed timer or an ACK on   *)
(* its way that could report again.                                        *)
(***************************************************************************)
EXTENDS DccTransfer, TLAPS

\* Counts only shrink along the pipeline from the file to the ACKs.
Pipeline ==
  /\ snd.acked =< rcv.received
  /\ rcv.received =< net.flushed
  /\ net.flushed =< snd.sent
  /\ \A i \in 1..Len(net.acks) : net.acks[i] =< rcv.received

\* An outcome is only learnt by a receiver that takes no more bytes.
OpenMeansUnknown ==
  /\ ~rcv.asked => ~rcv.alive /\ rcv.sock = "none" /\ rcv.outcome = "none"
  /\ ~rcv.done /\ (rcv.sock \in {"connecting", "connected"} \/ (setup.passive /\ rcv.alive)) =>
       rcv.outcome = "none"

Inv == TypeOK /\ Pipeline /\ OpenMeansUnknown

----------------------------------------------------------------------------
(* What the helpers return.                                                *)

\* Reporting changes nothing but the report, and keeps the first outcome.
LEMMA ReportsSendFacts ==
  ASSUME NEW s \in DccSend, NEW o \in Outcome \ {"none"}
  PROVE  LET r == Reports(s, o)
         IN  /\ r \in DccSend
             /\ r.acked = s.acked /\ r.sent = s.sent
             /\ r.outcome = IF s.outcome = "none" THEN o ELSE s.outcome
<1>1. Lesser(s.reports + 1, 2) \in 0..2
  BY DEF Lesser, DccSend
<1>2. PICK n \in 0..2, out \in Outcome, b \in Box :
        /\ Reports(s, o) = [s EXCEPT !.reports = n, !.outcome = out, !.box = b]
        /\ out = IF s.outcome = "none" THEN o ELSE s.outcome
  BY <1>1 DEF Reports, FirstOutcome, DccSend, Box
<1>3. Reports(s, o) \in DccSend
  BY <1>2 DEF DccSend
<1>4. QED
  BY <1>2, <1>3 DEF DccSend

LEMMA ReportsReceiveFacts ==
  ASSUME NEW r \in DccReceive, NEW o \in Outcome \ {"none"}
  PROVE  LET q == Reports(r, o)
         IN  /\ q \in DccReceive
             /\ q.received = r.received /\ q.done = r.done /\ q.sock = r.sock
             /\ q.alive = r.alive /\ q.asked = r.asked
             /\ q.outcome = IF r.outcome = "none" THEN o ELSE r.outcome
<1>1. Lesser(r.reports + 1, 2) \in 0..2
  BY DEF Lesser, DccReceive
<1>2. PICK n \in 0..2, out \in Outcome, b \in Box :
        /\ Reports(r, o) = [r EXCEPT !.reports = n, !.outcome = out, !.box = b]
        /\ out = IF r.outcome = "none" THEN o ELSE r.outcome
  BY <1>1 DEF Reports, FirstOutcome, DccReceive, Box
<1>3. Reports(r, o) \in DccReceive
  BY <1>2 DEF DccReceive
<1>4. QED
  BY <1>2, <1>3 DEF DccReceive

\* cancel() moves no byte and learns no outcome.
LEMMA SendCancelledFacts ==
  ASSUME NEW s \in DccSend
  PROVE  LET r == SendCancelled(s)
         IN  /\ r \in DccSend
             /\ r.acked = s.acked /\ r.sent = s.sent /\ r.outcome = s.outcome
BY DEF SendCancelled, Aborted, DccSend, SockState

LEMMA RecvCancelledFacts ==
  ASSUME NEW r \in DccReceive
  PROVE  LET q == RecvCancelled(r)
         IN  /\ q \in DccReceive
             /\ q.done
             /\ q.received = r.received /\ q.outcome = r.outcome
             /\ q.alive = r.alive /\ q.asked = r.asked
             /\ r.sock = "none" => q.sock = "none"
BY DEF RecvCancelled, Aborted, DccReceive, SockState

LEMMA CutFacts ==
  ASSUME NEW n \in Connection
  PROVE  LET m == Cut(n)
         IN  /\ m \in Connection
             /\ m.flushed = n.flushed /\ m.acks = n.acks
BY DEF Cut, Connection

\* sendNextChunk() only adds to what was read from the file.
LEMMA SendNextChunkFacts ==
  ASSUME NEW s \in DccSend, NEW n
  PROVE  LET r == SendNextChunk(s, n)
         IN  /\ r \in DccSend
             /\ r.sent >= s.sent
             /\ r.acked = s.acked /\ r.outcome = s.outcome
<1>1. CASE s.finished \/ s.sock # "connected" \/ s.sent - n.flushed > 4 * Chunk
  BY <1>1 DEF SendNextChunk, DccSend
<1>2. CASE ~(s.finished \/ s.sock # "connected" \/ s.sent - n.flushed > 4 * Chunk)
  <2>1. Lesser(s.sent + Chunk, Total) \in s.sent..Total
    BY SizeAssumption DEF Lesser, DccSend
  <2>2. SendNextChunk(s, n) = [s EXCEPT !.sent = Lesser(@ + Chunk, Total)]
    BY <1>2 DEF SendNextChunk
  <2>3. QED
    BY <2>1, <2>2 DEF DccSend
<1>3. QED
  BY <1>1, <1>2
\* Elements of a sequence, and what is left of them behind the head.
LEMMA SeqFacts ==
  ASSUME NEW S, NEW q \in Seq(S)
  PROVE  /\ \A i \in 1..Len(q) : q[i] \in S
         /\ q # <<>> => /\ 1 \in 1..Len(q) /\ Head(q) = q[1]
                        /\ Tail(q) \in Seq(S)
                        /\ \A i \in 1..Len(Tail(q)) :
                             i + 1 \in 1..Len(q) /\ Tail(q)[i] = q[i + 1]
OBVIOUS

----------------------------------------------------------------------------
(* The invariant.                                                          *)

LEMMA InitInv == Init => Inv
<1>1. <<>> \in Seq(1..Total) /\ Len(<<>>) = 0
  OBVIOUS
<1>2. QED
  BY <1>1, SizeAssumption DEF Init, NewSender, NewReceiver, Inv, TypeOK, Pipeline, OpenMeansUnknown,
     DccSend, DccReceive, Connection, SockState, Box, Outcome

\* The two ways out that every failing path takes.
LEMMA SenderGivesUpKeeps ==
  ASSUME Inv, NEW s \in DccSend,
         s.acked = snd.acked, s.sent = snd.sent, SenderGivesUp(s), setup' = setup
  PROVE  Inv'
<1>1. /\ snd' \in DccSend
      /\ snd'.acked = snd.acked /\ snd'.sent = snd.sent
  BY SendCancelledFacts, ReportsSendFacts DEF SenderGivesUp, Outcome
<1>2. /\ net' \in Connection
      /\ net'.flushed = net.flushed /\ net'.acks = net.acks
  BY CutFacts DEF SenderGivesUp, Inv, TypeOK
<1>3. rcv' = rcv
  BY DEF SenderGivesUp
<1>4. QED
  BY <1>1, <1>2, <1>3 DEF Inv, TypeOK, Pipeline, OpenMeansUnknown

LEMMA ReceiverGivesUpKeeps ==
  ASSUME Inv, NEW r \in DccReceive,
         r.received = rcv.received, r.asked, ReceiverGivesUp(r), setup' = setup
  PROVE  Inv'
<1>1. /\ rcv' \in DccReceive
      /\ rcv'.done /\ rcv'.asked
      /\ rcv'.received = rcv.received
  BY RecvCancelledFacts, ReportsReceiveFacts DEF ReceiverGivesUp, Outcome
<1>2. /\ net' \in Connection
      /\ net'.flushed = net.flushed /\ net'.acks = net.acks
  BY CutFacts DEF ReceiverGivesUp, Inv, TypeOK
<1>3. snd' = snd
  BY DEF ReceiverGivesUp
<1>4. QED
  BY <1>1, <1>2, <1>3 DEF Inv, TypeOK, Pipeline, OpenMeansUnknown
LEMMA StepInv == Inv /\ [Next]_vars => Inv'
<1> SUFFICES ASSUME Inv, [Next]_vars
             PROVE  Inv'
  OBVIOUS
<1> USE DEF Inv, TypeOK
<1>a. setup' = setup /\ setup.passive \in BOOLEAN
  BY SetupAssumption DEF Next, vars, Setup
<1> USE <1>a
<1>1. CASE Accept
  <2> DEFINE r == [Asked EXCEPT !.alive = TRUE, !.dialog = TRUE]
  <2>1. /\ ~rcv.asked /\ rcv.outcome = "none" /\ rcv.sock = "none" /\ ~rcv.alive
        /\ snd' = snd /\ net' = net
    BY <1>1 DEF Accept, AcceptActive, AcceptPassive, OpenMeansUnknown
  <2>2. /\ r \in DccReceive /\ r.asked /\ r.sock = "none"
        /\ r.received = rcv.received /\ r.outcome = "none"
    BY <2>1 DEF Asked, DccReceive
  <2>3. /\ rcv' \in DccReceive /\ rcv'.asked /\ rcv'.received = rcv.received
        /\ \/ rcv'.outcome = "none"
           \/ rcv'.sock = "none" /\ (~setup.passive \/ ~rcv'.alive)
    <3>1. CASE rcv' = ListenPassive(r)
      <4> HIDE DEF r
      <4>1. rcv' \in DccReceive
        BY <2>2, <3>1 DEF ListenPassive, DccReceive, SockState
      <4>2. rcv'.asked /\ rcv'.received = r.received /\ rcv'.outcome = r.outcome
        BY <2>2, <3>1 DEF ListenPassive, DccReceive
      <4>3. QED
        BY <2>2, <4>1, <4>2
    <3>2. CASE rcv' = [r EXCEPT !.file = "part", !.timer = TRUE, !.sock = "connecting"]
      <4> HIDE DEF r
      <4>1. rcv' \in DccReceive
        BY <2>2, <3>2 DEF DccReceive, SockState
      <4>2. rcv'.asked /\ rcv'.received = r.received /\ rcv'.outcome = r.outcome
        BY <2>2, <3>2 DEF DccReceive
      <4>3. QED
        BY <2>2, <4>1, <4>2
    <3>3. CASE ~setup.passive /\ rcv' = Reports(r, "failed")
      BY <2>2, <3>3, ReportsReceiveFacts DEF Outcome
    <3>4. CASE setup.passive /\ rcv' = Ends(Asked, "failed")
      BY <2>1, <3>4 DEF Asked, Ends, FirstOutcome, DccReceive, Outcome
    <3>5. QED
      BY <1>1, <3>1, <3>2, <3>3, <3>4 DEF Accept, AcceptActive, AcceptPassive, Start
  <2>4. QED
    BY <2>1, <2>3 DEF Pipeline, OpenMeansUnknown
<1>2. CASE PassiveReply
  BY <1>2 DEF PassiveReply, Ends, FirstOutcome, Pipeline, OpenMeansUnknown, DccSend, SockState, Outcome
<1>3. CASE Connect
  <2>1. net' \in Connection /\ net'.flushed = net.flushed /\ net'.acks = net.acks
    BY <1>3 DEF Connect, Connection
  <2>2. snd' \in DccSend /\ snd'.sent >= snd.sent /\ snd'.acked = snd.acked
    <3>1. [snd EXCEPT !.sock = "connected", !.guard = TRUE] \in DccSend
      BY DEF DccSend, SockState
    <3>2. QED
      BY <1>3, <3>1, SendNextChunkFacts DEF Connect, DccSend
  <2>3. /\ rcv' \in DccReceive
        /\ rcv'.received = rcv.received /\ rcv'.asked = rcv.asked /\ rcv'.done = rcv.done
        /\ rcv'.outcome = rcv.outcome /\ rcv'.alive = rcv.alive
        /\ rcv.asked /\ ~rcv.done => rcv.outcome = "none"
    BY <1>3
       DEF Connect, Listening, Connecting, OpenMeansUnknown, DccReceive, SockState
  <2>4. rcv.asked
    BY <1>3 DEF Connect, Listening, Connecting, OpenMeansUnknown
  <2>5. QED
    BY <2>1, <2>2, <2>3, <2>4 DEF Pipeline, OpenMeansUnknown, DccSend, Connection
<1>4. CASE ConnectFails
  <2>1. CASE setup.passive
    <3>1. [snd EXCEPT !.sock = "closed"] \in DccSend
      BY DEF DccSend, SockState
    <3>2. snd' \in DccSend /\ snd'.acked = snd.acked /\ snd'.sent = snd.sent
      BY <1>4, <2>1, <3>1, ReportsSendFacts DEF ConnectFails, Outcome, DccSend
    <3>3. QED
      BY <1>4, <2>1, <3>2 DEF ConnectFails, Pipeline, OpenMeansUnknown
  <2>2. CASE ~setup.passive
    BY <1>4, <2>2, ReceiverGivesUpKeeps DEF ConnectFails, Connecting, OpenMeansUnknown
  <2>3. QED
    BY <2>1, <2>2
<1>5. CASE Flush
  <2>1. PICK flushed \in (net.flushed + 1)..snd.sent :
          /\ net' = [net EXCEPT !.flushed = flushed]
          /\ snd' = SendNextChunk(snd, net')
    BY <1>5 DEF Flush
  <2>2. snd' \in DccSend /\ snd'.sent >= snd.sent /\ snd'.acked = snd.acked
    BY <2>1, SendNextChunkFacts
  <2>3. /\ net' \in Connection
        /\ net'.flushed = flushed /\ net'.acks = net.acks
    <3>1. flushed \in 0..Total
      BY <2>1, SizeAssumption DEF Connection, DccSend
    <3>2. QED
      BY <2>1, <3>1 DEF Connection
  <2>4. flushed > net.flushed /\ flushed =< snd.sent
    BY DEF Connection, DccSend
  <2>5. QED
    BY <1>5, <2>2, <2>4, <2>3 DEF Flush, Pipeline, OpenMeansUnknown, DccSend, DccReceive, Connection
<1>6. CASE Receive
  <2>1. PICK received \in (rcv.received + 1)..net.flushed :
          LET r == [rcv EXCEPT !.received = received]
              acks == IF AckDue(rcv.received, received) THEN Append(net.acks, received)
                                                        ELSE net.acks
          IN  IF AllReceived(received)
              THEN /\ rcv' = IF setup.exists
                             THEN Reports(RecvClosed(r), "failed")
                             ELSE Reports([RecvClosed(r) EXCEPT !.file = "saved"], "complete")
                   /\ net' = [net EXCEPT !.acks = acks,
                                         !.link = IF @ = "up" THEN "closing" ELSE @]
              ELSE /\ rcv' = r
                   /\ net' = [net EXCEPT !.acks = acks]
    BY <1>6 DEF Receive
  <2> DEFINE r == [rcv EXCEPT !.received = received]
             acks == IF AckDue(rcv.received, received) THEN Append(net.acks, received)
                                                       ELSE net.acks
  <2>2. /\ received \in 1..Total
        /\ rcv.received < received /\ received =< net.flushed
    BY SizeAssumption DEF Connection, DccReceive
  <2>3. /\ r \in DccReceive /\ r.received = received
        /\ r.asked = rcv.asked /\ r.done = rcv.done /\ r.sock = rcv.sock
        /\ r.alive = rcv.alive /\ r.outcome = rcv.outcome
    BY <2>2 DEF DccReceive
  <2>4. acks \in Seq(1..Total) /\ \A i \in 1..Len(acks) : acks[i] =< received
    <3>1. net.acks \in Seq(1..Total) /\ \A i \in 1..Len(net.acks) : net.acks[i] =< received
      <4>1. net.acks \in Seq(1..Total)
        BY DEF Connection
      <4>2. \A i \in 1..Len(net.acks) : net.acks[i] \in 1..Total
        BY <4>1, SeqFacts
      <4>3. QED
        BY <2>2, <4>1, <4>2 DEF Pipeline, DccReceive
    <3>2. /\ Append(net.acks, received) \in Seq(1..Total)
          /\ \A i \in 1..Len(Append(net.acks, received)) :
               Append(net.acks, received)[i] =< received
      BY <2>2, <3>1
    <3>3. QED
      BY <3>1, <3>2
  <2>5. /\ net' \in Connection
        /\ net'.flushed = net.flushed /\ net'.acks = acks
    <3> HIDE DEF acks
    <3>1. CASE AllReceived(received)
      <4>1. net' = [net EXCEPT !.acks = acks, !.link = IF @ = "up" THEN "closing" ELSE @]
        BY <2>1, <3>1 DEF acks
      <4>2. QED
        BY <2>4, <4>1 DEF Connection
    <3>2. CASE ~AllReceived(received)
      <4>1. net' = [net EXCEPT !.acks = acks]
        BY <2>1, <3>2 DEF acks
      <4>2. QED
        BY <2>4, <4>1 DEF Connection
    <3>3. QED
      BY <3>1, <3>2
  <2>6. /\ rcv' \in DccReceive /\ rcv'.received = received /\ rcv'.asked = rcv.asked
        /\ rcv'.done \/ rcv' = r
    <3>1. CASE AllReceived(received)
      <4>1. /\ RecvClosed(r) \in DccReceive
            /\ [RecvClosed(r) EXCEPT !.file = "saved"] \in DccReceive
        BY <2>3 DEF RecvClosed, DccReceive, SockState
      <4>2. \A q \in {RecvClosed(r), [RecvClosed(r) EXCEPT !.file = "saved"]} :
              q.received = received /\ q.asked = rcv.asked /\ q.done
        BY <2>3 DEF RecvClosed, DccReceive
      <4>3. PICK q \in {RecvClosed(r), [RecvClosed(r) EXCEPT !.file = "saved"]},
                 o \in {"failed", "complete"} : rcv' = Reports(q, o)
        BY <2>1, <3>1
      <4>4. /\ q \in DccReceive /\ o \in Outcome \ {"none"}
            /\ q.received = received /\ q.asked = rcv.asked /\ q.done
        BY <4>1, <4>2 DEF Outcome
      <4>5. QED
        BY <4>3, <4>4, ReportsReceiveFacts
    <3>2. CASE ~AllReceived(received)
      BY <2>1, <2>3, <3>2
    <3>3. QED
      BY <3>1, <3>2
  <2>7. snd' = snd /\ rcv.asked /\ snd.acked =< received
    BY <1>6, <2>2 DEF Receive, OpenMeansUnknown, Pipeline, DccSend, DccReceive
  <2> HIDE DEF r, acks
  <2>8. Pipeline'
    BY <2>2, <2>4, <2>5, <2>6, <2>7 DEF Pipeline
  <2>9. OpenMeansUnknown'
    BY <2>3, <2>6, <2>7 DEF OpenMeansUnknown
  <2>10. QED
    BY <2>5, <2>6, <2>7, <2>8, <2>9
<1>7. CASE WriteFails
  BY <1>7, ReceiverGivesUpKeeps DEF WriteFails, OpenMeansUnknown
<1>8. CASE RecvAck
  <2> DEFINE ack == Head(net.acks)
             acked == IF ack > snd.acked THEN ack ELSE snd.acked
             s == [snd EXCEPT !.acked = acked]
  <2>1. /\ net.acks \in Seq(1..Total) /\ net.acks # <<>>
        /\ rcv' = rcv /\ net' = [net EXCEPT !.acks = Tail(@)]
    BY <1>8 DEF RecvAck, Connection
  <2>2. /\ ack \in 1..Total /\ ack =< rcv.received
        /\ Tail(net.acks) \in Seq(1..Total)
        /\ \A i \in 1..Len(Tail(net.acks)) : Tail(net.acks)[i] =< rcv.received
    <3>1. ack \in 1..Total /\ ack =< rcv.received
      <4>1. \A i \in 1..Len(net.acks) : net.acks[i] =< rcv.received
        BY DEF Pipeline
      <4>2. /\ 1 \in 1..Len(net.acks) /\ ack = net.acks[1]
            /\ net.acks[1] \in 1..Total
        <5> HIDE DEF Inv, TypeOK
        <5>1. QED
          BY <2>1, SeqFacts
      <4>3. QED
        BY <4>1, <4>2
    <3>2. /\ Tail(net.acks) \in Seq(1..Total)
          /\ \A i \in 1..Len(Tail(net.acks)) : Tail(net.acks)[i] =< rcv.received
      BY <2>1, SeqFacts DEF Pipeline
    <3>3. QED
      BY <3>1, <3>2
  <2>3. acked \in 0..Total /\ acked =< rcv.received
    BY <2>2 DEF Pipeline, DccSend
  <2> HIDE DEF ack, acked
  <2>4. /\ s \in DccSend /\ [s EXCEPT !.finished = TRUE] \in DccSend
        /\ s.acked = acked /\ s.sent = snd.sent
    BY <2>3 DEF DccSend
  <2>5. snd' = IF Completed(s) THEN Reports([s EXCEPT !.finished = TRUE], "complete") ELSE s
    BY <1>8 DEF RecvAck, ack, acked
  <2>6. /\ snd' \in DccSend /\ snd'.acked = acked /\ snd'.sent = snd.sent
    <3>1. CASE Completed(s)
      <4>1. /\ [s EXCEPT !.finished = TRUE].acked = acked
            /\ [s EXCEPT !.finished = TRUE].sent = snd.sent
        BY <2>4 DEF DccSend
      <4>2. QED
        BY <2>4, <2>5, <3>1, <4>1, ReportsSendFacts DEF Outcome
    <3>2. CASE ~Completed(s)
      BY <2>4, <2>5, <3>2
    <3>3. QED
      BY <3>1, <3>2
  <2>7. /\ net' \in Connection
        /\ net'.flushed = net.flushed /\ net'.acks = Tail(net.acks)
    BY <2>1, <2>2 DEF Connection
  <2>8. QED
    BY <2>1, <2>2, <2>3, <2>6, <2>7 DEF Pipeline, OpenMeansUnknown
<1>9. CASE LinkCut
  BY <1>9, CutFacts DEF LinkCut, Pipeline, OpenMeansUnknown
<1>10. CASE SenderError
  <2> DEFINE s == [snd EXCEPT !.sock = "closed"]
  <2>1. s \in DccSend /\ s.acked = snd.acked /\ s.sent = snd.sent
    BY DEF DccSend, SockState
  <2> HIDE DEF s
  <2>2. snd' \in DccSend /\ snd'.acked = snd.acked /\ snd'.sent = snd.sent
    BY <1>10, <2>1, ReportsSendFacts DEF SenderError, Outcome, s
  <2>3. QED
    BY <1>10, <2>2 DEF SenderError, Pipeline, OpenMeansUnknown
<1>11. CASE ReceiverError
  BY <1>11, ReceiverGivesUpKeeps DEF ReceiverError, OpenMeansUnknown
<1>12. CASE SenderStallTick
  <2>1. /\ [snd EXCEPT !.guard = FALSE] \in DccSend
        /\ [snd EXCEPT !.guard = FALSE].acked = snd.acked
        /\ [snd EXCEPT !.guard = FALSE].sent = snd.sent
    BY DEF DccSend
  <2>2. CASE SenderGivesUp([snd EXCEPT !.guard = FALSE])
    BY <2>1, <2>2, SenderGivesUpKeeps
  <2>3. CASE snd' = [snd EXCEPT !.guard = FALSE] /\ UNCHANGED <<rcv, net>>
    BY <2>1, <2>3 DEF Pipeline, OpenMeansUnknown
  <2>4. CASE /\ snd' = [snd EXCEPT !.seen = snd.acked]
             /\ net' = [net EXCEPT !.mark = rcv.received]
             /\ UNCHANGED rcv
    <3>1. snd' \in DccSend /\ snd'.acked = snd.acked /\ snd'.sent = snd.sent
      BY <2>4 DEF DccSend
    <3>2. net' \in Connection /\ net'.flushed = net.flushed /\ net'.acks = net.acks
      BY <2>4 DEF Connection, DccReceive
    <3>3. QED
      BY <2>4, <3>1, <3>2 DEF Pipeline, OpenMeansUnknown
  <2>5. QED
    BY <1>12, <2>2, <2>3, <2>4 DEF SenderStallTick
<1>13. CASE ReceiverStallTick \/ ReceiverTimeout \/ FirstByteTimeout
  <2>1. rcv.alive /\ rcv.asked
    BY <1>13 DEF ReceiverStallTick, ReceiverTimeout, FirstByteTimeout, MayFire, OpenMeansUnknown
  <2>2. PICK r \in {[rcv EXCEPT !.guard = FALSE], [rcv EXCEPT !.timer = FALSE],
                    [rcv EXCEPT !.first = FALSE], [rcv EXCEPT !.seen = rcv.received]} :
          ReceiverGivesUp(r) \/ (rcv' = r /\ UNCHANGED <<snd, net>>)
    BY <1>13 DEF ReceiverStallTick, ReceiverTimeout, FirstByteTimeout
  <2>3. /\ r \in DccReceive /\ r.received = rcv.received /\ r.asked = rcv.asked
        /\ r.alive = rcv.alive /\ r.sock = rcv.sock /\ r.done = rcv.done
        /\ r.outcome = rcv.outcome
    BY DEF DccReceive
  <2>4. CASE ReceiverGivesUp(r)
    BY <2>1, <2>3, <2>4, ReceiverGivesUpKeeps
  <2>5. CASE rcv' = r /\ UNCHANGED <<snd, net>>
    BY <2>3, <2>5 DEF Pipeline, OpenMeansUnknown
  <2>6. QED
    BY <2>2, <2>4, <2>5
<1>14. CASE SenderTimeout
  <2> DEFINE s == [snd EXCEPT !.timer = FALSE]
  <2>1. s \in DccSend /\ s.acked = snd.acked /\ s.sent = snd.sent
    BY DEF DccSend
  <2>2. CASE setup.passive
    <3>1. /\ SendCancelled(s) \in DccSend
          /\ SendCancelled(s).acked = snd.acked /\ SendCancelled(s).sent = snd.sent
      BY <2>1, SendCancelledFacts
    <3>2. snd' \in DccSend /\ snd'.acked = snd.acked /\ snd'.sent = snd.sent
      BY <1>14, <2>2, <3>1 DEF SenderTimeout, Ends, FirstOutcome, DccSend, Outcome
    <3>3. QED
      BY <1>14, <2>2, <3>2 DEF SenderTimeout, Pipeline, OpenMeansUnknown
  <2>3. CASE ~setup.passive
    <3>1. SenderGivesUp(s) \/ (snd' = s /\ UNCHANGED <<rcv, net>>)
      BY <1>14, <2>3 DEF SenderTimeout
    <3>2. QED
      BY <2>1, <3>1, SenderGivesUpKeeps DEF Pipeline, OpenMeansUnknown
  <2>4. QED
    BY <2>2, <2>3
<1>15. CASE SenderNotified \/ SenderCancel
  <2>1. /\ SendCancelled(snd) \in DccSend
        /\ SendCancelled(snd).acked = snd.acked /\ SendCancelled(snd).sent = snd.sent
    BY SendCancelledFacts
  <2>2. snd' \in DccSend /\ snd'.acked = snd.acked /\ snd'.sent = snd.sent
    <3>1. CASE SenderNotified
      BY <2>1, <3>1 DEF SenderNotified, DccSend, Box
    <3>2. CASE SenderCancel
      BY <2>1, <3>2 DEF SenderCancel, Ends, FirstOutcome, DccSend, Outcome
    <3>3. QED
      BY <1>15, <3>1, <3>2
  <2>3. /\ net' \in Connection /\ net'.flushed = net.flushed /\ net'.acks = net.acks
        /\ rcv' = rcv
    BY <1>15, CutFacts DEF SenderNotified, SenderCancel
  <2>4. QED
    BY <2>2, <2>3 DEF Pipeline, OpenMeansUnknown
<1>16. CASE ReceiverNotified \/ ReceiverCancel
  <2>1. /\ RecvCancelled(rcv) \in DccReceive /\ RecvCancelled(rcv).done
        /\ RecvCancelled(rcv).received = rcv.received
        /\ RecvCancelled(rcv).asked = rcv.asked
        /\ RecvCancelled(rcv).outcome = rcv.outcome
        /\ RecvCancelled(rcv).alive = rcv.alive
        /\ rcv.sock = "none" => RecvCancelled(rcv).sock = "none"
    BY RecvCancelledFacts
  <2>2. /\ rcv' \in DccReceive /\ rcv'.done /\ rcv'.received = rcv.received
        /\ rcv'.asked = rcv.asked
        /\ rcv'.alive => rcv.alive
        /\ rcv.sock = "none" => rcv'.sock = "none"
        /\ rcv.asked \/ rcv'.outcome = rcv.outcome
    <3>1. CASE ReceiverNotified
      BY <2>1, <3>1 DEF ReceiverNotified, DccReceive, Box
    <3>2. CASE ReceiverCancel
      BY <2>1, <3>2 DEF ReceiverCancel, Ends, FirstOutcome, DccReceive, Outcome, OpenMeansUnknown
    <3>3. QED
      BY <1>16, <3>1, <3>2
  <2>3. /\ net' \in Connection /\ net'.flushed = net.flushed /\ net'.acks = net.acks
        /\ snd' = snd
    BY <1>16, CutFacts DEF ReceiverNotified, ReceiverCancel
  <2>4. QED
    BY <2>2, <2>3 DEF Pipeline, OpenMeansUnknown
<1>17. CASE SenderDeleted
  <2>1. snd' \in DccSend /\ snd'.acked = snd.acked /\ snd'.sent = snd.sent
    BY <1>17 DEF SenderDeleted, DccSend
  <2>2. QED
    BY <1>17, <2>1, CutFacts DEF SenderDeleted, Pipeline, OpenMeansUnknown
<1>18. CASE ReceiverDeleted
  BY <1>18 DEF ReceiverDeleted, DccReceive, Pipeline, OpenMeansUnknown
<1>19. CASE UNCHANGED vars
  BY <1>19 DEF vars, transfer, Pipeline, OpenMeansUnknown
<1>20. QED
  BY <1>1, <1>2, <1>3, <1>4, <1>5, <1>6, <1>7, <1>8, <1>9, <1>10, <1>11, <1>12,
     <1>13, <1>14, <1>15, <1>16, <1>17, <1>18, <1>19
     DEF Next, Transfer, Guards, Failure, Controller

----------------------------------------------------------------------------
(* The theorems.                                                           *)

LEMMA InvHolds == Spec => []Inv
<1>1. QED
  BY InitInv, StepInv, PTL DEF Spec

\* The fields of both objects and of the link keep their types: no count
\* leaves 0..Total, through failures, late timers and dialogs.
THEOREM TransferTypes == Spec => []TypeOK
<1>1. Inv => TypeOK
  BY DEF Inv
<1>2. QED
  BY <1>1, InvHolds, PTL

(***************************************************************************)
(* The refinement.  A step of one side that keeps or learns that side's    *)
(* outcome is a step, or a stutter, of the abstract transfer.              *)
(***************************************************************************)
LEMMA SenderSide ==
  ASSUME Inv, rcv' = rcv,
         \/ snd'.outcome = snd.outcome
         \/ /\ snd.outcome = "none"
            /\ snd'.outcome \in {"complete", "failed", "cancelled"}
            /\ snd'.outcome = "complete" => rcv.received = Total
  PROVE  [Abstract!FileTransferNext]_(Abstract!fileVars)
BY DEF Abstract!FileTransferNext, Abstract!SenderLearns, Abstract!Outcome, Abstract!fileVars

LEMMA ReceiverSide ==
  ASSUME Inv, snd' = snd, rcv'.received = rcv.received,
         \/ rcv'.outcome = rcv.outcome
         \/ rcv.outcome = "none" /\ rcv'.outcome \in {"failed", "cancelled"}
  PROVE  [Abstract!FileTransferNext]_(Abstract!fileVars)
BY DEF Abstract!FileTransferNext, Abstract!ReceiverLearns, Abstract!fileVars

LEMMA StepRefines ==
  ASSUME Inv, [Next]_vars
  PROVE  [Abstract!FileTransferNext]_(Abstract!fileVars)
<1> USE DEF Inv, TypeOK
<1>0. {"failed", "complete"} \subseteq Outcome \ {"none"}
  BY DEF Outcome
\* The ways out of both sides.
<1>1. ASSUME NEW s \in DccSend, s.outcome = snd.outcome, SenderGivesUp(s)
      PROVE  [Abstract!FileTransferNext]_(Abstract!fileVars)
  BY <1>1, SendCancelledFacts, ReportsSendFacts, SenderSide DEF SenderGivesUp, Outcome
<1>2. ASSUME NEW r \in DccReceive, r.outcome = rcv.outcome, r.received = rcv.received,
             ReceiverGivesUp(r)
      PROVE  [Abstract!FileTransferNext]_(Abstract!fileVars)
  BY <1>2, RecvCancelledFacts, ReportsReceiveFacts, ReceiverSide DEF ReceiverGivesUp, Outcome
\* The sender's own fields.
<1>3. CASE PassiveReply
  BY <1>3, SenderSide DEF PassiveReply, Ends, FirstOutcome, DccSend, Outcome
<1>4. CASE Flush
  BY <1>4, SendNextChunkFacts, SenderSide DEF Flush
<1>5. CASE RecvAck
  <2>1. PICK s \in DccSend :
          /\ s.acked =< rcv.received /\ s.outcome = snd.outcome
          /\ snd' = IF Completed(s) THEN Reports([s EXCEPT !.finished = TRUE], "complete") ELSE s
    <3> DEFINE acked == IF Head(net.acks) > snd.acked THEN Head(net.acks) ELSE snd.acked
    <3>1. net.acks \in Seq(1..Total) /\ net.acks # <<>>
      BY <1>5 DEF RecvAck, Connection
    <3>2. Head(net.acks) \in 1..Total /\ Head(net.acks) =< rcv.received
      BY <3>1, SeqFacts DEF Pipeline
    <3>3. acked \in 0..Total /\ acked =< rcv.received
      BY <3>2 DEF Pipeline, DccSend
    <3>4. /\ [snd EXCEPT !.acked = acked] \in DccSend
          /\ [snd EXCEPT !.acked = acked].acked = acked
          /\ [snd EXCEPT !.acked = acked].outcome = snd.outcome
      BY <3>3 DEF DccSend
    <3>5. QED
      BY <1>5, <3>3, <3>4 DEF RecvAck
  <2>2. Completed(s) => rcv.received = Total
    BY <2>1, SizeAssumption DEF Completed, DccSend, DccReceive
  <2>3. /\ [s EXCEPT !.finished = TRUE] \in DccSend
        /\ [s EXCEPT !.finished = TRUE].outcome = snd.outcome
    BY <2>1 DEF DccSend
  <2>4. \/ snd'.outcome = snd.outcome
        \/ /\ snd.outcome = "none" /\ snd'.outcome = "complete"
           /\ rcv.received = Total
    BY <2>1, <2>2, <2>3, ReportsSendFacts DEF Outcome
  <2>5. QED
    BY <1>5, <2>4, SenderSide DEF RecvAck
<1>6. CASE SenderError
  <2> DEFINE s == [snd EXCEPT !.sock = "closed"]
  <2>1. s \in DccSend /\ s.outcome = snd.outcome
    BY DEF DccSend, SockState
  <2> HIDE DEF s
  <2>2. /\ rcv' = rcv
        /\ snd' = IF snd.finished THEN s ELSE Reports(s, "failed")
    BY <1>6 DEF SenderError, s
  <2>3. QED
    BY <2>1, <2>2, ReportsSendFacts, SenderSide DEF Outcome
<1>7. CASE SenderStallTick
  <2>1. /\ [snd EXCEPT !.guard = FALSE] \in DccSend
        /\ [snd EXCEPT !.guard = FALSE].outcome = snd.outcome
        /\ [snd EXCEPT !.seen = snd.acked].outcome = snd.outcome
    BY DEF DccSend
  <2>2. \/ SenderGivesUp([snd EXCEPT !.guard = FALSE])
        \/ rcv' = rcv /\ snd'.outcome = snd.outcome
    BY <1>7, <2>1 DEF SenderStallTick
  <2>3. QED
    BY <1>1, <2>1, <2>2, SenderSide
<1>8. CASE SenderTimeout
  <2> DEFINE s == [snd EXCEPT !.timer = FALSE]
  <2>1. s \in DccSend /\ s.outcome = snd.outcome /\ s.finished = snd.finished
    BY DEF DccSend
  <2>2. CASE setup.passive
    BY <1>8, <2>1, <2>2, SendCancelledFacts, SenderSide DEF SenderTimeout, Ends, FirstOutcome, DccSend
  <2>3. CASE ~setup.passive
    BY <1>1, <1>8, <2>1, <2>3, SenderSide DEF SenderTimeout
  <2>4. QED
    BY <2>2, <2>3
<1>9. CASE SenderNotified
  BY <1>9, SendCancelledFacts, SenderSide DEF SenderNotified, DccSend
<1>10. CASE SenderCancel
  BY <1>10, SendCancelledFacts, SenderSide DEF SenderCancel, Ends, FirstOutcome, DccSend
<1>11. CASE SenderDeleted
  BY <1>11, SenderSide DEF SenderDeleted, DccSend
\* The receiver's fields.
<1>12. CASE Accept
  <2> DEFINE r == [Asked EXCEPT !.alive = TRUE, !.dialog = TRUE]
  <2>1. /\ r \in DccReceive /\ r.received = rcv.received /\ r.outcome = rcv.outcome
    BY DEF Asked, DccReceive
  <2>2. CASE ~setup.passive /\ rcv' = Reports(r, "failed")
    <3>1. /\ rcv'.received = rcv.received
          /\ rcv'.outcome = IF rcv.outcome = "none" THEN "failed" ELSE rcv.outcome
      <4> HIDE DEF r
      <4>1. /\ Reports(r, "failed").received = r.received
            /\ Reports(r, "failed").outcome = IF r.outcome = "none" THEN "failed" ELSE r.outcome
        BY <1>0, <2>1, ReportsReceiveFacts
      <4>2. QED
        BY <2>1, <2>2, <4>1
    <3>2. QED
      BY <1>12, <3>1, ReceiverSide DEF Accept, AcceptActive, AcceptPassive
  <2>3. CASE \/ rcv' = ListenPassive(r)
             \/ rcv' = [r EXCEPT !.file = "part", !.timer = TRUE, !.sock = "connecting"]
    BY <1>12, <2>3, ReceiverSide
       DEF Accept, AcceptActive, AcceptPassive, Asked, ListenPassive, DccReceive
  <2>4. CASE rcv' = Ends(Asked, "failed")
    BY <1>12, <2>4, ReceiverSide
       DEF Accept, AcceptActive, AcceptPassive, Asked, Ends, FirstOutcome, DccReceive
  <2>5. QED
    BY <1>12, <2>2, <2>3, <2>4 DEF Accept, AcceptActive, AcceptPassive, Start
<1>13. CASE Connect
  <2>1. [snd EXCEPT !.sock = "connected", !.guard = TRUE] \in DccSend
    BY DEF DccSend, SockState
  <2>2. snd'.outcome = snd.outcome
    BY <1>13, <2>1, SendNextChunkFacts DEF Connect, DccSend
  <2>3. rcv'.outcome = rcv.outcome /\ rcv'.received = rcv.received
    BY <1>13 DEF Connect, DccReceive
  <2>4. QED
    BY <2>2, <2>3 DEF Abstract!fileVars
<1>14. CASE ConnectFails
  <2>1. CASE setup.passive
    <3>1. /\ [snd EXCEPT !.sock = "closed"] \in DccSend
          /\ [snd EXCEPT !.sock = "closed"].outcome = snd.outcome
      BY DEF DccSend, SockState
    <3>2. QED
      <4>1. /\ snd' = Reports([snd EXCEPT !.sock = "closed"], "failed")
            /\ rcv' = rcv
        BY <1>14, <2>1 DEF ConnectFails
      <4>2. snd'.outcome = IF snd.outcome = "none" THEN "failed" ELSE snd.outcome
        <5>1. Reports([snd EXCEPT !.sock = "closed"], "failed").outcome
                = IF [snd EXCEPT !.sock = "closed"].outcome = "none" THEN "failed"
                  ELSE [snd EXCEPT !.sock = "closed"].outcome
          BY <1>0, <3>1, ReportsSendFacts
        <5>2. QED
          BY <3>1, <4>1, <5>1
      <4>3. QED
        BY <4>1, <4>2, SenderSide
  <2>2. QED
    BY <1>2, <1>14, <2>1 DEF ConnectFails
<1>15. CASE Receive
  <2>1. PICK received \in (rcv.received + 1)..net.flushed :
          LET r == [rcv EXCEPT !.received = received]
          IN  IF AllReceived(received)
              THEN rcv' = IF setup.exists
                          THEN Reports(RecvClosed(r), "failed")
                          ELSE Reports([RecvClosed(r) EXCEPT !.file = "saved"], "complete")
              ELSE rcv' = r
    BY <1>15 DEF Receive
  <2>2. received \in 1..Total /\ received > rcv.received
    BY SizeAssumption DEF Connection, DccReceive
  <2>3. snd' = snd /\ rcv.outcome = "none" /\ ~rcv.done
    BY <1>15 DEF Receive, OpenMeansUnknown
  <2> DEFINE r == [rcv EXCEPT !.received = received]
  <2>4. r \in DccReceive /\ r.received = received /\ r.outcome = "none"
    BY <2>2, <2>3 DEF DccReceive
  <2>5. /\ rcv'.received = received
        /\ rcv'.outcome \in (IF received = Total THEN {"complete", "failed"} ELSE {"none"})
    <3>1. CASE AllReceived(received)
      <4>1. received = Total
        BY <2>2, <3>1, SizeAssumption DEF AllReceived
      <4>2. \A q \in {RecvClosed(r), [RecvClosed(r) EXCEPT !.file = "saved"]} :
              q \in DccReceive /\ q.received = received /\ q.outcome = "none"
        <5> HIDE DEF r
        <5>1. /\ RecvClosed(r) \in DccReceive
              /\ RecvClosed(r).received = received /\ RecvClosed(r).outcome = "none"
          BY <2>4 DEF RecvClosed, DccReceive, SockState
        <5>2. \A q \in DccReceive :
                LET f == [q EXCEPT !.file = "saved"]
                IN  f \in DccReceive /\ f.received = q.received /\ f.outcome = q.outcome
          BY DEF DccReceive
        <5>3. QED
          BY <5>1, <5>2
      <4>3. PICK q \in {RecvClosed(r), [RecvClosed(r) EXCEPT !.file = "saved"]},
                 o \in {"failed", "complete"} : rcv' = Reports(q, o)
        BY <2>1, <3>1
      <4>4. rcv'.received = received /\ rcv'.outcome = o
        <5>1. q \in DccReceive /\ o \in Outcome \ {"none"}
          BY <4>2 DEF Outcome
        <5>2. QED
          BY <4>2, <4>3, <5>1, ReportsReceiveFacts
      <4>5. QED
        BY <4>1, <4>4
    <3>2. CASE ~AllReceived(received)
      <4>1. received # Total
        BY <3>2, SizeAssumption DEF AllReceived
      <4>2. QED
        BY <2>1, <2>4, <3>2, <4>1
    <3>3. QED
      BY <3>1, <3>2
  <2>6. Abstract!Arrives
    <3>1. rcv.received \in Nat /\ rcv.received < Total /\ received \in (rcv.received + 1)..Total
      BY <2>2, SizeAssumption DEF DccReceive
    <3>2. QED
      BY <2>3, <2>5, <3>1 DEF Abstract!Arrives
  <2>7. QED
    BY <2>6 DEF Abstract!FileTransferNext
<1>16. CASE WriteFails \/ ReceiverError
  BY <1>2, <1>16 DEF WriteFails, ReceiverError
<1>17. CASE ReceiverStallTick \/ ReceiverTimeout \/ FirstByteTimeout
  <2>1. PICK r \in {[rcv EXCEPT !.guard = FALSE], [rcv EXCEPT !.timer = FALSE],
                    [rcv EXCEPT !.first = FALSE], [rcv EXCEPT !.seen = rcv.received]} :
          ReceiverGivesUp(r) \/ (rcv' = r /\ UNCHANGED <<snd, net>>)
    BY <1>17 DEF ReceiverStallTick, ReceiverTimeout, FirstByteTimeout
  <2>2. r \in DccReceive /\ r.received = rcv.received /\ r.outcome = rcv.outcome
    BY DEF DccReceive
  <2>3. QED
    BY <1>2, <2>1, <2>2, ReceiverSide
<1>18. CASE ReceiverNotified
  BY <1>18, RecvCancelledFacts, ReceiverSide DEF ReceiverNotified, DccReceive
<1>19. CASE ReceiverCancel
  BY <1>19, RecvCancelledFacts, ReceiverSide DEF ReceiverCancel, Ends, FirstOutcome, DccReceive
<1>20. CASE ReceiverDeleted
  BY <1>20, ReceiverSide DEF ReceiverDeleted, DccReceive
<1>21. CASE LinkCut \/ UNCHANGED vars
  BY <1>21 DEF LinkCut, vars, transfer, Abstract!fileVars
<1>22. QED
  BY <1>3, <1>4, <1>5, <1>6, <1>7, <1>8, <1>9, <1>10, <1>11, <1>12, <1>13, <1>14,
     <1>15, <1>16, <1>17, <1>18, <1>19, <1>20, <1>21
     DEF Next, Transfer, Guards, Failure, Controller

\* Every step of the pair of DCC objects is a step of the abstract transfer:
\* nothing arrives after the receiver's end, and the sender reports success
\* only when every byte has reached the receiver.
THEOREM TransferImplemented == Spec => IsFileTransfer
<1>1. Init => Abstract!FileTransferInit
  BY DEF Init, NewSender, NewReceiver, Abstract!FileTransferInit
<1>2. Inv /\ [Next]_vars => [Abstract!FileTransferNext]_(Abstract!fileVars)
  BY StepRefines
<1>3. QED
  BY <1>1, <1>2, InvHolds, PTL DEF Spec, IsFileTransfer, Abstract!FileTransferSpec

----------------------------------------------------------------------------
(* The transfer ends cleanly.                                              *)

\* ACKs in flight grow, and each is news to the sender.
Growing(q, above) ==
  \A i \in 1..Len(q) :
    /\ q[i] > above
    /\ \A j \in (i + 1)..Len(q) : q[i] < q[j]

AcksGrow == Growing(net.acks, snd.acked)

\* A sender that has reported is out of reach of whatever reports: of its
\* socket, of its timer, and of the guard once its message box is open.
SenderEnded ==
  /\ snd.reports =< 1
  /\ snd.reports = 0 <=> snd.box = "none"
  /\ snd.box = "open" => snd.finished
  /\ snd.sock \in {"none", "connecting"} => ~snd.guard
  /\ setup.passive /\ snd.timer => snd.sock = "none"
  /\ snd.reports = 1 =>
       /\ snd.sock # "connecting"
       /\ snd.sock = "none" => snd.finished /\ ~snd.timer
       /\ snd.sock = "connected" => snd.finished /\ snd.acked = Total

\* A receiver that has reported is done, or never got a socket; its timers
\* find the message box in their way unless it lingers.
ReceiverEnded ==
  /\ ~setup.lingers => rcv.reports =< 1
  /\ rcv.reports = 0 <=> rcv.box = "none"
  /\ ~rcv.asked => rcv.reports = 0 /\ rcv.file = "none" /\ ~rcv.done
  /\ rcv.done => rcv.sock \in {"none", "closed"}
  /\ rcv.reports # 0 =>
       rcv.done \/ (rcv.sock = "none" /\ (setup.passive => ~rcv.alive))

\* Only a receiver that still takes bytes holds a .part file.
NoPartKept == rcv.done /\ ~setup.exists => rcv.file # "part"

EndsInv == AcksGrow /\ SenderEnded /\ ReceiverEnded /\ NoPartKept /\ NoPartLeft

\* The first report, and what it leaves alone.
LEMMA FirstReport ==
  ASSUME NEW s \in DccSend, NEW o, s.reports = 0, s.box = "none"
  PROVE  LET r == Reports(s, o)
         IN  /\ r.reports = 1 /\ r.box = "queued"
             /\ r.sock = s.sock /\ r.finished = s.finished /\ r.guard = s.guard
             /\ r.timer = s.timer /\ r.acked = s.acked
<1>1. Lesser(s.reports + 1, 2) = 1
  BY DEF Lesser
<1>2. PICK out : Reports(s, o) = [s EXCEPT !.outcome = out, !.reports = 1, !.box = "queued"]
  BY <1>1 DEF Reports
<1>3. QED
  BY <1>2 DEF DccSend

LEMMA ReceiverReport ==
  ASSUME NEW r \in DccReceive, NEW o
  PROVE  LET q == Reports(r, o)
         IN  /\ q.reports # 0 /\ q.box # "none"
             /\ r.reports = 0 => q.reports = 1
             /\ q.sock = r.sock /\ q.done = r.done /\ q.file = r.file
             /\ q.alive = r.alive /\ q.asked = r.asked
<1> DEFINE n == Lesser(r.reports + 1, 2)
           b == IF r.box = "none" THEN "queued" ELSE r.box
           out == FirstOutcome(r, o)
<1>1. n \in {1, 2} /\ (r.reports = 0 => n = 1)
  BY DEF Lesser, DccReceive
<1>2. b \in {"queued", "open"}
  BY DEF DccReceive, Box
<1>3. Reports(r, o) = [r EXCEPT !.outcome = out, !.reports = n, !.box = b]
  BY DEF Reports
<1> HIDE DEF n, b, out
<1>4. QED
  BY <1>1, <1>2, <1>3 DEF DccReceive

LEMMA SendCancelledFields ==
  ASSUME NEW s \in DccSend
  PROVE  LET r == SendCancelled(s)
         IN  /\ r.finished
             /\ r.sock = IF s.finished \/ s.sock = "none" THEN s.sock ELSE "closed"
             /\ r.reports = s.reports /\ r.box = s.box /\ r.guard = s.guard
             /\ r.timer = s.timer /\ r.acked = s.acked
BY DEF SendCancelled, Aborted, DccSend

LEMMA RecvCancelledFields ==
  ASSUME NEW r \in DccReceive
  PROVE  LET q == RecvCancelled(r)
         IN  /\ q.done
             /\ q.sock = IF r.done \/ r.sock = "none" THEN r.sock ELSE "closed"
             /\ q.file = IF r.done THEN r.file ELSE "none"
             /\ q.reports = r.reports /\ q.box = r.box
             /\ q.alive = r.alive /\ q.asked = r.asked
BY DEF RecvCancelled, Aborted, DccReceive

LEMMA InitEnds == Init => EndsInv
<1>1. Len(<<>>) = 0
  OBVIOUS
<1>2. QED
  BY <1>1 DEF Init, NewSender, NewReceiver, EndsInv, AcksGrow, Growing, SenderEnded, ReceiverEnded,
     NoPartKept, NoPartLeft

LEMMA GrowingAppend ==
  ASSUME NEW q \in Seq(Int), NEW above \in Int, Growing(q, above),
         NEW x \in Int, x > above, \A i \in 1..Len(q) : q[i] < x
  PROVE  Growing(Append(q, x), above)
<1> DEFINE r == Append(q, x)
<1>1. /\ Len(q) \in Nat /\ Len(r) = Len(q) + 1
      /\ \A i \in 1..Len(q) : r[i] = q[i]
      /\ r[Len(q) + 1] = x
  OBVIOUS
<1> HIDE DEF r
<1>2. SUFFICES ASSUME NEW i \in 1..Len(r)
               PROVE  r[i] > above /\ \A j \in (i + 1)..Len(r) : r[i] < r[j]
  BY DEF Growing, r
<1>3. CASE i \in 1..Len(q)
  <2>1. q[i] \in Int /\ r[i] = q[i] /\ r[i] > above /\ r[i] < x
    BY <1>1, <1>3 DEF Growing
  <2>2. ASSUME NEW j \in (i + 1)..Len(r)
        PROVE  r[i] < r[j]
    <3>1. CASE j = Len(q) + 1
      BY <1>1, <2>1, <3>1
    <3>2. CASE j # Len(q) + 1
      <4> DEFINE n == Len(q)
      <4>a. n \in Nat /\ j \in (i + 1)..(n + 1) /\ j # n + 1 /\ i \in 1..n
        BY <1>1, <1>3, <3>2
      <4> HIDE DEF n
      <4>b. j \in (i + 1)..n /\ j \in 1..n
        BY <4>a
      <4>1. j \in (i + 1)..Len(q) /\ j \in 1..Len(q)
        BY <4>b DEF n
      <4>2. QED
        BY <1>1, <1>3, <4>1 DEF Growing
    <3>3. QED
      BY <3>1, <3>2
  <2>3. QED
    BY <2>1, <2>2
<1>4. CASE i = Len(q) + 1
  BY <1>1, <1>4
<1>5. QED
  BY <1>1, <1>3, <1>4

LEMMA GrowingTail ==
  ASSUME NEW q \in Seq(Int), NEW above, Growing(q, above), q # <<>>
  PROVE  Head(q) > above /\ Growing(Tail(q), Head(q))
<1>1. /\ Len(q) \in Nat \ {0} /\ Len(Tail(q)) = Len(q) - 1
      /\ \A i \in 1..Len(Tail(q)) : Tail(q)[i] = q[i + 1]
      /\ Head(q) = q[1]
  OBVIOUS
<1>2. QED
  BY <1>1 DEF Growing

\* The sender gives up before it has reported.
LEMMA SenderGivesUpOnce ==
  ASSUME NEW s \in DccSend, s.reports = 0, s.box = "none", SenderGivesUp(s)
  PROVE  /\ snd'.reports = 1 /\ snd'.box = "queued" /\ snd'.finished
         /\ snd'.sock = IF s.finished \/ s.sock = "none" THEN s.sock ELSE "closed"
         /\ snd'.guard = s.guard /\ snd'.timer = s.timer /\ snd'.acked = s.acked
<1>1. SendCancelled(s) \in DccSend
  BY SendCancelledFacts
<1>2. QED
  BY <1>1, SendCancelledFields, FirstReport DEF SenderGivesUp

\* The sender's steps keep what its reports rest on, and only an ACK moves its
\* count of acknowledged bytes.
LEMMA SenderStep ==
  ASSUME Inv, AcksGrow, SenderEnded, [Next]_vars
  PROVE  SenderEnded' /\ (~RecvAck => snd'.acked = snd.acked)
<1>0. /\ snd \in DccSend /\ rcv \in DccReceive /\ net \in Connection
      /\ setup' = setup /\ setup.passive \in BOOLEAN
  BY SetupAssumption DEF Inv, TypeOK, Next, vars, Setup
<1>t. /\ snd.reports \in 0..2 /\ snd.sock \in SockState /\ snd.acked \in 0..Total
      /\ snd.box \in Box
      /\ snd.finished \in BOOLEAN /\ snd.guard \in BOOLEAN /\ snd.timer \in BOOLEAN
  BY <1>0 DEF DccSend
<1>1. CASE snd' = snd
  BY <1>0, <1>1 DEF SenderEnded
<1>2. CASE PassiveReply
  <2>1. /\ setup.passive /\ snd.timer /\ snd.sock = "none" /\ snd.reports = 0
        /\ snd.box = "none" /\ ~snd.guard
    BY <1>2, <1>t DEF PassiveReply, SenderEnded
  <2>2. /\ snd'.reports = 0 /\ snd'.box = "none" /\ ~snd'.guard /\ ~snd'.timer
        /\ snd'.acked = snd.acked
    BY <1>0, <1>2, <2>1 DEF PassiveReply, Ends, DccSend
  <2>3. QED
    BY <1>0, <2>2 DEF SenderEnded
<1>3. CASE Connect
  <2> DEFINE s == [snd EXCEPT !.sock = "connected", !.guard = TRUE]
  <2>1. s \in DccSend
    BY <1>0 DEF DccSend, SockState
  <2>2. /\ s.sock = "connected" /\ s.reports = snd.reports /\ s.box = snd.box
        /\ s.finished = snd.finished /\ s.timer = snd.timer /\ s.guard /\ s.acked = snd.acked
    BY <1>0 DEF DccSend
  <2>3. snd' = SendNextChunk(s, net')
    BY <1>3 DEF Connect
  <2> HIDE DEF s
  <2>4. /\ snd'.sock = "connected" /\ snd'.reports = snd.reports /\ snd'.box = snd.box
        /\ snd'.finished = snd.finished /\ snd'.timer = snd.timer /\ snd'.guard
        /\ snd'.acked = snd.acked
    BY <2>1, <2>2, <2>3 DEF SendNextChunk, DccSend
  <2>5. /\ snd.reports = 0
        /\ setup.passive => snd.sock = "connecting"
    BY <1>3, <1>t DEF Connect, Listening, Connecting, SenderEnded
  <2>6. QED
    BY <1>0, <1>t, <2>4, <2>5 DEF SenderEnded
<1>4. CASE ConnectFails /\ setup.passive
  <2> DEFINE s == [snd EXCEPT !.sock = "closed"]
  <2>1. s \in DccSend
    BY <1>0 DEF DccSend, SockState
  <2>2. /\ s.sock = "closed" /\ s.reports = snd.reports /\ s.box = snd.box
        /\ s.finished = snd.finished /\ s.timer = snd.timer /\ s.acked = snd.acked
    BY <1>0 DEF DccSend
  <2>3. snd.sock = "connecting" /\ snd' = Reports(s, "failed")
    BY <1>4 DEF ConnectFails, Connecting
  <2>4. snd.reports = 0 /\ snd.box = "none" /\ ~snd.timer
    BY <1>4, <1>t, <2>3 DEF SenderEnded
  <2> HIDE DEF s
  <2>5. /\ snd'.reports = 1 /\ snd'.box = "queued" /\ snd'.sock = "closed"
        /\ ~snd'.timer /\ snd'.acked = snd.acked
    BY <2>1, <2>2, <2>3, <2>4, FirstReport
  <2>6. QED
    BY <1>0, <2>5 DEF SenderEnded
<1>5. CASE Flush
  <2>1. /\ snd'.sock = snd.sock /\ snd'.reports = snd.reports /\ snd'.box = snd.box
        /\ snd'.finished = snd.finished /\ snd'.timer = snd.timer /\ snd'.guard = snd.guard
        /\ snd'.acked = snd.acked
    BY <1>0, <1>5 DEF Flush, SendNextChunk, DccSend
  <2>2. QED
    BY <1>0, <2>1 DEF SenderEnded
<1>6. CASE RecvAck
  <2>1. /\ net.acks # <<>> /\ snd.sock = "connected"
    BY <1>6 DEF RecvAck
  <2>2. net.acks \in Seq(1..Total) /\ net.acks \in Seq(Int) /\ Total \in Nat
    BY <1>0, SizeAssumption DEF Connection
  <2>3. Head(net.acks) \in 1..Total /\ Head(net.acks) > snd.acked
    <3>1. Head(net.acks) \in 1..Total
      BY <2>1, <2>2, SeqFacts
    <3>2. Head(net.acks) > snd.acked
      BY <2>1, <2>2, GrowingTail DEF AcksGrow
    <3>3. QED
      BY <3>1, <3>2
  <2>4. snd.reports = 0 /\ snd.box = "none"
    BY <1>t, <2>1, <2>2, <2>3 DEF SenderEnded
  <2> DEFINE ack == Head(net.acks)
             s == [snd EXCEPT !.acked = ack]
  <2>a. ack \in 0..Total /\ ack > snd.acked
    BY <2>2, <2>3
  <2>5. snd' = IF Completed(s) THEN Reports([s EXCEPT !.finished = TRUE], "complete") ELSE s
    BY <1>6, <2>3 DEF RecvAck
  <2> HIDE DEF ack
  <2>6. /\ s \in DccSend /\ s.acked = ack /\ s.sock = "connected"
        /\ s.reports = 0 /\ s.box = "none"
        /\ s.finished = snd.finished /\ s.timer = snd.timer /\ s.guard = snd.guard
    BY <1>0, <2>1, <2>4, <2>a DEF DccSend
  <2> HIDE DEF s
  <2>7. CASE Completed(s)
    <3> DEFINE f == [s EXCEPT !.finished = TRUE]
    <3>1. /\ f \in DccSend /\ f.acked = s.acked /\ f.sock = s.sock /\ f.reports = s.reports
          /\ f.box = s.box /\ f.finished /\ f.timer = s.timer /\ f.guard = s.guard
      BY <2>6 DEF DccSend
    <3>2. snd' = Reports(f, "complete")
      BY <2>5, <2>7
    <3> HIDE DEF f
    <3>3. /\ snd'.reports = 1 /\ snd'.box = "queued" /\ snd'.sock = "connected"
          /\ snd'.finished /\ snd'.acked = s.acked /\ snd'.timer = snd.timer
      BY <2>6, <3>1, <3>2, FirstReport
    <3>4. s.acked = Total
      BY <2>2, <2>6, <2>7, <2>a DEF Completed
    <3>5. QED
      BY <1>0, <1>6, <2>1, <3>3, <3>4 DEF SenderEnded
  <2>8. CASE ~Completed(s)
    BY <1>0, <1>6, <2>1, <2>4, <2>5, <2>6, <2>8 DEF SenderEnded
  <2>9. QED
    BY <2>7, <2>8
<1>7. CASE SenderError
  <2> DEFINE s == [snd EXCEPT !.sock = "closed"]
  <2>1. /\ s \in DccSend /\ s.sock = "closed" /\ s.reports = snd.reports /\ s.box = snd.box
        /\ s.finished = snd.finished /\ s.timer = snd.timer /\ s.acked = snd.acked
    BY <1>0 DEF DccSend, SockState
  <2>2. snd.sock = "connected" /\ snd' = IF snd.finished THEN s ELSE Reports(s, "failed")
    BY <1>7 DEF SenderError
  <2> HIDE DEF s
  <2>3. CASE snd.finished
    BY <1>0, <2>1, <2>2, <2>3 DEF SenderEnded
  <2>4. CASE ~snd.finished
    <3>1. s.reports = 0 /\ s.box = "none"
      BY <1>t, <2>1, <2>2, <2>4 DEF SenderEnded
    <3>2. /\ snd'.reports = 1 /\ snd'.box = "queued" /\ snd'.sock = "closed"
          /\ snd'.timer = snd.timer /\ snd'.acked = snd.acked
      BY <2>1, <2>2, <2>4, <3>1, FirstReport
    <3>3. QED
      BY <1>0, <2>2, <3>2 DEF SenderEnded
  <2>5. QED
    BY <2>3, <2>4
<1>8. CASE SenderStallTick
  <2> DEFINE s == [snd EXCEPT !.guard = FALSE]
  <2>1. /\ s \in DccSend /\ s.sock = snd.sock /\ s.reports = snd.reports /\ s.box = snd.box
        /\ s.finished = snd.finished /\ s.timer = snd.timer /\ ~s.guard /\ s.acked = snd.acked
    BY <1>0 DEF DccSend
  <2>2. CASE SenderGivesUp(s) /\ ~snd.finished
    <3>1. snd.guard /\ snd.box \in {"none", "open"}
      BY <1>8 DEF SenderStallTick, MayFire
    <3>2. snd.reports = 0 /\ snd.box = "none" /\ snd.sock # "none"
      BY <1>t, <2>2, <3>1 DEF SenderEnded
    <3> HIDE DEF s
    <3>3. /\ snd'.reports = 1 /\ snd'.box = "queued" /\ snd'.sock = "closed"
          /\ snd'.timer = snd.timer /\ snd'.acked = snd.acked
      BY <2>1, <2>2, <3>2, SenderGivesUpOnce
    <3>4. QED
      BY <1>0, <1>t, <3>2, <3>3 DEF SenderEnded
  <2>3. CASE snd' = s
    <3> HIDE DEF s
    <3>1. QED
      BY <1>0, <2>1, <2>3 DEF SenderEnded
  <2>4. CASE snd' = [snd EXCEPT !.seen = snd.acked]
    <3>1. /\ snd'.sock = snd.sock /\ snd'.reports = snd.reports /\ snd'.box = snd.box
          /\ snd'.finished = snd.finished /\ snd'.timer = snd.timer /\ snd'.guard = snd.guard
          /\ snd'.acked = snd.acked
      BY <1>0, <2>4 DEF DccSend
    <3>2. QED
      BY <1>0, <3>1 DEF SenderEnded
  <2>5. QED
    BY <1>8, <2>2, <2>3, <2>4 DEF SenderStallTick
<1>9. CASE SenderTimeout
  <2> DEFINE s == [snd EXCEPT !.timer = FALSE]
  <2>1. /\ s \in DccSend /\ s.sock = snd.sock /\ s.reports = snd.reports /\ s.box = snd.box
        /\ s.finished = snd.finished /\ ~s.timer /\ s.guard = snd.guard /\ s.acked = snd.acked
    BY <1>0 DEF DccSend
  <2>2. CASE setup.passive
    <3>1. snd' = Ends([SendCancelled(s) EXCEPT !.alive = FALSE], "failed") /\ snd.timer
      BY <1>9, <2>2 DEF SenderTimeout
    <3>2. snd.sock = "none" /\ snd.reports = 0 /\ snd.box = "none" /\ ~snd.guard
      BY <1>t, <2>2, <3>1 DEF SenderEnded
    <3> HIDE DEF s
    <3>3. /\ SendCancelled(s) \in DccSend
          /\ SendCancelled(s).reports = 0 /\ SendCancelled(s).box = "none"
          /\ ~SendCancelled(s).guard /\ ~SendCancelled(s).timer
          /\ SendCancelled(s).acked = snd.acked
      BY <2>1, <3>2, SendCancelledFacts, SendCancelledFields
    <3>4. /\ snd'.reports = 0 /\ snd'.box = "none" /\ ~snd'.guard /\ ~snd'.timer
          /\ snd'.acked = snd.acked
      BY <3>1, <3>3 DEF Ends, DccSend
    <3>5. QED
      BY <1>0, <3>4 DEF SenderEnded
  <2>3. CASE ~setup.passive /\ snd.sock = "none"
    <3>1. SenderGivesUp(s) /\ snd.timer
      BY <1>9, <2>1, <2>3 DEF SenderTimeout
    <3>2. snd.reports = 0 /\ snd.box = "none" /\ ~snd.guard
      BY <1>t, <2>3, <3>1 DEF SenderEnded
    <3> HIDE DEF s
    <3>3. /\ snd'.reports = 1 /\ snd'.box = "queued" /\ snd'.sock = "none" /\ snd'.finished
          /\ ~snd'.timer /\ ~snd'.guard /\ snd'.acked = snd.acked
      BY <2>1, <2>3, <3>1, <3>2, SenderGivesUpOnce
    <3>4. QED
      BY <1>0, <3>3 DEF SenderEnded
  <2>4. CASE ~setup.passive /\ snd.sock # "none"
    <3>1. snd' = s
      BY <1>9, <2>1, <2>4 DEF SenderTimeout
    <3> HIDE DEF s
    <3>2. QED
      BY <1>0, <2>1, <3>1 DEF SenderEnded
  <2>5. QED
    BY <2>2, <2>3, <2>4
<1>10. CASE SenderNotified
  <2>1. snd' = [SendCancelled(snd) EXCEPT !.box = "open", !.dialog = FALSE] /\ snd.box = "queued"
    BY <1>10 DEF SenderNotified
  <2>2. SendCancelled(snd) \in DccSend
    BY <1>0, SendCancelledFacts
  <2>3. /\ snd'.box = "open" /\ snd'.finished
        /\ snd'.sock = IF snd.finished \/ snd.sock = "none" THEN snd.sock ELSE "closed"
        /\ snd'.reports = snd.reports /\ snd'.guard = snd.guard
        /\ snd'.timer = snd.timer /\ snd'.acked = snd.acked
    <3> DEFINE c == SendCancelled(snd)
    <3>1. /\ snd'.box = "open" /\ snd'.finished = c.finished /\ snd'.sock = c.sock
          /\ snd'.reports = c.reports /\ snd'.guard = c.guard
          /\ snd'.timer = c.timer /\ snd'.acked = c.acked
      BY <2>1, <2>2 DEF DccSend
    <3>2. QED
      BY <1>0, <3>1, SendCancelledFields
  <2>4. QED
    BY <1>0, <1>t, <2>1, <2>3 DEF SenderEnded
<1>11. CASE SenderCancel
  <2>1. snd' = Ends([SendCancelled(snd) EXCEPT !.alive = FALSE, !.dialog = FALSE], "cancelled")
    BY <1>11 DEF SenderCancel
  <2>2. SendCancelled(snd) \in DccSend
    BY <1>0, SendCancelledFacts
  <2>3. /\ snd'.box = snd.box /\ snd'.finished
        /\ snd'.sock = IF snd.finished \/ snd.sock = "none" THEN snd.sock ELSE "closed"
        /\ snd'.reports = snd.reports /\ snd'.guard = snd.guard
        /\ snd'.timer = snd.timer /\ snd'.acked = snd.acked
    <3> DEFINE c == SendCancelled(snd)
    <3>1. /\ snd'.box = c.box /\ snd'.finished = c.finished /\ snd'.sock = c.sock
          /\ snd'.reports = c.reports /\ snd'.guard = c.guard
          /\ snd'.timer = c.timer /\ snd'.acked = c.acked
      BY <2>1, <2>2 DEF Ends, DccSend
    <3>2. QED
      BY <1>0, <3>1, SendCancelledFields
  <2>4. QED
    BY <1>0, <1>t, <2>3 DEF SenderEnded
<1>12. CASE SenderDeleted
  <2>1. /\ snd'.sock = snd.sock /\ snd'.reports = snd.reports /\ snd'.box = snd.box
        /\ snd'.finished = snd.finished /\ snd'.timer = snd.timer /\ snd'.guard = snd.guard
        /\ snd'.acked = snd.acked
    BY <1>0, <1>12 DEF SenderDeleted, DccSend
  <2>2. QED
    BY <1>0, <2>1 DEF SenderEnded
<1>13. QED
  BY <1>1, <1>2, <1>3, <1>4, <1>5, <1>6, <1>7, <1>8, <1>9, <1>10, <1>11, <1>12
     DEF Next, Accept, AcceptActive, AcceptPassive, Transfer, Receive, Guards,
         ReceiverStallTick, FirstByteTimeout, Controller, ReceiverNotified, ReceiverDeleted, Failure,
         ConnectFails, WriteFails, LinkCut, ReceiverError, ReceiverTimeout, ReceiverCancel,
         ReceiverGivesUp, vars, transfer

\* The sender takes the oldest ACK, which is news.
LEMMA RecvAckStep ==
  ASSUME Inv, AcksGrow, RecvAck
  PROVE  /\ net.acks # <<>> /\ net'.acks = Tail(net.acks)
         /\ Head(net.acks) > snd.acked /\ snd'.acked = Head(net.acks)
         /\ Growing(Tail(net.acks), Head(net.acks))
<1>0. /\ snd \in DccSend /\ net \in Connection
      /\ net.acks \in Seq(1..Total) /\ net.acks \in Seq(Int) /\ Total \in Nat
  BY SizeAssumption DEF Inv, TypeOK, Connection
<1>1. net.acks # <<>> /\ net'.acks = Tail(net.acks)
  BY <1>0 DEF RecvAck, Connection
<1>2. Head(net.acks) > snd.acked /\ Growing(Tail(net.acks), Head(net.acks))
  BY <1>0, <1>1, GrowingTail DEF AcksGrow
<1> DEFINE s == [snd EXCEPT !.acked = Head(net.acks)]
<1>3. snd' = s \/ snd' = Reports([s EXCEPT !.finished = TRUE], "complete")
  BY <1>2 DEF RecvAck
<1>4. Head(net.acks) \in 0..Total
  <2>1. Head(net.acks) \in 1..Total
    BY <1>0, <1>1
  <2>2. QED
    BY <2>1
<1>5. s \in DccSend /\ s.acked = Head(net.acks)
  BY <1>0, <1>4 DEF DccSend
<1> HIDE DEF s
<1> DEFINE f == [s EXCEPT !.finished = TRUE]
<1>6. f \in DccSend /\ f.acked = s.acked
  BY <1>5 DEF DccSend
<1> HIDE DEF f
<1>7. Reports(f, "complete").acked = f.acked
  BY <1>6, ReportsSendFacts DEF Outcome
<1>8. QED
  BY <1>1, <1>2, <1>3, <1>5, <1>6, <1>7 DEF f

LEMMA AcksKept ==
  ASSUME Inv, [Next]_vars, ~Receive, ~RecvAck
  PROVE  net'.acks = net.acks
<1>1. net \in Connection
  BY DEF Inv, TypeOK
<1>2. QED
  BY <1>1, CutFacts
     DEF Next, Accept, AcceptActive, AcceptPassive, PassiveReply, Transfer, Connect, Flush, Guards,
         SenderStallTick, ReceiverStallTick, FirstByteTimeout, Controller, SenderNotified,
         ReceiverNotified, SenderDeleted, ReceiverDeleted, Failure, ConnectFails, WriteFails, LinkCut,
         SenderError, ReceiverError, SenderTimeout, ReceiverTimeout, SenderCancel, ReceiverCancel,
         SenderGivesUp, ReceiverGivesUp, vars, transfer, Connection

\* Every ACK is of bytes that were not acknowledged before.
LEMMA AcksGrowStep ==
  ASSUME Inv, AcksGrow, SenderEnded, [Next]_vars
  PROVE  AcksGrow'
<1>0. /\ snd \in DccSend /\ rcv \in DccReceive /\ net \in Connection
      /\ net.acks \in Seq(1..Total) /\ net.acks \in Seq(Int)
      /\ snd.acked \in 0..Total /\ rcv.received \in 0..Total /\ Total \in Nat
  BY SizeAssumption DEF Inv, TypeOK, Connection, DccSend, DccReceive
<1>1. CASE Receive
  <2>1. PICK received \in (rcv.received + 1)..net.flushed :
          /\ snd' = snd
          /\ net'.acks = net.acks \/ net'.acks = Append(net.acks, received)
    BY <1>0, <1>1 DEF Receive, Connection
  <2>2. /\ received \in Int /\ received > rcv.received
        /\ \A i \in 1..Len(net.acks) : net.acks[i] < received
    <3>1. \A i \in 1..Len(net.acks) : net.acks[i] \in 1..Total
      BY <1>0, SeqFacts
    <3>2. received \in Int /\ received > rcv.received
      BY <1>0
    <3>3. QED
      BY <1>0, <3>1, <3>2 DEF Inv, Pipeline
  <2>3. received > snd.acked
    BY <1>0, <2>2 DEF Inv, Pipeline
  <2>4. Growing(net.acks, snd.acked) /\ Growing(Append(net.acks, received), snd.acked)
    <3>1. Growing(net.acks, snd.acked) /\ snd.acked \in Int
      BY <1>0 DEF AcksGrow
    <3>2. QED
      BY <1>0, <2>2, <2>3, <3>1, GrowingAppend
  <2>5. QED
    BY <2>1, <2>4 DEF AcksGrow
<1>2. CASE RecvAck
  BY <1>2, RecvAckStep DEF AcksGrow
<1>3. CASE ~Receive /\ ~RecvAck
  BY <1>3, AcksKept, SenderStep DEF AcksGrow
<1>4. QED
  BY <1>1, <1>2, <1>3

\* The receiver gives up before it has reported, or in spite of its box.
LEMMA ReceiverGivesUpOnce ==
  ASSUME Inv, ReceiverEnded, NoPartKept, setup' = setup,
         NEW r \in DccReceive, r.asked, ReceiverGivesUp(r),
         r.done = rcv.done, r.sock = rcv.sock, r.file = rcv.file,
         r.reports = rcv.reports, ~setup.lingers => rcv.reports = 0
  PROVE  ReceiverEnded' /\ NoPartKept' /\ NoPartLeft'
<1>1. RecvCancelled(r) \in DccReceive
  BY RecvCancelledFacts
<1>2. /\ rcv'.done /\ rcv'.asked
      /\ rcv'.sock = IF r.done \/ r.sock = "none" THEN r.sock ELSE "closed"
      /\ rcv'.file = IF r.done THEN r.file ELSE "none"
      /\ rcv'.reports # 0 /\ rcv'.box # "none"
      /\ rcv.reports = 0 => rcv'.reports = 1
  BY <1>1, RecvCancelledFields, ReceiverReport DEF ReceiverGivesUp
<1>3. QED
  BY <1>2 DEF ReceiverEnded, NoPartKept, NoPartLeft

LEMMA ReceiverStep ==
  ASSUME Inv, ReceiverEnded, NoPartKept, NoPartLeft, [Next]_vars
  PROVE  ReceiverEnded' /\ NoPartKept' /\ NoPartLeft'
<1>0. /\ rcv \in DccReceive /\ net \in Connection
      /\ setup' = setup
      /\ setup.passive \in BOOLEAN /\ setup.lingers \in BOOLEAN /\ setup.exists \in BOOLEAN
  BY SetupAssumption DEF Inv, TypeOK, Next, vars, Setup
<1>t. /\ rcv.reports \in 0..2 /\ rcv.sock \in SockState /\ rcv.box \in Box
      /\ rcv.done \in BOOLEAN /\ rcv.alive \in BOOLEAN /\ rcv.asked \in BOOLEAN
  BY <1>0 DEF DccReceive
<1>1. CASE rcv' = rcv
  BY <1>0, <1>1 DEF ReceiverEnded, NoPartKept, NoPartLeft
<1>2. CASE Accept
  <2> DEFINE r == [Asked EXCEPT !.alive = TRUE, !.dialog = TRUE]
  <2>1. ~rcv.asked /\ rcv.reports = 0 /\ rcv.box = "none" /\ rcv.file = "none"
        /\ rcv.outcome = "none" /\ rcv.sock = "none" /\ ~rcv.alive
    BY <1>2, <1>t DEF Accept, AcceptActive, AcceptPassive, ReceiverEnded, Inv, OpenMeansUnknown
  <2>2. /\ Asked \in DccReceive /\ Asked.asked /\ Asked.reports = 0 /\ Asked.box = "none"
        /\ Asked.file = "none" /\ Asked.outcome = "none" /\ Asked.sock = "none"
        /\ Asked.done = rcv.done /\ ~Asked.alive
    BY <1>0, <2>1 DEF Asked, DccReceive
  <2>3. /\ r \in DccReceive /\ r.asked /\ r.reports = 0 /\ r.box = "none"
        /\ r.file = "none" /\ r.outcome = "none" /\ r.sock = "none" /\ r.done = rcv.done
    BY <2>2 DEF DccReceive
  <2> HIDE DEF r
  <2>4. CASE \/ rcv' = ListenPassive(r)
             \/ rcv' = [r EXCEPT !.file = "part", !.timer = TRUE, !.sock = "connecting"]
    <3>1. /\ rcv'.asked /\ rcv'.reports = 0 /\ rcv'.box = "none" /\ rcv'.file = "part"
          /\ rcv'.outcome = "none" /\ rcv'.sock \in {"none", "connecting"} /\ rcv'.done = rcv.done
      BY <2>3, <2>4 DEF ListenPassive, DccReceive
    <3>2. QED
      BY <1>0, <2>1, <3>1 DEF ReceiverEnded, NoPartKept, NoPartLeft
  <2>5. CASE ~setup.passive /\ rcv' = Reports(r, "failed")
    <3>1. /\ rcv'.asked /\ rcv'.reports = 1 /\ rcv'.box # "none" /\ rcv'.file = "none"
          /\ rcv'.sock = "none" /\ rcv'.done = rcv.done
      BY <2>3, <2>5, ReceiverReport
    <3>2. QED
      BY <1>0, <2>5, <3>1 DEF ReceiverEnded, NoPartKept, NoPartLeft
  <2>6. CASE rcv' = Ends(Asked, "failed")
    <3>1. /\ rcv'.asked /\ rcv'.reports = 0 /\ rcv'.box = "none" /\ rcv'.file = "none"
          /\ rcv'.sock = "none"
      BY <2>2, <2>6 DEF Ends, DccReceive
    <3>2. QED
      BY <1>0, <3>1 DEF ReceiverEnded, NoPartKept, NoPartLeft
  <2>7. QED
    BY <1>2, <2>4, <2>5, <2>6 DEF Accept, AcceptActive, AcceptPassive, Start, r
<1>3. CASE Connect
  <2>1. rcv' = [rcv EXCEPT !.sock = "connected", !.guard = TRUE, !.first = setup.passive]
    BY <1>3 DEF Connect
  <2>2. /\ rcv'.sock = "connected" /\ rcv'.reports = rcv.reports /\ rcv'.box = rcv.box
        /\ rcv'.file = rcv.file /\ rcv'.done = rcv.done /\ rcv'.asked = rcv.asked
        /\ rcv'.outcome = rcv.outcome
    BY <1>0, <2>1 DEF DccReceive
  <2>3. ~rcv.done /\ rcv.reports = 0
    BY <1>3, <1>t DEF Connect, Listening, Connecting, ReceiverEnded
  <2>4. QED
    BY <1>0, <2>2, <2>3 DEF ReceiverEnded, NoPartKept, NoPartLeft
<1>4. CASE (ConnectFails /\ ~setup.passive) \/ WriteFails \/ ReceiverError
  <2>1. /\ ReceiverGivesUp(rcv)
        /\ rcv.sock = "connecting" \/ (~rcv.done /\ rcv.sock \in {"connected", "closed"})
    BY <1>4 DEF ConnectFails, Connecting, WriteFails, ReceiverError
  <2>2. rcv.reports = 0 /\ rcv.asked
    BY <1>t, <2>1 DEF ReceiverEnded, Inv, OpenMeansUnknown
  <2>3. QED
    BY <1>0, <2>1, <2>2, ReceiverGivesUpOnce
<1>5. CASE Receive
  <2>1. PICK received \in (rcv.received + 1)..net.flushed :
          LET r == [rcv EXCEPT !.received = received]
          IN  IF AllReceived(received)
              THEN rcv' = IF setup.exists
                          THEN Reports(RecvClosed(r), "failed")
                          ELSE Reports([RecvClosed(r) EXCEPT !.file = "saved"], "complete")
              ELSE rcv' = r
    BY <1>5 DEF Receive
  <2>2. ~rcv.done /\ rcv.sock = "connected" /\ rcv.alive /\ rcv.reports = 0 /\ rcv.box = "none"
    BY <1>5, <1>t DEF Receive, ReceiverEnded
  <2>3. rcv.asked /\ rcv.outcome = "none"
    BY <1>t, <2>2 DEF Inv, OpenMeansUnknown
  <2> DEFINE r == [rcv EXCEPT !.received = received]
  <2>4. /\ r \in DccReceive /\ r.asked /\ ~r.done /\ r.sock = "connected"
        /\ r.reports = 0 /\ r.box = "none" /\ r.outcome = "none" /\ r.file = rcv.file
    <3>1. received \in 0..Total
      BY <1>0, SizeAssumption DEF DccReceive, Connection
    <3>2. QED
      BY <1>0, <2>2, <2>3, <3>1 DEF DccReceive
  <2>5. CASE rcv' = r
    <3> HIDE DEF r
    <3>1. QED
      BY <1>0, <2>4, <2>5 DEF ReceiverEnded, NoPartKept, NoPartLeft
  <2>6. CASE rcv' # r
    <3> DEFINE c == RecvClosed(r)
               f == [c EXCEPT !.file = "saved"]
    <3>1. \/ setup.exists /\ rcv' = Reports(c, "failed")
          \/ ~setup.exists /\ rcv' = Reports(f, "complete")
      BY <1>0, <2>1, <2>6
    <3> HIDE DEF r
    <3>2. /\ c \in DccReceive /\ c.asked /\ c.done /\ c.sock = "closed" /\ c.reports = 0
      BY <2>4 DEF RecvClosed, DccReceive, SockState
    <3> HIDE DEF c
    <3>3. /\ f \in DccReceive /\ f.asked /\ f.done /\ f.sock = "closed" /\ f.reports = 0
          /\ f.file = "saved"
      BY <3>2 DEF DccReceive
    <3> HIDE DEF f
    <3>4. /\ rcv'.asked /\ rcv'.done /\ rcv'.sock = "closed"
          /\ rcv'.reports = 1 /\ rcv'.box # "none"
          /\ setup.exists \/ rcv'.file = "saved"
      BY <3>1, <3>2, <3>3, ReceiverReport
    <3>5. QED
      BY <1>0, <3>4 DEF ReceiverEnded, NoPartKept, NoPartLeft
  <2>7. QED
    BY <2>5, <2>6
<1>6. CASE ReceiverStallTick \/ ReceiverTimeout \/ FirstByteTimeout
  <2>1. /\ rcv.alive /\ rcv.asked
        /\ ~setup.lingers => rcv.box = "none" /\ rcv.reports = 0
    BY <1>6, <1>t
       DEF ReceiverStallTick, ReceiverTimeout, FirstByteTimeout, MayFire, ReceiverEnded, Inv,
           OpenMeansUnknown
  <2>2. PICK r \in {[rcv EXCEPT !.guard = FALSE], [rcv EXCEPT !.timer = FALSE],
                    [rcv EXCEPT !.first = FALSE], [rcv EXCEPT !.seen = rcv.received]} :
          ReceiverGivesUp(r) \/ rcv' = r
    BY <1>6 DEF ReceiverStallTick, ReceiverTimeout, FirstByteTimeout
  <2>3. /\ r \in DccReceive /\ r.asked = rcv.asked /\ r.alive = rcv.alive /\ r.sock = rcv.sock
        /\ r.done = rcv.done /\ r.outcome = rcv.outcome /\ r.file = rcv.file
        /\ r.reports = rcv.reports /\ r.box = rcv.box
    BY <1>0 DEF DccReceive
  <2>4. CASE ReceiverGivesUp(r)
    BY <1>0, <2>1, <2>3, <2>4, ReceiverGivesUpOnce
  <2>5. CASE rcv' = r
    BY <1>0, <2>3, <2>5 DEF ReceiverEnded, NoPartKept, NoPartLeft
  <2>6. QED
    BY <2>2, <2>4, <2>5
<1>7. CASE ReceiverNotified
  <2> DEFINE c == RecvCancelled(rcv)
  <2>1. rcv' = [c EXCEPT !.box = "open", !.dialog = FALSE] /\ rcv.box = "queued"
    BY <1>7 DEF ReceiverNotified
  <2>2. c \in DccReceive
    BY <1>0, RecvCancelledFacts
  <2>3. /\ c.done
        /\ c.sock = IF rcv.done \/ rcv.sock = "none" THEN rcv.sock ELSE "closed"
        /\ c.file = IF rcv.done THEN rcv.file ELSE "none"
        /\ c.reports = rcv.reports /\ c.asked = rcv.asked
    BY <1>0, RecvCancelledFields
  <2> HIDE DEF c
  <2>4. /\ rcv'.done = c.done /\ rcv'.sock = c.sock /\ rcv'.file = c.file
        /\ rcv'.reports = c.reports /\ rcv'.asked = c.asked /\ rcv'.box = "open"
    BY <2>1, <2>2 DEF DccReceive
  <2>5. QED
    BY <1>0, <2>1, <2>3, <2>4 DEF ReceiverEnded, NoPartKept, NoPartLeft
<1>8. CASE ReceiverCancel
  <2> DEFINE c == RecvCancelled(rcv)
  <2>0. rcv.asked
    BY <1>8 DEF ReceiverCancel, Inv, OpenMeansUnknown
  <2>1. rcv' = Ends([c EXCEPT !.alive = FALSE, !.dialog = FALSE], "cancelled")
    BY <1>8 DEF ReceiverCancel
  <2>2. c \in DccReceive
    BY <1>0, RecvCancelledFacts
  <2>3. /\ c.done
        /\ c.sock = IF rcv.done \/ rcv.sock = "none" THEN rcv.sock ELSE "closed"
        /\ c.file = IF rcv.done THEN rcv.file ELSE "none"
        /\ c.reports = rcv.reports /\ c.asked = rcv.asked /\ c.box = rcv.box
    BY <1>0, RecvCancelledFields
  <2> HIDE DEF c
  <2>4. /\ rcv'.done = c.done /\ rcv'.sock = c.sock /\ rcv'.file = c.file
        /\ rcv'.reports = c.reports /\ rcv'.asked = c.asked /\ rcv'.box = c.box
    BY <2>1, <2>2 DEF Ends, DccReceive
  <2>5. QED
    BY <1>0, <2>0, <2>3, <2>4 DEF ReceiverEnded, NoPartKept, NoPartLeft
<1>9. CASE ReceiverDeleted
  <2>1. /\ rcv'.asked = rcv.asked /\ ~rcv'.alive /\ rcv'.sock = rcv.sock
        /\ rcv'.done = rcv.done /\ rcv'.outcome = rcv.outcome /\ rcv'.file = rcv.file
        /\ rcv'.reports = rcv.reports /\ rcv'.box = rcv.box
    BY <1>0, <1>9 DEF ReceiverDeleted, DccReceive
  <2>2. QED
    BY <1>0, <2>1 DEF ReceiverEnded, NoPartKept, NoPartLeft
<1>10. QED
  BY <1>1, <1>2, <1>3, <1>4, <1>5, <1>6, <1>7, <1>8, <1>9
     DEF Next, PassiveReply, Transfer, Flush, RecvAck, Guards, SenderStallTick, Controller,
         SenderNotified, SenderDeleted, Failure, ConnectFails, LinkCut, SenderError, SenderTimeout,
         SenderCancel, SenderGivesUp, vars, transfer

LEMMA EndsInvHolds == Spec => []EndsInv
<1>1. Inv /\ EndsInv /\ [Next]_vars => EndsInv'
  BY AcksGrowStep, SenderStep, ReceiverStep DEF EndsInv
<1>2. QED
  BY <1>1, InitEnds, InvHolds, PTL DEF Spec

\* Whatever fails, and in whichever order timers, errors, ACKs and dialogs
\* come, each side tells its user at most once how the transfer ended (the
\* receiver as long as no message box of its own lingers), and no half of a
\* file is left behind.
THEOREM TransferEndsCleanly == Spec => []EndsCleanly
<1>1. EndsInv => EndsCleanly
  BY DEF EndsInv, SenderEnded, ReceiverEnded, EndsCleanly, ReportsOnce
<1>2. QED
  BY <1>1, EndsInvHolds, PTL

----------------------------------------------------------------------------
(* The stall guard and the coalesced ACKs.                                 *)

LEMMA DivFacts ==
  ASSUME NEW n \in Nat \ {0}, NEW a \in Nat
  PROVE  /\ a \div n \in Nat
         /\ n * (a \div n) =< a /\ a < n * (a \div n) + n
OBVIOUS

LEMMA SameBlock ==
  ASSUME NEW n \in Nat \ {0}, NEW a \in Nat, NEW b \in Nat, a =< b, a \div n = b \div n
  PROVE  b - a < n
BY DivFacts

LEMMA DivMonotone ==
  ASSUME NEW n \in Nat \ {0}, NEW a \in Nat, NEW b \in Nat, a =< b
  PROVE  a \div n =< b \div n
BY DivFacts

LEMMA TailKeepsLast ==
  ASSUME NEW q \in Seq(Int), q # <<>>
  PROVE  /\ Tail(q) = <<>> => Head(q) = q[Len(q)]
         /\ Tail(q) # <<>> => Tail(q)[Len(Tail(q))] = q[Len(q)]
<1>1. Len(q) \in Nat \ {0} /\ Len(Tail(q)) = Len(q) - 1 /\ Head(q) = q[1]
  OBVIOUS
<1>2. \A i \in 1..Len(Tail(q)) : Tail(q)[i] = q[i + 1]
  OBVIOUS
<1>3. Tail(q) \in Seq(Int)
  OBVIOUS
<1>4. \A s \in Seq(Int) : s = <<>> <=> Len(s) = 0
  OBVIOUS
<1> DEFINE t == Tail(q)
<1>5. t = <<>> <=> Len(t) = 0
  BY <1>3, <1>4
<1>6. /\ Len(q) \in Nat \ {0} /\ Len(t) = Len(q) - 1 /\ Head(q) = q[1]
      /\ \A i \in 1..Len(t) : t[i] = q[i + 1]
  BY <1>1, <1>2
<1> HIDE DEF t
<1>7. CASE t = <<>>
  BY <1>5, <1>6, <1>7 DEF t
<1>8. CASE t # <<>>
  <2>1. Len(t) \in 1..Len(t) /\ Len(t) + 1 = Len(q)
    BY <1>5, <1>6, <1>8
  <2>2. t[Len(t)] = q[Len(q)]
    BY <1>6, <2>1
  <2>3. QED
    BY <1>8, <2>2 DEF t
<1>9. QED
  BY <1>7, <1>8

\* The newest ACK, delivered or in flight, is of the block of AckInterval
\* bytes that the receiver is in.
LastAck == IF net.acks = <<>> THEN snd.acked ELSE net.acks[Len(net.acks)]
AcksDue == LastAck \div AckInterval = rcv.received \div AckInterval

\* What the guard saw acknowledged had been received when it looked.
MarkSeen == snd.seen =< net.mark /\ net.mark =< rcv.received

\* Only new bytes move the receiver's count.
LEMMA ReceivedStep ==
  ASSUME Inv, [Next]_vars, ~Receive
  PROVE  rcv'.received = rcv.received
<1>0. rcv \in DccReceive
  BY DEF Inv, TypeOK
<1>1. ASSUME NEW r \in DccReceive, r.received = rcv.received, ReceiverGivesUp(r)
      PROVE  rcv'.received = rcv.received
  BY <1>1, RecvCancelledFacts, ReportsReceiveFacts DEF ReceiverGivesUp, Outcome
<1>2. CASE rcv' = rcv
  BY <1>2
<1>3. CASE Accept
  <2> DEFINE r == [Asked EXCEPT !.alive = TRUE, !.dialog = TRUE]
  <2>1. /\ Asked \in DccReceive /\ Asked.received = rcv.received
        /\ r \in DccReceive /\ r.received = rcv.received
    BY <1>0 DEF Asked, DccReceive
  <2> HIDE DEF r
  <2>2. CASE rcv' = Reports(r, "failed")
    BY <2>1, <2>2, ReportsReceiveFacts DEF Outcome
  <2>3. CASE \/ rcv' = ListenPassive(r)
             \/ rcv' = [r EXCEPT !.file = "part", !.timer = TRUE, !.sock = "connecting"]
    BY <2>1, <2>3 DEF ListenPassive, DccReceive
  <2>4. CASE rcv' = Ends(Asked, "failed")
    BY <2>1, <2>4 DEF Ends, DccReceive
  <2>5. QED
    BY <1>3, <2>2, <2>3, <2>4 DEF Accept, AcceptActive, AcceptPassive, Start, r
<1>4. CASE Connect
  BY <1>0, <1>4 DEF Connect, DccReceive
<1>5. CASE ConnectFails \/ WriteFails \/ ReceiverError
  BY <1>0, <1>1, <1>2, <1>5 DEF ConnectFails, WriteFails, ReceiverError
<1>6. CASE ReceiverStallTick \/ ReceiverTimeout \/ FirstByteTimeout
  <2>1. PICK r \in {[rcv EXCEPT !.guard = FALSE], [rcv EXCEPT !.timer = FALSE],
                    [rcv EXCEPT !.first = FALSE], [rcv EXCEPT !.seen = rcv.received]} :
          ReceiverGivesUp(r) \/ rcv' = r
    BY <1>6 DEF ReceiverStallTick, ReceiverTimeout, FirstByteTimeout
  <2>2. r \in DccReceive /\ r.received = rcv.received
    BY <1>0 DEF DccReceive
  <2>3. QED
    BY <1>1, <2>1, <2>2
<1>7. CASE ReceiverNotified \/ ReceiverCancel \/ ReceiverDeleted
  <2>1. RecvCancelled(rcv) \in DccReceive /\ RecvCancelled(rcv).received = rcv.received
    BY <1>0, RecvCancelledFacts
  <2>2. QED
    BY <1>0, <1>7, <2>1 DEF ReceiverNotified, ReceiverCancel, ReceiverDeleted, Ends, DccReceive
<1>8. QED
  BY <1>2, <1>3, <1>4, <1>5, <1>6, <1>7
     DEF Next, PassiveReply, Transfer, Flush, RecvAck, Guards, SenderStallTick, Controller,
         SenderNotified, SenderDeleted, Failure, LinkCut, SenderError, SenderTimeout,
         SenderCancel, SenderGivesUp, vars, transfer

\* Only the guard moves what it compares.
LEMMA MarkStep ==
  ASSUME Inv, [Next]_vars
  PROVE  \/ snd'.seen = snd.seen /\ net'.mark = net.mark
         \/ snd'.seen = snd.acked /\ net'.mark = rcv.received
<1>0. snd \in DccSend /\ rcv \in DccReceive /\ net \in Connection
  BY DEF Inv, TypeOK
<1>1. \A s \in DccSend, n \in Connection :
        /\ \A o \in {"failed", "complete", "cancelled"} :
             Reports(s, o).seen = s.seen /\ Ends(s, o).seen = s.seen
        /\ SendCancelled(s) \in DccSend /\ SendCancelled(s).seen = s.seen
        /\ SendNextChunk(s, n).seen = s.seen
  BY SendCancelledFacts DEF Reports, Ends, SendCancelled, SendNextChunk, DccSend
<1>2. net'.mark = net.mark \/ (SenderStallTick /\ net'.mark = rcv.received)
  BY <1>0
     DEF Next, Accept, AcceptActive, AcceptPassive, PassiveReply, Transfer, Connect, Flush, Receive,
         RecvAck, Guards, SenderStallTick, ReceiverStallTick, FirstByteTimeout, Controller,
         SenderNotified, ReceiverNotified, SenderDeleted, ReceiverDeleted, Failure, ConnectFails,
         WriteFails, LinkCut, SenderError, ReceiverError, SenderTimeout, ReceiverTimeout,
         SenderCancel, ReceiverCancel, SenderGivesUp, ReceiverGivesUp, Cut, vars, transfer, Connection
<1>3. ASSUME NEW s \in DccSend, s.seen = snd.seen, SenderGivesUp(s)
      PROVE  snd'.seen = snd.seen
  BY <1>0, <1>1, <1>3 DEF SenderGivesUp
<1>4. CASE SenderStallTick
  <2>1. \/ SenderGivesUp([snd EXCEPT !.guard = FALSE]) /\ net'.mark = net.mark
        \/ snd' = [snd EXCEPT !.guard = FALSE] /\ net'.mark = net.mark
        \/ snd' = [snd EXCEPT !.seen = snd.acked] /\ net' = [net EXCEPT !.mark = rcv.received]
    BY <1>0, <1>4 DEF SenderStallTick, SenderGivesUp, Cut, Connection
  <2>2. /\ [snd EXCEPT !.guard = FALSE] \in DccSend /\ [snd EXCEPT !.guard = FALSE].seen = snd.seen
        /\ [snd EXCEPT !.seen = snd.acked].seen = snd.acked
        /\ [net EXCEPT !.mark = rcv.received].mark = rcv.received
    BY <1>0 DEF DccSend, Connection
  <2>3. QED
    BY <1>2, <1>3, <2>1, <2>2
<1>5. ASSUME ~SenderStallTick
      PROVE  snd'.seen = snd.seen
  <2>1. CASE snd' = snd
    BY <2>1
  <2>2. CASE Connect
    <3> DEFINE s == [snd EXCEPT !.sock = "connected", !.guard = TRUE]
    <3>1. s \in DccSend /\ s.seen = snd.seen
      BY <1>0 DEF DccSend, SockState
    <3>2. snd' = SendNextChunk(s, net')
      BY <2>2 DEF Connect
    <3>3. SendNextChunk(s, net').seen = s.seen
      BY <3>1 DEF SendNextChunk, DccSend
    <3>4. QED
      BY <3>1, <3>2, <3>3
  <2>3. CASE Flush
    BY <1>0, <2>3 DEF Flush, SendNextChunk, DccSend
  <2>4. CASE PassiveReply
    BY <1>0, <2>4 DEF PassiveReply, Ends, DccSend
  <2>5. CASE RecvAck
    <3> DEFINE ack == IF Head(net.acks) > snd.acked THEN Head(net.acks) ELSE snd.acked
               s == [snd EXCEPT !.acked = ack]
               f == [s EXCEPT !.finished = TRUE]
    <3>1. ack \in 0..Total
      <4>1. net.acks \in Seq(1..Total) /\ net.acks # <<>>
        BY <1>0, <2>5 DEF RecvAck, Connection
      <4>2. Head(net.acks) \in 1..Total
        BY <4>1, SeqFacts
      <4>3. QED
        BY <1>0, <4>2, SizeAssumption DEF DccSend
    <3>2. snd' = s \/ snd' = Reports(f, "complete")
      BY <2>5 DEF RecvAck
    <3> HIDE DEF ack
    <3>3. s \in DccSend /\ s.seen = snd.seen /\ f \in DccSend /\ f.seen = snd.seen
      BY <1>0, <3>1 DEF DccSend
    <3> HIDE DEF s, f
    <3>4. QED
      BY <1>0, <1>1, <3>2, <3>3
  <2>6. CASE ConnectFails \/ SenderError
    <3> DEFINE s == [snd EXCEPT !.sock = "closed"]
    <3>1. s \in DccSend /\ s.seen = snd.seen
      BY <1>0 DEF DccSend, SockState
    <3>2. snd' = s \/ snd' = Reports(s, "failed") \/ snd' = snd
      BY <2>6 DEF ConnectFails, SenderError, ReceiverGivesUp
    <3> HIDE DEF s
    <3>3. QED
      BY <1>0, <1>1, <3>1, <3>2
  <2>7. CASE SenderTimeout
    <3> DEFINE s == [snd EXCEPT !.timer = FALSE]
    <3>1. s \in DccSend /\ s.seen = snd.seen
      BY <1>0 DEF DccSend
    <3>2. \/ SenderGivesUp(s) \/ snd' = s
          \/ snd' = Ends([SendCancelled(s) EXCEPT !.alive = FALSE], "failed")
      BY <2>7 DEF SenderTimeout
    <3> HIDE DEF s
    <3>3. SendCancelled(s) \in DccSend /\ SendCancelled(s).seen = snd.seen
      BY <1>0, <1>1, <3>1
    <3>4. QED
      BY <1>3, <3>1, <3>2, <3>3 DEF Ends, DccSend
  <2>8. CASE SenderNotified \/ SenderCancel \/ SenderDeleted
    <3>1. SendCancelled(snd) \in DccSend /\ SendCancelled(snd).seen = snd.seen
      BY <1>0, <1>1
    <3>2. QED
      BY <1>0, <2>8, <3>1 DEF SenderNotified, SenderCancel, SenderDeleted, Ends, DccSend
  <2>9. QED
    BY <1>5, <2>1, <2>2, <2>3, <2>4, <2>5, <2>6, <2>7, <2>8
       DEF Next, Accept, AcceptActive, AcceptPassive, Transfer, Receive, Guards,
           ReceiverStallTick, FirstByteTimeout, Controller, ReceiverNotified, ReceiverDeleted,
           Failure, WriteFails, LinkCut, ReceiverError, ReceiverTimeout, ReceiverCancel,
           ReceiverGivesUp, vars, transfer
<1>6. QED
  BY <1>2, <1>4, <1>5

\* The block of the newest ACK follows the receiver's.
LEMMA AcksDueStep ==
  ASSUME Inv, AcksGrow, SenderEnded, AcksDue, MarkSeen, [Next]_vars
  PROVE  AcksDue' /\ MarkSeen'
<1>0. /\ snd \in DccSend /\ rcv \in DccReceive /\ net \in Connection
      /\ net.acks \in Seq(1..Total) /\ net.acks \in Seq(Int)
      /\ snd.acked \in Nat /\ snd.seen \in Nat /\ net.mark \in Nat
      /\ rcv.received \in Nat /\ net.flushed \in Nat
      /\ Total \in Nat /\ AckInterval \in Nat \ {0}
      /\ snd.acked =< rcv.received
  BY SizeAssumption DEF Inv, TypeOK, Pipeline, Connection, DccSend, DccReceive
<1>1. CASE Receive
  <2>1. PICK received \in (rcv.received + 1)..net.flushed :
          LET r == [rcv EXCEPT !.received = received]
              acks == IF AckDue(rcv.received, received) THEN Append(net.acks, received)
                                                        ELSE net.acks
          IN  /\ IF AllReceived(received)
                 THEN rcv' = IF setup.exists
                             THEN Reports(RecvClosed(r), "failed")
                             ELSE Reports([RecvClosed(r) EXCEPT !.file = "saved"], "complete")
                 ELSE rcv' = r
              /\ net'.acks = acks
              /\ snd' = snd
    BY <1>0, <1>1 DEF Receive, Connection
  <2>2. received \in Nat /\ received > rcv.received /\ received \in 0..Total
    BY <1>0 DEF Connection
  <2>3. rcv'.received = received
    <3> DEFINE r == [rcv EXCEPT !.received = received]
               c == RecvClosed(r)
               f == [c EXCEPT !.file = "saved"]
    <3>1. rcv' = r \/ rcv' = Reports(c, "failed") \/ rcv' = Reports(f, "complete")
      BY <2>1
    <3>2. r \in DccReceive /\ r.received = received
      BY <1>0, <2>2 DEF DccReceive
    <3> HIDE DEF r
    <3>3. c \in DccReceive /\ c.received = received
      BY <3>2 DEF RecvClosed, DccReceive, SockState
    <3> HIDE DEF c
    <3>4. f \in DccReceive /\ f.received = received
      BY <3>3 DEF DccReceive
    <3> HIDE DEF f
    <3>5. QED
      BY <3>1, <3>2, <3>3, <3>4, ReportsReceiveFacts DEF Outcome
  <2>4. MarkSeen'
    BY <1>0, <1>1, <2>2, <2>3, MarkStep DEF MarkSeen
  <2>5. CASE AckDue(rcv.received, received)
    <3>1. net'.acks = Append(net.acks, received)
      BY <2>1, <2>5
    <3>2. LastAck' = received
      <4>1. /\ Append(net.acks, received) # <<>>
            /\ Append(net.acks, received)[Len(Append(net.acks, received))] = received
        BY <1>0
      <4>2. QED
        BY <3>1, <4>1 DEF LastAck
    <3>3. QED
      BY <2>3, <2>4, <3>2 DEF AcksDue
  <2>6. CASE ~AckDue(rcv.received, received)
    <3>1. received \div AckInterval = rcv.received \div AckInterval
      <4>1. ~(received \div AckInterval > rcv.received \div AckInterval)
        BY <2>6 DEF AckDue
      <4>2. rcv.received \div AckInterval =< received \div AckInterval
        BY <1>0, <2>2, DivMonotone
      <4>3. received \div AckInterval \in Nat /\ rcv.received \div AckInterval \in Nat
        BY <1>0, <2>2, DivFacts
      <4>4. QED
        BY <4>1, <4>2, <4>3
    <3>2. LastAck' = LastAck
      BY <2>1, <2>6 DEF LastAck
    <3>3. QED
      BY <2>3, <2>4, <3>1, <3>2 DEF AcksDue
  <2>7. QED
    BY <2>5, <2>6
<1>2. CASE ~Receive
  <2>1. rcv'.received = rcv.received
    BY <1>2, ReceivedStep
  <2>2. MarkSeen'
    BY <1>0, <2>1, MarkStep DEF MarkSeen
  <2>3. LastAck' = LastAck
    <3>1. CASE RecvAck
      <4>1. /\ net.acks # <<>> /\ net'.acks = Tail(net.acks) /\ snd'.acked = Head(net.acks)
        BY <3>1, RecvAckStep
      <4>2. /\ Tail(net.acks) = <<>> => Head(net.acks) = net.acks[Len(net.acks)]
            /\ Tail(net.acks) # <<>> =>
                 Tail(net.acks)[Len(Tail(net.acks))] = net.acks[Len(net.acks)]
        BY <1>0, <4>1, TailKeepsLast
      <4>3. QED
        BY <4>1, <4>2 DEF LastAck
    <3>2. CASE ~RecvAck
      BY <1>2, <3>2, AcksKept, SenderStep DEF LastAck
    <3>3. QED
      BY <3>1, <3>2
  <2>4. QED
    BY <2>1, <2>2, <2>3 DEF AcksDue
<1>3. QED
  BY <1>1, <1>2

LEMMA AcksDueHolds == Spec => [](AcksDue /\ MarkSeen)
<1>1. Init => AcksDue /\ MarkSeen
  BY DEF Init, NewSender, NewReceiver, AcksDue, LastAck, MarkSeen
<1>2. Inv /\ EndsInv /\ AcksDue /\ MarkSeen /\ [Next]_vars => (AcksDue /\ MarkSeen)'
  BY AcksDueStep DEF EndsInv
<1>3. QED
  BY <1>1, <1>2, InvHolds, EndsInvHolds, PTL DEF Spec

\* The sender's guard takes no transfer for stalled in which AckInterval bytes
\* have arrived since it last looked, unless their ACK is still on its way:
\* acknowledging only every AckInterval bytes is enough, at every size.
THEOREM GuardStrikesSlow == Spec => StallMeansSlow
<1>1. ASSUME Inv, AcksDue, MarkSeen, SenderStallTick, snd'.finished, ~snd.finished
      PROVE  net.acks # <<>> \/ rcv.received - net.mark < AckInterval
  <2>0. /\ snd \in DccSend
        /\ snd.acked \in Nat /\ snd.seen \in Nat /\ net.mark \in Nat /\ rcv.received \in Nat
        /\ AckInterval \in Nat \ {0}
    BY <1>1, SizeAssumption DEF Inv, TypeOK, Connection, DccSend, DccReceive
  <2>1. snd.acked = snd.seen
    <3>1. [snd EXCEPT !.seen = snd.acked].finished = snd.finished
      BY <2>0 DEF DccSend
    <3>2. QED
      BY <1>1, <3>1 DEF SenderStallTick, Stalled
  <2>2. SUFFICES ASSUME net.acks = <<>>
                 PROVE  rcv.received - net.mark < AckInterval
    OBVIOUS
  <2>3. snd.seen \div AckInterval = rcv.received \div AckInterval
    BY <1>1, <2>1, <2>2 DEF AcksDue, LastAck
  <2>4. /\ snd.seen \div AckInterval =< net.mark \div AckInterval
        /\ net.mark \div AckInterval =< rcv.received \div AckInterval
    BY <1>1, <2>0, DivMonotone DEF MarkSeen
  <2>5. /\ snd.seen \div AckInterval \in Nat /\ net.mark \div AckInterval \in Nat
        /\ rcv.received \div AckInterval \in Nat
    BY <2>0, DivFacts
  <2>6. net.mark \div AckInterval = rcv.received \div AckInterval
    BY <2>3, <2>4, <2>5
  <2>7. QED
    BY <1>1, <2>0, <2>6, SameBlock DEF MarkSeen
<1>2. QED
  BY <1>1, InvHolds, AcksDueHolds, PTL DEF StallMeansSlow
=============================================================================
