-------------------------- MODULE MessageRouting --------------------------
(***************************************************************************)
(* The way of a server's lines into the buffers: IrcClient::processLine,   *)
(* handleBatch and deliverBatch (src/src/irc/ircclient.cpp), which hold    *)
(* the lines of a batch back until it ends, and SessionModel's onMessage,  *)
(* onNotice, onAction and postMessage (src/src/model/sessionmodel.cpp),    *)
(* which choose the buffer.                                                *)
(*                                                                         *)
(* There is one channel, Chan, and one other user, Pal.  A line said has   *)
(* a number, at, which stands for its msgid; a line read back from the log *)
(* has none, and -1 here.  Apart from that, every line that comes over the *)
(* link is numbered as it comes: a line that is replayed keeps its msgid   *)
(* and comes under a new number.  Membership, read marks and the paging of history have modules *)
(* of their own; here a page asked for is only collected and prepended.    *)
(***************************************************************************)
EXTENDS ChannelBuffer, FiniteSets

CONSTANTS
  Chan, Pal, Me, Server,  \* the channel, two nicks, and "(server)"
  Nothing,                \* no batch, no page, no origin
  Refs,                   \* the references the server gives its batches
  MaxOpen, MaxBatch,      \* kMaxOpenBatches (8), kMaxBatchMessages (1000)
  MaxSaid,                \* bound: how many lines come, or are said here
  MaxPosted               \* bound: how many lines the client adds itself

ASSUME NameAssumption ==
  Chan \notin {Pal, Me, Server} /\ Pal \notin {Me, Server} /\ Me # Server
ASSUME LimitAssumption == {MaxOpen, MaxBatch, MaxSaid, MaxPosted} \subseteq Nat

VARIABLES
  caps,     \* what the link has of echo-message, chathistory and ZNC
  open,     \* the server's open batches, and of each the lines sent in it
  batches,  \* m_batches
  buffers,  \* session.channels, by name
  listed,   \* the buffers the sidebar was told of (channelAdded)
  active,   \* m_activeChannel
  page,     \* m_historyBeforeBuf for Chan, while it is in m_pendingHistoryBefore
  origin,   \* m_ctcpOrigins: the buffer from which Pal was asked something
  seeded,   \* m_logSeeded has Pal
  said,     \* how many lines came over the link, or were said here
  posted    \* how many lines the client added itself

model == <<buffers, listed, page, seeded>>
routingVars == <<caps, open, batches, model, active, origin, said, posted>>

Replays == {"chathistory", "playback"}
Kinds == Replays \cup {"multiline"}

\* What the server has open: a batch, whose, for whom, and the batch it is in.
OpenBatch == [kind : Kinds, from : {Pal, Me}, to : {Chan, Pal, Me}, within : Refs \cup {Nothing}]

\* What m_batches keeps of a batch, and the lines in it.
KeptLine == [cmd : {"privmsg", "notice", "action"}, from : {Pal, Me}, to : {Chan, Pal, Me},
             nr : Nat, at : Nat, new : BOOLEAN]
KeptBatch == [kind : Kinds, to : {Chan, Pal, Me}, msgs : Seq(KeptLine)]

ASSUME NothingAssumption == Nothing \notin OpenBatch /\ Nothing \notin KeptBatch

\* A line as the server sends it, with its msgid: new is whether it was said just now.
Spoken(cmd, from, to, at, new) ==
  [cmd |-> cmd, from |-> from, to |-> to, nr |-> said + 1, at |-> at, new |-> new]

\* The line as Message::make leaves it: of which lines, and whether as history.
Made(l, parts, past) ==
  [at |-> l.at, parts |-> parts, cmd |-> l.cmd, from |-> l.from,
   to |-> l.to, new |-> l.new, past |-> past]

\* A line the client makes up: Server, Error, Reply and the like.
Own == [at |-> 0, parts |-> <<>>, cmd |-> "server", from |-> Server,
        to |-> Server, new |-> TRUE, past |-> FALSE]

NewBuffer == [messages |-> <<>>, reactions |-> {}, firstUnread |-> 0, unread |-> 0]

\* The state SessionModel's handlers pass from one to the other.
Model == [buffers |-> buffers, listed |-> listed, page |-> page, seeded |-> seeded]

Become(m) ==
  /\ buffers' = m.buffers
  /\ listed' = m.listed
  /\ page' = m.page
  /\ seeded' = m.seeded

GetOrCreate(m, b) ==
  [m EXCEPT !.buffers = [c \in DOMAIN m.buffers \cup {b} |->
                           IF c \in DOMAIN m.buffers THEN m.buffers[c] ELSE NewBuffer]]

CountsAsUnread(b, line) == line.cmd = "privmsg" \/ (line.cmd = "notice" /\ b = Server)

(***************************************************************************)
(* postMessage.  History of a page that was asked for is put by; all else  *)
(* goes to the buffer, which is made when it is not there, and is counted  *)
(* when it is new and the buffer is not the active one.                    *)
(***************************************************************************)
Badged(c, b, line) ==
  IF b # active /\ ~line.past /\ CountsAsUnread(b, line)
  THEN [c EXCEPT !.unread = @ + 1,
                 !.firstUnread = IF c.unread = 0 THEN Len(c.messages) ELSE @]
  ELSE c

Post(m, b, line) ==
  IF line.past /\ b = Chan /\ m.page # Nothing
  THEN [m EXCEPT !.page = Append(@, line)]
  ELSE LET made == GetOrCreate(m, b)
       IN  [made EXCEPT !.buffers[b] = Badged(AddMessage(@, line), b, line)]

(***************************************************************************)
(* openPM and seedFromLog: the first time, a query begins with what the    *)
(* log has of it, unless the link replays history itself.  Here the log    *)
(* has one line from an earlier run.                                       *)
(***************************************************************************)
LogLine == [at |-> -1, parts |-> <<>>, cmd |-> "privmsg", from |-> Pal, to |-> Me,
            new |-> FALSE, past |-> TRUE]

SeedFromLog(m, b) ==
  IF b # Pal \/ m.seeded \/ caps \cap {"chathistory", "znc"} # {} THEN m
  ELSE [m EXCEPT !.seeded = TRUE, !.buffers[b] = PrependMessages(@, <<LogLine>>)]

OpenPM(m, nick) ==
  IF nick \in DOMAIN m.buffers THEN m
  ELSE SeedFromLog([GetOrCreate(m, nick) EXCEPT !.listed = @ \cup {nick}], nick)

\* Mutant: our own messages to others go to a buffer of our own.
OnMessageBySender(m, l, parts, past) ==
  LET buf == IF l.to = Chan THEN Chan ELSE l.from
  IN  Post(IF l.to # Chan /\ ~past THEN OpenPM(m, buf) ELSE m, buf, Made(l, parts, past))

\* onMessage: a private message belongs to the other party.
OnMessage(m, l, parts, past) ==
  LET buf == IF l.to = Chan THEN Chan ELSE IF l.from = Me THEN l.to ELSE l.from
  IN  Post(IF l.to # Chan /\ ~past THEN OpenPM(m, buf) ELSE m, buf, Made(l, parts, past))

\* onNotice: to the sender's query when one is open, else the server's buffer.
OnNotice(m, l, parts, past) ==
  LET buf == IF l.to = Chan THEN Chan
             ELSE IF l.from \in DOMAIN m.buffers THEN l.from ELSE Server
  IN  Post(m, buf, Made(l, parts, past))

\* onAction posts to the target, whoever it is.
OnAction(m, l, parts, past) == Post(m, l.to, Made(l, parts, past))

Handled(m, l, parts, past) ==
  CASE l.cmd = "privmsg" -> OnMessage(m, l, parts, past)
    [] l.cmd = "notice"  -> OnNotice(m, l, parts, past)
    [] l.cmd = "action"  -> OnAction(m, l, parts, past)
----------------------------------------------------------------------------
RoutingInit ==
  /\ caps \in {{}, {"echo-message", "chathistory"}, {"znc"}}
  /\ open = [r \in Refs |-> Nothing]
  /\ batches = [r \in Refs |-> Nothing]
  /\ buffers = [b \in {Server, Chan} |-> NewBuffer]
  /\ listed = {Chan}
  /\ active = Server
  /\ page = Nothing
  /\ origin = Nothing
  /\ seeded = FALSE
  /\ said = 0
  /\ posted = 0

Opened(bs) == {r \in Refs : bs[r] # Nothing}

\* The links on which a batch of this kind comes.
Sends(kind) == CASE kind = "chathistory" -> "chathistory" \in caps
                 [] kind = "playback"    -> "znc" \in caps
                 [] kind = "multiline"   -> TRUE

(***************************************************************************)
(* BATCH +ref: handleBatch refuses it when too many are open.  A multiline *)
(* batch has one sender and one target, and may itself be a part of a      *)
(* batch of history; the client does not look at its batch tag.            *)
(***************************************************************************)
BatchBegins(r, kind, from, to, within) ==
  /\ open[r] = Nothing
  /\ Sends(kind)
  /\ \A q \in Opened(open) : open[q].kind # kind   \* bound: one of a kind
  /\ kind # "multiline" => to = Chan
  /\ within # Nothing => /\ kind = "multiline" /\ open[within] # Nothing
                         /\ open[within].kind \in Replays
  /\ open' = [open EXCEPT ![r] = [kind |-> kind, from |-> from, to |-> to,
                                  within |-> within]]
  /\ IF Cardinality(Opened(batches)) >= MaxOpen
     THEN /\ posted < MaxPosted
          /\ posted' = posted + 1
          /\ Become(Post(Model, active, Own))
          /\ UNCHANGED batches
     ELSE /\ batches' = [batches EXCEPT ![r] = [kind |-> kind, to |-> to, msgs |-> <<>>]]
          /\ UNCHANGED <<model, posted>>
  /\ UNCHANGED <<caps, active, origin, said>>

(***************************************************************************)
(* deliverBatch.  A multiline batch becomes one message of its PRIVMSGs,   *)
(* with the sender of the first; the lines of another are handled one by   *)
(* one, as history if it is a batch of history.                            *)
(***************************************************************************)
Parts(batch) ==
  LET part[i \in 0..Len(batch.msgs)] ==
        IF i = 0 THEN <<>>
        ELSE IF batch.msgs[i].cmd = "privmsg" THEN Append(part[i - 1], batch.msgs[i])
        ELSE part[i - 1]
  IN  part[Len(batch.msgs)]

DeliverMultiline(m, batch) ==
  LET lines == Parts(batch)
  IN  IF lines = <<>> THEN m
      ELSE OnMessage(m, [lines[1] EXCEPT !.to = batch.to],
                     [i \in DOMAIN lines |-> lines[i].nr], FALSE)

\* Mutant: only the batches asked for count as history.
DeliverLinesAsked(m, batch) ==
  LET after[i \in 0..Len(batch.msgs)] ==
        IF i = 0 THEN m
        ELSE Handled(after[i - 1], batch.msgs[i], <<batch.msgs[i].nr>>,
                     batch.kind = "chathistory")
  IN  after[Len(batch.msgs)]

DeliverLines(m, batch) ==
  LET after[i \in 0..Len(batch.msgs)] ==
        IF i = 0 THEN m
        ELSE Handled(after[i - 1], batch.msgs[i], <<batch.msgs[i].nr>>, batch.kind \in Replays)
  IN  after[Len(batch.msgs)]

\* onHistoryBatchDone: the page asked for goes before what is held.
HistoryBatchDone(m, batch) ==
  IF batch.kind # "chathistory" \/ batch.to # Chan \/ m.page = Nothing THEN m
  ELSE [m EXCEPT !.page = Nothing, !.buffers[Chan] = PrependMessages(@, m.page)]

Delivered(m, batch) ==
  IF batch.kind = "multiline" THEN DeliverMultiline(m, batch)
  ELSE HistoryBatchDone(DeliverLines(m, batch), batch)

\* BATCH -ref, once what is within it has ended; one that was refused is not known.
BatchEnds(r) ==
  /\ open[r] # Nothing
  /\ \A q \in Opened(open) : open[q].within # r
  /\ open' = [open EXCEPT ![r] = Nothing]
  /\ batches' = [batches EXCEPT ![r] = Nothing]
  /\ IF batches[r] = Nothing THEN UNCHANGED model ELSE Become(Delivered(Model, batches[r]))
  /\ UNCHANGED <<caps, active, origin, said, posted>>

\* Whether a line of this batch was said just now.
SaidNow(r) == r = Nothing \/ (open[r].kind \notin Replays /\ open[r].within = Nothing)

\* The lines the server sends in a batch of each kind.
Fits(r, cmd, from, to) ==
  IF r = Nothing THEN TRUE
  ELSE /\ open[r] # Nothing
       /\ CASE open[r].kind = "playback"    -> TRUE
            [] open[r].kind = "chathistory" -> to = Chan
            [] open[r].kind = "multiline"   -> cmd = "privmsg" /\ from = open[r].from
                                               /\ to = open[r].to

\* Mutant: a line kept for its batch is handled at once as well.
HearTwice(r, l) ==
  IF r = Nothing \/ batches[r] = Nothing
  THEN Become(Handled(Model, l, <<l.nr>>, FALSE)) /\ UNCHANGED batches
  ELSE /\ batches' = [batches EXCEPT ![r].msgs = Append(@, l)]
       /\ Become(Handled(Model, l, <<l.nr>>, batches[r].kind \in Replays \/ open[r].within # Nothing))

(***************************************************************************)
(* processLine: a line of a batch that is known is kept for it, up to      *)
(* kMaxBatchMessages; any other is handled as it comes.                    *)
(***************************************************************************)
Hear(r, l) ==
  IF r = Nothing \/ batches[r] = Nothing
  THEN Become(Handled(Model, l, <<l.nr>>, FALSE)) /\ UNCHANGED batches
  ELSE IF Len(batches[r].msgs) >= MaxBatch
       THEN Become(Post(Model, active, Own)) /\ UNCHANGED batches
       ELSE /\ batches' = [batches EXCEPT ![r].msgs = Append(@, l)]
            /\ UNCHANGED model

(***************************************************************************)
(* The msgids of the lines of this kind that the client has: in a buffer,  *)
(* in the page asked for, or kept for a batch.  A page, or the playback    *)
(* that is asked for again on every connect, may bring them once more, and *)
(* neither processLine nor postMessage looks for a msgid it has.           *)
(***************************************************************************)
SentBefore(cmd, from, to) ==
  LET sequences == {buffers[b].messages : b \in DOMAIN buffers}
                     \cup {batches[r].msgs : r \in Opened(batches)}
                     \cup (IF page = Nothing THEN {} ELSE {page})
      Same(l, id) == l.at = id /\ l.cmd = cmd /\ l.from = from /\ l.to = to
  IN  {id \in 1..said : \E lines \in sequences : \E i \in DOMAIN lines : Same(lines[i], id)}

\* Someone speaks, or the server replays what was said, be it held or not; ours
\* come back as echoes.
Speak(r, cmd, from, to) ==
  /\ said < MaxSaid
  /\ from = Me => caps # {}
  /\ Fits(r, cmd, from, to)
  /\ \E at \in {said + 1} \cup (IF SaidNow(r) THEN {} ELSE SentBefore(cmd, from, to)) :
       Hear(r, Spoken(cmd, from, to, at, SaidNow(r)))
  /\ said' = said + 1
  /\ UNCHANGED <<caps, open, active, origin, posted>>

(***************************************************************************)
(* TAGMSG with a reaction: it is looked for in the channel, or in the      *)
(* query of its sender, and kept when that holds its line.                 *)
(***************************************************************************)
BufferOf(from, to) == IF to = Chan THEN Chan ELSE from

ReactReceived(id, b) ==
  /\ b \in DOMAIN buffers
  /\ id \in Held(buffers[b].messages)
  /\ buffers' = [buffers EXCEPT ![b].reactions = @ \cup {id}]

Reacted == \E b \in DOMAIN buffers : buffers[b].reactions # {}

TagMsg(id, from, to) ==
  /\ ~Reacted /\ origin = Nothing   \* bound: one at a time
  /\ ReactReceived(id, BufferOf(from, to))
  /\ UNCHANGED <<caps, open, batches, listed, active, page, origin, seeded, said, posted>>

(***************************************************************************)
(* Lines of the client's own.  serverMessage, a WALLOPS, an invitation to  *)
(* us, a MONITOR reply, a socket error or a bouncer's network goes to the  *)
(* server's buffer; an error and the reply to a command go to the active   *)
(* one; a FAIL, WARN or NOTE about a channel, an invitation of another and *)
(* a topic's or modes' line to that channel, if we have it.                *)
(***************************************************************************)
StandardReply(b) == IF b \in DOMAIN buffers THEN b ELSE active

PostOwn(b) ==
  /\ posted < MaxPosted
  /\ posted' = posted + 1
  /\ Become(Post(Model, b, Own))

ServerLine == PostOwn(Server) /\ UNCHANGED <<caps, open, batches, active, origin, said>>
ContextualLine == PostOwn(active) /\ UNCHANGED <<caps, open, batches, active, origin, said>>
ChannelLine == PostOwn(StandardReply(Chan)) /\ UNCHANGED <<caps, open, batches, active, origin, said>>

(***************************************************************************)
(* sendCtcp keeps the buffer a request was made in, and ctcpReplyBuffer    *)
(* takes it when the answer comes, if the buffer is still there; an origin *)
(* older than kCtcpOriginTtlMs is as good as none.  Here requests are made *)
(* in Pal's query, which can be closed before the answer comes.            *)
(***************************************************************************)
SendCtcp ==
  /\ posted < MaxPosted
  /\ active = Pal
  /\ ~Reacted /\ page = Nothing      \* bound: a CTCP, or a reaction and a page
  /\ origin' = active
  /\ UNCHANGED <<caps, open, batches, model, active, said, posted>>

OriginExpires ==
  /\ origin # Nothing
  /\ origin' = Nothing
  /\ UNCHANGED <<caps, open, batches, model, active, said, posted>>

\* Mutant: the buffer is not looked for.
CtcpReplyBufferUnchecked == IF origin # Nothing THEN origin ELSE active

CtcpReplyBuffer == IF origin \in DOMAIN buffers THEN origin ELSE active

\* onCtcpPingReply, onCtcpTimeReply, onCtcpVersionReply.
CtcpReplied == PostOwn(CtcpReplyBuffer) /\ origin' = Nothing

\* A NOTICE that answers a request.
CtcpReply ==
  /\ CtcpReplied
  /\ UNCHANGED <<caps, open, batches, active, said>>

(***************************************************************************)
(* The user.  sendMessage opens the query of who it is for; with           *)
(* echo-message the line itself comes back from the server.                *)
(***************************************************************************)
SendMessage(to) ==
  /\ said < MaxSaid
  /\ LET opened == IF to = Chan THEN Model ELSE OpenPM(Model, to)
     IN  IF "echo-message" \in caps
         THEN Become(opened) /\ UNCHANGED said
         ELSE /\ said' = said + 1
              /\ Become(Post(opened, to,
                   Made(Spoken("privmsg", Me, to, said + 1, TRUE), <<said + 1>>, FALSE)))
  /\ UNCHANGED <<caps, open, batches, active, origin, posted>>

\* setActiveChannel, for a row of the sidebar: the buffer is read.
Look(b) ==
  /\ b \in listed \cup {Server}
  /\ active' = b
  /\ buffers' = [buffers EXCEPT ![b].unread = 0, ![b].firstUnread = 0]
  /\ UNCHANGED <<caps, open, batches, listed, page, origin, seeded, said, posted>>

\* Mutant: the window goes on showing the query.
CloseQueryInView ==
  /\ Pal \in listed
  /\ buffers' = [b \in DOMAIN buffers \ {Pal} |-> buffers[b]]
  /\ listed' = listed \ {Pal}
  /\ UNCHANGED <<caps, open, batches, page, origin, seeded, said, posted, active>>

\* closeBuffer, of a query; the window shows the server's buffer instead.
CloseQuery ==
  /\ Pal \in listed
  /\ buffers' = [b \in DOMAIN buffers \ {Pal} |-> buffers[b]]
  /\ listed' = listed \ {Pal}
  /\ active' = IF active = Pal THEN Server ELSE active
  /\ UNCHANGED <<caps, open, batches, page, origin, seeded, said, posted>>

\* requestOlderHistory, and its ten seconds.
RequestOlder ==
  /\ "chathistory" \in caps
  /\ page = Nothing
  /\ origin = Nothing                \* bound: as for SendCtcp
  /\ buffers[Chan].messages # <<>>
  /\ page' = <<>>
  /\ UNCHANGED <<caps, open, batches, buffers, listed, active, origin, seeded, said, posted>>

RequestTimesOut ==
  /\ page # Nothing
  /\ page' = Nothing
  /\ UNCHANGED <<caps, open, batches, buffers, listed, active, origin, seeded, said, posted>>

\* The link is lost, and comes back: resetSessionState forgets the batches.
Reconnect ==
  /\ Opened(open) # {}
  /\ open' = [r \in Refs |-> Nothing]
  /\ batches' = [r \in Refs |-> Nothing]
  /\ UNCHANGED <<caps, model, active, origin, said, posted>>

\* Who speaks to whom, and how; ours are echoes, or another client's of a bouncer.
Talks == {<<Pal, Chan>>, <<Pal, Me>>, <<Me, Pal>>}
Speech == ({"privmsg"} \X Talks) \cup ({"notice", "action"} \X {<<Pal, Me>>})

RoutingNext ==
  \/ \E r \in Refs, kind \in Kinds, talk \in Talks, within \in Refs \cup {Nothing} :
        BatchBegins(r, kind, talk[1], talk[2], within)
  \/ \E r \in Refs : BatchEnds(r)
  \/ \E r \in Refs \cup {Nothing}, s \in Speech : Speak(r, s[1], s[2][1], s[2][2])
  \/ \E id \in 1..said, talk \in Talks : TagMsg(id, talk[1], talk[2])
  \/ ServerLine \/ ContextualLine \/ ChannelLine
  \/ SendCtcp \/ OriginExpires \/ CtcpReply
  \/ \E to \in {Chan, Pal} : SendMessage(to)
  \/ \E b \in DOMAIN buffers : Look(b)
  \/ CloseQuery \/ RequestOlder \/ RequestTimesOut \/ Reconnect

RoutingSpec == RoutingInit /\ [][RoutingNext]_routingVars
----------------------------------------------------------------------------
LinesIn(b) == {i \in DOMAIN buffers[b].messages : buffers[b].messages[i].parts # <<>>}

\* Types, and that the view shows a buffer there is, the server's or a listed one.
RoutingTypeOK ==
  /\ active \in {Server} \cup listed
  /\ listed \subseteq DOMAIN buffers
  /\ {Server, Chan} \subseteq DOMAIN buffers /\ DOMAIN buffers \subseteq {Server, Chan, Pal, Me}
  /\ \A b \in DOMAIN buffers :
       /\ Len(buffers[b].messages) <= Cap
       /\ buffers[b].unread \in 0..MaxSaid
       /\ buffers[b].firstUnread \in 0..Len(buffers[b].messages)
  /\ \A r \in Opened(batches) : open[r] # Nothing /\ Len(batches[r].msgs) <= MaxBatch
  /\ Cardinality(Opened(batches)) <= MaxOpen
  /\ said \in 0..MaxSaid /\ posted \in 0..MaxPosted

(***************************************************************************)
(* What was said in the channel is held there only, and what was said in   *)
(* private in the query of the other party, whichever of the two said it,  *)
(* live, from a batch or from a page; a private notice may be held with    *)
(* the server's lines.  (A private /me is not: see the README.)            *)
(***************************************************************************)
Place(l) == IF l.to = Chan THEN {Chan}
            ELSE IF l.from = Me THEN {l.to}
            ELSE IF l.cmd = "notice" THEN {l.from, Server} ELSE {l.from}

EachInItsPlace ==
  \A b \in DOMAIN buffers : \A i \in LinesIn(b) :
    LET l == buffers[b].messages[i] IN l.cmd = "action" \/ b \in Place(l)

(***************************************************************************)
(* No line that comes over the link becomes two messages, in one buffer or *)
(* in two, whatever batch it came in, and a message made of several lines  *)
(* has them in the order they came.  What is held twice, the server sent   *)
(* twice: that it may be is OncePerMsgid.                                  *)
(***************************************************************************)
WholeAndOnce ==
  \A b, c \in DOMAIN buffers : \A i \in LinesIn(b), j \in LinesIn(c) :
    LET p == buffers[b].messages[i].parts
        q == buffers[c].messages[j].parts
    IN  /\ \A k \in 1 .. Len(p) - 1 : p[k] < p[k + 1]
        /\ (b # c \/ i # j) => {p[k] : k \in DOMAIN p} \cap {q[k] : k \in DOMAIN q} = {}

\* No two messages have one msgid.  (Not so, once a line is replayed: see the README.)
OncePerMsgid ==
  \A b, c \in DOMAIN buffers : \A i \in LinesIn(b), j \in LinesIn(c) :
    buffers[b].messages[i].at = buffers[c].messages[j].at => b = c /\ i = j

\* Reactions are kept of lines that are held, and go when those go, at either end.
ReactionsHaveTheirLine ==
  \A b \in DOMAIN buffers : buffers[b].reactions \subseteq Held(buffers[b].messages)

(***************************************************************************)
(* What is replayed in a batch of history raises no badge, also while a    *)
(* page was asked for, or given up; a multiline message within the batch   *)
(* does, and so does a batch that was refused (see the README).            *)
(***************************************************************************)
Badges(b) == IF b \in DOMAIN buffers THEN buffers[b].unread ELSE 0

NestedEnds(r) == open'[r] = Nothing /\ open[r].within # Nothing

BadgeOnlyForNew ==
  [][\A b \in DOMAIN buffers' : buffers'[b].unread > Badges(b) =>
       LET m == buffers'[b].messages IN m[Len(m)].new]_routingVars

QuietReplay ==
  [][\A b \in DOMAIN buffers' : buffers'[b].unread > Badges(b) =>
       LET m == buffers'[b].messages
       IN  m[Len(m)].new \/ \E r \in Opened(open) : NestedEnds(r)]_routingVars

(***************************************************************************)
(* A query that was closed is not made again by an answer to something     *)
(* asked in it, a reaction or a redaction: only by a line of that person,  *)
(* or by us writing to them.                                               *)
(***************************************************************************)
ClosedStaysClosed ==
  [][(Pal \in DOMAIN buffers' \ DOMAIN buffers) =>
       LET m == buffers'[Pal].messages
       IN  m = <<>> \/ m[Len(m)].parts # <<>> \/ m[Len(m)] = LogLine]_routingVars

\* The doc: "Incoming PMs from others open their own buffers automatically."
IncomingOpensItsBuffer ==
  \A i \in (IF Pal \in DOMAIN buffers THEN LinesIn(Pal) ELSE {}) :
    LET l == buffers[Pal].messages[i]
    IN  l.cmd = "privmsg" /\ l.from = Pal /\ l.new /\ ~l.past => Pal \in listed

\* Every line held is in a buffer it belongs in, and every reaction has its line.
RoutingInv == RoutingTypeOK /\ EachInItsPlace /\ ReactionsHaveTheirLine
=============================================================================
