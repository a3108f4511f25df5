----------------------------- MODULE ReadState -----------------------------
(***************************************************************************)
(* What of a buffer has been read: its unread badge, the mark of its first *)
(* unread line and the divider drawn from it, and the read marker shared   *)
(* with the other clients of the account.  SessionModel (src/src/model)    *)
(* keeps them, MainWindow (src/src/ui) shows the buffer.                   *)
(*                                                                         *)
(* One buffer, a channel.  Its lines come from the server: live, or as     *)
(* history, which Scrollback models in detail and which is here placed at  *)
(* either end, as the code may place it.  A line is handled when the       *)
(* server sends it; marks of another client come when they like.           *)
(***************************************************************************)
EXTENDS ChannelBuffer, FiniteSets, Functions

CONSTANTS
  Last,       \* bound: the last line ever said
  Old,        \* lines said before Uplink started
  Pings,      \* the lines that mention the user
  Window,     \* kRenderWindow (150), the lines the main view draws at first
  MaxReplies  \* bound: history replies

ASSUME LineAssumption == Last \in Nat /\ Old \in 0..Last /\ Pings \subseteq 1..Last
ASSUME WindowAssumption == {Window, MaxReplies} \subseteq Nat

VARIABLES
  server,    \* now, the chat lines said, the account's read marker,
             \* whether Uplink is joined, and the history replies sent
  channel,   \* the Channel record
  marks,     \* m_pendingReadMarks has the buffer, m_readMarkQueued
  uiActive,  \* m_uiActive: a window of Uplink has the focus
  view,      \* where the buffer is shown; the main view's is the active one
  divider,   \* the line the divider was drawn above when last switched to
  missed     \* history: the messages that came while the buffer was hidden,
             \* since its badge was last cleared

vars == <<server, channel, marks, uiActive, view, divider, missed>>

Server == [now : Old..Last, said : SUBSET (1..Last), marker : 0..Last,
           joined : BOOLEAN, replies : 0..MaxReplies]
Channel == [messages : Seq([at : 1..Last, past : BOOLEAN]),
            reactions : SUBSET (1..Last), unread : 0..Last, mentions : 0..Last,
            firstUnread : 0..Cap, lastRead : 0..Last]

TypeOK ==
  /\ server \in Server
  /\ channel \in Channel /\ Len(channel.messages) =< Cap
  /\ marks \in [pending : BOOLEAN, queued : BOOLEAN]
  /\ uiActive \in BOOLEAN
  /\ view \in {"hidden", "main", "pane"}
  /\ divider \in 0..Cap
  /\ missed \subseteq 1..Last

NoChannel == [messages |-> <<>>, reactions |-> {}, unread |-> 0, mentions |-> 0,
              firstUnread |-> 0, lastRead |-> 0]

Init ==
  /\ server = [now |-> Old, said |-> 1..Old, marker |-> 0, joined |-> FALSE, replies |-> 0]
  /\ channel = NoChannel
  /\ marks = [pending |-> FALSE, queued |-> FALSE]
  /\ uiActive = TRUE
  /\ view = "hidden"
  /\ divider = 0
  /\ missed = {}

----------------------------------------------------------------------------
(* Reading.                                                                *)

\* The badge and the mark of the first unread line go.
Cleared(c) == [c EXCEPT !.unread = 0, !.mentions = 0, !.firstUnread = 0]

\* markRead, for the Channel; the mark for the server is queued beside it.
MarkRead(c) == IF c.unread = 0 /\ c.mentions = 0 THEN c ELSE Cleared(c)

Queued == [pending |-> TRUE, queued |-> TRUE]
QueueIf(b) == marks' = IF b THEN Queued ELSE marks

\* A live message in a buffer that is not the active one.
Badged(c, at) ==
  [c EXCEPT !.firstUnread = IF c.unread = 0 THEN Len(c.messages) ELSE @,
            !.unread = @ + 1,
            !.mentions = IF at \in Pings THEN @ + 1 ELSE @]

\* Mutant: the count is set again after the signal that cleared it.
PostMessageCached(line) ==
  LET added  == AddMessage(channel, line)
      counts == line.at \in server'.said
  IN  /\ channel' = IF counts /\ view # "main" THEN Badged(added, line.at) ELSE added
      /\ QueueIf(view = "pane" \/ (view = "main" /\ counts))
      /\ missed' = IF counts /\ view = "hidden" THEN missed \cup {line.at} ELSE missed

\* Mutant: events count as well.
PostMessageCountingEvents(line) ==
  LET added  == AddMessage(channel, line)
      badged == IF view # "main" THEN Badged(added, line.at) ELSE added
  IN  /\ channel' = IF view = "pane" THEN MarkRead(badged) ELSE badged
      /\ QueueIf(view # "hidden")
      /\ missed' = IF line.at \in server'.said /\ view = "hidden"
                     THEN missed \cup {line.at} ELSE missed

(***************************************************************************)
(* postMessage of a live line, with what onMessageAdded does from inside   *)
(* its signal: a buffer in a pane is marked read on every line.            *)
(***************************************************************************)
PostMessage(line) ==
  LET added  == AddMessage(channel, line)
      counts == line.at \in server'.said
      badged == IF counts /\ view # "main" THEN Badged(added, line.at) ELSE added
  IN  /\ channel' = IF view = "pane" THEN MarkRead(badged) ELSE badged
      /\ QueueIf(view = "pane" \/ (view = "main" /\ counts))
      /\ missed' = IF counts /\ view = "hidden" THEN missed \cup {line.at} ELSE missed

\* The server says the next line: a message, or an event as a JOIN.
Say ==
  /\ server.now < Last
  /\ \E chat \in BOOLEAN :
       server' = [server EXCEPT !.now = @ + 1,
                                !.said = IF chat THEN @ \cup {server.now + 1} ELSE @]
  /\ IF server.joined
       THEN PostMessage([at |-> server'.now, past |-> FALSE])
       ELSE UNCHANGED <<channel, marks, missed>>
  /\ UNCHANGED <<uiActive, view, divider>>

\* The link comes up; "You joined" is a line too.
Join ==
  /\ ~server.joined /\ server.now < Last
  /\ server' = [server EXCEPT !.now = @ + 1, !.joined = TRUE]
  /\ PostMessage([at |-> server'.now, past |-> FALSE])
  /\ UNCHANGED <<uiActive, view, divider>>

LinkLost ==
  /\ server.joined
  /\ server' = [server EXCEPT !.joined = FALSE]
  /\ UNCHANGED <<channel, marks, uiActive, view, divider, missed>>

(***************************************************************************)
(* History: the reply to LATEST on joining, or a page of older lines.  It  *)
(* is prepended while a page is awaited, and appended otherwise.           *)
(***************************************************************************)
OnHistory ==
  /\ server.replies < MaxReplies
  /\ server' = [server EXCEPT !.replies = @ + 1]
  /\ \E page \in Newest(server.said)
                 \cup Newest({t \in server.said : channel.messages # <<>>
                                                  /\ t < channel.messages[1].at}) :
       /\ page # <<>>
       /\ \/ /\ channel' = PrependMessages(channel, AsHistory(page))
             /\ UNCHANGED marks
          \/ LET added == AddMessages(channel, AsHistory(page))
             IN  /\ channel' = IF view = "pane" THEN MarkRead(added) ELSE added
                 /\ QueueIf(view = "pane")
  /\ UNCHANGED <<uiActive, view, divider, missed>>

\* Anyone reacts to a line that is held.
OnReact(at) ==
  /\ server.joined
  /\ at \in server.said \cap Held(channel.messages)
  /\ channel.reactions = {}   \* bound: one line with reactions
  /\ channel' = [channel EXCEPT !.reactions = @ \cup {at}]
  /\ UNCHANGED <<server, marks, uiActive, view, divider, missed>>

----------------------------------------------------------------------------
(* The user.                                                               *)

\* Looking at the buffer marks it read.
Look ==
  /\ channel' = MarkRead(channel)
  /\ QueueIf(channel.messages # <<>>)
  /\ missed' = {}

\* refreshChatView draws the divider from the channel as it finds it.
DividerOf(c) ==
  IF c.firstUnread > Len(c.messages) - Window THEN c.firstUnread ELSE 0

\* switchToChannel: setActive, then refreshChatView. It also follows, in the same
\* handler, on the closing of the buffer's own window.
SwitchTo ==
  /\ view # "main"
  /\ view' = "main"
  /\ Look
  /\ divider' = DividerOf(channel')
  /\ UNCHANGED <<server, uiActive>>

\* The buffer goes to a pane or to a window of its own.
OpenPane ==
  /\ view # "pane"
  /\ view' = "pane"
  /\ Look
  /\ UNCHANGED <<server, uiActive, divider>>

\* Another buffer is switched to, or the pane is closed.
Leave ==
  /\ view # "hidden"
  /\ view' = "hidden"
  /\ UNCHANGED <<server, channel, marks, uiActive, divider, missed>>

\* Mutant: the marks that were held back are not queued again.
SetUiActiveOnly(active) ==
  /\ uiActive # active
  /\ uiActive' = active
  /\ UNCHANGED <<server, channel, marks, view, divider, missed>>

SetUiActive(active) ==
  /\ uiActive # active
  /\ uiActive' = active
  /\ marks' = IF active /\ marks.pending THEN Queued ELSE marks
  /\ UNCHANGED <<server, channel, view, divider, missed>>

----------------------------------------------------------------------------
(* The read marker.                                                        *)

\* Mutant: whatever line is last is sent.
FlushReadMarksBackwards ==
  /\ marks.queued
  /\ marks' = [pending |-> marks.pending /\ ~uiActive, queued |-> FALSE]
  /\ LET n    == Len(channel.messages)
         sent == uiActive /\ marks.pending /\ n > 0
         ts   == channel.messages[n].at
     IN  /\ channel' = IF sent THEN [channel EXCEPT !.lastRead = ts] ELSE channel
         /\ server' = IF sent /\ server.joined /\ ts > server.marker
                        THEN [server EXCEPT !.marker = ts] ELSE server
  /\ UNCHANGED <<uiActive, view, divider, missed>>

\* Mutant: the timer is set again until there is a link.
FlushReadMarksOnline ==
  /\ marks.queued /\ server.joined
  /\ marks' = [pending |-> marks.pending /\ ~uiActive, queued |-> FALSE]
  /\ UNCHANGED <<server, channel, uiActive, view, divider, missed>>

\* The timer of the queued marks; what is sent offline goes nowhere.
FlushReadMarks ==
  /\ marks.queued
  /\ marks' = [pending |-> marks.pending /\ ~uiActive, queued |-> FALSE]
  /\ LET n    == Len(channel.messages)
         sent == /\ uiActive /\ marks.pending /\ n > 0
                 /\ channel.messages[n].at > channel.lastRead
         ts   == channel.messages[n].at
     IN  /\ channel' = IF sent THEN [channel EXCEPT !.lastRead = ts] ELSE channel
         /\ server' = IF sent /\ server.joined /\ ts > server.marker
                        THEN [server EXCEPT !.marker = ts] ELSE server
  /\ UNCHANGED <<uiActive, view, divider, missed>>

\* Mutant: any newer mark clears the badge.
OnReadMarkerEager(ts) ==
  IF ts =< channel.lastRead
    THEN UNCHANGED <<channel, missed>>
    ELSE /\ channel' = MarkRead([channel EXCEPT !.lastRead = ts])
         /\ missed' = {}

\* readMarkerReceived: a mark that covers all there is clears the badge.
OnReadMarker(ts) ==
  IF ts =< channel.lastRead
    THEN UNCHANGED <<channel, missed>>
    ELSE LET read    == [channel EXCEPT !.lastRead = ts]
             n       == Len(channel.messages)
             covered == n = 0 \/ channel.messages[n].at =< ts
         IN  /\ channel' = IF covered THEN MarkRead(read) ELSE read
             /\ missed' = IF covered THEN {} ELSE missed

\* Another client of the account reads up to ts.
OtherReads(ts) ==
  /\ ts > server.marker /\ ts =< server.now
  /\ server' = [server EXCEPT !.marker = ts]
  /\ IF server.joined THEN OnReadMarker(ts) ELSE UNCHANGED <<channel, missed>>
  /\ UNCHANGED <<marks, uiActive, view, divider>>

\* The server repeats its marker, as it does after a JOIN.
ServerRepeats ==
  /\ server.joined /\ server.marker > 0
  /\ OnReadMarker(server.marker)
  /\ UNCHANGED <<server, marks, uiActive, view, divider>>

----------------------------------------------------------------------------
Next ==
  \/ Say \/ Join \/ LinkLost \/ OnHistory
  \/ \E at \in 1..Last : OnReact(at) \/ OtherReads(at)
  \/ SwitchTo \/ OpenPane \/ Leave
  \/ \E active \in BOOLEAN : SetUiActive(active)
  \/ FlushReadMarks \/ ServerRepeats

Spec == Init /\ [][Next]_vars
\* The timer that was set fires.
LiveSpec == Spec /\ WF_vars(FlushReadMarks)

----------------------------------------------------------------------------
(* Properties.                                                             *)

\* A buffer on screen has no badge, whatever order its lines, its pages of
\* history and the counting around the signal come in.
VisibleHasNoBadge ==
  view # "hidden" =>
    channel.unread = 0 /\ channel.mentions = 0 /\ channel.firstUnread = 0

\* The badge counts the messages that came while nobody looked, each once,
\* and nothing else: no history, no event, no line seen in a pane.
BadgeCountsMissed ==
  /\ channel.unread = Cardinality(missed)
  /\ channel.mentions = Cardinality(missed \cap Pings)

\* No missed message lies before the first unread line, though lines are
\* dropped and prepended around it.
FirstUnreadIsFirst ==
  \A i \in 1..channel.firstUnread - 1 :
    channel.messages[i].past \/ channel.messages[i].at \notin missed

\* Reactions are kept for lines that are held, so that the cap bounds them.
ReactionsAreHeld == channel.reactions \subseteq Held(channel.messages)

\* A mark held back while Uplink had no focus is not forgotten.
HeldMarksAreQueued == marks.pending /\ uiActive => marks.queued

\* The read position only moves forward, though history may leave an old
\* line at the end of the buffer.
LastReadAdvances == [][channel'.lastRead >= channel.lastRead]_vars

\* The missed messages the buffer holds as they came.
MissedHeld ==
  {at \in missed : [at |-> at, past |-> FALSE] \in Range(channel.messages)}

EndsInHistory ==
  channel.messages # <<>> /\ channel.messages[Len(channel.messages)].past

\* Another client's mark takes the badge away only when it covers every missed
\* message the buffer holds, unless history at its end hides them.
BadgeGoesWhenRead ==
  [][view = "hidden" /\ view' = "hidden" /\ missed' = {} /\ ~EndsInHistory
     => \A at \in MissedHeld : at =< channel'.lastRead]_vars

\* A mark goes out, or waits for the focus to come back.
MarksGoOut == marks.pending /\ uiActive ~> ~marks.pending \/ ~uiActive

\* Switching to a buffer with unread lines draws the divider (src/docs/faq.md:706).
DividerIsDrawn ==
  [][view = "hidden" /\ view' = "main" /\ channel.firstUnread > Len(channel.messages) - Window
       /\ channel.unread > 0
     => divider' = channel.firstUnread]_vars

\* No mark covers a line that Uplink itself still shows as unread
\* (src/docs/ircv3.md:295).
MarksOnlyWhatWasSeen ==
  [][marks.queued /\ ~marks'.queued /\ channel'.lastRead # channel.lastRead
     => channel.unread = 0]_vars

\* The badge, the first unread line and the mark held back are right in every
\* order of lines, pages of history, switches, marks and lost links.
UnreadInv ==
  /\ TypeOK /\ VisibleHasNoBadge /\ BadgeCountsMissed /\ FirstUnreadIsFirst
  /\ HeldMarksAreQueued

\* Reading goes forward only, and takes a badge away only for what was read.
ReadMovesOn == LastReadAdvances /\ BadgeGoesWhenRead
=============================================================================
