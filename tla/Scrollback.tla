---------------------------- MODULE Scrollback -----------------------------
(***************************************************************************)
(* How the lines of a buffer come to it: live, as the history a server     *)
(* replays on joining, and page by page as the user scrolls up, from the   *)
(* server's CHATHISTORY or, where it has none or there is no link, from    *)
(* the log file.  SessionModel (src/src/model) keeps the request and its   *)
(* timeout, MainWindow (src/src/ui) what it has drawn and whether it is    *)
(* waiting for more.                                                       *)
(*                                                                         *)
(* One channel.  Times are distinct, so that the ties of the log's         *)
(* resolution (LogReader::readBefore) do not arise.                        *)
(***************************************************************************)
EXTENDS ChannelBuffer, Functions

CONSTANTS
  Last,       \* bound: the last line ever said
  Old,        \* lines said before Uplink started
  Window,     \* kRenderWindow (150), lines drawn on switching to the buffer
  Chunk,      \* kRenderChunk (50), lines drawn at a time after that
  MaxTimers,  \* bound: page requests whose timeout has not fired
  MaxAsked,   \* bound: page requests the server has not answered
  Servers     \* whether the server has chathistory: a set of BOOLEANs

ASSUME LineAssumption == Last \in Nat /\ Old \in 0..Last
ASSUME DrawAssumption == {Window, Chunk, MaxTimers, MaxAsked} \subseteq Nat \ {0}
ASSUME ServerAssumption == Servers \subseteq BOOLEAN

VARIABLES
  chathistory, \* fixed: the server has the capability
  server,      \* now, the messages said, the requests it has not answered
  membership,  \* "out", "joined", and "listed" after the end of NAMES
  channel,     \* the lines of the Channel; the rest of it is ReadState's
  log,         \* the lines in the log file, and logMessages
  paging,      \* m_pendingHistoryBefore has the buffer, the armed timeouts,
               \* m_logSeeded has it
  ui,          \* the buffer is the active one, m_loadingOlder, the posted
               \* resets of it, m_historyExhausted has it, m_renderStart
  reach        \* history: the oldest line the buffer ever held

client == <<membership, channel, log, paging, ui, reach>>
vars == <<chathistory, server, client>>

Request == [what : {"latest", "before"}, bound : 0..Last]

TypeOK ==
  /\ chathistory \in Servers
  /\ server \in [now : Old..Last, said : SUBSET (1..Last), asked : Seq(Request)]
  /\ membership \in {"out", "joined", "listed"}
  /\ channel \in [messages : Seq([at : 1..Last, past : BOOLEAN]),
                  reactions : {{}}, firstUnread : {0}]
  /\ Len(channel.messages) =< Cap
  /\ log \in [lines : SUBSET (1..Last), on : BOOLEAN]
  /\ paging \in [pending : BOOLEAN, timers : 0..MaxTimers, seeded : BOOLEAN]
  /\ ui \in [active : BOOLEAN, loading : BOOLEAN, resets : 0..2,
             exhausted : BOOLEAN, start : 0..Cap]
  /\ reach \in 1..Last + 1

Init ==
  /\ chathistory \in Servers
  /\ server = [now |-> Old, said |-> 1..Old, asked |-> <<>>]
  /\ membership = "out"
  /\ channel = [messages |-> <<>>, reactions |-> {}, firstUnread |-> 0]
  /\ log \in [lines : {1..Old}, on : BOOLEAN]
  /\ paging = [pending |-> FALSE, timers |-> 0, seeded |-> FALSE]
  /\ ui = [active |-> FALSE, loading |-> FALSE, resets |-> 0,
           exhausted |-> FALSE, start |-> 0]
  /\ reach = Last + 1

----------------------------------------------------------------------------
(* Lines.                                                                  *)

Oldest(messages) == messages[1].at

\* The channel takes a new list of messages.
Becomes(c) ==
  /\ channel' = c
  /\ reach' = CHOOSE t \in Held(c.messages) \cup {reach} :
                \A u \in Held(c.messages) \cup {reach} : t =< u

\* logMessage: a live line goes to the file, history does not.
Logged(t) == [log EXCEPT !.lines = IF log.on THEN @ \cup {t} ELSE @]

\* The server passes the next message on.  Events, which it keeps no history of,
\* are represented by Uplink's own JOIN below.
Say ==
  /\ server.now < Last
  /\ server' = [server EXCEPT !.now = @ + 1, !.said = @ \cup {server.now + 1}]
  /\ IF membership = "out"
       THEN UNCHANGED <<channel, reach, log>>
       ELSE /\ Becomes(AddMessage(channel, [at |-> server'.now, past |-> FALSE]))
            /\ log' = Logged(server'.now)
  /\ UNCHANGED <<chathistory, membership, paging, ui>>

----------------------------------------------------------------------------
(* Pages.                                                                  *)

\* Mutant: one page is taken for the last.
OlderHistoryLoadedOnce(u, n) ==
  ui' = [u EXCEPT !.loading = FALSE,
                  !.exhausted = @ \/ u.active,
                  !.start = IF u.active /\ n > 0 THEN 0 ELSE @]

\* onOlderHistoryLoaded: a page of n lines, or the news that there is none.
OlderHistoryLoaded(u, n) ==
  ui' = [u EXCEPT !.loading = FALSE,
                  !.exhausted = @ \/ (u.active /\ n = 0),
                  !.start = IF u.active /\ n > 0 THEN 0 ELSE @]

HasHistory == chathistory /\ membership # "out"

(***************************************************************************)
(* loadOlderMessages, run with the view in state u: the user scrolls to the*)
(* top, or what is drawn does not fill the view.  The server is asked, or  *)
(* the log, or a page is on its way already, or more of what is held is    *)
(* drawn.                                                                  *)
(***************************************************************************)
\* requestOlderHistory, of the server.
AskServer(u) ==
  /\ HasHistory
  /\ paging.timers < MaxTimers /\ Len(server.asked) < MaxAsked
  /\ paging' = [paging EXCEPT !.pending = TRUE, !.timers = @ + 1]
  /\ server' = [server EXCEPT
       !.asked = Append(@, [what |-> "before", bound |-> Oldest(channel.messages)])]
  /\ ui' = [u EXCEPT !.loading = TRUE]
  /\ UNCHANGED <<channel, reach>>

\* Mutant: the page is read from the end of the log.
ReadLogFromEnd(u) ==
  /\ ~HasHistory
  /\ \E page \in Newest(log.lines) :
       /\ Becomes(PrependMessages(channel, AsHistory(page)))
       /\ OlderHistoryLoaded(u, Len(page))
  /\ UNCHANGED <<server, paging>>

\* requestOlderHistory, of the log: the page is there at once.
ReadLog(u) ==
  /\ ~HasHistory
  /\ \E page \in Newest({t \in log.lines : t < Oldest(channel.messages)}) :
       /\ Becomes(PrependMessages(channel, AsHistory(page)))
       /\ OlderHistoryLoaded(u, Len(page))
  /\ UNCHANGED <<server, paging>>

\* requestOlderHistory, with a page on its way: only the view waits.
AwaitPage(u) ==
  /\ ui' = [u EXCEPT !.loading = TRUE]
  /\ UNCHANGED <<server, channel, paging, reach>>

DrawMore(u) ==
  /\ u.resets < 2   \* bound: two resets posted
  /\ ui' = [u EXCEPT !.loading = TRUE, !.resets = @ + 1,
                     !.start = IF @ > Chunk THEN @ - Chunk ELSE 0]
  /\ UNCHANGED <<server, channel, paging, reach>>

LoadOlderMessages(u) ==
  /\ u.active /\ ~u.loading /\ channel.messages # <<>>
  /\ \/ u.start > 0 /\ DrawMore(u)
     \/ u.start = 0 /\ ~u.exhausted /\ paging.pending /\ AwaitPage(u)
     \/ u.start = 0 /\ ~u.exhausted /\ ~paging.pending /\ (AskServer(u) \/ ReadLog(u))
  /\ UNCHANGED <<chathistory, membership, log>>

ScrollUp == LoadOlderMessages(ui)

\* The reset loadOlderMessages posted; where the view is still not full, it goes on.
Settle ==
  /\ ui.resets > 0
  /\ LET u == [ui EXCEPT !.loading = FALSE, !.resets = @ - 1]
     IN  \/ /\ ui' = u
            /\ UNCHANGED <<chathistory, server, membership, channel, log, paging, reach>>
         \/ LoadOlderMessages(u)

(***************************************************************************)
(* The server answers, and deliverBatch hands the lines on: postMessage    *)
(* sets them aside for the page that is awaited and onHistoryBatchDone     *)
(* prepends them, or, when none is awaited, they are appended.             *)
(***************************************************************************)
OnHistoryBatch ==
  /\ server.asked # <<>>
  /\ server' = [server EXCEPT !.asked = Tail(@)]
  /\ LET request == Head(server.asked)
         lines == IF request.what = "latest" THEN server.said
                  ELSE {t \in server.said : t < request.bound}
     IN  \E page \in Newest(lines) :
           IF paging.pending
             THEN /\ Becomes(PrependMessages(channel, AsHistory(page)))
                  /\ OlderHistoryLoaded(ui, Len(page))
             ELSE /\ Becomes(AddMessages(channel, AsHistory(page)))
                  /\ UNCHANGED ui
  /\ paging' = [paging EXCEPT !.pending = FALSE]
  /\ UNCHANGED <<chathistory, membership, log>>

\* Mutant: the request is dropped without a word to the view.
OnTimeoutSilent ==
  /\ paging.timers > 0
  /\ paging' = [paging EXCEPT !.pending = FALSE, !.timers = @ - 1]
  /\ UNCHANGED <<chathistory, server, membership, channel, log, reach, ui>>

\* Mutant: an awaited page is waited for once more.
OnTimeoutPatient ==
  /\ paging.timers > 0
  /\ paging' = IF paging.pending THEN paging ELSE [paging EXCEPT !.timers = @ - 1]
  /\ UNCHANGED <<chathistory, server, membership, channel, log, reach, ui>>

\* A timeout fires, for whatever page is awaited by then.
OnTimeout ==
  /\ paging.timers > 0
  /\ paging' = [paging EXCEPT !.pending = FALSE, !.timers = @ - 1]
  /\ IF paging.pending THEN OlderHistoryLoaded(ui, 0) ELSE UNCHANGED ui
  /\ UNCHANGED <<chathistory, server, membership, channel, log, reach>>

----------------------------------------------------------------------------
(* The link and the user.                                                  *)

\* seedFromLog, once and only where the server replays nothing.
Seeds == ~chathistory /\ ~paging.seeded

\* Uplink's own JOIN: the seed, then the line "You joined".
Join ==
  /\ membership = "out" /\ server.now < Last
  /\ membership' = "joined"
  /\ server' = [server EXCEPT !.now = @ + 1]
  /\ \E page \in IF Seeds THEN Newest(log.lines) ELSE {<<>>} :
       /\ Becomes(AddMessage(PrependMessages(channel, AsHistory(page)),
                             [at |-> server'.now, past |-> FALSE]))
       /\ IF page # <<>> THEN OlderHistoryLoaded(ui, Len(page)) ELSE UNCHANGED ui
  /\ log' = Logged(server'.now)
  /\ paging' = [paging EXCEPT !.seeded = @ \/ Seeds]
  /\ UNCHANGED chathistory

\* 366: the end of NAMES asks for the latest history.
OnEndOfNames ==
  /\ membership = "joined"
  /\ membership' = "listed"
  /\ server' = [server EXCEPT
       !.asked = IF chathistory THEN Append(@, [what |-> "latest", bound |-> 0]) ELSE @]
  /\ UNCHANGED <<chathistory, channel, log, paging, ui, reach>>

LinkLost ==
  /\ membership # "out"
  /\ membership' = "out"
  /\ server' = [server EXCEPT !.asked = <<>>]
  /\ UNCHANGED <<chathistory, channel, log, paging, ui, reach>>

\* refreshChatView draws the end of the buffer.
SwitchTo ==
  /\ ~ui.active
  /\ LET total == Len(channel.messages)
     IN  ui' = [ui EXCEPT !.active = TRUE,
                          !.start = IF total > Window THEN total - Window ELSE 0]
  /\ UNCHANGED <<chathistory, server, membership, channel, log, paging, reach>>

SwitchAway ==
  /\ ui.active
  /\ ui' = [ui EXCEPT !.active = FALSE]
  /\ UNCHANGED <<chathistory, server, membership, channel, log, paging, reach>>

\* loggingToggled: with logging on, the log may be paged again.
LoggingToggled(on) ==
  /\ log.on # on
  /\ ~chathistory   \* bound: with chathistory the preference is left as it was
  /\ log' = [log EXCEPT !.on = on]
  /\ ui' = IF on THEN [ui EXCEPT !.exhausted = FALSE] ELSE ui
  /\ UNCHANGED <<chathistory, server, membership, channel, paging, reach>>

----------------------------------------------------------------------------
Next ==
  \/ Say
  \/ ScrollUp \/ Settle
  \/ OnHistoryBatch \/ OnTimeout
  \/ Join \/ OnEndOfNames \/ LinkLost
  \/ SwitchTo \/ SwitchAway
  \/ \E on \in BOOLEAN : LoggingToggled(on)

Spec == Init /\ [][Next]_vars

\* Timers that were set fire.
LiveSpec == Spec /\ WF_<<server, client>>(OnTimeout) /\ WF_<<server, client>>(Settle)

----------------------------------------------------------------------------
(* Properties.                                                             *)

\* The lines of these kinds are in the order they were said in.
Ordered(messages, kinds) ==
  \A i, j \in DOMAIN messages :
    i < j /\ messages[i].past \in kinds /\ messages[j].past \in kinds =>
      messages[i].at < messages[j].at

\* Where the log is the only history, nothing is held twice or out of order
\* whatever is read, dropped, missed or switched off; and everywhere the lines
\* that came live stay in order, however pages are put around them.
LinesInOrder ==
  /\ ~chathistory => Ordered(channel.messages, BOOLEAN)
  /\ Ordered(channel.messages, {FALSE})

\* The view only waits for something that is coming: a posted reset, or a page
\* whose wait a timeout ends, though timeouts of earlier requests fire meanwhile.
WaitsForSomething ==
  /\ ui.loading => paging.pending \/ ui.resets > 0
  /\ paging.pending => paging.timers > 0

\* The log is given up only when nothing older was ever in it.
ExhaustedTruly ==
  ~chathistory /\ ui.exhausted => \A t \in log.lines : t >= reach

\* A wait for a page comes to an end, even when the server never answers.
LoadingEnds == ui.loading /\ ui.resets = 0 ~> ~ui.loading

\* A page from the server holds lines older than all that is held, "the next
\* batch of older messages" (src/docs/ircv3.md:55).
PagesAreOlder ==
  [][paging.pending /\ ~paging'.pending /\ channel'.messages # channel.messages
     => \A t \in Held(channel.messages) : Oldest(channel'.messages) < t]_vars

\* The view waits for what is coming and gives up what is not.
ScrollInv == TypeOK /\ WaitsForSomething /\ ExhaustedTruly
=============================================================================
