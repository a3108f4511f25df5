----------------------------- MODULE ChatWindow -----------------------------
(***************************************************************************)
(* A buffer in the main view: MainWindow (src/src/ui/chatupdates.cpp) draws*)
(* the last messages of it when the user switches to it, more of them as   *)
(* the user scrolls up, and keeps what is drawn up to date as messages,    *)
(* reactions, deletions and the cards of links come in.  ChatView is the   *)
(* view, ChatLines what is drawn in it; where the cards come from is       *)
(* Previews, and here a card that is asked for comes some time, or never.  *)
(*                                                                         *)
(* One buffer, all of it in memory: the pages of the server and of the log *)
(* are Scrollback's, and so is the cap on the messages held.  While another*)
(* buffer is on screen nothing is drawn of this one.                       *)
(***************************************************************************)
EXTENDS ChatLines

CONSTANTS
  Window,       \* kRenderWindow (150), messages drawn on switching
  Chunk,        \* kRenderChunk (50), messages drawn at a time after that
  Said,         \* the messages that come
  MaxMessages,  \* bound: messages that come
  MaxActs,      \* bound: messages that come and acts of the user
  MaxPosted     \* bound: callbacks posted and not run

ASSUME WindowAssumption ==
  {Window, Chunk, MaxMessages, MaxActs, MaxPosted} \subseteq Nat \ {0}

VARIABLES
  buffer,  \* the Channel: messages, reactions, redacted, cards, hidden
  view,    \* m_chatView
  win,     \* MainWindow: the buffer is active, m_renderStart, m_loadingOlder,
           \* the callbacks posted, the saved scroll position, the groups open
  awaited, \* m_targets: the message that waits for the card of a link, or 0
  acts     \* what came and what the user did, for the bound

windowVars == <<buffer, view, win, awaited, acts>>

Messages == Len(buffer.messages)
NotDrawn == -1   \* m_renderStart has no entry
NoPlace == 0     \* m_scrollPositions has no entry

WindowInit ==
  /\ buffer = NewBuffer
  /\ \E page \in Pages : view = EmptyView("wide", page)
  /\ win = [active |-> FALSE, start |-> NotDrawn, loading |-> FALSE,
            posted |-> <<>>, saved |-> NoPlace, expanded |-> {}]
  /\ awaited = [u \in LinksSaid |-> 0]
  /\ acts = 0

----------------------------------------------------------------------------
(* A screen is a view with what MainWindow keeps of it.                    *)

Screen == [view |-> view, win |-> win]
Post(w, callback) == [w EXCEPT !.posted = Append(@, callback)]

\* Mutant: the place of the chunk is not given up when it is drawn.
LoadOlderAgain(s, b) ==
  LET start == Max({0, s.win.start - Chunk})
      older == OlderLines(start) \o RenderRange(b, s.win.expanded, start, s.win.start, FALSE)
      drawn == PrependLines(RemoveLine(s.view, OlderId), older)
  IN  IF s.win.loading \/ s.win.start =< 0 THEN s
      ELSE [view |-> drawn,
            win  |-> Post([s.win EXCEPT !.loading = TRUE], "more")]

\* Mutant: the check for a view that is not full is not posted.
LoadOlderOnce(s, b) ==
  LET start == Max({0, s.win.start - Chunk})
      older == OlderLines(start) \o RenderRange(b, s.win.expanded, start, s.win.start, FALSE)
      drawn == PrependLines(RemoveLine(s.view, OlderId), older)
  IN  IF s.win.loading \/ s.win.start =< 0 THEN s
      ELSE [view |-> drawn, win  |-> [s.win EXCEPT !.start = start]]

\* loadOlderMessages, of what is held: cards are not drawn again.
LoadOlder(s, b) ==
  LET start == Max({0, s.win.start - Chunk})
      older == OlderLines(start) \o RenderRange(b, s.win.expanded, start, s.win.start, FALSE)
      drawn == PrependLines(RemoveLine(s.view, OlderId), older)
  IN  IF s.win.loading \/ s.win.start =< 0 THEN s
      ELSE [view |-> drawn,
            win  |-> Post([s.win EXCEPT !.start = start, !.loading = TRUE], "more")]

\* What loadOlderRequested does, if the view asked on the way.
Answered(s, b) ==
  LET heard == [s EXCEPT !.view.asks = FALSE]
      done  == IF s.view.asks THEN LoadOlder(heard, b) ELSE heard
  IN  [done EXCEPT !.view.asks = FALSE]

Shows(s, b) ==
  LET done == Answered(s, b)
  IN  /\ Len(done.win.posted) =< MaxPosted
      /\ view' = done.view /\ win' = done.win

ViewBecomes(v, b) == Shows([view |-> v, win |-> win], b)

\* refreshChatView
Refreshed(s, b, reset) ==
  LET total == Len(b.messages)
      start == IF reset \/ s.win.start = NotDrawn THEN Max({0, total - Window})
                                                  ELSE s.win.start
      lines == OlderLines(start) \o RenderRange(b, s.win.expanded, start, total, TRUE)
      drawn == [s.win EXCEPT !.start = start]
  IN  [view |-> AppendLines(Clear(s.view), lines),
       win  |-> IF reset THEN Post(drawn, "reset") ELSE drawn]

----------------------------------------------------------------------------
(* Messages.                                                               *)

Acts == acts < MaxActs /\ acts' = acts + 1

\* A card that is there, and that the user has not hidden.
Carded(b, u) == u \in b.cards \ b.hidden

\* appendMessage and appendPreviewCards: the card of the message just drawn comes
\* under it if there is one, or is asked for if that has not been done yet.
WithCard(v, b, u) == IF Carded(b, u) THEN KeepBottom(AppendLine(v, CardLine(u))) ELSE v

AskedFor(b, link, i) ==
  [u \in LinksSaid |-> IF u = link /\ ~Carded(b, u) /\ awaited[u] = 0 THEN i ELSE awaited[u]]

\* onMessageAdded
Receive(m) ==
  /\ Acts
  /\ Messages < MaxMessages
  /\ buffer' = [buffer EXCEPT !.messages = Append(@, m)]
  /\ IF ~win.active THEN UNCHANGED <<view, win, awaited>>
     ELSE /\ ViewBecomes(WithCard(ShowMessage(view, buffer', win.expanded), buffer, m.link), buffer')
          /\ awaited' = AskedFor(buffer, m.link, Messages')

\* cardStored: the buffer on screen shows the card.
CardStored(u) ==
  /\ awaited[u] # 0
  /\ buffer' = [buffer EXCEPT !.cards = @ \cup {u}]
  /\ ViewBecomes(IF win.active THEN ShowCard(view, u, awaited[u]) ELSE view, buffer')
  /\ awaited' = [awaited EXCEPT ![u] = 0]
  /\ UNCHANGED acts

\* No card comes.
CardGivenUp(u) ==
  /\ awaited[u] # 0
  /\ awaited' = [awaited EXCEPT ![u] = 0]
  /\ UNCHANGED <<buffer, view, win, acts>>

\* onReactReceived: reactions are not taken back, so this fills the row or starts it.
React(i) ==
  /\ Acts
  /\ buffer.messages[i].kind = "text"
  /\ buffer' = [buffer EXCEPT !.reactions = @ \cup {i}]
  /\ ViewBecomes(IF win.active THEN ShowReactions(view, buffer', i) ELSE view, buffer')
  /\ UNCHANGED awaited

Redact(i) ==
  /\ Acts
  /\ buffer.messages[i].kind = "text" /\ i \notin buffer.redacted
  /\ buffer' = [buffer EXCEPT !.redacted = @ \cup {i}]
  /\ ViewBecomes(IF win.active THEN ShowRedacted(view, buffer', i) ELSE view, buffer')
  /\ UNCHANGED awaited

----------------------------------------------------------------------------
(* The user.                                                               *)

InView == Acts /\ win.active /\ UNCHANGED <<buffer, awaited>>

\* switchToChannel, to this buffer.
SwitchHere ==
  /\ Acts /\ ~win.active
  /\ Shows(Refreshed([Screen EXCEPT !.win.active = TRUE], buffer, TRUE), buffer)
  /\ UNCHANGED <<buffer, awaited>>

\* switchToChannel, to another: the place in this one is kept, if not its end.
SwitchAway ==
  /\ InView
  /\ Shows([view |-> Clear(view),
            win  |-> [win EXCEPT !.active = FALSE,
                        !.saved = IF IsAtBottom(view) THEN NoPlace ELSE view.value]], buffer)

\* A theme, a font or a time format is changed: the lines are made anew.
Restyle == InView /\ Shows(Refreshed(Screen, buffer, FALSE), buffer)

\* Hide Preview and Show Preview, on a link of a message.
HideOrShow(u) ==
  /\ Acts /\ win.active /\ u \in buffer.cards
  /\ buffer' = [buffer EXCEPT !.hidden = IF u \in @ THEN @ \ {u} ELSE @ \cup {u}]
  /\ Shows(Refreshed(Screen, buffer', TRUE), buffer')
  /\ UNCHANGED awaited

\* A click on the arrow of a group.
Toggle(k) ==
  /\ InView
  /\ view.lines[k].id[1] = "evgrp"
  /\ LET i == view.lines[k].id[2]
         e == IF i \in win.expanded THEN win.expanded \ {i} ELSE win.expanded \cup {i}
     IN  Shows([view |-> ShowToggled(view, buffer, e, i),
                win  |-> [win EXCEPT !.expanded = e]], buffer)

Scroll(rows) == InView /\ ViewBecomes(Wheel(view, rows), buffer)

\* The scroll bar is dragged, or moved by keys.
Drag(value) ==
  /\ InView /\ value \in 0..view.max
  /\ ViewBecomes(SetValue(view, value), buffer)

\* A finger takes hold of the lines.
Touch ==
  /\ InView /\ ~view.away
  /\ ViewBecomes(AwayFromBottom([view EXCEPT !.away = TRUE, !.atEnd = FALSE], TRUE), buffer)

\* The button that goes with a view that has left its end.
JumpToBottom == InView /\ view.button /\ ViewBecomes(ScrollToBottom(view), buffer)

ResizeTo(width, page) ==
  /\ InView /\ <<width, page>> # <<view.width, view.page>>
  /\ ViewBecomes(Resize(view, width, page), buffer)

\* Each text holds what is looked for.
Find(backward) ==
  /\ InView /\ view.lines # <<>>
  /\ LET texts == {k \in DOMAIN view.lines : view.lines[k].id[1] = "msgid"}
     IN  ViewBecomes(FindText(view, texts, backward), buffer)

CloseSearch == InView /\ view.found # NoLine /\ ViewBecomes(ClearFind(view), buffer)

\* The chunks of memory down to message i.
Reached(s, b, i) ==
  LET upTo[n \in 0..i] ==
        IF n = 0 \/ s.win.start < i THEN s
        ELSE LET t == upTo[n - 1]
             IN  IF t.win.start < i THEN t ELSE LoadOlder([t EXCEPT !.win.loading = FALSE], b)
  IN  [upTo[i] EXCEPT !.win.loading = FALSE]

\* The line of a message, or of one close to it, later ones first.
NearestLine(v, i, last) ==
  LET line(j) == Max({FindLine(v, MsgId(j)), FindLine(v, GroupId(j))})
      drawn   == {j \in 1..last : line(j) # NoLine}
      off(j)  == IF j >= i THEN 2 * (j - i) ELSE 2 * (i - j) + 1
  IN  IF drawn = {} THEN 1
      ELSE line(CHOOSE j \in drawn : \A h \in drawn : off(j) =< off(h))

\* startHistoryJump and continueHistoryJump: message i is drawn, and marked.  The mark
\* is cleared after 2.5 s by CloseSearch.
JumpTo(s, i) ==
  LET t == Reached(s, buffer, i)
  IN  [t EXCEPT !.view = SetFind(@, NearestLine(@, i, Messages))]

\* openLogSearch: a message found in the log of this buffer is jumped to, once the
\* buffer is on screen; that does not wait for what showing it has posted.
JumpInBuffer(i) ==
  /\ Acts
  /\ LET shown == IF win.active THEN Screen
                  ELSE Refreshed([Screen EXCEPT !.win.active = TRUE], buffer, TRUE)
     IN  Shows(JumpTo(Answered(shown, buffer), i), buffer)
  /\ UNCHANGED <<buffer, awaited>>

----------------------------------------------------------------------------
(* Timers.                                                                 *)

\* A view that is still not full is given more, for as long as there is more.
MoreIfEmpty(s) == IF s.win.active /\ s.view.max = 0 THEN LoadOlder(s, buffer) ELSE s

\* The callback posted by refreshChatView, whose buffer may be gone from view.
AfterReset(s) ==
  LET there == IF s.win.saved # NoPlace THEN SetValue(s.view, s.win.saved)
                                        ELSE ScrollToBottom(s.view)
      taken == [s.win EXCEPT !.saved = NoPlace]
  IN  IF s.win.active
        THEN [view |-> there, win |-> taken]
        ELSE [s EXCEPT !.win = taken]

\* The callbacks run in the order they were posted in.
RunPosted ==
  /\ win.posted # <<>>
  /\ LET s == [Screen EXCEPT !.win.posted = Tail(@)]
     IN  IF Head(win.posted) = "reset"
           THEN LET r == Answered(AfterReset(s), buffer)
                IN  Shows(IF win.start > 0 THEN MoreIfEmpty(r) ELSE r, buffer)
           ELSE Shows(MoreIfEmpty([s EXCEPT !.win.loading = FALSE]), buffer)
  /\ UNCHANGED <<buffer, awaited, acts>>

LayOutRest ==
  /\ view.stale
  /\ IF win.active THEN ViewBecomes(RelayoutRest(view), buffer)
                   ELSE view' = [view EXCEPT !.stale = FALSE] /\ UNCHANGED win
  /\ UNCHANGED <<buffer, awaited, acts>>

----------------------------------------------------------------------------
WindowNext ==
  \/ \E m \in Said : Receive(m)
  \/ \E i \in 1..Messages : React(i) \/ Redact(i) \/ JumpInBuffer(i)
  \/ SwitchHere \/ SwitchAway \/ Restyle \/ Touch \/ JumpToBottom \/ CloseSearch
  \/ \E u \in LinksSaid : HideOrShow(u) \/ CardStored(u) \/ CardGivenUp(u)
  \/ \E k \in DOMAIN view.lines : Toggle(k)
  \/ \E rows \in {-1, 1} : Scroll(rows)
  \/ \E value \in 0..view.max : Drag(value)
  \/ \E width \in ViewWidths, page \in Pages : ResizeTo(width, page)
  \/ \E backward \in BOOLEAN : Find(backward)
  \/ RunPosted \/ LayOutRest

WindowSpec == WindowInit /\ [][WindowNext]_windowVars

(***************************************************************************)
(* Posted callbacks run, and the timers that are set fire: weak fairness,  *)
(* with the condition each of the two actions is enabled under.          *)
(***************************************************************************)
LiveWindowSpec ==
  /\ WindowSpec
  /\ []<>(win.posted = <<>>) \/ []<><<RunPosted>>_windowVars
  /\ []<>~view.stale \/ []<><<LayOutRest>>_windowVars

----------------------------------------------------------------------------
(* Properties.                                                             *)

WindowTypeOK ==
  /\ buffer.messages \in Seq(Said) /\ Messages =< MaxMessages
  /\ buffer.reactions \cup buffer.redacted \cup win.expanded \subseteq 1..Messages
  /\ buffer.cards \cup buffer.hidden \subseteq LinksSaid
  /\ ViewOK(view) /\ ~view.asks
  /\ win.active \in BOOLEAN /\ win.loading \in BOOLEAN
  /\ win.start \in NotDrawn..Max({0, MaxMessages - Window})
  /\ Len(win.posted) =< MaxPosted
  /\ awaited \in [LinksSaid -> 0..Messages]
  /\ acts \in 0..MaxActs

Drawn == {k \in DOMAIN view.lines : view.lines[k].shows # {}}

\* The messages from m_renderStart on are all on the screen, each line after those
\* of earlier messages, and no text twice, however messages, chunks of older ones
\* and redraws follow one another.  Only events of one run may trade places: a run
\* that goes back beyond what is drawn is drawn whole as it grows.
LinesInTurn ==
  win.active =>
    /\ win.start + 1 .. Messages \subseteq UNION {view.lines[k].shows : k \in Drawn}
    /\ \A j, k \in Drawn : j < k =>
         \A a \in view.lines[j].shows, b \in view.lines[k].shows :
           a < b \/ b \in RunAround(buffer.messages, a, 1, Messages)

\* Under a message with reactions is their row, once, with nothing but cards in
\* between, and no row without its message.
RowsFollow ==
  win.active =>
    \A k \in DOMAIN view.lines :
      LET id == view.lines[k].id
      IN  /\ id[1] = "msgid" /\ id[2] \in buffer.reactions =>
               Cardinality({j \in DOMAIN view.lines : view.lines[j].id = RowId(id[2])}) = 1
          /\ id[1] = "rx" =>
               \E j \in 1..k-1 : /\ view.lines[j].id = MsgId(id[2])
                                 /\ \A h \in j+1..k-1 : view.lines[h].id[1] = "preview"

\* A view that does not show its end offers the way there.
EndOrButton == view.value = view.max \/ view.button

\* A buffer that is switched to does not stay a view too short to be scrolled while
\* there is more of it to draw.
FillsView ==
  Contains(win.posted, "reset") ~> (win.start =< 0 \/ view.max > 0 \/ ~win.active)

Read(v) == v.lines[LineAt(v, v.value)]
\* Drawing older messages above what is read, or laying the rest of it out for a
\* new width, does not take it away from under the reader's eyes.
ReaderStays ==
  [][(/\ win.active /\ win'.active /\ view.lines # <<>>
      /\ ~view.atEnd /\ ~view'.atEnd /\ view'.value < view'.max) =>
        /\ LayOutRest => Read(view').id = Read(view).id
        /\ (win'.start < win.start /\ view'.found = NoLine /\ view.max > 0) =>
             Read(view').shows = view.lines[Min(Drawn)].shows]_windowVars

\* What is drawn is the buffer's messages, in their turn, with their reactions.
ViewInv == WindowTypeOK /\ LinesInTurn /\ RowsFollow
=============================================================================
