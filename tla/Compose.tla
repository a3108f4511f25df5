------------------------------ MODULE Compose ------------------------------
(***************************************************************************)
(* Writing a message: the main input and a pane's input (src/src/ui/       *)
(* inputbar.cpp, mainwindow.cpp), which share one history, one completion  *)
(* cycle and one emoji popup; the notes others get of the user's typing    *)
(* and the ones shown of theirs (typingcontroller.cpp); and the lines a    *)
(* message is cut into (IrcClient::privmsg, src/src/irc/ircclient.cpp).    *)
(*                                                                         *)
(* A text is a sequence of words on one line, and the cursor stands behind *)
(* one of them.  Formats, the reply bar and the commands are left out, but *)
(* for /query, which changes the buffer of the input it was typed in.      *)
(***************************************************************************)
EXTENDS Integers, Sequences, FiniteSetsExt

CONSTANTS
  Buffers, Server, Nobody, \* the buffers, the one named (server), and none
  First,                   \* the buffer the main view shows at the start
  Typed,                   \* the words the user types
  Query,                   \* the word among them that is the command /query
  Candidates,              \* of a buffer and a prefix: the sorted completions
  Finished,                \* a completion together with its suffix
  Partial, Complete,       \* the emoji for a :code being typed, for a :code:
  Widths,                  \* the widths in bytes of a word's characters
  Room, TagWidth,          \* what a line has room for; the size of a reply tag
  People,                  \* the others, by nick
  HistoryCap,              \* kInputHistoryCap
  MaxSteps, MaxWords       \* bounds: what the user does, words of a text

ASSUME LimitAssumption == {Room, TagWidth, HistoryCap, MaxSteps, MaxWords} \subseteq Nat

\* A line has room for a space, and for any character, behind the tag as well.
ASSUME RoomForACharacter ==
  /\ TagWidth < Room
  /\ \A w \in DOMAIN Widths : Widths[w] \in Seq(1 .. (Room - TagWidth))

Inputs == {"main", "pane"}
Words == DOMAIN Widths

ASSUME WordsAssumption ==
  /\ Typed \cup DOMAIN Partial \cup DOMAIN Complete \cup DOMAIN Finished \subseteq Words
  /\ \A c \in DOMAIN Partial : Partial[c] \in Words
  /\ \A c \in DOMAIN Complete : Complete[c] \in Words
  /\ \A c \in DOMAIN Finished : Finished[c] \in Words
  /\ \A b \in Buffers, w \in Words : Candidates[b][w] \in Seq(DOMAIN Finished)

ASSUME NamesAssumption ==
  First \in Buffers /\ Server \in Buffers /\ Nobody \notin Buffers \cup Inputs \cup Words

VARIABLES
  input,    \* of each input: its buffer, its text, its cursor
  draft,    \* m_inputDrafts
  history,  \* m_inputHistory, newest first
  recall,   \* m_historyIndex, m_historyDraft, m_historyTarget
  tab,      \* m_tabActive, m_tabCandidates, m_tabCandidateIndex, m_tabWordStart
  popup,    \* m_emojiTarget, m_emojiTriggerPos and the popup's entry, while visible
  typing,   \* m_enabled, m_selfTyping and its buffer, m_selfTimer; and what
            \* the network was last told of each buffer, while there is a link
  typers,   \* m_typers
  expiry,   \* m_nickTimers
  steps     \* how many keys and clicks the user has used

field == <<input, draft, popup, typing>>
composeVars == <<field, history, recall, tab, typers, expiry, steps>>

Views == [input |-> input, draft |-> draft, popup |-> popup, typing |-> typing]
NoPopup == [target |-> Nobody, at |-> 0, emoji |-> Nobody]
NoCycle == [active |-> FALSE, cands |-> <<>>, next |-> 0, start |-> 0]
Showing(b) == \E i \in Inputs : input[i].buf = b

(* ------------------------------ typing --------------------------------- *)

Tell(t, b, state) == IF t.link THEN [t EXCEPT !.told[b] = state] ELSE t

\* Leaving one view stops the clock of the typing in another (mutant).
EndSelfTypingAnywhere(t, b) ==
  IF ~t.self \/ b # t.buf THEN [t EXCEPT !.timer = FALSE]
  ELSE [(IF t.on /\ b # Server THEN Tell(t, b, "done") ELSE t)
         EXCEPT !.self = FALSE, !.timer = FALSE]

\* TypingController::endSelfTyping, for noteMessageSent and noteBufferLeft.
EndSelfTyping(t, b) ==
  IF ~t.self \/ b # t.buf THEN t
  ELSE [(IF t.on /\ b # Server THEN Tell(t, b, "done") ELSE t)
         EXCEPT !.self = FALSE, !.timer = FALSE]

\* Typing goes on in another input, and the old buffer is not told (mutant).
InputChangedOnly(t, b, hasText) ==
  IF ~t.on \/ b = Server THEN t
  ELSE IF hasText
       THEN [(IF t.self /\ t.buf = b THEN t ELSE Tell(t, b, "active"))
              EXCEPT !.self = TRUE, !.buf = b, !.timer = TRUE]
       ELSE [(IF t.self /\ t.buf = b THEN Tell(t, b, "done") ELSE t)
              EXCEPT !.self = FALSE, !.timer = FALSE]

\* TypingController::noteInputChanged
InputChanged(t, b, hasText) ==
  LET u == IF t.self /\ b # t.buf THEN EndSelfTyping(t, t.buf) ELSE t
  IN IF ~t.on \/ b = Server THEN t
     ELSE IF hasText
          THEN [(IF u.self THEN u ELSE Tell(u, b, "active"))
                 EXCEPT !.self = TRUE, !.buf = b, !.timer = TRUE]
          ELSE [(IF u.self THEN Tell(u, b, "done") ELSE u)
                 EXCEPT !.self = FALSE, !.timer = FALSE]

(* --------------------------- texts and inputs -------------------------- *)

Text(b, words) == [buf |-> b, words |-> words, pos |-> Len(words)]

\* The text between the cursor and the word start gives way to w; a start
\* behind the end of the text is refused by the cursor, which then stays.
Replaced(in, start, w) ==
  LET from == IF start > Len(in.words) THEN in.pos ELSE start
      low == Min({from, in.pos})
      high == Max({from, in.pos})
  IN [in EXCEPT !.words = SubSeq(@, 1, low) \o <<w>> \o SubSeq(@, high + 1, Len(@)),
                !.pos = low + 1]

Inserted(in, w) == Replaced(in, in.pos, w)

\* checkEmojiAutocomplete(): a finished code becomes its emoji at once, one
\* begun opens the popup.
EmojiChecked(s, i) ==
  LET in == s.input[i]
      last == IF in.pos = 0 THEN Nobody ELSE in.words[in.pos]
  IN IF last \in DOMAIN Complete
     THEN [s EXCEPT !.input[i] = Replaced(in, in.pos - 1, Complete[last]),
                    !.popup = NoPopup]
     ELSE [s EXCEPT !.popup = IF last \in DOMAIN Partial
                              THEN [target |-> i, at |-> in.pos - 1,
                                    emoji |-> Partial[last]] ELSE NoPopup]

TextChanged(s, i) ==
  LET in == s.input[i]
  IN [EmojiChecked(s, i) EXCEPT !.typing = InputChanged(@, in.buf, in.words # <<>>)]

Edited(s, i, in) == TextChanged([s EXCEPT !.input[i] = in], i)

\* setPlainText(), whose signal finds the cursor at the start.
Rewritten(s, i, words) ==
  [s EXCEPT !.input[i] = Text(@.buf, words), !.popup = NoPopup,
            !.typing = InputChanged(@, s.input[i].buf, words # <<>>)]

(* ------------------------------- views --------------------------------- *)

Left(s, i) ==
  LET b == s.input[i].buf
  IN [s EXCEPT !.draft[b] = s.input[i].words, !.typing = EndSelfTyping(@, b)]

Loaded(s, i, b) == [s EXCEPT !.input[i] = Text(b, s.draft[b])]

SwitchTo(s, b) == Loaded(Left(s, "main"), "main", b)

RetargetPane(s, b) ==
  LET old == s.input["pane"].buf
      t == Loaded(Left(s, "pane"), "pane", b)
  IN IF b = s.input["main"].buf THEN SwitchTo(t, old) ELSE t

Become(s) == /\ input' = s.input
             /\ draft' = s.draft
             /\ popup' = s.popup
             /\ typing' = s.typing

Move == steps < MaxSteps /\ steps' = steps + 1

\* A buffer is chosen with the mouse, for the main view or for the pane.
Switch(b) == /\ Move
             /\ ~Showing(b)
             /\ Become(SwitchTo(Views, b))
             /\ UNCHANGED <<history, recall, tab, typers, expiry>>

Retarget(b) == /\ Move
               /\ input["pane"].buf \notin {Nobody, b}
               /\ Become(RetargetPane(Views, b))
               /\ UNCHANGED <<history, recall, tab, typers, expiry>>

OpenPane(b) == /\ Move
               /\ input["pane"].buf = Nobody
               /\ ~Showing(b)
               /\ Become(Loaded(Views, "pane", b))
               /\ UNCHANGED <<history, recall, tab, typers, expiry>>

\* The popup survives the pane it belongs to (mutant).
PaneClosedUnder(s) == [Left(s, "pane") EXCEPT !.input["pane"] = Text(Nobody, <<>>)]

PaneClosed(s) ==
  [Left(s, "pane") EXCEPT !.input["pane"] = Text(Nobody, <<>>),
                          !.popup = IF @.target = "pane" THEN NoPopup ELSE @]

ClosePane == /\ Move
             /\ input["pane"].buf # Nobody
             /\ Become(PaneClosed(Views))
             /\ UNCHANGED <<history, recall, tab, typers, expiry>>

(* -------------------------------- keys --------------------------------- *)

Key(i) == /\ steps < MaxSteps
          /\ input[i].buf # Nobody
          /\ steps' = steps + 1
          /\ UNCHANGED <<typers, expiry>>

Type(i, w) == /\ Key(i)
              /\ Len(input[i].words) < MaxWords
              /\ Become(Edited(Views, i, Inserted(input[i], w)))
              /\ tab' = NoCycle
              /\ UNCHANGED <<history, recall>>

Erase(i) ==
  LET in == input[i]
  IN /\ Key(i)
     /\ in.pos > 0
     /\ Become(Edited(Views, i,
          [in EXCEPT !.words = SubSeq(@, 1, in.pos - 1) \o SubSeq(@, in.pos + 1, Len(@)),
                     !.pos = @ - 1]))
     /\ tab' = NoCycle
     /\ UNCHANGED <<history, recall>>

\* The mouse sets the cursor: no key resets anything.
Click(i, p) == /\ Key(i)
               /\ p # input[i].pos
               /\ input' = [input EXCEPT ![i].pos = p]
               /\ UNCHANGED <<draft, popup, typing, history, recall, tab>>

Commit(s) ==
  LET p == s.popup
  IN Edited([s EXCEPT !.popup = NoPopup], p.target,
            Replaced(s.input[p.target], p.at, p.emoji))

CommitEmoji(i) == /\ Key(i)
                  /\ popup.target = i
                  /\ Become(Commit(Views))
                  /\ UNCHANGED <<history, recall, tab>>

HideEmoji(i) == /\ Key(i)
                /\ popup.target = i
                /\ popup' = NoPopup
                /\ UNCHANGED <<input, draft, typing, history, recall, tab>>

\* A cycle begins at the word before the cursor, if there is one.
Cycle(in) ==
  IF tab.active THEN tab
  ELSE IF in.pos = 0 \/ in.words[in.pos] \in {Finished[c] : c \in DOMAIN Finished}
       THEN NoCycle
       ELSE [active |-> TRUE, cands |-> Candidates[in.buf][in.words[in.pos]],
             next |-> 0, start |-> in.pos - 1]

Following(index, n) == (index + 1) % n

\* next is the next candidate forward; backward rewinds by two.
Candidate(cycle, backward) ==
  LET n == Len(cycle.cands)
  IN IF ~backward THEN cycle.next
     ELSE IF ~tab.active THEN n - 1 ELSE (cycle.next - 2 + n) % n

TabComplete(i, backward) ==
  LET in == input[i]
      cycle == Cycle(in)
      index == Candidate(cycle, backward)
      word == cycle.cands[index + 1]
  IN /\ Key(i)
     /\ popup.target # i
     /\ IF ~cycle.active \/ cycle.cands = <<>>
        THEN tab' = cycle /\ UNCHANGED field
        ELSE /\ Become(Edited(Views, i, Replaced(in, cycle.start,
                  IF in.pos = Len(in.words) THEN Finished[word] ELSE word)))
             /\ tab' = [cycle EXCEPT !.next = Following(index, Len(cycle.cands))]
     /\ UNCHANGED <<history, recall>>

\* noteHistoryTarget()
Target(i) == IF recall.target = i THEN recall
             ELSE [index |-> -1, draft |-> <<>>, target |-> i]

\* The main input ends the cycle before it asks the history, a pane after.
TabAfterHistory(i) == IF i = "main" THEN NoCycle ELSE tab

Step(r, words) ==
  [r EXCEPT !.draft = IF r.index = -1 THEN words ELSE @,
            !.index = Min({@ + 1, Len(history) - 1})]

HistoryUp(i) ==
  LET up == Step(Target(i), input[i].words)
  IN /\ Key(i)
     /\ popup.target \notin {i} \cup (IF i = "main" THEN Inputs ELSE {})
     /\ tab' = TabAfterHistory(i)
     /\ IF history = <<>> THEN UNCHANGED <<field, recall>>
        ELSE /\ recall' = up
             /\ Become(Rewritten(Views, i, history[up.index + 1]))
     /\ UNCHANGED history

HistoryDown(i) ==
  LET r == Target(i)
  IN /\ Key(i)
     /\ popup.target \notin {i} \cup (IF i = "main" THEN Inputs ELSE {})
     /\ tab' = TabAfterHistory(i)
     /\ recall' = [r EXCEPT !.index = Max({@ - 1, -1})]
     /\ IF r.index = -1 THEN UNCHANGED field
        ELSE Become(Rewritten(Views, i, IF r.index = 0 THEN r.draft ELSE history[r.index]))
     /\ UNCHANGED history

\* pushInputHistory()
Pushed(words) ==
  IF history # <<>> /\ Head(history) = words THEN history
  ELSE SubSeq(<<words>> \o history, 1, Min({HistoryCap, Len(history) + 1}))

\* Sending takes the text away first; /query then shows another buffer b
\* where it was typed, so that the input's text is stored under its own.
Submit(i, b) ==
  LET in == input[i]
      cleared == Rewritten(Views, i, <<>>)
      sent == [cleared EXCEPT !.typing = EndSelfTyping(@, in.buf)]
  IN /\ Key(i)
     /\ popup.target # i
     /\ in.words # <<>>
     /\ history' = Pushed(in.words)
     /\ recall' = [Target(i) EXCEPT !.index = -1]
     /\ tab' = NoCycle
     /\ IF Head(in.words) # Query THEN b = in.buf /\ Become(sent)
        ELSE /\ ~Showing(b)
             /\ Become(IF i = "main" THEN SwitchTo(sent, b) ELSE RetargetPane(sent, b))

(* --------------------- timers, the link and the others ----------------- *)

\* The user made a pause: m_selfTimer fires.
Pause == /\ typing.timer
         /\ typing' = IF typing.on /\ typing.self
                      THEN [Tell(typing, typing.buf, "paused")
                             EXCEPT !.self = FALSE, !.timer = FALSE]
                      ELSE [typing EXCEPT !.timer = FALSE]
         /\ UNCHANGED <<input, draft, popup, history, recall, tab, typers, expiry, steps>>

SetEnabled(on) ==
  /\ on # typing.on
  /\ typing' = IF on THEN [typing EXCEPT !.on = TRUE]
               ELSE [typing EXCEPT !.on = FALSE, !.self = FALSE, !.timer = FALSE]
  /\ typers' = IF on THEN typers ELSE {}
  /\ expiry' = IF on THEN expiry ELSE {}
  /\ UNCHANGED <<input, draft, popup, history, recall, tab, steps>>

\* The link is lost: the network forgets us, and forgetHost() everyone.
LinkLost == /\ typing.link
            /\ typing' = [typing EXCEPT !.link = FALSE, !.told = [b \in Buffers |-> "none"]]
            /\ typers' = {}
            /\ expiry' = {}
            /\ UNCHANGED <<input, draft, popup, history, recall, tab, steps>>

LinkBack == /\ ~typing.link
            /\ typing' = [typing EXCEPT !.link = TRUE]
            /\ UNCHANGED <<input, draft, popup, history, recall, tab, typers, expiry, steps>>

\* A note of someone who already has a timer leaves it alone (mutant).
TypingReceivedUntimed(b, p, state) ==
  /\ typing.link
  /\ typing.on
  /\ typers' = IF state = "done" THEN typers \ {<<b, p>>} ELSE typers \cup {<<b, p>>}
  /\ expiry' = expiry \ {<<b, p>>}
  /\ UNCHANGED <<field, history, recall, tab, steps>>

TypingReceived(b, p, state) ==
  /\ typing.link
  /\ typing.on
  /\ IF state = "done"
     THEN /\ typers' = typers \ {<<b, p>>}
          /\ expiry' = expiry \ {<<b, p>>}
     ELSE /\ typers' = typers \cup {<<b, p>>}
          /\ expiry' = expiry \cup {<<b, p>>}
  /\ UNCHANGED <<field, history, recall, tab, steps>>

\* Six seconds without a further note, or the nick leaves the channel.
TyperGone(b, p) == /\ <<b, p>> \in expiry
                   /\ typers' = typers \ {<<b, p>>}
                   /\ expiry' = expiry \ {<<b, p>>}
                   /\ UNCHANGED <<field, history, recall, tab, steps>>

(* ------------------------------ the system ----------------------------- *)

ComposeInit ==
  /\ input = [main |-> Text(First, <<>>), pane |-> Text(Nobody, <<>>)]
  /\ draft = [b \in Buffers |-> <<>>]
  /\ history = <<>>
  /\ recall = [index |-> -1, draft |-> <<>>, target |-> Nobody]
  /\ tab = NoCycle
  /\ popup = NoPopup
  /\ typing = [on |-> TRUE, self |-> FALSE, buf |-> Nobody, timer |-> FALSE,
               link |-> TRUE, told |-> [b \in Buffers |-> "none"]]
  /\ typers = {}
  /\ expiry = {}
  /\ steps = 0

Keys(i) == \/ \E w \in Typed : Type(i, w)
           \/ Erase(i)
           \/ \E p \in 0 .. Len(input[i].words) : Click(i, p)
           \/ CommitEmoji(i)
           \/ HideEmoji(i)
           \/ \E backward \in BOOLEAN : TabComplete(i, backward)
           \/ HistoryUp(i)
           \/ HistoryDown(i)
           \/ \E b \in Buffers : Submit(i, b)

ComposeNext ==
  \/ \E i \in Inputs : Keys(i)
  \/ \E b \in Buffers : Switch(b)
  \/ \E b \in Buffers : Retarget(b)
  \/ \E b \in Buffers : OpenPane(b)
  \/ ClosePane
  \/ Pause
  \/ \E on \in BOOLEAN : SetEnabled(on)
  \/ LinkLost
  \/ LinkBack
  \/ \E b \in Buffers \ {Server}, p \in People, state \in {"active", "done"} :
       TypingReceived(b, p, state)
  \/ \E b \in Buffers, p \in People : TyperGone(b, p)

\* Timers fire.
ComposeSpec ==
  /\ ComposeInit
  /\ [][ComposeNext]_composeVars
  /\ WF_composeVars(Pause)
  /\ \A b \in Buffers, p \in People : WF_composeVars(TyperGone(b, p))

(* ----------------------------- the wire -------------------------------- *)

\* The characters of the first n words, by their widths, spaces between them.
Chars(words) ==
  LET c[n \in 0 .. Len(words)] ==
        IF n = 0 THEN <<>>
        ELSE (IF n = 1 THEN <<>> ELSE c[n - 1] \o <<1>>) \o Widths[words[n]]
  IN c[Len(words)]

Size(chars) ==
  LET s[n \in 0 .. Len(chars)] == IF n = 0 THEN 0 ELSE s[n - 1] + chars[n]
  IN s[Len(chars)]

\* Where one character ends and the next begins.
Edges(chars) == {Size(SubSeq(chars, 1, n)) : n \in 0 .. Len(chars)}

\* The room of the line that starts at an offset: the first carries the tag.
RoomAt(offset, tag) == IF offset = 0 THEN Room - tag ELSE Room

\* A line is filled to its last byte (mutant).
ChunkEndFilled(chars, offset, tag) == Min({offset + RoomAt(offset, tag), Size(chars)})

\* As much as there is room for, backed off to a whole character.
ChunkEnd(chars, offset, tag) ==
  Max({e \in Edges(chars) : e <= offset + RoomAt(offset, tag)})

\* The offsets at which privmsg() cuts, and stops.
Cuts(chars, tag) ==
  LET size == Size(chars)
      cut[offset \in 0 .. size] ==
        LET end == ChunkEnd(chars, offset, tag)
        IN IF offset = size \/ end <= offset THEN <<>> ELSE <<end>> \o cut[end]
  IN cut[0]

\* updateLengthIndicator(): whether it says that there will be several.
SaysSeveral(chars, tag) == Size(chars) > Room - tag

(* ---------------------------- properties ------------------------------- *)

ComposeTypeOK ==
  /\ \A i \in Inputs : /\ input[i].buf \in Buffers \cup {Nobody}
                       /\ input[i].words \in Seq(Words)
                       /\ input[i].pos \in 0 .. Len(input[i].words)
  /\ input["main"].buf # input["pane"].buf
  /\ \A b \in Buffers : draft[b] \in Seq(Words)
  /\ Len(history) <= HistoryCap
  /\ recall.index \in -1 .. Len(history) - 1
  /\ tab.next \in 0 .. Max({Len(tab.cands) - 1, 0})
  /\ popup.target # Nobody => input[popup.target].buf # Nobody
  /\ typing.self => typing.on /\ typing.buf \in Buffers \ {Server}
  /\ typers \subseteq Buffers \X People
  /\ expiry \subseteq Buffers \X People

\* No buffer is left with the note that the user is typing there: whatever
\* ends the typing in a buffer, sending, erasing, switching, trading or
\* closing views or typing elsewhere, tells the buffer so, over a link and
\* with the notes turned on.
InFlight(t, b) == t.self /\ t.buf = b

NothingDangles ==
  [][\A b \in Buffers :
       InFlight(typing, b) /\ ~InFlight(typing', b) /\ typing'.on
         => typing'.told[b] # "active"]_composeVars

\* The user's own typing ends: the pause after it is always timed.
TypingEnds == typing.self ~> ~typing.self

\* Whoever is shown as typing is not shown so for ever.
TypersLeave == \A b \in Buffers, p \in People :
                 (<<b, p>> \in typers) ~> (<<b, p>> \notin typers)

\* What is in an input goes out whole: in lines that fit, cut between
\* characters, with or without a reply; and the indicator tells beforehand
\* whether there will be several.
GoesOutWhole ==
  \A i \in Inputs, tag \in {0, TagWidth} :
    LET chars == Chars(input[i].words)
        cuts == Cuts(chars, tag)
        start(n) == IF n = 1 THEN 0 ELSE cuts[n - 1]
    IN chars # <<>> =>
         /\ cuts[Len(cuts)] = Size(chars)
         /\ \A n \in DOMAIN cuts : /\ cuts[n] \in Edges(chars)
                                   /\ cuts[n] - start(n) <= RoomAt(start(n), tag)
         /\ SaysSeveral(chars, tag) <=> Len(cuts) > 1

\* Inputs, drafts, history, completion and the popup fit each other, and what is
\* in an input goes out whole.
InputInv == ComposeTypeOK /\ GoesOutWhole

\* No note of someone typing stays for ever, the user's or another's.
NotesEnd == TypingEnds /\ TypersLeave
=============================================================================
