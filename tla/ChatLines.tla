----------------------------- MODULE ChatLines -----------------------------
(***************************************************************************)
(* What the messages of a buffer look like (src/src/ui/chatrenderer.cpp and*)
(* renderMessageRange of chatupdates.cpp): one line for each text, one for *)
(* each run of joins, parts and kicks of a day, which a click opens, a row *)
(* of reactions under its message and a card under a message with a link.  *)
(* A message is known by its position, which stands for its msgid and for  *)
(* its time.  Colours, fonts, wording and the sections of a group are left  *)
(* out.                                                                    *)
(***************************************************************************)
EXTENDS ChatView

CONSTANTS
  Self,      \* the user's own nick
  LinksSaid, \* the addresses that texts hold
  Midnight   \* the positions whose message is the first of a day

NoLink == "none"

\* A message: who said, or did, what.
TextMessage(who, link) == [kind |-> "text", who |-> who, link |-> link]
Event(kind, who) == [kind |-> kind, who |-> who, link |-> NoLink]

DayOf(i) == Cardinality({m \in Midnight : m =< i})

\* isCondensable: the user's own comings and goings keep a line of their own.
Condensable(m) == m.kind \in {"join", "part", "nick", "kick"} /\ m.who # Self

\* The events around position i that form one group with it, between two others.
RunAround(messages, i, from, to) ==
  {j \in from..to :
     \A k \in (IF i < j THEN i..j ELSE j..i) :
       Condensable(messages[k]) /\ DayOf(k) = DayOf(i)}

----------------------------------------------------------------------------
(* Lines.                                                                  *)

MsgId(i) == <<"msgid", i>>
RowId(i) == <<"rx", i>>
GroupId(i) == <<"evgrp", i>>
CardId(link) == <<"preview", link>>
OlderId == <<"status:older">>

\* formatMessageLine. Events outside a group have no msgid to be found by.
MessageLine(messages, redacted, i) ==
  LET text == messages[i].kind = "text"
  IN  ChatLine(IF text THEN MsgId(i) ELSE NoId, {i}, 1, text /\ i \notin redacted)

\* formatEventGroupLine: known by its first event, one row of it or one for each.
GroupLine(run, expanded) ==
  ChatLine(GroupId(Min(run)), run,
           IF Min(run) \in expanded THEN Cardinality(run) ELSE 1, FALSE)

RowLine(i) == ChatLine(RowId(i), {}, 1, FALSE)
CardLine(link) == ChatLine(CardId(link), {}, 2, FALSE)
OlderLines(start) ==
  IF start > 0 THEN <<ChatLine(OlderId, {}, 1, FALSE)>> ELSE <<>>

----------------------------------------------------------------------------
(* What a buffer holds besides: the positions with reactions and the       *)
(* redacted ones, the cards of its links, and which of these are hidden.   *)

NewBuffer == [messages |-> <<>>, reactions |-> {}, redacted |-> {},
              cards |-> {}, hidden |-> {}]

\* A text's reactions and cards, under it.
Below(b, i, withCards) ==
  LET link == b.messages[i].link
  IN  (IF i \in b.reactions THEN <<RowLine(i)>> ELSE <<>>)
      \o (IF withCards /\ link \in b.cards \ b.hidden THEN <<CardLine(link)>> ELSE <<>>)

\* renderMessageRange: of the messages after the first `from`, up to `to`.
RenderRange(b, expanded, from, to, withCards) ==
  LET upTo[i \in from..to] ==
        IF i = from THEN <<>>
        ELSE LET m   == b.messages[i]
                 run == RunAround(b.messages, i, from + 1, to)
             IN  IF ~Condensable(m)
                   THEN upTo[i - 1] \o <<MessageLine(b.messages, b.redacted, i)>>
                                    \o Below(b, i, withCards)
                   ELSE IF i = Min(run)
                          THEN Append(upTo[i - 1], GroupLine(run, expanded))
                          ELSE upTo[i - 1]
  IN  upTo[to]

----------------------------------------------------------------------------
(* Updates of a view, and the bugs they might have.                        *)

\* appendToView, appendMessage: an event goes to the group it prolongs.
ShowMessage(v, b, expanded) ==
  LET n    == Len(b.messages)
      run  == RunAround(b.messages, n, 1, n)
      id   == GroupId(Min(run))
      line == GroupLine(run, expanded)
  IN  KeepBottom(
        IF ~Condensable(b.messages[n])
          THEN AppendLine(v, MessageLine(b.messages, b.redacted, n))
          ELSE IF FindLine(v, id) # NoLine
                 THEN ReplaceLine(v, id, line)
                 ELSE AppendLine(v, line))

\* Mutant: the row of a message that has one already is put in again.
ShowReactionsAgain(v, b, i) ==
  IF FindLine(v, MsgId(i)) = NoLine THEN v ELSE InsertAfter(v, MsgId(i), RowLine(i))

\* onReactionsChanged
ShowReactions(v, b, i) ==
  IF FindLine(v, MsgId(i)) = NoLine THEN v
  ELSE IF i \notin b.reactions THEN RemoveLine(v, RowId(i))
  ELSE IF FindLine(v, RowId(i)) # NoLine THEN ReplaceLine(v, RowId(i), RowLine(i))
  ELSE InsertAfter(v, MsgId(i), RowLine(i))

\* onMessageRedacted
ShowRedacted(v, b, i) ==
  ReplaceLine(v, MsgId(i), MessageLine(b.messages, b.redacted, i))

\* The card of a link goes under the message it was fetched for.
ShowCard(v, link, i) ==
  LET shown == InsertAfter(v, MsgId(i), CardLine(link))
  IN  IF IsAtBottom(v) THEN ScrollToBottom(shown) ELSE shown

\* toggleEventGroupInView, of the group that begins with event i: all of its run
\* from there on.
ShowToggled(v, b, expanded, i) ==
  LET n     == Len(b.messages)
      line  == GroupLine(RunAround(b.messages, i, i, n), expanded)
      shown == ReplaceLine(v, GroupId(i), line)
  IN  IF IsAtBottom(v) THEN ScrollToBottom(shown) ELSE shown
=============================================================================
