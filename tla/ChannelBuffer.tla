--------------------------- MODULE ChannelBuffer ---------------------------
(***************************************************************************)
(* The lines one buffer holds: struct Channel (src/src/model/channel.h).   *)
(*                                                                         *)
(* A line is known by the time it was said, which stands for its timestamp *)
(* and for its msgid; past is isHistory.  firstUnread counts from 1, and 0 *)
(* is the code's -1.  A channel record also carries what SessionModel      *)
(* keeps in it; the operators here leave those fields alone.               *)
(***************************************************************************)
EXTENDS Integers, Sequences

CONSTANTS
  Cap,   \* kMessageBufferCap (500)
  Page   \* the most lines a history request or a log read brings (100)

ASSUME CapAssumption == Cap \in Nat \ {0}
ASSUME PageAssumption == Page \in Nat \ {0}

Greatest(a, b) == IF a >= b THEN a ELSE b

\* The times of the lines held, with the msgids they stand for.
Held(messages) == {messages[i].at : i \in DOMAIN messages}

\* How many of these lines are too many.
Over(all) == Greatest(0, Len(all) - Cap)

\* What is kept when the oldest make room, and when the newest do.
LastOf(all) == SubSeq(all, Over(all) + 1, Len(all))
FirstOf(all) == SubSeq(all, 1, Len(all) - Over(all))

\* Mutant: firstUnread is left where it is when lines are dropped.
AddMessagesUnshifted(c, page) ==
  LET all == c.messages \o page
  IN  [c EXCEPT !.messages = LastOf(all),
                !.reactions = @ \ {all[i].at : i \in 1..Over(all)}]

\* Mutant: reactions stay when their line is dropped.
AddMessagesKeepingReactions(c, page) ==
  LET all == c.messages \o page
  IN  [c EXCEPT !.messages = LastOf(all),
                !.firstUnread = IF @ > 1 THEN Greatest(1, @ - Over(all)) ELSE @]

\* Mutant: nothing makes room.
AddMessagesUncapped(c, page) == [c EXCEPT !.messages = @ \o page]

(***************************************************************************)
(* addMessage, once for each line of page: the oldest lines make room, and *)
(* firstUnread stays on its line until that line is dropped.               *)
(***************************************************************************)
AddMessages(c, page) ==
  LET all == c.messages \o page
  IN  [c EXCEPT !.messages = LastOf(all),
                !.reactions = @ \ {all[i].at : i \in 1..Over(all)},
                !.firstUnread = IF @ > 1 THEN Greatest(1, @ - Over(all)) ELSE @]

AddMessage(c, line) == AddMessages(c, <<line>>)

(***************************************************************************)
(* prependMessages: the newest lines make room.  firstUnread moves with    *)
(* its line, and is given up when that line is dropped.                    *)
(***************************************************************************)
PrependMessages(c, page) ==
  LET all   == page \o c.messages
      kept  == FirstOf(all)
      first == c.firstUnread + Len(page)
  IN  [c EXCEPT !.messages = kept,
                !.reactions = @ \ {all[i].at : i \in Len(kept) + 1 .. Len(all)},
                !.firstUnread = IF @ = 0 \/ first > Len(kept) THEN 0 ELSE first]

----------------------------------------------------------------------------
(***************************************************************************)
(* What a server's CHATHISTORY, or LogReader over the log file, returns of *)
(* the lines in S: the newest of them, oldest first, Page at most.         *)
(***************************************************************************)
IsNewest(page, S) ==
  /\ \A i, j \in DOMAIN page : i < j => page[i] < page[j]
  /\ \A t \in S : \/ \E i \in DOMAIN page : page[i] = t
                  \/ Len(page) = Page /\ t < page[1]

Newest(S) == {page \in UNION {[1..n -> S] : n \in 0..Page} : IsNewest(page, S)}

\* The lines of a page, marked as history.
AsHistory(page) == [i \in DOMAIN page |-> [at |-> page[i], past |-> TRUE]]
=============================================================================
