----------------------------- MODULE Membership -----------------------------
(***************************************************************************)
(* One channel of one server, as Uplink is in and out of it: who is in it, *)
(* the buffer SessionModel keeps for it, its row in the sidebar, the user  *)
(* list on screen, and the requests to join that the user made             *)
(* (src/src/model/sessionmodel.cpp, src/src/ui/mainwindow.cpp).            *)
(*                                                                         *)
(* The server's lines come in order on one stream, so its state is taken   *)
(* as of the last line handled; what Uplink sends waits in a queue.  The   *)
(* other buffers are there only as "other", the main view's when it is not *)
(* on this channel.                                                        *)
(***************************************************************************)
EXTENDS NickList

CONSTANTS
  MaxSent,   \* bound: lines of the user waiting to be answered
  MaxList,   \* bound: entries of the list, which may hold a nick twice
  MaxModes   \* bound: modes of a MODE line

ASSUME BoundAssumption == {MaxSent, MaxList, MaxModes} \subseteq Nat

VARIABLES
  config,    \* whether the channel is in the configuration, and whether the
             \* server sends NAMES on a JOIN by itself (no-implicit-names off)
  self,      \* the nick of the user
  link,      \* the connection: whether it is up, and the lines sent on it
  roster,    \* server: the prefixes of who is in the channel; empty when
             \* Uplink is not in it, and so not told
  buffer,    \* the Channel of the session: whether there is one, its nicks
  ui,        \* MainWindow: the row, the view, whether the user list shown is
             \* the buffer's, and whether a refresh of it is scheduled
  note,      \* m_userJoins has the channel
  left,      \* history: Uplink was refused, parted or kicked on this link
  asked,     \* history: the user ever asked to join
  strayed    \* history: since NAMES, a MODE line had a prefix behind a
             \* mode that argModes takes for one with, or without, an argument

vars == <<config, self, link, roster, buffer, ui, note, left, asked, strayed>>

Rosters(S) == UNION {[T -> SUBSET Ranks] : T \in SUBSET S}
Others == Nicks \ {self}
Members == DOMAIN roster
Joined == self \in Members

\* The roster with one more, or with other prefixes of one.
WithNick(r, n, prefixes) ==
  [m \in DOMAIN r \cup {n} |-> IF m = n THEN prefixes ELSE r[m]]

TypeOK ==
  /\ config \in [listed : BOOLEAN, implicit : BOOLEAN]
  /\ self \in Nicks
  /\ link.up \in BOOLEAN /\ link.sent \in Seq({"JOIN", "PART", "NAMES"})
  /\ roster \in Rosters(Nicks) /\ (roster = <<>> \/ Joined)
  /\ buffer.held \in BOOLEAN /\ IsNickList(buffer.list)
  /\ ui.row \in BOOLEAN /\ ui.view \in {"none", "channel", "other"}
  /\ {ui.fresh, ui.due} \subseteq BOOLEAN
  /\ {note, left, asked, strayed} \subseteq BOOLEAN

NoBuffer == [held |-> FALSE, list |-> NoNicks]
Held == [held |-> TRUE, list |-> NoNicks]

(***************************************************************************)
(* attachClient makes the buffer of a configured channel, and its row; the *)
(* first row of all takes the view.                                        *)
(***************************************************************************)
Init ==
  /\ config \in [listed : BOOLEAN, implicit : BOOLEAN]
  /\ self = Min(Nicks)
  /\ link = [up |-> FALSE, sent |-> <<>>]
  /\ roster = <<>>
  /\ buffer = IF config.listed THEN Held ELSE NoBuffer
  /\ \E view \in {IF config.listed THEN "channel" ELSE "none", "other"} :
       ui = [row |-> config.listed, view |-> view, fresh |-> TRUE, due |-> FALSE]
  /\ note = FALSE /\ left = FALSE /\ asked = FALSE /\ strayed = FALSE

----------------------------------------------------------------------------
(* The user list on screen: a snapshot of the buffer's, taken now and then. *)

\* A change of the buffer that the list shown does not take up.
Unshown(u) == [u EXCEPT !.fresh = @ /\ (u.view # "channel" \/ buffer'.list = buffer.list)]

\* updateNickViews, on nickAdded, nickRemoved and nickRenamed.
Updated(u) == [u EXCEPT !.fresh = TRUE]

\* onNickListChanged: the list is shown 50 ms later.
Scheduled(u) == [Unshown(u) EXCEPT !.due = TRUE]

RefreshNicks ==
  /\ ui.due
  /\ ui' = [ui EXCEPT !.due = FALSE, !.fresh = TRUE]
  /\ UNCHANGED <<config, self, link, roster, buffer, note, left, asked, strayed>>

\* The user selects another row.
LookAway ==
  /\ ui.view # "other"
  /\ ui' = [ui EXCEPT !.view = "other", !.fresh = TRUE]
  /\ UNCHANGED <<config, self, link, roster, buffer, note, left, asked, strayed>>

\* The user selects the row.
LookAt ==
  /\ ui.row /\ ui.view # "channel"
  /\ ui' = [ui EXCEPT !.view = "channel", !.fresh = TRUE]
  /\ UNCHANGED <<config, self, link, roster, buffer, note, left, asked, strayed>>

----------------------------------------------------------------------------
(* What the user does.                                                     *)

\* sendRaw: what is sent while the link is down is dropped.
Sent(line) == IF link.up THEN [link EXCEPT !.sent = Append(@, line)] ELSE link

SendJoin ==
  /\ Len(link.sent) < MaxSent
  /\ link' = Sent("JOIN")
  /\ note' = TRUE
  /\ asked' = TRUE
  /\ UNCHANGED <<config, self, roster, buffer, ui, left, strayed>>

SendPart ==
  /\ ui.row /\ Len(link.sent) < MaxSent
  /\ link' = Sent("PART")
  /\ UNCHANGED <<config, self, roster, buffer, ui, note, left, asked, strayed>>

\* Mutant: the row stays when its buffer goes.
CloseBufferOnly ==
  /\ ui.row /\ Len(link.sent) < MaxSent
  /\ link' = Sent("PART")
  /\ buffer' = NoBuffer
  /\ UNCHANGED <<config, self, roster, ui, note, left, asked, strayed>>

\* The buffer and its row go; the sidebar selects the row next to it.
CloseBuffer ==
  /\ ui.row /\ Len(link.sent) < MaxSent
  /\ link' = Sent("PART")
  /\ buffer' = NoBuffer
  /\ ui' = [ui EXCEPT !.row = FALSE,
                      !.view = IF @ = "channel" THEN "other" ELSE @, !.fresh = TRUE]
  /\ UNCHANGED <<config, self, roster, note, left, asked, strayed>>

----------------------------------------------------------------------------
(* The lines about the channel.  postMessage makes the buffer a line is    *)
(* for, and no row.                                                        *)

Posted(list) == [held |-> TRUE, list |-> list]

\* A line comes only when the NAMES the server sends by itself is through.
Listening ==
  /\ link.up
  /\ ~(config.implicit /\ link.sent # <<>> /\ Head(link.sent) = "NAMES")

\* Mutant: a JOIN with no row to show always takes the view.
ChannelAddedLoud ==
  IF ui.row
    THEN UNCHANGED <<ui, note>>
    ELSE /\ note' = FALSE
         /\ ui' = [ui EXCEPT !.row = TRUE, !.view = "channel", !.fresh = TRUE]

\* onChannelAdded, with what nickAdded then shows: a row that is there is left
\* alone, and so is the note that the user asked for it.
ChannelAdded ==
  LET view == IF ui.row \/ (~note /\ ui.view # "none") THEN ui.view ELSE "channel"
  IN  /\ ui' = [ui EXCEPT !.row = TRUE, !.view = view, !.fresh = TRUE]
      /\ note' = (note /\ ui.row)

\* Uplink comes into the channel: who is in it is told by NAMES, which the
\* server sends by itself or is asked for.
OnSelfJoined(rest) ==
  /\ Len(buffer.list.nicks) < MaxList
  /\ \E others \in Rosters(Others), mine \in SUBSET Ranks :
       /\ others = <<>> \/ mine = {}
       /\ roster' = WithNick(others, self, mine)
  /\ link' = [link EXCEPT !.sent = IF config.implicit THEN <<"NAMES">> \o rest
                                                      ELSE Append(rest, "NAMES")]
  /\ buffer' = Posted(AddNick(buffer.list, self))
  /\ ChannelAdded
  /\ UNCHANGED <<config, self, left, asked, strayed>>

\* A bouncer or an operator joins it: nobody at the keyboard did.  The bound
\* keeps the NAMES asked for few.
ServerJoins ==
  /\ Listening /\ ~Joined /\ Len(link.sent) < MaxSent
  /\ OnSelfJoined(link.sent)

\* The server answers the oldest line: a JOIN, unless it is already in.
AnswerJoin ==
  /\ link.sent # <<>> /\ Head(link.sent) = "JOIN"
  /\ ~Joined
  /\ OnSelfJoined(Tail(link.sent))

IgnoreJoin ==
  /\ link.sent # <<>> /\ Head(link.sent) = "JOIN"
  /\ Joined
  /\ link' = [link EXCEPT !.sent = Tail(@)]
  /\ UNCHANGED <<config, self, roster, buffer, ui, note, left, asked, strayed>>

\* The channel is full, or has a key, or Uplink is banned from it.
RefuseJoin ==
  /\ link.sent # <<>> /\ Head(link.sent) = "JOIN"
  /\ ~Joined
  /\ link' = [link EXCEPT !.sent = Tail(@)]
  /\ left' = TRUE
  /\ UNCHANGED <<config, self, roster, buffer, ui, note, asked, strayed>>

\* onUserParted of the user.  A PART of a channel it is not in is an error.
AnswerPart ==
  /\ link.sent # <<>> /\ Head(link.sent) = "PART"
  /\ link' = [link EXCEPT !.sent = Tail(@)]
  /\ roster' = <<>> /\ strayed' = FALSE
  /\ IF Joined
       THEN /\ buffer' = Held
            /\ ui' = IF buffer.held THEN Scheduled(ui) ELSE ui
            /\ left' = TRUE
       ELSE UNCHANGED <<buffer, ui, left>>
  /\ UNCHANGED <<config, self, note, asked>>

\* onNamesReceived.  One not in the channel is told of nobody, or of any.
AnswerNames ==
  /\ link.sent # <<>> /\ Head(link.sent) = "NAMES"
  /\ link' = [link EXCEPT !.sent = Tail(@)]
  /\ \E names \in IF Joined THEN {roster} ELSE Rosters(Others) :
       buffer' = Posted(SetNicks({[nick |-> n, prefixes |-> names[n]] : n \in DOMAIN names}))
  /\ ui' = Scheduled(ui)
  /\ strayed' = FALSE
  /\ UNCHANGED <<config, self, roster, note, left, asked>>

----------------------------------------------------------------------------
(* What the others do.  A nick in no channel of ours is told of only if it *)
(* shares another one.                                                     *)

OtherJoined(n) ==
  /\ Listening /\ Joined /\ n \in Others \ Members
  /\ Len(buffer.list.nicks) < MaxList
  /\ roster' = WithNick(roster, n, {})
  /\ buffer' = Posted(AddNick(buffer.list, n))
  /\ ui' = Updated(ui)
  /\ UNCHANGED <<config, self, link, note, left, asked, strayed>>

OtherParted(n) ==
  /\ Listening /\ n \in Others \cap Members
  /\ roster' = [m \in Members \ {n} |-> roster[m]]
  /\ buffer' = Posted(RemoveNick(buffer.list, n))
  /\ ui' = IF buffer.held THEN Updated(ui) ELSE ui
  /\ UNCHANGED <<config, self, link, note, left, asked, strayed>>

OnUserQuit(n) ==
  /\ Listening /\ n \in Others
  /\ roster' = [m \in Members \ {n} |-> roster[m]]
  /\ buffer' = [buffer EXCEPT !.list = RemoveNick(@, n)]
  /\ ui' = IF Has(buffer.list, n) THEN Updated(ui) ELSE ui
  /\ UNCHANGED <<config, self, link, note, left, asked, strayed>>

\* The batch of a netsplit, and that of its end.
OnNetsplit(gone) ==
  /\ Listening /\ gone \subseteq Others
  /\ roster' = [m \in Members \ gone |-> roster[m]]
  /\ IF \E n \in gone : Has(buffer.list, n)
       THEN /\ buffer' = [buffer EXCEPT !.list = RemoveNicks(@, gone)]
            /\ ui' = Scheduled(ui)
       ELSE UNCHANGED <<buffer, ui>>
  /\ UNCHANGED <<config, self, link, note, left, asked, strayed>>

OnNetjoin(new) ==
  /\ Listening /\ Joined /\ new # {} /\ new \subseteq Others \ Members
  /\ Len(buffer.list.nicks) + Cardinality(new) =< MaxList
  /\ roster' = [n \in Members \cup new |-> IF n \in new THEN {} ELSE roster[n]]
  /\ IF buffer.held
       THEN /\ buffer' = [buffer EXCEPT !.list = AddNicks(@, new)]
            /\ ui' = Scheduled(ui)
       ELSE UNCHANGED <<buffer, ui>>
  /\ UNCHANGED <<config, self, link, note, left, asked, strayed>>

\* onNickChanged, of the user or of another.
OnNickChanged(n, m) ==
  /\ Listening /\ m \notin Members \cup {n, self}
  /\ self' = IF n = self THEN m ELSE self
  /\ roster' = [k \in IF n \in Members THEN (Members \ {n}) \cup {m} ELSE Members |->
                  roster[IF k = m THEN n ELSE k]]
  /\ buffer' = [buffer EXCEPT !.list = RenameNick(@, n, m)]
  /\ ui' = IF Has(buffer.list, n) THEN Updated(ui) ELSE ui
  /\ UNCHANGED <<config, link, note, left, asked, strayed>>

\* onKicked: a user kicked out keeps the list of those who stay.
OnKicked(n) ==
  /\ Listening /\ n \in Members
  /\ roster' = [m \in IF n = self THEN {} ELSE Members \ {n} |-> roster[m]]
  /\ left' = (left \/ n = self)
  /\ strayed' = (strayed /\ n # self)
  /\ IF buffer.held
       THEN /\ buffer' = [buffer EXCEPT !.list = RemoveNick(@, n)]
            /\ ui' = Updated(ui)
       ELSE UNCHANGED <<buffer, ui>>
  /\ UNCHANGED <<config, self, link, note, asked>>

\* What a server can say: the prefixes are those of members, and what follows
\* the last of them changes nothing.
LinesNow ==
  LET held == {m \in PrefixModes : m.arg \in Members}
  IN  UNION {{line \in [1..k -> held \cup OtherModes] : line[k] \in held} : k \in 1..MaxModes}

\* A prefix is behind a mode whose argument argModes is wrong about.
Strays(line) ==
  \E i, j \in DOMAIN line :
    j < i /\ line[i].rank # 0 /\ (line[j].counted <=> line[j].arg = NoWord)

\* onModesReceived.
OnModes(line) ==
  /\ Listening /\ Joined
  /\ roster' = [n \in Members |->
                  Applied(line, {i \in DOMAIN line : line[i].arg = n}, roster[n])]
  /\ buffer' = Posted(IF buffer.held THEN SetPrefixes(buffer.list, line) ELSE NoNicks)
  /\ ui' = IF buffer.held THEN Scheduled(ui) ELSE ui
  /\ strayed' = (strayed \/ Strays(line))
  /\ UNCHANGED <<config, self, link, note, left, asked>>

----------------------------------------------------------------------------
(* The link.                                                               *)

\* Mutant: only the channels of the configuration are joined again.
OnConnectedConfig ==
  /\ ~link.up
  /\ link' = [up |-> TRUE, sent |-> IF config.listed THEN <<"JOIN">> ELSE <<>>]
  /\ left' = FALSE
  /\ UNCHANGED <<config, self, roster, buffer, ui, note, asked, strayed>>

\* The channels of the configuration are joined, and those the session has.
OnConnected ==
  /\ ~link.up
  /\ link' = [up |-> TRUE, sent |-> IF config.listed \/ buffer.held THEN <<"JOIN">> ELSE <<>>]
  /\ left' = FALSE
  /\ UNCHANGED <<config, self, roster, buffer, ui, note, asked, strayed>>

\* The lists are cleared, and nothing is said of it to the user list shown.
OnDisconnected ==
  /\ link.up
  /\ link' = [up |-> FALSE, sent |-> <<>>]
  /\ roster' = <<>> /\ strayed' = FALSE
  /\ buffer' = [buffer EXCEPT !.list = NoNicks]
  /\ ui' = Unshown(ui)
  /\ UNCHANGED <<config, self, note, left, asked>>

User == SendJoin \/ SendPart \/ CloseBuffer \/ LookAt \/ LookAway

Next ==
  \/ User \/ RefreshNicks
  \/ ServerJoins \/ AnswerJoin \/ IgnoreJoin \/ RefuseJoin \/ AnswerPart \/ AnswerNames
  \/ \E n \in Nicks : OtherJoined(n) \/ OtherParted(n) \/ OnUserQuit(n) \/ OnKicked(n)
  \/ \E S \in SUBSET Nicks : OnNetsplit(S) \/ OnNetjoin(S)
  \/ \E n, m \in Nicks : OnNickChanged(n, m)
  \/ \E line \in LinesNow : OnModes(line)
  \/ OnConnected \/ OnDisconnected

Spec == Init /\ [][Next]_vars

----------------------------------------------------------------------------
(* Properties.                                                             *)

(***************************************************************************)
(* Uplink knows who is in a channel it is in.  Once the NAMES of a join    *)
(* are through, and as long as the buffer has a row, the list has exactly  *)
(* those the server has, each once, in the order of the prefixes it shows: *)
(* a line that came between the JOIN and NAMES, what was left of an        *)
(* earlier stay, batches and renames have not put it wrong.  The prefixes  *)
(* are the server's as long as no line has strayed.                        *)
(***************************************************************************)
NamesAreIn == link.up /\ Joined /\ ui.row /\ \A i \in DOMAIN link.sent : link.sent[i] # "NAMES"

ListOf(r) == SetNicks({[nick |-> n, prefixes |-> r[n]] : n \in DOMAIN r}).nicks

NickListAgrees ==
  NamesAreIn =>
    \E told \in [Members -> SUBSET Ranks] :
      buffer.list.nicks = ListOf(told) /\ (strayed \/ told = roster)

(***************************************************************************)
(* The prefixes are always the server's: not so behind a ban mask, a key   *)
(* or a limit on one MODE line.                                            *)
(***************************************************************************)
PrefixesAgree == NamesAreIn => buffer.list.nicks = ListOf(roster)

(***************************************************************************)
(* What the index says of a nick is true, in every state of the buffer,    *)
(* also one that is out of date: QList::removeAt() and operator[] are      *)
(* given the place of that nick and never one outside of the list.         *)
(***************************************************************************)
IndexPointsHome ==
  \A n \in DOMAIN buffer.list.index :
    /\ buffer.list.index[n] \in DOMAIN buffer.list.nicks
    /\ buffer.list.nicks[buffer.list.index[n]].nick = n

(***************************************************************************)
(* The user list on screen is the buffer's while Uplink is in the channel, *)
(* or is about to be refreshed.                                            *)
(***************************************************************************)
PanelShowsList ==
  Joined /\ ui.view = "channel" /\ ~ui.due => ui.fresh

(***************************************************************************)
(* The view goes to the channel when the user selects it, or on a join of  *)
(* a user who has asked to join, or when there was nothing to see: never   *)
(* for a join of the configuration, of a reconnect or of a bouncer.        *)
(***************************************************************************)
ViewFollowsUser ==
  [][ui.view = "other" /\ ui'.view = "channel" => LookAt \/ asked]_vars

(***************************************************************************)
(* A channel with a row is joined on every link: when the link is up and   *)
(* all that was sent is answered, Uplink is in it, or was refused, left or *)
(* was kicked on this link.                                                *)
(***************************************************************************)
RejoinsOpen == link.up /\ link.sent = <<>> /\ ui.row => Joined \/ left

(***************************************************************************)
(* The manual: "Once reconnected, it re-joins all channels you had open:   *)
(* both those in your config and any you joined manually".  One that was   *)
(* closed is not joined.                                                   *)
(***************************************************************************)
RejoinsOnlyOpen ==
  [][~link.up /\ link'.up /\ link'.sent # <<>> => config.listed \/ ui.row]_vars

\* The list of nicks, its index and the list on screen all say who is there.
NickListInv == TypeOK /\ NickListAgrees /\ IndexPointsHome /\ PanelShowsList
=============================================================================
