---------------------------- MODULE Registration ----------------------------
(***************************************************************************)
(* Registration on an IRC server as IrcClient performs it                  *)
(* (src/src/irc/ircclient.cpp): capability negotiation, SASL, the nick and *)
(* its fallback, the soju network list, and what a lost link resets.       *)
(*                                                                         *)
(* Client and server exchange lines over two FIFO channels.  The server is *)
(* the environment: it may split an ACK over several lines, refuse a REQ,  *)
(* an authentication or a nick, announce capabilities later, and drop the  *)
(* link.  Nick k is the configured nick with k underscores appended.       *)
(***************************************************************************)
EXTENDS Integers, Sequences

CONSTANTS
  Networks,     \* the servers and configurations to connect with
  MaxNick       \* bound: nicks are 0..MaxNick, and MaxNick is always free

(***************************************************************************)
(* A network: the capabilities its CAP LS offers and those it may announce *)
(* later; whether SASL credentials are configured and bouncer = "soju";    *)
(* whether the server may spread an ACK over two lines; and the bounds on  *)
(* uses of /nick, nick changes of other users and links lost.              *)
(***************************************************************************)
ASSUME NetworksAssumption ==
  \A n \in Networks : /\ {n.sasl, n.soju, n.split} \subseteq BOOLEAN
                      /\ {n.renames, n.others, n.drops} \subseteq Nat
ASSUME NickAssumption == MaxNick \in Nat

VARIABLES
  network,   \* fixed when the client connects
  client,    \* the fields of IrcClient
  server,    \* what the server knows of this session
  up, down,  \* lines in flight, to and from the server
  others,    \* nicks held by other users
  renames,   \* uses of /nick so far
  strangers, \* nick changes of other users so far
  drops      \* links lost so far

session == <<client, server, up, down, others, renames, strangers, drops>>
vars == <<network, session>>

Nick == 0..MaxNick
Caps == network.offered \union network.later

\* desiredCaps(): what is requested when offered.  "base" stands for the
\* capabilities every configuration wants.
Desired == {"base"} \union (IF network.sasl THEN {"sasl"} ELSE {})
                    \union (IF network.soju THEN {"networks"} ELSE {})

\* The fields listed, reclaimed and endedDuringSasl of the client record are
\* history: LISTNETWORKS was sent on this link, NICK was sent to reclaim the
\* configured nick, CAP END was sent while m_saslPending was set.  So is
\* unheeded of the server record: an answer was sent that the client does
\* nothing about (ServerRefuses).

\* Lines are records; a field a kind of line does not use is absent.
Line(kind) == [kind |-> kind]
CapLine(kind, caps) == [kind |-> kind, caps |-> caps]
NickLine(old, new) == [kind |-> "NICK", old |-> old, new |-> new]
SetNickLine(new) == [kind |-> "NICK", new |-> new]

Quiet == up = <<>> /\ down = <<>>

NoClient(nick) ==
  [nick |-> nick, fallback |-> FALSE, registered |-> FALSE,
   requested |-> {}, acked |-> {}, lsBuffer |-> {},
   saslPending |-> FALSE, saslAuthed |-> FALSE,
   listing |-> FALSE, listingUnsupported |-> FALSE,
   listed |-> FALSE, reclaimed |-> 0, endedDuringSasl |-> FALSE]

NoServer == [link |-> FALSE, holding |-> FALSE, enabled |-> {}, announced |-> {},
             auth |-> "none", nick |-> -1, registered |-> FALSE, unheeded |-> FALSE]

TypeOK ==
  /\ network \in Networks
  /\ client \in [nick : Nick, fallback : BOOLEAN, registered : BOOLEAN,
                 requested : SUBSET Caps, acked : SUBSET Caps, lsBuffer : SUBSET Caps,
                 saslPending : BOOLEAN, saslAuthed : BOOLEAN,
                 listing : BOOLEAN, listingUnsupported : BOOLEAN,
                 listed : BOOLEAN, reclaimed : Nat, endedDuringSasl : BOOLEAN]
  /\ server \in [link : BOOLEAN, holding : BOOLEAN, enabled : SUBSET Caps,
                 announced : SUBSET Caps,
                 auth : {"none", "asked", "done", "failed"},
                 nick : Nick \union {-1}, registered : BOOLEAN, unheeded : BOOLEAN]
  /\ others \subseteq Nick
  /\ renames \in 0..network.renames
  /\ strangers \in 0..network.others
  /\ drops \in 0..network.drops

Init ==
  /\ network \in Networks
  /\ client = NoClient(0)
  /\ server = NoServer
  /\ up = <<>> /\ down = <<>>
  /\ others \in SUBSET (Nick \ {MaxNick})
  /\ renames = 0
  /\ strangers = 0
  /\ drops = 0

----------------------------------------------------------------------------
(* The client.  A handler consumes the line at the head of down and answers*)
(* with lines.                                                             *)

Says(c, lines) ==
  /\ client' = c
  /\ up' = up \o lines
  /\ UNCHANGED <<server, others, renames, strangers, drops>>

Handles(kind) == down # <<>> /\ Head(down).kind = kind /\ down' = Tail(down)

\* What is sent for "CAP END"; the history field notes one sent too early.
Ending(c) == [c EXCEPT !.endedDuringSasl = @ \/ c.saslPending]

\* onConnected(): CAP LS 302, then NICK and USER.
OnConnected ==
  /\ ~server.link
  /\ client' = client
  /\ server' = [NoServer EXCEPT !.link = TRUE]
  /\ up' = <<Line("LS"), SetNickLine(client.nick)>>
  /\ down' = <<>>
  /\ UNCHANGED <<others, renames, strangers, drops>>

\* Mutant: the SASL outcome outlives the link.
OnDisconnectedKeepingSasl ==
  /\ server.link
  /\ drops < network.drops
  /\ drops' = drops + 1
  /\ client' = [NoClient(client.nick) EXCEPT
                  !.listingUnsupported = client.listingUnsupported,
                  !.saslAuthed = client.saslAuthed, !.acked = client.acked]
  /\ server' = NoServer
  /\ up' = <<>> /\ down' = <<>>
  /\ UNCHANGED <<others, renames, strangers>>

\* onDisconnected(): everything is reset but the nick and the rejection of
\* BOUNCER LISTNETWORKS.
OnDisconnected ==
  /\ server.link
  /\ drops < network.drops
  /\ drops' = drops + 1
  /\ client' = [NoClient(client.nick) EXCEPT
                  !.listingUnsupported = client.listingUnsupported]
  /\ server' = NoServer
  /\ up' = <<>> /\ down' = <<>>
  /\ UNCHANGED <<others, renames, strangers>>

\* CAP LS: buffered until the last line, then everything wanted is requested.
OnCapLsMore ==
  /\ Handles("LS*")
  /\ Says([client EXCEPT !.lsBuffer = @ \union Head(down).caps], <<>>)

OnCapLs ==
  /\ Handles("LS")
  /\ LET want == (client.lsBuffer \union Head(down).caps) \intersect Desired
         c == [client EXCEPT !.lsBuffer = {}]
     IN  IF want = {}
         THEN Says(Ending(c), <<Line("END")>>)
         ELSE Says([c EXCEPT !.requested = want], <<CapLine("REQ", want)>>)

\* Mutant: CAP END does not wait for the outcome of SASL.
AcknowledgedAtOnce(c, caps) ==
  IF c.registered THEN [then |-> c, say |-> <<>>]
  ELSE LET sasl == "sasl" \in caps /\ network.sasl
       IN  [then |-> Ending([c EXCEPT !.saslPending = sasl]),
            say |-> (IF sasl THEN <<Line("AUTHENTICATE")>> ELSE <<>>) \o <<Line("END")>>]

\* CAP ACK, as far as the negotiation goes.
Acknowledged(c, caps) ==
  IF c.registered THEN [then |-> c, say |-> <<>>]
  ELSE IF "sasl" \in caps /\ network.sasl
       THEN [then |-> [c EXCEPT !.saslPending = TRUE], say |-> <<Line("AUTHENTICATE")>>]
  ELSE IF "sasl" \notin c.requested \/ "sasl" \in c.acked
       THEN [then |-> Ending(c), say |-> <<Line("END")>>]
  ELSE [then |-> c, say |-> <<>>]

\* CAP ACK: then the network list, unless SASL is in flight.
OnCapAck ==
  /\ Handles("ACK")
  /\ LET caps == Head(down).caps
         a == Acknowledged([client EXCEPT !.acked = @ \union caps], caps)
         list == /\ network.soju
                 /\ "networks" \in a.then.acked
                 /\ ~a.then.saslPending
                 /\ ~a.then.listing
                 /\ ~a.then.listingUnsupported
     IN  IF list
         THEN Says([a.then EXCEPT !.listing = TRUE, !.listed = TRUE],
                   a.say \o <<Line("LISTNETWORKS")>>)
         ELSE Says(a.then, a.say)

OnCapNak ==
  /\ Handles("NAK")
  /\ IF client.registered THEN Says(client, <<>>)
                          ELSE Says(Ending(client), <<Line("END")>>)

OnCapNew ==
  /\ Handles("NEW")
  /\ LET want == (Head(down).caps \intersect Desired) \ client.acked
     IN  Says(client, IF want = {} THEN <<>> ELSE <<CapLine("REQ", want)>>)

OnCapDel ==
  /\ Handles("DEL")
  /\ Says([client EXCEPT !.acked = @ \ Head(down).caps], <<>>)

OnAuthenticate ==
  /\ Handles("AUTHENTICATE")
  /\ Says(client, <<Line("CREDENTIALS")>>)

OnSaslSuccess ==
  /\ Handles("903")
  /\ Says([client EXCEPT !.saslAuthed = TRUE, !.saslPending = FALSE], <<Line("END")>>)

\* Mutant: a failed authentication leaves the negotiation open.
OnSaslFailureSilent ==
  /\ Handles("904")
  /\ Says([client EXCEPT !.saslPending = FALSE], <<>>)

OnSaslFailure ==
  /\ Handles("904")
  /\ Says([client EXCEPT !.saslPending = FALSE], <<Line("END")>>)

\* setNick(): the field changes before the server has agreed.
SetNick(c, nick) == [c EXCEPT !.nick = nick]

\* Mutant: a refused nick is replaced after registration, too.
OnNickInUseAlways ==
  /\ Handles("433")
  /\ Says([SetNick(client, client.nick + 1) EXCEPT !.fallback = TRUE],
          <<SetNickLine(client.nick + 1)>>)

\* 433: during registration the next fallback nick is tried.
OnNickInUse ==
  /\ Handles("433")
  /\ IF client.registered
     THEN Says(client, <<>>)
     ELSE Says([SetNick(client, client.nick + 1) EXCEPT !.fallback = TRUE],
               <<SetNickLine(client.nick + 1)>>)

\* 431, 432: printed, whether registered or not; no other nick is tried.
OnNickError ==
  /\ Handles("432")
  /\ Says(client, <<>>)

\* A numeric without a case of its own is printed: so are 902, 907 and 908,
\* which end an authentication as 904 does.
OnOtherNumeric ==
  /\ Handles("902")
  /\ Says(client, <<>>)

\* Mutant: the nick is not asked for again.
OnWelcomeWithoutReclaim ==
  /\ Handles("001")
  /\ Says([client EXCEPT !.registered = TRUE, !.fallback = FALSE], <<>>)

\* Mutant: the reclaimed nick is taken for granted.
OnWelcomeOptimistic ==
  /\ Handles("001")
  /\ LET c == [client EXCEPT !.registered = TRUE, !.fallback = FALSE]
     IN  IF client.fallback /\ client.saslAuthed /\ client.nick # 0
         THEN Says([SetNick(c, 0) EXCEPT !.reclaimed = @ + 1], <<SetNickLine(0)>>)
         ELSE Says(c, <<>>)

\* 001: registration is complete; the configured nick is reclaimed once.
OnWelcome ==
  /\ Handles("001")
  /\ LET c == [client EXCEPT !.registered = TRUE, !.fallback = FALSE]
     IN  IF client.fallback /\ client.saslAuthed /\ client.nick # 0
         THEN Says([c EXCEPT !.reclaimed = @ + 1], <<SetNickLine(0)>>)
         ELSE Says(c, <<>>)

\* NICK: a line about this client's nick, by the old name or the new one, is
\* taken for its own.
OnNick ==
  /\ Handles("NICK")
  /\ LET line == Head(down)
     IN  IF client.nick \in {line.old, line.new}
         THEN Says([client EXCEPT !.nick = line.new], <<>>)
         ELSE Says(client, <<>>)

\* BOUNCER LISTNETWORKS END, and its rejection.
OnNetworksListed ==
  /\ Handles("LISTED")
  /\ Says([client EXCEPT !.listing = FALSE], <<>>)

OnListingRejected ==
  /\ Handles("FAIL")
  /\ Says([client EXCEPT !.listingUnsupported = TRUE], <<>>)

\* The user's /nick.
UserNick(nick) ==
  /\ server.link /\ client.registered
  /\ renames < network.renames
  /\ renames' = renames + 1
  /\ nick # client.nick
  /\ client' = SetNick(client, nick)
  /\ up' = Append(up, SetNickLine(nick))
  /\ UNCHANGED <<server, down, others, strangers, drops>>

Client ==
  \/ OnCapLsMore \/ OnCapLs \/ OnCapAck \/ OnCapNak \/ OnCapNew \/ OnCapDel
  \/ OnAuthenticate \/ OnSaslSuccess \/ OnSaslFailure
  \/ OnNickInUse \/ OnWelcome \/ OnNick \/ OnNetworksListed \/ OnListingRejected
  \/ OnNickError \/ OnOtherNumeric

----------------------------------------------------------------------------
(* The server and the other users.                                         *)

Receives(kind) == up # <<>> /\ Head(up).kind = kind /\ up' = Tail(up)

Replies(s, lines) ==
  /\ server' = s
  /\ down' = down \o lines
  /\ UNCHANGED <<client, others, renames, strangers, drops>>

ServerLs ==
  /\ Receives("LS")
  /\ \E first \in SUBSET network.offered :
       Replies([server EXCEPT !.holding = TRUE, !.announced = network.offered],
               IF first = {} THEN <<CapLine("LS", network.offered)>>
               ELSE <<CapLine("LS*", first), CapLine("LS", network.offered \ first)>>)

ServerReq ==
  /\ Receives("REQ")
  /\ LET caps == Head(up).caps
         granted == [server EXCEPT !.enabled = @ \union caps]
     IN  \/ Replies(granted, <<CapLine("ACK", caps)>>)
         \/ /\ network.split
            /\ \E first \in (SUBSET caps) \ {{}, caps} :
                 Replies(granted, <<CapLine("ACK", first), CapLine("ACK", caps \ first)>>)
         \/ Replies(server, <<Line("NAK")>>)

ServerAuthenticate ==
  /\ Receives("AUTHENTICATE")
  /\ IF server.registered
     THEN Replies(server, <<Line("904")>>)
     ELSE Replies([server EXCEPT !.auth = "asked"], <<Line("AUTHENTICATE")>>)

ServerCredentials ==
  /\ Receives("CREDENTIALS")
  /\ \/ /\ server.auth = "asked"
        /\ Replies([server EXCEPT !.auth = "done"], <<Line("903")>>)
     \/ Replies([server EXCEPT !.auth = "failed"], <<Line("904")>>)

\* CAP END lets registration finish, and aborts an authentication under way.
ServerEnd ==
  /\ Receives("END")
  /\ Replies([server EXCEPT !.holding = FALSE,
                            !.auth = IF @ = "asked" THEN "failed" ELSE @],
             IF server.auth = "asked" THEN <<Line("904")>> ELSE <<>>)

ServerNick ==
  /\ Receives("NICK")
  /\ LET new == Head(up).new
     IN  IF new \in others
         THEN Replies(server, <<Line("433")>>)
         ELSE Replies([server EXCEPT !.nick = new],
                      IF server.registered THEN <<NickLine(server.nick, new)>> ELSE <<>>)

\* A nick refused with 431 or 432, an authentication with 902, 907 or 908.
ServerRefuses ==
  \/ /\ Receives("NICK")
     /\ Replies([server EXCEPT !.unheeded = TRUE], <<Line("432")>>)
  \/ /\ Receives("AUTHENTICATE") \/ Receives("CREDENTIALS")
     /\ Replies([server EXCEPT !.unheeded = TRUE,
                               !.auth = IF @ = "asked" THEN "failed" ELSE @],
                <<Line("902")>>)

ServerWelcome ==
  /\ server.link /\ ~server.holding /\ ~server.registered /\ server.nick # -1
  /\ Replies([server EXCEPT !.registered = TRUE], <<Line("001")>>)
  /\ UNCHANGED up

ServerListNetworks ==
  /\ Receives("LISTNETWORKS")
  /\ \/ Replies(server, <<Line("LISTED")>>)
     \/ Replies(server, <<Line("FAIL")>>)

ServerCapNew ==
  /\ server.link /\ server.announced # {}
  /\ \E cap \in network.later \ server.announced :
       Replies([server EXCEPT !.announced = @ \union {cap}], <<CapLine("NEW", {cap})>>)
  /\ UNCHANGED up

ServerCapDel ==
  /\ server.registered
  /\ \E cap \in server.enabled \intersect network.later :
       Replies([server EXCEPT !.enabled = @ \ {cap}], <<CapLine("DEL", {cap})>>)
  /\ UNCHANGED up

\* Another user changes nick, seen by this client in a shared channel.
OtherNick(old, new) ==
  /\ server.registered
  /\ strangers < network.others
  /\ strangers' = strangers + 1
  /\ old \in others /\ new \notin others \union {server.nick}
  /\ new # MaxNick
  /\ others' = (others \ {old}) \union {new}
  /\ down' = Append(down, NickLine(old, new))
  /\ UNCHANGED <<client, server, up, renames, drops>>

Server ==
  \/ ServerLs \/ ServerReq \/ ServerAuthenticate \/ ServerCredentials
  \/ ServerEnd \/ ServerNick \/ ServerRefuses \/ ServerWelcome \/ ServerListNetworks

Next ==
  /\ \/ OnConnected \/ OnDisconnected
     \/ Client \/ Server
     \/ ServerCapNew \/ ServerCapDel
     \/ \E nick \in Nick : UserNick(nick)
     \/ \E old, new \in Nick : OtherNick(old, new)
  /\ UNCHANGED network

Spec == Init /\ [][Next]_vars

\* The event loop delivers every line, and the server answers every line.
LiveSpec ==
  Spec /\ WF_session(OnConnected) /\ WF_session(Client) /\ WF_session(Server)

----------------------------------------------------------------------------
(* Safety.                                                                 *)

\* Once everything in flight has arrived, both sides agree on the enabled
\* capabilities, through CAP NEW, CAP DEL, refusals and reconnects.
CapsAgree == Quiet => client.acked = server.enabled

\* The client believes it is authenticated only on a session the server
\* authenticated.
AuthenticatedTruly == client.saslAuthed => server.auth = "done"

\* CAP END is held back while SASL is in flight (docs/ircv3.md: "Uplink
\* holds CAP END until the server confirms success or failure"), by a server
\* that acknowledges in one line and has announced nothing more: after an ACK
\* line with sasl, the next one, of the same ACK or for what a CAP NEW
\* announced meanwhile, ends the negotiation.
HoldsCapEnd ==
  ~network.split /\ server.announced \subseteq network.offered => ~client.endedDuringSasl

\* Once registered, and nothing is in flight, a client whose user has not
\* asked for another nick knows its own, through refusals, the reclaimed nick
\* and other users' nick changes.
KnowsOwnNick ==
  Quiet /\ client.registered /\ renames = 0 => client.nick = server.nick

\* The first session that ends up on a fallback nick although SASL succeeded
\* has asked for the configured nick, once (CHANGELOG.md: "The configured nick
\* is reclaimed automatically once SASL login succeeds").  A reconnect keeps
\* the fallback nick and forgets that it is one; and SASL that a CAP NEW brings
\* after CAP END may succeed after 001, when nothing is reclaimed any more.
ReclaimsNick ==
  "sasl" \in network.offered /\ client.registered /\ client.saslAuthed /\ client.nick # 0
    /\ renames = 0 /\ drops = 0 =>
    client.reclaimed = 1

(* Liveness, under LiveSpec.                                               *)

\* Negotiation stalls only behind an answer the client does nothing about:
\* otherwise, whatever the server refuses, a connection ends in 001 or in a
\* lost link.
Registers == server.link ~> (client.registered \/ ~server.link \/ server.unheeded)

\* Not so of the code: a nick refused with 432, and an authentication with 902,
\* 907 or 908, leave the client waiting on an open link (no run checks this).
NeverStalls == server.link ~> (client.registered \/ ~server.link)

\* What the client knows of its session is so: the capabilities agreed on, the
\* nick, and whether the negotiation or the configured nick is still to come.
RegistrationInv ==
  TypeOK /\ CapsAgree /\ HoldsCapEnd /\ KnowsOwnNick /\ ReclaimsNick
=============================================================================
