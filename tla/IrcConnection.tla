--------------------------- MODULE IrcConnection ---------------------------
(***************************************************************************)
(* The life cycle of one server connection, as IrcClient drives it         *)
(* (src/src/irc/ircclient.cpp): opening a socket, the TLS handshake and    *)
(* its certificate prompt, registration, the ping watchdog, the backoff    *)
(* timer that reconnects a lost link, the STS upgrade, and the user's      *)
(* Disconnect and Reconnect.                                               *)
(*                                                                         *)
(* The fields of the IrcClient object are one record, so that a handler    *)
(* that calls another is function composition in the order of the calls.   *)
(* The Qt socket, the peer and the user are the environment.               *)
(***************************************************************************)
EXTENDS Integers

CONSTANTS
  MinDelay,       \* first reconnect delay, in seconds (5 in the code)
  MaxDelay,       \* its cap (60 in the code)
  PingPeriods     \* whole watchdog ticks in the ping time limit (90 s / 30 s)

ASSUME DelayAssumption ==
  /\ MinDelay \in Nat \ {0}
  /\ MaxDelay \in Nat
  /\ MinDelay =< MaxDelay
ASSUME PingAssumption == PingPeriods \in Nat \ {0}

VARIABLES
  webSocket, \* m_useWs: a QWebSocket instead of a QSslSocket
  configSsl, \* the server's configured ssl flag
  client,   \* the IrcClient fields below
  sock,     \* the socket's state as Qt reports it, Connected split in two
  link,     \* what is true of the current attempt or link
  posted,   \* the STS upgrade's zero timer is queued in the event loop
  prompt,   \* the certificate dialog is open
  pinned    \* m_pinnedFingerprint is set

config == <<webSocket, configSsl>>
connection == <<client, sock, link, posted, prompt, pinned>>
vars == <<config, connection>>

(***************************************************************************)
(* "handshake" is Qt's ConnectedState before isEncrypted(), "connected"    *)
(* the link that registration runs on.  timer = 0 means inactive, and      *)
(* otherwise the delay the timer was armed with.  age counts watchdog      *)
(* ticks since the unanswered PING.  hooks counts the single-shot          *)
(* encrypted() -> onConnected connections the socket holds.                *)
(***************************************************************************)
SockState == {"unconnected", "connecting", "handshake", "connected", "closing"}

Client ==
  [host : BOOLEAN, ssl : BOOLEAN, intentional : BOOLEAN, stsUpgrade : BOOLEAN,
   timer : {0} \union (MinDelay..MaxDelay), delay : MinDelay..MaxDelay,
   pingTimer : BOOLEAN, pingPending : BOOLEAN, age : 0..(PingPeriods + 1),
   hooks : 0..1]

Link == [closing : BOOLEAN, tls : BOOLEAN, silent : BOOLEAN, regs : 0..2]

TypeOK ==
  /\ webSocket \in BOOLEAN
  /\ configSsl \in BOOLEAN
  /\ client \in Client
  /\ sock \in SockState
  /\ link \in Link
  /\ posted \in BOOLEAN
  /\ prompt \in BOOLEAN
  /\ pinned \in BOOLEAN

----------------------------------------------------------------------------
(* The private helpers of IrcClient, on its fields.  A definition whose    *)
(* comment starts with "Mutant" is not the code's: it is a plausible slip  *)
(* in the definition after it, which a property has to notice.             *)

Lesser(a, b) == IF a =< b THEN a ELSE b

StopTimer(c) == [c EXCEPT !.timer = 0]

\* Mutant: no cap on the delay.
ScheduleReconnectUncapped(c) ==
  IF c.intentional \/ c.timer # 0 \/ ~c.host
  THEN c
  ELSE [c EXCEPT !.timer = c.delay, !.delay = 2 * c.delay]

\* Mutant: a deliberate disconnect is not remembered.
ScheduleReconnectAlways(c) ==
  IF c.timer # 0 \/ ~c.host THEN c ELSE [c EXCEPT !.timer = c.delay]

ScheduleReconnect(c) ==
  IF c.intentional \/ c.timer # 0 \/ ~c.host
  THEN c
  ELSE [c EXCEPT !.timer = c.delay, !.delay = Lesser(2 * c.delay, MaxDelay)]

OnDisconnected(c) ==
  LET s == IF c.stsUpgrade THEN c ELSE ScheduleReconnect(c)
  IN  [s EXCEPT !.pingTimer = FALSE, !.pingPending = FALSE, !.age = 0,
                !.stsUpgrade = FALSE]

\* Qt's abort() emits disconnected() before it returns: from a TCP socket
\* that had connected, from a WebSocket that had left UnconnectedState.
AbortEmits ==
  IF webSocket THEN sock # "unconnected"
               ELSE sock \in {"handshake", "connected", "closing"}

SockAbort(c) == IF AbortEmits THEN OnDisconnected(c) ELSE c

\* The part of onConnected() behind the TLS deferral.
Register(c) ==
  [c EXCEPT !.timer = 0, !.delay = MinDelay,
            !.pingTimer = TRUE, !.pingPending = FALSE, !.age = 0]

\* Opening the socket: connectToHost(Encrypted) or QWebSocket::open.
Open(c) ==
  /\ client' = c
  /\ sock' = "connecting"
  /\ link' = [closing |-> FALSE, tls |-> c.ssl, silent |-> FALSE, regs |-> 0]

\* Mutant: the timer abort() re-armed is left running.
DoReconnectKeepingTimer(c) == Open(SockAbort(c))

DoReconnect(c) == Open(StopTimer(SockAbort(c)))

Reconnect(c) == DoReconnect([c EXCEPT !.intentional = FALSE, !.timer = 0,
                                      !.delay = MinDelay])

\* Whether the unanswered PING may, or must, be over the time limit.  The tick
\* that ends the limit may come a little early or late, and during a TLS
\* handshake no tick measures the time.
Overdue(c) ==
  IF ~c.pingPending THEN {FALSE}
  ELSE {late \in BOOLEAN :
          c.pingTimer => /\ (c.age < PingPeriods => ~late)
                         /\ (c.age > PingPeriods => late)}

\* Mutant: every tick sends a PING and restarts the clock.
SendPingRestarting(c) ==
  /\ client' = [c EXCEPT !.pingPending = TRUE, !.age = 0]
  /\ UNCHANGED sock

\* sendPing(): the watchdog's tick, also called when the network returns.
SendPing(c) ==
  \E late \in Overdue(c) :
    IF late
    THEN /\ client' = SockAbort(c)
         /\ sock' = "unconnected"
    ELSE /\ client' = IF c.pingPending THEN c
                      ELSE [c EXCEPT !.pingPending = TRUE, !.age = 0]
         /\ UNCHANGED sock

\* disconnectFromHost(): an attempt still in progress is closed as soon as
\* it has connected.
SockDisconnect ==
  \/ /\ sock = "unconnected"
     /\ UNCHANGED <<sock, link>>
  \/ /\ sock = "connecting"
     /\ link' = [link EXCEPT !.closing = TRUE]
     /\ UNCHANGED sock
  \/ /\ sock \in {"handshake", "connected", "closing"}
     /\ sock' = "closing"
     /\ UNCHANGED link

----------------------------------------------------------------------------
Init ==
  /\ webSocket \in BOOLEAN
  /\ configSsl \in BOOLEAN
  /\ client = [host |-> FALSE, ssl |-> FALSE, intentional |-> FALSE,
               stsUpgrade |-> FALSE, timer |-> 0, delay |-> MinDelay,
               pingTimer |-> FALSE, pingPending |-> FALSE, age |-> 0, hooks |-> 0]
  /\ sock = "unconnected"
  /\ link = [closing |-> FALSE, tls |-> FALSE, silent |-> FALSE, regs |-> 0]
  /\ posted = FALSE
  /\ prompt = FALSE
  /\ pinned \in BOOLEAN

(* The application.                                                        *)

\* Called once, when the keychain has delivered the server's passwords.
ConnectToServer ==
  /\ ~client.host
  /\ LET c == [client EXCEPT !.timer = 0, !.intentional = FALSE,
                             !.delay = MinDelay, !.host = TRUE, !.ssl = configSsl]
     IN  Open(StopTimer(SockAbort(c)))
  /\ UNCHANGED <<posted, prompt, pinned>>

UserQuit ==
  /\ client' = [client EXCEPT !.intentional = TRUE, !.timer = 0]
  /\ SockDisconnect
  /\ UNCHANGED <<posted, prompt, pinned>>

\* The Reconnect entry of the menus and /connect: any state, also before
\* connectToServer() has given the client a host.
UserReconnect ==
  /\ Reconnect(client)
  /\ UNCHANGED <<posted, prompt, pinned>>

AcceptCertificate ==
  /\ prompt
  /\ prompt' = FALSE
  /\ pinned' = TRUE
  /\ Reconnect(client)
  /\ UNCHANGED posted

RejectCertificate ==
  /\ prompt
  /\ prompt' = FALSE
  /\ UNCHANGED <<client, sock, link, posted, pinned>>

OnNetworkOnline ==
  /\ ~client.intentional
  /\ client.host
  /\ \/ /\ client.timer # 0
        /\ DoReconnect([client EXCEPT !.timer = 0, !.delay = MinDelay])
     \/ /\ client.timer = 0
        /\ sock \in {"handshake", "connected"}
        /\ SendPing(client)
        /\ UNCHANGED link
  /\ UNCHANGED <<posted, prompt, pinned>>

(* Timers.                                                                 *)

ReconnectTimeout ==
  /\ client.timer # 0
  /\ DoReconnect([client EXCEPT !.timer = 0])
  /\ UNCHANGED <<posted, prompt, pinned>>

PingTick ==
  /\ client.pingTimer
  /\ SendPing([client EXCEPT !.age = IF client.pingPending
                                     THEN Lesser(client.age + 1, PingPeriods + 1)
                                     ELSE 0])
  /\ UNCHANGED <<link, posted, prompt, pinned>>

\* The zero timer of the STS upgrade: abort, then connect encrypted.
StsReconnect ==
  /\ posted
  /\ posted' = FALSE
  /\ Open(SockAbort(client))
  /\ UNCHANGED <<prompt, pinned>>

(* The socket and the peer.                                                *)

\* The queued zero timer runs before a new attempt can make progress, which
\* takes several turns of the event loop.
AttemptMayProgress == sock = "connecting" /\ ~posted

\* Mutant: the connection to encrypted() is not unique.
DeferToEncryptedAgain(c) == [c EXCEPT !.hooks = Lesser(@ + 1, 2)]

\* Mutant: the backoff is reset before the handshake is over.
DeferToEncryptedResetting(c) == [c EXCEPT !.hooks = 1, !.delay = MinDelay]

\* The early return of onConnected(): encrypted() is hooked, once, since the
\* connection is a UniqueConnection.
DeferToEncrypted(c) == [c EXCEPT !.hooks = 1]

Connected ==
  /\ AttemptMayProgress
  /\ client.host
  /\ IF link.tls /\ ~webSocket
     THEN /\ client' = DeferToEncrypted(client)
          /\ sock' = "handshake"
          /\ UNCHANGED link
     ELSE /\ client' = Register(client)
          /\ sock' = IF link.closing THEN "closing" ELSE "connected"
          /\ link' = [link EXCEPT !.regs = Lesser(@ + 1, 2)]
  /\ UNCHANGED <<posted, prompt, pinned>>

\* encrypted(): runs onConnected() once per hook, and spends the hooks.
Encrypted ==
  /\ sock = "handshake"
  /\ client.hooks > 0
  /\ client' = [Register(client) EXCEPT !.hooks = 0]
  /\ sock' = IF link.closing THEN "closing" ELSE "connected"
  /\ link' = [link EXCEPT !.regs = Lesser(@ + client.hooks, 2)]
  /\ UNCHANGED <<posted, prompt, pinned>>

\* sslErrors() with a pinnable error and no pin: stop, then ask the user.
AskForPin ==
  /\ link.tls
  /\ ~pinned
  /\ \/ ~webSocket /\ sock = "handshake"
     \/ webSocket /\ AttemptMayProgress
  /\ client' = SockAbort([client EXCEPT !.intentional = TRUE])
  /\ sock' = "unconnected"
  /\ prompt' = TRUE
  /\ UNCHANGED <<link, posted, pinned>>

\* sslErrors() with any other error, or with a pin the certificate misses.
RefuseCertificate ==
  /\ link.tls
  /\ \/ ~webSocket /\ sock = "handshake"
     \/ webSocket /\ AttemptMayProgress /\ ~link.closing
  /\ SockDisconnect
  /\ UNCHANGED <<client, posted, prompt, pinned>>

\* Mutant: a failed attempt is only reported.
AttemptFailsSilently ==
  /\ AttemptMayProgress
  /\ sock' = "unconnected"
  /\ UNCHANGED <<client, link, posted, prompt, pinned>>

\* A failed attempt: errorOccurred(), which a WebSocket pairs with
\* disconnected().
AttemptFails ==
  /\ AttemptMayProgress
  /\ sock' = "unconnected"
  /\ client' = ScheduleReconnect(IF webSocket THEN OnDisconnected(client) ELSE client)
  /\ UNCHANGED <<link, posted, prompt, pinned>>

\* The link ends for any reason: disconnected().
LinkLost ==
  /\ sock \in {"handshake", "connected", "closing"}
  /\ sock' = "unconnected"
  /\ client' = OnDisconnected(client)
  /\ UNCHANGED <<link, posted, prompt, pinned>>

\* The peer goes away without a word (a suspended laptop, a dropped NAT entry).
GoesSilent ==
  /\ sock \in {"handshake", "connected"}
  /\ ~link.silent
  /\ link' = [link EXCEPT !.silent = TRUE]
  /\ UNCHANGED <<client, sock, posted, prompt, pinned>>

RecvPong ==
  /\ sock = "connected"
  /\ ~link.silent
  /\ client.pingPending
  /\ client' = [client EXCEPT !.pingPending = FALSE, !.age = 0]
  /\ UNCHANGED <<sock, link, posted, prompt, pinned>>

\* A CAP LS that advertises an STS port on a plain connection.
RecvStsPolicy ==
  /\ sock = "connected"
  /\ ~link.silent
  /\ ~client.ssl
  /\ ~webSocket
  /\ client' = [client EXCEPT !.ssl = TRUE, !.stsUpgrade = TRUE]
  /\ posted' = TRUE
  /\ UNCHANGED <<sock, link, prompt, pinned>>

Next ==
  /\ \/ ConnectToServer \/ UserQuit \/ UserReconnect
     \/ AcceptCertificate \/ RejectCertificate
     \/ OnNetworkOnline \/ ReconnectTimeout \/ PingTick \/ StsReconnect
     \/ Connected \/ Encrypted \/ AskForPin \/ RefuseCertificate
     \/ AttemptFails \/ LinkLost \/ GoesSilent \/ RecvPong \/ RecvStsPolicy
  /\ UNCHANGED config

Spec == Init /\ [][Next]_vars

\* Qt fires the timers an object has armed.  Nothing is assumed of the peer.
LiveSpec ==
  /\ Spec
  /\ WF_connection(ReconnectTimeout)
  /\ WF_connection(PingTick)
  /\ WF_connection(StsReconnect)

----------------------------------------------------------------------------
(* Safety.                                                                 *)

\* A client that has a host and was not told to stop is never left with no
\* socket, no armed timer and no queued upgrade: every way an attempt or a
\* link can end leads to the next attempt (onDisconnected, onErrorOccurred,
\* and the STS path that suppresses scheduleReconnect).
NeverGivesUp ==
  client.host /\ ~client.intentional =>
    sock # "unconnected" \/ client.timer # 0 \/ posted

\* The reconnect timer never runs beside an attempt or a link, whatever
\* abort() emitted synchronously, and never after a deliberate disconnect:
\* its next fire would abort a handshake slower than the delay.
TimerOnlyWhenDown ==
  client.timer # 0 => sock = "unconnected" /\ ~client.intentional

\* The watchdog runs on every registered link and on no other, across all
\* the paths that abort a socket.
WatchdogFollowsLink ==
  /\ sock = "connected" => client.pingTimer
  /\ client.pingTimer => sock \in {"connected", "closing"}

\* Registration (CAP LS, PASS, NICK, USER) runs once per link, however many
\* handshakes failed before this one.
RegistersOnce == link.regs =< 1

\* The backoff is only reset by a registered link, the user or a regained
\* network: not by a TCP connection whose TLS handshake then fails.
BackoffKeepsGrowing ==
  [][client'.delay < client.delay =>
       \/ link'.regs > link.regs
       \/ ConnectToServer \/ UserReconnect \/ AcceptCertificate \/ OnNetworkOnline]_vars

\* After a deliberate disconnect nothing but the user opens a socket again,
\* whichever timers and signals are still pending, save for an STS upgrade
\* queued before it.
OnlyUpgradeReopens ==
  [][client.intentional /\ client'.intentional /\ sock # "connecting" =>
       sock' # "connecting" \/ StsReconnect]_vars

\* After a deliberate disconnect nothing but the user opens a socket again
\* (README.md: "Deliberate /quit disables it").
DeliberateDisconnectHolds ==
  [][client.intentional /\ client'.intentional /\ sock # "connecting" =>
       sock' # "connecting"]_vars

\* The upgrade's flag suppresses scheduleReconnect() only while the queued
\* zero timer will connect instead, and never outlives its link.
UpgradeFlagIsTransient ==
  client.stsUpgrade => posted /\ sock \in {"connected", "closing"}

(* Liveness, under LiveSpec.                                               *)

\* A link whose peer has gone silent is dropped by the watchdog.
SilentLinkDropped == (sock = "connected" /\ link.silent) ~> sock # "connected"

\* A lost link is followed by an attempt, unless the client is told to stop.
LostLinkRetried ==
  (client.host /\ ~client.intentional /\ sock = "unconnected")
    ~> (sock = "connecting" \/ client.intentional)

\* A client's state is sound through every history of failures, aborts, timers
\* and prompts: it never gives up, never has a timer beside an attempt, and
\* registers once on a link.
ConnectionInv == TypeOK /\ NeverGivesUp /\ TimerOnlyWhenDown /\ RegistersOnce

\* It reconnects as often and as late as it is due: the backoff grows until
\* something resets it, and what was stopped stays so save for the upgrade.
ReconnectsDuly == BackoffKeepsGrowing /\ OnlyUpgradeReopens
=============================================================================
