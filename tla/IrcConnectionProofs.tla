------------------------ MODULE IrcConnectionProofs ------------------------
(***************************************************************************)
(* Proofs, for every delay, ping limit and transport, that IrcConnection   *)
(* is type correct and keeps its safety invariants.                        *)
(***************************************************************************)
EXTENDS IrcConnection, TLAPS

(***************************************************************************)
(* The inductive invariant.  Besides the invariants themselves it says     *)
(* that an attempt that has not registered counts no registration, and     *)
(* that while an STS upgrade is queued the retry is its own: no timer is   *)
(* armed, and aborting the old link will arm none.                         *)
(***************************************************************************)
NotYetRegistered == sock \in {"connecting", "handshake"} => link.regs = 0

UpgradeOwnsRetry ==
  posted => /\ ~webSocket
            /\ client.timer = 0
            /\ sock \in {"handshake", "connected", "closing"} =>
                 client.stsUpgrade \/ client.intentional

Inv ==
  /\ TypeOK
  /\ NeverGivesUp
  /\ TimerOnlyWhenDown
  /\ WatchdogFollowsLink
  /\ RegistersOnce
  /\ UpgradeFlagIsTransient
  /\ NotYetRegistered
  /\ UpgradeOwnsRetry

----------------------------------------------------------------------------
(* What the helpers return.                                                *)

\* scheduleReconnect() arms the timer unless it was told to stop or has no
\* host, and touches nothing but the timer and the delay.
LEMMA ScheduleReconnectFacts ==
  ASSUME NEW c \in Client
  PROVE  LET r == ScheduleReconnect(c)
         IN  /\ r \in Client
             /\ r.timer # 0 \/ c.intentional \/ ~c.host
             /\ c.intentional => r.timer = c.timer
             /\ r.host = c.host /\ r.intentional = c.intentional
             /\ r.stsUpgrade = c.stsUpgrade /\ r.pingTimer = c.pingTimer
             /\ r.hooks = c.hooks
<1>1. CASE c.intentional \/ c.timer # 0 \/ ~c.host
  BY <1>1 DEF ScheduleReconnect, Client
<1>2. CASE ~(c.intentional \/ c.timer # 0 \/ ~c.host)
  <2>1. /\ c.delay \in MinDelay..MaxDelay
        /\ Lesser(2 * c.delay, MaxDelay) \in MinDelay..MaxDelay
        /\ c.delay # 0
    BY DelayAssumption DEF Lesser, Client
  <2>2. ScheduleReconnect(c)
          = [c EXCEPT !.timer = c.delay, !.delay = Lesser(2 * c.delay, MaxDelay)]
    BY <1>2 DEF ScheduleReconnect
  <2>3. QED
    BY <1>2, <2>1, <2>2 DEF Client
<1>3. QED
  BY <1>1, <1>2

\* onDisconnected() leaves the timer armed unless an STS upgrade, a stop or
\* a missing host forbids it, and the watchdog and the upgrade flag off.
LEMMA OnDisconnectedFacts ==
  ASSUME NEW c \in Client
  PROVE  LET r == OnDisconnected(c)
         IN  /\ r \in Client
             /\ r.timer # 0 \/ c.intentional \/ ~c.host \/ c.stsUpgrade
             /\ c.intentional \/ c.stsUpgrade => r.timer = c.timer
             /\ r.host = c.host /\ r.intentional = c.intentional
             /\ ~r.stsUpgrade /\ ~r.pingTimer
<1> DEFINE s == IF c.stsUpgrade THEN c ELSE ScheduleReconnect(c)
<1>1. /\ s \in Client
      /\ s.timer # 0 \/ c.intentional \/ ~c.host \/ c.stsUpgrade
      /\ c.intentional \/ c.stsUpgrade => s.timer = c.timer
      /\ s.host = c.host /\ s.intentional = c.intentional
  BY ScheduleReconnectFacts
<1>2. OnDisconnected(c) = [s EXCEPT !.pingTimer = FALSE, !.pingPending = FALSE,
                                    !.age = 0, !.stsUpgrade = FALSE]
  BY DEF OnDisconnected
<1>3. 0 \in 0..(PingPeriods + 1)
  BY PingAssumption
<1> HIDE DEF s
<1> QED
  BY <1>1, <1>2, <1>3 DEF Client

\* abort() leaves no upgrade pending and no watchdog running, provided the
\* socket was in a state in which Qt reports the disconnection.
LEMMA SockAbortFacts ==
  ASSUME NEW c \in Client,
         c.stsUpgrade \/ c.pingTimer => sock \in {"connected", "closing"}
  PROVE  LET r == SockAbort(c)
         IN  /\ r \in Client
             /\ c.intentional \/ c.stsUpgrade \/ ~AbortEmits => r.timer = c.timer
             /\ r.host = c.host /\ r.intentional = c.intentional
             /\ ~r.stsUpgrade /\ ~r.pingTimer
<1>1. CASE AbortEmits
  BY <1>1, OnDisconnectedFacts DEF SockAbort
<1>2. CASE ~AbortEmits
  <2>1. sock \notin {"connected", "closing"}
    BY <1>2 DEF AbortEmits
  <2>2. ~c.stsUpgrade /\ ~c.pingTimer
    BY <2>1 DEF Client
  <2>3. QED
    BY <1>2, <2>2 DEF SockAbort
<1>3. QED
  BY <1>1, <1>2

\* Opening a socket for a client with no armed timer, no upgrade pending and
\* no watchdog establishes the invariant.
LEMMA OpenKeepsInv ==
  ASSUME NEW c \in Client, c.timer = 0, ~c.stsUpgrade, ~c.pingTimer, Open(c),
         posted' \in BOOLEAN, posted' => ~webSocket, prompt' \in BOOLEAN, pinned' \in BOOLEAN,
         webSocket \in BOOLEAN, configSsl \in BOOLEAN, UNCHANGED config
  PROVE  Inv'
<1>1. /\ client' = c
      /\ sock' = "connecting"
      /\ link' = [closing |-> FALSE, tls |-> c.ssl, silent |-> FALSE, regs |-> 0]
  BY DEF Open
<1>2. TypeOK'
  <2>1. c.ssl \in BOOLEAN
    BY DEF Client
  <2>2. link' \in Link
    BY <1>1, <2>1 DEF Link
  <2>3. QED
    BY <1>1, <2>2 DEF TypeOK, SockState, config
<1>3. QED
  BY <1>1, <1>2 DEF config, Inv, NeverGivesUp, TimerOnlyWhenDown, WatchdogFollowsLink,
                    RegistersOnce, UpgradeFlagIsTransient, NotYetRegistered,
                    UpgradeOwnsRetry

\* So does doReconnect(), in any state of the socket.
LEMMA DoReconnectKeepsInv ==
  ASSUME NEW c \in Client,
         c.stsUpgrade \/ c.pingTimer => sock \in {"connected", "closing"},
         DoReconnect(c),
         posted' \in BOOLEAN, posted' => ~webSocket, prompt' \in BOOLEAN, pinned' \in BOOLEAN,
         webSocket \in BOOLEAN, configSsl \in BOOLEAN, UNCHANGED config
  PROVE  Inv'
<1> DEFINE r == SockAbort(c)
<1>1. r \in Client /\ ~r.stsUpgrade /\ ~r.pingTimer
  BY SockAbortFacts
<1>2. Open(StopTimer(r))
  BY DEF DoReconnect
<1> HIDE DEF r
<1>3. /\ StopTimer(r) \in Client /\ StopTimer(r).timer = 0
      /\ ~StopTimer(r).stsUpgrade /\ ~StopTimer(r).pingTimer
  BY <1>1 DEF StopTimer, Client
<1>4. QED
  BY <1>2, <1>3, OpenKeepsInv

\* A user's Reconnect is doReconnect() with the stop forgotten.
LEMMA ReconnectKeepsInv ==
  ASSUME Inv, Reconnect(client),
         posted' \in BOOLEAN, posted' => ~webSocket, prompt' \in BOOLEAN, pinned' \in BOOLEAN,
         webSocket \in BOOLEAN, configSsl \in BOOLEAN, UNCHANGED config
  PROVE  Inv'
<1> DEFINE c == [client EXCEPT !.intentional = FALSE, !.timer = 0, !.delay = MinDelay]
<1>1. client \in Client
  BY DEF Inv, TypeOK
<1>2. MinDelay \in MinDelay..MaxDelay
  BY DelayAssumption
<1>3. c \in Client /\ c.stsUpgrade = client.stsUpgrade /\ c.pingTimer = client.pingTimer
  BY <1>1, <1>2 DEF Client
<1>4. c.stsUpgrade \/ c.pingTimer => sock \in {"connected", "closing"}
  BY <1>3 DEF Inv, UpgradeFlagIsTransient, WatchdogFollowsLink
<1>5. DoReconnect(c)
  BY DEF Reconnect
<1> HIDE DEF c
<1>6. QED
  BY <1>3, <1>4, <1>5, DoReconnectKeepsInv

\* The registration part of onConnected() starts the watchdog and stops the
\* timer.
LEMMA RegisterFacts ==
  ASSUME NEW c \in Client
  PROVE  LET r == Register(c)
         IN  /\ r \in Client
             /\ r.timer = 0 /\ r.pingTimer
             /\ r.host = c.host /\ r.intentional = c.intentional
             /\ r.stsUpgrade = c.stsUpgrade
<1>1. 0 \in 0..(PingPeriods + 1) /\ MinDelay \in MinDelay..MaxDelay
  BY PingAssumption, DelayAssumption
<1>2. QED
  BY <1>1 DEF Register, Client

\* sendPing() either leaves the socket alone and only touches the pending
\* PING, or aborts a link that is left to the reconnect timer.
LEMMA SendPingFacts ==
  ASSUME NEW c \in Client, SendPing(c),
         c.stsUpgrade \/ c.pingTimer => sock \in {"connected", "closing"}
  PROVE  /\ client' \in Client
         /\ client'.host = c.host /\ client'.intentional = c.intentional
         /\ \/ /\ sock' = sock
               /\ client'.timer = c.timer /\ client'.pingTimer = c.pingTimer
               /\ client'.stsUpgrade = c.stsUpgrade
            \/ /\ sock' = "unconnected" /\ client' = SockAbort(c)
<1>1. PICK late \in Overdue(c) :
        IF late
        THEN /\ client' = SockAbort(c)
             /\ sock' = "unconnected"
        ELSE /\ client' = IF c.pingPending THEN c
                          ELSE [c EXCEPT !.pingPending = TRUE, !.age = 0]
             /\ UNCHANGED sock
  BY DEF SendPing
<1>2. CASE late
  BY <1>1, <1>2, SockAbortFacts
<1>3. CASE ~late
  <2>1. 0 \in 0..(PingPeriods + 1)
    BY PingAssumption
  <2>2. QED
    BY <1>1, <1>3, <2>1 DEF Client
<1>4. QED
  BY <1>2, <1>3

\* A link or attempt that ends with disconnected() keeps the invariant: the
\* timer is armed, or an upgrade is queued, or the client was told to stop.
LEMMA LinkEndKeepsInv ==
  ASSUME Inv, NEW c \in Client,
         c.timer = client.timer, c.host = client.host,
         c.intentional = client.intentional, c.stsUpgrade = client.stsUpgrade,
         sock \in {"handshake", "connected", "closing"},
         client' = OnDisconnected(c), sock' = "unconnected",
         UNCHANGED <<webSocket, configSsl, link, posted, prompt, pinned>>
  PROVE  Inv'
<1>1. /\ client' \in Client
      /\ client'.timer # 0 \/ c.intentional \/ ~c.host \/ c.stsUpgrade
      /\ c.intentional => client'.timer = c.timer
      /\ client'.host = c.host /\ client'.intentional = c.intentional
      /\ ~client'.stsUpgrade /\ ~client'.pingTimer
  BY OnDisconnectedFacts
<1>2. TypeOK'
  BY <1>1 DEF Inv, TypeOK, SockState
<1>3. NeverGivesUp'
  BY <1>1 DEF Inv, NeverGivesUp, UpgradeFlagIsTransient
<1>4. TimerOnlyWhenDown'
  BY <1>1 DEF Inv, TimerOnlyWhenDown
<1>5. WatchdogFollowsLink' /\ UpgradeFlagIsTransient'
  BY <1>1 DEF WatchdogFollowsLink, UpgradeFlagIsTransient
<1>6. RegistersOnce' /\ NotYetRegistered'
  BY DEF Inv, RegistersOnce, NotYetRegistered
<1>7. UpgradeOwnsRetry'
  <2> SUFFICES ASSUME posted PROVE ~webSocket /\ client'.timer = 0
    BY DEF UpgradeOwnsRetry
  <2>1. ~webSocket /\ client.timer = 0
    BY DEF Inv, UpgradeOwnsRetry
  <2>2. CASE c.intentional
    BY <1>1, <2>1, <2>2
  <2>3. CASE ~c.intentional /\ c.stsUpgrade
    BY <2>1, <2>3, OnDisconnectedFacts
  <2>4. QED
    BY <2>1, <2>2, <2>3 DEF Inv, UpgradeOwnsRetry
<1>8. QED
  BY <1>2, <1>3, <1>4, <1>5, <1>6, <1>7 DEF Inv

\* A watchdog probe keeps the invariant, whether or not it drops the link.
LEMMA SendPingKeepsInv ==
  ASSUME Inv, NEW c \in Client, SendPing(c),
         c.timer = client.timer, c.host = client.host,
         c.intentional = client.intentional, c.stsUpgrade = client.stsUpgrade,
         c.pingTimer = client.pingTimer,
         sock \in {"handshake", "connected", "closing"},
         UNCHANGED <<webSocket, configSsl, link, posted, prompt, pinned>>
  PROVE  Inv'
<1>1. c.stsUpgrade \/ c.pingTimer => sock \in {"connected", "closing"}
  BY DEF Inv, WatchdogFollowsLink, UpgradeFlagIsTransient
<1>2. CASE sock' = "unconnected" /\ client' = SockAbort(c)
  <2>1. client' = OnDisconnected(c)
    BY <1>2 DEF SockAbort, AbortEmits
  <2>2. QED
    BY <1>2, <2>1, LinkEndKeepsInv
<1>3. CASE /\ sock' = sock
           /\ client' \in Client
           /\ client'.host = client.host /\ client'.intentional = client.intentional
           /\ client'.timer = client.timer /\ client'.pingTimer = client.pingTimer
           /\ client'.stsUpgrade = client.stsUpgrade
  BY <1>3 DEF Inv, TypeOK, NeverGivesUp, TimerOnlyWhenDown, WatchdogFollowsLink,
              RegistersOnce, UpgradeFlagIsTransient, NotYetRegistered, UpgradeOwnsRetry
<1>4. QED
  BY <1>1, <1>2, <1>3, SendPingFacts

----------------------------------------------------------------------------
(* The invariant.                                                          *)

LEMMA InitInv == Init => Inv
<1> SUFFICES ASSUME Init PROVE Inv
  OBVIOUS
<1>1. /\ client \in Client
      /\ ~client.host /\ client.timer = 0 /\ ~client.pingTimer /\ ~client.stsUpgrade
  BY DelayAssumption, PingAssumption DEF Init, Client
<1>2. link \in Link /\ link.regs = 0
  BY DEF Init, Link
<1>3. TypeOK
  BY <1>1, <1>2 DEF Init, TypeOK, SockState
<1>4. NeverGivesUp /\ TimerOnlyWhenDown /\ WatchdogFollowsLink /\ UpgradeFlagIsTransient
  BY <1>1 DEF Init, NeverGivesUp, TimerOnlyWhenDown, WatchdogFollowsLink,
              UpgradeFlagIsTransient
<1>5. RegistersOnce /\ NotYetRegistered /\ UpgradeOwnsRetry
  BY <1>2 DEF Init, RegistersOnce, NotYetRegistered, UpgradeOwnsRetry
<1>6. QED
  BY <1>3, <1>4, <1>5 DEF Inv

LEMMA StepInv == Inv /\ [Next]_vars => Inv'
<1> SUFFICES ASSUME Inv, [Next]_vars PROVE Inv'
  OBVIOUS
<1> USE DEF Inv
<1>a. UNCHANGED config /\ webSocket \in BOOLEAN /\ configSsl \in BOOLEAN
  BY DEF TypeOK, Next, vars, config, connection
<1> USE <1>a DEF config
<1>0. /\ client \in Client /\ sock \in SockState /\ link \in Link
      /\ posted \in BOOLEAN /\ prompt \in BOOLEAN /\ pinned \in BOOLEAN
      /\ client.stsUpgrade \/ client.pingTimer => sock \in {"connected", "closing"}
      /\ posted => ~webSocket
  BY DEF TypeOK, UpgradeOwnsRetry, WatchdogFollowsLink, UpgradeFlagIsTransient
<1>1. CASE ConnectToServer
  <2> DEFINE c == [client EXCEPT !.timer = 0, !.intentional = FALSE,
                                 !.delay = MinDelay, !.host = TRUE, !.ssl = configSsl]
  <2>1. MinDelay \in MinDelay..MaxDelay /\ configSsl \in BOOLEAN
    BY DelayAssumption
  <2>2. /\ c \in Client
        /\ c.stsUpgrade \/ c.pingTimer => sock \in {"connected", "closing"}
    BY <1>0, <2>1 DEF Client
  <2>3. DoReconnect(c) /\ posted' = posted /\ prompt' = prompt /\ pinned' = pinned
    BY <1>1 DEF ConnectToServer, DoReconnect
  <2> HIDE DEF c
  <2>4. QED
    BY <1>0, <2>2, <2>3, DoReconnectKeepsInv
<1>2. CASE UserQuit
  <2>1. /\ client' \in Client /\ client'.intentional /\ client'.timer = 0
        /\ client'.pingTimer = client.pingTimer /\ client'.stsUpgrade = client.stsUpgrade
    BY <1>0, <1>2 DEF UserQuit, Client
  <2>2. /\ link' \in Link /\ link'.regs = link.regs
        /\ sock' \in SockState
        /\ sock \in {"connected", "closing"} => sock' = "closing"
        /\ sock' \in {"connecting", "handshake"} => sock' = sock
        /\ sock' # "connected"
    BY <1>0, <1>2 DEF UserQuit, SockDisconnect, Link, SockState
  <2>3. posted' = posted /\ prompt' = prompt /\ pinned' = pinned
    BY <1>2 DEF UserQuit
  <2>4. QED
    BY <1>0, <2>1, <2>2, <2>3 DEF TypeOK, NeverGivesUp, TimerOnlyWhenDown,
       WatchdogFollowsLink, RegistersOnce, UpgradeFlagIsTransient, NotYetRegistered,
     UpgradeOwnsRetry
<1>3. CASE UserReconnect
  BY <1>0, <1>3, ReconnectKeepsInv DEF UserReconnect
<1>4. CASE AcceptCertificate
  BY <1>0, <1>4, ReconnectKeepsInv DEF AcceptCertificate
<1>5. CASE RejectCertificate
  BY <1>5 DEF RejectCertificate, TypeOK, NeverGivesUp, TimerOnlyWhenDown,
     WatchdogFollowsLink, RegistersOnce, UpgradeFlagIsTransient, NotYetRegistered,
     UpgradeOwnsRetry
<1>6. CASE OnNetworkOnline
  <2>1. CASE DoReconnect([client EXCEPT !.timer = 0, !.delay = MinDelay])
    <3> DEFINE c == [client EXCEPT !.timer = 0, !.delay = MinDelay]
    <3>1. MinDelay \in MinDelay..MaxDelay
      BY DelayAssumption
    <3>2. /\ c \in Client
          /\ c.stsUpgrade \/ c.pingTimer => sock \in {"connected", "closing"}
      BY <1>0, <3>1 DEF Client
    <3>3. posted' = posted /\ prompt' = prompt /\ pinned' = pinned
      BY <1>6 DEF OnNetworkOnline
    <3>4. DoReconnect(c)
      BY <2>1
    <3> HIDE DEF c
    <3>5. QED
      BY <1>0, <3>2, <3>3, <3>4, DoReconnectKeepsInv
  <2>2. CASE sock \in {"handshake", "connected"} /\ SendPing(client) /\ UNCHANGED link
    BY <1>0, <1>6, <2>2, SendPingKeepsInv DEF OnNetworkOnline
  <2>3. QED
    BY <1>6, <2>1, <2>2 DEF OnNetworkOnline
<1>7. CASE ReconnectTimeout
  <2> DEFINE c == [client EXCEPT !.timer = 0]
  <2>1. /\ c \in Client
        /\ c.stsUpgrade \/ c.pingTimer => sock \in {"connected", "closing"}
    BY <1>0 DEF Client
  <2>2. DoReconnect(c) /\ posted' = posted /\ prompt' = prompt /\ pinned' = pinned
    BY <1>7 DEF ReconnectTimeout
  <2> HIDE DEF c
  <2>3. QED
    BY <1>0, <2>1, <2>2, DoReconnectKeepsInv
<1>8. CASE PingTick
  <2> DEFINE a == IF client.pingPending
                  THEN Lesser(client.age + 1, PingPeriods + 1) ELSE 0
             c == [client EXCEPT !.age = a]
  <2>1. a \in 0..(PingPeriods + 1)
    BY <1>0, PingAssumption DEF Lesser, Client
  <2>2. SendPing(c) /\ client.pingTimer /\ UNCHANGED <<link, posted, prompt, pinned>>
    BY <1>8 DEF PingTick
  <2> HIDE DEF a
  <2>3. /\ c \in Client /\ c.timer = client.timer /\ c.host = client.host
        /\ c.intentional = client.intentional /\ c.stsUpgrade = client.stsUpgrade
        /\ c.pingTimer = client.pingTimer
    BY <1>0, <2>1 DEF Client
  <2> HIDE DEF c
  <2>4. sock \in {"handshake", "connected", "closing"}
    BY <1>0, <2>2
  <2>5. QED
    BY <2>2, <2>3, <2>4, SendPingKeepsInv
<1>9. CASE StsReconnect
  <2> DEFINE r == SockAbort(client)
  <2>1. /\ r \in Client /\ ~r.stsUpgrade /\ ~r.pingTimer
    BY <1>0, SockAbortFacts
  <2>2. Open(r) /\ posted' = FALSE /\ prompt' = prompt /\ pinned' = pinned
    BY <1>9 DEF StsReconnect
  <2>3. r.timer = 0
    <3>1. posted /\ ~webSocket /\ client.timer = 0
      BY <1>9 DEF StsReconnect, UpgradeOwnsRetry
    <3>2. AbortEmits => client.stsUpgrade \/ client.intentional
      BY <3>1 DEF AbortEmits, UpgradeOwnsRetry
    <3>3. QED
      BY <1>0, <3>1, <3>2, SockAbortFacts
  <2> HIDE DEF r
  <2>4. QED
    BY <1>0, <2>1, <2>2, <2>3, OpenKeepsInv
<1>10. CASE Connected
  <2>1. CASE link.tls /\ ~webSocket
    <3>1. /\ client' \in Client /\ client'.timer = client.timer
          /\ client'.pingTimer = client.pingTimer
          /\ client'.stsUpgrade = client.stsUpgrade
      BY <1>0, <1>10, <2>1 DEF Connected, DeferToEncrypted, Client
    <3>2. sock = "connecting" /\ ~posted /\ sock' = "handshake"
      BY <1>10, <2>1 DEF Connected, AttemptMayProgress
    <3>3. UNCHANGED <<link, posted, prompt, pinned>>
      BY <1>10, <2>1 DEF Connected
    <3>4. QED
      BY <1>0, <3>1, <3>2, <3>3 DEF TypeOK, SockState, NeverGivesUp, TimerOnlyWhenDown,
         WatchdogFollowsLink, RegistersOnce, UpgradeFlagIsTransient, NotYetRegistered,
         UpgradeOwnsRetry
  <2>2. CASE ~(link.tls /\ ~webSocket)
    <3>1. /\ sock = "connecting" /\ ~posted /\ client' = Register(client)
          /\ sock' \in {"connected", "closing"}
          /\ link' = [link EXCEPT !.regs = Lesser(@ + 1, 2)]
          /\ UNCHANGED <<posted, prompt, pinned>>
      BY <1>10, <2>2 DEF Connected, AttemptMayProgress
    <3>2. link.regs = 0
      BY <3>1 DEF NotYetRegistered
    <3>3. link' \in Link /\ link'.regs = 1
      BY <1>0, <3>1, <3>2 DEF Link, Lesser
    <3>4. /\ client' \in Client /\ client'.timer = 0 /\ client'.pingTimer
          /\ client'.stsUpgrade = client.stsUpgrade
      BY <1>0, <3>1, RegisterFacts
    <3>5. QED
      BY <1>0, <3>1, <3>3, <3>4 DEF TypeOK, SockState, NeverGivesUp, TimerOnlyWhenDown,
         WatchdogFollowsLink, RegistersOnce, UpgradeFlagIsTransient, NotYetRegistered,
         UpgradeOwnsRetry
  <2>3. QED
    BY <2>1, <2>2
<1>11. CASE Encrypted
  <2>1. /\ sock = "handshake" /\ client.hooks = 1 /\ link.regs = 0
        /\ client' = [Register(client) EXCEPT !.hooks = 0]
        /\ sock' \in {"connected", "closing"}
        /\ link' = [link EXCEPT !.regs = Lesser(@ + client.hooks, 2)]
        /\ UNCHANGED <<posted, prompt, pinned>>
    BY <1>0, <1>11 DEF Encrypted, NotYetRegistered, Client
  <2>2. link' \in Link /\ link'.regs = 1
    BY <1>0, <2>1 DEF Link, Lesser
  <2>3. /\ Register(client) \in Client /\ Register(client).timer = 0
        /\ Register(client).pingTimer
        /\ Register(client).intentional = client.intentional
        /\ Register(client).stsUpgrade = client.stsUpgrade
    BY <1>0, RegisterFacts
  <2>4. /\ client' \in Client /\ client'.timer = 0 /\ client'.pingTimer
        /\ client'.intentional = client.intentional
        /\ client'.stsUpgrade = client.stsUpgrade
    BY <2>1, <2>3 DEF Client
  <2>5. QED
    BY <1>0, <2>1, <2>2, <2>4 DEF TypeOK, SockState, NeverGivesUp, TimerOnlyWhenDown,
       WatchdogFollowsLink, RegistersOnce, UpgradeFlagIsTransient, NotYetRegistered,
       UpgradeOwnsRetry
<1>12. CASE AskForPin
  <2> DEFINE c == [client EXCEPT !.intentional = TRUE]
  <2>1. /\ c \in Client /\ c.intentional /\ c.timer = client.timer
        /\ c.stsUpgrade \/ c.pingTimer => sock \in {"connected", "closing"}
    BY <1>0 DEF Client
  <2>2. sock # "unconnected" /\ client.timer = 0
    BY <1>12 DEF AskForPin, AttemptMayProgress, TimerOnlyWhenDown
  <2>3. /\ client' = SockAbort(c) /\ sock' = "unconnected" /\ prompt' = TRUE
        /\ UNCHANGED <<link, posted, pinned>>
    BY <1>12 DEF AskForPin
  <2> HIDE DEF c
  <2>4. /\ client' \in Client /\ client'.intentional /\ client'.timer = 0
        /\ ~client'.stsUpgrade /\ ~client'.pingTimer
    BY <2>1, <2>2, <2>3, SockAbortFacts
  <2>5. QED
    BY <1>0, <2>3, <2>4 DEF TypeOK, SockState, NeverGivesUp, TimerOnlyWhenDown,
       WatchdogFollowsLink, RegistersOnce, UpgradeFlagIsTransient, NotYetRegistered,
       UpgradeOwnsRetry
<1>13. CASE RefuseCertificate
  <2>1. /\ UNCHANGED <<client, posted, prompt, pinned>>
        /\ \/ sock = "handshake" /\ sock' = "closing" /\ link' = link
           \/ sock = "connecting" /\ sock' = sock /\ link' = [link EXCEPT !.closing = TRUE]
    BY <1>13 DEF RefuseCertificate, SockDisconnect, AttemptMayProgress
  <2>2. link' \in Link /\ link'.regs = link.regs
    BY <1>0, <2>1 DEF Link
  <2>3. QED
    BY <1>0, <2>1, <2>2 DEF TypeOK, SockState, NeverGivesUp, TimerOnlyWhenDown,
       WatchdogFollowsLink, RegistersOnce, UpgradeFlagIsTransient, NotYetRegistered,
       UpgradeOwnsRetry
<1>14. CASE AttemptFails
  <2>1. /\ sock = "connecting" /\ ~posted /\ sock' = "unconnected"
        /\ UNCHANGED <<link, posted, prompt, pinned>>
    BY <1>14 DEF AttemptFails, AttemptMayProgress
  <2>2. ~client.stsUpgrade /\ ~client.pingTimer /\ client.timer = 0
    BY <2>1 DEF UpgradeFlagIsTransient, WatchdogFollowsLink, TimerOnlyWhenDown
  <2> DEFINE c == IF webSocket THEN OnDisconnected(client) ELSE client
  <2>3. /\ c \in Client /\ ~c.stsUpgrade /\ ~c.pingTimer
        /\ c.intentional => c.timer = 0
        /\ c.host = client.host /\ c.intentional = client.intentional
    BY <1>0, <2>2, OnDisconnectedFacts
  <2>4. client' = ScheduleReconnect(c)
    BY <1>14 DEF AttemptFails
  <2> HIDE DEF c
  <2>5. /\ client' \in Client
        /\ client'.timer # 0 \/ client'.intentional \/ ~client'.host
        /\ client'.intentional => client'.timer = 0
        /\ ~client'.stsUpgrade /\ ~client'.pingTimer
    BY <2>3, <2>4, ScheduleReconnectFacts
  <2>6. QED
    BY <1>0, <2>1, <2>5 DEF TypeOK, SockState, NeverGivesUp, TimerOnlyWhenDown,
       WatchdogFollowsLink, RegistersOnce, UpgradeFlagIsTransient, NotYetRegistered,
       UpgradeOwnsRetry
<1>15. CASE LinkLost
  BY <1>0, <1>15, LinkEndKeepsInv DEF LinkLost
<1>16. CASE GoesSilent
  <2>1. link' \in Link /\ link'.regs = link.regs
    BY <1>0, <1>16 DEF GoesSilent, Link
  <2>2. QED
    BY <1>16, <2>1 DEF GoesSilent, TypeOK, NeverGivesUp, TimerOnlyWhenDown,
       WatchdogFollowsLink, RegistersOnce, UpgradeFlagIsTransient, NotYetRegistered,
       UpgradeOwnsRetry
<1>17. CASE RecvPong
  <2>1. 0 \in 0..(PingPeriods + 1)
    BY PingAssumption
  <2>2. /\ client' \in Client /\ client'.timer = client.timer
        /\ client'.host = client.host /\ client'.intentional = client.intentional
        /\ client'.pingTimer = client.pingTimer
        /\ client'.stsUpgrade = client.stsUpgrade
    BY <1>0, <1>17, <2>1 DEF RecvPong, Client
  <2>3. UNCHANGED <<sock, link, posted, prompt, pinned>>
    BY <1>17 DEF RecvPong
  <2>4. QED
    BY <2>2, <2>3 DEF TypeOK, NeverGivesUp, TimerOnlyWhenDown,
       WatchdogFollowsLink, RegistersOnce, UpgradeFlagIsTransient, NotYetRegistered,
       UpgradeOwnsRetry
<1>18. CASE RecvStsPolicy
  <2>1. /\ client' \in Client /\ client'.timer = client.timer
        /\ client'.host = client.host /\ client'.intentional = client.intentional
        /\ client'.pingTimer = client.pingTimer /\ client'.stsUpgrade
    BY <1>0, <1>18 DEF RecvStsPolicy, Client
  <2>2. /\ sock = "connected" /\ ~webSocket /\ posted' = TRUE
        /\ UNCHANGED <<sock, link, prompt, pinned>>
    BY <1>18 DEF RecvStsPolicy
  <2>3. QED
    BY <2>1, <2>2 DEF TypeOK, NeverGivesUp, TimerOnlyWhenDown,
       WatchdogFollowsLink, RegistersOnce, UpgradeFlagIsTransient, NotYetRegistered,
       UpgradeOwnsRetry
<1>19. CASE UNCHANGED vars
  BY <1>19 DEF vars, connection, TypeOK, NeverGivesUp, TimerOnlyWhenDown,
     WatchdogFollowsLink, RegistersOnce, UpgradeFlagIsTransient, NotYetRegistered,
     UpgradeOwnsRetry
<1>20. QED
  BY <1>1, <1>2, <1>3, <1>4, <1>5, <1>6, <1>7, <1>8, <1>9, <1>10, <1>11, <1>12, <1>13,
     <1>14, <1>15, <1>16, <1>17, <1>18, <1>19 DEF Next

LEMMA InvAlways == Spec => []Inv
<1>1. QED
  BY InitInv, StepInv, PTL DEF Spec

----------------------------------------------------------------------------
(* The theorems.                                                           *)

\* Every reachable state of the connection has the declared types, for every
\* delay, cap, ping limit and transport.
THEOREM TypeCorrect == Spec => []TypeOK
<1>1. Inv => TypeOK
  BY DEF Inv
<1>2. QED
  BY <1>1, InvAlways, PTL

\* A client that was not told to stop always has a socket open, a reconnect
\* armed or an upgrade queued: no sequence of failures strands it.
THEOREM ClientNeverGivesUp == Spec => []NeverGivesUp
<1>1. Inv => NeverGivesUp
  BY DEF Inv
<1>2. QED
  BY <1>1, InvAlways, PTL

\* The reconnect timer never runs beside an attempt or a link, nor after a
\* deliberate disconnect.
THEOREM TimerNeverStrays == Spec => []TimerOnlyWhenDown
<1>1. Inv => TimerOnlyWhenDown
  BY DEF Inv
<1>2. QED
  BY <1>1, InvAlways, PTL

\* The watchdog runs on every registered link and on none that is gone.
THEOREM WatchdogCorrect == Spec => []WatchdogFollowsLink
<1>1. Inv => WatchdogFollowsLink
  BY DEF Inv
<1>2. QED
  BY <1>1, InvAlways, PTL

\* Registration runs at most once per link, however many handshakes failed.
THEOREM RegistrationOnce == Spec => []RegistersOnce
<1>1. Inv => RegistersOnce
  BY DEF Inv
<1>2. QED
  BY <1>1, InvAlways, PTL

\* A suppressed reconnect is always backed by the queued upgrade.
THEOREM UpgradeFlagBacked == Spec => []UpgradeFlagIsTransient
<1>1. Inv => UpgradeFlagIsTransient
  BY DEF Inv
<1>2. QED
  BY <1>1, InvAlways, PTL

\* The state of a connection is sound: types, retries, timer and registration.
THEOREM ConnectionSound == Spec => []ConnectionInv
<1>1. Inv => ConnectionInv
  BY DEF Inv, ConnectionInv
<1>2. QED
  BY <1>1, InvAlways, PTL

----------------------------------------------------------------------------
(* The delay, and what opens a socket.                                      *)

\* Neither a failure nor an abort makes the delay shorter.
LEMMA DelayGrows ==
  ASSUME NEW c \in Client
  PROVE  /\ ScheduleReconnect(c).delay >= c.delay
         /\ OnDisconnected(c).delay >= c.delay
         /\ SockAbort(c) \in Client /\ SockAbort(c).delay >= c.delay
         /\ OnDisconnected(c).intentional = c.intentional
         /\ SockAbort(c).intentional = c.intentional
<1>1. ASSUME NEW d \in Client
      PROVE  /\ ScheduleReconnect(d).delay >= d.delay
             /\ ScheduleReconnect(d).intentional = d.intentional
             /\ ScheduleReconnect(d) \in Client
  <2>1. d.delay \in MinDelay..MaxDelay /\ d.delay \in Nat
    BY <1>1, DelayAssumption DEF Client
  <2>2. Lesser(2 * d.delay, MaxDelay) >= d.delay
    BY <2>1, DelayAssumption DEF Lesser
  <2>3. ScheduleReconnect(d) \in Client /\ ScheduleReconnect(d).intentional = d.intentional
    BY <1>1, ScheduleReconnectFacts
  <2>4. ScheduleReconnect(d).delay >= d.delay
    BY <1>1, <2>1, <2>2 DEF ScheduleReconnect, Client
  <2>5. QED
    BY <2>3, <2>4
<1>2. /\ OnDisconnected(c).delay >= c.delay
      /\ OnDisconnected(c).intentional = c.intentional
  <2> DEFINE s == IF c.stsUpgrade THEN c ELSE ScheduleReconnect(c)
  <2>1. s \in Client /\ s.delay >= c.delay /\ s.intentional = c.intentional
    <3>1. c.delay \in Nat
      BY DelayAssumption DEF Client
    <3>2. QED
      BY <1>1, <3>1
  <2>2. OnDisconnected(c) = [s EXCEPT !.pingTimer = FALSE, !.pingPending = FALSE,
                                      !.age = 0, !.stsUpgrade = FALSE]
    BY DEF OnDisconnected
  <2> HIDE DEF s
  <2>3. QED
    BY <2>1, <2>2 DEF Client
<1>3. c.delay \in Nat
  BY DelayAssumption DEF Client
<1>4. OnDisconnected(c) \in Client
  BY OnDisconnectedFacts
<1>5. QED
  BY <1>1, <1>2, <1>3, <1>4 DEF SockAbort

\* The backoff shrinks only with a registered link or by the user or the
\* network, and a deliberate disconnect is undone by the upgrade alone.
Duly ==
  /\ client'.delay < client.delay =>
       \/ link'.regs > link.regs
       \/ ConnectToServer \/ UserReconnect \/ AcceptCertificate \/ OnNetworkOnline
  /\ client.intentional /\ client'.intentional /\ sock # "connecting" =>
       sock' # "connecting" \/ StsReconnect

LEMMA StepDuly == Inv /\ [Next]_vars => Duly \/ UNCHANGED vars
<1> SUFFICES ASSUME Inv, Next
             PROVE  Duly
  OBVIOUS
<1>0. client \in Client /\ client.delay \in Nat
  BY DelayAssumption DEF Inv, TypeOK, Client
<1>1. CASE ConnectToServer
  <2>1. ~client'.intentional
    <3> DEFINE c == [client EXCEPT !.timer = 0, !.intentional = FALSE,
                                   !.delay = MinDelay, !.host = TRUE, !.ssl = configSsl]
    <3>0. configSsl \in BOOLEAN /\ MinDelay \in MinDelay..MaxDelay
      BY DelayAssumption DEF Inv, TypeOK
    <3>1. c \in Client /\ ~c.intentional
      BY <1>0, <3>0 DEF Client
    <3>2. client' = [SockAbort(c) EXCEPT !.timer = 0]
      BY <1>1 DEF ConnectToServer, Open, StopTimer
    <3> HIDE DEF c
    <3>3. SockAbort(c) \in Client /\ ~SockAbort(c).intentional
      BY <3>1, DelayGrows
    <3>4. QED
      BY <3>2, <3>3 DEF Client
  <2>2. QED
    BY <1>1, <2>1 DEF Duly
<1>2. CASE UserReconnect \/ AcceptCertificate
  <2> DEFINE c == [client EXCEPT !.intentional = FALSE, !.timer = 0, !.delay = MinDelay]
  <2>0. MinDelay \in MinDelay..MaxDelay
    BY DelayAssumption
  <2>1. c \in Client /\ ~c.intentional
    BY <1>0, <2>0 DEF Client
  <2>2. client' = [SockAbort(c) EXCEPT !.timer = 0]
    BY <1>2 DEF UserReconnect, AcceptCertificate, Reconnect, DoReconnect, Open, StopTimer
  <2> HIDE DEF c
  <2>3. SockAbort(c) \in Client /\ ~SockAbort(c).intentional
    BY <2>1, DelayGrows
  <2>4. ~client'.intentional
    BY <2>2, <2>3 DEF Client
  <2>5. QED
    BY <1>2, <2>4 DEF Duly
<1>3. CASE OnNetworkOnline
  BY <1>3 DEF Duly, OnNetworkOnline
<1>4. CASE ReconnectTimeout
  <2>1. ~client.intentional
    BY <1>4 DEF ReconnectTimeout, Inv, TimerOnlyWhenDown
  <2> DEFINE c == [client EXCEPT !.timer = 0]
  <2>2. c \in Client /\ c.delay = client.delay
    BY <1>0 DEF Client
  <2>3. client' = [SockAbort(c) EXCEPT !.timer = 0]
    BY <1>4 DEF ReconnectTimeout, DoReconnect, Open, StopTimer
  <2> HIDE DEF c
  <2>4. client'.delay >= client.delay
    BY <2>2, <2>3, DelayGrows DEF Client
  <2>5. client'.delay \in Nat
    BY <2>2, <2>3, DelayGrows, DelayAssumption DEF Client
  <2>6. QED
    BY <1>0, <2>1, <2>4, <2>5 DEF Duly
<1>5. CASE PingTick
  <2> DEFINE c == [client EXCEPT !.age = IF client.pingPending
                                     THEN Lesser(client.age + 1, PingPeriods + 1) ELSE 0]
  <2>1. c \in Client /\ c.delay = client.delay
    <3>1. client.age \in 0..PingPeriods + 1
      BY <1>0 DEF Client
    <3>2. Lesser(client.age + 1, PingPeriods + 1) \in 0..PingPeriods + 1
          /\ 0 \in 0..PingPeriods + 1
      BY <3>1, PingAssumption DEF Lesser
    <3>3. QED
      BY <1>0, <3>2 DEF Client
  <2>2. SendPing(c)
    BY <1>5 DEF PingTick
  <2> HIDE DEF c
  <2>3. /\ client' \in Client /\ client'.delay >= c.delay
        /\ sock' = "unconnected" \/ sock' = sock
    <3>1. 0 \in 0..PingPeriods + 1
      BY PingAssumption
    <3>2. SockAbort(c) \in Client /\ SockAbort(c).delay >= c.delay
      BY <2>1, DelayGrows
    <3>3. c.delay \in Nat
      BY <1>0, <2>1
    <3>4. PICK late \in Overdue(c) :
            IF late
            THEN client' = SockAbort(c) /\ sock' = "unconnected"
            ELSE /\ client' = IF c.pingPending THEN c
                              ELSE [c EXCEPT !.pingPending = TRUE, !.age = 0]
                 /\ UNCHANGED sock
      BY <2>2 DEF SendPing
    <3>5. [c EXCEPT !.pingPending = TRUE, !.age = 0] \in Client
      BY <2>1, <3>1 DEF Client
    <3>6. [c EXCEPT !.pingPending = TRUE, !.age = 0].delay = c.delay
      BY <2>1 DEF Client
    <3>7. CASE late
      BY <3>2, <3>4, <3>7
    <3>8. CASE ~late
      <4>1. client' = c \/ client' = [c EXCEPT !.pingPending = TRUE, !.age = 0]
        BY <3>4, <3>8
      <4>2. sock' = sock
        BY <3>4, <3>8
      <4>3. client' \in Client /\ client'.delay = c.delay
        BY <2>1, <3>5, <3>6, <4>1
      <4>4. QED
        BY <3>3, <4>2, <4>3
    <3>9. QED
      BY <3>7, <3>8
  <2>4. client'.delay \in Nat
    BY <2>3, DelayAssumption DEF Client
  <2>5. QED
    BY <1>0, <2>1, <2>3, <2>4 DEF Duly
<1>6. CASE StsReconnect
  <2>1. client' = SockAbort(client)
    BY <1>6 DEF StsReconnect, Open
  <2>2. SockAbort(client) \in Client /\ SockAbort(client).delay >= client.delay
    BY <1>0, DelayGrows
  <2>3. client'.delay \in Nat
    BY <2>1, <2>2, DelayAssumption DEF Client
  <2>4. QED
    BY <1>0, <1>6, <2>1, <2>2, <2>3 DEF Duly
<1>7. CASE Connected
  <2>1. link \in Link /\ link.regs = 0 /\ sock = "connecting"
    BY <1>7 DEF Connected, AttemptMayProgress, Inv, TypeOK, NotYetRegistered
  <2>2. CASE link.tls /\ ~webSocket
    BY <1>0, <1>7, <2>1, <2>2 DEF Connected, DeferToEncrypted, Client, Duly
  <2>3. CASE ~(link.tls /\ ~webSocket)
    BY <1>7, <2>1, <2>3 DEF Connected, Lesser, Link, Duly
  <2>4. QED
    BY <2>2, <2>3
<1>8. CASE Encrypted
  <2>1. link \in Link /\ link.regs = 0 /\ client.hooks \in Nat /\ client.hooks > 0
    BY <1>0, <1>8 DEF Encrypted, Inv, TypeOK, NotYetRegistered, Client
  <2>2. QED
    BY <1>8, <2>1 DEF Encrypted, Lesser, Link, Duly
<1>9. CASE AskForPin
  <2> DEFINE c == [client EXCEPT !.intentional = TRUE]
  <2>1. c \in Client /\ c.delay = client.delay
    BY <1>0 DEF Client
  <2>2. client' = SockAbort(c) /\ sock' = "unconnected"
    BY <1>9 DEF AskForPin
  <2> HIDE DEF c
  <2>3. client' \in Client /\ client'.delay >= client.delay
    BY <2>1, <2>2, DelayGrows
  <2>4. client'.delay \in Nat
    BY <2>3, DelayAssumption DEF Client
  <2>5. QED
    BY <1>0, <2>2, <2>3, <2>4 DEF Duly
<1>10. CASE AttemptFails \/ LinkLost
  <2> DEFINE c == IF webSocket THEN OnDisconnected(client) ELSE client
  <2>1. c \in Client /\ c.delay >= client.delay /\ OnDisconnected(client) \in Client
    BY <1>0, DelayGrows, OnDisconnectedFacts
  <2>2. client' = ScheduleReconnect(c) \/ client' = OnDisconnected(client)
    BY <1>10 DEF AttemptFails, LinkLost
  <2>3. sock' = "unconnected"
    BY <1>10 DEF AttemptFails, LinkLost
  <2> HIDE DEF c
  <2>4. ScheduleReconnect(c) \in Client /\ ScheduleReconnect(c).delay >= c.delay
    BY <2>1, DelayGrows, ScheduleReconnectFacts
  <2>5. c.delay \in Nat /\ ScheduleReconnect(c).delay \in Nat /\ OnDisconnected(client).delay \in Nat
    BY <2>1, <2>4, DelayAssumption DEF Client
  <2>6. client'.delay >= client.delay /\ client'.delay \in Nat
    BY <1>0, <2>1, <2>2, <2>4, <2>5, DelayGrows
  <2>7. QED
    BY <1>0, <2>3, <2>6 DEF Duly
<1>11. CASE UserQuit
  <2>1. client'.delay = client.delay
    BY <1>0, <1>11 DEF UserQuit, Client
  <2>2. sock' = sock \/ sock' = "closing"
    BY <1>11 DEF UserQuit, SockDisconnect
  <2>3. QED
    BY <1>0, <2>1, <2>2 DEF Duly
<1>12. CASE RefuseCertificate
  BY <1>0, <1>12 DEF RefuseCertificate, SockDisconnect, Duly
<1>13. CASE RejectCertificate \/ GoesSilent \/ RecvPong \/ RecvStsPolicy
  <2>1. client'.delay = client.delay
    BY <1>0, <1>13 DEF RejectCertificate, GoesSilent, RecvPong, RecvStsPolicy, Client
  <2>2. sock' = sock
    BY <1>13 DEF RejectCertificate, GoesSilent, RecvPong, RecvStsPolicy
  <2>3. QED
    BY <1>0, <2>1, <2>2 DEF Duly
<1>14. QED
  BY <1>1, <1>2, <1>3, <1>4, <1>5, <1>6, <1>7, <1>8, <1>9, <1>10, <1>11, <1>12, <1>13 DEF Next

\* The client reconnects as often and as late as it is due, for every delay,
\* cap and transport and whatever fails.
THEOREM ReconnectsWhenDue == Spec => ReconnectsDuly
<1>1. Inv /\ [Next]_vars => [Duly]_vars
  BY StepDuly
<1>2. [Duly]_vars =>
        /\ [client'.delay < client.delay =>
              \/ link'.regs > link.regs
              \/ ConnectToServer \/ UserReconnect \/ AcceptCertificate \/ OnNetworkOnline]_vars
        /\ [client.intentional /\ client'.intentional /\ sock # "connecting" =>
              sock' # "connecting" \/ StsReconnect]_vars
  BY DEF Duly
<1>3. QED
  BY <1>1, <1>2, InvAlways, PTL DEF Spec, ReconnectsDuly, BackoffKeepsGrowing, OnlyUpgradeReopens

=============================================================================
