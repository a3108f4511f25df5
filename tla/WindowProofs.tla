---------------------------- MODULE WindowProofs ----------------------------
(***************************************************************************)
(* Proofs about Previews, Compose and ChatWindow, for every constant that  *)
(* their assumptions admit.                                                *)
(*                                                                         *)
(* Previews: its types, that no place in the queue is lost, and that a     *)
(* card is stored for the message that waits for it, once.  Every step     *)
(* gives back, or takes, one place and ends in processQueue.  What is      *)
(* wanted is in the slot or in the queue before processQueue runs          *)
(* (Waiting); it leaves the slot taken, or the queue empty (SlotTaken).    *)
(*                                                                         *)
(* Compose: its types, that no buffer is left believing that the user      *)
(* types in it, and that a text goes out whole.  Each operation on the     *)
(* inputs leaves them as they may be and leaves settled what was settled   *)
(* (Lawful); a step is a few operations on end (LawfulOn).  What privmsg   *)
(* sends is a run of lines, each of as many whole characters as it has     *)
(* room for (GoodLines), by induction from the end of the text.            *)
(*                                                                         *)
(* ChatWindow: its types, and that a view which does not show its end      *)
(* offers the way there.  Every call on a view leaves a sound one          *)
(* (SoundView): the offsets of its lines add up, the bar is as long as the *)
(* lines make it, and the view is at its end, or has its button, or has    *)
(* left it by the user's hand, with its button.  MainWindow's handlers are *)
(* such calls one after another, on a screen that is not empty (AtRest).   *)
(***************************************************************************)
EXTENDS Previews, Compose, ChatWindow, TLAPS, SequenceTheorems, FiniteSetTheorems,
        WellFoundedInduction

-----------------------------------------------------------------------------
(* Previews.                                                               *)

Page == [at : {"idle", "lookup", "get", "picture"},
         link : Addresses \cup {Nothing}, hops : 0..MaxHops]
Card == [link : Links, message : Nat]
Fetch(n) ==
  [queue : Seq(Links), wanted : [Links -> 0..n], inFlight : Links \cup {Nothing},
   page : Page, pictures : [Addresses -> Nat], cache : Seq(Addresses), cards : SUBSET Card]

FetchOK(f, n) ==
  /\ f \in Fetch(n)
  /\ Len(f.queue) =< MaxQueue
  /\ f.page.at # "idle" => f.page.link \in Addresses
  /\ IsInjective(f.cache) /\ Len(f.cache) =< MaxCache

Waiting(f) ==
  \A u \in Links : f.wanted[u] # 0 => u = f.inFlight \/ Contains(f.queue, u)

SlotTaken(f) == f.inFlight = Nothing => f.queue = <<>>

Inv ==
  /\ FetchOK(fetch, asked)
  /\ Waiting(fetch)
  /\ SlotTaken(fetch)
  /\ asked \in 0..MaxAsked

\* The cards that g has and f has not are for who waited, and waits no more.
CardsFrom(f, g) ==
  /\ \A u \in Links : g.wanted[u] \in {0, f.wanted[u]}
  /\ \A c \in g.cards \ f.cards :
       /\ c \in Card /\ c.message # 0 /\ c.message = f.wanted[c.link]
       /\ g.wanted[c.link] = 0

----------------------------------------------------------------------------
(* processQueue.                                                           *)

\* A set of natural numbers has a least one.
LEMMA Least ==
  ASSUME NEW S \in SUBSET Nat, S # {}
  PROVE  \E k \in S : \A j \in S : k =< j
<1> DEFINE R == {ss \in Nat \X Nat : ss[1] < ss[2]}
<1>1. OpToRel(<, Nat) = R
  BY Zenon DEF OpToRel
<1>2. IsWellFoundedOn(R, Nat)
  BY NatLessThanWellFounded, <1>1, Zenon
<1>3. S \subseteq Nat
  OBVIOUS
<1> HIDE DEF R
<1>4. PICK k \in S : \A j \in S : ~(<<j, k>> \in R)
  BY <1>2, <1>3, WFMin, Zenon
<1>5. ASSUME NEW j \in S
      PROVE  k =< j
  <2>1. <<j, k>> \in Nat \X Nat /\ ~(<<j, k>> \in R)
    BY <1>3, <1>4
  <2>2. ~(j < k)
    BY <2>1 DEF R
  <2>3. QED
    BY <1>3, <2>2
<1>6. QED
  BY <1>5

LEMMA FirstIsDue ==
  ASSUME NEW f, f.queue \in Seq(Links), ToFetch(f) # {}
  PROVE  /\ FirstToFetch(f) \in 1..Len(f.queue)
         /\ \A j \in ToFetch(f) : FirstToFetch(f) =< j
<1>1. ToFetch(f) \in SUBSET (1..Len(f.queue)) /\ Len(f.queue) \in Nat
  BY DEF ToFetch
<1>2. \E k \in ToFetch(f) : \A j \in ToFetch(f) : k =< j
  BY <1>1, Least
<1>3. FirstToFetch(f) \in ToFetch(f) /\ \A j \in ToFetch(f) : FirstToFetch(f) =< j
  BY <1>2 DEF FirstToFetch
<1>4. QED
  BY <1>1, <1>3

\* What passing over links does to a fetch.
LEMMA PassedOverOK ==
  ASSUME NEW n \in Nat, NEW f, FetchOK(f, n)
  PROVE  /\ PassedOver(f) \in Fetch(n)
         /\ PassedOver(f).queue = f.queue /\ PassedOver(f).inFlight = f.inFlight
         /\ PassedOver(f).pictures = f.pictures /\ PassedOver(f).cache = f.cache
         /\ \A u \in Links : PassedOver(f).wanted[u] =
                               IF u \in Passed(f) THEN 0 ELSE f.wanted[u]
         /\ CardsFrom(f, PassedOver(f))
<1> DEFINE w == [u \in Links |-> IF u \in Passed(f) THEN 0 ELSE f.wanted[u]]
           cs == CardsFor(f, Passed(f) \ Refused)
<1>1. f \in Fetch(n)
  BY DEF FetchOK
<1>2. /\ f.queue \in Seq(Links) /\ f.wanted \in [Links -> 0..n] /\ DOMAIN f.wanted = Links
      /\ f.cards \in SUBSET Card
  BY <1>1 DEF Fetch
<1>3. Passed(f) \subseteq Links
  BY <1>2 DEF Passed
<1>4. \A c \in cs : /\ c \in Card /\ c.message # 0 /\ c.message = f.wanted[c.link]
                    /\ c.link \in Passed(f)
  BY <1>2, <1>3 DEF CardsFor, Card
<1>5. w \in [Links -> 0..n]
  BY <1>2
<1>6. PassedOver(f) = [f EXCEPT !.wanted = w, !.cards = f.cards \cup cs]
  BY <1>2 DEF PassedOver
<1>7. f.cards \cup cs \in SUBSET Card
  BY <1>2, <1>4
<1>8. \A u \in Links : w[u] = IF u \in Passed(f) THEN 0 ELSE f.wanted[u]
  OBVIOUS
<1> HIDE DEF w, cs
<1>9. PassedOver(f) \in Fetch(n)
  BY <1>1, <1>5, <1>6, <1>7 DEF Fetch
<1>10. /\ PassedOver(f).queue = f.queue /\ PassedOver(f).inFlight = f.inFlight
       /\ PassedOver(f).pictures = f.pictures /\ PassedOver(f).cache = f.cache
       /\ PassedOver(f).wanted = w /\ PassedOver(f).cards = f.cards \cup cs
  BY <1>1, <1>6 DEF Fetch
<1>11. CardsFrom(f, PassedOver(f))
  BY <1>3, <1>4, <1>8, <1>10 DEF CardsFrom
<1>12. QED
  BY <1>8, <1>9, <1>10, <1>11

LEMMA ProcessOK ==
  ASSUME NEW n \in Nat, NEW f, FetchOK(f, n), Waiting(f)
  PROVE  /\ FetchOK(ProcessQueue(f), n)
         /\ Waiting(ProcessQueue(f)) /\ SlotTaken(ProcessQueue(f))
         /\ CardsFrom(f, ProcessQueue(f))
<1> DEFINE p == PassedOver(f)
           g == ProcessQueue(f)
<1>1. /\ p \in Fetch(n) /\ p.queue = f.queue /\ p.inFlight = f.inFlight
      /\ p.pictures = f.pictures /\ p.cache = f.cache
      /\ \A u \in Links : p.wanted[u] = IF u \in Passed(f) THEN 0 ELSE f.wanted[u]
      /\ CardsFrom(f, p)
  BY PassedOverOK
<1>2. /\ f \in Fetch(n) /\ f.queue \in Seq(Links) /\ Len(f.queue) \in Nat
      /\ Len(f.queue) =< MaxQueue /\ IsInjective(f.cache) /\ Len(f.cache) =< MaxCache
      /\ f.wanted \in [Links -> 0..n] /\ f.inFlight \in Links \cup {Nothing}
  BY DEF FetchOK, Fetch
<1>3. MaxQueue \in Nat /\ MaxHops \in Nat
  BY FetchAssumption
<1>4. \A h : CardsFrom(f, p) /\ h.wanted = p.wanted /\ h.cards = p.cards => CardsFrom(f, h)
  BY DEF CardsFrom
<1>5. CASE f.inFlight # Nothing \/ f.queue = <<>>
  <2>1. g = f
    BY <1>5 DEF ProcessQueue
  <2>2. CardsFrom(f, f)
    BY <1>2 DEF CardsFrom
  <2>3. QED
    BY <1>5, <2>1, <2>2 DEF SlotTaken
<1>6. CASE f.inFlight = Nothing /\ f.queue # <<>> /\ ToFetch(f) = {}
  <2> DEFINE page == [Idle EXCEPT !.link = Last(f.queue)]
  <2>1. g = [p EXCEPT !.queue = <<>>, !.page = page]
    BY <1>6 DEF ProcessQueue
  <2>2. Last(f.queue) \in Links
    <3>1. Len(f.queue) \in 1..Len(f.queue)
      BY <1>2, <1>6
    <3>2. QED
      BY <1>2, <3>1 DEF Last
  <2>3. page \in Page /\ page.at = "idle"
    BY <1>3, <2>2 DEF Page, Idle, Addresses
  <2>4. <<>> \in Seq(Links) /\ Len(<<>>) = 0
    OBVIOUS
  <2> HIDE DEF p, g, page
  <2>5. /\ g \in Fetch(n) /\ g.queue = <<>> /\ g.page = page /\ g.cache = f.cache
        /\ g.wanted = p.wanted /\ g.cards = p.cards /\ g.inFlight = Nothing
    BY <1>1, <1>6, <2>1, <2>3, <2>4 DEF Fetch
  <2>6. FetchOK(g, n)
    BY <1>2, <1>3, <2>3, <2>4, <2>5 DEF FetchOK
  <2>7. \A u \in Links : p.wanted[u] = 0
    <3>1. \A u \in Links : Contains(f.queue, u) => u \in Passed(f)
      BY <1>2, <1>6 DEF Passed, Contains
    <3>2. Nothing \notin Links
      BY LinksAssumption
    <3>3. QED
      BY <1>1, <1>6, <3>1, <3>2 DEF Waiting
  <2>8. Waiting(g) /\ SlotTaken(g)
    BY <2>5, <2>7 DEF Waiting, SlotTaken
  <2>9. CardsFrom(f, g)
    BY <1>1, <1>4, <2>5
  <2>10. QED
    BY <2>6, <2>8, <2>9 DEF g
<1>7. CASE f.inFlight = Nothing /\ f.queue # <<>> /\ ToFetch(f) # {}
  <2> DEFINE k == FirstToFetch(f)
             u == f.queue[k]
             q == SubSeq(f.queue, k + 1, Len(f.queue))
             page == [at |-> "lookup", link |-> u, hops |-> 0]
  <2>1. k \in 1..Len(f.queue) /\ \A j \in ToFetch(f) : k =< j
    BY <1>2, <1>7, FirstIsDue
  <2>2. u \in Links /\ page \in Page /\ page.at = "lookup" /\ page.link = u
    BY <1>2, <1>3, <2>1 DEF Page, Addresses
  <2>3. g = [p EXCEPT !.queue = q, !.inFlight = u, !.page = page]
    BY <1>1, <1>7 DEF ProcessQueue
  <2>4. /\ q \in Seq(Links) /\ Len(q) = Len(f.queue) - k
        /\ \A i \in 1..Len(f.queue) - k : q[i] = f.queue[k + i]
    <3>1. \A i \in k + 1 .. Len(f.queue) : f.queue[i] \in Links
      BY <1>2, <2>1
    <3>2. k + 1 \in Int /\ Len(f.queue) \in Int
      BY <1>2, <2>1
    <3> HIDE DEF k
    <3>3. QED
      BY <1>2, <2>1, <3>1, <3>2, SubSeqProperties
  <2>5. \A w \in Links : Contains(f.queue, w) => w \in Passed(f) \/ w = u \/ Contains(q, w)
    <3> SUFFICES ASSUME NEW w \in Links, Contains(f.queue, w)
                 PROVE  w \in Passed(f) \/ w = u \/ Contains(q, w)
      OBVIOUS
    <3>1. PICK i \in 1..Len(f.queue) : f.queue[i] = w
      BY DEF Contains
    <3>2. CASE i < k
      <4>1. \A j \in ToFetch(f) : i < j
        <5>1. ToFetch(f) \subseteq Nat
          BY <1>2 DEF ToFetch
        <5>2. QED
          BY <1>2, <2>1, <3>2, <5>1
      <4>2. QED
        BY <1>2, <3>1, <4>1 DEF Passed
    <3>3. CASE i = k
      BY <3>1, <3>3
    <3>4. CASE i > k
      <4> HIDE DEF k, q
      <4>1. i - k \in 1..Len(f.queue) - k /\ k + (i - k) = i
        BY <1>2, <2>1, <3>4
      <4>2. i - k \in 1..Len(q) /\ q[i - k] = w
        BY <2>4, <3>1, <4>1
      <4>3. QED
        BY <4>2 DEF Contains
    <3>5. QED
      BY <1>2, <2>1, <3>2, <3>3, <3>4
  <2> HIDE DEF p, g, page, q, k, u
  <2>6. /\ g \in Fetch(n) /\ g.queue = q /\ g.page = page /\ g.cache = f.cache
        /\ g.wanted = p.wanted /\ g.cards = p.cards /\ g.inFlight = u
    BY <1>1, <2>2, <2>3, <2>4 DEF Fetch
  <2>7. FetchOK(g, n)
    BY <1>2, <1>3, <2>1, <2>2, <2>4, <2>6 DEF FetchOK, Addresses
  <2>8. Waiting(g)
    <3>1. \A w \in Links : f.wanted[w] # 0 => Contains(f.queue, w)
      BY <1>7, LinksAssumption DEF Waiting
    <3>2. QED
      BY <1>1, <2>5, <2>6, <3>1 DEF Waiting
  <2>9. SlotTaken(g)
    BY <2>2, <2>6, LinksAssumption DEF SlotTaken
  <2>10. CardsFrom(f, g)
    BY <1>1, <1>4, <2>6
  <2>11. QED
    BY <2>7, <2>8, <2>9, <2>10 DEF g
<1>8. QED
  BY <1>5, <1>6, <1>7

----------------------------------------------------------------------------
(* The steps: each ends in processQueue.                                   *)

\* Giving up the slot of a link that is wanted no more.
LEMMA GivenUp ==
  ASSUME NEW n \in Nat, NEW f, FetchOK(f, n), Waiting(f), NEW u
  PROVE  /\ FetchOK(Dropped(Released(f, u), u), n)
         /\ Waiting(Dropped(Released(f, u), u))
         /\ Dropped(Released(f, u), u).cards = f.cards
         /\ \A w \in Links : Dropped(Released(f, u), u).wanted[w] =
                               IF w = u THEN 0 ELSE f.wanted[w]
<1> DEFINE slot == IF f.inFlight = u THEN Nothing ELSE f.inFlight
           wanted == [w \in Links |-> IF w = u THEN 0 ELSE f.wanted[w]]
           g == Dropped(Released(f, u), u)
<1>1. /\ f \in Fetch(n) /\ f.wanted \in [Links -> 0..n] /\ DOMAIN f.wanted = Links
      /\ f.inFlight \in Links \cup {Nothing}
  BY DEF FetchOK, Fetch
<1>2. slot \in Links \cup {Nothing} /\ wanted \in [Links -> 0..n]
  BY <1>1
<1>3. g = [f EXCEPT !.inFlight = slot, !.wanted = wanted]
  <2>1. Released(f, u) = [f EXCEPT !.inFlight = slot]
    BY DEF Released
  <2>2. Released(f, u).wanted = f.wanted
    BY <1>1, <2>1 DEF Fetch
  <2>3. g = [Released(f, u) EXCEPT !.wanted = wanted]
    BY <1>1, <2>2 DEF Dropped
  <2> HIDE DEF slot, wanted, g
  <2>4. QED
    BY <1>1, <2>1, <2>3 DEF Fetch
<1>4. /\ \A w \in Links : wanted[w] = IF w = u THEN 0 ELSE f.wanted[w]
      /\ f.inFlight # u => slot = f.inFlight
  OBVIOUS
<1> HIDE DEF slot, wanted, g
<1>5. /\ g \in Fetch(n) /\ g.queue = f.queue /\ g.page = f.page /\ g.cache = f.cache
      /\ g.cards = f.cards /\ g.wanted = wanted /\ g.inFlight = slot
  BY <1>1, <1>2, <1>3 DEF Fetch
<1>6. FetchOK(g, n)
  BY <1>5 DEF FetchOK
<1>7. Waiting(g)
  BY <1>4, <1>5 DEF Waiting
<1>8. QED
  BY <1>4, <1>5, <1>6, <1>7 DEF g

\* A step from f to g: what is kept, and what the cards it stored are for.
\* Message m, or 0, came with the step.
Good(f, g, n, m) ==
  /\ FetchOK(g, n) /\ Waiting(g) /\ SlotTaken(g)
  /\ \A c \in g.cards :
       /\ c \in Card /\ c.message # 0 /\ c.message \in {f.wanted[c.link], m}
       /\ g.wanted[c.link] = 0
       /\ \A d \in g.cards : d.link = c.link => d = c

\* A fetch that begins a step has no cards yet.
LEMMA ProcessGood ==
  ASSUME NEW n \in Nat, NEW f, FetchOK(f, n), Waiting(f), f.cards = {},
         NEW h, NEW m, \A u \in Links : f.wanted[u] \in {0, h.wanted[u], m}
  PROVE  Good(h, ProcessQueue(f), n, m)
<1> DEFINE g == ProcessQueue(f)
<1>1. FetchOK(g, n) /\ Waiting(g) /\ SlotTaken(g) /\ CardsFrom(f, g)
  BY ProcessOK
<1> HIDE DEF g
<1>2. ASSUME NEW c \in g.cards
      PROVE  /\ c \in Card /\ c.message # 0 /\ c.message = f.wanted[c.link]
             /\ g.wanted[c.link] = 0
  BY <1>1 DEF CardsFrom
<1>3. ASSUME NEW c \in g.cards
      PROVE  c.message \in {h.wanted[c.link], m}
  <2>1. c.link \in Links
    BY <1>2 DEF Card
  <2>2. QED
    BY <1>2, <2>1
<1>4. ASSUME NEW c \in g.cards, NEW d \in g.cards, d.link = c.link
      PROVE  d = c
  <2>1. c \in Card /\ d \in Card /\ c.message = d.message
    BY <1>2, <1>4
  <2>2. QED
    BY <1>4, <2>1 DEF Card
<1>5. QED
  BY <1>1, <1>2, <1>3, <1>4 DEF Good, g

\* What a good step needs to begin with.
Ready(f, n) == FetchOK(f, n) /\ Waiting(f) /\ SlotTaken(f) /\ f.cards = {}

LEMMA CardReadyGood ==
  ASSUME NEW n \in Nat, NEW f, FetchOK(f, n), Waiting(f), f.cards = {}, NEW u, NEW m
  PROVE  Good(f, OnCardReady(f, u), n, m)
<1> DEFINE h == Dropped(Released(f, u), u)
           p == ProcessQueue(h)
           own == CardsFor(f, {u} \cap Links)
           g == OnCardReady(f, u)
<1>1. /\ FetchOK(h, n) /\ Waiting(h) /\ h.cards = {}
      /\ \A w \in Links : h.wanted[w] = IF w = u THEN 0 ELSE f.wanted[w]
  BY GivenUp
<1>2. f.wanted \in [Links -> 0..n]
  BY DEF FetchOK, Fetch
<1>3. \A c \in own : c \in Card /\ c.message # 0 /\ c.link = u /\ c.message = f.wanted[u]
  BY <1>2 DEF CardsFor, Card
<1>4. g = [p EXCEPT !.cards = p.cards \cup own]
  BY DEF OnCardReady
<1> HIDE DEF h, own, g
<1>5. FetchOK(p, n) /\ Waiting(p) /\ SlotTaken(p) /\ CardsFrom(h, p)
  BY <1>1, ProcessOK
<1> HIDE DEF p
<1>6. p \in Fetch(n)
  BY <1>5 DEF FetchOK
<1>7. ASSUME NEW c \in p.cards
      PROVE  /\ c \in Card /\ c.message # 0 /\ c.message = f.wanted[c.link]
             /\ p.wanted[c.link] = 0
  <2>1. c \in Card /\ c.message # 0 /\ c.message = h.wanted[c.link] /\ p.wanted[c.link] = 0
    BY <1>1, <1>5 DEF CardsFrom
  <2>2. c.link \in Links
    BY <2>1 DEF Card
  <2>3. QED
    BY <1>1, <2>1, <2>2
<1>8. ASSUME NEW c \in own
      PROVE  /\ c \in Card /\ c.message # 0 /\ c.message = f.wanted[c.link]
             /\ p.wanted[c.link] = 0
  <2>1. c \in Card /\ c.message # 0 /\ c.link = u /\ c.message = f.wanted[u]
    BY <1>3
  <2>2. u \in Links
    BY <2>1 DEF Card
  <2>3. h.wanted[u] = 0 /\ p.wanted[u] \in {0, h.wanted[u]}
    BY <1>1, <1>5, <2>2 DEF CardsFrom
  <2>4. QED
    BY <2>1, <2>3
<1>9. p.cards \cup own \in SUBSET Card
  BY <1>7, <1>8
<1>10. /\ g \in Fetch(n) /\ g.queue = p.queue /\ g.page = p.page /\ g.cache = p.cache
       /\ g.wanted = p.wanted /\ g.inFlight = p.inFlight /\ g.cards = p.cards \cup own
  BY <1>4, <1>6, <1>9 DEF Fetch
<1>11. FetchOK(g, n) /\ Waiting(g) /\ SlotTaken(g)
  BY <1>5, <1>10 DEF FetchOK, Waiting, SlotTaken
<1>12. ASSUME NEW c \in g.cards, NEW d \in g.cards, d.link = c.link
       PROVE  d = c
  <2>1. c \in Card /\ d \in Card /\ c.message = d.message
    BY <1>7, <1>8, <1>10, <1>12
  <2>2. QED
    BY <1>12, <2>1 DEF Card
<1>13. QED
  BY <1>7, <1>8, <1>10, <1>11, <1>12 DEF Good, g

\* Only the page of a fetch changes.
LEMMA PageOK ==
  ASSUME NEW n \in Nat, NEW f, Ready(f, n),
         NEW page \in Page, page.at # "idle" => page.link \in Addresses, NEW m
  PROVE  /\ Ready([f EXCEPT !.page = page], n)
         /\ Good(f, [f EXCEPT !.page = page], n, m)
         /\ [f EXCEPT !.page = page].wanted = f.wanted
<1> DEFINE g == [f EXCEPT !.page = page]
<1>1. f \in Fetch(n) /\ f.cards = {}
  BY DEF Ready, FetchOK
<1>2. /\ g \in Fetch(n) /\ g.queue = f.queue /\ g.page = page /\ g.cache = f.cache
      /\ g.wanted = f.wanted /\ g.inFlight = f.inFlight /\ g.cards = f.cards
  BY <1>1 DEF Fetch
<1> HIDE DEF g
<1>3. Ready(g, n)
  BY <1>1, <1>2 DEF Ready, FetchOK, Waiting, SlotTaken
<1>4. Good(f, g, n, m)
  BY <1>1, <1>2, <1>3 DEF Ready, Good
<1>5. QED
  BY <1>2, <1>3, <1>4 DEF g

\* The cache keeps its bound and holds an address once.
LEMMA CachedOK ==
  ASSUME NEW cache \in Seq(Addresses), IsInjective(cache), Len(cache) =< MaxCache,
         NEW u \in Addresses
  PROVE  /\ Cached(cache, u) \in Seq(Addresses) /\ IsInjective(Cached(cache, u))
         /\ Len(Cached(cache, u)) =< MaxCache
<1> DEFINE kept == IF Len(cache) >= MaxCache THEN Tail(cache) ELSE cache
<1>1. MaxCache \in Nat /\ MaxCache > 0 /\ Len(cache) \in Nat
  BY FetchAssumption
<1>2. CASE Contains(cache, u)
  BY <1>2 DEF Cached
<1>3. CASE ~Contains(cache, u)
  <2>1. /\ kept \in Seq(Addresses) /\ Len(kept) \in Nat /\ Len(kept) < MaxCache
        /\ \E shift \in {0, 1} : /\ Len(kept) = Len(cache) - shift
                                 /\ \A i \in 1..Len(kept) : kept[i] = cache[i + shift]
    <3>1. CASE Len(cache) >= MaxCache
      <4>1. cache # <<>>
        BY <1>1, <3>1
      <4>2. /\ Tail(cache) \in Seq(Addresses) /\ Len(Tail(cache)) = Len(cache) - 1
            /\ \A i \in 1..Len(Tail(cache)) : Tail(cache)[i] = cache[i + 1]
        BY <4>1, HeadTailProperties
      <4>3. QED
        BY <1>1, <3>1, <4>2
    <3>2. CASE ~(Len(cache) >= MaxCache)
      BY <1>1, <3>2
    <3>3. QED
      BY <3>1, <3>2
  <2>2. Cached(cache, u) = Append(kept, u)
    BY <1>3 DEF Cached
  <2> HIDE DEF kept
  <2>3. PICK shift \in {0, 1} : /\ Len(kept) = Len(cache) - shift
                                /\ \A i \in 1..Len(kept) : kept[i] = cache[i + shift]
    BY <2>1
  <2>4. \A i \in 1..Len(kept) : i + shift \in DOMAIN cache /\ kept[i] # u
    <3>1. \A i \in 1..Len(kept) : i + shift \in 1..Len(cache)
      BY <2>1, <2>3
    <3>2. \A i \in 1..Len(cache) : cache[i] # u
      BY <1>3 DEF Contains
    <3>3. QED
      BY <2>3, <3>1, <3>2
  <2> DEFINE all == Append(kept, u)
  <2>5. /\ all \in Seq(Addresses) /\ Len(all) = Len(kept) + 1
        /\ \A i \in 1..Len(kept) : all[i] = kept[i]
        /\ all[Len(kept) + 1] = u /\ DOMAIN all = 1..Len(kept) + 1
    BY <2>1
  <2> HIDE DEF all
  <2>6. ASSUME NEW a \in DOMAIN all, NEW b \in DOMAIN all, all[a] = all[b]
        PROVE  a = b
    <3>1. CASE a \in 1..Len(kept) /\ b \in 1..Len(kept)
      <4>1. cache[a + shift] = cache[b + shift]
        BY <2>3, <2>5, <2>6, <3>1
      <4>2. a + shift = b + shift
        BY <2>4, <3>1, <4>1 DEF IsInjective
      <4>3. QED
        BY <2>1, <3>1, <4>2
    <3>2. CASE a = Len(kept) + 1 /\ b \in 1..Len(kept)
      BY <2>4, <2>5, <2>6, <3>2
    <3>3. CASE b = Len(kept) + 1 /\ a \in 1..Len(kept)
      BY <2>4, <2>5, <2>6, <3>3
    <3>4. CASE a = Len(kept) + 1 /\ b = Len(kept) + 1
      BY <3>4
    <3>5. \A x \in DOMAIN all : x \in 1..Len(kept) \/ x = Len(kept) + 1
      BY <2>1, <2>5
    <3>6. QED
      BY <3>1, <3>2, <3>3, <3>4, <3>5
  <2>7. IsInjective(all)
    BY <2>6 DEF IsInjective
  <2>8. QED
    BY <1>1, <2>1, <2>2, <2>5, <2>7 DEF all
<1>4. QED
  BY <1>2, <1>3

LEMMA CardGood ==
  ASSUME NEW n \in Nat, NEW f, Ready(f, n), NEW u \in Addresses, NEW m
  PROVE  Good(f, CardReady(f, u), n, m)
<1> DEFINE h == [f EXCEPT !.cache = Cached(f.cache, u)]
<1>1. /\ f \in Fetch(n) /\ f.cards = {} /\ f.cache \in Seq(Addresses)
      /\ IsInjective(f.cache) /\ Len(f.cache) =< MaxCache
  BY DEF Ready, FetchOK, Fetch
<1>2. /\ Cached(f.cache, u) \in Seq(Addresses) /\ IsInjective(Cached(f.cache, u))
      /\ Len(Cached(f.cache, u)) =< MaxCache
  BY <1>1, CachedOK
<1>3. /\ h \in Fetch(n) /\ h.queue = f.queue /\ h.page = f.page
      /\ h.cache = Cached(f.cache, u) /\ h.wanted = f.wanted /\ h.inFlight = f.inFlight
      /\ h.cards = {}
  BY <1>1, <1>2 DEF Fetch
<1>4. CardReady(f, u) = OnCardReady(h, u)
  BY DEF CardReady
<1> HIDE DEF h
<1>5. FetchOK(h, n) /\ Waiting(h)
  BY <1>2, <1>3 DEF Ready, FetchOK, Waiting
<1>6. Good(h, OnCardReady(h, u), n, m)
  BY <1>3, <1>5, CardReadyGood
<1>7. QED
  BY <1>3, <1>4, <1>6 DEF Good

LEMMA FailedGood ==
  ASSUME NEW n \in Nat, NEW f, Ready(f, n), NEW m
  PROVE  Good(f, FetchFailed(f), n, m)
<1> DEFINE page == [f.page EXCEPT !.at = "idle"]
           g == [f EXCEPT !.page = page]
           h == Dropped(Released(g, f.page.link), f.page.link)
<1>1. f \in Fetch(n) /\ f.page \in Page /\ f.cards = {}
  BY DEF Ready, FetchOK, Fetch
<1>2. page \in Page /\ page.at = "idle"
  BY <1>1 DEF Page
<1>3. FetchFailed(f) = ProcessQueue(h)
  BY DEF FetchFailed
<1> HIDE DEF page
<1>4. Ready(g, n) /\ g.wanted = f.wanted
  BY <1>2, PageOK
<1> HIDE DEF g
<1>5. /\ FetchOK(h, n) /\ Waiting(h) /\ h.cards = {}
      /\ \A w \in Links : h.wanted[w] \in {0, f.wanted[w], m}
  <2>1. FetchOK(g, n) /\ Waiting(g) /\ g.cards = {}
    BY <1>4 DEF Ready
  <2>2. QED
    BY <1>4, <2>1, GivenUp
<1> HIDE DEF h
<1>6. Good(f, ProcessQueue(h), n, m)
  BY <1>5, ProcessGood
<1>7. QED
  BY <1>3, <1>6

LEMMA TimedOutGood ==
  ASSUME NEW n \in Nat, NEW f, Ready(f, n), NEW m
  PROVE  Good(f, TimedOut(f), n, m)
<1> DEFINE u == f.inFlight
           h == Dropped(Released(f, u), u)
<1>1. f \in Fetch(n) /\ FetchOK(f, n) /\ Waiting(f) /\ f.cards = {}
  BY DEF Ready, FetchOK
<1>2. Released(Dropped(f, u), u) = h
  BY <1>1 DEF Released, Dropped, Fetch
<1>3. /\ FetchOK(h, n) /\ Waiting(h) /\ h.cards = {}
      /\ \A w \in Links : h.wanted[w] \in {0, f.wanted[w], m}
  BY <1>1, GivenUp
<1> HIDE DEF h
<1>4. Good(f, ProcessQueue(h), n, m)
  BY <1>3, ProcessGood
<1>5. QED
  BY <1>2, <1>4 DEF TimedOut

LEMMA EnqueueGood ==
  ASSUME NEW n \in Nat, NEW f, Ready(f, n), NEW u \in Links
  PROVE  Good(f, Enqueue(f, u, n + 1), n + 1, n + 1)
<1> DEFINE wanted == [f.wanted EXCEPT ![u] = n + 1]
           queue == Append(f.queue, u)
           h == [f EXCEPT !.queue = queue, !.wanted = wanted]
<1>1. /\ f \in Fetch(n) /\ f.cards = {} /\ f.queue \in Seq(Links)
      /\ f.wanted \in [Links -> 0..n] /\ Len(f.queue) \in Nat /\ Len(f.queue) =< MaxQueue
  BY DEF Ready, FetchOK, Fetch
<1>2. f \in Fetch(n + 1)
  <2>1. f.wanted \in [Links -> 0..n + 1]
    BY <1>1
  <2>2. QED
    BY <1>1, <2>1 DEF Fetch
<1>3. MaxQueue \in Nat
  BY FetchAssumption
<1>4. CASE f.wanted[u] # 0 \/ Len(f.queue) >= MaxQueue
  <2>1. Enqueue(f, u, n + 1) = f
    BY <1>4 DEF Enqueue
  <2>2. QED
    BY <1>1, <1>2, <2>1 DEF Ready, FetchOK, Good
<1>5. CASE ~(f.wanted[u] # 0 \/ Len(f.queue) >= MaxQueue)
  <2>1. /\ wanted \in [Links -> 0..n + 1]
        /\ \A w \in Links : wanted[w] = IF w = u THEN n + 1 ELSE f.wanted[w]
    BY <1>1
  <2>2. /\ queue \in Seq(Links) /\ Len(queue) = Len(f.queue) + 1
        /\ \A i \in 1..Len(f.queue) : queue[i] = f.queue[i]
        /\ queue[Len(f.queue) + 1] = u
    BY <1>1
  <2>3. Enqueue(f, u, n + 1) = ProcessQueue(h)
    BY <1>5 DEF Enqueue
  <2> HIDE DEF wanted, queue
  <2>4. /\ h \in Fetch(n + 1) /\ h.queue = queue /\ h.page = f.page /\ h.cache = f.cache
        /\ h.wanted = wanted /\ h.inFlight = f.inFlight /\ h.cards = {}
    BY <1>1, <1>2, <2>1, <2>2 DEF Fetch
  <2> HIDE DEF h
  <2>5. FetchOK(h, n + 1)
    BY <1>1, <1>3, <1>5, <2>2, <2>4 DEF Ready, FetchOK
  <2>6. Waiting(h)
    <3>1. Contains(queue, u) /\ \A w : Contains(f.queue, w) => Contains(queue, w)
      <4>1. Len(f.queue) + 1 \in 1..Len(queue)
        BY <1>1, <2>2
      <4>2. \A i \in 1..Len(f.queue) : i \in 1..Len(queue)
        BY <1>1, <2>2
      <4>3. QED
        BY <2>2, <4>1, <4>2 DEF Contains
    <3>2. QED
      BY <2>1, <2>4, <3>1 DEF Ready, Waiting
  <2>7. \A w \in Links : h.wanted[w] \in {0, f.wanted[w], n + 1}
    BY <2>1, <2>4
  <2>8. Good(f, ProcessQueue(h), n + 1, n + 1)
    BY <2>4, <2>5, <2>6, <2>7, ProcessGood
  <2>9. QED
    BY <2>3, <2>8
<1>6. QED
  BY <1>4, <1>5

LEMMA AnswerGood ==
  ASSUME NEW n \in Nat, NEW f, Ready(f, n), NEW g \in Answers(f), NEW m
  PROVE  Good(f, g, n, m)
<1>1. /\ f \in Fetch(n) /\ f.cards = {} /\ f.page \in Page
      /\ f.pictures \in [Addresses -> Nat]
      /\ f.page.at # "idle" => f.page.link \in Addresses
  BY DEF Ready, FetchOK, Fetch
<1>2. f.page.at # "idle" /\ f.page.link \in Addresses
  BY <1>1 DEF Answers
<1>3. \A page \in Page : (page.at # "idle" => page.link \in Addresses) =>
        Ready([f EXCEPT !.page = page], n) /\ Good(f, [f EXCEPT !.page = page], n, m)
  BY PageOK
<1>4. ASSUME NEW u \in Addresses
      PROVE  Good(f, FetchImage(f, u), n, m)
  <2> DEFINE page == [f.page EXCEPT !.at = "picture", !.link = u]
  <2>1. page \in Page /\ page.link = u
    BY <1>1, <1>4 DEF Page
  <2>2. FetchImage(f, u) = [f EXCEPT !.page = page]
    BY DEF FetchImage
  <2> HIDE DEF page
  <2>3. QED
    BY <1>3, <2>1, <2>2
<1>5. ASSUME NEW at \in {"idle", "lookup", "get", "picture"}
      PROVE  /\ Ready([f EXCEPT !.page.at = at], n)
             /\ Good(f, [f EXCEPT !.page.at = at], n, m)
  <2> DEFINE page == [f.page EXCEPT !.at = at]
  <2>1. page \in Page /\ page.link = f.page.link
    BY <1>1, <1>5 DEF Page
  <2>2. [f EXCEPT !.page.at = at] = [f EXCEPT !.page = page]
    OBVIOUS
  <2> HIDE DEF page
  <2>3. QED
    BY <1>2, <1>3, <2>1, <2>2
<1>6. Good(f, FetchFailed(f), n, m)
  BY FailedGood
<1>7. Good(f, Redirected(f), n, m)
  <2>1. CASE f.page.hops < MaxHops
    <3> DEFINE page == [f.page EXCEPT !.at = "lookup", !.hops = f.page.hops + 1]
    <3>1. page \in Page /\ page.link = f.page.link
      <4>1. f.page.hops \in 0..MaxHops /\ MaxHops \in Nat
        BY <1>1, FetchAssumption DEF Page
      <4>2. f.page.hops + 1 \in 0..MaxHops
        BY <2>1, <4>1
      <4>3. QED
        BY <1>1, <4>2 DEF Page
    <3>2. Redirected(f) = [f EXCEPT !.page = page]
      BY <1>1, <2>1 DEF Redirected, Fetch
    <3> HIDE DEF page
    <3>3. QED
      BY <1>2, <1>3, <3>1, <3>2
  <2>2. CASE ~(f.page.hops < MaxHops)
    BY <1>6, <2>2 DEF Redirected
  <2>3. QED
    BY <2>1, <2>2
<1>8. Good(f, TitleOnly(f), n, m)
  <2> DEFINE h == [f EXCEPT !.page.at = "idle"]
  <2>1. Ready(h, n)
    BY <1>5
  <2>2. h.wanted = f.wanted
    BY <1>1 DEF Fetch
  <2>3. TitleOnly(f) = CardReady(h, f.page.link)
    BY DEF TitleOnly
  <2> HIDE DEF h
  <2>4. Good(h, CardReady(h, f.page.link), n, m)
    BY <1>2, <2>1, CardGood
  <2>5. QED
    BY <2>2, <2>3, <2>4 DEF Good
<1>9. Good(f, PictureBegins(f), n, m)
  <2> DEFINE h == [f EXCEPT !.page.at = "idle"]
             pictures == [f.pictures EXCEPT ![f.page.link] = @ + 1]
             r == [h EXCEPT !.pictures = pictures]
  <2>1. Ready(h, n) /\ Good(f, h, n, m) /\ pictures \in [Addresses -> Nat]
    BY <1>1, <1>2, <1>5
  <2>2. PictureBegins(f) = r
    BY <1>1 DEF PictureBegins, Fetch
  <2> HIDE DEF h, pictures
  <2>3. h \in Fetch(n)
    BY <2>1 DEF Ready, FetchOK
  <2>4. /\ r \in Fetch(n) /\ r.queue = h.queue /\ r.page = h.page /\ r.cache = h.cache
        /\ r.wanted = h.wanted /\ r.inFlight = h.inFlight /\ r.cards = h.cards
    BY <2>1, <2>3 DEF Fetch
  <2> HIDE DEF r
  <2>5. QED
    BY <2>1, <2>2, <2>4 DEF Good, FetchOK, Waiting, SlotTaken
<1>10. \A p \in Pictures \cup {Hop, Nothing} : Good(f, LookedUp(f, p), n, m)
  <2>1. Good(f, [f EXCEPT !.page.at = "get"], n, m)
    BY <1>5
  <2>2. Pictures \cup {Hop} \subseteq Addresses
    BY LinksAssumption DEF Addresses
  <2>3. QED
    BY <1>2, <1>4, <2>1, <2>2 DEF LookedUp
<1>11. QED
  BY <1>2, <1>4, <1>6, <1>7, <1>8, <1>9, <1>10 DEF Answers

LEMMA PictureGood ==
  ASSUME NEW n \in Nat, NEW f, Ready(f, n), NEW u \in Addresses, f.pictures[u] > 0, NEW m
  PROVE  Good(f, PictureEnds(f, u), n, m)
<1> DEFINE pictures == [f.pictures EXCEPT ![u] = @ - 1]
           h == [f EXCEPT !.pictures = pictures]
<1>1. f \in Fetch(n) /\ f.pictures \in [Addresses -> Nat]
  BY DEF Ready, FetchOK, Fetch
<1>2. pictures \in [Addresses -> Nat]
  BY <1>1
<1>3. /\ h \in Fetch(n) /\ h.queue = f.queue /\ h.page = f.page /\ h.cache = f.cache
      /\ h.wanted = f.wanted /\ h.inFlight = f.inFlight /\ h.cards = f.cards
  BY <1>1, <1>2 DEF Fetch
<1>4. PictureEnds(f, u) = CardReady(h, u)
  BY <1>1 DEF PictureEnds, Fetch
<1> HIDE DEF h
<1>5. Ready(h, n)
  BY <1>3 DEF Ready, FetchOK, Waiting, SlotTaken
<1>6. Good(h, CardReady(h, u), n, m)
  BY <1>1, <1>5, CardGood
<1>7. QED
  BY <1>3, <1>4, <1>6 DEF Good

----------------------------------------------------------------------------
(* The theorems.                                                           *)

LEMMA InitOK == Init => Inv
<1>1. ASSUME Init
      PROVE  Inv
  <2>1. fetch = NewFetch /\ asked = 0
    BY <1>1 DEF Init
  <2>2. {MaxQueue, MaxCache, MaxHops, MaxAsked} \subseteq Nat
    BY FetchAssumption
  <2>3. NewFetch \in Fetch(0)
    <3>1. Idle \in Page
      BY <2>2 DEF Idle, Page
    <3>2. <<>> \in Seq(Links) /\ <<>> \in Seq(Addresses)
      OBVIOUS
    <3>3. QED
      BY <3>1, <3>2 DEF NewFetch, Fetch
  <2>4. FetchOK(NewFetch, 0)
    BY <2>2, <2>3 DEF FetchOK, NewFetch, Idle, IsInjective
  <2>5. Waiting(NewFetch) /\ SlotTaken(NewFetch)
    BY DEF Waiting, SlotTaken, NewFetch
  <2>6. QED
    BY <2>1, <2>2, <2>4, <2>5 DEF Inv
<1>2. QED
  BY <1>1

\* At the start of a step the cards of the last one have been told.
LEMMA HeardReady ==
  ASSUME Inv
  PROVE  /\ Ready(Heard, asked) /\ asked \in Nat
         /\ Heard.wanted = fetch.wanted /\ Heard.pictures = fetch.pictures
<1>1. fetch \in Fetch(asked) /\ asked \in Nat
  BY FetchAssumption DEF Inv, FetchOK
<1>2. /\ Heard \in Fetch(asked) /\ Heard.queue = fetch.queue /\ Heard.page = fetch.page
      /\ Heard.cache = fetch.cache /\ Heard.wanted = fetch.wanted
      /\ Heard.inFlight = fetch.inFlight /\ Heard.pictures = fetch.pictures
      /\ Heard.cards = {}
  BY <1>1 DEF Heard, Fetch
<1>3. QED
  BY <1>1, <1>2 DEF Inv, Ready, FetchOK, Waiting, SlotTaken

LEMMA StepGood ==
  ASSUME Inv, Next
  PROVE  Good(fetch, fetch', asked', asked') /\ asked' \in 0..MaxAsked
<1>1. /\ Ready(Heard, asked) /\ asked \in Nat
      /\ Heard.wanted = fetch.wanted /\ Heard.pictures = fetch.pictures
  BY HeardReady
<1>2. asked \in 0..MaxAsked /\ MaxAsked \in Nat
  BY FetchAssumption DEF Inv
<1>3. \A g, n, m : Good(Heard, g, n, m) => Good(fetch, g, n, m)
  BY <1>1 DEF Good
<1>4. ASSUME NEW u \in Links, Ask(u)
      PROVE  Good(fetch, fetch', asked', asked') /\ asked' \in 0..MaxAsked
  <2>1. asked' = asked + 1 /\ asked < MaxAsked /\ fetch' = Enqueue(Heard, u, asked + 1)
    BY <1>4 DEF Ask
  <2>2. Good(Heard, fetch', asked + 1, asked + 1)
    BY <1>1, <2>1, EnqueueGood
  <2>3. QED
    BY <1>2, <1>3, <2>1, <2>2
<1>5. CASE Answer
  <2>1. CASE fetch' \in Answers(Heard)
    BY <1>1, <1>2, <1>3, <1>5, <2>1, AnswerGood DEF Answer
  <2>2. ASSUME NEW u \in Addresses, fetch.pictures[u] > 0, fetch' = PictureEnds(Heard, u)
        PROVE  Good(fetch, fetch', asked', asked') /\ asked' \in 0..MaxAsked
    BY <1>1, <1>2, <1>3, <1>5, <2>2, PictureGood DEF Answer
  <2>3. QED
    BY <1>5, <2>1, <2>2 DEF Answer
<1>6. CASE Watchdog
  BY <1>1, <1>2, <1>3, <1>6, TimedOutGood DEF Watchdog
<1>7. QED
  BY <1>4, <1>5, <1>6 DEF Next

LEMMA Invariant == Spec => []Inv
<1>1. Inv /\ [Next]_vars => Inv'
  <2> SUFFICES ASSUME Inv, [Next]_vars
               PROVE  Inv'
    OBVIOUS
  <2>1. CASE Next
    BY <2>1, StepGood DEF Good, Inv
  <2>2. CASE UNCHANGED vars
    BY <2>2 DEF vars, Inv, FetchOK, Waiting, SlotTaken
  <2>3. QED
    BY <2>1, <2>2
<1>2. QED
  BY InitOK, <1>1, PTL DEF Spec

\* Whatever answers, late answers and timeouts follow one another, no link is wanted
\* that is neither fetched nor queued, and no link waits for a slot that is free
\* (PreviewController::processQueue, onCardReady and the watchdog).
THEOREM PlacesKept == Spec => []PreviewsInv
<1>1. Inv => PreviewsInv
  <2> SUFFICES ASSUME Inv
               PROVE  TypeOK /\ NoPlaceLost
    BY DEF PreviewsInv
  <2>1. fetch \in Fetch(asked)
    BY DEF Inv, FetchOK
  <2>2. DOMAIN fetch = DOMAIN NewFetch
    BY <2>1 DEF Fetch, NewFetch
  <2>3. /\ fetch.queue \in Seq(Links) /\ fetch.wanted \in [Links -> 0..asked]
        /\ fetch.inFlight \in Links \cup {Nothing} /\ fetch.page \in Page
        /\ fetch.pictures \in [Addresses -> Nat]
    BY <2>1 DEF Fetch
  <2>4. fetch.page.at \in {"idle", "lookup", "get", "picture"} /\ fetch.page.hops \in 0..MaxHops
    BY <2>3 DEF Page
  <2>5. TypeOK
    BY <2>2, <2>3, <2>4 DEF TypeOK, Inv, FetchOK
  <2>6. NoPlaceLost
    BY DEF NoPlaceLost, Inv, Waiting, SlotTaken
  <2>7. QED
    BY <2>5, <2>6
<1>2. QED
  BY <1>1, Invariant, PTL

\* A card is stored for the message that asked for it last, at most once in a step,
\* and nobody waits for it after (PreviewController::onCardReady).
THEOREM CardsAreWanted == Spec => CardsWanted
<1> DEFINE Wanted(c) == /\ c.message # 0
                        /\ c.message \in {fetch.wanted[c.link], asked'}
                        /\ fetch'.wanted[c.link] = 0
                        /\ \A d \in fetch'.cards : d.link = c.link => d = c
<1>1. Inv /\ [Next]_vars => [\A c \in fetch'.cards : Wanted(c)]_vars
  <2> SUFFICES ASSUME Inv, Next
               PROVE  \A c \in fetch'.cards : Wanted(c)
    OBVIOUS
  <2>1. QED
    BY StepGood DEF Good
<1>2. QED
  BY <1>1, Invariant, PTL DEF Spec, CardsWanted

-----------------------------------------------------------------------------
(* Compose: the inputs, the popup and the user's typing.                   *)

\* An input, a popup and the user's typing, as they may be.
Field == [buf : Buffers \cup {Nobody}, words : Seq(Words), pos : Nat]
Emoji == [target : Inputs \cup {Nobody}, at : Nat, emoji : Words \cup {Nobody}]
Notes == [on : BOOLEAN, self : BOOLEAN, buf : Buffers \cup {Nobody}, timer : BOOLEAN,
          link : BOOLEAN, told : [Buffers -> {"none", "active", "paused", "done"}]]

GoodField(in) == in \in Field /\ in.pos =< Len(in.words)

GoodTyping(t) ==
  /\ t \in Notes
  /\ t.self => t.on /\ t.buf \in Buffers \ {Server}
  /\ ~t.link => \A b \in Buffers : t.told[b] # "active"

\* A popup has an emoji, and an input that shows a buffer.
GoodPopup(p, inputs) ==
  /\ p \in Emoji
  /\ p.target # Nobody => p.emoji \in Words /\ inputs[p.target].buf # Nobody

GoodViews(s) ==
  /\ DOMAIN s = {"input", "draft", "popup", "typing"}
  /\ DOMAIN s.input = Inputs /\ \A i \in Inputs : GoodField(s.input[i])
  /\ s.draft \in [Buffers -> Seq(Words)]
  /\ GoodPopup(s.popup, s.input)
  /\ GoodTyping(s.typing)

\* What was told that the user no longer types, or was never told, goes on so.
Settled(t, b) == InFlight(t, b) \/ t.told[b] # "active"
Settles(t, u) == \A b \in Buffers : Settled(t, b) => Settled(u, b)

LEMMA SettlesOn ==
  ASSUME NEW t, NEW u, NEW v, Settles(t, u), Settles(u, v)
  PROVE  Settles(t, v)
BY DEF Settles

LEMMA SettlesSame == \A t : Settles(t, t)
BY DEF Settles

-----------------------------------------------------------------------------
(* Typing.                                                                 *)

\* A note changes what one buffer was told, and only over a link.
LEMMA TellGood ==
  ASSUME NEW t, GoodTyping(t), NEW b \in Buffers, NEW state \in {"active", "paused", "done"}
  PROVE  LET u == Tell(t, b, state)
         IN  /\ u \in Notes /\ u.on = t.on /\ u.self = t.self /\ u.buf = t.buf /\ u.timer = t.timer
             /\ u.link = t.link
             /\ ~u.link => \A c \in Buffers : u.told[c] # "active"
             /\ \A c \in Buffers \ {b} : u.told[c] = t.told[c]
             /\ u.told[b] = "active" => u.link /\ state = "active"
<1> DEFINE u == Tell(t, b, state)
<1>1. CASE t.link
  <2>1. u = [t EXCEPT !.told[b] = state]
    BY <1>1 DEF Tell
  <2>2. t \in Notes
    BY DEF GoodTyping
  <2>3. /\ u \in Notes /\ u.on = t.on /\ u.self = t.self /\ u.buf = t.buf /\ u.timer = t.timer
        /\ u.link = t.link
    BY <2>1, <2>2 DEF Notes
  <2>4. u.told = [t.told EXCEPT ![b] = state]
    BY <2>1, <2>2 DEF Notes
  <2>5. DOMAIN t.told = Buffers
    BY <2>2 DEF Notes
  <2>6. (\A c \in Buffers \ {b} : u.told[c] = t.told[c]) /\ u.told[b] = state
    BY <2>4, <2>5
  <2>7. QED
    BY <1>1, <2>3, <2>6
<1>2. CASE ~t.link
  <2>1. u = t
    BY <1>2 DEF Tell
  <2>2. QED
    BY <1>2, <2>1 DEF GoodTyping
<1>3. QED
  BY <1>1, <1>2

\* The typing that is timed ends, or begins.
LEMMA TimedGood ==
  ASSUME NEW t \in Notes, ~t.link => \A c \in Buffers : t.told[c] # "active",
         NEW self \in BOOLEAN, NEW timer \in BOOLEAN, NEW b \in Buffers \cup {Nobody},
         self => t.on /\ b \in Buffers \ {Server}
  PROVE  LET u == [t EXCEPT !.self = self, !.buf = b, !.timer = timer]
         IN  GoodTyping(u) /\ u.self = self /\ u.buf = b /\ u.told = t.told /\ u.on = t.on
BY DEF GoodTyping, Notes

\* noteMessageSent and noteBufferLeft: the typing in a buffer ends and it is told.
LEMMA EndSelfTypingGood ==
  ASSUME NEW t, GoodTyping(t), NEW b
  PROVE  LET u == EndSelfTyping(t, b)
         IN  /\ GoodTyping(u) /\ Settles(t, u) /\ u.on = t.on
             /\ b = t.buf => ~u.self
             /\ \A c \in Buffers : u.told[c] = "active" => t.told[c] = "active"
<1> DEFINE u == EndSelfTyping(t, b)
<1>1. CASE ~t.self \/ b # t.buf
  <2>1. u = t
    BY <1>1 DEF EndSelfTyping
  <2>2. QED
    BY <1>1, <2>1, SettlesSame
<1>2. CASE t.self /\ b = t.buf
  <2>1. t.on /\ b \in Buffers \ {Server}
    BY <1>2 DEF GoodTyping
  <2> DEFINE v == Tell(t, b, "done")
  <2>2. u = [v EXCEPT !.self = FALSE, !.timer = FALSE]
    BY <1>2, <2>1 DEF EndSelfTyping
  <2>3. /\ v \in Notes /\ v.on = t.on /\ v.buf = t.buf
        /\ ~v.link => \A c \in Buffers : v.told[c] # "active"
        /\ \A c \in Buffers \ {b} : v.told[c] = t.told[c]
        /\ v.told[b] # "active"
    <3>1. "done" \in {"active", "paused", "done"} /\ "done" # "active" /\ b \in Buffers
      BY <2>1
    <3>2. QED
      BY <3>1, TellGood
  <2> HIDE DEF v
  <2>4. /\ u.told = v.told /\ ~u.self /\ u.on = v.on /\ u.buf = v.buf
        /\ u \in Notes /\ u.link = v.link
    BY <2>2, <2>3 DEF Notes
  <2>5. GoodTyping(u)
    BY <2>3, <2>4 DEF GoodTyping
  <2>6. Settles(t, u)
    BY <1>2, <2>3, <2>4 DEF Settles, Settled, InFlight
  <2>7. QED
    BY <1>2, <2>3, <2>4, <2>5, <2>6
<1>3. QED
  BY <1>1, <1>2

\* noteInputChanged: typing in one input ends the typing in another.
LEMMA InputChangedGood ==
  ASSUME NEW t, GoodTyping(t), NEW b \in Buffers, NEW hasText \in BOOLEAN
  PROVE  LET u == InputChanged(t, b, hasText)
         IN  GoodTyping(u) /\ Settles(t, u)
<1> DEFINE u == InputChanged(t, b, hasText)
           v == IF t.self /\ b # t.buf THEN EndSelfTyping(t, t.buf) ELSE t
<1>1. CASE ~t.on \/ b = Server
  <2>1. u = t
    BY <1>1 DEF InputChanged
  <2>2. QED
    BY <2>1, SettlesSame
<1>2. CASE ~(~t.on \/ b = Server)
  <2>1. GoodTyping(v) /\ Settles(t, v) /\ v.on /\ (v.self => v.buf = b)
    <3>1. CASE t.self /\ b # t.buf
      BY <1>2, <3>1, EndSelfTypingGood
    <3>2. CASE ~(t.self /\ b # t.buf)
      BY <1>2, <3>2, SettlesSame
    <3>3. QED
      BY <3>1, <3>2
  <2>2. u = IF hasText
            THEN [(IF v.self THEN v ELSE Tell(v, b, "active")) EXCEPT !.self = TRUE, !.buf = b, !.timer = TRUE]
            ELSE [(IF v.self THEN Tell(v, b, "done") ELSE v) EXCEPT !.self = FALSE, !.timer = FALSE]
    BY <1>2 DEF InputChanged
  <2> HIDE DEF u, v
  <2>3. CASE hasText
    <3> DEFINE w == IF v.self THEN v ELSE Tell(v, b, "active")
    <3>1. /\ w \in Notes /\ w.on
          /\ ~w.link => \A c \in Buffers : w.told[c] # "active"
          /\ \A c \in Buffers \ {b} : w.told[c] = v.told[c]
      <4>1. CASE v.self
        BY <2>1, <4>1 DEF GoodTyping
      <4>2. CASE ~v.self
        BY <2>1, <4>2, TellGood
      <4>3. QED
        BY <4>1, <4>2
    <3>2. u = [w EXCEPT !.self = TRUE, !.buf = b, !.timer = TRUE]
      BY <2>2, <2>3
    <3> HIDE DEF w
    <3>3. GoodTyping(u) /\ u.self /\ u.buf = b /\ u.told = w.told
      <4>1. b \in Buffers \ {Server} /\ w.on
        BY <1>2, <3>1
      <4>2. QED
        BY <3>1, <3>2, <4>1 DEF GoodTyping, Notes
    <3>4. Settles(v, u)
      BY <2>1, <3>1, <3>3 DEF Settles, Settled, InFlight
    <3>5. QED
      BY <2>1, <3>3, <3>4, SettlesOn DEF u
  <2>4. CASE ~hasText
    <3> DEFINE w == IF v.self THEN Tell(v, b, "done") ELSE v
    <3>1. /\ w \in Notes
          /\ ~w.link => \A c \in Buffers : w.told[c] # "active"
          /\ \A c \in Buffers \ {b} : w.told[c] = v.told[c]
          /\ v.self => w.told[b] # "active"
          /\ ~v.self => w = v
      <4>1. CASE v.self
        BY <2>1, <4>1, TellGood
      <4>2. CASE ~v.self
        BY <2>1, <4>2 DEF GoodTyping
      <4>3. QED
        BY <4>1, <4>2
    <3>2. u = [w EXCEPT !.self = FALSE, !.timer = FALSE]
      BY <2>2, <2>4
    <3> HIDE DEF w
    <3>3. GoodTyping(u) /\ ~u.self /\ u.told = w.told
      BY <3>1, <3>2 DEF GoodTyping, Notes
    <3>4. Settles(v, u)
      <4>1. CASE v.self
        BY <2>1, <3>1, <3>3, <4>1 DEF Settles, Settled, InFlight
      <4>2. CASE ~v.self
        BY <3>1, <3>3, <4>2 DEF Settles, Settled, InFlight
      <4>3. QED
        BY <4>1, <4>2
    <3>5. QED
      BY <2>1, <3>3, <3>4, SettlesOn DEF u
  <2>5. QED
    BY <2>3, <2>4
<1>3. QED
  BY <1>1, <1>2

LEMMA LimitsGood ==
  /\ Room \in Nat /\ TagWidth \in Nat /\ HistoryCap \in Nat /\ MaxSteps \in Nat /\ MaxWords \in Nat
  /\ TagWidth < Room
BY LimitAssumption, RoomForACharacter

\* The lesser and the greater of two numbers.
LEMMA OfTwo ==
  ASSUME NEW a \in Int, NEW b \in Int
  PROVE  /\ Min({a, b}) = (IF a =< b THEN a ELSE b)
         /\ Max({a, b}) = (IF a =< b THEN b ELSE a)
<1> DEFINE S == {a, b}
           l == IF a =< b THEN a ELSE b
           g == IF a =< b THEN b ELSE a
<1>1. /\ l \in S /\ \A y \in S : l =< y
      /\ \A x \in S : (\A y \in S : x =< y) => x = l
  OBVIOUS
<1>2. /\ g \in S /\ \A y \in S : g >= y
      /\ \A x \in S : (\A y \in S : x >= y) => x = g
  OBVIOUS
<1> HIDE DEF S, l, g
<1>3. Min(S) = l
  BY <1>1 DEF Min
<1>4. Max(S) = g
  BY <1>2 DEF Max
<1>5. QED
  BY <1>3, <1>4 DEF S, l, g

\* A part of a text, and what is put between two parts.
LEMMA PartOfText ==
  ASSUME NEW s \in Seq(Words), NEW m \in Int, NEW n \in Int, m >= 1, n =< Len(s), n >= m - 1
  PROVE  SubSeq(s, m, n) \in Seq(Words) /\ Len(SubSeq(s, m, n)) = n + 1 - m
<1>1. Len(s) \in Nat
  BY LenProperties
<1>2. CASE m =< n
  BY <1>1, <1>2, SubSeqProperties
<1>3. CASE ~(m =< n)
  BY <1>1, <1>3, SubSeqProperties
<1>4. QED
  BY <1>2, <1>3

LEMMA TextsJoined ==
  ASSUME NEW s \in Seq(Words), NEW p \in Seq(Words)
  PROVE  s \o p \in Seq(Words) /\ Len(s) \in Nat /\ Len(p) \in Nat /\ Len(s \o p) = Len(s) + Len(p)
BY ConcatProperties, LenProperties

\* A word in place of a part of the text, with the cursor behind it.
LEMMA ReplacedGood ==
  ASSUME NEW in, GoodField(in), NEW start \in Nat, NEW w \in Words
  PROVE  LET r == Replaced(in, start, w)
         IN  GoodField(r) /\ r.buf = in.buf /\ r.words # <<>>
<1> DEFINE n == Len(in.words)
           from == IF start > n THEN in.pos ELSE start
           low == Min({from, in.pos})
           high == Max({from, in.pos})
           a == SubSeq(in.words, 1, low)
           c == SubSeq(in.words, high + 1, n)
           text == a \o <<w>> \o c
           r == Replaced(in, start, w)
<1>1. in \in Field /\ in.words \in Seq(Words) /\ in.pos \in Nat /\ in.pos =< n /\ n \in Nat
  BY LenProperties DEF GoodField, Field
<1>2. from \in Nat /\ from =< n
  BY <1>1
<1>3. low \in Nat /\ low =< n /\ high \in Nat /\ high =< n
  <2> DEFINE p == in.pos
  <2>1. from \in Int /\ p \in Int
    BY <1>1, <1>2
  <2> HIDE DEF from, p
  <2>2. Min({from, p}) \in {from, p} /\ Max({from, p}) \in {from, p}
    BY <2>1, OfTwo
  <2>3. QED
    BY <1>1, <1>2, <2>2 DEF p
<1>4. r = [in EXCEPT !.words = text, !.pos = low + 1]
  BY <1>1 DEF Replaced
<1> HIDE DEF from, low, high, n
<1>5. a \in Seq(Words) /\ Len(a) = low
  BY <1>1, <1>3, PartOfText DEF n
<1>6. c \in Seq(Words)
  <2>1. high + 1 >= 1 /\ n >= high + 1 - 1 /\ high + 1 \in Int /\ n \in Int
    BY <1>1, <1>3
  <2>2. QED
    BY <1>1, <2>1, PartOfText DEF n
<1> HIDE DEF a, c
<1>7. <<w>> \in Seq(Words) /\ Len(<<w>>) = 1
  OBVIOUS
<1>8. a \o <<w>> \in Seq(Words) /\ Len(a \o <<w>>) = low + 1
  BY <1>5, <1>7, TextsJoined
<1>9. text \in Seq(Words) /\ Len(text) = low + 1 + Len(c) /\ Len(c) \in Nat
  BY <1>6, <1>8, TextsJoined
<1> HIDE DEF text, r
<1>10. r \in Field /\ r.words = text /\ r.pos = low + 1 /\ r.buf = in.buf
  <2>1. DOMAIN in = {"buf", "words", "pos"} /\ in.buf \in Buffers \cup {Nobody} /\ low + 1 \in Nat
    BY <1>1, <1>3 DEF Field
  <2>2. r.words = text /\ r.pos = low + 1 /\ r.buf = in.buf
    BY <1>4, <2>1
  <2>3. r = [buf |-> in.buf, words |-> text, pos |-> low + 1]
    BY <1>1, <1>4 DEF Field
  <2>4. QED
    BY <1>9, <2>1, <2>2, <2>3 DEF Field
<1>11. text # <<>>
  BY <1>3, <1>9
<1>12. QED
  BY <1>3, <1>9, <1>10, <1>11 DEF GoodField, r

LEMMA TextGood ==
  ASSUME NEW b \in Buffers \cup {Nobody}, NEW words \in Seq(Words)
  PROVE  GoodField(Text(b, words)) /\ Text(b, words).buf = b /\ Text(b, words).words = words
BY LenProperties DEF GoodField, Field, Text

-----------------------------------------------------------------------------
(* Views.                                                                  *)

\* One field of the views changes.
LEMMA FieldChanged ==
  ASSUME NEW s, GoodViews(s), NEW i \in Inputs, NEW in, GoodField(in),
         in.buf # Nobody \/ in.buf = s.input[i].buf
  PROVE  LET t == [s EXCEPT !.input[i] = in]
         IN  /\ GoodViews(t) /\ t.typing = s.typing /\ t.draft = s.draft /\ t.popup = s.popup
             /\ t.input[i] = in /\ \A j \in Inputs \ {i} : t.input[j] = s.input[j]
<1> DEFINE t == [s EXCEPT !.input[i] = in]
<1>1. /\ t.typing = s.typing /\ t.draft = s.draft /\ t.popup = s.popup
      /\ DOMAIN t = DOMAIN s /\ DOMAIN t.input = Inputs
      /\ t.input[i] = in /\ \A j \in Inputs \ {i} : t.input[j] = s.input[j]
  BY DEF GoodViews
<1> HIDE DEF t
<1>2. \A j \in Inputs : GoodField(t.input[j])
  BY <1>1 DEF GoodViews
<1>3. GoodPopup(t.popup, t.input)
  BY <1>1 DEF GoodViews, GoodPopup, Emoji
<1>4. GoodViews(t)
  BY <1>1, <1>2, <1>3 DEF GoodViews
<1>5. QED
  BY <1>1, <1>4 DEF t

LEMMA PopupChanged ==
  ASSUME NEW s, GoodViews(s), NEW p, GoodPopup(p, s.input)
  PROVE  LET t == [s EXCEPT !.popup = p]
         IN  /\ GoodViews(t) /\ t.typing = s.typing /\ t.draft = s.draft /\ t.popup = p
             /\ t.input = s.input
BY DEF GoodViews

LEMMA TypingChanged ==
  ASSUME NEW s, GoodViews(s), NEW u, GoodTyping(u)
  PROVE  LET t == [s EXCEPT !.typing = u]
         IN  /\ GoodViews(t) /\ t.typing = u /\ t.draft = s.draft /\ t.popup = s.popup
             /\ t.input = s.input
BY DEF GoodViews

LEMMA NoPopupGood == \A inputs : GoodPopup(NoPopup, inputs)
BY DEF GoodPopup, NoPopup, Emoji

SameBuffers(s, t) == \A j \in Inputs : t.input[j].buf = s.input[j].buf

\* checkEmojiAutocomplete: no popup without an input that shows a buffer.
LEMMA EmojiCheckedGood ==
  ASSUME NEW s, GoodViews(s), NEW i \in Inputs, s.input[i].buf # Nobody
  PROVE  LET t == EmojiChecked(s, i)
         IN  GoodViews(t) /\ t.typing = s.typing /\ t.draft = s.draft /\ SameBuffers(s, t)
<1> DEFINE in == s.input[i]
           last == IF in.pos = 0 THEN Nobody ELSE in.words[in.pos]
           t == EmojiChecked(s, i)
<1>1. GoodField(in) /\ in \in Field /\ in.words \in Seq(Words) /\ in.pos \in Nat /\ in.pos =< Len(in.words)
  BY DEF GoodViews, GoodField, Field
<1>2. last \in Words => in.pos - 1 \in Nat
  BY <1>1, NamesAssumption
<1>3. CASE last \in DOMAIN Complete
  <2> DEFINE r == Replaced(in, in.pos - 1, Complete[last])
             u == [s EXCEPT !.input[i] = r]
  <2>1. t = [u EXCEPT !.popup = NoPopup]
    BY <1>3 DEF EmojiChecked
  <2>2. last \in Words /\ Complete[last] \in Words
    BY <1>3, WordsAssumption
  <2>3. GoodField(r) /\ r.buf = in.buf
    BY <1>1, <1>2, <2>2, ReplacedGood
  <2> HIDE DEF r
  <2>4. /\ GoodViews(u) /\ u.typing = s.typing /\ u.draft = s.draft
        /\ u.input[i] = r /\ \A j \in Inputs \ {i} : u.input[j] = s.input[j]
    BY <2>3, FieldChanged
  <2> HIDE DEF u
  <2>5. /\ GoodViews(t) /\ t.typing = u.typing /\ t.draft = u.draft /\ t.input = u.input
    BY <2>1, <2>4, PopupChanged, NoPopupGood
  <2>6. SameBuffers(s, t)
    BY <2>3, <2>4, <2>5 DEF SameBuffers
  <2>7. QED
    BY <2>4, <2>5, <2>6
<1>4. CASE last \notin DOMAIN Complete
  <2> DEFINE p == IF last \in DOMAIN Partial THEN [target |-> i, at |-> in.pos - 1, emoji |-> Partial[last]]
                  ELSE NoPopup
  <2>1. t = [s EXCEPT !.popup = p]
    BY <1>4 DEF EmojiChecked
  <2>2. GoodPopup(p, s.input)
    <3>1. CASE last \in DOMAIN Partial
      <4>1. last \in Words /\ Partial[last] \in Words
        BY <3>1, WordsAssumption
      <4>2. in.pos - 1 \in Nat
        BY <1>2, <4>1
      <4> HIDE DEF last
      <4>3. p \in Emoji /\ p.target = i /\ p.emoji \in Words
        BY <3>1, <4>1, <4>2 DEF Emoji
      <4>4. QED
        BY <4>3 DEF GoodPopup
    <3>2. CASE last \notin DOMAIN Partial
      BY <3>2, NoPopupGood
    <3>3. QED
      BY <3>1, <3>2
  <2> HIDE DEF p
  <2>3. /\ GoodViews(t) /\ t.typing = s.typing /\ t.draft = s.draft /\ t.input = s.input
    BY <2>1, <2>2, PopupChanged
  <2>4. QED
    BY <2>3 DEF SameBuffers
<1>5. QED
  BY <1>3, <1>4

\* What a change of the views may be: all is as it may be, and nobody is left
\* believing that the user types.
Lawful(s, t) == GoodViews(t) /\ Settles(s.typing, t.typing)

LEMMA LawfulOn ==
  ASSUME NEW s, NEW t, NEW u, Lawful(s, t), Lawful(t, u)
  PROVE  Lawful(s, u)
BY SettlesOn DEF Lawful

\* The buffers of the inputs are apart.
Apart(s) == s.input["main"].buf # Nobody /\ s.input["main"].buf # s.input["pane"].buf

LEMMA SameApart ==
  ASSUME NEW s, NEW t, SameBuffers(s, t), Apart(s)
  PROVE  Apart(t)
BY DEF SameBuffers, Apart, Inputs

\* The input's textChanged signal: the popup, and the note of typing.
LEMMA TextChangedGood ==
  ASSUME NEW s, GoodViews(s), NEW i \in Inputs, s.input[i].buf # Nobody
  PROVE  Lawful(s, TextChanged(s, i)) /\ SameBuffers(s, TextChanged(s, i))
<1> DEFINE in == s.input[i]
           c == EmojiChecked(s, i)
           h == in.words # <<>>
           u == InputChanged(c.typing, in.buf, h)
           t == TextChanged(s, i)
<1>1. GoodViews(c) /\ c.typing = s.typing /\ SameBuffers(s, c)
  BY EmojiCheckedGood
<1>2. in.buf \in Buffers
  BY DEF GoodViews, GoodField, Field
<1>3. GoodTyping(c.typing)
  BY <1>1 DEF GoodViews
<1>4. t = [c EXCEPT !.typing = u]
  BY DEF TextChanged
<1> HIDE DEF c
<1>5. GoodTyping(u) /\ Settles(c.typing, u)
  <2>1. h \in BOOLEAN
    OBVIOUS
  <2> HIDE DEF h
  <2>2. QED
    BY <1>2, <1>3, <2>1, InputChangedGood
<1> HIDE DEF u, t
<1>6. GoodViews(t) /\ t.typing = u /\ t.input = c.input
  BY <1>1, <1>4, <1>5, TypingChanged
<1>7. QED
  BY <1>1, <1>5, <1>6 DEF Lawful, SameBuffers, t

LEMMA EditedGood ==
  ASSUME NEW s, GoodViews(s), NEW i \in Inputs, NEW in, GoodField(in),
         in.buf = s.input[i].buf, in.buf # Nobody
  PROVE  Lawful(s, Edited(s, i, in)) /\ SameBuffers(s, Edited(s, i, in))
<1> DEFINE t == [s EXCEPT !.input[i] = in]
           e == Edited(s, i, in)
<1>1. /\ GoodViews(t) /\ t.typing = s.typing
      /\ t.input[i] = in /\ \A j \in Inputs \ {i} : t.input[j] = s.input[j]
  BY FieldChanged
<1>2. e = TextChanged(t, i)
  BY DEF Edited
<1> HIDE DEF t, e
<1>3. Lawful(t, e) /\ SameBuffers(t, e)
  BY <1>1, <1>2, TextChangedGood
<1>4. SameBuffers(s, t)
  BY <1>1 DEF SameBuffers
<1>5. QED
  BY <1>1, <1>3, <1>4 DEF Lawful, SameBuffers, e

\* A text put into an input as a whole, from the history or for sending.
LEMMA RewrittenGood ==
  ASSUME NEW s, GoodViews(s), NEW i \in Inputs, s.input[i].buf # Nobody, NEW words \in Seq(Words)
  PROVE  Lawful(s, Rewritten(s, i, words)) /\ SameBuffers(s, Rewritten(s, i, words))
<1> DEFINE b == s.input[i].buf
           x == Text(b, words)
           t == [s EXCEPT !.input[i] = x]
           p == [t EXCEPT !.popup = NoPopup]
           h == words # <<>>
           u == InputChanged(s.typing, b, h)
           r == Rewritten(s, i, words)
<1>1. b \in Buffers /\ GoodTyping(s.typing)
  BY DEF GoodViews, GoodField, Field
<1>2. GoodField(x) /\ x.buf = b
  BY <1>1, TextGood
<1>3. r = [p EXCEPT !.typing = u]
  BY DEF Rewritten, GoodViews
<1>4. GoodTyping(u) /\ Settles(s.typing, u)
  <2>1. h \in BOOLEAN
    OBVIOUS
  <2> HIDE DEF h
  <2>2. QED
    BY <1>1, <2>1, InputChangedGood
<1> HIDE DEF x, u, r
<1>5. /\ GoodViews(t) /\ t.typing = s.typing
      /\ t.input[i] = x /\ \A j \in Inputs \ {i} : t.input[j] = s.input[j]
  BY <1>2, FieldChanged
<1> HIDE DEF t
<1>6. GoodViews(p) /\ p.typing = s.typing /\ p.input = t.input
  BY <1>5, PopupChanged, NoPopupGood
<1> HIDE DEF p
<1>7. GoodViews(r) /\ r.typing = u /\ r.input = p.input
  BY <1>3, <1>4, <1>6, TypingChanged
<1>8. QED
  BY <1>2, <1>4, <1>5, <1>6, <1>7 DEF Lawful, SameBuffers, r

\* A view leaves its buffer: the draft is kept, and the typing in it ends.
LEMMA LeftGood ==
  ASSUME NEW s, GoodViews(s), NEW i \in Inputs, s.input[i].buf # Nobody
  PROVE  Lawful(s, Left(s, i)) /\ Left(s, i).input = s.input /\ Left(s, i).popup = s.popup
<1> DEFINE b == s.input[i].buf
           w == s.input[i].words
           d == [s EXCEPT !.draft[b] = w]
           u == EndSelfTyping(s.typing, b)
           t == Left(s, i)
<1>1. b \in Buffers /\ w \in Seq(Words) /\ GoodTyping(s.typing)
  BY DEF GoodViews, GoodField, Field
<1>2. GoodTyping(u) /\ Settles(s.typing, u)
  BY <1>1, EndSelfTypingGood
<1>3. t = [d EXCEPT !.typing = u]
  BY DEF Left, GoodViews
<1>4. GoodViews(d) /\ d.typing = s.typing /\ d.input = s.input /\ d.popup = s.popup
  BY <1>1 DEF GoodViews
<1> HIDE DEF d, u, t
<1>5. GoodViews(t) /\ t.typing = u /\ t.input = d.input /\ t.popup = d.popup
  BY <1>2, <1>3, <1>4, TypingChanged
<1>6. QED
  BY <1>2, <1>4, <1>5 DEF Lawful, t

LEMMA LoadedGood ==
  ASSUME NEW s, GoodViews(s), NEW i \in Inputs, NEW b \in Buffers
  PROVE  LET t == Loaded(s, i, b)
         IN  /\ Lawful(s, t) /\ t.input[i].buf = b
             /\ \A j \in Inputs \ {i} : t.input[j] = s.input[j]
<1> DEFINE x == Text(b, s.draft[b])
           t == Loaded(s, i, b)
<1>1. GoodField(x) /\ x.buf = b
  BY TextGood DEF GoodViews
<1>2. x.buf # Nobody
  BY <1>1, NamesAssumption
<1>3. t = [s EXCEPT !.input[i] = x]
  BY DEF Loaded
<1> HIDE DEF x
<1>4. /\ GoodViews(t) /\ t.typing = s.typing
      /\ t.input[i] = x /\ \A j \in Inputs \ {i} : t.input[j] = s.input[j]
  BY <1>1, <1>2, <1>3, FieldChanged
<1> HIDE DEF t
<1>5. QED
  BY <1>1, <1>4, SettlesSame DEF Lawful, t

\* switchToChannel and retargetPane: the two views never share a buffer.
LEMMA SwitchToGood ==
  ASSUME NEW s, GoodViews(s), s.input["main"].buf # Nobody, NEW b \in Buffers
  PROVE  LET t == SwitchTo(s, b)
         IN  Lawful(s, t) /\ t.input["main"].buf = b /\ t.input["pane"] = s.input["pane"]
<1> DEFINE l == Left(s, "main")
           t == SwitchTo(s, b)
<1>1. "main" \in Inputs /\ "pane" \in Inputs \ {"main"}
  BY DEF Inputs
<1>2. Lawful(s, l) /\ l.input = s.input
  BY <1>1, LeftGood
<1>3. t = Loaded(l, "main", b)
  BY DEF SwitchTo
<1> HIDE DEF l, t
<1>4. Lawful(l, t) /\ t.input["main"].buf = b /\ t.input["pane"] = l.input["pane"]
  BY <1>1, <1>2, <1>3, LoadedGood DEF Lawful
<1>5. QED
  BY <1>2, <1>4, LawfulOn DEF t

LEMMA RetargetPaneGood ==
  ASSUME NEW s, GoodViews(s), Apart(s), s.input["pane"].buf # Nobody,
         NEW b \in Buffers, b # s.input["pane"].buf
  PROVE  Lawful(s, RetargetPane(s, b)) /\ Apart(RetargetPane(s, b))
<1> DEFINE old == s.input["pane"].buf
           l == Left(s, "pane")
           t == Loaded(l, "pane", b)
           r == RetargetPane(s, b)
<1>1. "pane" \in Inputs /\ "main" \in Inputs \ {"pane"}
  BY DEF Inputs
<1>2. Lawful(s, l) /\ l.input = s.input
  BY <1>1, LeftGood
<1> HIDE DEF l
<1>3. Lawful(l, t) /\ t.input["pane"].buf = b /\ t.input["main"] = l.input["main"]
  BY <1>1, <1>2, LoadedGood DEF Lawful
<1> HIDE DEF t
<1>4. Lawful(s, t)
  BY <1>2, <1>3, LawfulOn
<1>5. r = IF b = s.input["main"].buf THEN SwitchTo(t, old) ELSE t
  BY DEF RetargetPane, l, t
<1>6. old \in Buffers
  BY <1>1 DEF GoodViews, GoodField, Field
<1> HIDE DEF r
<1>7. CASE b = s.input["main"].buf
  <2>1. r = SwitchTo(t, old)
    BY <1>5, <1>7
  <2>2. t.input["main"].buf # Nobody
    BY <1>2, <1>3 DEF Apart
  <2>3. Lawful(t, r) /\ r.input["main"].buf = old /\ r.input["pane"] = t.input["pane"]
    BY <1>4, <1>6, <2>1, <2>2, SwitchToGood DEF Lawful
  <2>4. QED
    BY <1>3, <1>4, <1>6, <2>3, LawfulOn, NamesAssumption DEF Apart, r
<1>8. CASE b # s.input["main"].buf
  BY <1>2, <1>3, <1>4, <1>5, <1>8 DEF Apart, r
<1>9. QED
  BY <1>7, <1>8

\* closeChannelPane: a popup over the pane goes with it.
LEMMA PaneClosedGood ==
  ASSUME NEW s, GoodViews(s), Apart(s), s.input["pane"].buf # Nobody
  PROVE  Lawful(s, PaneClosed(s)) /\ Apart(PaneClosed(s))
<1> DEFINE l == Left(s, "pane")
           x == Text(Nobody, <<>>)
           p == IF l.popup.target = "pane" THEN NoPopup ELSE l.popup
           t == PaneClosed(s)
<1>1. "pane" \in Inputs /\ "main" \in Inputs \ {"pane"} /\ Inputs = {"main", "pane"}
  BY DEF Inputs
<1>2. Lawful(s, l) /\ l.input = s.input
  BY <1>1, LeftGood
<1>3. t = [l EXCEPT !.input["pane"] = x, !.popup = p]
  BY DEF PaneClosed
<1> HIDE DEF l
<1>4. GoodField(x) /\ x.buf = Nobody
  <2>1. Nobody \in Buffers \cup {Nobody} /\ <<>> \in Seq(Words)
    OBVIOUS
  <2>2. QED
    BY <2>1, TextGood
<1> HIDE DEF x
<1>5. /\ DOMAIN t = DOMAIN l /\ DOMAIN t.input = DOMAIN l.input
      /\ t.input["pane"] = x /\ t.input["main"] = l.input["main"]
      /\ t.popup = p /\ t.typing = l.typing /\ t.draft = l.draft
  BY <1>1, <1>2, <1>3 DEF Lawful, GoodViews
<1>6. GoodPopup(t.popup, t.input)
  <2>1. CASE l.popup.target = "pane"
    BY <1>5, <2>1, NoPopupGood
  <2>2. CASE l.popup.target # "pane"
    <3>1. t.popup = l.popup /\ GoodPopup(l.popup, l.input) /\ l.popup.target \in {"main", Nobody}
      BY <1>1, <1>2, <1>5, <2>2 DEF Lawful, GoodViews, GoodPopup, Emoji
    <3>2. QED
      BY <1>5, <3>1 DEF GoodPopup
  <2>3. QED
    BY <2>1, <2>2
<1> HIDE DEF t, p
<1>7. GoodViews(t)
  BY <1>1, <1>2, <1>4, <1>5, <1>6 DEF Lawful, GoodViews
<1>8. Apart(t)
  BY <1>2, <1>4, <1>5 DEF Apart
<1>9. Settles(s.typing, t.typing)
  BY <1>2, <1>5 DEF Lawful
<1>10. QED
  BY <1>7, <1>8, <1>9 DEF Lawful, t

\* The popup's emoji goes where its code began.
LEMMA CommitGood ==
  ASSUME NEW s, GoodViews(s), s.popup.target \in Inputs
  PROVE  Lawful(s, Commit(s)) /\ SameBuffers(s, Commit(s))
<1> DEFINE p == s.popup
           i == p.target
           t == [s EXCEPT !.popup = NoPopup]
           in == Replaced(s.input[i], p.at, p.emoji)
           c == Commit(s)
<1>1. p \in Emoji /\ p.emoji \in Words /\ s.input[i].buf # Nobody /\ GoodField(s.input[i])
  BY NamesAssumption DEF GoodViews, GoodPopup
<1>2. p.at \in Nat
  BY <1>1 DEF Emoji
<1>3. GoodViews(t) /\ t.typing = s.typing /\ t.input = s.input
  BY PopupChanged, NoPopupGood
<1>4. GoodField(in) /\ in.buf = s.input[i].buf
  BY <1>1, <1>2, ReplacedGood
<1>5. c = Edited(t, i, in)
  BY DEF Commit
<1> HIDE DEF c, in, t
<1>6. Lawful(t, c) /\ SameBuffers(t, c)
  BY <1>1, <1>3, <1>4, <1>5, EditedGood
<1>7. QED
  BY <1>3, <1>6 DEF Lawful, SameBuffers, c

-----------------------------------------------------------------------------
(* History, completion, others.                                            *)

GoodHistory(h) == h \in Seq(Seq(Words)) /\ Len(h) =< HistoryCap

GoodRecall(r, h) ==
  /\ r \in [index : Int, draft : Seq(Words), target : Inputs \cup {Nobody}]
  /\ r.index \in -1 .. Len(h) - 1

GoodCycle(c) ==
  /\ c \in [active : BOOLEAN, cands : Seq(DOMAIN Finished), next : Nat, start : Nat]
  /\ c.next = 0 \/ c.next < Len(c.cands)

GoodNotes == typers \subseteq Buffers \X People /\ expiry \subseteq Buffers \X People

ComposeInd ==
  /\ GoodViews(Views)
  /\ Apart(Views)
  /\ GoodHistory(history)
  /\ GoodRecall(recall, history)
  /\ GoodCycle(tab)
  /\ GoodNotes

\* A step leaves nobody believing that the user types, but with the notes off.
Settling == typing'.on => Settles(typing, typing')

\* A step that ends with views s.
LEMMA BecomeGood ==
  ASSUME NEW s, Become(s), Lawful(Views, s), Apart(s)
  PROVE  GoodViews(Views)' /\ Apart(Views)' /\ Settling
<1>1. input' = s.input /\ draft' = s.draft /\ popup' = s.popup /\ typing' = s.typing
  BY DEF Become
<1>2. GoodViews(Views)'
  BY <1>1 DEF Lawful, GoodViews, Views
<1>3. Apart(Views)'
  BY <1>1 DEF Apart, Views
<1>4. Settling
  BY <1>1 DEF Settling, Lawful, Views
<1>5. QED
  BY <1>2, <1>3, <1>4

LEMMA StayGood ==
  ASSUME UNCHANGED field, GoodViews(Views), Apart(Views)
  PROVE  GoodViews(Views)' /\ Apart(Views)' /\ Settling
<1>1. input' = input /\ draft' = draft /\ popup' = popup /\ typing' = typing
  BY DEF field
<1>2. GoodViews(Views)'
  BY <1>1 DEF GoodViews, Views
<1>3. Apart(Views)'
  BY <1>1 DEF Apart, Views
<1>4. Settling
  BY <1>1, SettlesSame DEF Settling
<1>5. QED
  BY <1>2, <1>3, <1>4

\* An input in use shows a buffer.
LEMMA KeyGood ==
  ASSUME ComposeInd, NEW i \in Inputs, Key(i)
  PROVE  /\ GoodField(input[i]) /\ input[i].buf \in Buffers /\ input[i].buf # Nobody
         /\ GoodField(Views.input[i]) /\ Views.input[i] = input[i]
         /\ input[i].words \in Seq(Words) /\ input[i].pos \in Nat /\ input[i].pos =< Len(input[i].words)
         /\ GoodNotes'
BY DEF ComposeInd, GoodViews, Views, GoodField, Field, Key, GoodNotes

LEMMA NoCycleGood == GoodCycle(NoCycle)
<1>1. <<>> \in Seq(DOMAIN Finished)
  OBVIOUS
<1>2. QED
  BY <1>1 DEF GoodCycle, NoCycle

\* The keys that edit one input and leave the history alone.
LEMMA EditGood ==
  ASSUME ComposeInd, NEW i \in Inputs, Key(i), NEW in, GoodField(in), in.buf = input[i].buf,
         Become(Edited(Views, i, in)), GoodCycle(tab'), UNCHANGED <<history, recall>>
  PROVE  ComposeInd' /\ Settling
<1> DEFINE e == Edited(Views, i, in)
<1>1. in.buf # Nobody /\ in.buf = Views.input[i].buf /\ GoodViews(Views) /\ Apart(Views)
  BY KeyGood DEF ComposeInd
<1>2. Lawful(Views, e) /\ SameBuffers(Views, e)
  BY <1>1, EditedGood
<1>3. Apart(e)
  BY <1>1, <1>2, SameApart
<1>4. GoodViews(Views)' /\ Apart(Views)' /\ Settling
  BY <1>2, <1>3, BecomeGood
<1>5. QED
  BY <1>4, KeyGood DEF ComposeInd

LEMMA TypeGood ==
  ASSUME ComposeInd, NEW i \in Inputs, NEW w \in Typed, Type(i, w)
  PROVE  ComposeInd' /\ Settling
<1> DEFINE in == Inserted(input[i], w)
<1>1. Key(i) /\ Become(Edited(Views, i, in)) /\ tab' = NoCycle /\ UNCHANGED <<history, recall>>
  BY DEF Type
<1>2. w \in Words
  BY WordsAssumption
<1>3. GoodField(in) /\ in.buf = input[i].buf
  BY <1>1, <1>2, KeyGood, ReplacedGood DEF Inserted
<1>4. GoodCycle(tab')
  BY <1>1, NoCycleGood
<1> HIDE DEF in
<1>5. QED
  BY <1>1, <1>3, <1>4, EditGood

LEMMA EraseGood ==
  ASSUME ComposeInd, NEW i \in Inputs, Erase(i)
  PROVE  ComposeInd' /\ Settling
<1> DEFINE old == input[i]
           a == SubSeq(old.words, 1, old.pos - 1)
           c == SubSeq(old.words, old.pos + 1, Len(old.words))
           in == [old EXCEPT !.words = SubSeq(@, 1, old.pos - 1) \o SubSeq(@, old.pos + 1, Len(@)),
                             !.pos = @ - 1]
<1>1. /\ Key(i) /\ old.pos > 0 /\ Become(Edited(Views, i, in)) /\ tab' = NoCycle
      /\ UNCHANGED <<history, recall>>
  BY DEF Erase
<1>2. /\ GoodField(old) /\ old \in Field /\ old.words \in Seq(Words) /\ Len(old.words) \in Nat
      /\ old.pos \in 1 .. Len(old.words)
  BY <1>1, KeyGood, LenProperties DEF GoodField
<1>3. in = [old EXCEPT !.words = a \o c, !.pos = old.pos - 1]
  BY <1>2 DEF Field
<1>4. a \in Seq(Words) /\ Len(a) = old.pos - 1
  <2>1. 1 \in Int /\ old.pos - 1 \in Int /\ 1 >= 1 /\ old.pos - 1 =< Len(old.words) /\ old.pos - 1 >= 1 - 1
    BY <1>2
  <2>2. QED
    BY <1>2, <2>1, PartOfText
<1>5. c \in Seq(Words)
  <2>1. /\ old.pos + 1 \in Int /\ Len(old.words) \in Int /\ old.pos + 1 >= 1
        /\ Len(old.words) =< Len(old.words) /\ Len(old.words) >= old.pos + 1 - 1
    BY <1>2
  <2>2. QED
    BY <1>2, <2>1, PartOfText
<1> HIDE DEF a, c
<1>6. a \o c \in Seq(Words) /\ Len(a \o c) = old.pos - 1 + Len(c) /\ Len(c) \in Nat
  BY <1>4, <1>5, TextsJoined, SMTT(30)
<1>7. GoodField(in) /\ in.buf = old.buf
  <2> DEFINE text == a \o c
             p == old.pos - 1
  <2>1. text \in Seq(Words) /\ p \in Nat /\ p =< Len(text)
    BY <1>2, <1>6
  <2>2. in = [old EXCEPT !.words = text, !.pos = p]
    BY <1>3
  <2> HIDE DEF text, p, in
  <2>3. in \in Field /\ in.words = text /\ in.pos = p /\ in.buf = old.buf
    BY <1>2, <2>1, <2>2 DEF Field
  <2>4. QED
    BY <2>1, <2>3 DEF GoodField, in
<1>8. GoodCycle(tab')
  BY <1>1, NoCycleGood
<1> HIDE DEF in
<1>9. QED
  BY <1>1, <1>7, <1>8, EditGood

LEMMA ClickGood ==
  ASSUME ComposeInd, NEW i \in Inputs, NEW p \in 0 .. Len(input[i].words), Click(i, p)
  PROVE  ComposeInd' /\ Settling
<1>1. /\ Key(i) /\ input' = [input EXCEPT ![i].pos = p]
      /\ draft' = draft /\ popup' = popup /\ typing' = typing
      /\ history' = history /\ recall' = recall /\ tab' = tab
  BY DEF Click
<1> DEFINE in == [input[i] EXCEPT !.pos = p]
<1>2. DOMAIN input = Inputs /\ \A j \in Inputs : GoodField(input[j])
  BY DEF ComposeInd, GoodViews, Views
<1>3. GoodField(in) /\ in.buf = input[i].buf
  <2>1. input[i] \in Field /\ Len(input[i].words) \in Nat /\ p \in Nat /\ p =< Len(input[i].words)
    BY <1>2, LenProperties DEF GoodField, Field
  <2>2. in \in Field /\ in.words = input[i].words /\ in.pos = p /\ in.buf = input[i].buf
    BY <2>1 DEF Field
  <2>3. QED
    BY <2>1, <2>2 DEF GoodField
<1>4. /\ DOMAIN input' = Inputs /\ input'[i] = in
      /\ \A j \in Inputs \ {i} : input'[j] = input[j]
  BY <1>1, <1>2
<1> HIDE DEF in
<1>5. \A j \in Inputs : GoodField(input'[j]) /\ input'[j].buf = input[j].buf
  BY <1>2, <1>3, <1>4
<1>6. GoodViews(Views)'
  <2>1. GoodPopup(popup', input')
    BY <1>1, <1>5 DEF ComposeInd, GoodViews, Views, GoodPopup, Emoji
  <2>2. QED
    BY <1>1, <1>4, <1>5, <2>1 DEF ComposeInd, GoodViews, Views
<1>7. Apart(Views)'
  BY <1>5 DEF ComposeInd, Apart, Views, Inputs
<1>8. Settling
  BY <1>1, SettlesSame DEF Settling
<1>9. QED
  BY <1>1, <1>6, <1>7, <1>8, KeyGood DEF ComposeInd

LEMMA CommitEmojiGood ==
  ASSUME ComposeInd, NEW i \in Inputs, CommitEmoji(i)
  PROVE  ComposeInd' /\ Settling
<1> DEFINE e == Commit(Views)
<1>1. /\ Key(i) /\ popup.target = i /\ Become(e) /\ history' = history /\ recall' = recall /\ tab' = tab
  BY DEF CommitEmoji
<1>2. GoodViews(Views) /\ Apart(Views) /\ Views.popup.target \in Inputs
  BY <1>1 DEF ComposeInd, Views
<1>3. Lawful(Views, e) /\ SameBuffers(Views, e)
  BY <1>2, CommitGood
<1> HIDE DEF e
<1>4. Apart(e)
  BY <1>2, <1>3, SameApart
<1>5. GoodViews(Views)' /\ Apart(Views)' /\ Settling
  BY <1>1, <1>3, <1>4, BecomeGood
<1>6. QED
  BY <1>1, <1>5, KeyGood DEF ComposeInd

LEMMA HideEmojiGood ==
  ASSUME ComposeInd, NEW i \in Inputs, HideEmoji(i)
  PROVE  ComposeInd' /\ Settling
<1>1. /\ Key(i) /\ popup' = NoPopup /\ input' = input /\ draft' = draft /\ typing' = typing
      /\ history' = history /\ recall' = recall /\ tab' = tab
  BY DEF HideEmoji
<1>2. GoodViews(Views)'
  BY <1>1, NoPopupGood DEF ComposeInd, GoodViews, Views
<1>3. Apart(Views)'
  BY <1>1 DEF ComposeInd, Apart, Views
<1>4. Settling
  BY <1>1, SettlesSame DEF Settling
<1>5. QED
  BY <1>1, <1>2, <1>3, <1>4, KeyGood DEF ComposeInd

LEMMA RemainderSmall ==
  ASSUME NEW n \in Nat, n > 0, NEW a \in Int
  PROVE  a % n \in Nat /\ a % n < n
OBVIOUS

LEMMA CycleGood ==
  ASSUME ComposeInd, NEW i \in Inputs, Key(i)
  PROVE  GoodCycle(Cycle(input[i]))
<1> DEFINE in == input[i]
           c == Cycle(in)
<1>1. CASE tab.active
  BY <1>1 DEF ComposeInd, Cycle
<1>2. CASE ~tab.active /\ c = NoCycle
  BY <1>2, NoCycleGood
<1>3. CASE ~tab.active /\ c # NoCycle
  <2>1. /\ in.pos # 0
        /\ c = [active |-> TRUE, cands |-> Candidates[in.buf][in.words[in.pos]],
                next |-> 0, start |-> in.pos - 1]
    BY <1>3 DEF Cycle
  <2>2. in.words \in Seq(Words) /\ in.pos \in Nat /\ in.pos =< Len(in.words) /\ in.buf \in Buffers
    BY KeyGood
  <2>3. in.words[in.pos] \in Words /\ in.pos - 1 \in Nat
    BY <2>1, <2>2
  <2>4. Candidates[in.buf][in.words[in.pos]] \in Seq(DOMAIN Finished)
    BY <2>2, <2>3, WordsAssumption
  <2>5. QED
    BY <2>1, <2>3, <2>4 DEF GoodCycle
<1>4. QED
  BY <1>1, <1>2, <1>3

\* handleTabComplete: the index stays inside the candidates, forward and backward.
LEMMA TabCompleteGood ==
  ASSUME ComposeInd, NEW i \in Inputs, NEW backward \in BOOLEAN, TabComplete(i, backward)
  PROVE  ComposeInd' /\ Settling
<1> DEFINE old == input[i]
           cycle == Cycle(old)
           n == Len(cycle.cands)
           index == Candidate(cycle, backward)
           word == cycle.cands[index + 1]
           w == IF old.pos = Len(old.words) THEN Finished[word] ELSE word
           in == Replaced(old, cycle.start, w)
<1>1. /\ Key(i) /\ history' = history /\ recall' = recall
      /\ IF ~cycle.active \/ cycle.cands = <<>>
         THEN tab' = cycle /\ UNCHANGED field
         ELSE /\ Become(Edited(Views, i, in))
              /\ tab' = [cycle EXCEPT !.next = Following(index, n)]
  BY DEF TabComplete
<1>2. GoodCycle(cycle) /\ n \in Nat
  BY <1>1, CycleGood, LenProperties DEF GoodCycle
<1>3. CASE ~cycle.active \/ cycle.cands = <<>>
  <2>1. tab' = cycle /\ UNCHANGED field
    BY <1>1, <1>3
  <2>2. GoodViews(Views)' /\ Apart(Views)' /\ Settling
    BY <2>1, StayGood DEF ComposeInd
  <2>3. QED
    BY <1>1, <1>2, <2>1, <2>2, KeyGood DEF ComposeInd
<1>4. CASE ~(~cycle.active \/ cycle.cands = <<>>)
  <2>1. n > 0 /\ cycle.cands \in Seq(DOMAIN Finished) /\ cycle.next \in Nat /\ cycle.next < n /\ cycle.start \in Nat
    BY <1>2, <1>4 DEF GoodCycle
  <2>2. index \in Nat /\ index < n
    <3>1. CASE ~backward
      BY <2>1, <3>1 DEF Candidate
    <3>2. CASE backward /\ ~tab.active
      BY <1>2, <2>1, <3>2 DEF Candidate
    <3>3. CASE backward /\ tab.active
      <4> DEFINE m == cycle.next - 2 + n
      <4>1. index = m % n
        BY <3>3 DEF Candidate
      <4>2. m \in Int
        BY <1>2, <2>1
      <4> HIDE DEF m, n
      <4>3. QED
        BY <1>2, <2>1, <4>1, <4>2, RemainderSmall
    <3>4. QED
      BY <3>1, <3>2, <3>3
  <2> HIDE DEF cycle, index
  <2>3. word \in DOMAIN Finished
    BY <1>2, <2>1, <2>2
  <2>4. w \in Words
    BY <2>3, WordsAssumption
  <2> HIDE DEF w
  <2>5. GoodField(in) /\ in.buf = old.buf
    BY <1>1, <2>1, <2>4, KeyGood, ReplacedGood
  <2>6. GoodCycle(tab')
    <3>1. tab' = [cycle EXCEPT !.next = Following(index, n)]
      BY <1>1, <1>4
    <3>2. Following(index, n) \in Nat /\ Following(index, n) < n
      <4> HIDE DEF n
      <4>1. index + 1 \in Int
        BY <2>2
      <4>2. QED
        BY <1>2, <2>1, <4>1, RemainderSmall DEF Following
    <3>3. QED
      BY <1>2, <3>1, <3>2 DEF GoodCycle
  <2>7. Become(Edited(Views, i, in))
    BY <1>1, <1>4
  <2> HIDE DEF in
  <2>8. QED
    BY <1>1, <2>5, <2>6, <2>7, EditGood
<1>5. QED
  BY <1>3, <1>4

\* noteHistoryTarget: another input begins at the newest entry.
LEMMA TargetGood ==
  ASSUME ComposeInd, NEW i \in Inputs
  PROVE  GoodRecall(Target(i), history)
<1>1. Len(history) \in Nat /\ <<>> \in Seq(Words)
  BY LenProperties DEF ComposeInd, GoodHistory
<1>2. CASE recall.target = i
  BY <1>2 DEF Target, ComposeInd
<1>3. CASE recall.target # i
  BY <1>1, <1>3 DEF Target, GoodRecall
<1>4. QED
  BY <1>2, <1>3

LEMMA TabAfterGood ==
  ASSUME ComposeInd, NEW i \in Inputs, tab' = TabAfterHistory(i)
  PROVE  GoodCycle(tab')
BY NoCycleGood DEF TabAfterHistory, ComposeInd

\* The keys that put another text into one input.
LEMMA RewriteGood ==
  ASSUME ComposeInd, NEW i \in Inputs, Key(i), NEW words \in Seq(Words),
         Become(Rewritten(Views, i, words)), GoodCycle(tab'),
         UNCHANGED history, GoodRecall(recall', history)
  PROVE  ComposeInd' /\ Settling
<1> DEFINE e == Rewritten(Views, i, words)
<1>1. Views.input[i].buf # Nobody /\ GoodViews(Views) /\ Apart(Views)
  BY KeyGood DEF ComposeInd
<1>2. Lawful(Views, e) /\ SameBuffers(Views, e)
  BY <1>1, RewrittenGood
<1>3. Apart(e)
  BY <1>1, <1>2, SameApart
<1>4. GoodViews(Views)' /\ Apart(Views)' /\ Settling
  BY <1>2, <1>3, BecomeGood
<1>5. QED
  BY <1>4, KeyGood DEF ComposeInd

\* handleHistoryUp and handleHistoryDown: the index stays inside the history.
LEMMA HistoryUpGood ==
  ASSUME ComposeInd, NEW i \in Inputs, HistoryUp(i)
  PROVE  ComposeInd' /\ Settling
<1> DEFINE r == Target(i)
           up == Step(r, input[i].words)
           words == history[up.index + 1]
<1>1. /\ Key(i) /\ tab' = TabAfterHistory(i) /\ history' = history
      /\ IF history = <<>> THEN UNCHANGED <<field, recall>>
         ELSE recall' = up /\ Become(Rewritten(Views, i, words))
  BY DEF HistoryUp
<1>2. GoodCycle(tab')
  BY <1>1, TabAfterGood
<1>3. CASE history = <<>>
  <2>1. UNCHANGED field /\ recall' = recall
    BY <1>1, <1>3
  <2>2. GoodViews(Views)' /\ Apart(Views)' /\ Settling
    BY <2>1, StayGood DEF ComposeInd
  <2>3. QED
    BY <1>1, <1>2, <2>1, <2>2, KeyGood DEF ComposeInd
<1>4. CASE history # <<>>
  <2>1. history \in Seq(Seq(Words)) /\ Len(history) \in Nat /\ Len(history) > 0
    BY <1>4, LenProperties DEF ComposeInd, GoodHistory
  <2>2. GoodRecall(r, history)
    BY TargetGood
  <2> HIDE DEF r
  <2> DEFINE d == IF r.index = -1 THEN input[i].words ELSE r.draft
             a == r.index + 1
             z == Len(history) - 1
             m == Min({a, z})
  <2>3. up = [r EXCEPT !.draft = d, !.index = m]
    BY <2>2 DEF Step, GoodRecall
  <2>4. d \in Seq(Words)
    BY <1>1, <2>2, KeyGood DEF GoodRecall
  <2>5. a \in 0 .. Len(history) /\ z \in Nat
    BY <2>1, <2>2 DEF GoodRecall
  <2>6. m \in 0 .. Len(history) - 1
    <3>1. a \in Int /\ z \in Int /\ a >= 0 /\ z >= 0
      BY <2>1, <2>5
    <3>2. m \in Int /\ m >= 0 /\ m =< z
      <4> HIDE DEF a, z
      <4>1. m = IF a =< z THEN a ELSE z
        BY <3>1, OfTwo
      <4>2. QED
        BY <3>1, <4>1
    <3>3. QED
      BY <2>1, <3>2
  <2> HIDE DEF d, m
  <2>7. GoodRecall(up, history) /\ up.index = m
    <3>1. up \in [index : Int, draft : Seq(Words), target : Inputs \cup {Nobody}] /\ up.index = m
      <4> HIDE DEF up
      <4>1. r \in [index : Int, draft : Seq(Words), target : Inputs \cup {Nobody}] /\ m \in Int
        BY <2>1, <2>2, <2>6 DEF GoodRecall
      <4>2. QED
        BY <2>3, <2>4, <4>1
    <3>2. QED
      BY <2>6, <3>1 DEF GoodRecall
  <2> HIDE DEF up
  <2>8. words \in Seq(Words)
    <3>1. up.index + 1 \in 1 .. Len(history)
      BY <2>1, <2>6, <2>7
    <3>2. QED
      BY <2>1, <3>1
  <2>9. recall' = up /\ Become(Rewritten(Views, i, words))
    BY <1>1, <1>4
  <2> HIDE DEF words
  <2>10. QED
    BY <1>1, <1>2, <2>7, <2>8, <2>9, RewriteGood
<1>5. QED
  BY <1>3, <1>4

LEMMA HistoryDownGood ==
  ASSUME ComposeInd, NEW i \in Inputs, HistoryDown(i)
  PROVE  ComposeInd' /\ Settling
<1> DEFINE r == Target(i)
           words == IF r.index = 0 THEN r.draft ELSE history[r.index]
           a == r.index - 1
           m == Max({a, -1})
<1>1. /\ Key(i) /\ tab' = TabAfterHistory(i) /\ history' = history
      /\ recall' = [r EXCEPT !.index = Max({@ - 1, -1})]
      /\ IF r.index = -1 THEN UNCHANGED field ELSE Become(Rewritten(Views, i, words))
  BY DEF HistoryDown
<1>2. GoodCycle(tab')
  BY <1>1, TabAfterGood
<1>3. GoodRecall(r, history) /\ history \in Seq(Seq(Words)) /\ Len(history) \in Nat
  BY TargetGood, LenProperties DEF ComposeInd, GoodHistory
<1> HIDE DEF r
<1>4. recall' = [r EXCEPT !.index = m]
  BY <1>1, <1>3 DEF GoodRecall
<1>5. m \in -1 .. Len(history) - 1
  <2>1. a \in Int /\ a >= -2 /\ a =< Len(history) - 1 /\ -1 \in Int
    BY <1>3 DEF GoodRecall
  <2> HIDE DEF a
  <2>2. m = IF a =< -1 THEN -1 ELSE a
    BY <2>1, OfTwo
  <2>3. QED
    BY <1>3, <2>1, <2>2
<1> HIDE DEF m
<1>6. GoodRecall(recall', history)
  <2>1. r \in [index : Int, draft : Seq(Words), target : Inputs \cup {Nobody}] /\ m \in Int
    BY <1>3, <1>5 DEF GoodRecall
  <2>2. recall' \in [index : Int, draft : Seq(Words), target : Inputs \cup {Nobody}] /\ recall'.index = m
    BY <1>4, <2>1
  <2>3. QED
    BY <1>5, <2>2 DEF GoodRecall
<1>7. CASE r.index = -1
  <2>1. UNCHANGED field
    BY <1>1, <1>7
  <2>2. GoodViews(Views)' /\ Apart(Views)' /\ Settling
    BY <2>1, StayGood DEF ComposeInd
  <2>3. QED
    BY <1>1, <1>2, <1>6, <2>2, KeyGood DEF ComposeInd
<1>8. CASE r.index # -1
  <2>1. words \in Seq(Words)
    BY <1>3, <1>8 DEF GoodRecall
  <2>2. Become(Rewritten(Views, i, words))
    BY <1>1, <1>8
  <2> HIDE DEF words
  <2>3. QED
    BY <1>1, <1>2, <1>6, <2>1, <2>2, RewriteGood
<1>9. QED
  BY <1>7, <1>8

-----------------------------------------------------------------------------
(* Sending and the rest.                                                   *)

\* pushInputHistory: the history keeps within its cap.
LEMMA PushedGood ==
  ASSUME GoodHistory(history), NEW words \in Seq(Words)
  PROVE  GoodHistory(Pushed(words))
<1> DEFINE h == <<words>> \o history
           n == Min({HistoryCap, Len(history) + 1})
           p == SubSeq(h, 1, n)
<1>1. history \in Seq(Seq(Words)) /\ Len(history) \in Nat /\ HistoryCap \in Nat
  BY LenProperties, LimitsGood DEF GoodHistory
<1>2. h \in Seq(Seq(Words)) /\ Len(h) = Len(history) + 1
  <2> DEFINE q == <<words>>
  <2>1. q \in Seq(Seq(Words)) /\ Len(q) = 1
    OBVIOUS
  <2> HIDE DEF q
  <2>2. q \o history \in Seq(Seq(Words)) /\ Len(q \o history) = Len(q) + Len(history)
    BY <1>1, <2>1, ConcatProperties
  <2>3. QED
    BY <1>1, <2>1, <2>2 DEF q
<1>3. n \in Nat /\ n =< HistoryCap /\ n =< Len(history) + 1
  <2> DEFINE a == HistoryCap
             c == Len(history) + 1
  <2>1. a \in Int /\ c \in Int /\ a >= 0 /\ c >= 0
    BY <1>1
  <2> HIDE DEF a, c
  <2>2. Min({a, c}) = IF a =< c THEN a ELSE c
    BY <2>1, OfTwo
  <2>3. Min({a, c}) \in Int /\ Min({a, c}) >= 0 /\ Min({a, c}) =< a /\ Min({a, c}) =< c
    BY <2>1, <2>2
  <2>4. QED
    BY <2>3 DEF a, c
<1> HIDE DEF h, n
<1>4. p \in Seq(Seq(Words)) /\ Len(p) = n
  <2>1. CASE 1 =< n
    BY <1>1, <1>2, <1>3, <2>1, SubSeqProperties
  <2>2. CASE n = 0
    BY <1>2, <2>2, SubSeqProperties
  <2>3. QED
    BY <1>3, <2>1, <2>2
<1>5. Pushed(words) = IF history # <<>> /\ Head(history) = words THEN history ELSE p
  BY DEF Pushed, p, h, n
<1>6. QED
  BY <1>3, <1>4, <1>5 DEF GoodHistory

\* onInputSubmit: the text goes first, then the note, then the view of /query.
LEMMA SubmitGood ==
  ASSUME ComposeInd, NEW i \in Inputs, NEW b \in Buffers, Submit(i, b)
  PROVE  ComposeInd' /\ Settling
<1> DEFINE in == input[i]
           cleared == Rewritten(Views, i, <<>>)
           sent == [cleared EXCEPT !.typing = EndSelfTyping(@, in.buf)]
           u == EndSelfTyping(cleared.typing, in.buf)
           shown == IF i = "main" THEN SwitchTo(sent, b) ELSE RetargetPane(sent, b)
<1>1. /\ Key(i) /\ history' = Pushed(in.words) /\ recall' = [Target(i) EXCEPT !.index = -1]
      /\ tab' = NoCycle
      /\ IF Head(in.words) # Query THEN b = in.buf /\ Become(sent) ELSE ~Showing(b) /\ Become(shown)
  BY DEF Submit
<1>2. GoodHistory(history')
  BY <1>1, KeyGood, PushedGood DEF ComposeInd
<1>3. GoodRecall(recall', history')
  <2>1. Target(i) \in [index : Int, draft : Seq(Words), target : Inputs \cup {Nobody}]
    BY TargetGood DEF GoodRecall
  <2>2. recall' \in [index : Int, draft : Seq(Words), target : Inputs \cup {Nobody}] /\ recall'.index = -1
    BY <1>1, <2>1
  <2>3. Len(history') \in Nat
    BY <1>2, LenProperties DEF GoodHistory
  <2>4. QED
    BY <2>2, <2>3 DEF GoodRecall
<1>4. GoodCycle(tab') /\ GoodNotes'
  BY <1>1, NoCycleGood, KeyGood
<1>5. Views.input[i].buf # Nobody /\ GoodViews(Views) /\ Apart(Views)
  BY <1>1, KeyGood DEF ComposeInd
<1>6. Lawful(Views, cleared) /\ SameBuffers(Views, cleared)
  <2>1. <<>> \in Seq(Words)
    OBVIOUS
  <2>2. QED
    BY <1>5, <2>1, RewrittenGood
<1> HIDE DEF cleared
<1>7. sent = [cleared EXCEPT !.typing = u]
  BY <1>6 DEF Lawful, GoodViews
<1>8. GoodTyping(u) /\ Settles(cleared.typing, u)
  <2>1. GoodTyping(cleared.typing)
    BY <1>6 DEF Lawful, GoodViews
  <2>2. QED
    BY <2>1, EndSelfTypingGood
<1> HIDE DEF u, sent
<1>9. GoodViews(sent) /\ sent.typing = u /\ sent.input = cleared.input
  BY <1>6, <1>7, <1>8, TypingChanged DEF Lawful
<1>10. Lawful(Views, sent) /\ SameBuffers(Views, sent)
  BY <1>6, <1>8, <1>9, SettlesOn DEF Lawful, SameBuffers
<1>11. Apart(sent)
  BY <1>5, <1>10, SameApart
<1>12. GoodViews(Views)' /\ Apart(Views)' /\ Settling
  <2>1. CASE Head(in.words) # Query
    <3>1. Become(sent)
      BY <1>1, <2>1
    <3>2. QED
      BY <1>10, <1>11, <3>1, BecomeGood
  <2>2. CASE Head(in.words) = Query
    <3>1. ~Showing(b) /\ Become(shown)
      BY <1>1, <2>2
    <3>2. \A j \in Inputs : sent.input[j].buf # b
      BY <1>10, <3>1 DEF SameBuffers, Showing, Views
    <3>3. Lawful(sent, shown) /\ Apart(shown)
      <4>1. CASE i = "main"
        <5>1. shown = SwitchTo(sent, b)
          BY <4>1
        <5>2. /\ Lawful(sent, shown) /\ shown.input["main"].buf = b
              /\ shown.input["pane"] = sent.input["pane"]
          BY <1>9, <1>11, <5>1, SwitchToGood DEF Apart
        <5>3. QED
          BY <3>2, <5>2, NamesAssumption DEF Apart, Inputs
      <4>2. CASE i # "main"
        <5>1. shown = RetargetPane(sent, b) /\ i = "pane"
          BY <4>2 DEF Inputs
        <5>2. sent.input["pane"].buf # Nobody
          BY <1>5, <1>10, <5>1 DEF SameBuffers
        <5>3. "pane" \in Inputs
          BY DEF Inputs
        <5>4. b # sent.input["pane"].buf
          BY <3>2, <5>3
        <5>5. QED
          BY <1>9, <1>11, <5>1, <5>2, <5>4, RetargetPaneGood
      <4>3. QED
        BY <4>1, <4>2
    <3> HIDE DEF shown
    <3>4. Lawful(Views, shown)
      BY <1>10, <3>3, LawfulOn
    <3>5. QED
      BY <3>1, <3>3, <3>4, BecomeGood
  <2>3. QED
    BY <2>1, <2>2
<1>13. QED
  BY <1>2, <1>3, <1>4, <1>12 DEF ComposeInd

\* The steps of the mouse, which change the views and nothing else.
LEMMA ViewedGood ==
  ASSUME ComposeInd, NEW s, Lawful(Views, s), Apart(s), Become(s),
         UNCHANGED <<history, recall, tab, typers, expiry>>
  PROVE  ComposeInd' /\ Settling
<1>1. GoodViews(Views)' /\ Apart(Views)' /\ Settling
  BY BecomeGood
<1>2. QED
  BY <1>1 DEF ComposeInd, GoodNotes

LEMMA SwitchGood ==
  ASSUME ComposeInd, NEW b \in Buffers, Switch(b)
  PROVE  ComposeInd' /\ Settling
<1> DEFINE s == SwitchTo(Views, b)
<1>1. ~Showing(b) /\ Become(s) /\ UNCHANGED <<history, recall, tab, typers, expiry>>
  BY DEF Switch
<1>2. Views.input["main"].buf # Nobody /\ GoodViews(Views)
  BY DEF ComposeInd, Apart
<1>3. Lawful(Views, s) /\ s.input["main"].buf = b /\ s.input["pane"] = Views.input["pane"]
  BY <1>2, SwitchToGood
<1>4. Apart(s)
  BY <1>1, <1>3, NamesAssumption DEF Apart, Showing, Inputs, Views
<1> HIDE DEF s
<1>5. QED
  BY <1>1, <1>3, <1>4, ViewedGood

LEMMA RetargetGood ==
  ASSUME ComposeInd, NEW b \in Buffers, Retarget(b)
  PROVE  ComposeInd' /\ Settling
<1> DEFINE s == RetargetPane(Views, b)
<1>1. /\ input["pane"].buf # Nobody /\ input["pane"].buf # b
      /\ Become(s) /\ UNCHANGED <<history, recall, tab, typers, expiry>>
  BY DEF Retarget
<1>2. GoodViews(Views) /\ Apart(Views) /\ Views.input["pane"].buf # Nobody /\ b # Views.input["pane"].buf
  BY <1>1 DEF ComposeInd, Views
<1>3. Lawful(Views, s) /\ Apart(s)
  BY <1>2, RetargetPaneGood
<1> HIDE DEF s
<1>4. QED
  BY <1>1, <1>3, ViewedGood

LEMMA OpenPaneGood ==
  ASSUME ComposeInd, NEW b \in Buffers, OpenPane(b)
  PROVE  ComposeInd' /\ Settling
<1> DEFINE s == Loaded(Views, "pane", b)
<1>1. ~Showing(b) /\ Become(s) /\ UNCHANGED <<history, recall, tab, typers, expiry>>
  BY DEF OpenPane
<1>2. "pane" \in Inputs /\ "main" \in Inputs \ {"pane"}
  BY DEF Inputs
<1>3. Lawful(Views, s) /\ s.input["pane"].buf = b /\ s.input["main"] = Views.input["main"]
  BY <1>2, LoadedGood DEF ComposeInd
<1>4. Apart(s)
  BY <1>1, <1>2, <1>3 DEF ComposeInd, Apart, Showing, Views
<1> HIDE DEF s
<1>5. QED
  BY <1>1, <1>3, <1>4, ViewedGood

LEMMA ClosePaneGood ==
  ASSUME ComposeInd, ClosePane
  PROVE  ComposeInd' /\ Settling
<1> DEFINE s == PaneClosed(Views)
<1>1. /\ input["pane"].buf # Nobody
      /\ Become(s) /\ UNCHANGED <<history, recall, tab, typers, expiry>>
  BY DEF ClosePane
<1>2. GoodViews(Views) /\ Apart(Views) /\ Views.input["pane"].buf # Nobody
  BY <1>1 DEF ComposeInd, Views
<1>3. Lawful(Views, s) /\ Apart(s)
  BY <1>2, PaneClosedGood
<1> HIDE DEF s
<1>4. QED
  BY <1>1, <1>3, ViewedGood

\* The steps that change the user's typing and not the views.
LEMMA TypedGood ==
  ASSUME ComposeInd, GoodTyping(typing'), Settling, GoodNotes',
         UNCHANGED <<input, draft, popup, history, recall, tab>>
  PROVE  ComposeInd' /\ Settling
BY DEF ComposeInd, GoodViews, Apart, Views

\* m_selfTimer fires: the buffer typed in is told of the pause.
LEMMA PauseGood ==
  ASSUME ComposeInd, Pause
  PROVE  ComposeInd' /\ Settling
<1> DEFINE t == typing
           v == Tell(t, t.buf, "paused")
<1>1. GoodTyping(t) /\ t \in Notes
  BY DEF ComposeInd, GoodViews, Views, GoodTyping
<1>2. GoodTyping(typing') /\ Settles(t, typing')
  <2>1. CASE t.on /\ t.self
    <3>1. typing' = [v EXCEPT !.self = FALSE, !.timer = FALSE]
      BY <2>1 DEF Pause
    <3>2. t.buf \in Buffers /\ "paused" \in {"active", "paused", "done"} /\ "paused" # "active"
      BY <1>1, <2>1 DEF GoodTyping
    <3>3. /\ v \in Notes
          /\ ~v.link => \A c \in Buffers : v.told[c] # "active"
          /\ \A c \in Buffers \ {t.buf} : v.told[c] = t.told[c]
          /\ v.told[t.buf] # "active"
      BY <1>1, <3>2, TellGood
    <3> HIDE DEF v
    <3>4. GoodTyping(typing') /\ ~typing'.self /\ typing'.told = v.told
      BY <3>1, <3>3 DEF GoodTyping, Notes
    <3>5. QED
      BY <3>3, <3>4 DEF Settles, Settled, InFlight
  <2>2. CASE ~(t.on /\ t.self)
    <3>1. typing' = [t EXCEPT !.timer = FALSE]
      BY <2>2 DEF Pause
    <3>2. GoodTyping(typing') /\ typing'.self = t.self /\ typing'.buf = t.buf /\ typing'.told = t.told
      BY <1>1, <3>1 DEF GoodTyping, Notes
    <3>3. QED
      BY <3>2 DEF Settles, Settled, InFlight
  <2>3. QED
    BY <2>1, <2>2
<1>3. UNCHANGED <<input, draft, popup, history, recall, tab, typers, expiry>>
  BY DEF Pause
<1>4. GoodNotes'
  BY <1>3 DEF ComposeInd, GoodNotes
<1>5. QED
  BY <1>2, <1>3, <1>4, TypedGood DEF Settling

LEMMA SetEnabledGood ==
  ASSUME ComposeInd, NEW on \in BOOLEAN, SetEnabled(on)
  PROVE  ComposeInd' /\ Settling
<1>1. GoodTyping(typing) /\ typing \in Notes
  BY DEF ComposeInd, GoodViews, Views, GoodTyping
<1>2. /\ UNCHANGED <<input, draft, popup, history, recall, tab>>
      /\ typing' = IF on THEN [typing EXCEPT !.on = TRUE]
                   ELSE [typing EXCEPT !.on = FALSE, !.self = FALSE, !.timer = FALSE]
  BY DEF SetEnabled
<1>3. GoodNotes'
  BY DEF SetEnabled, ComposeInd, GoodNotes
<1>4. CASE on
  <2>1. GoodTyping(typing') /\ typing'.self = typing.self /\ typing'.buf = typing.buf /\ typing'.told = typing.told
    BY <1>1, <1>2, <1>4 DEF GoodTyping, Notes
  <2>2. Settling
    BY <2>1 DEF Settling, Settles, Settled, InFlight
  <2>3. QED
    BY <1>2, <1>3, <2>1, <2>2, TypedGood
<1>5. CASE ~on
  <2>1. GoodTyping(typing') /\ ~typing'.on
    BY <1>1, <1>2, <1>5 DEF GoodTyping, Notes
  <2>2. QED
    BY <1>2, <1>3, <2>1, TypedGood DEF Settling
<1>6. QED
  BY <1>4, <1>5

\* Whoever loses the link is told nothing, and believes nothing.
LEMMA LinkLostGood ==
  ASSUME ComposeInd, LinkLost
  PROVE  ComposeInd' /\ Settling
<1>1. GoodTyping(typing) /\ typing \in Notes
  BY DEF ComposeInd, GoodViews, Views, GoodTyping
<1> DEFINE none == [b \in Buffers |-> "none"]
<1>2. /\ UNCHANGED <<input, draft, popup, history, recall, tab>>
      /\ typing' = [typing EXCEPT !.link = FALSE, !.told = none]
  BY DEF LinkLost
<1>3. none \in [Buffers -> {"none", "active", "paused", "done"}] /\ \A b \in Buffers : none[b] # "active"
  OBVIOUS
<1> HIDE DEF none
<1>4. GoodTyping(typing') /\ typing'.told = none
  BY <1>1, <1>2, <1>3 DEF GoodTyping, Notes
<1>5. Settling
  BY <1>3, <1>4 DEF Settling, Settles, Settled
<1>6. GoodNotes'
  BY DEF LinkLost, GoodNotes
<1>7. QED
  BY <1>2, <1>4, <1>5, <1>6, TypedGood

LEMMA LinkBackGood ==
  ASSUME ComposeInd, LinkBack
  PROVE  ComposeInd' /\ Settling
<1>1. GoodTyping(typing) /\ typing \in Notes
  BY DEF ComposeInd, GoodViews, Views, GoodTyping
<1>2. /\ UNCHANGED <<input, draft, popup, history, recall, tab, typers, expiry>>
      /\ typing' = [typing EXCEPT !.link = TRUE]
  BY DEF LinkBack
<1>3. GoodTyping(typing') /\ typing'.self = typing.self /\ typing'.buf = typing.buf /\ typing'.told = typing.told
  BY <1>1, <1>2 DEF GoodTyping, Notes
<1>4. Settling
  BY <1>3 DEF Settling, Settles, Settled, InFlight
<1>5. GoodNotes'
  BY <1>2 DEF ComposeInd, GoodNotes
<1>6. QED
  BY <1>2, <1>3, <1>4, <1>5, TypedGood

\* The notes of the others leave the user's own alone.
LEMMA OthersGood ==
  ASSUME ComposeInd, UNCHANGED <<field, history, recall, tab>>, GoodNotes'
  PROVE  ComposeInd' /\ Settling
<1>1. GoodViews(Views)' /\ Apart(Views)' /\ Settling
  BY StayGood DEF ComposeInd
<1>2. QED
  BY <1>1 DEF ComposeInd

LEMMA TypingReceivedGood ==
  ASSUME ComposeInd, NEW b \in Buffers \ {Server}, NEW p \in People, NEW state \in {"active", "done"},
         TypingReceived(b, p, state)
  PROVE  ComposeInd' /\ Settling
<1>1. UNCHANGED <<field, history, recall, tab>>
  BY DEF TypingReceived
<1>2. GoodNotes'
  BY DEF TypingReceived, ComposeInd, GoodNotes
<1>3. QED
  BY <1>1, <1>2, OthersGood

LEMMA TyperGoneGood ==
  ASSUME ComposeInd, NEW b \in Buffers, NEW p \in People, TyperGone(b, p)
  PROVE  ComposeInd' /\ Settling
<1>1. UNCHANGED <<field, history, recall, tab>>
  BY DEF TyperGone
<1>2. GoodNotes'
  BY DEF TyperGone, ComposeInd, GoodNotes
<1>3. QED
  BY <1>1, <1>2, OthersGood

LEMMA ComposeInitGood == ComposeInit => ComposeInd
<1> SUFFICES ASSUME ComposeInit PROVE ComposeInd
  OBVIOUS
<1>1. <<>> \in Seq(Words) /\ <<>> \in Seq(Seq(Words)) /\ Len(<<>>) = 0 /\ HistoryCap \in Nat
  BY LimitsGood
<1>2. GoodField(Text(First, <<>>)) /\ Text(First, <<>>).buf = First
  BY <1>1, NamesAssumption, TextGood
<1>3. GoodField(Text(Nobody, <<>>)) /\ Text(Nobody, <<>>).buf = Nobody
  <2>1. Nobody \in Buffers \cup {Nobody}
    OBVIOUS
  <2>2. QED
    BY <1>1, <2>1, TextGood
<1>4. /\ DOMAIN input = Inputs /\ \A j \in Inputs : GoodField(input[j])
      /\ input["main"].buf = First /\ input["pane"].buf = Nobody
  BY <1>2, <1>3 DEF ComposeInit, Inputs
<1>5. GoodTyping(typing)
  BY DEF ComposeInit, GoodTyping, Notes
<1>6. GoodViews(Views)
  BY <1>1, <1>4, <1>5, NoPopupGood DEF ComposeInit, GoodViews, Views
<1>7. Apart(Views)
  BY <1>4, NamesAssumption DEF Apart, Views
<1>8. GoodHistory(history) /\ GoodRecall(recall, history)
  BY <1>1 DEF ComposeInit, GoodHistory, GoodRecall
<1>9. GoodCycle(tab) /\ GoodNotes
  BY NoCycleGood DEF ComposeInit, GoodNotes
<1>10. QED
  BY <1>6, <1>7, <1>8, <1>9 DEF ComposeInd

LEMMA KeysGood ==
  ASSUME ComposeInd, NEW i \in Inputs, Keys(i)
  PROVE  ComposeInd' /\ Settling
BY TypeGood, EraseGood, ClickGood, CommitEmojiGood, HideEmojiGood, TabCompleteGood,
   HistoryUpGood, HistoryDownGood, SubmitGood DEF Keys

\* Every step keeps the invariant, and settles.
LEMMA ComposeNextGood == ComposeInd /\ [ComposeNext]_composeVars => ComposeInd' /\ Settling
<1> SUFFICES ASSUME ComposeInd, [ComposeNext]_composeVars PROVE ComposeInd' /\ Settling
  OBVIOUS
<1>1. CASE ComposeNext
  BY <1>1, KeysGood, SwitchGood, RetargetGood, OpenPaneGood, ClosePaneGood, PauseGood,
     SetEnabledGood, LinkLostGood, LinkBackGood, TypingReceivedGood, TyperGoneGood DEF ComposeNext
<1>2. CASE UNCHANGED composeVars
  <2>1. UNCHANGED <<field, history, recall, tab>> /\ UNCHANGED <<typers, expiry>>
    BY <1>2 DEF composeVars
  <2>2. GoodNotes'
    BY <2>1 DEF ComposeInd, GoodNotes
  <2>3. QED
    BY <2>1, <2>2, OthersGood
<1>3. QED
  BY <1>1, <1>2

\* What an input, a draft, the history, a completion and the popup may be.
LEMMA ComposeSound == ComposeSpec => []ComposeInd
<1>1. ComposeInd /\ [ComposeNext]_composeVars => ComposeInd'
  BY ComposeNextGood
<1>2. QED
  BY <1>1, ComposeInitGood, PTL DEF ComposeSpec

LEMMA IndTypeOK == ComposeInd => ComposeTypeOK
<1> SUFFICES ASSUME ComposeInd PROVE ComposeTypeOK
  OBVIOUS
<1>1. \A i \in Inputs : /\ input[i].buf \in Buffers \cup {Nobody}
                        /\ input[i].words \in Seq(Words)
                        /\ input[i].pos \in 0 .. Len(input[i].words)
  BY LenProperties DEF ComposeInd, GoodViews, Views, GoodField, Field
<1>2. input["main"].buf # input["pane"].buf
  BY DEF ComposeInd, Apart, Views
<1>3. \A b \in Buffers : draft[b] \in Seq(Words)
  BY DEF ComposeInd, GoodViews, Views
<1>4. Len(history) <= HistoryCap /\ recall.index \in -1 .. Len(history) - 1
  BY DEF ComposeInd, GoodHistory, GoodRecall
<1>5. tab.next \in 0 .. Max({Len(tab.cands) - 1, 0})
  <2> DEFINE z == Len(tab.cands) - 1
  <2>1. z \in Int /\ tab.next \in Nat /\ (tab.next = 0 \/ tab.next =< z)
    BY LenProperties DEF ComposeInd, GoodCycle
  <2> DEFINE o == 0
  <2>2. o \in Int
    OBVIOUS
  <2> HIDE DEF z, o
  <2>3. Max({z, o}) = IF z =< o THEN o ELSE z
    BY <2>1, <2>2, OfTwo
  <2> USE DEF o
  <2>4. tab.next \in 0 .. Max({z, 0})
    BY <2>1, <2>3
  <2>5. QED
    BY <2>4 DEF z
<1>6. popup.target # Nobody => input[popup.target].buf # Nobody
  BY DEF ComposeInd, GoodViews, Views, GoodPopup
<1>7. typing.self => typing.on /\ typing.buf \in Buffers \ {Server}
  BY DEF ComposeInd, GoodViews, Views, GoodTyping
<1>8. typers \subseteq Buffers \X People /\ expiry \subseteq Buffers \X People
  BY DEF ComposeInd, GoodNotes
<1>9. QED
  BY <1>1, <1>2, <1>3, <1>4, <1>5, <1>6, <1>7, <1>8 DEF ComposeTypeOK

\* No buffer is left with the note that the user types there: whatever ends the typing
\* in it, on whatever input and in whatever order, tells it so, unless the notes are
\* switched off (TypingController, with the views' switches and sends).
THEOREM NobodyWaits == ComposeSpec => NothingDangles
<1> DEFINE A == \A b \in Buffers :
                  InFlight(typing, b) /\ ~InFlight(typing', b) /\ typing'.on
                    => typing'.told[b] # "active"
<1>1. ComposeInd /\ [ComposeNext]_composeVars => [A]_composeVars
  <2>1. Settling => A
    BY DEF Settling, Settles, Settled
  <2>2. QED
    BY <2>1, ComposeNextGood
<1>2. QED
  BY <1>1, ComposeSound, PTL DEF ComposeSpec, NothingDangles

-----------------------------------------------------------------------------
(* Counting and running.                                                   *)

\* Induction over the first numbers, said of a set.
LEMMA CountedUp ==
  ASSUME NEW n \in Nat, NEW S, 0 \in S, \A i \in 1..n : i - 1 \in S => i \in S
  PROVE  0..n \subseteq S
<1> SUFFICES ASSUME NEW x \in 0..n, x \notin S
             PROVE  FALSE
  OBVIOUS
<1> DEFINE T == {i \in 0..n : i \notin S}
<1>1. T \in SUBSET Nat /\ T # {}
  OBVIOUS
<1>2. PICK k \in T : \A j \in T : k =< j
  BY <1>1, Least
<1>3. k # 0 /\ k \in 1..n /\ k - 1 \in 0..n
  OBVIOUS
<1>4. k - 1 \in S
  BY <1>2, <1>3
<1>5. QED
  BY <1>3, <1>4

\* The greatest of some of the first numbers.
LEMMA Greatest ==
  ASSUME NEW n \in Nat, NEW S \in SUBSET (0..n), S # {}
  PROVE  Max(S) \in S /\ \A y \in S : Max(S) >= y
<1> DEFINE T == {k \in 0..n : n - k \in S}
<1>1. T \in SUBSET Nat
  OBVIOUS
<1>2. T # {}
  <2>1. PICK x \in S : TRUE
    OBVIOUS
  <2>2. x \in 0..n /\ n - x \in 0..n /\ n - (n - x) = x
    OBVIOUS
  <2>3. n - x \in T
    BY <2>1, <2>2
  <2>4. QED
    BY <2>3
<1>3. PICK k \in T : \A j \in T : k =< j
  BY <1>1, <1>2, Least
<1>4. n - k \in S
  OBVIOUS
<1>5. ASSUME NEW y \in S
      PROVE  n - k >= y
  <2>1. y \in 0..n /\ n - y \in 0..n /\ n - (n - y) = y
    OBVIOUS
  <2>2. n - y \in T
    BY <2>1
  <2>3. QED
    BY <1>3, <2>1, <2>2
<1>6. \E x \in S : \A y \in S : x >= y
  BY <1>4, <1>5
<1>7. QED
  BY <1>6 DEF Max

\* How a value and its number give the next value.
Steps(n, V) == [(1..n) \X V -> V]

\* What is computed from the value before it is computed for every number.
LEMMA Computed ==
  ASSUME NEW n \in Nat, NEW V, NEW v \in V, NEW step \in Steps(n, V)
  PROVE  \E f \in [0..n -> V] : f[0] = v /\ \A i \in 1..n : f[i] = step[<<i, f[i - 1]>>]
<1> DEFINE To(k, f) == f[0] = v /\ \A i \in 1..k : f[i] = step[<<i, f[i - 1]>>]
           S == {k \in 0..n : \E f \in [0..n -> V] : To(k, f)}
<1>1. 0 \in S
  <2> DEFINE f == [i \in 0..n |-> v]
  <2>1. f \in [0..n -> V] /\ To(0, f)
    OBVIOUS
  <2>2. 0 \in 0..n
    OBVIOUS
  <2> HIDE DEF To, f
  <2>3. QED
    BY <2>1, <2>2
<1>2. ASSUME NEW k \in 1..n, k - 1 \in S
      PROVE  k \in S
  <2>1. PICK f \in [0..n -> V] : To(k - 1, f)
    BY <1>2
  <2>2. k - 1 \in 0..n /\ f[k - 1] \in V /\ k \in 0..n
    OBVIOUS
  <2> DEFINE x == step[<<k, f[k - 1]>>]
             g == [f EXCEPT ![k] = x]
  <2>3. x \in V
    BY <2>2 DEF Steps
  <2>4. g \in [0..n -> V] /\ g[k] = x /\ \A i \in 0 .. k - 1 : g[i] = f[i]
    BY <2>2, <2>3
  <2> HIDE DEF g
  <2>5. g[0] = v
    BY <2>1, <2>4
  <2>6. ASSUME NEW i \in 1..k
        PROVE  g[i] = step[<<i, g[i - 1]>>]
    <3>1. CASE i = k
      <4>1. k - 1 \in 0 .. k - 1
        OBVIOUS
      <4>2. g[k - 1] = f[k - 1]
        BY <2>4, <4>1
      <4>3. QED
        BY <2>4, <3>1, <4>2
    <3>2. CASE i # k
      <4>1. i \in 1 .. k - 1 /\ i \in 0 .. k - 1 /\ i - 1 \in 0 .. k - 1
        BY <3>2
      <4>2. g[i] = f[i] /\ g[i - 1] = f[i - 1]
        BY <2>4, <4>1
      <4>3. QED
        BY <2>1, <4>1, <4>2
    <3>3. QED
      BY <3>1, <3>2
  <2>7. To(k, g)
    BY <2>5, <2>6
  <2> HIDE DEF To
  <2>8. QED
    BY <2>2, <2>4, <2>7
<1> HIDE DEF S
<1>3. 0..n \subseteq S
  BY <1>1, <1>2, CountedUp
<1>4. n \in S
  BY <1>3
<1>5. QED
  BY <1>4 DEF S

-----------------------------------------------------------------------------
(* The sizes.                                                              *)

\* The sums of the first widths.
Sums(chars, s) == /\ s \in [0..Len(chars) -> Nat]
                  /\ s[0] = 0
                  /\ \A i \in 1..Len(chars) : s[i] = s[i - 1] + chars[i]

LEMMA SizeIsSum ==
  ASSUME NEW chars, Len(chars) \in Nat, NEW s, Sums(chars, s)
  PROVE  Size(chars) = s[Len(chars)]
<1> DEFINE n == Len(chars)
           Body(f) == [i \in 0..n |-> IF i = 0 THEN 0 ELSE f[i - 1] + chars[i]]
           t == CHOOSE f : f = Body(f)
<1>1. Size(chars) = t[n]
  BY DEF Size
<1>2. s = Body(s)
  <2>1. \A i \in 0..n : s[i] = IF i = 0 THEN 0 ELSE s[i - 1] + chars[i]
    BY DEF Sums
  <2>2. s = [i \in 0..n |-> s[i]]
    BY DEF Sums
  <2>3. QED
    BY <2>1, <2>2
<1> HIDE DEF Body
<1>3. t = Body(t)
  BY <1>2
<1> HIDE DEF t
<1>4. t[0] = 0 /\ \A i \in 1..n : t[i] = t[i - 1] + chars[i]
  <2>1. \A i \in 0..n : t[i] = IF i = 0 THEN 0 ELSE t[i - 1] + chars[i]
    <3> DEFINE W(i) == IF i = 0 THEN 0 ELSE t[i - 1] + chars[i]
    <3>1. t = [i \in 0..n |-> W(i)]
      BY <1>3 DEF Body
    <3> HIDE DEF W
    <3>2. \A i \in 0..n : t[i] = W(i)
      BY <3>1
    <3>3. QED
      BY <3>2 DEF W
  <2>2. 0 \in 0..n /\ \A i \in 1..n : i \in 0..n /\ i # 0
    OBVIOUS
  <2>3. QED
    BY <2>1, <2>2
<1> DEFINE S == {i \in 0..n : t[i] = s[i]}
<1>5. 0 \in S
  BY <1>4 DEF Sums
<1>6. \A i \in 1..n : i - 1 \in S => i \in S
  BY <1>4 DEF Sums
<1> HIDE DEF S
<1>7. 0..n \subseteq S
  BY <1>5, <1>6, CountedUp
<1>8. n \in S
  BY <1>7
<1>9. QED
  BY <1>1, <1>8 DEF S

LEMMA SumsCount ==
  ASSUME NEW chars, Len(chars) \in Nat, \A i \in 1..Len(chars) : chars[i] \in Nat
  PROVE  \E s : Sums(chars, s)
<1> DEFINE n == Len(chars)
           step == [x \in (1..n) \X Nat |-> x[2] + chars[x[1]]]
<1>1. n \in Nat /\ \A i \in 1..n : chars[i] \in Nat
  OBVIOUS
<1>2. step \in Steps(n, Nat)
  BY <1>1 DEF Steps
<1>3. \A i \in 1..n, v \in Nat : step[<<i, v>>] = v + chars[i]
  OBVIOUS
<1> HIDE DEF step
<1>4. PICK s \in [0..n -> Nat] : s[0] = 0 /\ \A i \in 1..n : s[i] = step[<<i, s[i - 1]>>]
  <2> DEFINE o == 0
             V == Nat
  <2>1. n \in Nat
    BY <1>1
  <2>2. o \in V
    OBVIOUS
  <2>3. step \in Steps(n, V)
    BY <1>2
  <2> HIDE DEF n, o, V
  <2>4. PICK f \in [0..n -> V] : f[0] = o /\ \A i \in 1..n : f[i] = step[<<i, f[i - 1]>>]
    BY <2>1, <2>2, <2>3, Computed, SMTT(60)
  <2>5. QED
    BY <2>4 DEF o, V
<1>5. \A i \in 1..n : s[i - 1] \in Nat
  BY <1>1
<1>6. Sums(chars, s)
  BY <1>3, <1>4, <1>5 DEF Sums
<1>7. QED
  BY <1>6

\* The sums of the widths, up to each character.
LEMMA SumsExist ==
  ASSUME NEW chars \in Seq(Nat)
  PROVE  \E s : Sums(chars, s)
BY LenProperties, SumsCount

\* The size of the first characters is one of the sums.
LEMMA SizeOfPart ==
  ASSUME NEW chars \in Seq(Nat), NEW s, Sums(chars, s), NEW m \in 0..Len(chars)
  PROVE  Size(SubSeq(chars, 1, m)) = s[m]
<1> DEFINE p == SubSeq(chars, 1, m)
           r == [i \in 0..m |-> s[i]]
<1>1. Len(chars) \in Nat
  BY LenProperties
<1>2. Len(p) = m /\ \A i \in 1..m : p[i] = chars[i]
  <2>1. CASE m = 0
    BY <2>1, SubSeqProperties
  <2>2. CASE m # 0
    BY <1>1, <2>2, SubSeqProperties
  <2>3. QED
    BY <2>1, <2>2
<1> HIDE DEF p
<1>3. Sums(p, r)
  <2>1. r \in [0..m -> Nat] /\ r[0] = 0 /\ r[m] = s[m]
    BY <1>1 DEF Sums
  <2>2. ASSUME NEW i \in 1..m
        PROVE  r[i] = r[i - 1] + p[i]
    <3>1. i \in 1..Len(chars) /\ i \in 0..m /\ i - 1 \in 0..m
      BY <1>1
    <3>2. r[i] = s[i] /\ r[i - 1] = s[i - 1] /\ s[i] = s[i - 1] + chars[i]
      BY <3>1 DEF Sums
    <3>3. QED
      BY <1>2, <3>2
  <2> HIDE DEF r
  <2>3. QED
    BY <1>2, <2>1, <2>2 DEF Sums
<1>4. Size(p) = r[m]
  BY <1>2, <1>3, SizeIsSum
<1>5. r[m] = s[m]
  OBVIOUS
<1>6. QED
  BY <1>4, <1>5 DEF p

\* The places between the characters, and how far they are from each other.
LEMMA EdgesAre ==
  ASSUME NEW chars \in Seq(Nat), NEW s, Sums(chars, s)
  PROVE  /\ Edges(chars) = {s[n] : n \in 0..Len(chars)}
         /\ Size(chars) = s[Len(chars)]
<1>1. \A n \in 0..Len(chars) : Size(SubSeq(chars, 1, n)) = s[n]
  BY SizeOfPart
<1>2. QED
  BY <1>1, SizeIsSum, LenProperties DEF Edges

\* The widths a character may have: there is room for it behind a tag as well.
Wide == 1 .. (Room - TagWidth)

LEMMA WideGood ==
  /\ Wide \subseteq Nat /\ 1 \in Wide
  /\ \A tag \in {0, TagWidth}, o \in Nat :
       RoomAt(o, tag) \in Nat /\ \A c \in Wide : c =< RoomAt(o, tag)
BY LimitsGood DEF Wide, RoomAt

LEMMA WideSeq ==
  ASSUME NEW chars \in Seq(Wide)
  PROVE  chars \in Seq(Nat)
BY WideGood, SeqMonotonic

\* A text's characters are all of a width that a line has room for.
LEMMA CharsFit ==
  ASSUME NEW words \in Seq(Words)
  PROVE  Chars(words) \in Seq(Wide)
<1> DEFINE n == Len(words)
           V == Seq(Wide)
           Then(i, v) == (IF i = 1 THEN <<>> ELSE v \o <<1>>) \o Widths[words[i]]
           Body(f) == [i \in 0..n |->
                        IF i = 0 THEN <<>>
                        ELSE (IF i = 1 THEN <<>> ELSE f[i - 1] \o <<1>>) \o Widths[words[i]]]
           c == CHOOSE f : f = Body(f)
           step == [x \in (1..n) \X V |-> Then(x[1], x[2])]
<1>1. Chars(words) = c[n]
  BY DEF Chars
<1>2. n \in Nat
  BY LenProperties
<1>3. ASSUME NEW i \in 1..n, NEW v \in V
      PROVE  Then(i, v) \in V
  <2>1. Widths[words[i]] \in V
    BY RoomForACharacter DEF Words, Wide
  <2>2. <<>> \in V /\ <<1>> \in V
    BY WideGood
  <2>3. v \o <<1>> \in V
    BY <2>2, ConcatProperties
  <2> DEFINE a == IF i = 1 THEN <<>> ELSE v \o <<1>>
             b == Widths[words[i]]
  <2>4. a \in V
    BY <2>2, <2>3
  <2> HIDE DEF a, b
  <2>5. a \o b \in V
    BY <2>1, <2>4, ConcatProperties DEF b
  <2>6. QED
    BY <2>5 DEF a, b
<1> HIDE DEF Then
<1>4. step \in Steps(n, V)
  BY <1>3 DEF Steps
<1>5. \A i \in 1..n, v \in V : step[<<i, v>>] = Then(i, v)
  OBVIOUS
<1>6. PICK f \in [0..n -> V] : f[0] = <<>> /\ \A i \in 1..n : f[i] = Then(i, f[i - 1])
  <2> DEFINE o == <<>>
  <2>1. o \in V
    OBVIOUS
  <2> HIDE DEF n, o, step, V
  <2>2. PICK f \in [0..n -> V] : f[0] = o /\ \A i \in 1..n : f[i] = step[<<i, f[i - 1]>>]
    BY <1>2, <1>4, <2>1, Computed, SMTT(60)
  <2>3. \A i \in 1..n : f[i - 1] \in V
    BY <1>2
  <2>4. QED
    BY <1>5, <2>2, <2>3 DEF o
<1>7. f = Body(f)
  <2>1. \A i \in 0..n : f[i] = IF i = 0 THEN <<>>
                             ELSE (IF i = 1 THEN <<>> ELSE f[i - 1] \o <<1>>) \o Widths[words[i]]
    <3>1. \A i \in 1..n : f[i] = (IF i = 1 THEN <<>> ELSE f[i - 1] \o <<1>>) \o Widths[words[i]]
      BY <1>6 DEF Then
    <3>2. \A i \in 0..n : i # 0 => i \in 1..n
      BY <1>2
    <3>3. QED
      BY <1>6, <3>1, <3>2
  <2> DEFINE W(i) == IF i = 0 THEN <<>>
                     ELSE (IF i = 1 THEN <<>> ELSE f[i - 1] \o <<1>>) \o Widths[words[i]]
  <2>2. \A i \in 0..n : f[i] = W(i)
    BY <2>1
  <2> HIDE DEF W
  <2>3. f = [i \in 0..n |-> W(i)]
    BY <2>2
  <2>4. QED
    BY <2>3 DEF W
<1> HIDE DEF Body
<1>8. c = Body(c)
  BY <1>7
<1> HIDE DEF c
<1>9. c[0] = <<>> /\ \A i \in 1..n : c[i] = Then(i, c[i - 1])
  <2> DEFINE W(i) == IF i = 0 THEN <<>>
                     ELSE (IF i = 1 THEN <<>> ELSE c[i - 1] \o <<1>>) \o Widths[words[i]]
  <2>1. c = [i \in 0..n |-> W(i)]
    BY <1>8 DEF Body
  <2> HIDE DEF W
  <2>2. \A i \in 0..n : c[i] = W(i)
    BY <2>1
  <2>3. 0 \in 0..n /\ \A i \in 1..n : i \in 0..n /\ i # 0
    BY <1>2
  <2>4. \A i \in 1..n : W(i) = Then(i, c[i - 1])
    BY <2>3 DEF W, Then
  <2>5. W(0) = <<>>
    BY DEF W
  <2>6. QED
    BY <2>2, <2>3, <2>4, <2>5
<1> DEFINE S == {i \in 0..n : c[i] \in V}
<1>10. 0 \in S
  <2>1. <<>> \in V /\ 0 \in 0..n
    BY <1>2
  <2>2. c[0] \in V
    BY <1>9, <2>1
  <2>3. QED
    BY <2>1, <2>2
<1>11. \A i \in 1..n : i - 1 \in S => i \in S
  BY <1>2, <1>3, <1>9
<1> HIDE DEF S
<1>12. 0..n \subseteq S
  BY <1>2, <1>10, <1>11, CountedUp
<1>13. n \in S
  BY <1>2, <1>12
<1>14. QED
  BY <1>1, <1>13 DEF S

\* Each character takes room, and no more than a line has behind a tag.
LEMMA SumsGrow ==
  ASSUME NEW chars \in Seq(Wide), NEW s, Sums(chars, s)
  PROVE  /\ chars \in Seq(Nat) /\ Len(chars) \in Nat
         /\ \A m \in 0..Len(chars) : s[m] \in Nat /\ s[m] =< s[Len(chars)]
         /\ \A m \in 0..Len(chars) : m # Len(chars) =>
              s[m] < s[m + 1] /\ s[m + 1] - s[m] \in Wide /\ m + 1 \in 0..Len(chars)
         /\ chars # <<>> => s[Len(chars)] > 0
<1> DEFINE n == Len(chars)
<1>1. n \in Nat /\ chars \in Seq(Nat) /\ \A i \in 1..n : chars[i] \in Wide /\ chars[i] \in Nat /\ chars[i] >= 1
  <2>1. n \in Nat
    BY LenProperties
  <2>2. \A i \in 1..n : chars[i] \in Wide
    OBVIOUS
  <2>3. \A x \in Wide : x \in Nat /\ x >= 1
    BY LimitsGood DEF Wide
  <2>4. chars \in Seq(Nat)
    BY WideSeq
  <2>5. QED
    BY <2>1, <2>2, <2>3, <2>4
<1>2. \A m \in 0..n : s[m] \in Nat
  BY DEF Sums
<1>3. \A i \in 1..n : s[i] = s[i - 1] + chars[i]
  BY DEF Sums
<1> DEFINE S == {k \in 0..n : s[n - k] =< s[n]}
<1>4. 0 \in S
  BY <1>1, <1>2
<1>5. ASSUME NEW k \in 1..n, k - 1 \in S
      PROVE  k \in S
  <2> DEFINE i == n - k + 1
  <2>1. i \in 1..n /\ i - 1 = n - k /\ n - (k - 1) = i /\ n - k \in 0..n /\ i \in 0..n /\ n \in 0..n
    BY <1>1
  <2>2. s[i] = s[n - k] + chars[i] /\ chars[i] >= 1 /\ chars[i] \in Nat
    BY <1>1, <1>3, <2>1
  <2>3. s[i] =< s[n] /\ s[n - k] \in Nat /\ s[i] \in Nat /\ s[n] \in Nat
    BY <1>2, <1>5, <2>1
  <2> HIDE DEF i
  <2>4. s[n - k] =< s[n]
    BY <2>2, <2>3
  <2>5. QED
    BY <2>4
<1> HIDE DEF S
<1>6. 0..n \subseteq S
  BY <1>1, <1>4, <1>5, CountedUp
<1>7. ASSUME NEW m \in 0..n
      PROVE  s[m] =< s[n]
  <2>1. n - m \in S /\ n - (n - m) = m
    BY <1>1, <1>6
  <2>2. QED
    BY <2>1 DEF S
<1>8. ASSUME NEW m \in 0..n, m # n
      PROVE  s[m] < s[m + 1] /\ s[m + 1] - s[m] \in Wide /\ m + 1 \in 0..n
  <2>1. m + 1 \in 1..n /\ m + 1 - 1 = m /\ m + 1 \in 0..n
    BY <1>1, <1>8
  <2>2. s[m + 1] = s[m] + chars[m + 1]
    BY <1>3, <2>1
  <2>3. chars[m + 1] \in Wide /\ chars[m + 1] \in Nat /\ chars[m + 1] >= 1
    BY <1>1, <2>1
  <2>4. s[m] \in Nat
    BY <1>2
  <2>5. s[m + 1] - s[m] = chars[m + 1] /\ s[m] < s[m + 1]
    BY <2>2, <2>3, <2>4
  <2>6. QED
    BY <2>1, <2>3, <2>5
<1>9. chars # <<>> => s[n] > 0
  <2>1. SUFFICES ASSUME chars # <<>> PROVE s[n] > 0
    OBVIOUS
  <2>2. n # 0 /\ 0 \in 0..n /\ n \in 0..n
    BY <1>1, <2>1, EmptySeq
  <2>3. s[0] < s[0 + 1] /\ 0 + 1 \in 0..n
    BY <1>8, <2>2
  <2>4. s[0 + 1] =< s[n] /\ s[0] \in Nat /\ s[0 + 1] \in Nat /\ s[n] \in Nat
    BY <1>2, <1>7, <2>2, <2>3
  <2>5. QED
    BY <2>3, <2>4
<1>10. QED
  BY <1>1, <1>2, <1>7, <1>8, <1>9

\* A line ends between two characters, and never where it began.
LEMMA ChunkEndGood ==
  ASSUME NEW chars \in Seq(Wide), NEW tag \in {0, TagWidth}, NEW o \in 0..Size(chars)
  PROVE  LET e == ChunkEnd(chars, o, tag)
         IN  /\ e \in Edges(chars) /\ e \in 0..Size(chars) /\ e - o =< RoomAt(o, tag)
             /\ \A x \in Edges(chars) : x - o =< RoomAt(o, tag) => x =< e
             /\ o \in Edges(chars) /\ o # Size(chars) => e > o
<1> DEFINE n == Len(chars)
           E == Edges(chars)
           size == Size(chars)
           room == RoomAt(o, tag)
           F == {e \in E : e <= o + room}
           end == ChunkEnd(chars, o, tag)
<1>1. chars \in Seq(Nat)
  BY WideSeq
<1>2. PICK s : Sums(chars, s)
  BY <1>1, SumsExist
<1>3. E = {s[m] : m \in 0..n} /\ size = s[n]
  BY <1>1, <1>2, EdgesAre
<1>4. /\ n \in Nat
      /\ \A m \in 0..n : s[m] \in Nat /\ s[m] =< s[n]
      /\ \A m \in 0..n : m # n => s[m] < s[m + 1] /\ s[m + 1] - s[m] \in Wide /\ m + 1 \in 0..n
  BY <1>2, SumsGrow
<1>5. size \in Nat /\ E \subseteq 0..size
  BY <1>3, <1>4
<1>6. 0 \in E
  BY <1>2, <1>3, <1>4 DEF Sums
<1>7. room \in Nat /\ \A c \in Wide : c =< room
  <2>1. o \in Nat
    BY <1>5
  <2>2. QED
    BY <2>1, WideGood
<1>8. o \in Nat /\ o =< size
  BY <1>5
<1> HIDE DEF E, size, room
<1>9. F \in SUBSET (0..size) /\ F # {}
  <2>1. 0 <= o + room
    BY <1>7, <1>8
  <2>2. 0 \in F
    BY <1>6, <2>1
  <2>3. F \in SUBSET (0..size)
    BY <1>5
  <2>4. QED
    BY <2>2, <2>3
<1>10. end = Max(F)
  BY DEF ChunkEnd, E, room
<1> HIDE DEF F, end
<1>11. end \in F /\ \A y \in F : end >= y
  BY <1>5, <1>9, <1>10, Greatest
<1>12. end \in E /\ end \in 0..size /\ end <= o + room
  BY <1>9, <1>11 DEF F
<1>13. \A x \in E : x - o =< room => x =< end
  <2>1. SUFFICES ASSUME NEW x \in E, x - o =< room PROVE x =< end
    OBVIOUS
  <2>2. x \in 0..size /\ x <= o + room
    BY <1>5, <1>7, <1>8, <2>1
  <2>3. x \in F
    BY <2>2 DEF F
  <2>4. QED
    BY <1>5, <1>11, <1>12, <2>2, <2>3
<1>14. ASSUME o \in E, o # size
       PROVE  end > o
  <2>1. PICK m \in 0..n : o = s[m]
    BY <1>3, <1>14
  <2>2. m # n
    BY <1>3, <1>14, <2>1
  <2>3. s[m] < s[m + 1] /\ s[m + 1] - s[m] \in Wide /\ m + 1 \in 0..n
    BY <1>4, <2>2
  <2>4. s[m + 1] \in E /\ s[m + 1] - o =< room
    BY <1>3, <1>7, <2>1, <2>3
  <2>5. s[m + 1] =< end
    BY <1>13, <2>4
  <2>6. s[m + 1] \in Nat /\ end \in Nat
    BY <1>4, <1>5, <1>12, <2>3
  <2>7. QED
    BY <1>8, <2>1, <2>3, <2>5, <2>6
<1>15. end - o =< room
  BY <1>5, <1>7, <1>8, <1>12
<1>16. QED
  BY <1>12, <1>13, <1>14, <1>15 DEF E, size, room, end

-----------------------------------------------------------------------------
(* The lines.                                                              *)

\* A line is of whole characters, of as many as it has room for.
GoodLine(chars, tag, from, to) ==
  /\ to \in Edges(chars)
  /\ to > from
  /\ to - from =< RoomAt(from, tag)
  /\ \A x \in Edges(chars) : x - from =< RoomAt(from, tag) => x =< to

\* The lines from an offset on: each is good, and all goes out.
GoodLines(chars, tag, o, lines) ==
  /\ lines \in Seq(Nat)
  /\ Len(lines) = 0 <=> o = Size(chars)
  /\ Len(lines) # 0 => lines[Len(lines)] = Size(chars)
  /\ \A n \in 1..Len(lines) :
       GoodLine(chars, tag, IF n = 1 THEN o ELSE lines[n - 1], lines[n])

\* A line before good lines.
LEMMA LineBefore ==
  ASSUME NEW chars, NEW tag, NEW o, NEW e \in Nat, NEW lines,
         GoodLine(chars, tag, o, e), GoodLines(chars, tag, e, lines), o # Size(chars)
  PROVE  GoodLines(chars, tag, o, <<e>> \o lines)
<1> DEFINE all == <<e>> \o lines
           l == Len(lines)
<1>1. l \in Nat /\ lines \in Seq(Nat)
  BY LenProperties DEF GoodLines
<1>2. <<e>> \in Seq(Nat) /\ Len(<<e>>) = 1
  OBVIOUS
<1>3. all \in Seq(Nat) /\ Len(all) = l + 1
  <2> DEFINE q == <<e>>
  <2>1. q \in Seq(Nat) /\ Len(q) = 1
    OBVIOUS
  <2> HIDE DEF q
  <2>2. q \o lines \in Seq(Nat) /\ Len(q \o lines) = Len(q) + Len(lines)
    BY <1>1, <2>1, ConcatProperties
  <2>3. QED
    BY <1>1, <2>1, <2>2 DEF q
<1>4. all[1] = e /\ \A n \in 1..l : all[n + 1] = lines[n]
  BY <1>1, <1>2
<1> HIDE DEF all
<1>5. Len(all) # 0
  BY <1>1, <1>3
<1>6. all[Len(all)] = Size(chars)
  <2>1. CASE l = 0
    BY <1>3, <1>4, <2>1 DEF GoodLines
  <2>2. CASE l # 0
    <3>1. l \in 1..l
      BY <1>1, <2>2
    <3>2. all[l + 1] = lines[l]
      BY <1>4, <3>1
    <3>3. QED
      BY <1>3, <2>2, <3>2 DEF GoodLines
  <2>3. QED
    BY <2>1, <2>2
<1>7. ASSUME NEW n \in 1..Len(all)
      PROVE  GoodLine(chars, tag, IF n = 1 THEN o ELSE all[n - 1], all[n])
  <2>1. CASE n = 1
    BY <1>4, <2>1
  <2>2. CASE n # 1
    <3> DEFINE k == n - 1
    <3>1. k \in 1..l /\ n = k + 1 /\ n \in Nat
      BY <1>1, <1>3, <2>2
    <3>2. all[n] = lines[k]
      BY <1>4, <3>1
    <3>3. all[n - 1] = IF k = 1 THEN e ELSE lines[k - 1]
      <4>1. CASE k = 1
        BY <1>4, <3>1, <4>1
      <4>2. CASE k # 1
        <5>1. k - 1 \in 1..l /\ n - 1 = (k - 1) + 1
          BY <1>1, <3>1, <4>2
        <5>2. all[(k - 1) + 1] = lines[k - 1]
          BY <1>4, <5>1
        <5>3. QED
          BY <4>2, <5>1, <5>2
      <4>3. QED
        BY <4>1, <4>2
    <3> HIDE DEF k
    <3>4. GoodLine(chars, tag, IF k = 1 THEN e ELSE lines[k - 1], lines[k])
      BY <1>1, <3>1 DEF GoodLines
    <3>5. QED
      BY <2>2, <3>2, <3>3, <3>4
  <2>3. QED
    BY <2>1, <2>2
<1>8. QED
  BY <1>3, <1>5, <1>6, <1>7 DEF GoodLines, all

\* privmsg()'s loop goes from each line to the next, and stops at the end.
LEMMA CutsRun ==
  ASSUME NEW size \in Nat, NEW end \in [0..size -> 0..size]
  PROVE  \E f \in [0..size -> Seq(Nat)] :
           \A o \in 0..size : f[o] = IF o = size \/ end[o] <= o THEN <<>> ELSE <<end[o]>> \o f[end[o]]
<1> DEFINE Next1(f, o) == IF o = size \/ end[o] <= o THEN <<>> ELSE <<end[o]>> \o f[end[o]]
           From(k, f) == \A o \in (size - k)..size : f[o] = Next1(f, o)
           S == {k \in 0..size : \E f \in [0..size -> Seq(Nat)] : From(k, f)}
<1>1. 0 \in S
  <2> DEFINE f == [o \in 0..size |-> <<>>]
  <2>1. f \in [0..size -> Seq(Nat)] /\ 0 \in 0..size
    OBVIOUS
  <2>2. ASSUME NEW o \in (size - 0)..size
        PROVE  f[o] = Next1(f, o)
    <3>1. o = size /\ o \in 0..size
      OBVIOUS
    <3>2. Next1(f, o) = <<>> /\ f[o] = <<>>
      BY <3>1
    <3>3. QED
      BY <3>2
  <2> HIDE DEF f, Next1
  <2>3. From(0, f)
    BY <2>2
  <2> HIDE DEF From
  <2>4. QED
    BY <2>1, <2>3
<1>2. ASSUME NEW k \in 1..size, k - 1 \in S
      PROVE  k \in S
  <2>1. PICK f \in [0..size -> Seq(Nat)] : From(k - 1, f)
    BY <1>2
  <2> DEFINE p == size - k
             x == Next1(f, p)
             g == [f EXCEPT ![p] = x]
  <2>2. p \in 0..size /\ p # size /\ k \in 0..size /\ p \in Nat /\ end[p] \in 0..size
    BY SMTT(30)
  <2>3. x \in Seq(Nat)
    <3>1. CASE end[p] <= p
      <4>1. x = <<>>
        BY <3>1
      <4>2. QED
        BY <4>1
    <3>2. CASE ~(end[p] <= p)
      <4> DEFINE q == <<end[p]>>
                 r == f[end[p]]
      <4>1. q \in Seq(Nat) /\ r \in Seq(Nat)
        BY <2>2
      <4>2. x = q \o r
        BY <2>2, <3>2
      <4> HIDE DEF q, r, x
      <4>3. QED
        BY <4>1, <4>2, ConcatProperties
    <3>3. QED
      BY <3>1, <3>2
  <2> HIDE DEF x
  <2>4. g \in [0..size -> Seq(Nat)] /\ g[p] = x /\ \A o \in 0..size : o # p => g[o] = f[o]
    BY <2>2, <2>3
  <2> HIDE DEF g
  <2>5. ASSUME NEW o \in 0..size, o >= p
        PROVE  Next1(g, o) = Next1(f, o)
    <3>1. CASE o = size \/ end[o] <= o
      BY <3>1
    <3>2. CASE ~(o = size \/ end[o] <= o)
      <4>1. end[o] \in 0..size /\ end[o] # p
        BY <2>2, <2>5, <3>2
      <4>2. g[end[o]] = f[end[o]]
        BY <2>4, <4>1
      <4>3. QED
        BY <3>2, <4>2
    <3>3. QED
      BY <3>1, <3>2
  <2> HIDE DEF Next1
  <2>6. ASSUME NEW o \in (size - k)..size
        PROVE  g[o] = Next1(g, o)
    <3>1. o \in 0..size /\ o >= p
      BY <2>2
    <3>2. CASE o = p
      BY <2>4, <2>5, <3>1, <3>2 DEF x
    <3>3. CASE o # p
      <4>1. o \in (size - (k - 1))..size
        BY <2>2, <3>1, <3>3
      <4>2. f[o] = Next1(f, o)
        BY <2>1, <4>1
      <4>3. QED
        BY <2>4, <2>5, <3>1, <3>3, <4>2
    <3>4. QED
      BY <3>2, <3>3
  <2>7. From(k, g)
    BY <2>6
  <2> HIDE DEF From, p
  <2>8. QED
    BY <2>2, <2>4, <2>7
<1> HIDE DEF S
<1>3. 0..size \subseteq S
  BY <1>1, <1>2, CountedUp
<1>4. PICK f \in [0..size -> Seq(Nat)] : From(size, f)
  <2>1. size \in S
    BY <1>3
  <2>2. QED
    BY <2>1 DEF S
<1>5. \A o \in 0..size : o \in (size - size)..size
  OBVIOUS
<1>6. \A o \in 0..size : f[o] = Next1(f, o)
  BY <1>4, <1>5
<1>7. QED
  BY <1>6

\* What privmsg cuts a text into, by induction from its end.
LEMMA CutsGood ==
  ASSUME NEW chars \in Seq(Wide), NEW tag \in {0, TagWidth}
  PROVE  GoodLines(chars, tag, 0, Cuts(chars, tag))
<1> DEFINE size == Size(chars)
           end == [o \in 0..size |-> ChunkEnd(chars, o, tag)]
           Body(f) == [o \in 0..size |->
                         IF o = size \/ ChunkEnd(chars, o, tag) <= o THEN <<>>
                         ELSE <<ChunkEnd(chars, o, tag)>> \o f[ChunkEnd(chars, o, tag)]]
           cut == CHOOSE f : f = Body(f)
<1>1. Cuts(chars, tag) = cut[0]
  BY DEF Cuts
<1>2. PICK s : Sums(chars, s)
  BY WideSeq, SumsExist
<1>3. Edges(chars) = {s[m] : m \in 0..Len(chars)} /\ size = s[Len(chars)]
  BY <1>2, WideSeq, EdgesAre
<1>4. Len(chars) \in Nat /\ \A m \in 0..Len(chars) : s[m] \in Nat /\ s[m] =< s[Len(chars)]
  BY <1>2, SumsGrow
<1>5. size \in Nat /\ Edges(chars) \subseteq 0..size /\ 0 \in Edges(chars)
  BY <1>2, <1>3, <1>4 DEF Sums
<1>6. ASSUME NEW o \in 0..size
      PROVE  LET e == ChunkEnd(chars, o, tag)
             IN  e \in 0..size /\ (o \in Edges(chars) /\ o # size => GoodLine(chars, tag, o, e))
  BY ChunkEndGood DEF GoodLine
<1> HIDE DEF size
<1>7. end \in [0..size -> 0..size] /\ \A o \in 0..size : end[o] = ChunkEnd(chars, o, tag)
  BY <1>6
<1> HIDE DEF end
<1>8. PICK f \in [0..size -> Seq(Nat)] :
        \A o \in 0..size : f[o] = IF o = size \/ end[o] <= o THEN <<>> ELSE <<end[o]>> \o f[end[o]]
  BY <1>5, <1>7, CutsRun
<1> DEFINE W(g, o) == IF o = size \/ ChunkEnd(chars, o, tag) <= o THEN <<>>
                      ELSE <<ChunkEnd(chars, o, tag)>> \o g[ChunkEnd(chars, o, tag)]
<1>9. f = Body(f)
  <2>1. \A o \in 0..size : f[o] = W(f, o)
    BY <1>7, <1>8
  <2> HIDE DEF W
  <2>2. f = [o \in 0..size |-> W(f, o)]
    BY <2>1
  <2>3. QED
    BY <2>2 DEF W
<1>10. cut = Body(cut)
  <2> HIDE DEF Body
  <2>1. QED
    BY <1>9
<1> HIDE DEF cut
<1>11. \A o \in 0..size : cut[o] = W(cut, o)
  <2>1. cut = [o \in 0..size |-> W(cut, o)]
    BY <1>10
  <2> HIDE DEF W
  <2>2. QED
    BY <2>1
<1> DEFINE S == {k \in 0..size : \A o \in Edges(chars) : o >= size - k => GoodLines(chars, tag, o, cut[o])}
<1>12. 0 \in S
  <2>1. ASSUME NEW o \in Edges(chars), o >= size - 0
        PROVE  GoodLines(chars, tag, o, cut[o])
    <3>1. o = size /\ o \in 0..size
      BY <1>5, <2>1
    <3>2. cut[o] = <<>>
      BY <1>11, <3>1
    <3>3. <<>> \in Seq(Nat) /\ Len(<<>>) = 0 /\ 1..0 = {}
      OBVIOUS
    <3>4. QED
      BY <3>1, <3>2, <3>3 DEF GoodLines, size
  <2>2. 0 \in 0..size
    BY <1>5
  <2>3. QED
    BY <2>1, <2>2
<1>13. ASSUME NEW k \in 1..size, k - 1 \in S
       PROVE  k \in S
  <2>1. ASSUME NEW o \in Edges(chars), o >= size - k
        PROVE  GoodLines(chars, tag, o, cut[o])
    <3>1. o \in 0..size
      BY <1>5
    <3>2. CASE o >= size - (k - 1)
      BY <1>13, <3>2
    <3>3. CASE ~(o >= size - (k - 1))
      <4> DEFINE e == ChunkEnd(chars, o, tag)
      <4>1. o # size
        BY <1>5, <3>1, <3>3
      <4>2. e \in 0..size /\ GoodLine(chars, tag, o, e) /\ e \in Edges(chars) /\ e > o
        BY <1>6, <3>1, <4>1 DEF GoodLine
      <4>3. cut[o] = <<e>> \o cut[e]
        <5>1. ~(e <= o)
          BY <1>5, <3>1, <4>2
        <5>2. cut[o] = W(cut, o)
          BY <1>11, <3>1
        <5> HIDE DEF e
        <5>3. QED
          BY <4>1, <5>1, <5>2 DEF e
      <4> HIDE DEF e
      <4>4. e >= size - (k - 1) /\ e \in Nat
        BY <1>5, <2>1, <3>1, <3>3, <4>2
      <4>5. GoodLines(chars, tag, e, cut[e])
        BY <1>13, <4>2, <4>4
      <4>6. QED
        BY <4>1, <4>2, <4>3, <4>4, <4>5, LineBefore DEF size
    <3>4. QED
      BY <3>2, <3>3
  <2>2. k \in 0..size
    BY <1>5
  <2>3. QED
    BY <2>1, <2>2
<1> HIDE DEF S
<1>14. 0..size \subseteq S
  BY <1>5, <1>12, <1>13, CountedUp
<1>15. size \in S
  BY <1>5, <1>14
<1>16. GoodLines(chars, tag, 0, cut[0])
  <2>1. 0 >= size - size
    BY <1>5
  <2>2. QED
    BY <1>5, <1>15, <2>1 DEF S
<1>17. QED
  BY <1>1, <1>16

\* The text's end is an edge, and the last.
LEMMA EndsIn ==
  ASSUME NEW chars \in Seq(Wide)
  PROVE  /\ Size(chars) \in Nat /\ Size(chars) \in Edges(chars)
         /\ Edges(chars) \subseteq 0..Size(chars)
         /\ chars # <<>> => Size(chars) > 0
<1>1. PICK s : Sums(chars, s)
  BY WideSeq, SumsExist
<1>2. Edges(chars) = {s[m] : m \in 0..Len(chars)} /\ Size(chars) = s[Len(chars)]
  BY <1>1, WideSeq, EdgesAre
<1>3. /\ Len(chars) \in Nat /\ \A m \in 0..Len(chars) : s[m] \in Nat /\ s[m] =< s[Len(chars)]
      /\ chars # <<>> => s[Len(chars)] > 0
  BY <1>1, SumsGrow
<1>4. QED
  BY <1>2, <1>3

\* The first line takes all there is, just when the indicator is silent.
LEMMA FirstTakesAll ==
  ASSUME NEW chars \in Seq(Wide), NEW tag \in {0, TagWidth}, chars # <<>>
  PROVE  SaysSeveral(chars, tag) <=> Len(Cuts(chars, tag)) > 1
<1> DEFINE size == Size(chars)
           cuts == Cuts(chars, tag)
           l == Len(cuts)
           room == RoomAt(0, tag)
<1>1. size \in Nat /\ size \in Edges(chars) /\ size > 0
  BY EndsIn
<1>2. GoodLines(chars, tag, 0, cuts)
  BY CutsGood
<1>3. cuts \in Seq(Nat) /\ l \in Nat /\ l # 0 /\ cuts[l] = size
  BY <1>1, <1>2, LenProperties DEF GoodLines
<1>4. room = Room - tag /\ room \in Nat
  BY WideGood DEF RoomAt
<1>5. SaysSeveral(chars, tag) <=> size > room
  BY <1>4 DEF SaysSeveral
<1>6. \A n \in 1..l : GoodLine(chars, tag, IF n = 1 THEN 0 ELSE cuts[n - 1], cuts[n]) /\ cuts[n] \in Nat
  BY <1>2, <1>3 DEF GoodLines
<1>7. GoodLine(chars, tag, 0, cuts[1]) /\ cuts[1] \in Nat
  <2>1. 1 \in 1..l
    BY <1>3
  <2>2. QED
    BY <1>6, <2>1
<1>8. cuts[1] - 0 =< room
  BY <1>7 DEF GoodLine
<1>9. \A x \in Edges(chars) : x \in 0..size
  BY EndsIn
<1> HIDE DEF size, room, cuts, l
<1>10. ASSUME size > room
       PROVE  l > 1
  <2>1. l # 1
    BY <1>1, <1>3, <1>4, <1>7, <1>8, <1>10
  <2>2. QED
    BY <1>3, <2>1
<1>11. ASSUME l > 1
       PROVE  size > room
  <2>1. SUFFICES ASSUME ~(size > room) PROVE FALSE
    OBVIOUS
  <2>2. size - 0 =< room
    BY <1>1, <1>4, <2>1
  <2>3. size =< cuts[1]
    BY <1>1, <1>7, <2>2 DEF GoodLine, room
  <2>4. 2 \in 1..l /\ 2 - 1 = 1
    BY <1>3, <1>11
  <2>5. GoodLine(chars, tag, cuts[1], cuts[2]) /\ cuts[2] \in Nat
    BY <1>6, <2>4
  <2>6. cuts[2] > cuts[1] /\ cuts[2] =< size
    BY <1>1, <1>9, <2>5 DEF GoodLine
  <2>7. QED
    BY <1>1, <1>7, <2>3, <2>5, <2>6
<1>12. QED
  BY <1>5, <1>10, <1>11 DEF l, cuts

\* The wire part of InputInv follows from what an input may hold.
LEMMA WholeInLines == ComposeTypeOK => GoesOutWhole
<1> SUFFICES ASSUME ComposeTypeOK, NEW i \in Inputs, NEW tag \in {0, TagWidth},
                    Chars(input[i].words) # <<>>
             PROVE  LET chars == Chars(input[i].words)
                        cuts == Cuts(chars, tag)
                        start(n) == IF n = 1 THEN 0 ELSE cuts[n - 1]
                    IN  /\ cuts[Len(cuts)] = Size(chars)
                        /\ \A n \in DOMAIN cuts :
                             cuts[n] \in Edges(chars) /\ cuts[n] - start(n) <= RoomAt(start(n), tag)
                        /\ SaysSeveral(chars, tag) <=> Len(cuts) > 1
  BY DEF GoesOutWhole
<1> DEFINE chars == Chars(input[i].words)
           cuts == Cuts(chars, tag)
           start(n) == IF n = 1 THEN 0 ELSE cuts[n - 1]
<1>1. chars \in Seq(Wide) /\ chars # <<>>
  BY CharsFit DEF ComposeTypeOK
<1> HIDE DEF chars
<1>2. GoodLines(chars, tag, 0, cuts)
  BY <1>1, CutsGood
<1>3. Size(chars) > 0 /\ Size(chars) \in Nat
  BY <1>1, EndsIn
<1>4. SaysSeveral(chars, tag) <=> Len(cuts) > 1
  BY <1>1, FirstTakesAll
<1> HIDE DEF cuts
<1>5. cuts[Len(cuts)] = Size(chars) /\ DOMAIN cuts = 1..Len(cuts)
  BY <1>2, <1>3, LenProperties DEF GoodLines
<1>6. ASSUME NEW n \in DOMAIN cuts
      PROVE  cuts[n] \in Edges(chars) /\ cuts[n] - start(n) <= RoomAt(start(n), tag)
  BY <1>2, <1>5 DEF GoodLines, GoodLine
<1>7. QED
  BY <1>4, <1>5, <1>6 DEF chars, cuts

\* Whatever is typed, completed, recalled and sent in two inputs that trade buffers, the
\* inputs, drafts, history, completion and popup fit each other, and any text in an
\* input goes out whole, in lines that fit and end between characters, of which the
\* indicator tells beforehand (MainWindow's inputs, IrcClient::privmsg and
\* updateLengthIndicator).
THEOREM WrittenGoesOut == ComposeSpec => []InputInv
<1>1. ComposeInd => InputInv
  BY IndTypeOK, WholeInLines DEF InputInv
<1>2. QED
  BY <1>1, ComposeSound, PTL

-----------------------------------------------------------------------------
(* ChatWindow: the offsets of the lines.                                   *)

\* The greater of two numbers.
LEMMA MaxOfTwo ==
  ASSUME NEW x \in Int
  PROVE  Max({0, x}) = IF x > 0 THEN x ELSE 0
<1> DEFINE m == IF x > 0 THEN x ELSE 0
<1>1. m \in {0, x} /\ \A y \in {0, x} : m >= y
  OBVIOUS
<1>2. \A z \in {0, x} : (\A y \in {0, x} : z >= y) => z = m
  OBVIOUS
<1>3. QED
  BY <1>1, <1>2 DEF Max

\* Each line's offset is below the line before it.
Offsets(lines, tops) ==
  /\ tops \in Seq(Nat) /\ Len(tops) = Len(lines)
  /\ \A k \in 1..Len(lines) :
       tops[k] = IF k = 1 THEN 0 ELSE tops[k - 1] + lines[k - 1].height

\* Each line has a height.
HaveHeights(lines) ==
  Len(lines) \in Nat /\ DOMAIN lines = 1..Len(lines) /\ \A k \in 1..Len(lines) : lines[k].height \in Nat

\* Offsets that are right up to line i make all of them right.
LEMMA TopsFromRight ==
  ASSUME NEW lines, HaveHeights(lines), NEW tops, NEW i \in Int,
         \A k \in 1..Len(lines) :
           k =< i => tops[k] = IF k = 1 THEN 0 ELSE tops[k - 1] + lines[k - 1].height
  PROVE  Offsets(lines, TopsFrom(lines, tops, i))
<1> DEFINE n == Len(lines)
           Body(f) == [k \in 1..n |-> IF k = 1 THEN 0
                                      ELSE IF k =< i THEN tops[k] ELSE f[k - 1] + lines[k - 1].height]
           top == CHOOSE f : f = Body(f)
           step == [a \in (1..n) \X Nat |-> IF a[1] = 1 THEN 0 ELSE a[2] + lines[a[1] - 1].height]
<1>1. n \in Nat /\ \A k \in 1..n : lines[k].height \in Nat
  BY DEF HaveHeights
<1>2. TopsFrom(lines, tops, i) = [k \in 1..n |-> top[k]]
  BY DEF TopsFrom
<1>3. step \in Steps(n, Nat)
  <2>1. ASSUME NEW a \in (1..n) \X Nat
        PROVE  (IF a[1] = 1 THEN 0 ELSE a[2] + lines[a[1] - 1].height) \in Nat
    <3>1. CASE a[1] = 1
      BY <3>1
    <3>2. CASE a[1] # 1
      <4>1. a[1] - 1 \in 1..n /\ a[2] \in Nat
        BY <1>1, <3>2
      <4>2. QED
        BY <1>1, <4>1
    <3>3. QED
      BY <3>1, <3>2
  <2>2. QED
    BY <2>1 DEF Steps
<1>4. PICK f \in [0..n -> Nat] : f[0] = 0 /\ \A k \in 1..n : f[k] = step[<<k, f[k - 1]>>]
  <2> DEFINE o == 0
             N == Nat
  <2>1. o \in N /\ n \in Nat /\ step \in Steps(n, N)
    BY <1>1, <1>3
  <2> HIDE DEF o, N, n, step
  <2>2. \E f \in [0..n -> N] : f[0] = o /\ \A k \in 1..n : f[k] = step[<<k, f[k - 1]>>]
    BY <2>1, Computed, SMTT(60)
  <2>3. QED
    BY <2>2 DEF o, N
<1>5. \A k \in 1..n : f[k] = IF k = 1 THEN 0 ELSE f[k - 1] + lines[k - 1].height
  <2> TAKE k \in 1..n
  <2>1. k - 1 \in 0..n
    BY <1>1
  <2>2. f[k - 1] \in Nat
    BY <1>4, <2>1
  <2>3. <<k, f[k - 1]>> \in (1..n) \X Nat
    BY <2>2
  <2>4. QED
    BY <1>4, <2>3
<1> HIDE DEF step
<1>6. \A k \in 1..n : k =< i => tops[k] = f[k]
  <2> DEFINE S == {k \in 0..n : k > 0 /\ k =< i => tops[k] = f[k]}
  <2>1. 0 \in S
    BY <1>1
  <2>2. ASSUME NEW k \in 1..n, k - 1 \in S
        PROVE  k \in S
    <3>1. CASE k =< i
      <4>1. CASE k = 1
        BY <1>1, <1>5, <3>1, <4>1
      <4>2. CASE k # 1
        <5>1. k - 1 \in 1..n /\ k - 1 =< i
          BY <1>1, <3>1, <4>2
        <5>2. tops[k - 1] = f[k - 1]
          BY <2>2, <5>1
        <5>3. QED
          BY <1>5, <3>1, <4>2, <5>2
      <4>3. QED
        BY <4>1, <4>2
    <3>2. CASE ~(k =< i)
      BY <3>2
    <3>3. QED
      BY <3>1, <3>2
  <2> HIDE DEF S
  <2>3. 0..n \subseteq S
    BY <1>1, <2>1, <2>2, CountedUp
  <2>4. QED
    BY <2>3 DEF S
<1> DEFINE g == [k \in 1..n |-> f[k]]
<1>7. g = Body(g)
  <2>1. ASSUME NEW k \in 1..n
        PROVE  f[k] = IF k = 1 THEN 0
                      ELSE IF k =< i THEN tops[k] ELSE g[k - 1] + lines[k - 1].height
    <3>1. k # 1 => k - 1 \in 1..n
      BY <1>1
    <3>2. k # 1 => g[k - 1] = f[k - 1]
      BY <3>1
    <3>3. QED
      BY <1>5, <1>6, <3>2
  <2> HIDE DEF g
  <2>2. g = [k \in 1..n |-> f[k]]
    BY DEF g
  <2>3. QED
    BY <2>1, <2>2
<1> HIDE DEF g, Body
<1>8. top = Body(top)
  BY <1>7
<1> HIDE DEF top
<1>9. \A k \in 1..n : top[k] = f[k]
  <2> DEFINE S == {k \in 0..n : k > 0 => top[k] = f[k]}
  <2>1. 0 \in S
    BY <1>1
  <2>2. ASSUME NEW k \in 1..n, k - 1 \in S
        PROVE  k \in S
    <3>1. top[k] = IF k = 1 THEN 0 ELSE IF k =< i THEN tops[k] ELSE top[k - 1] + lines[k - 1].height
      BY <1>8 DEF Body
    <3>2. k # 1 => k - 1 \in 1..n
      BY <1>1
    <3>3. k # 1 => top[k - 1] = f[k - 1]
      BY <2>2, <3>2
    <3>4. top[k] = f[k]
      BY <1>5, <1>6, <3>1, <3>3
    <3>5. QED
      BY <3>4
  <2> HIDE DEF S
  <2>3. 0..n \subseteq S
    BY <1>1, <2>1, <2>2, CountedUp
  <2>4. QED
    BY <2>3 DEF S
<1>10. TopsFrom(lines, tops, i) = [k \in 1..n |-> f[k]]
  BY <1>2, <1>9
<1>11. \A k \in 1..n : f[k] \in Nat
  BY <1>1, <1>4
<1>12. [k \in 1..n |-> f[k]] \in Seq(Nat) /\ Len([k \in 1..n |-> f[k]]) = n
  BY <1>1, <1>11
<1>13. ASSUME NEW k \in 1..n
       PROVE  g[k] = IF k = 1 THEN 0 ELSE g[k - 1] + lines[k - 1].height
  <2>1. k # 1 => k - 1 \in 1..n
    BY <1>1
  <2>2. QED
    BY <1>5, <2>1 DEF g
<1>14. QED
  BY <1>10, <1>12, <1>13 DEF Offsets, g

\* There is one list of offsets.
LEMMA OneTops ==
  ASSUME NEW lines, HaveHeights(lines), NEW s, NEW t, Offsets(lines, s), Offsets(lines, t)
  PROVE  s = t
<1> DEFINE n == Len(lines)
           S == {k \in 0..n : k > 0 => s[k] = t[k]}
<1>1. n \in Nat
  BY DEF HaveHeights
<1>2. 0 \in S
  BY <1>1
<1>3. ASSUME NEW k \in 1..n, k - 1 \in S
      PROVE  k \in S
  <2>1. k # 1 => k - 1 \in 1..n
    BY <1>1
  <2>2. k # 1 => s[k - 1] = t[k - 1]
    BY <1>3, <2>1
  <2>3. s[k] = t[k]
    BY <2>2 DEF Offsets
  <2>4. QED
    BY <2>3
<1> HIDE DEF S
<1>4. 0..n \subseteq S
  BY <1>1, <1>2, <1>3, CountedUp
<1>5. \A k \in 1..n : s[k] = t[k]
  BY <1>4 DEF S
<1>6. s \in Seq(Nat) /\ t \in Seq(Nat) /\ Len(s) = n /\ Len(t) = n
  BY DEF Offsets
<1>7. QED
  BY <1>5, <1>6, SeqEqual

\* Rebuilt offsets are right, and the only ones.
LEMMA RebuiltRight ==
  ASSUME NEW lines, HaveHeights(lines)
  PROVE  /\ Offsets(lines, Rebuilt(lines))
         /\ \A tops : Offsets(lines, tops) => tops = Rebuilt(lines)
<1> DEFINE o == 0
           e == <<>>
<1>1. o \in Int /\ \A k \in 1..Len(lines) : ~(k =< o)
  BY DEF HaveHeights
<1> HIDE DEF o, e
<1>2. Offsets(lines, TopsFrom(lines, e, o))
  BY <1>1, TopsFromRight
<1>3. Offsets(lines, Rebuilt(lines))
  BY <1>2 DEF Rebuilt, o, e
<1>4. QED
  BY <1>3, OneTops

\* What the lines of a buffer are known by; a group by one of its events.
LineIds(messages) ==
  {NoId, OlderId} \cup {MsgId(i) : i \in Nat} \cup {RowId(i) : i \in Nat}
    \cup {CardId(u) : u \in LinksSaid}
    \cup {GroupId(i) : i \in {j \in 1..Len(messages) : Condensable(messages[j])}}

\* A line as it is drawn, and one that is laid out.
NewLine(messages) ==
  [id : LineIds(messages), shows : SUBSET Nat, tall : Nat \ {0}, long : BOOLEAN,
   height : {0}, width : {"none"}]

DrawnLine(messages) ==
  [id : LineIds(messages), shows : SUBSET Nat, tall : Nat \ {0}, long : BOOLEAN,
   height : Nat \ {0}, width : ViewWidths]

\* A view as it may be.
ViewRecord(messages) ==
  [lines : Seq(DrawnLine(messages)), tops : Seq(Nat), value : Nat, max : Nat, page : Pages,
   width : ViewWidths, atEnd : BOOLEAN, away : BOOLEAN, button : BOOLEAN,
   stale : BOOLEAN, found : Nat, asks : BOOLEAN]

\* A view that left its end, or does not follow it, has its button.
HasButton(v) == v.away \/ ~v.atEnd => v.button

\* A view is within its bar, with its button if need be, and at the end it follows.
FollowsEnd(v) ==
  /\ v.value =< v.max /\ HasButton(v)
  /\ v.atEnd /\ ~v.away => v.value = v.max

\* What every call on a view leaves behind.
SoundView(v, messages) ==
  /\ v \in ViewRecord(messages)
  /\ Offsets(v.lines, v.tops)
  /\ v.max = Max({0, TotalHeight(v) - v.page})
  /\ FollowsEnd(v)

\* The same lines, the same layout.
SameLines(v, w) ==
  /\ w.lines = v.lines /\ w.tops = v.tops /\ w.max = v.max /\ w.page = v.page
  /\ w.width = v.width /\ w.stale = v.stale /\ w.found = v.found

\* A page is some rows high.
LEMMA PageNat == Pages \subseteq Nat
BY ViewAssumption

\* The lines have a height together.
LEMMA TotalIsNat ==
  ASSUME NEW messages, NEW v, v.lines \in Seq(DrawnLine(messages)), Offsets(v.lines, v.tops)
  PROVE  TotalHeight(v) \in Nat
<1>1. CASE v.lines = <<>>
  BY <1>1 DEF TotalHeight
<1>2. CASE v.lines # <<>>
  <2> DEFINE n == Len(v.lines)
  <2>1. n \in 1..n /\ v.tops \in Seq(Nat) /\ Len(v.tops) = n
    BY <1>2 DEF Offsets
  <2>2. v.tops[n] \in Nat /\ v.lines[n] \in DrawnLine(messages)
    BY <2>1
  <2>3. v.lines[n].height \in Nat
    BY <2>2 DEF DrawnLine
  <2>4. TotalHeight(v) = v.tops[n] + v.lines[n].height
    BY <1>2, <2>1 DEF TotalHeight, Last
  <2>5. QED
    BY <2>2, <2>3, <2>4
<1>3. QED
  BY <1>1, <1>2

\* Lines that are laid out have heights.
LEMMA Heights ==
  ASSUME NEW messages, NEW lines \in Seq(DrawnLine(messages))
  PROVE  HaveHeights(lines)
<1>1. \A k \in 1..Len(lines) : lines[k] \in DrawnLine(messages)
  OBVIOUS
<1>2. \A l \in DrawnLine(messages) : l.height \in Nat
  BY DEF DrawnLine
<1>3. QED
  BY <1>1, <1>2 DEF HaveHeights

-----------------------------------------------------------------------------
(* The scroll bar.                                                         *)

\* However the bar moved, the view has left its end with its button, or follows it.
LEMMA ValueChangedOK ==
  ASSUME NEW messages, NEW v \in ViewRecord(messages), HasButton(v), v.value =< v.max
  PROVE  LET w == ValueChanged(v) IN
         /\ w \in ViewRecord(messages) /\ SameLines(v, w) /\ w.value = v.value
         /\ (v.asks => w.asks) /\ FollowsEnd(w)
         /\ (v.atEnd /\ ~v.away /\ v.value = v.max => w.atEnd /\ ~w.away)
         /\ w.asks => v.asks \/ v.lines # <<>>
<1> DEFINE w == ValueChanged(v)
           atMax == v.value >= v.max
           a == v.asks \/ (v.value = 0 /\ v.lines # <<>>)
<1>1. /\ v.value \in Nat /\ v.max \in Nat /\ v.away \in BOOLEAN /\ v.atEnd \in BOOLEAN
      /\ v.asks \in BOOLEAN /\ v.button \in BOOLEAN /\ atMax \in BOOLEAN /\ a \in BOOLEAN
  BY DEF ViewRecord
<1>2. CASE v.away /\ ~atMax
  <2>1. w = [v EXCEPT !.asks = a]
    BY <1>2 DEF ValueChanged
  <2>2. w \in ViewRecord(messages) /\ SameLines(v, w) /\ w.value = v.value /\ w.asks = a
    BY <1>1, <2>1 DEF ViewRecord, SameLines
  <2>3. w.away = v.away /\ w.atEnd = v.atEnd /\ w.button = v.button
    BY <2>1 DEF ViewRecord
  <2>4. FollowsEnd(w)
    <3>1. w.value =< w.max /\ w.away /\ w.button
      BY <1>2, <2>2, <2>3 DEF HasButton, SameLines
    <3> HIDE DEF w
    <3>2. QED
      BY <3>1 DEF FollowsEnd, HasButton
  <2>5. QED
    BY <1>1, <1>2, <2>2, <2>4
<1>3. CASE ~(v.away /\ ~atMax) /\ (v.away \/ v.atEnd # atMax)
  <2>1. w = [v EXCEPT !.asks = a, !.away = v.away /\ ~atMax, !.atEnd = atMax, !.button = ~atMax]
    BY <1>3 DEF ValueChanged, AwayFromBottom, ViewRecord
  <2>2. w \in ViewRecord(messages) /\ SameLines(v, w) /\ w.value = v.value /\ w.asks = a
    BY <1>1, <2>1 DEF ViewRecord, SameLines
  <2>3. w.away = FALSE /\ w.atEnd = atMax /\ w.button = ~atMax
    BY <1>3, <2>1 DEF ViewRecord
  <2>4. FollowsEnd(w)
    <3>1. w.value =< w.max /\ ~w.away /\ (w.atEnd <=> w.value >= w.max) /\ (w.button <=> ~w.atEnd)
      BY <2>2, <2>3 DEF SameLines
    <3>2. w.value \in Nat /\ w.max \in Nat
      BY <1>1, <2>2 DEF SameLines
    <3> HIDE DEF w
    <3>3. QED
      BY <3>1, <3>2 DEF FollowsEnd, HasButton
  <2>5. QED
    BY <1>1, <2>2, <2>3, <2>4
<1>4. CASE ~v.away /\ v.atEnd = atMax
  <2>1. w = [v EXCEPT !.asks = a, !.away = v.away /\ ~atMax, !.atEnd = atMax]
    BY <1>4 DEF ValueChanged, AwayFromBottom, ViewRecord
  <2>2. w \in ViewRecord(messages) /\ SameLines(v, w) /\ w.value = v.value /\ w.asks = a
    BY <1>1, <2>1 DEF ViewRecord, SameLines
  <2>3. w.away = FALSE /\ w.atEnd = atMax /\ w.button = v.button
    BY <1>4, <2>1 DEF ViewRecord
  <2>4. FollowsEnd(w)
    <3>1. w.value =< w.max /\ ~w.away /\ (w.atEnd <=> w.value >= w.max) /\ (~w.atEnd => w.button)
      BY <1>4, <2>2, <2>3 DEF SameLines, HasButton
    <3>2. w.value \in Nat /\ w.max \in Nat
      BY <1>1, <2>2 DEF SameLines
    <3> HIDE DEF w
    <3>3. QED
      BY <3>1, <3>2 DEF FollowsEnd, HasButton
  <2>5. QED
    BY <1>1, <2>2, <2>3, <2>4
<1>5. QED
  BY <1>1, <1>2, <1>3, <1>4

\* What is kept within bounds is within them.
LEMMA WithinIs ==
  ASSUME NEW x \in Int, NEW high \in Nat
  PROVE  Within(x, 0, high) \in 0..high /\ (x \in 0..high => Within(x, 0, high) = x)
BY DEF Within

\* Where the bar is set, the view follows it.
LEMMA SetValueMoves ==
  ASSUME NEW messages, NEW v \in ViewRecord(messages), HasButton(v), NEW x \in Int
  PROVE  LET w == SetValue(v, x) IN
         /\ w \in ViewRecord(messages) /\ SameLines(v, w) /\ w.value = Within(x, 0, v.max)
         /\ (v.asks => w.asks)
         /\ (w = v /\ w.value = v.value) \/ FollowsEnd(w)
         /\ w.asks => v.asks \/ v.lines # <<>>
<1> DEFINE y == Within(x, 0, v.max)
           u == [v EXCEPT !.value = y]
<1>1. v.max \in Nat /\ y \in 0..v.max
  BY WithinIs DEF ViewRecord
<1> HIDE DEF y
<1>2. CASE y = v.value
  <2>1. SetValue(v, x) = v
    BY <1>2 DEF SetValue, y
  <2>2. QED
    BY <1>2, <2>1 DEF SameLines, y
<1>3. CASE y # v.value
  <2>1. SetValue(v, x) = ValueChanged(u)
    BY <1>3 DEF SetValue, y
  <2>2. /\ u \in ViewRecord(messages) /\ SameLines(v, u) /\ u.value = y /\ u.asks = v.asks
        /\ u.away = v.away /\ u.atEnd = v.atEnd /\ u.button = v.button
    BY <1>1 DEF ViewRecord, SameLines
  <2>3. HasButton(u) /\ u.value =< u.max
    BY <1>1, <2>2 DEF HasButton, SameLines
  <2> HIDE DEF u
  <2>4. /\ ValueChanged(u) \in ViewRecord(messages) /\ SameLines(u, ValueChanged(u))
        /\ ValueChanged(u).value = u.value /\ (u.asks => ValueChanged(u).asks)
        /\ FollowsEnd(ValueChanged(u)) /\ (ValueChanged(u).asks => u.asks \/ u.lines # <<>>)
    BY <2>2, <2>3, ValueChangedOK
  <2>5. QED
    BY <2>1, <2>2, <2>4 DEF SameLines, y
<1>4. QED
  BY <1>2, <1>3

\* Of a view that follows its end.
LEMMA SetValueOK ==
  ASSUME NEW messages, NEW v, SoundView(v, messages), NEW x \in Int
  PROVE  LET w == SetValue(v, x) IN
         /\ SoundView(w, messages) /\ SameLines(v, w) /\ w.value = Within(x, 0, v.max)
         /\ w.asks => v.asks \/ v.lines # <<>>
<1> DEFINE w == SetValue(v, x)
<1>1. v \in ViewRecord(messages) /\ HasButton(v) /\ FollowsEnd(v)
  BY DEF SoundView, FollowsEnd
<1>2. /\ w \in ViewRecord(messages) /\ SameLines(v, w) /\ w.value = Within(x, 0, v.max)
      /\ (w = v \/ FollowsEnd(w)) /\ (w.asks => v.asks \/ v.lines # <<>>)
  BY <1>1, SetValueMoves
<1> HIDE DEF w
<1>3. FollowsEnd(w)
  BY <1>1, <1>2
<1>4. Offsets(w.lines, w.tops) /\ w.max = Max({0, TotalHeight(w) - w.page})
  BY <1>2 DEF SoundView, SameLines, TotalHeight
<1>5. SoundView(w, messages)
  BY <1>2, <1>3, <1>4 DEF SoundView
<1>6. QED
  BY <1>2, <1>5 DEF w

\* A new layout of lines is followed by its scroll bar.
LEMMA SetRangeOK ==
  ASSUME NEW messages, NEW v \in ViewRecord(messages), Offsets(v.lines, v.tops), FollowsEnd(v)
  PROVE  LET w == SetRange(v) IN
         /\ SoundView(w, messages)
         /\ w.lines = v.lines /\ w.tops = v.tops /\ w.page = v.page /\ w.width = v.width
         /\ w.stale = v.stale /\ w.found = v.found
         /\ w.asks => v.asks \/ v.lines # <<>>
<1> DEFINE w == SetRange(v)
           t == TotalHeight(v) - v.page
           max == Max({0, t})
           u == [v EXCEPT !.max = max]
           c == RangeChanged(u)
<1>1. t \in Int /\ max \in Nat
  <2>1. TotalHeight(v) \in Nat /\ v.page \in Nat
    BY TotalIsNat, PageNat DEF ViewRecord
  <2>2. t \in Int
    BY <2>1
  <2> HIDE DEF t
  <2>3. QED
    BY <2>2, MaxOfTwo
<1>2. w = IF max = v.max THEN v ELSE SetValue(c, c.value)
  BY DEF SetRange
<1>3. CASE max = v.max
  BY <1>2, <1>3 DEF SoundView
<1>4. CASE max # v.max
  <2> HIDE DEF max
  <2>1. /\ u \in ViewRecord(messages) /\ u.max = max /\ u.value = v.value /\ u.asks = v.asks
        /\ u.lines = v.lines /\ u.tops = v.tops /\ u.page = v.page /\ u.width = v.width
        /\ u.stale = v.stale /\ u.found = v.found
        /\ u.away = v.away /\ u.atEnd = v.atEnd /\ u.button = v.button
    BY <1>1 DEF ViewRecord
  <2>2. HasButton(u)
    BY <2>1 DEF FollowsEnd, HasButton
  <2> HIDE DEF u
  <2>3. /\ c \in ViewRecord(messages) /\ SameLines(u, c) /\ HasButton(c)
        /\ (c.asks => u.asks \/ u.lines # <<>>)
        /\ (c = u /\ ~(u.atEnd /\ ~u.away)) \/ (c.value = max /\ FollowsEnd(c)) \/ (c = u /\ u.value = max)
    <3>1. CASE u.atEnd /\ ~u.away
      <4>1. c = SetValue(u, u.max) /\ u.max \in Int
        BY <1>1, <2>1, <3>1 DEF RangeChanged
      <4>2. /\ c \in ViewRecord(messages) /\ SameLines(u, c) /\ c.value = Within(u.max, 0, u.max)
            /\ (c.asks => u.asks \/ u.lines # <<>>)
            /\ (c = u /\ c.value = u.value) \/ FollowsEnd(c)
        BY <2>1, <2>2, <4>1, SetValueMoves
      <4>3. c.value = max
        BY <1>1, <2>1, <4>2, WithinIs
      <4>4. HasButton(c)
        BY <2>2, <4>2 DEF FollowsEnd
      <4>5. QED
        BY <4>2, <4>3, <4>4
    <3>2. CASE ~(u.atEnd /\ ~u.away)
      <4>1. c = u
        BY <3>2 DEF RangeChanged
      <4>2. QED
        BY <2>1, <2>2, <3>2, <4>1 DEF SameLines
    <3>3. QED
      BY <3>1, <3>2
  <2> HIDE DEF c
  <2>4. /\ w = SetValue(c, c.value) /\ c.value \in Int /\ c.max = max
    BY <1>2, <1>4, <2>1, <2>3 DEF ViewRecord, SameLines
  <2>5. /\ w \in ViewRecord(messages) /\ SameLines(c, w) /\ w.value = Within(c.value, 0, max)
        /\ (w.asks => c.asks \/ c.lines # <<>>)
        /\ (w = c /\ w.value = c.value) \/ FollowsEnd(w)
    BY <2>3, <2>4, SetValueMoves
  <2> HIDE DEF w
  <2>6. FollowsEnd(w)
    <3>1. CASE w = c /\ w.value = c.value
      <4>1. w.value =< w.max
        <5>1. Within(c.value, 0, max) \in 0..max /\ w.max = max
          BY <1>1, <2>4, <2>5, WithinIs DEF SameLines
        <5>2. QED
          BY <2>5, <5>1
      <4>2. HasButton(w)
        BY <2>3, <3>1
      <4>3. w.atEnd /\ ~w.away => w.value = w.max
        BY <2>1, <2>3, <2>4, <3>1 DEF FollowsEnd
      <4>4. QED
        BY <4>1, <4>2, <4>3 DEF FollowsEnd
    <3>2. QED
      BY <2>5, <3>1
  <2>7. /\ w.lines = v.lines /\ w.tops = v.tops /\ w.page = v.page /\ w.width = v.width
        /\ w.stale = v.stale /\ w.found = v.found /\ w.max = max
        /\ (w.asks => v.asks \/ v.lines # <<>>)
    BY <2>1, <2>3, <2>4, <2>5 DEF SameLines
  <2>8. TotalHeight(w) = TotalHeight(v)
    BY <2>7 DEF TotalHeight
  <2>9. SoundView(w, messages)
    BY <2>5, <2>6, <2>7, <2>8 DEF SoundView, max
  <2>10. QED
    BY <2>7, <2>9 DEF w
<1>5. QED
  BY <1>3, <1>4

\* A view sent to its end is sound there.
LEMMA ScrollToBottomOK ==
  ASSUME NEW messages, NEW v, SoundView(v, messages)
  PROVE  LET w == ScrollToBottom(v) IN
         SoundView(w, messages) /\ SameLines(v, w) /\ (w.asks => v.asks \/ v.lines # <<>>)
<1> DEFINE w == ScrollToBottom(v)
           f == [v EXCEPT !.away = FALSE, !.atEnd = TRUE]
           t == SetValue(f, v.max)
<1>1. v \in ViewRecord(messages) /\ v.max \in Nat
  BY DEF SoundView, ViewRecord
<1>2. /\ f \in ViewRecord(messages) /\ SameLines(v, f) /\ f.asks = v.asks /\ f.value = v.value
      /\ f.away = FALSE /\ f.atEnd = TRUE /\ f.max = v.max
  BY <1>1 DEF ViewRecord, SameLines
<1>3. HasButton(f)
  BY <1>2 DEF HasButton
<1> HIDE DEF f
<1>4. /\ t \in ViewRecord(messages) /\ SameLines(f, t) /\ t.value = Within(v.max, 0, f.max)
      /\ (t.asks => f.asks \/ f.lines # <<>>)
      /\ (t = f /\ t.value = f.value) \/ FollowsEnd(t)
  BY <1>1, <1>2, <1>3, SetValueMoves
<1> HIDE DEF t
<1>5. t.value = v.max /\ t.max = v.max
  BY <1>1, <1>2, <1>4, WithinIs DEF SameLines
<1>6. HasButton(t)
  BY <1>3, <1>4 DEF FollowsEnd
<1>7. w = IF v.away THEN [t EXCEPT !.button = FALSE] ELSE t
  BY DEF ScrollToBottom, AwayFromBottom, f, t
<1>8. /\ w \in ViewRecord(messages) /\ SameLines(v, w) /\ w.value = w.max
      /\ (w.asks => v.asks \/ v.lines # <<>>)
  BY <1>2, <1>4, <1>5, <1>7, ZenonT(60) DEF ViewRecord, SameLines
<1>9. HasButton(w)
  <2>1. v.away => t.atEnd /\ ~t.away
    <3> SUFFICES ASSUME v.away
                 PROVE  t.atEnd /\ ~t.away
      OBVIOUS
    <3>1. CASE t = f
      BY <1>2, <3>1
    <3>2. CASE f.value # v.max
      <4>1. t = ValueChanged([f EXCEPT !.value = v.max])
        BY <1>1, <1>2, <3>2, WithinIs DEF SetValue, t
      <4> DEFINE g == [f EXCEPT !.value = v.max]
      <4>2. g.value = v.max /\ g.max = v.max /\ g.away = FALSE /\ g.atEnd = TRUE
        BY <1>1, <1>2 DEF ViewRecord
      <4>3. g \in ViewRecord(messages)
        BY <1>1, <1>2 DEF ViewRecord
      <4>4. t = ValueChanged(g)
        BY <4>1
      <4>5. HasButton(g)
        BY <4>2 DEF HasButton
      <4> HIDE DEF g
      <4>6. g.value =< g.max
        BY <1>1, <4>2
      <4>7. QED
        BY <4>2, <4>3, <4>4, <4>5, <4>6, ValueChangedOK
    <3>3. QED
      BY <1>1, <1>2, <1>4, <1>5, <3>1, <3>2, WithinIs DEF SetValue, t
  <2>2. w.atEnd = t.atEnd /\ w.away = t.away /\ (~v.away => w = t)
    BY <1>4, <1>7 DEF ViewRecord
  <2>3. QED
    BY <1>6, <2>1, <2>2 DEF HasButton
<1>10. FollowsEnd(w)
  BY <1>8, <1>9 DEF FollowsEnd, ViewRecord
<1>11. Offsets(w.lines, w.tops) /\ w.max = Max({0, TotalHeight(w) - w.page})
  BY <1>8 DEF SoundView, SameLines, TotalHeight
<1>12. SoundView(w, messages)
  BY <1>8, <1>10, <1>11 DEF SoundView
<1>13. QED
  BY <1>8, <1>12

\* A view kept at its end is sound.
LEMMA KeepBottomOK ==
  ASSUME NEW messages, NEW v, SoundView(v, messages)
  PROVE  LET w == KeepBottom(v) IN
         SoundView(w, messages) /\ SameLines(v, w) /\ (w.asks => v.asks \/ v.lines # <<>>)
<1>1. CASE IsAtBottom(v)
  BY <1>1, ScrollToBottomOK DEF KeepBottom
<1>2. CASE ~IsAtBottom(v)
  BY <1>2 DEF KeepBottom, SameLines
<1>3. QED
  BY <1>1, <1>2

-----------------------------------------------------------------------------
(* The lines of a view.                                                    *)

\* A list without the member at a place.
LEMMA WithoutPlace ==
  ASSUME NEW T, NEW s \in Seq(T), NEW place \in 1..Len(s)
  PROVE  /\ RemoveAt(s, place) \in Seq(T) /\ Len(RemoveAt(s, place)) = Len(s) - 1
         /\ \A j \in 1..place - 1 : RemoveAt(s, place)[j] = s[j]
<1> DEFINE front == SubSeq(s, 1, place - 1)
           back == SubSeq(s, place + 1, Len(s))
<1>1. Len(s) \in Nat
  BY LenProperties
<1>2. front \in Seq(T) /\ Len(front) = place - 1 /\ \A j \in 1..place - 1 : front[j] = s[j]
  BY <1>1
<1>3. back \in Seq(T) /\ Len(back) = Len(s) - place
  BY <1>1
<1> HIDE DEF front, back
<1>4. RemoveAt(s, place) = front \o back
  BY DEF RemoveAt, front, back
<1>5. /\ front \o back \in Seq(T) /\ Len(front \o back) = Len(front) + Len(back)
      /\ \A j \in 1..Len(front) + Len(back) :
           (front \o back)[j] = IF j <= Len(front) THEN front[j] ELSE back[j - Len(front)]
  BY <1>2, <1>3, ConcatProperties
<1>6. \A j \in 1..place - 1 : (front \o back)[j] = s[j]
  BY <1>1, <1>2, <1>3, <1>5
<1>7. QED
  BY <1>1, <1>2, <1>3, <1>4, <1>5, <1>6

\* A list with one member more.
LEMMA WithPlace ==
  ASSUME NEW T, NEW s \in Seq(T), NEW e \in T, NEW place \in 1..Len(s) + 1
  PROVE  InsertAt(s, place, e) \in Seq(T) /\ Len(InsertAt(s, place, e)) = Len(s) + 1
<1> DEFINE front == SubSeq(s, 1, place - 1)
           back == SubSeq(s, place, Len(s))
           one == <<e>>
<1>1. Len(s) \in Nat
  BY LenProperties
<1>2. front \in Seq(T) /\ Len(front) = place - 1
  BY <1>1
<1>3. back \in Seq(T) /\ Len(back) = Len(s) - place + 1
  BY <1>1
<1>4. one \in Seq(T) /\ Len(one) = 1
  OBVIOUS
<1>5. InsertAt(s, place, e) = front \o one \o back
  BY DEF InsertAt
<1> HIDE DEF front, back, one
<1>6. front \o one \in Seq(T) /\ Len(front \o one) = Len(front) + Len(one)
  BY <1>2, <1>4, ConcatProperties
<1> DEFINE most == front \o one
<1>7. most \in Seq(T) /\ Len(most) = place
  BY <1>1, <1>2, <1>4, <1>6
<1> HIDE DEF most
<1>8. most \o back \in Seq(T) /\ Len(most \o back) = Len(most) + Len(back)
  BY <1>3, <1>7, ConcatProperties
<1>9. Len(most \o back) = Len(s) + 1
  BY <1>1, <1>3, <1>7, <1>8
<1>10. QED
  BY <1>5, <1>8, <1>9 DEF most

\* A line laid out.
LEMMA LaidOK ==
  ASSUME NEW messages, NEW line \in NewLine(messages) \cup DrawnLine(messages),
         NEW width \in ViewWidths
  PROVE  /\ Laid(line, width) \in DrawnLine(messages) /\ Laid(line, width).id = line.id
         /\ Laid(line, width).shows = line.shows
<1> DEFINE m == IF line.long /\ width = "narrow" THEN 2 ELSE 1
           h == line.tall * m
<1>1. CASE line.height > 0 /\ line.width = width
  <2>1. line \in DrawnLine(messages)
    BY <1>1 DEF NewLine
  <2>2. QED
    BY <1>1, <2>1 DEF Laid
<1>2. CASE ~(line.height > 0 /\ line.width = width)
  <2>1. Laid(line, width) = [line EXCEPT !.width = width, !.height = h]
    BY <1>2 DEF Laid, NewLine, DrawnLine
  <2>2. line.tall \in Nat \ {0}
    BY DEF NewLine, DrawnLine
  <2>3. h \in Nat \ {0}
    <3>1. CASE line.long /\ width = "narrow"
      BY <2>2, <3>1
    <3>2. CASE ~(line.long /\ width = "narrow")
      BY <2>2, <3>2
    <3>3. QED
      BY <3>1, <3>2
  <2> HIDE DEF h
  <2>4. QED
    BY <2>1, <2>3 DEF NewLine, DrawnLine
<1>3. QED
  BY <1>1, <1>2

\* What is found is a line with that id.
LEMMA FindLineIs ==
  ASSUME NEW v, NEW L, v.lines \in Seq(L), NEW id
  PROVE  /\ FindLine(v, id) \in 0..Len(v.lines)
         /\ FindLine(v, id) # NoLine =>
              id # NoId /\ FindLine(v, id) \in 1..Len(v.lines) /\ v.lines[FindLine(v, id)].id = id
         /\ FindLine(v, id) = NoLine =>
              id = NoId \/ \A k \in 1..Len(v.lines) : v.lines[k].id # id
<1> DEFINE n == Len(v.lines)
           S == {NoLine} \cup {k \in DOMAIN v.lines : id # NoId /\ v.lines[k].id = id}
<1>1. n \in Nat /\ DOMAIN v.lines = 1..n
  OBVIOUS
<1>2. S \in SUBSET (0..n) /\ S # {}
  BY <1>1 DEF NoLine
<1> HIDE DEF n
<1>3. Max(S) \in S /\ \A y \in S : Max(S) >= y
  <2> HIDE DEF S
  <2>1. QED
    BY <1>1, <1>2, Greatest
<1>4. FindLine(v, id) = Max(S)
  BY DEF FindLine
<1> HIDE DEF S
<1>5. Max(S) \in 0..n
  BY <1>2, <1>3
<1>6. Max(S) # NoLine => id # NoId /\ Max(S) \in 1..n /\ v.lines[Max(S)].id = id
  BY <1>1, <1>3 DEF S
<1>7. ASSUME Max(S) = NoLine, id # NoId, NEW k \in 1..n
      PROVE  v.lines[k].id # id
  <2> SUFFICES ASSUME v.lines[k].id = id
               PROVE  FALSE
    OBVIOUS
  <2>1. k \in S
    BY <1>1, <1>7 DEF S
  <2>2. NoLine >= k
    BY <1>3, <1>7, <2>1
  <2>3. QED
    BY <1>1, <2>2 DEF NoLine
<1>8. QED
  BY <1>4, <1>5, <1>6, <1>7 DEF n

\* There is a line at every offset.
LEMMA LineAtIs ==
  ASSUME NEW v, v.tops \in Seq(Nat), NEW y, Len(v.tops) # 0
  PROVE  LineAt(v, y) \in 1..Len(v.tops)
<1> DEFINE n == Len(v.tops)
           S == {1} \cup {k \in DOMAIN v.tops : v.tops[k] =< y}
<1>1. n \in Nat /\ DOMAIN v.tops = 1..n /\ n # 0
  OBVIOUS
<1>2. S \in SUBSET (0..n) /\ S # {} /\ S \subseteq 1..n
  BY <1>1
<1> HIDE DEF n, S
<1>3. Max(S) \in S
  BY <1>1, <1>2, Greatest
<1>4. LineAt(v, y) = Max(S)
  BY DEF LineAt, S
<1>5. QED
  BY <1>2, <1>3, <1>4 DEF n

\* A view with other lines, whose range is set.
Relined(v, lines, tops) == SetRange([v EXCEPT !.lines = lines, !.tops = tops])

\* A view is sound when its lines are changed and the range is set.
LEMMA RelinedOK ==
  ASSUME NEW messages, NEW v, SoundView(v, messages),
         NEW lines \in Seq(DrawnLine(messages)), NEW tops, Offsets(lines, tops)
  PROVE  LET w == Relined(v, lines, tops) IN
         /\ SoundView(w, messages) /\ w.lines = lines /\ w.width = v.width
         /\ w.found = v.found /\ w.stale = v.stale /\ w.page = v.page
<1> DEFINE u == [v EXCEPT !.lines = lines, !.tops = tops]
<1>1. tops \in Seq(Nat)
  BY DEF Offsets
<1>2. /\ u \in ViewRecord(messages) /\ u.lines = lines /\ u.tops = tops
      /\ u.value = v.value /\ u.max = v.max /\ u.away = v.away /\ u.atEnd = v.atEnd
      /\ u.button = v.button /\ u.width = v.width /\ u.found = v.found /\ u.stale = v.stale
      /\ u.page = v.page
  BY <1>1 DEF ViewRecord, SoundView
<1> HIDE DEF u
<1>3. FollowsEnd(u) /\ Offsets(u.lines, u.tops)
  BY <1>2 DEF SoundView, FollowsEnd, HasButton
<1>4. QED
  BY <1>2, <1>3, SetRangeOK, ZenonT(60) DEF u, Relined

\* Lines whose offsets are rebuilt leave a sound view.
LEMMA RebuiltOK ==
  ASSUME NEW messages, NEW v, SoundView(v, messages), NEW lines \in Seq(DrawnLine(messages))
  PROVE  LET w == Relined(v, lines, Rebuilt(lines)) IN
         /\ SoundView(w, messages) /\ w.lines = lines /\ w.width = v.width
         /\ w.found = v.found /\ w.stale = v.stale /\ w.page = v.page
<1> DEFINE t == Rebuilt(lines)
<1>1. HaveHeights(lines)
  BY Heights
<1>2. Offsets(lines, t)
  BY <1>1, RebuiltRight
<1> HIDE DEF t
<1>3. LET w == Relined(v, lines, t) IN
      /\ SoundView(w, messages) /\ w.lines = lines /\ w.width = v.width
      /\ w.found = v.found /\ w.stale = v.stale /\ w.page = v.page
  BY <1>2, RelinedOK
<1>4. QED
  BY <1>3 DEF t

\* A line, laid out or not.
AnyLine(messages) == NewLine(messages) \cup DrawnLine(messages)

\* A line appended leaves a sound view that is not empty.
LEMMA AppendLineOK ==
  ASSUME NEW messages, NEW v, SoundView(v, messages), NEW line \in AnyLine(messages)
  PROVE  SoundView(AppendLine(v, line), messages) /\ AppendLine(v, line).lines # <<>>
<1> DEFINE L == DrawnLine(messages)
           new == Laid(line, v.width)
           lines == Append(v.lines, new)
           tops == Append(v.tops, TotalHeight(v))
           kept == Tail(lines)
           n == Len(v.lines)
<1>1. /\ v.lines \in Seq(L) /\ v.width \in ViewWidths /\ Offsets(v.lines, v.tops)
      /\ v \in ViewRecord(messages)
  BY DEF SoundView, ViewRecord
<1>2. new \in L
  BY <1>1, LaidOK DEF AnyLine
<1>3. TotalHeight(v) \in Nat
  BY <1>1, TotalIsNat
<1>4. n \in Nat /\ v.tops \in Seq(Nat) /\ Len(v.tops) = n
  BY <1>1 DEF Offsets
<1>5. TotalHeight(v) = IF n = 0 THEN 0 ELSE v.tops[n] + v.lines[n].height
  BY <1>1, <1>4 DEF TotalHeight, Last
<1> HIDE DEF new, L
<1>6. lines \in Seq(L) /\ Len(lines) = n + 1 /\ \A k \in 1..n : lines[k] = v.lines[k]
  BY <1>1, <1>2, AppendProperties
<1>7. tops \in Seq(Nat) /\ Len(tops) = n + 1 /\ tops[n + 1] = TotalHeight(v)
      /\ \A k \in 1..n : tops[k] = v.tops[k]
  <2> DEFINE t == TotalHeight(v)
             N == Nat
             s == v.tops
  <2>1. t \in N /\ s \in Seq(N) /\ Len(s) = n
    BY <1>3, <1>4
  <2> HIDE DEF t, N, s
  <2>2. Append(s, t) \in Seq(N) /\ Len(Append(s, t)) = Len(s) + 1 /\ Append(s, t)[Len(s) + 1] = t
        /\ \A k \in 1..Len(s) : Append(s, t)[k] = s[k]
    BY <2>1, AppendProperties
  <2>3. QED
    BY <2>1, <2>2 DEF t, N, s
<1> HIDE DEF lines, tops
<1>8. Offsets(lines, tops)
  <2>1. ASSUME NEW k \in 1..n + 1
        PROVE  tops[k] = IF k = 1 THEN 0 ELSE tops[k - 1] + lines[k - 1].height
    <3>1. CASE k = n + 1
      <4>1. n # 0 => n \in 1..n /\ k - 1 = n /\ k # 1
        BY <1>4, <3>1
      <4>2. n # 0 => tops[n] = v.tops[n] /\ lines[n] = v.lines[n]
        BY <1>6, <1>7, <4>1
      <4>3. QED
        BY <1>4, <1>5, <1>7, <3>1, <4>1, <4>2
    <3>2. CASE k # n + 1
      <4>1. k \in 1..n /\ (k # 1 => k - 1 \in 1..n)
        BY <1>4, <3>2
      <4>2. v.tops[k] = IF k = 1 THEN 0 ELSE v.tops[k - 1] + v.lines[k - 1].height
        BY <1>1, <4>1 DEF Offsets
      <4>3. QED
        BY <1>6, <1>7, <4>1, <4>2
    <3>3. QED
      BY <3>1, <3>2
  <2>2. QED
    BY <1>6, <1>7, <2>1 DEF Offsets
<1>9. CASE Len(lines) > MaxLines
  <2>0. MaxLines \in Nat \ {0}
    BY ViewAssumption
  <2>1. lines # <<>> /\ Len(lines) >= 2
    BY <1>4, <1>6, <1>9, <2>0
  <2>2. kept \in Seq(L) /\ Len(kept) = n
    BY <1>4, <1>6, <2>1, HeadTailProperties
  <2>3. kept # <<>>
    BY <1>4, <1>6, <2>1, <2>2
  <2> HIDE DEF kept
  <2>4. AppendLine(v, line) = Relined(v, kept, Rebuilt(kept))
    BY <1>9 DEF AppendLine, Relined, kept, lines, tops, new
  <2>5. kept \in Seq(DrawnLine(messages))
    BY <2>2 DEF L
  <2>6. LET w == Relined(v, kept, Rebuilt(kept)) IN
        SoundView(w, messages) /\ w.lines = kept
    BY <2>5, RebuiltOK
  <2>7. QED
    BY <2>3, <2>4, <2>6
<1>10. CASE ~(Len(lines) > MaxLines)
  <2>1. AppendLine(v, line) = Relined(v, lines, tops)
    BY <1>10 DEF AppendLine, Relined, lines, tops, new
  <2>2. lines # <<>>
    BY <1>4, <1>6
  <2>3. lines \in Seq(DrawnLine(messages))
    BY <1>6 DEF L
  <2>4. LET w == Relined(v, lines, tops) IN
        SoundView(w, messages) /\ w.lines = lines
    BY <1>8, <2>3, RelinedOK
  <2>5. QED
    BY <2>1, <2>2, <2>4
<1>11. QED
  BY <1>9, <1>10

\* Lines appended in turn leave a sound view.
LEMMA AppendLinesOK ==
  ASSUME NEW messages, NEW v, SoundView(v, messages), NEW lines \in Seq(AnyLine(messages))
  PROVE  LET w == AppendLines(v, lines) IN
         SoundView(w, messages) /\ (lines # <<>> \/ v.lines # <<>> => w.lines # <<>>)
<1> DEFINE n == Len(lines)
           V == {u \in ViewRecord(messages) :
                   SoundView(u, messages) /\ (v.lines # <<>> => u.lines # <<>>)}
           step == [a \in (1..n) \X V |-> AppendLine(a[2], lines[a[1]])]
           Body(f) == [k \in 0..n |-> IF k = 0 THEN v ELSE AppendLine(f[k - 1], lines[k])]
           upTo == CHOOSE f : f = Body(f)
<1>1. n \in Nat /\ \A k \in 1..n : lines[k] \in AnyLine(messages)
  OBVIOUS
<1>2. AppendLines(v, lines) = upTo[n]
  BY DEF AppendLines
<1>3. v \in V
  BY DEF SoundView
<1>4. ASSUME NEW k \in 1..n, NEW u \in V
      PROVE  AppendLine(u, lines[k]) \in V /\ AppendLine(u, lines[k]).lines # <<>>
  <2>1. SoundView(AppendLine(u, lines[k]), messages) /\ AppendLine(u, lines[k]).lines # <<>>
    BY <1>1, AppendLineOK
  <2>2. QED
    BY <2>1 DEF SoundView
<1> HIDE DEF V
<1>5. step \in Steps(n, V)
  BY <1>4 DEF Steps
<1> HIDE DEF n, step
<1>6. PICK f \in [0..n -> V] : f[0] = v /\ \A k \in 1..n : f[k] = step[<<k, f[k - 1]>>]
  <2>1. n \in Nat
    BY <1>1
  <2>2. QED
    BY <1>3, <1>5, <2>1, Computed, SMTT(60)
<1>7. \A k \in 1..n : f[k - 1] \in V /\ f[k] = AppendLine(f[k - 1], lines[k])
  <2> TAKE k \in 1..n
  <2>1. f[k - 1] \in V
    BY <1>1
  <2>2. <<k, f[k - 1]>> \in (1..n) \X V
    BY <2>1
  <2>3. QED
    BY <1>6, <2>1, <2>2 DEF step
<1>8. f = Body(f)
  <2>1. \A k \in 0..n : f[k] = IF k = 0 THEN v ELSE AppendLine(f[k - 1], lines[k])
    BY <1>1, <1>6, <1>7
  <2>2. QED
    BY <2>1
<1> HIDE DEF Body
<1>9. upTo = Body(upTo)
  BY <1>8
<1> HIDE DEF upTo
<1>10. \A k \in 1..n : upTo[k] = f[k]
  <2> DEFINE S == {k \in 0..n : upTo[k] = f[k]}
  <2>1. 0 \in S
    BY <1>1, <1>6, <1>9 DEF Body
  <2>2. ASSUME NEW k \in 1..n, k - 1 \in S
        PROVE  k \in S
    <3>1. k \in 0..n /\ k # 0
      BY <1>1
    <3>2. upTo[k] = AppendLine(upTo[k - 1], lines[k])
      BY <1>9, <3>1 DEF Body
    <3>3. QED
      BY <1>7, <2>2, <3>1, <3>2
  <2> HIDE DEF S
  <2>3. 0..n \subseteq S
    BY <1>1, <2>1, <2>2, CountedUp
  <2>4. QED
    BY <1>1, <2>3 DEF S
<1>11. CASE n = 0
  <2>1. upTo[n] = v
    BY <1>1, <1>9, <1>11 DEF Body
  <2>2. lines = <<>>
    BY <1>11 DEF n
  <2>3. QED
    BY <1>2, <1>3, <2>1, <2>2 DEF V
<1>12. CASE n # 0
  <2>1. n \in 1..n
    BY <1>1, <1>12
  <2>2. upTo[n] = AppendLine(f[n - 1], lines[n]) /\ f[n - 1] \in V
    BY <1>7, <1>10, <2>1
  <2>3. upTo[n] \in V /\ upTo[n].lines # <<>>
    BY <1>4, <2>1, <2>2
  <2>4. QED
    BY <1>2, <2>3 DEF V
<1>13. QED
  BY <1>11, <1>12

\* Lines drawn above the others leave a sound view.
LEMMA PrependLinesOK ==
  ASSUME NEW messages, NEW v, SoundView(v, messages), NEW lines \in Seq(AnyLine(messages))
  PROVE  LET w == PrependLines(v, lines) IN
         SoundView(w, messages) /\ (lines # <<>> => w.lines # <<>>)
<1> DEFINE laid == [k \in DOMAIN lines |-> Laid(lines[k], v.width)]
           all == laid \o v.lines
           ranged == Relined(v, all, Rebuilt(all))
           two == [lines |-> laid, tops |-> Rebuilt(laid)]
           added == TotalHeight(two)
           L == DrawnLine(messages)
<1>1. CASE lines = <<>>
  BY <1>1 DEF PrependLines
<1>2. CASE lines # <<>>
  <2>1. v.lines \in Seq(L) /\ v.width \in ViewWidths
    BY DEF SoundView, ViewRecord
  <2>2. DOMAIN lines = 1..Len(lines) /\ Len(lines) \in Nat /\ Len(lines) # 0
        /\ \A k \in 1..Len(lines) : lines[k] \in AnyLine(messages)
    BY <1>2
  <2>3. \A k \in 1..Len(lines) : Laid(lines[k], v.width) \in L
    BY <2>1, <2>2, LaidOK DEF AnyLine
  <2> HIDE DEF L
  <2>4. laid \in Seq(L) /\ Len(laid) = Len(lines)
    BY <2>2, <2>3
  <2> HIDE DEF laid
  <2>5. all \in Seq(L) /\ Len(all) = Len(laid) + Len(v.lines)
    BY <2>1, <2>4, ConcatProperties
  <2>6. all # <<>>
    <3>1. Len(v.lines) \in Nat
      BY <2>1
    <3>2. Len(all) # 0
      BY <2>2, <2>4, <2>5, <3>1
    <3> HIDE DEF all
    <3>3. QED
      BY <3>2
  <2> HIDE DEF all
  <2>7. SoundView(ranged, messages) /\ ranged.lines = all
    BY <2>5, RebuiltOK DEF L
  <2>8. added \in Nat
    <3>1. two.lines = laid /\ two.tops = Rebuilt(laid)
      OBVIOUS
    <3> HIDE DEF two
    <3>2. HaveHeights(laid)
      BY <2>4, Heights DEF L
    <3>3. Offsets(two.lines, two.tops)
      BY <3>1, <3>2, RebuiltRight
    <3>4. QED
      BY <2>4, <3>1, <3>3, TotalIsNat DEF L
  <2>9. PrependLines(v, lines) = SetValue(ranged, ranged.value + added)
    BY <1>2 DEF PrependLines, Relined, all, laid
  <2> HIDE DEF ranged, added
  <2>10. ranged.value + added \in Int
    BY <2>7, <2>8 DEF SoundView, ViewRecord
  <2>11. /\ SoundView(SetValue(ranged, ranged.value + added), messages)
         /\ SameLines(ranged, SetValue(ranged, ranged.value + added))
    BY <2>7, <2>10, SetValueOK
  <2>12. QED
    BY <2>6, <2>7, <2>9, <2>11 DEF SameLines
<1>3. QED
  BY <1>1, <1>2

\* A line replaced leaves a sound view with as many lines.
LEMMA ReplaceLineOK ==
  ASSUME NEW messages, NEW v, SoundView(v, messages), NEW line \in AnyLine(messages), NEW id
  PROVE  LET w == ReplaceLine(v, id, line) IN
         SoundView(w, messages) /\ (v.lines # <<>> => w.lines # <<>>)
<1> DEFINE k == FindLine(v, id)
           L == DrawnLine(messages)
           new == Laid(line, v.width)
           lines == [v.lines EXCEPT ![k] = new]
           tops == TopsFrom(lines, v.tops, k)
<1>1. v.lines \in Seq(L) /\ v.width \in ViewWidths /\ Offsets(v.lines, v.tops)
  BY DEF SoundView, ViewRecord
<1>2. k \in 0..Len(v.lines) /\ (k # NoLine => k \in 1..Len(v.lines))
  BY <1>1, FindLineIs
<1>3. new \in L
  BY <1>1, LaidOK DEF AnyLine
<1> HIDE DEF k, new
<1>4. CASE k = NoLine
  BY <1>4 DEF ReplaceLine, k
<1>5. CASE k # NoLine
  <2>1. /\ lines \in Seq(L) /\ Len(lines) = Len(v.lines) /\ Len(lines) \in Nat
        /\ \A j \in 1..Len(lines) : j # k => lines[j] = v.lines[j]
    BY <1>1, <1>2, <1>3, <1>5
  <2> HIDE DEF lines
  <2>2. HaveHeights(lines)
    BY <2>1, Heights
  <2>3. \A j \in 1..Len(lines) :
           j =< k => v.tops[j] = IF j = 1 THEN 0 ELSE v.tops[j - 1] + lines[j - 1].height
    <3> TAKE j \in 1..Len(lines)
    <3> SUFFICES ASSUME j =< k
                 PROVE  v.tops[j] = IF j = 1 THEN 0 ELSE v.tops[j - 1] + lines[j - 1].height
      OBVIOUS
    <3>1. v.tops[j] = IF j = 1 THEN 0 ELSE v.tops[j - 1] + v.lines[j - 1].height
      BY <1>1, <2>1 DEF Offsets
    <3>2. j # 1 => lines[j - 1] = v.lines[j - 1]
      BY <1>2, <2>1
    <3>3. QED
      BY <3>1, <3>2
  <2>4. Offsets(lines, tops)
    BY <1>2, <2>2, <2>3, TopsFromRight
  <2>5. ReplaceLine(v, id, line) = Relined(v, lines, tops)
    BY <1>5 DEF ReplaceLine, Relined, lines, k, new
  <2> HIDE DEF tops
  <2>6. SoundView(Relined(v, lines, tops), messages) /\ Relined(v, lines, tops).lines = lines
    BY <2>1, <2>4, RelinedOK
  <2>7. v.lines # <<>> => lines # <<>>
    BY <1>1, <2>1
  <2>8. QED
    BY <2>5, <2>6, <2>7
<1>6. QED
  BY <1>4, <1>5

\* A line put in leaves a sound view that is not empty.
LEMMA InsertAfterOK ==
  ASSUME NEW messages, NEW v, SoundView(v, messages), NEW line \in AnyLine(messages), NEW id
  PROVE  LET w == InsertAfter(v, id, line) IN SoundView(w, messages) /\ w.lines # <<>>
<1> DEFINE k == FindLine(v, id)
           L == DrawnLine(messages)
           at == IF k = NoLine THEN Len(v.lines) + 1 ELSE k + 1
           new == Laid(line, v.width)
           lines == InsertAt(v.lines, at, new)
<1>1. v.lines \in Seq(L) /\ v.width \in ViewWidths
  BY DEF SoundView, ViewRecord
<1>2. k \in 0..Len(v.lines) /\ Len(v.lines) \in Nat
  BY <1>1, FindLineIs
<1>3. new \in L
  BY <1>1, LaidOK DEF AnyLine
<1>4. at \in 1..Len(v.lines) + 1
  BY <1>2 DEF NoLine
<1>5. InsertAfter(v, id, line) = Relined(v, lines, Rebuilt(lines))
  BY DEF InsertAfter, Relined
<1> HIDE DEF at, new, L
<1>6. lines \in Seq(L) /\ Len(lines) = Len(v.lines) + 1
  BY <1>1, <1>3, <1>4, WithPlace
<1> HIDE DEF lines
<1>7. lines # <<>>
  BY <1>2, <1>6
<1>8. SoundView(Relined(v, lines, Rebuilt(lines)), messages)
      /\ Relined(v, lines, Rebuilt(lines)).lines = lines
  BY <1>6, RebuiltOK DEF L
<1>9. QED
  BY <1>5, <1>7, <1>8

\* A line taken out leaves a sound view with one line less at most.
LEMMA RemoveLineOK ==
  ASSUME NEW messages, NEW v, SoundView(v, messages), NEW id
  PROVE  LET w == RemoveLine(v, id) IN
         SoundView(w, messages) /\ Len(w.lines) >= Len(v.lines) - 1
<1> DEFINE k == FindLine(v, id)
           L == DrawnLine(messages)
           lines == RemoveAt(v.lines, k)
           less == RemoveAt(v.tops, k)
           tops == TopsFrom(lines, less, k - 1)
<1>1. v.lines \in Seq(L) /\ Offsets(v.lines, v.tops)
  BY DEF SoundView, ViewRecord
<1>2. k \in 0..Len(v.lines) /\ (k # NoLine => k \in 1..Len(v.lines)) /\ Len(v.lines) \in Nat
  BY <1>1, FindLineIs
<1> HIDE DEF k
<1>3. CASE k = NoLine
  BY <1>2, <1>3 DEF RemoveLine, k
<1>4. CASE k # NoLine
  <2>1. lines \in Seq(L) /\ Len(lines) = Len(v.lines) - 1 /\ \A j \in 1..k - 1 : lines[j] = v.lines[j]
    BY <1>1, <1>2, <1>4, WithoutPlace
  <2>2. \A j \in 1..k - 1 : less[j] = v.tops[j]
    <3> DEFINE N == Nat
               s == v.tops
    <3>1. s \in Seq(N) /\ k \in 1..Len(s)
      BY <1>1, <1>2, <1>4 DEF Offsets
    <3> HIDE DEF N, s
    <3>2. \A j \in 1..k - 1 : RemoveAt(s, k)[j] = s[j]
      BY <3>1, WithoutPlace
    <3>3. QED
      BY <3>2 DEF s
  <2> HIDE DEF lines, less
  <2>3. HaveHeights(lines)
    BY <2>1, Heights
  <2>4. \A j \in 1..Len(lines) :
           j =< k - 1 => less[j] = IF j = 1 THEN 0 ELSE less[j - 1] + lines[j - 1].height
    <3> TAKE j \in 1..Len(lines)
    <3> SUFFICES ASSUME j =< k - 1
                 PROVE  less[j] = IF j = 1 THEN 0 ELSE less[j - 1] + lines[j - 1].height
      OBVIOUS
    <3>0. j \in 1..Len(v.lines)
      BY <1>2, <2>1
    <3>1. v.tops[j] = IF j = 1 THEN 0 ELSE v.tops[j - 1] + v.lines[j - 1].height
      BY <1>1, <3>0 DEF Offsets
    <3>2. j \in 1..k - 1 /\ (j # 1 => j - 1 \in 1..k - 1)
      BY <1>2, <2>1
    <3>3. QED
      BY <2>1, <2>2, <3>1, <3>2
  <2>5. k - 1 \in Int
    BY <1>2
  <2>6. Offsets(lines, tops)
    BY <2>3, <2>4, <2>5, TopsFromRight
  <2>7. RemoveLine(v, id) = Relined(v, lines, tops)
    BY <1>4 DEF RemoveLine, Relined, lines, less, k
  <2> HIDE DEF tops
  <2>8. SoundView(Relined(v, lines, tops), messages) /\ Relined(v, lines, tops).lines = lines
    BY <2>1, <2>6, RelinedOK
  <2>9. QED
    BY <1>2, <2>1, <2>7, <2>8
<1>5. QED
  BY <1>3, <1>4

\* A cleared view is sound.
LEMMA ClearOK ==
  ASSUME NEW messages, NEW v, SoundView(v, messages)
  PROVE  SoundView(Clear(v), messages)
<1> DEFINE e == [v EXCEPT !.lines = <<>>, !.tops = <<>>, !.atEnd = TRUE, !.away = FALSE, !.max = 0]
           s == SetValue(e, 0)
           w == [s EXCEPT !.button = FALSE]
<1>1. v \in ViewRecord(messages)
  BY DEF SoundView
<1>2. /\ e \in ViewRecord(messages) /\ e.lines = <<>> /\ e.tops = <<>> /\ e.atEnd /\ ~e.away
      /\ e.max = 0 /\ e.value = v.value
  <2> DEFINE none == <<>>
             d == [v EXCEPT !.lines = none, !.tops = none, !.atEnd = TRUE, !.away = FALSE, !.max = 0]
  <2>1. none \in Seq(DrawnLine(messages)) /\ none \in Seq(Nat)
    OBVIOUS
  <2>2. e = d
    OBVIOUS
  <2> HIDE DEF none
  <2>3. /\ d \in ViewRecord(messages) /\ d.lines = none /\ d.tops = none /\ d.atEnd /\ ~d.away
        /\ d.max = 0 /\ d.value = v.value
    BY <1>1, <2>1 DEF ViewRecord
  <2>4. QED
    BY <2>2, <2>3 DEF none
<1> HIDE DEF e
<1>3. HasButton(e)
  BY <1>2 DEF HasButton
<1>4. Within(0, 0, e.max) = 0
  BY <1>2 DEF Within
<1>5. s \in ViewRecord(messages) /\ SameLines(e, s) /\ s.value = 0 /\ s.atEnd /\ ~s.away
  <2>1. CASE e.value = 0
    <3>1. s = e
      BY <1>4, <2>1 DEF SetValue
    <3> HIDE DEF s
    <3>2. QED
      BY <1>2, <2>1, <3>1 DEF SameLines
  <2>2. CASE e.value # 0
    <3> DEFINE g == [e EXCEPT !.value = 0]
    <3>1. s = ValueChanged(g)
      BY <1>4, <2>2 DEF SetValue
    <3>2. /\ g \in ViewRecord(messages) /\ SameLines(e, g) /\ g.value = 0 /\ g.atEnd /\ ~g.away
          /\ g.max = 0 /\ g.button = e.button
      BY <1>2 DEF ViewRecord, SameLines
    <3> HIDE DEF g
    <3>3. HasButton(g) /\ g.value =< g.max /\ g.value = g.max
      BY <3>2 DEF HasButton
    <3>4. /\ ValueChanged(g) \in ViewRecord(messages) /\ SameLines(g, ValueChanged(g))
          /\ ValueChanged(g).value = g.value
          /\ ValueChanged(g).atEnd /\ ~ValueChanged(g).away
      BY <3>2, <3>3, ValueChangedOK
    <3>5. QED
      BY <3>1, <3>2, <3>4 DEF SameLines
  <2>3. QED
    BY <2>1, <2>2
<1>6. Clear(v) = w
  BY DEF Clear, AwayFromBottom, e, s
<1> HIDE DEF s
<1>7. /\ w \in ViewRecord(messages) /\ w.lines = <<>> /\ w.tops = <<>> /\ w.value = 0 /\ w.max = 0
      /\ w.atEnd /\ ~w.away /\ w.page \in Pages
  BY <1>2, <1>5 DEF ViewRecord, SameLines
<1> HIDE DEF w
<1>8. FollowsEnd(w)
  BY <1>7 DEF FollowsEnd, HasButton
<1>9. w.max = Max({0, TotalHeight(w) - w.page})
  <2> DEFINE x == 0 - w.page
  <2>1. TotalHeight(w) - w.page = x
    BY <1>7 DEF TotalHeight
  <2>2. x \in Int /\ ~(x > 0)
    <3>1. w.page \in Nat
      BY <1>7, PageNat
    <3>2. QED
      BY <3>1
  <2> HIDE DEF x
  <2>3. QED
    BY <1>7, <2>1, <2>2, MaxOfTwo
<1>10. Offsets(w.lines, w.tops)
  BY <1>7 DEF Offsets
<1>11. QED
  BY <1>6, <1>7, <1>8, <1>9, <1>10 DEF SoundView

\* What is not said of the lines or of the bar leaves a view sound.
LEMMA FlagsOK ==
  ASSUME NEW messages, NEW v, SoundView(v, messages), NEW b \in BOOLEAN, NEW k \in Nat
  PROVE  /\ SoundView([v EXCEPT !.stale = b], messages) /\ [v EXCEPT !.stale = b].lines = v.lines
         /\ SoundView([v EXCEPT !.asks = b], messages) /\ [v EXCEPT !.asks = b].lines = v.lines
         /\ [v EXCEPT !.asks = b].asks = b
         /\ SoundView([v EXCEPT !.found = k], messages) /\ [v EXCEPT !.found = k].lines = v.lines
         /\ [v EXCEPT !.found = k].tops = v.tops
<1>1. ASSUME NEW u \in ViewRecord(messages), SameLines(v, [u EXCEPT !.stale = v.stale, !.found = v.found]),
             u.value = v.value, u.away = v.away, u.atEnd = v.atEnd, u.button = v.button
      PROVE  SoundView(u, messages)
  <2>1. u.lines = v.lines /\ u.tops = v.tops /\ u.max = v.max /\ u.page = v.page
    BY <1>1 DEF SameLines, ViewRecord
  <2>2. QED
    BY <1>1, <2>1 DEF SoundView, TotalHeight, FollowsEnd, HasButton
<1>2. v \in ViewRecord(messages)
  BY DEF SoundView
<1> DEFINE s == [v EXCEPT !.stale = b]
           a == [v EXCEPT !.asks = b]
           f == [v EXCEPT !.found = k]
<1>3. /\ s \in ViewRecord(messages) /\ SameLines(v, [s EXCEPT !.stale = v.stale, !.found = v.found])
      /\ s.value = v.value /\ s.away = v.away /\ s.atEnd = v.atEnd /\ s.button = v.button
      /\ s.lines = v.lines
  BY <1>2 DEF ViewRecord, SameLines
<1>4. /\ a \in ViewRecord(messages) /\ SameLines(v, [a EXCEPT !.stale = v.stale, !.found = v.found])
      /\ a.value = v.value /\ a.away = v.away /\ a.atEnd = v.atEnd /\ a.button = v.button
      /\ a.lines = v.lines /\ a.asks = b
  BY <1>2 DEF ViewRecord, SameLines
<1>5. /\ f \in ViewRecord(messages) /\ SameLines(v, [f EXCEPT !.stale = v.stale, !.found = v.found])
      /\ f.value = v.value /\ f.away = v.away /\ f.atEnd = v.atEnd /\ f.button = v.button
      /\ f.lines = v.lines /\ f.tops = v.tops
  BY <1>2 DEF ViewRecord, SameLines
<1> HIDE DEF s, a, f
<1>6. SoundView(s, messages) /\ SoundView(a, messages) /\ SoundView(f, messages)
  BY <1>1, <1>3, <1>4, <1>5
<1>7. QED
  BY <1>3, <1>4, <1>5, <1>6 DEF s, a, f

\* A mark changes nothing else.
LEMMA FoundOK ==
  ASSUME NEW messages, NEW v, SoundView(v, messages), NEW k \in Nat
  PROVE  /\ SoundView([v EXCEPT !.found = k], messages) /\ [v EXCEPT !.found = k].lines = v.lines
         /\ [v EXCEPT !.found = k].tops = v.tops
<1> DEFINE b == TRUE
<1>1. b \in BOOLEAN
  OBVIOUS
<1> HIDE DEF b
<1>2. QED
  BY <1>1, FlagsOK, ZenonT(60)

\* The user takes the view off its end.
LEMMA LeftOK ==
  ASSUME NEW messages, NEW v, SoundView(v, messages)
  PROVE  LET u == AwayFromBottom([v EXCEPT !.away = TRUE, !.atEnd = FALSE], TRUE) IN
         SoundView(u, messages) /\ u.lines = v.lines /\ u.value = v.value
<1> DEFINE u == [v EXCEPT !.away = TRUE, !.atEnd = FALSE, !.button = TRUE]
<1>1. v \in ViewRecord(messages)
  BY DEF SoundView
<1>2. AwayFromBottom([v EXCEPT !.away = TRUE, !.atEnd = FALSE], TRUE) = u
  BY <1>1 DEF AwayFromBottom, ViewRecord
<1>3. /\ u \in ViewRecord(messages) /\ u.lines = v.lines /\ u.tops = v.tops /\ u.max = v.max
      /\ u.page = v.page /\ u.value = v.value /\ u.away /\ ~u.atEnd /\ u.button
  BY <1>1 DEF ViewRecord
<1> HIDE DEF u
<1>4. FollowsEnd(u)
  BY <1>3 DEF SoundView, FollowsEnd, HasButton
<1>5. SoundView(u, messages)
  BY <1>3, <1>4 DEF SoundView, TotalHeight
<1>6. QED
  BY <1>2, <1>3, <1>5

\* The wheel leaves a view sound.
LEMMA WheelOK ==
  ASSUME NEW messages, NEW v, SoundView(v, messages), NEW rows \in Int
  PROVE  SoundView(Wheel(v, rows), messages) /\ Wheel(v, rows).lines = v.lines
<1> DEFINE left == IF rows < 0 /\ ~v.away
                     THEN AwayFromBottom([v EXCEPT !.away = TRUE, !.atEnd = FALSE], TRUE)
                     ELSE v
<1>1. SoundView(left, messages) /\ left.lines = v.lines
  BY LeftOK
<1>2. Wheel(v, rows) = SetValue(left, left.value + rows)
  BY DEF Wheel
<1> HIDE DEF left
<1>3. left.value + rows \in Int
  BY <1>1 DEF SoundView, ViewRecord
<1>4. QED
  BY <1>1, <1>2, <1>3, SetValueOK, ZenonT(60) DEF SameLines

\* So is one whose next lines are laid out for the new width.
LEMMA RelayoutRestOK ==
  ASSUME NEW messages, NEW v, SoundView(v, messages)
  PROVE  LET w == RelayoutRest(v) IN
         SoundView(w, messages) /\ (v.lines # <<>> => w.lines # <<>>)
<1> DEFINE L == DrawnLine(messages)
           n == Len(v.lines)
           todo == {k \in DOMAIN v.lines : v.lines[k].width # v.width}
           lines == [k \in DOMAIN v.lines |->
                       IF k \in todo /\ Cardinality({j \in todo : j < k}) < Batch
                         THEN Laid(v.lines[k], v.width) ELSE v.lines[k]]
           anchor == LineAt(v, v.value)
           offset == v.value - v.tops[anchor]
           built == Relined(v, lines, Rebuilt(lines))
           inside == Within(offset, 0, lines[anchor].height - 1)
           held == IF built.atEnd THEN built
                   ELSE SetValue(built, built.tops[anchor] + inside)
           b == Cardinality(todo) >= Batch
<1>1. v.lines \in Seq(L) /\ v.width \in ViewWidths /\ Offsets(v.lines, v.tops) /\ v.value \in Nat
  BY DEF SoundView, ViewRecord
<1>2. n \in Nat /\ DOMAIN v.lines = 1..n
  BY <1>1
<1>3. \A k \in 1..n : v.lines[k] \in L /\ Laid(v.lines[k], v.width) \in L
  BY <1>1, LaidOK
<1> HIDE DEF L
<1>4. lines \in Seq(L) /\ Len(lines) = n
  BY <1>2, <1>3
<1>5. RelayoutRest(v) = [(IF todo = {} THEN v ELSE held) EXCEPT !.stale = b]
  BY DEF RelayoutRest, Relined
<1>6. todo # {} => n # 0
  BY <1>2
<1> HIDE DEF lines, todo
<1>7. SoundView(built, messages) /\ built.lines = lines
  BY <1>4, RebuiltOK DEF L
<1> HIDE DEF built
<1>8. ASSUME n # 0
      PROVE  SoundView(held, messages) /\ held.lines = lines
  <2>1. v.tops \in Seq(Nat) /\ Len(v.tops) = n
    BY <1>1 DEF Offsets
  <2>2. anchor \in 1..n
    BY <1>8, <2>1, LineAtIs
  <2> HIDE DEF anchor
  <2>3. v.tops[anchor] \in Nat
    BY <2>1, <2>2
  <2>4. built.tops \in Seq(Nat) /\ Len(built.tops) = n
    BY <1>4, <1>7 DEF SoundView, Offsets
  <2>5. built.tops[anchor] \in Nat
    BY <2>2, <2>4
  <2>6. lines[anchor].height \in Nat
    <3>1. lines[anchor] \in L
      BY <1>4, <2>2
    <3>2. QED
      BY <3>1 DEF L, DrawnLine
  <2>7. inside \in Int
    BY <1>1, <2>3, <2>6 DEF Within
  <2> HIDE DEF inside
  <2>8. built.tops[anchor] + inside \in Int
    BY <2>5, <2>7
  <2>9. /\ SoundView(SetValue(built, built.tops[anchor] + inside), messages)
        /\ SameLines(built, SetValue(built, built.tops[anchor] + inside))
    BY <1>7, <2>8, SetValueOK
  <2>10. QED
    BY <1>7, <2>9 DEF SameLines
<1>9. b \in BOOLEAN
  OBVIOUS
<1> HIDE DEF held, b
<1> DEFINE u == IF todo = {} THEN v ELSE held
<1>10. SoundView(u, messages) /\ (v.lines # <<>> => u.lines # <<>>)
  <2>1. v.lines # <<>> => lines # <<>>
    BY <1>1, <1>4
  <2>2. QED
    BY <1>6, <1>8, <2>1
<1>11. RelayoutRest(v) = [u EXCEPT !.stale = b]
  BY <1>5
<1> HIDE DEF u
<1>12. SoundView([u EXCEPT !.stale = b], messages) /\ [u EXCEPT !.stale = b].lines = u.lines
  <2> DEFINE o == 0
  <2>1. o \in Nat
    OBVIOUS
  <2> HIDE DEF o
  <2>2. QED
    BY <1>9, <1>10, <2>1, FlagsOK, ZenonT(60)
<1>13. QED
  BY <1>10, <1>11, <1>12

\* A resized view is sound, whatever of it is laid out again at once.
LEMMA ResizeOK ==
  ASSUME NEW messages, NEW v, SoundView(v, messages), NEW width \in ViewWidths, NEW page \in Pages
  PROVE  LET w == Resize(v, width, page) IN
         SoundView(w, messages) /\ (v.lines # <<>> => w.lines # <<>>)
<1> DEFINE L == DrawnLine(messages)
           n == Len(v.lines)
           sized == [v EXCEPT !.width = width, !.page = page]
<1>1. v.lines \in Seq(L) /\ Offsets(v.lines, v.tops) /\ v \in ViewRecord(messages)
  BY DEF SoundView, ViewRecord
<1>2. /\ sized \in ViewRecord(messages) /\ sized.lines = v.lines /\ sized.tops = v.tops
      /\ sized.value = v.value /\ sized.max = v.max /\ sized.away = v.away
      /\ sized.atEnd = v.atEnd /\ sized.button = v.button
  BY <1>1 DEF ViewRecord
<1>3. FollowsEnd(sized)
  BY <1>2 DEF SoundView, FollowsEnd, HasButton
<1>4. CASE width = v.width
  <2>1. Resize(v, width, page) = SetRange(sized)
    BY <1>4 DEF Resize
  <2> HIDE DEF sized
  <2>2. SoundView(SetRange(sized), messages) /\ SetRange(sized).lines = sized.lines
    BY <1>1, <1>2, <1>3, SetRangeOK
  <2>3. QED
    BY <1>2, <2>1, <2>2
<1>5. CASE width # v.width
  <2> DEFINE first == LineAt(v, v.value)
             seen == CHOOSE f : f = [k \in first..n |->
                       IF k = first THEN 0 ELSE f[k - 1] + Laid(v.lines[k - 1], width).height]
             lines == [k \in DOMAIN v.lines |->
                         IF k >= first /\ seen[k] < page THEN Laid(v.lines[k], width)
                                                         ELSE v.lines[k]]
             tops == Rebuilt(lines)
             u == [sized EXCEPT !.lines = lines, !.tops = tops]
  <2>1. Resize(v, width, page) = [SetRange(u) EXCEPT !.stale = TRUE]
    BY <1>5 DEF Resize
  <2> HIDE DEF seen, first, sized
  <2>2. n \in Nat /\ DOMAIN v.lines = 1..n
    BY <1>1
  <2>3. \A k \in 1..n : v.lines[k] \in L /\ Laid(v.lines[k], width) \in L
    BY <1>1, LaidOK
  <2> HIDE DEF L
  <2>4. lines \in Seq(L) /\ Len(lines) = n
    BY <2>2, <2>3
  <2> HIDE DEF lines
  <2>5. Offsets(lines, tops)
    BY <2>4, Heights, RebuiltRight DEF L
  <2>6. tops \in Seq(Nat)
    BY <2>5 DEF Offsets
  <2> HIDE DEF tops
  <2>7. /\ u \in ViewRecord(messages) /\ u.lines = lines /\ u.tops = tops
        /\ u.value = sized.value /\ u.max = sized.max /\ u.away = sized.away
        /\ u.atEnd = sized.atEnd /\ u.button = sized.button
    BY <1>2, <2>4, <2>6 DEF ViewRecord, L
  <2> HIDE DEF u
  <2>8. FollowsEnd(u) /\ Offsets(u.lines, u.tops)
    BY <1>3, <2>5, <2>7 DEF FollowsEnd, HasButton
  <2>9. SoundView(SetRange(u), messages) /\ SetRange(u).lines = u.lines
    BY <2>7, <2>8, SetRangeOK
  <2> DEFINE r == SetRange(u)
             b == TRUE
             o == 0
  <2>10. b \in BOOLEAN /\ o \in Nat
    OBVIOUS
  <2>11. Resize(v, width, page) = [r EXCEPT !.stale = b]
    BY <2>1
  <2>12. SoundView(r, messages) /\ r.lines = lines
    BY <2>7, <2>9
  <2> HIDE DEF b, o, r
  <2>13. SoundView([r EXCEPT !.stale = b], messages) /\ [r EXCEPT !.stale = b].lines = r.lines
    BY <2>10, <2>12, FlagsOK, ZenonT(60)
  <2>14. v.lines # <<>> => lines # <<>>
    BY <1>1, <2>4
  <2>15. QED
    BY <2>11, <2>12, <2>13, <2>14
<1>6. QED
  BY <1>4, <1>5

\* A marked line is scrolled to in a sound view.
LEMMA SetFindOK ==
  ASSUME NEW messages, NEW v, SoundView(v, messages), NEW k \in 1..Len(v.lines)
  PROVE  SoundView(SetFind(v, k), messages) /\ SetFind(v, k).lines = v.lines
<1> DEFINE marked == [v EXCEPT !.found = k]
           x == v.tops[k] - (v.page \div 3)
           y == Max({0, x})
<1>1. Len(v.lines) \in Nat /\ v.page \in Nat /\ v.tops \in Seq(Nat) /\ Len(v.tops) = Len(v.lines)
  <2>1. v.lines \in Seq(DrawnLine(messages)) /\ v.page \in Pages /\ Offsets(v.lines, v.tops)
    BY DEF SoundView, ViewRecord
  <2>2. v.page \in Nat
    BY <2>1, PageNat
  <2>3. QED
    BY <2>1, <2>2 DEF Offsets
<1>2. k \in Nat /\ v.tops[k] \in Nat
  BY <1>1
<1>3. x \in Int
  BY <1>1, <1>2
<1> HIDE DEF x
<1>4. y \in Int
  BY <1>3, MaxOfTwo
<1>5. SoundView(marked, messages) /\ marked.lines = v.lines
  BY <1>2, FoundOK
<1>6. SetFind(v, k) \in {SetValue(marked, y), marked}
  BY DEF SetFind, x
<1> HIDE DEF marked, y
<1>7. SoundView(SetValue(marked, y), messages) /\ SetValue(marked, y).lines = marked.lines
  BY <1>4, <1>5, SetValueOK DEF SameLines
<1>8. QED
  BY <1>5, <1>6, <1>7

\* Of the members of a set there is one that a measure makes least.
LEMMA LeastBy ==
  ASSUME NEW S, S # {}, NEW d \in [S -> Nat]
  PROVE  \E k \in S : \A j \in S : d[k] =< d[j]
<1> DEFINE T == {d[k] : k \in S}
<1>1. T \in SUBSET Nat /\ T # {}
  OBVIOUS
<1>2. PICK x \in T : \A y \in T : x =< y
  BY <1>1, Least
<1>3. PICK k \in S : x = d[k]
  OBVIOUS
<1>4. QED
  BY <1>2, <1>3

\* So is the text that is searched for.
LEMMA FindTextOK ==
  ASSUME NEW messages, NEW v, SoundView(v, messages), v.lines # <<>>,
         NEW matching \in SUBSET (DOMAIN v.lines), NEW backward
  PROVE  SoundView(FindText(v, matching, backward), messages)
         /\ FindText(v, matching, backward).lines = v.lines
<1> DEFINE n == Len(v.lines)
           known == v.found \in 1..n
           start == IF known THEN v.found ELSE LineAt(v, v.value)
           dist(k) == IF backward THEN (start - k) % n ELSE (k - start) % n
           hits == {k \in matching : ~(known /\ k = start)}
           next == CHOOSE k \in hits : \A j \in hits : dist(k) =< dist(j)
<1>1. n \in Nat /\ n # 0 /\ DOMAIN v.lines = 1..n /\ v.tops \in Seq(Nat) /\ Len(v.tops) = n
  <2>1. v.lines \in Seq(DrawnLine(messages)) /\ Offsets(v.lines, v.tops)
    BY DEF SoundView, ViewRecord
  <2>2. QED
    BY <2>1 DEF Offsets
<1>2. start \in 1..n
  BY <1>1, LineAtIs
<1>3. FindText(v, matching, backward) = IF hits = {} THEN ClearFind(v) ELSE SetFind(v, next)
  BY DEF FindText
<1> HIDE DEF n, start, known
<1>4. CASE hits = {}
  <2> DEFINE k == NoLine
             u == [v EXCEPT !.found = k]
  <2>1. k \in Nat
    BY DEF NoLine
  <2>2. ClearFind(v) = u
    BY DEF ClearFind
  <2> HIDE DEF k, hits, next
  <2>3. SoundView(u, messages) /\ u.lines = v.lines
    BY <2>1, FoundOK
  <2> HIDE DEF u
  <2>4. QED
    BY <1>3, <1>4, <2>2, <2>3
<1>5. CASE hits # {}
  <2> DEFINE d == [k \in hits |-> dist(k)]
  <2>1. \A k \in hits : k \in 1..n
    BY <1>1
  <2>2. \A k \in hits : dist(k) \in Nat
    <3> TAKE k \in hits
    <3>1. start - k \in Int /\ k - start \in Int /\ n \in Nat /\ n > 0
      BY <1>1, <1>2, <2>1
    <3>2. (start - k) % n \in Nat /\ (k - start) % n \in Nat
      <4> DEFINE x == start - k
                 y == k - start
      <4>1. x \in Int /\ y \in Int
        BY <3>1
      <4> HIDE DEF x, y
      <4>2. x % n \in Nat /\ y % n \in Nat
        BY <3>1, <4>1
      <4>3. QED
        BY <4>2 DEF x, y
    <3>3. QED
      BY <3>2
  <2> HIDE DEF hits
  <2>3. d \in [hits -> Nat]
    BY <2>2
  <2>4. \A k \in hits : d[k] = dist(k)
    OBVIOUS
  <2> HIDE DEF dist, d
  <2>5. PICK k \in hits : \A j \in hits : d[k] =< d[j]
    BY <1>5, <2>3, LeastBy
  <2>6. \A j \in hits : dist(k) =< dist(j)
    BY <2>4, <2>5
  <2>7. next \in hits
    BY <2>6
  <2> HIDE DEF next
  <2>8. next \in 1..Len(v.lines)
    BY <2>1, <2>7 DEF n
  <2>9. SoundView(SetFind(v, next), messages) /\ SetFind(v, next).lines = v.lines
    BY <2>8, SetFindOK
  <2>10. QED
    BY <1>3, <1>5, <2>9
<1>6. QED
  BY <1>4, <1>5

-----------------------------------------------------------------------------
(* What is drawn.                                                          *)

\* More messages make more ids.
LEMMA SoundWithMore ==
  ASSUME NEW S, NEW messages \in Seq(S), NEW m \in S, NEW v, SoundView(v, messages)
  PROVE  SoundView(v, Append(messages, m))
<1> DEFINE more == Append(messages, m)
<1>1. Len(messages) \in Nat /\ Len(more) = Len(messages) + 1
      /\ \A i \in 1..Len(messages) : more[i] = messages[i]
  BY AppendProperties
<1> HIDE DEF more
<1>2. {j \in 1..Len(messages) : Condensable(messages[j])} \subseteq {j \in 1..Len(more) : Condensable(more[j])}
  BY <1>1
<1>3. LineIds(messages) \subseteq LineIds(more)
  BY <1>2 DEF LineIds
<1>4. DrawnLine(messages) \subseteq DrawnLine(more)
  BY <1>3 DEF DrawnLine
<1>5. Seq(DrawnLine(messages)) \subseteq Seq(DrawnLine(more))
  BY <1>4
<1>6. ViewRecord(messages) \subseteq ViewRecord(more)
  BY <1>5 DEF ViewRecord
<1>7. QED
  BY <1>6 DEF SoundView, more

\* The events that a group may hold.
Events(messages) == {j \in 1..Len(messages) : Condensable(messages[j])}

\* A run is made of events, its own among them.
LEMMA RunIs ==
  ASSUME NEW messages, Len(messages) \in Nat, NEW i \in Int, NEW from \in Nat \ {0},
         NEW to \in 0..Len(messages)
  PROVE  LET run == RunAround(messages, i, from, to) IN
         /\ run \in SUBSET Events(messages) /\ run \subseteq from..to
         /\ (i \in from..to /\ Condensable(messages[i]) => i \in run)
<1> DEFINE run == RunAround(messages, i, from, to)
<1>1. ASSUME NEW j \in run
      PROVE  j \in from..to /\ Condensable(messages[j])
  <2>1. /\ j \in from..to
        /\ \A k \in (IF i < j THEN i..j ELSE j..i) : Condensable(messages[k])
    BY DEF RunAround
  <2>2. j \in (IF i < j THEN i..j ELSE j..i)
    BY <2>1
  <2>3. QED
    BY <2>1, <2>2
<1>2. ASSUME i \in from..to, Condensable(messages[i])
      PROVE  i \in run
  <2>1. \A k \in (IF i < i THEN i..i ELSE i..i) : k = i
    OBVIOUS
  <2>2. QED
    BY <1>2, <2>1 DEF RunAround
<1> HIDE DEF run
<1>3. QED
  BY <1>1, <1>2 DEF run, Events

\* Min is the least of a set.
LEMMA LeastIs ==
  ASSUME NEW S \in SUBSET Nat, S # {}
  PROVE  Min(S) \in S /\ \A j \in S : Min(S) =< j
BY Least DEF Min

\* The line of a group.
LEMMA GroupLineOK ==
  ASSUME NEW messages, Len(messages) \in Nat, NEW run \in SUBSET Events(messages), run # {},
         NEW expanded
  PROVE  GroupLine(run, expanded) \in NewLine(messages)
<1> DEFINE first == Min(run)
           tall == IF first \in expanded THEN Cardinality(run) ELSE 1
<1>1. run \subseteq 1..Len(messages) /\ run \in SUBSET Nat
  BY DEF Events
<1>2. first \in run
  BY <1>1, LeastIs
<1>3. Cardinality(run) \in Nat \ {0}
  <2>1. IsFiniteSet(1..Len(messages))
    BY FS_Interval
  <2>2. IsFiniteSet(run)
    BY <1>1, <2>1, FS_Subset
  <2>3. QED
    BY <2>2, FS_CardinalityType, FS_EmptySet
<1>4. tall \in Nat \ {0}
  BY <1>3
<1>5. GroupId(first) \in LineIds(messages)
  BY <1>2 DEF LineIds, Events
<1>6. GroupLine(run, expanded) =
        [id |-> GroupId(first), shows |-> run, tall |-> tall, long |-> FALSE,
         height |-> 0, width |-> "none"]
  BY DEF GroupLine, ChatLine
<1> HIDE DEF first, tall
<1>7. QED
  BY <1>1, <1>4, <1>5, <1>6 DEF NewLine

\* The line of a message.
LEMMA MessageLineOK ==
  ASSUME NEW messages, NEW redacted, NEW i \in Nat
  PROVE  MessageLine(messages, redacted, i) \in NewLine(messages)
<1> DEFINE text == messages[i].kind = "text"
           id == IF text THEN MsgId(i) ELSE NoId
           long == text /\ i \notin redacted
<1>1. id \in LineIds(messages) /\ long \in BOOLEAN
  BY DEF LineIds
<1>2. MessageLine(messages, redacted, i) =
        [id |-> id, shows |-> {i}, tall |-> 1, long |-> long, height |-> 0, width |-> "none"]
  BY DEF MessageLine, ChatLine
<1> HIDE DEF id, long
<1>3. QED
  BY <1>1, <1>2 DEF NewLine

\* Rows, cards and the line that leads to older messages.
LEMMA OtherLinesOK ==
  ASSUME NEW messages
  PROVE  /\ \A i \in Nat : RowLine(i) \in NewLine(messages)
         /\ \A u \in LinksSaid : CardLine(u) \in NewLine(messages)
         /\ \A start : OlderLines(start) \in Seq(NewLine(messages))
<1>1. ASSUME NEW id \in LineIds(messages), NEW tall \in Nat \ {0}
      PROVE  ChatLine(id, {}, tall, FALSE) \in NewLine(messages)
  BY DEF ChatLine, NewLine
<1>2. ASSUME NEW i \in Nat
      PROVE  RowLine(i) \in NewLine(messages)
  <2> DEFINE id == RowId(i)
             t == 1
  <2>1. id \in LineIds(messages) /\ t \in Nat \ {0}
    BY DEF LineIds
  <2>2. RowLine(i) = ChatLine(id, {}, t, FALSE)
    BY DEF RowLine
  <2> HIDE DEF id, t
  <2>3. QED
    BY <1>1, <2>1, <2>2
<1>3. ASSUME NEW u \in LinksSaid
      PROVE  CardLine(u) \in NewLine(messages)
  <2> DEFINE id == CardId(u)
             t == 2
  <2>1. id \in LineIds(messages) /\ t \in Nat \ {0}
    BY DEF LineIds
  <2>2. CardLine(u) = ChatLine(id, {}, t, FALSE)
    BY DEF CardLine
  <2> HIDE DEF id, t
  <2>3. QED
    BY <1>1, <2>1, <2>2
<1>4. ASSUME NEW start
      PROVE  OlderLines(start) \in Seq(NewLine(messages))
  <2> DEFINE l == ChatLine(OlderId, {}, 1, FALSE)
  <2>1. l \in NewLine(messages)
    <3> DEFINE id == OlderId
               t == 1
    <3>1. id \in LineIds(messages) /\ t \in Nat \ {0}
      BY DEF LineIds
    <3>2. l = ChatLine(id, {}, t, FALSE)
      OBVIOUS
    <3> HIDE DEF id, t, l
    <3>3. QED
      BY <1>1, <3>1, <3>2
  <2>2. OlderLines(start) = IF start > 0 THEN <<l>> ELSE <<>>
    BY DEF OlderLines
  <2> HIDE DEF l
  <2>3. QED
    BY <2>1, <2>2
<1>5. QED
  BY <1>2, <1>3, <1>4

\* A buffer that can be drawn.
Drawable(b) == Len(b.messages) \in Nat /\ b.cards \subseteq LinksSaid

\* What is drawn below a text.
LEMMA BelowOK ==
  ASSUME NEW b, Drawable(b), NEW i \in Nat, NEW withCards
  PROVE  Below(b, i, withCards) \in Seq(NewLine(b.messages))
<1> DEFINE link == b.messages[i].link
           L == NewLine(b.messages)
           row == IF i \in b.reactions THEN <<RowLine(i)>> ELSE <<>>
           card == IF withCards /\ link \in b.cards \ b.hidden THEN <<CardLine(link)>> ELSE <<>>
<1>1. row \in Seq(L)
  <2>1. RowLine(i) \in L
    BY OtherLinesOK
  <2> HIDE DEF L
  <2>2. QED
    BY <2>1
<1>2. card \in Seq(L)
  <2>1. link \in b.cards => CardLine(link) \in L
    BY OtherLinesOK DEF Drawable
  <2> HIDE DEF L, link
  <2>2. QED
    BY <2>1
<1>3. Below(b, i, withCards) = row \o card
  BY DEF Below
<1> HIDE DEF row, card, L
<1>4. row \o card \in Seq(L)
  BY <1>1, <1>2, ConcatProperties
<1>5. QED
  BY <1>3, <1>4 DEF L

\* What the drawing of message i adds to the lines.
Rendered(b, expanded, from, to, withCards, i, lines) ==
  LET m   == b.messages[i]
      run == RunAround(b.messages, i, from + 1, to)
  IN  IF ~Condensable(m)
        THEN lines \o <<MessageLine(b.messages, b.redacted, i)>> \o Below(b, i, withCards)
        ELSE IF i = Min(run) THEN Append(lines, GroupLine(run, expanded)) ELSE lines

\* What one more message draws, which is not nothing for the first.
LEMMA RenderedOK ==
  ASSUME NEW b, Drawable(b), NEW expanded, NEW from \in Nat, NEW to \in 0..Len(b.messages),
         NEW withCards, NEW i \in from + 1 .. to, NEW lines \in Seq(NewLine(b.messages))
  PROVE  LET new == Rendered(b, expanded, from, to, withCards, i, lines) IN
         /\ new \in Seq(NewLine(b.messages))
         /\ (lines # <<>> \/ i = from + 1 => new # <<>>)
<1> DEFINE L == NewLine(b.messages)
           run == RunAround(b.messages, i, from + 1, to)
           new == Rendered(b, expanded, from, to, withCards, i, lines)
<1>1. Len(b.messages) \in Nat /\ i \in Nat /\ i \in Int /\ from + 1 \in Nat \ {0} /\ to \in Nat
  BY DEF Drawable
<1>2. CASE ~Condensable(b.messages[i])
  <2> DEFINE one == <<MessageLine(b.messages, b.redacted, i)>>
             below == Below(b, i, withCards)
             most == lines \o one
  <2>1. MessageLine(b.messages, b.redacted, i) \in L
    BY <1>1, MessageLineOK
  <2>2. below \in Seq(L)
    BY <1>1, BelowOK
  <2>3. new = most \o below
    BY <1>2 DEF Rendered
  <2> HIDE DEF L, below
  <2>4. one \in Seq(L) /\ Len(one) = 1
    BY <2>1
  <2>5. lines \in Seq(L)
    BY DEF L
  <2> HIDE DEF one
  <2>6. most \in Seq(L) /\ Len(most) = Len(lines) + Len(one)
    BY <2>4, <2>5, ConcatProperties
  <2>7. Len(most) >= 1
    BY <2>4, <2>5, <2>6
  <2> HIDE DEF most
  <2>8. most \o below \in Seq(L) /\ Len(most \o below) = Len(most) + Len(below)
    BY <2>2, <2>6, ConcatProperties
  <2>9. Len(most \o below) # 0
    BY <2>2, <2>6, <2>7, <2>8
  <2> DEFINE all == most \o below
  <2> HIDE DEF all
  <2>10. all # <<>> /\ all \in Seq(L)
    BY <2>8, <2>9 DEF all
  <2>11. QED
    BY <2>3, <2>10 DEF all, L
<1>3. CASE Condensable(b.messages[i])
  <2>1. run \in SUBSET Events(b.messages) /\ run \subseteq from + 1 .. to /\ i \in run
    BY <1>1, <1>3, RunIs
  <2>2. new = IF i = Min(run) THEN Append(lines, GroupLine(run, expanded)) ELSE lines
    BY <1>3 DEF Rendered
  <2>3. GroupLine(run, expanded) \in L
    BY <1>1, <2>1, GroupLineOK
  <2>4. i = from + 1 => i = Min(run)
    <3>1. run \in SUBSET Nat /\ \A j \in run : j >= from + 1
      BY <1>1, <2>1
    <3> HIDE DEF run
    <3>2. Min(run) \in run /\ Min(run) =< i
      BY <2>1, <3>1, LeastIs
    <3>3. Min(run) \in Nat /\ Min(run) >= from + 1
      BY <3>1, <3>2
    <3>4. QED
      BY <1>1, <3>2, <3>3
  <2> DEFINE g == GroupLine(run, expanded)
  <2> HIDE DEF L, run, g, new
  <2>5. Append(lines, g) \in Seq(L) /\ Append(lines, g) # <<>>
    BY <2>3, AppendProperties DEF L, g
  <2>6. QED
    BY <2>2, <2>4, <2>5 DEF new, g, L
<1>4. QED
  BY <1>2, <1>3

\* What is drawn of a range of messages.
LEMMA RenderRangeOK ==
  ASSUME NEW b, Drawable(b), NEW expanded, NEW from \in Nat, NEW to \in 0..Len(b.messages),
         from =< to, NEW withCards
  PROVE  LET lines == RenderRange(b, expanded, from, to, withCards) IN
         lines \in Seq(NewLine(b.messages)) /\ (from < to => lines # <<>>)
<1> DEFINE n == to - from
           V == Seq(NewLine(b.messages))
           R(i, s) == Rendered(b, expanded, from, to, withCards, i, s)
           step == [a \in (1..n) \X V |-> R(from + a[1], a[2])]
           Body(f) == [i \in from..to |-> IF i = from THEN <<>> ELSE R(i, f[i - 1])]
           upTo == CHOOSE f : f = Body(f)
           o == <<>>
<1>1. n \in Nat /\ to \in Nat /\ to = from + n
  BY DEF Drawable
<1>2. RenderRange(b, expanded, from, to, withCards) = upTo[to]
  BY DEF RenderRange, Rendered
<1>3. ASSUME NEW k \in 1..n, NEW s \in V
      PROVE  R(from + k, s) \in V /\ (s # <<>> \/ k = 1 => R(from + k, s) # <<>>)
  <2>1. from + k \in from + 1 .. to /\ (k = 1 => from + k = from + 1)
    BY <1>1
  <2>2. QED
    BY <2>1, RenderedOK
<1>4. step \in Steps(n, V)
  <2> HIDE DEF n, V, R
  <2>1. QED
    BY <1>3 DEF Steps
<1>5. o \in V
  OBVIOUS
<1> HIDE DEF n, V, R, step, o
<1>6. PICK f \in [0..n -> V] : f[0] = o /\ \A k \in 1..n : f[k] = step[<<k, f[k - 1]>>]
  <2>1. n \in Nat
    BY <1>1
  <2>2. QED
    BY <1>4, <1>5, <2>1, Computed, SMTT(60)
<1>7. \A k \in 1..n : f[k - 1] \in V /\ f[k] = R(from + k, f[k - 1])
  <2> TAKE k \in 1..n
  <2>1. f[k - 1] \in V
    BY <1>1
  <2>2. <<k, f[k - 1]>> \in (1..n) \X V
    BY <2>1
  <2>3. QED
    BY <1>6, <2>1, <2>2 DEF step
<1> DEFINE g == [i \in from..to |-> f[i - from]]
<1>8. g = Body(g)
  <2>1. ASSUME NEW i \in from..to
        PROVE  f[i - from] = IF i = from THEN <<>> ELSE R(i, g[i - 1])
    <3>1. CASE i = from
      BY <1>6, <3>1 DEF o
    <3>2. CASE i # from
      <4>1. /\ i - from \in 1..n /\ i - 1 \in from..to /\ (i - 1) - from = (i - from) - 1
            /\ from + (i - from) = i
        BY <1>1, <3>2
      <4>2. g[i - 1] = f[(i - from) - 1]
        BY <4>1
      <4>3. QED
        BY <1>7, <3>2, <4>1, <4>2
    <3>3. QED
      BY <3>1, <3>2
  <2> HIDE DEF g
  <2>2. g = [i \in from..to |-> f[i - from]]
    BY DEF g
  <2>3. QED
    BY <2>1, <2>2
<1> HIDE DEF g, Body
<1>9. upTo = Body(upTo)
  BY <1>8
<1> HIDE DEF upTo
<1>10. \A k \in 0..n : upTo[from + k] = f[k]
  <2> DEFINE S == {k \in 0..n : upTo[from + k] = f[k]}
  <2>1. 0 \in S
    BY <1>1, <1>6, <1>9 DEF Body, o
  <2>2. ASSUME NEW k \in 1..n, k - 1 \in S
        PROVE  k \in S
    <3>1. k \in 0..n /\ from + k \in from..to /\ from + k # from /\ (from + k) - 1 = from + (k - 1)
      BY <1>1
    <3>2. upTo[from + k] = R(from + k, upTo[from + (k - 1)])
      BY <1>9, <3>1 DEF Body
    <3>3. QED
      BY <1>7, <2>2, <3>1, <3>2
  <2> HIDE DEF S
  <2>3. 0..n \subseteq S
    BY <1>1, <2>1, <2>2, CountedUp
  <2>4. QED
    BY <2>3 DEF S
<1>11. upTo[to] = f[n] /\ f[n] \in V
  BY <1>1, <1>10
<1>12. from < to => f[n] # <<>>
  <2> DEFINE S == {k \in 0..n : k > 0 => f[k] # <<>>}
  <2>1. 0 \in S
    BY <1>1
  <2>2. ASSUME NEW k \in 1..n, k - 1 \in S
        PROVE  k \in S
    <3>1. k = 1 \/ f[k - 1] # <<>>
      BY <1>1, <2>2
    <3>2. f[k] # <<>>
      BY <1>3, <1>7, <3>1
    <3>3. QED
      BY <1>1, <3>2
  <2> HIDE DEF S
  <2>3. 0..n \subseteq S
    BY <1>1, <2>1, <2>2, CountedUp
  <2>4. n \in S
    BY <1>1, <2>3
  <2>5. QED
    BY <1>1, <2>4 DEF S
<1>13. QED
  BY <1>2, <1>11, <1>12 DEF V

-----------------------------------------------------------------------------
(* Updates of a view.                                                      *)

\* Scrolled to its end or kept there, a view keeps its lines.
LEMMA ScrolledOK ==
  ASSUME NEW messages, NEW v, SoundView(v, messages)
  PROVE  /\ SoundView(ScrollToBottom(v), messages) /\ ScrollToBottom(v).lines = v.lines
         /\ SoundView(KeepBottom(v), messages) /\ KeepBottom(v).lines = v.lines
BY ScrollToBottomOK, KeepBottomOK DEF SameLines

\* A message that comes leaves a sound view that is not empty.
LEMMA ShowMessageOK ==
  ASSUME NEW b, Drawable(b), Len(b.messages) > 0, NEW v, SoundView(v, b.messages), NEW expanded
  PROVE  SoundView(ShowMessage(v, b, expanded), b.messages)
         /\ ShowMessage(v, b, expanded).lines # <<>>
<1> DEFINE M == b.messages
           n == Len(M)
           run == RunAround(M, n, 1, n)
           id == GroupId(Min(run))
           group == GroupLine(run, expanded)
           text == MessageLine(M, b.redacted, n)
           shown == IF ~Condensable(M[n]) THEN AppendLine(v, text)
                    ELSE IF FindLine(v, id) # NoLine THEN ReplaceLine(v, id, group)
                    ELSE AppendLine(v, group)
<1>1. n \in Nat /\ n > 0
  BY DEF Drawable
<1>2. ShowMessage(v, b, expanded) = KeepBottom(shown)
  BY DEF ShowMessage
<1>3. text \in AnyLine(M)
  BY <1>1, MessageLineOK DEF AnyLine
<1>4. Condensable(M[n]) => group \in AnyLine(M)
  <2> SUFFICES ASSUME Condensable(M[n])
               PROVE  group \in AnyLine(M)
    OBVIOUS
  <2> DEFINE o == 1
  <2>1. o \in Nat \ {0} /\ n \in Int /\ n \in 0..Len(M) /\ n \in o..n
    BY <1>1
  <2> HIDE DEF o
  <2>2. RunAround(M, n, o, n) \in SUBSET Events(M) /\ n \in RunAround(M, n, o, n)
    BY <1>1, <2>1, RunIs
  <2>3. run \in SUBSET Events(M) /\ run # {}
    BY <2>2 DEF o
  <2> HIDE DEF run
  <2>4. QED
    BY <1>1, <2>3, GroupLineOK DEF AnyLine
<1>5. v.lines \in Seq(DrawnLine(M))
  BY DEF SoundView, ViewRecord
<1> HIDE DEF group, text, id
<1>6. FindLine(v, id) # NoLine => v.lines # <<>>
  BY <1>5, FindLineIs
<1>7. SoundView(AppendLine(v, text), M) /\ AppendLine(v, text).lines # <<>>
  BY <1>3, AppendLineOK
<1>8. Condensable(M[n]) =>
        /\ SoundView(AppendLine(v, group), M) /\ AppendLine(v, group).lines # <<>>
        /\ SoundView(ReplaceLine(v, id, group), M)
        /\ (v.lines # <<>> => ReplaceLine(v, id, group).lines # <<>>)
  BY <1>4, AppendLineOK, ReplaceLineOK
<1>9. SoundView(shown, M) /\ shown.lines # <<>>
  BY <1>6, <1>7, <1>8
<1> HIDE DEF shown
<1>10. QED
  BY <1>2, <1>9, ScrolledOK

\* So does the card under it.
LEMMA WithCardOK ==
  ASSUME NEW messages, NEW b, b.cards \subseteq LinksSaid, NEW u, NEW v, SoundView(v, messages)
  PROVE  SoundView(WithCard(v, b, u), messages) /\ (v.lines # <<>> => WithCard(v, b, u).lines # <<>>)
<1>1. CASE ~Carded(b, u)
  BY <1>1 DEF WithCard
<1>2. CASE Carded(b, u)
  <2> DEFINE line == CardLine(u)
  <2>1. line \in AnyLine(messages)
    BY <1>2, OtherLinesOK DEF Carded, AnyLine
  <2> HIDE DEF line
  <2> DEFINE w == AppendLine(v, line)
  <2>2. SoundView(w, messages) /\ w.lines # <<>>
    BY <2>1, AppendLineOK
  <2>3. WithCard(v, b, u) = KeepBottom(w)
    BY <1>2 DEF WithCard, line
  <2> HIDE DEF w
  <2>4. QED
    BY <2>2, <2>3, ScrolledOK
<1>3. QED
  BY <1>1, <1>2

\* A row of reactions comes, goes or changes under a message that stays.
LEMMA ShowReactionsOK ==
  ASSUME NEW messages, NEW b, NEW i \in Nat, NEW v, SoundView(v, messages)
  PROVE  SoundView(ShowReactions(v, b, i), messages)
         /\ (v.lines # <<>> => ShowReactions(v, b, i).lines # <<>>)
<1> DEFINE row == RowLine(i)
           id == RowId(i)
           at == MsgId(i)
<1>1. row \in AnyLine(messages)
  BY OtherLinesOK DEF AnyLine
<1>2. /\ ShowReactions(v, b, i) = 
           IF FindLine(v, at) = NoLine THEN v
           ELSE IF i \notin b.reactions THEN RemoveLine(v, id)
           ELSE IF FindLine(v, id) # NoLine THEN ReplaceLine(v, id, row)
           ELSE InsertAfter(v, at, row)
      /\ id # at
  BY DEF ShowReactions, RowId, MsgId
<1>3. v.lines \in Seq(DrawnLine(messages))
  BY DEF SoundView, ViewRecord
<1> HIDE DEF row, id, at
<1>4. /\ SoundView(ReplaceLine(v, id, row), messages)
      /\ (v.lines # <<>> => ReplaceLine(v, id, row).lines # <<>>)
      /\ SoundView(InsertAfter(v, at, row), messages) /\ InsertAfter(v, at, row).lines # <<>>
  BY <1>1, ReplaceLineOK, InsertAfterOK
<1>5. ASSUME FindLine(v, at) # NoLine
      PROVE  SoundView(RemoveLine(v, id), messages)
             /\ (v.lines # <<>> => RemoveLine(v, id).lines # <<>>)
  <2> DEFINE w == RemoveLine(v, id)
  <2>1. SoundView(w, messages) /\ Len(w.lines) >= Len(v.lines) - 1
    BY RemoveLineOK
  <2>2. CASE FindLine(v, id) = NoLine
    BY <2>2 DEF RemoveLine
  <2>3. CASE FindLine(v, id) # NoLine
    <3> DEFINE j == FindLine(v, at)
               k == FindLine(v, id)
               n == Len(v.lines)
    <3>1. /\ j \in 1..n /\ v.lines[j].id = at
          /\ k \in 1..n /\ v.lines[k].id = id /\ n \in Nat
      BY <1>3, <1>5, <2>3, FindLineIs
    <3>2. j # k
      BY <1>2, <3>1
    <3> HIDE DEF j, k
    <3>3. n >= 2
      BY <3>1, <3>2
    <3>4. w.lines \in Seq(DrawnLine(messages))
      BY <2>1 DEF SoundView, ViewRecord
    <3> HIDE DEF w
    <3>5. Len(w.lines) # 0
      BY <2>1, <3>1, <3>3, <3>4
    <3>6. QED
      BY <2>1, <3>4, <3>5 DEF w
  <2>4. QED
    BY <2>2, <2>3
<1>6. QED
  BY <1>2, <1>4, <1>5

\* A deleted text is drawn as deleted.
LEMMA ShowRedactedOK ==
  ASSUME NEW b, NEW i \in Nat, NEW v, SoundView(v, b.messages)
  PROVE  SoundView(ShowRedacted(v, b, i), b.messages)
         /\ (v.lines # <<>> => ShowRedacted(v, b, i).lines # <<>>)
<1> DEFINE line == MessageLine(b.messages, b.redacted, i)
           at == MsgId(i)
<1>1. line \in AnyLine(b.messages)
  BY MessageLineOK DEF AnyLine
<1>2. ShowRedacted(v, b, i) = ReplaceLine(v, at, line)
  BY DEF ShowRedacted
<1> HIDE DEF line, at
<1>3. QED
  BY <1>1, <1>2, ReplaceLineOK

\* A card that comes late goes under its message.
LEMMA ShowCardOK ==
  ASSUME NEW messages, NEW u \in LinksSaid, NEW i, NEW v, SoundView(v, messages)
  PROVE  SoundView(ShowCard(v, u, i), messages) /\ ShowCard(v, u, i).lines # <<>>
<1> DEFINE line == CardLine(u)
           at == MsgId(i)
           shown == InsertAfter(v, at, line)
<1>1. line \in AnyLine(messages)
  BY OtherLinesOK DEF AnyLine
<1>2. ShowCard(v, u, i) \in {ScrollToBottom(shown), shown}
  BY DEF ShowCard
<1> HIDE DEF line, at
<1>3. SoundView(shown, messages) /\ shown.lines # <<>>
  BY <1>1, InsertAfterOK
<1> HIDE DEF shown
<1>4. QED
  BY <1>2, <1>3, ScrolledOK

\* A group is opened or closed.
LEMMA ShowToggledOK ==
  ASSUME NEW b, Drawable(b), NEW i \in Events(b.messages), NEW v, SoundView(v, b.messages),
         NEW expanded
  PROVE  SoundView(ShowToggled(v, b, expanded, i), b.messages)
         /\ (v.lines # <<>> => ShowToggled(v, b, expanded, i).lines # <<>>)
<1> DEFINE M == b.messages
           n == Len(M)
           run == RunAround(M, i, i, n)
           line == GroupLine(run, expanded)
           at == GroupId(i)
           shown == ReplaceLine(v, at, line)
<1>1. n \in Nat /\ i \in 1..n /\ Condensable(M[i])
  BY DEF Drawable, Events
<1>2. ShowToggled(v, b, expanded, i) \in {ScrollToBottom(shown), shown}
  BY DEF ShowToggled
<1>3. run \in SUBSET Events(M) /\ run # {}
  <2>1. i \in Int /\ i \in Nat \ {0} /\ n \in 0..Len(M) /\ i \in i..n
    BY <1>1
  <2>2. QED
    BY <1>1, <2>1, RunIs
<1> HIDE DEF run
<1>4. line \in AnyLine(M)
  BY <1>1, <1>3, GroupLineOK DEF AnyLine
<1> HIDE DEF line, at
<1>5. SoundView(shown, M) /\ (v.lines # <<>> => shown.lines # <<>>)
  BY <1>4, ReplaceLineOK
<1> HIDE DEF shown
<1>6. QED
  BY <1>2, <1>5, ScrolledOK

-----------------------------------------------------------------------------
(* A screen.                                                               *)

\* What the window keeps.
Callbacks == {"reset", "more"}
WindowRecord ==
  [active : BOOLEAN, start : Int, loading : BOOLEAN, posted : Seq(Callbacks),
   saved : Nat, expanded : SUBSET Nat]

\* How far up the messages can be left undrawn.
Undrawn == Max({0, MaxMessages - Window})

\* A buffer and what has been drawn of it, or was when it was last on screen.
SoundScreen(s, b) ==
  /\ DOMAIN s = {"view", "win"} /\ s = [view |-> s.view, win |-> s.win]
  /\ SoundView(s.view, b.messages) /\ s.win \in WindowRecord
  /\ s.win.start \in NotDrawn..Undrawn /\ s.win.start =< Len(b.messages)
  /\ s.win.expanded \subseteq 1..Len(b.messages)

\* What is on the screen of a buffer with messages is not empty.
NotEmpty(s, b) ==
  s.win.active => s.win.start # NotDrawn /\ (Len(b.messages) > 0 => s.view.lines # <<>>)

\* The bounds are positive.
LEMMA BoundsNat ==
  /\ Window \in Nat \ {0} /\ Chunk \in Nat \ {0} /\ MaxMessages \in Nat \ {0}
  /\ MaxActs \in Nat \ {0} /\ MaxPosted \in Nat \ {0}
BY WindowAssumption

\* Not more than all messages are left undrawn.
LEMMA UndrawnNat == Undrawn \in Nat /\ Undrawn >= MaxMessages - Window
<1> DEFINE x == MaxMessages - Window
<1>1. x \in Int
  BY BoundsNat
<1> HIDE DEF x
<1>2. Max({0, x}) \in Nat /\ Max({0, x}) >= x
  BY <1>1, MaxOfTwo
<1>3. QED
  BY <1>2 DEF Undrawn, x

\* A chunk of older messages leaves a sound screen.
LEMMA LoadOlderOK ==
  ASSUME NEW b, Drawable(b), NEW s, SoundScreen(s, b)
  PROVE  LET t == LoadOlder(s, b) IN
         /\ SoundScreen(t, b) /\ t.win.active = s.win.active
         /\ t.win.saved = s.win.saved /\ t.win.expanded = s.win.expanded
         /\ (s.win.start # NotDrawn => t.win.start # NotDrawn)
         /\ (s.view.lines # <<>> => t.view.lines # <<>>)
<1> DEFINE x == s.win.start - Chunk
           start == Max({0, x})
           o == OlderLines(start)
           r == RenderRange(b, s.win.expanded, start, s.win.start, FALSE)
           older == o \o r
           less == RemoveLine(s.view, OlderId)
           drawn == PrependLines(less, older)
           w == Post([s.win EXCEPT !.start = start, !.loading = TRUE], "more")
           t == LoadOlder(s, b)
<1>1. CASE s.win.loading \/ s.win.start =< 0
  BY <1>1 DEF LoadOlder
<1>2. CASE ~(s.win.loading \/ s.win.start =< 0)
  <2>1. /\ s.win.start \in Nat /\ s.win.start > 0 /\ s.win.start =< Len(b.messages)
        /\ Len(b.messages) \in Nat /\ s.win.start =< Undrawn
    BY <1>2, UndrawnNat DEF SoundScreen, NotDrawn, Drawable
  <2>2. start \in Nat /\ start < s.win.start
    <3>1. Chunk \in Nat \ {0}
      BY BoundsNat
    <3>2. x \in Int /\ x < s.win.start
      BY <2>1, <3>1
    <3> HIDE DEF x
    <3>3. QED
      BY <2>1, <3>2, MaxOfTwo
  <2>3. t = [view |-> drawn, win |-> w]
    BY <1>2 DEF LoadOlder
  <2> HIDE DEF start
  <2>4. o \in Seq(NewLine(b.messages))
    BY OtherLinesOK
  <2>5. r \in Seq(NewLine(b.messages)) /\ r # <<>>
    <3> DEFINE e == s.win.expanded
               to == s.win.start
               no == FALSE
    <3>1. to \in 0..Len(b.messages) /\ start \in Nat /\ start =< to /\ start < to
      BY <2>1, <2>2
    <3> HIDE DEF e, to, no
    <3>2. RenderRange(b, e, start, to, no) \in Seq(NewLine(b.messages))
          /\ RenderRange(b, e, start, to, no) # <<>>
      BY <3>1, RenderRangeOK
    <3>3. QED
      BY <3>2 DEF e, to, no
  <2> HIDE DEF o, r
  <2>6. older \in Seq(AnyLine(b.messages)) /\ older # <<>>
    <3>1. older \in Seq(NewLine(b.messages)) /\ Len(older) = Len(o) + Len(r)
      BY <2>4, <2>5, ConcatProperties
    <3>2. Len(older) # 0
      BY <2>4, <2>5, <3>1
    <3> HIDE DEF older
    <3>3. Seq(NewLine(b.messages)) \subseteq Seq(AnyLine(b.messages))
      BY DEF AnyLine
    <3>4. QED
      BY <3>1, <3>2, <3>3
  <2> HIDE DEF older
  <2>7. SoundView(less, b.messages)
    BY RemoveLineOK DEF SoundScreen
  <2> HIDE DEF less
  <2>8. SoundView(drawn, b.messages) /\ drawn.lines # <<>>
    BY <2>6, <2>7, PrependLinesOK
  <2> HIDE DEF drawn
  <2>9. /\ w \in WindowRecord /\ w.start = start /\ w.active = s.win.active
        /\ w.saved = s.win.saved /\ w.expanded = s.win.expanded
    <3>1. s.win \in WindowRecord
      BY DEF SoundScreen
    <3> DEFINE more == "more"
               p == Append(s.win.posted, more)
    <3>2. s.win.posted \in Seq(Callbacks) /\ more \in Callbacks
      BY <3>1 DEF WindowRecord, Callbacks
    <3> HIDE DEF more
    <3>3. p \in Seq(Callbacks)
      BY <3>2, AppendProperties
    <3> DEFINE busy == TRUE
               r0 == s.win
               r1 == [active |-> r0.active, start |-> start, loading |-> busy, posted |-> p,
                      saved |-> r0.saved, expanded |-> r0.expanded]
    <3>4. w = [s.win EXCEPT !.start = start, !.loading = busy, !.posted = p]
      BY <3>1 DEF Post, WindowRecord, more
    <3>5. busy \in BOOLEAN /\ start \in Int
      BY <2>2
    <3> HIDE DEF p, busy
    <3>6. w = r1 /\ r0.active \in BOOLEAN /\ r0.saved \in Nat /\ r0.expanded \in SUBSET Nat
      BY <3>1, <3>4 DEF WindowRecord
    <3> HIDE DEF w, r0
    <3>7. r1 \in WindowRecord
      BY <3>3, <3>5, <3>6 DEF WindowRecord
    <3>8. QED
      BY <3>6, <3>7 DEF r0
  <2> HIDE DEF w, t
  <2>10. t.view = drawn /\ t.win = w /\ DOMAIN t = {"view", "win"} /\ t = [view |-> t.view, win |-> t.win]
    BY <2>3
  <2>11. start # NotDrawn /\ start \in NotDrawn..Undrawn /\ start =< Len(b.messages)
    BY <2>1, <2>2, UndrawnNat DEF NotDrawn
  <2>12. SoundScreen(t, b)
    BY <2>8, <2>9, <2>10, <2>11 DEF SoundScreen
  <2>13. QED
    BY <2>8, <2>9, <2>10, <2>11, <2>12 DEF t
<1>3. QED
  BY <1>1, <1>2

\* A view that asks for nothing.
NotAsking(v) == [v EXCEPT !.asks = FALSE]

\* A view that no longer asks is as sound as before.
LEMMA NotAskingOK ==
  ASSUME NEW messages, NEW v, SoundView(v, messages)
  PROVE  SoundView(NotAsking(v), messages) /\ NotAsking(v).lines = v.lines /\ ~NotAsking(v).asks
<1> DEFINE no == FALSE
           o == 0
<1>1. no \in BOOLEAN /\ o \in Nat
  OBVIOUS
<1>2. NotAsking(v) = [v EXCEPT !.asks = no]
  BY DEF NotAsking
<1> HIDE DEF no, o
<1>3. /\ SoundView([v EXCEPT !.asks = no], messages) /\ [v EXCEPT !.asks = no].lines = v.lines
      /\ [v EXCEPT !.asks = no].asks = no
  BY <1>1, FlagsOK, ZenonT(60)
<1>4. QED
  BY <1>2, <1>3 DEF no

\* A screen whose view changes.
LEMMA ScreenOf ==
  ASSUME NEW b, NEW s, SoundScreen(s, b), NEW v, SoundView(v, b.messages)
  PROVE  /\ [s EXCEPT !.view = v] = [view |-> v, win |-> s.win]
         /\ [s EXCEPT !.view = v].view = v /\ [s EXCEPT !.view = v].win = s.win
         /\ SoundScreen([s EXCEPT !.view = v], b)
<1> DEFINE t == [s EXCEPT !.view = v]
<1>1. s = [view |-> s.view, win |-> s.win]
  BY DEF SoundScreen
<1>2. t = [view |-> v, win |-> s.win]
  BY <1>1
<1> HIDE DEF t
<1>3. t.view = v /\ t.win = s.win /\ DOMAIN t = {"view", "win"} /\ t = [view |-> t.view, win |-> t.win]
  BY <1>2
<1>4. SoundScreen(t, b)
  BY <1>3 DEF SoundScreen
<1>5. QED
  BY <1>2, <1>3, <1>4 DEF t

\* A screen whose view no longer asks.
LEMMA NotAskingScreen ==
  ASSUME NEW b, NEW s, SoundScreen(s, b)
  PROVE  LET h == [s EXCEPT !.view.asks = FALSE] IN
         /\ SoundScreen(h, b) /\ h.win = s.win /\ h.view.lines = s.view.lines /\ ~h.view.asks
<1> DEFINE h == [s EXCEPT !.view.asks = FALSE]
           hv == NotAsking(s.view)
           k == [s EXCEPT !.view = hv]
           mm == b.messages
<1>1. h = k
  BY DEF SoundScreen, NotAsking
<1>2. SoundView(s.view, mm)
  BY DEF SoundScreen
<1> HIDE DEF mm, h
<1>3. SoundView(hv, mm) /\ hv.lines = s.view.lines /\ ~hv.asks
  BY <1>2, NotAskingOK
<1> HIDE DEF hv
<1>4. SoundScreen(k, b) /\ k.view = hv /\ k.win = s.win
  BY <1>3, ScreenOf, ZenonT(60) DEF mm
<1> HIDE DEF k
<1>5. QED
  BY <1>1, <1>3, <1>4 DEF h

\* What a view asked for is given.
LEMMA AnsweredOK ==
  ASSUME NEW b, Drawable(b), NEW s, SoundScreen(s, b)
  PROVE  LET t == Answered(s, b) IN
         /\ SoundScreen(t, b) /\ ~t.view.asks /\ t.win.active = s.win.active
         /\ (NotEmpty(s, b) => NotEmpty(t, b))
<1> DEFINE h == [s EXCEPT !.view.asks = FALSE]
           d == IF s.view.asks THEN LoadOlder(h, b) ELSE h
           t == [d EXCEPT !.view.asks = FALSE]
<1>1. Answered(s, b) = t
  BY DEF Answered
<1>2. SoundScreen(h, b) /\ h.win = s.win /\ h.view.lines = s.view.lines
  BY NotAskingScreen
<1> HIDE DEF h
<1>3. /\ SoundScreen(d, b) /\ d.win.active = s.win.active
      /\ (s.win.start # NotDrawn => d.win.start # NotDrawn)
      /\ (s.view.lines # <<>> => d.view.lines # <<>>)
  <2>1. CASE s.view.asks
    BY <1>2, <2>1, LoadOlderOK
  <2>2. CASE ~s.view.asks
    BY <1>2, <2>2
  <2>3. QED
    BY <2>1, <2>2
<1> HIDE DEF d
<1>4. SoundScreen(t, b) /\ t.win = d.win /\ t.view.lines = d.view.lines /\ ~t.view.asks
  BY <1>3, NotAskingScreen
<1> HIDE DEF t
<1>5. NotEmpty(s, b) => NotEmpty(t, b)
  BY <1>3, <1>4 DEF NotEmpty
<1>6. QED
  BY <1>1, <1>3, <1>4, <1>5

\* A window record with one field changed.
LEMMA ActiveSet ==
  ASSUME NEW w \in WindowRecord, NEW x \in BOOLEAN
  PROVE  LET u == [w EXCEPT !.active = x] IN
         /\ u \in WindowRecord /\ u.active = x /\ u.start = w.start /\ u.loading = w.loading
         /\ u.posted = w.posted /\ u.saved = w.saved /\ u.expanded = w.expanded
BY DEF WindowRecord

LEMMA StartSet ==
  ASSUME NEW w \in WindowRecord, NEW x \in Int
  PROVE  LET u == [w EXCEPT !.start = x] IN
         /\ u \in WindowRecord /\ u.start = x /\ u.active = w.active /\ u.loading = w.loading
         /\ u.posted = w.posted /\ u.saved = w.saved /\ u.expanded = w.expanded
BY DEF WindowRecord

LEMMA LoadingSet ==
  ASSUME NEW w \in WindowRecord, NEW x \in BOOLEAN
  PROVE  LET u == [w EXCEPT !.loading = x] IN
         /\ u \in WindowRecord /\ u.loading = x /\ u.active = w.active /\ u.start = w.start
         /\ u.posted = w.posted /\ u.saved = w.saved /\ u.expanded = w.expanded
BY DEF WindowRecord

LEMMA PostedSet ==
  ASSUME NEW w \in WindowRecord, NEW x \in Seq(Callbacks)
  PROVE  LET u == [w EXCEPT !.posted = x] IN
         /\ u \in WindowRecord /\ u.posted = x /\ u.active = w.active /\ u.start = w.start
         /\ u.loading = w.loading /\ u.saved = w.saved /\ u.expanded = w.expanded
BY DEF WindowRecord

LEMMA SavedSet ==
  ASSUME NEW w \in WindowRecord, NEW x \in Nat
  PROVE  LET u == [w EXCEPT !.saved = x] IN
         /\ u \in WindowRecord /\ u.saved = x /\ u.active = w.active /\ u.start = w.start
         /\ u.loading = w.loading /\ u.posted = w.posted /\ u.expanded = w.expanded
BY DEF WindowRecord

LEMMA ExpandedSet ==
  ASSUME NEW w \in WindowRecord, NEW x \in SUBSET Nat
  PROVE  LET u == [w EXCEPT !.expanded = x] IN
         /\ u \in WindowRecord /\ u.expanded = x /\ u.active = w.active /\ u.start = w.start
         /\ u.loading = w.loading /\ u.posted = w.posted /\ u.saved = w.saved
BY DEF WindowRecord

\* A callback is posted.
LEMMA PostOK ==
  ASSUME NEW w \in WindowRecord, NEW c \in Callbacks
  PROVE  LET u == Post(w, c) IN
         /\ u \in WindowRecord /\ u.start = w.start /\ u.active = w.active
         /\ u.loading = w.loading /\ u.saved = w.saved /\ u.expanded = w.expanded
<1> DEFINE p == Append(w.posted, c)
           u == [w EXCEPT !.posted = p]
<1>1. w.posted \in Seq(Callbacks)
  BY DEF WindowRecord
<1>2. p \in Seq(Callbacks)
  BY <1>1, AppendProperties
<1>3. Post(w, c) = u
  BY DEF Post
<1> HIDE DEF p
<1>4. /\ u \in WindowRecord /\ u.start = w.start /\ u.active = w.active
      /\ u.loading = w.loading /\ u.saved = w.saved /\ u.expanded = w.expanded
  BY <1>2, PostedSet
<1>5. QED
  BY <1>3, <1>4

\* A sound view and what the window keeps of it make a sound screen.
LEMMA ScreenWith ==
  ASSUME NEW b, NEW v, SoundView(v, b.messages), NEW w \in WindowRecord,
         w.start \in NotDrawn..Undrawn, w.start =< Len(b.messages),
         w.expanded \subseteq 1..Len(b.messages)
  PROVE  SoundScreen([view |-> v, win |-> w], b)
<1> DEFINE s == [view |-> v, win |-> w]
<1>1. s.view = v /\ s.win = w /\ DOMAIN s = {"view", "win"} /\ s = [view |-> s.view, win |-> s.win]
  OBVIOUS
<1> HIDE DEF s
<1>2. SoundScreen(s, b)
  BY <1>1 DEF SoundScreen
<1>3. QED
  BY <1>2 DEF s

\* Redrawn, a buffer is drawn from a place in it, and not empty.
LEMMA RefreshedOK ==
  ASSUME NEW b, Drawable(b), Len(b.messages) =< MaxMessages, NEW s, SoundScreen(s, b), NEW reset
  PROVE  LET t == Refreshed(s, b, reset) IN
         SoundScreen(t, b) /\ t.win.active = s.win.active /\ NotEmpty(t, b)
<1> DEFINE total == Len(b.messages)
           x == total - Window
           first == Max({0, x})
           start == IF reset \/ s.win.start = NotDrawn THEN first ELSE s.win.start
           o == OlderLines(start)
           yes == TRUE
           r == RenderRange(b, s.win.expanded, start, total, yes)
           lines == o \o r
           bare == Clear(s.view)
           v == AppendLines(bare, lines)
           drawn == [s.win EXCEPT !.start = start]
           c == "reset"
           w == IF reset THEN Post(drawn, c) ELSE drawn
           t == [view |-> v, win |-> w]
           A == AnyLine(b.messages)
<1>1. total \in Nat /\ total =< MaxMessages /\ s.win \in WindowRecord /\ SoundView(s.view, b.messages)
      /\ c \in Callbacks
  BY DEF Drawable, SoundScreen, Callbacks
<1>2. Refreshed(s, b, reset) = t
  BY DEF Refreshed
<1>3. first \in Nat /\ first =< total /\ first =< Undrawn
  <2>1. x \in Int /\ x =< total /\ x =< MaxMessages - Window
    BY <1>1, BoundsNat
  <2> HIDE DEF x
  <2>2. first = IF x > 0 THEN x ELSE 0
    BY <2>1, MaxOfTwo
  <2>3. QED
    BY <1>1, <2>1, <2>2, UndrawnNat, BoundsNat
<1> HIDE DEF first
<1>4. start \in Nat /\ start =< total /\ start =< Undrawn
  <2>1. s.win.start \in NotDrawn..Undrawn /\ s.win.start =< total
    BY DEF SoundScreen
  <2>2. QED
    BY <1>1, <1>3, <2>1, UndrawnNat DEF NotDrawn
<1> HIDE DEF start, total, yes
<1>5. o \in Seq(NewLine(b.messages))
  BY OtherLinesOK
<1>6. r \in Seq(NewLine(b.messages)) /\ (start < total => r # <<>>)
  <2> DEFINE e == s.win.expanded
  <2> HIDE DEF e
  <2>1. total \in 0..Len(b.messages) /\ start \in Nat /\ start =< total
    BY <1>1, <1>4 DEF total
  <2>2. RenderRange(b, e, start, total, yes) \in Seq(NewLine(b.messages))
        /\ (start < total => RenderRange(b, e, start, total, yes) # <<>>)
    BY <2>1, RenderRangeOK
  <2>3. QED
    BY <2>2 DEF e
<1>7. start > 0 => o # <<>>
  BY DEF OlderLines
<1> HIDE DEF o, r
<1>8. lines \in Seq(A) /\ (total > 0 => lines # <<>>)
  <2>1. lines \in Seq(NewLine(b.messages)) /\ Len(lines) = Len(o) + Len(r)
    BY <1>5, <1>6, ConcatProperties
  <2>2. total > 0 => Len(lines) # 0
    <3>1. CASE start > 0
      BY <1>5, <1>6, <1>7, <2>1, <3>1
    <3>2. CASE ~(start > 0)
      BY <1>1, <1>4, <1>5, <1>6, <2>1, <3>2
    <3>3. QED
      BY <3>1, <3>2
  <2> HIDE DEF lines
  <2>3. Seq(NewLine(b.messages)) \subseteq Seq(A)
    BY DEF AnyLine
  <2>4. QED
    BY <2>1, <2>2, <2>3
<1> HIDE DEF lines
<1>9. SoundView(bare, b.messages)
  BY <1>1, ClearOK
<1> HIDE DEF bare
<1>10. SoundView(v, b.messages) /\ (total > 0 => v.lines # <<>>)
  BY <1>8, <1>9, AppendLinesOK
<1> HIDE DEF v
<1>11. drawn \in WindowRecord /\ drawn.start = start /\ drawn.active = s.win.active
       /\ drawn.expanded = s.win.expanded
  <2>1. start \in Int
    BY <1>4
  <2>2. QED
    BY <1>1, <2>1, StartSet
<1> HIDE DEF drawn, c
<1>12. w \in WindowRecord /\ w.start = start /\ w.active = s.win.active
       /\ w.expanded = s.win.expanded
  <2>1. CASE reset
    BY <1>1, <1>11, <2>1, PostOK
  <2>2. CASE ~reset
    BY <1>11, <2>2
  <2>3. QED
    BY <2>1, <2>2
<1> HIDE DEF w
<1>13. w.start \in NotDrawn..Undrawn /\ w.start =< Len(b.messages)
       /\ w.expanded \subseteq 1..Len(b.messages) /\ w.start # NotDrawn
  BY <1>4, <1>12, UndrawnNat DEF SoundScreen, NotDrawn, total
<1>14. SoundScreen(t, b)
  BY <1>10, <1>12, <1>13, ScreenWith
<1>15. t.view = v /\ t.win = w
  OBVIOUS
<1> HIDE DEF t
<1>16. NotEmpty(t, b)
  BY <1>10, <1>13, <1>15 DEF NotEmpty, total
<1>17. QED
  BY <1>2, <1>12, <1>14, <1>15, <1>16

\* What loading older messages keeps.
Kept(t, s, b) ==
  /\ SoundScreen(t, b) /\ t.win.active = s.win.active
  /\ (s.win.start # NotDrawn => t.win.start # NotDrawn)
  /\ (s.view.lines # <<>> => t.view.lines # <<>>)

\* What is kept of a screen that is not empty is not empty.
LEMMA KeptNotEmpty ==
  ASSUME NEW b, NEW s, NEW t, Kept(t, s, b), NotEmpty(s, b)
  PROVE  SoundScreen(t, b) /\ NotEmpty(t, b) /\ t.win.active = s.win.active
BY DEF Kept, NotEmpty

\* A screen whose window record changes.
LEMMA ScreenWin ==
  ASSUME NEW b, NEW s, SoundScreen(s, b), NEW w \in WindowRecord,
         w.start \in NotDrawn..Undrawn, w.start =< Len(b.messages),
         w.expanded \subseteq 1..Len(b.messages)
  PROVE  LET t == [s EXCEPT !.win = w] IN SoundScreen(t, b) /\ t.view = s.view /\ t.win = w
<1> DEFINE t == [s EXCEPT !.win = w]
           v == s.view
<1>1. s = [view |-> v, win |-> s.win] /\ SoundView(v, b.messages)
  BY DEF SoundScreen
<1>2. t = [view |-> v, win |-> w]
  BY <1>1
<1> HIDE DEF v, t
<1>3. SoundScreen([view |-> v, win |-> w], b)
  BY <1>1, ScreenWith
<1>4. QED
  BY <1>2, <1>3 DEF v, t

\* A screen that is not being loaded into.
LEMMA IdleScreen ==
  ASSUME NEW b, NEW s, SoundScreen(s, b)
  PROVE  LET h == [s EXCEPT !.win.loading = FALSE] IN
         Kept(h, s, b) /\ h.view = s.view
<1> DEFINE h == [s EXCEPT !.win.loading = FALSE]
           no == FALSE
           w0 == s.win
           w == [w0 EXCEPT !.loading = no]
           t == [s EXCEPT !.win = w]
<1>1. h = t /\ no \in BOOLEAN /\ w0 \in WindowRecord
  BY DEF SoundScreen
<1> HIDE DEF no, h, w0
<1>2. w \in WindowRecord /\ w.start = w0.start /\ w.active = w0.active /\ w.expanded = w0.expanded
  BY <1>1, LoadingSet
<1> HIDE DEF w
<1>3. w.start \in NotDrawn..Undrawn /\ w.start =< Len(b.messages)
      /\ w.expanded \subseteq 1..Len(b.messages)
  BY <1>2 DEF SoundScreen, w0
<1>4. SoundScreen(t, b) /\ t.view = s.view /\ t.win = w
  BY <1>2, <1>3, ScreenWin
<1> HIDE DEF t
<1>5. QED
  BY <1>1, <1>2, <1>4 DEF Kept, h, w0

\* Loading keeps.
LEMMA LoadKeeps ==
  ASSUME NEW b, Drawable(b), NEW s, SoundScreen(s, b)
  PROVE  Kept(LoadOlder(s, b), s, b)
BY LoadOlderOK DEF Kept

\* Keeping goes on.
LEMMA KeptOn ==
  ASSUME NEW b, NEW s, NEW t, NEW u, Kept(t, s, b), Kept(u, t, b)
  PROVE  Kept(u, s, b)
BY DEF Kept

\* One chunk on the way to message i.
Nearer(t, b, i) ==
  IF t.win.start < i THEN t ELSE LoadOlder([t EXCEPT !.win.loading = FALSE], b)

\* One chunk keeps.
LEMMA NearerOK ==
  ASSUME NEW b, Drawable(b), NEW t, SoundScreen(t, b), NEW i
  PROVE  Kept(Nearer(t, b, i), t, b)
<1> DEFINE h == [t EXCEPT !.win.loading = FALSE]
<1>1. Kept(h, t, b)
  BY IdleScreen
<1>2. Kept(t, t, b)
  BY DEF Kept
<1>3. Nearer(t, b, i) \in {t, LoadOlder(h, b)}
  BY DEF Nearer
<1> HIDE DEF h
<1>4. SoundScreen(h, b)
  BY <1>1 DEF Kept
<1>5. Kept(LoadOlder(h, b), h, b)
  BY <1>4, LoadKeeps
<1>6. Kept(LoadOlder(h, b), t, b)
  BY <1>1, <1>5, KeptOn
<1>7. QED
  BY <1>2, <1>3, <1>6

\* So do the chunks it takes to reach a message.
LEMMA ReachedOK ==
  ASSUME NEW b, Drawable(b), NEW s, SoundScreen(s, b), NEW i \in Nat
  PROVE  Kept(Reached(s, b, i), s, b)
<1> DEFINE V == {t \in [view : ViewRecord(b.messages), win : WindowRecord] : Kept(t, s, b)}
           at == s.win.start
           Go(t) == IF at < i THEN s ELSE Nearer(t, b, i)
           step == [a \in (1..i) \X V |-> Go(a[2])]
           Body(f) == [n \in 0..i |-> IF n = 0 THEN s ELSE Go(f[n - 1])]
           Source(f) == [n \in 0..i |->
             IF n = 0 \/ s.win.start < i THEN s
             ELSE LET t == f[n - 1]
                  IN  IF t.win.start < i THEN t ELSE LoadOlder([t EXCEPT !.win.loading = FALSE], b)]
           upTo == CHOOSE f : f = Source(f)
           same == CHOOSE f : f = Body(f)
<1>1. Reached(s, b, i) = [upTo[i] EXCEPT !.win.loading = FALSE]
  BY DEF Reached
<1>2. upTo = same
  <2>1. \A f : Source(f) = Body(f)
    <3> TAKE f
    <3>1. \A n \in 0..i : Source(f)[n] = Body(f)[n]
      BY DEF Nearer
    <3>2. QED
      BY <3>1
  <2> HIDE DEF Source, Body
  <2>2. QED
    BY <2>1
<1> HIDE DEF upTo, Source
<1>3. \A t : Kept(t, s, b) => t \in V
  BY DEF Kept, SoundScreen, SoundView
<1>4. s \in V
  BY <1>3 DEF Kept
<1>5. ASSUME NEW t \in V
      PROVE  Go(t) \in V
  <2>1. Kept(t, s, b)
    OBVIOUS
  <2>2. SoundScreen(t, b)
    BY <2>1 DEF Kept
  <2>3. Kept(Nearer(t, b, i), t, b)
    BY <2>2, NearerOK
  <2>4. Kept(Nearer(t, b, i), s, b)
    BY <2>1, <2>3, KeptOn
  <2>5. QED
    BY <1>3, <1>4, <2>4
<1>6. \A t \in V : Kept(t, s, b)
  OBVIOUS
<1> HIDE DEF V, Go
<1>7. step \in Steps(i, V)
  BY <1>5 DEF Steps
<1> HIDE DEF step
<1>8. PICK f \in [0..i -> V] : f[0] = s /\ \A n \in 1..i : f[n] = step[<<n, f[n - 1]>>]
  BY <1>4, <1>7, Computed, SMTT(60)
<1>9. \A n \in 1..i : f[n - 1] \in V /\ f[n] = Go(f[n - 1])
  <2> TAKE n \in 1..i
  <2>1. f[n - 1] \in V
    OBVIOUS
  <2>2. <<n, f[n - 1]>> \in (1..i) \X V
    BY <2>1
  <2>3. QED
    BY <1>8, <2>1, <2>2 DEF step
<1>10. f = Body(f)
  <2>1. \A n \in 0..i : f[n] = IF n = 0 THEN s ELSE Go(f[n - 1])
    BY <1>8, <1>9
  <2>2. QED
    BY <2>1
<1> HIDE DEF Body
<1>11. same = Body(same)
  BY <1>10
<1> HIDE DEF same
<1>12. same[i] \in V
  <2> DEFINE S == {n \in 0..i : same[n] \in V}
  <2>1. 0 \in S
    BY <1>4, <1>11 DEF Body
  <2>2. ASSUME NEW n \in 1..i, n - 1 \in S
        PROVE  n \in S
    <3>1. n \in 0..i /\ n # 0
      OBVIOUS
    <3>2. same[n] = Go(same[n - 1])
      BY <1>11, <3>1 DEF Body
    <3>3. QED
      BY <1>5, <2>2, <3>1, <3>2
  <2> HIDE DEF S
  <2>3. 0..i \subseteq S
    BY <2>1, <2>2, CountedUp
  <2>4. QED
    BY <2>3 DEF S
<1> DEFINE u == same[i]
           h == [u EXCEPT !.win.loading = FALSE]
<1>13. Reached(s, b, i) = h
  BY <1>1, <1>2
<1>14. Kept(u, s, b)
  BY <1>6, <1>12
<1> HIDE DEF u
<1>15. Kept(h, u, b)
  BY <1>14, IdleScreen DEF Kept
<1> HIDE DEF h
<1>16. QED
  BY <1>13, <1>14, <1>15, KeptOn

\* The line nearest to a message is one of the lines.
LEMMA NearestLineIs ==
  ASSUME NEW messages, NEW v, v.lines \in Seq(DrawnLine(messages)), v.lines # <<>>,
         NEW i \in Nat, NEW last \in Nat
  PROVE  NearestLine(v, i, last) \in 1..Len(v.lines)
<1> DEFINE n == Len(v.lines)
           line(j) == Max({FindLine(v, MsgId(j)), FindLine(v, GroupId(j))})
           drawn == {j \in 1..last : line(j) # NoLine}
           off(j) == IF j >= i THEN 2 * (j - i) ELSE 2 * (i - j) + 1
           near == CHOOSE j \in drawn : \A h \in drawn : off(j) =< off(h)
<1>1. NearestLine(v, i, last) = IF drawn = {} THEN 1 ELSE line(near)
  BY DEF NearestLine
<1>2. n \in Nat /\ 1 \in 1..n
  OBVIOUS
<1>3. \A j \in 1..last : line(j) \in 0..n
  <2> TAKE j \in 1..last
  <2> DEFINE a == MsgId(j)
             c == GroupId(j)
             S == {FindLine(v, a), FindLine(v, c)}
  <2> HIDE DEF a, c
  <2>1. FindLine(v, a) \in 0..n /\ FindLine(v, c) \in 0..n
    BY FindLineIs
  <2>2. S \in SUBSET (0..n) /\ S # {}
    BY <2>1
  <2> HIDE DEF S, n
  <2>3. Max(S) \in S
    BY <1>2, <2>2, Greatest
  <2>4. QED
    BY <2>2, <2>3 DEF S, a, c
<1> HIDE DEF line, n
<1>4. CASE drawn = {}
  BY <1>1, <1>2, <1>4 DEF n
<1>5. CASE drawn # {}
  <2> DEFINE d == [j \in drawn |-> off(j)]
  <2>1. d \in [drawn -> Nat]
    OBVIOUS
  <2>2. \A j \in drawn : d[j] = off(j)
    OBVIOUS
  <2>3. \A j \in drawn : line(j) \in 0..n /\ line(j) # 0
    BY <1>3 DEF NoLine
  <2> HIDE DEF drawn, off, d
  <2>4. PICK j \in drawn : \A h \in drawn : d[j] =< d[h]
    BY <1>5, <2>1, LeastBy
  <2>5. \A h \in drawn : off(j) =< off(h)
    BY <2>2, <2>4
  <2>6. near \in drawn
    BY <2>5
  <2> HIDE DEF near
  <2>7. QED
    BY <1>1, <1>2, <1>5, <2>3, <2>6 DEF n
<1>6. QED
  BY <1>4, <1>5

\* A message that is jumped to is drawn and marked, in a screen that is not empty.
LEMMA JumpToOK ==
  ASSUME Drawable(buffer), NEW s, SoundScreen(s, buffer), NotEmpty(s, buffer), s.win.active,
         NEW i \in 1..Messages
  PROVE  Kept(JumpTo(s, i), s, buffer)
<1> DEFINE t == Reached(s, buffer, i)
           k == NearestLine(t.view, i, Messages)
           v == SetFind(t.view, k)
           u == [t EXCEPT !.view = v]
           mm == buffer.messages
<1>1. Messages \in Nat /\ Messages = Len(mm) /\ Messages > 0 /\ i \in Nat
  BY DEF Drawable, Messages
<1>2. JumpTo(s, i) = u
  BY DEF JumpTo
<1>3. Kept(t, s, buffer)
  BY <1>1, ReachedOK
<1>4. t.view.lines # <<>>
  BY <1>1, <1>3 DEF Kept, NotEmpty
<1> HIDE DEF t, mm
<1>5. SoundScreen(t, buffer) /\ SoundView(t.view, mm) /\ t.view.lines \in Seq(DrawnLine(mm))
  BY <1>3 DEF Kept, SoundScreen, mm, SoundView, ViewRecord
<1> DEFINE last == Messages
           tv == t.view
<1>6. last \in Nat /\ tv.lines \in Seq(DrawnLine(mm)) /\ tv.lines # <<>>
  BY <1>1, <1>4, <1>5
<1> HIDE DEF last, tv
<1>7. NearestLine(tv, i, last) \in 1..Len(tv.lines)
  BY <1>1, <1>6, NearestLineIs
<1>8. k \in 1..Len(t.view.lines)
  BY <1>7 DEF last, tv
<1> HIDE DEF k
<1>9. SoundView(v, mm) /\ v.lines = t.view.lines
  BY <1>5, <1>8, SetFindOK
<1> HIDE DEF v
<1>10. SoundScreen(u, buffer) /\ u.view = v /\ u.win = t.win
  BY <1>5, <1>9, ScreenOf, ZenonT(60) DEF mm
<1> HIDE DEF u
<1>11. QED
  BY <1>2, <1>3, <1>9, <1>10 DEF Kept

\* A view filled up keeps.
LEMMA MoreIfEmptyOK ==
  ASSUME Drawable(buffer), NEW s, SoundScreen(s, buffer)
  PROVE  Kept(MoreIfEmpty(s), s, buffer)
<1> DEFINE b == buffer
<1>1. Drawable(b) /\ SoundScreen(s, b) /\ MoreIfEmpty(s) \in {s, LoadOlder(s, b)}
  BY DEF MoreIfEmpty
<1> HIDE DEF b
<1>2. Kept(LoadOlder(s, b), s, b)
  BY <1>1, LoadKeeps
<1>3. Kept(s, s, b)
  BY <1>1 DEF Kept
<1>4. QED
  BY <1>1, <1>2, <1>3 DEF b

\* So does one whose place is restored.
LEMMA AfterResetOK ==
  ASSUME NEW b, NEW s, SoundScreen(s, b)
  PROVE  Kept(AfterReset(s), s, b)
<1> DEFINE place == s.win.saved
           there == IF place # NoPlace THEN SetValue(s.view, place) ELSE ScrollToBottom(s.view)
           none == NoPlace
           w0 == s.win
           w == [w0 EXCEPT !.saved = none]
           t == [view |-> there, win |-> w]
           u == [s EXCEPT !.win = w]
           mm == b.messages
<1>1. AfterReset(s) \in {t, u}
  BY DEF AfterReset
<1>2. s.view = s.view /\ SoundView(s.view, mm) /\ w0 \in WindowRecord /\ none \in Nat /\ place \in Int
  BY DEF SoundScreen, WindowRecord, NoPlace
<1> HIDE DEF mm, none, w0
<1>3. SoundView(there, mm) /\ there.lines = s.view.lines
  <2>1. SoundView(SetValue(s.view, place), mm) /\ SetValue(s.view, place).lines = s.view.lines
    <3> HIDE DEF place
    <3>1. QED
      BY <1>2, SetValueOK DEF SameLines
  <2>2. SoundView(ScrollToBottom(s.view), mm) /\ ScrollToBottom(s.view).lines = s.view.lines
    BY <1>2, ScrolledOK
  <2> HIDE DEF place
  <2>3. QED
    BY <2>1, <2>2
<1> HIDE DEF there
<1>4. w \in WindowRecord /\ w.start = w0.start /\ w.active = w0.active /\ w.expanded = w0.expanded
  BY <1>2, SavedSet
<1> HIDE DEF w
<1>5. w.start \in NotDrawn..Undrawn /\ w.start =< Len(b.messages)
      /\ w.expanded \subseteq 1..Len(b.messages)
  BY <1>4 DEF SoundScreen, w0
<1>6. SoundScreen(u, b) /\ u.view = s.view /\ u.win = w
  BY <1>4, <1>5, ScreenWin
<1>7. SoundScreen(t, b)
  BY <1>3, <1>4, <1>5, ScreenWith DEF mm
<1>8. t.view = there /\ t.win = w
  OBVIOUS
<1> HIDE DEF t, u
<1>9. QED
  BY <1>1, <1>3, <1>4, <1>6, <1>7, <1>8 DEF Kept, w0

\* A buffer as it may be.
BufferRecord ==
  [messages : Seq(Said), reactions : SUBSET Nat, redacted : SUBSET Nat,
   cards : SUBSET LinksSaid, hidden : SUBSET LinksSaid]

\* Its marks are on messages that it has.
BufferOK(b) ==
  /\ b \in BufferRecord /\ Len(b.messages) =< MaxMessages
  /\ b.reactions \cup b.redacted \subseteq 1..Len(b.messages)

\* A sound screen that is not empty, and one whose view has been answered.
ScreenOK(s, b) == SoundScreen(s, b) /\ NotEmpty(s, b)
AtRest(s, b) == ScreenOK(s, b) /\ ~s.view.asks /\ Len(s.win.posted) =< MaxPosted

\* The inductive invariant: a buffer, a sound screen of it, and what is waited for.
WindowInd ==
  /\ BufferOK(buffer) /\ AtRest(Screen, buffer)
  /\ awaited \in [LinksSaid -> 0..Messages]
  /\ acts \in 0..MaxActs

\* Such a buffer can be drawn.
LEMMA CanDraw ==
  ASSUME NEW b, BufferOK(b)
  PROVE  Drawable(b) /\ Len(b.messages) =< MaxMessages
BY DEF BufferOK, BufferRecord, Drawable

\* A screen is sound for the messages only.
LEMMA SameMessages ==
  ASSUME NEW b, NEW c, c.messages = b.messages, NEW s
  PROVE  /\ SoundScreen(s, b) => SoundScreen(s, c)
         /\ NotEmpty(s, b) => NotEmpty(s, c)
BY DEF SoundScreen, NotEmpty

\* What the screen is made of.
LEMMA TheScreen == Screen.view = view /\ Screen.win = win
BY DEF Screen

\* What is shown is settled.
LEMMA ShowsOK ==
  ASSUME NEW b, Drawable(b), NEW s, ScreenOK(s, b), Shows(s, b)
  PROVE  AtRest(Screen', b)
<1> DEFINE t == Answered(s, b)
<1>1. /\ SoundScreen(t, b) /\ ~t.view.asks /\ NotEmpty(t, b)
  BY AnsweredOK DEF ScreenOK
<1>2. Len(t.win.posted) =< MaxPosted /\ view' = t.view /\ win' = t.win
  BY DEF Shows
<1> HIDE DEF t
<1>3. t = [view |-> t.view, win |-> t.win]
  BY <1>1 DEF SoundScreen
<1>4. Screen' = t
  BY <1>2, <1>3 DEF Screen
<1>5. QED
  BY <1>1, <1>2, <1>4 DEF AtRest, ScreenOK

\* A view that changes and is not emptied.
LEMMA ViewBecomesOK ==
  ASSUME NEW b, Drawable(b), ScreenOK(Screen, b), NEW v, SoundView(v, b.messages),
         view.lines # <<>> => v.lines # <<>>, ViewBecomes(v, b)
  PROVE  AtRest(Screen', b)
<1> DEFINE s == [view |-> v, win |-> win]
<1>1. SoundScreen(Screen, b) /\ NotEmpty(Screen, b) /\ Screen.view = view /\ Screen.win = win
  BY TheScreen DEF ScreenOK
<1>2. /\ win \in WindowRecord /\ win.start \in NotDrawn..Undrawn /\ win.start =< Len(b.messages)
      /\ win.expanded \subseteq 1..Len(b.messages)
  BY <1>1 DEF SoundScreen
<1>3. SoundScreen(s, b)
  BY <1>2, ScreenWith
<1>4. s.view = v /\ s.win = win
  OBVIOUS
<1>5. Shows(s, b)
  BY DEF ViewBecomes
<1> HIDE DEF s
<1>6. NotEmpty(s, b)
  BY <1>1, <1>4 DEF NotEmpty
<1>7. QED
  BY <1>3, <1>5, <1>6, ShowsOK DEF ScreenOK

\* The buffer on screen, or come to the screen.
LEMMA ShownScreen ==
  ASSUME NEW b, NEW s, SoundScreen(s, b)
  PROVE  LET t == [s EXCEPT !.win.active = TRUE] IN SoundScreen(t, b) /\ t.win.active
<1> DEFINE yes == TRUE
           w0 == s.win
           w == [w0 EXCEPT !.active = yes]
           t == [s EXCEPT !.win = w]
           u == [s EXCEPT !.win.active = TRUE]
<1>1. u = t /\ yes \in BOOLEAN /\ w0 \in WindowRecord
  BY DEF SoundScreen
<1> HIDE DEF yes, w0, u
<1>2. w \in WindowRecord /\ w.active = yes /\ w.start = w0.start /\ w.expanded = w0.expanded
  BY <1>1, ActiveSet
<1> HIDE DEF w
<1>3. w.start \in NotDrawn..Undrawn /\ w.start =< Len(b.messages)
      /\ w.expanded \subseteq 1..Len(b.messages)
  BY <1>2 DEF SoundScreen, w0
<1>4. SoundScreen(t, b) /\ t.win = w
  BY <1>2, <1>3, ScreenWin
<1> HIDE DEF t
<1>5. QED
  BY <1>1, <1>2, <1>4 DEF u, yes

\* A message joins those of a buffer.
LEMMA ScreenWithMore ==
  ASSUME NEW b, BufferOK(b), Len(b.messages) < MaxMessages, NEW m \in Said,
         NEW s, SoundScreen(s, b)
  PROVE  LET c == [b EXCEPT !.messages = Append(@, m)] IN
         /\ BufferOK(c) /\ SoundScreen(s, c) /\ Len(c.messages) = Len(b.messages) + 1
         /\ c.cards = b.cards /\ c.messages = Append(b.messages, m)
<1> DEFINE more == Append(b.messages, m)
           c == [b EXCEPT !.messages = more]
           d == [b EXCEPT !.messages = Append(@, m)]
<1>1. b \in BufferRecord /\ b.messages \in Seq(Said) /\ Len(b.messages) \in Nat
  BY DEF BufferOK, BufferRecord
<1>2. d = c
  OBVIOUS
<1>3. more \in Seq(Said) /\ Len(more) = Len(b.messages) + 1
  BY <1>1, AppendProperties
<1>4. SoundView(s.view, more)
  BY <1>1, SoundWithMore DEF SoundScreen
<1> HIDE DEF more, d
<1>5. /\ c \in BufferRecord /\ c.messages = more /\ c.cards = b.cards
      /\ c.reactions = b.reactions /\ c.redacted = b.redacted
  BY <1>1, <1>3 DEF BufferRecord
<1> HIDE DEF c
<1>6. MaxMessages \in Nat
  BY BoundsNat
<1>7. BufferOK(c)
  BY <1>1, <1>3, <1>5, <1>6 DEF BufferOK
<1>8. SoundScreen(s, c)
  BY <1>1, <1>3, <1>4, <1>5, UndrawnNat DEF SoundScreen, NotDrawn
<1>9. QED
  BY <1>2, <1>3, <1>5, <1>7, <1>8 DEF d, more

\* An act is counted.
LEMMA ActsBound ==
  ASSUME WindowInd, Acts
  PROVE  acts' \in 0..MaxActs
BY BoundsNat DEF WindowInd, Acts

\* What is left to show when only the screen changes.
LEMMA RestKept ==
  ASSUME WindowInd, UNCHANGED <<buffer, awaited>>, acts' \in 0..MaxActs, AtRest(Screen', buffer)
  PROVE  WindowInd'
BY DEF WindowInd, Messages

\* What the invariant says, in the terms of the lemmas.
LEMMA OfInd ==
  ASSUME WindowInd
  PROVE  /\ BufferOK(buffer) /\ Drawable(buffer) /\ Len(buffer.messages) =< MaxMessages
         /\ ScreenOK(Screen, buffer) /\ SoundScreen(Screen, buffer) /\ NotEmpty(Screen, buffer)
         /\ SoundView(view, buffer.messages) /\ win \in WindowRecord
         /\ win.start \in NotDrawn..Undrawn /\ win.start =< Len(buffer.messages)
         /\ win.expanded \subseteq 1..Len(buffer.messages)
         /\ Messages \in Nat /\ Messages = Len(buffer.messages)
<1>1. BufferOK(buffer) /\ SoundScreen(Screen, buffer) /\ NotEmpty(Screen, buffer)
  BY DEF WindowInd, AtRest, ScreenOK
<1>2. Drawable(buffer) /\ Len(buffer.messages) =< MaxMessages
  BY <1>1, CanDraw
<1>3. QED
  BY <1>1, <1>2, TheScreen DEF SoundScreen, ScreenOK, Messages, Drawable

-----------------------------------------------------------------------------
(* One lemma for each action.                                              *)

\* An act on a view that changes and is not emptied.
LEMMA OnViewOK ==
  ASSUME WindowInd, InView, NEW v, SoundView(v, buffer.messages),
         view.lines # <<>> => v.lines # <<>>, ViewBecomes(v, buffer)
  PROVE  WindowInd'
<1>1. AtRest(Screen', buffer)
  BY OfInd, ViewBecomesOK
<1>2. acts' \in 0..MaxActs /\ UNCHANGED <<buffer, awaited>>
  BY ActsBound DEF InView
<1>3. QED
  BY <1>1, <1>2, RestKept

LEMMA ReceiveOK ==
  ASSUME WindowInd, NEW m \in Said, Receive(m)
  PROVE  WindowInd'
<1> DEFINE c == [buffer EXCEPT !.messages = Append(@, m)]
           n == Len(buffer.messages)
<1>1. buffer' = c /\ Messages < MaxMessages /\ Acts
  BY DEF Receive
<1>2. n \in Nat /\ n < MaxMessages /\ BufferOK(buffer) /\ SoundScreen(Screen, buffer)
      /\ Drawable(buffer) /\ Messages = n
  BY <1>1, OfInd
<1>3. /\ BufferOK(c) /\ SoundScreen(Screen, c) /\ Len(c.messages) = n + 1
      /\ c.cards = buffer.cards
  BY <1>2, ScreenWithMore
<1>4. acts' \in 0..MaxActs
  BY <1>1, ActsBound
<1>5. Messages' = n + 1
  BY <1>1, <1>3 DEF Messages
<1> HIDE DEF c
<1>6. awaited \in [LinksSaid -> 0..n]
  BY <1>2 DEF WindowInd
<1>7. CASE ~win.active
  <2>1. UNCHANGED <<view, win, awaited>>
    BY <1>7 DEF Receive
  <2>2. Screen' = Screen
    BY <2>1 DEF Screen
  <2>3. NotEmpty(Screen, c)
    BY <1>7, TheScreen DEF NotEmpty
  <2>4. ~view.asks /\ Len(win.posted) =< MaxPosted
    BY TheScreen DEF WindowInd, AtRest
  <2>5. AtRest(Screen, c)
    BY <1>3, <2>3, <2>4, TheScreen DEF AtRest, ScreenOK
  <2>6. awaited' \in [LinksSaid -> 0..n + 1]
    <3>1. 0..n \subseteq 0..n + 1
      BY <1>2
    <3>2. QED
      BY <1>6, <2>1, <3>1
  <2>7. QED
    BY <1>1, <1>3, <1>4, <1>5, <2>2, <2>5, <2>6 DEF WindowInd
<1>8. CASE win.active
  <2> DEFINE e == win.expanded
             shown == ShowMessage(view, buffer', e)
             u == m.link
             v == WithCard(shown, buffer, u)
             mm == c.messages
  <2>1. ViewBecomes(v, buffer') /\ awaited' = AskedFor(buffer, m.link, Messages')
    BY <1>8 DEF Receive
  <2>2. Drawable(c) /\ Len(mm) > 0
    BY <1>2, <1>3, CanDraw
  <2>3. SoundView(view, mm)
    BY <1>3, TheScreen DEF SoundScreen
  <2> HIDE DEF e
  <2>4. SoundView(shown, mm) /\ shown.lines # <<>>
    BY <1>1, <2>2, <2>3, ShowMessageOK
  <2> HIDE DEF shown, mm, u
  <2>5. buffer.cards \subseteq LinksSaid
    BY <1>2 DEF Drawable
  <2>6. SoundView(v, mm) /\ v.lines # <<>>
    BY <2>4, <2>5, WithCardOK
  <2> HIDE DEF v
  <2>7. NotEmpty(Screen, buffer) => win.start # NotDrawn
    BY <1>8, TheScreen DEF NotEmpty
  <2>8. win.start # NotDrawn
    BY <2>7, OfInd
  <2> DEFINE s == [view |-> v, win |-> win]
  <2>9. SoundScreen(s, c)
    <3>1. /\ win \in WindowRecord /\ win.start \in NotDrawn..Undrawn /\ win.start =< Len(c.messages)
          /\ win.expanded \subseteq 1..Len(c.messages)
      BY <1>3, TheScreen DEF SoundScreen
    <3>2. QED
      BY <2>6, <3>1, ScreenWith DEF mm
  <2>10. s.view = v /\ s.win = win
    OBVIOUS
  <2>11. Shows(s, c)
    BY <1>1, <2>1 DEF ViewBecomes
  <2> HIDE DEF s
  <2>12. ScreenOK(s, c)
    BY <2>6, <2>8, <2>9, <2>10 DEF NotEmpty, ScreenOK
  <2>13. AtRest(Screen', c)
    BY <2>2, <2>11, <2>12, ShowsOK
  <2>14. awaited' \in [LinksSaid -> 0..n + 1]
    <3>1. awaited' = AskedFor(buffer, m.link, n + 1)
      BY <1>5, <2>1
    <3>2. 0..n \subseteq 0..n + 1 /\ n + 1 \in 0..n + 1
      BY <1>2
    <3>3. QED
      BY <1>6, <3>1, <3>2 DEF AskedFor
  <2>15. QED
    BY <1>1, <1>3, <1>4, <1>5, <2>13, <2>14 DEF WindowInd
<1>9. QED
  BY <1>7, <1>8

LEMMA CardStoredOK ==
  ASSUME WindowInd, NEW u \in LinksSaid, CardStored(u)
  PROVE  WindowInd'
<1> DEFINE c == [buffer EXCEPT !.cards = @ \cup {u}]
           i == awaited[u]
           v == IF win.active THEN ShowCard(view, u, i) ELSE view
           mm == buffer.messages
<1>1. buffer' = c /\ ViewBecomes(v, c) /\ awaited' = [awaited EXCEPT ![u] = 0] /\ acts' = acts
  BY DEF CardStored
<1>2. buffer \in BufferRecord /\ BufferOK(buffer)
  BY OfInd DEF BufferOK
<1>3. /\ c \in BufferRecord /\ c.messages = buffer.messages /\ c.reactions = buffer.reactions
      /\ c.redacted = buffer.redacted
  BY <1>2 DEF BufferRecord
<1> HIDE DEF c, i
<1>4. BufferOK(c)
  BY <1>2, <1>3 DEF BufferOK
<1>5. ScreenOK(Screen, c)
  BY <1>3, SameMessages, OfInd DEF ScreenOK
<1>6. SoundView(v, mm) /\ (view.lines # <<>> => v.lines # <<>>)
  <2>1. SoundView(view, mm)
    BY OfInd
  <2> HIDE DEF mm
  <2>2. SoundView(ShowCard(view, u, i), mm) /\ ShowCard(view, u, i).lines # <<>>
    BY <2>1, ShowCardOK
  <2>3. QED
    BY <2>1, <2>2
<1> HIDE DEF v
<1>7. AtRest(Screen', c)
  BY <1>1, <1>3, <1>4, <1>5, <1>6, CanDraw, ViewBecomesOK
<1>8. Messages' = Messages /\ Messages \in Nat
  BY <1>1, <1>3, OfInd DEF Messages
<1>9. awaited' \in [LinksSaid -> 0..Messages]
  BY <1>1, <1>8 DEF WindowInd
<1>10. QED
  BY <1>1, <1>4, <1>7, <1>8, <1>9 DEF WindowInd

LEMMA CardGivenUpOK ==
  ASSUME WindowInd, NEW u \in LinksSaid, CardGivenUp(u)
  PROVE  WindowInd'
<1>1. UNCHANGED <<buffer, view, win, acts>> /\ awaited' = [awaited EXCEPT ![u] = 0]
  BY DEF CardGivenUp
<1>2. Screen' = Screen /\ Messages' = Messages /\ Messages \in Nat
  BY <1>1, OfInd DEF Screen, Messages
<1>3. awaited' \in [LinksSaid -> 0..Messages]
  BY <1>1, <1>2 DEF WindowInd
<1>4. QED
  BY <1>1, <1>2, <1>3 DEF WindowInd

\* A buffer whose messages stay, and a view of it that changes and is not emptied.
LEMMA MarkedOK ==
  ASSUME WindowInd, BufferOK(buffer'), buffer'.messages = buffer.messages, Acts,
         NEW v, SoundView(v, buffer.messages), view.lines # <<>> => v.lines # <<>>,
         ViewBecomes(v, buffer'), UNCHANGED awaited
  PROVE  WindowInd'
<1> DEFINE c == buffer'
<1>1. BufferOK(c) /\ c.messages = buffer.messages /\ ViewBecomes(v, c) /\ c = buffer'
  OBVIOUS
<1> HIDE DEF c
<1>2. ScreenOK(Screen, c)
  BY <1>1, SameMessages, OfInd DEF ScreenOK
<1>3. AtRest(Screen', c)
  BY <1>1, <1>2, CanDraw, ViewBecomesOK
<1>4. acts' \in 0..MaxActs /\ Messages' = Messages
  BY <1>1, ActsBound DEF Messages
<1>5. QED
  BY <1>1, <1>3, <1>4 DEF WindowInd

LEMMA ReactOK ==
  ASSUME WindowInd, NEW i \in 1..Messages, React(i)
  PROVE  WindowInd'
<1> DEFINE c == buffer'
           v == IF win.active THEN ShowReactions(view, c, i) ELSE view
           mm == buffer.messages
<1>1. /\ c = [buffer EXCEPT !.reactions = @ \cup {i}] /\ ViewBecomes(v, c) /\ Acts
      /\ UNCHANGED awaited
  BY DEF React
<1>2. buffer \in BufferRecord /\ BufferOK(buffer) /\ i \in 1..Len(mm) /\ i \in Nat
  BY OfInd DEF BufferOK
<1>3. /\ c \in BufferRecord /\ c.messages = mm /\ c.redacted = buffer.redacted
      /\ c.reactions = buffer.reactions \cup {i}
  BY <1>1, <1>2 DEF BufferRecord
<1>4. BufferOK(c)
  BY <1>2, <1>3 DEF BufferOK
<1>5. SoundView(v, mm) /\ (view.lines # <<>> => v.lines # <<>>)
  <2>1. SoundView(view, mm)
    BY OfInd
  <2> HIDE DEF mm, c
  <2>2. SoundView(ShowReactions(view, c, i), mm)
        /\ (view.lines # <<>> => ShowReactions(view, c, i).lines # <<>>)
    BY <1>2, <2>1, ShowReactionsOK
  <2>3. QED
    BY <2>1, <2>2
<1> HIDE DEF v
<1>6. QED
  BY <1>1, <1>3, <1>4, <1>5, MarkedOK

LEMMA RedactOK ==
  ASSUME WindowInd, NEW i \in 1..Messages, Redact(i)
  PROVE  WindowInd'
<1> DEFINE c == buffer'
           v == IF win.active THEN ShowRedacted(view, c, i) ELSE view
           mm == buffer.messages
<1>1. /\ c = [buffer EXCEPT !.redacted = @ \cup {i}] /\ ViewBecomes(v, c) /\ Acts
      /\ UNCHANGED awaited
  BY DEF Redact
<1>2. buffer \in BufferRecord /\ BufferOK(buffer) /\ i \in 1..Len(mm) /\ i \in Nat
  BY OfInd DEF BufferOK
<1>3. /\ c \in BufferRecord /\ c.messages = mm /\ c.reactions = buffer.reactions
      /\ c.redacted = buffer.redacted \cup {i}
  BY <1>1, <1>2 DEF BufferRecord
<1>4. BufferOK(c)
  BY <1>2, <1>3 DEF BufferOK
<1>5. SoundView(v, mm) /\ (view.lines # <<>> => v.lines # <<>>)
  <2>1. SoundView(view, mm)
    BY OfInd
  <2>2. SoundView(view, c.messages)
    BY <1>3, <2>1
  <2> HIDE DEF mm, c
  <2>3. SoundView(ShowRedacted(view, c, i), c.messages)
        /\ (view.lines # <<>> => ShowRedacted(view, c, i).lines # <<>>)
    BY <1>2, <2>2, ShowRedactedOK
  <2>4. QED
    BY <1>3, <2>1, <2>3
<1> HIDE DEF v
<1>6. QED
  BY <1>1, <1>3, <1>4, <1>5, MarkedOK

LEMMA HideOrShowOK ==
  ASSUME WindowInd, NEW u \in LinksSaid, HideOrShow(u)
  PROVE  WindowInd'
<1> DEFINE c == buffer'
           mm == buffer.messages
           yes == TRUE
           s == Refreshed(Screen, c, yes)
<1>1. /\ c = [buffer EXCEPT !.hidden = IF u \in @ THEN @ \ {u} ELSE @ \cup {u}]
      /\ Shows(s, c) /\ Acts /\ UNCHANGED awaited
  BY DEF HideOrShow
<1>2. buffer \in BufferRecord /\ BufferOK(buffer)
  BY OfInd DEF BufferOK
<1>3. /\ c \in BufferRecord /\ c.messages = mm /\ c.reactions = buffer.reactions
      /\ c.redacted = buffer.redacted
  BY <1>1, <1>2 DEF BufferRecord
<1>4. BufferOK(c) /\ c = buffer'
  BY <1>2, <1>3 DEF BufferOK
<1> HIDE DEF c, mm, yes
<1>5. SoundScreen(Screen, c) /\ Drawable(c) /\ Len(c.messages) =< MaxMessages
  BY <1>3, <1>4, CanDraw, OfInd, SameMessages DEF mm
<1>6. SoundScreen(s, c) /\ NotEmpty(s, c)
  BY <1>5, RefreshedOK
<1> HIDE DEF s
<1>7. AtRest(Screen', c)
  BY <1>1, <1>5, <1>6, ShowsOK DEF ScreenOK
<1>8. acts' \in 0..MaxActs /\ Messages' = Messages
  BY <1>1, <1>3, <1>4, ActsBound DEF Messages, mm
<1>9. QED
  BY <1>1, <1>4, <1>7, <1>8 DEF WindowInd

\* What is drawn anew is settled when it is shown.
LEMMA RedrawnOK ==
  ASSUME WindowInd, NEW s, SoundScreen(s, buffer), NEW reset,
         Shows(Refreshed(s, buffer, reset), buffer), UNCHANGED <<buffer, awaited>>, Acts
  PROVE  WindowInd'
<1> DEFINE t == Refreshed(s, buffer, reset)
           b == buffer
<1>1. Drawable(b) /\ Len(b.messages) =< MaxMessages
  BY OfInd
<1> HIDE DEF b
<1>2. SoundScreen(Refreshed(s, b, reset), b) /\ NotEmpty(Refreshed(s, b, reset), b)
  BY <1>1, RefreshedOK DEF b
<1>3. ScreenOK(t, b)
  BY <1>2 DEF ScreenOK, b
<1> HIDE DEF t
<1>4. AtRest(Screen', b)
  BY <1>1, <1>3, ShowsOK DEF t, b
<1>5. QED
  BY <1>4, ActsBound, RestKept DEF b

LEMMA SwitchHereOK ==
  ASSUME WindowInd, SwitchHere
  PROVE  WindowInd'
<1> DEFINE s == [Screen EXCEPT !.win.active = TRUE]
           yes == TRUE
<1>1. Shows(Refreshed(s, buffer, yes), buffer) /\ UNCHANGED <<buffer, awaited>> /\ Acts
  BY DEF SwitchHere
<1>2. SoundScreen(s, buffer)
  BY OfInd, ShownScreen
<1> HIDE DEF s, yes
<1>3. QED
  BY <1>1, <1>2, RedrawnOK

LEMMA RestyleOK ==
  ASSUME WindowInd, Restyle
  PROVE  WindowInd'
<1> DEFINE no == FALSE
<1>1. Shows(Refreshed(Screen, buffer, no), buffer) /\ UNCHANGED <<buffer, awaited>> /\ Acts
  BY DEF Restyle, InView
<1>2. SoundScreen(Screen, buffer)
  BY OfInd
<1> HIDE DEF no
<1>3. QED
  BY <1>1, <1>2, RedrawnOK

LEMMA SwitchAwayOK ==
  ASSUME WindowInd, SwitchAway
  PROVE  WindowInd'
<1> DEFINE no == FALSE
           n == IF IsAtBottom(view) THEN NoPlace ELSE view.value
           v == Clear(view)
           w1 == [win EXCEPT !.active = no]
           w == [w1 EXCEPT !.saved = n]
           s == [view |-> v, win |-> w]
<1>1. Shows(s, buffer) /\ UNCHANGED <<buffer, awaited>> /\ Acts
  <2>1. w = [win EXCEPT !.active = FALSE,
               !.saved = IF IsAtBottom(view) THEN NoPlace ELSE view.value]
    BY OfInd DEF WindowRecord
  <2>2. QED
    BY <2>1 DEF SwitchAway, InView
<1>2. no \in BOOLEAN /\ n \in Nat /\ win \in WindowRecord /\ SoundView(view, buffer.messages)
  BY OfInd DEF SoundView, ViewRecord, NoPlace
<1> DEFINE mm == buffer.messages
<1> HIDE DEF no, n, mm
<1>3. SoundView(v, mm)
  BY <1>2, ClearOK DEF mm
<1> HIDE DEF v
<1>4. w1 \in WindowRecord /\ w1.active = no /\ w1.start = win.start /\ w1.expanded = win.expanded
  BY <1>2, ActiveSet
<1> HIDE DEF w1
<1>5. w \in WindowRecord /\ w.active = no /\ w.start = win.start /\ w.expanded = win.expanded
  <2>1. w \in WindowRecord /\ w.active = w1.active /\ w.start = w1.start /\ w.expanded = w1.expanded
    BY <1>2, <1>4, SavedSet
  <2>2. QED
    BY <1>4, <2>1
<1> HIDE DEF w
<1>6. SoundScreen(s, buffer)
  <2>1. w.start \in NotDrawn..Undrawn /\ w.start =< Len(buffer.messages)
        /\ w.expanded \subseteq 1..Len(buffer.messages)
    BY <1>5, OfInd
  <2>2. QED
    BY <1>3, <1>5, <2>1, ScreenWith DEF mm
<1>7. s.win = w
  OBVIOUS
<1> HIDE DEF s
<1>8. ScreenOK(s, buffer)
  BY <1>5, <1>6, <1>7 DEF ScreenOK, NotEmpty, no
<1>9. AtRest(Screen', buffer)
  BY <1>1, <1>8, OfInd, ShowsOK
<1>10. QED
  BY <1>1, <1>9, ActsBound, RestKept

LEMMA ToggleOK ==
  ASSUME WindowInd, NEW k \in DOMAIN view.lines, Toggle(k)
  PROVE  WindowInd'
<1> DEFINE i == view.lines[k].id[2]
           e == IF i \in win.expanded THEN win.expanded \ {i} ELSE win.expanded \cup {i}
           v == ShowToggled(view, buffer, e, i)
           w == [win EXCEPT !.expanded = e]
           s == [view |-> v, win |-> w]
           mm == buffer.messages
<1>1. Shows(s, buffer) /\ UNCHANGED <<buffer, awaited>> /\ Acts /\ view.lines[k].id[1] = "evgrp"
      /\ win.active
  BY DEF Toggle, InView
<1>2. i \in Events(mm)
  <2>1. view.lines[k] \in DrawnLine(mm)
    BY OfInd DEF SoundView, ViewRecord
  <2>2. view.lines[k].id \in LineIds(mm)
    BY <2>1 DEF DrawnLine
  <2>3. PICK j \in {j \in 1..Len(mm) : Condensable(mm[j])} : view.lines[k].id = GroupId(j)
    <3> DEFINE id == view.lines[k].id
    <3>1. id # NoId /\ id # OlderId
      BY <1>1 DEF NoId, OlderId
    <3>2. id \notin {MsgId(x) : x \in Nat} /\ id \notin {RowId(x) : x \in Nat}
      BY <1>1 DEF MsgId, RowId
    <3>3. id \notin {CardId(u) : u \in LinksSaid}
      BY <1>1 DEF CardId
    <3> HIDE DEF id
    <3>4. QED
      BY <2>2, <3>1, <3>2, <3>3 DEF LineIds, id
  <2>4. i = j
    BY <2>3 DEF GroupId
  <2>5. QED
    BY <2>3, <2>4 DEF Events
<1>3. SoundView(view, mm) /\ Drawable(buffer) /\ win \in WindowRecord /\ Messages = Len(mm)
      /\ win.expanded \subseteq 1..Len(mm)
  BY OfInd
<1>4. e \in SUBSET (1..Len(mm)) /\ e \in SUBSET Nat
  BY <1>2, <1>3 DEF Events
<1> HIDE DEF i, e
<1>5. SoundView(v, mm) /\ (view.lines # <<>> => v.lines # <<>>)
  BY <1>2, <1>3, ShowToggledOK
<1> HIDE DEF v, mm
<1>6. w \in WindowRecord /\ w.expanded = e /\ w.active = win.active /\ w.start = win.start
  BY <1>3, <1>4, ExpandedSet
<1> HIDE DEF w
<1>7. SoundScreen(s, buffer)
  <2>1. w.start \in NotDrawn..Undrawn /\ w.start =< Len(buffer.messages)
        /\ w.expanded \subseteq 1..Len(buffer.messages)
    BY <1>4, <1>6, OfInd DEF mm
  <2>2. QED
    BY <1>5, <1>6, <2>1, ScreenWith DEF mm
<1>8. s.win = w /\ s.view = v
  OBVIOUS
<1> HIDE DEF s
<1>9. NotEmpty(Screen, buffer)
  BY OfInd
<1>10. ScreenOK(s, buffer)
  BY <1>5, <1>6, <1>7, <1>8, <1>9, TheScreen DEF ScreenOK, NotEmpty
<1>11. AtRest(Screen', buffer)
  BY <1>1, <1>3, <1>10, ShowsOK
<1>12. QED
  BY <1>1, <1>11, ActsBound, RestKept

LEMMA ScrollOK ==
  ASSUME WindowInd, NEW rows \in {-1, 1}, Scroll(rows)
  PROVE  WindowInd'
<1> DEFINE mm == buffer.messages
           v == Wheel(view, rows)
<1>1. InView /\ ViewBecomes(v, buffer) /\ SoundView(view, mm) /\ rows \in Int
  BY OfInd DEF Scroll
<1> HIDE DEF mm
<1>2. SoundView(v, mm) /\ v.lines = view.lines
  BY <1>1, WheelOK
<1> HIDE DEF v
<1>3. QED
  BY <1>1, <1>2, OnViewOK DEF mm

LEMMA DragOK ==
  ASSUME WindowInd, NEW value \in 0..view.max, Drag(value)
  PROVE  WindowInd'
<1> DEFINE mm == buffer.messages
           v == SetValue(view, value)
<1>1. InView /\ ViewBecomes(v, buffer) /\ SoundView(view, mm) /\ value \in Int
  BY OfInd DEF Drag
<1> HIDE DEF mm
<1>2. SoundView(v, mm) /\ v.lines = view.lines
  BY <1>1, SetValueOK DEF SameLines
<1> HIDE DEF v
<1>3. QED
  BY <1>1, <1>2, OnViewOK DEF mm

LEMMA TouchOK ==
  ASSUME WindowInd, Touch
  PROVE  WindowInd'
<1> DEFINE mm == buffer.messages
           v == AwayFromBottom([view EXCEPT !.away = TRUE, !.atEnd = FALSE], TRUE)
<1>1. InView /\ ViewBecomes(v, buffer) /\ SoundView(view, mm)
  BY OfInd DEF Touch
<1> HIDE DEF mm
<1>2. SoundView(v, mm) /\ v.lines = view.lines
  BY <1>1, LeftOK
<1> HIDE DEF v
<1>3. QED
  BY <1>1, <1>2, OnViewOK DEF mm

LEMMA JumpToBottomOK ==
  ASSUME WindowInd, JumpToBottom
  PROVE  WindowInd'
<1> DEFINE mm == buffer.messages
           v == ScrollToBottom(view)
<1>1. InView /\ ViewBecomes(v, buffer) /\ SoundView(view, mm)
  BY OfInd DEF JumpToBottom
<1> HIDE DEF mm
<1>2. SoundView(v, mm) /\ v.lines = view.lines
  BY <1>1, ScrolledOK
<1> HIDE DEF v
<1>3. QED
  BY <1>1, <1>2, OnViewOK DEF mm

LEMMA ResizeToOK ==
  ASSUME WindowInd, NEW width \in ViewWidths, NEW page \in Pages, ResizeTo(width, page)
  PROVE  WindowInd'
<1> DEFINE mm == buffer.messages
           v == Resize(view, width, page)
<1>1. InView /\ ViewBecomes(v, buffer) /\ SoundView(view, mm)
  BY OfInd DEF ResizeTo
<1> HIDE DEF mm
<1>2. SoundView(v, mm) /\ (view.lines # <<>> => v.lines # <<>>)
  BY <1>1, ResizeOK
<1> HIDE DEF v
<1>3. QED
  BY <1>1, <1>2, OnViewOK DEF mm

LEMMA FindOK ==
  ASSUME WindowInd, NEW backward \in BOOLEAN, Find(backward)
  PROVE  WindowInd'
<1> DEFINE mm == buffer.messages
           texts == {k \in DOMAIN view.lines : view.lines[k].id[1] = "msgid"}
           v == FindText(view, texts, backward)
<1>1. InView /\ ViewBecomes(v, buffer) /\ SoundView(view, mm) /\ view.lines # <<>>
      /\ texts \in SUBSET (DOMAIN view.lines)
  BY OfInd DEF Find
<1> HIDE DEF mm, texts
<1>2. SoundView(v, mm) /\ v.lines = view.lines
  BY <1>1, FindTextOK
<1> HIDE DEF v
<1>3. QED
  BY <1>1, <1>2, OnViewOK DEF mm

LEMMA CloseSearchOK ==
  ASSUME WindowInd, CloseSearch
  PROVE  WindowInd'
<1> DEFINE mm == buffer.messages
           none == NoLine
           v == [view EXCEPT !.found = none]
<1>1. InView /\ ViewBecomes(v, buffer) /\ SoundView(view, mm) /\ none \in Nat
  BY OfInd DEF CloseSearch, ClearFind, NoLine
<1> HIDE DEF mm, none
<1>2. SoundView(v, mm) /\ v.lines = view.lines
  BY <1>1, FoundOK
<1> HIDE DEF v
<1>3. QED
  BY <1>1, <1>2, OnViewOK DEF mm

LEMMA JumpInBufferOK ==
  ASSUME WindowInd, NEW i \in 1..Messages, JumpInBuffer(i)
  PROVE  WindowInd'
<1> DEFINE yes == TRUE
           t == [Screen EXCEPT !.win.active = TRUE]
           shown == IF win.active THEN Screen ELSE Refreshed(t, buffer, yes)
           r == Answered(shown, buffer)
           s == JumpTo(r, i)
           b == buffer
<1>1. Shows(s, b) /\ UNCHANGED <<buffer, awaited>> /\ Acts
  BY DEF JumpInBuffer
<1>2. Drawable(b) /\ Len(b.messages) =< MaxMessages /\ SoundScreen(Screen, b) /\ NotEmpty(Screen, b)
  BY OfInd
<1>3. SoundScreen(t, b) /\ t.win.active
  BY <1>2, ShownScreen
<1> HIDE DEF t, yes
<1>4. SoundScreen(shown, b) /\ NotEmpty(shown, b) /\ shown.win.active
  <2>1. SoundScreen(Refreshed(t, b, yes), b) /\ NotEmpty(Refreshed(t, b, yes), b)
        /\ Refreshed(t, b, yes).win.active = t.win.active
    <3> HIDE DEF b
    <3>1. QED
      BY <1>2, <1>3, RefreshedOK
  <2>2. QED
    BY <1>2, <1>3, <2>1, TheScreen
<1> HIDE DEF shown
<1>5. SoundScreen(r, b) /\ NotEmpty(r, b) /\ r.win.active
  BY <1>2, <1>4, AnsweredOK
<1> HIDE DEF r
<1>6. Kept(s, r, b)
  BY <1>2, <1>5, JumpToOK
<1> HIDE DEF s
<1>7. ScreenOK(s, b)
  BY <1>5, <1>6, KeptNotEmpty DEF ScreenOK
<1>8. AtRest(Screen', buffer)
  BY <1>1, <1>2, <1>7, ShowsOK
<1>9. QED
  BY <1>1, <1>8, ActsBound, RestKept

LEMMA RunPostedOK ==
  ASSUME WindowInd, RunPosted
  PROVE  WindowInd'
<1> DEFINE p == Tail(win.posted)
           w0 == Screen.win
           w == [w0 EXCEPT !.posted = p]
           s == [Screen EXCEPT !.win = w]
           q == [Screen EXCEPT !.win.posted = Tail(@)]
           h == [s EXCEPT !.win.loading = FALSE]
           a == AfterReset(s)
           r == Answered(a, buffer)
           d == IF Head(win.posted) = "reset" THEN IF win.start > 0 THEN MoreIfEmpty(r) ELSE r
                                              ELSE MoreIfEmpty(h)
           b == buffer
<1>1. Screen.win = win /\ Screen.view = view /\ q = s
  BY TheScreen DEF Screen
<1>2. Shows(d, b) /\ UNCHANGED <<buffer, awaited, acts>> /\ win.posted # <<>>
  BY <1>1 DEF RunPosted
<1>3. Drawable(b) /\ SoundScreen(Screen, b) /\ NotEmpty(Screen, b) /\ win \in WindowRecord
  BY OfInd
<1>4. p \in Seq(Callbacks) /\ w0 \in WindowRecord
  <2>1. win.posted \in Seq(Callbacks)
    BY <1>3 DEF WindowRecord
  <2>2. p \in Seq(Callbacks)
    BY <1>2, <2>1, HeadTailProperties
  <2>3. QED
    BY <1>1, <1>3, <2>2
<1> HIDE DEF p, w0, q
<1>5. /\ w \in WindowRecord /\ w.active = w0.active /\ w.start = w0.start
      /\ w.expanded = w0.expanded
  BY <1>4, PostedSet
<1> HIDE DEF w
<1>6. Kept(s, Screen, b)
  <2>1. w.start \in NotDrawn..Undrawn /\ w.start =< Len(b.messages)
        /\ w.expanded \subseteq 1..Len(b.messages)
    BY <1>3, <1>5 DEF SoundScreen, w0
  <2> HIDE DEF b
  <2>2. SoundScreen(s, b) /\ s.view = Screen.view /\ s.win = w
    BY <1>3, <1>5, <2>1, ScreenWin
  <2> HIDE DEF s
  <2>3. QED
    BY <1>5, <2>2 DEF Kept, w0
<1> HIDE DEF s
<1>7. ScreenOK(s, b)
  BY <1>3, <1>6, KeptNotEmpty DEF ScreenOK
<1>8. ScreenOK(a, b)
  <2>1. Kept(a, s, b)
    BY <1>7, AfterResetOK DEF ScreenOK
  <2> HIDE DEF a
  <2>2. QED
    BY <1>7, <2>1, KeptNotEmpty DEF ScreenOK
<1> HIDE DEF a
<1>9. ScreenOK(r, b)
  BY <1>3, <1>8, AnsweredOK DEF ScreenOK
<1> HIDE DEF r
<1>10. ScreenOK(MoreIfEmpty(r), b)
  <2>1. Kept(MoreIfEmpty(r), r, b)
    BY <1>3, <1>9, MoreIfEmptyOK DEF ScreenOK
  <2>2. QED
    BY <1>9, <2>1, KeptNotEmpty DEF ScreenOK
<1>11. ScreenOK(h, b)
  <2>1. Kept(h, s, b)
    BY <1>7, IdleScreen DEF ScreenOK
  <2> HIDE DEF h
  <2>2. QED
    BY <1>7, <2>1, KeptNotEmpty DEF ScreenOK
<1> HIDE DEF h
<1>12. ScreenOK(MoreIfEmpty(h), b)
  <2>1. Kept(MoreIfEmpty(h), h, b)
    BY <1>3, <1>11, MoreIfEmptyOK DEF ScreenOK
  <2>2. QED
    BY <1>11, <2>1, KeptNotEmpty DEF ScreenOK
<1>13. ScreenOK(d, b)
  BY <1>9, <1>10, <1>12
<1> HIDE DEF d
<1>14. AtRest(Screen', buffer)
  BY <1>2, <1>3, <1>13, ShowsOK
<1>15. acts' \in 0..MaxActs
  BY <1>2 DEF WindowInd
<1>16. QED
  BY <1>2, <1>14, <1>15, RestKept

LEMMA LayOutRestOK ==
  ASSUME WindowInd, LayOutRest
  PROVE  WindowInd'
<1> DEFINE mm == buffer.messages
           v == RelayoutRest(view)
           no == FALSE
           l == [view EXCEPT !.stale = no]
<1>1. /\ UNCHANGED <<buffer, awaited, acts>>
      /\ IF win.active THEN ViewBecomes(v, buffer) ELSE view' = l /\ UNCHANGED win
  BY DEF LayOutRest
<1>2. SoundView(view, mm) /\ no \in BOOLEAN /\ acts' \in 0..MaxActs
  BY <1>1, OfInd DEF WindowInd
<1> HIDE DEF mm, no
<1>3. CASE win.active
  <2>1. SoundView(v, mm) /\ (view.lines # <<>> => v.lines # <<>>)
    BY <1>2, RelayoutRestOK
  <2> HIDE DEF v
  <2>2. AtRest(Screen', buffer)
    BY <1>1, <1>3, <2>1, OfInd, ViewBecomesOK DEF mm
  <2>3. QED
    BY <1>1, <1>2, <2>2, RestKept
<1>4. CASE ~win.active
  <2> DEFINE o == 0
  <2>1. o \in Nat
    OBVIOUS
  <2> HIDE DEF o
  <2>2. SoundView(l, mm)
    BY <1>2, <2>1, FlagsOK
  <2>3. l.asks = view.asks
    BY <1>2 DEF SoundView, ViewRecord
  <2> HIDE DEF l
  <2>4. Screen' = [view |-> l, win |-> win]
    BY <1>1, <1>4 DEF Screen
  <2>5. SoundScreen(Screen', buffer)
    <3>1. SoundScreen([view |-> l, win |-> win], buffer)
      BY <2>2, OfInd, ScreenWith DEF mm
    <3>2. QED
      BY <2>4, <3>1
  <2>6. AtRest(Screen', buffer)
    <3>1. ~view.asks /\ Len(win.posted) =< MaxPosted
      BY TheScreen DEF WindowInd, AtRest
    <3>2. (Screen').view = l /\ (Screen').win = win
      BY <2>4
    <3>3. QED
      BY <1>4, <2>3, <2>5, <3>1, <3>2 DEF AtRest, ScreenOK, NotEmpty
  <2>7. QED
    BY <1>1, <1>2, <2>6, RestKept
<1>5. QED
  BY <1>3, <1>4

\* The window begins as it may be.
LEMMA WindowInitOK == WindowInit => WindowInd
<1> SUFFICES ASSUME WindowInit
             PROVE  WindowInd
  OBVIOUS
<1> DEFINE mm == <<>>
           none == <<>>
           o == 0
           e == {}
<1>1. PICK page \in Pages : view = EmptyView("wide", page)
  BY DEF WindowInit
<1>2. buffer = [messages |-> mm, reactions |-> e, redacted |-> e, cards |-> e, hidden |-> e]
  BY DEF WindowInit, NewBuffer
<1>3. mm \in Seq(Said) /\ Len(mm) = 0 /\ none \in Seq(Nat) /\ none \in Seq(DrawnLine(mm))
      /\ none \in Seq(Callbacks) /\ Len(none) = 0 /\ o \in Nat /\ o = 0
      /\ e \in SUBSET Nat /\ e \in SUBSET LinksSaid /\ e \subseteq 1..Len(mm)
  OBVIOUS
<1>4. view = [lines |-> none, tops |-> none, value |-> o, max |-> o, page |-> page,
              width |-> "wide", atEnd |-> TRUE, away |-> FALSE, button |-> FALSE,
              stale |-> FALSE, found |-> o, asks |-> FALSE]
  BY <1>1 DEF EmptyView, NoLine
<1>5. win = [active |-> FALSE, start |-> NotDrawn, loading |-> FALSE,
             posted |-> none, saved |-> o, expanded |-> e]
  BY DEF WindowInit, NoPlace
<1>6. view.lines = <<>>
  BY <1>4
<1> HIDE DEF mm, none, o, e
<1>7. BufferOK(buffer) /\ buffer.messages = mm
  <2>1. buffer \in BufferRecord
    BY <1>2, <1>3 DEF BufferRecord
  <2>2. QED
    BY <1>2, <1>3, <2>1, BoundsNat DEF BufferOK
<1>8. SoundView(view, mm)
  <2>1. view \in ViewRecord(mm)
    BY <1>3, <1>4 DEF ViewRecord, ViewWidths
  <2>2. Offsets(view.lines, view.tops)
    BY <1>3, <1>4 DEF Offsets
  <2>3. view.max = Max({0, TotalHeight(view) - view.page})
    <3> DEFINE x == 0 - page
    <3>1. TotalHeight(view) = 0
      BY <1>6 DEF TotalHeight
    <3>2. page \in Nat
      BY PageNat
    <3>3. x \in Int /\ ~(x > 0)
      BY <3>2
    <3>4. view.max = 0 /\ view.page = page
      BY <1>3, <1>4
    <3>5. TotalHeight(view) - view.page = x
      BY <3>1, <3>4
    <3> HIDE DEF x
    <3>6. Max({0, x}) = 0
      BY <3>3, MaxOfTwo
    <3>7. QED
      BY <3>4, <3>5, <3>6
  <2>4. FollowsEnd(view)
    BY <1>3, <1>4 DEF FollowsEnd, HasButton
  <2>5. QED
    BY <2>1, <2>2, <2>3, <2>4 DEF SoundView
<1>9. win \in WindowRecord /\ win.start = NotDrawn /\ win.expanded = e /\ ~win.active
      /\ win.posted = none
  BY <1>3, <1>5 DEF WindowRecord, NotDrawn
<1>10. AtRest(Screen, buffer)
  <2>1. win.start \in NotDrawn..Undrawn /\ win.start =< Len(buffer.messages)
        /\ win.expanded \subseteq 1..Len(buffer.messages)
    BY <1>3, <1>7, <1>9, UndrawnNat DEF NotDrawn
  <2>2. SoundView(view, buffer.messages)
    BY <1>7, <1>8
  <2>3. SoundScreen([view |-> view, win |-> win], buffer)
    BY <1>9, <2>1, <2>2, ScreenWith
  <2>4. SoundScreen(Screen, buffer)
    BY <2>3 DEF Screen
  <2>5. ~view.asks
    BY <1>4
  <2>6. QED
    BY <1>3, <1>9, <2>4, <2>5, TheScreen, BoundsNat DEF AtRest, ScreenOK, NotEmpty
<1>11. Messages = 0
  BY <1>3, <1>7 DEF Messages
<1>12. awaited \in [LinksSaid -> 0..Messages] /\ acts \in 0..MaxActs
  BY <1>11, BoundsNat DEF WindowInit
<1>13. QED
  BY <1>7, <1>10, <1>12 DEF WindowInd

\* Each step leaves it so.
LEMMA WindowNextOK == WindowInd /\ [WindowNext]_windowVars => WindowInd'
<1> SUFFICES ASSUME WindowInd, [WindowNext]_windowVars
             PROVE  WindowInd'
  OBVIOUS
<1>1. CASE \E m \in Said : Receive(m)
  BY <1>1, ReceiveOK
<1>2. CASE \E i \in 1..Messages : React(i) \/ Redact(i) \/ JumpInBuffer(i)
  BY <1>2, ReactOK, RedactOK, JumpInBufferOK
<1>3. CASE SwitchHere \/ SwitchAway \/ Restyle \/ Touch \/ JumpToBottom \/ CloseSearch
  BY <1>3, SwitchHereOK, SwitchAwayOK, RestyleOK, TouchOK, JumpToBottomOK, CloseSearchOK
<1>4. CASE \E u \in LinksSaid : HideOrShow(u) \/ CardStored(u) \/ CardGivenUp(u)
  BY <1>4, HideOrShowOK, CardStoredOK, CardGivenUpOK
<1>5. CASE \E k \in DOMAIN view.lines : Toggle(k)
  BY <1>5, ToggleOK
<1>6. CASE \E rows \in {-1, 1} : Scroll(rows)
  BY <1>6, ScrollOK
<1>7. CASE \E value \in 0..view.max : Drag(value)
  BY <1>7, DragOK
<1>8. CASE \E width \in ViewWidths, page \in Pages : ResizeTo(width, page)
  BY <1>8, ResizeToOK
<1>9. CASE \E backward \in BOOLEAN : Find(backward)
  BY <1>9, FindOK
<1>10. CASE RunPosted \/ LayOutRest
  BY <1>10, RunPostedOK, LayOutRestOK
<1>11. CASE UNCHANGED windowVars
  <2>1. UNCHANGED <<buffer, view, win, awaited, acts>>
    BY <1>11 DEF windowVars
  <2>2. QED
    BY <2>1 DEF WindowInd, Screen, Messages
<1>12. QED
  BY <1>1, <1>2, <1>3, <1>4, <1>5, <1>6, <1>7, <1>8, <1>9, <1>10, <1>11 DEF WindowNext

\* So it stays.
LEMMA WindowSound == LiveWindowSpec => []WindowInd
BY WindowInitOK, WindowNextOK, PTL DEF LiveWindowSpec, WindowSpec

\* The buffer, its view and what MainWindow keeps of it are what they may be: the offsets
\* of the lines add up, and the scroll bar is as long as the lines make it, whatever is
\* drawn, dropped and laid out again (ChatView and MainWindow::refreshChatView).
THEOREM WindowTyped == LiveWindowSpec => []WindowTypeOK
<1>1. WindowInd => WindowTypeOK
  <2> SUFFICES ASSUME WindowInd
               PROVE  WindowTypeOK
    OBVIOUS
  <2> DEFINE mm == buffer.messages
  <2>1. SoundView(view, mm) /\ BufferOK(buffer) /\ win \in WindowRecord
    BY OfInd
  <2>2. /\ view \in ViewRecord(mm) /\ Offsets(view.lines, view.tops) /\ FollowsEnd(view)
        /\ view.max = Max({0, TotalHeight(view) - view.page})
    BY <2>1 DEF SoundView
  <2>3. DOMAIN view = DOMAIN EmptyView("wide", 1)
    BY <2>2 DEF ViewRecord, EmptyView
  <2>4. view.lines \in Seq(DrawnLine(mm))
    BY <2>2 DEF ViewRecord
  <2>5. view.tops = Rebuilt(view.lines)
    <3>1. HaveHeights(view.lines)
      BY <2>4, Heights
    <3>2. QED
      BY <2>2, <3>1, RebuiltRight
  <2>6. \A k \in DOMAIN view.lines :
          view.lines[k].height \in Nat \ {0} /\ view.lines[k].width \in ViewWidths
    <3>1. \A k \in DOMAIN view.lines : view.lines[k] \in DrawnLine(mm)
      BY <2>4
    <3>2. QED
      BY <3>1 DEF DrawnLine
  <2>7. /\ view.value \in Nat /\ view.max \in Nat /\ view.width \in ViewWidths /\ view.page \in Pages
        /\ {view.atEnd, view.away, view.button, view.stale, view.asks} \subseteq BOOLEAN
        /\ view.found \in Nat
    BY <2>2 DEF ViewRecord
  <2>8. view.value \in 0..view.max
    BY <2>2, <2>7 DEF FollowsEnd
  <2>9. ViewOK(view)
    BY <2>2, <2>3, <2>5, <2>6, <2>7, <2>8 DEF ViewOK
  <2>10. /\ mm \in Seq(Said) /\ Messages =< MaxMessages /\ Messages = Len(mm)
         /\ buffer.reactions \cup buffer.redacted \subseteq 1..Messages
         /\ buffer.cards \cup buffer.hidden \subseteq LinksSaid
    BY <2>1 DEF BufferOK, BufferRecord, Messages
  <2>11. win.expanded \subseteq 1..Messages /\ win.start \in NotDrawn..Max({0, MaxMessages - Window})
    BY OfInd DEF Undrawn
  <2>12. win.active \in BOOLEAN /\ win.loading \in BOOLEAN
    BY <2>1 DEF WindowRecord
  <2>13. ~view.asks /\ Len(win.posted) =< MaxPosted
    BY TheScreen DEF WindowInd, AtRest
  <2>14. awaited \in [LinksSaid -> 0..Messages] /\ acts \in 0..MaxActs
    BY DEF WindowInd
  <2>15. QED
    BY <2>9, <2>10, <2>11, <2>12, <2>13, <2>14 DEF WindowTypeOK
<1>2. QED
  BY <1>1, WindowSound, PTL

\* A view that does not show its end offers the way there, whatever is drawn in it and
\* however it is scrolled, resized and searched (ChatView::onScrollValueChanged and
\* scrolledAwayFromBottom).
THEOREM EndInSight == LiveWindowSpec => []EndOrButton
<1>1. WindowInd => EndOrButton
  <2> SUFFICES ASSUME WindowInd
               PROVE  EndOrButton
    OBVIOUS
  <2>1. FollowsEnd(view)
    BY OfInd DEF SoundView
  <2>2. QED
    BY <2>1 DEF EndOrButton, FollowsEnd, HasButton
<1>2. QED
  BY <1>1, WindowSound, PTL
=============================================================================
