------------------------------ MODULE Previews ------------------------------
(***************************************************************************)
(* Link previews: the queue of PreviewController, which has one link       *)
(* fetched at a time, and LinkPreview (src/src/ui), which looks a host up, *)
(* gets the page, follows its redirects and gets the page's picture.  A    *)
(* fetch that takes too long gives up its slot, and goes on until the next *)
(* one aborts it; the reply with a picture is never aborted.  Each         *)
(* operator gives the record a call leaves behind; cards is what the last  *)
(* step stored, which cardStored announces.  Titles, what pictures show,   *)
(* the lookup under the mouse and the bound of 100 links are left out.     *)
(***************************************************************************)
EXTENDS Integers, Sequences, SequencesExt, FiniteSets

CONSTANTS
  Links,     \* the addresses that messages hold
  Refused,   \* the links no lookup is made for
  Pictures,  \* the links that end like the name of a picture
  MaxQueue,  \* m_previewQueue's bound (10)
  MaxCache,  \* kMaxCache (20)
  MaxHops,   \* kMaxRedirects (3)
  MaxAsked   \* bound: links in messages that come

ASSUME FetchAssumption == {MaxQueue, MaxCache, MaxHops, MaxAsked} \subseteq Nat \ {0}

VARIABLES
  fetch,  \* m_previewQueue, m_previewChannels, m_inFlightUrl, m_cache, the replies
  asked   \* messages with a link so far

vars == <<fetch, asked>>

Nothing == "none"
Hop == "hop"   \* an address a redirect led to

ASSUME LinksAssumption == Nothing \notin Links /\ Pictures \subseteq Links

Addresses == Links \cup {Hop}

Idle == [at |-> "idle", link |-> Nothing, hops |-> 0]

\* Message 0 is none.
NewFetch ==
  [queue |-> <<>>, wanted |-> [u \in Links |-> 0], inFlight |-> Nothing,
   page |-> Idle, pictures |-> [u \in Addresses |-> 0], cache |-> <<>>, cards |-> {}]

Init == fetch = NewFetch /\ asked = 0

\* Mutant: a full cache makes no room.
CachedAll(cache, u) == IF Contains(cache, u) THEN cache ELSE Append(cache, u)

\* insertCache: the oldest entry makes room.
Cached(cache, u) ==
  IF Contains(cache, u) THEN cache
  ELSE Append(IF Len(cache) >= MaxCache THEN Tail(cache) ELSE cache, u)

\* Mutant: a late answer frees the slot of another link.
ReleasedAny(f, u) == [f EXCEPT !.inFlight = Nothing]

\* The slot is given up only for the link it is held for.
Released(f, u) == [f EXCEPT !.inFlight = IF @ = u THEN Nothing ELSE @]

Dropped(f, u) == [f EXCEPT !.wanted = [w \in DOMAIN @ |-> IF w = u THEN 0 ELSE @[w]]]

(***************************************************************************)
(* processQueue, LinkPreview::fetch and onCardReady, which call each other *)
(* where a link is refused or its card is in the cache: such links are     *)
(* taken from the queue up to the first that is to be fetched.  The fetch  *)
(* aborts the lookup and the page of the one before.                       *)
(***************************************************************************)
ToFetch(f) ==
  {k \in DOMAIN f.queue : f.queue[k] \notin Refused /\ ~Contains(f.cache, f.queue[k])}

FirstToFetch(f) == CHOOSE k \in ToFetch(f) : \A j \in ToFetch(f) : k =< j

Passed(f) == {f.queue[k] : k \in {i \in DOMAIN f.queue : \A j \in ToFetch(f) : i < j}}

\* The cards of some links, for the messages that wait for them.
CardsFor(f, links) ==
  {[link |-> u, message |-> f.wanted[u]] : u \in {w \in links : f.wanted[w] # 0}}

PassedOver(f) ==
  [f EXCEPT !.wanted = [u \in DOMAIN @ |-> IF u \in Passed(f) THEN 0 ELSE @[u]],
            !.cards = @ \cup CardsFor(f, Passed(f) \ Refused)]

ProcessQueue(f) ==
  IF f.inFlight # Nothing \/ f.queue = <<>> THEN f
  ELSE IF ToFetch(f) = {}
    THEN [PassedOver(f) EXCEPT !.queue = <<>>,
            !.page = [Idle EXCEPT !.link = Last(f.queue)]]
  ELSE LET k == FirstToFetch(f)
           u == f.queue[k]
       IN  [PassedOver(f) EXCEPT !.queue = SubSeq(@, k + 1, Len(@)), !.inFlight = u,
              !.page = [at |-> "lookup", link |-> u, hops |-> 0]]

\* Mutant: a card nobody waits for is stored.
OnCardReadyAlways(f, u) ==
  [ProcessQueue(Dropped(Released(f, u), u)) EXCEPT
     !.cards = @ \cup {[link |-> u, message |-> IF u \in Links THEN f.wanted[u] ELSE 0]}]

\* onCardReady: a card nobody waits for any more is not stored.
OnCardReady(f, u) ==
  [ProcessQueue(Dropped(Released(f, u), u)) EXCEPT
     !.cards = @ \cup CardsFor(f, {u} \cap Links)]

\* cardReady, with or without the picture.
CardReady(f, u) == OnCardReady([f EXCEPT !.cache = Cached(@, u)], u)

\* fetchFailed, for the link the fetch was asked about.
FetchFailed(f) ==
  ProcessQueue(Dropped(Released([f EXCEPT !.page.at = "idle"], f.page.link), f.page.link))

\* enqueue. A link that waits, or is fetched, already is not asked for again.
Enqueue(f, u, message) ==
  IF f.wanted[u] # 0 \/ Len(f.queue) >= MaxQueue THEN f
  ELSE ProcessQueue([f EXCEPT !.queue = Append(@, u),
          !.wanted = [@ EXCEPT ![u] = message]])

\* Mutant: a link that took too long is put in the queue again.
TimedOutAgain(f) ==
  ProcessQueue(Released([f EXCEPT !.queue = Append(@, f.inFlight)], f.inFlight))

\* The watchdog of 20 s.
TimedOut(f) == ProcessQueue(Released(Dropped(f, f.inFlight), f.inFlight))

----------------------------------------------------------------------------
(* The network answers.                                                    *)

\* fetchImage: the lookup of the picture's host.
FetchImage(f, u) == [f EXCEPT !.page = [@ EXCEPT !.at = "picture", !.link = u]]

\* The lookup of a page's host, or of the host a redirect led to.  Where that
\* address looks like a picture's, the picture goes by it from then on, be it a
\* link of other messages or one nobody asked for.
LookedUp(f, picture) ==
  IF f.page.hops = 0
    THEN IF f.page.link \in Pictures THEN FetchImage(f, f.page.link)
                                     ELSE [f EXCEPT !.page.at = "get"]
    ELSE IF picture # Nothing THEN FetchImage(f, picture) ELSE [f EXCEPT !.page.at = "get"]

Redirected(f) ==
  IF f.page.hops < MaxHops
    THEN [f EXCEPT !.page.at = "lookup", !.page.hops = @ + 1]
    ELSE FetchFailed(f)

\* A page with a title, and no picture that could be fetched.
TitleOnly(f) == CardReady([f EXCEPT !.page.at = "idle"], f.page.link)

\* doImageFetch: nothing but its own end ends the reply, and there may be several
\* for one link.
PictureBegins(f) ==
  [f EXCEPT !.page.at = "idle", !.pictures[f.page.link] = @ + 1]

PictureEnds(f, u) == CardReady([f EXCEPT !.pictures[u] = @ - 1], u)

\* What the answers to the fetch in progress may make of it.
Answers(f) ==
  CASE f.page.at = "lookup" ->
         {FetchFailed(f)} \cup {LookedUp(f, p) : p \in Pictures \cup {Hop, Nothing}}
    [] f.page.at = "get" ->
         {FetchFailed(f), Redirected(f), TitleOnly(f), FetchImage(f, f.page.link)}
    [] f.page.at = "picture" -> {TitleOnly(f), PictureBegins(f)}
    [] OTHER -> {}

----------------------------------------------------------------------------
Heard == [fetch EXCEPT !.cards = {}]   \* the cards of the last step are shown

\* A message with a link is drawn, and its card is not in the buffer.
Ask(u) ==
  /\ asked < MaxAsked
  /\ asked' = asked + 1
  /\ fetch' = Enqueue(Heard, u, asked')

\* The network answers; a reply with a picture may end at any time.
Answer ==
  /\ \/ fetch' \in Answers(Heard)
     \/ \E u \in Addresses : fetch.pictures[u] > 0 /\ fetch' = PictureEnds(Heard, u)
  /\ UNCHANGED asked

Watchdog ==
  /\ fetch.inFlight # Nothing
  /\ fetch' = TimedOut(Heard)
  /\ UNCHANGED asked

Next == (\E u \in Links : Ask(u)) \/ Answer \/ Watchdog

Spec == Init /\ [][Next]_vars
\* The watchdog is set whenever a fetch begins.
LiveSpec == Spec /\ WF_vars(Watchdog)

----------------------------------------------------------------------------
(* Properties.                                                             *)

\* The queue and the cache keep to their bounds, and the cache holds a link once.
TypeOK ==
  /\ DOMAIN fetch = DOMAIN NewFetch
  /\ Len(fetch.queue) =< MaxQueue /\ fetch.queue \in Seq(Links)
  /\ fetch.wanted \in [Links -> 0..asked]
  /\ fetch.inFlight \in Links \cup {Nothing}
  /\ fetch.page.at \in {"idle", "lookup", "get", "picture"} /\ fetch.page.hops \in 0..MaxHops
  /\ fetch.pictures \in [Addresses -> Nat]
  /\ IsInjective(fetch.cache) /\ Len(fetch.cache) =< MaxCache
  /\ asked \in 0..MaxAsked

\* However timeouts, late pictures and repeated links follow one another, a link is
\* wanted only while it is fetched or waits in the queue, and the fetch going on is
\* that of the slot, or the slot is free to be taken.
NoPlaceLost ==
  /\ \A u \in Links : fetch.wanted[u] # 0 => u = fetch.inFlight \/ Contains(fetch.queue, u)
  /\ fetch.inFlight = Nothing => fetch.queue = <<>>

\* A card is stored for the message that asked for it last, once, and the link then
\* waits no more: an answer that comes late, or twice, stores nothing.
CardsWanted ==
  [][\A c \in fetch'.cards :
       /\ c.message # 0
       /\ c.message \in {fetch.wanted[c.link], asked'}
       /\ fetch'.wanted[c.link] = 0
       /\ \A d \in fetch'.cards : d.link = c.link => d = c]_vars

\* A link that is asked for is answered, or given up.
WantedEnds == \A u \in Links : (fetch.wanted[u] # 0) ~> (fetch.wanted[u] = 0)

\* Queue, slot, cache and wanted cards fit each other.
PreviewsInv == TypeOK /\ NoPlaceLost
=============================================================================
