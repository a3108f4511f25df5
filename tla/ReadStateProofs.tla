-------------------------- MODULE ReadStateProofs --------------------------
(***************************************************************************)
(* Proofs about ReadState, for every cap, page size and number of lines:   *)
(* its types, that the badge counts what was missed and a visible buffer   *)
(* has none, that the first unread line is the first, that reactions are   *)
(* of lines held, and that held marks are queued.                          *)
(*                                                                         *)
(* The argument is about the Channel record alone.  ChannelOK relates it   *)
(* to the messages missed and to the time; adding, prepending, counting    *)
(* and clearing each keep it, and every action is built from these.  That  *)
(* a badge goes only with what was read needs one thing more: the lines    *)
(* that came live are held in the order in which they were said.           *)
(***************************************************************************)
EXTENDS ReadState, TLAPS, SequenceTheorems, FiniteSetTheorems

(* ----------------- the operators of ChannelBuffer --------------------- *)

\* Lines joined.
LEMMA JoinLines ==
  ASSUME NEW L, NEW s \in Seq(L), NEW p \in Seq(L)
  PROVE  /\ s \o p \in Seq(L)
         /\ Len(s) \in Nat /\ Len(p) \in Nat /\ Len(s \o p) = Len(s) + Len(p)
         /\ \A i \in 1..Len(s \o p) :
              (s \o p)[i] = IF i =< Len(s) THEN s[i] ELSE p[i - Len(s)]
BY ConcatProperties, LenProperties

\* The lines kept at the cap, when the oldest make room and when the newest do.
LEMMA KeepLines ==
  ASSUME NEW L, NEW all \in Seq(L)
  PROVE  /\ Len(all) \in Nat /\ Over(all) \in Nat /\ Over(all) =< Len(all)
         /\ Len(all) - Over(all) =< Cap /\ (Over(all) > 0 => Len(all) - Over(all) = Cap)
         /\ LastOf(all) \in Seq(L) /\ Len(LastOf(all)) = Len(all) - Over(all)
         /\ \A i \in 1..Len(LastOf(all)) : LastOf(all)[i] = all[Over(all) + i]
         /\ FirstOf(all) \in Seq(L) /\ Len(FirstOf(all)) = Len(all) - Over(all)
         /\ \A i \in 1..Len(FirstOf(all)) : FirstOf(all)[i] = all[i]
<1>1. /\ Len(all) \in Nat /\ Over(all) \in Nat /\ Over(all) =< Len(all)
      /\ Len(all) - Over(all) =< Cap /\ (Over(all) > 0 => Len(all) - Over(all) = Cap)
  BY CapAssumption, LenProperties DEF Over, Greatest
<1>2. /\ LastOf(all) \in Seq(L) /\ Len(LastOf(all)) = Len(all) - Over(all)
      /\ \A i \in 1..Len(LastOf(all)) : LastOf(all)[i] = all[Over(all) + i]
  BY <1>1 DEF LastOf
<1>3. /\ FirstOf(all) \in Seq(L) /\ Len(FirstOf(all)) = Len(all) - Over(all)
      /\ \A i \in 1..Len(FirstOf(all)) : FirstOf(all)[i] = all[i]
  BY <1>1 DEF FirstOf
<1>4. QED
  BY <1>1, <1>2, <1>3

\* A page of history is a list of lines of the set it is taken from.
LEMMA PageIsHistory ==
  ASSUME NEW S, NEW page \in Newest(S)
  PROVE  /\ Len(page) \in Nat /\ DOMAIN page = 1..Len(page)
         /\ AsHistory(page) \in Seq([at : S, past : {TRUE}])
         /\ Len(AsHistory(page)) = Len(page)
         /\ \A i \in 1..Len(page) : AsHistory(page)[i].at \in S /\ AsHistory(page)[i].past
         /\ \A i, j \in 1..Len(page) : i < j => AsHistory(page)[i].at < AsHistory(page)[j].at
<1>1. PICK n \in 0..Page : page \in [1..n -> S]
  BY DEF Newest
<1>2. n \in Nat /\ page \in Seq(S)
  BY <1>1, PageAssumption, SeqDef
<1>3. Len(page) = n /\ DOMAIN page = 1..n
  BY <1>1, <1>2, LenProperties
<1> DEFINE h == AsHistory(page)
<1>4. h \in [1..n -> [at : S, past : {TRUE}]] /\ \A i \in 1..n : h[i].at = page[i] /\ h[i].past
  BY <1>1, <1>3 DEF AsHistory
<1>5. h \in Seq([at : S, past : {TRUE}])
  BY <1>2, <1>4, SeqDef
<1>6. Len(h) = n
  BY <1>2, <1>4, <1>5, LenProperties
<1>7. \A i, j \in 1..n : i < j => h[i].at < h[j].at
  BY <1>3, <1>4 DEF Newest, IsNewest
<1>8. QED
  BY <1>1, <1>2, <1>3, <1>4, <1>5, <1>6, <1>7

(* ------------------------------ the state ------------------------------ *)

\* Lines said up to now.
Lines(now) == [at : 1..now, past : BOOLEAN]

\* No missed message m lies before the first unread line of c.
NoneBefore(c, m) ==
  \A i \in 1..c.firstUnread - 1 : c.messages[i].past \/ c.messages[i].at \notin m

ChannelOK(c, m, now) ==
  /\ c \in Channel /\ c.messages \in Seq(Lines(now)) /\ Len(c.messages) =< Cap
  /\ m \subseteq 1..now /\ now \in 0..Last
  /\ c.unread = Cardinality(m) /\ c.mentions = Cardinality(m \cap Pings)
  /\ c.firstUnread =< Len(c.messages)
  /\ c.unread = 0 => c.firstUnread = 0
  /\ NoneBefore(c, m)
  /\ c.reactions \subseteq Held(c.messages)

Inv ==
  /\ server \in Server /\ server.said \subseteq 1..server.now
  /\ ChannelOK(channel, missed, server.now)
  /\ marks \in [pending : BOOLEAN, queued : BOOLEAN]
  /\ uiActive \in BOOLEAN
  /\ view \in {"hidden", "main", "pane"}
  /\ divider \in 0..Cap
  /\ VisibleHasNoBadge
  /\ HeldMarksAreQueued

----------------------------------------------------------------------------
(* What the operators keep of a channel.                                   *)

LEMMA Finite ==
  ASSUME NEW n \in 0..Last, NEW m \in SUBSET (1..n)
  PROVE  /\ IsFiniteSet(m) /\ Cardinality(m) \in 0..Last
         /\ Cardinality(m) = 0 <=> m = {}
         /\ IsFiniteSet(m \cap Pings) /\ Cardinality(m \cap Pings) \in 0..Last
<1>1. n \in Nat /\ n =< Last /\ Last \in Nat
  BY LineAssumption
<1>2. IsFiniteSet(1..n) /\ Cardinality(1..n) =< n
  <2>1. 1 \in Int /\ n \in Int
    BY <1>1
  <2>2. IsFiniteSet(1..n) /\ Cardinality(1..n) = IF 1 > n THEN 0 ELSE n - 1 + 1
    BY <2>1, FS_Interval, Zenon
  <2>3. QED
    BY <1>1, <2>2
<1>3. ASSUME NEW x \in SUBSET (1..n)
      PROVE  IsFiniteSet(x) /\ Cardinality(x) \in 0..Last
  <2>1. IsFiniteSet(x) /\ Cardinality(x) =< Cardinality(1..n)
    BY <1>2, FS_Subset
  <2>2. Cardinality(x) \in Nat /\ Cardinality(1..n) \in Nat
    BY <1>2, <2>1, FS_CardinalityType
  <2>3. QED
    BY <1>1, <1>2, <2>1, <2>2
<1>4. m \cap Pings \in SUBSET (1..n)
  OBVIOUS
<1>5. IsFiniteSet(m)
  BY <1>3
<1>6. Cardinality(m) = 0 <=> m = {}
  BY <1>5, FS_EmptySet
<1>7. QED
  BY <1>3, <1>4, <1>6

\* A sequence over a set is one over any larger set.
LEMMA SeqMono ==
  ASSUME NEW A, NEW B, A \subseteq B, NEW s \in Seq(A)
  PROVE  s \in Seq(B)
<1>1. Len(s) \in Nat /\ s \in [1..Len(s) -> A]
  BY LenProperties
<1>2. s \in [1..Len(s) -> B]
  BY <1>1
<1>3. QED
  BY <1>1, <1>2, SeqDef

\* Lines said up to now are lines.
LEMMA LinesAreLines ==
  ASSUME NEW now \in 0..Last, NEW s \in Seq(Lines(now))
  PROVE  s \in Seq([at : 1..Last, past : BOOLEAN])
<1>1. now \in Int /\ Last \in Int /\ now =< Last
  BY LineAssumption
<1>2. Lines(now) \subseteq [at : 1..Last, past : BOOLEAN]
  BY <1>1 DEF Lines
<1>3. QED
  BY <1>2, SeqMono, Zenon

\* Other lines, reactions and first unread line in a channel.
With(c, kept, R, first) ==
  [c EXCEPT !.messages = kept, !.reactions = R, !.firstUnread = first]

Fits(c, m, now, kept, R, first) ==
  /\ kept \in Seq(Lines(now)) /\ Len(kept) =< Cap
  /\ R \in SUBSET (1..Last) /\ R \subseteq Held(kept)
  /\ first \in Nat /\ first =< Len(kept) /\ (c.firstUnread = 0 => first = 0)
  /\ \A i \in 1..first - 1 : kept[i].past \/ kept[i].at \notin m

LEMMA ReplaceOK ==
  ASSUME NEW c, NEW m, NEW now, ChannelOK(c, m, now),
         NEW kept, NEW R, NEW first, Fits(c, m, now, kept, R, first)
  PROVE  /\ ChannelOK(With(c, kept, R, first), m, now)
         /\ With(c, kept, R, first).unread = c.unread
         /\ With(c, kept, R, first).mentions = c.mentions
         /\ c.firstUnread = 0 => With(c, kept, R, first).firstUnread = 0
<1> DEFINE r == With(c, kept, R, first)
<1>1. c \in Channel
  BY DEF ChannelOK
<1>2. first \in 0..Cap
  <2>1. Len(kept) \in Nat /\ Cap \in Nat
    BY CapAssumption, LenProperties DEF Fits
  <2>2. QED
    BY <2>1 DEF Fits
<1>3. kept \in Seq([at : 1..Last, past : BOOLEAN])
  BY LinesAreLines DEF ChannelOK, Fits
<1>4. r \in Channel
  BY <1>1, <1>2, <1>3 DEF Channel, With, Fits
<1>5. /\ r.messages = kept /\ r.reactions = R /\ r.firstUnread = first
      /\ r.unread = c.unread /\ r.mentions = c.mentions
  BY <1>1 DEF Channel, With
<1> HIDE DEF r
<1>6. ChannelOK(r, m, now)
  BY <1>4, <1>5 DEF ChannelOK, NoneBefore, Fits
<1>7. QED
  BY <1>5, <1>6 DEF r, Fits

\* What is known of a channel in order.
LEMMA Parts ==
  ASSUME NEW c, NEW m, NEW now, ChannelOK(c, m, now)
  PROVE  /\ c.messages \in Seq(Lines(now)) /\ now \in Nat /\ Cap \in Nat \ {0}
         /\ Len(c.messages) \in Nat /\ Len(c.messages) =< Cap
         /\ c.firstUnread \in Nat /\ c.firstUnread =< Len(c.messages)
         /\ c.reactions \in SUBSET (1..Last) /\ c.reactions \in SUBSET Held(c.messages)
         /\ \A i \in 1..c.firstUnread - 1 : c.messages[i].past \/ c.messages[i].at \notin m
<1>1. c \in Channel /\ c.messages \in Seq(Lines(now)) /\ now \in Nat /\ Cap \in Nat \ {0}
  BY CapAssumption, LineAssumption DEF ChannelOK
<1>2. c.firstUnread \in Nat /\ c.reactions \in SUBSET (1..Last)
  BY <1>1 DEF Channel
<1>3. Len(c.messages) \in Nat
  BY <1>1, LenProperties
<1>4. QED
  BY <1>1, <1>2, <1>3 DEF ChannelOK, NoneBefore

\* Lines held, by their places.
LEMMA HeldAt ==
  ASSUME NEW L, NEW s \in Seq(L)
  PROVE  \A R : R \subseteq Held(s) <=> \A t \in R : \E i \in 1..Len(s) : s[i].at = t
<1>1. DOMAIN s = 1..Len(s)
  BY LenProperties
<1>2. QED
  BY <1>1 DEF Held

\* Adding lines keeps a channel in order.
LEMMA AddOK ==
  ASSUME NEW c, NEW m, NEW now, ChannelOK(c, m, now), NEW page \in Seq(Lines(now))
  PROVE  LET r == AddMessages(c, page)
         IN  /\ ChannelOK(r, m, now)
             /\ r.unread = c.unread /\ r.mentions = c.mentions
             /\ c.firstUnread = 0 => r.firstUnread = 0
<1> DEFINE s == c.messages
           all == s \o page
           over == Over(all)
           kept == LastOf(all)
           R == c.reactions \ {all[i].at : i \in 1..over}
           first == IF c.firstUnread > 1 THEN Greatest(1, c.firstUnread - over) ELSE c.firstUnread
<1>1. AddMessages(c, page) = With(c, kept, R, first)
  BY DEF AddMessages, With
<1>2. /\ s \in Seq(Lines(now)) /\ Cap \in Nat /\ Cap > 0 /\ Len(s) \in Nat
      /\ c.firstUnread \in Nat /\ c.firstUnread =< Len(s)
      /\ c.reactions \in SUBSET (1..Last) /\ c.reactions \in SUBSET Held(s)
      /\ \A i \in 1..c.firstUnread - 1 : s[i].past \/ s[i].at \notin m
  BY Parts
<1> HIDE DEF s
<1>3. /\ all \in Seq(Lines(now)) /\ Len(all) = Len(s) + Len(page) /\ Len(page) \in Nat
      /\ \A i \in 1..Len(all) : all[i] = IF i =< Len(s) THEN s[i] ELSE page[i - Len(s)]
  BY <1>2, JoinLines
<1> HIDE DEF all
<1>4. /\ over \in Nat /\ over =< Len(all) /\ Len(all) - over =< Cap
      /\ (over > 0 => Len(all) - over = Cap)
      /\ kept \in Seq(Lines(now)) /\ Len(kept) = Len(all) - over /\ Len(kept) =< Cap
      /\ \A i \in 1..Len(kept) : kept[i] = all[over + i]
  BY <1>3, KeepLines
<1>5. R = c.reactions \ {all[i].at : i \in 1..over} /\ R \in SUBSET (1..Last)
  BY <1>2
<1> HIDE DEF over, kept, R
<1>6. /\ Len(all) \in Nat /\ Len(kept) \in Nat /\ Len(s) =< Len(all)
      /\ \A i \in 1..Len(s) : all[i] = s[i]
  BY <1>2, <1>3, <1>4
<1>7. \A t \in c.reactions : \E i \in 1..Len(s) : s[i].at = t
  BY <1>2, HeldAt
<1>8. /\ first \in Nat /\ first =< Len(kept) /\ (c.firstUnread = 0 => first = 0)
      /\ (first > 1 => first = c.firstUnread - over)
  BY <1>2, <1>4, <1>6 DEF Greatest
<1> HIDE DEF first
<1>9. ASSUME NEW t \in R
      PROVE  \E i \in 1..Len(kept) : kept[i].at = t
  <2>1. PICK i \in 1..Len(s) : s[i].at = t
    BY <1>5, <1>7
  <2>2. i \in Nat /\ i \in 1..Len(all) /\ all[i].at = t
    BY <1>2, <1>6, <2>1
  <2>3. i > over
    BY <1>4, <1>5, <2>2
  <2>4. i - over \in 1..Len(kept) /\ over + (i - over) = i
    BY <1>4, <1>6, <2>2, <2>3
  <2>5. kept[i - over] = all[i]
    BY <1>4, <2>4
  <2>6. QED
    BY <2>2, <2>4, <2>5
<1>10. ASSUME NEW i \in 1..first - 1
       PROVE  kept[i].past \/ kept[i].at \notin m
  <2>1. over + i \in 1..c.firstUnread - 1 /\ i \in 1..Len(kept) /\ over + i \in 1..Len(s)
    BY <1>2, <1>4, <1>6, <1>8
  <2>2. kept[i] = s[over + i]
    BY <1>4, <1>6, <2>1
  <2>3. QED
    BY <1>2, <2>1, <2>2
<1>11. R \subseteq Held(kept)
  BY <1>4, <1>9, HeldAt
<1>12. Fits(c, m, now, kept, R, first)
  BY <1>4, <1>5, <1>8, <1>10, <1>11 DEF Fits
<1>13. QED
  BY <1>1, <1>12, ReplaceOK

\* Prepending history keeps a channel in order.
LEMMA PrependOK ==
  ASSUME NEW c, NEW m, NEW now, ChannelOK(c, m, now), NEW page \in Seq(Lines(now)),
         \A i \in 1..Len(page) : page[i].past
  PROVE  LET r == PrependMessages(c, page)
         IN  /\ ChannelOK(r, m, now)
             /\ r.unread = c.unread /\ r.mentions = c.mentions
             /\ c.firstUnread = 0 => r.firstUnread = 0
<1> DEFINE s == c.messages
           all == page \o s
           kept == FirstOf(all)
           R == c.reactions \ {all[i].at : i \in Len(kept) + 1 .. Len(all)}
           moved == c.firstUnread + Len(page)
           first == IF c.firstUnread = 0 \/ moved > Len(kept) THEN 0 ELSE moved
<1>1. PrependMessages(c, page) = With(c, kept, R, first)
  BY DEF PrependMessages, With
<1>2. /\ s \in Seq(Lines(now)) /\ Cap \in Nat /\ Cap > 0 /\ Len(s) \in Nat
      /\ c.firstUnread \in Nat /\ c.firstUnread =< Len(s)
      /\ c.reactions \in SUBSET (1..Last) /\ c.reactions \in SUBSET Held(s)
      /\ \A i \in 1..c.firstUnread - 1 : s[i].past \/ s[i].at \notin m
  BY Parts
<1> HIDE DEF s
<1>3. /\ all \in Seq(Lines(now)) /\ Len(all) = Len(s) + Len(page) /\ Len(page) \in Nat
      /\ \A i \in 1..Len(all) : all[i] = IF i =< Len(page) THEN page[i] ELSE s[i - Len(page)]
  BY <1>2, JoinLines
<1> HIDE DEF all
<1>4. /\ kept \in Seq(Lines(now)) /\ Len(kept) \in Nat /\ Len(kept) =< Cap /\ Len(kept) =< Len(all)
      /\ \A i \in 1..Len(kept) : kept[i] = all[i]
  BY <1>3, KeepLines, CapAssumption
<1>5. R = c.reactions \ {all[i].at : i \in Len(kept) + 1 .. Len(all)} /\ R \in SUBSET (1..Last)
  BY <1>2
<1> HIDE DEF kept, R
<1>6. Len(all) \in Nat /\ \A i \in 1..Len(s) : all[Len(page) + i] = s[i]
  BY <1>2, <1>3
<1>7. \A t \in c.reactions : \E i \in 1..Len(s) : s[i].at = t
  BY <1>2, HeldAt
<1>8. /\ first \in Nat /\ first =< Len(kept) /\ (c.firstUnread = 0 => first = 0)
      /\ (first > 0 => first = c.firstUnread + Len(page))
  BY <1>2, <1>3, <1>4
<1> HIDE DEF first
<1>9. ASSUME NEW t \in R
      PROVE  \E i \in 1..Len(kept) : kept[i].at = t
  <2>1. PICK i \in 1..Len(s) : s[i].at = t
    BY <1>5, <1>7
  <2>2. Len(page) + i \in 1..Len(all) /\ all[Len(page) + i].at = t
    BY <1>2, <1>3, <1>6, <2>1
  <2>3. Len(page) + i =< Len(kept)
    BY <1>4, <1>5, <2>2
  <2>4. Len(page) + i \in 1..Len(kept)
    BY <1>4, <2>2, <2>3
  <2>5. kept[Len(page) + i] = all[Len(page) + i]
    BY <1>4, <2>4
  <2>6. QED
    BY <2>2, <2>4, <2>5
<1>10. ASSUME NEW i \in 1..first - 1
       PROVE  kept[i].past \/ kept[i].at \notin m
  <2>1. i \in 1..Len(kept) /\ i \in 1..Len(all) /\ kept[i] = all[i]
    BY <1>4, <1>6, <1>8
  <2>2. CASE i =< Len(page)
    <3>1. kept[i] = page[i] /\ i \in 1..Len(page)
      BY <1>3, <2>1, <2>2
    <3>2. QED
      BY <3>1
  <2>3. CASE i > Len(page)
    <3>1. i - Len(page) \in 1..c.firstUnread - 1
      BY <1>2, <1>3, <1>8, <2>3
    <3>2. kept[i] = s[i - Len(page)]
      BY <1>3, <2>1, <2>3
    <3>3. QED
      BY <1>2, <3>1, <3>2
  <2>4. QED
    BY <1>3, <2>2, <2>3
<1>11. R \subseteq Held(kept)
  BY <1>4, <1>9, HeldAt
<1>12. Fits(c, m, now, kept, R, first)
  BY <1>4, <1>5, <1>8, <1>10, <1>11 DEF Fits
<1>13. QED
  BY <1>1, <1>12, ReplaceOK

\* Clearing the badge of a channel clears what was missed.
LEMMA ClearOK ==
  ASSUME NEW c, NEW m, NEW now, ChannelOK(c, m, now)
  PROVE  /\ ChannelOK(MarkRead(c), {}, now)
         /\ MarkRead(c).unread = 0 /\ MarkRead(c).mentions = 0 /\ MarkRead(c).firstUnread = 0
<1>1. Cardinality({}) = 0 /\ {} \cap Pings = {}
  BY FS_EmptySet
<1>2. c \in Channel
  BY DEF ChannelOK
<1>3. CASE c.unread = 0 /\ c.mentions = 0
  <2>1. MarkRead(c) = c /\ c.firstUnread = 0
    BY <1>3 DEF MarkRead, ChannelOK
  <2>2. QED
    BY <1>1, <1>3, <2>1 DEF ChannelOK, NoneBefore
<1>4. CASE ~(c.unread = 0 /\ c.mentions = 0)
  <2> DEFINE r == Cleared(c)
  <2>1. MarkRead(c) = r
    BY <1>4 DEF MarkRead
  <2>2. /\ r.messages = c.messages /\ r.reactions = c.reactions /\ r.firstUnread = 0
        /\ r.unread = 0 /\ r.mentions = 0
    BY <1>2 DEF Cleared, Channel
  <2>3. r \in Channel
    <3>1. 0 \in 0..Last /\ 0 \in 0..Cap
      BY LineAssumption, CapAssumption
    <3>2. QED
      BY <1>2, <3>1 DEF Cleared, Channel
  <2> HIDE DEF r
  <2>4. Len(c.messages) \in Nat
    BY Parts
  <2>5. QED
    BY <1>1, <2>1, <2>2, <2>3, <2>4 DEF ChannelOK, NoneBefore
<1>5. QED
  BY <1>3, <1>4

\* A channel whose badge is clear has missed nothing.
LEMMA NoneMissed ==
  ASSUME NEW c, NEW m, NEW now, ChannelOK(c, m, now), c.unread = 0
  PROVE  m = {} /\ c.mentions = 0 /\ c.firstUnread = 0
<1>1. now \in 0..Last /\ m \in SUBSET (1..now) /\ Cardinality(m) = 0
  BY DEF ChannelOK
<1>2. m = {}
  BY <1>1, Finite
<1>3. m \cap Pings = {} /\ Cardinality({}) = 0
  BY <1>2, FS_EmptySet
<1>4. QED
  BY <1>2, <1>3 DEF ChannelOK

\* Time passes.
LEMMA LaterOK ==
  ASSUME NEW c, NEW m, NEW now, ChannelOK(c, m, now), now < Last
  PROVE  ChannelOK(c, m, now + 1) /\ now + 1 \in 1..Last
<1>1. now \in Nat /\ Last \in Nat /\ now + 1 \in 0..Last /\ now + 1 \in 1..Last
  BY LineAssumption DEF ChannelOK
<1>2. Lines(now) \subseteq Lines(now + 1)
  BY <1>1 DEF Lines
<1>3. c.messages \in Seq(Lines(now)) /\ m \subseteq 1..now
  BY DEF ChannelOK
<1>4. c.messages \in Seq(Lines(now + 1))
  BY <1>2, <1>3, SeqMono, Zenon
<1>5. m \subseteq 1..(now + 1)
  BY <1>1, <1>3
<1>6. QED
  BY <1>1, <1>4, <1>5 DEF ChannelOK

\* A new line comes last, and is the only one said now.
LEMMA AddLineOK ==
  ASSUME NEW c, NEW m, NEW now, ChannelOK(c, m, now), now < Last
  PROVE  LET a == AddMessage(c, [at |-> now + 1, past |-> FALSE])
         IN  /\ ChannelOK(a, m, now + 1)
             /\ a.unread = c.unread /\ a.mentions = c.mentions
             /\ c.firstUnread = 0 => a.firstUnread = 0
             /\ Len(a.messages) > 0
             /\ \A i \in 1..Len(a.messages) - 1 : a.messages[i].at =< now
<1> DEFINE s == c.messages
           p == <<[at |-> now + 1, past |-> FALSE]>>
           all == s \o p
           kept == LastOf(all)
           a == AddMessages(c, p)
<1>1. ChannelOK(c, m, now + 1) /\ now + 1 \in 1..Last /\ now \in Nat
  <2>1. now \in Nat
    BY LineAssumption DEF ChannelOK
  <2>2. QED
    BY <2>1, LaterOK
<1>2. p \in Seq(Lines(now + 1)) /\ Len(p) = 1
  <2>1. [at |-> now + 1, past |-> FALSE] \in Lines(now + 1)
    BY <1>1 DEF Lines
  <2>2. QED
    BY <2>1
<1> HIDE DEF p
<1>3. /\ ChannelOK(a, m, now + 1) /\ a.unread = c.unread /\ a.mentions = c.mentions
      /\ c.firstUnread = 0 => a.firstUnread = 0
  BY <1>1, <1>2, AddOK
<1>4. c \in Channel /\ s \in Seq(Lines(now)) /\ s \in Seq(Lines(now + 1)) /\ Len(s) \in Nat
  BY <1>1, Parts DEF ChannelOK
<1>5. a.messages = kept
  BY <1>4 DEF AddMessages, Channel
<1>6. \A i \in 1..Len(s) : s[i].at =< now
  <2>1. \A l \in Lines(now) : l.at =< now
    BY <1>1 DEF Lines
  <2>2. \A i \in 1..Len(s) : s[i] \in Lines(now)
    BY <1>4, ElementOfSeq
  <2>3. QED
    BY <2>1, <2>2
<1> HIDE DEF s, a
<1>7. /\ all \in Seq(Lines(now + 1)) /\ Len(all) = Len(s) + 1
      /\ \A i \in 1..Len(s) : all[i] = s[i]
  <2>1. /\ all \in Seq(Lines(now + 1)) /\ Len(all) = Len(s) + Len(p)
        /\ \A i \in 1..Len(all) : all[i] = IF i =< Len(s) THEN s[i] ELSE p[i - Len(s)]
    BY <1>2, <1>4, JoinLines
  <2> HIDE DEF all
  <2>2. QED
    BY <1>2, <1>4, <2>1
<1> HIDE DEF all
<1>8. /\ Over(all) \in Nat /\ Len(kept) = Len(all) - Over(all) /\ Len(kept) > 0
      /\ \A i \in 1..Len(kept) : kept[i] = all[Over(all) + i]
  <2>1. /\ Over(all) \in Nat /\ Len(kept) = Len(all) - Over(all)
        /\ (Over(all) > 0 => Len(all) - Over(all) = Cap)
        /\ \A i \in 1..Len(kept) : kept[i] = all[Over(all) + i]
    BY <1>7, KeepLines
  <2> HIDE DEF kept
  <2>2. QED
    BY <1>4, <1>7, <2>1, CapAssumption
<1> HIDE DEF kept
<1>9. \A i \in 1..Len(kept) - 1 : kept[i].at =< now
  <2> SUFFICES ASSUME NEW i \in 1..Len(kept) - 1
               PROVE  kept[i].at =< now
    OBVIOUS
  <2>1. i \in 1..Len(kept) /\ Over(all) + i \in 1..Len(s)
    BY <1>4, <1>7, <1>8
  <2>2. kept[i] = s[Over(all) + i]
    BY <1>7, <1>8, <2>1
  <2>3. QED
    BY <1>6, <2>1, <2>2
<1>10. QED
  BY <1>3, <1>5, <1>8, <1>9 DEF a, p, AddMessage

\* The badge counts the line that was just added as missed.
LEMMA BadgeOK ==
  ASSUME NEW c, NEW m, NEW now, ChannelOK(c, m, now), now < Last,
         NEW a, ChannelOK(a, m, now + 1), Len(a.messages) > 0,
         \A i \in 1..Len(a.messages) - 1 : a.messages[i].at =< now
  PROVE  ChannelOK(Badged(a, now + 1), m \cup {now + 1}, now + 1)
<1> DEFINE at == now + 1
           r == Badged(a, at)
           n == m \cup {at}
<1>1. a \in Channel /\ now \in Nat /\ at \in 1..Last /\ Last \in Nat /\ m \subseteq 1..now /\ at \notin m
  BY LineAssumption DEF ChannelOK
<1>2. /\ IsFiniteSet(m) /\ Cardinality(m) \in Nat
      /\ IsFiniteSet(m \cap Pings) /\ Cardinality(m \cap Pings) \in Nat
  <2>1. now \in 0..Last /\ m \in SUBSET (1..now)
    BY DEF ChannelOK
  <2>2. /\ IsFiniteSet(m) /\ Cardinality(m) \in 0..Last
        /\ IsFiniteSet(m \cap Pings) /\ Cardinality(m \cap Pings) \in 0..Last
    BY <2>1, Finite, Zenon
  <2>3. QED
    BY <2>2
<1>3. n \subseteq 1..at /\ Cardinality(n) \in 0..Last /\ Cardinality(n \cap Pings) \in 0..Last
  <2>1. at \in 0..Last /\ n \in SUBSET (1..at)
    BY <1>1
  <2>2. QED
    BY <2>1, Finite
<1>4. Cardinality(n) = Cardinality(m) + 1
  BY <1>1, <1>2, FS_AddElement
<1>5. Cardinality(n \cap Pings) = IF at \in Pings THEN Cardinality(m \cap Pings) + 1
                                                 ELSE Cardinality(m \cap Pings)
  <2>1. CASE at \in Pings
    <3>1. n \cap Pings = (m \cap Pings) \cup {at} /\ at \notin m \cap Pings
      BY <1>1, <2>1
    <3>2. QED
      BY <1>2, <2>1, <3>1, FS_AddElement
  <2>2. CASE at \notin Pings
    <3>1. n \cap Pings = m \cap Pings
      BY <2>2
    <3>2. QED
      BY <2>2, <3>1
  <2>3. QED
    BY <2>1, <2>2
<1>6. /\ r.messages = a.messages /\ r.reactions = a.reactions
      /\ r.unread = a.unread + 1
      /\ r.mentions = IF at \in Pings THEN a.mentions + 1 ELSE a.mentions
      /\ r.firstUnread = IF a.unread = 0 THEN Len(a.messages) ELSE a.firstUnread
  BY <1>1 DEF Badged, Channel
<1>7. /\ a.unread = Cardinality(m) /\ a.mentions = Cardinality(m \cap Pings)
      /\ Len(a.messages) \in Nat /\ a.firstUnread \in Nat /\ a.firstUnread =< Len(a.messages)
      /\ Len(a.messages) =< Cap /\ Cap \in Nat
      /\ \A i \in 1..a.firstUnread - 1 : a.messages[i].past \/ a.messages[i].at \notin m
  BY Parts DEF ChannelOK
<1>8. r.unread = Cardinality(n) /\ r.mentions = Cardinality(n \cap Pings)
  BY <1>4, <1>5, <1>6, <1>7
<1>9. r.firstUnread \in Nat /\ r.firstUnread =< Len(a.messages) /\ r.firstUnread \in 0..Cap
  BY <1>6, <1>7
<1>10. r \in Channel
  <2>1. r = [a EXCEPT !.firstUnread = r.firstUnread, !.unread = r.unread, !.mentions = r.mentions]
    <3>1. r = [a EXCEPT !.firstUnread = IF a.unread = 0 THEN Len(a.messages) ELSE a.firstUnread,
                        !.unread = a.unread + 1,
                        !.mentions = IF at \in Pings THEN a.mentions + 1 ELSE a.mentions]
      BY DEF Badged
    <3>2. QED
      BY <1>1, <1>6, <3>1 DEF Channel
  <2>2. r.firstUnread \in 0..Cap /\ r.unread \in 0..Last /\ r.mentions \in 0..Last
    BY <1>3, <1>8, <1>9
  <2> HIDE DEF r
  <2>3. QED
    BY <1>1, <2>1, <2>2 DEF Channel
<1> HIDE DEF r
<1>11. ASSUME NEW i \in 1..r.firstUnread - 1
       PROVE  r.messages[i].past \/ r.messages[i].at \notin n
  <2>1. i \in 1..Len(a.messages) - 1 /\ a.messages[i].at =< now
    BY <1>7, <1>9
  <2>2. a.messages[i].at # at
    BY <1>1, <2>1
  <2>3. CASE a.unread = 0
    <3>1. m = {}
      BY <2>3, NoneMissed
    <3>2. QED
      BY <1>6, <2>2, <3>1
  <2>4. CASE a.unread # 0
    <3>1. i \in 1..a.firstUnread - 1
      BY <1>6, <2>4
    <3>2. QED
      BY <1>6, <1>7, <2>2, <3>1
  <2>5. QED
    BY <2>3, <2>4
<1>12. r.unread # 0
  BY <1>2, <1>4, <1>8
<1>13. NoneBefore(r, n)
  BY <1>11 DEF NoneBefore
<1>14. /\ r.messages \in Seq(Lines(at)) /\ Len(r.messages) =< Cap /\ at \in 0..Last
       /\ r.reactions \subseteq Held(r.messages) /\ r.firstUnread =< Len(r.messages)
  BY <1>1, <1>6, <1>7, <1>9 DEF ChannelOK
<1>15. QED
  BY <1>3, <1>8, <1>10, <1>12, <1>13, <1>14 DEF ChannelOK, r

\* A channel that differs in what was read elsewhere only.
LEMMA SameOK ==
  ASSUME NEW c, NEW m, NEW now, ChannelOK(c, m, now), NEW ts \in 0..Last
  PROVE  /\ ChannelOK([c EXCEPT !.lastRead = ts], m, now)
         /\ [c EXCEPT !.lastRead = ts].unread = c.unread
         /\ [c EXCEPT !.lastRead = ts].mentions = c.mentions
         /\ [c EXCEPT !.lastRead = ts].firstUnread = c.firstUnread
<1> DEFINE d == [c EXCEPT !.lastRead = ts]
<1>1. c \in Channel
  BY DEF ChannelOK
<1>2. d \in Channel
  BY <1>1 DEF Channel
<1>3. /\ d.messages = c.messages /\ d.reactions = c.reactions /\ d.unread = c.unread
      /\ d.mentions = c.mentions /\ d.firstUnread = c.firstUnread
  BY <1>1 DEF Channel
<1> HIDE DEF d
<1>4. ChannelOK(d, m, now)
  BY <1>2, <1>3 DEF ChannelOK, NoneBefore
<1>5. QED
  BY <1>3, <1>4 DEF d

----------------------------------------------------------------------------
(* The actions.                                                            *)

\* The badge of a channel: none at all.
NoBadge(c) == c.unread = 0 /\ c.mentions = 0 /\ c.firstUnread = 0

\* A live line, with the time it is said.
LEMMA PostOK ==
  ASSUME Inv, server.now < Last, server'.now = server.now + 1,
         PostMessage([at |-> server'.now, past |-> FALSE])
  PROVE  /\ ChannelOK(channel', missed', server'.now)
         /\ view # "hidden" => NoBadge(channel')
         /\ marks' = marks \/ marks' = Queued
<1> DEFINE now == server.now
           added == AddMessage(channel, [at |-> now + 1, past |-> FALSE])
           counts == now + 1 \in server'.said
           badged == IF counts /\ view # "main" THEN Badged(added, now + 1) ELSE added
<1>1. ChannelOK(channel, missed, now) /\ view \in {"hidden", "main", "pane"}
      /\ (view # "hidden" => NoBadge(channel))
  BY DEF Inv, VisibleHasNoBadge, NoBadge
<1>2. /\ channel' = (IF view = "pane" THEN MarkRead(badged) ELSE badged)
      /\ missed' = IF counts /\ view = "hidden" THEN missed \cup {now + 1} ELSE missed
      /\ marks' = marks \/ marks' = Queued
  BY DEF PostMessage, QueueIf
<1>3. /\ ChannelOK(added, missed, now + 1)
      /\ added.unread = channel.unread /\ added.mentions = channel.mentions
      /\ channel.firstUnread = 0 => added.firstUnread = 0
      /\ Len(added.messages) > 0
      /\ \A i \in 1..Len(added.messages) - 1 : added.messages[i].at =< now
  BY <1>1, AddLineOK
<1>4. ChannelOK(Badged(added, now + 1), missed \cup {now + 1}, now + 1)
  <2> HIDE DEF added
  <2>1. QED
    BY <1>1, <1>3, BadgeOK
<1> HIDE DEF added, now
<1>5. CASE view = "hidden"
  <2>1. channel' = badged
    BY <1>2, <1>5
  <2>2. QED
    BY <1>2, <1>3, <1>4, <1>5, <2>1 DEF now
<1>6. CASE view = "main"
  <2>1. channel' = added /\ missed' = missed
    BY <1>2, <1>6
  <2>2. QED
    BY <1>1, <1>2, <1>3, <1>6, <2>1 DEF NoBadge, now
<1>7. CASE view = "pane"
  <2>1. missed = {} /\ missed' = {}
    BY <1>1, <1>2, <1>7, NoneMissed DEF NoBadge
  <2>2. channel' = MarkRead(badged)
    BY <1>2, <1>7
  <2>3. PICK m : ChannelOK(badged, m, now + 1)
    BY <1>3, <1>4
  <2> HIDE DEF badged
  <2>4. ChannelOK(MarkRead(badged), {}, now + 1) /\ NoBadge(MarkRead(badged))
    BY <2>3, ClearOK DEF NoBadge
  <2>5. QED
    BY <1>2, <2>1, <2>2, <2>4 DEF now
<1>8. QED
  BY <1>1, <1>5, <1>6, <1>7

\* What is left to show of the invariant once the line is in.
LEMMA PostedOK ==
  ASSUME Inv, server' \in Server, server'.said \subseteq 1..server'.now,
         ChannelOK(channel', missed', server'.now),
         view # "hidden" => NoBadge(channel'),
         marks' = marks \/ marks' = Queued,
         UNCHANGED <<uiActive, view, divider>>
  PROVE  Inv'
<1>1. marks' \in [pending : BOOLEAN, queued : BOOLEAN] /\ HeldMarksAreQueued'
  <2>1. Queued \in [pending : BOOLEAN, queued : BOOLEAN] /\ Queued.queued
    BY DEF Queued
  <2>2. CASE marks' = marks
    BY <2>2, Zenon DEF Inv, HeldMarksAreQueued
  <2>3. CASE marks' = Queued
    BY <2>1, <2>3, Zenon DEF HeldMarksAreQueued
  <2>4. QED
    BY <2>2, <2>3
<1>2. VisibleHasNoBadge'
  BY DEF VisibleHasNoBadge, NoBadge
<1>3. QED
  BY <1>1, <1>2 DEF Inv

LEMMA SayOK == Inv /\ Say => Inv'
<1> SUFFICES ASSUME Inv, Say
             PROVE  Inv'
  OBVIOUS
<1>1. /\ server \in Server /\ server.said \subseteq 1..server.now /\ server.now < Last
      /\ server.now \in Nat /\ Last \in Nat
  BY LineAssumption DEF Inv, Say, Server
<1>2. PICK chat \in BOOLEAN :
        server' = [server EXCEPT !.now = @ + 1,
                                 !.said = IF chat THEN @ \cup {server.now + 1} ELSE @]
  BY DEF Say
<1>3. /\ server'.now = server.now + 1
      /\ server'.said = IF chat THEN server.said \cup {server.now + 1} ELSE server.said
  BY <1>1, <1>2 DEF Server
<1>4. server' \in Server /\ server'.said \subseteq 1..server'.now
  <2>1. server.now + 1 \in Old..Last /\ server.now + 1 \in 1..Last
    BY <1>1, LineAssumption DEF Server
  <2>2. server'.said \subseteq 1..(server.now + 1) /\ server'.said \subseteq 1..Last
    BY <1>1, <1>3, <2>1
  <2>3. QED
    BY <1>1, <1>2, <1>3, <2>1, <2>2 DEF Server
<1>5. UNCHANGED <<uiActive, view, divider>>
  BY DEF Say
<1>6. CASE server.joined
  <2>1. PostMessage([at |-> server'.now, past |-> FALSE])
    BY <1>6 DEF Say
  <2>2. /\ ChannelOK(channel', missed', server'.now)
        /\ view # "hidden" => NoBadge(channel')
        /\ marks' = marks \/ marks' = Queued
    BY <1>1, <1>3, <2>1, PostOK
  <2>3. QED
    BY <1>4, <1>5, <2>2, PostedOK
<1>7. CASE ~server.joined
  <2>1. UNCHANGED <<channel, marks, missed>>
    BY <1>7 DEF Say
  <2>2. ChannelOK(channel, missed, server.now + 1)
    BY <1>1, LaterOK DEF Inv
  <2>3. QED
    BY <1>3, <1>4, <1>5, <2>1, <2>2 DEF Inv, VisibleHasNoBadge, HeldMarksAreQueued
<1>8. QED
  BY <1>6, <1>7

LEMMA JoinOK == Inv /\ Join => Inv'
<1> SUFFICES ASSUME Inv, Join
             PROVE  Inv'
  OBVIOUS
<1>1. /\ server \in Server /\ server.said \subseteq 1..server.now /\ server.now < Last
      /\ server.now \in Nat /\ Last \in Nat
      /\ server' = [server EXCEPT !.now = @ + 1, !.joined = TRUE]
  BY LineAssumption DEF Inv, Join, Server
<1>2. server'.now = server.now + 1 /\ server'.said = server.said
  BY <1>1 DEF Server
<1>3. server' \in Server /\ server'.said \subseteq 1..server'.now
  <2>1. server.now + 1 \in Old..Last
    BY <1>1, LineAssumption DEF Server
  <2>2. server'.said \subseteq 1..(server.now + 1)
    BY <1>1, <1>2
  <2>3. QED
    BY <1>1, <1>2, <2>1, <2>2 DEF Server
<1>4. UNCHANGED <<uiActive, view, divider>> /\ PostMessage([at |-> server'.now, past |-> FALSE])
  BY DEF Join
<1>5. /\ ChannelOK(channel', missed', server'.now)
      /\ view # "hidden" => NoBadge(channel')
      /\ marks' = marks \/ marks' = Queued
  BY <1>1, <1>2, <1>4, PostOK
<1>6. QED
  BY <1>3, <1>4, <1>5, PostedOK

LEMMA LinkLostOK == Inv /\ LinkLost => Inv'
<1> SUFFICES ASSUME Inv, LinkLost
             PROVE  Inv'
  OBVIOUS
<1>1. server' \in Server /\ server'.said = server.said /\ server'.now = server.now
  BY DEF Inv, LinkLost, Server
<1>2. UNCHANGED <<channel, marks, uiActive, view, divider, missed>>
  BY DEF LinkLost
<1>3. QED
  BY <1>1, <1>2 DEF Inv, VisibleHasNoBadge, HeldMarksAreQueued

LEMMA OnHistoryOK == Inv /\ OnHistory => Inv'
<1> SUFFICES ASSUME Inv, OnHistory
             PROVE  Inv'
  OBVIOUS
<1> DEFINE now == server.now
           older == {t \in server.said : channel.messages # <<>> /\ t < channel.messages[1].at}
<1>1. server \in Server /\ server.said \subseteq 1..now /\ ChannelOK(channel, missed, now)
      /\ now \in Nat /\ server.replies < MaxReplies
      /\ (view # "hidden" => NoBadge(channel))
  BY LineAssumption DEF Inv, OnHistory, VisibleHasNoBadge, NoBadge, ChannelOK
<1>2. UNCHANGED <<uiActive, view, divider, missed>> /\ server' = [server EXCEPT !.replies = @ + 1]
  BY DEF OnHistory
<1>3. /\ server' \in Server /\ server'.now = now /\ server'.said \subseteq 1..server'.now
  <2>1. server.replies + 1 \in 0..MaxReplies
    BY <1>1, WindowAssumption DEF Server
  <2>2. QED
    BY <1>1, <1>2, <2>1 DEF Server
<1>4. PICK page \in Newest(server.said) \cup Newest(older) :
        \/ /\ channel' = PrependMessages(channel, AsHistory(page))
           /\ UNCHANGED marks
        \/ LET added == AddMessages(channel, AsHistory(page))
           IN  /\ channel' = IF view = "pane" THEN MarkRead(added) ELSE added
               /\ QueueIf(view = "pane")
  BY DEF OnHistory
<1> DEFINE h == AsHistory(page)
<1>5. h \in Seq(Lines(now)) /\ \A i \in 1..Len(h) : h[i].past
  <2>1. PICK S : S \subseteq 1..now /\ page \in Newest(S)
    BY <1>1, <1>4
  <2>2. h \in Seq([at : S, past : {TRUE}]) /\ \A i \in 1..Len(h) : h[i].past
    BY <2>1, PageIsHistory
  <2>3. [at : S, past : {TRUE}] \subseteq Lines(now)
    BY <2>1 DEF Lines
  <2> HIDE DEF h
  <2>4. QED
    BY <2>2, <2>3, SeqMono
<1> HIDE DEF h
<1>6. CASE channel' = PrependMessages(channel, h) /\ UNCHANGED marks
  <2>1. /\ ChannelOK(PrependMessages(channel, h), missed, now)
        /\ NoBadge(channel) => NoBadge(PrependMessages(channel, h))
    BY <1>1, <1>5, PrependOK DEF NoBadge
  <2>2. QED
    BY <1>1, <1>2, <1>3, <1>6, <2>1, PostedOK
<1>7. CASE /\ channel' = IF view = "pane" THEN MarkRead(AddMessages(channel, h))
                                          ELSE AddMessages(channel, h)
           /\ QueueIf(view = "pane")
  <2> DEFINE added == AddMessages(channel, h)
  <2>1. ChannelOK(added, missed, now) /\ (NoBadge(channel) => NoBadge(added))
    BY <1>1, <1>5, AddOK DEF NoBadge
  <2>2. marks' = marks \/ marks' = Queued
    BY <1>7 DEF QueueIf
  <2> HIDE DEF added
  <2>3. CASE view = "pane"
    <3>1. missed = {}
      BY <1>1, <2>3, NoneMissed DEF NoBadge
    <3>2. ChannelOK(MarkRead(added), {}, now) /\ NoBadge(MarkRead(added))
      BY <2>1, ClearOK DEF NoBadge
    <3>3. channel' = MarkRead(added)
      BY <1>7, <2>3 DEF added
    <3>4. QED
      BY <1>2, <1>3, <2>2, <3>1, <3>2, <3>3, PostedOK
  <2>4. CASE view # "pane"
    <3>1. channel' = added
      BY <1>7, <2>4 DEF added
    <3>2. QED
      BY <1>1, <1>2, <1>3, <2>1, <2>2, <3>1, PostedOK
  <2>5. QED
    BY <2>3, <2>4
<1>8. QED
  BY <1>4, <1>6, <1>7 DEF h

LEMMA OnReactOK == \A at \in 1..Last : Inv /\ OnReact(at) => Inv'
<1> SUFFICES ASSUME NEW at \in 1..Last, Inv, OnReact(at)
             PROVE  Inv'
  OBVIOUS
<1>1. ChannelOK(channel, missed, server.now) /\ channel \in Channel
  BY DEF Inv, ChannelOK
<1>2. /\ channel' = [channel EXCEPT !.reactions = @ \cup {at}] /\ at \in Held(channel.messages)
      /\ UNCHANGED <<server, marks, uiActive, view, divider, missed>>
  BY DEF OnReact
<1>3. /\ channel'.messages = channel.messages /\ channel'.unread = channel.unread
      /\ channel'.mentions = channel.mentions /\ channel'.firstUnread = channel.firstUnread
      /\ channel'.reactions = channel.reactions \cup {at}
  BY <1>1, <1>2 DEF Channel
<1>4. channel' \in Channel
  BY <1>1, <1>2 DEF Channel
<1>5. ChannelOK(channel', missed, server.now)
  BY <1>1, <1>2, <1>3, <1>4 DEF ChannelOK, NoneBefore
<1>6. VisibleHasNoBadge' /\ HeldMarksAreQueued'
  BY <1>2, <1>3 DEF Inv, VisibleHasNoBadge, HeldMarksAreQueued
<1>7. QED
  BY <1>2, <1>5, <1>6 DEF Inv

LEMMA LookOK ==
  ASSUME Inv, Look
  PROVE  /\ ChannelOK(channel', missed', server.now)
         /\ NoBadge(channel')
         /\ marks' = marks \/ marks' = Queued
<1>1. ChannelOK(channel, missed, server.now)
  BY DEF Inv
<1>2. channel' = MarkRead(channel) /\ missed' = {} /\ (marks' = marks \/ marks' = Queued)
  BY DEF Look, QueueIf
<1>3. QED
  BY <1>1, <1>2, ClearOK DEF NoBadge

\* What is left to show of the invariant once the buffer is looked at.
LEMMA LookedOK ==
  ASSUME Inv, ChannelOK(channel', missed', server.now), NoBadge(channel'),
         marks' = marks \/ marks' = Queued, UNCHANGED <<server, uiActive>>,
         view' \in {"hidden", "main", "pane"}, divider' \in 0..Cap
  PROVE  Inv'
<1>1. marks' \in [pending : BOOLEAN, queued : BOOLEAN] /\ HeldMarksAreQueued'
  <2>1. Queued \in [pending : BOOLEAN, queued : BOOLEAN] /\ Queued.queued
    BY DEF Queued
  <2>2. CASE marks' = marks
    BY <2>2, Zenon DEF Inv, HeldMarksAreQueued
  <2>3. CASE marks' = Queued
    BY <2>1, <2>3, Zenon DEF HeldMarksAreQueued
  <2>4. QED
    BY <2>2, <2>3
<1>2. VisibleHasNoBadge'
  BY DEF VisibleHasNoBadge, NoBadge
<1>3. QED
  BY <1>1, <1>2 DEF Inv

LEMMA SwitchToOK == Inv /\ SwitchTo => Inv'
<1> SUFFICES ASSUME Inv, SwitchTo
             PROVE  Inv'
  OBVIOUS
<1>1. /\ ChannelOK(channel', missed', server.now) /\ NoBadge(channel')
      /\ marks' = marks \/ marks' = Queued
  BY LookOK DEF SwitchTo
<1>2. divider' \in 0..Cap
  <2>1. channel'.firstUnread = 0 /\ Cap \in Nat
    BY <1>1, CapAssumption DEF NoBadge
  <2>2. QED
    BY <2>1 DEF SwitchTo, DividerOf
<1>3. view' \in {"hidden", "main", "pane"} /\ UNCHANGED <<server, uiActive>>
  BY DEF SwitchTo
<1>4. QED
  BY <1>1, <1>2, <1>3, LookedOK

LEMMA OpenPaneOK == Inv /\ OpenPane => Inv'
<1> SUFFICES ASSUME Inv, OpenPane
             PROVE  Inv'
  OBVIOUS
<1>1. /\ ChannelOK(channel', missed', server.now) /\ NoBadge(channel')
      /\ marks' = marks \/ marks' = Queued
  BY LookOK DEF OpenPane
<1>2. /\ view' \in {"hidden", "main", "pane"} /\ UNCHANGED <<server, uiActive>>
      /\ divider' \in 0..Cap
  BY DEF OpenPane, Inv
<1>3. QED
  BY <1>1, <1>2, LookedOK

LEMMA LeaveOK == Inv /\ Leave => Inv'
BY DEF Inv, Leave, VisibleHasNoBadge, HeldMarksAreQueued

LEMMA SetUiActiveOK == \A active \in BOOLEAN : Inv /\ SetUiActive(active) => Inv'
<1> SUFFICES ASSUME NEW active \in BOOLEAN, Inv, SetUiActive(active)
             PROVE  Inv'
  OBVIOUS
<1>1. uiActive' = active /\ UNCHANGED <<server, channel, view, divider, missed>>
      /\ marks' = IF active /\ marks.pending THEN Queued ELSE marks
  BY DEF SetUiActive
<1>2. Queued \in [pending : BOOLEAN, queued : BOOLEAN] /\ Queued.queued
  BY DEF Queued
<1>3. marks' \in [pending : BOOLEAN, queued : BOOLEAN]
  BY <1>1, <1>2 DEF Inv
<1>4. HeldMarksAreQueued'
  <2>1. CASE active /\ marks.pending
    BY <1>1, <1>2, <2>1, Zenon DEF HeldMarksAreQueued
  <2>2. CASE ~(active /\ marks.pending)
    BY <1>1, <2>2, Zenon DEF HeldMarksAreQueued
  <2>3. QED
    BY <2>1, <2>2
<1>5. QED
  BY <1>1, <1>3, <1>4 DEF Inv, VisibleHasNoBadge

\* The last line has a time.
LEMMA LastLine ==
  ASSUME NEW c, NEW m, NEW now, ChannelOK(c, m, now), Len(c.messages) > 0
  PROVE  c.messages[Len(c.messages)].at \in 0..Last
<1> DEFINE s == c.messages
           L == [at : 1..Last, past : BOOLEAN]
<1>1. s \in Seq(L)
  BY DEF ChannelOK, Channel
<1>2. \A l \in L : l.at \in 0..Last
  BY LineAssumption
<1> HIDE DEF L, s
<1>3. Len(s) \in 1..Len(s)
  <2>1. Len(s) \in Nat
    BY <1>1, LenProperties
  <2>2. QED
    BY <2>1 DEF s
<1>4. s[Len(s)] \in L
  BY <1>1, <1>3, ElementOfSeq
<1>5. QED
  BY <1>2, <1>4 DEF s

LEMMA FlushReadMarksOK == Inv /\ FlushReadMarks => Inv'
<1> SUFFICES ASSUME Inv, FlushReadMarks
             PROVE  Inv'
  OBVIOUS
<1> DEFINE n    == Len(channel.messages)
           ts   == channel.messages[n].at
           sent == uiActive /\ marks.pending /\ n > 0 /\ ts > channel.lastRead
<1>1. /\ marks' = [pending |-> marks.pending /\ ~uiActive, queued |-> FALSE]
      /\ channel' = IF sent THEN [channel EXCEPT !.lastRead = ts] ELSE channel
      /\ server' = IF sent /\ server.joined /\ ts > server.marker
                     THEN [server EXCEPT !.marker = ts] ELSE server
      /\ UNCHANGED <<uiActive, view, divider, missed>>
  BY DEF FlushReadMarks
<1>2. ChannelOK(channel, missed, server.now) /\ server \in Server /\ server.said \subseteq 1..server.now
  BY DEF Inv
<1>3. sent => ts \in 0..Last
  BY <1>2, LastLine
<1> HIDE DEF ts, sent
<1>4. /\ ChannelOK(channel', missed, server.now) /\ channel'.unread = channel.unread
      /\ channel'.mentions = channel.mentions /\ channel'.firstUnread = channel.firstUnread
  BY <1>1, <1>2, <1>3, SameOK
<1>5. server' \in Server /\ server'.now = server.now /\ server'.said = server.said
  BY <1>1, <1>2, <1>3 DEF Server
<1>6. /\ marks' \in [pending : BOOLEAN, queued : BOOLEAN]
      /\ marks'.pending = (marks.pending /\ ~uiActive)
  BY <1>1
<1>7. HeldMarksAreQueued'
  BY <1>1, <1>6, Zenon DEF HeldMarksAreQueued
<1>8. VisibleHasNoBadge'
  BY <1>1, <1>4 DEF Inv, VisibleHasNoBadge
<1>9. QED
  BY <1>1, <1>2, <1>4, <1>5, <1>6, <1>7, <1>8 DEF Inv

\* A marker of the server's, whoever set it.
LEMMA MarkerOK ==
  ASSUME Inv, NEW ts \in 0..Last, OnReadMarker(ts), server' \in Server,
         server'.now = server.now, server'.said = server.said,
         UNCHANGED <<marks, uiActive, view, divider>>
  PROVE  Inv'
<1>1. ChannelOK(channel, missed, server.now)
  BY DEF Inv
<1>2. CASE ts =< channel.lastRead
  <2>1. UNCHANGED <<channel, missed>>
    BY <1>2 DEF OnReadMarker
  <2>2. QED
    BY <2>1 DEF Inv, VisibleHasNoBadge, HeldMarksAreQueued
<1>3. CASE ~(ts =< channel.lastRead)
  <2> DEFINE read    == [channel EXCEPT !.lastRead = ts]
             n       == Len(channel.messages)
             covered == n = 0 \/ channel.messages[n].at =< ts
  <2>1. /\ channel' = IF covered THEN MarkRead(read) ELSE read
        /\ missed' = IF covered THEN {} ELSE missed
    BY <1>3 DEF OnReadMarker
  <2>2. /\ ChannelOK(read, missed, server.now)
        /\ read.unread = channel.unread /\ read.mentions = channel.mentions
        /\ read.firstUnread = channel.firstUnread
    BY <1>1, SameOK
  <2> HIDE DEF read, covered
  <2>3. /\ ChannelOK(MarkRead(read), {}, server.now) /\ NoBadge(MarkRead(read))
    BY <2>2, ClearOK DEF NoBadge
  <2>4. ChannelOK(channel', missed', server.now)
    BY <2>1, <2>2, <2>3
  <2>5. VisibleHasNoBadge'
    BY <2>1, <2>2, <2>3 DEF Inv, VisibleHasNoBadge, NoBadge
  <2>6. QED
    BY <2>4, <2>5 DEF Inv, HeldMarksAreQueued
<1>4. QED
  BY <1>2, <1>3

LEMMA OtherReadsOK == \A ts \in 1..Last : Inv /\ OtherReads(ts) => Inv'
<1> SUFFICES ASSUME NEW ts \in 1..Last, Inv, OtherReads(ts)
             PROVE  Inv'
  OBVIOUS
<1>1. /\ server' = [server EXCEPT !.marker = ts] /\ UNCHANGED <<marks, uiActive, view, divider>>
      /\ ts \in 0..Last
  BY LineAssumption DEF OtherReads
<1>2. server' \in Server /\ server'.now = server.now /\ server'.said = server.said
  BY <1>1 DEF Inv, Server
<1>3. CASE server.joined
  <2>1. OnReadMarker(ts)
    BY <1>3 DEF OtherReads
  <2>2. QED
    BY <1>1, <1>2, <2>1, MarkerOK
<1>4. CASE ~server.joined
  <2>1. UNCHANGED <<channel, missed>>
    BY <1>4 DEF OtherReads
  <2>2. QED
    BY <1>1, <1>2, <2>1 DEF Inv, VisibleHasNoBadge, HeldMarksAreQueued
<1>5. QED
  BY <1>3, <1>4

LEMMA ServerRepeatsOK == Inv /\ ServerRepeats => Inv'
<1> SUFFICES ASSUME Inv, ServerRepeats
             PROVE  Inv'
  OBVIOUS
<1>1. OnReadMarker(server.marker) /\ UNCHANGED <<server, marks, uiActive, view, divider>>
  BY DEF ServerRepeats
<1>2. server.marker \in 0..Last /\ server' \in Server
  BY <1>1 DEF Inv, Server
<1>3. QED
  BY <1>1, <1>2, MarkerOK

----------------------------------------------------------------------------
(* The theorems.                                                           *)

LEMMA InitOK == Init => Inv
<1> SUFFICES ASSUME Init
             PROVE  Inv
  OBVIOUS
<1>1. 0 \in 0..Last /\ 0 \in 0..Cap /\ 0 \in 0..MaxReplies /\ Old \in Nat /\ Last \in Nat /\ Old \in 0..Last
      /\ Cap \in Nat
  BY LineAssumption, CapAssumption, WindowAssumption
<1>2. server \in Server /\ server.said \subseteq 1..server.now
  <2>1. 1..Old \subseteq 1..Last /\ Old \in Old..Last
    BY <1>1
  <2>2. QED
    BY <1>1, <2>1 DEF Init, Server
<1>3. channel \in Channel
  BY <1>1 DEF Init, NoChannel, Channel
<1>4. /\ channel.messages = <<>> /\ channel.reactions = {} /\ channel.unread = 0
      /\ channel.mentions = 0 /\ channel.firstUnread = 0
  BY DEF Init, NoChannel
<1>5. Cardinality({}) = 0 /\ {} \cap Pings = {}
  BY FS_EmptySet
<1>6. missed = {} /\ server.now = Old
  BY DEF Init
<1>7. <<>> \in Seq(Lines(Old)) /\ Len(<<>>) = 0
  OBVIOUS
<1>8. ChannelOK(channel, missed, server.now)
  BY <1>1, <1>3, <1>4, <1>5, <1>6, <1>7 DEF ChannelOK, NoneBefore
<1>9. QED
  BY <1>1, <1>2, <1>4, <1>8 DEF Init, Inv, VisibleHasNoBadge, HeldMarksAreQueued

LEMMA NextOK == Inv /\ [Next]_vars => Inv'
<1> SUFFICES ASSUME Inv, [Next]_vars
             PROVE  Inv'
  OBVIOUS
<1>1. CASE UNCHANGED vars
  BY <1>1 DEF vars, Inv, VisibleHasNoBadge, HeldMarksAreQueued
<1>2. ASSUME NEW at \in 1..Last, OnReact(at)
      PROVE  Inv'
  BY <1>2, OnReactOK
<1>3. ASSUME NEW at \in 1..Last, OtherReads(at)
      PROVE  Inv'
  BY <1>3, OtherReadsOK
<1>4. ASSUME NEW active \in BOOLEAN, SetUiActive(active)
      PROVE  Inv'
  BY <1>4, SetUiActiveOK
<1>5. QED
  BY <1>1, <1>2, <1>3, <1>4, SayOK, JoinOK, LinkLostOK, OnHistoryOK, SwitchToOK, OpenPaneOK,
     LeaveOK, FlushReadMarksOK, ServerRepeatsOK DEF Next

\* The strengthened invariant holds in every behaviour.
THEOREM Invariant == Spec => []Inv
<1>1. Init => Inv
  BY InitOK
<1>2. Inv /\ [Next]_vars => Inv'
  BY NextOK
<1>3. QED
  BY <1>1, <1>2, PTL DEF Spec

LEMMA InvImplies ==
  Inv => TypeOK /\ BadgeCountsMissed /\ FirstUnreadIsFirst /\ ReactionsAreHeld
<1> SUFFICES ASSUME Inv
             PROVE  TypeOK /\ BadgeCountsMissed /\ FirstUnreadIsFirst /\ ReactionsAreHeld
  OBVIOUS
<1>1. missed \subseteq 1..Last
  <2>1. missed \subseteq 1..server.now /\ server.now \in 0..Last
    BY DEF Inv, ChannelOK
  <2>2. QED
    BY <2>1, LineAssumption
<1>2. TypeOK
  BY <1>1 DEF Inv, ChannelOK, TypeOK
<1>3. BadgeCountsMissed
  BY DEF Inv, ChannelOK, BadgeCountsMissed
<1>4. FirstUnreadIsFirst
  BY DEF Inv, ChannelOK, NoneBefore, FirstUnreadIsFirst
<1>5. ReactionsAreHeld
  BY DEF Inv, ChannelOK, ReactionsAreHeld
<1>6. QED
  BY <1>2, <1>3, <1>4, <1>5

\* Buffers, badges, marks and views keep their types and their bounds.
THEOREM TypeCorrect == Spec => []TypeOK
BY Invariant, InvImplies, PTL

\* A buffer on screen never has a badge (postMessage, markRead, setActive).
THEOREM NoBadgeOnScreen == Spec => []VisibleHasNoBadge
<1>1. Inv => VisibleHasNoBadge
  BY DEF Inv
<1>2. QED
  BY <1>1, Invariant, PTL

\* The badge counts the messages that came while nobody looked, each once.
THEOREM BadgeIsRight == Spec => []BadgeCountsMissed
BY Invariant, InvImplies, PTL

\* No missed message lies before the first unread line, whatever is dropped
\* at the cap and whatever history is put before it.
THEOREM FirstUnreadIsRight == Spec => []FirstUnreadIsFirst
BY Invariant, InvImplies, PTL

\* Only lines that are held have reactions, so that the cap bounds them.
THEOREM ReactionsBounded == Spec => []ReactionsAreHeld
BY Invariant, InvImplies, PTL

\* A mark held back while no window had the focus is queued with the focus.
THEOREM HeldMarksWait == Spec => []HeldMarksAreQueued
<1>1. Inv => HeldMarksAreQueued
  BY DEF Inv
<1>2. QED
  BY <1>1, Invariant, PTL

\* The badge, the first unread line and the mark held back are right together.
THEOREM UnreadSound == Spec => []UnreadInv
<1>1. Inv => VisibleHasNoBadge /\ HeldMarksAreQueued
  BY DEF Inv
<1>2. Inv => UnreadInv
  BY <1>1, InvImplies DEF UnreadInv
<1>3. QED
  BY <1>2, Invariant, PTL

\* What leaves the read position alone.
LEMMA LastReadKept ==
  ASSUME NEW c \in Channel
  PROVE  /\ \A page : AddMessages(c, page).lastRead = c.lastRead
         /\ \A page : PrependMessages(c, page).lastRead = c.lastRead
         /\ \A at : Badged(c, at).lastRead = c.lastRead
         /\ MarkRead(c).lastRead = c.lastRead
<1>1. \A page : AddMessages(c, page).lastRead = c.lastRead
  BY DEF AddMessages, Channel
<1>2. \A page : PrependMessages(c, page).lastRead = c.lastRead
  BY DEF PrependMessages, Channel
<1>3. \A at : Badged(c, at).lastRead = c.lastRead
  BY DEF Badged, Channel
<1>4. MarkRead(c).lastRead = c.lastRead
  BY DEF MarkRead, Cleared, Channel
<1>5. QED
  BY <1>1, <1>2, <1>3, <1>4

\* The read position only moves forward: a mark is sent for a line that is
\* later than it, and taken from another client when it is later.
THEOREM ReadPositionAdvances == Spec => LastReadAdvances
<1>1. ASSUME Inv, [Next]_vars
      PROVE  [channel'.lastRead >= channel.lastRead]_vars
  <2> DEFINE Forward == channel'.lastRead >= channel.lastRead
  <2>1. /\ channel \in Channel /\ channel.lastRead \in Nat
        /\ ChannelOK(channel, missed, server.now)
    BY <1>1, LineAssumption DEF Inv, ChannelOK, Channel
  <2>2. ASSUME server'.now = server.now + 1, server.now < Last,
               PostMessage([at |-> server'.now, past |-> FALSE])
        PROVE  Forward
    <3> DEFINE line   == [at |-> server'.now, past |-> FALSE]
               added  == AddMessage(channel, line)
               badged == IF line.at \in server'.said /\ view # "main"
                           THEN Badged(added, line.at) ELSE added
    <3>1. channel' = IF view = "pane" THEN MarkRead(badged) ELSE badged
      BY <2>2 DEF PostMessage
    <3>2. added.lastRead = channel.lastRead
      BY <2>1, LastReadKept DEF AddMessage
    <3>3. ChannelOK(added, missed, server'.now) /\ Len(added.messages) > 0
          /\ \A i \in 1..Len(added.messages) - 1 : added.messages[i].at =< server.now
      BY <2>1, <2>2, AddLineOK
    <3> HIDE DEF added
    <3>4. added \in Channel /\ Badged(added, line.at) \in Channel
      <4>1. ChannelOK(Badged(added, server.now + 1), missed \cup {server.now + 1}, server.now + 1)
        BY <2>1, <2>2, <3>3, BadgeOK
      <4>2. QED
        BY <2>2, <3>3, <4>1 DEF ChannelOK
    <3>5. badged \in Channel /\ badged.lastRead = channel.lastRead
      BY <3>2, <3>4, LastReadKept
    <3> HIDE DEF badged
    <3>6. channel'.lastRead = channel.lastRead
      BY <3>1, <3>5, LastReadKept
    <3>7. QED
      BY <2>1, <3>6
  <2>3. ASSUME NEW ts, OnReadMarker(ts), ts \in 0..Last
        PROVE  Forward
    <3> DEFINE read == [channel EXCEPT !.lastRead = ts]
    <3>1. CASE ts =< channel.lastRead
      BY <2>1, <2>3, <3>1 DEF OnReadMarker
    <3>2. CASE ~(ts =< channel.lastRead)
      <4>1. read \in Channel /\ read.lastRead = ts /\ ts \in Nat
        <5>1. ts \in 0..Last /\ ts \in Nat
          BY <2>3, LineAssumption
        <5>2. QED
          BY <2>1, <5>1 DEF Channel
      <4>2. channel' = MarkRead(read) \/ channel' = read
        BY <2>3, <3>2 DEF OnReadMarker
      <4> HIDE DEF read
      <4>3. channel'.lastRead = ts
        BY <4>1, <4>2, LastReadKept
      <4>4. QED
        BY <2>1, <3>2, <4>1, <4>3
    <3>3. QED
      BY <3>1, <3>2
  <2>4. CASE Say
    <3>1. CASE server.joined
      <4>1. server'.now = server.now + 1 /\ server.now < Last
        BY <1>1, <2>4 DEF Say, Inv, Server
      <4>2. QED
        BY <2>2, <2>4, <3>1, <4>1 DEF Say
    <3>2. CASE ~server.joined
      BY <2>1, <2>4, <3>2 DEF Say
    <3>3. QED
      BY <3>1, <3>2
  <2>5. CASE Join
    <3>1. server'.now = server.now + 1 /\ server.now < Last
      BY <1>1, <2>5 DEF Join, Inv, Server
    <3>2. QED
      BY <2>2, <2>5, <3>1 DEF Join
  <2>6. CASE OnHistory
    <3>1. PICK page : \/ channel' = PrependMessages(channel, AsHistory(page))
                      \/ channel' = AddMessages(channel, AsHistory(page))
                      \/ /\ channel' = MarkRead(AddMessages(channel, AsHistory(page)))
                         /\ view = "pane"
                         /\ page \in Newest(server.said)
                              \cup Newest({t \in server.said : channel.messages # <<>>
                                                               /\ t < channel.messages[1].at})
      BY <2>6 DEF OnHistory
    <3> DEFINE added == AddMessages(channel, AsHistory(page))
    <3>2. added.lastRead = channel.lastRead
          /\ PrependMessages(channel, AsHistory(page)).lastRead = channel.lastRead
      BY <2>1, LastReadKept
    <3>3. MarkRead(added).lastRead = added.lastRead
      <4> HIDE DEF added
      <4>1. Cleared(added).lastRead = added.lastRead
        BY DEF Cleared
      <4>2. QED
        BY <4>1 DEF MarkRead
    <3>4. channel'.lastRead = channel.lastRead
      BY <3>1, <3>2, <3>3
    <3>5. QED
      BY <2>1, <3>4
  <2>7. CASE SwitchTo \/ OpenPane
    <3>1. channel' = MarkRead(channel)
      BY <2>7 DEF SwitchTo, OpenPane, Look
    <3>2. QED
      BY <2>1, <3>1, LastReadKept
  <2>8. CASE FlushReadMarks
    <3> DEFINE ts == channel.messages[Len(channel.messages)].at
    <3>1. \/ channel' = channel
          \/ /\ channel' = [channel EXCEPT !.lastRead = ts]
             /\ ts > channel.lastRead /\ Len(channel.messages) > 0
      BY <2>8 DEF FlushReadMarks
    <3>2. Len(channel.messages) > 0 => ts \in Nat
      BY <2>1, LastLine, LineAssumption
    <3> HIDE DEF ts
    <3>3. CASE channel' = channel
      BY <2>1, <3>3
    <3>4. CASE /\ channel' = [channel EXCEPT !.lastRead = ts]
               /\ ts > channel.lastRead /\ Len(channel.messages) > 0
      <4>1. channel'.lastRead = ts
        BY <2>1, <3>4 DEF Channel
      <4>2. QED
        BY <2>1, <3>2, <3>4, <4>1
    <3>5. QED
      BY <3>1, <3>3, <3>4
  <2>9. ASSUME NEW at \in 1..Last, OnReact(at)
        PROVE  Forward
    BY <2>1, <2>9 DEF OnReact, Channel
  <2>10. ASSUME NEW ts \in 1..Last, OtherReads(ts)
         PROVE  Forward
    <3>1. OnReadMarker(ts) \/ channel' = channel
      BY <2>10 DEF OtherReads
    <3>2. ts \in 0..Last
      BY LineAssumption
    <3>3. QED
      BY <2>1, <2>3, <3>1, <3>2
  <2>11. CASE ServerRepeats
    <3>1. OnReadMarker(server.marker) /\ server.marker \in 0..Last
      BY <1>1, <2>11 DEF ServerRepeats, Inv, Server
    <3>2. QED
      BY <2>3, <3>1
  <2>12. CASE LinkLost \/ Leave \/ (\E active \in BOOLEAN : SetUiActive(active))
    BY <2>1, <2>12 DEF LinkLost, Leave, SetUiActive
  <2>13. QED
    BY <1>1, <2>4, <2>5, <2>6, <2>7, <2>8, <2>9, <2>10, <2>11, <2>12 DEF Next
<1>2. QED
  BY <1>1, Invariant, PTL DEF Spec, LastReadAdvances

----------------------------------------------------------------------------
(* What came live lies in the order in which it was said.                  *)

LiveInOrder(s) ==
  \A i, j \in 1..Len(s) : i < j /\ ~s[i].past /\ ~s[j].past => s[i].at =< s[j].at

\* Lines that are history, or later than all lines so far, may be added.
LEMMA AddInOrder ==
  ASSUME NEW now \in Nat, NEW s \in Seq(Lines(now)), NEW p \in Seq(Lines(now + 1)),
         LiveInOrder(s), \A i \in 1..Len(p) : p[i].past \/ p[i].at = now + 1
  PROVE  LiveInOrder(LastOf(s \o p))
<1> DEFINE all  == s \o p
           kept == LastOf(all)
<1>1. s \in Seq(Lines(now + 1))
  <2>1. Lines(now) \subseteq Lines(now + 1)
    BY DEF Lines
  <2>2. QED
    BY <2>1, SeqMono, Zenon
<1>2. /\ all \in Seq(Lines(now + 1)) /\ Len(s) \in Nat /\ Len(p) \in Nat
      /\ Len(all) = Len(s) + Len(p)
      /\ \A i \in 1..Len(all) : all[i] = IF i =< Len(s) THEN s[i] ELSE p[i - Len(s)]
  BY <1>1, JoinLines
<1>3. \A i \in 1..Len(s) : s[i].at \in 1..now
  <2>1. \A i \in 1..Len(s) : s[i] \in Lines(now)
    BY ElementOfSeq
  <2>2. QED
    BY <2>1 DEF Lines
<1> HIDE DEF all
<1>4. /\ Over(all) \in Nat /\ Len(kept) = Len(all) - Over(all)
      /\ \A i \in 1..Len(kept) : kept[i] = all[Over(all) + i]
  BY <1>2, KeepLines
<1> HIDE DEF kept
<1>5. LiveInOrder(all)
  <2> SUFFICES ASSUME NEW i \in 1..Len(all), NEW j \in 1..Len(all), i < j,
                      ~all[i].past, ~all[j].past
               PROVE  all[i].at =< all[j].at
    BY DEF LiveInOrder
  <2>1. CASE j =< Len(s)
    <3>1. all[i] = s[i] /\ all[j] = s[j] /\ i \in 1..Len(s) /\ j \in 1..Len(s)
      BY <1>2, <2>1
    <3>2. QED
      BY <3>1 DEF LiveInOrder
  <2>2. CASE j > Len(s)
    <3>1. j - Len(s) \in 1..Len(p) /\ all[j] = p[j - Len(s)]
      BY <1>2, <2>2
    <3>2. all[j].at = now + 1
      BY <3>1
    <3>3. all[i].at =< now + 1
      <4>1. CASE i =< Len(s)
        BY <1>2, <1>3, <4>1
      <4>2. CASE i > Len(s)
        <5>1. i - Len(s) \in 1..Len(p) /\ all[i] = p[i - Len(s)]
          BY <1>2, <4>2
        <5>2. QED
          BY <5>1
      <4>3. QED
        BY <1>2, <4>1, <4>2
    <3>4. QED
      BY <3>2, <3>3
  <2>3. QED
    BY <1>2, <2>1, <2>2
<1>6. LiveInOrder(kept)
  <2> SUFFICES ASSUME NEW i \in 1..Len(kept), NEW j \in 1..Len(kept), i < j,
                      ~kept[i].past, ~kept[j].past
               PROVE  kept[i].at =< kept[j].at
    BY DEF LiveInOrder
  <2>1. /\ Over(all) + i \in 1..Len(all) /\ Over(all) + j \in 1..Len(all)
        /\ Over(all) + i < Over(all) + j
    BY <1>2, <1>4
  <2>2. kept[i] = all[Over(all) + i] /\ kept[j] = all[Over(all) + j]
    BY <1>4
  <2>3. QED
    BY <1>5, <2>1, <2>2 DEF LiveInOrder
<1>7. QED
  BY <1>6 DEF kept, all

\* History may be prepended.
LEMMA PrependInOrder ==
  ASSUME NEW L, NEW s \in Seq(L), NEW p \in Seq(L),
         LiveInOrder(s), \A i \in 1..Len(p) : p[i].past
  PROVE  LiveInOrder(FirstOf(p \o s))
<1> DEFINE all  == p \o s
           kept == FirstOf(all)
<1>1. /\ all \in Seq(L) /\ Len(s) \in Nat /\ Len(p) \in Nat
      /\ Len(all) = Len(p) + Len(s)
      /\ \A i \in 1..Len(all) : all[i] = IF i =< Len(p) THEN p[i] ELSE s[i - Len(p)]
  BY JoinLines
<1> HIDE DEF all
<1>2. /\ Len(kept) \in Nat /\ Len(kept) =< Len(all)
      /\ \A i \in 1..Len(kept) : kept[i] = all[i]
  <2>1. /\ Over(all) \in Nat /\ Over(all) =< Len(all) /\ Len(kept) = Len(all) - Over(all)
        /\ \A i \in 1..Len(kept) : kept[i] = all[i]
    BY <1>1, KeepLines
  <2>2. QED
    BY <1>1, <2>1
<1> HIDE DEF kept
<1>3. \A i \in 1..Len(kept) : kept[i].past \/ (i - Len(p) \in 1..Len(s) /\ kept[i] = s[i - Len(p)])
  <2> TAKE i \in 1..Len(kept)
  <2>1. CASE i =< Len(p)
    <3>1. kept[i] = p[i] /\ i \in 1..Len(p)
      BY <1>1, <1>2, <2>1
    <3>2. QED
      BY <3>1
  <2>2. CASE i > Len(p)
    BY <1>1, <1>2, <2>2
  <2>3. QED
    BY <1>1, <2>1, <2>2
<1>4. LiveInOrder(kept)
  <2> SUFFICES ASSUME NEW i \in 1..Len(kept), NEW j \in 1..Len(kept), i < j,
                      ~kept[i].past, ~kept[j].past
               PROVE  kept[i].at =< kept[j].at
    BY DEF LiveInOrder
  <2>1. /\ i - Len(p) \in 1..Len(s) /\ kept[i] = s[i - Len(p)]
        /\ j - Len(p) \in 1..Len(s) /\ kept[j] = s[j - Len(p)]
    BY <1>3
  <2>2. i - Len(p) < j - Len(p)
    BY <1>1, <1>2
  <2>3. QED
    BY <2>1, <2>2 DEF LiveInOrder
<1>5. QED
  BY <1>4 DEF kept, all

\* What becomes of the lines.
LEMMA LinesOf ==
  ASSUME NEW c \in Channel
  PROVE  /\ MarkRead(c).messages = c.messages
         /\ \A at : Badged(c, at).messages = c.messages
         /\ \A p : AddMessages(c, p).messages = LastOf(c.messages \o p)
         /\ \A p : PrependMessages(c, p).messages = FirstOf(p \o c.messages)
<1>1. MarkRead(c).messages = c.messages
  BY DEF MarkRead, Cleared, Channel
<1>2. \A at : Badged(c, at).messages = c.messages
  BY DEF Badged, Channel
<1>3. \A p : AddMessages(c, p).messages = LastOf(c.messages \o p)
  BY DEF AddMessages, Channel
<1>4. \A p : PrependMessages(c, p).messages = FirstOf(p \o c.messages)
  BY DEF PrependMessages, Channel
<1>5. QED
  BY <1>1, <1>2, <1>3, <1>4

LEMMA StepInOrder ==
  ASSUME Inv, LiveInOrder(channel.messages), [Next]_vars
  PROVE  LiveInOrder(channel'.messages)
<1> DEFINE s == channel.messages
<1>0. ChannelOK(channel, missed, server.now)
  BY DEF Inv
<1>1. /\ channel \in Channel /\ s \in Seq(Lines(server.now))
      /\ server.now \in Nat /\ server \in Server /\ server.said \subseteq 1..server.now
  BY LineAssumption DEF Inv, ChannelOK
<1>2. Lines(server.now) \subseteq Lines(server.now + 1)
  BY <1>1 DEF Lines
<1>3. ASSUME server'.now = server.now + 1, server.now < Last,
             PostMessage([at |-> server'.now, past |-> FALSE])
      PROVE  LiveInOrder(channel'.messages)
  <2> DEFINE line   == [at |-> server'.now, past |-> FALSE]
             added  == AddMessage(channel, line)
             badged == IF line.at \in server'.said /\ view # "main"
                         THEN Badged(added, line.at) ELSE added
  <2>1. channel' = IF view = "pane" THEN MarkRead(badged) ELSE badged
    BY <1>3 DEF PostMessage
  <2>2. <<line>> \in Seq(Lines(server.now + 1)) /\ Len(<<line>>) = 1 /\ <<line>>[1].at = server.now + 1
    <3>1. line \in Lines(server.now + 1) /\ line.at = server.now + 1
      BY <1>1, <1>3 DEF Lines
    <3>2. QED
      BY <3>1
  <2>3. \A i \in 1..Len(<<line>>) : <<line>>[i].past \/ <<line>>[i].at = server.now + 1
    BY <2>2
  <2>4. added.messages = LastOf(s \o <<line>>)
    BY <1>1, LinesOf DEF AddMessage
  <2>5. ChannelOK(added, missed, server'.now) /\ Len(added.messages) > 0
        /\ \A i \in 1..Len(added.messages) - 1 : added.messages[i].at =< server.now
    <3> DEFINE new == AddMessage(channel, [at |-> server.now + 1, past |-> FALSE])
    <3>1. server.now < Last
      BY <1>3
    <3>2. /\ ChannelOK(new, missed, server.now + 1) /\ Len(new.messages) > 0
          /\ \A i \in 1..Len(new.messages) - 1 : new.messages[i].at =< server.now
      BY <1>0, <3>1, AddLineOK
    <3>3. added = new
      BY <1>3
    <3> HIDE DEF new, added
    <3>4. QED
      BY <1>3, <3>2, <3>3
  <2> HIDE DEF line
  <2>6. LiveInOrder(added.messages)
    BY <1>1, <2>2, <2>3, <2>4, AddInOrder
  <2> HIDE DEF added
  <2>7. added \in Channel /\ Badged(added, server.now + 1) \in Channel
    <3>1. ChannelOK(Badged(added, server.now + 1), missed \cup {server.now + 1}, server.now + 1)
      BY <1>0, <1>3, <2>5, BadgeOK
    <3>2. QED
      BY <2>5, <3>1 DEF ChannelOK
  <2>8. badged \in Channel /\ badged.messages = added.messages
    BY <1>3, <2>7, LinesOf DEF line
  <2> HIDE DEF badged
  <2>9. QED
    BY <2>1, <2>6, <2>8, LinesOf
<1>4. ASSUME channel'.messages = s
      PROVE  LiveInOrder(channel'.messages)
  BY <1>4
<1>5. CASE Say
  <2>1. CASE server.joined
    <3>1. server'.now = server.now + 1 /\ server.now < Last
      BY <1>1, <1>5 DEF Say, Server
    <3>2. QED
      BY <1>3, <1>5, <2>1, <3>1 DEF Say
  <2>2. CASE ~server.joined
    BY <1>4, <1>5, <2>2 DEF Say
  <2>3. QED
    BY <2>1, <2>2
<1>6. CASE Join
  <2>1. server'.now = server.now + 1 /\ server.now < Last
    BY <1>1, <1>6 DEF Join, Server
  <2>2. QED
    BY <1>3, <1>6, <2>1 DEF Join
<1>7. CASE OnHistory
  <2>0. PICK S \in SUBSET server.said : \E page \in Newest(S) :
              \/ channel' = PrependMessages(channel, AsHistory(page))
              \/ channel' = AddMessages(channel, AsHistory(page))
              \/ channel' = MarkRead(AddMessages(channel, AsHistory(page)))
    <3> DEFINE Older == {t \in server.said : s # <<>> /\ t < s[1].at}
    <3>1. PICK page \in Newest(server.said) \cup Newest(Older) :
              \/ channel' = PrependMessages(channel, AsHistory(page))
              \/ channel' = AddMessages(channel, AsHistory(page))
              \/ channel' = MarkRead(AddMessages(channel, AsHistory(page)))
      BY <1>7 DEF OnHistory
    <3>2. Older \subseteq server.said
      OBVIOUS
    <3> HIDE DEF Older
    <3>3. QED
      BY <3>1, <3>2
  <2>1. PICK page \in Newest(S) :
              \/ channel' = PrependMessages(channel, AsHistory(page))
              \/ channel' = AddMessages(channel, AsHistory(page))
              \/ channel' = MarkRead(AddMessages(channel, AsHistory(page)))
    BY <2>0
  <2> DEFINE h == AsHistory(page)
  <2>2. h \in Seq(Lines(server.now)) /\ \A i \in 1..Len(h) : h[i].past
    <3>1. /\ h \in Seq([at : S, past : {TRUE}]) /\ Len(h) = Len(page)
          /\ \A i \in 1..Len(page) : h[i].past
      BY PageIsHistory
    <3>2. [at : S, past : {TRUE}] \subseteq Lines(server.now)
      BY <1>1, <2>0 DEF Lines
    <3> DEFINE A == [at : S, past : {TRUE}]
               B == Lines(server.now)
    <3> HIDE DEF h, A, B
    <3>3. h \in Seq(B)
      <4>1. A \subseteq B /\ h \in Seq(A)
        BY <3>1, <3>2 DEF A, B
      <4>2. QED
        BY <4>1, SeqMono, Zenon
    <3>4. QED
      BY <3>1, <3>3 DEF B
  <2> HIDE DEF h
  <2>3. h \in Seq(Lines(server.now + 1))
    BY <1>2, <2>2, SeqMono, Zenon
  <2>4. LiveInOrder(LastOf(s \o h)) /\ LiveInOrder(FirstOf(h \o s))
    BY <1>1, <2>2, <2>3, AddInOrder, PrependInOrder
  <2>5. AddMessages(channel, h) \in Channel
    BY <1>0, <2>2, AddOK DEF ChannelOK
  <2>6. channel'.messages \in {LastOf(s \o h), FirstOf(h \o s)}
    <3>1. MarkRead(AddMessages(channel, h)).messages = AddMessages(channel, h).messages
      BY <2>5, LinesOf
    <3>2. QED
      BY <1>1, <2>1, <3>1, LinesOf DEF h
  <2>7. QED
    BY <2>4, <2>6
<1>8. CASE SwitchTo \/ OpenPane
  <2>1. channel' = MarkRead(channel)
    BY <1>8 DEF SwitchTo, OpenPane, Look
  <2>2. QED
    BY <1>1, <1>4, <2>1, LinesOf
<1>9. CASE FlushReadMarks
  BY <1>1, <1>4, <1>9 DEF FlushReadMarks, Channel
<1>10. ASSUME NEW at \in 1..Last, OnReact(at)
       PROVE  LiveInOrder(channel'.messages)
  BY <1>1, <1>4, <1>10 DEF OnReact, Channel
<1>11. ASSUME NEW ts \in 0..Last, OnReadMarker(ts)
       PROVE  LiveInOrder(channel'.messages)
  <2> DEFINE read == [channel EXCEPT !.lastRead = ts]
  <2>1. read \in Channel /\ read.messages = s
    BY <1>1 DEF Channel
  <2>2. channel' \in {channel, read, MarkRead(read)}
    BY <1>11 DEF OnReadMarker
  <2> HIDE DEF read
  <2>3. QED
    BY <1>4, <2>1, <2>2, LinesOf
<1>12. ASSUME NEW ts \in 1..Last, OtherReads(ts)
       PROVE  LiveInOrder(channel'.messages)
  <2>1. ts \in 0..Last
    BY LineAssumption
  <2>2. OnReadMarker(ts) \/ channel' = channel
    BY <1>12 DEF OtherReads
  <2>3. QED
    BY <1>4, <1>11, <2>1, <2>2
<1>13. CASE ServerRepeats
  <2>1. OnReadMarker(server.marker) /\ server.marker \in 0..Last
    BY <1>1, <1>13 DEF ServerRepeats, Server
  <2>2. QED
    BY <1>11, <2>1
<1>14. CASE LinkLost \/ Leave \/ (\E active \in BOOLEAN : SetUiActive(active)) \/ UNCHANGED vars
  BY <1>4, <1>14 DEF LinkLost, Leave, SetUiActive, vars
<1>15. QED
  BY <1>5, <1>6, <1>7, <1>8, <1>9, <1>10, <1>12, <1>13, <1>14 DEF Next

LEMMA LiveOrder == Spec => []LiveInOrder(channel.messages)
<1>1. Init => LiveInOrder(channel.messages)
  BY DEF Init, NoChannel, LiveInOrder
<1>2. Inv /\ LiveInOrder(channel.messages) /\ [Next]_vars => LiveInOrder(channel.messages)'
  BY StepInOrder
<1>3. QED
  BY <1>1, <1>2, Invariant, PTL DEF Spec

\* Only a mark takes the badge of a hidden buffer away.
LEMMA MarkClears ==
  ASSUME Inv, Next, view = "hidden", view' = "hidden", missed # {}, missed' = {}
  PROVE  \E ts \in 0..Last : OnReadMarker(ts) /\ ts > channel.lastRead
<1>1. CASE Say \/ Join
  <2>1. ASSUME NEW line, PostMessage(line)
        PROVE  missed' # {}
    <3>1. missed' \in {missed \cup {line.at}, missed}
      BY <2>1 DEF PostMessage
    <3>2. QED
      BY <3>1
  <2>2. PostMessage([at |-> server'.now, past |-> FALSE]) \/ missed' = missed
    BY <1>1, Zenon DEF Say, Join
  <2>3. QED
    BY <2>1, <2>2
<1>2. CASE LinkLost \/ OnHistory \/ (\E at \in 1..Last : OnReact(at))
           \/ Leave \/ (\E active \in BOOLEAN : SetUiActive(active)) \/ FlushReadMarks
  BY <1>2 DEF LinkLost, OnHistory, OnReact, Leave, SetUiActive, FlushReadMarks
<1>3. CASE SwitchTo \/ OpenPane
  BY <1>3 DEF SwitchTo, OpenPane
<1>4. ASSUME NEW ts \in 0..Last, OnReadMarker(ts)
      PROVE  \E t \in 0..Last : OnReadMarker(t) /\ t > channel.lastRead
  <2>1. ~(ts =< channel.lastRead)
    BY <1>4 DEF OnReadMarker
  <2>2. ts \in Int /\ channel.lastRead \in Int
    BY LineAssumption DEF Inv, ChannelOK, Channel
  <2>3. QED
    BY <1>4, <2>1, <2>2
<1>5. ASSUME NEW ts \in 1..Last, OtherReads(ts)
      PROVE  \E t \in 0..Last : OnReadMarker(t) /\ t > channel.lastRead
  <2>1. ts \in 0..Last
    BY LineAssumption
  <2>2. OnReadMarker(ts) \/ missed' = missed
    BY <1>5 DEF OtherReads
  <2>3. QED
    BY <1>4, <2>1, <2>2
<1>6. CASE ServerRepeats
  <2>1. OnReadMarker(server.marker) /\ server.marker \in 0..Last
    BY <1>6 DEF ServerRepeats, Inv, Server
  <2>2. QED
    BY <1>4, <2>1
<1>7. QED
  BY <1>1, <1>2, <1>3, <1>5, <1>6 DEF Next

\* A mark of another client takes the badge away only when it covers every
\* missed message that is held, unless history lies behind them: the last line
\* is the latest of those that came live.
THEOREM BadgeGoesOnlyWhenRead == Spec => BadgeGoesWhenRead
<1> DEFINE Read == view = "hidden" /\ view' = "hidden" /\ missed' = {} /\ ~EndsInHistory
                     => \A at \in MissedHeld : at =< channel'.lastRead
<1>1. ASSUME Inv, LiveInOrder(channel.messages), [Next]_vars
      PROVE  [Read]_vars
  <2> SUFFICES ASSUME Next, view = "hidden", view' = "hidden", missed' = {}, ~EndsInHistory,
                      NEW at \in MissedHeld
               PROVE  at =< channel'.lastRead
    BY <1>1
  <2> DEFINE s == channel.messages
             n == Len(s)
  <2>1. /\ channel \in Channel /\ s \in Seq(Lines(server.now)) /\ n \in Nat /\ DOMAIN s = 1..n
        /\ \A i \in 1..n : s[i] \in Lines(server.now)
    <3>1. channel \in Channel /\ s \in Seq(Lines(server.now))
      BY <1>1 DEF Inv, ChannelOK
    <3>2. QED
      BY <3>1, LenProperties, ElementOfSeq
  <2>2. at \in missed /\ [at |-> at, past |-> FALSE] \in Range(s)
    BY DEF MissedHeld
  <2>3. PICK i \in 1..n : s[i] = [at |-> at, past |-> FALSE]
    BY <2>1, <2>2 DEF Range
  <2>4. PICK ts \in 0..Last : OnReadMarker(ts) /\ ts > channel.lastRead
    BY <1>1, <2>2, MarkClears
  <2>5. n \in 1..n /\ ~s[n].past /\ s[i].at = at /\ ~s[i].past /\ at \in Int /\ s[n].at \in Int
    <3>1. n \in 1..n /\ s # <<>>
      BY <2>1, <2>3
    <3>2. ~s[n].past
      BY <3>1 DEF EndsInHistory
    <3>3. s[i].at \in Int /\ s[n].at \in Int
      BY <2>1, <2>3, <3>1 DEF Lines
    <3>4. QED
      BY <2>3, <3>1, <3>2, <3>3
  <2>6. at =< s[n].at
    <3>1. CASE i = n
      BY <2>5, <3>1
    <3>2. CASE i # n
      <4>1. i < n
        BY <2>1, <2>3, <3>2
      <4>2. QED
        BY <1>1, <2>3, <2>5, <4>1 DEF LiveInOrder
    <3>3. QED
      BY <3>1, <3>2
  <2> DEFINE read == [channel EXCEPT !.lastRead = ts]
  <2>7. ts \in Int /\ read \in Channel /\ read.lastRead = ts
    <3>1. ts \in Int
      BY LineAssumption
    <3>2. QED
      BY <2>1, <3>1 DEF Channel
  <2>8. s[n].at =< ts /\ channel' = MarkRead(read)
    <3>1. ~(ts =< channel.lastRead)
      BY <2>1, <2>4, <2>7, LineAssumption DEF Channel
    <3>2. n # 0 /\ missed # {}
      BY <2>1, <2>2, <2>3
    <3>3. QED
      BY <2>4, <3>1, <3>2 DEF OnReadMarker
  <2> HIDE DEF read
  <2>9. channel'.lastRead = ts
    BY <2>7, <2>8, LastReadKept
  <2>10. QED
    BY <2>5, <2>6, <2>7, <2>8, <2>9
<1>2. QED
  BY <1>1, Invariant, LiveOrder, PTL DEF Spec, BadgeGoesWhenRead

\* Both: reading goes forward only, and takes the badge away only when due.
THEOREM ReadingMovesOn == Spec => ReadMovesOn
BY ReadPositionAdvances, BadgeGoesOnlyWhenRead DEF ReadMovesOn
=============================================================================
