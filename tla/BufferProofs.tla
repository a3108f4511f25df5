--------------------------- MODULE BufferProofs ---------------------------
(***************************************************************************)
(* Proofs about Scrollback and MessageRouting, which both build on         *)
(* ChannelBuffer.                                                          *)
(*                                                                         *)
(* Scrollback, for every cap, page size, window and chunk, and for every   *)
(* bound on what is said, asked and timed: lines come and stay in order,   *)
(* the view waits for nothing that is not coming, and the log is given up  *)
(* only when nothing older was ever in it.  The argument: nothing that is  *)
(* held, logged or said is newer than the server's count of messages, so   *)
(* that a live line goes behind everything; and where the log is the only  *)
(* history, the seed finds an empty buffer, no page is ever awaited, and   *)
(* what is read is older than what is held.                                *)
(*                                                                         *)
(* MessageRouting, for every set of batch references and every limit: each *)
(* line is held once, whole and where it belongs.  The argument (RInv):    *)
(* the lines said are those that have come to the buffers and those kept   *)
(* back by one open batch each, and no two messages of the buffers or of   *)
(* the page awaited share a line.  So the lines handed over when a batch   *)
(* ends are new to every buffer, and what is unread is never more than     *)
(* what has come.                                                          *)
(***************************************************************************)
EXTENDS Scrollback, MessageRouting, TLAPS, SequenceTheorems, FiniteSetTheorems,
        WellFoundedInduction

(* ----------------- the operators of ChannelBuffer --------------------- *)

\* Lines joined.
LEMMA JoinLines ==
  ASSUME NEW L, NEW s \in Seq(L), NEW p \in Seq(L)
  PROVE  /\ s \o p \in Seq(L)
         /\ Len(s) \in Nat /\ Len(p) \in Nat /\ Len(s \o p) = Len(s) + Len(p)
         /\ \A i \in 1..Len(s \o p) :
              (s \o p)[i] = IF i =< Len(s) THEN s[i] ELSE p[i - Len(s)]
BY ConcatProperties, LenProperties

\* The lines kept at the cap, when the oldest make room and when the newest do.
LEMMA KeepLines ==
  ASSUME NEW L, NEW all \in Seq(L)
  PROVE  /\ Len(all) \in Nat /\ Over(all) \in Nat /\ Over(all) =< Len(all)
         /\ Len(all) - Over(all) =< Cap /\ (Over(all) > 0 => Len(all) - Over(all) = Cap)
         /\ LastOf(all) \in Seq(L) /\ Len(LastOf(all)) = Len(all) - Over(all)
         /\ \A i \in 1..Len(LastOf(all)) : LastOf(all)[i] = all[Over(all) + i]
         /\ FirstOf(all) \in Seq(L) /\ Len(FirstOf(all)) = Len(all) - Over(all)
         /\ \A i \in 1..Len(FirstOf(all)) : FirstOf(all)[i] = all[i]
<1>1. /\ Len(all) \in Nat /\ Over(all) \in Nat /\ Over(all) =< Len(all)
      /\ Len(all) - Over(all) =< Cap /\ (Over(all) > 0 => Len(all) - Over(all) = Cap)
  BY CapAssumption, LenProperties DEF Over, Greatest
<1>2. /\ LastOf(all) \in Seq(L) /\ Len(LastOf(all)) = Len(all) - Over(all)
      /\ \A i \in 1..Len(LastOf(all)) : LastOf(all)[i] = all[Over(all) + i]
  BY <1>1 DEF LastOf
<1>3. /\ FirstOf(all) \in Seq(L) /\ Len(FirstOf(all)) = Len(all) - Over(all)
      /\ \A i \in 1..Len(FirstOf(all)) : FirstOf(all)[i] = all[i]
  BY <1>1 DEF FirstOf
<1>4. QED
  BY <1>1, <1>2, <1>3

\* A page of history is a list of lines of the set it is taken from.
LEMMA PageIsHistory ==
  ASSUME NEW S, NEW older \in Newest(S)
  PROVE  /\ Len(older) \in Nat /\ DOMAIN older = 1..Len(older)
         /\ AsHistory(older) \in Seq([at : S, past : {TRUE}])
         /\ Len(AsHistory(older)) = Len(older)
         /\ \A i \in 1..Len(older) : AsHistory(older)[i].at \in S /\ AsHistory(older)[i].past
         /\ \A i, j \in 1..Len(older) : i < j => AsHistory(older)[i].at < AsHistory(older)[j].at
<1>1. PICK n \in 0..Page : older \in [1..n -> S]
  BY DEF Newest
<1>2. n \in Nat /\ older \in Seq(S)
  BY <1>1, PageAssumption, SeqDef
<1>3. Len(older) = n /\ DOMAIN older = 1..n
  BY <1>1, <1>2, LenProperties
<1> DEFINE h == AsHistory(older)
<1>4. h \in [1..n -> [at : S, past : {TRUE}]] /\ \A i \in 1..n : h[i].at = older[i] /\ h[i].past
  BY <1>1, <1>3 DEF AsHistory
<1>5. h \in Seq([at : S, past : {TRUE}])
  BY <1>2, <1>4, SeqDef
<1>6. Len(h) = n
  BY <1>2, <1>4, <1>5, LenProperties
<1>7. \A i, j \in 1..n : i < j => h[i].at < h[j].at
  BY <1>3, <1>4 DEF Newest, IsNewest
<1>8. QED
  BY <1>1, <1>2, <1>3, <1>4, <1>5, <1>6, <1>7

(* ------------------------------ the state ------------------------------ *)

Line == [at : 1..Last, past : BOOLEAN]
Lines == [messages : Seq(Line), reactions : {{}}, firstUnread : {0}]
View == [active : BOOLEAN, loading : BOOLEAN, resets : 0..2, exhausted : BOOLEAN, start : 0..Cap]

Types ==
  /\ chathistory \in Servers
  /\ server \in [now : Old..Last, said : SUBSET (1..Last), asked : Seq(Request)]
  /\ membership \in {"out", "joined", "listed"}
  /\ log \in [lines : SUBSET (1..Last), on : BOOLEAN]
  /\ paging \in [pending : BOOLEAN, timers : 0..MaxTimers, seeded : BOOLEAN]
  /\ ui \in View
  /\ reach \in 1..Last + 1

\* What the channel c may hold when now messages have been said.
Buffer(c, now) ==
  /\ c \in Lines
  /\ Len(c.messages) =< Cap
  /\ \A i \in 1..Len(c.messages) : c.messages[i].at \in 1..now
  /\ ~chathistory => Ordered(c.messages, BOOLEAN)
  /\ Ordered(c.messages, {FALSE})

\* Nothing was said or logged that is newer than the last message.
OfThePast == server.said \subseteq 1..server.now /\ log.lines \subseteq 1..server.now

\* reach is as old as anything held.
Reached == \A i \in 1..Len(channel.messages) : reach =< channel.messages[i].at

\* Where the log is the only history: no page is awaited, the buffer is empty
\* until the seed is read, and the log is given up after a line was held.
OnlyTheLog ==
  ~chathistory =>
    /\ server.asked = <<>> /\ ~paging.pending
    /\ ~paging.seeded => channel.messages = <<>> /\ membership = "out"
    /\ ui.exhausted => reach =< server.now

IInv ==
  /\ Types /\ Buffer(channel, server.now)
  /\ OfThePast /\ Reached /\ OnlyTheLog
  /\ WaitsForSomething /\ ExhaustedTruly

----------------------------------------------------------------------------
(* Lists of lines.                                                         *)

LEMMA Least ==
  ASSUME NEW S \in SUBSET Nat, S # {}
  PROVE  \E k \in S : \A j \in S : k =< j
<1> DEFINE R == {ss \in Nat \X Nat : ss[1] < ss[2]}
<1>1. OpToRel(<, Nat) = R
  BY Zenon DEF OpToRel
<1>2. IsWellFoundedOn(R, Nat)
  BY NatLessThanWellFounded, <1>1, Zenon
<1>3. S \subseteq Nat
  OBVIOUS
<1> HIDE DEF R
<1>4. PICK k \in S : \A j \in S : ~(<<j, k>> \in R)
  BY <1>2, <1>3, WFMin, Zenon
<1>5. ASSUME NEW j \in S
      PROVE  k =< j
  <2>1. <<j, k>> \in Nat \X Nat /\ ~(<<j, k>> \in R)
    BY <1>3, <1>4
  <2>2. ~(j < k)
    BY <2>1 DEF R
  <2>3. QED
    BY <1>3, <2>2
<1>6. QED
  BY <1>5

LEMMA ListHas ==
  ASSUME NEW m \in Seq(Line)
  PROVE  /\ Len(m) \in Nat /\ DOMAIN m = 1..Len(m)
         /\ \A i \in 1..Len(m) : /\ m[i] \in Line
                                 /\ m[i].at \in 1..Last /\ m[i].at \in Int /\ m[i].past \in BOOLEAN
<1>1. Len(m) \in Nat /\ DOMAIN m = 1..Len(m) /\ \A i \in 1..Len(m) : m[i] \in Line
  BY LenProperties
<1>2. \A l \in Line : l.at \in 1..Last /\ l.at \in Int /\ l.past \in BOOLEAN
  BY LineAssumption DEF Line
<1>3. QED
  BY <1>1, <1>2

\* What is left when lines are dropped stays in order.
LEMMA KeptInOrder ==
  ASSUME NEW all \in Seq(Line), NEW kinds, Ordered(all, kinds)
  PROVE  Ordered(LastOf(all), kinds) /\ Ordered(FirstOf(all), kinds)
<1>1. /\ Len(all) \in Nat /\ Over(all) \in Nat /\ Over(all) =< Len(all)
      /\ LastOf(all) \in Seq(Line) /\ Len(LastOf(all)) = Len(all) - Over(all)
      /\ \A i \in 1..Len(LastOf(all)) : LastOf(all)[i] = all[Over(all) + i]
      /\ FirstOf(all) \in Seq(Line) /\ Len(FirstOf(all)) = Len(all) - Over(all)
      /\ \A i \in 1..Len(FirstOf(all)) : FirstOf(all)[i] = all[i]
  BY KeepLines
<1>2. /\ DOMAIN all = 1..Len(all) /\ DOMAIN LastOf(all) = 1..Len(LastOf(all))
      /\ DOMAIN FirstOf(all) = 1..Len(FirstOf(all))
  BY <1>1, ListHas
<1> DEFINE k == Over(all)
           n == Len(all)
<1>3. /\ n \in Nat /\ k \in Nat /\ k =< n
      /\ DOMAIN LastOf(all) = 1..(n - k) /\ DOMAIN FirstOf(all) = 1..(n - k)
      /\ \A i \in 1..(n - k) : LastOf(all)[i] = all[k + i] /\ FirstOf(all)[i] = all[i]
      /\ DOMAIN all = 1..n
  BY <1>1, <1>2
<1> HIDE DEF k, n
<1>4. \A i \in 1..(n - k) : k + i \in 1..n /\ i \in 1..n
  BY <1>3
<1>5. \A i, j \in 1..n : i < j /\ all[i].past \in kinds /\ all[j].past \in kinds => all[i].at < all[j].at
  BY <1>3 DEF Ordered
<1>6. ASSUME NEW i \in 1..(n - k), NEW j \in 1..(n - k), i < j
      PROVE  /\ LastOf(all)[i].past \in kinds /\ LastOf(all)[j].past \in kinds =>
                  LastOf(all)[i].at < LastOf(all)[j].at
             /\ FirstOf(all)[i].past \in kinds /\ FirstOf(all)[j].past \in kinds =>
                  FirstOf(all)[i].at < FirstOf(all)[j].at
  <2>1. k + i < k + j
    BY <1>3, <1>6
  <2>2. k + i \in 1..n /\ k + j \in 1..n /\ i \in 1..n /\ j \in 1..n
    BY <1>4
  <2>3. /\ LastOf(all)[i] = all[k + i] /\ LastOf(all)[j] = all[k + j]
        /\ FirstOf(all)[i] = all[i] /\ FirstOf(all)[j] = all[j]
    BY <1>3
  <2>4. QED
    BY <1>5, <1>6, <2>1, <2>2, <2>3
<1>7. QED
  BY <1>3, <1>6 DEF Ordered

LEMMA JoinedInOrder ==
  ASSUME NEW s \in Seq(Line), NEW p \in Seq(Line), NEW kinds,
         Ordered(s, kinds), Ordered(p, kinds),
         \A i \in 1..Len(s), j \in 1..Len(p) :
           s[i].past \in kinds /\ p[j].past \in kinds => s[i].at < p[j].at
  PROVE  Ordered(s \o p, kinds)
<1> DEFINE a == s \o p
           n == Len(s)
           k == Len(p)
<1>1. /\ a \in Seq(Line) /\ n \in Nat /\ k \in Nat /\ Len(a) = n + k
      /\ \A i \in 1..Len(a) : a[i] = IF i =< n THEN s[i] ELSE p[i - n]
  BY JoinLines
<1>2. DOMAIN a = 1..(n + k) /\ DOMAIN s = 1..n /\ DOMAIN p = 1..k
  BY <1>1, ListHas
<1>3. \A i \in 1..n, j \in 1..k : s[i].past \in kinds /\ p[j].past \in kinds => s[i].at < p[j].at
  OBVIOUS
<1> HIDE DEF a, n, k
<1>4. ASSUME NEW i \in 1..(n + k), NEW j \in 1..(n + k), i < j, a[i].past \in kinds, a[j].past \in kinds
      PROVE  a[i].at < a[j].at
  <2>1. CASE j =< n
    <3>1. i \in 1..n /\ j \in 1..n /\ a[i] = s[i] /\ a[j] = s[j]
      BY <1>1, <1>4, <2>1
    <3>2. QED
      BY <1>2, <1>4, <3>1 DEF Ordered
  <2>2. CASE i =< n /\ j > n
    <3>1. i \in 1..n /\ j - n \in 1..k /\ a[i] = s[i] /\ a[j] = p[j - n]
      BY <1>1, <1>4, <2>2
    <3>2. QED
      BY <1>3, <1>4, <3>1
  <2>3. CASE i > n
    <3>1. i - n \in 1..k /\ j - n \in 1..k /\ i - n < j - n /\ a[i] = p[i - n] /\ a[j] = p[j - n]
      BY <1>1, <1>4, <2>3
    <3>2. QED
      BY <1>2, <1>4, <3>1 DEF Ordered
  <2>4. QED
    BY <1>1, <2>1, <2>2, <2>3
<1>5. QED
  BY <1>2, <1>4 DEF Ordered, a

\* Whatever holds of all the lines of two lists holds of what is kept of both.
LEMMA KeptOfBoth ==
  ASSUME NEW s \in Seq(Line), NEW p \in Seq(Line), NEW T,
         \A i \in 1..Len(s) : s[i].at \in T,
         \A i \in 1..Len(p) : p[i].at \in T
  PROVE  /\ \A i \in 1..Len(LastOf(s \o p)) : LastOf(s \o p)[i].at \in T
         /\ \A i \in 1..Len(FirstOf(s \o p)) : FirstOf(s \o p)[i].at \in T
<1> DEFINE a == s \o p
           n == Len(s)
<1>1. /\ a \in Seq(Line) /\ n \in Nat /\ Len(p) \in Nat /\ Len(a) = n + Len(p)
      /\ \A i \in 1..Len(a) : a[i] = IF i =< n THEN s[i] ELSE p[i - n]
  BY JoinLines
<1>2. /\ Over(a) \in Nat /\ Over(a) =< Len(a)
      /\ Len(LastOf(a)) = Len(a) - Over(a)
      /\ \A i \in 1..Len(LastOf(a)) : LastOf(a)[i] = a[Over(a) + i]
      /\ Len(FirstOf(a)) = Len(a) - Over(a)
      /\ \A i \in 1..Len(FirstOf(a)) : FirstOf(a)[i] = a[i]
  BY <1>1, KeepLines
<1>3. ASSUME NEW i \in 1..Len(a)
      PROVE  a[i].at \in T
  <2>1. CASE i =< n
    BY <1>1, <2>1
  <2>2. CASE i > n
    <3>1. i - n \in 1..Len(p) /\ a[i] = p[i - n]
      BY <1>1, <2>2
    <3>2. QED
      BY <3>1
  <2>3. QED
    BY <1>1, <2>1, <2>2
<1>4. \A i \in 1..(Len(a) - Over(a)) : Over(a) + i \in 1..Len(a) /\ i \in 1..Len(a)
  BY <1>1, <1>2
<1> HIDE DEF a
<1>5. QED
  BY <1>2, <1>3, <1>4 DEF a

\* An empty page means that there was nothing.
LEMMA EmptyPage ==
  ASSUME NEW S, NEW older \in Newest(S), Len(older) = 0
  PROVE  S = {}
BY PageIsHistory, PageAssumption DEF Newest, IsNewest

\* The lines of a page of the set S, as the buffer takes them.
LEMMA PageLines ==
  ASSUME NEW S \in SUBSET (1..Last), NEW older \in Newest(S)
  PROVE  /\ Len(older) \in Nat
         /\ AsHistory(older) \in Seq(Line) /\ Len(AsHistory(older)) = Len(older)
         /\ \A i \in 1..Len(older) : AsHistory(older)[i].at \in S /\ AsHistory(older)[i].past
         /\ Ordered(AsHistory(older), BOOLEAN) /\ Ordered(AsHistory(older), {FALSE})
<1> DEFINE h == AsHistory(older)
<1>1. /\ Len(older) \in Nat /\ h \in Seq([at : S, past : {TRUE}]) /\ Len(h) = Len(older)
      /\ \A i \in 1..Len(older) : h[i].at \in S /\ h[i].past
      /\ \A i, j \in 1..Len(older) : i < j => h[i].at < h[j].at
  BY PageIsHistory
<1>2. h \in Seq(Line)
  <2>1. [at : S, past : {TRUE}] \subseteq Line
    BY DEF Line
  <2>2. h \in [1..Len(h) -> [at : S, past : {TRUE}]]
    BY <1>1, LenProperties
  <2>3. h \in [1..Len(h) -> Line]
    BY <2>1, <2>2
  <2>4. QED
    BY <1>1, <2>3, SeqDef
<1>3. DOMAIN h = 1..Len(older)
  BY <1>1, <1>2, ListHas
<1>4. \A i \in 1..Len(older) : h[i].past # FALSE
  BY <1>1
<1>5. Ordered(h, BOOLEAN) /\ Ordered(h, {FALSE})
  <2> HIDE DEF h
  <2>1. QED
    BY <1>1, <1>3, <1>4 DEF Ordered
<1>6. QED
  BY <1>1, <1>2, <1>5

----------------------------------------------------------------------------
(* The channel's operators.                                                *)

LEMMA AddMessagesGives ==
  ASSUME NEW c \in Lines, NEW older \in Seq(Line)
  PROVE  /\ AddMessages(c, older) \in Lines
         /\ AddMessages(c, older).messages = LastOf(c.messages \o older)
<1>1. c.messages \in Seq(Line) /\ c.reactions = {} /\ c.firstUnread = 0
  BY DEF Lines
<1> DEFINE all == c.messages \o older
           m == LastOf(all)
           gone == {all[i].at : i \in 1..Over(all)}
<1>2. m \in Seq(Line)
  BY <1>1, JoinLines, KeepLines
<1>3. AddMessages(c, older)
        = [c EXCEPT !.messages = m, !.reactions = c.reactions \ gone,
                    !.firstUnread = IF c.firstUnread > 1 THEN Greatest(1, c.firstUnread - Over(all))
                                                         ELSE c.firstUnread]
  BY DEF AddMessages
<1>4. c.reactions \ gone = {}
  BY <1>1
<1>5. (IF c.firstUnread > 1 THEN Greatest(1, c.firstUnread - Over(all)) ELSE c.firstUnread) = 0
  BY <1>1
<1> HIDE DEF m, gone
<1>6. AddMessages(c, older) = [c EXCEPT !.messages = m, !.reactions = {}, !.firstUnread = 0]
  BY <1>3, <1>4, <1>5
<1>7. QED
  BY <1>2, <1>6 DEF Lines, m

LEMMA PrependMessagesGives ==
  ASSUME NEW c \in Lines, NEW older \in Seq(Line)
  PROVE  /\ PrependMessages(c, older) \in Lines
         /\ PrependMessages(c, older).messages = FirstOf(older \o c.messages)
<1>1. c.messages \in Seq(Line) /\ c.reactions = {} /\ c.firstUnread = 0
  BY DEF Lines
<1> DEFINE all == older \o c.messages
           m == FirstOf(all)
           gone == {all[i].at : i \in Len(m) + 1 .. Len(all)}
           first == c.firstUnread + Len(older)
<1>2. m \in Seq(Line)
  BY <1>1, JoinLines, KeepLines
<1>3. PrependMessages(c, older)
        = [c EXCEPT !.messages = m, !.reactions = c.reactions \ gone,
                    !.firstUnread = IF c.firstUnread = 0 \/ first > Len(m) THEN 0 ELSE first]
  BY DEF PrependMessages
<1>4. c.reactions \ gone = {}
  BY <1>1
<1>5. (IF c.firstUnread = 0 \/ first > Len(m) THEN 0 ELSE first) = 0
  BY <1>1
<1> HIDE DEF m, gone, first
<1>6. PrependMessages(c, older) = [c EXCEPT !.messages = m, !.reactions = {}, !.firstUnread = 0]
  BY <1>3, <1>4, <1>5
<1>7. QED
  BY <1>2, <1>6 DEF Lines, m

\* reach follows what the channel takes.
LEMMA BecomesGives ==
  ASSUME NEW c \in Lines, reach \in 1..Last + 1, Becomes(c)
  PROVE  /\ channel' = c
         /\ reach' \in 1..Last + 1 /\ reach' =< reach
         /\ \A i \in 1..Len(c.messages) : reach' =< c.messages[i].at
<1> DEFINE S == Held(c.messages) \cup {reach}
<1>1. /\ c.messages \in Seq(Line) /\ DOMAIN c.messages = 1..Len(c.messages)
      /\ \A i \in 1..Len(c.messages) : c.messages[i].at \in 1..Last
  BY ListHas DEF Lines
<1>2. /\ S \in SUBSET Nat /\ S # {} /\ S \subseteq 1..Last + 1
      /\ \A i \in 1..Len(c.messages) : c.messages[i].at \in S
      /\ reach \in S
  BY <1>1, LineAssumption DEF Held
<1>3. reach' = CHOOSE t \in S : \A u \in S : t =< u
  BY DEF Becomes
<1> HIDE DEF S
<1>4. reach' \in S /\ \A u \in S : reach' =< u
  BY <1>2, <1>3, Least
<1>5. QED
  BY <1>2, <1>4 DEF Becomes

LEMMA SingleLine ==
  ASSUME NEW l \in Line
  PROVE  /\ <<l>> \in Seq(Line) /\ Len(<<l>>) = 1 /\ <<l>>[1] = l
         /\ \A kinds : Ordered(<<l>>, kinds)
<1>1. <<l>> \in Seq(Line) /\ Len(<<l>>) = 1 /\ <<l>>[1] = l
  OBVIOUS
<1>2. DOMAIN <<l>> = 1..1
  BY <1>1, ListHas
<1>3. QED
  BY <1>1, <1>2 DEF Ordered

\* A live line is newer than all that is held.
LEMMA LiveLineFits ==
  ASSUME NEW now \in Nat, now < Last, NEW c, Buffer(c, now)
  PROVE  Buffer(AddMessage(c, [at |-> now + 1, past |-> FALSE]), now + 1)
<1> DEFINE l == [at |-> now + 1, past |-> FALSE]
           s == c.messages
           d == AddMessage(c, l)
<1>1. l \in Line /\ l.at = now + 1
  BY LineAssumption DEF Line
<1>2. /\ s \in Seq(Line) /\ c \in Lines
      /\ \A i \in 1..Len(s) : s[i].at \in 1..now
      /\ ~chathistory => Ordered(s, BOOLEAN)
      /\ Ordered(s, {FALSE})
  BY DEF Buffer, Lines
<1> HIDE DEF l, s
<1>3. /\ <<l>> \in Seq(Line) /\ Len(<<l>>) = 1 /\ <<l>>[1] = l
      /\ \A kinds : Ordered(<<l>>, kinds)
  BY <1>1, SingleLine
<1>4. \A i \in 1..Len(s), j \in 1..Len(<<l>>) : s[i].at < <<l>>[j].at
  BY <1>1, <1>2, <1>3
<1>5. s \o <<l>> \in Seq(Line)
  BY <1>2, <1>3, JoinLines
<1>6. /\ ~chathistory => Ordered(s \o <<l>>, BOOLEAN)
      /\ Ordered(s \o <<l>>, {FALSE})
  BY <1>2, <1>3, <1>4, JoinedInOrder
<1>7. d \in Lines /\ d.messages = LastOf(s \o <<l>>)
  BY <1>2, <1>3, AddMessagesGives DEF AddMessage, s
<1>8. Len(d.messages) =< Cap
  BY <1>5, <1>7, KeepLines
<1>9. \A i \in 1..Len(d.messages) : d.messages[i].at \in 1..now + 1
  <2>1. \A i \in 1..Len(s) : s[i].at \in 1..now + 1
    BY <1>2
  <2>2. \A i \in 1..Len(<<l>>) : <<l>>[i].at \in 1..now + 1
    BY <1>1, <1>3
  <2>3. QED
    BY <1>2, <1>3, <1>7, <2>1, <2>2, KeptOfBoth
<1>10. /\ ~chathistory => Ordered(d.messages, BOOLEAN)
       /\ Ordered(d.messages, {FALSE})
  BY <1>5, <1>6, <1>7, KeptInOrder
<1>11. QED
  BY <1>7, <1>8, <1>9, <1>10 DEF Buffer, l

\* A page put before what is held; from the log, it is all older than that.
LEMMA PageBeforeFits ==
  ASSUME NEW now \in 0..Last, NEW c, Buffer(c, now),
         NEW S \in SUBSET (1..now), NEW older \in Newest(S),
         ~chathistory => \A t \in S, i \in 1..Len(c.messages) : t < c.messages[i].at
  PROVE  Buffer(PrependMessages(c, AsHistory(older)), now)
<1> DEFINE h == AsHistory(older)
           s == c.messages
           d == PrependMessages(c, h)
<1>0. S \in SUBSET (1..Last)
  BY LineAssumption
<1>1. /\ h \in Seq(Line) /\ Len(h) = Len(older) /\ Len(older) \in Nat
      /\ \A i \in 1..Len(h) : h[i].at \in S /\ h[i].past
      /\ Ordered(h, BOOLEAN) /\ Ordered(h, {FALSE})
  BY <1>0, PageLines
<1>2. /\ s \in Seq(Line) /\ c \in Lines
      /\ \A i \in 1..Len(s) : s[i].at \in 1..now
      /\ ~chathistory => Ordered(s, BOOLEAN)
      /\ Ordered(s, {FALSE})
  BY DEF Buffer, Lines
<1>a. ~chathistory => \A t \in S, i \in 1..Len(s) : t < s[i].at
  OBVIOUS
<1> HIDE DEF h, s
<1>3. ~chathistory => \A i \in 1..Len(h), j \in 1..Len(s) : h[i].at < s[j].at
  BY <1>1, <1>a
<1>4. \A i \in 1..Len(h) : h[i].past \notin {FALSE}
  BY <1>1
<1>5. h \o s \in Seq(Line)
  BY <1>1, <1>2, JoinLines
<1>6. Ordered(h \o s, {FALSE})
  BY <1>1, <1>2, <1>4, JoinedInOrder
<1>7. ~chathistory => Ordered(h \o s, BOOLEAN)
  BY <1>1, <1>2, <1>3, JoinedInOrder
<1>8. d \in Lines /\ d.messages = FirstOf(h \o s)
  BY <1>1, <1>2, PrependMessagesGives DEF s
<1>9. Len(d.messages) =< Cap
  BY <1>5, <1>8, KeepLines
<1>10. \A i \in 1..Len(d.messages) : d.messages[i].at \in 1..now
  <2>1. \A i \in 1..Len(h) : h[i].at \in 1..now
    BY <1>1
  <2>2. QED
    BY <1>1, <1>2, <1>8, <2>1, KeptOfBoth
<1>11. /\ ~chathistory => Ordered(d.messages, BOOLEAN)
       /\ Ordered(d.messages, {FALSE})
  BY <1>5, <1>6, <1>7, <1>8, KeptInOrder
<1>12. QED
  BY <1>8, <1>9, <1>10, <1>11 DEF Buffer, h

\* A replayed page put behind what is held.
LEMMA PageAfterFits ==
  ASSUME chathistory, NEW now \in 0..Last, NEW c, Buffer(c, now),
         NEW S \in SUBSET (1..now), NEW older \in Newest(S)
  PROVE  Buffer(AddMessages(c, AsHistory(older)), now)
<1> DEFINE h == AsHistory(older)
           s == c.messages
           d == AddMessages(c, h)
<1>0. S \in SUBSET (1..Last)
  BY LineAssumption
<1>1. /\ h \in Seq(Line) /\ Len(h) = Len(older) /\ Len(older) \in Nat
      /\ \A i \in 1..Len(h) : h[i].at \in S /\ h[i].past
      /\ Ordered(h, {FALSE})
  BY <1>0, PageLines
<1>2. /\ s \in Seq(Line) /\ c \in Lines
      /\ \A i \in 1..Len(s) : s[i].at \in 1..now
      /\ Ordered(s, {FALSE})
  BY DEF Buffer, Lines
<1> HIDE DEF h, s
<1>3. \A i \in 1..Len(h) : h[i].past \notin {FALSE}
  BY <1>1
<1>4. s \o h \in Seq(Line)
  BY <1>1, <1>2, JoinLines
<1>5. Ordered(s \o h, {FALSE})
  BY <1>1, <1>2, <1>3, JoinedInOrder
<1>6. d \in Lines /\ d.messages = LastOf(s \o h)
  BY <1>1, <1>2, AddMessagesGives DEF s
<1>7. Len(d.messages) =< Cap
  BY <1>4, <1>6, KeepLines
<1>8. \A i \in 1..Len(d.messages) : d.messages[i].at \in 1..now
  <2>1. \A i \in 1..Len(h) : h[i].at \in 1..now
    BY <1>1
  <2>2. QED
    BY <1>1, <1>2, <1>6, <2>1, KeptOfBoth
<1>9. Ordered(d.messages, {FALSE})
  BY <1>4, <1>5, <1>6, KeptInOrder
<1>10. QED
  BY <1>6, <1>7, <1>8, <1>9 DEF Buffer, h

----------------------------------------------------------------------------
(* The invariant.                                                          *)

LEMMA InitInv == Init => IInv
<1> SUFFICES ASSUME Init PROVE IInv
  OBVIOUS
<1>1. /\ <<>> \in Seq(Line) /\ <<>> \in Seq(Request) /\ Len(<<>>) = 0 /\ DOMAIN <<>> = 1..0
  OBVIOUS
<1>2. channel \in Lines /\ channel.messages = <<>>
  BY <1>1 DEF Init, Lines
<1>3. Buffer(channel, server.now) /\ Reached
  BY <1>1, <1>2, CapAssumption DEF Buffer, Ordered, Reached
<1>4. server.now = Old /\ server.said = 1..Old /\ log.lines = 1..Old /\ server.asked = <<>>
  BY DEF Init
<1>5. Types
  <2>1. 1..Old \in SUBSET (1..Last) /\ Old \in Old..Last /\ Last + 1 \in 1..Last + 1
    BY LineAssumption
  <2>2. ui \in View
    BY CapAssumption DEF Init, View
  <2>3. paging \in [pending : BOOLEAN, timers : 0..MaxTimers, seeded : BOOLEAN]
    BY DrawAssumption DEF Init
  <2>4. server \in [now : Old..Last, said : SUBSET (1..Last), asked : Seq(Request)]
    BY <1>1, <2>1 DEF Init
  <2>5. log \in [lines : SUBSET (1..Last), on : BOOLEAN]
    BY <2>1 DEF Init
  <2>6. QED
    BY <2>1, <2>2, <2>3, <2>4, <2>5 DEF Init, Types
<1>6. OfThePast
  BY <1>4 DEF OfThePast
<1>7. OnlyTheLog /\ WaitsForSomething /\ ExhaustedTruly
  BY <1>2, <1>4 DEF Init, OnlyTheLog, WaitsForSomething, ExhaustedTruly
<1>8. QED
  BY <1>3, <1>5, <1>6, <1>7 DEF IInv

\* The fields, one by one.
LEMMA Fields ==
  ASSUME Types
  PROVE  /\ server.now \in Old..Last /\ server.now \in 0..Last /\ server.now \in Nat
         /\ server.said \in SUBSET (1..Last)
         /\ server.asked \in Seq(Request)
         /\ log.lines \in SUBSET (1..Last) /\ log.on \in BOOLEAN
         /\ paging.pending \in BOOLEAN /\ paging.timers \in 0..MaxTimers /\ paging.timers \in Nat
         /\ paging.seeded \in BOOLEAN
         /\ ui.active \in BOOLEAN /\ ui.loading \in BOOLEAN /\ ui.resets \in 0..2
         /\ ui.exhausted \in BOOLEAN /\ ui.start \in 0..Cap
         /\ reach \in 1..Last + 1 /\ reach \in Int
         /\ chathistory \in BOOLEAN
BY LineAssumption, DrawAssumption, ServerAssumption DEF Types, View

\* What the view makes of a page or of the news that there is none.
LEMMA LoadedGives ==
  ASSUME NEW u \in View, NEW n \in Nat, OlderHistoryLoaded(u, n)
  PROVE  /\ ui' \in View /\ ~ui'.loading
         /\ ui'.exhausted => u.exhausted \/ n = 0
<1> DEFINE e == u.exhausted \/ (u.active /\ n = 0)
           t == IF u.active /\ n > 0 THEN 0 ELSE u.start
<1>1. ui' = [u EXCEPT !.loading = FALSE, !.exhausted = e, !.start = t]
  BY DEF OlderHistoryLoaded
<1>2. e \in BOOLEAN /\ t \in 0..Cap /\ (e => u.exhausted \/ n = 0)
  BY CapAssumption DEF View
<1> HIDE DEF e, t
<1>3. QED
  BY <1>1, <1>2 DEF View

\* A new list of lines in the channel.
LEMMA ChannelStep ==
  ASSUME IInv, NEW c, Buffer(c, server.now'), Becomes(c), chathistory' = chathistory
  PROVE  /\ channel' = c /\ Buffer(channel, server.now)' /\ Reached'
         /\ reach' \in 1..Last + 1 /\ reach' \in Int /\ reach' =< reach
<1>1. c \in Lines /\ reach \in 1..Last + 1
  BY DEF IInv, Types, Buffer
<1>2. /\ channel' = c /\ reach' \in 1..Last + 1 /\ reach' =< reach
      /\ \A i \in 1..Len(c.messages) : reach' =< c.messages[i].at
  BY <1>1, BecomesGives
<1>3. QED
  BY <1>2, LineAssumption DEF Buffer, Reached

LEMMA SayKeeps ==
  ASSUME IInv, Say
  PROVE  IInv'
<1> USE DEF IInv
<1> DEFINE now == server.now
           l == [at |-> now + 1, past |-> FALSE]
<1>1. /\ now \in Nat /\ now < Last /\ now + 1 \in Old..Last /\ now + 1 \in 1..Last
      /\ server.said \in SUBSET (1..Last) /\ log.lines \in SUBSET (1..Last)
      /\ reach \in Int
  BY Fields, LineAssumption DEF Say
<1>2. /\ server' = [server EXCEPT !.now = now + 1, !.said = server.said \cup {now + 1}]
      /\ UNCHANGED <<chathistory, membership, paging, ui>>
  BY DEF Say
<1>3. /\ server' \in [now : Old..Last, said : SUBSET (1..Last), asked : Seq(Request)]
      /\ server'.now = now + 1 /\ server'.said = server.said \cup {now + 1}
      /\ server'.asked = server.asked
  BY <1>1, <1>2 DEF Types
<1>4. /\ Buffer(channel, server.now)' /\ Reached'
      /\ reach' \in 1..Last + 1 /\ reach' \in Int /\ reach' =< reach
      /\ membership = "out" => channel' = channel
  <2>1. CASE membership = "out"
    <3>1. channel' = channel /\ reach' = reach
      BY <2>1 DEF Say
    <3>2. \A i \in 1..Len(channel.messages) : channel.messages[i].at \in 1..now + 1
      BY <1>1 DEF Buffer
    <3>3. QED
      BY <1>2, <1>3, <3>1, <3>2, Fields DEF Buffer, Reached
  <2>2. CASE membership # "out"
    <3>1. Becomes(AddMessage(channel, l))
      BY <1>3, <2>2 DEF Say
    <3>2. Buffer(AddMessage(channel, l), now + 1)
      BY <1>1, LiveLineFits
    <3>3. QED
      BY <1>2, <1>3, <2>2, <3>1, <3>2, ChannelStep
  <2>3. QED
    BY <2>1, <2>2
<1>5. log' = log \/ log' = Logged(now + 1)
  BY <1>3 DEF Say
<1>6. /\ log' \in [lines : SUBSET (1..Last), on : BOOLEAN]
      /\ log'.lines \subseteq log.lines \cup {now + 1}
  BY <1>1, <1>5 DEF Logged, Types
<1>7. Types'
  BY <1>2, <1>3, <1>4, <1>6 DEF Types
<1>8. OfThePast'
  <2>1. 1..now \cup {now + 1} \subseteq 1..now + 1
    BY <1>1
  <2>2. QED
    BY <1>3, <1>6, <2>1 DEF OfThePast
<1>9. OnlyTheLog'
  BY <1>1, <1>2, <1>3, <1>4 DEF OnlyTheLog
<1>10. ExhaustedTruly'
  <2>1. ASSUME ~chathistory, ui.exhausted, NEW t \in log.lines \cup {now + 1}
        PROVE  t >= reach'
    <3>1. CASE t \in log.lines
      BY <1>1, <1>4, <2>1, <3>1 DEF ExhaustedTruly
    <3>2. CASE t = now + 1
      BY <1>1, <1>4, <2>1, <3>2 DEF OnlyTheLog
    <3>3. QED
      BY <3>1, <3>2
  <2>2. QED
    BY <1>2, <1>6, <2>1 DEF ExhaustedTruly
<1>11. WaitsForSomething'
  BY <1>2 DEF WaitsForSomething
<1>12. QED
  BY <1>4, <1>7, <1>8, <1>9, <1>10, <1>11

\* Scrolling up, with the view in a state that differs from ui in what it waits for.
LEMMA LoadOlderKeeps ==
  ASSUME IInv, NEW u \in View, u.exhausted = ui.exhausted, LoadOlderMessages(u)
  PROVE  IInv'
<1> USE DEF IInv
<1>0. /\ UNCHANGED <<chathistory, membership, log>>
      /\ ~u.loading /\ channel.messages # <<>>
      /\ u.resets \in 0..2 /\ u.start \in 0..Cap
  BY DEF LoadOlderMessages, View
<1>1. CASE DrawMore(u)
  <2> DEFINE st == IF u.start > Chunk THEN u.start - Chunk ELSE 0
             n == u.resets + 1
  <2>1. /\ ui' = [u EXCEPT !.loading = TRUE, !.resets = n, !.start = st]
        /\ UNCHANGED <<server, channel, paging, reach>>
    BY <1>1 DEF DrawMore
  <2>2. st \in 0..Cap /\ n \in 0..2 /\ n > 0
    BY <1>0, <1>1, CapAssumption, DrawAssumption DEF DrawMore
  <2> HIDE DEF st, n
  <2>3. ui' \in View /\ ui'.exhausted = u.exhausted /\ ui'.resets = n
    BY <2>1, <2>2 DEF View
  <2>4. QED
    BY <1>0, <2>1, <2>2, <2>3
       DEF Types, Buffer, OfThePast, Reached, OnlyTheLog, WaitsForSomething, ExhaustedTruly
<1>2. CASE AwaitPage(u) /\ paging.pending
  <2>1. ui' = [u EXCEPT !.loading = TRUE] /\ UNCHANGED <<server, channel, paging, reach>>
    BY <1>2 DEF AwaitPage
  <2>2. ui' \in View /\ ui'.exhausted = u.exhausted
    BY <2>1 DEF View
  <2>3. QED
    BY <1>0, <1>2, <2>1, <2>2
       DEF Types, Buffer, OfThePast, Reached, OnlyTheLog, WaitsForSomething, ExhaustedTruly
<1>3. CASE AskServer(u)
  <2> DEFINE r == [what |-> "before", bound |-> Oldest(channel.messages)]
             n == paging.timers + 1
  <2>1. /\ paging' = [paging EXCEPT !.pending = TRUE, !.timers = n]
        /\ server' = [server EXCEPT !.asked = Append(server.asked, r)]
        /\ ui' = [u EXCEPT !.loading = TRUE]
        /\ UNCHANGED <<channel, reach>>
        /\ chathistory
    BY <1>3 DEF AskServer, HasHistory
  <2>2. n \in 0..MaxTimers /\ n > 0
    BY <1>3, Fields, DrawAssumption DEF AskServer
  <2>3. r \in Request
    <3>1. channel.messages \in Seq(Line) /\ Len(channel.messages) # 0
      BY <1>0, EmptySeq DEF Buffer, Lines
    <3>2. channel.messages[1].at \in 1..Last
      <4> DEFINE m == channel.messages
      <4>1. m \in Seq(Line) /\ Len(m) # 0
        BY <3>1
      <4> HIDE DEF m
      <4>2. Len(m) \in Nat /\ \A i \in 1..Len(m) : m[i].at \in 1..Last
        BY <4>1, ListHas
      <4>3. 1 \in 1..Len(m)
        BY <4>1, <4>2
      <4>4. m[1].at \in 1..Last
        BY <4>2, <4>3
      <4>5. QED
        BY <4>4 DEF m
    <3>3. QED
      BY <3>2 DEF Request, Oldest
  <2>4. Append(server.asked, r) \in Seq(Request)
    BY <2>3, Fields
  <2> HIDE DEF r, n
  <2>5. /\ paging' \in [pending : BOOLEAN, timers : 0..MaxTimers, seeded : BOOLEAN]
        /\ paging'.timers = n /\ paging'.pending
    BY <2>1, <2>2 DEF Types
  <2>6. /\ server' \in [now : Old..Last, said : SUBSET (1..Last), asked : Seq(Request)]
        /\ server'.now = server.now /\ server'.said = server.said
    BY <2>1, <2>4 DEF Types
  <2>7. ui' \in View /\ ui'.exhausted = u.exhausted
    BY <2>1 DEF View
  <2>8. Types'
    BY <1>0, <2>1, <2>5, <2>6, <2>7 DEF Types
  <2>9. Buffer(channel, server.now)' /\ OfThePast' /\ Reached'
    BY <1>0, <2>1, <2>6 DEF Buffer, OfThePast, Reached
  <2>10. OnlyTheLog' /\ WaitsForSomething' /\ ExhaustedTruly'
    BY <1>0, <2>1, <2>2, <2>5 DEF OnlyTheLog, WaitsForSomething, ExhaustedTruly
  <2>11. QED
    BY <2>8, <2>9, <2>10
<1>4. CASE ReadLog(u)
  <2> DEFINE old == {t \in log.lines : t < Oldest(channel.messages)}
  <2>1. PICK older \in Newest(old) :
          /\ Becomes(PrependMessages(channel, AsHistory(older)))
          /\ OlderHistoryLoaded(u, Len(older))
    BY <1>4 DEF ReadLog
  <2>2. UNCHANGED <<server, paging>>
    BY <1>4 DEF ReadLog
  <2>3. /\ channel.messages \in Seq(Line) /\ Len(channel.messages) \in Nat
        /\ Len(channel.messages) # 0
        /\ DOMAIN channel.messages = 1..Len(channel.messages)
        /\ \A i \in 1..Len(channel.messages) : /\ channel.messages[i].at \in Int
                                               /\ channel.messages[i].past \in BOOLEAN
    <3>1. channel.messages \in Seq(Line) /\ channel.messages # <<>>
      BY <1>0 DEF Buffer, Lines
    <3>2. QED
      BY <3>1, ListHas, EmptySeq
  <2>4. old \in SUBSET (1..server.now) /\ old \in SUBSET (1..Last)
    BY Fields DEF OfThePast
  <2>5. ~chathistory => \A t \in old, i \in 1..Len(channel.messages) : t < channel.messages[i].at
    <3>1. SUFFICES ASSUME ~chathistory, NEW t \in old, NEW i \in 1..Len(channel.messages)
                   PROVE  t < channel.messages[i].at
      OBVIOUS
    <3>2. t < channel.messages[1].at /\ t \in Int
      BY <2>4, LineAssumption DEF Oldest
    <3>3. i = 1 \/ channel.messages[1].at < channel.messages[i].at
      <4>1. 1 \in 1..Len(channel.messages) /\ (i = 1 \/ 1 < i)
        BY <2>3
      <4>2. Ordered(channel.messages, BOOLEAN)
        BY <3>1 DEF Buffer
      <4>3. QED
        BY <2>3, <4>1, <4>2 DEF Ordered
    <3>4. channel.messages[1].at \in Int /\ channel.messages[i].at \in Int
      BY <2>3
    <3>5. QED
      BY <3>2, <3>3, <3>4
  <2>6. Buffer(PrependMessages(channel, AsHistory(older)), server.now)
    <3> HIDE DEF old
    <3>1. QED
      BY <2>4, <2>5, Fields, PageBeforeFits
  <2>7. /\ Buffer(channel, server.now)' /\ Reached'
        /\ reach' \in 1..Last + 1 /\ reach' \in Int /\ reach' =< reach
    BY <1>0, <2>1, <2>2, <2>6, ChannelStep
  <2>8. /\ ui' \in View /\ ~ui'.loading
        /\ ui'.exhausted => u.exhausted \/ Len(older) = 0
    <3>1. Len(older) \in Nat
      BY <2>4, PageLines
    <3>2. QED
      BY <2>1, <3>1, LoadedGives
  <2>9. Types'
    BY <1>0, <2>2, <2>7, <2>8 DEF Types
  <2>10. OfThePast' /\ WaitsForSomething'
    BY <1>0, <2>2, <2>8 DEF OfThePast, WaitsForSomething
  \* The oldest line held is as old as reach, and of the past.
  <2>11. reach =< channel.messages[1].at /\ channel.messages[1].at \in 1..server.now
    BY <2>3 DEF Buffer, Reached
  <2>12. OnlyTheLog'
    BY <1>0, <2>2, <2>3, <2>7, <2>8, <2>11, Fields, EmptySeq DEF OnlyTheLog
  <2>13. ExhaustedTruly'
    <3>1. SUFFICES ASSUME ~chathistory, ui'.exhausted, NEW t \in log.lines
                   PROVE  t >= reach'
      BY <1>0 DEF ExhaustedTruly
    <3>2. t \in Int
      BY Fields, LineAssumption
    <3>3. CASE ui.exhausted
      BY <2>7, <3>1, <3>2, <3>3, Fields DEF ExhaustedTruly
    <3>4. CASE Len(older) = 0
      <4>1. old = {}
        <5> HIDE DEF old
        <5>1. QED
          BY <3>4, EmptyPage
      <4>2. ~(t < channel.messages[1].at)
        BY <4>1 DEF Oldest
      <4>3. QED
        BY <2>7, <2>11, <3>2, <4>2, Fields
    <3>5. QED
      BY <2>8, <3>1, <3>3, <3>4
  <2>14. QED
    BY <2>7, <2>9, <2>10, <2>12, <2>13
<1>5. QED
  BY <1>1, <1>2, <1>3, <1>4 DEF LoadOlderMessages

LEMMA SettleKeeps ==
  ASSUME IInv, Settle
  PROVE  IInv'
<1> DEFINE n == ui.resets - 1
           u == [ui EXCEPT !.loading = FALSE, !.resets = n]
<1>1. n \in 0..2
  BY Fields DEF IInv, Settle
<1>2. \/ /\ ui' = u
         /\ UNCHANGED <<chathistory, server, membership, channel, log, paging, reach>>
      \/ LoadOlderMessages(u)
  BY DEF Settle
<1> HIDE DEF n
<1>3. u \in View /\ ~u.loading /\ u.exhausted = ui.exhausted
  BY <1>1 DEF IInv, Types, View
<1> HIDE DEF u
<1>4. CASE LoadOlderMessages(u)
  BY <1>3, <1>4, LoadOlderKeeps
<1>5. CASE /\ ui' = u
           /\ UNCHANGED <<chathistory, server, membership, channel, log, paging, reach>>
  BY <1>3, <1>5
     DEF IInv, Types, Buffer, OfThePast, Reached, OnlyTheLog, WaitsForSomething, ExhaustedTruly
<1>6. QED
  BY <1>2, <1>4, <1>5

LEMMA HistoryBatchKeeps ==
  ASSUME IInv, OnHistoryBatch
  PROVE  IInv'
<1> USE DEF IInv
<1> DEFINE request == Head(server.asked)
           lines == IF request.what = "latest" THEN server.said
                    ELSE {t \in server.said : t < request.bound}
<1>1. /\ server.asked # <<>> /\ chathistory
      /\ server' = [server EXCEPT !.asked = Tail(server.asked)]
      /\ paging' = [paging EXCEPT !.pending = FALSE]
      /\ UNCHANGED <<chathistory, membership, log>>
  BY DEF OnHistoryBatch, OnlyTheLog
<1>2. PICK older \in Newest(lines) :
        IF paging.pending
          THEN /\ Becomes(PrependMessages(channel, AsHistory(older)))
               /\ OlderHistoryLoaded(ui, Len(older))
          ELSE /\ Becomes(AddMessages(channel, AsHistory(older)))
               /\ UNCHANGED ui
  BY DEF OnHistoryBatch
<1>3. Tail(server.asked) \in Seq(Request)
  BY <1>1, Fields
<1>4. /\ server' \in [now : Old..Last, said : SUBSET (1..Last), asked : Seq(Request)]
      /\ server'.now = server.now /\ server'.said = server.said
  BY <1>1, <1>3 DEF Types
<1>5. /\ paging' \in [pending : BOOLEAN, timers : 0..MaxTimers, seeded : BOOLEAN]
      /\ ~paging'.pending
  BY <1>1 DEF Types
<1>6. lines \in SUBSET (1..server.now) /\ lines \in SUBSET (1..Last)
  BY Fields DEF OfThePast
<1> HIDE DEF request, lines
<1>7. Len(older) \in Nat
  BY <1>6, PageLines
<1>8. \A c : Buffer(c, server.now) /\ Becomes(c) =>
        /\ Buffer(channel, server.now)' /\ Reached' /\ reach' \in 1..Last + 1
  BY <1>1, <1>4, ChannelStep
<1>9. /\ Buffer(channel, server.now)' /\ Reached' /\ reach' \in 1..Last + 1
      /\ ui' \in View /\ (ui'.loading => ui'.resets > 0)
  <2>1. CASE paging.pending
    <3>1. Becomes(PrependMessages(channel, AsHistory(older))) /\ OlderHistoryLoaded(ui, Len(older))
      BY <1>2, <2>1
    <3>2. Buffer(PrependMessages(channel, AsHistory(older)), server.now)
      BY <1>1, <1>6, Fields, PageBeforeFits
    <3>3. ui' \in View /\ ~ui'.loading
      BY <1>7, <3>1, LoadedGives DEF Types
    <3>4. QED
      BY <1>8, <3>1, <3>2, <3>3
  <2>2. CASE ~paging.pending
    <3>1. Becomes(AddMessages(channel, AsHistory(older))) /\ ui' = ui
      BY <1>2, <2>2
    <3>2. Buffer(AddMessages(channel, AsHistory(older)), server.now)
      BY <1>1, <1>6, Fields, PageAfterFits
    <3>3. QED
      BY <1>8, <2>2, <3>1, <3>2 DEF Types, WaitsForSomething
  <2>3. QED
    BY <2>1, <2>2
<1>10. Types'
  BY <1>1, <1>4, <1>5, <1>9 DEF Types
<1>11. OfThePast' /\ OnlyTheLog' /\ WaitsForSomething' /\ ExhaustedTruly'
  BY <1>1, <1>4, <1>5, <1>9 DEF OfThePast, OnlyTheLog, WaitsForSomething, ExhaustedTruly
<1>12. QED
  BY <1>9, <1>10, <1>11

LEMMA TimeoutKeeps ==
  ASSUME IInv, OnTimeout
  PROVE  IInv'
<1> USE DEF IInv
<1> DEFINE n == paging.timers - 1
<1>1. n \in 0..MaxTimers
  BY Fields, DrawAssumption DEF OnTimeout
<1>2. /\ paging' = [paging EXCEPT !.pending = FALSE, !.timers = n]
      /\ UNCHANGED <<chathistory, server, membership, channel, log, reach>>
  BY DEF OnTimeout
<1> HIDE DEF n
<1>3. /\ paging' \in [pending : BOOLEAN, timers : 0..MaxTimers, seeded : BOOLEAN]
      /\ ~paging'.pending /\ paging'.seeded = paging.seeded
  BY <1>1, <1>2 DEF Types
<1>4. /\ ui' \in View
      /\ ui'.loading => ui'.resets > 0
      /\ paging.pending \/ ui' = ui
  BY LoadedGives DEF OnTimeout, Types, WaitsForSomething
<1>5. Types' /\ Buffer(channel, server.now)' /\ OfThePast' /\ Reached'
  BY <1>2, <1>3, <1>4 DEF Types, Buffer, OfThePast, Reached
<1>6. OnlyTheLog' /\ WaitsForSomething' /\ ExhaustedTruly'
  BY <1>2, <1>3, <1>4 DEF OnlyTheLog, WaitsForSomething, ExhaustedTruly
<1>7. QED
  BY <1>5, <1>6

LEMMA JoinKeeps ==
  ASSUME IInv, Join
  PROVE  IInv'
<1> USE DEF IInv
<1> DEFINE now == server.now
           l == [at |-> now + 1, past |-> FALSE]
           seeds == paging.seeded \/ Seeds
<1>1. /\ now \in Nat /\ now < Last /\ now + 1 \in Old..Last /\ now + 1 \in 1..Last
      /\ now \in 0..Last
      /\ server.said \in SUBSET (1..Last) /\ log.lines \in SUBSET (1..Last)
      /\ reach \in Int
  BY Fields, LineAssumption DEF Join
<1>2. /\ server' = [server EXCEPT !.now = now + 1]
      /\ membership' = "joined" /\ chathistory' = chathistory
      /\ paging' = [paging EXCEPT !.seeded = seeds]
  BY DEF Join
<1>3. /\ server' \in [now : Old..Last, said : SUBSET (1..Last), asked : Seq(Request)]
      /\ server'.now = now + 1 /\ server'.said = server.said /\ server'.asked = server.asked
  BY <1>1, <1>2 DEF Types
<1>4. seeds \in BOOLEAN /\ (~chathistory => seeds)
  BY Fields DEF Seeds
<1> HIDE DEF seeds
<1>5. /\ paging' \in [pending : BOOLEAN, timers : 0..MaxTimers, seeded : BOOLEAN]
      /\ paging'.pending = paging.pending /\ paging'.timers = paging.timers
      /\ ~chathistory => paging'.seeded
  BY <1>2, <1>4 DEF Types
<1>6. PICK older \in IF Seeds THEN Newest(log.lines) ELSE {<<>>} :
        /\ Becomes(AddMessage(PrependMessages(channel, AsHistory(older)),
                              [at |-> server'.now, past |-> FALSE]))
        /\ IF older # <<>> THEN OlderHistoryLoaded(ui, Len(older)) ELSE UNCHANGED ui
  BY DEF Join
<1> DEFINE c == PrependMessages(channel, AsHistory(older))
<1>7. /\ Buffer(c, now)
      /\ older # <<>> => Len(older) \in Nat \ {0}
  <2>1. CASE Seeds
    <3>1. older \in Newest(log.lines) /\ ~chathistory /\ channel.messages = <<>>
      BY <1>6, <2>1 DEF Seeds, OnlyTheLog
    <3>2. Len(channel.messages) = 0
      BY <3>1
    <3>3. log.lines \in SUBSET (1..now)
      BY DEF OfThePast
    <3>4. Buffer(c, now)
      BY <1>1, <3>1, <3>2, <3>3, PageBeforeFits
    <3>5. PICK k \in 0..Page : older \in [1..k -> log.lines]
      BY <3>1 DEF Newest
    <3>6. k \in Nat /\ older \in Seq(log.lines)
      BY <3>5, PageAssumption, SeqDef
    <3>7. Len(older) \in Nat /\ (older # <<>> => Len(older) # 0)
      BY <3>6, EmptySeq, LenProperties
    <3>8. QED
      BY <3>4, <3>7
  <2>2. CASE ~Seeds
    <3>1. older = <<>>
      BY <1>6, <2>2
    <3>2. <<>> \in Newest({})
      <4>1. <<>> \in [1..0 -> {}] /\ 0 \in 0..Page /\ DOMAIN <<>> = 1..0
        BY PageAssumption
      <4>2. QED
        BY <4>1 DEF Newest, IsNewest
    <3>3. Buffer(c, now)
      BY <1>1, <3>1, <3>2, PageBeforeFits
    <3>4. QED
      BY <3>1, <3>3
  <2>3. QED
    BY <2>1, <2>2
<1>8. Buffer(AddMessage(c, l), now + 1)
  BY <1>1, <1>7, LiveLineFits
<1>9. Becomes(AddMessage(c, l))
  BY <1>3, <1>6
<1>10. /\ Buffer(channel, server.now)' /\ Reached'
       /\ reach' \in 1..Last + 1 /\ reach' \in Int /\ reach' =< reach
  BY <1>2, <1>3, <1>8, <1>9, ChannelStep
<1>11. /\ ui' \in View
       /\ ui'.exhausted => ui.exhausted
       /\ ui' = ui \/ ~ui'.loading
  <2>1. CASE older = <<>>
    BY <1>6, <2>1 DEF Types
  <2>2. CASE older # <<>>
    BY <1>6, <1>7, <2>2, LoadedGives DEF Types
  <2>3. QED
    BY <2>1, <2>2
<1>12. log' = Logged(now + 1)
  BY <1>3 DEF Join
<1>13. /\ log' \in [lines : SUBSET (1..Last), on : BOOLEAN]
       /\ log'.lines \subseteq log.lines \cup {now + 1}
  BY <1>1, <1>12 DEF Logged, Types
<1>14. Types'
  BY <1>2, <1>3, <1>5, <1>10, <1>11, <1>13 DEF Types
<1>15. OfThePast'
  <2>1. 1..now \cup {now + 1} \subseteq 1..now + 1
    BY <1>1
  <2>2. QED
    BY <1>3, <1>13, <2>1 DEF OfThePast
<1>16. OnlyTheLog' /\ WaitsForSomething'
  BY <1>1, <1>2, <1>3, <1>5, <1>10, <1>11 DEF OnlyTheLog, WaitsForSomething
<1>17. ExhaustedTruly'
  <2>1. ASSUME ~chathistory, ui'.exhausted, NEW t \in log.lines \cup {now + 1}
        PROVE  t >= reach'
    <3>1. CASE t \in log.lines
      BY <1>1, <1>10, <1>11, <2>1, <3>1 DEF ExhaustedTruly
    <3>2. CASE t = now + 1
      BY <1>1, <1>10, <1>11, <2>1, <3>2 DEF OnlyTheLog
    <3>3. QED
      BY <3>1, <3>2
  <2>2. QED
    BY <1>2, <1>13, <2>1 DEF ExhaustedTruly
<1>18. QED
  BY <1>10, <1>14, <1>15, <1>16, <1>17

\* The link and what the user does to the view and the log.
LEMMA LinkKeeps ==
  ASSUME IInv, OnEndOfNames \/ LinkLost
  PROVE  IInv'
<1> USE DEF IInv
<1> DEFINE r == [what |-> "latest", bound |-> 0]
           q == IF OnEndOfNames
                  THEN IF chathistory THEN Append(server.asked, r) ELSE server.asked
                  ELSE <<>>
<1>1. /\ server' = [server EXCEPT !.asked = q]
      /\ membership # "out" /\ membership' \in {"listed", "out"}
      /\ UNCHANGED <<chathistory, channel, log, paging, ui, reach>>
  BY DEF OnEndOfNames, LinkLost
<1>2. q \in Seq(Request) /\ (~chathistory => q = <<>>)
  <2>1. <<>> \in Seq(Request)
    OBVIOUS
  <2>2. r \in Request
    BY LineAssumption DEF Request
  <2>3. Append(server.asked, r) \in Seq(Request)
    BY <2>2, Fields
  <2>4. ~chathistory => server.asked = <<>>
    BY DEF OnlyTheLog
  <2>5. QED
    BY <2>1, <2>3, <2>4, Fields
<1> HIDE DEF r, q
<1>3. /\ server' \in [now : Old..Last, said : SUBSET (1..Last), asked : Seq(Request)]
      /\ server'.now = server.now /\ server'.said = server.said /\ server'.asked = q
  BY <1>1, <1>2 DEF Types
<1>4. Types' /\ Buffer(channel, server.now)' /\ OfThePast' /\ Reached'
  BY <1>1, <1>3 DEF Types, Buffer, OfThePast, Reached
<1>5. OnlyTheLog' /\ WaitsForSomething' /\ ExhaustedTruly'
  BY <1>1, <1>2, <1>3 DEF OnlyTheLog, WaitsForSomething, ExhaustedTruly
<1>6. QED
  BY <1>4, <1>5

LEMMA ViewKeeps ==
  ASSUME IInv, SwitchTo \/ SwitchAway \/ \E on \in BOOLEAN : LoggingToggled(on)
  PROVE  IInv'
<1> USE DEF IInv
<1>1. UNCHANGED <<chathistory, server, membership, channel, paging, reach>>
  BY DEF SwitchTo, SwitchAway, LoggingToggled
<1>2. /\ log' \in [lines : SUBSET (1..Last), on : BOOLEAN]
      /\ log'.lines = log.lines
  BY DEF SwitchTo, SwitchAway, LoggingToggled, Types
<1>3. /\ ui' \in View /\ ui'.loading = ui.loading /\ ui'.resets = ui.resets
      /\ ui'.exhausted => ui.exhausted
  <2>1. CASE SwitchTo
    <3> DEFINE total == Len(channel.messages)
               st == IF total > Window THEN total - Window ELSE 0
    <3>1. ui' = [ui EXCEPT !.active = TRUE, !.start = st]
      BY <2>1 DEF SwitchTo
    <3>2. total \in 0..Cap
      BY ListHas, CapAssumption DEF Buffer, Lines
    <3> HIDE DEF total
    <3>3. st \in 0..Cap
      BY <3>2, CapAssumption, DrawAssumption
    <3> HIDE DEF st
    <3>4. QED
      BY <3>1, <3>3 DEF Types, View
  <2>2. CASE SwitchAway \/ \E on \in BOOLEAN : LoggingToggled(on)
    <3>1. ui' \in {[ui EXCEPT !.active = FALSE], [ui EXCEPT !.exhausted = FALSE], ui}
      BY <2>2 DEF SwitchAway, LoggingToggled
    <3>2. QED
      BY <3>1 DEF Types, View
  <2>3. QED
    BY <2>1, <2>2
<1>4. Types' /\ Buffer(channel, server.now)' /\ OfThePast' /\ Reached'
  BY <1>1, <1>2, <1>3 DEF Types, Buffer, OfThePast, Reached
<1>5. OnlyTheLog' /\ WaitsForSomething' /\ ExhaustedTruly'
  BY <1>1, <1>2, <1>3 DEF OnlyTheLog, WaitsForSomething, ExhaustedTruly
<1>6. QED
  BY <1>4, <1>5

LEMMA StepInv == IInv /\ [Next]_vars => IInv'
<1> SUFFICES ASSUME IInv, [Next]_vars PROVE IInv'
  OBVIOUS
<1>1. CASE Say
  BY <1>1, SayKeeps
<1>2. CASE ScrollUp
  BY <1>2, LoadOlderKeeps DEF ScrollUp, IInv, Types
<1>3. CASE Settle
  BY <1>3, SettleKeeps
<1>4. CASE OnHistoryBatch
  BY <1>4, HistoryBatchKeeps
<1>5. CASE OnTimeout
  BY <1>5, TimeoutKeeps
<1>6. CASE Join
  BY <1>6, JoinKeeps
<1>7. CASE OnEndOfNames \/ LinkLost
  BY <1>7, LinkKeeps
<1>8. CASE SwitchTo \/ SwitchAway \/ \E on \in BOOLEAN : LoggingToggled(on)
  BY <1>8, ViewKeeps
<1>9. CASE UNCHANGED vars
  BY <1>9
     DEF vars, client, IInv, Types, Buffer, OfThePast, Reached, OnlyTheLog, WaitsForSomething,
         ExhaustedTruly
<1>10. QED
  BY <1>1, <1>2, <1>3, <1>4, <1>5, <1>6, <1>7, <1>8, <1>9 DEF Next

LEMMA InvHolds == Spec => []IInv
<1>1. QED
  BY InitInv, StepInv, PTL DEF Spec

----------------------------------------------------------------------------
(* The theorems.                                                           *)

\* The lines that came live are held in the order they were said in, and where
\* the log is the only history all lines are, each once: through seeds, pages,
\* lost links, trimming at either end and logging switched off and on.
THEOREM LinesStayInOrder == Spec => []LinesInOrder
<1>1. IInv => LinesInOrder
  BY DEF IInv, Buffer, LinesInOrder
<1>2. QED
  BY <1>1, InvHolds, PTL

\* The view waits for a posted reset or for a page that a timeout of its own
\* ends, also when the timeouts of earlier requests fire for it; and the log
\* is given up only when nothing older than what was held was ever in it.
THEOREM ScrollSound == Spec => []ScrollInv
<1>1. IInv => ScrollInv
  <2>1. IInv => TypeOK
    BY DEF IInv, Types, Buffer, Lines, Line, View, TypeOK
  <2>2. QED
    BY <2>1 DEF IInv, ScrollInv
<1>2. QED
  BY <1>1, InvHolds, PTL

----------------------------------------------------------------------------
(* MessageRouting: the inductive invariant.                                *)
\* The names of buffers, and what a message of one is.
Names == {Chan, Pal, Me, Server}
Commands == {"privmsg", "notice", "action", "server"}

Message == [at : Int, parts : Seq(Nat), cmd : Commands, from : Names, to : Names,
            new : BOOLEAN, past : BOOLEAN]

\* The lines a message is made of, and those of a list of messages.
Numbers(l) == {l.parts[k] : k \in 1..Len(l.parts)}
AllNumbers(s) == UNION {Numbers(s[i]) : i \in 1..Len(s)}

\* A message of lines that have come, in their order; and one that is in its place.
Whole(l, S) == Numbers(l) \subseteq S /\ \A k \in 1 .. Len(l.parts) - 1 : l.parts[k] < l.parts[k + 1]

Placed(l, b) == l.parts = <<>> \/ l.cmd = "action" \/ b \in Place(l)

\* A list of such messages for buffer b, no two of which share a line.
GoodList(s, b, S) ==
  /\ s \in Seq(Message)
  /\ \A i \in 1..Len(s) : Whole(s[i], S) /\ Placed(s[i], b)
  /\ \A i, j \in 1..Len(s) : i # j => Numbers(s[i]) \cap Numbers(s[j]) = {}

\* A buffer of such messages, with at most u unread.
GoodBuffer(c, b, S, u) ==
  /\ c \in [messages : Seq(Message), reactions : SUBSET Int, firstUnread : Nat, unread : Nat]
  /\ GoodList(c.messages, b, S) /\ Len(c.messages) =< Cap
  /\ c.firstUnread \in 0..Len(c.messages) /\ c.unread \in 0..u
  /\ c.reactions \subseteq Held(c.messages)

\* The lines in a buffer, and the page awaited.
In(m, b) == IF b \in DOMAIN m.buffers THEN AllNumbers(m.buffers[b].messages) ELSE {}
Awaited(m) == IF m.page = Nothing THEN <<>> ELSE m.page

\* The model when the lines of S have come, of which at most u are counted.
GoodModel(m, S, u) ==
  /\ DOMAIN m = {"buffers", "listed", "page", "seeded"}
  /\ m.listed \subseteq DOMAIN m.buffers
  /\ {Server, Chan} \subseteq DOMAIN m.buffers /\ DOMAIN m.buffers \subseteq Names
  /\ \A b \in DOMAIN m.buffers : GoodBuffer(m.buffers[b], b, S, u)
  /\ GoodList(Awaited(m), Chan, S)
  /\ \A b, c \in DOMAIN m.buffers :
       b # c => AllNumbers(m.buffers[b].messages) \cap AllNumbers(m.buffers[c].messages) = {}
  /\ \A b \in DOMAIN m.buffers : AllNumbers(m.buffers[b].messages) \cap AllNumbers(Awaited(m)) = {}

\* What may have been said when n lines were.
SpokenLine(n) == {l \in [cmd : Commands, from : Names, to : Names, nr : 1..n, at : Nat, new : BOOLEAN] :
                    <<l.cmd, <<l.from, l.to>>>> \in Speech}

Times(s) == {s[i].nr : i \in 1..Len(s)}

\* A batch that is kept, and what the server has open for it.
GoodBatch(batch, served, n) ==
  /\ DOMAIN batch = {"kind", "to", "msgs"} /\ batch.kind = served.kind /\ batch.to = served.to
  /\ batch.msgs \in Seq(SpokenLine(n)) /\ Len(batch.msgs) =< MaxBatch
  /\ \A i, j \in 1..Len(batch.msgs) : i < j => batch.msgs[i].nr < batch.msgs[j].nr
  /\ served.kind = "multiline" =>
       \A i \in 1..Len(batch.msgs) :
         /\ batch.msgs[i].cmd = "privmsg" /\ batch.msgs[i].from = served.from
         /\ batch.msgs[i].to = served.to /\ (served.within = Nothing => batch.msgs[i].new)

\* No line is kept for two batches.
GoodBatches ==
  /\ DOMAIN batches = Refs
  /\ \A r \in Opened(batches) : open[r] # Nothing /\ GoodBatch(batches[r], open[r], said)
  /\ \A r, q \in Opened(batches) : r # q => Times(batches[r].msgs) \cap Times(batches[q].msgs) = {}
  /\ IsFiniteSet(Opened(batches)) /\ Cardinality(Opened(batches)) =< MaxOpen

\* At the server, there is one batch of a kind.
GoodOpen ==
  /\ DOMAIN open = Refs
  /\ \A r \in Opened(open) : /\ open[r] \in OpenBatch /\ <<open[r].from, open[r].to>> \in Talks
                             /\ Sends(open[r].kind)
  /\ \A r, q \in Opened(open) : open[r].kind = open[q].kind => r = q

\* The lines kept back; and whether a multiline batch, counted once, has some.
Pending == UNION {Times(batches[r].msgs) : r \in Opened(batches)}
Kept == IF \E r \in Opened(batches) : batches[r].kind = "multiline" /\ batches[r].msgs # <<>> THEN 1 ELSE 0

\* The lines that have come to the model, and how many may be counted as unread.
Come == (1..said) \ Pending
Counted == said - Kept

\* The inductive invariant.
RInv ==
  /\ GoodModel(Model, Come, Counted)
  /\ GoodOpen /\ GoodBatches
  /\ active \in {Server} \cup listed
  /\ said \in 0..MaxSaid /\ posted \in 0..MaxPosted
  /\ caps \in {{}, {"echo-message", "chathistory"}, {"znc"}}

(* ----------------- good lists ------------------------------------------ *)

\* The messages of a list.
LEMMA MessagesAre ==
  ASSUME NEW s \in Seq(Message)
  PROVE  Len(s) \in Nat /\ DOMAIN s = 1..Len(s) /\ \A i \in 1..Len(s) : s[i] \in Message
BY LenProperties

\* Of a part of a list, of which place[i] is the place in all of what is at i.
LEMMA PartOfList ==
  ASSUME NEW b, NEW S, NEW all, GoodList(all, b, S), NEW s \in Seq(Message),
         NEW k \in Nat, \A i \in 1..Len(s) : k + i \in 1..Len(all) /\ s[i] = all[k + i]
  PROVE  GoodList(s, b, S) /\ AllNumbers(s) \subseteq AllNumbers(all)
<1>1. Len(s) \in Nat /\ Len(all) \in Nat
  BY MessagesAre DEF GoodList
<1>2. \A i \in 1..Len(s) : Whole(s[i], S) /\ Placed(s[i], b)
  BY DEF GoodList
<1>3. \A i, j \in 1..Len(s) : i # j => Numbers(s[i]) \cap Numbers(s[j]) = {}
  <2> SUFFICES ASSUME NEW i \in 1..Len(s), NEW j \in 1..Len(s), i # j
               PROVE  Numbers(s[i]) \cap Numbers(s[j]) = {}
    OBVIOUS
  <2>1. k + i # k + j /\ k + i \in 1..Len(all) /\ k + j \in 1..Len(all)
    BY <1>1
  <2>2. s[i] = all[k + i] /\ s[j] = all[k + j]
    OBVIOUS
  <2>3. QED
    BY <2>1, <2>2 DEF GoodList
<1>4. \A n \in AllNumbers(s) : n \in AllNumbers(all)
  BY DEF AllNumbers
<1>5. QED
  BY <1>2, <1>3, <1>4 DEF GoodList

\* What the cap keeps of a good list, at either end, is good.
LEMMA KeptOfGood ==
  ASSUME NEW b, NEW S, NEW all, GoodList(all, b, S)
  PROVE  /\ GoodList(LastOf(all), b, S) /\ AllNumbers(LastOf(all)) \subseteq AllNumbers(all)
         /\ GoodList(FirstOf(all), b, S) /\ AllNumbers(FirstOf(all)) \subseteq AllNumbers(all)
<1>1. all \in Seq(Message)
  BY DEF GoodList
<1>2. /\ Len(all) \in Nat /\ Over(all) \in Nat /\ Over(all) =< Len(all)
      /\ LastOf(all) \in Seq(Message) /\ Len(LastOf(all)) = Len(all) - Over(all)
      /\ \A i \in 1..Len(LastOf(all)) : LastOf(all)[i] = all[Over(all) + i]
      /\ FirstOf(all) \in Seq(Message) /\ Len(FirstOf(all)) = Len(all) - Over(all)
      /\ \A i \in 1..Len(FirstOf(all)) : FirstOf(all)[i] = all[i]
  BY <1>1, KeepLines
<1>3. \A i \in 1..Len(LastOf(all)) : Over(all) + i \in 1..Len(all)
  BY <1>2
<1>4. GoodList(LastOf(all), b, S) /\ AllNumbers(LastOf(all)) \subseteq AllNumbers(all)
  BY <1>2, <1>3, PartOfList
<1>5. \A i \in 1..Len(FirstOf(all)) : 0 + i \in 1..Len(all) /\ FirstOf(all)[i] = all[0 + i]
  BY <1>2
<1>6. GoodList(FirstOf(all), b, S) /\ AllNumbers(FirstOf(all)) \subseteq AllNumbers(all)
  <2>1. 0 \in Nat
    OBVIOUS
  <2>2. QED
    BY <1>2, <1>5, <2>1, PartOfList
<1>7. QED
  BY <1>4, <1>6

\* Two good lists with no line in common, joined.
LEMMA JoinedGood ==
  ASSUME NEW b, NEW S, NEW s, NEW p, GoodList(s, b, S), GoodList(p, b, S),
         AllNumbers(s) \cap AllNumbers(p) = {}
  PROVE  GoodList(s \o p, b, S) /\ AllNumbers(s \o p) \subseteq AllNumbers(s) \cup AllNumbers(p)
<1> DEFINE all == s \o p
<1>1. s \in Seq(Message) /\ p \in Seq(Message)
  BY DEF GoodList
<1>2. /\ all \in Seq(Message) /\ Len(s) \in Nat /\ Len(p) \in Nat /\ Len(all) = Len(s) + Len(p)
      /\ \A i \in 1..Len(all) : all[i] = IF i =< Len(s) THEN s[i] ELSE p[i - Len(s)]
  BY <1>1, JoinLines
<1> HIDE DEF all
<1>3. ASSUME NEW i \in 1..Len(all)
      PROVE  \/ i \in 1..Len(s) /\ all[i] = s[i]
             \/ i - Len(s) \in 1..Len(p) /\ ~(i \in 1..Len(s)) /\ all[i] = p[i - Len(s)]
  BY <1>2
<1>4. \A i \in 1..Len(s) : Numbers(s[i]) \subseteq AllNumbers(s)
  BY DEF AllNumbers
<1>5. \A i \in 1..Len(p) : Numbers(p[i]) \subseteq AllNumbers(p)
  BY DEF AllNumbers
<1>6. \A i \in 1..Len(all) : Whole(all[i], S) /\ Placed(all[i], b)
  BY <1>3 DEF GoodList
<1>7. ASSUME NEW i \in 1..Len(all), NEW j \in 1..Len(all), i # j
      PROVE  Numbers(all[i]) \cap Numbers(all[j]) = {}
  <2>1. CASE i \in 1..Len(s) /\ j \in 1..Len(s)
    BY <1>3, <1>7, <2>1 DEF GoodList
  <2>2. CASE i \in 1..Len(s) /\ j \notin 1..Len(s)
    <3>1. all[i] = s[i] /\ all[j] = p[j - Len(s)] /\ j - Len(s) \in 1..Len(p)
      BY <1>3, <2>2
    <3>2. Numbers(all[i]) \subseteq AllNumbers(s) /\ Numbers(all[j]) \subseteq AllNumbers(p)
      BY <1>4, <1>5, <2>2, <3>1
    <3>3. QED
      BY <3>2
  <2>3. CASE i \notin 1..Len(s) /\ j \in 1..Len(s)
    <3>1. all[j] = s[j] /\ all[i] = p[i - Len(s)] /\ i - Len(s) \in 1..Len(p)
      BY <1>3, <2>3
    <3>2. Numbers(all[j]) \subseteq AllNumbers(s) /\ Numbers(all[i]) \subseteq AllNumbers(p)
      BY <1>4, <1>5, <2>3, <3>1
    <3>3. QED
      BY <3>2
  <2>4. CASE i \notin 1..Len(s) /\ j \notin 1..Len(s)
    <3>1. all[i] = p[i - Len(s)] /\ all[j] = p[j - Len(s)]
      BY <1>3, <2>4
    <3>2. i - Len(s) \in 1..Len(p) /\ j - Len(s) \in 1..Len(p)
      BY <1>3, <2>4
    <3>3. i - Len(s) # j - Len(s)
      BY <1>2, <1>7
    <3>4. QED
      BY <3>1, <3>2, <3>3 DEF GoodList
  <2>5. QED
    BY <2>1, <2>2, <2>3, <2>4
<1>8. \A n \in AllNumbers(all) : n \in AllNumbers(s) \cup AllNumbers(p)
  <2> SUFFICES ASSUME NEW n \in AllNumbers(all)
               PROVE  n \in AllNumbers(s) \cup AllNumbers(p)
    OBVIOUS
  <2>1. PICK i \in 1..Len(all) : n \in Numbers(all[i])
    BY DEF AllNumbers
  <2>2. QED
    BY <1>3, <1>4, <1>5, <2>1
<1>9. GoodList(all, b, S)
  BY <1>2, <1>6, <1>7 DEF GoodList
<1>10. QED
  BY <1>8, <1>9 DEF all

\* A list of one message, and of none.
LEMMA OneGood ==
  ASSUME NEW b, NEW S, NEW l \in Message, Whole(l, S), Placed(l, b)
  PROVE  /\ GoodList(<<l>>, b, S) /\ AllNumbers(<<l>>) = Numbers(l)
         /\ <<l>> \in Seq(Message) /\ Len(<<l>>) = 1 /\ <<l>>[1] = l
<1>1. <<l>> \in Seq(Message) /\ Len(<<l>>) = 1 /\ <<l>>[1] = l
  OBVIOUS
<1> DEFINE one == <<l>>
<1> HIDE DEF one
<1>2. one \in Seq(Message) /\ Len(one) = 1 /\ one[1] = l
  BY <1>1 DEF one
<1>3. 1..Len(one) = {1}
  BY <1>2
<1>4. GoodList(one, b, S)
  BY <1>2, <1>3 DEF GoodList
<1>5. AllNumbers(one) = Numbers(l)
  BY <1>2, <1>3 DEF AllNumbers
<1>6. QED
  BY <1>1, <1>4, <1>5 DEF one

LEMMA NoneGood ==
  \A b, S : GoodList(<<>>, b, S) /\ AllNumbers(<<>>) = {}
<1>1. <<>> \in Seq(Message) /\ Len(<<>>) = 0 /\ 1..0 = {}
  OBVIOUS
<1> DEFINE none == <<>>
<1>2. none \in Seq(Message) /\ 1..Len(none) = {}
  BY <1>1
<1> HIDE DEF none
<1>3. \A b, S : GoodList(none, b, S)
  BY <1>2 DEF GoodList
<1>4. AllNumbers(none) = {}
  BY <1>2 DEF AllNumbers
<1>5. QED
  BY <1>3, <1>4 DEF none

\* More lines may have come.
LEMMA MoreGood ==
  ASSUME NEW b, NEW S, NEW T, S \subseteq T, NEW s, GoodList(s, b, S)
  PROVE  GoodList(s, b, T)
BY DEF GoodList, Whole

\* The lines of a good list are among those that have come.
LEMMA NumbersIn ==
  ASSUME NEW b, NEW S, NEW s, GoodList(s, b, S)
  PROVE  AllNumbers(s) \subseteq S
BY DEF GoodList, Whole, AllNumbers

(* ----------------- a buffer -------------------------------------------- *)

\* What it takes for reactions to be those of lines that are held.
LEMMA HeldBy ==
  ASSUME NEW s \in Seq(Message)
  PROVE  \A R : R \subseteq Held(s) <=> \A t \in R : \E i \in 1..Len(s) : s[i].at = t
<1>1. DOMAIN s = 1..Len(s)
  BY MessagesAre
<1>2. QED
  BY <1>1 DEF Held

\* The fields addMessages and prependMessages set.
LEMMA FieldsTyped ==
  ASSUME NEW b, NEW S, NEW m, GoodList(m, b, S), NEW R, R \subseteq Held(m), NEW f, f \in 0..Len(m)
  PROVE  m \in Seq(Message) /\ R \in SUBSET Int /\ f \in Nat
<1>1. m \in Seq(Message)
  BY DEF GoodList
<1>2. \A i \in 1..Len(m) : m[i].at \in Int
  BY <1>1, MessagesAre DEF Message
<1>3. \A t \in R : \E i \in 1..Len(m) : m[i].at = t
  BY <1>1, HeldBy
<1>4. Len(m) \in Nat
  BY <1>1, MessagesAre
<1>5. QED
  BY <1>1, <1>2, <1>3, <1>4

\* The fields of a good buffer.
LEMMA BufferParts ==
  ASSUME NEW c, NEW b, NEW S, NEW u, GoodBuffer(c, b, S, u)
  PROVE  /\ GoodList(c.messages, b, S) /\ c.messages \in Seq(Message)
         /\ Len(c.messages) \in Nat /\ Len(c.messages) =< Cap
         /\ c.firstUnread \in Nat /\ c.firstUnread =< Len(c.messages)
         /\ c.unread \in Nat /\ c.unread \in 0..u /\ c.reactions \subseteq Held(c.messages)
<1>1. GoodList(c.messages, b, S) /\ Len(c.messages) =< Cap /\ c.reactions \subseteq Held(c.messages)
  BY DEF GoodBuffer
<1>2. c.firstUnread \in 0..Len(c.messages) /\ c.unread \in 0..u
  BY DEF GoodBuffer
<1>3. c.messages \in Seq(Message)
  BY <1>1 DEF GoodList
<1>4. Len(c.messages) \in Nat
  BY <1>3, MessagesAre
<1>5. c.unread \in Nat
  BY DEF GoodBuffer
<1>6. QED
  BY <1>1, <1>2, <1>3, <1>4, <1>5

\* addMessages: a line that is new to a buffer, its reactions and firstUnread
\* adjusted.
LEMMA AddGood ==
  ASSUME NEW b, NEW S, NEW u, NEW c, GoodBuffer(c, b, S, u),
         NEW l \in Message, Whole(l, S), Placed(l, b), Numbers(l) \cap AllNumbers(c.messages) = {}
  PROVE  LET r == AddMessage(c, l)
         IN  /\ GoodBuffer(r, b, S, u) /\ r.unread = c.unread
             /\ AllNumbers(r.messages) \subseteq AllNumbers(c.messages) \cup Numbers(l)
             /\ Len(r.messages) >= 1 /\ r.messages[Len(r.messages)] = l
<1> DEFINE s == c.messages
           one == <<l>>
           all == s \o one
           over == Over(all)
           kept == LastOf(all)
           R == c.reactions \ {all[i].at : i \in 1..over}
           first == IF c.firstUnread > 1 THEN Greatest(1, c.firstUnread - over) ELSE c.firstUnread
<1>1. AddMessage(c, l) = [c EXCEPT !.messages = kept, !.reactions = R, !.firstUnread = first]
  BY DEF AddMessage, AddMessages
<1>2. /\ GoodList(s, b, S) /\ s \in Seq(Message) /\ Len(s) \in Nat /\ Len(s) =< Cap
      /\ c.firstUnread \in Nat /\ c.firstUnread =< Len(s) /\ c.reactions \subseteq Held(s)
  BY BufferParts
<1>3. /\ GoodList(one, b, S) /\ AllNumbers(one) = Numbers(l)
      /\ one \in Seq(Message) /\ Len(one) = 1 /\ one[1] = l
  BY OneGood
<1> HIDE DEF s, one
<1>4. /\ all \in Seq(Message) /\ Len(all) = Len(s) + 1
      /\ \A i \in 1..Len(all) : all[i] = IF i =< Len(s) THEN s[i] ELSE one[i - Len(s)]
  BY <1>2, <1>3, JoinLines
<1>5. GoodList(all, b, S) /\ AllNumbers(all) \subseteq AllNumbers(s) \cup Numbers(l)
  <2>1. AllNumbers(s) \cap AllNumbers(one) = {}
    BY <1>3 DEF s
  <2>2. QED
    BY <1>2, <1>3, <2>1, JoinedGood
<1> HIDE DEF all
<1>6. /\ over \in Nat /\ over =< Len(all) /\ Len(all) - over =< Cap
      /\ (over > 0 => Len(all) - over = Cap)
      /\ kept \in Seq(Message) /\ Len(kept) = Len(all) - over
      /\ \A i \in 1..Len(kept) : kept[i] = all[over + i]
  BY <1>4, KeepLines
<1>7. GoodList(kept, b, S) /\ AllNumbers(kept) \subseteq AllNumbers(all)
  BY <1>5, KeptOfGood
<1>8. R = c.reactions \ {all[i].at : i \in 1..over}
  OBVIOUS
<1> HIDE DEF over, kept, R
<1>9. /\ Len(kept) \in Nat /\ Len(kept) >= 1 /\ Len(kept) =< Cap
      /\ over + Len(kept) = Len(all)
  BY <1>2, <1>4, <1>6, CapAssumption
<1>10. kept[Len(kept)] = l
  <2>1. Len(kept) \in 1..Len(kept) /\ Len(all) \in 1..Len(all) /\ ~(Len(all) =< Len(s))
        /\ Len(all) - Len(s) = 1
    BY <1>2, <1>4, <1>9
  <2>2. kept[Len(kept)] = all[Len(all)]
    BY <1>6, <1>9, <2>1
  <2>3. QED
    BY <1>3, <1>4, <2>1, <2>2
<1>11. first \in 0..Len(kept)
  BY <1>2, <1>4, <1>6, <1>9 DEF Greatest
<1> HIDE DEF first
<1>12. R \subseteq Held(kept)
  <2>1. ASSUME NEW t \in R
        PROVE  \E i \in 1..Len(kept) : kept[i].at = t
    <3>1. PICK i \in 1..Len(s) : s[i].at = t
      BY <1>2, <1>8, HeldBy
    <3>2. i \in Nat /\ i \in 1..Len(all) /\ all[i].at = t
      BY <1>2, <1>4, <3>1
    <3>3. i > over
      BY <1>6, <1>8, <3>2
    <3>4. i - over \in 1..Len(kept) /\ over + (i - over) = i
      BY <1>6, <1>9, <3>2, <3>3
    <3>5. kept[i - over] = all[i]
      BY <1>6, <3>4
    <3>6. QED
      BY <3>2, <3>4, <3>5
  <2>2. QED
    BY <1>6, <2>1, HeldBy
<1>13. /\ GoodBuffer(AddMessage(c, l), b, S, u) /\ AddMessage(c, l).messages = kept
       /\ AddMessage(c, l).unread = c.unread
  <2> DEFINE d == [c EXCEPT !.messages = kept, !.reactions = R, !.firstUnread = first]
  <2>1. c \in [messages : Seq(Message), reactions : SUBSET Int, firstUnread : Nat, unread : Nat]
        /\ c.unread \in 0..u
    BY DEF GoodBuffer
  <2>2. kept \in Seq(Message) /\ R \in SUBSET Int /\ first \in Nat
    BY <1>7, <1>9, <1>11, <1>12, FieldsTyped
  <2>3. d \in [messages : Seq(Message), reactions : SUBSET Int, firstUnread : Nat, unread : Nat]
    BY <2>1, <2>2
  <2>4. d.messages = kept /\ d.reactions = R /\ d.firstUnread = first /\ d.unread = c.unread
    BY <2>1
  <2> HIDE DEF d
  <2>5. GoodBuffer(d, b, S, u)
    BY <1>7, <1>9, <1>11, <1>12, <2>1, <2>3, <2>4 DEF GoodBuffer
  <2>6. QED
    BY <1>1, <2>4, <2>5 DEF d
<1>14. AllNumbers(kept) \subseteq AllNumbers(s) \cup Numbers(l)
  BY <1>5, <1>7
<1>15. QED
  BY <1>9, <1>10, <1>13, <1>14 DEF s

\* prependMessages: a page whose lines are new to a buffer.
LEMMA PrependGood ==
  ASSUME NEW b, NEW S, NEW u, NEW c, GoodBuffer(c, b, S, u),
         NEW older, GoodList(older, b, S), AllNumbers(older) \cap AllNumbers(c.messages) = {}
  PROVE  LET r == PrependMessages(c, older)
         IN  /\ GoodBuffer(r, b, S, u) /\ r.unread = c.unread
             /\ AllNumbers(r.messages) \subseteq AllNumbers(c.messages) \cup AllNumbers(older)
<1> DEFINE s == c.messages
           all == older \o s
           over == Over(all)
           kept == FirstOf(all)
           R == c.reactions \ {all[i].at : i \in Len(kept) + 1 .. Len(all)}
           moved == c.firstUnread + Len(older)
           first == IF c.firstUnread = 0 \/ moved > Len(kept) THEN 0 ELSE moved
<1>1. PrependMessages(c, older) = [c EXCEPT !.messages = kept, !.reactions = R, !.firstUnread = first]
  BY DEF PrependMessages
<1>2. /\ GoodList(s, b, S) /\ s \in Seq(Message) /\ Len(s) \in Nat
      /\ c.firstUnread \in Nat /\ c.firstUnread =< Len(s) /\ c.reactions \subseteq Held(s)
      /\ older \in Seq(Message) /\ Len(older) \in Nat
  <2>1. older \in Seq(Message)
    BY DEF GoodList
  <2>2. QED
    BY <2>1, BufferParts, MessagesAre
<1> HIDE DEF s
<1>3. /\ all \in Seq(Message) /\ Len(all) = Len(older) + Len(s)
      /\ \A i \in 1..Len(all) : all[i] = IF i =< Len(older) THEN older[i] ELSE s[i - Len(older)]
  BY <1>2, JoinLines
<1>4. GoodList(all, b, S) /\ AllNumbers(all) \subseteq AllNumbers(older) \cup AllNumbers(s)
  BY <1>2, JoinedGood DEF s
<1> HIDE DEF all
<1>5. /\ over \in Nat /\ over =< Len(all) /\ Len(all) - over =< Cap
      /\ kept \in Seq(Message) /\ Len(kept) = Len(all) - over
      /\ \A i \in 1..Len(kept) : kept[i] = all[i]
  BY <1>3, KeepLines
<1>6. GoodList(kept, b, S) /\ AllNumbers(kept) \subseteq AllNumbers(all)
  BY <1>4, KeptOfGood
<1>7. R = c.reactions \ {all[i].at : i \in Len(kept) + 1 .. Len(all)}
  OBVIOUS
<1> HIDE DEF over, kept, R
<1>8. Len(kept) \in Nat /\ Len(kept) =< Cap /\ Len(all) \in Nat
  BY <1>2, <1>3, <1>5, CapAssumption
<1>9. first \in 0..Len(kept)
  BY <1>2, <1>8
<1> HIDE DEF first
<1>10. R \subseteq Held(kept)
  <2>1. ASSUME NEW t \in R
        PROVE  \E i \in 1..Len(kept) : kept[i].at = t
    <3>1. PICK i \in 1..Len(s) : s[i].at = t
      BY <1>2, <1>7, HeldBy
    <3>2. i + Len(older) \in 1..Len(all) /\ all[i + Len(older)].at = t
      <4>1. i + Len(older) \in 1..Len(all) /\ ~(i + Len(older) =< Len(older))
            /\ (i + Len(older)) - Len(older) = i
        BY <1>2, <1>3
      <4>2. QED
        BY <1>3, <3>1, <4>1
    <3>3. ~(i + Len(older) \in Len(kept) + 1 .. Len(all))
      BY <1>7, <3>2
    <3>4. i + Len(older) \in 1..Len(kept)
      BY <1>2, <1>8, <3>2, <3>3
    <3>5. QED
      BY <1>5, <3>2, <3>4
  <2>2. QED
    BY <1>5, <2>1, HeldBy
<1>11. /\ GoodBuffer(PrependMessages(c, older), b, S, u) /\ PrependMessages(c, older).messages = kept
       /\ PrependMessages(c, older).unread = c.unread
  <2> DEFINE d == [c EXCEPT !.messages = kept, !.reactions = R, !.firstUnread = first]
  <2>1. c \in [messages : Seq(Message), reactions : SUBSET Int, firstUnread : Nat, unread : Nat]
        /\ c.unread \in 0..u
    BY DEF GoodBuffer
  <2>2. kept \in Seq(Message) /\ R \in SUBSET Int /\ first \in Nat
    BY <1>6, <1>8, <1>9, <1>10, FieldsTyped
  <2>3. d \in [messages : Seq(Message), reactions : SUBSET Int, firstUnread : Nat, unread : Nat]
    BY <2>1, <2>2
  <2>4. d.messages = kept /\ d.reactions = R /\ d.firstUnread = first /\ d.unread = c.unread
    BY <2>1
  <2> HIDE DEF d
  <2>5. GoodBuffer(d, b, S, u)
    BY <1>6, <1>8, <1>9, <1>10, <2>1, <2>3, <2>4 DEF GoodBuffer
  <2>6. QED
    BY <1>1, <2>4, <2>5 DEF d
<1>12. AllNumbers(kept) \subseteq AllNumbers(s) \cup AllNumbers(older)
  BY <1>4, <1>6
<1>13. QED
  BY <1>11, <1>12 DEF s

(* ----------------- the buffers ----------------------------------------- *)

\* More lines may have come, and be counted.
LEMMA BufferMore ==
  ASSUME NEW c, NEW b, NEW S, NEW u \in Nat, GoodBuffer(c, b, S, u),
         NEW T, S \subseteq T, NEW v \in Nat, u =< v
  PROVE  GoodBuffer(c, b, T, v)
<1>1. GoodList(c.messages, b, T)
  BY MoreGood DEF GoodBuffer
<1>2. c.unread \in 0..v
  BY DEF GoodBuffer
<1>3. QED
  BY <1>1, <1>2 DEF GoodBuffer

\* The lines of the buffers and of the page are among those that have come.
LEMMA ModelNumbers ==
  ASSUME NEW m, NEW S, NEW u, GoodModel(m, S, u)
  PROVE  AllNumbers(Awaited(m)) \subseteq S /\ \A b : In(m, b) \subseteq S
<1>1. AllNumbers(Awaited(m)) \subseteq S
  BY NumbersIn DEF GoodModel
<1>2. \A b \in DOMAIN m.buffers : AllNumbers(m.buffers[b].messages) \subseteq S
  BY NumbersIn DEF GoodModel, GoodBuffer
<1>3. QED
  BY <1>1, <1>2 DEF In

\* No line is in two buffers, or in one and in the page.
LEMMA BuffersApart ==
  ASSUME NEW m, NEW S, NEW u, GoodModel(m, S, u), NEW b, NEW c, b # c
  PROVE  In(m, b) \cap In(m, c) = {} /\ In(m, b) \cap AllNumbers(Awaited(m)) = {}
BY DEF GoodModel, In

\* One buffer changed, or made: its lines are its own, and new ones.
LEMMA OneChanged ==
  ASSUME NEW m, NEW S, NEW u \in Nat, GoodModel(m, S, u), NEW T, S \subseteq T,
         NEW v \in Nat, u =< v,
         NEW b \in Names, NEW d, DOMAIN d = DOMAIN m, d.page = m.page,
         d.listed \subseteq DOMAIN d.buffers, DOMAIN d.buffers = DOMAIN m.buffers \cup {b},
         \A c \in DOMAIN m.buffers \ {b} : d.buffers[c] = m.buffers[c],
         GoodBuffer(d.buffers[b], b, T, v),
         NEW N, N \cap S = {}, AllNumbers(d.buffers[b].messages) \subseteq In(m, b) \cup N
  PROVE  GoodModel(d, T, v)
<1> DEFINE A(c) == AllNumbers(d.buffers[c].messages)
           W == AllNumbers(Awaited(m))
<1>1. \A c \in DOMAIN d.buffers : GoodBuffer(d.buffers[c], c, T, v)
  <2>1. \A c \in DOMAIN m.buffers : GoodBuffer(m.buffers[c], c, T, v)
    BY BufferMore DEF GoodModel
  <2>2. QED
    BY <2>1
<1>2. Awaited(d) = Awaited(m) /\ GoodList(Awaited(d), Chan, T)
  BY MoreGood DEF GoodModel, Awaited
<1>3. /\ DOMAIN m = {"buffers", "listed", "page", "seeded"}
      /\ {Server, Chan} \subseteq DOMAIN m.buffers /\ DOMAIN m.buffers \subseteq Names
  BY DEF GoodModel
<1>4. A(b) \subseteq In(m, b) \cup N
  OBVIOUS
<1>5. \A c \in DOMAIN d.buffers : c # b => A(c) = In(m, c)
  BY DEF In
<1> HIDE DEF A, W
<1>6. W \subseteq S /\ \A c : In(m, c) \subseteq S
  BY ModelNumbers DEF W
<1>7. \A c, e : c # e => In(m, c) \cap In(m, e) = {} /\ In(m, c) \cap W = {}
  BY BuffersApart DEF W
<1>8. In(m, b) \cap W = {}
  <2>1. CASE b = Chan
    BY <1>7, NameAssumption, <2>1
  <2>2. CASE b # Chan
    BY <1>7, <2>2
  <2>3. QED
    BY <2>1, <2>2
<1>9. \A c, e \in DOMAIN d.buffers : c # e => A(c) \cap A(e) = {}
  BY <1>4, <1>5, <1>6, <1>7
<1>10. \A c \in DOMAIN d.buffers : A(c) \cap W = {}
  BY <1>4, <1>5, <1>6, <1>7, <1>8
<1>11. QED
  BY <1>1, <1>2, <1>3, <1>9, <1>10 DEF GoodModel, A, W

\* A page that grows by lines that are new, or is given up.
LEMMA PageChanged ==
  ASSUME NEW m, NEW S, NEW u \in Nat, GoodModel(m, S, u), NEW T, S \subseteq T,
         NEW v \in Nat, u =< v,
         NEW d, DOMAIN d = DOMAIN m, d.buffers = m.buffers, d.listed = m.listed,
         GoodList(Awaited(d), Chan, T),
         NEW N, N \cap S = {}, AllNumbers(Awaited(d)) \subseteq AllNumbers(Awaited(m)) \cup N
  PROVE  GoodModel(d, T, v)
<1>1. \A c \in DOMAIN d.buffers : GoodBuffer(d.buffers[c], c, T, v)
  BY BufferMore DEF GoodModel
<1>2. /\ DOMAIN m = {"buffers", "listed", "page", "seeded"} /\ m.listed \subseteq DOMAIN m.buffers
      /\ {Server, Chan} \subseteq DOMAIN m.buffers /\ DOMAIN m.buffers \subseteq Names
      /\ \A b, c \in DOMAIN m.buffers :
           b # c => AllNumbers(m.buffers[b].messages) \cap AllNumbers(m.buffers[c].messages) = {}
      /\ \A b \in DOMAIN m.buffers : AllNumbers(m.buffers[b].messages) \cap AllNumbers(Awaited(m)) = {}
  BY DEF GoodModel
<1>3. \A b \in DOMAIN m.buffers : AllNumbers(m.buffers[b].messages) \subseteq S
  BY ModelNumbers DEF In
<1>4. \A b \in DOMAIN d.buffers : AllNumbers(d.buffers[b].messages) \cap AllNumbers(Awaited(d)) = {}
  BY <1>2, <1>3
<1>5. QED
  BY <1>1, <1>2, <1>4 DEF GoodModel

\* getOrCreate makes an empty buffer, if any.
LEMMA NewGood ==
  ASSUME NEW b, NEW S, NEW u \in Nat
  PROVE  GoodBuffer(NewBuffer, b, S, u) /\ AllNumbers(NewBuffer.messages) = {}
<1>1. <<>> \in Seq(Message) /\ Len(<<>>) = 0
  OBVIOUS
<1> DEFINE none == <<>>
<1>2. none \in Seq(Message) /\ Len(none) = 0
  BY <1>1
<1>3. GoodList(none, b, S) /\ AllNumbers(none) = {}
  BY NoneGood
<1>4. NewBuffer = [messages |-> none, reactions |-> {}, firstUnread |-> 0, unread |-> 0]
  BY DEF NewBuffer
<1> HIDE DEF none
<1>5. QED
  BY <1>2, <1>3, <1>4, CapAssumption DEF GoodBuffer

LEMMA GetOrCreateGood ==
  ASSUME NEW m, NEW S, NEW u \in Nat, GoodModel(m, S, u), NEW b \in Names
  PROVE  LET d == GetOrCreate(m, b)
         IN  /\ GoodModel(d, S, u) /\ In(d, b) = In(m, b)
             /\ DOMAIN d = DOMAIN m /\ DOMAIN d.buffers = DOMAIN m.buffers \cup {b}
             /\ d.listed = m.listed /\ d.page = m.page /\ d.seeded = m.seeded
             /\ \A c \in DOMAIN m.buffers : d.buffers[c] = m.buffers[c]
             /\ b \notin DOMAIN m.buffers => d.buffers[b] = NewBuffer
<1> DEFINE d == GetOrCreate(m, b)
<1>1. DOMAIN m = {"buffers", "listed", "page", "seeded"} /\ m.listed \subseteq DOMAIN m.buffers
  BY DEF GoodModel
<1>2. /\ DOMAIN d = DOMAIN m /\ DOMAIN d.buffers = DOMAIN m.buffers \cup {b}
      /\ d.listed = m.listed /\ d.page = m.page /\ d.seeded = m.seeded
      /\ \A c \in DOMAIN m.buffers : d.buffers[c] = m.buffers[c]
      /\ b \notin DOMAIN m.buffers => d.buffers[b] = NewBuffer
  BY <1>1 DEF GetOrCreate
<1> HIDE DEF d
<1>3. In(d, b) = In(m, b) /\ AllNumbers(d.buffers[b].messages) \subseteq In(m, b)
  BY <1>2, NewGood DEF In
<1>4. GoodBuffer(d.buffers[b], b, S, u)
  BY <1>2, NewGood DEF GoodModel
<1>5. GoodModel(d, S, u)
  <2> DEFINE N == {}
  <2>1. /\ d.listed \subseteq DOMAIN d.buffers /\ S \subseteq S /\ u =< u
        /\ \A c \in DOMAIN m.buffers \ {b} : d.buffers[c] = m.buffers[c]
        /\ N \cap S = {} /\ AllNumbers(d.buffers[b].messages) \subseteq In(m, b) \cup N
    BY <1>1, <1>2, <1>3
  <2> HIDE DEF N
  <2>2. QED
    BY <1>2, <1>4, <2>1, OneChanged
<1>6. QED
  BY <1>2, <1>3, <1>5 DEF d

(* ----------------- a line posted --------------------------------------- *)

\* The latest message of a buffer, and what is unread in it.
LatestIs(c, line) == Len(c.messages) >= 1 /\ c.messages[Len(c.messages)] = line
UnreadIn(m, b) == IF b \in DOMAIN m.buffers THEN m.buffers[b].unread ELSE 0

\* What a line posted may do to the buffers.
PostedIn(d, m, b, line) ==
  /\ d.listed = m.listed
  /\ \/ d.buffers = m.buffers /\ line.past
     \/ /\ DOMAIN d.buffers = DOMAIN m.buffers \cup {b}
        /\ \A c \in DOMAIN m.buffers \ {b} : d.buffers[c] = m.buffers[c]
        /\ LatestIs(d.buffers[b], line)
        /\ line.past => UnreadIn(d, b) = UnreadIn(m, b)

\* A line counted as unread, or not.
LEMMA BadgedGood ==
  ASSUME NEW c, NEW b, NEW T, NEW u \in Nat, GoodBuffer(c, b, T, u), NEW v \in Nat, u =< v,
         NEW line, ~line.past /\ CountsAsUnread(b, line) => u + 1 =< v
  PROVE  LET r == Badged(c, b, line)
         IN  /\ GoodBuffer(r, b, T, v) /\ r.messages = c.messages
             /\ line.past => r.unread = c.unread
<1> DEFINE Shape == [messages : Seq(Message), reactions : SUBSET Int, firstUnread : Nat, unread : Nat]
           n == c.unread + 1
           f == IF c.unread = 0 THEN Len(c.messages) ELSE c.firstUnread
           r == [c EXCEPT !.unread = n, !.firstUnread = f]
<1>1. c \in Shape
  BY DEF GoodBuffer
<1>2. /\ GoodList(c.messages, b, T) /\ Len(c.messages) \in Nat /\ Len(c.messages) =< Cap
      /\ c.firstUnread \in Nat /\ c.firstUnread =< Len(c.messages)
      /\ c.unread \in Nat /\ c.unread \in 0..u /\ c.reactions \subseteq Held(c.messages)
  BY BufferParts
<1>3. CASE b # active /\ ~line.past /\ CountsAsUnread(b, line)
  <2>1. Badged(c, b, line) = r
    BY <1>3 DEF Badged
  <2>2. n \in Nat /\ n \in 0..v /\ f \in Nat /\ f \in 0..Len(c.messages)
    BY <1>2, <1>3
  <2> HIDE DEF n, f
  <2>3. r \in Shape /\ r.messages = c.messages /\ r.reactions = c.reactions
        /\ r.firstUnread = f /\ r.unread = n
    BY <1>1, <2>2
  <2> HIDE DEF r
  <2>4. GoodBuffer(r, b, T, v)
    BY <1>2, <2>2, <2>3 DEF GoodBuffer
  <2>5. QED
    BY <1>3, <2>1, <2>3, <2>4
<1>4. CASE ~(b # active /\ ~line.past /\ CountsAsUnread(b, line))
  <2>1. Badged(c, b, line) = c
    BY <1>4 DEF Badged
  <2>2. T \subseteq T
    OBVIOUS
  <2>3. QED
    BY <2>1, <2>2, BufferMore
<1>5. QED
  BY <1>3, <1>4

\* postMessage: a line that has just come.
LEMMA PostGood ==
  ASSUME NEW m, NEW S, NEW u \in Nat, GoodModel(m, S, u), NEW T, S \subseteq T,
         NEW v \in Nat, u =< v, NEW b \in Names, NEW line \in Message,
         Whole(line, T), Placed(line, b), Numbers(line) \cap S = {},
         ~line.past /\ CountsAsUnread(b, line) => u + 1 =< v
  PROVE  LET d == Post(m, b, line)
         IN  GoodModel(d, T, v) /\ PostedIn(d, m, b, line)
<1> DEFINE d == Post(m, b, line)
<1>0. T \subseteq T /\ u =< u /\ S \subseteq S
  OBVIOUS
<1>1. CASE line.past /\ b = Chan /\ m.page # Nothing
  <2> DEFINE p == m.page
             one == <<line>>
             q == Append(p, line)
  <2>1. GoodList(p, Chan, S) /\ Awaited(m) = p /\ p \in Seq(Message)
    BY <1>1 DEF GoodModel, Awaited, GoodList
  <2>2. GoodList(p, Chan, T)
    BY <2>1, MoreGood
  <2>3. GoodList(one, Chan, T) /\ AllNumbers(one) = Numbers(line)
    BY <1>1, OneGood
  <2>4. AllNumbers(p) \subseteq S
    BY <2>1, NumbersIn
  <2>5. q = p \o one
    BY <2>1
  <2>6. GoodList(q, Chan, T) /\ AllNumbers(q) \subseteq AllNumbers(p) \cup Numbers(line)
    <3>1. AllNumbers(p) \cap AllNumbers(one) = {}
      BY <2>3, <2>4
    <3>2. QED
      BY <2>2, <2>3, <2>5, <3>1, JoinedGood
  <2>7. d = [m EXCEPT !.page = q]
    BY <1>1 DEF Post
  <2> HIDE DEF q, d, one
  <2>8. /\ DOMAIN d = DOMAIN m /\ d.buffers = m.buffers /\ d.listed = m.listed /\ d.page = q
    BY <2>7 DEF GoodModel
  <2>9. Awaited(d) \in {q, <<>>}
    BY <2>8 DEF Awaited
  <2>10. GoodList(Awaited(d), Chan, T) /\ AllNumbers(Awaited(d)) \subseteq AllNumbers(Awaited(m)) \cup Numbers(line)
    <3>1. CASE Awaited(d) = q
      BY <2>1, <2>6, <3>1
    <3>2. CASE Awaited(d) = <<>>
      BY <3>2, NoneGood
    <3>3. QED
      BY <2>9, <3>1, <3>2
  <2>11. GoodModel(d, T, v)
    BY <2>8, <2>10, PageChanged
  <2>12. QED
    BY <1>1, <2>8, <2>11 DEF PostedIn, d
<1>2. CASE ~(line.past /\ b = Chan /\ m.page # Nothing)
  <2> DEFINE made == GetOrCreate(m, b)
             c == made.buffers[b]
             added == AddMessage(c, line)
             e == Badged(added, b, line)
  <2>1. /\ GoodModel(made, S, u) /\ In(made, b) = In(m, b)
        /\ DOMAIN made = DOMAIN m /\ DOMAIN made.buffers = DOMAIN m.buffers \cup {b}
        /\ made.listed = m.listed /\ made.page = m.page
        /\ \A x \in DOMAIN m.buffers : made.buffers[x] = m.buffers[x]
        /\ b \notin DOMAIN m.buffers => made.buffers[b] = NewBuffer
    BY GetOrCreateGood
  <2>2. d = [made EXCEPT !.buffers[b] = e]
    BY <1>2 DEF Post
  <2> HIDE DEF made, e
  <2>3. DOMAIN made = {"buffers", "listed", "page", "seeded"} /\ made.listed \subseteq DOMAIN made.buffers
        /\ GoodBuffer(c, b, S, u)
    BY <2>1 DEF GoodModel
  <2>4. /\ DOMAIN d = DOMAIN made /\ d.page = made.page /\ d.listed = made.listed
        /\ DOMAIN d.buffers = DOMAIN made.buffers /\ d.buffers[b] = e
        /\ \A x \in DOMAIN made.buffers \ {b} : d.buffers[x] = made.buffers[x]
    BY <2>1, <2>2, <2>3
  <2> HIDE DEF d
  <2>5. GoodBuffer(c, b, T, u)
    BY <1>0, <2>3, BufferMore
  <2>6. AllNumbers(c.messages) = In(m, b) /\ In(m, b) \subseteq S
    <3>1. In(made, b) = AllNumbers(c.messages)
      BY <2>1 DEF In
    <3>2. QED
      BY <2>1, <3>1, ModelNumbers
  <2>7. /\ GoodBuffer(added, b, T, u) /\ added.unread = c.unread
        /\ AllNumbers(added.messages) \subseteq AllNumbers(c.messages) \cup Numbers(line)
        /\ LatestIs(added, line)
    <3>1. Numbers(line) \cap AllNumbers(c.messages) = {}
      BY <2>6
    <3>2. QED
      BY <2>5, <3>1, AddGood DEF LatestIs
  <2> HIDE DEF added, c
  <2>8. GoodBuffer(e, b, T, v) /\ e.messages = added.messages /\ (line.past => e.unread = added.unread)
    BY <2>7, BadgedGood DEF e
  <2>9. GoodModel(d, T, v)
    <3> DEFINE N == Numbers(line)
    <3>1. AllNumbers(d.buffers[b].messages) \subseteq In(made, b) \cup N /\ N \cap S = {}
      BY <2>1, <2>4, <2>6, <2>7, <2>8
    <3> HIDE DEF N
    <3>2. d.listed \subseteq DOMAIN d.buffers /\ DOMAIN d.buffers = DOMAIN made.buffers \cup {b}
          /\ GoodBuffer(d.buffers[b], b, T, v)
      BY <2>1, <2>3, <2>4, <2>8
    <3>3. QED
      BY <2>1, <2>4, <3>1, <3>2, OneChanged
  <2>10. LatestIs(d.buffers[b], line)
    BY <2>4, <2>7, <2>8 DEF LatestIs
  <2>11. line.past => UnreadIn(d, b) = UnreadIn(m, b)
    <3>1. NewBuffer.unread = 0
      BY DEF NewBuffer
    <3>2. c.unread = UnreadIn(m, b)
      BY <2>1, <3>1 DEF UnreadIn, c
    <3>3. UnreadIn(d, b) = e.unread
      BY <2>1, <2>4 DEF UnreadIn
    <3>4. QED
      BY <2>7, <2>8, <3>2, <3>3
  <2>12. PostedIn(d, m, b, line)
    BY <2>1, <2>4, <2>10, <2>11 DEF PostedIn
  <2>13. QED
    BY <2>1, <2>4, <2>9, <2>12 DEF d
<1>3. QED
  BY <1>1, <1>2

(* ----------------- a line handled -------------------------------------- *)

\* The latest message is one that was said.
LastHasParts(c) == Len(c.messages) >= 1 /\ c.messages[Len(c.messages)].parts # <<>>

\* What handling lines may do to the query with Pal, and to the badges.
LeavesPal(d, m) ==
  Pal \in DOMAIN d.buffers =>
    \/ Pal \in DOMAIN m.buffers /\ d.buffers[Pal] = m.buffers[Pal]
    \/ LastHasParts(d.buffers[Pal])
Quiet(d, m) == \A b : UnreadIn(d, b) = UnreadIn(m, b)
BadgesNew(d, m) ==
  \A b \in DOMAIN d.buffers :
    UnreadIn(d, b) # UnreadIn(m, b) => LatestIs(d.buffers[b], d.buffers[b].messages[Len(d.buffers[b].messages)])
                                       /\ d.buffers[b].messages[Len(d.buffers[b].messages)].new

\* Who may speak to whom.
LEMMA SpeechIs ==
  ASSUME NEW n, NEW l \in SpokenLine(n)
  PROVE  /\ l.cmd \in Commands /\ l.from \in Names /\ l.to \in Names /\ l.new \in BOOLEAN
         /\ l.nr \in 1..n /\ l.at \in Int
         /\ \/ l.cmd = "privmsg" /\ l.from = Pal /\ l.to = Chan
            \/ l.cmd = "privmsg" /\ l.from = Pal /\ l.to = Me
            \/ l.cmd = "privmsg" /\ l.from = Me /\ l.to = Pal
            \/ l.cmd = "notice" /\ l.from = Pal /\ l.to = Me
            \/ l.cmd = "action" /\ l.from = Pal /\ l.to = Me
<1>1. l \in [cmd : Commands, from : Names, to : Names, nr : 1..n, at : Nat, new : BOOLEAN]
  BY DEF SpokenLine
<1>2. <<l.cmd, <<l.from, l.to>>>> \in Speech
  BY DEF SpokenLine
<1>3. QED
  BY <1>1, <1>2 DEF Speech, Talks

\* The lines of a message, and that they are in order.
PartsIn(parts) == {parts[k] : k \in 1..Len(parts)}
Rising(parts) == \A k \in 1 .. Len(parts) - 1 : parts[k] < parts[k + 1]

\* A message made of lines in their order.
LEMMA MadeGood ==
  ASSUME NEW l, l.cmd \in Commands, l.from \in Names, l.to \in Names, l.new \in BOOLEAN, l.at \in Int,
         NEW parts \in Seq(Nat), parts # <<>>, NEW past \in BOOLEAN, NEW T, PartsIn(parts) \subseteq T, Rising(parts)
  PROVE  LET line == Made(l, parts, past)
         IN  /\ line \in Message /\ Whole(line, T) /\ Numbers(line) = PartsIn(parts)
             /\ line.parts = parts /\ line.past = past /\ line.cmd = l.cmd
             /\ line.from = l.from /\ line.to = l.to /\ line.new = l.new
<1> DEFINE line == Made(l, parts, past)
<1>2. line \in Message
  BY DEF Made, Message
<1>3. /\ line.parts = parts /\ line.past = past /\ line.cmd = l.cmd
      /\ line.from = l.from /\ line.to = l.to /\ line.new = l.new
  BY DEF Made
<1> HIDE DEF line
<1>4. Numbers(line) = PartsIn(parts) /\ Whole(line, T)
  BY <1>3 DEF Numbers, Whole, PartsIn, Rising
<1>5. QED
  BY <1>2, <1>3, <1>4 DEF line

\* What is read back from the log has no number.
LEMMA LogLineGood ==
  \A b, S : GoodList(<<LogLine>>, b, S) /\ AllNumbers(<<LogLine>>) = {}
<1>1. LogLine \in Message
  BY DEF LogLine, Message, Commands, Names
<1>2. LogLine.parts = <<>> /\ Len(<<>>) = 0
  BY DEF LogLine
<1>3. Numbers(LogLine) = {} /\ \A b, S : Whole(LogLine, S) /\ Placed(LogLine, b)
  BY <1>2 DEF Numbers, Whole, Placed
<1>4. QED
  BY <1>1, <1>3, OneGood

\* seedFromLog, where the log is the only history.
LEMMA SeedGood ==
  ASSUME NEW m, NEW S, NEW u \in Nat, GoodModel(m, S, u), NEW b \in DOMAIN m.buffers
  PROVE  LET d == SeedFromLog(m, b)
         IN  /\ GoodModel(d, S, u) /\ d.listed = m.listed /\ DOMAIN d.buffers = DOMAIN m.buffers
             /\ \A c \in DOMAIN m.buffers \ {b} : d.buffers[c] = m.buffers[c]
             /\ d.buffers[b].unread = m.buffers[b].unread
             /\ caps \cap {"chathistory", "znc"} # {} => d = m
<1> DEFINE d == SeedFromLog(m, b)
<1>1. CASE b # Pal \/ m.seeded \/ caps \cap {"chathistory", "znc"} # {}
  <2>1. d = m
    BY <1>1 DEF SeedFromLog
  <2>2. QED
    BY <2>1
<1>2. CASE ~(b # Pal \/ m.seeded \/ caps \cap {"chathistory", "znc"} # {})
  <2> DEFINE older == <<LogLine>>
             e == PrependMessages(m.buffers[b], older)
  <2>1. d = [m EXCEPT !.seeded = TRUE, !.buffers[b] = e]
    BY <1>2 DEF SeedFromLog
  <2>2. GoodList(older, b, S) /\ AllNumbers(older) = {}
    BY LogLineGood
  <2> HIDE DEF older
  <2>3. GoodBuffer(m.buffers[b], b, S, u) /\ b \in Names /\ DOMAIN m = {"buffers", "listed", "page", "seeded"}
        /\ m.listed \subseteq DOMAIN m.buffers
    BY DEF GoodModel
  <2>4. /\ GoodBuffer(e, b, S, u) /\ e.unread = m.buffers[b].unread
        /\ AllNumbers(e.messages) \subseteq AllNumbers(m.buffers[b].messages) \cup AllNumbers(older)
    <3>1. AllNumbers(older) \cap AllNumbers(m.buffers[b].messages) = {}
      BY <2>2
    <3>2. QED
      BY <2>2, <2>3, <3>1, PrependGood
  <2> HIDE DEF e, d
  <2>5. /\ DOMAIN d = DOMAIN m /\ d.page = m.page /\ d.listed = m.listed
        /\ DOMAIN d.buffers = DOMAIN m.buffers /\ d.buffers[b] = e
        /\ \A x \in DOMAIN m.buffers \ {b} : d.buffers[x] = m.buffers[x]
    BY <2>1, <2>3
  <2>6. GoodModel(d, S, u)
    <3> DEFINE N == {}
    <3>1. AllNumbers(d.buffers[b].messages) \subseteq In(m, b) \cup N /\ N \cap S = {}
          /\ S \subseteq S /\ u =< u
      BY <2>2, <2>4, <2>5 DEF In
    <3> HIDE DEF N
    <3>2. d.listed \subseteq DOMAIN d.buffers /\ DOMAIN d.buffers = DOMAIN m.buffers \cup {b}
          /\ GoodBuffer(d.buffers[b], b, S, u)
      BY <2>3, <2>4, <2>5
    <3>3. QED
      BY <2>3, <2>5, <3>1, <3>2, OneChanged
  <2>7. QED
    BY <1>2, <2>4, <2>5, <2>6 DEF d
<1>3. QED
  BY <1>1, <1>2

\* openPM makes a query and tells the sidebar.
LEMMA OpenPMGood ==
  ASSUME NEW m, NEW S, NEW u \in Nat, GoodModel(m, S, u), NEW b \in Names
  PROVE  LET d == OpenPM(m, b)
         IN  /\ GoodModel(d, S, u) /\ m.listed \subseteq d.listed
             /\ DOMAIN d.buffers = DOMAIN m.buffers \cup {b}
             /\ \A c \in DOMAIN m.buffers \ {b} : d.buffers[c] = m.buffers[c]
             /\ b \in DOMAIN m.buffers => d = m
             /\ UnreadIn(d, b) = UnreadIn(m, b)
             /\ caps \cap {"chathistory", "znc"} # {} /\ b \notin DOMAIN m.buffers => d.buffers[b] = NewBuffer
<1> DEFINE d == OpenPM(m, b)
<1>1. CASE b \in DOMAIN m.buffers
  <2>1. d = m
    BY <1>1 DEF OpenPM
  <2>2. QED
    BY <1>1, <2>1
<1>2. CASE b \notin DOMAIN m.buffers
  <2> DEFINE g == GetOrCreate(m, b)
             L == g.listed \cup {b}
             k == [g EXCEPT !.listed = L]
  <2>1. /\ GoodModel(g, S, u)
        /\ DOMAIN g = DOMAIN m /\ DOMAIN g.buffers = DOMAIN m.buffers \cup {b}
        /\ g.listed = m.listed /\ g.buffers[b] = NewBuffer
        /\ \A c \in DOMAIN m.buffers : g.buffers[c] = m.buffers[c]
    BY <1>2, GetOrCreateGood
  <2>2. d = SeedFromLog(k, b)
    BY <1>2 DEF OpenPM
  <2> HIDE DEF g, d
  <2>3. DOMAIN k = DOMAIN g /\ k.buffers = g.buffers /\ k.page = g.page /\ k.listed = L
    BY <2>1 DEF GoodModel
  <2> HIDE DEF k
  <2>4. GoodModel(k, S, u)
    <3>1. Awaited(k) = Awaited(g)
      BY <2>3 DEF Awaited
    <3>2. k.listed \subseteq DOMAIN k.buffers
      BY <2>1, <2>3 DEF GoodModel
    <3>3. QED
      BY <2>1, <2>3, <3>1, <3>2 DEF GoodModel
  <2> HIDE DEF L
  <2>5. b \in DOMAIN k.buffers
    BY <2>1, <2>3
  <2>6. /\ GoodModel(d, S, u) /\ d.listed = k.listed /\ DOMAIN d.buffers = DOMAIN k.buffers
        /\ \A c \in DOMAIN k.buffers \ {b} : d.buffers[c] = k.buffers[c]
        /\ d.buffers[b].unread = k.buffers[b].unread
        /\ caps \cap {"chathistory", "znc"} # {} => d = k
    BY <2>2, <2>4, <2>5, SeedGood
  <2>7. /\ m.listed \subseteq d.listed /\ DOMAIN d.buffers = DOMAIN m.buffers \cup {b}
        /\ \A c \in DOMAIN m.buffers \ {b} : d.buffers[c] = m.buffers[c]
    BY <2>1, <2>3, <2>6 DEF L
  <2>8. UnreadIn(d, b) = UnreadIn(m, b)
    <3>1. d.buffers[b].unread = 0
      BY <2>1, <2>3, <2>6 DEF NewBuffer
    <3>2. QED
      BY <1>2, <2>7, <3>1 DEF UnreadIn
  <2>9. caps \cap {"chathistory", "znc"} # {} => d.buffers[b] = NewBuffer
    BY <2>1, <2>3, <2>6
  <2>10. QED
    BY <1>2, <2>6, <2>7, <2>8, <2>9 DEF d
<1>3. QED
  BY <1>1, <1>2

\* What the handling of lines does, by whether they are history, and new.
HandledIn(d, m, past, new) ==
  /\ m.listed \subseteq d.listed /\ DOMAIN m.buffers \subseteq DOMAIN d.buffers
  /\ LeavesPal(d, m) /\ (past => Quiet(d, m)) /\ (new => BadgesNew(d, m))

\* A line posted, to a query that may have been opened for it.
LEMMA PostedGood ==
  ASSUME NEW m, NEW S, NEW u \in Nat, GoodModel(m, S, u), NEW T, S \subseteq T,
         NEW v \in Nat, u =< v, NEW b \in Names, NEW line \in Message,
         Whole(line, T), Placed(line, b), Numbers(line) \cap S = {}, line.parts # <<>>,
         ~line.past => u + 1 =< v,
         NEW e, e = m \/ (e = OpenPM(m, b) /\ ~line.past)
  PROVE  LET d == Post(e, b, line)
         IN  GoodModel(d, T, v) /\ HandledIn(d, m, line.past, line.new)
<1> DEFINE d == Post(e, b, line)
<1>1. /\ GoodModel(e, S, u) /\ m.listed \subseteq e.listed
      /\ e = m \/ DOMAIN e.buffers = DOMAIN m.buffers \cup {b}
      /\ \A c \in DOMAIN m.buffers \ {b} : e.buffers[c] = m.buffers[c]
      /\ UnreadIn(e, b) = UnreadIn(m, b)
      /\ e = m \/ ~line.past
  BY OpenPMGood
<1>2. ~line.past /\ CountsAsUnread(b, line) => u + 1 =< v
  OBVIOUS
<1>3. GoodModel(d, T, v) /\ PostedIn(d, e, b, line)
  <2>1. GoodModel(e, S, u)
    BY <1>1
  <2>2. QED
    BY <1>2, <2>1, PostGood
<1> HIDE DEF d
<1>4. CASE d.buffers = e.buffers /\ line.past
  <2>1. d.buffers = m.buffers
    BY <1>1, <1>4
  <2>2. LeavesPal(d, m) /\ Quiet(d, m) /\ BadgesNew(d, m)
    BY <2>1 DEF LeavesPal, Quiet, BadgesNew, UnreadIn
  <2>3. QED
    BY <1>1, <1>3, <2>1, <2>2 DEF d, PostedIn, HandledIn
<1>5. CASE /\ DOMAIN d.buffers = DOMAIN e.buffers \cup {b}
           /\ \A c \in DOMAIN e.buffers \ {b} : d.buffers[c] = e.buffers[c]
           /\ LatestIs(d.buffers[b], line)
           /\ line.past => UnreadIn(d, b) = UnreadIn(e, b)
  <2>1. DOMAIN d.buffers = DOMAIN m.buffers \cup {b}
        /\ \A c \in DOMAIN m.buffers \ {b} : d.buffers[c] = m.buffers[c]
    BY <1>1, <1>5
  <2>2. \A c : c # b => UnreadIn(d, c) = UnreadIn(m, c)
    BY <2>1 DEF UnreadIn
  <2>3. LastHasParts(d.buffers[b])
    BY <1>5 DEF LatestIs, LastHasParts
  <2>4. LeavesPal(d, m)
    BY <2>1, <2>3 DEF LeavesPal
  <2>5. line.past => Quiet(d, m)
    BY <1>1, <1>5, <2>2 DEF Quiet
  <2>6. line.new => BadgesNew(d, m)
    BY <1>5, <2>2 DEF BadgesNew, LatestIs
  <2>7. QED
    BY <1>1, <1>3, <2>1, <2>4, <2>5, <2>6 DEF d, PostedIn, HandledIn
<1>6. QED
  BY <1>3, <1>4, <1>5 DEF PostedIn

\* onMessage, onNotice and onAction: the lines handled become one message of
\* one buffer.
LEMMA HandledGood ==
  ASSUME NEW m, NEW S, NEW u \in Nat, GoodModel(m, S, u), NEW T, S \subseteq T,
         NEW v \in Nat, u =< v, NEW n, NEW l \in SpokenLine(n),
         NEW parts \in Seq(Nat), parts # <<>>,
         PartsIn(parts) \subseteq T, PartsIn(parts) \cap S = {}, Rising(parts),
         NEW past \in BOOLEAN, ~past => u + 1 =< v
  PROVE  LET d == Handled(m, l, parts, past)
         IN  /\ GoodModel(d, T, v) /\ HandledIn(d, m, past, l.new)
             /\ l.cmd = "privmsg" => d = OnMessage(m, l, parts, past)
<1> DEFINE d == Handled(m, l, parts, past)
           line == Made(l, parts, past)
<1>1. /\ line \in Message /\ Whole(line, T) /\ Numbers(line) = PartsIn(parts)
      /\ line.parts = parts /\ line.past = past /\ line.cmd = l.cmd
      /\ line.from = l.from /\ line.to = l.to /\ line.new = l.new
  <2>1. line \in Message /\ Whole(line, T) /\ Numbers(line) = PartsIn(parts)
    <3>1. /\ l.cmd \in Commands /\ l.from \in Names /\ l.to \in Names /\ l.new \in BOOLEAN
          /\ l.at \in Int
      BY SpeechIs
    <3>2. QED
      BY <3>1, MadeGood
  <2>2. /\ line.parts = parts /\ line.past = past /\ line.cmd = l.cmd
        /\ line.from = l.from /\ line.to = l.to /\ line.new = l.new
    BY DEF Made
  <2>3. QED
    BY <2>1, <2>2
<1>2. Numbers(line) \cap S = {} /\ line.parts # <<>> /\ (~line.past => u + 1 =< v)
  BY <1>1
<1>3. Chan \in Names /\ Pal \in Names /\ Me \in Names /\ Server \in Names
  BY DEF Names
<1>4. l.cmd = "privmsg" => d = OnMessage(m, l, parts, past)
  BY DEF Handled
<1>5. ASSUME NEW b \in Names, Placed(line, b), NEW e, e = m \/ (e = OpenPM(m, b) /\ ~line.past),
             d = Post(e, b, line)
      PROVE  GoodModel(d, T, v) /\ HandledIn(d, m, past, l.new)
  <2> DEFINE r == Post(e, b, line)
  <2> HIDE DEF line, d
  <2>1. line \in Message /\ Whole(line, T)
    BY <1>1
  <2>2. GoodModel(r, T, v) /\ HandledIn(r, m, line.past, line.new)
    BY <1>2, <1>5, <2>1, PostedGood
  <2>3. r = d /\ line.past = past /\ line.new = l.new
    BY <1>1, <1>5
  <2> HIDE DEF r
  <2>4. QED
    BY <2>2, <2>3
<1> HIDE DEF line, d
<1>6. ASSUME l.cmd = "privmsg"
      PROVE  GoodModel(d, T, v) /\ HandledIn(d, m, past, l.new)
  <2> DEFINE buf == IF l.to = Chan THEN Chan ELSE IF l.from = Me THEN l.to ELSE l.from
             e == IF l.to # Chan /\ ~past THEN OpenPM(m, buf) ELSE m
  <2>1. d = Post(e, buf, line)
    BY <1>4, <1>6 DEF OnMessage, line
  <2>2. e = m \/ (e = OpenPM(m, buf) /\ ~line.past)
    BY <1>1
  <2>3. buf \in Names
    BY <1>3, SpeechIs
  <2>4. Placed(line, buf)
    <3>1. buf \in Place(line)
      BY <1>1, <1>6 DEF Place
    <3>2. QED
      BY <3>1 DEF Placed
  <2> HIDE DEF buf, e
  <2>5. QED
    BY <1>5, <2>1, <2>2, <2>3, <2>4
<1>7. ASSUME l.cmd = "notice"
      PROVE  GoodModel(d, T, v) /\ HandledIn(d, m, past, l.new)
  <2> DEFINE buf == IF l.to = Chan THEN Chan ELSE IF l.from \in DOMAIN m.buffers THEN l.from ELSE Server
  <2>1. d = Post(m, buf, line)
    BY <1>7 DEF OnNotice, Handled, line, d
  <2>2. l.from = Pal /\ l.to = Me
    BY <1>7, SpeechIs
  <2>3. buf \in Names /\ Placed(line, buf)
    <3>1. buf \in {Pal, Server}
      BY <2>2, NameAssumption
    <3>2. Place(line) = {Pal, Server}
      BY <1>1, <1>7, <2>2, NameAssumption DEF Place
    <3>3. QED
      BY <1>3, <3>1, <3>2 DEF Placed
  <2> HIDE DEF buf
  <2>4. QED
    BY <1>5, <2>1, <2>3
<1>8. ASSUME l.cmd = "action"
      PROVE  GoodModel(d, T, v) /\ HandledIn(d, m, past, l.new)
  <2>1. d = Post(m, l.to, line)
    BY <1>8 DEF OnAction, Handled, line, d
  <2>2. l.to \in Names /\ Placed(line, l.to)
    BY <1>1, <1>8, SpeechIs DEF Placed
  <2>3. QED
    BY <1>5, <2>1, <2>2
<1>9. GoodModel(d, T, v) /\ HandledIn(d, m, past, l.new)
  BY <1>6, <1>7, <1>8, SpeechIs
<1>10. QED
  BY <1>4, <1>9 DEF d

(* ----------------- a batch delivered ----------------------------------- *)

\* Induction over the numbers, said of a set.
LEMMA EachNumber ==
  ASSUME NEW S \in SUBSET Nat, 0 \in S, \A k \in S : k + 1 \in S
  PROVE  S = Nat
<1> SUFFICES ASSUME S # Nat
             PROVE  FALSE
  OBVIOUS
<1>1. (Nat \ S) \in SUBSET Nat /\ Nat \ S # {}
  OBVIOUS
<1>2. PICK k \in Nat \ S : \A j \in Nat \ S : k =< j
  BY <1>1, Least
<1>3. k # 0 /\ k - 1 \in Nat /\ k - 1 < k
  OBVIOUS
<1>4. k - 1 \in S
  BY <1>2, <1>3
<1>5. QED
  BY <1>3, <1>4

\* The page asked for goes before what is held.
LEMMA PageArrives ==
  ASSUME NEW m, NEW S, NEW u \in Nat, GoodModel(m, S, u), NEW batch
  PROVE  LET d == HistoryBatchDone(m, batch)
         IN  /\ GoodModel(d, S, u) /\ d.listed = m.listed /\ DOMAIN d.buffers = DOMAIN m.buffers
             /\ Quiet(d, m) /\ (Pal \in DOMAIN m.buffers => d.buffers[Pal] = m.buffers[Pal])
<1> DEFINE d == HistoryBatchDone(m, batch)
<1>1. CASE batch.kind # "chathistory" \/ batch.to # Chan \/ m.page = Nothing
  <2>1. d = m
    BY <1>1 DEF HistoryBatchDone
  <2>2. QED
    BY <2>1 DEF Quiet
<1>2. CASE ~(batch.kind # "chathistory" \/ batch.to # Chan \/ m.page = Nothing)
  <2> DEFINE p == m.page
             e == PrependMessages(m.buffers[Chan], p)
  <2>1. d = [m EXCEPT !.page = Nothing, !.buffers[Chan] = e]
    BY <1>2 DEF HistoryBatchDone
  <2>2. /\ DOMAIN m = {"buffers", "listed", "page", "seeded"} /\ m.listed \subseteq DOMAIN m.buffers
        /\ {Server, Chan} \subseteq DOMAIN m.buffers /\ DOMAIN m.buffers \subseteq Names
    BY DEF GoodModel
  <2>3. /\ GoodBuffer(m.buffers[Chan], Chan, S, u) /\ Awaited(m) = p /\ GoodList(p, Chan, S)
    BY <1>2, <2>2 DEF GoodModel, Awaited
  <2> DEFINE A == AllNumbers(m.buffers[Chan].messages)
             P == AllNumbers(p)
  <2>4. \A c \in DOMAIN m.buffers : AllNumbers(m.buffers[c].messages) \cap P = {}
    BY <2>3 DEF GoodModel
  <2>5. /\ GoodBuffer(e, Chan, S, u) /\ e.unread = m.buffers[Chan].unread
        /\ AllNumbers(e.messages) \subseteq A \cup P
    <3>1. AllNumbers(p) \cap AllNumbers(m.buffers[Chan].messages) = {}
      BY <2>2, <2>4
    <3>2. QED
      BY <2>3, <3>1, PrependGood
  <2> HIDE DEF e, d, p
  <2>6. /\ DOMAIN d = DOMAIN m /\ d.page = Nothing /\ d.listed = m.listed
        /\ DOMAIN d.buffers = DOMAIN m.buffers /\ d.buffers[Chan] = e
        /\ \A c \in DOMAIN m.buffers \ {Chan} : d.buffers[c] = m.buffers[c]
    BY <2>1, <2>2
  <2>7. Awaited(d) = <<>> /\ GoodList(Awaited(d), Chan, S) /\ AllNumbers(Awaited(d)) = {}
    BY <2>6, NoneGood DEF Awaited
  <2>8. \A c \in DOMAIN d.buffers : GoodBuffer(d.buffers[c], c, S, u)
    BY <2>5, <2>6 DEF GoodModel
  <2>9. \A b, c \in DOMAIN d.buffers :
          b # c => AllNumbers(d.buffers[b].messages) \cap AllNumbers(d.buffers[c].messages) = {}
    <3>1. \A b, c \in DOMAIN m.buffers :
            b # c => AllNumbers(m.buffers[b].messages) \cap AllNumbers(m.buffers[c].messages) = {}
      BY DEF GoodModel
    <3>2. \A c \in DOMAIN m.buffers : c # Chan => AllNumbers(m.buffers[c].messages) \cap (A \cup P) = {}
      BY <2>2, <2>4, <3>1
    <3> HIDE DEF A, P
    <3>3. \A c \in DOMAIN m.buffers :
            c # Chan => AllNumbers(d.buffers[c].messages) \cap AllNumbers(d.buffers[Chan].messages) = {}
      BY <2>5, <2>6, <3>2
    <3>4. QED
      BY <2>6, <3>1, <3>3
  <2>10. GoodModel(d, S, u)
    BY <2>2, <2>6, <2>7, <2>8, <2>9 DEF GoodModel
  <2>11. Quiet(d, m)
    BY <2>5, <2>6 DEF Quiet, UnreadIn
  <2>12. Pal \in DOMAIN m.buffers => d.buffers[Pal] = m.buffers[Pal]
    BY <2>6, NameAssumption
  <2>13. QED
    BY <2>6, <2>10, <2>11, <2>12 DEF d
<1>3. QED
  BY <1>1, <1>2

\* The lines of a batch of history, one by one.
Step(x, batch, i) == Handled(x, batch.msgs[i], <<batch.msgs[i].nr>>, batch.kind \in Replays)

\* deliverBatch's loop goes from each line to the next.
LEMMA AfterEach ==
  ASSUME NEW m, NEW batch, Len(batch.msgs) \in Nat
  PROVE  \E after : /\ DeliverLines(m, batch) = after[Len(batch.msgs)]
                    /\ after[0] = m
                    /\ \A i \in 1..Len(batch.msgs) : after[i] = Step(after[i - 1], batch, i)
<1> DEFINE n == Len(batch.msgs)
           Body(f) == [i \in 0..n |-> IF i = 0 THEN m ELSE Step(f[i - 1], batch, i)]
           after == CHOOSE f : f = Body(f)
           To(k) == \E f : /\ f = [i \in 0..k |-> f[i]] /\ f[0] = m
                           /\ \A i \in 1..k : f[i] = Step(f[i - 1], batch, i)
           Ks == {k \in Nat : To(k)}
<1>1. DeliverLines(m, batch) = after[n]
  BY DEF DeliverLines, Step
<1>2. 0 \in Ks
  <2> DEFINE f == [i \in 0..0 |-> m]
  <2>1. f = [i \in 0..0 |-> f[i]] /\ f[0] = m /\ \A i \in 1..0 : f[i] = Step(f[i - 1], batch, i)
    OBVIOUS
  <2> HIDE DEF f
  <2>2. To(0)
    BY <2>1
  <2>3. QED
    BY <2>2
<1>3. ASSUME NEW k \in Ks
      PROVE  k + 1 \in Ks
  <2>1. PICK f : f = [i \in 0..k |-> f[i]] /\ f[0] = m /\ \A i \in 1..k : f[i] = Step(f[i - 1], batch, i)
    OBVIOUS
  <2> DEFINE next == Step(f[k], batch, k + 1)
             g == [i \in 0 .. k + 1 |-> IF i = k + 1 THEN next ELSE f[i]]
  <2>2. g = [i \in 0 .. k + 1 |-> g[i]] /\ g[0] = m /\ g[k + 1] = next
    BY <2>1
  <2>3. \A i \in 0..k : g[i] = f[i]
    OBVIOUS
  <2> HIDE DEF g
  <2>4. ASSUME NEW i \in 1 .. k + 1
        PROVE  g[i] = Step(g[i - 1], batch, i)
    <3>1. CASE i = k + 1
      <4>1. g[i - 1] = f[k]
        BY <2>3, <3>1
      <4>2. QED
        BY <2>2, <3>1, <4>1
    <3>2. CASE i # k + 1
      <4>1. i \in 1..k /\ g[i] = f[i] /\ g[i - 1] = f[i - 1]
        BY <2>3, <3>2
      <4>2. QED
        BY <2>1, <4>1
    <3>3. QED
      BY <3>1, <3>2
  <2>5. To(k + 1)
    BY <2>2, <2>4
  <2>6. k + 1 \in Nat
    OBVIOUS
  <2> HIDE DEF To
  <2>7. QED
    BY <2>5, <2>6
<1>4. n \in Ks
  <2> HIDE DEF Ks
  <2>1. Ks \in SUBSET Nat
    BY DEF Ks
  <2>2. QED
    BY <1>2, <1>3, <2>1, EachNumber
<1>5. PICK f : f = [i \in 0..n |-> f[i]] /\ f[0] = m /\ \A i \in 1..n : f[i] = Step(f[i - 1], batch, i)
  BY <1>4
<1>6. \A i \in 0..n : f[i] = IF i = 0 THEN m ELSE Step(f[i - 1], batch, i)
  BY <1>5
<1>7. f = Body(f)
  BY <1>5, <1>6
<1>8. after = Body(after)
  BY <1>7
<1> HIDE DEF after
<1>9. \A i \in 0..n : after[i] = IF i = 0 THEN m ELSE Step(after[i - 1], batch, i)
  BY <1>8
<1>10. after[0] = m /\ \A i \in 1..n : after[i] = Step(after[i - 1], batch, i)
  BY <1>9
<1>11. QED
  BY <1>1, <1>10

\* A message of one line.
LEMMA OnePart ==
  ASSUME NEW t \in Nat
  PROVE  <<t>> \in Seq(Nat) /\ <<t>> # <<>> /\ PartsIn(<<t>>) = {t} /\ Rising(<<t>>)
<1> DEFINE one == <<t>>
<1>1. one \in Seq(Nat) /\ Len(one) = 1 /\ one[1] = t /\ one # <<>>
  OBVIOUS
<1>2. 1..1 = {1} /\ 1 .. 1 - 1 = {}
  OBVIOUS
<1> HIDE DEF one
<1>3. PartsIn(one) = {t} /\ Rising(one)
  BY <1>1, <1>2 DEF PartsIn, Rising
<1>4. QED
  BY <1>1, <1>3 DEF one

\* Lines of history handled one after the other.
LEMMA HandledOn ==
  ASSUME NEW d, NEW e, NEW m, NEW new, HandledIn(d, e, TRUE, new), HandledIn(e, m, TRUE, FALSE)
  PROVE  HandledIn(d, m, TRUE, FALSE)
<1>1. e.listed \subseteq d.listed /\ m.listed \subseteq e.listed
      /\ DOMAIN e.buffers \subseteq DOMAIN d.buffers /\ DOMAIN m.buffers \subseteq DOMAIN e.buffers
  BY DEF HandledIn
<1>2. LeavesPal(d, e) /\ LeavesPal(e, m) /\ Quiet(d, e) /\ Quiet(e, m)
  BY DEF HandledIn
<1>3. LeavesPal(d, m)
  BY <1>2 DEF LeavesPal
<1>4. Quiet(d, m)
  BY <1>2 DEF Quiet
<1>5. QED
  BY <1>1, <1>3, <1>4 DEF HandledIn

LEMMA HandledNone ==
  \A m : HandledIn(m, m, TRUE, FALSE)
BY DEF HandledIn, LeavesPal, Quiet

\* The lines of a batch.
LEMMA SpokenAre ==
  ASSUME NEW n \in Nat, NEW s \in Seq(SpokenLine(n))
  PROVE  /\ Len(s) \in Nat /\ DOMAIN s = 1..Len(s)
         /\ \A i \in 1..Len(s) : s[i] \in SpokenLine(n) /\ s[i].nr \in 1..n /\ s[i].nr \in Nat
<1>1. Len(s) \in Nat /\ DOMAIN s = 1..Len(s) /\ \A i \in 1..Len(s) : s[i] \in SpokenLine(n)
  BY LenProperties
<1>2. \A i \in 1..Len(s) : s[i].nr \in 1..n
  BY <1>1, SpeechIs
<1>3. QED
  BY <1>1, <1>2

\* deliverBatch, for a batch of history: what was held is what it was, and
\* the badges too.
LEMMA DeliverLinesGood ==
  ASSUME NEW m, NEW S, NEW u \in Nat, GoodModel(m, S, u), NEW n \in Nat,
         NEW batch, batch.msgs \in Seq(SpokenLine(n)), batch.kind \in Replays,
         \A i, j \in 1..Len(batch.msgs) : i < j => batch.msgs[i].nr < batch.msgs[j].nr,
         Times(batch.msgs) \cap S = {}
  PROVE  /\ GoodModel(DeliverLines(m, batch), S \cup Times(batch.msgs), u)
         /\ HandledIn(DeliverLines(m, batch), m, TRUE, FALSE)
<1> DEFINE s == batch.msgs
           N == Len(s)
           First(k) == {s[i].nr : i \in 1..k}
<1>1. /\ N \in Nat
      /\ \A i \in 1..N : s[i] \in SpokenLine(n) /\ s[i].nr \in 1..n /\ s[i].nr \in Nat
  BY SpokenAre
<1>2. PICK after : /\ DeliverLines(m, batch) = after[N] /\ after[0] = m
                   /\ \A i \in 1..N : after[i] = Step(after[i - 1], batch, i)
  BY <1>1, AfterEach
<1> DEFINE Fine(k) == GoodModel(after[k], S \cup First(k), u) /\ HandledIn(after[k], m, TRUE, FALSE)
           Ks == {k \in Nat : k =< N => Fine(k)}
<1>3. 0 \in Ks
  <2>1. First(0) = {}
    OBVIOUS
  <2>2. S \cup First(0) = S
    BY <2>1
  <2> HIDE DEF First
  <2>3. Fine(0)
    BY <1>2, <2>2, HandledNone
  <2> HIDE DEF Fine
  <2>4. QED
    BY <2>3
<1>4. ASSUME NEW k \in Ks
      PROVE  k + 1 \in Ks
  <2>1. k \in Nat /\ k + 1 \in Nat /\ (k =< N => Fine(k))
    <3> HIDE DEF Fine
    <3>1. k \in Nat /\ (k =< N => Fine(k))
      OBVIOUS
    <3>2. QED
      BY <3>1
  <2> SUFFICES ASSUME k + 1 =< N
               PROVE  Fine(k + 1)
    <3> HIDE DEF Fine
    <3>1. QED
      BY <2>1
  <2> DEFINE l == s[k + 1]
             x == after[k]
             A == S \cup First(k)
             B == S \cup First(k + 1)
             parts == <<l.nr>>
  <2>2. k + 1 \in 1..N /\ k =< N /\ (k + 1) - 1 = k
    BY <1>1, <2>1
  <2>3. GoodModel(x, A, u) /\ HandledIn(x, m, TRUE, FALSE)
    BY <2>1, <2>2
  <2>4. l \in SpokenLine(n) /\ l.nr \in Nat
    BY <1>1, <2>2
  <2>5. parts \in Seq(Nat) /\ parts # <<>> /\ PartsIn(parts) = {l.nr} /\ Rising(parts)
    <3> HIDE DEF l
    <3>1. QED
      BY <2>4, OnePart
  <2>6. after[k + 1] = Handled(x, l, parts, TRUE)
    BY <1>2, <2>2 DEF Step
  <2>7. l.nr \notin A
    <3>1. l.nr \in Times(s)
      BY <2>2 DEF Times
    <3>2. l.nr \notin First(k)
      <4> SUFFICES ASSUME NEW i \in 1..k
                   PROVE  s[i].nr # l.nr
        OBVIOUS
      <4>1. i \in 1..N /\ i < k + 1
        BY <1>1, <2>1, <2>2
      <4>2. s[i].nr < l.nr /\ s[i].nr \in Nat
        BY <1>1, <2>2, <4>1
      <4>3. QED
        BY <2>4, <4>2
    <3>3. QED
      BY <3>1, <3>2
  <2>8. A \subseteq B /\ l.nr \in B
    <3>1. \A i \in 1..k : i \in 1..k + 1
      BY <2>1
    <3>2. k + 1 \in 1..k + 1
      BY <2>1
    <3>3. QED
      BY <3>1, <3>2
  <2> HIDE DEF x, A, B, l, parts
  <2>9. PartsIn(parts) \subseteq B /\ PartsIn(parts) \cap A = {} /\ u =< u
    BY <2>5, <2>7, <2>8
  <2> DEFINE d == Handled(x, l, parts, TRUE)
  <2>10. GoodModel(d, B, u) /\ HandledIn(d, x, TRUE, l.new)
    <3>1. TRUE \in BOOLEAN /\ (~TRUE => u + 1 =< u)
      OBVIOUS
    <3>2. QED
      BY <2>3, <2>4, <2>5, <2>8, <2>9, <3>1, HandledGood
  <2> HIDE DEF d
  <2>11. HandledIn(d, m, TRUE, FALSE)
    BY <2>3, <2>10, HandledOn
  <2>12. after[k + 1] = d
    BY <2>6 DEF d
  <2>13. QED
    BY <2>10, <2>11, <2>12 DEF B
<1>5. Fine(N)
  <2> HIDE DEF Fine
  <2>1. Ks \in SUBSET Nat
    OBVIOUS
  <2> HIDE DEF Ks
  <2>2. N \in Ks
    BY <1>1, <1>3, <1>4, <2>1, EachNumber
  <2>3. QED
    BY <1>1, <2>2 DEF Ks
<1>6. First(N) = Times(s)
  BY DEF Times
<1>7. QED
  BY <1>2, <1>5, <1>6

\* A multiline batch has no line that is not its sender's.
LEMMA PartsAre ==
  ASSUME NEW n \in Nat, NEW batch, batch.msgs \in Seq(SpokenLine(n)),
         \A i \in 1..Len(batch.msgs) : batch.msgs[i].cmd = "privmsg"
  PROVE  /\ Parts(batch) \in Seq(SpokenLine(n)) /\ Len(Parts(batch)) = Len(batch.msgs)
         /\ \A i \in 1..Len(batch.msgs) : Parts(batch)[i] = batch.msgs[i]
<1> DEFINE s == batch.msgs
           N == Len(s)
           L == SpokenLine(n)
           Body(f) == [i \in 0..N |-> IF i = 0 THEN <<>>
                                      ELSE IF s[i].cmd = "privmsg" THEN Append(f[i - 1], s[i])
                                      ELSE f[i - 1]]
           part == CHOOSE f : f = Body(f)
           g == [i \in 0..N |-> SubSeq(s, 1, i)]
<1>1. N \in Nat /\ s \in Seq(L) /\ \A i \in 1..N : s[i] \in L
  BY SpokenAre
<1>2. Parts(batch) = part[N]
  BY DEF Parts
<1> HIDE DEF s, L
<1>3. \A i \in 0..N : /\ SubSeq(s, 1, i) \in Seq(L) /\ Len(SubSeq(s, 1, i)) = i
                      /\ \A k \in 1..i : SubSeq(s, 1, i)[k] = s[k]
  BY <1>1
<1>4. SubSeq(s, 1, 0) = <<>>
  BY <1>1
<1>5. ASSUME NEW i \in 1..N
      PROVE  SubSeq(s, 1, i) = Append(SubSeq(s, 1, i - 1), s[i])
  BY <1>1
<1>6. \A i \in 1..N : s[i].cmd = "privmsg"
  BY DEF s
<1>7. g = Body(g)
  <2>1. \A i \in 0..N : g[i] = IF i = 0 THEN <<>>
                               ELSE IF s[i].cmd = "privmsg" THEN Append(g[i - 1], s[i]) ELSE g[i - 1]
    <3> SUFFICES ASSUME NEW i \in 0..N
                 PROVE  g[i] = IF i = 0 THEN <<>>
                               ELSE IF s[i].cmd = "privmsg" THEN Append(g[i - 1], s[i]) ELSE g[i - 1]
      OBVIOUS
    <3>1. CASE i = 0
      BY <1>4, <3>1
    <3>2. CASE i # 0
      <4>1. i \in 1..N /\ i - 1 \in 0..N /\ g[i] = SubSeq(s, 1, i) /\ g[i - 1] = SubSeq(s, 1, i - 1)
        BY <1>1, <3>2
      <4>2. QED
        BY <1>5, <1>6, <3>2, <4>1
    <3>3. QED
      BY <3>1, <3>2
  <2>2. g = [i \in 0..N |-> g[i]]
    OBVIOUS
  <2> HIDE DEF g
  <2>3. QED
    BY <2>1, <2>2
<1>8. part = Body(part)
  <2> HIDE DEF g
  <2>1. QED
    BY <1>7
<1> HIDE DEF part
<1>9. \A i \in 0..N : part[i] = IF i = 0 THEN <<>>
                                ELSE IF s[i].cmd = "privmsg" THEN Append(part[i - 1], s[i])
                                ELSE part[i - 1]
  BY <1>8
<1> DEFINE Ks == {k \in Nat : k =< N => part[k] = SubSeq(s, 1, k)}
<1>10. 0 \in Ks
  <2>1. 0 \in 0..N /\ part[0] = <<>>
    BY <1>1, <1>9
  <2>2. QED
    BY <1>4, <2>1
<1>11. ASSUME NEW k \in Ks
       PROVE  k + 1 \in Ks
  <2>1. k \in Nat /\ k + 1 \in Nat /\ (k + 1) - 1 = k
    OBVIOUS
  <2>2. ASSUME k + 1 =< N
        PROVE  part[k + 1] = SubSeq(s, 1, k + 1)
    <3>1. k + 1 \in 1..N /\ k + 1 \in 0..N /\ k + 1 # 0 /\ part[k] = SubSeq(s, 1, k)
      BY <1>1, <2>1, <2>2
    <3>2. part[k + 1] = Append(part[k], s[k + 1])
      BY <1>6, <1>9, <2>1, <3>1
    <3>3. QED
      BY <1>5, <2>1, <3>1, <3>2
  <2>3. QED
    BY <2>1, <2>2
<1>12. part[N] = SubSeq(s, 1, N)
  <2>1. Ks \in SUBSET Nat
    OBVIOUS
  <2> HIDE DEF Ks
  <2>2. N \in Ks
    BY <1>1, <1>10, <1>11, <2>1, EachNumber
  <2>3. QED
    BY <1>1, <2>2 DEF Ks
<1>13. QED
  BY <1>1, <1>2, <1>3, <1>12 DEF s, L

\* deliverMultiline: one message of all its lines.
LEMMA MultilineGood ==
  ASSUME NEW m, NEW S, NEW u \in Nat, GoodModel(m, S, u), NEW n \in Nat, NEW batch,
         NEW served \in OpenBatch, served.kind = "multiline", GoodBatch(batch, served, n),
         Times(batch.msgs) \cap S = {}, NEW v \in Nat, u =< v, batch.msgs # <<>> => u + 1 =< v
  PROVE  LET d == DeliverMultiline(m, batch)
         IN  /\ GoodModel(d, S \cup Times(batch.msgs), v) /\ HandledIn(d, m, FALSE, served.within = Nothing)
<1> DEFINE s == batch.msgs
           N == Len(s)
           L == SpokenLine(n)
           d == DeliverMultiline(m, batch)
           lines == Parts(batch)
           T == S \cup Times(s)
<1>1. /\ s \in Seq(L) /\ N \in Nat /\ \A i \in 1..N : s[i] \in L /\ s[i].nr \in Nat
      /\ \A i, j \in 1..N : i < j => s[i].nr < s[j].nr
      /\ batch.to = served.to
      /\ \A i \in 1..N : /\ s[i].cmd = "privmsg" /\ s[i].to = served.to
                         /\ served.within = Nothing => s[i].new
  BY SpokenAre DEF GoodBatch
<1>2. lines \in Seq(L) /\ Len(lines) = N /\ \A i \in 1..N : lines[i] = s[i]
  BY <1>1, PartsAre
<1>3. CASE lines = <<>>
  <2>1. d = m
    BY <1>3 DEF DeliverMultiline
  <2>2. N = 0
    BY <1>2, <1>3
  <2>3. T = S
    BY <2>2 DEF Times
  <2>4. GoodModel(m, S, v)
    <3>1. Awaited(m) = Awaited(m) /\ \A c \in DOMAIN m.buffers : GoodBuffer(m.buffers[c], c, S, v)
      BY BufferMore DEF GoodModel
    <3>2. QED
      BY <3>1 DEF GoodModel
  <2>5. HandledIn(m, m, FALSE, served.within = Nothing)
    BY DEF HandledIn, LeavesPal, BadgesNew
  <2>6. QED
    BY <2>1, <2>3, <2>4, <2>5
<1>4. CASE lines # <<>>
  <2> DEFINE parts == [i \in DOMAIN lines |-> lines[i].nr]
             l == [lines[1] EXCEPT !.to = batch.to]
  <2>1. N # 0 /\ 1 \in 1..N /\ s # <<>>
    BY <1>1, <1>2, <1>4, EmptySeq
  <2>2. d = OnMessage(m, l, parts, FALSE)
    BY <1>4 DEF DeliverMultiline
  <2>3. parts = [i \in 1..N |-> s[i].nr]
    <3>1. DOMAIN lines = 1..N
      BY <1>2, LenProperties
    <3>2. QED
      BY <1>2, <3>1
  <2> HIDE DEF parts
  <2>4. parts \in Seq(Nat) /\ Len(parts) = N /\ \A i \in 1..N : parts[i] = s[i].nr
    <3>1. parts \in [1..N -> Nat]
      BY <1>1, <2>3
    <3>2. QED
      BY <1>1, <2>3, <3>1, SeqDef
  <2>5. parts # <<>>
    BY <2>1, <2>4
  <2>6. PartsIn(parts) = Times(s) /\ Rising(parts)
    <3>1. PartsIn(parts) = Times(s)
      BY <2>4 DEF PartsIn, Times
    <3>2. \A k \in 1 .. N - 1 : k \in 1..N /\ k + 1 \in 1..N /\ k < k + 1
      BY <1>1
    <3>3. QED
      BY <1>1, <2>4, <3>1, <3>2 DEF Rising
  <2>7. l \in L /\ l.cmd = "privmsg" /\ (served.within = Nothing => l.new)
    <3> DEFINE o == lines[1]
    <3>1. o \in L /\ o = s[1]
      BY <1>1, <1>2, <2>1
    <3>2. o.cmd = "privmsg" /\ o.to = batch.to /\ (served.within = Nothing => o.new)
      BY <1>1, <2>1, <3>1
    <3> HIDE DEF o
    <3>3. o \in [cmd : Commands, from : Names, to : Names, nr : 1..n, at : Nat, new : BOOLEAN]
          /\ <<o.cmd, <<o.from, o.to>>>> \in Speech
      BY <3>1 DEF SpokenLine
    <3> DEFINE r == [o EXCEPT !.to = batch.to]
    <3>4. r.cmd = o.cmd /\ r.from = o.from /\ r.to = o.to /\ r.new = o.new /\ r.nr = o.nr
          /\ r \in [cmd : Commands, from : Names, to : Names, nr : 1..n, at : Nat, new : BOOLEAN]
      BY <3>2, <3>3
    <3> HIDE DEF r
    <3>5. r \in L /\ r.cmd = "privmsg" /\ (served.within = Nothing => r.new)
      BY <3>2, <3>3, <3>4 DEF SpokenLine
    <3>6. QED
      BY <3>5 DEF r, o
  <2> HIDE DEF l, d, L, T
  <2>8. PartsIn(parts) \subseteq T /\ PartsIn(parts) \cap S = {} /\ S \subseteq T
    BY <2>6 DEF T
  <2> DEFINE h == Handled(m, l, parts, FALSE)
  <2>9. /\ GoodModel(h, T, v) /\ HandledIn(h, m, FALSE, l.new)
        /\ l.cmd = "privmsg" => h = OnMessage(m, l, parts, FALSE)
    <3>1. FALSE \in BOOLEAN /\ (~FALSE => u + 1 =< v)
      BY <2>1
    <3>2. l \in SpokenLine(n)
      BY <2>7 DEF L
    <3>3. GoodModel(h, T, v) /\ HandledIn(h, m, FALSE, l.new)
      BY <2>4, <2>5, <2>6, <2>8, <3>1, <3>2, HandledGood
    <3>4. l.cmd = "privmsg" => h = OnMessage(m, l, parts, FALSE)
      BY DEF Handled
    <3>5. QED
      BY <3>3, <3>4
  <2> HIDE DEF h
  <2>10. h = d
    BY <2>2, <2>7, <2>9
  <2>11. HandledIn(h, m, FALSE, served.within = Nothing)
    BY <2>7, <2>9 DEF HandledIn
  <2>12. QED
    BY <2>9, <2>10, <2>11 DEF d, T
<1>5. QED
  BY <1>3, <1>4

\* deliverBatch, and the page it ends.
LEMMA DeliveredGood ==
  ASSUME NEW m, NEW S, NEW u \in Nat, GoodModel(m, S, u), NEW n \in Nat, NEW batch,
         NEW served \in OpenBatch, GoodBatch(batch, served, n),
         Times(batch.msgs) \cap S = {}, NEW v \in Nat, u =< v,
         batch.kind = "multiline" /\ batch.msgs # <<>> => u + 1 =< v
  PROVE  LET d == Delivered(m, batch)
         IN  /\ GoodModel(d, S \cup Times(batch.msgs), v) /\ HandledIn(d, m, FALSE, FALSE)
             /\ batch.kind # "multiline" => Quiet(d, m)
             /\ batch.kind = "multiline" /\ served.within = Nothing => BadgesNew(d, m)
<1> DEFINE d == Delivered(m, batch)
           T == S \cup Times(batch.msgs)
<1>1. batch.kind = served.kind /\ batch.kind \in Kinds
  BY DEF GoodBatch, OpenBatch
<1>2. CASE batch.kind = "multiline"
  <2>1. d = DeliverMultiline(m, batch)
    BY <1>2 DEF Delivered
  <2>2. served.kind = "multiline" /\ (batch.msgs # <<>> => u + 1 =< v)
    BY <1>1, <1>2
  <2>3. GoodModel(d, T, v) /\ HandledIn(d, m, FALSE, served.within = Nothing)
    <3> DEFINE x == DeliverMultiline(m, batch)
    <3>1. GoodModel(x, T, v)
      BY <2>2, MultilineGood
    <3>2. HandledIn(x, m, FALSE, served.within = Nothing)
      BY <2>2, MultilineGood
    <3>3. QED
      BY <2>1, <3>1, <3>2
  <2> HIDE DEF d
  <2>4. HandledIn(d, m, FALSE, FALSE) /\ (served.within = Nothing => BadgesNew(d, m))
    BY <2>3 DEF HandledIn
  <2>5. QED
    BY <1>2, <2>3, <2>4 DEF d
<1>3. CASE batch.kind # "multiline"
  <2> DEFINE x == DeliverLines(m, batch)
  <2>1. batch.kind \in Replays
    BY <1>1, <1>3 DEF Kinds
  <2>2. /\ batch.msgs \in Seq(SpokenLine(n))
        /\ \A i, j \in 1..Len(batch.msgs) : i < j => batch.msgs[i].nr < batch.msgs[j].nr
    BY DEF GoodBatch
  <2>3. GoodModel(x, T, u) /\ HandledIn(x, m, TRUE, FALSE)
    BY <2>1, <2>2, DeliverLinesGood
  <2>4. d = HistoryBatchDone(x, batch)
    BY <1>3 DEF Delivered
  <2> HIDE DEF x, d, T
  <2>5. /\ GoodModel(d, T, u) /\ d.listed = x.listed /\ DOMAIN d.buffers = DOMAIN x.buffers
        /\ Quiet(d, x) /\ (Pal \in DOMAIN x.buffers => d.buffers[Pal] = x.buffers[Pal])
    BY <2>3, <2>4, PageArrives
  <2>6. GoodModel(d, T, v)
    <3>1. \A c \in DOMAIN d.buffers : GoodBuffer(d.buffers[c], c, T, v)
      BY <2>5, BufferMore DEF GoodModel
    <3>2. QED
      BY <2>5, <3>1 DEF GoodModel
  <2>7. Quiet(d, m)
    BY <2>3, <2>5 DEF HandledIn, Quiet
  <2>8. LeavesPal(d, m)
    BY <2>3, <2>5 DEF HandledIn, LeavesPal
  <2>9. m.listed \subseteq d.listed /\ DOMAIN m.buffers \subseteq DOMAIN d.buffers
    BY <2>3, <2>5 DEF HandledIn
  <2>10. HandledIn(d, m, FALSE, FALSE)
    BY <2>8, <2>9 DEF HandledIn
  <2>11. QED
    BY <1>3, <2>6, <2>7, <2>10 DEF d, T
<1>4. QED
  BY <1>2, <1>3

(* ----------------- the invariant and its parts ------------------------- *)

\* The limits, and the fields of the model.
LEMMA LimitsAre ==
  MaxOpen \in Nat /\ MaxBatch \in Nat /\ MaxSaid \in Nat /\ MaxPosted \in Nat
BY LimitAssumption

LEMMA ModelIs ==
  /\ DOMAIN Model = {"buffers", "listed", "page", "seeded"}
  /\ Model.buffers = buffers /\ Model.listed = listed /\ Model.page = page /\ Model.seeded = seeded
BY DEF Model

\* A handler's result becomes the model.
LEMMA BecomeGives ==
  ASSUME NEW d, NEW S, NEW u, GoodModel(d, S, u), Become(d)
  PROVE  GoodModel(Model', S, u) /\ Model'.buffers = d.buffers /\ Model'.listed = d.listed
<1>1. /\ Model'.buffers = d.buffers /\ Model'.listed = d.listed /\ Model'.page = d.page
      /\ DOMAIN Model' = {"buffers", "listed", "page", "seeded"}
  BY DEF Model, Become
<1> DEFINE x == Model'
<1> HIDE DEF x
<1>2. /\ x.buffers = d.buffers /\ x.listed = d.listed /\ x.page = d.page
      /\ DOMAIN x = {"buffers", "listed", "page", "seeded"}
  BY <1>1 DEF x
<1>3. Awaited(x) = Awaited(d)
  BY <1>2 DEF Awaited
<1>4. GoodModel(x, S, u)
  BY <1>2, <1>3 DEF GoodModel
<1>5. QED
  BY <1>2, <1>4 DEF x

\* What is known of a batch that is kept.
LEMMA BatchIs ==
  ASSUME GoodBatches, said \in Nat, NEW r \in Opened(batches)
  PROVE  /\ r \in Refs /\ open[r] # Nothing /\ GoodBatch(batches[r], open[r], said)
         /\ batches[r].msgs \in Seq(SpokenLine(said)) /\ Len(batches[r].msgs) \in Nat
         /\ \A i \in 1..Len(batches[r].msgs) :
              batches[r].msgs[i] \in SpokenLine(said) /\ batches[r].msgs[i].nr \in 1..said
         /\ Times(batches[r].msgs) \subseteq 1..said
<1>1. r \in Refs /\ open[r] # Nothing /\ GoodBatch(batches[r], open[r], said)
  BY DEF GoodBatches, Opened
<1>2. batches[r].msgs \in Seq(SpokenLine(said))
  BY <1>1 DEF GoodBatch
<1>3. /\ Len(batches[r].msgs) \in Nat
      /\ \A i \in 1..Len(batches[r].msgs) :
           batches[r].msgs[i] \in SpokenLine(said) /\ batches[r].msgs[i].nr \in 1..said
  BY <1>2, SpokenAre
<1>4. QED
  BY <1>1, <1>2, <1>3 DEF Times

\* There are no more lines counted than said.
LEMMA CountedIs ==
  ASSUME RInv
  PROVE  said \in Nat /\ Kept \in {0, 1} /\ Counted \in Nat /\ Counted =< said /\ said =< MaxSaid
<1>1. said \in 0..MaxSaid /\ GoodBatches
  BY DEF RInv
<1>2. said \in Nat /\ said =< MaxSaid
  BY <1>1, LimitsAre
<1>3. Kept \in {0, 1}
  BY DEF Kept
<1>4. Kept = 1 => said >= 1
  <2>1. SUFFICES ASSUME NEW r \in Opened(batches), batches[r].msgs # <<>>
                 PROVE  said >= 1
    BY DEF Kept
  <2> DEFINE s == batches[r].msgs
  <2>2. /\ s \in Seq(SpokenLine(said)) /\ Len(s) \in Nat /\ \A i \in 1..Len(s) : s[i].nr \in 1..said
    BY <1>1, <1>2, BatchIs
  <2>3. Len(s) # 0
    BY <2>1, <2>2, EmptySeq
  <2>4. 1 \in 1..Len(s)
    BY <2>2, <2>3
  <2>5. s[1].nr \in 1..said
    BY <2>2, <2>4
  <2>6. QED
    BY <1>2, <2>5
<1>5. Counted \in Nat /\ Counted =< said
  BY <1>2, <1>3, <1>4 DEF Counted
<1>6. QED
  BY <1>2, <1>3, <1>5

\* What is not disturbed when only the model is.
LEMMA ModelOnly ==
  ASSUME RInv, UNCHANGED <<caps, open, batches, said>>, GoodModel(Model', Come, Counted),
         active' \in {Server} \cup listed', posted' \in 0..MaxPosted
  PROVE  RInv'
<1>1. Opened(batches)' = Opened(batches) /\ Opened(open)' = Opened(open)
  BY DEF Opened
<1>2. Pending' = Pending /\ Kept' = Kept
  BY <1>1 DEF Pending, Kept
<1>3. Come' = Come /\ Counted' = Counted
  BY <1>2 DEF Come, Counted
<1>4. GoodOpen'
  <2>1. \A kind : Sends(kind)' = Sends(kind)
    BY DEF Sends
  <2>2. GoodOpen
    BY DEF RInv
  <2>3. QED
    BY <1>1, <2>1, <2>2 DEF GoodOpen
<1>5. GoodBatches'
  BY <1>1 DEF GoodBatches, RInv
<1>6. QED
  BY <1>3, <1>4, <1>5 DEF RInv

\* Lines of the client's own have no number and count for nothing.
LEMMA OwnGood ==
  \A b, S : Own \in Message /\ Whole(Own, S) /\ Placed(Own, b) /\ Numbers(Own) = {} /\ ~Own.past /\ Own.new
            /\ ~CountsAsUnread(b, Own)
<1>1. Own \in Message
  BY DEF Own, Message, Commands, Names
<1>2. Own.parts = <<>> /\ Len(<<>>) = 0 /\ ~Own.past /\ Own.new /\ Own.cmd = "server"
  BY DEF Own
<1>3. Numbers(Own) = {} /\ \A b, S : Whole(Own, S) /\ Placed(Own, b)
  BY <1>2 DEF Numbers, Whole, Placed
<1>4. \A b : ~CountsAsUnread(b, Own)
  BY <1>2 DEF CountsAsUnread
<1>5. QED
  BY <1>1, <1>2, <1>3, <1>4

LEMMA OwnPosted ==
  ASSUME RInv, NEW b \in Names
  PROVE  LET d == Post(Model, b, Own)
         IN  GoodModel(d, Come, Counted) /\ PostedIn(d, Model, b, Own)
<1>1. GoodModel(Model, Come, Counted) /\ Counted \in Nat
  BY CountedIs DEF RInv
<1>2. /\ Own \in Message /\ Whole(Own, Come) /\ Placed(Own, b) /\ Numbers(Own) \cap Come = {}
      /\ (~Own.past /\ CountsAsUnread(b, Own) => Counted + 1 =< Counted)
  BY OwnGood
<1> DEFINE S == Come
           u == Counted
           m == Model
<1>3. S \subseteq S /\ u =< u
  BY <1>1
<1> HIDE DEF S, u, m
<1>4. GoodModel(m, S, u) /\ u \in Nat
  BY <1>1 DEF m, S, u
<1>5. /\ Whole(Own, S) /\ Numbers(Own) \cap S = {} /\ Own \in Message /\ Placed(Own, b)
      /\ (~Own.past /\ CountsAsUnread(b, Own) => u + 1 =< u)
  BY <1>2 DEF S, u
<1>6. GoodModel(Post(m, b, Own), S, u) /\ PostedIn(Post(m, b, Own), m, b, Own)
  BY <1>3, <1>4, <1>5, PostGood
<1>7. QED
  BY <1>6 DEF m, S, u

\* The window shows a buffer there is.
LEMMA ActiveIs ==
  ASSUME RInv
  PROVE  active \in Names /\ active \in DOMAIN buffers
<1>1. listed \subseteq DOMAIN buffers /\ {Server, Chan} \subseteq DOMAIN buffers /\ DOMAIN buffers \subseteq Names
  BY ModelIs DEF RInv, GoodModel
<1>2. QED
  BY <1>1 DEF RInv

(* ----------------- the steps ------------------------------------------- *)

\* The action properties, of one step.
ClosedStep ==
  (Pal \in DOMAIN buffers' \ DOMAIN buffers) =>
    LET m == buffers'[Pal].messages
    IN  m = <<>> \/ m[Len(m)].parts # <<>> \/ m[Len(m)] = LogLine

QuietStep ==
  \A b \in DOMAIN buffers' : buffers'[b].unread > Badges(b) =>
    LET m == buffers'[b].messages
    IN  m[Len(m)].new \/ \E r \in Opened(open) : NestedEnds(r)

\* What handling the lines shows of the action properties.
LEMMA LeavesPalCloses ==
  ASSUME LeavesPal(Model', Model) \/ DOMAIN buffers' \subseteq DOMAIN buffers
  PROVE  ClosedStep
<1>1. Model.buffers = buffers /\ Model'.buffers = buffers'
  BY DEF Model
<1>2. QED
  BY <1>1 DEF ClosedStep, LeavesPal, LastHasParts

LEMMA BadgesNewQuiet ==
  ASSUME RInv, RInv', BadgesNew(Model', Model) \/ Quiet(Model', Model)
  PROVE  QuietStep
<1>1. Model.buffers = buffers /\ Model'.buffers = buffers'
  BY DEF Model
<1>2. /\ \A b \in DOMAIN buffers' : buffers'[b].unread = UnreadIn(Model', b)
      /\ \A b : Badges(b) = UnreadIn(Model, b)
  BY <1>1 DEF UnreadIn, Badges
<1>3. /\ \A b \in DOMAIN buffers' : GoodBuffer(buffers'[b], b, Come', Counted')
      /\ \A b \in DOMAIN buffers : GoodBuffer(buffers[b], b, Come, Counted)
  BY <1>1 DEF RInv, GoodModel
<1>4. /\ \A b \in DOMAIN buffers' : buffers'[b].unread \in Nat
      /\ \A b : Badges(b) \in Nat
  BY <1>3, BufferParts DEF Badges
<1>5. CASE Quiet(Model', Model)
  <2>1. \A b \in DOMAIN buffers' : buffers'[b].unread = Badges(b)
    BY <1>2, <1>5 DEF Quiet
  <2>2. QED
    BY <1>4, <2>1 DEF QuietStep
<1>6. CASE BadgesNew(Model', Model)
  <2>1. ASSUME NEW b \in DOMAIN buffers', buffers'[b].unread > Badges(b)
        PROVE  buffers'[b].messages[Len(buffers'[b].messages)].new
    <3>1. UnreadIn(Model', b) # UnreadIn(Model, b)
      BY <1>2, <1>4, <2>1
    <3>2. QED
      BY <1>1, <1>6, <3>1 DEF BadgesNew
  <2>2. QED
    BY <2>1 DEF QuietStep
<1>7. QED
  BY <1>5, <1>6

\* More lines may have come to the model.
LEMMA ModelMore ==
  ASSUME NEW m, NEW S, NEW u \in Nat, GoodModel(m, S, u), NEW T, S \subseteq T, NEW v \in Nat, u =< v
  PROVE  GoodModel(m, T, v)
<1>1. \A c \in DOMAIN m.buffers : GoodBuffer(m.buffers[c], c, T, v)
  BY BufferMore DEF GoodModel
<1>2. GoodList(Awaited(m), Chan, T)
  BY MoreGood DEF GoodModel
<1>3. QED
  BY <1>1, <1>2 DEF GoodModel

\* A line more is said, and the batches are what they were.
LEMMA SpokenMore ==
  ASSUME NEW n \in Nat, NEW s \in Seq(SpokenLine(n))
  PROVE  s \in Seq(SpokenLine(n + 1))
<1>1. 1..n \subseteq 1..n + 1
  OBVIOUS
<1>2. SpokenLine(n) \subseteq SpokenLine(n + 1)
  BY <1>1 DEF SpokenLine
<1>3. Len(s) \in Nat /\ s \in [1..Len(s) -> SpokenLine(n)]
  BY LenProperties
<1>4. s \in [1..Len(s) -> SpokenLine(n + 1)]
  BY <1>2, <1>3
<1>5. QED
  BY <1>3, <1>4, SeqDef

\* The lines kept back have been said.
LEMMA PendingIs ==
  ASSUME RInv
  PROVE  Pending \subseteq 1..said /\ said + 1 \notin Pending
<1>1. GoodBatches /\ said \in Nat
  BY CountedIs DEF RInv
<1>2. \A r \in Opened(batches) : Times(batches[r].msgs) \subseteq 1..said
  BY <1>1, BatchIs
<1>3. Pending \subseteq 1..said
  BY <1>2 DEF Pending
<1>4. QED
  BY <1>1, <1>3

LEMMA GoodBatchMore ==
  ASSUME NEW n \in Nat, NEW batch, NEW served, GoodBatch(batch, served, n)
  PROVE  GoodBatch(batch, served, n + 1)
<1>1. batch.msgs \in Seq(SpokenLine(n + 1))
  BY SpokenMore DEF GoodBatch
<1>2. QED
  BY <1>1 DEF GoodBatch

LEMMA SaidMore ==
  ASSUME RInv, UNCHANGED <<caps, open, batches>>, said' = said + 1
  PROVE  /\ GoodOpen' /\ GoodBatches' /\ Come' = Come \cup {said + 1} /\ said + 1 \notin Come
         /\ Counted' = Counted + 1 /\ Come \subseteq Come'
<1>1. Opened(batches)' = Opened(batches) /\ Opened(open)' = Opened(open)
  BY DEF Opened
<1>2. Pending' = Pending /\ Kept' = Kept
  BY <1>1 DEF Pending, Kept
<1>3. said \in Nat /\ Kept \in {0, 1} /\ GoodBatches /\ GoodOpen
  BY CountedIs DEF RInv
<1>4. Come' = Come \cup {said + 1} /\ said + 1 \notin Come
  BY <1>2, <1>3, PendingIs DEF Come
<1>5. Counted' = Counted + 1
  BY <1>2, <1>3 DEF Counted
<1>6. GoodOpen'
  <2>1. \A kind : Sends(kind)' = Sends(kind)
    BY DEF Sends
  <2>2. QED
    BY <1>1, <1>3, <2>1 DEF GoodOpen
<1>7. GoodBatches'
  <2>1. \A r \in Opened(batches) : open[r] # Nothing /\ GoodBatch(batches[r], open[r], said + 1)
    BY <1>3, GoodBatchMore DEF GoodBatches
  <2>2. QED
    BY <1>1, <1>3, <2>1 DEF GoodBatches
<1>8. QED
  BY <1>4, <1>5, <1>6, <1>7

\* The steps, one by one.  Lines of the client's own.
LEMMA PostOwnStep ==
  ASSUME RInv, NEW b \in DOMAIN buffers, PostOwn(b), UNCHANGED <<caps, open, batches, active, said>>
  PROVE  RInv' /\ ClosedStep /\ QuietStep
<1> DEFINE d == Post(Model, b, Own)
<1>1. b \in Names
  BY ModelIs DEF RInv, GoodModel
<1>2. GoodModel(d, Come, Counted) /\ PostedIn(d, Model, b, Own)
  BY <1>1, OwnPosted
<1>3. Become(d) /\ posted < MaxPosted /\ posted' = posted + 1
  BY DEF PostOwn
<1> HIDE DEF d
<1>4. GoodModel(Model', Come, Counted) /\ Model'.buffers = d.buffers /\ Model'.listed = d.listed
  BY <1>2, <1>3, BecomeGives
<1>5. d.listed = listed /\ Model'.listed = listed' /\ Model'.buffers = buffers'
  BY <1>2, ModelIs DEF PostedIn, Model
<1>6. posted' \in 0..MaxPosted
  BY <1>3, LimitsAre DEF RInv
<1>7. active' \in {Server} \cup listed'
  BY <1>4, <1>5 DEF RInv
<1>8. RInv'
  BY <1>4, <1>6, <1>7, ModelOnly
<1>9. DOMAIN buffers' = DOMAIN buffers
  BY <1>2, <1>4, <1>5, ModelIs DEF PostedIn
<1>10. ClosedStep
  BY <1>9, LeavesPalCloses
<1>11. BadgesNew(d, Model)
  BY <1>2, OwnGood DEF PostedIn, BadgesNew, UnreadIn, LatestIs
<1>12. BadgesNew(Model', Model)
  BY <1>4, <1>11 DEF BadgesNew, UnreadIn
<1>13. QED
  BY <1>8, <1>10, <1>12, BadgesNewQuiet

LEMMA OwnStep ==
  ASSUME RInv, ServerLine \/ ContextualLine \/ ChannelLine \/ CtcpReply
  PROVE  RInv' /\ ClosedStep /\ QuietStep
<1>1. active \in DOMAIN buffers /\ Server \in DOMAIN buffers
  BY ActiveIs, ModelIs DEF RInv, GoodModel
<1>2. StandardReply(Chan) \in DOMAIN buffers /\ CtcpReplyBuffer \in DOMAIN buffers
  BY <1>1 DEF StandardReply, CtcpReplyBuffer
<1>3. \E b \in DOMAIN buffers : PostOwn(b) /\ UNCHANGED <<caps, open, batches, active, said>>
  BY <1>1, <1>2 DEF ServerLine, ContextualLine, ChannelLine, CtcpReply, CtcpReplied
<1>4. QED
  BY <1>3, PostOwnStep

\* Badges that stay, or go, are quiet.
LEMMA QuietFewer ==
  ASSUME RInv, \A b \in DOMAIN buffers' : buffers'[b].unread \in {0, Badges(b)}
  PROVE  QuietStep
<1>1. \A b \in DOMAIN buffers : GoodBuffer(buffers[b], b, Come, Counted)
  BY ModelIs DEF RInv, GoodModel
<1>2. \A b : Badges(b) \in Nat
  BY <1>1, BufferParts DEF Badges
<1>3. \A b \in DOMAIN buffers' : ~(buffers'[b].unread > Badges(b))
  BY <1>2
<1>4. QED
  BY <1>3 DEF QuietStep

LEMMA BuffersAre ==
  ASSUME RInv
  PROVE  /\ {Server, Chan} \subseteq DOMAIN buffers /\ DOMAIN buffers \subseteq Names
         /\ listed \subseteq DOMAIN buffers
         /\ \A b \in DOMAIN buffers : GoodBuffer(buffers[b], b, Come, Counted)
         /\ GoodModel(Model, Come, Counted) /\ Counted \in Nat
BY ModelIs, CountedIs DEF RInv, GoodModel

\* Steps that leave the buffers alone.
LEMMA SameModel ==
  ASSUME RInv, UNCHANGED model
  PROVE  GoodModel(Model', Come, Counted) /\ ClosedStep /\ QuietStep
<1>1. Model' = Model /\ buffers' = buffers
  BY DEF Model, model
<1>2. GoodModel(Model', Come, Counted)
  BY <1>1 DEF RInv
<1>3. ClosedStep
  BY <1>1, LeavesPalCloses
<1>4. \A b \in DOMAIN buffers' : buffers'[b].unread = Badges(b)
  BY <1>1 DEF Badges
<1>5. QuietStep
  BY <1>4, QuietFewer
<1>6. QED
  BY <1>2, <1>3, <1>5

LEMMA CtcpStep ==
  ASSUME RInv, SendCtcp \/ OriginExpires
  PROVE  RInv' /\ ClosedStep /\ QuietStep
<1>1. UNCHANGED model /\ UNCHANGED <<caps, open, batches, said, active, posted>>
  BY DEF SendCtcp, OriginExpires
<1>2. GoodModel(Model', Come, Counted) /\ ClosedStep /\ QuietStep
  BY <1>1, SameModel
<1>3. active' \in {Server} \cup listed' /\ posted' \in 0..MaxPosted
  BY <1>1 DEF RInv, model
<1>4. QED
  BY <1>1, <1>2, <1>3, ModelOnly

\* One buffer changed in place, its lines as they were.
LEMMA InPlace ==
  ASSUME RInv, NEW b \in DOMAIN buffers, NEW c, GoodBuffer(c, b, Come, Counted),
         c.messages = buffers[b].messages,
         DOMAIN buffers' = DOMAIN buffers, buffers'[b] = c,
         \A x \in DOMAIN buffers \ {b} : buffers'[x] = buffers[x],
         UNCHANGED <<listed, page>>
  PROVE  GoodModel(Model', Come, Counted)
<1> DEFINE d == Model'
           m == Model
           S == Come
           u == Counted
           N == {}
<1>1. /\ DOMAIN d = DOMAIN m /\ d.page = m.page /\ d.listed = m.listed
      /\ d.buffers = buffers' /\ m.buffers = buffers
  BY DEF Model
<1>2. GoodModel(m, S, u) /\ u \in Nat /\ b \in Names /\ listed \subseteq DOMAIN buffers /\ d.listed = listed
  BY BuffersAre DEF Model
<1> HIDE DEF d, m, S, u
<1>3. /\ DOMAIN d.buffers = DOMAIN m.buffers \cup {b} /\ d.listed \subseteq DOMAIN d.buffers
      /\ \A x \in DOMAIN m.buffers \ {b} : d.buffers[x] = m.buffers[x]
  BY <1>1, <1>2
<1>4. GoodBuffer(d.buffers[b], b, S, u) /\ S \subseteq S /\ u =< u
  BY <1>1, <1>2 DEF S, u
<1>5. AllNumbers(d.buffers[b].messages) \subseteq In(m, b) \cup N /\ N \cap S = {}
  BY <1>1 DEF In
<1> HIDE DEF N
<1>6. GoodModel(d, S, u)
  BY <1>1, <1>2, <1>3, <1>4, <1>5, OneChanged
<1>7. QED
  BY <1>6 DEF d, S, u

\* setActiveChannel.
LEMMA LookStep ==
  ASSUME RInv, NEW b \in DOMAIN buffers, Look(b)
  PROVE  RInv' /\ ClosedStep /\ QuietStep
<1> DEFINE c == buffers[b]
           e == [c EXCEPT !.unread = 0, !.firstUnread = 0]
           Shape == [messages : Seq(Message), reactions : SUBSET Int, firstUnread : Nat, unread : Nat]
<1>1. GoodBuffer(c, b, Come, Counted)
  BY BuffersAre
<1>2. c \in Shape
  BY <1>1 DEF GoodBuffer
<1>3. e \in Shape /\ e.messages = c.messages /\ e.reactions = c.reactions
      /\ e.firstUnread = 0 /\ e.unread = 0
  BY <1>2
<1>4. buffers' = [buffers EXCEPT ![b] = e]
  BY DEF Look
<1> HIDE DEF e, c
<1>5. DOMAIN buffers' = DOMAIN buffers /\ buffers'[b] = e
      /\ \A x \in DOMAIN buffers \ {b} : buffers'[x] = buffers[x]
  BY <1>4
<1>6. GoodBuffer(e, b, Come, Counted)
  <2>1. /\ GoodList(c.messages, b, Come) /\ Len(c.messages) =< Cap /\ Len(c.messages) \in Nat
        /\ c.reactions \subseteq Held(c.messages)
    BY <1>1, BufferParts
  <2>2. Counted \in Nat
    BY BuffersAre
  <2>3. QED
    BY <1>3, <2>1, <2>2 DEF GoodBuffer
<1>7. UNCHANGED <<caps, open, batches, said, listed, page, posted>> /\ active' = b
      /\ b \in listed \cup {Server}
  BY DEF Look
<1>8. e.messages = buffers[b].messages
  BY <1>3 DEF c
<1>9. GoodModel(Model', Come, Counted)
  BY <1>5, <1>6, <1>7, <1>8, InPlace
<1>10. active' \in {Server} \cup listed' /\ posted' \in 0..MaxPosted
  BY <1>7 DEF RInv
<1>11. RInv'
  BY <1>7, <1>9, <1>10, ModelOnly
<1>12. ClosedStep
  BY <1>5, LeavesPalCloses
<1>13. \A x \in DOMAIN buffers' : buffers'[x].unread \in {0, Badges(x)}
  BY <1>3, <1>5 DEF Badges
<1>14. QED
  BY <1>11, <1>12, <1>13, QuietFewer

\* A reaction.
LEMMA TagMsgStep ==
  ASSUME RInv, NEW id, NEW from, NEW to, TagMsg(id, from, to)
  PROVE  RInv' /\ ClosedStep /\ QuietStep
<1> DEFINE b == BufferOf(from, to)
           c == buffers[b]
           R == c.reactions \cup {id}
           e == [c EXCEPT !.reactions = R]
           Shape == [messages : Seq(Message), reactions : SUBSET Int, firstUnread : Nat, unread : Nat]
<1>1. b \in DOMAIN buffers /\ id \in Held(c.messages) /\ buffers' = [buffers EXCEPT ![b] = e]
  BY DEF TagMsg, ReactReceived
<1>2. UNCHANGED <<caps, open, batches, said, listed, page, posted, active>>
  BY DEF TagMsg
<1> HIDE DEF b
<1>3. GoodBuffer(c, b, Come, Counted)
  BY <1>1, BuffersAre
<1>4. c \in Shape
  BY <1>3 DEF GoodBuffer
<1>5. /\ GoodList(c.messages, b, Come) /\ Len(c.messages) =< Cap /\ c.firstUnread \in 0..Len(c.messages)
      /\ c.reactions \subseteq Held(c.messages) /\ c.unread \in 0..Counted
      /\ c.messages \in Seq(Message)
  BY <1>3 DEF GoodBuffer, GoodList
<1>6. R \subseteq Held(c.messages)
  BY <1>1, <1>5
<1>7. R \in SUBSET Int
  <2>1. \A i \in 1..Len(c.messages) : c.messages[i].at \in Int
    BY <1>5, MessagesAre DEF Message
  <2>2. \A t \in R : \E i \in 1..Len(c.messages) : c.messages[i].at = t
    BY <1>5, <1>6, HeldBy
  <2> HIDE DEF R
  <2>3. QED
    BY <2>1, <2>2
<1> HIDE DEF R
<1>8. e \in Shape /\ e.messages = c.messages /\ e.reactions = R
      /\ e.firstUnread = c.firstUnread /\ e.unread = c.unread
  BY <1>4, <1>7
<1> HIDE DEF e, c
<1>9. DOMAIN buffers' = DOMAIN buffers /\ buffers'[b] = e
      /\ \A x \in DOMAIN buffers \ {b} : buffers'[x] = buffers[x]
  BY <1>1
<1>10. GoodBuffer(e, b, Come, Counted)
  BY <1>5, <1>6, <1>8 DEF GoodBuffer
<1>11. e.messages = buffers[b].messages
  BY <1>8 DEF c
<1>12. GoodModel(Model', Come, Counted)
  BY <1>1, <1>2, <1>9, <1>10, <1>11, InPlace
<1>13. active' \in {Server} \cup listed' /\ posted' \in 0..MaxPosted
  BY <1>2 DEF RInv
<1>14. RInv'
  BY <1>2, <1>12, <1>13, ModelOnly
<1>15. ClosedStep
  BY <1>9, LeavesPalCloses
<1>16. \A x \in DOMAIN buffers' : buffers'[x].unread \in {0, Badges(x)}
  BY <1>8, <1>9 DEF Badges, c
<1>17. QED
  BY <1>14, <1>15, <1>16, QuietFewer

\* closeBuffer.
LEMMA CloseQueryStep ==
  ASSUME RInv, CloseQuery
  PROVE  RInv' /\ ClosedStep /\ QuietStep
<1>1. /\ DOMAIN buffers' = DOMAIN buffers \ {Pal}
      /\ \A b \in DOMAIN buffers' : buffers'[b] = buffers[b]
      /\ listed' = listed \ {Pal} /\ active' = IF active = Pal THEN Server ELSE active
      /\ UNCHANGED <<caps, open, batches, said, page, posted>>
  BY DEF CloseQuery
<1> DEFINE d == Model'
<1>2. /\ DOMAIN d = {"buffers", "listed", "page", "seeded"} /\ d.buffers = buffers' /\ d.listed = listed'
      /\ d.page = page
  BY <1>1 DEF Model
<1>3. Awaited(d) = Awaited(Model)
  BY <1>2, ModelIs DEF Awaited
<1> HIDE DEF d
<1>4. GoodModel(d, Come, Counted)
  <2>1. {Server, Chan} \subseteq DOMAIN d.buffers /\ DOMAIN d.buffers \subseteq Names
        /\ d.listed \subseteq DOMAIN d.buffers
    BY <1>1, <1>2, BuffersAre, NameAssumption
  <2>2. \A b \in DOMAIN d.buffers : b \in DOMAIN Model.buffers /\ d.buffers[b] = Model.buffers[b]
    BY <1>1, <1>2, ModelIs
  <2>3. QED
    BY <1>2, <1>3, <2>1, <2>2, BuffersAre DEF GoodModel
<1>5. active' \in {Server} \cup listed' /\ posted' \in 0..MaxPosted
  BY <1>1 DEF RInv
<1>6. RInv'
  BY <1>1, <1>4, <1>5, ModelOnly DEF d
<1>7. ClosedStep
  BY <1>1, LeavesPalCloses
<1>8. \A b \in DOMAIN buffers' : buffers'[b].unread \in {0, Badges(b)}
  BY <1>1 DEF Badges
<1>9. QED
  BY <1>6, <1>7, <1>8, QuietFewer

\* A page asked for, or given up.
LEMMA RequestStep ==
  ASSUME RInv, RequestOlder \/ RequestTimesOut
  PROVE  RInv' /\ ClosedStep /\ QuietStep
<1>1. UNCHANGED <<caps, open, batches, said, buffers, listed, active, posted>> /\ page' \in {<<>>, Nothing}
  BY DEF RequestOlder, RequestTimesOut
<1> DEFINE d == Model'
           m == Model
           S == Come
           u == Counted
           N == {}
<1>2. /\ DOMAIN d = DOMAIN m /\ d.buffers = m.buffers /\ d.listed = m.listed /\ d.page = page'
  BY <1>1 DEF Model
<1>3. GoodModel(m, S, u) /\ u \in Nat
  BY BuffersAre
<1> HIDE DEF d, m, S, u
<1>4. Awaited(d) = <<>>
  BY <1>1, <1>2 DEF Awaited
<1>5. /\ GoodList(Awaited(d), Chan, S) /\ S \subseteq S /\ u =< u /\ N \cap S = {}
      /\ AllNumbers(Awaited(d)) \subseteq AllNumbers(Awaited(m)) \cup N
  BY <1>3, <1>4, NoneGood
<1> HIDE DEF N
<1>6. GoodModel(d, S, u)
  BY <1>2, <1>3, <1>5, PageChanged
<1>7. active' \in {Server} \cup listed' /\ posted' \in 0..MaxPosted
  BY <1>1 DEF RInv
<1>8. RInv'
  BY <1>1, <1>6, <1>7, ModelOnly DEF d, S, u
<1>9. ClosedStep
  BY <1>1, LeavesPalCloses
<1>10. \A b \in DOMAIN buffers' : buffers'[b].unread \in {0, Badges(b)}
  BY <1>1 DEF Badges
<1>11. QED
  BY <1>8, <1>9, <1>10, QuietFewer

\* resetSessionState.
LEMMA ReconnectStep ==
  ASSUME RInv, Reconnect
  PROVE  RInv' /\ ClosedStep /\ QuietStep
<1>1. /\ open' = [r \in Refs |-> Nothing] /\ batches' = [r \in Refs |-> Nothing]
      /\ UNCHANGED model /\ UNCHANGED <<caps, active, said, posted>>
  BY DEF Reconnect
<1>2. Opened(open)' = {} /\ Opened(batches)' = {}
  BY <1>1 DEF Opened
<1>3. Pending' = {} /\ Kept' = 0
  BY <1>2 DEF Pending, Kept
<1>4. said \in Nat /\ Kept \in {0, 1} /\ Counted \in Nat /\ Counted =< said
  BY CountedIs
<1>5. Come \subseteq Come' /\ Counted' = said
  BY <1>1, <1>3, <1>4 DEF Come, Counted
<1>6. GoodModel(Model', Come, Counted) /\ ClosedStep /\ QuietStep
  BY <1>1, SameModel
<1>7. GoodModel(Model', Come', Counted')
  <2> DEFINE d == Model'
             T == Come'
             v == Counted'
  <2>1. GoodModel(d, Come, Counted) /\ Come \subseteq T /\ v \in Nat /\ Counted =< v
    BY <1>4, <1>5, <1>6
  <2> HIDE DEF d, T, v
  <2>2. GoodModel(d, T, v)
    BY <1>4, <2>1, ModelMore
  <2>3. QED
    BY <2>2 DEF d, T, v
<1>8. GoodOpen'
  BY <1>1, <1>2 DEF GoodOpen
<1>9. GoodBatches'
  <2>1. IsFiniteSet({}) /\ Cardinality({}) = 0
    BY FS_EmptySet
  <2>2. QED
    BY <1>1, <1>2, <2>1, LimitsAre DEF GoodBatches
<1>10. RInv'
  BY <1>1, <1>7, <1>8, <1>9 DEF RInv, model
<1>11. QED
  BY <1>6, <1>10

\* From here on the lines handed to the model are those said so far.
LEMMA HandedOver ==
  ASSUME RInv, UNCHANGED <<caps, open, batches, active, posted>>, said' = said + 1, said < MaxSaid,
         NEW d, GoodModel(d, Come', Counted'), Become(d), listed \subseteq d.listed
  PROVE  RInv'
<1>1. GoodModel(Model', Come', Counted') /\ listed' = d.listed
  <2> DEFINE T == Come'
             v == Counted'
  <2>1. GoodModel(d, T, v)
    OBVIOUS
  <2> HIDE DEF T, v
  <2>2. GoodModel(Model', T, v)
    BY <2>1, BecomeGives
  <2>3. QED
    BY <2>2 DEF Become, T, v
<1>2. GoodOpen' /\ GoodBatches'
  BY SaidMore
<1>3. said' \in 0..MaxSaid
  BY CountedIs, LimitsAre
<1>4. QED
  BY <1>1, <1>2, <1>3 DEF RInv

\* sendMessage, with echo-message and without.
LEMMA SendMessageStep ==
  ASSUME RInv, NEW to \in {Chan, Pal}, SendMessage(to)
  PROVE  RInv' /\ ClosedStep /\ QuietStep
<1> DEFINE opened == IF to = Chan THEN Model ELSE OpenPM(Model, to)
           S == Come
           u == Counted
           m == Model
           line == Made(Spoken("privmsg", Me, to, said + 1, TRUE), <<said + 1>>, FALSE)
           d == Post(opened, to, line)
<1>1. GoodModel(m, S, u) /\ u \in Nat /\ to \in Names /\ said \in Nat /\ Me \in Names
  BY BuffersAre, CountedIs DEF Names
<1>2. UNCHANGED <<caps, open, batches, active, posted>> /\ said < MaxSaid
  BY DEF SendMessage
<1>3. CASE "echo-message" \in caps
  <2>1. Become(opened) /\ UNCHANGED said
    BY <1>3 DEF SendMessage
  <2>2. "chathistory" \in caps
    BY <1>3 DEF RInv
  <2>3. /\ GoodModel(opened, S, u) /\ m.listed \subseteq opened.listed
        /\ \A c \in DOMAIN opened.buffers : c \in DOMAIN m.buffers => opened.buffers[c] = m.buffers[c]
        /\ \A c \in DOMAIN opened.buffers : c \notin DOMAIN m.buffers => opened.buffers[c] = NewBuffer
    <3>1. CASE to = Chan
      BY <1>1, <3>1
    <3>2. CASE to # Chan
      <4>1. opened = OpenPM(m, to)
        BY <3>2
      <4> HIDE DEF opened, m, S, u
      <4>2. /\ GoodModel(opened, S, u) /\ m.listed \subseteq opened.listed
            /\ DOMAIN opened.buffers = DOMAIN m.buffers \cup {to}
            /\ \A c \in DOMAIN m.buffers \ {to} : opened.buffers[c] = m.buffers[c]
            /\ to \in DOMAIN m.buffers => opened = m
            /\ caps \cap {"chathistory", "znc"} # {} /\ to \notin DOMAIN m.buffers => opened.buffers[to] = NewBuffer
        BY <1>1, <4>1, OpenPMGood
      <4>3. QED
        BY <2>2, <4>2
    <3>3. QED
      BY <3>1, <3>2
  <2> HIDE DEF opened, S, u
  <2>4. GoodModel(Model', S, u) /\ Model'.buffers = opened.buffers /\ Model'.listed = opened.listed
    BY <2>1, <2>3, BecomeGives
  <2>5. active' \in {Server} \cup listed' /\ posted' \in 0..MaxPosted /\ buffers' = opened.buffers
    BY <1>2, <2>1, <2>3, ModelIs DEF Become, RInv
  <2>6. RInv'
    BY <1>2, <2>1, <2>4, <2>5, ModelOnly DEF S, u
  <2>7. ClosedStep
    <3>1. Pal \in DOMAIN buffers' \ DOMAIN buffers => buffers'[Pal].messages = <<>>
      BY <2>3, <2>5, ModelIs DEF NewBuffer
    <3>2. QED
      BY <3>1 DEF ClosedStep
  <2>8. \A b \in DOMAIN buffers' : buffers'[b].unread \in {0, Badges(b)}
    BY <2>3, <2>5, ModelIs DEF NewBuffer, Badges
  <2>9. QED
    BY <2>6, <2>7, <2>8, QuietFewer
<1>4. CASE "echo-message" \notin caps
  <2>1. said' = said + 1 /\ Become(d)
    BY <1>4 DEF SendMessage
  <2> DEFINE T == Come'
             v == Counted'
             parts == <<said + 1>>
             l == Spoken("privmsg", Me, to, said + 1, TRUE)
  <2>2. T = S \cup {said + 1} /\ said + 1 \notin S /\ v = u + 1
    BY <1>2, <2>1, SaidMore
  <2>3. parts \in Seq(Nat) /\ parts # <<>> /\ PartsIn(parts) = {said + 1} /\ Rising(parts)
    BY <1>1, OnePart
  <2>4. /\ l.cmd = "privmsg" /\ l.from = Me /\ l.to = to /\ l.new = TRUE
        /\ l.cmd \in Commands /\ l.from \in Names /\ l.to \in Names /\ l.new \in BOOLEAN
        /\ l.at \in Int
    BY <1>1 DEF Spoken, Commands
  <2> HIDE DEF T, v, S, u, m, parts, l
  <2>5. PartsIn(parts) \subseteq T /\ S \subseteq T /\ u =< v /\ v \in Nat
    BY <1>1, <2>2, <2>3
  <2> DEFINE made == Made(l, parts, FALSE)
  <2>6. /\ made \in Message /\ Whole(made, T) /\ Numbers(made) = PartsIn(parts)
        /\ made.parts = parts /\ made.past = FALSE /\ made.cmd = l.cmd
        /\ made.from = l.from /\ made.to = l.to /\ made.new = l.new
    <3>1. FALSE \in BOOLEAN
      OBVIOUS
    <3>2. made \in Message /\ Whole(made, T) /\ Numbers(made) = PartsIn(parts)
      BY <2>3, <2>4, <2>5, <3>1, MadeGood
    <3>3. /\ made.parts = parts /\ made.past = FALSE /\ made.cmd = l.cmd
          /\ made.from = l.from /\ made.to = l.to /\ made.new = l.new
      BY DEF Made
    <3>4. QED
      BY <3>2, <3>3
  <2>7. made = line
    BY DEF l, parts
  <2> HIDE DEF made, line
  <2>8. Placed(made, to) /\ Numbers(made) \cap S = {} /\ made.parts # <<>> /\ (~made.past => u + 1 =< v)
        /\ ~made.past /\ made.new
    <3>1. to \in Place(made)
      BY <2>4, <2>6 DEF Place
    <3>2. QED
      BY <1>1, <2>2, <2>3, <2>4, <2>6, <3>1 DEF Placed
  <2>9. opened = m \/ (opened = OpenPM(m, to) /\ ~made.past)
    BY <2>8 DEF m
  <2> HIDE DEF opened, d
  <2> DEFINE r == Post(opened, to, made)
  <2>10. GoodModel(r, T, v) /\ HandledIn(r, m, made.past, made.new)
    BY <1>1, <2>5, <2>6, <2>8, <2>9, PostedGood
  <2>11. r = d
    BY <2>7 DEF d
  <2> HIDE DEF r
  <2>12. GoodModel(d, T, v) /\ m.listed \subseteq d.listed /\ LeavesPal(d, m) /\ BadgesNew(d, m)
    BY <2>8, <2>10, <2>11 DEF HandledIn
  <2>13. listed \subseteq d.listed
    BY <2>12, ModelIs DEF m
  <2>14. RInv'
    BY <1>2, <2>1, <2>12, <2>13, HandedOver DEF T, v
  <2>15. Model'.buffers = d.buffers
    BY <2>1 DEF Become, Model
  <2>16. LeavesPal(Model', Model) /\ BadgesNew(Model', Model)
    BY <2>12, <2>15 DEF LeavesPal, BadgesNew, UnreadIn, m
  <2>17. QED
    BY <2>14, <2>16, LeavesPalCloses, BadgesNewQuiet
<1>5. QED
  BY <1>3, <1>4

\* BATCH +ref: one more is open at the server.
LEMMA OpenMore ==
  ASSUME RInv, NEW r \in Refs, NEW kind \in Kinds, NEW talk \in Talks, NEW within \in Refs \cup {Nothing},
         BatchBegins(r, kind, talk[1], talk[2], within)
  PROVE  GoodOpen' /\ r \notin Opened(open) /\ r \notin Opened(batches)
         /\ \A q \in Opened(open) : open'[q] = open[q] /\ q # r
<1> DEFINE o == [kind |-> kind, from |-> talk[1], to |-> talk[2], within |-> within]
<1>1. /\ open[r] = Nothing /\ Sends(kind) /\ \A q \in Opened(open) : open[q].kind # kind
      /\ open' = [open EXCEPT ![r] = o] /\ caps' = caps
  BY DEF BatchBegins
<1>2. GoodOpen /\ GoodBatches
  BY DEF RInv
<1>3. talk[1] \in {Pal, Me} /\ talk[2] \in {Chan, Pal, Me} /\ <<talk[1], talk[2]>> = talk
  BY DEF Talks
<1>4. o \in OpenBatch /\ o.kind = kind /\ <<o.from, o.to>> \in Talks
  BY <1>3 DEF OpenBatch
<1> HIDE DEF o
<1>5. o # Nothing
  BY <1>4, NothingAssumption
<1>6. DOMAIN open' = Refs /\ open'[r] = o /\ \A q \in Refs \ {r} : open'[q] = open[q]
  BY <1>1, <1>2 DEF GoodOpen
<1>7. Opened(open)' = Opened(open) \cup {r} /\ r \notin Opened(open)
  BY <1>1, <1>5, <1>6 DEF Opened
<1>8. r \notin Opened(batches)
  BY <1>1, <1>2 DEF GoodBatches
<1>9. \A q \in Opened(open) : open'[q] = open[q] /\ q # r /\ q \in Refs
  BY <1>6, <1>7 DEF Opened
<1>10. \A k : Sends(k)' = Sends(k)
  BY <1>1 DEF Sends
<1>11. \A q \in Opened(open)' : /\ open'[q] \in OpenBatch /\ <<open'[q].from, open'[q].to>> \in Talks
                                /\ Sends(open'[q].kind)
  BY <1>1, <1>2, <1>4, <1>6, <1>7, <1>9 DEF GoodOpen
<1>12. \A q, p \in Opened(open)' : open'[q].kind = open'[p].kind => q = p
  BY <1>1, <1>2, <1>4, <1>6, <1>7, <1>9 DEF GoodOpen
<1>13. GoodOpen'
  BY <1>6, <1>10, <1>11, <1>12 DEF GoodOpen
<1>14. QED
  BY <1>7, <1>8, <1>9, <1>13

\* BATCH +ref, known or refused.
LEMMA BatchBeginsStep ==
  ASSUME RInv, NEW r \in Refs, NEW kind \in Kinds, NEW talk \in Talks, NEW within \in Refs \cup {Nothing},
         BatchBegins(r, kind, talk[1], talk[2], within)
  PROVE  RInv' /\ ClosedStep /\ QuietStep
<1>1. /\ GoodOpen' /\ r \notin Opened(open) /\ r \notin Opened(batches)
      /\ \A q \in Opened(open) : open'[q] = open[q] /\ q # r
  BY OpenMore
<1>2. UNCHANGED <<caps, active, origin, said>> /\ open'[r] = [kind |-> kind, from |-> talk[1], to |-> talk[2], within |-> within]
  BY DEF BatchBegins, RInv, GoodOpen
<1>3. GoodBatches /\ said \in Nat
  BY CountedIs DEF RInv
<1>4. \A q \in Opened(batches) : q \in Opened(open)
  BY <1>3 DEF GoodBatches, Opened
<1>5. CASE Cardinality(Opened(batches)) >= MaxOpen
  <2>1. /\ posted < MaxPosted /\ posted' = posted + 1 /\ Become(Post(Model, active, Own))
        /\ UNCHANGED batches
    BY <1>5 DEF BatchBegins
  <2>2. PostOwn(active)
    BY <2>1 DEF PostOwn
  <2> DEFINE d == Post(Model, active, Own)
  <2>3. GoodModel(d, Come, Counted) /\ PostedIn(d, Model, active, Own) /\ active \in DOMAIN buffers
    BY ActiveIs, OwnPosted
  <2>4. Become(d)
    BY <2>1
  <2> HIDE DEF d
  <2>5. GoodModel(Model', Come, Counted) /\ Model'.buffers = d.buffers /\ Model'.listed = d.listed
    BY <2>3, <2>4, BecomeGives
  <2>6. d.listed = listed /\ listed' = d.listed /\ buffers' = d.buffers
    BY <2>3, <2>4, ModelIs DEF PostedIn, Become
  <2>7. Opened(batches)' = Opened(batches)
    BY <2>1 DEF Opened
  <2>8. Come' = Come /\ Counted' = Counted
    BY <1>2, <2>1, <2>7 DEF Come, Counted, Pending, Kept
  <2>9. GoodBatches'
    <3>1. \A q \in Opened(batches) : batches'[q] = batches[q] /\ open'[q] = open[q]
      BY <1>1, <1>4, <2>1
    <3>2. QED
      BY <1>2, <1>3, <2>1, <2>7, <3>1 DEF GoodBatches
  <2>10. posted' \in 0..MaxPosted
    BY <2>1, LimitsAre DEF RInv
  <2>11. RInv'
    BY <1>1, <1>2, <2>5, <2>6, <2>8, <2>9, <2>10 DEF RInv
  <2>12. DOMAIN buffers' = DOMAIN buffers
    BY <2>3, <2>6, ModelIs DEF PostedIn
  <2>13. BadgesNew(Model', Model)
    BY <2>3, <2>5, OwnGood DEF PostedIn, BadgesNew, UnreadIn, LatestIs
  <2>14. QED
    BY <2>11, <2>12, <2>13, LeavesPalCloses, BadgesNewQuiet
<1>6. CASE ~(Cardinality(Opened(batches)) >= MaxOpen)
  <2> DEFINE none == <<>>
             b == [kind |-> kind, to |-> talk[2], msgs |-> none]
  <2>1. batches' = [batches EXCEPT ![r] = b] /\ UNCHANGED <<model, posted>>
    BY <1>6 DEF BatchBegins
  <2>2. none \in Seq(SpokenLine(said)) /\ Len(none) = 0 /\ 1..0 = {}
    OBVIOUS
  <2>3. DOMAIN b = {"kind", "to", "msgs"} /\ b.kind = kind /\ b.to = talk[2] /\ b.msgs = none
    OBVIOUS
  <2> HIDE DEF b, none
  <2>4. DOMAIN batches' = Refs /\ batches'[r] = b /\ \A q \in Refs \ {r} : batches'[q] = batches[q]
    BY <1>3, <2>1 DEF GoodBatches
  <2>5. Opened(batches)' \subseteq Opened(batches) \cup {r} /\ Opened(batches) \subseteq Opened(batches)'
        /\ \A q \in Opened(batches) : batches'[q] = batches[q] /\ q # r
    BY <1>1, <2>4 DEF Opened
  <2>6. Times(b.msgs) = {}
    BY <2>2, <2>3 DEF Times
  <2>7. Pending' = Pending
    <3>1. \A q \in Opened(batches)' : q = r \/ q \in Opened(batches)
      BY <2>5
    <3>2. \A q \in Opened(batches) : Times(batches'[q].msgs) = Times(batches[q].msgs)
      BY <2>5
    <3>3. Times(batches'[r].msgs) = {}
      BY <2>4, <2>6
    <3>4. Pending' = UNION {Times(batches'[q].msgs) : q \in Opened(batches)'}
      BY DEF Pending, Times
    <3>5. QED
      BY <2>5, <3>1, <3>2, <3>3, <3>4 DEF Pending
  <2>8. Kept' = Kept
    <3>1. b.msgs = <<>>
      BY <2>3 DEF none
    <3>2. (\E q \in Opened(batches)' : batches'[q].kind = "multiline" /\ batches'[q].msgs # <<>>)
          <=> (\E q \in Opened(batches) : batches[q].kind = "multiline" /\ batches[q].msgs # <<>>)
      BY <2>4, <2>5, <3>1
    <3>3. QED
      BY <3>2 DEF Kept
  <2>9. Come' = Come /\ Counted' = Counted
    BY <1>2, <2>7, <2>8 DEF Come, Counted
  <2>10. GoodModel(Model', Come, Counted) /\ ClosedStep /\ QuietStep
    BY <2>1, SameModel
  <2>11. GoodBatches'
    <3>1. GoodBatch(b, open'[r], said)
      BY <1>2, <2>2, <2>3, LimitsAre DEF GoodBatch
    <3>2. open'[r] # Nothing
      BY <1>1, <1>2, NothingAssumption DEF GoodOpen, Opened, OpenBatch, Talks
    <3>3. \A q \in Opened(batches)' : open'[q] # Nothing /\ GoodBatch(batches'[q], open'[q], said)
      BY <1>1, <1>3, <1>4, <2>4, <2>5, <3>1, <3>2 DEF GoodBatches
    <3>4. \A p, q \in Opened(batches)' : p # q => Times(batches'[p].msgs) \cap Times(batches'[q].msgs) = {}
      BY <1>3, <2>4, <2>5, <2>6 DEF GoodBatches
    <3>5. IsFiniteSet(Opened(batches)') /\ Cardinality(Opened(batches)') =< MaxOpen
      <4>1. IsFiniteSet(Opened(batches)) /\ Cardinality(Opened(batches)) \in Nat
        BY <1>3, FS_CardinalityType DEF GoodBatches
      <4>2. IsFiniteSet(Opened(batches) \cup {r})
            /\ Cardinality(Opened(batches) \cup {r}) = Cardinality(Opened(batches)) + 1
        BY <1>1, <4>1, FS_AddElement
      <4>3. Cardinality(Opened(batches)) + 1 =< MaxOpen
        BY <1>6, <4>1, LimitsAre
      <4>4. Opened(batches)' \in {Opened(batches), Opened(batches) \cup {r}}
        BY <2>5
      <4>5. CASE Opened(batches)' = Opened(batches)
        <5>1. Cardinality(Opened(batches)) =< MaxOpen
          BY <1>3 DEF GoodBatches
        <5>2. QED
          BY <4>1, <4>5, <5>1
      <4>6. CASE Opened(batches)' = Opened(batches) \cup {r}
        BY <4>2, <4>3, <4>6
      <4>7. QED
        BY <4>4, <4>5, <4>6
    <3>6. QED
      BY <1>2, <2>4, <3>3, <3>4, <3>5 DEF GoodBatches, Times
  <2>12. active' \in {Server} \cup listed' /\ said' \in 0..MaxSaid /\ posted' \in 0..MaxPosted
    BY <1>2, <2>1 DEF RInv, model
  <2>13. RInv'
    BY <1>1, <1>2, <2>9, <2>10, <2>11, <2>12 DEF RInv
  <2>14. QED
    BY <2>10, <2>13
<1>7. QED
  BY <1>5, <1>6

\* A line as it is said.
LEMMA SpokenIs ==
  ASSUME RInv, NEW r \in Refs \cup {Nothing}, NEW s \in Speech, NEW at \in Nat
  PROVE  LET l == Spoken(s[1], s[2][1], s[2][2], at, SaidNow(r))
         IN  /\ l \in SpokenLine(said + 1) /\ l.nr = said + 1 /\ l.new = SaidNow(r)
             /\ l.cmd = s[1] /\ l.from = s[2][1] /\ l.to = s[2][2]
<1> DEFINE l == Spoken(s[1], s[2][1], s[2][2], at, SaidNow(r))
<1>1. /\ l.nr = said + 1 /\ l.new = SaidNow(r)
      /\ l.cmd = s[1] /\ l.from = s[2][1] /\ l.to = s[2][2]
  BY DEF Spoken
<1>2. SaidNow(r) \in BOOLEAN
  BY DEF SaidNow
<1>3. s[1] \in Commands /\ s[2][1] \in Names /\ s[2][2] \in Names /\ <<s[1], <<s[2][1], s[2][2]>>>> \in Speech
  BY DEF Speech, Talks, Commands, Names
<1>4. said + 1 \in 1..said + 1
  BY CountedIs
<1>5. l \in [cmd : Commands, from : Names, to : Names, nr : 1..said + 1, at : Nat, new : BOOLEAN]
  BY <1>2, <1>3, <1>4 DEF Spoken
<1> HIDE DEF l
<1>6. l \in SpokenLine(said + 1)
  BY <1>1, <1>3, <1>5 DEF SpokenLine
<1>7. QED
  BY <1>1, <1>6 DEF l

\* A line handled as it comes.
LEMMA HearLive ==
  ASSUME RInv, NEW r \in Refs \cup {Nothing}, NEW l \in SpokenLine(said + 1), l.nr = said + 1,
         Become(Handled(Model, l, <<l.nr>>, FALSE)), said < MaxSaid, said' = said + 1,
         UNCHANGED <<caps, open, batches, active, origin, posted>>
  PROVE  RInv' /\ ClosedStep /\ (l.new => QuietStep)
<1> DEFINE S == Come
           T == Come'
           u == Counted
           v == Counted'
           m == Model
           n == said + 1
           parts == <<l.nr>>
           d == Handled(m, l, parts, FALSE)
<1>1. T = S \cup {said + 1} /\ said + 1 \notin S /\ v = u + 1
  BY SaidMore
<1>2. GoodModel(m, S, u) /\ u \in Nat /\ said \in Nat
  BY BuffersAre, CountedIs
<1>3. parts \in Seq(Nat) /\ parts # <<>> /\ PartsIn(parts) = {said + 1} /\ Rising(parts)
  BY <1>2, OnePart
<1>4. Become(d) /\ l \in SpokenLine(n)
  OBVIOUS
<1> HIDE DEF S, T, u, v, m, n, parts
<1>5. PartsIn(parts) \subseteq T /\ PartsIn(parts) \cap S = {} /\ S \subseteq T /\ u =< v /\ v \in Nat
      /\ (~FALSE => u + 1 =< v) /\ FALSE \in BOOLEAN
  BY <1>1, <1>2, <1>3
<1>6. GoodModel(d, T, v) /\ HandledIn(d, m, FALSE, l.new)
  BY <1>2, <1>3, <1>4, <1>5, HandledGood
<1> HIDE DEF d
<1>7. listed \subseteq d.listed /\ LeavesPal(d, m) /\ (l.new => BadgesNew(d, m))
  BY <1>6, ModelIs DEF HandledIn, m
<1>8. RInv'
  BY <1>4, <1>6, <1>7, HandedOver DEF T, v
<1>9. Model'.buffers = d.buffers
  BY <1>4 DEF Become, Model
<1>10. LeavesPal(Model', Model) /\ (l.new => BadgesNew(Model', Model))
  BY <1>7, <1>9 DEF LeavesPal, BadgesNew, UnreadIn, m
<1>11. QED
  BY <1>8, <1>10, LeavesPalCloses, BadgesNewQuiet

\* A line of a batch that is full: the client says so, and the line is lost.
LEMMA HearLost ==
  ASSUME RInv, Become(Post(Model, active, Own)), said < MaxSaid, said' = said + 1,
         UNCHANGED <<caps, open, batches, active, origin, posted>>
  PROVE  RInv' /\ ClosedStep /\ QuietStep
<1> DEFINE d == Post(Model, active, Own)
           T == Come'
           v == Counted'
<1>1. Come \subseteq T /\ v = Counted + 1 /\ Counted \in Nat
  BY SaidMore, CountedIs
<1>2. GoodModel(d, Come, Counted) /\ PostedIn(d, Model, active, Own) /\ active \in DOMAIN buffers
  BY ActiveIs, OwnPosted
<1>3. Become(d)
  OBVIOUS
<1> HIDE DEF d, T, v
<1>4. Counted =< v /\ v \in Nat
  BY <1>1
<1>5. GoodModel(d, T, v)
  BY <1>1, <1>2, <1>4, ModelMore
<1>6. d.listed = listed /\ Model'.buffers = d.buffers /\ buffers' = d.buffers
  BY <1>2, <1>3, ModelIs DEF PostedIn, Become, Model
<1>7. RInv'
  BY <1>3, <1>5, <1>6, HandedOver DEF T, v
<1>8. DOMAIN buffers' = DOMAIN buffers
  BY <1>2, <1>6, ModelIs DEF PostedIn
<1>9. BadgesNew(Model', Model)
  BY <1>2, <1>6, OwnGood DEF PostedIn, BadgesNew, UnreadIn, LatestIs
<1>10. QED
  BY <1>7, <1>8, <1>9, LeavesPalCloses, BadgesNewQuiet

\* A line kept for its batch.
LEMMA HearKept ==
  ASSUME RInv, NEW r \in Opened(batches), NEW l \in SpokenLine(said + 1), l.nr = said + 1,
         open[r].kind = "multiline" => /\ l.cmd = "privmsg" /\ l.from = open[r].from /\ l.to = open[r].to
                                       /\ open[r].within = Nothing => l.new,
         Len(batches[r].msgs) < MaxBatch,
         batches' = [batches EXCEPT ![r].msgs = Append(@, l)], UNCHANGED model,
         said < MaxSaid, said' = said + 1, UNCHANGED <<caps, open, active, origin, posted>>
  PROVE  RInv' /\ ClosedStep /\ QuietStep
<1> DEFINE b == batches[r]
           s == b.msgs
           N == Len(s)
           t == Append(s, l)
           e == [b EXCEPT !.msgs = t]
<1>1. GoodBatches /\ GoodOpen /\ said \in Nat /\ r \in Refs
  BY CountedIs DEF RInv, Opened
<1>2. /\ GoodBatch(b, open[r], said) /\ s \in Seq(SpokenLine(said)) /\ N \in Nat
      /\ \A i \in 1..N : s[i] \in SpokenLine(said) /\ s[i].nr \in 1..said
      /\ Times(s) \subseteq 1..said
  BY <1>1, BatchIs
<1>3. DOMAIN b = {"kind", "to", "msgs"} /\ b.kind = open[r].kind /\ b.to = open[r].to
      /\ \A i, j \in 1..N : i < j => s[i].nr < s[j].nr
  BY <1>2 DEF GoodBatch
<1>4. e.kind = b.kind /\ e.to = b.to /\ e.msgs = t /\ DOMAIN e = {"kind", "to", "msgs"}
  BY <1>3
<1>5. t \in Seq(SpokenLine(said + 1)) /\ Len(t) = N + 1 /\ t[N + 1] = l /\ \A i \in 1..N : t[i] = s[i]
  <2>1. s \in Seq(SpokenLine(said + 1))
    BY <1>1, <1>2, SpokenMore
  <2> HIDE DEF s
  <2>2. QED
    BY <2>1, AppendProperties
<1>6. batches' = [batches EXCEPT ![r] = e]
  OBVIOUS
<1> HIDE DEF e, t
<1>7. DOMAIN batches' = Refs /\ batches'[r] = e /\ \A q \in Refs \ {r} : batches'[q] = batches[q]
  BY <1>1, <1>6 DEF GoodBatches
<1>8. Opened(batches)' \subseteq Opened(batches)
  BY <1>1, <1>7 DEF Opened
<1>9. \A i \in 1..N + 1 : i \in 1..N \/ i = N + 1
  BY <1>2
<1>10. Times(t) = Times(s) \cup {said + 1}
  <2>1. N + 1 \in 1..N + 1 /\ \A i \in 1..N : i \in 1..N + 1
    BY <1>2
  <2> HIDE DEF s
  <2>2. QED
    BY <1>5, <1>9, <2>1 DEF Times
<1>11. GoodBatch(e, open[r], said + 1)
  <2>1. Len(t) =< MaxBatch
    BY <1>2, <1>5, LimitsAre
  <2>2. \A i, j \in 1..Len(t) : i < j => t[i].nr < t[j].nr
    <3> SUFFICES ASSUME NEW i \in 1..N + 1, NEW j \in 1..N + 1, i < j
                 PROVE  t[i].nr < t[j].nr
      BY <1>5
    <3>1. i \in 1..N /\ t[i] = s[i] /\ s[i].nr \in 1..said
      BY <1>2, <1>5
    <3>2. CASE j \in 1..N
      BY <1>3, <1>5, <3>1, <3>2
    <3>3. CASE j = N + 1
      BY <1>1, <1>5, <3>1, <3>3
    <3>4. QED
      BY <1>9, <3>2, <3>3
  <2>3. open[r].kind = "multiline" =>
          \A i \in 1..Len(t) : /\ t[i].cmd = "privmsg" /\ t[i].from = open[r].from
                               /\ t[i].to = open[r].to /\ (open[r].within = Nothing => t[i].new)
    <3> SUFFICES ASSUME open[r].kind = "multiline", NEW i \in 1..N + 1
                 PROVE  /\ t[i].cmd = "privmsg" /\ t[i].from = open[r].from
                        /\ t[i].to = open[r].to /\ (open[r].within = Nothing => t[i].new)
      BY <1>5
    <3>1. CASE i \in 1..N
      BY <1>2, <1>5, <3>1 DEF GoodBatch
    <3>2. CASE i = N + 1
      BY <1>5, <3>2
    <3>3. QED
      BY <1>9, <3>1, <3>2
  <2>4. QED
    BY <1>3, <1>4, <1>5, <2>1, <2>2, <2>3 DEF GoodBatch
<1> HIDE DEF s, b
<1>12. \A q \in Opened(batches)' : q # r => batches'[q] = batches[q] /\ q \in Opened(batches)
  BY <1>1, <1>7, <1>8 DEF Opened
<1>13. Pending' \subseteq Pending \cup {said + 1}
  <2>1. Pending' = UNION {Times(batches'[q].msgs) : q \in Opened(batches)'}
    BY DEF Pending, Times
  <2>2. \A q \in Opened(batches)' : Times(batches'[q].msgs) \subseteq Pending \cup {said + 1}
    <3>1. Times(s) \subseteq Pending
      BY DEF Pending, s, b
    <3>2. Times(batches'[r].msgs) = Times(s) \cup {said + 1}
      BY <1>4, <1>7, <1>10
    <3>3. \A q \in Opened(batches) : Times(batches[q].msgs) \subseteq Pending
      BY DEF Pending
    <3>4. QED
      BY <1>12, <3>1, <3>2, <3>3
  <2> DEFINE Sets == {Times(batches'[q].msgs) : q \in Opened(batches)'}
             X == Pending \cup {said + 1}
  <2>3. \A A \in Sets : A \subseteq X
    BY <2>2
  <2>4. Pending' = UNION Sets
    BY <2>1
  <2> HIDE DEF Sets, X
  <2>5. Pending' \subseteq X
    BY <2>3, <2>4
  <2>6. QED
    BY <2>5 DEF X
<1>14. Come \subseteq Come'
  BY <1>1, <1>13 DEF Come
<1>15. Counted \in Nat /\ Counted' \in Nat /\ Counted =< Counted'
  <2>1. Kept \in {0, 1} /\ Kept' \in {0, 1} /\ Counted \in Nat
    BY CountedIs DEF Kept
  <2>2. QED
    BY <1>1, <2>1 DEF Counted
<1>16. GoodModel(Model', Come, Counted) /\ ClosedStep /\ QuietStep
  BY SameModel
<1>17. GoodModel(Model', Come', Counted')
  <2> DEFINE d == Model'
             T == Come'
             v == Counted'
  <2>1. GoodModel(d, Come, Counted) /\ Come \subseteq T /\ Counted \in Nat /\ v \in Nat /\ Counted =< v
    BY <1>14, <1>15, <1>16
  <2> HIDE DEF d, T, v
  <2>2. GoodModel(d, T, v)
    BY <2>1, ModelMore
  <2>3. QED
    BY <2>2 DEF d, T, v
<1>18. GoodOpen'
  <2>1. Opened(open)' = Opened(open) /\ \A kind : Sends(kind)' = Sends(kind)
    BY DEF Opened, Sends
  <2>2. QED
    BY <1>1, <2>1 DEF GoodOpen
<1>19. GoodBatches'
  <2>1. \A q \in Opened(batches)' : open[q] # Nothing /\ GoodBatch(batches'[q], open[q], said + 1)
    <3>1. \A q \in Opened(batches) : open[q] # Nothing /\ GoodBatch(batches[q], open[q], said + 1)
      BY <1>1, GoodBatchMore DEF GoodBatches
    <3>2. QED
      BY <1>7, <1>8, <1>11, <1>12, <3>1
  <2>2. \A p, q \in Opened(batches)' : p # q => Times(batches'[p].msgs) \cap Times(batches'[q].msgs) = {}
    <3>1. \A p, q \in Opened(batches) : p # q => Times(batches[p].msgs) \cap Times(batches[q].msgs) = {}
      BY <1>1 DEF GoodBatches
    <3>2. \A q \in Opened(batches) : said + 1 \notin Times(batches[q].msgs)
      <4>1. \A q \in Opened(batches) : Times(batches[q].msgs) \subseteq 1..said
        BY <1>1, BatchIs
      <4>2. said + 1 \notin 1..said
        BY <1>1
      <4>3. QED
        BY <4>1, <4>2
    <3>3. Times(batches'[r].msgs) = Times(batches[r].msgs) \cup {said + 1}
      BY <1>4, <1>7, <1>10 DEF s, b
    <3>4. QED
      BY <1>8, <1>12, <3>1, <3>2, <3>3
  <2>3. IsFiniteSet(Opened(batches)') /\ Cardinality(Opened(batches)') =< MaxOpen
    <3>1. IsFiniteSet(Opened(batches)) /\ Cardinality(Opened(batches)) =< MaxOpen
      BY <1>1 DEF GoodBatches
    <3>2. IsFiniteSet(Opened(batches)') /\ Cardinality(Opened(batches)') =< Cardinality(Opened(batches))
      BY <1>8, <3>1, FS_Subset
    <3>3. Cardinality(Opened(batches)) \in Nat /\ Cardinality(Opened(batches)') \in Nat
      BY <3>1, <3>2, FS_CardinalityType
    <3>4. QED
      BY <3>1, <3>2, <3>3, LimitsAre
  <2>4. QED
    BY <1>7, <2>1, <2>2, <2>3 DEF GoodBatches, Times
<1>20. said' \in 0..MaxSaid /\ active' \in {Server} \cup listed' /\ posted' \in 0..MaxPosted
  BY <1>1, LimitsAre DEF RInv, model
<1>21. RInv'
  BY <1>17, <1>18, <1>19, <1>20 DEF RInv
<1>22. QED
  BY <1>16, <1>21

\* A line comes with the number it is said under, or that of one there is.
LEMMA SpeakHears ==
  ASSUME RInv, NEW r \in Refs \cup {Nothing}, NEW s \in Speech, Speak(r, s[1], s[2][1], s[2][2])
  PROVE  \E at \in Nat : Hear(r, Spoken(s[1], s[2][1], s[2][2], at, SaidNow(r)))
<1>1. SentBefore(s[1], s[2][1], s[2][2]) \subseteq Nat /\ said + 1 \in Nat
  BY CountedIs DEF SentBefore
<1>2. \E at \in {said + 1} \cup (IF SaidNow(r) THEN {} ELSE SentBefore(s[1], s[2][1], s[2][2])) :
        Hear(r, Spoken(s[1], s[2][1], s[2][2], at, SaidNow(r)))
  BY DEF Speak
<1>3. QED
  BY <1>1, <1>2

\* processLine.
LEMMA SpeakStep ==
  ASSUME RInv, NEW r \in Refs \cup {Nothing}, NEW s \in Speech, Speak(r, s[1], s[2][1], s[2][2])
  PROVE  RInv' /\ ClosedStep /\ (r = Nothing \/ batches[r] # Nothing => QuietStep)
<1>0. PICK at \in Nat : Hear(r, Spoken(s[1], s[2][1], s[2][2], at, SaidNow(r)))
  BY SpeakHears
<1> DEFINE l == Spoken(s[1], s[2][1], s[2][2], at, SaidNow(r))
<1>1. /\ l \in SpokenLine(said + 1) /\ l.nr = said + 1 /\ l.new = SaidNow(r)
      /\ l.cmd = s[1] /\ l.from = s[2][1] /\ l.to = s[2][2]
  BY SpokenIs
<1>2. /\ said < MaxSaid /\ Fits(r, s[1], s[2][1], s[2][2]) /\ Hear(r, l) /\ said' = said + 1
      /\ UNCHANGED <<caps, open, active, origin, posted>>
  BY <1>0 DEF Speak
<1> HIDE DEF l
<1>3. CASE r = Nothing \/ batches[r] = Nothing
  <2>1. Become(Handled(Model, l, <<l.nr>>, FALSE)) /\ UNCHANGED batches
    BY <1>2, <1>3 DEF Hear
  <2>2. RInv' /\ ClosedStep /\ (l.new => QuietStep)
    BY <1>1, <1>2, <2>1, HearLive
  <2>3. r = Nothing => l.new
    BY <1>1 DEF SaidNow
  <2>4. QED
    BY <1>3, <2>2, <2>3
<1>4. CASE r # Nothing /\ batches[r] # Nothing /\ Len(batches[r].msgs) >= MaxBatch
  <2>1. Become(Post(Model, active, Own)) /\ UNCHANGED batches
    BY <1>2, <1>4 DEF Hear
  <2>2. QED
    BY <1>2, <2>1, HearLost
<1>5. CASE r # Nothing /\ batches[r] # Nothing /\ ~(Len(batches[r].msgs) >= MaxBatch)
  <2>1. batches' = [batches EXCEPT ![r].msgs = Append(@, l)] /\ UNCHANGED model
    BY <1>2, <1>5 DEF Hear
  <2>2. r \in Opened(batches)
    BY <1>5 DEF Opened
  <2>3. Len(batches[r].msgs) < MaxBatch
    <3>1. Len(batches[r].msgs) \in Nat
      BY <2>2, BatchIs, CountedIs DEF RInv
    <3>2. QED
      BY <1>5, <3>1, LimitsAre
  <2>4. open[r].kind = "multiline" => /\ l.cmd = "privmsg" /\ l.from = open[r].from /\ l.to = open[r].to
                                      /\ open[r].within = Nothing => l.new
    BY <1>1, <1>2, <1>5 DEF Fits, SaidNow, Replays
  <2>5. QED
    BY <1>1, <1>2, <2>1, <2>2, <2>3, <2>4, HearKept
<1>6. QED
  BY <1>3, <1>4, <1>5

\* BATCH -ref: the lines kept back come to the model, and to no other batch.
LEMMA BatchEndsStep ==
  ASSUME RInv, NEW r \in Refs, BatchEnds(r)
  PROVE  RInv' /\ ClosedStep /\ QuietStep
<1>1. /\ open[r] # Nothing /\ open' = [open EXCEPT ![r] = Nothing]
      /\ batches' = [batches EXCEPT ![r] = Nothing]
      /\ UNCHANGED <<caps, active, origin, said, posted>>
  BY DEF BatchEnds
<1>2. GoodBatches /\ GoodOpen /\ said \in Nat /\ r \in Opened(open)
  BY <1>1, CountedIs DEF RInv, Opened
<1>3. DOMAIN batches' = Refs /\ batches'[r] = Nothing /\ \A q \in Refs \ {r} : batches'[q] = batches[q]
  BY <1>1, <1>2 DEF GoodBatches
<1>4. DOMAIN open' = Refs /\ open'[r] = Nothing /\ \A q \in Refs \ {r} : open'[q] = open[q]
  BY <1>1, <1>2 DEF GoodOpen
<1>5. Opened(batches)' = Opened(batches) \ {r} /\ Opened(open)' = Opened(open) \ {r}
  BY <1>3, <1>4 DEF Opened
<1>6. GoodOpen'
  <2>1. \A kind : Sends(kind)' = Sends(kind)
    BY <1>1 DEF Sends
  <2>2. \A q \in Opened(open)' : q \in Opened(open) /\ open'[q] = open[q]
    BY <1>4, <1>5 DEF Opened
  <2>3. QED
    BY <1>2, <1>4, <2>1, <2>2 DEF GoodOpen
<1>7. \A q \in Opened(batches)' : q \in Opened(batches) /\ q # r /\ batches'[q] = batches[q] /\ open'[q] = open[q]
  BY <1>3, <1>4, <1>5 DEF Opened
<1>8. GoodBatches'
  <2>1. \A q \in Opened(batches)' : open'[q] # Nothing /\ GoodBatch(batches'[q], open'[q], said')
    BY <1>1, <1>2, <1>7 DEF GoodBatches
  <2>2. \A p, q \in Opened(batches)' : p # q => Times(batches'[p].msgs) \cap Times(batches'[q].msgs) = {}
    BY <1>2, <1>7 DEF GoodBatches
  <2>3. IsFiniteSet(Opened(batches)') /\ Cardinality(Opened(batches)') =< MaxOpen
    <3>1. IsFiniteSet(Opened(batches)) /\ Cardinality(Opened(batches)) =< MaxOpen
      BY <1>2 DEF GoodBatches
    <3>2. IsFiniteSet(Opened(batches)') /\ Cardinality(Opened(batches)') =< Cardinality(Opened(batches))
      BY <1>5, <3>1, FS_Subset
    <3>3. Cardinality(Opened(batches)) \in Nat /\ Cardinality(Opened(batches)') \in Nat
      BY <3>1, <3>2, FS_CardinalityType
    <3>4. QED
      BY <3>1, <3>2, <3>3, LimitsAre
  <2>4. QED
    BY <1>3, <2>1, <2>2, <2>3 DEF GoodBatches, Times
<1>9. said' \in 0..MaxSaid /\ posted' \in 0..MaxPosted /\ caps' = caps
  BY <1>1 DEF RInv
<1>10. Kept' \in {0, 1} /\ Kept \in {0, 1} /\ Counted \in Nat /\ Counted =< said
  BY CountedIs DEF Kept
<1>11. Kept' = 1 => Kept = 1
  <2> SUFFICES ASSUME NEW q \in Opened(batches)', batches'[q].kind = "multiline", batches'[q].msgs # <<>>
               PROVE  Kept = 1
    BY DEF Kept
  <2>1. QED
    BY <1>7 DEF Kept
<1>12. CASE batches[r] = Nothing
  <2>1. UNCHANGED model
    BY <1>12 DEF BatchEnds
  <2>2. GoodModel(Model', Come, Counted) /\ ClosedStep /\ QuietStep
    BY <2>1, SameModel
  <2>3. Opened(batches)' = Opened(batches)
    BY <1>5, <1>12 DEF Opened
  <2>4. Pending' = Pending /\ Kept' = Kept
    <3>1. \A q \in Opened(batches) : batches'[q] = batches[q]
      BY <1>7, <2>3
    <3>2. Pending' = UNION {Times(batches'[q].msgs) : q \in Opened(batches)'}
      BY DEF Pending, Times
    <3>3. {Times(batches'[q].msgs) : q \in Opened(batches)'} = {Times(batches[q].msgs) : q \in Opened(batches)}
      BY <2>3, <3>1
    <3>4. QED
      BY <2>3, <3>1, <3>2, <3>3 DEF Pending, Kept
  <2>5. Come' = Come /\ Counted' = Counted
    BY <1>1, <2>4 DEF Come, Counted
  <2>6. active' \in {Server} \cup listed'
    BY <1>1, <2>1 DEF RInv, model
  <2>7. RInv'
    BY <1>6, <1>8, <1>9, <2>2, <2>5, <2>6 DEF RInv
  <2>8. QED
    BY <2>2, <2>7
<1>13. CASE batches[r] # Nothing
  <2> DEFINE b == batches[r]
             A == Times(b.msgs)
             d == Delivered(Model, b)
             served == open[r]
  <2>1. Become(d)
    BY <1>13 DEF BatchEnds
  <2>2. r \in Opened(batches)
    BY <1>13 DEF Opened
  <2>3. GoodBatch(b, served, said) /\ A \subseteq 1..said /\ served \in OpenBatch /\ b.kind = served.kind
    BY <1>2, <2>2, BatchIs DEF GoodBatch, GoodOpen
  <2>4. A \subseteq Pending
    BY <2>2 DEF Pending
  <2>5. Pending' \cap A = {} /\ Pending' \subseteq Pending
    <3>1. Pending' = UNION {Times(batches'[q].msgs) : q \in Opened(batches)'}
      BY DEF Pending, Times
    <3>2. \A q \in Opened(batches)' : Times(batches'[q].msgs) \cap A = {} /\ Times(batches'[q].msgs) \subseteq Pending
      BY <1>2, <1>7, <2>2 DEF GoodBatches, Pending
    <3> DEFINE Sets == {Times(batches'[q].msgs) : q \in Opened(batches)'}
    <3>3. \A X \in Sets : X \cap A = {} /\ X \subseteq Pending
      BY <3>2
    <3> HIDE DEF Sets, A
    <3>4. (UNION Sets) \cap A = {} /\ UNION Sets \subseteq Pending
      BY <3>3
    <3>5. QED
      BY <3>1, <3>4 DEF Sets
  <2> DEFINE T == Come'
             v == Counted'
             S == Come
             u == Counted
             U == S \cup A
  <2>6. U \subseteq T
    BY <1>1, <2>3, <2>4, <2>5 DEF Come
  <2>7. A \cap S = {}
    BY <2>4 DEF Come
  <2>8. v \in Nat /\ u =< v
    <3>1. v = said - Kept' /\ u = said - Kept
      BY <1>1 DEF Counted
    <3>2. said >= 1 \/ Kept = 0
      <4>1. said - Kept \in Nat
        BY <1>10 DEF Counted
      <4> HIDE DEF u, v
      <4>2. QED
        BY <1>2, <1>10, <4>1
    <3> HIDE DEF u, v
    <3>3. CASE Kept' = 0
      BY <1>2, <1>10, <3>1, <3>3
    <3>4. CASE Kept' = 1
      BY <1>2, <1>10, <1>11, <3>1, <3>2, <3>4
    <3>5. QED
      BY <1>10, <3>3, <3>4
  <2>9. b.kind = "multiline" /\ b.msgs # <<>> => u + 1 =< v
    <3>1. ASSUME b.kind = "multiline", b.msgs # <<>>
          PROVE  Kept = 1 /\ Kept' = 0
      <4>1. Kept = 1
        BY <2>2, <3>1 DEF Kept
      <4>2. \A q \in Opened(batches)' : batches'[q].kind # "multiline"
        <5> SUFFICES ASSUME NEW q \in Opened(batches)', batches'[q].kind = "multiline"
                     PROVE  FALSE
          OBVIOUS
        <5>1. q \in Opened(batches) /\ q # r /\ batches[q].kind = "multiline"
          BY <1>7
        <5>2. open[q].kind = "multiline" /\ q \in Opened(open)
          BY <1>2, <5>1 DEF GoodBatches, GoodBatch, Opened
        <5>3. open[r].kind = "multiline"
          BY <2>3, <3>1
        <5>4. QED
          BY <1>2, <5>1, <5>2, <5>3 DEF GoodOpen
      <4>3. QED
        BY <4>1, <4>2 DEF Kept
    <3>2. QED
      BY <1>1, <1>2, <3>1 DEF Counted
  <2>10. GoodModel(Model, S, u) /\ u \in Nat
    BY BuffersAre
  <2> DEFINE m == Model
             n == said
  <2>11. n \in Nat
    BY <1>2
  <2> HIDE DEF S, T, u, v, U, m, n
  <2>12. GoodModel(m, S, u) /\ GoodBatch(b, served, n) /\ Times(b.msgs) \cap S = {}
    BY <2>3, <2>7, <2>10 DEF m, n
  <2> HIDE DEF b, served
  <2> DEFINE x == Delivered(m, b)
  <2>13. /\ GoodModel(x, S \cup Times(b.msgs), v) /\ HandledIn(x, m, FALSE, FALSE)
         /\ b.kind # "multiline" => Quiet(x, m)
         /\ b.kind = "multiline" /\ served.within = Nothing => BadgesNew(x, m)
    <3>1. GoodModel(x, S \cup Times(b.msgs), v)
      BY <2>3, <2>8, <2>9, <2>10, <2>11, <2>12, DeliveredGood
    <3>2. HandledIn(x, m, FALSE, FALSE)
      BY <2>3, <2>8, <2>9, <2>10, <2>11, <2>12, DeliveredGood
    <3>3. b.kind # "multiline" => Quiet(x, m)
      BY <2>3, <2>8, <2>9, <2>10, <2>11, <2>12, DeliveredGood
    <3>4. b.kind = "multiline" /\ served.within = Nothing => BadgesNew(x, m)
      BY <2>3, <2>8, <2>9, <2>10, <2>11, <2>12, DeliveredGood
    <3>5. QED
      BY <3>1, <3>2, <3>3, <3>4
  <2>14. x = d /\ S \cup Times(b.msgs) = U
    BY DEF m, U
  <2> HIDE DEF x, d
  <2>15. GoodModel(d, T, v)
    <3>1. v =< v
      BY <2>8
    <3>2. QED
      BY <2>6, <2>8, <2>13, <2>14, <3>1, ModelMore
  <2>16. GoodModel(Model', T, v) /\ Model'.buffers = d.buffers /\ Model'.listed = d.listed
    BY <2>1, <2>15, BecomeGives
  <2>17. listed' = d.listed /\ listed \subseteq d.listed
    BY <2>1, <2>13, <2>14, ModelIs DEF Become, HandledIn, m
  <2>18. active' \in {Server} \cup listed'
    BY <1>1, <2>17 DEF RInv
  <2>19. RInv'
    BY <1>6, <1>8, <1>9, <2>16, <2>18 DEF RInv, T, v
  <2>20. LeavesPal(Model', Model)
    BY <2>13, <2>14, <2>16 DEF HandledIn, LeavesPal, m
  <2>21. QuietStep
    <3>1. CASE b.kind # "multiline"
      <4>1. Quiet(Model', Model)
        BY <2>13, <2>14, <2>16, <3>1 DEF Quiet, UnreadIn, m
      <4>2. QED
        BY <2>19, <4>1, BadgesNewQuiet
    <3>2. CASE b.kind = "multiline" /\ served.within = Nothing
      <4>1. BadgesNew(Model', Model)
        BY <2>13, <2>14, <2>16, <3>2 DEF BadgesNew, UnreadIn, m
      <4>2. QED
        BY <2>19, <4>1, BadgesNewQuiet
    <3>3. CASE served.within # Nothing
      BY <1>2, <1>4, <3>3 DEF QuietStep, NestedEnds, served
    <3>4. QED
      BY <3>1, <3>2, <3>3
  <2>22. QED
    BY <2>19, <2>20, <2>21, LeavesPalCloses
<1>14. QED
  BY <1>12, <1>13

(* ----------------- the invariant --------------------------------------- *)

\* The invariant holds at first, in each step, and while nothing happens.
LEMMA RInvInit ==
  ASSUME RoutingInit
  PROVE  RInv
<1>1. /\ open = [r \in Refs |-> Nothing] /\ batches = [r \in Refs |-> Nothing]
      /\ buffers = [b \in {Server, Chan} |-> NewBuffer] /\ listed = {Chan} /\ active = Server
      /\ page = Nothing /\ said = 0 /\ posted = 0
      /\ caps \in {{}, {"echo-message", "chathistory"}, {"znc"}}
  BY DEF RoutingInit
<1>2. Opened(open) = {} /\ Opened(batches) = {}
  BY <1>1 DEF Opened
<1>3. Pending = {} /\ Kept = 0
  BY <1>2 DEF Pending, Kept
<1>4. Come = {} /\ Counted = 0
  BY <1>1, <1>3 DEF Come, Counted
<1>5. GoodModel(Model, {}, 0)
  <2> DEFINE S == {}
             u == 0
  <2>1. Awaited(Model) = <<>> /\ GoodList(<<>>, Chan, S)
    BY <1>1, ModelIs, NoneGood DEF Awaited
  <2>2. u \in Nat
    OBVIOUS
  <2> HIDE DEF S, u
  <2>3. \A b : GoodBuffer(NewBuffer, b, S, u) /\ AllNumbers(NewBuffer.messages) = {}
    BY <2>2, NewGood
  <2>4. DOMAIN buffers = {Server, Chan} /\ \A b \in DOMAIN buffers : buffers[b] = NewBuffer
    BY <1>1
  <2>5. GoodModel(Model, S, u)
    BY <1>1, <2>1, <2>3, <2>4, ModelIs DEF GoodModel, Names
  <2>6. QED
    BY <2>5 DEF S, u
<1>6. GoodOpen
  BY <1>1, <1>2 DEF GoodOpen
<1>7. GoodBatches
  <2>1. IsFiniteSet({}) /\ Cardinality({}) = 0
    BY FS_EmptySet
  <2>2. QED
    BY <1>1, <1>2, <2>1, LimitsAre DEF GoodBatches
<1>8. QED
  BY <1>1, <1>4, <1>5, <1>6, <1>7, LimitsAre DEF RInv

\* A batch is open at the server that the client does not know.
Refused == \E r \in Opened(open) : batches[r] = Nothing

LEMMA RInvStep ==
  ASSUME RInv, RoutingNext
  PROVE  RInv' /\ ClosedStep /\ (~Refused => QuietStep)
<1>1. ASSUME NEW r \in Refs, NEW kind \in Kinds, NEW talk \in Talks, NEW within \in Refs \cup {Nothing},
             BatchBegins(r, kind, talk[1], talk[2], within)
      PROVE  RInv' /\ ClosedStep /\ QuietStep
  BY <1>1, BatchBeginsStep
<1>2. ASSUME NEW r \in Refs, BatchEnds(r)
      PROVE  RInv' /\ ClosedStep /\ QuietStep
  BY <1>2, BatchEndsStep
<1>3. ASSUME NEW r \in Refs \cup {Nothing}, NEW s \in Speech, Speak(r, s[1], s[2][1], s[2][2])
      PROVE  RInv' /\ ClosedStep /\ (~Refused => QuietStep)
  <2>1. RInv' /\ ClosedStep /\ (r = Nothing \/ batches[r] # Nothing => QuietStep)
    BY <1>3, SpeakStep
  <2>2. r = Nothing \/ open[r] # Nothing
    BY <1>3 DEF Speak, Fits
  <2>3. ~Refused => r = Nothing \/ batches[r] # Nothing
    BY <2>2 DEF Refused, Opened
  <2>4. QED
    BY <2>1, <2>3
<1>4. ASSUME NEW id \in 1..said, NEW talk \in Talks, TagMsg(id, talk[1], talk[2])
      PROVE  RInv' /\ ClosedStep /\ QuietStep
  BY <1>4, TagMsgStep
<1>5. ASSUME ServerLine \/ ContextualLine \/ ChannelLine \/ CtcpReply
      PROVE  RInv' /\ ClosedStep /\ QuietStep
  BY <1>5, OwnStep
<1>6. ASSUME SendCtcp \/ OriginExpires
      PROVE  RInv' /\ ClosedStep /\ QuietStep
  BY <1>6, CtcpStep
<1>7. ASSUME NEW to \in {Chan, Pal}, SendMessage(to)
      PROVE  RInv' /\ ClosedStep /\ QuietStep
  BY <1>7, SendMessageStep
<1>8. ASSUME NEW b \in DOMAIN buffers, Look(b)
      PROVE  RInv' /\ ClosedStep /\ QuietStep
  BY <1>8, LookStep
<1>9. ASSUME CloseQuery
      PROVE  RInv' /\ ClosedStep /\ QuietStep
  BY <1>9, CloseQueryStep
<1>10. ASSUME RequestOlder \/ RequestTimesOut
       PROVE  RInv' /\ ClosedStep /\ QuietStep
  BY <1>10, RequestStep
<1>11. ASSUME Reconnect
       PROVE  RInv' /\ ClosedStep /\ QuietStep
  BY <1>11, ReconnectStep
<1>12. QED
  BY <1>1, <1>2, <1>3, <1>4, <1>5, <1>6, <1>7, <1>8, <1>9, <1>10, <1>11 DEF RoutingNext

LEMMA RInvStill ==
  ASSUME RInv, UNCHANGED routingVars
  PROVE  RInv' /\ ClosedStep /\ QuietStep
<1>1. UNCHANGED model /\ UNCHANGED <<caps, open, batches, said, active, posted>>
  BY DEF routingVars
<1>2. GoodModel(Model', Come, Counted) /\ ClosedStep /\ QuietStep
  BY <1>1, SameModel
<1>3. active' \in {Server} \cup listed' /\ posted' \in 0..MaxPosted
  BY <1>1 DEF RInv, model
<1>4. QED
  BY <1>1, <1>2, <1>3, ModelOnly

\* What the properties say, of one state.
LEMMA RInvMeans ==
  ASSUME RInv
  PROVE  RoutingInv /\ WholeAndOnce
<1>1. /\ {Server, Chan} \subseteq DOMAIN buffers /\ DOMAIN buffers \subseteq Names
      /\ listed \subseteq DOMAIN buffers
      /\ \A b \in DOMAIN buffers : GoodBuffer(buffers[b], b, Come, Counted)
      /\ Counted \in Nat /\ Counted =< said /\ said =< MaxSaid
  BY BuffersAre, CountedIs
<1>2. \A b \in DOMAIN buffers :
        /\ GoodList(buffers[b].messages, b, Come) /\ buffers[b].messages \in Seq(Message)
        /\ Len(buffers[b].messages) \in Nat /\ Len(buffers[b].messages) =< Cap
        /\ buffers[b].firstUnread \in Nat /\ buffers[b].firstUnread =< Len(buffers[b].messages)
        /\ buffers[b].unread \in Nat /\ buffers[b].unread \in 0..Counted
        /\ buffers[b].reactions \subseteq Held(buffers[b].messages)
  BY <1>1, BufferParts
<1>3. \A b \in DOMAIN buffers : DOMAIN buffers[b].messages = 1..Len(buffers[b].messages)
  BY <1>2, MessagesAre
<1>4. RoutingTypeOK
  <2>1. \A b \in DOMAIN buffers :
          /\ Len(buffers[b].messages) <= Cap
          /\ buffers[b].unread \in 0..MaxSaid
          /\ buffers[b].firstUnread \in 0..Len(buffers[b].messages)
    BY <1>1, <1>2, CountedIs, LimitsAre
  <2>2. \A r \in Opened(batches) : open[r] # Nothing /\ Len(batches[r].msgs) <= MaxBatch
    BY DEF RInv, GoodBatches, GoodBatch
  <2>3. Cardinality(Opened(batches)) <= MaxOpen
    BY DEF RInv, GoodBatches
  <2>4. active \in {Server} \cup listed /\ said \in 0..MaxSaid /\ posted \in 0..MaxPosted
    BY DEF RInv
  <2>5. DOMAIN buffers \subseteq {Server, Chan, Pal, Me}
    BY <1>1 DEF Names
  <2>6. QED
    BY <1>1, <2>1, <2>2, <2>3, <2>4, <2>5 DEF RoutingTypeOK
<1>5. EachInItsPlace
  <2> SUFFICES ASSUME NEW b \in DOMAIN buffers, NEW i \in LinesIn(b)
               PROVE  buffers[b].messages[i].cmd = "action" \/ b \in Place(buffers[b].messages[i])
    BY DEF EachInItsPlace
  <2>1. i \in 1..Len(buffers[b].messages) /\ buffers[b].messages[i].parts # <<>>
    BY <1>3 DEF LinesIn
  <2>2. Placed(buffers[b].messages[i], b)
    BY <1>2, <2>1 DEF GoodList
  <2>3. QED
    BY <2>1, <2>2 DEF Placed
<1>6. ReactionsHaveTheirLine
  BY <1>2 DEF ReactionsHaveTheirLine
<1>7. WholeAndOnce
  <2> SUFFICES ASSUME NEW b \in DOMAIN buffers, NEW c \in DOMAIN buffers,
                      NEW i \in LinesIn(b), NEW j \in LinesIn(c)
               PROVE  LET p == buffers[b].messages[i].parts
                          q == buffers[c].messages[j].parts
                      IN  /\ \A k \in 1 .. Len(p) - 1 : p[k] < p[k + 1]
                          /\ (b # c \/ i # j) => {p[k] : k \in DOMAIN p} \cap {q[k] : k \in DOMAIN q} = {}
    BY DEF WholeAndOnce
  <2> DEFINE x == buffers[b].messages[i]
             y == buffers[c].messages[j]
  <2>1. /\ i \in 1..Len(buffers[b].messages) /\ j \in 1..Len(buffers[c].messages)
        /\ x \in Message /\ y \in Message
    BY <1>2, <1>3, MessagesAre DEF LinesIn
  <2>2. Whole(x, Come)
    BY <1>2, <2>1 DEF GoodList
  <2>3. Numbers(x) = {x.parts[k] : k \in DOMAIN x.parts} /\ Numbers(y) = {y.parts[k] : k \in DOMAIN y.parts}
    <3>1. x.parts \in Seq(Nat) /\ y.parts \in Seq(Nat)
      BY <2>1 DEF Message
    <3>2. DOMAIN x.parts = 1..Len(x.parts) /\ DOMAIN y.parts = 1..Len(y.parts)
      BY <3>1, LenProperties
    <3>3. QED
      BY <3>2 DEF Numbers
  <2>4. (b # c \/ i # j) => Numbers(x) \cap Numbers(y) = {}
    <3>1. CASE b = c /\ i # j
      BY <1>2, <2>1, <3>1 DEF GoodList
    <3>2. CASE b # c
      <4>1. AllNumbers(buffers[b].messages) \cap AllNumbers(buffers[c].messages) = {}
        BY <3>2, ModelIs DEF RInv, GoodModel
      <4>2. Numbers(x) \subseteq AllNumbers(buffers[b].messages) /\ Numbers(y) \subseteq AllNumbers(buffers[c].messages)
        BY <2>1 DEF AllNumbers
      <4>3. QED
        BY <4>1, <4>2
    <3>3. QED
      BY <3>1, <3>2
  <2> HIDE DEF x, y
  <2>5. \A k \in 1 .. Len(x.parts) - 1 : x.parts[k] < x.parts[k + 1]
    BY <2>2 DEF Whole
  <2>6. (b # c \/ i # j) => {x.parts[k] : k \in DOMAIN x.parts} \cap {y.parts[k] : k \in DOMAIN y.parts} = {}
    BY <2>3, <2>4
  <2>7. QED
    BY <2>5, <2>6 DEF x, y
<1>8. QED
  BY <1>4, <1>5, <1>6, <1>7 DEF RoutingInv

\* Whatever is said, replayed in batches, asked, closed and read, and in whatever
\* order batches begin and end: the window shows a buffer there is, what the
\* client keeps is within its limits, each line of processLine and deliverBatch is
\* in the buffer onMessage, onNotice and onAction choose for it, and reactions are
\* those of lines that are held.
THEOREM RoutingSound == RoutingSpec => []RoutingInv
<1>1. RInv /\ [RoutingNext]_routingVars => RInv'
  BY RInvStep, RInvStill
<1>2. RoutingSpec => []RInv
  BY <1>1, RInvInit, PTL DEF RoutingSpec
<1>3. QED
  BY <1>2, RInvMeans, PTL

\* No line becomes two messages, in one buffer or in two, whatever batch it came
\* in; and a message deliverMultiline makes of several lines has them in order.
THEOREM LinesWholeAndOnce == RoutingSpec => []WholeAndOnce
<1>1. RInv /\ [RoutingNext]_routingVars => RInv'
  BY RInvStep, RInvStill
<1>2. RoutingSpec => []RInv
  BY <1>1, RInvInit, PTL DEF RoutingSpec
<1>3. QED
  BY <1>2, RInvMeans, PTL

\* A query that closeBuffer closed is made again only by a line of that person or
\* by sendMessage, never by the answer to a CTCP, a reaction, or a line of the
\* client's own that ctcpReplyBuffer finds a buffer for.
THEOREM QueryStaysClosed == RoutingSpec => ClosedStaysClosed
<1>1. RInv /\ [RoutingNext]_routingVars => RInv' /\ [ClosedStep]_routingVars
  BY RInvStep, RInvStill
<1>2. RoutingSpec => []RInv /\ [][ClosedStep]_routingVars
  BY <1>1, RInvInit, PTL DEF RoutingSpec
<1>3. QED
  BY <1>2, PTL DEF ClosedStaysClosed, ClosedStep

\* A batch is known as long as it is open: of each kind there is one, no link
\* replays both kinds, so that at most one is known when the next begins.
LEMMA AtMostOneOther ==
  ASSUME RInv, MaxOpen >= 2, NEW kind \in Kinds, Sends(kind),
         \A q \in Opened(open) : open[q].kind # kind
  PROVE  ~(Cardinality(Opened(batches)) >= MaxOpen)
<1>1. GoodOpen /\ GoodBatches /\ caps \in {{}, {"echo-message", "chathistory"}, {"znc"}}
  BY DEF RInv
<1>2. Opened(batches) \subseteq Opened(open)
  BY <1>1 DEF GoodBatches, Opened
<1>3. \A q \in Opened(open) : open[q].kind \in Kinds /\ Sends(open[q].kind)
  BY <1>1 DEF GoodOpen, OpenBatch
<1>4. "chathistory" \notin caps \/ "znc" \notin caps
  BY <1>1
<1>5. \A k \in Kinds : (k = "chathistory" /\ Sends(k) => "chathistory" \in caps)
                       /\ (k = "playback" /\ Sends(k) => "znc" \in caps)
  BY DEF Sends, Kinds, Replays
<1>6. \A p, q \in Opened(open) : open[p].kind = open[q].kind
  <2> SUFFICES ASSUME NEW p \in Opened(open), NEW q \in Opened(open)
               PROVE  open[p].kind = open[q].kind
    OBVIOUS
  <2> DEFINE a == open[p].kind
             b == open[q].kind
  <2>1. /\ a \in Kinds /\ b \in Kinds /\ a # kind /\ b # kind
        /\ (a = "chathistory" => "chathistory" \in caps) /\ (a = "playback" => "znc" \in caps)
        /\ (b = "chathistory" => "chathistory" \in caps) /\ (b = "playback" => "znc" \in caps)
        /\ (kind = "chathistory" => "chathistory" \in caps) /\ (kind = "playback" => "znc" \in caps)
    BY <1>3, <1>5
  <2> HIDE DEF a, b
  <2>2. a = b
    BY <1>4, <2>1 DEF Kinds, Replays
  <2>3. QED
    BY <2>2 DEF a, b
<1>7. \A p, q \in Opened(batches) : p = q
  BY <1>1, <1>2, <1>6 DEF GoodOpen
<1>8. Cardinality(Opened(batches)) \in {0, 1}
  <2>1. CASE Opened(batches) = {}
    BY <2>1, FS_EmptySet
  <2>2. CASE Opened(batches) # {}
    <3>1. PICK q : q \in Opened(batches)
      BY <2>2
    <3>2. Opened(batches) = {q}
      BY <1>7, <3>1
    <3>3. QED
      BY <3>2, FS_Singleton
  <2>3. QED
    BY <2>1, <2>2
<1>9. QED
  BY <1>8, LimitsAre

\* What a batch known has in it is such as m_batches keeps.
LEMMA KeptIs ==
  ASSUME RInv, NEW r \in Opened(batches), NEW l \in KeptLine
  PROVE  [batches[r] EXCEPT !.msgs = Append(@, l)] # Nothing
<1> DEFINE b == batches[r]
           c == [b EXCEPT !.msgs = Append(@, l)]
<1>1. GoodOpen /\ GoodBatches /\ said \in Nat
  BY LimitsAre DEF RInv
<1>2. /\ open[r] \in OpenBatch /\ GoodBatch(b, open[r], said)
      /\ b.msgs \in Seq(SpokenLine(said))
  BY <1>1, BatchIs DEF GoodOpen, Opened
<1>3. SpokenLine(said) \subseteq KeptLine
  BY <1>1 DEF SpokenLine, KeptLine, Speech, Talks, Commands, Names
<1>4. c.kind \in Kinds /\ c.to \in {Chan, Pal, Me} /\ DOMAIN c = {"kind", "to", "msgs"}
  BY <1>2 DEF GoodBatch, OpenBatch
<1>5. c.msgs \in Seq(KeptLine)
  <2>1. c.msgs = Append(b.msgs, l)
    BY <1>2 DEF GoodBatch
  <2>2. b.msgs \in Seq(KeptLine)
    BY <1>2, <1>3
  <2>3. QED
    BY <2>1, <2>2
<1>6. c \in KeptBatch
  <2> HIDE DEF b
  <2>1. c = [x \in {"kind", "to", "msgs"} |-> c[x]]
    BY <1>2 DEF GoodBatch
  <2> HIDE DEF c
  <2>2. QED
    BY <1>4, <1>5, <2>1 DEF KeptBatch
<1>7. QED
  BY <1>6, NothingAssumption

\* No batch is refused.
LEMMA NoneRefused ==
  ASSUME RInv, MaxOpen >= 2, ~Refused, [RoutingNext]_routingVars
  PROVE  ~Refused'
<1>1. DOMAIN open = Refs /\ DOMAIN batches = Refs
  BY DEF RInv, GoodOpen, GoodBatches
<1>2. \A r \in Refs : open[r] # Nothing => batches[r] # Nothing
  BY DEF Refused, Opened
<1>3. SUFFICES ASSUME NEW q \in Refs, open'[q] # Nothing
               PROVE  batches'[q] # Nothing
  BY DEF Refused, Opened
<1>4. CASE UNCHANGED <<open, batches>>
  BY <1>2, <1>3, <1>4
<1>5. ASSUME NEW r \in Refs, NEW kind \in Kinds, NEW talk \in Talks, NEW within \in Refs \cup {Nothing},
             BatchBegins(r, kind, talk[1], talk[2], within)
      PROVE  batches'[q] # Nothing
  <2>1. ~(Cardinality(Opened(batches)) >= MaxOpen)
    BY <1>5, AtMostOneOther DEF BatchBegins
  <2> DEFINE c == [kind |-> kind, to |-> talk[2], msgs |-> <<>>]
  <2>2. batches' = [batches EXCEPT ![r] = c]
    BY <1>5, <2>1 DEF BatchBegins
  <2>3. c # Nothing
    <3>1. talk[2] \in {Chan, Pal, Me}
      BY DEF Talks
    <3>2. c \in KeptBatch
      BY <3>1 DEF KeptBatch
    <3>3. QED
      BY <3>2, NothingAssumption
  <2>4. q # r => open'[q] = open[q]
    BY <1>1, <1>5 DEF BatchBegins
  <2> HIDE DEF c
  <2>5. QED
    BY <1>1, <1>2, <1>3, <2>2, <2>3, <2>4
<1>6. ASSUME NEW r \in Refs, BatchEnds(r)
      PROVE  batches'[q] # Nothing
  BY <1>1, <1>2, <1>3, <1>6 DEF BatchEnds
<1>7. ASSUME NEW r \in Refs \cup {Nothing}, NEW s \in Speech, Speak(r, s[1], s[2][1], s[2][2])
      PROVE  batches'[q] # Nothing
  <2>0. PICK at \in Nat : Hear(r, Spoken(s[1], s[2][1], s[2][2], at, SaidNow(r)))
    BY <1>7, SpeakHears
  <2> DEFINE l == Spoken(s[1], s[2][1], s[2][2], at, SaidNow(r))
  <2>1. Hear(r, l) /\ open' = open
    BY <1>7, <2>0 DEF Speak
  <2>2. l \in KeptLine
    <3>1. l \in SpokenLine(said + 1) /\ l.nr = said + 1
      BY <1>7, SpokenIs
    <3>2. l.cmd \in {"privmsg", "notice", "action"} /\ l.from \in {Pal, Me} /\ l.to \in {Chan, Pal, Me}
      BY <3>1 DEF SpokenLine, Speech, Talks
    <3>3. said + 1 \in Nat
      BY LimitsAre DEF RInv
    <3>4. QED
      BY <3>1, <3>2, <3>3 DEF SpokenLine, KeptLine
  <2> HIDE DEF l
  <2>3. CASE batches' = batches
    BY <1>2, <1>3, <2>1, <2>3
  <2>4. CASE batches' # batches
    <3>1. r # Nothing /\ batches[r] # Nothing /\ batches' = [batches EXCEPT ![r].msgs = Append(@, l)]
      BY <2>1, <2>4 DEF Hear
    <3>2. r \in Opened(batches)
      BY <3>1 DEF Opened
    <3>3. batches'[r] # Nothing
      BY <1>1, <2>2, <3>1, <3>2, KeptIs
    <3>4. q # r => batches'[q] = batches[q]
      BY <1>1, <3>1
    <3>5. QED
      BY <1>2, <1>3, <2>1, <3>3, <3>4
  <2>5. QED
    BY <2>3, <2>4
<1>8. ASSUME Reconnect
      PROVE  batches'[q] # Nothing
  BY <1>3, <1>8 DEF Reconnect
<1>9. CASE UNCHANGED routingVars
  BY <1>4, <1>9 DEF routingVars
<1>10. ASSUME NEW id \in 1..said, NEW talk \in Talks, TagMsg(id, talk[1], talk[2])
       PROVE  batches'[q] # Nothing
  BY <1>4, <1>10 DEF TagMsg
<1>11. ASSUME ServerLine \/ ContextualLine \/ ChannelLine \/ CtcpReply \/ SendCtcp \/ OriginExpires
       PROVE  batches'[q] # Nothing
  BY <1>4, <1>11 DEF ServerLine, ContextualLine, ChannelLine, CtcpReply, SendCtcp, OriginExpires
<1>12. ASSUME NEW to \in {Chan, Pal}, SendMessage(to)
       PROVE  batches'[q] # Nothing
  BY <1>4, <1>12 DEF SendMessage
<1>13. ASSUME NEW b \in DOMAIN buffers, Look(b)
       PROVE  batches'[q] # Nothing
  BY <1>4, <1>13 DEF Look
<1>14. ASSUME CloseQuery \/ RequestOlder \/ RequestTimesOut
       PROVE  batches'[q] # Nothing
  BY <1>4, <1>14 DEF CloseQuery, RequestOlder, RequestTimesOut
<1>15. QED
  BY <1>5, <1>6, <1>7, <1>8, <1>9, <1>10, <1>11, <1>12, <1>13, <1>14 DEF RoutingNext

\* While the client can keep two batches (kMaxOpenBatches is 8), no line replayed
\* in a batch of history raises a badge, except by a multiline batch within it:
\* of each kind the server has one batch open, so that none is refused.
THEOREM ReplayIsQuiet ==
  ASSUME MaxOpen >= 2
  PROVE  RoutingSpec => QuietReplay
<1> DEFINE RQInv == RInv /\ ~Refused
<1>1. RoutingInit => RQInv
  BY RInvInit DEF RoutingInit, Refused, Opened
<1>2. RQInv /\ [RoutingNext]_routingVars => RQInv' /\ [QuietStep]_routingVars
  BY RInvStep, RInvStill, NoneRefused
<1>3. RoutingSpec => []RQInv /\ [][QuietStep]_routingVars
  <2> HIDE DEF RQInv
  <2>1. QED
    BY <1>1, <1>2, PTL DEF RoutingSpec
<1>4. QED
  BY <1>3, PTL DEF QuietReplay, QuietStep
============================================================================
