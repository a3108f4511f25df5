------------------------- MODULE RegistrationProofs -------------------------
(***************************************************************************)
(* Proofs about Registration, for every set of networks and every number   *)
(* of nicks: the client is authenticated only when the server says so,     *)
(* both sides end up with the same capabilities and the same nick, CAP END *)
(* waits for SASL, and the configured nick is asked for again.             *)
(*                                                                         *)
(* The argument is about the lines in flight.  Each part of the invariant  *)
(* says which lines of a kind there may be, on which way and in what order *)
(* (None, AtMostOne, Before, Last, Turns), and what is true of the client  *)
(* and the server as long as there are.  A step takes the head of one way  *)
(* and appends to the other: what that does to these predicates is proved  *)
(* once (Take..., Put...), then what each handler takes and sends (...Has),*)
(* and then each part is kept by each handler (...Kept).                   *)
(***************************************************************************)
EXTENDS Registration, TLAPS

(* -------------------------- lines in flight ---------------------------- *)

\* No line of s is in T; at most one is; those in T come before those in K.
None(s, T) == \A i \in DOMAIN s : s[i] \notin T
AtMostOne(s, T) == \A i, j \in DOMAIN s : s[i] \in T /\ s[j] \in T => i = j
Before(s, T, K) == \A i, j \in DOMAIN s : s[i] \in T /\ s[j] \in K => i < j

\* The last line of s that is in T, if any, is in A.
Last(s, T, A) ==
  \A i \in DOMAIN s : s[i] \in T /\ (\A j \in DOMAIN s : i < j => s[j] \notin T) => s[i] \in A

\* The line l is in s, behind no line of T and before none of K.
Turns(s, l, T, K) ==
  \E k \in DOMAIN s : /\ s[k] = l
                      /\ \A j \in DOMAIN s : (j < k => s[j] \notin T) /\ (k < j => s[j] \notin K)

Taken(s, r) == s # <<>> /\ r = Tail(s)
Joined(s, t, r) == r = s \o t

LEMMA TakenHas ==
  ASSUME NEW S, NEW s \in Seq(S), NEW r, Taken(s, r)
  PROVE  /\ Len(s) \in Nat /\ Len(s) > 0 /\ DOMAIN s = 1..Len(s) /\ Head(s) = s[1] /\ Head(s) \in S
         /\ r \in Seq(S) /\ DOMAIN r = 1..(Len(s) - 1)
         /\ \A i \in DOMAIN r : r[i] = s[i + 1]
BY DEF Taken

LEMMA JoinedHas ==
  ASSUME NEW S, NEW s \in Seq(S), NEW t \in Seq(S), NEW r, Joined(s, t, r)
  PROVE  /\ Len(s) \in Nat /\ Len(t) \in Nat /\ DOMAIN s = 1..Len(s) /\ DOMAIN t = 1..Len(t)
         /\ r \in Seq(S) /\ DOMAIN r = 1..(Len(s) + Len(t))
         /\ \A i \in DOMAIN s : r[i] = s[i]
         /\ \A i \in DOMAIN t : r[Len(s) + i] = t[i]
         /\ \A i \in DOMAIN r : r[i] = IF i =< Len(s) THEN s[i] ELSE t[i - Len(s)]
BY DEF Joined

\* What is left when the first line is taken.
LEMMA Take ==
  ASSUME NEW S, NEW s \in Seq(S), NEW r, Taken(s, r), NEW T
  PROVE  /\ None(s, T) => None(r, T) /\ Head(s) \notin T
         /\ Head(s) \notin T /\ None(r, T) => None(s, T)
         /\ AtMostOne(s, T) => AtMostOne(r, T)
         /\ AtMostOne(s, T) /\ Head(s) \in T => None(r, T)
<1> DEFINE n == Len(s)
<1>1. /\ n \in Nat /\ n > 0 /\ DOMAIN s = 1..n /\ Head(s) = s[1]
      /\ DOMAIN r = 1..(n - 1) /\ \A i \in 1..(n - 1) : r[i] = s[i + 1]
  BY TakenHas
<1> HIDE DEF n
<1>2. ASSUME None(s, T) PROVE None(r, T) /\ Head(s) \notin T
  BY <1>1, <1>2 DEF None
<1>3. ASSUME Head(s) \notin T, None(r, T) PROVE None(s, T)
  <2> SUFFICES ASSUME NEW i \in 1..n PROVE s[i] \notin T
    BY <1>1 DEF None
  <2>1. CASE i = 1
    BY <1>1, <1>3, <2>1
  <2>2. CASE i # 1
    <3>1. i - 1 \in 1..(n - 1) /\ (i - 1) + 1 = i
      BY <1>1, <2>2
    <3>2. QED
      BY <1>1, <1>3, <3>1 DEF None
  <2>3. QED
    BY <2>1, <2>2
<1>4. ASSUME AtMostOne(s, T) PROVE AtMostOne(r, T)
  <2> SUFFICES ASSUME NEW i \in 1..(n - 1), NEW j \in 1..(n - 1), r[i] \in T, r[j] \in T
               PROVE  i = j
    BY <1>1 DEF AtMostOne
  <2>1. i + 1 \in 1..n /\ j + 1 \in 1..n /\ r[i] = s[i + 1] /\ r[j] = s[j + 1]
    BY <1>1
  <2>2. i + 1 = j + 1
    BY <1>1, <1>4, <2>1 DEF AtMostOne
  <2>3. QED
    BY <2>2
<1>5. ASSUME AtMostOne(s, T), Head(s) \in T PROVE None(r, T)
  <2> SUFFICES ASSUME NEW i \in 1..(n - 1), r[i] \in T
               PROVE  FALSE
    BY <1>1 DEF None
  <2>1. i + 1 \in 1..n /\ 1 \in 1..n /\ r[i] = s[i + 1] /\ i + 1 # 1
    BY <1>1
  <2>2. QED
    BY <1>1, <1>5, <2>1 DEF AtMostOne
<1>6. QED
  BY <1>2, <1>3, <1>4, <1>5

LEMMA TakeBefore ==
  ASSUME NEW S, NEW s \in Seq(S), NEW r, Taken(s, r), NEW T, NEW K, Before(s, T, K)
  PROVE  Before(r, T, K) /\ (Head(s) \in K => None(s, T))
<1> DEFINE n == Len(s)
<1>1. /\ n \in Nat /\ n > 0 /\ DOMAIN s = 1..n /\ Head(s) = s[1]
      /\ DOMAIN r = 1..(n - 1) /\ \A i \in 1..(n - 1) : r[i] = s[i + 1]
  BY TakenHas
<1> HIDE DEF n
<1>2. Before(r, T, K)
  <2> SUFFICES ASSUME NEW i \in 1..(n - 1), NEW j \in 1..(n - 1), r[i] \in T, r[j] \in K
               PROVE  i < j
    BY <1>1 DEF Before
  <2>1. i + 1 \in 1..n /\ j + 1 \in 1..n /\ r[i] = s[i + 1] /\ r[j] = s[j + 1]
    BY <1>1
  <2>2. i + 1 < j + 1
    BY <1>1, <2>1 DEF Before
  <2>3. QED
    BY <2>2
<1>3. ASSUME Head(s) \in K, NEW i \in 1..n, s[i] \in T
      PROVE  FALSE
  <2>1. 1 \in DOMAIN s /\ s[1] \in K /\ i \in DOMAIN s
    BY <1>1, <1>3
  <2>2. i < 1
    BY <1>3, <2>1 DEF Before
  <2>3. QED
    BY <2>2
<1>4. QED
  BY <1>1, <1>2, <1>3 DEF None

LEMMA TakeLast ==
  ASSUME NEW S, NEW s \in Seq(S), NEW r, Taken(s, r), NEW T, NEW A, Last(s, T, A)
  PROVE  /\ Last(r, T, A)
         /\ Head(s) \in T /\ None(r, T) => Head(s) \in A
<1> DEFINE n == Len(s)
<1>1. /\ n \in Nat /\ n > 0 /\ DOMAIN s = 1..n /\ Head(s) = s[1]
      /\ DOMAIN r = 1..(n - 1) /\ \A i \in 1..(n - 1) : r[i] = s[i + 1]
  BY TakenHas
<1> HIDE DEF n
<1>2. Last(r, T, A)
  <2> SUFFICES ASSUME NEW i \in 1..(n - 1), r[i] \in T,
                      \A j \in 1..(n - 1) : i < j => r[j] \notin T
               PROVE  r[i] \in A
    BY <1>1 DEF Last
  <2>1. i + 1 \in 1..n /\ r[i] = s[i + 1]
    BY <1>1
  <2>2. ASSUME NEW j \in 1..n, i + 1 < j
        PROVE  s[j] \notin T
    <3>1. j - 1 \in 1..(n - 1) /\ i < j - 1 /\ (j - 1) + 1 = j
      BY <1>1, <2>2
    <3>2. QED
      BY <1>1, <3>1
  <2>3. QED
    BY <1>1, <2>1, <2>2 DEF Last
<1>3. ASSUME Head(s) \in T, None(r, T)
      PROVE  Head(s) \in A
  <2>1. ASSUME NEW j \in 1..n, 1 < j
        PROVE  s[j] \notin T
    <3>1. j - 1 \in 1..(n - 1) /\ (j - 1) + 1 = j
      BY <1>1, <2>1
    <3>2. QED
      BY <1>1, <1>3, <3>1 DEF None
  <2>2. 1 \in DOMAIN s
    BY <1>1
  <2>3. QED
    BY <1>1, <1>3, <2>1, <2>2 DEF Last
<1>4. QED
  BY <1>2, <1>3

LEMMA TakeTurns ==
  ASSUME NEW S, NEW s \in Seq(S), NEW r, Taken(s, r), NEW T, NEW K, NEW l \in T, Turns(s, l, T, K)
  PROVE  \/ Head(s) = l /\ None(r, K)
         \/ Head(s) \notin T /\ Turns(r, l, T, K)
<1> DEFINE n == Len(s)
<1>1. /\ n \in Nat /\ n > 0 /\ DOMAIN s = 1..n /\ Head(s) = s[1]
      /\ DOMAIN r = 1..(n - 1) /\ \A i \in 1..(n - 1) : r[i] = s[i + 1]
  BY TakenHas
<1> HIDE DEF n
<1>2. PICK k \in 1..n :
        /\ s[k] = l
        /\ \A j \in 1..n : (j < k => s[j] \notin T) /\ (k < j => s[j] \notin K)
  BY <1>1 DEF Turns
<1>3. CASE k = 1
  <2>1. ASSUME NEW i \in 1..(n - 1)
        PROVE  r[i] \notin K
    <3>1. i + 1 \in 1..n /\ 1 < i + 1 /\ r[i] = s[i + 1]
      BY <1>1
    <3>2. QED
      BY <1>2, <1>3, <3>1
  <2>2. QED
    BY <1>1, <1>2, <1>3, <2>1 DEF None
<1>4. CASE k # 1
  <2>1. Head(s) \notin T
    BY <1>1, <1>2, <1>4
  <2>2. k - 1 \in 1..(n - 1) /\ r[k - 1] = l
    BY <1>1, <1>2, <1>4
  <2>3. ASSUME NEW j \in 1..(n - 1)
        PROVE  (j < k - 1 => r[j] \notin T) /\ (k - 1 < j => r[j] \notin K)
    <3>1. j + 1 \in 1..n /\ r[j] = s[j + 1]
      BY <1>1
    <3>2. QED
      BY <1>1, <1>2, <3>1
  <2>4. QED
    BY <1>1, <2>1, <2>2, <2>3 DEF Turns
<1>5. QED
  BY <1>3, <1>4

\* What is there when lines are added.
LEMMA Put ==
  ASSUME NEW S, NEW s \in Seq(S), NEW t \in Seq(S), NEW r, Joined(s, t, r), NEW T
  PROVE  /\ None(s, T) /\ None(t, T) => None(r, T)
         /\ None(r, T) => None(s, T) /\ None(t, T)
         /\ AtMostOne(s, T) /\ None(t, T) => AtMostOne(r, T)
         /\ None(s, T) /\ AtMostOne(t, T) => AtMostOne(r, T)
<1> DEFINE m == Len(s)
           n == Len(t)
<1>1. /\ m \in Nat /\ n \in Nat /\ DOMAIN s = 1..m /\ DOMAIN t = 1..n /\ DOMAIN r = 1..(m + n)
      /\ \A i \in DOMAIN s : r[i] = s[i]
      /\ \A i \in DOMAIN t : r[m + i] = t[i]
      /\ \A i \in DOMAIN r : r[i] = IF i =< m THEN s[i] ELSE t[i - m]
  BY JoinedHas
<1> HIDE DEF m, n
<1>2. \A i \in DOMAIN r : (i =< m => i \in DOMAIN s) /\ (~(i =< m) => i - m \in DOMAIN t)
  BY <1>1
<1>3. ASSUME None(s, T), None(t, T) PROVE None(r, T)
  BY <1>1, <1>2, <1>3 DEF None
<1>4. ASSUME None(r, T) PROVE None(s, T) /\ None(t, T)
  <2>1. \A i \in DOMAIN s : i \in DOMAIN r
    BY <1>1
  <2>2. \A i \in DOMAIN t : m + i \in DOMAIN r
    BY <1>1
  <2>3. QED
    BY <1>1, <1>4, <2>1, <2>2 DEF None
<1>5. ASSUME AtMostOne(s, T), None(t, T) PROVE AtMostOne(r, T)
  BY <1>1, <1>2, <1>5 DEF None, AtMostOne
<1>6. ASSUME None(s, T), AtMostOne(t, T) PROVE AtMostOne(r, T)
  <2> SUFFICES ASSUME NEW i \in DOMAIN r, NEW j \in DOMAIN r, r[i] \in T, r[j] \in T
               PROVE  i = j
    BY DEF AtMostOne
  <2>1. ~(i =< m) /\ ~(j =< m)
    BY <1>1, <1>2, <1>6 DEF None
  <2>2. i - m = j - m
    BY <1>1, <1>2, <1>6, <2>1 DEF AtMostOne
  <2>3. QED
    BY <1>1, <2>2
<1>7. QED
  BY <1>3, <1>4, <1>5, <1>6

LEMMA PutBefore ==
  ASSUME NEW S, NEW s \in Seq(S), NEW t \in Seq(S), NEW r, Joined(s, t, r), NEW T, NEW K,
         Before(s, T, K), Before(t, T, K), None(t, T) \/ None(s, K)
  PROVE  Before(r, T, K)
<1> DEFINE m == Len(s)
           n == Len(t)
<1>1. /\ m \in Nat /\ n \in Nat /\ DOMAIN s = 1..m /\ DOMAIN t = 1..n /\ DOMAIN r = 1..(m + n)
      /\ \A i \in DOMAIN r : r[i] = IF i =< m THEN s[i] ELSE t[i - m]
  BY JoinedHas
<1> HIDE DEF m, n
<1>2. \A i \in DOMAIN r : (i =< m => i \in DOMAIN s) /\ (~(i =< m) => i - m \in DOMAIN t)
  BY <1>1
<1> SUFFICES ASSUME NEW i \in DOMAIN r, NEW j \in DOMAIN r, r[i] \in T, r[j] \in K
             PROVE  i < j
  BY DEF Before
<1>3. CASE i =< m /\ j =< m
  BY <1>1, <1>2, <1>3 DEF Before
<1>4. CASE i =< m /\ ~(j =< m)
  BY <1>1, <1>4
<1>5. CASE ~(i =< m) /\ j =< m
  BY <1>1, <1>2, <1>5 DEF None
<1>6. CASE ~(i =< m) /\ ~(j =< m)
  <2>1. i - m < j - m
    BY <1>1, <1>2, <1>6 DEF Before
  <2>2. QED
    BY <1>1, <2>1
<1>7. QED
  BY <1>3, <1>4, <1>5, <1>6

LEMMA PutLast ==
  ASSUME NEW S, NEW s \in Seq(S), NEW t \in Seq(S), NEW r, Joined(s, t, r), NEW T, NEW A,
         \/ None(t, T) /\ Last(s, T, A)
         \/ ~None(t, T) /\ Last(t, T, A)
  PROVE  Last(r, T, A)
<1> DEFINE m == Len(s)
           n == Len(t)
<1>1. /\ m \in Nat /\ n \in Nat /\ DOMAIN s = 1..m /\ DOMAIN t = 1..n /\ DOMAIN r = 1..(m + n)
      /\ \A i \in DOMAIN s : r[i] = s[i]
      /\ \A i \in DOMAIN t : r[m + i] = t[i]
      /\ \A i \in DOMAIN r : r[i] = IF i =< m THEN s[i] ELSE t[i - m]
  BY JoinedHas
<1> HIDE DEF m, n
<1> SUFFICES ASSUME NEW i \in 1..(m + n), r[i] \in T,
                    \A j \in 1..(m + n) : i < j => r[j] \notin T
             PROVE  r[i] \in A
  BY <1>1 DEF Last
<1>2. CASE None(t, T) /\ Last(s, T, A)
  <2>1. i \in 1..m
    BY <1>1, <1>2 DEF None
  <2>2. \A j \in 1..m : j \in 1..(m + n) /\ r[j] = s[j]
    BY <1>1
  <2>3. QED
    BY <1>1, <1>2, <2>1, <2>2 DEF Last
<1>3. CASE ~None(t, T) /\ Last(t, T, A)
  <2>1. PICK k \in 1..n : t[k] \in T
    BY <1>1, <1>3 DEF None
  <2>2. m + k \in 1..(m + n) /\ r[m + k] = t[k]
    BY <1>1
  <2>3. ~(i < m + k)
    BY <2>1, <2>2
  <2>4. i - m \in 1..n /\ r[i] = t[i - m]
    BY <1>1, <2>1, <2>3
  <2>5. ASSUME NEW j \in 1..n, i - m < j
        PROVE  t[j] \notin T
    <3>1. m + j \in 1..(m + n) /\ i < m + j /\ r[m + j] = t[j]
      BY <1>1, <2>5
    <3>2. QED
      BY <3>1
  <2>6. QED
    BY <1>1, <1>3, <2>4, <2>5 DEF Last
<1>4. QED
  BY <1>2, <1>3

LEMMA PutTurns ==
  ASSUME NEW S, NEW s \in Seq(S), NEW t \in Seq(S), NEW r, Joined(s, t, r), NEW T, NEW K, NEW l,
         \/ Turns(s, l, T, K) /\ None(t, K)
         \/ None(s, T) /\ t = <<l>>
  PROVE  Turns(r, l, T, K)
<1> DEFINE m == Len(s)
           n == Len(t)
<1>1. /\ m \in Nat /\ n \in Nat /\ DOMAIN s = 1..m /\ DOMAIN t = 1..n /\ DOMAIN r = 1..(m + n)
      /\ \A i \in DOMAIN s : r[i] = s[i]
      /\ \A i \in DOMAIN r : r[i] = IF i =< m THEN s[i] ELSE t[i - m]
  BY JoinedHas
<1>2. t = <<l>> => n = 1 /\ t[1] = l
  OBVIOUS
<1> HIDE DEF m, n
<1>3. CASE Turns(s, l, T, K) /\ None(t, K)
  <2>1. PICK k \in 1..m :
          /\ s[k] = l
          /\ \A j \in 1..m : (j < k => s[j] \notin T) /\ (k < j => s[j] \notin K)
    BY <1>1, <1>3 DEF Turns
  <2>2. k \in 1..(m + n) /\ r[k] = l
    BY <1>1, <2>1
  <2>3. ASSUME NEW j \in 1..(m + n)
        PROVE  (j < k => r[j] \notin T) /\ (k < j => r[j] \notin K)
    <3>1. CASE j =< m
      BY <1>1, <2>1, <3>1
    <3>2. CASE ~(j =< m)
      <4>1. j - m \in 1..n /\ r[j] = t[j - m] /\ ~(j < k)
        BY <1>1, <3>2
      <4>2. QED
        BY <1>1, <1>3, <4>1 DEF None
    <3>3. QED
      BY <3>1, <3>2
  <2>4. QED
    BY <1>1, <2>2, <2>3 DEF Turns
<1>4. CASE None(s, T) /\ t = <<l>>
  <2>1. m + 1 \in 1..(m + n) /\ r[m + 1] = l
    BY <1>1, <1>2, <1>4
  <2>2. ASSUME NEW j \in 1..(m + n)
        PROVE  (j < m + 1 => r[j] \notin T) /\ (m + 1 < j => r[j] \notin K)
    BY <1>1, <1>2, <1>4 DEF None
  <2>3. QED
    BY <1>1, <2>1, <2>2 DEF Turns
<1>5. QED
  BY <1>3, <1>4

\* Of no line, of one and of two.
LEMMA Nothing ==
  ASSUME NEW T, NEW K
  PROVE  None(<<>>, T) /\ AtMostOne(<<>>, T) /\ Before(<<>>, T, K) /\ Last(<<>>, T, K)
BY DEF None, AtMostOne, Before, Last

LEMMA One ==
  ASSUME NEW x, NEW T, NEW K
  PROVE  /\ None(<<x>>, T) <=> x \notin T
         /\ AtMostOne(<<x>>, T)
         /\ x \notin T \/ x \notin K => Before(<<x>>, T, K)
         /\ x \in K => Last(<<x>>, T, K)
BY DEF None, AtMostOne, Before, Last

LEMMA Two ==
  ASSUME NEW x, NEW y, NEW T, NEW K
  PROVE  /\ None(<<x, y>>, T) <=> x \notin T /\ y \notin T
         /\ x \notin T \/ y \notin T => AtMostOne(<<x, y>>, T)
         /\ ~(x \in T /\ x \in K) /\ y \notin T => Before(<<x, y>>, T, K)
         /\ x \in K /\ y \in K => Last(<<x, y>>, T, K)
BY DEF None, AtMostOne, Before, Last

(* ------------------------------ the state ------------------------------ *)

AllCaps == UNION {n.offered \cup n.later : n \in Networks}

UpLines(C) ==
  [kind : {"LS", "AUTHENTICATE", "CREDENTIALS", "END", "LISTNETWORKS"}]
    \cup [kind : {"REQ"}, caps : SUBSET C] \cup [kind : {"NICK"}, new : Nick]
DownLines(C) ==
  [kind : {"001", "433", "903", "904", "AUTHENTICATE", "NAK", "LISTED", "FAIL",
           "432", "902"}]
    \cup [kind : {"LS*", "LS", "ACK", "NEW", "DEL"}, caps : SUBSET C]
    \cup [kind : {"NICK"}, old : Nick, new : Nick]

\* Lines of some kinds, and those of them that name a capability.
Up(K) == {l \in UpLines(AllCaps) : l.kind \in K}
Down(K) == {l \in DownLines(AllCaps) : l.kind \in K}
UpWith(K, c) == {l \in UpLines(AllCaps) : l.kind \in K /\ c \in l.caps}
DownWith(K, c) == {l \in DownLines(AllCaps) : l.kind \in K /\ c \in l.caps}

Types == TypeOK /\ up \in Seq(UpLines(Caps)) /\ down \in Seq(DownLines(Caps))

(* ----------------------- what the client does -------------------------- *)

Fields == {"nick", "fallback", "registered", "requested", "acked", "lsBuffer", "saslPending",
           "saslAuthed", "reclaimed", "endedDuringSasl"}

\* The fields not in F stay; those of the network list do not matter.
Keeps(F) == \A f \in Fields \ F : client'[f] = client[f]

Clients == [nick : Nick, fallback : BOOLEAN, registered : BOOLEAN,
            requested : SUBSET Caps, acked : SUBSET Caps, lsBuffer : SUBSET Caps,
            saslPending : BOOLEAN, saslAuthed : BOOLEAN,
            listing : BOOLEAN, listingUnsupported : BOOLEAN,
            listed : BOOLEAN, reclaimed : Nat, endedDuringSasl : BOOLEAN]

\* A line of a kind in K is taken from the server, and say is sent.
Heard(K, say) ==
  /\ Head(down) \in DownLines(Caps) /\ Head(down).kind \in K
  /\ Taken(down, down') /\ Joined(up, say, up') /\ say \in Seq(UpLines(Caps))
  /\ client' \in Clients
  /\ UNCHANGED <<network, server, others, renames, strangers, drops>>

LEMMA LsMoreHas ==
  ASSUME Types, OnCapLsMore, UNCHANGED network
  PROVE  /\ Heard({"LS*"}, <<>>) /\ Keeps({"lsBuffer"}) /\ Head(down).caps \subseteq Caps
         /\ client'.lsBuffer = client.lsBuffer \cup Head(down).caps
<1>1. /\ Head(down) \in DownLines(Caps) /\ Head(down).kind = "LS*"
      /\ Taken(down, down') /\ Joined(up, <<>>, up')
      /\ UNCHANGED <<network, server, others, renames, strangers, drops>>
      /\ client' = [client EXCEPT !.lsBuffer = @ \cup Head(down).caps]
  BY DEF Types, OnCapLsMore, Handles, Says, Taken, Joined
<1>2. Head(down).caps \subseteq Caps
  BY <1>1 DEF DownLines
<1>3. client \in Clients
  BY DEF Types, TypeOK, Clients
<1>4. QED
  BY <1>1, <1>2, <1>3 DEF Clients, Keeps, Fields, Heard

LEMMA LsHas ==
  ASSUME Types, OnCapLs, UNCHANGED network
  PROVE  LET want == (client.lsBuffer \cup Head(down).caps) \cap Desired
         IN  /\ Head(down).caps \subseteq Caps /\ client'.lsBuffer = {}
             /\ \/ /\ want = {} /\ Heard({"LS"}, <<Line("END")>>)
                   /\ Keeps({"lsBuffer", "endedDuringSasl"})
                   /\ client'.endedDuringSasl = (client.endedDuringSasl \/ client.saslPending)
                \/ /\ want # {} /\ Heard({"LS"}, <<CapLine("REQ", want)>>)
                   /\ Keeps({"lsBuffer", "requested"}) /\ client'.requested = want
<1> DEFINE want == (client.lsBuffer \cup Head(down).caps) \cap Desired
           c == [client EXCEPT !.lsBuffer = {}]
           ended == client.endedDuringSasl \/ client.saslPending
<1>1. /\ Head(down) \in DownLines(Caps) /\ Head(down).kind = "LS" /\ Taken(down, down')
      /\ UNCHANGED <<network, server, others, renames, strangers, drops>>
      /\ \/ /\ want = {} /\ client' = Ending(c) /\ Joined(up, <<Line("END")>>, up')
         \/ /\ want # {} /\ client' = [c EXCEPT !.requested = want]
            /\ Joined(up, <<CapLine("REQ", want)>>, up')
  BY DEF Types, OnCapLs, Handles, Says, Taken, Joined
<1>2. Head(down).caps \subseteq Caps
  BY <1>1 DEF DownLines
<1>3. client \in Clients /\ want \subseteq Caps
  BY <1>2 DEF Types, TypeOK, Clients
<1>4. <<Line("END")>> \in Seq(UpLines(Caps))
  BY DEF Line, UpLines
<1>5. <<CapLine("REQ", want)>> \in Seq(UpLines(Caps))
  <2>1. CapLine("REQ", want) \in UpLines(Caps)
    BY <1>3 DEF CapLine, UpLines
  <2>2. QED
    BY <2>1
<1>6. ended \in BOOLEAN /\ Ending(c) = [c EXCEPT !.endedDuringSasl = ended]
  <2>1. c.endedDuringSasl = client.endedDuringSasl /\ c.saslPending = client.saslPending
    BY <1>3 DEF Clients
  <2>2. ended \in BOOLEAN
    BY Zenon
  <2> HIDE DEF c
  <2>3. QED
    BY <2>1, <2>2, Zenon DEF Ending
<1> HIDE DEF want, ended
<1>7. CASE want = {} /\ client' = Ending(c) /\ Joined(up, <<Line("END")>>, up')
  <2>1. client' = [c EXCEPT !.endedDuringSasl = ended]
    BY <1>6, <1>7
  <2>2. client' \in Clients /\ client'.lsBuffer = {} /\ client'.endedDuringSasl = ended
        /\ Keeps({"lsBuffer", "endedDuringSasl"})
    BY <1>3, <1>6, <2>1 DEF Clients, Keeps, Fields
  <2>3. Heard({"LS"}, <<Line("END")>>)
    BY <1>1, <1>4, <1>7, <2>2 DEF Heard
  <2>4. QED
    BY <1>2, <1>7, <2>2, <2>3 DEF ended, want
<1>8. CASE /\ want # {} /\ client' = [c EXCEPT !.requested = want]
           /\ Joined(up, <<CapLine("REQ", want)>>, up')
  <2>1. client' \in Clients /\ client'.lsBuffer = {} /\ client'.requested = want
        /\ Keeps({"lsBuffer", "requested"})
    BY <1>3, <1>8 DEF Clients, Keeps, Fields
  <2>2. Heard({"LS"}, <<CapLine("REQ", want)>>)
    BY <1>1, <1>5, <1>8, <2>1 DEF Heard
  <2>3. QED
    BY <1>2, <1>8, <2>1, <2>2 DEF want
<1>9. QED
  BY <1>1, <1>7, <1>8

\* What an ACK brings: nothing once registered, the start of SASL, the end of
\* the negotiation, or a wait for the sasl of another line of the same ACK.
Then(list) == IF list THEN <<Line("LISTNETWORKS")>> ELSE <<>>
Asking(c) == [c EXCEPT !.listing = TRUE, !.listed = TRUE]

LEMMA AckHas ==
  ASSUME Types, OnCapAck, UNCHANGED network
  PROVE  LET caps == Head(down).caps
             sasl == "sasl" \in caps /\ network.sasl
         IN  /\ caps \subseteq Caps /\ client'.acked = client.acked \cup caps
             /\ \E list \in BOOLEAN :
                  \/ /\ client.registered /\ Heard({"ACK"}, Then(list)) /\ Keeps({"acked"})
                  \/ /\ ~client.registered /\ sasl /\ Heard({"ACK"}, <<Line("AUTHENTICATE")>>)
                     /\ client'.saslPending /\ Keeps({"acked", "saslPending"})
                  \/ /\ ~client.registered /\ ~sasl
                     /\ "sasl" \notin client.requested \/ "sasl" \in client'.acked
                     /\ Heard({"ACK"}, <<Line("END")>> \o Then(list))
                     /\ client'.endedDuringSasl = (client.endedDuringSasl \/ client.saslPending)
                     /\ Keeps({"acked", "endedDuringSasl"})
                  \/ /\ ~client.registered /\ ~sasl
                     /\ "sasl" \in client.requested /\ "sasl" \notin client'.acked
                     /\ Heard({"ACK"}, Then(list)) /\ Keeps({"acked"})
<1> DEFINE caps == Head(down).caps
           sasl == "sasl" \in caps /\ network.sasl
           c == [client EXCEPT !.acked = @ \cup caps]
           a == Acknowledged(c, caps)
           list == /\ network.soju
                   /\ "networks" \in a.then.acked
                   /\ ~a.then.saslPending
                   /\ ~a.then.listing
                   /\ ~a.then.listingUnsupported
           ended == client.endedDuringSasl \/ client.saslPending
           next == IF list THEN Asking(a.then) ELSE a.then
<1>1. /\ Head(down) \in DownLines(Caps) /\ Head(down).kind = "ACK" /\ Taken(down, down')
      /\ UNCHANGED <<network, server, others, renames, strangers, drops>>
      /\ client' = next
      /\ Joined(up, IF list THEN a.say \o Then(TRUE) ELSE a.say, up')
  <2>1. /\ Head(down) \in DownLines(Caps) /\ Head(down).kind = "ACK" /\ Taken(down, down')
    BY DEF Types, OnCapAck, Handles, Taken
  <2>2. IF list THEN Says(Asking(a.then), a.say \o Then(TRUE)) ELSE Says(a.then, a.say)
    BY Zenon DEF OnCapAck, Asking, Then
  <2> HIDE DEF a, list
  <2>3. QED
    BY <2>1, <2>2 DEF Says, Joined
<1>2. caps \subseteq Caps
  BY <1>1 DEF DownLines
<1>3. client \in Clients
  BY DEF Types, TypeOK, Clients
<1>4. c \in Clients /\ c.acked = client.acked \cup caps
      /\ \A f \in Fields \ {"acked"} : c[f] = client[f]
  BY <1>2, <1>3 DEF Clients, Fields
<1>5. Line("END") \in UpLines(Caps) /\ Line("LISTNETWORKS") \in UpLines(Caps)
      /\ Line("AUTHENTICATE") \in UpLines(Caps)
  BY DEF Line, UpLines
<1>6. \A b \in BOOLEAN : /\ Then(b) \in Seq(UpLines(Caps)) /\ <<>> \o Then(b) = Then(b)
                         /\ <<Line("END")>> \o <<>> = <<Line("END")>>
                         /\ <<Line("END")>> \o Then(b) \in Seq(UpLines(Caps))
  BY <1>5 DEF Then
<1>7. list \in BOOLEAN /\ sasl \in BOOLEAN /\ ended \in BOOLEAN
  BY Zenon
<1>8. \A d \in Clients : Asking(d) \in Clients /\ \A f \in Fields : Asking(d)[f] = d[f]
  BY DEF Clients, Fields, Asking
<1> HIDE DEF c
<1>9. CASE c.registered
  <2>1. a = [then |-> c, say |-> <<>>]
    BY <1>9 DEF Acknowledged
  <2>2. a.then = c /\ a.say = <<>>
    BY <2>1
  <2> HIDE DEF a
  <2> HIDE DEF list
  <2>3. Joined(up, Then(list), up')
    BY <1>1, <1>6, <1>7, <2>2 DEF Then
  <2>4. next \in Clients /\ \A f \in Fields : next[f] = c[f]
    BY <1>4, <1>8, <2>2
  <2> HIDE DEF next
  <2>5. Heard({"ACK"}, Then(list)) /\ Keeps({"acked"}) /\ client'.acked = client.acked \cup caps
        /\ client.registered
    BY <1>1, <1>4, <1>6, <1>7, <1>9, <2>3, <2>4 DEF Heard, Keeps, Fields
  <2>6. QED
    BY <1>2, <1>7, <2>5
<1>10. CASE ~c.registered /\ sasl
  <2> DEFINE d == [c EXCEPT !.saslPending = TRUE]
  <2>1. a = [then |-> d, say |-> <<Line("AUTHENTICATE")>>]
    BY <1>10 DEF Acknowledged
  <2>2. d \in Clients /\ d.saslPending /\ \A f \in Fields \ {"saslPending"} : d[f] = c[f]
    BY <1>4 DEF Clients, Fields
  <2> HIDE DEF d
  <2>3. a.then = d /\ a.say = <<Line("AUTHENTICATE")>>
    BY <2>1
  <2>4. ~list
    BY <2>2, <2>3
  <2> HIDE DEF a, list
  <2>5. client' = d /\ Joined(up, <<Line("AUTHENTICATE")>>, up')
    BY <1>1, <2>3, <2>4
  <2>6. <<Line("AUTHENTICATE")>> \in Seq(UpLines(Caps))
    BY <1>5
  <2>7. Heard({"ACK"}, <<Line("AUTHENTICATE")>>) /\ client'.saslPending
        /\ Keeps({"acked", "saslPending"}) /\ client'.acked = client.acked \cup caps
        /\ ~client.registered
    BY <1>1, <1>4, <1>10, <2>2, <2>5, <2>6 DEF Heard, Keeps, Fields
  <2>8. QED
    BY <1>2, <1>7, <1>10, <2>7
<1>11. CASE ~c.registered /\ ~sasl /\ ("sasl" \notin c.requested \/ "sasl" \in c.acked)
  <2> DEFINE d == [c EXCEPT !.endedDuringSasl = ended]
  <2>1. Ending(c) = d
    BY <1>4, Zenon DEF Ending, Fields
  <2>2. a = [then |-> d, say |-> <<Line("END")>>]
    BY <1>11, <2>1 DEF Acknowledged
  <2> HIDE DEF ended
  <2>3. d \in Clients /\ d.endedDuringSasl = ended
        /\ \A f \in Fields \ {"endedDuringSasl"} : d[f] = c[f]
    BY <1>4, <1>7 DEF Clients, Fields
  <2> HIDE DEF d
  <2>4. a.then = d /\ a.say = <<Line("END")>>
    BY <2>2
  <2> HIDE DEF a, list
  <2>5. Joined(up, <<Line("END")>> \o Then(list), up')
    BY <1>1, <1>6, <1>7, <2>4 DEF Then
  <2>6. next \in Clients /\ \A f \in Fields : next[f] = d[f]
    BY <1>8, <2>3, <2>4
  <2> HIDE DEF next
  <2>7. /\ Heard({"ACK"}, <<Line("END")>> \o Then(list)) /\ client'.endedDuringSasl = ended
        /\ Keeps({"acked", "endedDuringSasl"}) /\ client'.acked = client.acked \cup caps
        /\ ~client.registered
        /\ "sasl" \notin client.requested \/ "sasl" \in client'.acked
    BY <1>1, <1>4, <1>6, <1>7, <1>11, <2>3, <2>5, <2>6 DEF Heard, Keeps, Fields
  <2>8. QED
    BY <1>2, <1>7, <1>11, <2>7 DEF ended
<1>12. CASE ~c.registered /\ ~sasl /\ ~("sasl" \notin c.requested \/ "sasl" \in c.acked)
  <2>1. a = [then |-> c, say |-> <<>>]
    BY <1>12 DEF Acknowledged
  <2>2. a.then = c /\ a.say = <<>>
    BY <2>1
  <2> HIDE DEF a
  <2> HIDE DEF list
  <2>3. Joined(up, Then(list), up')
    BY <1>1, <1>6, <1>7, <2>2 DEF Then
  <2>4. next \in Clients /\ \A f \in Fields : next[f] = c[f]
    BY <1>4, <1>8, <2>2
  <2> HIDE DEF next
  <2>5. /\ Heard({"ACK"}, Then(list)) /\ Keeps({"acked"}) /\ client'.acked = client.acked \cup caps
        /\ ~client.registered /\ "sasl" \in client.requested /\ "sasl" \notin client'.acked
    BY <1>1, <1>4, <1>6, <1>7, <1>12, <2>3, <2>4 DEF Heard, Keeps, Fields
  <2>6. QED
    BY <1>2, <1>7, <1>12, <2>5
<1>13. QED
  BY <1>9, <1>10, <1>11, <1>12

LEMMA NakHas ==
  ASSUME Types, OnCapNak, UNCHANGED network
  PROVE  \/ client.registered /\ Heard({"NAK"}, <<>>) /\ Keeps({})
         \/ /\ ~client.registered /\ Heard({"NAK"}, <<Line("END")>>) /\ Keeps({"endedDuringSasl"})
            /\ client'.endedDuringSasl = (client.endedDuringSasl \/ client.saslPending)
<1> DEFINE ended == client.endedDuringSasl \/ client.saslPending
<1>1. /\ Head(down) \in DownLines(Caps) /\ Head(down).kind = "NAK" /\ Taken(down, down')
      /\ UNCHANGED <<network, server, others, renames, strangers, drops>>
      /\ \/ client.registered /\ client' = client /\ Joined(up, <<>>, up')
         \/ ~client.registered /\ client' = Ending(client) /\ Joined(up, <<Line("END")>>, up')
  BY DEF Types, OnCapNak, Handles, Says, Taken, Joined
<1>2. client \in Clients
  BY DEF Types, TypeOK, Clients
<1>3. <<Line("END")>> \in Seq(UpLines(Caps)) /\ <<>> \in Seq(UpLines(Caps))
  BY DEF Line, UpLines
<1>4. ended \in BOOLEAN /\ Ending(client) = [client EXCEPT !.endedDuringSasl = ended]
  BY Zenon DEF Ending
<1> HIDE DEF ended
<1>5. Ending(client) \in Clients /\ Ending(client).endedDuringSasl = ended
      /\ \A f \in Fields \ {"endedDuringSasl"} : Ending(client)[f] = client[f]
  BY <1>2, <1>4 DEF Clients, Fields
<1>6. CASE client.registered /\ client' = client /\ Joined(up, <<>>, up')
  BY <1>1, <1>2, <1>3, <1>6 DEF Heard, Keeps
<1>7. CASE ~client.registered /\ client' = Ending(client) /\ Joined(up, <<Line("END")>>, up')
  BY <1>1, <1>3, <1>5, <1>7 DEF Heard, Keeps, ended
<1>8. QED
  BY <1>1, <1>6, <1>7

LEMMA NewHas ==
  ASSUME Types, OnCapNew, UNCHANGED network
  PROVE  LET want == (Head(down).caps \cap Desired) \ client.acked
         IN  /\ Keeps({}) /\ client' = client /\ want \subseteq Caps
             /\ \/ want = {} /\ Heard({"NEW"}, <<>>)
                \/ want # {} /\ Heard({"NEW"}, <<CapLine("REQ", want)>>)
<1> DEFINE want == (Head(down).caps \cap Desired) \ client.acked
<1>1. /\ Head(down) \in DownLines(Caps) /\ Head(down).kind = "NEW" /\ Taken(down, down')
      /\ UNCHANGED <<network, server, others, renames, strangers, drops>>
      /\ client' = client
      /\ \/ want = {} /\ Joined(up, <<>>, up')
         \/ want # {} /\ Joined(up, <<CapLine("REQ", want)>>, up')
  BY DEF Types, OnCapNew, Handles, Says, Taken, Joined
<1>2. client \in Clients
  BY DEF Types, TypeOK, Clients
<1>3. want \subseteq Caps
  <2>1. Head(down).caps \subseteq Caps
    BY <1>1 DEF DownLines
  <2>2. QED
    BY <2>1
<1>4. CapLine("REQ", want) \in UpLines(Caps)
  BY <1>3 DEF CapLine, UpLines
<1>5. <<CapLine("REQ", want)>> \in Seq(UpLines(Caps)) /\ <<>> \in Seq(UpLines(Caps))
  BY <1>4
<1>6. Keeps({})
  BY <1>1 DEF Keeps
<1> HIDE DEF want
<1>7. (want = {} /\ Heard({"NEW"}, <<>>)) \/ (want # {} /\ Heard({"NEW"}, <<CapLine("REQ", want)>>))
  BY <1>1, <1>2, <1>5 DEF Heard
<1>8. QED
  BY <1>1, <1>3, <1>6, <1>7 DEF want

LEMMA DelHas ==
  ASSUME Types, OnCapDel, UNCHANGED network
  PROVE  /\ Heard({"DEL"}, <<>>) /\ Keeps({"acked"}) /\ Head(down).caps \subseteq Caps
         /\ client'.acked = client.acked \ Head(down).caps
<1>1. /\ Head(down) \in DownLines(Caps) /\ Head(down).kind = "DEL"
      /\ Taken(down, down') /\ Joined(up, <<>>, up')
      /\ UNCHANGED <<network, server, others, renames, strangers, drops>>
      /\ client' = [client EXCEPT !.acked = @ \ Head(down).caps]
  BY DEF Types, OnCapDel, Handles, Says, Taken, Joined
<1>2. Head(down).caps \subseteq Caps
  BY <1>1 DEF DownLines
<1>3. client \in Clients
  BY DEF Types, TypeOK, Clients
<1>4. QED
  BY <1>1, <1>2, <1>3 DEF Clients, Keeps, Fields, Heard

LEMMA AuthenticateHas ==
  ASSUME Types, OnAuthenticate, UNCHANGED network
  PROVE  Heard({"AUTHENTICATE"}, <<Line("CREDENTIALS")>>) /\ Keeps({})
<1>1. /\ Head(down) \in DownLines(Caps) /\ Head(down).kind = "AUTHENTICATE"
      /\ Taken(down, down') /\ Joined(up, <<Line("CREDENTIALS")>>, up')
      /\ UNCHANGED <<network, server, others, renames, strangers, drops>>
      /\ client' = client
  BY DEF Types, OnAuthenticate, Handles, Says, Taken, Joined
<1>2. client \in Clients
  BY DEF Types, TypeOK, Clients
<1>3. <<Line("CREDENTIALS")>> \in Seq(UpLines(Caps))
  BY DEF Line, UpLines
<1>4. QED
  BY <1>1, <1>2, <1>3 DEF Keeps, Heard

LEMMA SuccessHas ==
  ASSUME Types, OnSaslSuccess, UNCHANGED network
  PROVE  /\ Heard({"903"}, <<Line("END")>>) /\ Keeps({"saslAuthed", "saslPending"})
         /\ client'.saslAuthed /\ ~client'.saslPending
<1>1. /\ Head(down) \in DownLines(Caps) /\ Head(down).kind = "903"
      /\ Taken(down, down') /\ Joined(up, <<Line("END")>>, up')
      /\ UNCHANGED <<network, server, others, renames, strangers, drops>>
      /\ client' = [client EXCEPT !.saslAuthed = TRUE, !.saslPending = FALSE]
  BY DEF Types, OnSaslSuccess, Handles, Says, Taken, Joined
<1>2. client \in Clients
  BY DEF Types, TypeOK, Clients
<1>3. <<Line("END")>> \in Seq(UpLines(Caps))
  BY DEF Line, UpLines
<1>4. QED
  BY <1>1, <1>2, <1>3 DEF Clients, Keeps, Fields, Heard

LEMMA FailureHas ==
  ASSUME Types, OnSaslFailure, UNCHANGED network
  PROVE  Heard({"904"}, <<Line("END")>>) /\ Keeps({"saslPending"}) /\ ~client'.saslPending
<1>1. /\ Head(down) \in DownLines(Caps) /\ Head(down).kind = "904"
      /\ Taken(down, down') /\ Joined(up, <<Line("END")>>, up')
      /\ UNCHANGED <<network, server, others, renames, strangers, drops>>
      /\ client' = [client EXCEPT !.saslPending = FALSE]
  BY DEF Types, OnSaslFailure, Handles, Says, Taken, Joined
<1>2. client \in Clients
  BY DEF Types, TypeOK, Clients
<1>3. <<Line("END")>> \in Seq(UpLines(Caps))
  BY DEF Line, UpLines
<1>4. QED
  BY <1>1, <1>2, <1>3 DEF Clients, Keeps, Fields, Heard

LEMMA NickInUseHas ==
  ASSUME Types, OnNickInUse, UNCHANGED network, client.registered \/ client.nick # MaxNick
  PROVE  \/ client.registered /\ Heard({"433"}, <<>>) /\ Keeps({})
         \/ /\ ~client.registered /\ Heard({"433"}, <<SetNickLine(client.nick + 1)>>)
            /\ Keeps({"nick", "fallback"}) /\ client'.nick = client.nick + 1 /\ client'.fallback
            /\ client.nick + 1 \in Nick
<1> DEFINE next == [SetNick(client, client.nick + 1) EXCEPT !.fallback = TRUE]
<1>1. /\ Head(down) \in DownLines(Caps) /\ Head(down).kind = "433" /\ Taken(down, down')
      /\ UNCHANGED <<network, server, others, renames, strangers, drops>>
      /\ \/ client.registered /\ client' = client /\ Joined(up, <<>>, up')
         \/ ~client.registered /\ client' = next /\ Joined(up, <<SetNickLine(client.nick + 1)>>, up')
  BY DEF Types, OnNickInUse, Handles, Says, Taken, Joined
<1>2. client \in Clients
  BY DEF Types, TypeOK, Clients
<1>3. CASE client.registered /\ client' = client /\ Joined(up, <<>>, up')
  <2>1. <<>> \in Seq(UpLines(Caps))
    OBVIOUS
  <2>2. QED
    BY <1>1, <1>2, <1>3, <2>1 DEF Heard, Keeps
<1>4. CASE ~client.registered /\ client' = next /\ Joined(up, <<SetNickLine(client.nick + 1)>>, up')
  <2>1. client.nick + 1 \in Nick
    BY <1>2, <1>4, NickAssumption DEF Clients, Nick
  <2>2. SetNickLine(client.nick + 1) \in UpLines(Caps)
    BY <2>1 DEF SetNickLine, UpLines
  <2>3. <<SetNickLine(client.nick + 1)>> \in Seq(UpLines(Caps))
    BY <2>2
  <2>4. next \in Clients /\ next.nick = client.nick + 1 /\ next.fallback
        /\ \A f \in Fields \ {"nick", "fallback"} : next[f] = client[f]
    BY <1>2, <2>1 DEF Clients, Fields, SetNick
  <2> HIDE DEF next
  <2>5. QED
    BY <1>1, <1>4, <2>1, <2>3, <2>4 DEF Heard, Keeps
<1>5. QED
  BY <1>1, <1>3, <1>4

LEMMA WelcomeHas ==
  ASSUME Types, OnWelcome, UNCHANGED network
  PROVE  /\ client'.registered /\ ~client'.fallback
         /\ \/ /\ client.fallback /\ client.saslAuthed /\ client.nick # 0
               /\ Heard({"001"}, <<SetNickLine(0)>>) /\ Keeps({"registered", "fallback", "reclaimed"})
               /\ client'.reclaimed = client.reclaimed + 1
            \/ /\ ~(client.fallback /\ client.saslAuthed /\ client.nick # 0)
               /\ Heard({"001"}, <<>>) /\ Keeps({"registered", "fallback"})
<1> DEFINE c == [client EXCEPT !.registered = TRUE, !.fallback = FALSE]
           d == [c EXCEPT !.reclaimed = @ + 1]
           reclaim == client.fallback /\ client.saslAuthed /\ client.nick # 0
<1>1. /\ Head(down) \in DownLines(Caps) /\ Head(down).kind = "001" /\ Taken(down, down')
      /\ UNCHANGED <<network, server, others, renames, strangers, drops>>
      /\ \/ reclaim /\ client' = d /\ Joined(up, <<SetNickLine(0)>>, up')
         \/ ~reclaim /\ client' = c /\ Joined(up, <<>>, up')
  BY DEF Types, OnWelcome, Handles, Says, Taken, Joined
<1>2. client \in Clients
  BY DEF Types, TypeOK, Clients
<1>3. /\ c \in Clients /\ c.registered /\ ~c.fallback
      /\ \A f \in Fields \ {"registered", "fallback"} : c[f] = client[f]
  BY <1>2 DEF Clients, Fields
<1> HIDE DEF c
<1>4. /\ d \in Clients /\ d.registered /\ ~d.fallback /\ d.reclaimed = client.reclaimed + 1
      /\ \A f \in Fields \ {"registered", "fallback", "reclaimed"} : d[f] = client[f]
  <2>1. c.reclaimed = client.reclaimed /\ client.reclaimed \in Nat
    BY <1>2, <1>3 DEF Clients, Fields
  <2>2. d \in Clients /\ d.reclaimed = client.reclaimed + 1
        /\ \A f \in Fields \ {"reclaimed"} : d[f] = c[f]
    BY <1>3, <2>1 DEF Clients, Fields
  <2>3. QED
    BY <1>3, <2>2 DEF Fields
<1> HIDE DEF d
<1>5. <<SetNickLine(0)>> \in Seq(UpLines(Caps)) /\ <<>> \in Seq(UpLines(Caps))
  <2>1. SetNickLine(0) \in UpLines(Caps)
    BY NickAssumption DEF SetNickLine, UpLines, Nick
  <2>2. QED
    BY <2>1
<1>6. CASE reclaim /\ client' = d /\ Joined(up, <<SetNickLine(0)>>, up')
  BY <1>1, <1>4, <1>5, <1>6 DEF Heard, Keeps
<1>7. CASE ~reclaim /\ client' = c /\ Joined(up, <<>>, up')
  BY <1>1, <1>3, <1>5, <1>7 DEF Heard, Keeps
<1>8. QED
  BY <1>1, <1>6, <1>7

LEMMA NickHas ==
  ASSUME Types, OnNick, UNCHANGED network
  PROVE  /\ Heard({"NICK"}, <<>>) /\ Keeps({"nick"})
         /\ client'.nick = IF client.nick \in {Head(down).old, Head(down).new}
                           THEN Head(down).new ELSE client.nick
<1> DEFINE line == Head(down)
           next == IF client.nick \in {line.old, line.new}
                   THEN [client EXCEPT !.nick = line.new] ELSE client
<1>1. /\ line \in DownLines(Caps) /\ line.kind = "NICK" /\ Taken(down, down') /\ Joined(up, <<>>, up')
      /\ UNCHANGED <<network, server, others, renames, strangers, drops>>
      /\ client' = next
  BY DEF Types, OnNick, Handles, Says, Taken, Joined
<1>2. client \in Clients
  BY DEF Types, TypeOK, Clients
<1>3. line.new \in Nick /\ line.old \in Nick
  BY <1>1 DEF DownLines
<1> HIDE DEF line
<1>4. next \in Clients /\ \A f \in Fields \ {"nick"} : next[f] = client[f]
  BY <1>2, <1>3 DEF Clients, Fields
<1>5. next.nick = IF client.nick \in {line.old, line.new} THEN line.new ELSE client.nick
  BY <1>2, <1>3 DEF Clients
<1> HIDE DEF next
<1>6. <<>> \in Seq(UpLines(Caps))
  OBVIOUS
<1>7. QED
  BY <1>1, <1>4, <1>5, <1>6 DEF Heard, Keeps, line

\* Nothing but the fields of the network list changes.
Noted == OnNetworksListed \/ OnListingRejected \/ OnNickError \/ OnOtherNumeric
NotedKinds == {"LISTED", "FAIL", "432", "902"}

LEMMA NotedHas ==
  ASSUME Types, Noted, UNCHANGED network
  PROVE  Keeps({}) /\ \E k \in NotedKinds : Heard({k}, <<>>)
<1>1. /\ Head(down) \in DownLines(Caps) /\ Head(down).kind \in NotedKinds
      /\ Taken(down, down') /\ Joined(up, <<>>, up')
      /\ UNCHANGED <<network, server, others, renames, strangers, drops>>
      /\ \/ client' = [client EXCEPT !.listing = FALSE]
         \/ client' = [client EXCEPT !.listingUnsupported = TRUE]
         \/ client' = client
  BY DEF Types, Noted, NotedKinds, OnNetworksListed, OnListingRejected, OnNickError, OnOtherNumeric,
         Handles, Says, Taken, Joined
<1>2. client \in Clients
  BY DEF Types, TypeOK, Clients
<1>3. client' \in Clients /\ \A f \in Fields : client'[f] = client[f]
  BY <1>1, <1>2 DEF Clients, Fields
<1>4. QED
  BY <1>1, <1>3 DEF Keeps, Heard

(* ----------------------- what the server does -------------------------- *)

ServerFields == {"link", "holding", "enabled", "announced", "auth", "nick", "registered"}
Servers == [link : BOOLEAN, holding : BOOLEAN, enabled : SUBSET Caps, announced : SUBSET Caps,
            auth : {"none", "asked", "done", "failed"}, nick : Nick \cup {-1}, registered : BOOLEAN,
            unheeded : BOOLEAN]

Stays(F) == \A f \in ServerFields \ F : server'[f] = server[f]

\* say is sent to the client, unasked (Sent) or for a line of kind k (Served).
Sent(say) ==
  /\ Joined(down, say, down') /\ say \in Seq(DownLines(Caps)) /\ server' \in Servers
  /\ UNCHANGED <<network, client, renames, drops>>
Served(k, say) ==
  /\ Head(up) \in UpLines(Caps) /\ Head(up).kind = k /\ Taken(up, up') /\ Sent(say)
  /\ UNCHANGED <<others, strangers>>

LEMMA ServerLsHas ==
  ASSUME Types, ServerLs, UNCHANGED network
  PROVE  /\ Stays({"holding", "announced"}) /\ server'.holding /\ server'.announced = network.offered
         /\ \E first \in SUBSET network.offered :
              \/ first = {} /\ Served("LS", <<CapLine("LS", network.offered)>>)
              \/ Served("LS", <<CapLine("LS*", first), CapLine("LS", network.offered \ first)>>)
<1>1. PICK first \in SUBSET network.offered :
        Replies([server EXCEPT !.holding = TRUE, !.announced = network.offered],
                IF first = {} THEN <<CapLine("LS", network.offered)>>
                ELSE <<CapLine("LS*", first), CapLine("LS", network.offered \ first)>>)
  BY DEF ServerLs
<1>2. /\ Head(up) \in UpLines(Caps) /\ Head(up).kind = "LS" /\ Taken(up, up')
      /\ UNCHANGED <<network, client, others, renames, strangers, drops>>
      /\ server' = [server EXCEPT !.holding = TRUE, !.announced = network.offered]
      /\ \/ first = {} /\ Joined(down, <<CapLine("LS", network.offered)>>, down')
         \/ Joined(down, <<CapLine("LS*", first), CapLine("LS", network.offered \ first)>>, down')
  BY <1>1 DEF Types, ServerLs, Receives, Replies, Taken, Joined
<1>3. server \in Servers /\ network.offered \subseteq Caps
  BY DEF Types, TypeOK, Servers, Caps
<1>4. server' \in Servers /\ server'.holding /\ server'.announced = network.offered
      /\ Stays({"holding", "announced"})
  BY <1>2, <1>3 DEF Servers, Stays, ServerFields
<1>5. \A c \in SUBSET Caps : CapLine("LS", c) \in DownLines(Caps) /\ CapLine("LS*", c) \in DownLines(Caps)
  BY DEF CapLine, DownLines
<1>6. /\ <<CapLine("LS", network.offered)>> \in Seq(DownLines(Caps))
      /\ <<CapLine("LS*", first), CapLine("LS", network.offered \ first)>> \in Seq(DownLines(Caps))
  <2>1. /\ CapLine("LS", network.offered) \in DownLines(Caps) /\ CapLine("LS*", first) \in DownLines(Caps)
        /\ CapLine("LS", network.offered \ first) \in DownLines(Caps)
    BY <1>3, <1>5
  <2>2. QED
    BY <2>1
<1>7. QED
  BY <1>2, <1>4, <1>6 DEF Served, Sent

LEMMA ServerReqHas ==
  ASSUME Types, ServerReq, UNCHANGED network
  PROVE  LET caps == Head(up).caps
         IN  /\ caps \subseteq Caps
             /\ \/ /\ Stays({"enabled"}) /\ server'.enabled = server.enabled \cup caps
                   /\ Served("REQ", <<CapLine("ACK", caps)>>)
                \/ /\ Stays({"enabled"}) /\ server'.enabled = server.enabled \cup caps /\ network.split
                   /\ \E first \in SUBSET caps :
                        Served("REQ", <<CapLine("ACK", first), CapLine("ACK", caps \ first)>>)
                \/ Stays({}) /\ Served("REQ", <<Line("NAK")>>)
<1> DEFINE caps == Head(up).caps
           granted == [server EXCEPT !.enabled = @ \cup caps]
<1>1. /\ Head(up) \in UpLines(Caps) /\ Head(up).kind = "REQ" /\ Taken(up, up')
      /\ UNCHANGED <<network, client, others, renames, strangers, drops>>
      /\ \/ server' = granted /\ Joined(down, <<CapLine("ACK", caps)>>, down')
         \/ /\ network.split /\ server' = granted
            /\ \E first \in SUBSET caps :
                 Joined(down, <<CapLine("ACK", first), CapLine("ACK", caps \ first)>>, down')
         \/ server' = server /\ Joined(down, <<Line("NAK")>>, down')
  <2>1. /\ Receives("REQ")
        /\ \/ Replies(granted, <<CapLine("ACK", caps)>>)
           \/ /\ network.split
              /\ \E first \in (SUBSET caps) \ {{}, caps} :
                   Replies(granted, <<CapLine("ACK", first), CapLine("ACK", caps \ first)>>)
           \/ Replies(server, <<Line("NAK")>>)
    BY Zenon DEF ServerReq
  <2> HIDE DEF granted, caps
  <2>2. /\ Head(up) \in UpLines(Caps) /\ Head(up).kind = "REQ" /\ Taken(up, up')
    BY <2>1 DEF Types, Receives, Taken
  <2>3. QED
    BY <2>1, <2>2 DEF Replies, Joined
<1>2. caps \subseteq Caps
  BY <1>1 DEF UpLines
<1>3. server \in Servers
  BY DEF Types, TypeOK, Servers
<1> HIDE DEF caps
<1>4. granted \in Servers /\ granted.enabled = server.enabled \cup caps
      /\ \A f \in ServerFields \ {"enabled"} : granted[f] = server[f]
  BY <1>2, <1>3 DEF Servers, ServerFields
<1> HIDE DEF granted
<1>5. \A c \in SUBSET Caps : CapLine("ACK", c) \in DownLines(Caps)
  BY DEF CapLine, DownLines
<1>6. CASE server' = granted /\ Joined(down, <<CapLine("ACK", caps)>>, down')
  <2>1. <<CapLine("ACK", caps)>> \in Seq(DownLines(Caps))
    BY <1>2, <1>5
  <2>2. QED
    BY <1>1, <1>2, <1>4, <1>6, <2>1 DEF Served, Sent, Stays, caps
<1>7. CASE /\ network.split /\ server' = granted
           /\ \E first \in SUBSET caps :
                Joined(down, <<CapLine("ACK", first), CapLine("ACK", caps \ first)>>, down')
  <2>1. PICK first \in SUBSET caps :
          Joined(down, <<CapLine("ACK", first), CapLine("ACK", caps \ first)>>, down')
    BY <1>7
  <2>2. CapLine("ACK", first) \in DownLines(Caps) /\ CapLine("ACK", caps \ first) \in DownLines(Caps)
    BY <1>2, <1>5
  <2>3. <<CapLine("ACK", first), CapLine("ACK", caps \ first)>> \in Seq(DownLines(Caps))
    BY <2>2
  <2>4. QED
    BY <1>1, <1>2, <1>4, <1>7, <2>1, <2>3 DEF Served, Sent, Stays, caps
<1>8. CASE server' = server /\ Joined(down, <<Line("NAK")>>, down')
  <2>1. <<Line("NAK")>> \in Seq(DownLines(Caps))
    BY DEF Line, DownLines
  <2>2. QED
    BY <1>1, <1>2, <1>3, <1>8, <2>1 DEF Served, Sent, Stays, caps
<1>9. QED
  BY <1>1, <1>6, <1>7, <1>8

LEMMA ServerAuthenticateHas ==
  ASSUME Types, ServerAuthenticate, UNCHANGED network
  PROVE  \/ server.registered /\ Served("AUTHENTICATE", <<Line("904")>>) /\ Stays({})
         \/ /\ ~server.registered /\ Served("AUTHENTICATE", <<Line("AUTHENTICATE")>>)
            /\ Stays({"auth"}) /\ server'.auth = "asked"
<1>1. /\ Head(up) \in UpLines(Caps) /\ Head(up).kind = "AUTHENTICATE" /\ Taken(up, up')
      /\ UNCHANGED <<network, client, others, renames, strangers, drops>>
      /\ \/ server.registered /\ server' = server /\ Joined(down, <<Line("904")>>, down')
         \/ /\ ~server.registered /\ server' = [server EXCEPT !.auth = "asked"]
            /\ Joined(down, <<Line("AUTHENTICATE")>>, down')
  BY DEF Types, ServerAuthenticate, Receives, Replies, Taken, Joined
<1>2. server \in Servers
  BY DEF Types, TypeOK, Servers
<1>3. <<Line("904")>> \in Seq(DownLines(Caps)) /\ <<Line("AUTHENTICATE")>> \in Seq(DownLines(Caps))
  BY DEF Line, DownLines
<1>4. CASE server.registered /\ server' = server /\ Joined(down, <<Line("904")>>, down')
  BY <1>1, <1>2, <1>3, <1>4 DEF Served, Sent, Stays
<1>5. CASE /\ ~server.registered /\ server' = [server EXCEPT !.auth = "asked"]
           /\ Joined(down, <<Line("AUTHENTICATE")>>, down')
  <2>1. server' \in Servers /\ server'.auth = "asked" /\ Stays({"auth"})
    BY <1>2, <1>5 DEF Servers, Stays, ServerFields
  <2>2. QED
    BY <1>1, <1>3, <1>5, <2>1 DEF Served, Sent
<1>6. QED
  BY <1>1, <1>4, <1>5

LEMMA ServerCredentialsHas ==
  ASSUME Types, ServerCredentials, UNCHANGED network
  PROVE  /\ Stays({"auth"})
         /\ \/ /\ server.auth = "asked" /\ server'.auth = "done"
               /\ Served("CREDENTIALS", <<Line("903")>>)
            \/ server'.auth = "failed" /\ Served("CREDENTIALS", <<Line("904")>>)
<1>1. /\ Head(up) \in UpLines(Caps) /\ Head(up).kind = "CREDENTIALS" /\ Taken(up, up')
      /\ UNCHANGED <<network, client, others, renames, strangers, drops>>
      /\ \/ /\ server.auth = "asked" /\ server' = [server EXCEPT !.auth = "done"]
            /\ Joined(down, <<Line("903")>>, down')
         \/ server' = [server EXCEPT !.auth = "failed"] /\ Joined(down, <<Line("904")>>, down')
  BY DEF Types, ServerCredentials, Receives, Replies, Taken, Joined
<1>2. server \in Servers
  BY DEF Types, TypeOK, Servers
<1>3. <<Line("903")>> \in Seq(DownLines(Caps)) /\ <<Line("904")>> \in Seq(DownLines(Caps))
  BY DEF Line, DownLines
<1>4. server' \in Servers /\ Stays({"auth"})
  BY <1>1, <1>2 DEF Servers, Stays, ServerFields
<1>5. server' = [server EXCEPT !.auth = "done"] => server'.auth = "done"
  BY <1>2 DEF Servers
<1>6. server' = [server EXCEPT !.auth = "failed"] => server'.auth = "failed"
  BY <1>2 DEF Servers
<1>7. QED
  BY <1>1, <1>3, <1>4, <1>5, <1>6 DEF Served, Sent

LEMMA ServerEndHas ==
  ASSUME Types, ServerEnd, UNCHANGED network
  PROVE  /\ Stays({"holding", "auth"}) /\ ~server'.holding
         /\ \/ server.auth = "asked" /\ server'.auth = "failed" /\ Served("END", <<Line("904")>>)
            \/ server.auth # "asked" /\ server'.auth = server.auth /\ Served("END", <<>>)
<1> DEFINE auth == IF server.auth = "asked" THEN "failed" ELSE server.auth
           say == IF server.auth = "asked" THEN <<Line("904")>> ELSE <<>>
<1>1. /\ Head(up) \in UpLines(Caps) /\ Head(up).kind = "END" /\ Taken(up, up')
      /\ UNCHANGED <<network, client, others, renames, strangers, drops>>
      /\ server' = [server EXCEPT !.holding = FALSE, !.auth = auth] /\ Joined(down, say, down')
  BY DEF Types, ServerEnd, Receives, Replies, Taken, Joined
<1>2. server \in Servers
  BY DEF Types, TypeOK, Servers
<1>3. auth \in {"none", "asked", "done", "failed"}
  BY <1>2 DEF Servers
<1>4. say \in Seq(DownLines(Caps))
  <2>1. <<Line("904")>> \in Seq(DownLines(Caps)) /\ <<>> \in Seq(DownLines(Caps))
    BY DEF Line, DownLines
  <2>2. QED
    BY <2>1
<1>5. \/ server.auth = "asked" /\ auth = "failed" /\ say = <<Line("904")>>
      \/ server.auth # "asked" /\ auth = server.auth /\ say = <<>>
  OBVIOUS
<1> HIDE DEF auth, say
<1>6. server' \in Servers /\ server'.auth = auth /\ ~server'.holding /\ Stays({"holding", "auth"})
  BY <1>1, <1>2, <1>3 DEF Servers, Stays, ServerFields
<1>7. Served("END", say)
  BY <1>1, <1>4, <1>6 DEF Served, Sent
<1>8. QED
  BY <1>5, <1>6, <1>7

LEMMA ServerNickHas ==
  ASSUME Types, ServerNick, UNCHANGED network, server.registered => server.nick # -1
  PROVE  LET new == Head(up).new
         IN  /\ new \in Nick
             /\ \/ new \in others /\ Served("NICK", <<Line("433")>>) /\ Stays({})
                \/ /\ new \notin others /\ Stays({"nick"}) /\ server'.nick = new
                   /\ \/ server.registered /\ Served("NICK", <<NickLine(server.nick, new)>>)
                      \/ ~server.registered /\ Served("NICK", <<>>)
<1> DEFINE new == Head(up).new
<1>1. /\ Head(up) \in UpLines(Caps) /\ Head(up).kind = "NICK" /\ Taken(up, up')
      /\ UNCHANGED <<network, client, others, renames, strangers, drops>>
      /\ \/ new \in others /\ server' = server /\ Joined(down, <<Line("433")>>, down')
         \/ /\ new \notin others /\ server' = [server EXCEPT !.nick = new]
            /\ \/ server.registered /\ Joined(down, <<NickLine(server.nick, new)>>, down')
               \/ ~server.registered /\ Joined(down, <<>>, down')
  <2> DEFINE next == [server EXCEPT !.nick = new]
             say == IF server.registered THEN <<NickLine(server.nick, new)>> ELSE <<>>
  <2>1. /\ Receives("NICK")
        /\ IF new \in others THEN Replies(server, <<Line("433")>>) ELSE Replies(next, say)
    BY Zenon DEF ServerNick
  <2>2. \/ server.registered /\ say = <<NickLine(server.nick, new)>>
        \/ ~server.registered /\ say = <<>>
    OBVIOUS
  <2> HIDE DEF next, say, new
  <2>3. Head(up) \in UpLines(Caps) /\ Head(up).kind = "NICK" /\ Taken(up, up')
    BY <2>1 DEF Types, Receives, Taken
  <2>4. \/ new \in others /\ Replies(server, <<Line("433")>>)
        \/ new \notin others /\ Replies(next, say)
    BY <2>1
  <2>5. QED
    BY <2>2, <2>3, <2>4 DEF Replies, Joined, next
<1>2. server \in Servers
  BY DEF Types, TypeOK, Servers
<1>3. new \in Nick
  BY <1>1 DEF UpLines
<1> HIDE DEF new
<1>4. <<Line("433")>> \in Seq(DownLines(Caps)) /\ <<>> \in Seq(DownLines(Caps))
  BY DEF Line, DownLines
<1>5. CASE new \in others /\ server' = server /\ Joined(down, <<Line("433")>>, down')
  BY <1>1, <1>2, <1>3, <1>4, <1>5 DEF Served, Sent, Stays, new
<1>6. CASE /\ new \notin others /\ server' = [server EXCEPT !.nick = new]
           /\ \/ server.registered /\ Joined(down, <<NickLine(server.nick, new)>>, down')
              \/ ~server.registered /\ Joined(down, <<>>, down')
  <2>1. server' \in Servers /\ server'.nick = new /\ Stays({"nick"})
    BY <1>2, <1>3, <1>6 DEF Servers, Stays, ServerFields
  <2>2. ASSUME server.nick # -1
        PROVE  <<NickLine(server.nick, new)>> \in Seq(DownLines(Caps))
    <3>1. NickLine(server.nick, new) \in DownLines(Caps)
      BY <1>2, <1>3, <2>2 DEF Servers, NickLine, DownLines
    <3>2. QED
      BY <3>1
  <2>3. QED
    BY <1>1, <1>3, <1>4, <1>6, <2>1, <2>2 DEF Served, Sent, new
<1>7. QED
  BY <1>1, <1>5, <1>6

RefusedKinds == {"NICK", "AUTHENTICATE", "CREDENTIALS"}

LEMMA ServerRefusesHas ==
  ASSUME Types, ServerRefuses, UNCHANGED network
  PROVE  /\ Stays({"auth"})
         /\ server'.auth = server.auth \/ server'.auth = "failed"
         /\ server.auth = "done" => server'.auth = "done"
         /\ \E k \in RefusedKinds, a \in {"432", "902"} : Served(k, <<Line(a)>>)
<1> DEFINE auth == IF server.auth = "asked" THEN "failed" ELSE server.auth
           heard == [server EXCEPT !.unheeded = TRUE]
           over == [server EXCEPT !.unheeded = TRUE, !.auth = auth]
<1>1. PICK k \in RefusedKinds, a \in {"432", "902"} :
        Receives(k) /\ (Replies(heard, <<Line(a)>>) \/ Replies(over, <<Line(a)>>))
  BY DEF ServerRefuses, RefusedKinds
<1>2. server \in Servers
  BY DEF Types, TypeOK, Servers
<1>3. auth \in {"none", "asked", "done", "failed"} /\ (auth = server.auth \/ auth = "failed")
      /\ (server.auth = "done" => auth = "done")
  BY <1>2 DEF Servers
<1> HIDE DEF auth
<1>4. /\ heard \in Servers /\ \A f \in ServerFields : heard[f] = server[f]
      /\ over \in Servers /\ \A f \in ServerFields \ {"auth"} : over[f] = server[f]
      /\ over.auth = auth
  BY <1>2, <1>3 DEF Servers, ServerFields
<1> HIDE DEF heard, over
<1>5. <<Line(a)>> \in Seq(DownLines(Caps))
  BY DEF Line, DownLines
<1>6. /\ Head(up) \in UpLines(Caps) /\ Head(up).kind = k /\ Taken(up, up')
      /\ UNCHANGED <<network, client, others, renames, strangers, drops>>
      /\ Joined(down, <<Line(a)>>, down') /\ server' \in {heard, over}
  BY <1>1 DEF Types, Receives, Replies, Taken, Joined
<1>7. Served(k, <<Line(a)>>)
  BY <1>4, <1>5, <1>6 DEF Served, Sent
<1>8. QED
  BY <1>3, <1>4, <1>6, <1>7 DEF Stays, ServerFields

LEMMA ServerWelcomeHas ==
  ASSUME Types, ServerWelcome, UNCHANGED network
  PROVE  /\ ~server.holding /\ ~server.registered /\ server.nick # -1
         /\ Sent(<<Line("001")>>) /\ UNCHANGED <<up, others, strangers>>
         /\ Stays({"registered"}) /\ server'.registered
<1>1. /\ ~server.holding /\ ~server.registered /\ server.nick # -1
      /\ UNCHANGED <<network, client, up, others, renames, strangers, drops>>
      /\ server' = [server EXCEPT !.registered = TRUE] /\ Joined(down, <<Line("001")>>, down')
  BY DEF ServerWelcome, Replies, Joined
<1>2. server \in Servers
  BY DEF Types, TypeOK, Servers
<1>3. <<Line("001")>> \in Seq(DownLines(Caps))
  BY DEF Line, DownLines
<1>4. server' \in Servers /\ server'.registered /\ Stays({"registered"})
  BY <1>1, <1>2 DEF Servers, Stays, ServerFields
<1>5. QED
  BY <1>1, <1>3, <1>4 DEF Sent

LEMMA ServerListNetworksHas ==
  ASSUME Types, ServerListNetworks, UNCHANGED network
  PROVE  /\ Stays({})
         /\ \/ Served("LISTNETWORKS", <<Line("LISTED")>>)
            \/ Served("LISTNETWORKS", <<Line("FAIL")>>)
<1>1. /\ Head(up) \in UpLines(Caps) /\ Head(up).kind = "LISTNETWORKS" /\ Taken(up, up')
      /\ UNCHANGED <<network, client, others, renames, strangers, drops>>
      /\ server' = server
      /\ Joined(down, <<Line("LISTED")>>, down') \/ Joined(down, <<Line("FAIL")>>, down')
  BY DEF Types, ServerListNetworks, Receives, Replies, Taken, Joined
<1>2. server \in Servers
  BY DEF Types, TypeOK, Servers
<1>3. <<Line("LISTED")>> \in Seq(DownLines(Caps)) /\ <<Line("FAIL")>> \in Seq(DownLines(Caps))
  BY DEF Line, DownLines
<1>4. QED
  BY <1>1, <1>2, <1>3 DEF Served, Sent, Stays

LEMMA CapNewHas ==
  ASSUME Types, ServerCapNew, UNCHANGED network
  PROVE  \E cap \in network.later \ server.announced :
           /\ server.announced # {} /\ UNCHANGED <<up, others, strangers>>
           /\ Sent(<<CapLine("NEW", {cap})>>)
           /\ Stays({"announced"}) /\ server'.announced = server.announced \cup {cap}
<1>1. PICK cap \in network.later \ server.announced :
        Replies([server EXCEPT !.announced = @ \cup {cap}], <<CapLine("NEW", {cap})>>)
  BY DEF ServerCapNew
<1>2. /\ server.announced # {}
      /\ UNCHANGED <<network, client, up, others, renames, strangers, drops>>
      /\ server' = [server EXCEPT !.announced = @ \cup {cap}]
      /\ Joined(down, <<CapLine("NEW", {cap})>>, down')
  BY <1>1 DEF ServerCapNew, Replies, Joined
<1>3. server \in Servers /\ cap \in Caps
  BY DEF Types, TypeOK, Servers, Caps
<1>4. <<CapLine("NEW", {cap})>> \in Seq(DownLines(Caps))
  <2>1. CapLine("NEW", {cap}) \in DownLines(Caps)
    BY <1>3 DEF CapLine, DownLines
  <2>2. QED
    BY <2>1
<1>5. server' \in Servers /\ server'.announced = server.announced \cup {cap} /\ Stays({"announced"})
  BY <1>2, <1>3 DEF Servers, Stays, ServerFields
<1>6. QED
  BY <1>2, <1>4, <1>5 DEF Sent

LEMMA CapDelHas ==
  ASSUME Types, ServerCapDel, UNCHANGED network
  PROVE  \E cap \in server.enabled :
           /\ server.registered /\ UNCHANGED <<up, others, strangers>>
           /\ Sent(<<CapLine("DEL", {cap})>>)
           /\ Stays({"enabled"}) /\ server'.enabled = server.enabled \ {cap}
<1>1. PICK cap \in server.enabled \cap network.later :
        Replies([server EXCEPT !.enabled = @ \ {cap}], <<CapLine("DEL", {cap})>>)
  BY DEF ServerCapDel
<1>2. /\ server.registered
      /\ UNCHANGED <<network, client, up, others, renames, strangers, drops>>
      /\ server' = [server EXCEPT !.enabled = @ \ {cap}]
      /\ Joined(down, <<CapLine("DEL", {cap})>>, down')
  BY <1>1 DEF ServerCapDel, Replies, Joined
<1>3. server \in Servers /\ cap \in Caps
  BY DEF Types, TypeOK, Servers, Caps
<1>4. <<CapLine("DEL", {cap})>> \in Seq(DownLines(Caps))
  <2>1. CapLine("DEL", {cap}) \in DownLines(Caps)
    BY <1>3 DEF CapLine, DownLines
  <2>2. QED
    BY <2>1
<1>5. server' \in Servers /\ server'.enabled = server.enabled \ {cap} /\ Stays({"enabled"})
  BY <1>2, <1>3 DEF Servers, Stays, ServerFields
<1>6. QED
  BY <1>2, <1>4, <1>5 DEF Sent

(* ----------------------- the link and the users ------------------------ *)

LEMMA OtherNickHas ==
  ASSUME Types, NEW old \in Nick, NEW new \in Nick, OtherNick(old, new), UNCHANGED network
  PROVE  /\ Sent(<<NickLine(old, new)>>) /\ Stays({}) /\ UNCHANGED up
         /\ server.registered /\ old \in others /\ new \notin others \cup {server.nick}
         /\ new # MaxNick /\ others' = (others \ {old}) \cup {new}
         /\ strangers' = strangers + 1 /\ strangers < network.others
<1>1. /\ server.registered /\ old \in others /\ new \notin others \cup {server.nick}
      /\ new # MaxNick /\ others' = (others \ {old}) \cup {new}
      /\ UNCHANGED <<network, client, server, up, renames, drops>>
      /\ strangers' = strangers + 1 /\ strangers < network.others
      /\ Joined(down, <<NickLine(old, new)>>, down')
  BY DEF Types, OtherNick, Joined
<1>2. server \in Servers
  BY DEF Types, TypeOK, Servers
<1>3. <<NickLine(old, new)>> \in Seq(DownLines(Caps))
  <2>1. NickLine(old, new) \in DownLines(Caps)
    BY DEF NickLine, DownLines
  <2>2. QED
    BY <2>1
<1>4. QED
  BY <1>1, <1>2, <1>3 DEF Sent, Stays

LEMMA UserNickHas ==
  ASSUME Types, NEW nick \in Nick, UserNick(nick), UNCHANGED network
  PROVE  /\ server.link /\ client.registered /\ renames < network.renames /\ renames' = renames + 1
         /\ client' \in Clients /\ Keeps({"nick"}) /\ client'.nick = nick
         /\ Joined(up, <<SetNickLine(nick)>>, up') /\ <<SetNickLine(nick)>> \in Seq(UpLines(Caps))
         /\ UNCHANGED <<network, server, down, others, strangers, drops>>
<1>1. /\ server.link /\ client.registered /\ renames < network.renames /\ renames' = renames + 1
      /\ client' = [client EXCEPT !.nick = nick] /\ Joined(up, <<SetNickLine(nick)>>, up')
      /\ UNCHANGED <<network, server, down, others, strangers, drops>>
  BY DEF Types, UserNick, SetNick, Joined
<1>2. client \in Clients
  BY DEF Types, TypeOK, Clients
<1>3. client' \in Clients /\ Keeps({"nick"}) /\ client'.nick = nick
  BY <1>1, <1>2 DEF Clients, Keeps, Fields
<1>4. <<SetNickLine(nick)>> \in Seq(UpLines(Caps))
  <2>1. SetNickLine(nick) \in UpLines(Caps)
    BY DEF SetNickLine, UpLines
  <2>2. QED
    BY <2>1
<1>5. QED
  BY <1>1, <1>3, <1>4

(* ------------------------- lines that take turns ----------------------- *)

\* One line at most is under way: in s one of S, or in t one of T.
Clear(s, S, t, T) == None(s, S) /\ None(t, T)
Alone(s, S, t, T) == AtMostOne(s, S) /\ AtMostOne(t, T) /\ (None(s, S) \/ None(t, T))

\* A line is taken from s, and say is sent over t.
LEMMA PassOn ==
  ASSUME NEW A, NEW s \in Seq(A), NEW r, Taken(s, r),
         NEW B, NEW t \in Seq(B), NEW say \in Seq(B), NEW q, Joined(t, say, q),
         NEW S, NEW T, Alone(s, S, t, T),
         None(say, T) \/ ((Head(s) \in S \/ Clear(s, S, t, T)) /\ AtMostOne(say, T))
  PROVE  /\ Alone(r, S, q, T)
         /\ None(say, T) /\ (Head(s) \in S \/ Clear(s, S, t, T)) => Clear(r, S, q, T)
<1>1. /\ None(s, S) => None(r, S) /\ Head(s) \notin S
      /\ AtMostOne(s, S) => AtMostOne(r, S)
      /\ AtMostOne(s, S) /\ Head(s) \in S => None(r, S)
  BY Take
<1>2. /\ None(t, T) /\ None(say, T) => None(q, T)
      /\ AtMostOne(t, T) /\ None(say, T) => AtMostOne(q, T)
      /\ None(t, T) /\ AtMostOne(say, T) => AtMostOne(q, T)
  BY Put
<1>3. QED
  BY <1>1, <1>2 DEF Alone, Clear

LEMMA AloneTurned ==
  ASSUME NEW s, NEW t, NEW S, NEW T
  PROVE  Alone(s, S, t, T) <=> Alone(t, T, s, S)
BY DEF Alone

LEMMA NoneOfBoth ==
  ASSUME NEW s, NEW S, NEW T
  PROVE  None(s, S \cup T) <=> None(s, S) /\ None(s, T)
BY DEF None

LEMMA SetsHaveLines ==
  ASSUME Types, NEW K, NEW c
  PROVE  /\ \A l \in UpLines(Caps) : l \in Up(K) <=> l.kind \in K
         /\ \A l \in DownLines(Caps) : l \in Down(K) <=> l.kind \in K
         /\ \A l \in UpLines(Caps) : l \in UpWith(K, c) <=> l.kind \in K /\ c \in l.caps
         /\ \A l \in DownLines(Caps) : l \in DownWith(K, c) <=> l.kind \in K /\ c \in l.caps
<1>1. Caps \subseteq AllCaps
  BY DEF Types, TypeOK, Caps, AllCaps
<1>2. UpLines(Caps) \subseteq UpLines(AllCaps)
  BY <1>1 DEF UpLines
<1>3. DownLines(Caps) \subseteq DownLines(AllCaps)
  BY <1>1 DEF DownLines
<1>4. QED
  BY <1>2, <1>3, Zenon DEF Up, Down, UpWith, DownWith

(* ---------------------- the inductive invariant ------------------------ *)

Fresh == /\ ~client.registered /\ ~client.saslAuthed /\ ~client.saslPending
         /\ ~client.endedDuringSasl /\ ~client.fallback /\ client.reclaimed = 0
         /\ client.acked = {} /\ client.lsBuffer = {} /\ client.requested = {}

\* Without a link nothing is left of a session, and the two sides register in
\* order.
Linked ==
  /\ ~server.link => Fresh /\ server = NoServer /\ up = <<>> /\ down = <<>>
  /\ client.registered => server.registered /\ None(down, Down({"001"}))
  /\ server.registered => server.nick # -1
  /\ ~server.registered => None(down, Down({"001", "NICK", "DEL"}))
  /\ AtMostOne(down, Down({"001"}))
  /\ server.nick \notin others /\ MaxNick \notin others
  /\ server.announced = {} \/ network.offered \subseteq server.announced

\* The last ACK or DEL on its way says what the server holds enabled.
Granted(c) == Down({IF c \in server.enabled THEN "ACK" ELSE "DEL"})
CapsInv ==
  \A c \in Caps :
    /\ None(down, DownWith({"ACK", "DEL"}, c)) => (c \in client.acked <=> c \in server.enabled)
    /\ Last(down, DownWith({"ACK", "DEL"}, c), Granted(c))

\* One line about sasl at most is under way, none after its outcome.
SaslAsked == Up({"AUTHENTICATE", "CREDENTIALS"}) \cup UpWith({"REQ"}, "sasl")
SaslUp == Up({"LS"}) \cup SaslAsked
SaslDown == Down({"AUTHENTICATE"}) \cup DownWith({"LS*", "LS", "NEW", "ACK"}, "sasl")
SaslInv ==
  /\ Alone(up, SaslUp, down, SaslDown)
  /\ "sasl" \in client.lsBuffer => Clear(up, SaslUp, down, SaslDown)
  /\ None(up, Up({"LS"})) \/ server.announced = {}
  /\ "sasl" \notin server.announced =>
       Clear(up, SaslAsked, down, SaslDown) /\ "sasl" \notin client.lsBuffer
  /\ client.saslAuthed \/ ~None(down, Down({"903"})) =>
       /\ "sasl" \in server.announced /\ server.auth = "done"
       /\ Clear(up, SaslUp, down, SaslDown) /\ "sasl" \notin client.lsBuffer

\* One NICK or its answer is under way.  The server has the client's nick, or
\* the change to the configured one is on its way, before any about that one.
OfNick(n) == {l \in Down({"NICK"}) : n \in {l.old, l.new}}
NotFor(n) == {l \in Up({"NICK"}) : l.new # n}
NickOK ==
  /\ Alone(up, Up({"NICK"}), down, Down({"433", "001"}))
  /\ None(up, NotFor(IF client.registered THEN 0 ELSE client.nick))
  /\ ~client.registered =>
       /\ None(down, Down({"433"})) \/ client.nick # MaxNick
       /\ server.nick = -1 \/ Clear(up, Up({"NICK"}), down, Down({"433"}))
  /\ \/ server.nick \in {-1, client.nick} /\ None(down, OfNick(client.nick))
     \/ /\ client.registered /\ server.nick = 0
        /\ Clear(up, Up({"NICK"}), down, Down({"433", "001"}))
        /\ Turns(down, NickLine(client.nick, 0), OfNick(client.nick), OfNick(0))
NickInv == ~client.registered \/ renames = 0 => NickOK

\* Before a CAP NEW, and with an ACK of one line, one line of the negotiation
\* is under way, and none while SASL is.
PendingInv ==
  server.announced \subseteq network.offered =>
    /\ None(down, Down({"NEW"}))
    /\ ~network.split =>
         /\ ~client.endedDuringSasl
         /\ Alone(up, Up({"LS", "REQ"}), down, Down({"LS", "ACK", "NAK"}))
         /\ client.saslPending => Clear(up, Up({"LS", "REQ"}), down, Down({"LS", "ACK", "NAK"}))

\* With sasl offered, the server holds registration back until it has answered
\* AUTHENTICATE, since CAP END is not sent before that.
SaslReq == UpWith({"REQ"}, "sasl")
SaslAck == DownWith({"ACK"}, "sasl")
Outcomes == Down({"NAK", "903", "904"})

\* CAP LS comes first: nothing is requested, acknowledged or ended before it.
LsFirst ==
  /\ Alone(up, Up({"LS"}), down, Down({"LS"}))
  /\ ~None(up, Up({"LS"})) => server.nick = -1 /\ None(down, Down({"NEW"}))
  /\ Before(up, Up({"LS"}), Up({"NICK"})) /\ Before(down, Down({"LS"}), Down({"NEW"}))
  /\ ~Clear(up, Up({"LS"}), down, Down({"LS"})) =>
       /\ Clear(up, Up({"REQ", "END", "AUTHENTICATE", "CREDENTIALS"}),
                down, Down({"ACK", "NAK", "903", "904", "AUTHENTICATE"}))
       /\ "sasl" \notin client.acked
  /\ ~None(down, Down({"LS"})) => server.holding

\* The request for sasl precedes every other, and its ACK every outcome; no
\* CAP END is sent meanwhile.
ReqFirst ==
  /\ ~None(up, SaslReq) => Clear(up, Up({"AUTHENTICATE", "CREDENTIALS"}), down, Outcomes)
  /\ Before(up, SaslReq, Up({"REQ"}) \ SaslReq)
  /\ Before(down, SaslAck, Outcomes)
  /\ ~Clear(up, SaslReq, down, SaslAck) =>
       /\ None(up, Up({"END"})) /\ server.holding
       /\ "sasl" \in client.requested /\ "sasl" \notin client.acked

\* Registration is held back while SASL is in flight, and 903 precedes 001.
SaslFirst ==
  /\ ~None(up, Up({"AUTHENTICATE"})) \/ server.auth = "asked" => server.holding
  /\ Before(up, Up({"AUTHENTICATE"}), Up({"END"}))
  /\ server.registered => ~server.holding
  /\ None(down, DownWith({"NEW"}, "sasl"))
  /\ Before(down, Down({"903"}), Down({"001"}))
  /\ client.registered => None(down, Down({"903"}))

HoldInv == "sasl" \in network.offered => LsFirst /\ ReqFirst /\ SaslFirst

\* The configured nick is asked for by whoever registers on another.
ReclaimInv ==
  renames = 0 /\ drops = 0 =>
    /\ ~client.registered => client.reclaimed = 0 /\ (client.nick # 0 => client.fallback)
    /\ "sasl" \in network.offered /\ client.registered /\ client.saslAuthed /\ client.nick # 0 =>
         client.reclaimed = 1

IInv == Types /\ Linked /\ CapsInv /\ SaslInv /\ NickInv /\ PendingInv /\ HoldInv /\ ReclaimInv

(* ---------------------------- its parts -------------------------------- *)

\* What is in flight after a step, in terms of what was.
LEMMA HeardLines ==
  ASSUME Types, NEW k, NEW say, Heard({k}, say)
  PROVE  /\ Types' /\ Head(down) \in DownLines(Caps) /\ Head(down).kind = k
         /\ \A T : None(down, T) => None(down', T) /\ Head(down) \notin T
         /\ \A T : Head(down) \notin T /\ None(down', T) => None(down, T)
         /\ \A T : AtMostOne(down, T) => AtMostOne(down', T) /\ (Head(down) \in T => None(down', T))
         /\ \A T : None(up, T) /\ None(say, T) => None(up', T)
         /\ \A T : None(up', T) => None(up, T) /\ None(say, T)
<1>1. up \in Seq(UpLines(Caps)) /\ say \in Seq(UpLines(Caps)) /\ down \in Seq(DownLines(Caps))
  BY DEF Types, Heard
<1>2. Taken(down, down') /\ Joined(up, say, up') /\ Head(down) \in DownLines(Caps) /\ Head(down).kind = k
  BY DEF Heard
<1>3. Types'
  <2>1. up' \in Seq(UpLines(Caps)) /\ down' \in Seq(DownLines(Caps))
    BY <1>1, <1>2, TakenHas, JoinedHas
  <2>2. Caps' = Caps /\ UpLines(Caps)' = UpLines(Caps) /\ DownLines(Caps)' = DownLines(Caps)
    BY DEF Heard, Caps, UpLines, DownLines
  <2>3. TypeOK'
    BY <2>2 DEF Types, TypeOK, Heard, Clients
  <2>4. QED
    BY <2>1, <2>2, <2>3 DEF Types
<1>4. QED
  BY <1>1, <1>2, <1>3, Take, Put

LEMMA SentLines ==
  ASSUME Types, NEW say, Sent(say), others' \subseteq Nick, strangers' \in 0..network.others,
         up' \in Seq(UpLines(Caps))
  PROVE  /\ Types'
         /\ \A T : None(down, T) /\ None(say, T) => None(down', T)
         /\ \A T : None(down', T) => None(down, T) /\ None(say, T)
         /\ \A T : AtMostOne(down, T) /\ None(say, T) => AtMostOne(down', T)
<1>1. down \in Seq(DownLines(Caps)) /\ say \in Seq(DownLines(Caps)) /\ Joined(down, say, down')
  BY DEF Types, Sent
<1>2. Types'
  <2>1. down' \in Seq(DownLines(Caps))
    BY <1>1, JoinedHas
  <2>2. Caps' = Caps /\ UpLines(Caps)' = UpLines(Caps) /\ DownLines(Caps)' = DownLines(Caps)
    BY DEF Sent, Caps, UpLines, DownLines
  <2>3. TypeOK'
    BY <2>2 DEF Types, TypeOK, Sent, Servers
  <2>4. QED
    BY <2>1, <2>2, <2>3 DEF Types
<1>3. QED
  BY <1>1, <1>2, Put

LEMMA ServedLines ==
  ASSUME Types, NEW k, NEW say, Served(k, say)
  PROVE  /\ Types' /\ Head(up) \in UpLines(Caps) /\ Head(up).kind = k
         /\ \A T : None(up, T) => None(up', T) /\ Head(up) \notin T
         /\ \A T : Head(up) \notin T /\ None(up', T) => None(up, T)
         /\ \A T : AtMostOne(up, T) => AtMostOne(up', T) /\ (Head(up) \in T => None(up', T))
         /\ \A T : None(down, T) /\ None(say, T) => None(down', T)
         /\ \A T : None(down', T) => None(down, T) /\ None(say, T)
         /\ \A T : AtMostOne(down, T) /\ None(say, T) => AtMostOne(down', T)
<1>1. up \in Seq(UpLines(Caps)) /\ Taken(up, up') /\ Head(up) \in UpLines(Caps) /\ Head(up).kind = k
  BY DEF Types, Served
<1>2. up' \in Seq(UpLines(Caps))
  BY <1>1, TakenHas
<1>3. /\ Types'
      /\ \A T : None(down, T) /\ None(say, T) => None(down', T)
      /\ \A T : None(down', T) => None(down, T) /\ None(say, T)
      /\ \A T : AtMostOne(down, T) /\ None(say, T) => AtMostOne(down', T)
  <2>1. others' \subseteq Nick /\ strangers' \in 0..network.others
    BY DEF Types, TypeOK, Served
  <2>2. Sent(say)
    BY DEF Served
  <2>3. QED
    BY <1>2, <2>1, <2>2, SentLines
<1>4. QED
  BY <1>1, <1>3, Take

\* Of lines of one kind there is none of another.
LEMMA OfKind ==
  ASSUME NEW l, NEW k, l.kind = k
  PROVE  /\ \A K : k \notin K => l \notin Up(K) /\ l \notin Down(K)
         /\ \A K, c : k \notin K => l \notin UpWith(K, c) /\ l \notin DownWith(K, c)
         /\ \A K : k \notin K => None(<<l>>, Up(K)) /\ None(<<l>>, Down(K))
         /\ \A K, c : k \notin K => None(<<l>>, UpWith(K, c)) /\ None(<<l>>, DownWith(K, c))
<1>1. /\ \A K : k \notin K => l \notin Up(K) /\ l \notin Down(K)
      /\ \A K, c : k \notin K => l \notin UpWith(K, c) /\ l \notin DownWith(K, c)
  BY DEF Up, Down, UpWith, DownWith
<1>2. QED
  BY <1>1, One

(* ------------------ the capabilities, step by step --------------------- *)

LEMMA CapsHeard ==
  ASSUME Types, CapsInv, NEW k, NEW say, Heard({k}, say), k \notin {"ACK", "DEL"},
         client'.acked = client.acked
  PROVE  CapsInv'
<1>1. Caps' = Caps /\ server' = server
  BY DEF Heard, Caps
<1> SUFFICES ASSUME NEW c \in Caps
             PROVE  /\ None(down', DownWith({"ACK", "DEL"}, c)) => (c \in client.acked <=> c \in server.enabled)
                    /\ Last(down', DownWith({"ACK", "DEL"}, c), Granted(c))
  BY <1>1 DEF CapsInv, Granted
<1>2. Head(down) \notin DownWith({"ACK", "DEL"}, c)
  BY HeardLines, OfKind
<1>3. None(down', DownWith({"ACK", "DEL"}, c)) => None(down, DownWith({"ACK", "DEL"}, c))
  BY <1>2, HeardLines
<1>4. Last(down', DownWith({"ACK", "DEL"}, c), Granted(c))
  BY TakeLast DEF CapsInv, Heard, Types
<1>5. QED
  BY <1>3, <1>4 DEF CapsInv

LEMMA CapsSent ==
  ASSUME Types, CapsInv, NEW say, Sent(say), server'.enabled = server.enabled,
         \A c \in Caps : None(say, DownWith({"ACK", "DEL"}, c))
  PROVE  CapsInv'
<1>1. Caps' = Caps /\ client' = client /\ \A c : Granted(c)' = Granted(c)
  BY DEF Sent, Caps, Granted
<1> SUFFICES ASSUME NEW c \in Caps
             PROVE  /\ None(down', DownWith({"ACK", "DEL"}, c)) => (c \in client.acked <=> c \in server.enabled)
                    /\ Last(down', DownWith({"ACK", "DEL"}, c), Granted(c))
  BY <1>1 DEF CapsInv
<1>2. /\ down \in Seq(DownLines(Caps)) /\ say \in Seq(DownLines(Caps)) /\ Joined(down, say, down')
  BY DEF Types, Sent
<1>3. None(down', DownWith({"ACK", "DEL"}, c)) => None(down, DownWith({"ACK", "DEL"}, c))
  BY <1>2, Put
<1>4. Last(down', DownWith({"ACK", "DEL"}, c), Granted(c))
  BY <1>2, PutLast DEF CapsInv
<1>5. QED
  BY <1>3, <1>4 DEF CapsInv

LEMMA CapsAcked ==
  ASSUME Types, CapsInv, OnCapAck, UNCHANGED network
  PROVE  CapsInv'
<1> DEFINE caps == Head(down).caps
<1>1. PICK say : Heard({"ACK"}, say)
  BY AckHas
<1>2. caps \subseteq Caps /\ client'.acked = client.acked \cup caps
  BY AckHas
<1>3. Caps' = Caps /\ server' = server
  BY <1>1 DEF Heard, Caps
<1> SUFFICES ASSUME NEW c \in Caps
             PROVE  /\ None(down', DownWith({"ACK", "DEL"}, c)) => (c \in client'.acked <=> c \in server.enabled)
                    /\ Last(down', DownWith({"ACK", "DEL"}, c), Granted(c))
  BY <1>3 DEF CapsInv, Granted
<1>4. /\ Last(down', DownWith({"ACK", "DEL"}, c), Granted(c))
      /\ Head(down) \in DownWith({"ACK", "DEL"}, c) /\ None(down', DownWith({"ACK", "DEL"}, c))
           => Head(down) \in Granted(c)
  BY <1>1, TakeLast DEF CapsInv, Heard, Types
<1>5. Head(down).kind = "ACK" /\ (Head(down) \in DownWith({"ACK", "DEL"}, c) <=> c \in caps)
  BY <1>1, SetsHaveLines DEF Heard
<1>6. ASSUME None(down', DownWith({"ACK", "DEL"}, c))
      PROVE  c \in client'.acked <=> c \in server.enabled
  <2>1. CASE c \in caps
    BY <1>2, <1>4, <1>5, <1>6, <2>1 DEF Granted, Down
  <2>2. CASE c \notin caps
    <3>1. None(down, DownWith({"ACK", "DEL"}, c))
      BY <1>1, <1>5, <1>6, <2>2, HeardLines
    <3>2. QED
      BY <1>2, <2>2, <3>1 DEF CapsInv
  <2>3. QED
    BY <2>1, <2>2
<1>7. QED
  BY <1>4, <1>6

LEMMA CapsDeleted ==
  ASSUME Types, CapsInv, OnCapDel, UNCHANGED network
  PROVE  CapsInv'
<1> DEFINE caps == Head(down).caps
<1>1. /\ Heard({"DEL"}, <<>>) /\ caps \subseteq Caps /\ client'.acked = client.acked \ caps
  BY DelHas
<1>2. Caps' = Caps /\ server' = server
  BY <1>1 DEF Heard, Caps
<1> SUFFICES ASSUME NEW c \in Caps
             PROVE  /\ None(down', DownWith({"ACK", "DEL"}, c)) => (c \in client'.acked <=> c \in server.enabled)
                    /\ Last(down', DownWith({"ACK", "DEL"}, c), Granted(c))
  BY <1>2 DEF CapsInv, Granted
<1>3. /\ Last(down', DownWith({"ACK", "DEL"}, c), Granted(c))
      /\ Head(down) \in DownWith({"ACK", "DEL"}, c) /\ None(down', DownWith({"ACK", "DEL"}, c))
           => Head(down) \in Granted(c)
  BY <1>1, TakeLast DEF CapsInv, Heard, Types
<1>4. Head(down).kind = "DEL" /\ (Head(down) \in DownWith({"ACK", "DEL"}, c) <=> c \in caps)
  BY <1>1, SetsHaveLines DEF Heard
<1>5. ASSUME None(down', DownWith({"ACK", "DEL"}, c))
      PROVE  c \in client'.acked <=> c \in server.enabled
  <2>1. CASE c \in caps
    BY <1>1, <1>3, <1>4, <1>5, <2>1 DEF Granted, Down
  <2>2. CASE c \notin caps
    <3>1. None(down, DownWith({"ACK", "DEL"}, c))
      BY <1>1, <1>4, <1>5, <2>2, HeardLines
    <3>2. QED
      BY <1>1, <2>2, <3>1 DEF CapsInv
  <2>3. QED
    BY <2>1, <2>2
<1>6. QED
  BY <1>3, <1>5

LEMMA CapsGranted ==
  ASSUME Types, CapsInv, NEW say, Sent(say), NEW caps, server'.enabled = server.enabled \cup caps,
         \A c \in Caps : c \notin caps => None(say, DownWith({"ACK", "DEL"}, c)),
         \A c \in caps : ~None(say, DownWith({"ACK", "DEL"}, c))
                         /\ Last(say, DownWith({"ACK", "DEL"}, c), Down({"ACK"}))
  PROVE  CapsInv'
<1>1. Caps' = Caps /\ client' = client
  BY DEF Sent, Caps
<1> SUFFICES ASSUME NEW c \in Caps
             PROVE  /\ None(down', DownWith({"ACK", "DEL"}, c)) => (c \in client.acked <=> c \in server'.enabled)
                    /\ Last(down', DownWith({"ACK", "DEL"}, c), Granted(c)')
  BY <1>1 DEF CapsInv
<1>2. /\ down \in Seq(DownLines(Caps)) /\ say \in Seq(DownLines(Caps)) /\ Joined(down, say, down')
  BY DEF Types, Sent
<1>3. CASE c \in caps
  <2>1. Granted(c)' = Down({"ACK"})
    BY <1>3 DEF Granted
  <2>2. Last(down', DownWith({"ACK", "DEL"}, c), Down({"ACK"}))
    BY <1>2, <1>3, PutLast
  <2>3. ~None(down', DownWith({"ACK", "DEL"}, c))
    BY <1>2, <1>3, Put
  <2>4. QED
    BY <2>1, <2>2, <2>3
<1>4. CASE c \notin caps
  <2>1. Granted(c)' = Granted(c) /\ (c \in server'.enabled <=> c \in server.enabled)
    BY <1>4 DEF Granted
  <2>2. Last(down', DownWith({"ACK", "DEL"}, c), Granted(c))
    BY <1>2, <1>4, PutLast DEF CapsInv
  <2>3. None(down', DownWith({"ACK", "DEL"}, c)) => None(down, DownWith({"ACK", "DEL"}, c))
    BY <1>2, Put
  <2>4. QED
    BY <2>1, <2>2, <2>3 DEF CapsInv
<1>5. QED
  BY <1>3, <1>4

LEMMA LinkHas ==
  ASSUME Types, Linked, OnConnected \/ OnDisconnected, UNCHANGED network
  PROVE  /\ Types' /\ Fresh' /\ client'.nick = client.nick /\ down' = <<>>
         /\ server' \in Servers /\ server'.enabled = {} /\ server'.announced = {}
         /\ server'.auth = "none" /\ server'.nick = -1 /\ ~server'.registered /\ ~server'.holding
         /\ UNCHANGED <<network, others, renames, strangers>>
         /\ \/ /\ up' = <<Line("LS"), SetNickLine(client.nick)>> /\ client' = client /\ drops' = drops
               /\ server'.link
            \/ up' = <<>> /\ server' = NoServer /\ drops' # 0
<1>1. client \in Clients /\ server \in Servers /\ Caps' = Caps
  BY DEF Types, TypeOK, Clients, Servers, Caps
<1>2. UpLines(Caps)' = UpLines(Caps) /\ DownLines(Caps)' = DownLines(Caps)
  BY <1>1 DEF UpLines, DownLines
<1>3. CASE OnConnected
  <2>1. /\ server' = [NoServer EXCEPT !.link = TRUE] /\ client' = client /\ Fresh /\ down' = <<>>
        /\ up' = <<Line("LS"), SetNickLine(client.nick)>>
        /\ UNCHANGED <<network, others, renames, strangers, drops>>
    BY <1>3 DEF OnConnected, Linked
  <2>2. /\ server' \in Servers /\ server'.enabled = {} /\ server'.announced = {} /\ server'.link
        /\ server'.auth = "none" /\ server'.nick = -1 /\ ~server'.registered /\ ~server'.holding
    BY <2>1 DEF NoServer, Servers
  <2>3. Line("LS") \in UpLines(Caps) /\ SetNickLine(client.nick) \in UpLines(Caps)
    BY <1>1 DEF Line, SetNickLine, UpLines, Clients
  <2>4. up' \in Seq(UpLines(Caps)) /\ down' \in Seq(DownLines(Caps))
    BY <2>1, <2>3
  <2>5. Types'
    BY <1>1, <1>2, <2>1, <2>2, <2>4 DEF Types, TypeOK, Servers
  <2>6. QED
    BY <2>1, <2>2, <2>5 DEF Fresh
<1>4. CASE OnDisconnected
  <2> DEFINE c == [NoClient(client.nick) EXCEPT !.listingUnsupported = client.listingUnsupported]
  <2>1. /\ server' = NoServer /\ client' = c /\ down' = <<>> /\ up' = <<>>
        /\ drops < network.drops /\ drops' = drops + 1
        /\ UNCHANGED <<network, others, renames, strangers>>
    BY <1>4 DEF OnDisconnected
  <2>2. /\ c \in Clients /\ c.nick = client.nick
        /\ ~c.registered /\ ~c.saslAuthed /\ ~c.saslPending /\ ~c.endedDuringSasl /\ ~c.fallback
        /\ c.reclaimed = 0 /\ c.acked = {} /\ c.lsBuffer = {} /\ c.requested = {}
    BY <1>1 DEF NoClient, Clients
  <2> HIDE DEF c
  <2>3. /\ server' \in Servers /\ server'.enabled = {} /\ server'.announced = {}
        /\ server'.auth = "none" /\ server'.nick = -1 /\ ~server'.registered /\ ~server'.holding
    BY <2>1 DEF NoServer, Servers
  <2>4. up' \in Seq(UpLines(Caps)) /\ down' \in Seq(DownLines(Caps))
    BY <2>1
  <2>5. network.drops \in Nat /\ drops \in Nat
    BY NetworksAssumption DEF Types, TypeOK
  <2>6. drops' \in 0..network.drops /\ drops' # 0
    BY <2>1, <2>5
  <2>7. Types'
    BY <1>1, <1>2, <2>1, <2>2, <2>3, <2>4, <2>6 DEF Types, TypeOK, Servers, Clients
  <2>8. QED
    BY <2>1, <2>2, <2>3, <2>6, <2>7 DEF Fresh
<1>5. QED
  BY <1>3, <1>4

LEMMA NicksLeft ==
  ASSUME IInv, OnNickInUse, UNCHANGED network
  PROVE  client.registered \/ client.nick # MaxNick
<1>1. down \in Seq(DownLines(Caps)) /\ down # <<>> /\ Head(down).kind = "433"
  BY DEF IInv, Types, OnNickInUse, Handles
<1>2. 1 \in DOMAIN down /\ down[1] \in DownLines(Caps) /\ down[1].kind = "433"
  BY <1>1
<1>3. down[1] \in Down({"433"})
  BY <1>2, SetsHaveLines DEF IInv
<1>4. ~None(down, Down({"433"}))
  BY <1>2, <1>3 DEF None
<1>5. QED
  BY <1>4 DEF IInv, NickInv, NickOK

LEMMA CapsKept ==
  ASSUME IInv, Next
  PROVE  CapsInv'
<1>1. Types /\ Linked /\ CapsInv /\ UNCHANGED network /\ Caps' = Caps
  BY DEF IInv, Next, Caps
<1>2. CASE OnConnected \/ OnDisconnected
  <2>1. down' = <<>> /\ client'.acked = {} /\ server'.enabled = {}
    BY <1>1, <1>2, LinkHas DEF Fresh
  <2>2. QED
    BY <1>1, <2>1, Nothing DEF CapsInv
<1>3. CASE OnCapLsMore
  BY <1>1, <1>3, LsMoreHas, CapsHeard DEF Keeps, Fields
<1>4. CASE OnCapLs
  <2>1. \E say : Heard({"LS"}, say)
    BY <1>1, <1>4, LsHas
  <2>2. client'.acked = client.acked
    BY <1>1, <1>4, LsHas DEF Keeps, Fields
  <2>3. QED
    BY <1>1, <2>1, <2>2, CapsHeard
<1>5. CASE OnCapAck
  BY <1>1, <1>5, CapsAcked
<1>6. CASE OnCapNak
  <2>1. \E say : Heard({"NAK"}, say)
    BY <1>1, <1>6, NakHas
  <2>2. client'.acked = client.acked
    BY <1>1, <1>6, NakHas DEF Keeps, Fields
  <2>3. QED
    BY <1>1, <2>1, <2>2, CapsHeard
<1>7. CASE OnCapNew
  <2>1. \E say : Heard({"NEW"}, say)
    BY <1>1, <1>7, NewHas
  <2>2. client'.acked = client.acked
    BY <1>1, <1>7, NewHas DEF Keeps, Fields
  <2>3. QED
    BY <1>1, <2>1, <2>2, CapsHeard
<1>8. CASE OnCapDel
  BY <1>1, <1>8, CapsDeleted
<1>9. CASE OnAuthenticate
  BY <1>1, <1>9, AuthenticateHas, CapsHeard DEF Keeps, Fields
<1>10. CASE OnSaslSuccess
  <2>1. \E say : Heard({"903"}, say)
    BY <1>1, <1>10, SuccessHas
  <2>2. client'.acked = client.acked
    BY <1>1, <1>10, SuccessHas DEF Keeps, Fields
  <2>3. QED
    BY <1>1, <2>1, <2>2, CapsHeard
<1>11. CASE OnSaslFailure
  <2>1. \E say : Heard({"904"}, say)
    BY <1>1, <1>11, FailureHas
  <2>2. client'.acked = client.acked
    BY <1>1, <1>11, FailureHas DEF Keeps, Fields
  <2>3. QED
    BY <1>1, <2>1, <2>2, CapsHeard
<1>12. CASE OnNickInUse
  <2>1. \E say : Heard({"433"}, say)
    BY <1>1, <1>12, NicksLeft, NickInUseHas
  <2>2. client'.acked = client.acked
    BY <1>1, <1>12, NicksLeft, NickInUseHas DEF Keeps, Fields
  <2>3. QED
    BY <1>1, <2>1, <2>2, CapsHeard
<1>13. CASE OnWelcome
  BY <1>1, <1>13, WelcomeHas, CapsHeard DEF Keeps, Fields
<1>14. CASE OnNick
  BY <1>1, <1>14, NickHas, CapsHeard DEF Keeps, Fields
<1>15. CASE Noted
  BY <1>1, <1>15, NotedHas, CapsHeard DEF Keeps, Fields, NotedKinds
<1>16. CASE ServerLs
  <2>1. PICK say : /\ Sent(say) /\ server'.enabled = server.enabled
                   /\ \A c : None(say, DownWith({"ACK", "DEL"}, c))
    <3>1. PICK first \in SUBSET network.offered :
            \/ Sent(<<CapLine("LS", network.offered)>>)
            \/ Sent(<<CapLine("LS*", first), CapLine("LS", network.offered \ first)>>)
      BY <1>1, <1>16, ServerLsHas DEF Served
    <3>2. \A c, C : CapLine("LS*", C) \notin DownWith({"ACK", "DEL"}, c)
                    /\ CapLine("LS", C) \notin DownWith({"ACK", "DEL"}, c)
      BY DEF CapLine, DownWith
    <3>3. \A c : /\ None(<<CapLine("LS", network.offered)>>, DownWith({"ACK", "DEL"}, c))
                 /\ None(<<CapLine("LS*", first), CapLine("LS", network.offered \ first)>>,
                         DownWith({"ACK", "DEL"}, c))
      BY <3>2, One, Two
    <3>4. server'.enabled = server.enabled
      BY <1>1, <1>16, ServerLsHas DEF Stays, ServerFields
    <3>5. QED
      BY <3>1, <3>3, <3>4
  <2>2. QED
    BY <1>1, <2>1, CapsSent
<1>17. CASE ServerReq
  <2> DEFINE caps == Head(up).caps
  <2>1. \A c \in Caps, C \in SUBSET Caps :
          /\ CapLine("ACK", C) \in DownWith({"ACK", "DEL"}, c) <=> c \in C
          /\ CapLine("ACK", C) \in Down({"ACK"})
    <3>1. \A C \in SUBSET Caps : CapLine("ACK", C) \in DownLines(Caps) /\ CapLine("ACK", C).kind = "ACK"
                                 /\ CapLine("ACK", C).caps = C
      BY DEF CapLine, DownLines
    <3>2. \A c : \A l \in DownLines(Caps) :
            l \in DownWith({"ACK", "DEL"}, c) <=> l.kind \in {"ACK", "DEL"} /\ c \in l.caps
      BY <1>1, SetsHaveLines
    <3>3. \A l \in DownLines(Caps) : l \in Down({"ACK"}) <=> l.kind \in {"ACK"}
      BY <1>1, SetsHaveLines
    <3>4. QED
      BY <3>1, <3>2, <3>3
  <2>2. caps \subseteq Caps
    BY <1>1, <1>17, ServerReqHas
  <2>3. CASE Sent(<<Line("NAK")>>) /\ server'.enabled = server.enabled
    <3>1. Line("NAK").kind = "NAK"
      BY DEF Line
    <3>2. \A c : None(<<Line("NAK")>>, DownWith({"ACK", "DEL"}, c))
      BY <3>1, OfKind
    <3>3. QED
      BY <1>1, <2>3, <3>2, CapsSent
  <2>4. CASE Sent(<<CapLine("ACK", caps)>>) /\ server'.enabled = server.enabled \cup caps
    <3>1. \A c \in Caps : c \notin caps => None(<<CapLine("ACK", caps)>>, DownWith({"ACK", "DEL"}, c))
      BY <2>1, <2>2, One
    <3>2. \A c \in caps : /\ ~None(<<CapLine("ACK", caps)>>, DownWith({"ACK", "DEL"}, c))
                          /\ Last(<<CapLine("ACK", caps)>>, DownWith({"ACK", "DEL"}, c), Down({"ACK"}))
      BY <2>1, <2>2, One
    <3>3. QED
      BY <1>1, <2>4, <3>1, <3>2, CapsGranted
  <2>5. ASSUME NEW first \in SUBSET caps, Sent(<<CapLine("ACK", first), CapLine("ACK", caps \ first)>>),
               server'.enabled = server.enabled \cup caps
        PROVE  CapsInv'
    <3> DEFINE say == <<CapLine("ACK", first), CapLine("ACK", caps \ first)>>
    <3>1. /\ first \in SUBSET Caps /\ caps \ first \in SUBSET Caps
      BY <2>2
    <3>2. \A c \in Caps : c \notin caps => None(say, DownWith({"ACK", "DEL"}, c))
      BY <2>1, <3>1, Two
    <3>3. \A c \in caps : ~None(say, DownWith({"ACK", "DEL"}, c))
      BY <2>1, <2>2, <3>1, Two
    <3>4. \A c \in caps : Last(say, DownWith({"ACK", "DEL"}, c), Down({"ACK"}))
      BY <2>1, <2>2, <3>1, Two
    <3> HIDE DEF say
    <3>5. Sent(say)
      BY <2>5 DEF say
    <3>6. QED
      BY <1>1, <2>5, <3>2, <3>3, <3>4, <3>5, CapsGranted
  <2>6. QED
    <3>1. Stays({"enabled"}) \/ (Stays({}) /\ Served("REQ", <<Line("NAK")>>))
      BY <1>1, <1>17, ServerReqHas
    <3>2. \/ Sent(<<Line("NAK")>>) /\ server'.enabled = server.enabled
          \/ Sent(<<CapLine("ACK", caps)>>) /\ server'.enabled = server.enabled \cup caps
          \/ \E first \in SUBSET caps :
               /\ Sent(<<CapLine("ACK", first), CapLine("ACK", caps \ first)>>)
               /\ server'.enabled = server.enabled \cup caps
      BY <1>1, <1>17, ServerReqHas DEF Served, Stays, ServerFields
    <3>3. QED
      BY <2>3, <2>4, <2>5, <3>2
<1>18. CASE ServerAuthenticate
  <2>1. PICK k \in {"904", "AUTHENTICATE"} : Sent(<<Line(k)>>) /\ server'.enabled = server.enabled
    BY <1>1, <1>18, ServerAuthenticateHas DEF Served, Stays, ServerFields
  <2>2. Line(k).kind = k
    BY DEF Line
  <2>3. \A c : None(<<Line(k)>>, DownWith({"ACK", "DEL"}, c))
    BY <2>2, OfKind
  <2>4. QED
    BY <1>1, <2>1, <2>3, CapsSent
<1>19. CASE ServerCredentials
  <2>1. PICK k \in {"903", "904"} : Sent(<<Line(k)>>) /\ server'.enabled = server.enabled
    BY <1>1, <1>19, ServerCredentialsHas DEF Served, Stays, ServerFields
  <2>2. Line(k).kind = k
    BY DEF Line
  <2>3. \A c : None(<<Line(k)>>, DownWith({"ACK", "DEL"}, c))
    BY <2>2, OfKind
  <2>4. QED
    BY <1>1, <2>1, <2>3, CapsSent
<1>20. CASE ServerEnd
  <2>1. (Sent(<<Line("904")>>) \/ Sent(<<>>)) /\ server'.enabled = server.enabled
    BY <1>1, <1>20, ServerEndHas DEF Served, Stays, ServerFields
  <2>2. Line("904").kind = "904"
    BY DEF Line
  <2>3. \A c : None(<<Line("904")>>, DownWith({"ACK", "DEL"}, c)) /\ None(<<>>, DownWith({"ACK", "DEL"}, c))
    BY <2>2, OfKind, Nothing
  <2>4. QED
    BY <1>1, <2>1, <2>3, CapsSent
<1>21. CASE ServerNick
  <2>1. server.registered => server.nick # -1
    BY <1>1 DEF Linked
  <2>2. PICK say : /\ Sent(say) /\ server'.enabled = server.enabled
                   /\ say = <<>> \/ \E l : say = <<l>> /\ l.kind \in {"433", "NICK"}
    <3>1. /\ Line("433").kind = "433" /\ \A n, m : NickLine(n, m).kind = "NICK"
      BY DEF Line, NickLine
    <3>2. QED
      BY <1>1, <1>21, <2>1, <3>1, ServerNickHas DEF Served, Stays, ServerFields
  <2>3. \A c : None(say, DownWith({"ACK", "DEL"}, c))
    BY <2>2, OfKind, Nothing
  <2>4. QED
    BY <1>1, <2>2, <2>3, CapsSent
<1>22. CASE ServerWelcome
  <2>1. Sent(<<Line("001")>>) /\ server'.enabled = server.enabled
    BY <1>1, <1>22, ServerWelcomeHas DEF Stays, ServerFields
  <2>2. Line("001").kind = "001"
    BY DEF Line
  <2>3. \A c : None(<<Line("001")>>, DownWith({"ACK", "DEL"}, c))
    BY <2>2, OfKind
  <2>4. QED
    BY <1>1, <2>1, <2>3, CapsSent
<1>23. CASE ServerListNetworks
  <2>1. PICK k \in {"LISTED", "FAIL"} : Sent(<<Line(k)>>) /\ server'.enabled = server.enabled
    BY <1>1, <1>23, ServerListNetworksHas DEF Served, Stays, ServerFields
  <2>2. Line(k).kind = k
    BY DEF Line
  <2>3. \A c : None(<<Line(k)>>, DownWith({"ACK", "DEL"}, c))
    BY <2>2, OfKind
  <2>4. QED
    BY <1>1, <2>1, <2>3, CapsSent
<1>24. CASE ServerCapNew
  <2>1. PICK cap : Sent(<<CapLine("NEW", {cap})>>) /\ server'.enabled = server.enabled
    BY <1>1, <1>24, CapNewHas DEF Stays, ServerFields
  <2>2. CapLine("NEW", {cap}).kind = "NEW"
    BY DEF CapLine
  <2>3. \A c : None(<<CapLine("NEW", {cap})>>, DownWith({"ACK", "DEL"}, c))
    BY <2>2, OfKind
  <2>4. QED
    BY <1>1, <2>1, <2>3, CapsSent
<1>25. CASE ServerCapDel
  <2>1. PICK cap \in server.enabled : Sent(<<CapLine("DEL", {cap})>>) /\ server'.enabled = server.enabled \ {cap}
    BY <1>1, <1>25, CapDelHas
  <2>2. /\ Caps' = Caps /\ client' = client /\ Joined(down, <<CapLine("DEL", {cap})>>, down')
        /\ down \in Seq(DownLines(Caps)) /\ <<CapLine("DEL", {cap})>> \in Seq(DownLines(Caps))
    BY <1>1, <2>1 DEF Sent, Types
  <2>3. /\ CapLine("DEL", {cap}).kind = "DEL" /\ CapLine("DEL", {cap}).caps = {cap}
        /\ CapLine("DEL", {cap}) \in DownLines(Caps)
    <3>1. cap \in Caps
      BY <1>1, <2>1 DEF Types, TypeOK
    <3>2. QED
      BY <3>1 DEF CapLine, DownLines
  <2> DEFINE l == CapLine("DEL", {cap})
  <2>4. \A c : l \in DownWith({"ACK", "DEL"}, c) <=> c = cap
    BY <1>1, <2>3, SetsHaveLines
  <2>5. l \in Down({"DEL"})
    BY <1>1, <2>3, SetsHaveLines
  <2> DEFINE say == <<l>>
  <2>6. down \in Seq(DownLines(Caps)) /\ say \in Seq(DownLines(Caps)) /\ Joined(down, say, down')
    BY <2>2
  <2>7. /\ ~None(say, DownWith({"ACK", "DEL"}, cap)) /\ Last(say, DownWith({"ACK", "DEL"}, cap), Down({"DEL"}))
        /\ \A c : c # cap => None(say, DownWith({"ACK", "DEL"}, c))
    BY <2>4, <2>5, One
  <2> HIDE DEF l, say
  <2> SUFFICES ASSUME NEW c \in Caps
               PROVE  /\ None(down', DownWith({"ACK", "DEL"}, c)) => (c \in client.acked <=> c \in server'.enabled)
                      /\ Last(down', DownWith({"ACK", "DEL"}, c), Granted(c)')
    BY <2>2 DEF CapsInv
  <2>8. CASE c = cap
    <3>1. Granted(c)' = Down({"DEL"})
      BY <2>1, <2>8 DEF Granted
    <3>2. Last(down', DownWith({"ACK", "DEL"}, cap), Down({"DEL"}))
      BY <2>6, <2>7, PutLast
    <3>3. ~None(down', DownWith({"ACK", "DEL"}, cap))
      BY <2>6, <2>7, Put
    <3>4. QED
      BY <2>8, <3>1, <3>2, <3>3
  <2>9. CASE c # cap
    <3>1. Granted(c)' = Granted(c) /\ (c \in server'.enabled <=> c \in server.enabled)
      BY <2>1, <2>9 DEF Granted
    <3>2. Last(down', DownWith({"ACK", "DEL"}, c), Granted(c))
      BY <1>1, <2>6, <2>7, <2>9, PutLast DEF CapsInv
    <3>3. None(down', DownWith({"ACK", "DEL"}, c)) => None(down, DownWith({"ACK", "DEL"}, c))
      BY <2>6, Put
    <3>4. QED
      BY <1>1, <3>1, <3>2, <3>3 DEF CapsInv
  <2>10. QED
    BY <2>8, <2>9
<1>26. ASSUME NEW nick \in Nick, UserNick(nick)
       PROVE  CapsInv'
  <2>1. UNCHANGED <<server, down>> /\ client'.acked = client.acked
    BY <1>1, <1>26, UserNickHas DEF Keeps, Fields
  <2>2. QED
    BY <1>1, <2>1 DEF CapsInv, Granted
<1>27. ASSUME NEW old \in Nick, NEW new \in Nick, OtherNick(old, new)
       PROVE  CapsInv'
  <2>1. Sent(<<NickLine(old, new)>>) /\ server'.enabled = server.enabled
    BY <1>1, <1>27, OtherNickHas DEF Stays, ServerFields
  <2>2. NickLine(old, new).kind = "NICK"
    BY DEF NickLine
  <2>3. \A c : None(<<NickLine(old, new)>>, DownWith({"ACK", "DEL"}, c))
    BY <2>2, OfKind
  <2>4. QED
    BY <1>1, <2>1, <2>3, CapsSent
<1>28. CASE ServerRefuses
  <2>1. PICK k \in {"432", "902"} : Sent(<<Line(k)>>) /\ server'.enabled = server.enabled
    BY <1>1, <1>28, ServerRefusesHas DEF Served, Stays, ServerFields
  <2>2. Line(k).kind = k
    BY DEF Line
  <2>3. \A c : None(<<Line(k)>>, DownWith({"ACK", "DEL"}, c))
    BY <2>2, OfKind
  <2>4. QED
    BY <1>1, <2>1, <2>3, CapsSent
<1>29. QED
  BY <1>2, <1>3, <1>4, <1>5, <1>6, <1>7, <1>8, <1>9, <1>10, <1>11, <1>12, <1>13, <1>14, <1>15, <1>16,
     <1>17, <1>18, <1>19, <1>20, <1>21, <1>22, <1>23, <1>24, <1>25, <1>26, <1>27, <1>28
     DEF Next, Client, Noted, Server

(* ------------------------ SASL, step by step --------------------------- *)

LEMMA SaslLines ==
  /\ \A s : None(s, SaslUp) <=> None(s, Up({"LS"})) /\ None(s, SaslAsked)
  /\ \A s : None(s, SaslAsked) <=> None(s, Up({"AUTHENTICATE", "CREDENTIALS"})) /\ None(s, SaslReq)
  /\ \A s : None(s, SaslDown) <=> /\ None(s, Down({"AUTHENTICATE"}))
                                  /\ None(s, DownWith({"LS*", "LS", "NEW", "ACK"}, "sasl"))
  /\ \A l : l \in SaslAsked => l \in SaslUp
BY NoneOfBoth DEF SaslUp, SaslAsked, SaslDown, SaslReq

\* The client passes a line about sasl on, or keeps what it read of one.
LEMMA SaslHeard ==
  ASSUME Types, SaslInv, NEW k, NEW say, Heard({k}, say),
         client'.saslAuthed => client.saslAuthed \/ Head(down) \in Down({"903"}),
         \/ /\ None(say, SaslUp)
            /\ "sasl" \in client'.lsBuffer => "sasl" \in client.lsBuffer \/ Head(down) \in SaslDown
         \/ /\ Head(down) \in SaslDown \/ "sasl" \in client.lsBuffer
            /\ None(say, Up({"LS"})) /\ AtMostOne(say, SaslUp) /\ "sasl" \notin client'.lsBuffer
  PROVE  SaslInv'
<1>1. /\ server' = server /\ Taken(down, down') /\ Joined(up, say, up')
      /\ up \in Seq(UpLines(Caps)) /\ say \in Seq(UpLines(Caps)) /\ down \in Seq(DownLines(Caps))
  BY DEF Heard, Types
<1>2. /\ Alone(down, SaslDown, up, SaslUp)
      /\ "sasl" \in client.lsBuffer => Clear(down, SaslDown, up, SaslUp)
  BY DEF SaslInv, Alone, Clear
<1>3. Alone(down', SaslDown, up', SaslUp)
  BY <1>1, <1>2, PassOn
<1>4. "sasl" \in client'.lsBuffer => Clear(down', SaslDown, up', SaslUp)
  BY <1>1, <1>2, PassOn
<1>5. Alone(up', SaslUp, down', SaslDown)
      /\ ("sasl" \in client'.lsBuffer => Clear(up', SaslUp, down', SaslDown))
  BY <1>3, <1>4 DEF Alone, Clear
<1>6. None(up, Up({"LS"})) => None(up', Up({"LS"}))
  BY HeardLines, SaslLines
<1>7. ASSUME "sasl" \notin server.announced
      PROVE  Clear(up', SaslAsked, down', SaslDown) /\ "sasl" \notin client'.lsBuffer
  <2>1. None(up, SaslAsked) /\ None(down, SaslDown) /\ "sasl" \notin client.lsBuffer
    BY <1>7 DEF SaslInv, Clear
  <2>2. Head(down) \notin SaslDown /\ None(down', SaslDown)
    BY <2>1, HeardLines
  <2>3. None(say, SaslAsked)
    BY <2>1, <2>2, SaslLines
  <2>4. None(up', SaslAsked)
    BY <2>1, <2>3, HeardLines
  <2>5. QED
    BY <2>1, <2>2, <2>4 DEF Clear
<1>8. ASSUME client'.saslAuthed \/ ~None(down', Down({"903"}))
      PROVE  /\ "sasl" \in server.announced /\ server.auth = "done"
             /\ Clear(up', SaslUp, down', SaslDown) /\ "sasl" \notin client'.lsBuffer
  <2>1. client.saslAuthed \/ ~None(down, Down({"903"}))
    BY <1>8, HeardLines
  <2>2. /\ "sasl" \in server.announced /\ server.auth = "done"
        /\ None(up, SaslUp) /\ None(down, SaslDown) /\ "sasl" \notin client.lsBuffer
    BY <2>1 DEF SaslInv, Clear
  <2>3. Head(down) \notin SaslDown /\ None(down', SaslDown)
    BY <2>2, HeardLines
  <2>4. None(up', SaslUp)
    BY <2>2, <2>3, HeardLines
  <2>5. QED
    BY <2>2, <2>3, <2>4 DEF Clear
<1>9. QED
  BY <1>1, <1>5, <1>6, <1>7, <1>8 DEF SaslInv

\* The server answers a line about sasl by another one, or by the outcome.
LEMMA SaslServed ==
  ASSUME Types, SaslInv, NEW k, NEW say, Served(k, say), server'.announced = server.announced,
         server.auth = "done" => server'.auth = "done" \/ Head(up) \in SaslAsked,
         None(say, SaslDown) \/ (Head(up) \in SaslAsked /\ AtMostOne(say, SaslDown)),
         \/ None(say, Down({"903"}))
         \/ Head(up) \in SaslAsked /\ server'.auth = "done" /\ None(say, SaslDown)
  PROVE  SaslInv'
<1>1. /\ client' = client /\ Taken(up, up') /\ Joined(down, say, down')
      /\ down \in Seq(DownLines(Caps)) /\ say \in Seq(DownLines(Caps)) /\ up \in Seq(UpLines(Caps))
  BY DEF Served, Sent, Types
<1>2. Alone(up, SaslUp, down, SaslDown) /\ (Head(up) \in SaslAsked => Head(up) \in SaslUp)
  BY SaslLines DEF SaslInv
<1>3. Alone(up', SaslUp, down', SaslDown)
  BY <1>1, <1>2, PassOn
<1>4. Clear(up, SaslUp, down, SaslDown) /\ None(say, SaslDown) => Clear(up', SaslUp, down', SaslDown)
  BY ServedLines DEF Clear
<1>5. Clear(up, SaslUp, down, SaslDown) => Head(up) \notin SaslAsked
  BY <1>2, ServedLines DEF Clear
<1>6. "sasl" \in client.lsBuffer => Clear(up', SaslUp, down', SaslDown)
  BY <1>4, <1>5 DEF SaslInv
<1>7. None(up, Up({"LS"})) => None(up', Up({"LS"}))
  BY ServedLines
<1>8. ASSUME "sasl" \notin server.announced
      PROVE  Clear(up', SaslAsked, down', SaslDown) /\ "sasl" \notin client.lsBuffer
  <2>1. None(up, SaslAsked) /\ None(down, SaslDown) /\ "sasl" \notin client.lsBuffer
    BY <1>8 DEF SaslInv, Clear
  <2>2. Head(up) \notin SaslAsked /\ None(up', SaslAsked)
    BY <2>1, ServedLines
  <2>3. None(down', SaslDown)
    BY <2>1, <2>2, ServedLines
  <2>4. QED
    BY <2>1, <2>2, <2>3 DEF Clear
<1>9. ASSUME client.saslAuthed \/ ~None(down', Down({"903"}))
      PROVE  /\ "sasl" \in server.announced /\ server'.auth = "done"
             /\ Clear(up', SaslUp, down', SaslDown) /\ "sasl" \notin client.lsBuffer
  <2>1. CASE client.saslAuthed \/ ~None(down, Down({"903"}))
    <3>1. /\ "sasl" \in server.announced /\ server.auth = "done"
          /\ Clear(up, SaslUp, down, SaslDown) /\ "sasl" \notin client.lsBuffer
      BY <2>1 DEF SaslInv
    <3>2. QED
      BY <1>4, <1>5, <3>1
  <2>2. CASE ~client.saslAuthed /\ None(down, Down({"903"}))
    <3>1. ~None(say, Down({"903"}))
      BY <1>9, <2>2, ServedLines
    <3>2. Head(up) \in SaslAsked /\ server'.auth = "done" /\ None(say, SaslDown)
      BY <3>1
    <3>3. "sasl" \in server.announced
      BY <3>2, ServedLines DEF SaslInv, Clear
    <3>4. "sasl" \notin client.lsBuffer
      BY <1>5, <3>2 DEF SaslInv
    <3>5. Clear(up', SaslUp, down', SaslDown)
      BY <1>1, <1>2, <3>2, PassOn
    <3>6. QED
      BY <3>2, <3>3, <3>4, <3>5
  <2>3. QED
    BY <2>1, <2>2
<1>10. QED
  BY <1>1, <1>3, <1>6, <1>7, <1>8, <1>9 DEF SaslInv

\* The server sends something else unasked.
LEMMA SaslSent ==
  ASSUME Types, SaslInv, NEW say, Sent(say), UNCHANGED up, server'.announced = server.announced,
         server'.auth = server.auth, None(say, SaslDown), None(say, Down({"903"}))
  PROVE  SaslInv'
<1>1. /\ client' = client /\ Joined(down, say, down') /\ up' = up
      /\ down \in Seq(DownLines(Caps)) /\ say \in Seq(DownLines(Caps))
  BY DEF Sent, Types
<1>2. /\ Alone(up, SaslUp, down, SaslDown) => Alone(up, SaslUp, down', SaslDown)
      /\ Clear(up, SaslUp, down, SaslDown) => Clear(up, SaslUp, down', SaslDown)
      /\ Clear(up, SaslAsked, down, SaslDown) => Clear(up, SaslAsked, down', SaslDown)
      /\ None(down, Down({"903"})) => None(down', Down({"903"}))
  BY <1>1, Put DEF Alone, Clear
<1>3. QED
  BY <1>1, <1>2 DEF SaslInv

LEMMA ThenLines ==
  ASSUME NEW list \in BOOLEAN, NEW T, Line("LISTNETWORKS") \notin T
  PROVE  /\ None(Then(list), T)
         /\ Line("END") \notin T => None(<<Line("END")>> \o Then(list), T)
<1> DEFINE S == {Line("END"), Line("LISTNETWORKS")}
           end == <<Line("END")>>
           all == end \o Then(list)
<1>1. Then(list) \in Seq(S) /\ None(Then(list), T)
  <2>1. <<>> \in Seq(S) /\ <<Line("LISTNETWORKS")>> \in Seq(S)
    OBVIOUS
  <2>2. None(<<>>, T) /\ None(<<Line("LISTNETWORKS")>>, T)
    BY Nothing, One
  <2>3. QED
    BY <2>1, <2>2, Zenon DEF Then
<1>2. end \in Seq(S) /\ (Line("END") \notin T => None(end, T))
  BY One
<1>3. Joined(end, Then(list), all)
  BY DEF Joined
<1> HIDE DEF S, end, all
<1>4. Line("END") \notin T => None(all, T)
  BY <1>1, <1>2, <1>3, Put
<1>5. QED
  BY <1>1, <1>4 DEF all, end

LEMMA SaslKinds ==
  ASSUME NEW l, NEW k, l.kind = k
  PROVE  /\ k \notin {"LS", "AUTHENTICATE", "CREDENTIALS", "REQ"} => l \notin SaslUp /\ None(<<l>>, SaslUp)
         /\ k \notin {"LS*", "LS", "NEW", "ACK", "AUTHENTICATE"} =>
              l \notin SaslDown /\ None(<<l>>, SaslDown)
<1>1. k \notin {"LS", "AUTHENTICATE", "CREDENTIALS", "REQ"} => l \notin SaslUp
  BY DEF SaslUp, SaslAsked, SaslReq, Up, UpWith
<1>2. k \notin {"LS*", "LS", "NEW", "ACK", "AUTHENTICATE"} => l \notin SaslDown
  BY DEF SaslDown, Down, DownWith
<1>3. QED
  BY <1>1, <1>2, One

LEMMA SaslKeptByClient ==
  ASSUME IInv, Client, UNCHANGED network
  PROVE  SaslInv'
<1>1. Types /\ SaslInv
  BY DEF IInv
<1>2. /\ None(<<>>, SaslUp)
      /\ \A k \in {"END", "LISTNETWORKS"} : None(<<Line(k)>>, SaslUp) /\ Line(k) \notin SaslUp
      /\ \A n : None(<<SetNickLine(n)>>, SaslUp)
  <2>1. /\ \A k : Line(k).kind = k
        /\ \A n : SetNickLine(n).kind = "NICK"
    BY DEF Line, SetNickLine
  <2>2. None(<<>>, SaslUp)
    BY Nothing
  <2>3. QED
    BY <2>1, <2>2, SaslKinds
<1>3. \A c : CapLine("REQ", c).kind = "REQ" /\ CapLine("REQ", c).caps = c
  BY DEF CapLine
<1>4. \A c : None(<<CapLine("REQ", c)>>, Up({"LS"})) /\ AtMostOne(<<CapLine("REQ", c)>>, SaslUp)
  BY <1>3, OfKind, One
<1>5. \A c : "sasl" \notin c => None(<<CapLine("REQ", c)>>, SaslUp)
  <2> SUFFICES ASSUME NEW c, "sasl" \notin c
               PROVE  CapLine("REQ", c) \notin SaslUp
    BY One
  <2>1. CapLine("REQ", c).kind = "REQ" /\ "sasl" \notin CapLine("REQ", c).caps
    BY <1>3
  <2>2. QED
    BY <2>1 DEF SaslUp, SaslAsked, Up, UpWith
<1>6. ASSUME Head(down) \in DownLines(Caps), Head(down).kind \in {"LS*", "LS", "NEW", "ACK"},
             "sasl" \in Head(down).caps
      PROVE  Head(down) \in SaslDown
  <2>1. Head(down) \in DownWith({"LS*", "LS", "NEW", "ACK"}, "sasl")
    BY <1>1, <1>6, SetsHaveLines
  <2>2. QED
    BY <2>1 DEF SaslDown
<1>7. CASE OnCapLsMore
  <2>1. /\ Heard({"LS*"}, <<>>) /\ client'.lsBuffer = client.lsBuffer \cup Head(down).caps
        /\ client'.saslAuthed = client.saslAuthed
    BY <1>1, <1>7, LsMoreHas DEF Keeps, Fields
  <2>2. "sasl" \in client'.lsBuffer => "sasl" \in client.lsBuffer \/ Head(down) \in SaslDown
    BY <1>6, <2>1 DEF Heard
  <2>3. QED
    BY <1>1, <1>2, <2>1, <2>2, SaslHeard
<1>8. CASE OnCapLs
  <2> DEFINE want == (client.lsBuffer \cup Head(down).caps) \cap Desired
             req == <<CapLine("REQ", want)>>
  <2>1. /\ client'.lsBuffer = {} /\ client'.saslAuthed = client.saslAuthed
        /\ Heard({"LS"}, <<Line("END")>>) \/ Heard({"LS"}, req)
    BY <1>1, <1>8, LsHas DEF Keeps, Fields
  <2>2. None(req, SaslUp) \/ Head(down) \in SaslDown \/ "sasl" \in client.lsBuffer
    <3>1. CASE "sasl" \notin want
      BY <1>5, <3>1
    <3>2. CASE "sasl" \in want
      BY <1>6, <2>1, <3>2 DEF Heard
    <3>3. QED
      BY <3>1, <3>2
  <2>3. None(req, Up({"LS"})) /\ AtMostOne(req, SaslUp)
    BY <1>4
  <2> HIDE DEF want, req
  <2>4. CASE Heard({"LS"}, <<Line("END")>>)
    BY <1>1, <1>2, <2>1, <2>4, SaslHeard
  <2>5. CASE Heard({"LS"}, req)
    BY <1>1, <2>1, <2>2, <2>3, <2>5, SaslHeard
  <2>6. QED
    BY <2>1, <2>4, <2>5
<1>9. CASE OnCapAck
  <2>1. client'.saslAuthed = client.saslAuthed /\ client'.lsBuffer = client.lsBuffer
    BY <1>1, <1>9, AckHas DEF Keeps, Fields
  <2>2. \/ \E say : Heard({"ACK"}, say) /\ None(say, SaslUp)
        \/ Heard({"ACK"}, <<Line("AUTHENTICATE")>>) /\ "sasl" \in Head(down).caps
    <3>1. \A list \in BOOLEAN : /\ None(Then(list), SaslUp)
                                /\ None(<<Line("END")>> \o Then(list), SaslUp)
      BY <1>2, ThenLines
    <3>2. PICK list \in BOOLEAN :
            \/ Heard({"ACK"}, Then(list))
            \/ Heard({"ACK"}, <<Line("AUTHENTICATE")>>) /\ "sasl" \in Head(down).caps
            \/ Heard({"ACK"}, <<Line("END")>> \o Then(list))
      BY <1>1, <1>9, AckHas
    <3>3. QED
      BY <3>1, <3>2
  <2>3. CASE \E say : Heard({"ACK"}, say) /\ None(say, SaslUp)
    BY <1>1, <2>1, <2>3, SaslHeard
  <2>4. CASE Heard({"ACK"}, <<Line("AUTHENTICATE")>>) /\ "sasl" \in Head(down).caps
    <3> DEFINE say == <<Line("AUTHENTICATE")>>
    <3>1. Head(down) \in SaslDown
      BY <1>6, <2>4 DEF Heard
    <3>2. Line("AUTHENTICATE").kind = "AUTHENTICATE"
      BY DEF Line
    <3>3. None(say, Up({"LS"})) /\ AtMostOne(say, SaslUp)
      BY <3>2, OfKind, One
    <3>4. "sasl" \notin client.lsBuffer
      BY <1>1, <3>1, <2>4, HeardLines DEF SaslInv, Clear
    <3> HIDE DEF say
    <3>5. Heard({"ACK"}, say)
      BY <2>4 DEF say
    <3>6. QED
      BY <1>1, <2>1, <3>1, <3>3, <3>4, <3>5, SaslHeard
  <2>5. QED
    BY <2>2, <2>3, <2>4
<1>10. CASE OnCapNak
  <2>1. client'.saslAuthed = client.saslAuthed /\ client'.lsBuffer = client.lsBuffer
    BY <1>1, <1>10, NakHas DEF Keeps, Fields
  <2>2. Heard({"NAK"}, <<>>) \/ Heard({"NAK"}, <<Line("END")>>)
    BY <1>1, <1>10, NakHas
  <2>3. QED
    BY <1>1, <1>2, <2>1, <2>2, SaslHeard
<1>11. CASE OnCapNew
  <2> DEFINE want == (Head(down).caps \cap Desired) \ client.acked
             req == <<CapLine("REQ", want)>>
  <2>1. client'.saslAuthed = client.saslAuthed /\ client'.lsBuffer = client.lsBuffer
        /\ (Heard({"NEW"}, <<>>) \/ Heard({"NEW"}, req))
    BY <1>1, <1>11, NewHas
  <2>2. None(req, SaslUp) \/ Head(down) \in SaslDown
    <3>1. CASE "sasl" \notin want
      BY <1>5, <3>1
    <3>2. CASE "sasl" \in want
      BY <1>6, <2>1, <3>2 DEF Heard
    <3>3. QED
      BY <3>1, <3>2
  <2>3. None(req, Up({"LS"})) /\ AtMostOne(req, SaslUp)
    BY <1>4
  <2> HIDE DEF want, req
  <2>4. CASE Heard({"NEW"}, <<>>)
    BY <1>1, <1>2, <2>1, <2>4, SaslHeard
  <2>5. CASE Heard({"NEW"}, req) /\ None(req, SaslUp)
    BY <1>1, <2>1, <2>5, SaslHeard
  <2>6. CASE Heard({"NEW"}, req) /\ Head(down) \in SaslDown
    <3>1. "sasl" \notin client.lsBuffer
      BY <1>1, <2>6, HeardLines DEF SaslInv, Clear
    <3>2. QED
      BY <1>1, <2>1, <2>3, <2>6, <3>1, SaslHeard
  <2>7. QED
    BY <2>1, <2>2, <2>4, <2>5, <2>6
<1>12. CASE OnCapDel
  <2>1. Heard({"DEL"}, <<>>) /\ client'.saslAuthed = client.saslAuthed /\ client'.lsBuffer = client.lsBuffer
    BY <1>1, <1>12, DelHas DEF Keeps, Fields
  <2>2. QED
    BY <1>1, <1>2, <2>1, SaslHeard
<1>13. CASE OnAuthenticate
  <2> DEFINE say == <<Line("CREDENTIALS")>>
  <2>1. Heard({"AUTHENTICATE"}, say) /\ client'.saslAuthed = client.saslAuthed
        /\ client'.lsBuffer = client.lsBuffer
    BY <1>1, <1>13, AuthenticateHas DEF Keeps, Fields
  <2>2. Head(down) \in SaslDown
    <3>1. Head(down) \in Down({"AUTHENTICATE"})
      BY <1>1, <2>1, SetsHaveLines DEF Heard
    <3>2. QED
      BY <3>1 DEF SaslDown
  <2>3. None(say, Up({"LS"})) /\ AtMostOne(say, SaslUp)
    <3>1. Line("CREDENTIALS").kind = "CREDENTIALS"
      BY DEF Line
    <3>2. QED
      BY <3>1, OfKind, One
  <2> HIDE DEF say
  <2>4. "sasl" \notin client.lsBuffer
    BY <1>1, <2>1, <2>2, HeardLines DEF SaslInv, Clear
  <2>5. QED
    BY <1>1, <2>1, <2>2, <2>3, <2>4, SaslHeard
<1>14. CASE OnSaslSuccess
  <2>1. Heard({"903"}, <<Line("END")>>) /\ client'.lsBuffer = client.lsBuffer
    BY <1>1, <1>14, SuccessHas DEF Keeps, Fields
  <2>2. Head(down) \in Down({"903"})
    BY <1>1, <2>1, SetsHaveLines DEF Heard
  <2>3. QED
    BY <1>1, <1>2, <2>1, <2>2, SaslHeard
<1>15. CASE OnSaslFailure
  <2>1. Heard({"904"}, <<Line("END")>>)
    BY <1>1, <1>15, FailureHas
  <2>2. client'.saslAuthed = client.saslAuthed /\ client'.lsBuffer = client.lsBuffer
    BY <1>1, <1>15, FailureHas DEF Keeps, Fields
  <2>3. QED
    BY <1>1, <1>2, <2>1, <2>2, SaslHeard
<1>16. CASE OnNickInUse
  <2>1. \E say : Heard({"433"}, say) /\ None(say, SaslUp)
    BY <1>1, <1>2, <1>16, NicksLeft, NickInUseHas
  <2>2. client'.saslAuthed = client.saslAuthed /\ client'.lsBuffer = client.lsBuffer
    BY <1>1, <1>16, NicksLeft, NickInUseHas DEF Keeps, Fields
  <2>3. QED
    BY <1>1, <2>1, <2>2, SaslHeard
<1>17. CASE OnWelcome
  <2>1. \E say : Heard({"001"}, say) /\ None(say, SaslUp)
    BY <1>1, <1>2, <1>17, WelcomeHas
  <2>2. client'.saslAuthed = client.saslAuthed /\ client'.lsBuffer = client.lsBuffer
    BY <1>1, <1>17, WelcomeHas DEF Keeps, Fields
  <2>3. QED
    BY <1>1, <2>1, <2>2, SaslHeard
<1>18. CASE OnNick
  <2>1. Heard({"NICK"}, <<>>) /\ client'.saslAuthed = client.saslAuthed /\ client'.lsBuffer = client.lsBuffer
    BY <1>1, <1>18, NickHas DEF Keeps, Fields
  <2>2. QED
    BY <1>1, <1>2, <2>1, SaslHeard
<1>19. CASE Noted
  <2>1. \E k : Heard({k}, <<>>)
    BY <1>1, <1>19, NotedHas
  <2>2. client'.saslAuthed = client.saslAuthed /\ client'.lsBuffer = client.lsBuffer
    BY <1>1, <1>19, NotedHas DEF Keeps, Fields
  <2>3. QED
    BY <1>1, <1>2, <2>1, <2>2, SaslHeard
<1>20. QED
  BY <1>7, <1>8, <1>9, <1>10, <1>11, <1>12, <1>13, <1>14, <1>15, <1>16, <1>17, <1>18, <1>19 DEF Client, Noted

LEMMA SaslKeptByServer ==
  ASSUME IInv, Server, UNCHANGED network
  PROVE  SaslInv'
<1>1. Types /\ Linked /\ SaslInv
  BY DEF IInv
<1>2. /\ None(<<>>, SaslDown) /\ None(<<>>, Down({"903"}))
      /\ \A l : l.kind \in {"NAK", "904", "433", "001", "LISTED", "FAIL", "NICK", "432", "902"} =>
           None(<<l>>, SaslDown) /\ None(<<l>>, Down({"903"}))
  BY SaslKinds, OfKind, Nothing
<1>3. \A k : Line(k).kind = k
  BY DEF Line
<1>4. CASE ServerLs
  <2>1. /\ server'.announced = network.offered /\ server'.auth = server.auth
    BY <1>1, <1>4, ServerLsHas DEF Stays, ServerFields
  <2>2. PICK say : /\ Served("LS", say) /\ AtMostOne(say, SaslDown) /\ None(say, Down({"903"}))
                   /\ "sasl" \notin network.offered => None(say, SaslDown)
    <3>1. PICK first \in SUBSET network.offered :
            \/ Served("LS", <<CapLine("LS", network.offered)>>)
            \/ Served("LS", <<CapLine("LS*", first), CapLine("LS", network.offered \ first)>>)
      BY <1>1, <1>4, ServerLsHas
    <3> DEFINE x == CapLine("LS*", first)
               y == CapLine("LS", network.offered \ first)
               z == CapLine("LS", network.offered)
    <3>2. /\ x.kind = "LS*" /\ x.caps = first /\ y.kind = "LS" /\ y.caps = network.offered \ first
          /\ z.kind = "LS" /\ z.caps = network.offered
      BY DEF CapLine
    <3>3. \A l : l \in SaslDown /\ l.kind \in {"LS*", "LS"} => "sasl" \in l.caps
      BY DEF SaslDown, Down, DownWith
    <3>4. /\ x \in SaslDown => "sasl" \in first
          /\ y \in SaslDown => "sasl" \in network.offered \ first
          /\ z \in SaslDown => "sasl" \in network.offered
      BY <3>2, <3>3
    <3>5. x \notin Down({"903"}) /\ y \notin Down({"903"}) /\ z \notin Down({"903"})
      BY <3>2, OfKind
    <3> HIDE DEF x, y, z
    <3>6. /\ AtMostOne(<<x, y>>, SaslDown) /\ None(<<x, y>>, Down({"903"}))
          /\ "sasl" \notin network.offered => None(<<x, y>>, SaslDown)
      BY <3>4, <3>5, Two
    <3>7. /\ AtMostOne(<<z>>, SaslDown) /\ None(<<z>>, Down({"903"}))
          /\ "sasl" \notin network.offered => None(<<z>>, SaslDown)
      BY <3>4, <3>5, One
    <3>8. Served("LS", <<z>>) \/ Served("LS", <<x, y>>)
      BY <3>1 DEF x, y, z
    <3>9. QED
      BY <3>6, <3>7, <3>8
  <2>3. /\ client' = client /\ Taken(up, up') /\ Joined(down, say, down')
        /\ down \in Seq(DownLines(Caps)) /\ say \in Seq(DownLines(Caps)) /\ up \in Seq(UpLines(Caps))
    BY <1>1, <2>2 DEF Served, Sent, Types
  <2>4. Head(up) \in Up({"LS"}) /\ Head(up) \in SaslUp
    <3>1. Head(up) \in Up({"LS"})
      BY <1>1, <2>2, SetsHaveLines DEF Served
    <3>2. QED
      BY <3>1 DEF SaslUp
  <2>5. server.announced = {} /\ ~None(up, Up({"LS"})) /\ ~None(up, SaslUp)
    BY <1>1, <2>2, <2>4, ServedLines DEF SaslInv
  <2>6. /\ Clear(up, SaslAsked, down, SaslDown) /\ "sasl" \notin client.lsBuffer
        /\ ~client.saslAuthed /\ None(down, Down({"903"}))
    BY <1>1, <2>5 DEF SaslInv, Clear
  <2>7. Alone(up', SaslUp, down', SaslDown) /\ None(up', SaslUp)
    <3>1. Alone(up', SaslUp, down', SaslDown)
      BY <1>1, <2>2, <2>3, <2>4, PassOn DEF SaslInv
    <3>2. None(up', SaslUp)
      BY <1>1, <2>2, <2>4, ServedLines DEF SaslInv, Alone
    <3>3. QED
      BY <3>1, <3>2
  <2>8. None(up', Up({"LS"})) /\ None(up', SaslAsked)
    BY <2>7, SaslLines
  <2>9. None(down', Down({"903"})) /\ ("sasl" \notin network.offered => None(down', SaslDown))
    BY <1>1, <2>2, <2>6, ServedLines DEF Clear
  <2>10. QED
    BY <2>1, <2>3, <2>6, <2>7, <2>8, <2>9 DEF SaslInv, Clear
<1>5. CASE ServerReq
  <2> DEFINE caps == Head(up).caps
  <2>1. Stays({"enabled"})
    BY <1>1, <1>5, ServerReqHas DEF Stays
  <2>2. server'.announced = server.announced /\ server'.auth = server.auth
    BY <2>1 DEF Stays, ServerFields
  <2>3. \A C : CapLine("ACK", C).kind = "ACK" /\ CapLine("ACK", C).caps = C
    BY DEF CapLine
  <2>4. \A C : /\ CapLine("ACK", C) \notin Down({"903"})
               /\ "sasl" \notin C => CapLine("ACK", C) \notin SaslDown
    BY <2>3 DEF SaslDown, Down, DownWith
  <2>5. PICK say : /\ Served("REQ", say) /\ AtMostOne(say, SaslDown) /\ None(say, Down({"903"}))
                   /\ "sasl" \notin caps => None(say, SaslDown)
    <3>1. CASE Served("REQ", <<Line("NAK")>>)
      <4>1. None(<<Line("NAK")>>, SaslDown) /\ None(<<Line("NAK")>>, Down({"903"}))
            /\ AtMostOne(<<Line("NAK")>>, SaslDown)
        <5>1. Line("NAK").kind = "NAK"
          BY <1>3
        <5>2. QED
          BY <5>1, SaslKinds, OfKind, One
      <4>2. QED
        BY <3>1, <4>1
    <3>2. CASE Served("REQ", <<CapLine("ACK", caps)>>)
      BY <2>4, <3>2, One
    <3>3. ASSUME NEW first \in SUBSET caps,
                 Served("REQ", <<CapLine("ACK", first), CapLine("ACK", caps \ first)>>)
          PROVE  \E say : /\ Served("REQ", say) /\ AtMostOne(say, SaslDown) /\ None(say, Down({"903"}))
                          /\ "sasl" \notin caps => None(say, SaslDown)
      <4> DEFINE x == CapLine("ACK", first)
                 y == CapLine("ACK", caps \ first)
      <4>1. /\ x \in SaslDown => "sasl" \in first
            /\ y \in SaslDown => "sasl" \in caps \ first
            /\ x \notin Down({"903"}) /\ y \notin Down({"903"})
        BY <2>4
      <4> HIDE DEF x, y, caps
      <4>2. /\ AtMostOne(<<x, y>>, SaslDown) /\ None(<<x, y>>, Down({"903"}))
            /\ "sasl" \notin caps => None(<<x, y>>, SaslDown)
        BY <4>1, Two
      <4>3. Served("REQ", <<x, y>>)
        BY <3>3 DEF x, y
      <4>4. QED
        BY <4>2, <4>3
    <3>4. QED
      BY <1>1, <1>5, <3>1, <3>2, <3>3, ServerReqHas
  <2>6. "sasl" \in caps => Head(up) \in SaslAsked
    <3>1. Head(up) \in UpLines(Caps) /\ Head(up).kind = "REQ"
      BY <2>5 DEF Served
    <3>2. "sasl" \in caps => Head(up) \in UpWith({"REQ"}, "sasl")
      BY <1>1, <3>1, SetsHaveLines
    <3>3. QED
      BY <3>2 DEF SaslAsked
  <2>7. QED
    BY <1>1, <2>2, <2>5, <2>6, SaslServed
<1>6. CASE ServerAuthenticate
  <2>1. PICK k \in {"904", "AUTHENTICATE"} : Served("AUTHENTICATE", <<Line(k)>>)
    BY <1>1, <1>6, ServerAuthenticateHas
  <2>2. server'.announced = server.announced
    BY <1>1, <1>6, ServerAuthenticateHas DEF Stays, ServerFields
  <2> DEFINE say == <<Line(k)>>
  <2>3. AtMostOne(say, SaslDown) /\ None(say, Down({"903"}))
    BY <1>3, <2>1, One, OfKind
  <2>4. Head(up) \in SaslAsked
    <3>1. Head(up) \in Up({"AUTHENTICATE", "CREDENTIALS"})
      BY <1>1, <2>1, SetsHaveLines DEF Served
    <3>2. QED
      BY <3>1 DEF SaslAsked
  <2> HIDE DEF say
  <2>5. Served("AUTHENTICATE", say)
    BY <2>1 DEF say
  <2>6. QED
    BY <1>1, <2>2, <2>3, <2>4, <2>5, SaslServed
<1>7. CASE ServerCredentials
  <2>1. PICK k \in {"903", "904"} : /\ Served("CREDENTIALS", <<Line(k)>>)
                                    /\ k = "903" => server'.auth = "done"
    BY <1>1, <1>7, ServerCredentialsHas
  <2>2. server'.announced = server.announced
    BY <1>1, <1>7, ServerCredentialsHas DEF Stays, ServerFields
  <2> DEFINE say == <<Line(k)>>
  <2>3. None(say, SaslDown) /\ (None(say, Down({"903"})) \/ server'.auth = "done")
    <3>1. None(say, SaslDown)
      BY <1>3, <2>1, SaslKinds
    <3>2. k = "904" => None(say, Down({"903"}))
      BY <1>2, <1>3
    <3>3. QED
      BY <2>1, <3>1, <3>2
  <2>4. Head(up) \in SaslAsked
    <3>1. Head(up) \in Up({"AUTHENTICATE", "CREDENTIALS"})
      BY <1>1, <2>1, SetsHaveLines DEF Served
    <3>2. QED
      BY <3>1 DEF SaslAsked
  <2> HIDE DEF say
  <2>5. Served("CREDENTIALS", say)
    BY <2>1 DEF say
  <2>6. QED
    BY <1>1, <2>2, <2>3, <2>4, <2>5, SaslServed
<1>8. CASE ServerEnd
  <2>1. /\ server'.announced = server.announced
        /\ server.auth = "done" => server'.auth = "done"
    BY <1>1, <1>8, ServerEndHas DEF Stays, ServerFields
  <2>2. PICK say : Served("END", say) /\ None(say, SaslDown) /\ None(say, Down({"903"}))
    BY <1>1, <1>2, <1>3, <1>8, ServerEndHas
  <2>3. QED
    BY <1>1, <2>1, <2>2, SaslServed
<1>9. CASE ServerNick
  <2>1. server.registered => server.nick # -1
    BY <1>1 DEF Linked
  <2>2. \A n, m : NickLine(n, m).kind = "NICK"
    BY DEF NickLine
  <2>3. PICK say : Served("NICK", say) /\ None(say, SaslDown) /\ None(say, Down({"903"}))
    BY <1>1, <1>2, <1>3, <1>9, <2>1, <2>2, ServerNickHas
  <2>4. server'.announced = server.announced /\ server'.auth = server.auth
    BY <1>1, <1>9, <2>1, ServerNickHas DEF Stays, ServerFields
  <2>5. QED
    BY <1>1, <2>3, <2>4, SaslServed
<1>10. CASE ServerWelcome
  <2>1. PICK say : Sent(say) /\ None(say, SaslDown) /\ None(say, Down({"903"}))
    BY <1>1, <1>2, <1>3, <1>10, ServerWelcomeHas
  <2>2. server'.announced = server.announced /\ server'.auth = server.auth /\ UNCHANGED up
    BY <1>1, <1>10, ServerWelcomeHas DEF Stays, ServerFields
  <2>3. QED
    BY <1>1, <2>1, <2>2, SaslSent
<1>11. CASE ServerListNetworks
  <2>1. PICK say : Served("LISTNETWORKS", say) /\ None(say, SaslDown) /\ None(say, Down({"903"}))
    BY <1>1, <1>2, <1>3, <1>11, ServerListNetworksHas
  <2>2. server'.announced = server.announced /\ server'.auth = server.auth
    BY <1>1, <1>11, ServerListNetworksHas DEF Stays, ServerFields
  <2>3. QED
    BY <1>1, <2>1, <2>2, SaslServed
<1>12. CASE ServerRefuses
  <2>1. PICK k, say : Served(k, say) /\ None(say, SaslDown) /\ None(say, Down({"903"}))
    BY <1>1, <1>2, <1>3, <1>12, ServerRefusesHas
  <2>2. server'.announced = server.announced /\ (server.auth = "done" => server'.auth = "done")
    BY <1>1, <1>12, ServerRefusesHas DEF Stays, ServerFields
  <2>3. QED
    BY <1>1, <2>1, <2>2, SaslServed
<1>13. QED
  BY <1>4, <1>5, <1>6, <1>7, <1>8, <1>9, <1>10, <1>11, <1>12 DEF Server

LEMMA SaslKept ==
  ASSUME IInv, Next
  PROVE  SaslInv'
<1>1. Types /\ Linked /\ SaslInv /\ UNCHANGED network
  BY DEF IInv, Next
<1>2. CASE OnConnected \/ OnDisconnected
  <2>1. /\ Fresh' /\ down' = <<>> /\ server'.announced = {}
        /\ up' = <<>> \/ up' = <<Line("LS"), SetNickLine(client.nick)>>
    BY <1>1, <1>2, LinkHas
  <2>2. \A T : None(down', T) /\ AtMostOne(down', T)
    BY <2>1, Nothing
  <2>3. AtMostOne(up', SaslUp) /\ None(up', SaslAsked)
    <3>1. CASE up' = <<>>
      BY <3>1, Nothing
    <3>2. CASE up' = <<Line("LS"), SetNickLine(client.nick)>>
      <4>1. Line("LS").kind = "LS" /\ SetNickLine(client.nick).kind = "NICK"
        BY DEF Line, SetNickLine
      <4>2. SetNickLine(client.nick) \notin SaslUp /\ SetNickLine(client.nick) \notin SaslAsked
        BY <4>1, SaslKinds, SaslLines
      <4>3. Line("LS") \notin SaslAsked
        BY <4>1 DEF SaslAsked, Up, UpWith
      <4>4. QED
        BY <3>2, <4>2, <4>3, Two
    <3>3. QED
      BY <2>1, <3>1, <3>2
  <2>4. QED
    BY <2>1, <2>2, <2>3 DEF SaslInv, Alone, Clear, Fresh
<1>3. CASE Client
  BY <1>1, <1>3, SaslKeptByClient
<1>4. CASE Server
  BY <1>1, <1>4, SaslKeptByServer
<1>5. CASE ServerCapNew
  <2>1. PICK cap \in network.later \ server.announced :
          /\ server.announced # {} /\ UNCHANGED up /\ Sent(<<CapLine("NEW", {cap})>>)
          /\ Stays({"announced"}) /\ server'.announced = server.announced \cup {cap}
    BY <1>1, <1>5, CapNewHas
  <2> DEFINE say == <<CapLine("NEW", {cap})>>
  <2>2. server'.auth = server.auth /\ client' = client
    BY <2>1 DEF Stays, ServerFields, Sent
  <2>3. CapLine("NEW", {cap}).kind = "NEW" /\ CapLine("NEW", {cap}).caps = {cap}
    BY DEF CapLine
  <2>4. None(say, Down({"903"})) /\ AtMostOne(say, SaslDown)
    BY <2>3, OfKind, One
  <2>5. cap # "sasl" => None(say, SaslDown)
    <3>1. cap # "sasl" => CapLine("NEW", {cap}) \notin SaslDown
      BY <2>3 DEF SaslDown, Down, DownWith
    <3>2. QED
      BY <3>1, One
  <2> HIDE DEF say
  <2>6. /\ Joined(down, say, down') /\ down \in Seq(DownLines(Caps)) /\ say \in Seq(DownLines(Caps))
    BY <1>1, <2>1 DEF Sent, Types, say
  <2>7. None(up, Up({"LS"})) /\ (None(down, Down({"903"})) => None(down', Down({"903"})))
    BY <1>1, <2>1, <2>4, <2>6, Put DEF SaslInv
  <2>8. CASE cap = "sasl"
    <3>1. /\ None(up, SaslAsked) /\ None(down, SaslDown) /\ "sasl" \notin client.lsBuffer
          /\ ~client.saslAuthed /\ None(down, Down({"903"}))
      BY <1>1, <2>1, <2>8 DEF SaslInv, Clear
    <3>2. None(up, SaslUp)
      BY <2>7, <3>1, SaslLines
    <3>3. AtMostOne(down', SaslDown) /\ Alone(up, SaslUp, down', SaslDown)
      BY <2>4, <2>6, <3>1, <3>2, Put DEF Alone, AtMostOne, None
    <3>4. QED
      BY <2>1, <2>2, <2>7, <2>8, <3>1, <3>3 DEF SaslInv
  <2>9. CASE cap # "sasl"
    <3>1. None(say, SaslDown)
      BY <2>5, <2>9
    <3>2. /\ Alone(up, SaslUp, down, SaslDown) => Alone(up, SaslUp, down', SaslDown)
          /\ Clear(up, SaslUp, down, SaslDown) => Clear(up, SaslUp, down', SaslDown)
          /\ Clear(up, SaslAsked, down, SaslDown) => Clear(up, SaslAsked, down', SaslDown)
      BY <2>6, <3>1, Put DEF Alone, Clear
    <3>3. QED
      BY <1>1, <2>1, <2>2, <2>7, <2>9, <3>2 DEF SaslInv
  <2>10. QED
    BY <2>8, <2>9
<1>6. CASE ServerCapDel
  <2>1. PICK cap : Sent(<<CapLine("DEL", {cap})>>) /\ UNCHANGED up /\ Stays({"enabled"})
    BY <1>1, <1>6, CapDelHas
  <2>2. CapLine("DEL", {cap}).kind = "DEL"
    BY DEF CapLine
  <2>3. None(<<CapLine("DEL", {cap})>>, SaslDown) /\ None(<<CapLine("DEL", {cap})>>, Down({"903"}))
    BY <2>2, SaslKinds, OfKind
  <2>4. server'.announced = server.announced /\ server'.auth = server.auth
    BY <2>1 DEF Stays, ServerFields
  <2>5. QED
    BY <1>1, <2>1, <2>3, <2>4, SaslSent
<1>7. ASSUME NEW nick \in Nick, UserNick(nick)
      PROVE  SaslInv'
  <2>1. /\ UNCHANGED <<server, down>> /\ client'.saslAuthed = client.saslAuthed
        /\ client'.lsBuffer = client.lsBuffer
    BY <1>1, <1>7, UserNickHas DEF Keeps, Fields
  <2> DEFINE say == <<SetNickLine(nick)>>
  <2>2. up \in Seq(UpLines(Caps)) /\ say \in Seq(UpLines(Caps)) /\ Joined(up, say, up')
    BY <1>1, <1>7, UserNickHas DEF Types
  <2>3. None(say, SaslUp)
    <3>1. SetNickLine(nick).kind = "NICK"
      BY DEF SetNickLine
    <3>2. QED
      BY <3>1, SaslKinds
  <2>4. None(say, Up({"LS"})) /\ None(say, SaslAsked)
    BY <2>3, SaslLines
  <2> HIDE DEF say
  <2>5. /\ None(up, Up({"LS"})) => None(up', Up({"LS"}))
        /\ Alone(up, SaslUp, down, SaslDown) => Alone(up', SaslUp, down, SaslDown)
        /\ Clear(up, SaslUp, down, SaslDown) => Clear(up', SaslUp, down, SaslDown)
        /\ Clear(up, SaslAsked, down, SaslDown) => Clear(up', SaslAsked, down, SaslDown)
    BY <2>2, <2>3, <2>4, Put DEF Alone, Clear
  <2>6. QED
    BY <1>1, <2>1, <2>5 DEF SaslInv
<1>8. ASSUME NEW old \in Nick, NEW new \in Nick, OtherNick(old, new)
      PROVE  SaslInv'
  <2>1. Sent(<<NickLine(old, new)>>) /\ UNCHANGED up /\ Stays({})
    BY <1>1, <1>8, OtherNickHas
  <2>2. NickLine(old, new).kind = "NICK"
    BY DEF NickLine
  <2>3. None(<<NickLine(old, new)>>, SaslDown) /\ None(<<NickLine(old, new)>>, Down({"903"}))
    BY <2>2, SaslKinds, OfKind
  <2>4. server'.announced = server.announced /\ server'.auth = server.auth
    BY <2>1 DEF Stays, ServerFields
  <2>5. QED
    BY <1>1, <2>1, <2>3, <2>4, SaslSent
<1>9. QED
  BY <1>2, <1>3, <1>4, <1>5, <1>6, <1>7, <1>8 DEF Next

(* ------------- the types and the link, step by step -------------------- *)

LEMMA LinkedHeard ==
  ASSUME Types, Linked, NEW k, NEW say, Heard({k}, say),
         client'.registered => client.registered \/ k = "001"
  PROVE  Types' /\ Linked'
<1>1. /\ UNCHANGED <<server, others, network>> /\ down # <<>>
  BY DEF Heard, Taken
<1>2. server.link
  BY <1>1 DEF Linked
<1>3. \A K : None(down, Down(K)) => None(down', Down(K))
  BY HeardLines
<1>4. AtMostOne(down', Down({"001"}))
  BY HeardLines DEF Linked
<1>5. client'.registered => server.registered /\ None(down', Down({"001"}))
  <2>1. CASE client.registered
    BY <1>3, <2>1 DEF Linked
  <2>2. CASE k = "001"
    <3>1. Head(down) \in Down({"001"})
      BY <2>2, HeardLines, SetsHaveLines
    <3>2. ~None(down, Down({"001"})) /\ ~None(down, Down({"001", "NICK", "DEL"})) /\ None(down', Down({"001"}))
      <4>1. Head(down) \in Down({"001", "NICK", "DEL"})
        BY <3>1 DEF Down
      <4>2. QED
        BY <3>1, <4>1, HeardLines DEF Linked
    <3>3. QED
      BY <3>2 DEF Linked
  <2>3. QED
    BY <2>1, <2>2
<1>6. QED
  BY <1>1, <1>2, <1>3, <1>4, <1>5, HeardLines DEF Linked

LEMMA LinkedSent ==
  ASSUME Types, Linked, NEW say, Sent(say), server.link, server'.link,
         others' \subseteq Nick, strangers' \in 0..network.others, up' \in Seq(UpLines(Caps)),
         server.registered => server'.registered,
         server'.registered => server'.nick # -1,
         server'.nick \notin others', MaxNick \notin others',
         \/ server'.announced = {} \/ network.offered \subseteq server'.announced,
         \/ None(say, Down({"001"}))
         \/ None(down, Down({"001"})) /\ AtMostOne(say, Down({"001"})) /\ ~client.registered,
         server'.registered \/ None(say, Down({"001", "NICK", "DEL"}))
  PROVE  Types' /\ Linked'
<1>1. UNCHANGED <<network, client>>
  BY DEF Sent
<1>2. Types'
  BY SentLines
<1>3. \A T : None(down, T) /\ None(say, T) => None(down', T)
  BY SentLines
<1>4. AtMostOne(down', Down({"001"}))
  <2>1. down \in Seq(DownLines(Caps)) /\ say \in Seq(DownLines(Caps)) /\ Joined(down, say, down')
    BY DEF Types, Sent
  <2>2. QED
    BY <2>1, Put DEF Linked
<1>5. client.registered => server'.registered /\ None(down', Down({"001"}))
  BY <1>3 DEF Linked
<1>6. ~server'.registered => None(down', Down({"001", "NICK", "DEL"}))
  BY <1>3 DEF Linked
<1>7. QED
  BY <1>1, <1>2, <1>4, <1>5, <1>6 DEF Linked

LEMMA LinkedServed ==
  ASSUME Types, Linked, NEW k, NEW say, Served(k, say), server'.link = server.link,
         server'.registered = server.registered, server.nick # -1 => server'.nick # -1,
         server'.nick \notin others,
         server'.announced \in {server.announced, network.offered},
         None(say, Down({"001"})),
         server.registered \/ None(say, Down({"001", "NICK", "DEL"}))
  PROVE  Types' /\ Linked'
<1>1. up # <<>> /\ Sent(say) /\ others' = others /\ strangers' = strangers
  BY DEF Served, Taken
<1>2. server.link
  BY <1>1 DEF Linked
<1>3. others' \subseteq Nick /\ strangers' \in 0..network.others /\ up' \in Seq(UpLines(Caps))
  <2>1. up \in Seq(UpLines(Caps)) /\ Taken(up, up')
    BY DEF Types, Served
  <2>2. up' \in Seq(UpLines(Caps))
    BY <2>1, TakenHas
  <2>3. QED
    BY <1>1, <2>2 DEF Types, TypeOK
<1>4. /\ server'.announced = {} \/ network.offered \subseteq server'.announced
      /\ MaxNick \notin others' /\ server'.nick \notin others' /\ server'.link
      /\ server'.registered => server'.nick # -1
  BY <1>1, <1>2 DEF Linked
<1>5. QED
  BY <1>1, <1>2, <1>3, <1>4, LinkedSent

\* The lines of say are of kinds in K.
Only(say, K) == \A i \in DOMAIN say : say[i].kind \in K

LEMMA OnlyThose ==
  ASSUME NEW say, NEW K, Only(say, K), NEW J, \A k \in K : k \notin J
  PROVE  /\ None(say, Up(J)) /\ None(say, Down(J))
         /\ \A c : None(say, UpWith(J, c)) /\ None(say, DownWith(J, c))
BY DEF Only, None, Up, Down, UpWith, DownWith

LEMMA LsSays ==
  ASSUME Types, ServerLs, UNCHANGED network
  PROVE  \E say : Served("LS", say) /\ Only(say, {"LS*", "LS"}) /\ AtMostOne(say, Down({"LS", "ACK", "NAK"}))
<1>1. PICK first \in SUBSET network.offered :
        \/ Served("LS", <<CapLine("LS", network.offered)>>)
        \/ Served("LS", <<CapLine("LS*", first), CapLine("LS", network.offered \ first)>>)
  BY ServerLsHas
<1> DEFINE x == CapLine("LS*", first)
           y == CapLine("LS", network.offered \ first)
           z == CapLine("LS", network.offered)
<1>2. x.kind = "LS*" /\ y.kind = "LS" /\ z.kind = "LS"
  BY DEF CapLine
<1>3. Served("LS", <<z>>) \/ Served("LS", <<x, y>>)
  BY <1>1
<1> HIDE DEF x, y, z
<1>4. x \notin Down({"LS", "ACK", "NAK"})
  BY <1>2, OfKind
<1>5. Only(<<z>>, {"LS*", "LS"}) /\ Only(<<x, y>>, {"LS*", "LS"})
  BY <1>2 DEF Only
<1>6. AtMostOne(<<z>>, Down({"LS", "ACK", "NAK"})) /\ AtMostOne(<<x, y>>, Down({"LS", "ACK", "NAK"}))
  BY <1>4, One, Two
<1>7. QED
  BY <1>3, <1>5, <1>6

LEMMA ReqSays ==
  ASSUME Types, ServerReq, UNCHANGED network
  PROVE  /\ Stays({"enabled"})
         /\ \E say : /\ Served("REQ", say) /\ (Only(say, {"ACK"}) \/ say = <<Line("NAK")>>)
                     /\ ~network.split => AtMostOne(say, Down({"LS", "ACK", "NAK"}))
                     /\ "sasl" \notin Head(up).caps => None(say, DownWith({"ACK"}, "sasl"))
<1> DEFINE caps == Head(up).caps
           x == CapLine("ACK", caps)
<1>1. Stays({"enabled"})
  BY ServerReqHas DEF Stays
<1>2. \/ Served("REQ", <<x>>)
      \/ network.split /\ \E first \in SUBSET caps :
                             Served("REQ", <<CapLine("ACK", first), CapLine("ACK", caps \ first)>>)
      \/ Served("REQ", <<Line("NAK")>>)
  BY ServerReqHas
<1>3. \A C : CapLine("ACK", C).kind = "ACK" /\ CapLine("ACK", C).caps = C
  BY DEF CapLine
<1>4. \A C : "sasl" \notin C => CapLine("ACK", C) \notin DownWith({"ACK"}, "sasl")
  BY <1>3 DEF DownWith
<1>5. CASE Served("REQ", <<x>>)
  <2>1. /\ Only(<<x>>, {"ACK"}) /\ AtMostOne(<<x>>, Down({"LS", "ACK", "NAK"}))
        /\ "sasl" \notin caps => None(<<x>>, DownWith({"ACK"}, "sasl"))
    <3>1. x.kind = "ACK" /\ ("sasl" \notin caps => x \notin DownWith({"ACK"}, "sasl"))
      BY <1>3, <1>4
    <3> HIDE DEF x
    <3>2. Only(<<x>>, {"ACK"})
      BY <3>1 DEF Only
    <3>3. QED
      BY <3>1, <3>2, One
  <2>2. QED
    BY <1>1, <1>5, <2>1
<1>6. ASSUME network.split,
             NEW first \in SUBSET caps, Served("REQ", <<CapLine("ACK", first), CapLine("ACK", caps \ first)>>)
      PROVE  \E say : /\ Served("REQ", say) /\ (Only(say, {"ACK"}) \/ say = <<Line("NAK")>>)
                      /\ ~network.split => AtMostOne(say, Down({"LS", "ACK", "NAK"}))
                      /\ "sasl" \notin caps => None(say, DownWith({"ACK"}, "sasl"))
  <2> DEFINE y == CapLine("ACK", first)
             z == CapLine("ACK", caps \ first)
  <2>1. y.kind = "ACK" /\ z.kind = "ACK"
    BY <1>3
  <2>2. "sasl" \notin caps => /\ y \notin DownWith({"ACK"}, "sasl")
                             /\ z \notin DownWith({"ACK"}, "sasl")
    BY <1>4
  <2>3. Served("REQ", <<y, z>>)
    BY <1>6
  <2> HIDE DEF y, z, caps
  <2>4. Only(<<y, z>>, {"ACK"})
    BY <2>1 DEF Only
  <2>5. "sasl" \notin caps => None(<<y, z>>, DownWith({"ACK"}, "sasl"))
    BY <2>2, Two
  <2>6. QED
    BY <1>6, <2>3, <2>4, <2>5
<1>7. CASE Served("REQ", <<Line("NAK")>>)
  <2>1. Line("NAK").kind = "NAK"
    BY DEF Line
  <2>2. None(<<Line("NAK")>>, DownWith({"ACK"}, "sasl")) /\ AtMostOne(<<Line("NAK")>>, Down({"LS", "ACK", "NAK"}))
    BY <2>1, OfKind, One
  <2>3. QED
    BY <1>1, <1>7, <2>2
<1>8. QED
  BY <1>1, <1>2, <1>5, <1>6, <1>7

LEMMA LinkedKept ==
  ASSUME IInv, Next
  PROVE  Types' /\ Linked'
<1>1. Types /\ Linked /\ UNCHANGED network
  BY DEF IInv, Next
<1>2. CASE OnConnected \/ OnDisconnected
  <2>1. /\ Types' /\ Fresh' /\ down' = <<>> /\ server'.announced = {} /\ server'.nick = -1
        /\ ~server'.registered /\ UNCHANGED <<network, others>>
        /\ server'.link \/ (up' = <<>> /\ server' = NoServer)
    BY <1>1, <1>2, LinkHas
  <2>2. \A T : None(down', T) /\ AtMostOne(down', T)
    BY <2>1, Nothing
  <2>3. -1 \notin others
    BY <1>1, NickAssumption DEF Types, TypeOK, Nick
  <2>4. QED
    BY <1>1, <2>1, <2>2, <2>3 DEF Linked, Fresh
<1>3. CASE Client
  <2>1. \E k, say : /\ Heard({k}, say)
                    /\ client'.registered => client.registered \/ k = "001"
    <3>1. CASE OnCapLsMore
      BY <1>1, <3>1, LsMoreHas DEF Keeps, Fields
    <3>2. CASE OnCapLs
      <4>1. \E say : Heard({"LS"}, say)
        BY <1>1, <3>2, LsHas
      <4>2. client'.registered = client.registered
        BY <1>1, <3>2, LsHas DEF Keeps, Fields
      <4>3. QED
        BY <4>1, <4>2
    <3>3. CASE OnCapAck
      <4>1. \E say : Heard({"ACK"}, say)
        BY <1>1, <3>3, AckHas
      <4>2. client'.registered = client.registered
        BY <1>1, <3>3, AckHas DEF Keeps, Fields
      <4>3. QED
        BY <4>1, <4>2
    <3>4. CASE OnCapNak
      <4>1. \E say : Heard({"NAK"}, say)
        BY <1>1, <3>4, NakHas
      <4>2. client'.registered = client.registered
        BY <1>1, <3>4, NakHas DEF Keeps, Fields
      <4>3. QED
        BY <4>1, <4>2
    <3>5. CASE OnCapNew
      <4>1. \E say : Heard({"NEW"}, say)
        BY <1>1, <3>5, NewHas
      <4>2. client' = client
        BY <1>1, <3>5, NewHas
      <4>3. QED
        BY <4>1, <4>2
    <3>6. CASE OnCapDel
      BY <1>1, <3>6, DelHas DEF Keeps, Fields
    <3>7. CASE OnAuthenticate
      BY <1>1, <3>7, AuthenticateHas DEF Keeps, Fields
    <3>8. CASE OnSaslSuccess
      BY <1>1, <3>8, SuccessHas DEF Keeps, Fields
    <3>9. CASE OnSaslFailure
      BY <1>1, <3>9, FailureHas DEF Keeps, Fields
    <3>10. CASE OnNickInUse
      <4>1. \E say : Heard({"433"}, say)
        BY <1>1, <3>10, NicksLeft, NickInUseHas
      <4>2. client'.registered = client.registered
        BY <1>1, <3>10, NicksLeft, NickInUseHas DEF Keeps, Fields
      <4>3. QED
        BY <4>1, <4>2
    <3>11. CASE OnWelcome
      <4>1. \E say : Heard({"001"}, say)
        BY <1>1, <3>11, WelcomeHas
      <4>2. QED
        BY <4>1
    <3>12. CASE OnNick
      BY <1>1, <3>12, NickHas DEF Keeps, Fields
    <3>13. CASE Noted
      BY <1>1, <3>13, NotedHas DEF Keeps, Fields
    <3>14. QED
      BY <1>3, <3>1, <3>2, <3>3, <3>4, <3>5, <3>6, <3>7, <3>8, <3>9, <3>10, <3>11, <3>12, <3>13
      DEF Client, Noted
  <2>2. QED
    BY <1>1, <2>1, LinkedHeard
<1>4. CASE Server /\ ~ServerWelcome
  <2>1. server.registered => server.nick # -1
    BY <1>1 DEF Linked
  <2>2. /\ \A l : l.kind \notin {"001", "NICK", "DEL"} =>
             None(<<l>>, Down({"001"})) /\ None(<<l>>, Down({"001", "NICK", "DEL"}))
        /\ \A l : l.kind = "NICK" => None(<<l>>, Down({"001"}))
        /\ None(<<>>, Down({"001"})) /\ None(<<>>, Down({"001", "NICK", "DEL"}))
    BY OfKind, Nothing
  <2>3. /\ \A k : Line(k).kind = k
        /\ \A n, m : NickLine(n, m).kind = "NICK"
    BY DEF Line, NickLine
  <2>4. \E k, say : /\ Served(k, say) /\ None(say, Down({"001"}))
                    /\ server.registered \/ None(say, Down({"001", "NICK", "DEL"}))
    <3>1. CASE ServerLs
      <4>1. PICK say : Served("LS", say) /\ Only(say, {"LS*", "LS"})
        BY <1>1, <3>1, LsSays
      <4>2. QED
        BY <4>1, OnlyThose
    <3>2. CASE ServerReq
      <4>1. PICK say : Served("REQ", say) /\ (Only(say, {"ACK"}) \/ say = <<Line("NAK")>>)
        BY <1>1, <3>2, ReqSays
      <4>2. Only(say, {"ACK"}) => None(say, Down({"001"})) /\ None(say, Down({"001", "NICK", "DEL"}))
        BY OnlyThose
      <4>3. QED
        BY <2>2, <2>3, <4>1, <4>2
    <3>3. CASE ServerAuthenticate
      BY <1>1, <2>2, <2>3, <3>3, ServerAuthenticateHas
    <3>4. CASE ServerCredentials
      BY <1>1, <2>2, <2>3, <3>4, ServerCredentialsHas
    <3>5. CASE ServerEnd
      BY <1>1, <2>2, <2>3, <3>5, ServerEndHas
    <3>6. CASE ServerNick
      BY <1>1, <2>1, <2>2, <2>3, <3>6, ServerNickHas
    <3>7. CASE ServerListNetworks
      BY <1>1, <2>2, <2>3, <3>7, ServerListNetworksHas
    <3>8. CASE ServerRefuses
      BY <1>1, <2>2, <2>3, <3>8, ServerRefusesHas
    <3>9. QED
      BY <1>4, <3>1, <3>2, <3>3, <3>4, <3>5, <3>6, <3>7, <3>8 DEF Server
  <2>5. /\ server'.link = server.link /\ server'.registered = server.registered
        /\ server.nick # -1 => server'.nick # -1
        /\ server'.nick \notin others
        /\ server'.announced \in {server.announced, network.offered}
    <3> SUFFICES /\ server'.link = server.link /\ server'.registered = server.registered
                 /\ server'.nick = server.nick \/ (server'.nick # -1 /\ server'.nick \notin others)
                 /\ server'.announced \in {server.announced, network.offered}
      BY <1>1 DEF Linked
    <3>1. CASE ServerLs
      BY <1>1, <3>1, ServerLsHas DEF Stays, ServerFields
    <3>2. CASE ServerReq
      BY <1>1, <3>2, ServerReqHas DEF Stays, ServerFields
    <3>3. CASE ServerAuthenticate
      BY <1>1, <3>3, ServerAuthenticateHas DEF Stays, ServerFields
    <3>4. CASE ServerCredentials
      BY <1>1, <3>4, ServerCredentialsHas DEF Stays, ServerFields
    <3>5. CASE ServerEnd
      BY <1>1, <3>5, ServerEndHas DEF Stays, ServerFields
    <3>6. CASE ServerNick
      <4>1. -1 \notin Nick
        BY NickAssumption DEF Nick
      <4>2. QED
        BY <1>1, <2>1, <3>6, <4>1, ServerNickHas DEF Stays, ServerFields
    <3>7. CASE ServerListNetworks
      BY <1>1, <3>7, ServerListNetworksHas DEF Stays, ServerFields
    <3>8. CASE ServerRefuses
      BY <1>1, <3>8, ServerRefusesHas DEF Stays, ServerFields
    <3>9. QED
      BY <1>4, <3>1, <3>2, <3>3, <3>4, <3>5, <3>6, <3>7, <3>8 DEF Server
  <2>6. QED
    BY <1>1, <2>4, <2>5, LinkedServed
<1>5. /\ others \subseteq Nick /\ strangers \in 0..network.others /\ up \in Seq(UpLines(Caps))
      /\ MaxNick \notin others /\ server.nick \notin others
      /\ server.registered => server.nick # -1 /\ server.link
      /\ server.announced # {} \/ server.nick # -1 => server.link
      /\ server.announced = {} \/ network.offered \subseteq server.announced
  BY <1>1 DEF Types, TypeOK, Linked, NoServer
<1>6. CASE ServerWelcome
  <2> DEFINE say == <<Line("001")>>
  <2>1. /\ ~server.registered /\ server.nick # -1 /\ UNCHANGED <<up, others, strangers>>
        /\ Sent(say) /\ server'.registered /\ Stays({"registered"})
    BY <1>1, <1>6, ServerWelcomeHas
  <2>2. /\ server'.nick = server.nick /\ server'.link = server.link /\ server'.announced = server.announced
    BY <2>1 DEF Stays, ServerFields
  <2>3. AtMostOne(say, Down({"001"}))
    BY One
  <2>4. None(down, Down({"001"})) /\ ~client.registered
    BY <1>1, <2>1 DEF Linked, None, Down
  <2> HIDE DEF say
  <2>5. QED
    BY <1>1, <1>5, <2>1, <2>2, <2>3, <2>4, LinkedSent
<1>7. CASE ServerCapNew
  <2>1. PICK cap \in network.later \ server.announced :
          /\ server.announced # {} /\ UNCHANGED <<up, others, strangers>>
          /\ Sent(<<CapLine("NEW", {cap})>>)
          /\ Stays({"announced"}) /\ server'.announced = server.announced \cup {cap}
    BY <1>1, <1>7, CapNewHas
  <2> DEFINE say == <<CapLine("NEW", {cap})>>
  <2>2. /\ server'.nick = server.nick /\ server'.link = server.link /\ server'.registered = server.registered
    BY <2>1 DEF Stays, ServerFields
  <2>3. None(say, Down({"001"})) /\ None(say, Down({"001", "NICK", "DEL"}))
    <3>1. CapLine("NEW", {cap}).kind = "NEW"
      BY DEF CapLine
    <3>2. QED
      BY <3>1, OfKind
  <2>4. network.offered \subseteq server'.announced
    BY <1>5, <2>1
  <2> HIDE DEF say
  <2>5. Sent(say)
    BY <2>1 DEF say
  <2>6. QED
    BY <1>1, <1>5, <2>1, <2>2, <2>3, <2>4, <2>5, LinkedSent
<1>8. CASE ServerCapDel
  <2>1. PICK cap \in server.enabled :
          /\ server.registered /\ UNCHANGED <<up, others, strangers>>
          /\ Sent(<<CapLine("DEL", {cap})>>) /\ Stays({"enabled"})
    BY <1>1, <1>8, CapDelHas
  <2> DEFINE say == <<CapLine("DEL", {cap})>>
  <2>2. /\ server'.nick = server.nick /\ server'.link = server.link /\ server'.registered = server.registered
        /\ server'.announced = server.announced
    BY <2>1 DEF Stays, ServerFields
  <2>3. None(say, Down({"001"}))
    <3>1. CapLine("DEL", {cap}).kind = "DEL"
      BY DEF CapLine
    <3>2. QED
      BY <3>1, OfKind
  <2> HIDE DEF say
  <2>4. Sent(say)
    BY <2>1 DEF say
  <2>5. QED
    BY <1>1, <1>5, <2>1, <2>2, <2>3, <2>4, LinkedSent
<1>9. ASSUME NEW nick \in Nick, UserNick(nick)
      PROVE  Types' /\ Linked'
  <2>1. /\ server.link /\ client.registered /\ renames < network.renames /\ renames' = renames + 1
        /\ client' \in Clients /\ Keeps({"nick"})
        /\ UNCHANGED <<network, server, down, others, strangers, drops>>
    BY <1>1, <1>9, UserNickHas
  <2>2. up \in Seq(UpLines(Caps)) /\ <<SetNickLine(nick)>> \in Seq(UpLines(Caps))
        /\ Joined(up, <<SetNickLine(nick)>>, up')
    BY <1>1, <1>9, UserNickHas DEF Types
  <2>3. up' \in Seq(UpLines(Caps))
    BY <2>2, JoinedHas
  <2>4. renames' \in 0..network.renames
    <3>1. network.renames \in Nat /\ renames \in Nat
      BY <1>1, NetworksAssumption DEF Types, TypeOK
    <3>2. QED
      BY <2>1, <3>1
  <2>5. Types'
    <3>1. Caps' = Caps
      BY <2>1 DEF Caps
    <3>2. UpLines(Caps)' = UpLines(Caps) /\ DownLines(Caps)' = DownLines(Caps)
      BY <3>1 DEF UpLines, DownLines
    <3>3. QED
      BY <1>1, <2>1, <2>3, <2>4, <3>1, <3>2 DEF Types, TypeOK, Clients
  <2>6. client'.registered = client.registered
    BY <2>1 DEF Keeps, Fields
  <2>7. Linked'
    BY <1>1, <2>1, <2>6 DEF Linked
  <2>8. QED
    BY <2>5, <2>7
<1>10. ASSUME NEW old \in Nick, NEW new \in Nick, OtherNick(old, new)
       PROVE  Types' /\ Linked'
  <2>1. /\ Sent(<<NickLine(old, new)>>) /\ Stays({}) /\ UNCHANGED up
        /\ server.registered /\ old \in others /\ new \notin others \cup {server.nick}
        /\ new # MaxNick /\ others' = (others \ {old}) \cup {new}
        /\ strangers' = strangers + 1 /\ strangers < network.others
    BY <1>1, <1>10, OtherNickHas
  <2> DEFINE say == <<NickLine(old, new)>>
  <2>2. /\ server'.nick = server.nick /\ server'.link = server.link /\ server'.registered = server.registered
        /\ server'.announced = server.announced
    BY <2>1 DEF Stays, ServerFields
  <2>3. None(say, Down({"001"}))
    <3>1. NickLine(old, new).kind = "NICK"
      BY DEF NickLine
    <3>2. QED
      BY <3>1, OfKind
  <2>4. strangers' \in 0..network.others
    <3>1. network.others \in Nat /\ strangers \in Nat
      BY <1>1, NetworksAssumption DEF Types, TypeOK
    <3>2. QED
      BY <2>1, <3>1
  <2>5. others' \subseteq Nick /\ MaxNick \notin others' /\ server'.nick \notin others'
    BY <1>5, <2>1, <2>2
  <2> HIDE DEF say
  <2>6. Sent(say)
    BY <2>1 DEF say
  <2>7. QED
    BY <1>1, <1>5, <2>1, <2>2, <2>3, <2>4, <2>5, <2>6, LinkedSent
<1>11. QED
  BY <1>2, <1>3, <1>4, <1>6, <1>7, <1>8, <1>9, <1>10 DEF Next

(* ----------------------- the nick, step by step ------------------------ *)

LEMMA NickKinds ==
  ASSUME NEW l, NEW k, l.kind = k, k # "NICK"
  PROVE  \A n : l \notin OfNick(n) /\ l \notin NotFor(n) /\ None(<<l>>, OfNick(n)) /\ None(<<l>>, NotFor(n))
<1>1. \A n : l \notin OfNick(n) /\ l \notin NotFor(n)
  BY DEF OfNick, NotFor, Up, Down
<1>2. QED
  BY <1>1, One

LEMMA NickOthers ==
  ASSUME NEW s, NEW n
  PROVE  /\ None(s, Up({"NICK"})) => None(s, NotFor(n))
         /\ None(s, Down({"NICK"})) => None(s, OfNick(n))
         /\ None(s, Down({"433", "001"})) <=> None(s, Down({"433"})) /\ None(s, Down({"001"}))
BY DEF None, NotFor, OfNick, Down

LEMMA NickLines ==
  ASSUME NEW n \in Nick, NEW m \in Nick
  PROVE  /\ NickLine(n, m).kind = "NICK" /\ NickLine(n, m).old = n /\ NickLine(n, m).new = m
         /\ \A k : NickLine(n, m) \in OfNick(k) <=> k \in {n, m}
         /\ 0 \in Nick
<1>1. NickLine(n, m) \in Down({"NICK"})
  BY DEF NickLine, Down, DownLines
<1>2. QED
  BY <1>1, NickAssumption DEF NickLine, OfNick, Nick

LEMMA NickHeard ==
  ASSUME Types, NickInv, NEW k, NEW say, Heard({k}, say), k \notin {"433", "001", "NICK"},
         None(say, Up({"NICK"})), client'.nick = client.nick, client'.registered = client.registered
  PROVE  NickInv'
<1>1. /\ UNCHANGED <<server, renames>> /\ Taken(down, down') /\ Joined(up, say, up')
      /\ up \in Seq(UpLines(Caps)) /\ say \in Seq(UpLines(Caps)) /\ down \in Seq(DownLines(Caps))
  BY DEF Heard, Types
<1>2. \A n : None(say, NotFor(n))
  BY NickOthers
<1>3. /\ \A T : None(down, T) => None(down', T)
      /\ None(up, Up({"NICK"})) => None(up', Up({"NICK"}))
      /\ \A n : None(up, NotFor(n)) => None(up', NotFor(n))
  BY <1>2, HeardLines
<1>4. Alone(up, Up({"NICK"}), down, Down({"433", "001"})) => Alone(up', Up({"NICK"}), down', Down({"433", "001"}))
  BY <1>1, PassOn, AloneTurned
<1> DEFINE n == client.nick
           l == NickLine(n, 0)
<1>5. n \in Nick /\ l \in OfNick(n) /\ l.kind = "NICK"
  BY NickLines DEF Types, TypeOK
<1>6. Turns(down, l, OfNick(n), OfNick(0)) => Turns(down', l, OfNick(n), OfNick(0))
  <2>1. Head(down) # l
    BY <1>5, HeardLines
  <2> HIDE DEF l, n
  <2>2. QED
    BY <1>1, <1>5, <2>1, TakeTurns
<1>7. QED
  BY <1>1, <1>3, <1>4, <1>6 DEF NickInv, NickOK, Clear

\* The server sends something that is not about the client's nick.
LEMMA NickSent ==
  ASSUME Types, NickInv, NEW say, Sent(say),
         None(say, Down({"433", "001"})), server'.nick = server.nick,
         server.nick \notin {-1, client.nick} \/ None(say, OfNick(client.nick)),
         server.nick # 0 \/ None(say, OfNick(0)),
         None(up, Up({"NICK"})) => None(up', Up({"NICK"})),
         AtMostOne(up, Up({"NICK"})) => AtMostOne(up', Up({"NICK"})),
         \A n : None(up, NotFor(n)) => None(up', NotFor(n))
  PROVE  NickInv'
<1>1. /\ UNCHANGED <<client, renames>> /\ Joined(down, say, down')
      /\ say \in Seq(DownLines(Caps)) /\ down \in Seq(DownLines(Caps))
  BY DEF Sent, Types
<1>2. \A T : None(down, T) /\ None(say, T) => None(down', T)
  BY <1>1, Put
<1>3. None(say, Down({"433"}))
  BY NickOthers
<1>4. Alone(up, Up({"NICK"}), down, Down({"433", "001"})) => Alone(up', Up({"NICK"}), down', Down({"433", "001"}))
  BY <1>1, Put DEF Alone
<1>5. Turns(down, NickLine(client.nick, 0), OfNick(client.nick), OfNick(0)) /\ None(say, OfNick(0))
        => Turns(down', NickLine(client.nick, 0), OfNick(client.nick), OfNick(0))
  BY <1>1, PutTurns
<1>6. ASSUME NickOK
      PROVE  NickOK'
  <2>1. None(up', NotFor(IF client.registered THEN 0 ELSE client.nick))
    BY <1>6 DEF NickOK
  <2>2. ~client.registered =>
          /\ None(down', Down({"433"})) \/ client.nick # MaxNick
          /\ server.nick = -1 \/ Clear(up', Up({"NICK"}), down', Down({"433"}))
    BY <1>2, <1>3, <1>6 DEF NickOK, Clear
  <2>3. \/ server.nick \in {-1, client.nick} /\ None(down', OfNick(client.nick))
        \/ /\ client.registered /\ server.nick = 0
           /\ Clear(up', Up({"NICK"}), down', Down({"433", "001"}))
           /\ Turns(down', NickLine(client.nick, 0), OfNick(client.nick), OfNick(0))
    BY <1>2, <1>5, <1>6 DEF NickOK, Clear
  <2>4. QED
    BY <1>1, <1>4, <1>6, <2>1, <2>2, <2>3 DEF NickOK
<1>7. QED
  BY <1>1, <1>6 DEF NickInv

LEMMA NickRefused ==
  ASSUME IInv, OnNickInUse, UNCHANGED network
  PROVE  NickInv'
<1>1. Types /\ Linked /\ NickInv
  BY DEF IInv
<1>2. PICK say :
        /\ Heard({"433"}, say)
        /\ \/ client.registered /\ say = <<>> /\ Keeps({})
           \/ /\ ~client.registered /\ say = <<SetNickLine(client.nick + 1)>> /\ Keeps({"nick", "fallback"})
              /\ client'.nick = client.nick + 1 /\ client.nick + 1 \in Nick
  BY <1>1, NicksLeft, NickInUseHas
<1>3. /\ UNCHANGED <<server, renames, others>> /\ Taken(down, down') /\ Joined(up, say, up')
      /\ up \in Seq(UpLines(Caps)) /\ say \in Seq(UpLines(Caps)) /\ down \in Seq(DownLines(Caps))
      /\ client'.registered = client.registered
  BY <1>1, <1>2 DEF Heard, Types, Keeps, Fields
<1>4. Head(down) \in Down({"433", "001"}) /\ Head(down) \in Down({"433"})
  BY <1>1, <1>2, HeardLines, SetsHaveLines
<1>5. SUFFICES ASSUME NickOK
               PROVE  NickOK'
  BY <1>1, <1>3 DEF NickInv
<1>6. None(down', Down({"433", "001"})) /\ None(up, Up({"NICK"})) /\ None(down', Down({"433"}))
  BY <1>1, <1>2, <1>4, <1>5, HeardLines, NickOthers DEF NickOK, Alone
<1>7. CASE client.registered /\ say = <<>> /\ Keeps({})
  <2>1. client'.nick = client.nick
    BY <1>7 DEF Keeps, Fields
  <2>2. None(up', Up({"NICK"}))
    BY <1>1, <1>2, <1>6, <1>7, Nothing, HeardLines
  <2>3. AtMostOne(up', Up({"NICK"})) /\ AtMostOne(down', Down({"433", "001"}))
    BY <1>6, <2>2 DEF AtMostOne, None
  <2>4. ~Clear(up, Up({"NICK"}), down, Down({"433", "001"}))
    BY <1>1, <1>2, <1>4, HeardLines DEF Clear
  <2>5. server.nick \in {-1, client.nick} /\ None(down', OfNick(client.nick))
    BY <1>1, <1>2, <1>5, <2>4, HeardLines DEF NickOK
  <2>6. None(up', NotFor(0))
    BY <2>2, NickOthers
  <2>7. QED
    BY <1>3, <1>6, <1>7, <2>1, <2>2, <2>3, <2>5, <2>6 DEF NickOK, Alone
<1>8. CASE /\ ~client.registered /\ say = <<SetNickLine(client.nick + 1)>> /\ Keeps({"nick", "fallback"})
           /\ client'.nick = client.nick + 1 /\ client.nick + 1 \in Nick
  <2>1. AtMostOne(say, Up({"NICK"})) /\ None(say, NotFor(client.nick + 1))
    <3>1. SetNickLine(client.nick + 1) \notin NotFor(client.nick + 1)
      BY DEF NotFor, SetNickLine
    <3>2. QED
      BY <1>8, <3>1, One
  <2>2. Alone(up', Up({"NICK"}), down', Down({"433", "001"}))
    <3>1. AtMostOne(up', Up({"NICK"}))
      BY <1>3, <1>6, <2>1, Put
    <3>2. AtMostOne(down', Down({"433", "001"}))
      BY <1>6 DEF AtMostOne, None
    <3>3. QED
      BY <1>6, <3>1, <3>2 DEF Alone
  <2>3. None(up', NotFor(client'.nick))
    <3>1. None(up, NotFor(client.nick + 1))
      BY <1>6, NickOthers
    <3>2. QED
      BY <1>1, <1>2, <1>8, <2>1, <3>1, HeardLines
  <2>4. server.nick = -1
    BY <1>1, <1>2, <1>4, <1>5, <1>8, HeardLines DEF NickOK, Clear
  <2>5. None(down', OfNick(client'.nick))
    <3>1. ~server.registered
      BY <1>1, <2>4 DEF Linked
    <3>2. None(down, OfNick(client'.nick))
      BY <1>1, <3>1 DEF Linked, None, OfNick, Down
    <3>3. QED
      BY <1>1, <1>2, <3>2, HeardLines
  <2>6. QED
    BY <1>3, <1>6, <1>8, <2>2, <2>3, <2>4, <2>5 DEF NickOK
<1>9. QED
  BY <1>2, <1>7, <1>8

LEMMA NickWelcomed ==
  ASSUME IInv, OnWelcome, UNCHANGED network
  PROVE  NickInv'
<1>1. Types /\ Linked /\ NickInv
  BY DEF IInv
<1>2. PICK say : Heard({"001"}, say) /\ (say = <<SetNickLine(0)>> \/ say = <<>>)
  BY <1>1, WelcomeHas
<1>3. client'.registered /\ client'.nick = client.nick
  BY <1>1, WelcomeHas DEF Keeps, Fields
<1>4. /\ UNCHANGED <<server, renames, others>> /\ Taken(down, down') /\ Joined(up, say, up')
      /\ up \in Seq(UpLines(Caps)) /\ say \in Seq(UpLines(Caps)) /\ down \in Seq(DownLines(Caps))
  BY <1>1, <1>2 DEF Heard, Types
<1>5. Head(down) \in Down({"433", "001"}) /\ Head(down) \in Down({"001"})
      /\ Head(down) \in Down({"001", "NICK", "DEL"})
  BY <1>1, <1>2, HeardLines, SetsHaveLines
<1>6. ~client.registered /\ server.registered /\ server.nick # -1
  BY <1>1, <1>2, <1>5, HeardLines DEF Linked
<1>7. NickOK
  BY <1>1, <1>6 DEF NickInv
<1>8. /\ None(up, Up({"NICK"})) /\ None(down', Down({"433", "001"}))
      /\ server.nick = client.nick /\ None(down', OfNick(client.nick))
  BY <1>1, <1>2, <1>5, <1>6, <1>7, HeardLines DEF NickOK, Alone
<1>9. AtMostOne(say, Up({"NICK"})) /\ None(say, NotFor(0))
  <2>1. SetNickLine(0) \notin NotFor(0)
    BY DEF NotFor, SetNickLine
  <2>2. QED
    BY <1>2, <2>1, One, Nothing
<1>10. AtMostOne(up', Up({"NICK"})) /\ None(up', NotFor(0))
  BY <1>4, <1>8, <1>9, Put, NickOthers
<1>11. AtMostOne(down', Down({"433", "001"}))
  BY <1>8 DEF AtMostOne, None
<1>12. QED
  BY <1>3, <1>4, <1>8, <1>10, <1>11 DEF NickInv, NickOK, Alone

LEMMA NickChanged ==
  ASSUME IInv, OnNick, UNCHANGED network
  PROVE  NickInv'
<1> DEFINE l == Head(down)
           n == client.nick
<1>1. Types /\ Linked /\ NickInv
  BY DEF IInv
<1>2. /\ Heard({"NICK"}, <<>>) /\ Keeps({"nick"})
      /\ client'.nick = IF n \in {l.old, l.new} THEN l.new ELSE n
  BY <1>1, NickHas
<1>3. /\ UNCHANGED <<server, renames, others>> /\ Taken(down, down') /\ Joined(up, <<>>, up')
      /\ up \in Seq(UpLines(Caps)) /\ down \in Seq(DownLines(Caps))
      /\ client'.registered = client.registered
  BY <1>1, <1>2 DEF Heard, Types, Keeps, Fields
<1>4. up' = up
  BY <1>3 DEF Joined
<1>5. /\ l \in Down({"NICK"}) /\ l \notin Down({"433", "001"}) /\ l \notin Down({"433"})
      /\ \A k : l \in OfNick(k) <=> k \in {l.old, l.new}
  <2>1. l \in Down({"NICK"}) /\ l.kind = "NICK"
    BY <1>1, <1>2, HeardLines, SetsHaveLines
  <2>2. QED
    BY <2>1, OfKind DEF OfNick
<1>6. n \in Nick
  BY <1>1 DEF Types, TypeOK
<1>7. SUFFICES ASSUME NickOK
               PROVE  NickOK'
  BY <1>1, <1>3 DEF NickInv
<1>8. /\ \A T : None(down, T) => None(down', T) /\ l \notin T
      /\ \A T : AtMostOne(down, T) => AtMostOne(down', T)
  BY <1>1, <1>2, HeardLines
<1>9. Alone(up', Up({"NICK"}), down', Down({"433", "001"}))
  BY <1>4, <1>7, <1>8 DEF NickOK, Alone
<1>10. CASE server.nick \in {-1, n} /\ None(down, OfNick(n))
  <2>1. client'.nick = n
    BY <1>2, <1>5, <1>8, <1>10
  <2> HIDE DEF n
  <2>2. None(up', NotFor(IF client'.registered THEN 0 ELSE client'.nick))
    BY <1>3, <1>4, <1>7, <2>1 DEF NickOK, n
  <2>3. ~client'.registered => None(down', Down({"433"})) \/ client'.nick # MaxNick
    BY <1>3, <1>7, <1>8, <2>1 DEF NickOK, n
  <2>4. ~client'.registered => server'.nick = -1 \/ Clear(up', Up({"NICK"}), down', Down({"433"}))
    BY <1>3, <1>4, <1>7, <1>8 DEF NickOK, Clear
  <2>5. QED
    BY <1>3, <1>8, <1>9, <1>10, <2>1, <2>2, <2>3, <2>4 DEF NickOK
<1>11. CASE /\ client.registered /\ server.nick = 0
            /\ Clear(up, Up({"NICK"}), down, Down({"433", "001"}))
            /\ Turns(down, NickLine(n, 0), OfNick(n), OfNick(0))
  <2> DEFINE own == NickLine(n, 0)
  <2>1. own \in OfNick(n) /\ own.new = 0 /\ own.old = n
    BY <1>6, NickLines
  <2>2. None(up', NotFor(0)) /\ Clear(up', Up({"NICK"}), down', Down({"433", "001"}))
    BY <1>4, <1>8, <1>11, NickOthers DEF Clear
  <2> HIDE DEF own
  <2>3. \/ l = own /\ None(down', OfNick(0))
        \/ l \notin OfNick(n) /\ Turns(down', own, OfNick(n), OfNick(0))
    BY <1>3, <1>11, <2>1, TakeTurns DEF own
  <2>4. CASE l = own /\ None(down', OfNick(0))
    <3>1. client'.nick = 0
      BY <1>2, <2>1, <2>4
    <3>2. QED
      BY <1>3, <1>9, <1>11, <2>2, <2>4, <3>1 DEF NickOK
  <2>5. CASE l \notin OfNick(n) /\ Turns(down', own, OfNick(n), OfNick(0))
    <3>1. client'.nick = n
      BY <1>2, <1>5, <2>5
    <3>2. QED
      BY <1>3, <1>9, <1>11, <2>2, <2>5, <3>1 DEF NickOK, own
  <2>6. QED
    BY <2>3, <2>4, <2>5
<1>12. QED
  BY <1>7, <1>10, <1>11 DEF NickOK

\* The server takes a line and sends nothing about nicks.
LEMMA NickServed ==
  ASSUME Types, NickInv, NEW k, NEW say, Served(k, say), server'.nick = server.nick,
         None(say, Down({"433", "001"})), None(say, Down({"NICK"}))
  PROVE  NickInv'
<1>1. Sent(say)
  BY DEF Served
<1>2. \A n : None(say, OfNick(n))
  BY NickOthers
<1>3. /\ \A T : None(up, T) => None(up', T)
      /\ \A T : AtMostOne(up, T) => AtMostOne(up', T)
  BY ServedLines
<1>4. QED
  BY <1>1, <1>2, <1>3, NickSent

LEMMA NickAnswered ==
  ASSUME IInv, ServerNick, UNCHANGED network
  PROVE  NickInv'
<1> DEFINE new == Head(up).new
           n == client.nick
<1>1. Types /\ Linked /\ NickInv
  BY DEF IInv
<1>2. PICK say :
        /\ new \in Nick /\ Served("NICK", say)
        /\ \/ new \in others /\ say = <<Line("433")>> /\ Stays({})
           \/ /\ new \notin others /\ Stays({"nick"}) /\ server'.nick = new
              /\ \/ server.registered /\ say = <<NickLine(server.nick, new)>>
                 \/ ~server.registered /\ say = <<>>
  BY <1>1, ServerNickHas DEF Linked
<1>3. /\ UNCHANGED <<client, renames, others>> /\ Taken(up, up') /\ Joined(down, say, down')
      /\ up \in Seq(UpLines(Caps)) /\ say \in Seq(DownLines(Caps)) /\ down \in Seq(DownLines(Caps))
  BY <1>1, <1>2 DEF Served, Sent, Types
<1>4. Head(up) \in Up({"NICK"}) /\ \A k : Head(up) \in NotFor(k) <=> new # k
  <2>1. Head(up) \in Up({"NICK"})
    BY <1>1, <1>2, ServedLines, SetsHaveLines
  <2>2. QED
    BY <2>1 DEF NotFor
<1>5. SUFFICES ASSUME NickOK
               PROVE  NickOK'
  BY <1>1, <1>3 DEF NickInv
<1>6. n \in Nick /\ server.registered' = server.registered
  BY <1>1, <1>2 DEF Types, TypeOK, Stays, ServerFields
<1> HIDE DEF new
<1>7. /\ None(up', Up({"NICK"})) /\ None(down, Down({"433", "001"}))
      /\ \A T : None(down, T) /\ None(say, T) => None(down', T)
      /\ \A k : None(up, NotFor(k)) => None(up', NotFor(k)) /\ new = k
  BY <1>1, <1>2, <1>4, <1>5, ServedLines DEF NickOK, Alone
<1>8. None(down, Down({"433"})) /\ None(down, Down({"001"})) /\ AtMostOne(up', Up({"NICK"}))
  BY <1>7, NickOthers DEF AtMostOne, None
<1>9. /\ new = IF client.registered THEN 0 ELSE n
      /\ None(up', NotFor(IF client.registered THEN 0 ELSE n))
  BY <1>5, <1>7 DEF NickOK
<1>10. ~Clear(up, Up({"NICK"}), down, Down({"433", "001"})) /\ ~Clear(up, Up({"NICK"}), down, Down({"433"}))
  BY <1>1, <1>2, <1>4, ServedLines DEF Clear
<1>11. /\ server.nick \in {-1, n} /\ None(down, OfNick(n))
       /\ ~client.registered => server.nick = -1
  BY <1>5, <1>10 DEF NickOK
<1>12. CASE new \in others /\ say = <<Line("433")>> /\ Stays({})
  <2>1. /\ None(say, OfNick(n)) /\ AtMostOne(say, Down({"433", "001"}))
    <3>1. Line("433").kind = "433"
      BY DEF Line
    <3>2. QED
      BY <1>12, <3>1, NickKinds, One
  <2>2. AtMostOne(down', Down({"433", "001"})) /\ None(down', OfNick(n))
    BY <1>3, <1>7, <1>11, <2>1, Put
  <2>3. server'.nick = server.nick
    BY <1>12 DEF Stays, ServerFields
  <2>4. ~client.registered => n # MaxNick
    BY <1>1, <1>9, <1>12 DEF Linked
  <2>5. QED
    BY <1>3, <1>7, <1>8, <1>9, <1>11, <2>2, <2>3, <2>4 DEF NickOK, Alone
<1>13. CASE server'.nick = new /\ ~server.registered /\ say = <<>>
  <2>1. ~client.registered
    BY <1>1, <1>13 DEF Linked
  <2>2. None(down', Down({"433", "001"})) /\ None(down', Down({"433"})) /\ None(down', OfNick(n))
    BY <1>7, <1>8, <1>11, <1>13, Nothing
  <2>3. AtMostOne(down', Down({"433", "001"}))
    BY <2>2 DEF AtMostOne, None
  <2>4. QED
    BY <1>3, <1>7, <1>8, <1>9, <1>13, <2>1, <2>2, <2>3 DEF NickOK, Alone, Clear
<1>14. CASE server'.nick = new /\ server.registered /\ say = <<NickLine(server.nick, new)>>
  <2>1. client.registered /\ server.nick = n /\ new = 0
    BY <1>1, <1>9, <1>11, <1>14 DEF Linked
  <2> DEFINE own == NickLine(n, 0)
  <2>2. own.kind = "NICK"
    BY <1>6, NickLines
  <2>3. say = <<own>>
    BY <1>14, <2>1
  <2> HIDE DEF own
  <2>4. None(say, Down({"433", "001"}))
    BY <2>2, <2>3, OfKind
  <2>5. None(down', Down({"433", "001"}))
    BY <1>7, <2>4
  <2>6. Turns(down', own, OfNick(n), OfNick(0))
    BY <1>3, <1>11, <2>3, PutTurns
  <2>7. AtMostOne(down', Down({"433", "001"}))
    BY <2>5 DEF AtMostOne, None
  <2>8. QED
    BY <1>3, <1>7, <1>8, <1>9, <1>14, <2>1, <2>5, <2>6, <2>7 DEF NickOK, Alone, Clear, own
<1>15. QED
  BY <1>2, <1>12, <1>13, <1>14

LEMMA NickAdmitted ==
  ASSUME IInv, ServerWelcome, UNCHANGED network
  PROVE  NickInv'
<1>1. Types /\ Linked /\ NickInv
  BY DEF IInv
<1> DEFINE say == <<Line("001")>>
<1>2. /\ ~server.registered /\ server.nick # -1 /\ Sent(say) /\ UNCHANGED up
      /\ server'.nick = server.nick
  BY <1>1, ServerWelcomeHas DEF Stays, ServerFields
<1>3. None(say, Down({"433"})) /\ AtMostOne(say, Down({"433", "001"})) /\ \A n : None(say, OfNick(n))
  <2>1. Line("001").kind = "001"
    BY DEF Line
  <2>2. QED
    BY <2>1, OfKind, One, NickKinds
<1> HIDE DEF say
<1>4. /\ UNCHANGED <<client, renames>> /\ Joined(down, say, down')
      /\ say \in Seq(DownLines(Caps)) /\ down \in Seq(DownLines(Caps))
  BY <1>1, <1>2 DEF Sent, Types
<1>5. ~client.registered /\ None(down, Down({"001"}))
  <2>1. ~client.registered /\ None(down, Down({"001", "NICK", "DEL"}))
    BY <1>1, <1>2 DEF Linked
  <2>2. QED
    BY <2>1 DEF None, Down
<1>6. NickOK
  BY <1>1, <1>5 DEF NickInv
<1>7. Clear(up, Up({"NICK"}), down, Down({"433"})) /\ None(down, Down({"433", "001"}))
  BY <1>2, <1>5, <1>6, NickOthers DEF NickOK, Clear
<1>8. /\ \A T : None(down, T) /\ None(say, T) => None(down', T)
      /\ AtMostOne(down', Down({"433", "001"}))
  BY <1>3, <1>4, <1>7, Put
<1>9. QED
  BY <1>2, <1>3, <1>4, <1>5, <1>6, <1>7, <1>8 DEF NickInv, NickOK, Alone, Clear

LEMMA NickKeptByClient ==
  ASSUME IInv, Client, UNCHANGED network
  PROVE  NickInv'
<1>1. Types /\ Linked /\ NickInv
  BY DEF IInv
<1>2. /\ None(<<>>, Up({"NICK"})) /\ \A caps : None(<<CapLine("REQ", caps)>>, Up({"NICK"}))
      /\ \A k \in {"END", "AUTHENTICATE", "CREDENTIALS"} : None(<<Line(k)>>, Up({"NICK"}))
      /\ \A list \in BOOLEAN : /\ None(Then(list), Up({"NICK"}))
                               /\ None(<<Line("END")>> \o Then(list), Up({"NICK"}))
  <2>1. /\ \A k : Line(k).kind = k
        /\ \A caps : CapLine("REQ", caps).kind = "REQ"
    BY DEF Line, CapLine
  <2>2. /\ \A k \in {"END", "AUTHENTICATE", "CREDENTIALS", "LISTNETWORKS"} :
               None(<<Line(k)>>, Up({"NICK"})) /\ Line(k) \notin Up({"NICK"})
        /\ \A caps : None(<<CapLine("REQ", caps)>>, Up({"NICK"}))
    BY <2>1, OfKind
  <2>3. None(<<>>, Up({"NICK"}))
    BY Nothing
  <2>4. QED
    BY <2>2, <2>3, ThenLines
<1>3. CASE OnCapLsMore
  <2>1. Heard({"LS*"}, <<>>) /\ client'.nick = client.nick /\ client'.registered = client.registered
    BY <1>1, <1>3, LsMoreHas DEF Keeps, Fields
  <2>2. QED
    BY <1>1, <1>2, <2>1, NickHeard
<1>4. CASE OnCapLs
  <2>1. client'.nick = client.nick /\ client'.registered = client.registered
    BY <1>1, <1>4, LsHas DEF Keeps, Fields
  <2>2. Heard({"LS"}, <<Line("END")>>) \/ \E want : Heard({"LS"}, <<CapLine("REQ", want)>>)
    BY <1>1, <1>4, LsHas
  <2>3. PICK say : Heard({"LS"}, say) /\ None(say, Up({"NICK"}))
    BY <1>2, <2>2
  <2>4. QED
    BY <1>1, <2>1, <2>3, NickHeard
<1>5. CASE OnCapAck
  <2>1. client'.nick = client.nick /\ client'.registered = client.registered
    BY <1>1, <1>5, AckHas DEF Keeps, Fields
  <2>2. \E list \in BOOLEAN : \/ Heard({"ACK"}, Then(list)) \/ Heard({"ACK"}, <<Line("AUTHENTICATE")>>)
                              \/ Heard({"ACK"}, <<Line("END")>> \o Then(list))
    BY <1>1, <1>5, AckHas
  <2>3. PICK say : Heard({"ACK"}, say) /\ None(say, Up({"NICK"}))
    BY <1>2, <2>2
  <2>4. QED
    BY <1>1, <2>1, <2>3, NickHeard
<1>6. CASE OnCapNak
  <2>1. client'.nick = client.nick /\ client'.registered = client.registered
    BY <1>1, <1>6, NakHas DEF Keeps, Fields
  <2>2. Heard({"NAK"}, <<>>) \/ Heard({"NAK"}, <<Line("END")>>)
    BY <1>1, <1>6, NakHas
  <2>3. PICK say : Heard({"NAK"}, say) /\ None(say, Up({"NICK"}))
    BY <1>2, <2>2
  <2>4. QED
    BY <1>1, <2>1, <2>3, NickHeard
<1>7. CASE OnCapNew
  <2>1. client' = client
    BY <1>1, <1>7, NewHas
  <2>2. Heard({"NEW"}, <<>>) \/ \E want : Heard({"NEW"}, <<CapLine("REQ", want)>>)
    BY <1>1, <1>7, NewHas
  <2>3. PICK say : Heard({"NEW"}, say) /\ None(say, Up({"NICK"}))
    BY <1>2, <2>2
  <2>4. QED
    BY <1>1, <2>1, <2>3, NickHeard
<1>8. CASE OnCapDel
  <2>1. Heard({"DEL"}, <<>>) /\ client'.nick = client.nick /\ client'.registered = client.registered
    BY <1>1, <1>8, DelHas DEF Keeps, Fields
  <2>2. QED
    BY <1>1, <1>2, <2>1, NickHeard
<1>9. CASE OnAuthenticate
  <2>1. client'.nick = client.nick /\ client'.registered = client.registered
    BY <1>1, <1>9, AuthenticateHas DEF Keeps, Fields
  <2>2. PICK say : Heard({"AUTHENTICATE"}, say) /\ None(say, Up({"NICK"}))
    BY <1>1, <1>2, <1>9, AuthenticateHas
  <2>3. QED
    BY <1>1, <2>1, <2>2, NickHeard
<1>10. CASE OnSaslSuccess
  <2>1. client'.nick = client.nick /\ client'.registered = client.registered
    BY <1>1, <1>10, SuccessHas DEF Keeps, Fields
  <2>2. PICK say : Heard({"903"}, say) /\ None(say, Up({"NICK"}))
    BY <1>1, <1>2, <1>10, SuccessHas
  <2>3. QED
    BY <1>1, <2>1, <2>2, NickHeard
<1>11. CASE OnSaslFailure
  <2>1. client'.nick = client.nick /\ client'.registered = client.registered
    BY <1>1, <1>11, FailureHas DEF Keeps, Fields
  <2>2. PICK say : Heard({"904"}, say) /\ None(say, Up({"NICK"}))
    BY <1>1, <1>2, <1>11, FailureHas
  <2>3. QED
    BY <1>1, <2>1, <2>2, NickHeard
<1>12. CASE OnNickInUse
  BY <1>12, NickRefused
<1>13. CASE OnWelcome
  BY <1>13, NickWelcomed
<1>14. CASE OnNick
  BY <1>14, NickChanged
<1>15. CASE Noted
  <2>1. client'.nick = client.nick /\ client'.registered = client.registered
    BY <1>1, <1>15, NotedHas DEF Keeps, Fields
  <2>2. PICK k \in NotedKinds : Heard({k}, <<>>)
    BY <1>1, <1>15, NotedHas
  <2>3. QED
    BY <1>1, <1>2, <2>1, <2>2, NickHeard DEF NotedKinds
<1>16. QED
  BY <1>3, <1>4, <1>5, <1>6, <1>7, <1>8, <1>9, <1>10, <1>11, <1>12, <1>13, <1>14, <1>15 DEF Client, Noted

LEMMA NickKeptByServer ==
  ASSUME IInv, Server, UNCHANGED network
  PROVE  NickInv'
<1>1. Types /\ Linked /\ NickInv
  BY DEF IInv
<1>2. /\ None(<<>>, Down({"433", "001"})) /\ None(<<>>, Down({"NICK"}))
      /\ \A k \in {"904", "903", "AUTHENTICATE", "LISTED", "FAIL", "NAK", "432", "902"} :
           None(<<Line(k)>>, Down({"433", "001"})) /\ None(<<Line(k)>>, Down({"NICK"}))
  <2>1. \A k : Line(k).kind = k
    BY DEF Line
  <2>2. \A k \in {"904", "903", "AUTHENTICATE", "LISTED", "FAIL", "NAK", "432", "902"} :
           None(<<Line(k)>>, Down({"433", "001"})) /\ None(<<Line(k)>>, Down({"NICK"}))
    BY <2>1, OfKind
  <2>3. QED
    BY <2>2, Nothing
<1>3. CASE ServerLs
  <2>1. server'.nick = server.nick
    BY <1>1, <1>3, ServerLsHas DEF Stays, ServerFields
  <2>2. PICK say : Served("LS", say) /\ Only(say, {"LS*", "LS"})
    BY <1>1, <1>3, LsSays
  <2>3. None(say, Down({"433", "001"})) /\ None(say, Down({"NICK"}))
    BY <2>2, OnlyThose
  <2>4. QED
    BY <1>1, <2>1, <2>2, <2>3, NickServed
<1>4. CASE ServerReq
  <2>1. server'.nick = server.nick
    BY <1>1, <1>4, ReqSays DEF Stays, ServerFields
  <2>2. PICK say : Served("REQ", say) /\ (Only(say, {"ACK"}) \/ say = <<Line("NAK")>>)
    BY <1>1, <1>4, ReqSays
  <2>3. Only(say, {"ACK"}) => None(say, Down({"433", "001"})) /\ None(say, Down({"NICK"}))
    BY OnlyThose
  <2>4. QED
    BY <1>1, <1>2, <2>1, <2>2, <2>3, NickServed
<1>5. CASE ServerAuthenticate
  <2>1. server'.nick = server.nick
    BY <1>1, <1>5, ServerAuthenticateHas DEF Stays, ServerFields
  <2>2. PICK say : /\ Served("AUTHENTICATE", say)
                   /\ None(say, Down({"433", "001"})) /\ None(say, Down({"NICK"}))
    BY <1>1, <1>2, <1>5, ServerAuthenticateHas
  <2>3. QED
    BY <1>1, <2>1, <2>2, NickServed
<1>6. CASE ServerCredentials
  <2>1. server'.nick = server.nick
    BY <1>1, <1>6, ServerCredentialsHas DEF Stays, ServerFields
  <2>2. PICK say : /\ Served("CREDENTIALS", say)
                   /\ None(say, Down({"433", "001"})) /\ None(say, Down({"NICK"}))
    BY <1>1, <1>2, <1>6, ServerCredentialsHas
  <2>3. QED
    BY <1>1, <2>1, <2>2, NickServed
<1>7. CASE ServerEnd
  <2>1. server'.nick = server.nick
    BY <1>1, <1>7, ServerEndHas DEF Stays, ServerFields
  <2>2. PICK say : /\ Served("END", say)
                   /\ None(say, Down({"433", "001"})) /\ None(say, Down({"NICK"}))
    BY <1>1, <1>2, <1>7, ServerEndHas
  <2>3. QED
    BY <1>1, <2>1, <2>2, NickServed
<1>8. CASE ServerNick
  BY <1>8, NickAnswered
<1>9. CASE ServerWelcome
  BY <1>9, NickAdmitted
<1>10. CASE ServerListNetworks
  <2>1. server'.nick = server.nick
    BY <1>1, <1>10, ServerListNetworksHas DEF Stays, ServerFields
  <2>2. PICK say : /\ Served("LISTNETWORKS", say)
                   /\ None(say, Down({"433", "001"})) /\ None(say, Down({"NICK"}))
    BY <1>1, <1>2, <1>10, ServerListNetworksHas
  <2>3. QED
    BY <1>1, <2>1, <2>2, NickServed
<1>11. CASE ServerRefuses
  <2>1. server'.nick = server.nick
    BY <1>1, <1>11, ServerRefusesHas DEF Stays, ServerFields
  <2>2. PICK k, say : /\ Served(k, say)
                      /\ None(say, Down({"433", "001"})) /\ None(say, Down({"NICK"}))
    BY <1>1, <1>2, <1>11, ServerRefusesHas
  <2>3. QED
    BY <1>1, <2>1, <2>2, NickServed
<1>12. QED
  BY <1>3, <1>4, <1>5, <1>6, <1>7, <1>8, <1>9, <1>10, <1>11 DEF Server

LEMMA NickKept ==
  ASSUME IInv, Next
  PROVE  NickInv'
<1>1. Types /\ Linked /\ NickInv /\ UNCHANGED network
  BY DEF IInv, Next
<1>2. CASE OnConnected \/ OnDisconnected
  <2>1. /\ ~client'.registered /\ down' = <<>> /\ server'.nick = -1 /\ client'.nick = client.nick
        /\ up' = <<>> \/ up' = <<Line("LS"), SetNickLine(client.nick)>>
    BY <1>1, <1>2, LinkHas DEF Fresh
  <2>2. \A T : None(down', T) /\ AtMostOne(down', T)
    BY <2>1, Nothing
  <2>3. AtMostOne(up', Up({"NICK"})) /\ None(up', NotFor(client.nick))
    <3>1. CASE up' = <<>>
      BY <3>1, Nothing
    <3>2. CASE up' = <<Line("LS"), SetNickLine(client.nick)>>
      <4>1. Line("LS").kind = "LS" /\ SetNickLine(client.nick).new = client.nick
        BY DEF Line, SetNickLine
      <4>2. /\ Line("LS") \notin Up({"NICK"}) /\ Line("LS") \notin NotFor(client.nick)
            /\ SetNickLine(client.nick) \notin NotFor(client.nick)
        BY <4>1, OfKind, NickKinds DEF NotFor
      <4>3. QED
        BY <3>2, <4>2, Two
    <3>3. QED
      BY <2>1, <3>1, <3>2
  <2>4. QED
    BY <2>1, <2>2, <2>3 DEF NickInv, NickOK, Alone
<1>3. CASE Client
  BY <1>1, <1>3, NickKeptByClient
<1>4. CASE Server
  BY <1>1, <1>4, NickKeptByServer
<1>5. CASE ServerCapNew
  <2>1. PICK cap : Sent(<<CapLine("NEW", {cap})>>) /\ UNCHANGED up /\ Stays({"announced"})
    BY <1>1, <1>5, CapNewHas
  <2> DEFINE say == <<CapLine("NEW", {cap})>>
  <2>2. CapLine("NEW", {cap}).kind = "NEW"
    BY DEF CapLine
  <2>3. None(say, Down({"433", "001"})) /\ \A n : None(say, OfNick(n))
    BY <2>2, OfKind, NickKinds
  <2>4. server'.nick = server.nick
    BY <2>1 DEF Stays, ServerFields
  <2> HIDE DEF say
  <2>5. Sent(say) /\ up' = up
    BY <2>1 DEF say
  <2>6. QED
    BY <1>1, <2>3, <2>4, <2>5, NickSent
<1>6. CASE ServerCapDel
  <2>1. PICK cap : Sent(<<CapLine("DEL", {cap})>>) /\ UNCHANGED up /\ Stays({"enabled"})
    BY <1>1, <1>6, CapDelHas
  <2> DEFINE say == <<CapLine("DEL", {cap})>>
  <2>2. CapLine("DEL", {cap}).kind = "DEL"
    BY DEF CapLine
  <2>3. None(say, Down({"433", "001"})) /\ \A n : None(say, OfNick(n))
    BY <2>2, OfKind, NickKinds
  <2>4. server'.nick = server.nick
    BY <2>1 DEF Stays, ServerFields
  <2> HIDE DEF say
  <2>5. Sent(say) /\ up' = up
    BY <2>1 DEF say
  <2>6. QED
    BY <1>1, <2>3, <2>4, <2>5, NickSent
<1>7. ASSUME NEW nick \in Nick, UserNick(nick)
      PROVE  NickInv'
  <2>1. client.registered /\ client'.registered = client.registered /\ renames' = renames + 1
    BY <1>1, <1>7, UserNickHas DEF Keeps, Fields
  <2>2. renames \in Nat
    BY <1>1, NetworksAssumption DEF Types, TypeOK
  <2>3. QED
    BY <2>1, <2>2 DEF NickInv
<1>8. ASSUME NEW old \in Nick, NEW new \in Nick, OtherNick(old, new)
      PROVE  NickInv'
  <2>1. /\ Sent(<<NickLine(old, new)>>) /\ UNCHANGED up /\ Stays({})
        /\ old \in others /\ new \notin others \cup {server.nick}
    BY <1>1, <1>8, OtherNickHas
  <2> DEFINE say == <<NickLine(old, new)>>
  <2>2. None(say, Down({"433", "001"})) /\ \A k : k \notin {old, new} => None(say, OfNick(k))
    <3>1. NickLine(old, new).kind = "NICK" /\ \A k : NickLine(old, new) \in OfNick(k) <=> k \in {old, new}
      BY NickLines
    <3>2. QED
      BY <3>1, OfKind, One
  <2>3. server'.nick = server.nick /\ server.nick \notin others
    BY <1>1, <2>1 DEF Stays, ServerFields, Linked
  <2>4. server.nick \notin {old, new} /\ None(say, OfNick(server.nick))
    BY <2>1, <2>2, <2>3
  <2>5. server.nick # -1
    BY <1>1, <1>8, OtherNickHas DEF Linked
  <2> HIDE DEF say
  <2>6. Sent(say) /\ up' = up
    BY <2>1 DEF say
  <2>7. /\ server.nick \notin {-1, client.nick} \/ None(say, OfNick(client.nick))
        /\ server.nick # 0 \/ None(say, OfNick(0))
    BY <2>4, <2>5
  <2>8. QED
    BY <1>1, <2>2, <2>3, <2>6, <2>7, NickSent
<1>9. QED
  BY <1>2, <1>3, <1>4, <1>5, <1>6, <1>7, <1>8 DEF Next

(* -------------------- the negotiation, step by step -------------------- *)

Asks == Up({"LS", "REQ"})
Answers == Down({"LS", "ACK", "NAK"})

LEMMA PendingHeard ==
  ASSUME Types, PendingInv, NEW k, NEW say, Heard({k}, say), k # "NEW",
         None(say, Asks) \/ (k = "LS" /\ AtMostOne(say, Asks) /\ client'.saslPending = client.saslPending),
         client'.saslPending => client.saslPending \/ k \in {"LS", "ACK", "NAK"},
         client'.endedDuringSasl =>
           client.endedDuringSasl \/ (client.saslPending /\ k \in {"LS", "ACK", "NAK"})
  PROVE  PendingInv'
<1>1. /\ UNCHANGED <<network, server>> /\ Taken(down, down') /\ Joined(up, say, up')
      /\ up \in Seq(UpLines(Caps)) /\ say \in Seq(UpLines(Caps)) /\ down \in Seq(DownLines(Caps))
  BY DEF Heard, Types
<1>2. None(down, Down({"NEW"})) => None(down', Down({"NEW"}))
  BY HeardLines
<1>3. Head(down) \in Answers <=> k \in {"LS", "ACK", "NAK"}
  <2>1. Head(down) \in DownLines(Caps) /\ Head(down).kind = k
    BY DEF Heard
  <2>2. \A l \in DownLines(Caps) : l \in Answers <=> l.kind \in {"LS", "ACK", "NAK"}
    BY SetsHaveLines, Zenon DEF Answers
  <2>3. QED
    BY <2>1, <2>2
<1>4. ASSUME server.announced \subseteq network.offered, ~network.split
      PROVE  /\ ~client'.endedDuringSasl /\ Alone(up', Asks, down', Answers)
             /\ client'.saslPending => Clear(up', Asks, down', Answers)
  <2>1. /\ ~client.endedDuringSasl /\ Alone(up, Asks, down, Answers)
        /\ client.saslPending => Clear(up, Asks, down, Answers)
    BY <1>4 DEF PendingInv, Asks, Answers
  <2>2. client.saslPending => Head(down) \notin Answers
    BY <2>1, HeardLines DEF Clear
  <2>3. Alone(down, Answers, up, Asks)
    BY <2>1 DEF Alone
  <2>4. /\ Alone(down', Answers, up', Asks)
        /\ None(say, Asks) /\ (Head(down) \in Answers \/ Clear(down, Answers, up, Asks)) =>
             Clear(down', Answers, up', Asks)
    BY <1>1, <1>3, <2>3, PassOn
  <2>5. Alone(up', Asks, down', Answers)
    BY <2>4 DEF Alone
  <2>6. ~client'.endedDuringSasl
    BY <1>3, <2>1, <2>2
  <2>7. client'.saslPending => Clear(up', Asks, down', Answers)
    BY <1>3, <2>1, <2>2, <2>4 DEF Clear
  <2>8. QED
    BY <2>5, <2>6, <2>7
<1>5. QED
  BY <1>1, <1>2, <1>4 DEF PendingInv, Asks, Answers

LEMMA PendingServed ==
  ASSUME Types, PendingInv, NEW k, NEW say, Served(k, say),
         server'.announced \subseteq network.offered => server.announced \subseteq network.offered,
         None(say, Down({"NEW"})),
         ~network.split => None(say, Answers) \/ (k \in {"LS", "REQ"} /\ AtMostOne(say, Answers))
  PROVE  PendingInv'
<1>1. /\ UNCHANGED <<network, client>> /\ Taken(up, up') /\ Joined(down, say, down')
      /\ up \in Seq(UpLines(Caps)) /\ say \in Seq(DownLines(Caps)) /\ down \in Seq(DownLines(Caps))
  BY DEF Served, Sent, Types
<1>2. None(down, Down({"NEW"})) => None(down', Down({"NEW"}))
  BY ServedLines
<1>3. Head(up) \in Asks <=> k \in {"LS", "REQ"}
  <2>1. Head(up) \in UpLines(Caps) /\ Head(up).kind = k
    BY DEF Served
  <2>2. \A l \in UpLines(Caps) : l \in Asks <=> l.kind \in {"LS", "REQ"}
    BY SetsHaveLines, Zenon DEF Asks
  <2>3. QED
    BY <2>1, <2>2
<1>4. ASSUME server.announced \subseteq network.offered, ~network.split
      PROVE  /\ ~client.endedDuringSasl /\ Alone(up', Asks, down', Answers)
             /\ client.saslPending => Clear(up', Asks, down', Answers)
  <2>1. /\ ~client.endedDuringSasl /\ Alone(up, Asks, down, Answers)
        /\ client.saslPending => Clear(up, Asks, down, Answers)
    BY <1>4 DEF PendingInv, Asks, Answers
  <2>2. client.saslPending => Head(up) \notin Asks
    BY <2>1, ServedLines DEF Clear
  <2>3. /\ Alone(up', Asks, down', Answers)
        /\ None(say, Answers) /\ (Head(up) \in Asks \/ Clear(up, Asks, down, Answers)) =>
             Clear(up', Asks, down', Answers)
    BY <1>1, <1>3, <1>4, <2>1, PassOn
  <2>4. QED
    BY <1>3, <1>4, <2>1, <2>2, <2>3
<1>5. QED
  BY <1>1, <1>2, <1>4 DEF PendingInv, Asks, Answers

LEMMA PendingSent ==
  ASSUME Types, PendingInv, NEW say, Sent(say), UNCHANGED up,
         server'.announced \subseteq network.offered => server.announced \subseteq network.offered,
         None(say, Down({"NEW"})), None(say, Answers)
  PROVE  PendingInv'
<1>1. /\ UNCHANGED <<network, client>> /\ Joined(down, say, down')
      /\ say \in Seq(DownLines(Caps)) /\ down \in Seq(DownLines(Caps))
  BY DEF Sent, Types
<1>2. None(down, Down({"NEW"})) => None(down', Down({"NEW"}))
  BY <1>1, Put
<1>3. /\ Alone(up, Asks, down, Answers) => Alone(up, Asks, down', Answers)
      /\ Clear(up, Asks, down, Answers) => Clear(up, Asks, down', Answers)
  BY <1>1, Put DEF Alone, Clear
<1>4. QED
  BY <1>1, <1>2, <1>3 DEF PendingInv, Asks, Answers

LEMMA PendingKeptByClient ==
  ASSUME IInv, Client, UNCHANGED network
  PROVE  PendingInv'
<1>1. Types /\ PendingInv
  BY DEF IInv
<1>2. /\ None(<<>>, Asks) /\ \A n : None(<<SetNickLine(n)>>, Asks)
      /\ \A caps : AtMostOne(<<CapLine("REQ", caps)>>, Asks)
      /\ \A k \in {"END", "AUTHENTICATE", "CREDENTIALS"} : None(<<Line(k)>>, Asks)
      /\ \A list \in BOOLEAN : None(Then(list), Asks) /\ None(<<Line("END")>> \o Then(list), Asks)
  <2>1. (\A k : Line(k).kind = k) /\ \A n : SetNickLine(n).kind = "NICK"
    BY DEF Line, SetNickLine
  <2>2. /\ \A k \in {"END", "AUTHENTICATE", "CREDENTIALS", "LISTNETWORKS"} :
               None(<<Line(k)>>, Asks) /\ Line(k) \notin Asks
        /\ \A n : None(<<SetNickLine(n)>>, Asks)
    BY <2>1, OfKind DEF Asks
  <2>3. None(<<>>, Asks) /\ \A caps : AtMostOne(<<CapLine("REQ", caps)>>, Asks)
    BY Nothing, One
  <2>4. QED
    BY <2>2, <2>3, ThenLines
<1>3. CASE OnCapLsMore
  <2>1. /\ Heard({"LS*"}, <<>>) /\ client'.saslPending = client.saslPending
        /\ client'.endedDuringSasl = client.endedDuringSasl
    BY <1>1, <1>3, LsMoreHas DEF Keeps, Fields
  <2>2. QED
    BY <1>1, <1>2, <2>1, PendingHeard
<1>4. CASE OnCapLs
  <2>1. client'.saslPending = client.saslPending
    BY <1>1, <1>4, LsHas DEF Keeps, Fields
  <2>2. \/ /\ Heard({"LS"}, <<Line("END")>>)
           /\ client'.endedDuringSasl = (client.endedDuringSasl \/ client.saslPending)
        \/ /\ \E want : Heard({"LS"}, <<CapLine("REQ", want)>>)
           /\ client'.endedDuringSasl = client.endedDuringSasl
    BY <1>1, <1>4, LsHas DEF Keeps, Fields
  <2>3. PICK say : Heard({"LS"}, say) /\ (None(say, Asks) \/ AtMostOne(say, Asks))
    BY <1>2, <2>2
  <2>4. client'.endedDuringSasl => client.endedDuringSasl \/ client.saslPending
    BY <2>2
  <2>5. QED
    BY <1>1, <2>1, <2>3, <2>4, PendingHeard
<1>5. CASE OnCapAck
  <2>1. PICK list \in BOOLEAN :
          \/ /\ Heard({"ACK"}, Then(list)) /\ client'.endedDuringSasl = client.endedDuringSasl
          \/ /\ Heard({"ACK"}, <<Line("AUTHENTICATE")>>)
             /\ client'.endedDuringSasl = client.endedDuringSasl
          \/ /\ Heard({"ACK"}, <<Line("END")>> \o Then(list))
             /\ client'.endedDuringSasl = (client.endedDuringSasl \/ client.saslPending)
    BY <1>1, <1>5, AckHas DEF Keeps, Fields
  <2>2. PICK say : Heard({"ACK"}, say) /\ None(say, Asks)
    BY <1>2, <2>1
  <2>3. client'.endedDuringSasl => client.endedDuringSasl \/ client.saslPending
    BY <2>1
  <2>4. QED
    BY <1>1, <2>2, <2>3, PendingHeard
<1>6. CASE OnCapNak
  <2>1. Heard({"NAK"}, <<>>) \/ Heard({"NAK"}, <<Line("END")>>)
    BY <1>1, <1>6, NakHas
  <2>2. client'.endedDuringSasl => client.endedDuringSasl \/ client.saslPending
    BY <1>1, <1>6, NakHas DEF Keeps, Fields
  <2>3. PICK say : Heard({"NAK"}, say) /\ None(say, Asks)
    BY <1>2, <2>1
  <2>4. QED
    BY <1>1, <2>2, <2>3, PendingHeard
<1>7. CASE OnCapNew
  <2>1. client' = client
    BY <1>1, <1>7, NewHas
  <2>2. PICK say : Heard({"NEW"}, say)
    BY <1>1, <1>7, NewHas
  <2>3. ~None(down, Down({"NEW"}))
    BY <1>1, <2>2, HeardLines, SetsHaveLines
  <2>4. UNCHANGED <<network, server>>
    BY <2>2 DEF Heard
  <2>5. QED
    BY <1>1, <2>3, <2>4 DEF PendingInv
<1>8. CASE OnCapDel
  <2>1. /\ Heard({"DEL"}, <<>>) /\ client'.saslPending = client.saslPending
        /\ client'.endedDuringSasl = client.endedDuringSasl
    BY <1>1, <1>8, DelHas DEF Keeps, Fields
  <2>2. QED
    BY <1>1, <1>2, <2>1, PendingHeard
<1>9. CASE OnAuthenticate
  <2>1. client'.saslPending = client.saslPending /\ client'.endedDuringSasl = client.endedDuringSasl
    BY <1>1, <1>9, AuthenticateHas DEF Keeps, Fields
  <2>2. PICK say : Heard({"AUTHENTICATE"}, say) /\ None(say, Asks)
    BY <1>1, <1>2, <1>9, AuthenticateHas
  <2>3. QED
    BY <1>1, <2>1, <2>2, PendingHeard
<1>10. CASE OnSaslSuccess
  <2>1. ~client'.saslPending /\ client'.endedDuringSasl = client.endedDuringSasl
    BY <1>1, <1>10, SuccessHas DEF Keeps, Fields
  <2>2. PICK say : Heard({"903"}, say) /\ None(say, Asks)
    BY <1>1, <1>2, <1>10, SuccessHas
  <2>3. QED
    BY <1>1, <2>1, <2>2, PendingHeard
<1>11. CASE OnSaslFailure
  <2>1. ~client'.saslPending /\ client'.endedDuringSasl = client.endedDuringSasl
    BY <1>1, <1>11, FailureHas DEF Keeps, Fields
  <2>2. PICK say : Heard({"904"}, say) /\ None(say, Asks)
    BY <1>1, <1>2, <1>11, FailureHas
  <2>3. QED
    BY <1>1, <2>1, <2>2, PendingHeard
<1>12. CASE OnNickInUse
  <2>1. client'.saslPending = client.saslPending /\ client'.endedDuringSasl = client.endedDuringSasl
    BY <1>1, <1>12, NicksLeft, NickInUseHas DEF Keeps, Fields
  <2>2. PICK say : Heard({"433"}, say) /\ None(say, Asks)
    BY <1>1, <1>2, <1>12, NicksLeft, NickInUseHas
  <2>3. QED
    BY <1>1, <2>1, <2>2, PendingHeard
<1>13. CASE OnWelcome
  <2>1. client'.saslPending = client.saslPending /\ client'.endedDuringSasl = client.endedDuringSasl
    BY <1>1, <1>13, WelcomeHas DEF Keeps, Fields
  <2>2. PICK say : Heard({"001"}, say) /\ None(say, Asks)
    BY <1>1, <1>2, <1>13, WelcomeHas
  <2>3. QED
    BY <1>1, <2>1, <2>2, PendingHeard
<1>14. CASE OnNick
  <2>1. /\ Heard({"NICK"}, <<>>) /\ client'.saslPending = client.saslPending
        /\ client'.endedDuringSasl = client.endedDuringSasl
    BY <1>1, <1>14, NickHas DEF Keeps, Fields
  <2>2. QED
    BY <1>1, <1>2, <2>1, PendingHeard
<1>15. CASE Noted
  <2>1. client'.saslPending = client.saslPending /\ client'.endedDuringSasl = client.endedDuringSasl
    BY <1>1, <1>15, NotedHas DEF Keeps, Fields
  <2>2. PICK k \in NotedKinds : Heard({k}, <<>>)
    BY <1>1, <1>15, NotedHas
  <2>3. QED
    BY <1>1, <1>2, <2>1, <2>2, PendingHeard DEF NotedKinds
<1>16. QED
  BY <1>3, <1>4, <1>5, <1>6, <1>7, <1>8, <1>9, <1>10, <1>11, <1>12, <1>13, <1>14, <1>15 DEF Client, Noted

LEMMA PendingKeptByServer ==
  ASSUME IInv, Server, UNCHANGED network
  PROVE  PendingInv'
<1>1. Types /\ Linked /\ PendingInv /\ SaslInv
  BY DEF IInv
<1>2. /\ None(<<>>, Answers) /\ None(<<>>, Down({"NEW"}))
      /\ \A k \in {"904", "903", "AUTHENTICATE", "LISTED", "FAIL", "433", "001", "432", "902"} :
           None(<<Line(k)>>, Answers)
      /\ \A k \in {"904", "903", "AUTHENTICATE", "LISTED", "FAIL", "433", "001", "NAK", "432", "902"} :
           None(<<Line(k)>>, Down({"NEW"}))
      /\ \A n, m : None(<<NickLine(n, m)>>, Answers) /\ None(<<NickLine(n, m)>>, Down({"NEW"}))
  <2>1. (\A k : Line(k).kind = k) /\ \A n, m : NickLine(n, m).kind = "NICK"
    BY DEF Line, NickLine
  <2>2. QED
    BY <2>1, OfKind, Nothing DEF Answers
<1>3. CASE ServerLs
  <2>1. PICK say : Served("LS", say) /\ Only(say, {"LS*", "LS"}) /\ AtMostOne(say, Answers)
    BY <1>1, <1>3, LsSays DEF Answers
  <2>2. None(say, Down({"NEW"}))
    BY <2>1, OnlyThose
  <2>3. ~None(up, Up({"LS"}))
    BY <1>1, <2>1, ServedLines, SetsHaveLines
  <2>4. server.announced \subseteq network.offered
    BY <1>1, <2>3 DEF SaslInv
  <2>5. QED
    BY <1>1, <2>1, <2>2, <2>4, PendingServed
<1>4. CASE ServerReq
  <2>1. server'.announced = server.announced
    BY <1>1, <1>4, ReqSays DEF Stays, ServerFields
  <2>2. PICK say : /\ Served("REQ", say) /\ (Only(say, {"ACK"}) \/ say = <<Line("NAK")>>)
                   /\ ~network.split => AtMostOne(say, Answers)
    BY <1>1, <1>4, ReqSays DEF Answers
  <2>3. None(say, Down({"NEW"}))
    BY <1>2, <2>2, OnlyThose
  <2>4. QED
    BY <1>1, <2>1, <2>2, <2>3, PendingServed
<1>5. CASE ServerAuthenticate
  <2>1. server'.announced = server.announced
    BY <1>1, <1>5, ServerAuthenticateHas DEF Stays, ServerFields
  <2>2. PICK say : Served("AUTHENTICATE", say) /\ None(say, Answers) /\ None(say, Down({"NEW"}))
    BY <1>1, <1>2, <1>5, ServerAuthenticateHas
  <2>3. QED
    BY <1>1, <2>1, <2>2, PendingServed
<1>6. CASE ServerCredentials
  <2>1. server'.announced = server.announced
    BY <1>1, <1>6, ServerCredentialsHas DEF Stays, ServerFields
  <2>2. PICK say : Served("CREDENTIALS", say) /\ None(say, Answers) /\ None(say, Down({"NEW"}))
    BY <1>1, <1>2, <1>6, ServerCredentialsHas
  <2>3. QED
    BY <1>1, <2>1, <2>2, PendingServed
<1>7. CASE ServerEnd
  <2>1. server'.announced = server.announced
    BY <1>1, <1>7, ServerEndHas DEF Stays, ServerFields
  <2>2. PICK say : Served("END", say) /\ None(say, Answers) /\ None(say, Down({"NEW"}))
    BY <1>1, <1>2, <1>7, ServerEndHas
  <2>3. QED
    BY <1>1, <2>1, <2>2, PendingServed
<1>8. CASE ServerNick
  <2>0. server.registered => server.nick # -1
    BY <1>1 DEF Linked
  <2>1. server'.announced = server.announced
    BY <1>1, <1>8, <2>0, ServerNickHas DEF Stays, ServerFields
  <2>2. PICK say : Served("NICK", say) /\ None(say, Answers) /\ None(say, Down({"NEW"}))
    BY <1>1, <1>2, <1>8, <2>0, ServerNickHas
  <2>3. QED
    BY <1>1, <2>1, <2>2, PendingServed
<1>9. CASE ServerWelcome
  <2>1. server'.announced = server.announced /\ up' = up
    BY <1>1, <1>9, ServerWelcomeHas DEF Stays, ServerFields
  <2>2. PICK say : Sent(say) /\ None(say, Answers) /\ None(say, Down({"NEW"}))
    BY <1>1, <1>2, <1>9, ServerWelcomeHas
  <2>3. QED
    BY <1>1, <2>1, <2>2, PendingSent
<1>10. CASE ServerListNetworks
  <2>1. server'.announced = server.announced
    BY <1>1, <1>10, ServerListNetworksHas DEF Stays, ServerFields
  <2>2. PICK say : Served("LISTNETWORKS", say) /\ None(say, Answers) /\ None(say, Down({"NEW"}))
    BY <1>1, <1>2, <1>10, ServerListNetworksHas
  <2>3. QED
    BY <1>1, <2>1, <2>2, PendingServed
<1>11. CASE ServerRefuses
  <2>1. server'.announced = server.announced
    BY <1>1, <1>11, ServerRefusesHas DEF Stays, ServerFields
  <2>2. PICK k, say : Served(k, say) /\ None(say, Answers) /\ None(say, Down({"NEW"}))
    BY <1>1, <1>2, <1>11, ServerRefusesHas
  <2>3. QED
    BY <1>1, <2>1, <2>2, PendingServed
<1>12. QED
  BY <1>3, <1>4, <1>5, <1>6, <1>7, <1>8, <1>9, <1>10, <1>11 DEF Server

LEMMA PendingKept ==
  ASSUME IInv, Next
  PROVE  PendingInv'
<1>1. Types /\ Linked /\ PendingInv /\ UNCHANGED network
  BY DEF IInv, Next
<1>2. CASE OnConnected \/ OnDisconnected
  <2>1. /\ ~client'.saslPending /\ ~client'.endedDuringSasl /\ down' = <<>>
        /\ up' = <<>> \/ up' = <<Line("LS"), SetNickLine(client.nick)>>
    BY <1>1, <1>2, LinkHas DEF Fresh
  <2>2. \A T : None(down', T) /\ AtMostOne(down', T)
    BY <2>1, Nothing
  <2>3. AtMostOne(up', Asks)
    <3>1. CASE up' = <<>>
      BY <3>1, Nothing
    <3>2. CASE up' = <<Line("LS"), SetNickLine(client.nick)>>
      <4>1. SetNickLine(client.nick).kind = "NICK"
        BY DEF SetNickLine
      <4>2. SetNickLine(client.nick) \notin Asks
        BY <4>1, OfKind DEF Asks
      <4>3. QED
        BY <3>2, <4>2, Two
    <3>3. QED
      BY <2>1, <3>1, <3>2
  <2>4. QED
    BY <2>1, <2>2, <2>3 DEF PendingInv, Alone, Asks
<1>3. CASE Client
  BY <1>1, <1>3, PendingKeptByClient
<1>4. CASE Server
  BY <1>1, <1>4, PendingKeptByServer
<1>5. CASE ServerCapNew
  <2>1. PICK cap \in network.later \ server.announced :
          /\ server.announced # {} /\ server'.announced = server.announced \cup {cap}
    BY <1>1, <1>5, CapNewHas
  <2>2. cap \notin network.offered
    BY <1>1, <2>1 DEF Linked
  <2>3. QED
    BY <1>1, <2>1, <2>2 DEF PendingInv
<1>6. CASE ServerCapDel
  <2>1. PICK cap : Sent(<<CapLine("DEL", {cap})>>) /\ UNCHANGED up /\ Stays({"enabled"})
    BY <1>1, <1>6, CapDelHas
  <2>2. CapLine("DEL", {cap}).kind = "DEL"
    BY DEF CapLine
  <2>3. None(<<CapLine("DEL", {cap})>>, Answers) /\ None(<<CapLine("DEL", {cap})>>, Down({"NEW"}))
    BY <2>2, OfKind DEF Answers
  <2>4. server'.announced = server.announced
    BY <2>1 DEF Stays, ServerFields
  <2>5. QED
    BY <1>1, <2>1, <2>3, <2>4, PendingSent
<1>7. ASSUME NEW nick \in Nick, UserNick(nick)
      PROVE  PendingInv'
  <2>1. /\ UNCHANGED <<server, down>> /\ client'.saslPending = client.saslPending
        /\ client'.endedDuringSasl = client.endedDuringSasl
    BY <1>1, <1>7, UserNickHas DEF Keeps, Fields
  <2> DEFINE say == <<SetNickLine(nick)>>
  <2>2. up \in Seq(UpLines(Caps)) /\ say \in Seq(UpLines(Caps)) /\ Joined(up, say, up')
    BY <1>1, <1>7, UserNickHas DEF Types
  <2>3. None(say, Asks)
    <3>1. SetNickLine(nick).kind = "NICK"
      BY DEF SetNickLine
    <3>2. QED
      BY <3>1, OfKind DEF Asks
  <2> HIDE DEF say
  <2>4. /\ Alone(up, Asks, down, Answers) => Alone(up', Asks, down, Answers)
        /\ Clear(up, Asks, down, Answers) => Clear(up', Asks, down, Answers)
    BY <2>2, <2>3, Put DEF Alone, Clear
  <2>5. QED
    BY <1>1, <2>1, <2>4 DEF PendingInv, Asks, Answers
<1>8. ASSUME NEW old \in Nick, NEW new \in Nick, OtherNick(old, new)
      PROVE  PendingInv'
  <2>1. Sent(<<NickLine(old, new)>>) /\ UNCHANGED up /\ Stays({})
    BY <1>1, <1>8, OtherNickHas
  <2>2. NickLine(old, new).kind = "NICK"
    BY DEF NickLine
  <2>3. None(<<NickLine(old, new)>>, Answers) /\ None(<<NickLine(old, new)>>, Down({"NEW"}))
    BY <2>2, OfKind DEF Answers
  <2>4. server'.announced = server.announced
    BY <2>1 DEF Stays, ServerFields
  <2>5. QED
    BY <1>1, <2>1, <2>3, <2>4, PendingSent
<1>9. QED
  BY <1>2, <1>3, <1>4, <1>5, <1>6, <1>7, <1>8 DEF Next

(* ------------------- holding registration, step by step ---------------- *)

LEMMA HoldSets ==
  ASSUME NEW s
  PROVE  /\ None(s, Up({"REQ", "END", "AUTHENTICATE", "CREDENTIALS"})) <=>
              /\ None(s, Up({"REQ"})) /\ None(s, Up({"END"}))
              /\ None(s, Up({"AUTHENTICATE", "CREDENTIALS"}))
         /\ None(s, Up({"AUTHENTICATE", "CREDENTIALS"})) <=>
              None(s, Up({"AUTHENTICATE"})) /\ None(s, Up({"CREDENTIALS"}))
         /\ None(s, Up({"REQ"})) => None(s, SaslReq) /\ None(s, Up({"REQ"}) \ SaslReq)
         /\ None(s, SaslUp) => None(s, SaslReq)
         /\ None(s, Down({"ACK", "NAK", "903", "904", "AUTHENTICATE"})) => None(s, SaslAck) /\ None(s, Outcomes)
         /\ None(s, SaslDown) => None(s, SaslAck)
<1>1. SaslReq \subseteq Up({"REQ"}) /\ SaslReq \subseteq SaslUp
  BY DEF SaslReq, SaslUp, SaslAsked, Up, UpWith
<1>2. /\ SaslAck \subseteq Down({"ACK", "NAK", "903", "904", "AUTHENTICATE"}) /\ SaslAck \subseteq SaslDown
      /\ Outcomes \subseteq Down({"ACK", "NAK", "903", "904", "AUTHENTICATE"})
  BY DEF SaslAck, SaslDown, Outcomes, Down, DownWith
<1>3. /\ Up({"REQ", "END", "AUTHENTICATE", "CREDENTIALS"}) =
           Up({"REQ"}) \cup Up({"END"}) \cup Up({"AUTHENTICATE", "CREDENTIALS"})
      /\ Up({"AUTHENTICATE", "CREDENTIALS"}) = Up({"AUTHENTICATE"}) \cup Up({"CREDENTIALS"})
  BY DEF Up
<1>4. QED
  BY <1>1, <1>2, <1>3 DEF None

LEMMA HoldHead ==
  ASSUME Types, NEW h \in DownLines(Caps)
  PROVE  /\ \A k \in {"LS", "NEW", "903", "001"} : h \in Down({k}) <=> h.kind = k
         /\ h \in Down({"ACK", "NAK", "903", "904", "AUTHENTICATE"}) <=>
              h.kind \in {"ACK", "NAK", "903", "904", "AUTHENTICATE"}
         /\ h \in Outcomes <=> h.kind \in {"NAK", "903", "904"}
         /\ h \in DownWith({"NEW"}, "sasl") <=> h.kind = "NEW" /\ "sasl" \in h.caps
         /\ h \in SaslAck <=> h.kind = "ACK" /\ "sasl" \in h.caps
         /\ h \in SaslAck => h \in SaslDown
         /\ h.kind = "AUTHENTICATE" => h \in SaslDown
<1>1. /\ \A K : h \in Down(K) <=> h.kind \in K
      /\ \A K : h \in DownWith(K, "sasl") <=> h.kind \in K /\ "sasl" \in h.caps
  BY SetsHaveLines
<1>2. QED
  BY <1>1 DEF SaslAck, Outcomes, SaslDown

LEMMA HoldHeard ==
  ASSUME Types, SaslInv, HoldInv, NEW k, NEW say, Heard({k}, say),
         client'.registered => client.registered \/ k = "001",
         client'.requested = client.requested \/ k = "LS",
         None(say, SaslReq) \/ (k = "LS" /\ "sasl" \in client'.requested /\ None(say, Up({"END"})))
           \/ (k = "NEW" /\ "sasl" \in Head(down).caps),
         "sasl" \in client'.acked => "sasl" \in client.acked \/ Head(down) \in SaslAck,
         None(say, Up({"LS"})), None(say, Up({"REQ"})) \/ k \in {"LS", "NEW"},
         Before(say, SaslReq, Up({"REQ"}) \ SaslReq),
         None(say, Up({"AUTHENTICATE"})) \/ Head(down) \in SaslAck,
         Before(say, Up({"AUTHENTICATE"}), Up({"END"})),
         None(say, Up({"CREDENTIALS"})) \/ k = "AUTHENTICATE",
         \/ None(say, Up({"END"})) \/ k \in {"LS", "NAK", "903", "904"}
         \/ k = "ACK" /\ \/ Head(down) \in SaslAck
                         \/ "sasl" \notin client.requested \/ "sasl" \in client'.acked
  PROVE  HoldInv'
<1> DEFINE h == Head(down)
<1>1. /\ UNCHANGED <<network, server>> /\ Taken(down, down') /\ Joined(up, say, up')
      /\ up \in Seq(UpLines(Caps)) /\ say \in Seq(UpLines(Caps)) /\ down \in Seq(DownLines(Caps))
      /\ h \in DownLines(Caps) /\ h.kind = k
  BY DEF Heard, Types
<1>2. SUFFICES ASSUME LsFirst, ReqFirst, SaslFirst
               PROVE  LsFirst' /\ ReqFirst' /\ SaslFirst'
  BY <1>1 DEF HoldInv
<1>3. /\ \A T : None(down, T) => None(down', T) /\ h \notin T
      /\ \A T : AtMostOne(down, T) => AtMostOne(down', T) /\ (h \in T => None(down', T))
      /\ \A T : None(up, T) /\ None(say, T) => None(up', T)
      /\ \A T : None(up', T) => None(up, T) /\ None(say, T)
  BY HeardLines
<1>4. /\ \A j \in {"LS", "NEW", "903", "001"} : h \in Down({j}) <=> k = j
      /\ h \in Down({"ACK", "NAK", "903", "904", "AUTHENTICATE"}) <=>
           k \in {"ACK", "NAK", "903", "904", "AUTHENTICATE"}
      /\ h \in Outcomes <=> k \in {"NAK", "903", "904"}
      /\ h \in DownWith({"NEW"}, "sasl") <=> k = "NEW" /\ "sasl" \in h.caps
      /\ h \in SaslAck => k = "ACK" /\ h \in SaslDown
      /\ k = "AUTHENTICATE" => h \in SaslDown
  BY <1>1, HoldHead
<1>5. k = "LS" => /\ ~Clear(up, Up({"LS"}), down, Down({"LS"}))
                  /\ Clear(up', Up({"LS"}), down', Down({"LS"}))
  BY <1>2, <1>3, <1>4 DEF LsFirst, Alone, Clear
<1>6. k = "NEW" => Clear(up, Up({"LS"}), down, Down({"LS"}))
  <2>1. k = "NEW" => None(down, Down({"LS"}))
    BY <1>1, <1>2, <1>4, TakeBefore DEF LsFirst
  <2>2. QED
    BY <1>2, <1>3, <1>4, <2>1 DEF LsFirst, Clear
<1>7. ~Clear(up', Up({"LS"}), down', Down({"LS"})) =>
        ~Clear(up, Up({"LS"}), down, Down({"LS"})) /\ k \notin {"LS", "NEW"}
  BY <1>3, <1>5, <1>6 DEF Clear
<1>8. \/ None(say, SaslReq)
      \/ k = "LS" /\ "sasl" \in client'.requested /\ None(say, Up({"END"}))
  BY <1>2, <1>3, <1>4 DEF SaslFirst
<1>9. h \in SaslDown => None(up, SaslUp) /\ None(down', SaslDown)
  BY <1>3 DEF SaslInv, Alone
<1>10. h \in SaslAck => None(up', SaslReq) /\ None(down', SaslAck)
  BY <1>3, <1>4, <1>8, <1>9, HoldSets
<1>11. LsFirst'
  <2>1. Alone(up', Up({"LS"}), down', Down({"LS"}))
    <3>1. AtMostOne(up', Up({"LS"}))
      BY <1>1, <1>2, Put DEF LsFirst, Alone
    <3>2. QED
      BY <1>2, <1>3, <3>1 DEF LsFirst, Alone
  <2>2. ~None(up', Up({"LS"})) => server.nick = -1 /\ None(down', Down({"NEW"}))
    BY <1>2, <1>3 DEF LsFirst
  <2>3. Before(up', Up({"LS"}), Up({"NICK"})) /\ Before(down', Down({"LS"}), Down({"NEW"}))
    <3>1. Before(say, Up({"LS"}), Up({"NICK"}))
      BY DEF None, Before
    <3>2. Before(up', Up({"LS"}), Up({"NICK"}))
      BY <1>1, <1>2, <3>1, PutBefore DEF LsFirst
    <3>3. QED
      BY <1>1, <1>2, <3>2, TakeBefore DEF LsFirst
  <2>4. ASSUME ~Clear(up', Up({"LS"}), down', Down({"LS"}))
        PROVE  /\ Clear(up', Up({"REQ", "END", "AUTHENTICATE", "CREDENTIALS"}),
                        down', Down({"ACK", "NAK", "903", "904", "AUTHENTICATE"}))
               /\ "sasl" \notin client'.acked
    <3>1. /\ Clear(up, Up({"REQ", "END", "AUTHENTICATE", "CREDENTIALS"}),
                   down, Down({"ACK", "NAK", "903", "904", "AUTHENTICATE"}))
          /\ "sasl" \notin client.acked /\ k \notin {"LS", "NEW"}
      BY <1>2, <1>7, <2>4 DEF LsFirst
    <3>2. k \notin {"ACK", "NAK", "903", "904", "AUTHENTICATE"}
      BY <1>3, <1>4, <3>1 DEF Clear
    <3>3. None(say, Up({"REQ", "END", "AUTHENTICATE", "CREDENTIALS"}))
      BY <1>4, <3>1, <3>2, HoldSets
    <3>4. QED
      BY <1>3, <1>4, <3>1, <3>2, <3>3 DEF Clear
  <2>5. ~None(down', Down({"LS"})) => server.holding
    BY <1>2, <1>3 DEF LsFirst
  <2>6. QED
    BY <1>1, <2>1, <2>2, <2>3, <2>4, <2>5 DEF LsFirst
<1>12. ReqFirst'
  <2>1. k = "LS" => /\ Clear(up, Up({"REQ", "END", "AUTHENTICATE", "CREDENTIALS"}),
                             down, Down({"ACK", "NAK", "903", "904", "AUTHENTICATE"}))
                    /\ "sasl" \notin client.acked /\ server.holding
    BY <1>2, <1>3, <1>4, <1>5 DEF LsFirst
  <2>2. k = "LS" => /\ Clear(up, SaslReq, down, SaslAck) /\ None(up, Up({"REQ"}) \ SaslReq)
                    /\ None(up, Up({"END"}))
                    /\ Clear(up, Up({"AUTHENTICATE", "CREDENTIALS"}), down, Outcomes)
    BY <2>1, HoldSets DEF Clear
  <2>3. ~None(up', SaslReq) => Clear(up', Up({"AUTHENTICATE", "CREDENTIALS"}), down', Outcomes)
    <3>1. ~None(up', SaslReq) => h \notin SaslAck /\ k # "AUTHENTICATE"
      <4>1. None(up, SaslUp) => None(up, SaslReq)
        BY HoldSets
      <4>2. k # "LS" => None(say, SaslReq)
        BY <1>8
      <4>3. QED
        BY <1>3, <1>4, <1>9, <4>1, <4>2
    <3>2. ~None(up', SaslReq) => None(say, Up({"AUTHENTICATE", "CREDENTIALS"}))
      BY <1>4, <3>1, HoldSets
    <3>3. ~None(up', SaslReq) => Clear(up, Up({"AUTHENTICATE", "CREDENTIALS"}), down, Outcomes)
      BY <1>2, <1>3, <1>8, <2>2 DEF ReqFirst
    <3>4. QED
      BY <1>3, <3>2, <3>3 DEF Clear
  <2>4. Before(up', SaslReq, Up({"REQ"}) \ SaslReq)
    <3>1. None(say, SaslReq) \/ None(up, Up({"REQ"}) \ SaslReq)
      BY <1>8, <2>2
    <3>2. QED
      BY <1>1, <1>2, <3>1, PutBefore DEF ReqFirst
  <2>5. Before(down', SaslAck, Outcomes) /\ (h \in Outcomes => None(down, SaslAck))
    BY <1>1, <1>2, TakeBefore DEF ReqFirst
  <2>6. ASSUME ~Clear(up', SaslReq, down', SaslAck)
        PROVE  /\ None(up', Up({"END"})) /\ server.holding
               /\ "sasl" \in client'.requested /\ "sasl" \notin client'.acked
    <3>1. h \notin SaslAck
      BY <1>10, <2>6 DEF Clear
    <3>2. "sasl" \in client'.acked => "sasl" \in client.acked
      BY <3>1
    <3>3. CASE None(say, SaslReq)
      <4>1. ~Clear(up, SaslReq, down, SaslAck)
        BY <1>3, <2>6, <3>3 DEF Clear
      <4>2. /\ None(up, Up({"END"})) /\ server.holding
            /\ "sasl" \in client.requested /\ "sasl" \notin client.acked
        BY <1>2, <4>1 DEF ReqFirst
      <4>3. k \notin {"LS", "NAK", "903", "904"}
        BY <1>2, <1>3, <1>4, <2>2, <2>5, <4>1 DEF ReqFirst, Clear
      <4>4. None(say, Up({"END"}))
        BY <3>1, <3>2, <4>2, <4>3
      <4>5. QED
        BY <1>3, <3>2, <4>2, <4>3, <4>4
    <3>4. CASE k = "LS" /\ "sasl" \in client'.requested /\ None(say, Up({"END"}))
      BY <1>3, <2>1, <2>2, <3>2, <3>4
    <3>5. QED
      BY <1>8, <3>3, <3>4
  <2>7. QED
    BY <1>1, <2>3, <2>4, <2>5, <2>6 DEF ReqFirst
<1>13. SaslFirst'
  <2>1. h \in SaslAck => ~Clear(up, SaslReq, down, SaslAck)
    BY <1>3 DEF Clear
  <2>2. h \in SaslAck => None(up, Up({"END"})) /\ server.holding
    BY <1>2, <2>1 DEF ReqFirst
  <2>3. ~None(up', Up({"AUTHENTICATE"})) \/ server.auth = "asked" => server.holding
    BY <1>2, <1>3, <2>2 DEF SaslFirst
  <2>4. Before(up', Up({"AUTHENTICATE"}), Up({"END"}))
    BY <1>1, <1>2, <2>2, PutBefore DEF SaslFirst
  <2>5. Before(down', Down({"903"}), Down({"001"})) /\ (k = "001" => None(down, Down({"903"})))
    BY <1>1, <1>2, <1>4, TakeBefore DEF SaslFirst
  <2>6. client'.registered => None(down', Down({"903"}))
    BY <1>2, <1>3, <2>5 DEF SaslFirst
  <2>7. None(down', DownWith({"NEW"}, "sasl"))
    BY <1>2, <1>3 DEF SaslFirst
  <2>8. QED
    BY <1>1, <1>2, <2>3, <2>4, <2>5, <2>6, <2>7 DEF SaslFirst
<1>14. QED
  BY <1>11, <1>12, <1>13

\* A line is taken, and CAP END at most is sent of what matters here.
LEMMA HoldEnds ==
  ASSUME Types, SaslInv, HoldInv, NEW k, NEW say, Heard({k}, say),
         client'.registered => client.registered \/ k = "001",
         client'.requested = client.requested \/ k = "LS",
         "sasl" \in client'.acked => "sasl" \in client.acked \/ Head(down) \in SaslAck,
         None(say, Up({"LS", "REQ", "AUTHENTICATE", "CREDENTIALS"})),
         \/ None(say, Up({"END"})) \/ k \in {"LS", "NAK", "903", "904"}
         \/ k = "ACK" /\ \/ Head(down) \in SaslAck
                         \/ "sasl" \notin client.requested \/ "sasl" \in client'.acked
  PROVE  HoldInv'
<1>1. /\ None(say, Up({"LS"})) /\ None(say, Up({"REQ"})) /\ None(say, Up({"AUTHENTICATE"}))
      /\ None(say, Up({"CREDENTIALS"}))
  BY DEF None, Up
<1>2. None(say, SaslReq)
  BY <1>1, HoldSets
<1>3. Before(say, SaslReq, Up({"REQ"}) \ SaslReq) /\ Before(say, Up({"AUTHENTICATE"}), Up({"END"}))
  BY <1>1, <1>2 DEF None, Before
<1>4. QED
  BY <1>1, <1>2, <1>3, HoldHeard

LEMMA HoldKeptByClient ==
  ASSUME IInv, Client, UNCHANGED network
  PROVE  HoldInv'
<1> DEFINE h == Head(down)
           Out == Up({"LS", "REQ", "AUTHENTICATE", "CREDENTIALS"})
<1>1. Types /\ Linked /\ SaslInv /\ HoldInv
  BY DEF IInv
<1>2. /\ None(<<>>, Out) /\ None(<<>>, Up({"END"}))
      /\ None(<<Line("END")>>, Out)
      /\ \A n : None(<<SetNickLine(n)>>, Out) /\ None(<<SetNickLine(n)>>, Up({"END"}))
      /\ \A list \in BOOLEAN : /\ None(Then(list), Out) /\ None(Then(list), Up({"END"}))
                               /\ None(<<Line("END")>> \o Then(list), Out)
  <2>1. (\A k : Line(k).kind = k) /\ \A n : SetNickLine(n).kind = "NICK"
    BY DEF Line, SetNickLine
  <2>2. /\ None(<<Line("END")>>, Out) /\ Line("END") \notin Out /\ Line("LISTNETWORKS") \notin Out
        /\ Line("LISTNETWORKS") \notin Up({"END"})
        /\ \A n : None(<<SetNickLine(n)>>, Out) /\ None(<<SetNickLine(n)>>, Up({"END"}))
    BY <2>1, OfKind
  <2>3. None(<<>>, Out) /\ None(<<>>, Up({"END"}))
    BY Nothing
  <2>4. QED
    BY <2>2, <2>3, ThenLines
<1> HIDE DEF Out
<1>3. "sasl" \in h.caps /\ h \in DownLines(Caps) /\ h.kind = "ACK" => h \in SaslAck
  BY <1>1, HoldHead
<1>4. CASE OnCapLsMore
  <2>1. /\ Heard({"LS*"}, <<>>) /\ client'.registered = client.registered
        /\ client'.requested = client.requested /\ client'.acked = client.acked
    BY <1>1, <1>4, LsMoreHas DEF Keeps, Fields
  <2>2. QED
    BY <1>1, <1>2, <2>1, HoldEnds DEF Out
<1>5. CASE OnCapLs
  <2>1. client'.registered = client.registered /\ client'.acked = client.acked
    BY <1>1, <1>5, LsHas DEF Keeps, Fields
  <2>2. \/ Heard({"LS"}, <<Line("END")>>)
        \/ \E want : want # {} /\ Heard({"LS"}, <<CapLine("REQ", want)>>) /\ client'.requested = want
    BY <1>1, <1>5, LsHas
  <2>3. CASE Heard({"LS"}, <<Line("END")>>)
    BY <1>1, <1>2, <2>1, <2>3, HoldEnds DEF Out
  <2>4. ASSUME NEW want, Heard({"LS"}, <<CapLine("REQ", want)>>), client'.requested = want
        PROVE  HoldInv'
    <3> DEFINE l == CapLine("REQ", want)
               say == <<l>>
    <3>1. l.kind = "REQ" /\ l.caps = want
      BY DEF CapLine
    <3>2. Heard({"LS"}, say) /\ client'.requested = want
      BY <2>4
    <3> HIDE DEF l
    <3>3. /\ None(say, Up({"LS"})) /\ None(say, Up({"AUTHENTICATE"})) /\ None(say, Up({"CREDENTIALS"}))
          /\ None(say, Up({"END"}))
      BY <3>1, OfKind
    <3>4. "sasl" \notin want => None(say, SaslReq)
      <4>1. "sasl" \notin want => l \notin SaslReq
        BY <3>1 DEF SaslReq, UpWith
      <4>2. QED
        BY <4>1, One
    <3>5. Before(say, SaslReq, Up({"REQ"}) \ SaslReq)
      BY One
    <3>6. Before(say, Up({"AUTHENTICATE"}), Up({"END"}))
      BY <3>3 DEF Before, None
    <3> HIDE DEF say
    <3>7. None(say, SaslReq) \/ ("sasl" \in client'.requested /\ None(say, Up({"END"})))
      BY <3>2, <3>3, <3>4
    <3>8. QED
      BY <1>1, <2>1, <3>2, <3>3, <3>5, <3>6, <3>7, HoldHeard
  <2>5. QED
    BY <2>2, <2>3, <2>4
<1>6. CASE OnCapAck
  <2> DEFINE sasl == "sasl" \in h.caps /\ network.sasl
  <2>1. /\ client'.registered = client.registered /\ client'.requested = client.requested
        /\ client'.acked = client.acked \cup h.caps
    BY <1>1, <1>6, AckHas DEF Keeps, Fields
  <2>2. PICK list \in BOOLEAN :
          \/ Heard({"ACK"}, Then(list))
          \/ sasl /\ Heard({"ACK"}, <<Line("AUTHENTICATE")>>)
          \/ /\ "sasl" \notin client.requested \/ "sasl" \in client'.acked
             /\ Heard({"ACK"}, <<Line("END")>> \o Then(list))
    BY <1>1, <1>6, AckHas
  <2>3. h \in DownLines(Caps) /\ h.kind = "ACK"
    BY <2>2 DEF Heard
  <2>4. "sasl" \in client'.acked => "sasl" \in client.acked \/ h \in SaslAck
    BY <1>3, <2>1, <2>3
  <2>5. CASE Heard({"ACK"}, Then(list))
    BY <1>1, <1>2, <2>1, <2>4, <2>5, HoldEnds DEF Out
  <2>6. CASE sasl /\ Heard({"ACK"}, <<Line("AUTHENTICATE")>>)
    <3> DEFINE l == Line("AUTHENTICATE")
               say == <<l>>
    <3>1. l.kind = "AUTHENTICATE"
      BY DEF Line
    <3>2. Heard({"ACK"}, say) /\ h \in SaslAck
      BY <1>3, <2>3, <2>6
    <3> HIDE DEF l
    <3>3. /\ None(say, Up({"LS"})) /\ None(say, Up({"REQ"})) /\ None(say, Up({"CREDENTIALS"}))
          /\ None(say, Up({"END"})) /\ None(say, SaslReq)
      BY <3>1, OfKind DEF SaslReq
    <3>4. Before(say, SaslReq, Up({"REQ"}) \ SaslReq) /\ Before(say, Up({"AUTHENTICATE"}), Up({"END"}))
      BY <3>3 DEF Before, None
    <3> HIDE DEF say
    <3>5. QED
      BY <1>1, <2>1, <2>4, <3>2, <3>3, <3>4, HoldHeard
  <2>7. CASE /\ "sasl" \notin client.requested \/ "sasl" \in client'.acked
             /\ Heard({"ACK"}, <<Line("END")>> \o Then(list))
    <3> DEFINE say == <<Line("END")>> \o Then(list)
    <3>1. Heard({"ACK"}, say) /\ None(say, Out)
      BY <1>2, <2>7
    <3> HIDE DEF say
    <3>2. QED
      BY <1>1, <2>1, <2>4, <2>7, <3>1, HoldEnds DEF Out
  <2>8. QED
    BY <2>2, <2>5, <2>6, <2>7
<1>7. CASE OnCapNak
  <2>1. /\ client'.registered = client.registered /\ client'.requested = client.requested
        /\ client'.acked = client.acked
    BY <1>1, <1>7, NakHas DEF Keeps, Fields
  <2>2. Heard({"NAK"}, <<>>) \/ Heard({"NAK"}, <<Line("END")>>)
    BY <1>1, <1>7, NakHas
  <2>3. PICK say : Heard({"NAK"}, say) /\ None(say, Out)
    BY <1>2, <2>2
  <2>4. QED
    BY <1>1, <2>1, <2>3, HoldEnds DEF Out
<1>8. CASE OnCapNew
  <2>1. client' = client
    BY <1>1, <1>8, NewHas
  <2>2. \/ Heard({"NEW"}, <<>>)
        \/ \E want : want \subseteq h.caps /\ Heard({"NEW"}, <<CapLine("REQ", want)>>)
    BY <1>1, <1>8, NewHas
  <2>3. CASE Heard({"NEW"}, <<>>)
    BY <1>1, <1>2, <2>1, <2>3, HoldEnds DEF Out
  <2>4. ASSUME NEW want, want \subseteq h.caps, Heard({"NEW"}, <<CapLine("REQ", want)>>)
        PROVE  HoldInv'
    <3> DEFINE l == CapLine("REQ", want)
               say == <<l>>
    <3>1. l.kind = "REQ" /\ l.caps = want
      BY DEF CapLine
    <3>2. Heard({"NEW"}, say)
      BY <2>4
    <3> HIDE DEF l
    <3>3. /\ None(say, Up({"LS"})) /\ None(say, Up({"AUTHENTICATE"})) /\ None(say, Up({"CREDENTIALS"}))
          /\ None(say, Up({"END"}))
      BY <3>1, OfKind
    <3>4. "sasl" \notin h.caps => None(say, SaslReq)
      <4>1. "sasl" \notin want => l \notin SaslReq
        BY <3>1 DEF SaslReq, UpWith
      <4>2. QED
        BY <2>4, <4>1, One
    <3>5. Before(say, SaslReq, Up({"REQ"}) \ SaslReq)
      BY One
    <3>6. Before(say, Up({"AUTHENTICATE"}), Up({"END"}))
      BY <3>3 DEF Before, None
    <3> HIDE DEF say
    <3>7. QED
      BY <1>1, <2>1, <3>2, <3>3, <3>4, <3>5, <3>6, HoldHeard
  <2>5. QED
    BY <2>2, <2>3, <2>4
<1>9. CASE OnCapDel
  <2>1. /\ Heard({"DEL"}, <<>>) /\ client'.registered = client.registered
        /\ client'.requested = client.requested /\ client'.acked \subseteq client.acked
    BY <1>1, <1>9, DelHas DEF Keeps, Fields
  <2>2. QED
    BY <1>1, <1>2, <2>1, HoldEnds DEF Out
<1>10. CASE OnAuthenticate
  <2>1. /\ client'.registered = client.registered /\ client'.requested = client.requested
        /\ client'.acked = client.acked
    BY <1>1, <1>10, AuthenticateHas DEF Keeps, Fields
  <2> DEFINE l == Line("CREDENTIALS")
             say == <<l>>
  <2>2. l.kind = "CREDENTIALS"
    BY DEF Line
  <2>3. Heard({"AUTHENTICATE"}, say)
    BY <1>1, <1>10, AuthenticateHas
  <2> HIDE DEF l
  <2>4. /\ None(say, Up({"LS"})) /\ None(say, Up({"REQ"})) /\ None(say, Up({"AUTHENTICATE"}))
        /\ None(say, Up({"END"})) /\ None(say, SaslReq)
    BY <2>2, OfKind DEF SaslReq
  <2>5. Before(say, SaslReq, Up({"REQ"}) \ SaslReq) /\ Before(say, Up({"AUTHENTICATE"}), Up({"END"}))
    BY <2>4 DEF Before, None
  <2> HIDE DEF say
  <2>6. QED
    BY <1>1, <2>1, <2>3, <2>4, <2>5, HoldHeard
<1>11. CASE OnSaslSuccess
  <2>1. /\ client'.registered = client.registered /\ client'.requested = client.requested
        /\ client'.acked = client.acked
    BY <1>1, <1>11, SuccessHas DEF Keeps, Fields
  <2>2. PICK say : Heard({"903"}, say) /\ None(say, Out)
    BY <1>1, <1>2, <1>11, SuccessHas
  <2>3. QED
    BY <1>1, <2>1, <2>2, HoldEnds DEF Out
<1>12. CASE OnSaslFailure
  <2>1. /\ client'.registered = client.registered /\ client'.requested = client.requested
        /\ client'.acked = client.acked
    BY <1>1, <1>12, FailureHas DEF Keeps, Fields
  <2>2. PICK say : Heard({"904"}, say) /\ None(say, Out)
    BY <1>1, <1>2, <1>12, FailureHas
  <2>3. QED
    BY <1>1, <2>1, <2>2, HoldEnds DEF Out
<1>13. CASE OnNickInUse
  <2>1. /\ client'.registered = client.registered /\ client'.requested = client.requested
        /\ client'.acked = client.acked
    BY <1>1, <1>13, NicksLeft, NickInUseHas DEF Keeps, Fields
  <2>2. PICK say : Heard({"433"}, say) /\ None(say, Out) /\ None(say, Up({"END"}))
    BY <1>1, <1>2, <1>13, NicksLeft, NickInUseHas
  <2>3. QED
    BY <1>1, <2>1, <2>2, HoldEnds DEF Out
<1>14. CASE OnWelcome
  <2>1. client'.requested = client.requested /\ client'.acked = client.acked
    BY <1>1, <1>14, WelcomeHas DEF Keeps, Fields
  <2>2. PICK say : Heard({"001"}, say) /\ None(say, Out) /\ None(say, Up({"END"}))
    BY <1>1, <1>2, <1>14, WelcomeHas
  <2>3. QED
    BY <1>1, <2>1, <2>2, HoldEnds DEF Out
<1>15. CASE OnNick
  <2>1. /\ Heard({"NICK"}, <<>>) /\ client'.registered = client.registered
        /\ client'.requested = client.requested /\ client'.acked = client.acked
    BY <1>1, <1>15, NickHas DEF Keeps, Fields
  <2>2. QED
    BY <1>1, <1>2, <2>1, HoldEnds DEF Out
<1>16. CASE Noted
  <2>1. /\ client'.registered = client.registered /\ client'.requested = client.requested
        /\ client'.acked = client.acked
    BY <1>1, <1>16, NotedHas DEF Keeps, Fields
  <2>2. PICK k \in NotedKinds : Heard({k}, <<>>)
    BY <1>1, <1>16, NotedHas
  <2>3. QED
    BY <1>1, <1>2, <2>1, <2>2, HoldEnds DEF Out
<1>17. QED
  BY <1>4, <1>5, <1>6, <1>7, <1>8, <1>9, <1>10, <1>11, <1>12, <1>13, <1>14, <1>15, <1>16 DEF Client, Noted

LEMMA HoldServed ==
  ASSUME Types, Linked, SaslInv, HoldInv, NEW k, NEW say, Served(k, say),
         server'.registered = server.registered,
         server'.nick = server.nick \/ k = "NICK",
         server'.holding = server.holding \/ k \in {"END", "LS"},
         k = "LS" => server'.holding, k = "END" => ~server'.holding,
         server'.auth = "asked" => (server.auth = "asked" /\ k # "END") \/ k = "AUTHENTICATE",
         None(say, Down({"LS"})) \/ (k = "LS" /\ AtMostOne(say, Down({"LS"}))),
         None(say, Down({"NEW"})), None(say, Down({"001"})),
         \/ None(say, Down({"ACK", "NAK", "903", "904", "AUTHENTICATE"}))
         \/ k \in {"REQ", "AUTHENTICATE", "CREDENTIALS", "END"},
         None(say, SaslAck) \/ (Head(up) \in SaslReq /\ None(say, Outcomes)),
         None(say, Down({"903"})) \/ server.auth = "asked"
  PROVE  HoldInv'
<1> DEFINE h == Head(up)
<1>1. /\ UNCHANGED <<network, client>> /\ Taken(up, up') /\ Joined(down, say, down')
      /\ up \in Seq(UpLines(Caps)) /\ say \in Seq(DownLines(Caps)) /\ down \in Seq(DownLines(Caps))
      /\ h \in UpLines(Caps) /\ h.kind = k
  BY DEF Served, Sent, Types
<1>2. SUFFICES ASSUME LsFirst, ReqFirst, SaslFirst
               PROVE  LsFirst' /\ ReqFirst' /\ SaslFirst'
  BY <1>1 DEF HoldInv
<1>3. /\ \A T : None(up, T) => None(up', T) /\ h \notin T
      /\ \A T : AtMostOne(up, T) => AtMostOne(up', T) /\ (h \in T => None(up', T))
      /\ \A T : None(down, T) /\ None(say, T) => None(down', T)
      /\ \A T : None(down', T) => None(down, T) /\ None(say, T)
      /\ \A T : AtMostOne(down, T) /\ None(say, T) => AtMostOne(down', T)
  BY ServedLines
<1>4. /\ \A j : h \in Up({j}) <=> k = j
      /\ h \in Up({"REQ", "END", "AUTHENTICATE", "CREDENTIALS"}) <=>
           k \in {"REQ", "END", "AUTHENTICATE", "CREDENTIALS"}
      /\ h \in Up({"AUTHENTICATE", "CREDENTIALS"}) <=> k \in {"AUTHENTICATE", "CREDENTIALS"}
      /\ h \in SaslReq => k = "REQ" /\ h \in SaslUp
      /\ k = "REQ" => h \in SaslReq \/ h \in Up({"REQ"}) \ SaslReq
  <2>1. /\ \A K : h \in Up(K) <=> h.kind \in K
        /\ \A K, c : h \in UpWith(K, c) <=> h.kind \in K /\ c \in h.caps
    BY <1>1, SetsHaveLines
  <2>2. QED
    BY <1>1, <2>1 DEF SaslReq, SaslUp, SaslAsked
<1>5. k = "LS" => ~Clear(up, Up({"LS"}), down, Down({"LS"}))
  BY <1>3, <1>4 DEF Clear
<1>6. ~Clear(up', Up({"LS"}), down', Down({"LS"})) => ~Clear(up, Up({"LS"}), down, Down({"LS"}))
  BY <1>3, <1>5 DEF Clear
<1>7. k = "NICK" => None(up, Up({"LS"}))
  <2>1. h \in Up({"NICK"}) => None(up, Up({"LS"}))
    BY <1>1, <1>2, TakeBefore DEF LsFirst
  <2>2. QED
    BY <1>4, <2>1
<1>8. k = "END" => None(up, SaslReq) /\ None(up, Up({"AUTHENTICATE"})) /\ None(down, SaslAck)
                   /\ Clear(up, Up({"LS"}), down, Down({"LS"}))
  <2>1. k = "END" => ~None(up, Up({"END"}))
    BY <1>3, <1>4
  <2>2. k = "END" => None(up, SaslReq) /\ None(down, SaslAck)
    BY <1>2, <2>1 DEF ReqFirst, Clear
  <2>3. h \in Up({"END"}) => None(up, Up({"AUTHENTICATE"}))
    BY <1>1, <1>2, TakeBefore DEF SaslFirst
  <2>4. k = "END" => Clear(up, Up({"LS"}), down, Down({"LS"}))
    BY <1>2, <1>3, <1>4 DEF LsFirst, Clear
  <2>5. QED
    BY <1>4, <2>2, <2>3, <2>4
<1>9. LsFirst'
  <2>1. Alone(up', Up({"LS"}), down', Down({"LS"}))
    <3>1. None(say, Down({"LS"})) \/ (h \in Up({"LS"}) /\ AtMostOne(say, Down({"LS"})))
      BY <1>4
    <3>2. QED
      BY <1>1, <1>2, <3>1, PassOn DEF LsFirst
  <2>2. ~None(up', Up({"LS"})) => server'.nick = -1 /\ None(down', Down({"NEW"}))
    BY <1>2, <1>3, <1>7 DEF LsFirst
  <2>3. Before(up', Up({"LS"}), Up({"NICK"})) /\ Before(down', Down({"LS"}), Down({"NEW"}))
    <3>1. k = "LS" => None(down, Down({"NEW"}))
      BY <1>2, <1>3, <1>4 DEF LsFirst
    <3>2. Before(say, Down({"LS"}), Down({"NEW"}))
      BY DEF None, Before
    <3>3. Before(down', Down({"LS"}), Down({"NEW"}))
      <4>1. Joined(down, say, down') /\ Before(down, Down({"LS"}), Down({"NEW"}))
        BY <1>1, <1>2 DEF LsFirst
      <4>2. CASE None(say, Down({"LS"}))
        BY <1>1, <3>2, <4>1, <4>2, PutBefore
      <4>3. CASE None(say, Down({"NEW"})) /\ None(down, Down({"NEW"}))
        BY <1>3, <4>3 DEF None, Before
      <4>4. QED
        BY <3>1, <4>2, <4>3
    <3>4. QED
      BY <1>1, <1>2, <3>3, TakeBefore DEF LsFirst
  <2>4. ASSUME ~Clear(up', Up({"LS"}), down', Down({"LS"}))
        PROVE  /\ Clear(up', Up({"REQ", "END", "AUTHENTICATE", "CREDENTIALS"}),
                        down', Down({"ACK", "NAK", "903", "904", "AUTHENTICATE"}))
               /\ "sasl" \notin client.acked
    <3>1. /\ Clear(up, Up({"REQ", "END", "AUTHENTICATE", "CREDENTIALS"}),
                   down, Down({"ACK", "NAK", "903", "904", "AUTHENTICATE"}))
          /\ "sasl" \notin client.acked
      BY <1>2, <1>6, <2>4 DEF LsFirst
    <3>2. k \notin {"REQ", "END", "AUTHENTICATE", "CREDENTIALS"}
      BY <1>3, <1>4, <3>1 DEF Clear
    <3>3. QED
      BY <1>3, <3>1, <3>2 DEF Clear
  <2>5. ~None(down', Down({"LS"})) => server'.holding
    <3>1. k # "LS" /\ ~None(down', Down({"LS"})) => ~None(down, Down({"LS"})) /\ k # "END"
      BY <1>3, <1>8 DEF Clear
    <3>2. ~None(down, Down({"LS"})) => server.holding
      BY <1>2 DEF LsFirst
    <3>3. QED
      BY <3>1, <3>2
  <2>6. QED
    BY <1>1, <2>1, <2>2, <2>3, <2>4, <2>5 DEF LsFirst
<1>10. ReqFirst'
  <2>1. ~None(up', SaslReq) => Clear(up', Up({"AUTHENTICATE", "CREDENTIALS"}), down', Outcomes)
    <3>1. ~None(up', SaslReq) => Clear(up, Up({"AUTHENTICATE", "CREDENTIALS"}), down, Outcomes)
      BY <1>2, <1>3 DEF ReqFirst
    <3>2. ~None(up', SaslReq) => k \notin {"AUTHENTICATE", "CREDENTIALS", "END"}
      BY <1>3, <1>4, <1>8, <3>1 DEF Clear
    <3>3. ~None(up', SaslReq) => k # "REQ"
      <4>1. h \in SaslReq => None(up', SaslReq)
        BY <1>3, <1>4, HoldSets DEF SaslInv, Alone
      <4>2. h \in Up({"REQ"}) \ SaslReq => None(up, SaslReq)
        BY <1>1, <1>2, TakeBefore DEF ReqFirst
      <4>3. QED
        BY <1>3, <1>4, <4>1, <4>2
    <3>4. None(say, Down({"ACK", "NAK", "903", "904", "AUTHENTICATE"})) => None(say, Outcomes)
      BY HoldSets
    <3>5. QED
      BY <1>3, <3>1, <3>2, <3>3, <3>4 DEF Clear
  <2>2. Before(up', SaslReq, Up({"REQ"}) \ SaslReq)
    BY <1>1, <1>2, TakeBefore DEF ReqFirst
  <2>3. h \in SaslReq => None(down, Outcomes) /\ ~Clear(up, SaslReq, down, SaslAck)
    BY <1>2, <1>3 DEF ReqFirst, Clear
  <2>4. Before(down', SaslAck, Outcomes)
    <3>1. Before(say, SaslAck, Outcomes)
      BY DEF None, Before
    <3>2. CASE None(say, SaslAck)
      BY <1>1, <1>2, <3>1, <3>2, PutBefore DEF ReqFirst
    <3>3. CASE h \in SaslReq /\ None(say, Outcomes)
      BY <1>3, <2>3, <3>3 DEF None, Before
    <3>4. QED
      BY <3>2, <3>3
  <2>5. ASSUME ~Clear(up', SaslReq, down', SaslAck)
        PROVE  /\ None(up', Up({"END"})) /\ server'.holding
               /\ "sasl" \in client.requested /\ "sasl" \notin client.acked
    <3>1. ~Clear(up, SaslReq, down, SaslAck)
      BY <1>3, <2>3, <2>5 DEF Clear
    <3>2. k # "END"
      BY <1>8, <3>1 DEF Clear
    <3>3. QED
      BY <1>2, <1>3, <3>1, <3>2 DEF ReqFirst
  <2>6. QED
    BY <1>1, <2>1, <2>2, <2>4, <2>5 DEF ReqFirst
<1>11. SaslFirst'
  <2>1. ~None(up', Up({"AUTHENTICATE"})) \/ server'.auth = "asked" => server'.holding
    <3>1. ~None(up', Up({"AUTHENTICATE"})) => ~None(up, Up({"AUTHENTICATE"})) /\ k # "END"
      BY <1>3, <1>8
    <3>2. k = "AUTHENTICATE" => ~None(up, Up({"AUTHENTICATE"}))
      BY <1>3, <1>4
    <3>3. QED
      BY <1>2, <3>1, <3>2 DEF SaslFirst
  <2>2. Before(up', Up({"AUTHENTICATE"}), Up({"END"}))
    BY <1>1, <1>2, TakeBefore DEF SaslFirst
  <2>3. server'.registered => ~server'.holding
    <3>1. k = "LS" => ~server.registered
      BY <1>2, <1>3, <1>4 DEF LsFirst, Linked
    <3>2. QED
      BY <1>2, <3>1 DEF SaslFirst
  <2>4. None(down', DownWith({"NEW"}, "sasl"))
    <3>1. None(say, DownWith({"NEW"}, "sasl"))
      BY DEF None, Down, DownWith
    <3>2. QED
      BY <1>2, <1>3, <3>1 DEF SaslFirst
  <2>5. server.auth = "asked" => ~server.registered
    BY <1>2 DEF SaslFirst
  <2>6. Before(down', Down({"903"}), Down({"001"}))
    <3>1. Before(say, Down({"903"}), Down({"001"}))
      BY DEF None, Before
    <3>2. None(say, Down({"903"})) \/ None(down, Down({"001"}))
      <4>1. None(down, Down({"001", "NICK", "DEL"})) => None(down, Down({"001"}))
        BY DEF None, Down
      <4>2. QED
        BY <2>5, <4>1 DEF Linked
    <3>3. QED
      BY <1>1, <1>2, <3>1, <3>2, PutBefore DEF SaslFirst
  <2>7. client.registered => None(down', Down({"903"}))
    BY <1>2, <1>3, <2>5 DEF SaslFirst, Linked
  <2>8. QED
    BY <1>1, <2>1, <2>2, <2>3, <2>4, <2>6, <2>7 DEF SaslFirst
<1>12. QED
  BY <1>9, <1>10, <1>11

LEMMA HoldSent ==
  ASSUME Types, Linked, HoldInv, NEW say, Sent(say), UNCHANGED up,
         server'.nick = server.nick, server'.holding = server.holding, server'.auth = server.auth,
         server'.registered => server.registered \/ ~server.holding,
         None(say, Down({"LS"})), None(say, Down({"NEW"})) \/ None(up, Up({"LS"})),
         None(say, DownWith({"NEW"}, "sasl")),
         None(say, Down({"ACK", "NAK", "903", "904", "AUTHENTICATE"}))
  PROVE  HoldInv'
<1>1. /\ UNCHANGED <<network, client>> /\ Joined(down, say, down')
      /\ say \in Seq(DownLines(Caps)) /\ down \in Seq(DownLines(Caps))
  BY DEF Sent, Types
<1>2. SUFFICES ASSUME LsFirst, ReqFirst, SaslFirst
               PROVE  LsFirst' /\ ReqFirst' /\ SaslFirst'
  BY <1>1 DEF HoldInv
<1>3. /\ \A T : None(down, T) /\ None(say, T) => None(down', T)
      /\ \A T : None(down', T) => None(down, T) /\ None(say, T)
      /\ \A T : AtMostOne(down, T) /\ None(say, T) => AtMostOne(down', T)
  BY <1>1, Put
<1>4. None(say, SaslAck) /\ None(say, Outcomes) /\ None(say, Down({"903"}))
  <2>1. None(say, SaslAck) /\ None(say, Outcomes)
    BY HoldSets
  <2>2. None(say, Down({"903"}))
    BY DEF None, Down
  <2>3. QED
    BY <2>1, <2>2
<1>5. LsFirst'
  <2>1. Alone(up, Up({"LS"}), down', Down({"LS"}))
    BY <1>2, <1>3 DEF LsFirst, Alone
  <2>2. Before(down', Down({"LS"}), Down({"NEW"}))
    <3>1. Before(say, Down({"LS"}), Down({"NEW"}))
      BY DEF None, Before
    <3>2. QED
      BY <1>1, <1>2, <3>1, PutBefore DEF LsFirst
  <2>3. ~Clear(up, Up({"LS"}), down', Down({"LS"})) =>
          /\ Clear(up, Up({"REQ", "END", "AUTHENTICATE", "CREDENTIALS"}),
                   down', Down({"ACK", "NAK", "903", "904", "AUTHENTICATE"}))
          /\ "sasl" \notin client.acked
    BY <1>2, <1>3 DEF LsFirst, Clear
  <2>4. ~None(up, Up({"LS"})) => server.nick = -1 /\ None(down', Down({"NEW"}))
    BY <1>2, <1>3 DEF LsFirst
  <2>5. ~None(down', Down({"LS"})) => server.holding
    BY <1>2, <1>3 DEF LsFirst
  <2>6. QED
    BY <1>1, <1>2, <2>1, <2>2, <2>3, <2>4, <2>5 DEF LsFirst
<1>6. ReqFirst'
  <2>1. Before(down', SaslAck, Outcomes)
    <3>1. Before(say, SaslAck, Outcomes)
      BY <1>4 DEF None, Before
    <3>2. QED
      BY <1>1, <1>2, <1>4, <3>1, PutBefore DEF ReqFirst
  <2>2. ~None(up, SaslReq) => Clear(up, Up({"AUTHENTICATE", "CREDENTIALS"}), down', Outcomes)
    BY <1>2, <1>3, <1>4 DEF ReqFirst, Clear
  <2>3. ~Clear(up, SaslReq, down', SaslAck) =>
          /\ None(up, Up({"END"})) /\ server.holding
          /\ "sasl" \in client.requested /\ "sasl" \notin client.acked
    BY <1>2, <1>3, <1>4 DEF ReqFirst, Clear
  <2>4. QED
    BY <1>1, <1>2, <2>1, <2>2, <2>3 DEF ReqFirst
<1>7. SaslFirst'
  <2>1. Before(down', Down({"903"}), Down({"001"}))
    <3>1. Before(say, Down({"903"}), Down({"001"}))
      BY <1>4 DEF None, Before
    <3>2. QED
      BY <1>1, <1>2, <1>4, <3>1, PutBefore DEF SaslFirst
  <2>2. None(down', DownWith({"NEW"}, "sasl")) /\ (client.registered => None(down', Down({"903"})))
    BY <1>2, <1>3, <1>4 DEF SaslFirst
  <2>3. QED
    BY <1>1, <1>2, <2>1, <2>2 DEF SaslFirst
<1>8. QED
  BY <1>5, <1>6, <1>7

LEMMA HoldKeptByServer ==
  ASSUME IInv, Server, UNCHANGED network
  PROVE  HoldInv'
<1> DEFINE h == Head(up)
           Out == Down({"ACK", "NAK", "903", "904", "AUTHENTICATE"})
<1>1. Types /\ Linked /\ SaslInv /\ HoldInv
  BY DEF IInv
<1>2. server.registered => server.nick # -1
  BY <1>1 DEF Linked
<1>3. \A k : Line(k).kind = k
  BY DEF Line
<1>4. /\ \A k \in {"903", "904", "AUTHENTICATE", "NAK", "LISTED", "FAIL", "433", "432", "902"} :
           /\ None(<<Line(k)>>, Down({"LS"})) /\ None(<<Line(k)>>, Down({"NEW"}))
           /\ None(<<Line(k)>>, Down({"001"})) /\ None(<<Line(k)>>, SaslAck)
      /\ \A k \in {"904", "AUTHENTICATE", "NAK", "LISTED", "FAIL", "433", "432", "902"} : None(<<Line(k)>>, Down({"903"}))
      /\ \A k \in {"LISTED", "FAIL", "433", "432", "902"} : None(<<Line(k)>>, Out)
  BY <1>3, OfKind DEF SaslAck
<1>5. /\ None(<<>>, Down({"LS"})) /\ None(<<>>, Down({"NEW"})) /\ None(<<>>, Down({"001"}))
      /\ None(<<>>, SaslAck) /\ None(<<>>, Down({"903"})) /\ None(<<>>, Out)
  BY Nothing
<1> HIDE DEF Out
<1>6. CASE ServerLs
  <2>1. /\ server'.registered = server.registered /\ server'.nick = server.nick
        /\ server'.auth = server.auth /\ server'.holding
    BY <1>1, <1>6, ServerLsHas DEF Stays, ServerFields
  <2>2. PICK say : /\ Served("LS", say) /\ Only(say, {"LS*", "LS"})
                   /\ AtMostOne(say, Down({"LS", "ACK", "NAK"}))
    BY <1>1, <1>6, LsSays
  <2>3. /\ None(say, Down({"NEW"})) /\ None(say, Down({"001"})) /\ None(say, Down({"903"}))
        /\ None(say, Out) /\ None(say, SaslAck) /\ AtMostOne(say, Down({"LS"}))
    <3>1. AtMostOne(say, Down({"LS"}))
      BY <2>2 DEF AtMostOne, Down
    <3>2. QED
      BY <2>2, <3>1, OnlyThose DEF SaslAck, Out
  <2>4. QED
    BY <1>1, <2>1, <2>2, <2>3, HoldServed DEF Out
<1>7. CASE ServerReq
  <2>1. /\ server'.registered = server.registered /\ server'.nick = server.nick
        /\ server'.auth = server.auth /\ server'.holding = server.holding
    BY <1>1, <1>7, ReqSays DEF Stays, ServerFields
  <2>2. PICK say : /\ Served("REQ", say) /\ (Only(say, {"ACK"}) \/ say = <<Line("NAK")>>)
                   /\ "sasl" \notin h.caps => None(say, DownWith({"ACK"}, "sasl"))
    BY <1>1, <1>7, ReqSays
  <2>3. Only(say, {"ACK"}) =>
          /\ None(say, Down({"LS"})) /\ None(say, Down({"NEW"})) /\ None(say, Down({"001"}))
          /\ None(say, Down({"903"})) /\ None(say, Outcomes)
    BY OnlyThose DEF Outcomes
  <2>4. "sasl" \in h.caps => h \in SaslReq
    <3>1. h \in UpLines(Caps) /\ h.kind = "REQ"
      BY <2>2 DEF Served
    <3>2. QED
      BY <1>1, <3>1, SetsHaveLines DEF SaslReq
  <2>5. /\ None(say, Down({"LS"})) /\ None(say, Down({"NEW"})) /\ None(say, Down({"001"}))
        /\ None(say, Down({"903"})) /\ (None(say, SaslAck) \/ (h \in SaslReq /\ None(say, Outcomes)))
    BY <1>4, <2>2, <2>3, <2>4 DEF SaslAck
  <2>6. QED
    BY <1>1, <2>1, <2>2, <2>5, HoldServed
<1>8. CASE ServerAuthenticate
  <2>1. /\ server'.registered = server.registered /\ server'.nick = server.nick
        /\ server'.holding = server.holding
    BY <1>1, <1>8, ServerAuthenticateHas DEF Stays, ServerFields
  <2>2. PICK say : /\ Served("AUTHENTICATE", say) /\ None(say, Down({"LS"}))
                   /\ None(say, Down({"NEW"})) /\ None(say, Down({"001"}))
                   /\ None(say, Down({"903"})) /\ None(say, SaslAck)
    BY <1>1, <1>4, <1>8, ServerAuthenticateHas
  <2>3. QED
    BY <1>1, <2>1, <2>2, HoldServed
<1>9. CASE ServerCredentials
  <2>1. /\ server'.registered = server.registered /\ server'.nick = server.nick
        /\ server'.holding = server.holding /\ server'.auth # "asked"
    BY <1>1, <1>9, ServerCredentialsHas DEF Stays, ServerFields
  <2>2. PICK say : /\ Served("CREDENTIALS", say) /\ None(say, Down({"LS"}))
                   /\ None(say, Down({"NEW"})) /\ None(say, Down({"001"})) /\ None(say, SaslAck)
                   /\ None(say, Down({"903"})) \/ server.auth = "asked"
    BY <1>1, <1>4, <1>9, ServerCredentialsHas
  <2>3. QED
    BY <1>1, <2>1, <2>2, HoldServed
<1>10. CASE ServerEnd
  <2>1. /\ server'.registered = server.registered /\ server'.nick = server.nick
        /\ ~server'.holding /\ server'.auth # "asked"
    BY <1>1, <1>10, ServerEndHas DEF Stays, ServerFields
  <2>2. PICK say : /\ Served("END", say) /\ None(say, Down({"LS"}))
                   /\ None(say, Down({"NEW"})) /\ None(say, Down({"001"}))
                   /\ None(say, Down({"903"})) /\ None(say, SaslAck)
    BY <1>1, <1>4, <1>5, <1>10, ServerEndHas
  <2>3. QED
    BY <1>1, <2>1, <2>2, HoldServed
<1>11. CASE ServerNick
  <2>1. /\ server'.registered = server.registered /\ server'.holding = server.holding
        /\ server'.auth = server.auth
    BY <1>1, <1>2, <1>11, ServerNickHas DEF Stays, ServerFields
  <2>2. \A n, m : /\ None(<<NickLine(n, m)>>, Down({"LS"})) /\ None(<<NickLine(n, m)>>, Down({"NEW"}))
                  /\ None(<<NickLine(n, m)>>, Down({"001"})) /\ None(<<NickLine(n, m)>>, SaslAck)
                  /\ None(<<NickLine(n, m)>>, Down({"903"})) /\ None(<<NickLine(n, m)>>, Out)
    <3>1. \A n, m : NickLine(n, m).kind = "NICK"
      BY DEF NickLine
    <3>2. QED
      BY <3>1, OfKind DEF SaslAck, Out
  <2>3. PICK say : /\ Served("NICK", say) /\ None(say, Down({"LS"}))
                   /\ None(say, Down({"NEW"})) /\ None(say, Down({"001"}))
                   /\ None(say, Down({"903"})) /\ None(say, SaslAck) /\ None(say, Out)
    BY <1>1, <1>2, <1>4, <1>5, <1>11, <2>2, ServerNickHas
  <2>4. QED
    BY <1>1, <2>1, <2>3, HoldServed DEF Out
<1>12. CASE ServerWelcome
  <2>1. /\ server'.nick = server.nick /\ server'.holding = server.holding
        /\ server'.auth = server.auth /\ ~server.holding /\ up' = up
    BY <1>1, <1>12, ServerWelcomeHas DEF Stays, ServerFields
  <2>2. PICK say : /\ Sent(say) /\ None(say, Down({"LS"})) /\ None(say, Down({"NEW"}))
                   /\ None(say, DownWith({"NEW"}, "sasl")) /\ None(say, Out)
    BY <1>1, <1>3, <1>12, ServerWelcomeHas, OfKind DEF Out
  <2>3. QED
    BY <1>1, <2>1, <2>2, HoldSent DEF Out
<1>13. CASE ServerListNetworks
  <2>1. /\ server'.registered = server.registered /\ server'.nick = server.nick
        /\ server'.holding = server.holding /\ server'.auth = server.auth
    BY <1>1, <1>13, ServerListNetworksHas DEF Stays, ServerFields
  <2>2. PICK say : /\ Served("LISTNETWORKS", say) /\ None(say, Down({"LS"}))
                   /\ None(say, Down({"NEW"})) /\ None(say, Down({"001"}))
                   /\ None(say, Down({"903"})) /\ None(say, SaslAck) /\ None(say, Out)
    BY <1>1, <1>4, <1>13, ServerListNetworksHas
  <2>3. QED
    BY <1>1, <2>1, <2>2, HoldServed DEF Out
<1>14. CASE ServerRefuses
  <2>1. /\ server'.registered = server.registered /\ server'.nick = server.nick
        /\ server'.holding = server.holding
        /\ server'.auth = "asked" => server.auth = "asked"
    BY <1>1, <1>14, ServerRefusesHas DEF Stays, ServerFields
  <2>2. PICK k, say : /\ k \in RefusedKinds /\ Served(k, say) /\ None(say, Down({"LS"}))
                      /\ None(say, Down({"NEW"})) /\ None(say, Down({"001"}))
                      /\ None(say, Down({"903"})) /\ None(say, SaslAck) /\ None(say, Out)
    BY <1>1, <1>4, <1>14, ServerRefusesHas
  <2>3. k \notin {"LS", "END"}
    BY <2>2 DEF RefusedKinds
  <2>4. QED
    BY <1>1, <2>1, <2>2, <2>3, HoldServed DEF Out
<1>15. QED
  BY <1>6, <1>7, <1>8, <1>9, <1>10, <1>11, <1>12, <1>13, <1>14 DEF Server

LEMMA HoldKept ==
  ASSUME IInv, Next
  PROVE  HoldInv'
<1>1. Types /\ Linked /\ SaslInv /\ HoldInv /\ UNCHANGED network
  BY DEF IInv, Next
<1>2. CASE OnConnected \/ OnDisconnected
  <2>1. /\ ~client'.registered /\ client'.acked = {} /\ down' = <<>> /\ server'.nick = -1
        /\ ~server'.registered /\ server'.auth # "asked"
        /\ up' = <<>> \/ up' = <<Line("LS"), SetNickLine(client.nick)>>
    BY <1>1, <1>2, LinkHas DEF Fresh
  <2>2. \A T, K : None(down', T) /\ AtMostOne(down', T) /\ Before(down', T, K)
    BY <2>1, Nothing
  <2>3. /\ AtMostOne(up', Up({"LS"})) /\ Before(up', Up({"LS"}), Up({"NICK"}))
        /\ None(up', Up({"REQ", "END", "AUTHENTICATE", "CREDENTIALS"}))
    <3>1. CASE up' = <<>>
      BY <3>1, Nothing
    <3>2. CASE up' = <<Line("LS"), SetNickLine(client.nick)>>
      <4>1. Line("LS").kind = "LS" /\ SetNickLine(client.nick).kind = "NICK"
        BY DEF Line, SetNickLine
      <4>2. /\ Line("LS") \notin Up({"NICK"}) /\ SetNickLine(client.nick) \notin Up({"LS"})
            /\ Line("LS") \notin Up({"REQ", "END", "AUTHENTICATE", "CREDENTIALS"})
            /\ SetNickLine(client.nick) \notin Up({"REQ", "END", "AUTHENTICATE", "CREDENTIALS"})
        BY <4>1, OfKind
      <4>3. QED
        BY <3>2, <4>2, Two
    <3>3. QED
      BY <2>1, <3>1, <3>2
  <2>4. /\ None(up', SaslReq) /\ None(up', Up({"AUTHENTICATE"})) /\ None(up', Up({"END"}))
        /\ Before(up', SaslReq, Up({"REQ"}) \ SaslReq) /\ Before(up', Up({"AUTHENTICATE"}), Up({"END"}))
    <3>1. None(up', SaslReq) /\ None(up', Up({"AUTHENTICATE"})) /\ None(up', Up({"END"}))
      BY <2>3, HoldSets
    <3>2. QED
      BY <3>1 DEF None, Before
  <2>5. LsFirst'
    BY <2>1, <2>2, <2>3 DEF LsFirst, Alone, Clear
  <2>6. ReqFirst' /\ SaslFirst'
    BY <2>1, <2>2, <2>4 DEF ReqFirst, SaslFirst, Clear
  <2>7. QED
    BY <2>5, <2>6 DEF HoldInv
<1>3. CASE Client
  BY <1>1, <1>3, HoldKeptByClient
<1>4. CASE Server
  BY <1>1, <1>4, HoldKeptByServer
<1>5. CASE ServerCapNew
  <2>1. PICK cap \in network.later \ server.announced :
          /\ server.announced # {} /\ UNCHANGED up /\ Sent(<<CapLine("NEW", {cap})>>)
          /\ Stays({"announced"})
    BY <1>1, <1>5, CapNewHas
  <2>2. /\ server'.nick = server.nick /\ server'.holding = server.holding
        /\ server'.auth = server.auth /\ server'.registered = server.registered
    BY <2>1 DEF Stays, ServerFields
  <2> DEFINE l == CapLine("NEW", {cap})
             say == <<l>>
  <2>3. l.kind = "NEW" /\ l.caps = {cap}
    BY DEF CapLine
  <2>4. Sent(say)
    BY <2>1
  <2> HIDE DEF l
  <2>5. None(say, Down({"LS"})) /\ None(say, Down({"ACK", "NAK", "903", "904", "AUTHENTICATE"}))
    BY <2>3, OfKind
  <2>6. None(up, Up({"LS"}))
    BY <1>1, <2>1 DEF SaslInv
  <2>7. "sasl" \in network.offered => None(say, DownWith({"NEW"}, "sasl"))
    <3>1. "sasl" \in network.offered => cap # "sasl"
      BY <1>1, <2>1 DEF Linked
    <3>2. cap # "sasl" => l \notin DownWith({"NEW"}, "sasl")
      BY <2>3 DEF DownWith
    <3>3. QED
      BY <3>1, <3>2, One
  <2> HIDE DEF say
  <2>8. CASE "sasl" \in network.offered
    BY <1>1, <2>1, <2>2, <2>4, <2>5, <2>6, <2>7, <2>8, HoldSent
  <2>9. CASE "sasl" \notin network.offered
    BY <1>1, <2>9 DEF HoldInv
  <2>10. QED
    BY <2>8, <2>9
<1>6. CASE ServerCapDel
  <2>1. PICK cap : Sent(<<CapLine("DEL", {cap})>>) /\ UNCHANGED up /\ Stays({"enabled"})
    BY <1>1, <1>6, CapDelHas
  <2>2. CapLine("DEL", {cap}).kind = "DEL"
    BY DEF CapLine
  <2>3. PICK say : /\ Sent(say) /\ None(say, Down({"LS"})) /\ None(say, Down({"NEW"}))
                   /\ None(say, DownWith({"NEW"}, "sasl"))
                   /\ None(say, Down({"ACK", "NAK", "903", "904", "AUTHENTICATE"}))
    BY <2>1, <2>2, OfKind
  <2>4. /\ server'.nick = server.nick /\ server'.holding = server.holding
        /\ server'.auth = server.auth /\ server'.registered = server.registered
    BY <2>1 DEF Stays, ServerFields
  <2>5. QED
    BY <1>1, <2>1, <2>3, <2>4, HoldSent
<1>7. ASSUME NEW nick \in Nick, UserNick(nick)
      PROVE  HoldInv'
  <2>1. /\ UNCHANGED <<server, down>> /\ client'.registered = client.registered
        /\ client'.acked = client.acked /\ client'.requested = client.requested
    BY <1>1, <1>7, UserNickHas DEF Keeps, Fields
  <2> DEFINE say == <<SetNickLine(nick)>>
  <2>2. up \in Seq(UpLines(Caps)) /\ say \in Seq(UpLines(Caps)) /\ Joined(up, say, up')
    BY <1>1, <1>7, UserNickHas DEF Types
  <2>3. /\ None(say, Up({"LS"})) /\ None(say, Up({"REQ", "END", "AUTHENTICATE", "CREDENTIALS"}))
    <3>1. SetNickLine(nick).kind = "NICK"
      BY DEF SetNickLine
    <3>2. QED
      BY <3>1, OfKind
  <2> HIDE DEF say
  <2>4. /\ None(say, SaslReq) /\ None(say, Up({"AUTHENTICATE", "CREDENTIALS"}))
        /\ None(say, Up({"AUTHENTICATE"})) /\ None(say, Up({"END"}))
    BY <2>3, HoldSets
  <2>5. /\ Before(say, Up({"LS"}), Up({"NICK"})) /\ Before(say, SaslReq, Up({"REQ"}) \ SaslReq)
        /\ Before(say, Up({"AUTHENTICATE"}), Up({"END"}))
    BY <2>3, <2>4 DEF None, Before
  <2>6. /\ \A T : None(up, T) /\ None(say, T) => None(up', T)
        /\ \A T : None(up', T) => None(up, T) /\ None(say, T)
        /\ \A T : AtMostOne(up, T) /\ None(say, T) => AtMostOne(up', T)
    BY <2>2, Put
  <2>7. SUFFICES ASSUME LsFirst, ReqFirst, SaslFirst
                 PROVE  LsFirst' /\ ReqFirst' /\ SaslFirst'
    BY <1>1 DEF HoldInv
  <2>8. /\ Before(up', Up({"LS"}), Up({"NICK"})) /\ Before(up', SaslReq, Up({"REQ"}) \ SaslReq)
        /\ Before(up', Up({"AUTHENTICATE"}), Up({"END"}))
    BY <2>2, <2>3, <2>4, <2>5, <2>7, PutBefore DEF LsFirst, ReqFirst, SaslFirst
  <2>9. LsFirst'
    BY <2>1, <2>3, <2>6, <2>7, <2>8 DEF LsFirst, Alone, Clear
  <2>10. ReqFirst'
    BY <2>1, <2>4, <2>6, <2>7, <2>8 DEF ReqFirst, Clear
  <2>11. SaslFirst'
    BY <2>1, <2>4, <2>6, <2>7, <2>8 DEF SaslFirst
  <2>12. QED
    BY <2>9, <2>10, <2>11
<1>8. ASSUME NEW old \in Nick, NEW new \in Nick, OtherNick(old, new)
      PROVE  HoldInv'
  <2>1. Sent(<<NickLine(old, new)>>) /\ UNCHANGED up /\ Stays({})
    BY <1>1, <1>8, OtherNickHas
  <2>2. NickLine(old, new).kind = "NICK"
    BY DEF NickLine
  <2>3. PICK say : /\ Sent(say) /\ None(say, Down({"LS"})) /\ None(say, Down({"NEW"}))
                   /\ None(say, DownWith({"NEW"}, "sasl"))
                   /\ None(say, Down({"ACK", "NAK", "903", "904", "AUTHENTICATE"}))
    BY <2>1, <2>2, OfKind
  <2>4. /\ server'.nick = server.nick /\ server'.holding = server.holding
        /\ server'.auth = server.auth /\ server'.registered = server.registered
    BY <2>1 DEF Stays, ServerFields
  <2>5. QED
    BY <1>1, <2>1, <2>3, <2>4, HoldSent
<1>9. QED
  BY <1>2, <1>3, <1>4, <1>5, <1>6, <1>7, <1>8 DEF Next

(* ------------------- reclaiming the nick, step by step ----------------- *)

Remembered == <<client.nick, client.fallback, client.registered, client.saslAuthed, client.reclaimed>>

LEMMA ReclaimKeptByClient ==
  ASSUME IInv, Client, UNCHANGED network
  PROVE  ReclaimInv'
<1>1. Types /\ Linked /\ NickInv /\ HoldInv /\ ReclaimInv
  BY DEF IInv
<1>2. UNCHANGED <<renames, drops>>
  BY DEF Client, OnCapLsMore, OnCapLs, OnCapAck, OnCapNak, OnCapNew, OnCapDel, OnAuthenticate,
         OnSaslSuccess, OnSaslFailure, OnNickInUse, OnWelcome, OnNick, OnNetworksListed,
         OnListingRejected, OnNickError, OnOtherNumeric, Says
<1>3. SUFFICES ASSUME renames = 0, drops = 0
               PROVE  ReclaimInv'
  BY <1>2 DEF ReclaimInv
<1>4. /\ ~client.registered => client.reclaimed = 0 /\ (client.nick # 0 => client.fallback)
      /\ "sasl" \in network.offered /\ client.registered /\ client.saslAuthed /\ client.nick # 0 =>
           client.reclaimed = 1
  BY <1>1, <1>3 DEF ReclaimInv
<1>5. (Remembered' = Remembered) => ReclaimInv'
  BY <1>4 DEF ReclaimInv, Remembered
<1>6. CASE OnCapLsMore
  BY <1>1, <1>5, <1>6, LsMoreHas DEF Keeps, Fields, Remembered
<1>7. CASE OnCapLs
  BY <1>1, <1>5, <1>7, LsHas DEF Keeps, Fields, Remembered
<1>8. CASE OnCapAck
  BY <1>1, <1>5, <1>8, AckHas DEF Keeps, Fields, Remembered
<1>9. CASE OnCapNak
  BY <1>1, <1>5, <1>9, NakHas DEF Keeps, Fields, Remembered
<1>10. CASE OnCapNew
  BY <1>1, <1>5, <1>10, NewHas DEF Remembered
<1>11. CASE OnCapDel
  BY <1>1, <1>5, <1>11, DelHas DEF Keeps, Fields, Remembered
<1>12. CASE OnAuthenticate
  BY <1>1, <1>5, <1>12, AuthenticateHas DEF Keeps, Fields, Remembered
<1>13. CASE OnSaslFailure
  BY <1>1, <1>5, <1>13, FailureHas DEF Keeps, Fields, Remembered
<1>14. CASE Noted
  BY <1>1, <1>5, <1>14, NotedHas DEF Keeps, Fields, Remembered
<1>15. CASE OnSaslSuccess
  <2>1. /\ client'.nick = client.nick /\ client'.fallback = client.fallback
        /\ client'.registered = client.registered /\ client'.reclaimed = client.reclaimed
    BY <1>1, <1>15, SuccessHas DEF Keeps, Fields
  <2>2. PICK say : Heard({"903"}, say)
    BY <1>1, <1>15, SuccessHas
  <2>3. ~None(down, Down({"903"}))
    BY <1>1, <2>2, HeardLines, SetsHaveLines
  <2>4. "sasl" \in network.offered => ~client.registered
    BY <1>1, <2>3 DEF HoldInv, SaslFirst
  <2>5. QED
    BY <1>4, <2>1, <2>4 DEF ReclaimInv
<1>16. CASE OnNickInUse
  <2>1. \/ client.registered /\ Keeps({})
        \/ ~client.registered /\ Keeps({"nick", "fallback"}) /\ client'.fallback
    BY <1>1, <1>16, NicksLeft, NickInUseHas
  <2>2. /\ client'.registered = client.registered /\ client'.reclaimed = client.reclaimed
        /\ client'.saslAuthed = client.saslAuthed
        /\ client.registered => client'.nick = client.nick
        /\ ~client.registered => client'.fallback
    BY <2>1 DEF Keeps, Fields
  <2>3. QED
    BY <1>4, <2>2 DEF ReclaimInv
<1>17. CASE OnWelcome
  <2>1. PICK say : Heard({"001"}, say)
    BY <1>1, <1>17, WelcomeHas
  <2>2. ~client.registered
    <3>1. ~None(down, Down({"001"}))
      BY <1>1, <2>1, HeardLines, SetsHaveLines
    <3>2. QED
      BY <1>1, <3>1 DEF Linked
  <2>3. /\ client'.registered /\ client'.nick = client.nick /\ client'.saslAuthed = client.saslAuthed
        /\ \/ client'.reclaimed = client.reclaimed + 1
           \/ ~(client.fallback /\ client.saslAuthed /\ client.nick # 0)
    BY <1>1, <1>17, WelcomeHas DEF Keeps, Fields
  <2>4. QED
    BY <1>4, <2>2, <2>3 DEF ReclaimInv
<1>18. CASE OnNick
  <2> DEFINE l == Head(down)
             n == client.nick
             own == NickLine(n, 0)
  <2>1. /\ Heard({"NICK"}, <<>>) /\ client'.nick = IF n \in {l.old, l.new} THEN l.new ELSE n
    BY <1>1, <1>18, NickHas
  <2>2. /\ client'.registered = client.registered /\ client'.reclaimed = client.reclaimed
        /\ client'.saslAuthed = client.saslAuthed /\ client'.fallback = client.fallback
    BY <1>1, <1>18, NickHas DEF Keeps, Fields
  <2>3. Taken(down, down') /\ down \in Seq(DownLines(Caps)) /\ n \in Nick
    BY <1>1, <2>1 DEF Heard, Types, TypeOK
  <2>4. \A k : l \in OfNick(k) <=> k \in {l.old, l.new}
    <3>1. l \in Down({"NICK"})
      BY <1>1, <2>1, HeardLines, SetsHaveLines
    <3>2. QED
      BY <3>1 DEF OfNick
  <2>5. NickOK
    BY <1>1, <1>3 DEF NickInv
  <2>6. own \in OfNick(n) /\ own.new = 0
    BY <2>3, NickLines
  <2>7. CASE None(down, OfNick(n))
    <3>1. l \notin OfNick(n)
      BY <1>1, <2>1, <2>7, HeardLines
    <3>2. client'.nick = client.nick
      BY <2>1, <2>4, <3>1
    <3>3. QED
      BY <1>5, <2>2, <3>2 DEF Remembered
  <2>8. CASE client.registered /\ Turns(down, own, OfNick(n), OfNick(0))
    <3> HIDE DEF own
    <3>1. l = own \/ l \notin OfNick(n)
      BY <2>3, <2>6, <2>8, TakeTurns
    <3>2. client'.nick = 0 \/ client'.nick = client.nick
      BY <2>1, <2>4, <2>6, <3>1
    <3>3. QED
      BY <1>4, <2>2, <2>8, <3>2 DEF ReclaimInv
  <2>9. QED
    BY <2>5, <2>7, <2>8 DEF NickOK
<1>19. QED
  BY <1>6, <1>7, <1>8, <1>9, <1>10, <1>11, <1>12, <1>13, <1>14, <1>15, <1>16, <1>17, <1>18 DEF Client, Noted

LEMMA ReclaimKept ==
  ASSUME IInv, Next
  PROVE  ReclaimInv'
<1>1. Types /\ Linked /\ ReclaimInv /\ UNCHANGED network
  BY DEF IInv, Next
<1>2. CASE OnConnected \/ OnDisconnected
  <2>1. UNCHANGED renames /\ (UNCHANGED <<client, drops>> \/ drops' # 0)
    BY <1>1, <1>2, LinkHas
  <2>2. QED
    BY <1>1, <2>1 DEF ReclaimInv
<1>3. CASE Client
  BY <1>1, <1>3, ReclaimKeptByClient
<1>4. CASE \/ Server \/ ServerCapNew \/ ServerCapDel
           \/ \E old, new \in Nick : OtherNick(old, new)
  <2>1. UNCHANGED <<client, renames, drops>>
    BY <1>4 DEF Server, ServerLs, ServerReq, ServerAuthenticate, ServerCredentials, ServerEnd,
                ServerNick, ServerRefuses, ServerWelcome, ServerListNetworks, ServerCapNew, ServerCapDel,
                OtherNick, Replies
  <2>2. QED
    BY <1>1, <2>1 DEF ReclaimInv
<1>5. ASSUME NEW nick \in Nick, UserNick(nick)
      PROVE  ReclaimInv'
  <2>1. renames' = renames + 1
    BY <1>1, <1>5, UserNickHas
  <2>2. renames \in Nat
    BY <1>1, NetworksAssumption DEF Types, TypeOK
  <2>3. QED
    BY <2>1, <2>2 DEF ReclaimInv
<1>6. QED
  BY <1>2, <1>3, <1>4, <1>5 DEF Next

(* ----------------------------- the theorems ---------------------------- *)

LEMMA RegistrationInit == Init => IInv
<1> SUFFICES ASSUME Init
             PROVE  IInv
  OBVIOUS
<1>1. /\ network \in Networks /\ client = NoClient(0) /\ server = NoServer /\ up = <<>> /\ down = <<>>
      /\ others \subseteq Nick \ {MaxNick} /\ renames = 0 /\ strangers = 0 /\ drops = 0
  BY DEF Init
<1>2. /\ client \in Clients /\ client.nick = 0
      /\ ~client.registered /\ ~client.saslAuthed /\ ~client.saslPending /\ ~client.endedDuringSasl
      /\ ~client.fallback /\ client.reclaimed = 0 /\ client.acked = {} /\ client.lsBuffer = {}
      /\ client.requested = {}
  BY <1>1, NickAssumption DEF NoClient, Clients, Nick
<1>3. /\ server \in Servers /\ server.enabled = {} /\ server.announced = {} /\ server.auth = "none"
      /\ server.nick = -1 /\ ~server.registered /\ ~server.link
  BY <1>1 DEF NoServer, Servers
<1>4. -1 \notin Nick
  BY NickAssumption DEF Nick
<1>5. \A T, K : /\ None(up, T) /\ AtMostOne(up, T) /\ Before(up, T, K)
                /\ None(down, T) /\ AtMostOne(down, T) /\ Before(down, T, K) /\ Last(down, T, K)
  BY <1>1, Nothing
<1>6. Types
  <2>1. {network.renames, network.others, network.drops} \subseteq Nat
    BY <1>1, NetworksAssumption
  <2>2. /\ renames \in 0..network.renames /\ strangers \in 0..network.others
        /\ drops \in 0..network.drops
    BY <1>1, <2>1
  <2>3. up \in Seq(UpLines(Caps)) /\ down \in Seq(DownLines(Caps))
    BY <1>1
  <2>4. QED
    BY <1>1, <1>2, <1>3, <2>2, <2>3 DEF Types, TypeOK, Clients, Servers
<1>7. Linked
  BY <1>1, <1>2, <1>3, <1>4, <1>5 DEF Linked, Fresh
<1>8. CapsInv
  BY <1>2, <1>3, <1>5 DEF CapsInv
<1>9. SaslInv
  BY <1>2, <1>3, <1>5 DEF SaslInv, Alone, Clear
<1>10. NickInv
  BY <1>2, <1>3, <1>5 DEF NickInv, NickOK, Alone
<1>11. PendingInv
  BY <1>2, <1>5 DEF PendingInv, Alone
<1>12. HoldInv
  BY <1>2, <1>3, <1>5 DEF HoldInv, LsFirst, ReqFirst, SaslFirst, Alone, Clear
<1>13. ReclaimInv
  BY <1>2 DEF ReclaimInv
<1>14. QED
  BY <1>6, <1>7, <1>8, <1>9, <1>10, <1>11, <1>12, <1>13 DEF IInv

LEMMA RegistrationStep == IInv /\ [Next]_vars => IInv'
<1> SUFFICES ASSUME IInv, [Next]_vars
             PROVE  IInv'
  OBVIOUS
<1>1. CASE Next
  BY <1>1, LinkedKept, CapsKept, SaslKept, NickKept, PendingKept, HoldKept, ReclaimKept DEF IInv
<1>2. CASE UNCHANGED vars
  <2>1. UNCHANGED <<network, client, server, up, down, others, renames, strangers, drops>>
    BY <1>2 DEF vars, session
  <2>2. Caps' = Caps
    BY <2>1 DEF Caps
  <2>3. UpLines(Caps)' = UpLines(Caps) /\ DownLines(Caps)' = DownLines(Caps)
    BY <2>2 DEF UpLines, DownLines
  <2>4. Types' /\ Linked'
    BY <2>1, <2>2, <2>3 DEF IInv, Types, TypeOK, Linked, Fresh
  <2>5. CapsInv' /\ SaslInv'
    BY <2>1, <2>2 DEF IInv, CapsInv, SaslInv, Granted
  <2>6. NickInv' /\ PendingInv' /\ ReclaimInv'
    BY <2>1 DEF IInv, NickInv, NickOK, PendingInv, ReclaimInv
  <2>7. HoldInv'
    BY <2>1 DEF IInv, HoldInv, LsFirst, ReqFirst, SaslFirst
  <2>8. QED
    BY <2>4, <2>5, <2>6, <2>7 DEF IInv
<1>3. QED
  BY <1>1, <1>2

\* IrcClient takes itself for authenticated only on a session that the server
\* has authenticated, on every network: CAP announced early or late, an ACK in
\* one line or two, a CAP END that aborts the exchange, a lost link.
THEOREM AuthenticatedOnlyTruly == Spec => []AuthenticatedTruly
<1>1. IInv => AuthenticatedTruly
  BY DEF IInv, SaslInv, AuthenticatedTruly
<1>2. QED
  BY <1>1, RegistrationInit, RegistrationStep, PTL DEF Spec

\* What IrcClient knows of its session is so, on every network: once the lines
\* have arrived the capabilities and the nick are the server's; CAP END waits
\* for SASL; the configured nick is asked for again by whoever registers on
\* another.
THEOREM RegistrationSound == Spec => []RegistrationInv
<1>1. IInv => RegistrationInv
  <2> SUFFICES ASSUME IInv
               PROVE  RegistrationInv
    OBVIOUS
  <2>1. TypeOK
    BY DEF IInv, Types
  <2>2. CapsAgree
    <3>1. SUFFICES ASSUME up = <<>>, down = <<>>
                   PROVE  client.acked = server.enabled
      BY DEF CapsAgree, Quiet
    <3>2. \A T : None(down, T)
      BY <3>1, Nothing
    <3>3. \A c \in Caps : c \in client.acked <=> c \in server.enabled
      BY <3>2 DEF IInv, CapsInv
    <3>4. client.acked \subseteq Caps /\ server.enabled \subseteq Caps
      BY <2>1 DEF TypeOK
    <3>5. QED
      BY <3>3, <3>4
  <2>3. HoldsCapEnd
    BY DEF IInv, PendingInv, HoldsCapEnd
  <2>4. KnowsOwnNick
    <3>1. SUFFICES ASSUME up = <<>>, down = <<>>, client.registered, renames = 0
                   PROVE  client.nick = server.nick
      BY DEF KnowsOwnNick, Quiet
    <3>2. NickOK
      BY <3>1 DEF IInv, NickInv
    <3>3. server.nick # -1
      BY <3>1 DEF IInv, Linked
    <3>4. ~Turns(down, NickLine(client.nick, 0), OfNick(client.nick), OfNick(0))
      BY <3>1 DEF Turns
    <3>5. QED
      BY <3>2, <3>3, <3>4 DEF NickOK
  <2>5. ReclaimsNick
    BY DEF IInv, ReclaimInv, ReclaimsNick
  <2>6. QED
    BY <2>1, <2>2, <2>3, <2>4, <2>5 DEF RegistrationInv
<1>2. QED
  BY <1>1, RegistrationInit, RegistrationStep, PTL DEF Spec
=============================================================================
