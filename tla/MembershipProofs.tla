-------------------------- MODULE MembershipProofs --------------------------
(***************************************************************************)
(* Proofs about Membership, for every finite set of nicks and every bound: *)
(* the index of the nick list says where a nick is, the user list on       *)
(* screen is the buffer's or about to be refreshed, a channel with a row   *)
(* is joined again on every link, the view goes where the user asked, and  *)
(* the nick list has, in its order, just those who are in the channel.     *)
(***************************************************************************)
EXTENDS Membership, TLAPS, SequenceTheorems, FiniteSetTheorems, WellFoundedInduction

IsSequence(s) == s \in Seq({s[i] : i \in DOMAIN s})

\* What the index says is true.
Home(list, n) ==
  /\ list.index[n] \in DOMAIN list.nicks
  /\ list.nicks[list.index[n]].nick = n

ListOK(list) ==
  /\ list = [nicks |-> list.nicks, index |-> list.index]
  /\ IsSequence(list.nicks)
  /\ \A n \in DOMAIN list.index : Home(list, n)

----------------------------------------------------------------------------
(* Sequences and sets of numbers.                                          *)

LEMMA SequenceOf ==
  ASSUME NEW S, NEW s \in Seq(S)
  PROVE  IsSequence(s)
<1> DEFINE T == {s[i] : i \in DOMAIN s}
<1>1. /\ Len(s) \in Nat /\ DOMAIN s = 1..Len(s) /\ s \in [1..Len(s) -> S]
  BY LenProperties
<1>2. s \in [1..Len(s) -> T]
  BY <1>1
<1>3. s \in Seq(T)
  BY <1>1, <1>2, SeqDef
<1>4. QED
  BY <1>3 DEF IsSequence

LEMMA SequenceHas ==
  ASSUME NEW s, IsSequence(s)
  PROVE  Len(s) \in Nat /\ DOMAIN s = 1..Len(s)
BY LenProperties DEF IsSequence

\* A function on the numbers up to n is a sequence of that length.
LEMMA FunctionIsSequence ==
  ASSUME NEW n \in Nat, NEW T, NEW f \in [1..n -> T]
  PROVE  IsSequence(f) /\ Len(f) = n
<1>1. f \in Seq(T)
  BY SeqDef
<1>2. QED
  BY <1>1, SequenceOf, LenProperties

LEMMA Least ==
  ASSUME NEW S \in SUBSET Nat, S # {}
  PROVE  \E k \in S : \A j \in S : k =< j
<1> DEFINE R == {ss \in Nat \X Nat : ss[1] < ss[2]}
<1>1. OpToRel(<, Nat) = R
  BY Zenon DEF OpToRel
<1>2. IsWellFoundedOn(R, Nat)
  BY NatLessThanWellFounded, <1>1, Zenon
<1>3. S \subseteq Nat
  OBVIOUS
<1> HIDE DEF R
<1>4. PICK k \in S : \A j \in S : ~(<<j, k>> \in R)
  BY <1>2, <1>3, WFMin, Zenon
<1>5. ASSUME NEW j \in S
      PROVE  k =< j
  <2>1. <<j, k>> \in Nat \X Nat /\ ~(<<j, k>> \in R)
    BY <1>3, <1>4
  <2>2. ~(j < k)
    BY <2>1 DEF R
  <2>3. QED
    BY <1>3, <2>2
<1>6. QED
  BY <1>5

LEMMA MinIsIn ==
  ASSUME NEW S \in SUBSET Nat, S # {}
  PROVE  Min(S) \in S /\ \A j \in S : Min(S) =< j
BY Least DEF Min

LEMMA MaxIsIn ==
  ASSUME NEW n \in Nat, NEW S \in SUBSET (0..n), S # {}
  PROVE  Max(S) \in S
<1> DEFINE T == {k \in 0..n : n - k \in S}
<1>1. T \in SUBSET Nat
  OBVIOUS
<1>2. T # {}
  <2>1. PICK x \in S : TRUE
    OBVIOUS
  <2>2. n - x \in 0..n /\ n - (n - x) = x
    BY <2>1
  <2>3. n - x \in T
    BY <2>1, <2>2
  <2>4. QED
    BY <2>3
<1> HIDE DEF T
<1>3. PICK k \in T : \A j \in T : k =< j
  BY <1>1, <1>2, Least
<1>4. k \in 0..n /\ n - k \in S
  BY <1>3 DEF T
<1>5. ASSUME NEW y \in S
      PROVE  n - k >= y
  <2>1. n - y \in 0..n /\ n - (n - y) = y
    OBVIOUS
  <2>2. n - y \in T
    BY <2>1 DEF T
  <2>3. k =< n - y
    BY <1>3, <2>2
  <2>4. QED
    BY <1>4, <2>1, <2>3
<1>6. \E x \in S : \A y \in S : x >= y
  BY <1>4, <1>5
<1>7. QED
  BY <1>6 DEF Max

LEMMA InsertAtIs ==
  ASSUME NEW T, NEW s \in Seq(T), NEW e \in T, NEW place \in 1..Len(s) + 1
  PROVE  /\ InsertAt(s, place, e) \in Seq(T) /\ Len(InsertAt(s, place, e)) = Len(s) + 1
         /\ \A j \in 1..place - 1 : InsertAt(s, place, e)[j] = s[j]
         /\ InsertAt(s, place, e)[place] = e
         /\ \A j \in place..Len(s) : InsertAt(s, place, e)[j + 1] = s[j]
<1> DEFINE front == SubSeq(s, 1, place - 1)
           back == SubSeq(s, place, Len(s))
           most == front \o <<e>>
<1>1. Len(s) \in Nat
  BY LenProperties
<1>2. /\ front \in Seq(T) /\ Len(front) = place - 1
      /\ \A j \in 1..place - 1 : front[j] = s[j]
  BY <1>1
<1>3. /\ back \in Seq(T) /\ Len(back) = Len(s) - place + 1
      /\ \A j \in 1..Len(s) - place + 1 : back[j] = s[place + j - 1]
  BY <1>1
<1> HIDE DEF front, back
<1>4. /\ most \in Seq(T) /\ Len(most) = place /\ most[place] = e
      /\ \A j \in 1..place - 1 : most[j] = s[j]
  <2> DEFINE one == <<e>>
  <2>1. one \in Seq(T) /\ Len(one) = 1 /\ one[1] = e
    OBVIOUS
  <2> HIDE DEF one
  <2>2. /\ front \o one \in Seq(T) /\ Len(front \o one) = Len(front) + Len(one)
        /\ \A j \in 1..Len(front) + Len(one) :
             (front \o one)[j] = IF j <= Len(front) THEN front[j] ELSE one[j - Len(front)]
    BY <1>2, <2>1, ConcatProperties
  <2>3. place \in 1..Len(front) + Len(one) /\ ~(place <= Len(front)) /\ place - Len(front) = 1
    BY <1>1, <1>2, <2>1
  <2>4. most = front \o one
    BY DEF one
  <2>5. (front \o one)[place] = e
    BY <2>1, <2>2, <2>3
  <2>6. \A j \in 1..place - 1 : (front \o one)[j] = s[j]
    BY <1>1, <1>2, <2>1, <2>2
  <2>7. Len(front \o one) = place
    BY <1>1, <1>2, <2>1, <2>2
  <2> HIDE DEF most
  <2>8. QED
    BY <2>2, <2>4, <2>5, <2>6, <2>7
<1> HIDE DEF most
<1>5. /\ most \o back \in Seq(T) /\ Len(most \o back) = Len(most) + Len(back)
      /\ \A j \in 1..Len(most) + Len(back) :
           (most \o back)[j] = IF j <= Len(most) THEN most[j] ELSE back[j - Len(most)]
  BY <1>3, <1>4, ConcatProperties
<1>6. InsertAt(s, place, e) = most \o back
  BY DEF InsertAt, front, back, most
<1>7. Len(most \o back) = Len(s) + 1
  BY <1>1, <1>3, <1>4, <1>5
<1>8. \A j \in 1..place : (most \o back)[j] = most[j]
  BY <1>1, <1>3, <1>4, <1>5
<1>9. ASSUME NEW j \in place..Len(s)
      PROVE  (most \o back)[j + 1] = s[j]
  <2>1. /\ j + 1 \in 1..Len(most) + Len(back) /\ ~(j + 1 <= Len(most))
        /\ j + 1 - Len(most) \in 1..Len(s) - place + 1
        /\ place + (j + 1 - Len(most)) - 1 = j
    BY <1>1, <1>3, <1>4
  <2>2. (most \o back)[j + 1] = back[j + 1 - Len(most)]
    BY <1>5, <2>1
  <2>3. back[j + 1 - Len(most)] = s[place + (j + 1 - Len(most)) - 1]
    BY <1>3, <2>1
  <2>4. QED
    BY <2>1, <2>2, <2>3
<1>10. QED
  BY <1>1, <1>4, <1>5, <1>6, <1>7, <1>8, <1>9

LEMMA RemoveAtIs ==
  ASSUME NEW T, NEW s \in Seq(T), NEW place \in 1..Len(s)
  PROVE  /\ RemoveAt(s, place) \in Seq(T) /\ Len(RemoveAt(s, place)) = Len(s) - 1
         /\ \A j \in 1..place - 1 : RemoveAt(s, place)[j] = s[j]
         /\ \A j \in place..Len(s) - 1 : RemoveAt(s, place)[j] = s[j + 1]
<1> DEFINE front == SubSeq(s, 1, place - 1)
           back == SubSeq(s, place + 1, Len(s))
<1>1. Len(s) \in Nat
  BY LenProperties
<1>2. /\ front \in Seq(T) /\ Len(front) = place - 1
      /\ \A j \in 1..place - 1 : front[j] = s[j]
  BY <1>1
<1>3. /\ back \in Seq(T) /\ Len(back) = Len(s) - place
      /\ \A j \in 1..Len(s) - place : back[j] = s[place + j]
  BY <1>1
<1> HIDE DEF front, back
<1>4. RemoveAt(s, place) = front \o back
  BY DEF RemoveAt, front, back
<1>5. /\ front \o back \in Seq(T) /\ Len(front \o back) = Len(front) + Len(back)
      /\ \A j \in 1..Len(front) + Len(back) :
           (front \o back)[j] = IF j <= Len(front) THEN front[j] ELSE back[j - Len(front)]
  BY <1>2, <1>3, ConcatProperties
<1>6. Len(front \o back) = Len(s) - 1
  BY <1>1, <1>2, <1>3, <1>5
<1>7. \A j \in 1..place - 1 : (front \o back)[j] = s[j]
  BY <1>1, <1>2, <1>3, <1>5
<1>8. ASSUME NEW j \in place..Len(s) - 1
      PROVE  (front \o back)[j] = s[j + 1]
  <2>1. /\ j \in 1..Len(front) + Len(back) /\ ~(j <= Len(front))
        /\ j - Len(front) \in 1..Len(s) - place
        /\ place + (j - Len(front)) = j + 1
    BY <1>1, <1>2, <1>3
  <2>2. (front \o back)[j] = back[j - Len(front)]
    BY <1>5, <2>1
  <2>3. back[j - Len(front)] = s[place + (j - Len(front))]
    BY <1>3, <2>1
  <2>4. QED
    BY <2>1, <2>2, <2>3
<1>9. QED
  BY <1>4, <1>5, <1>6, <1>7, <1>8

\* What is given for the members of a finite set is finite.
LEMMA LowerBoundIs ==
  ASSUME NEW nicks, IsSequence(nicks), NEW e
  PROVE  /\ LowerBound(nicks, e) \in 1..Len(nicks) + 1
         /\ \A j \in 1..LowerBound(nicks, e) - 1 : Precedes(nicks[j], e)
         /\ LowerBound(nicks, e) <= Len(nicks) => ~Precedes(nicks[LowerBound(nicks, e)], e)
<1> DEFINE S == {j \in 1..Len(nicks) + 1 : j > Len(nicks) \/ ~Precedes(nicks[j], e)}
<1>1. Len(nicks) \in Nat
  BY SequenceHas
<1>2. S \in SUBSET Nat /\ Len(nicks) + 1 \in S
  BY <1>1
<1>3. Min(S) \in S /\ \A j \in S : Min(S) =< j
  BY <1>2, MinIsIn
<1> DEFINE place == Min(S)
<1>4. LowerBound(nicks, e) = place
  BY DEF LowerBound
<1> HIDE DEF place
<1>5. place \in S /\ \A j \in S : place =< j
  BY <1>3 DEF place
<1>6. \A j \in 1..place - 1 : Precedes(nicks[j], e)
  <2>1. \A j \in 1..place - 1 : j \in 1..Len(nicks) + 1 /\ j \notin S
    BY <1>1, <1>5
  <2>2. QED
    BY <2>1
<1>7. QED
  BY <1>1, <1>4, <1>5, <1>6

LEMMA ImageIsFinite ==
  ASSUME NEW S, IsFiniteSet(S), NEW f, DOMAIN f = S
  PROVE  IsFiniteSet({f[x] : x \in S})
<1> DEFINE T == {f[x] : x \in S}
           g == [x \in S |-> f[x]]
<1>1. g \in [S -> T] /\ \A t \in T : \E x \in S : g[x] = t
  OBVIOUS
<1>2. g \in Surjection(S, T)
  BY <1>1 DEF Surjection
<1>3. QED
  BY <1>2, FS_Surjection

\* The entries SetToSeq lists are each listed once.
LEMMA SetToSeqHas ==
  ASSUME NEW S, IsFiniteSet(S)
  PROVE  /\ SetToSeq(S) \in Seq(S)
         /\ \A i, j \in DOMAIN SetToSeq(S) : SetToSeq(S)[i] = SetToSeq(S)[j] => i = j
         /\ \A e \in S : \E i \in DOMAIN SetToSeq(S) : SetToSeq(S)[i] = e
<1> DEFINE n == Cardinality(S)
<1>1. n \in Nat /\ ExistsBijection(1..n, S)
  BY FS_CardinalityType
<1>2. \E f \in [1..n -> S] : IsInjective(f)
  BY <1>1, Zenon DEF ExistsBijection, Bijection, Injection
<1>3. SetToSeq(S) \in [1..n -> S] /\ IsInjective(SetToSeq(S))
  BY <1>2, Zenon DEF SetToSeq
<1> DEFINE s == SetToSeq(S)
<1> HIDE DEF s
<1>4. s \in [1..n -> S] /\ IsInjective(s)
  BY <1>3 DEF s
<1>5. s \in Seq(S)
  BY <1>1, <1>4, SeqDef
<1>6. \A i, j \in DOMAIN s : s[i] = s[j] => i = j
  BY <1>4 DEF IsInjective
<1>7. s \in Surjection(1..n, S)
  <2>1. s \in Injection(1..n, S)
    BY <1>4 DEF Injection
  <2>2. Cardinality(1..n) = n
    BY <1>1, FS_Interval, 1 \in Int, n \in Int
  <2>3. QED
    BY <2>1, <2>2, FS_Injection
<1>8. \A e \in S : \E i \in DOMAIN s : s[i] = e
  BY <1>4, <1>7 DEF Surjection
<1>9. QED
  BY <1>5, <1>6, <1>8 DEF s

LEMMA NicksFinite == \A S \in SUBSET Nicks : IsFiniteSet(S)
BY NickAssumption, FS_Subset

----------------------------------------------------------------------------
(* The index.                                                              *)

LEMMA PlacesAreHome ==
  ASSUME NEW nicks, IsSequence(nicks), NEW i \in Nat \ {0}
  PROVE  /\ DOMAIN PlacesFrom(nicks, i) = {nicks[j].nick : j \in i..Len(nicks)}
         /\ \A n \in DOMAIN PlacesFrom(nicks, i) :
              /\ PlacesFrom(nicks, i)[n] \in DOMAIN nicks
              /\ nicks[PlacesFrom(nicks, i)[n]].nick = n
<1>1. Len(nicks) \in Nat /\ DOMAIN nicks = 1..Len(nicks)
  BY SequenceHas
<1>2. DOMAIN PlacesFrom(nicks, i) = {nicks[j].nick : j \in i..Len(nicks)}
  BY DEF PlacesFrom
<1>3. ASSUME NEW n \in DOMAIN PlacesFrom(nicks, i)
      PROVE  /\ PlacesFrom(nicks, i)[n] \in DOMAIN nicks
             /\ nicks[PlacesFrom(nicks, i)[n]].nick = n
  <2> DEFINE at == {j \in i..Len(nicks) : nicks[j].nick = n}
  <2>1. PlacesFrom(nicks, i)[n] = Max(at)
    BY <1>2 DEF PlacesFrom
  <2>2. at \in SUBSET (0..Len(nicks)) /\ at \subseteq 1..Len(nicks)
    BY <1>1
  <2>3. at # {}
    BY <1>2
  <2>4. Max(at) \in at
    <3> HIDE DEF at
    <3>1. QED
      BY <1>1, <2>2, <2>3, MaxIsIn
  <2>5. QED
    BY <1>1, <2>1, <2>2, <2>4
<1>4. QED
  BY <1>2, <1>3

LEMMA RebuiltOK ==
  ASSUME NEW nicks, IsSequence(nicks)
  PROVE  ListOK(Rebuilt(nicks))
<1>1. \A n \in DOMAIN PlacesFrom(nicks, 1) :
        /\ PlacesFrom(nicks, 1)[n] \in DOMAIN nicks
        /\ nicks[PlacesFrom(nicks, 1)[n]].nick = n
  BY PlacesAreHome, 1 \in Nat \ {0}
<1>2. /\ Rebuilt(nicks).nicks = nicks /\ Rebuilt(nicks).index = PlacesFrom(nicks, 1)
      /\ Rebuilt(nicks) = [nicks |-> Rebuilt(nicks).nicks, index |-> Rebuilt(nicks).index]
  BY DEF Rebuilt
<1>3. QED
  BY <1>1, <1>2 DEF ListOK, Home

LEMMA SortedOK ==
  ASSUME NEW nicks, IsSequence(nicks)
  PROVE  ListOK(Sorted(nicks))
<1> DEFINE at(k) == CHOOSE i \in DOMAIN nicks : Cardinality(Before(nicks, i)) = k - 1
           s == [k \in DOMAIN nicks |-> nicks[at(k)]]
<1>1. Len(nicks) \in Nat /\ DOMAIN nicks = 1..Len(nicks)
  BY SequenceHas
<1>2. s \in [1..Len(nicks) -> {nicks[at(k)] : k \in DOMAIN nicks}]
  BY <1>1
<1>3. IsSequence(s)
  BY <1>1, <1>2, FunctionIsSequence
<1>4. Sorted(nicks) = Rebuilt(s)
  BY DEF Sorted
<1>5. QED
  BY <1>3, <1>4, RebuiltOK

\* The index is right again if the nicks it had behind i are found behind i.
LEMMA ReindexOK ==
  ASSUME NEW list, NEW i \in Nat \ {0},
         list = [nicks |-> list.nicks, index |-> list.index], IsSequence(list.nicks),
         \A n \in DOMAIN list.index :
           Home(list, n) \/ n \in {list.nicks[j].nick : j \in i..Len(list.nicks)}
  PROVE  ListOK(ReindexFrom(list, i))
<1> DEFINE behind == PlacesFrom(list.nicks, i)
           index == [n \in DOMAIN list.index \cup DOMAIN behind |->
                       IF n \in DOMAIN behind THEN behind[n] ELSE list.index[n]]
<1>1. /\ DOMAIN behind = {list.nicks[j].nick : j \in i..Len(list.nicks)}
      /\ \A n \in DOMAIN behind : behind[n] \in DOMAIN list.nicks
                                  /\ list.nicks[behind[n]].nick = n
  BY PlacesAreHome
<1> HIDE DEF behind
<1>2. ASSUME NEW n \in DOMAIN index
      PROVE  index[n] \in DOMAIN list.nicks /\ list.nicks[index[n]].nick = n
  <2>1. CASE n \in DOMAIN behind
    BY <1>1, <2>1
  <2>2. CASE n \notin DOMAIN behind
    BY <1>1, <2>2 DEF Home
  <2>3. QED
    BY <2>1, <2>2
<1>3. ReindexFrom(list, i) = [nicks |-> list.nicks, index |-> index]
  <2>1. ReindexFrom(list, i) = [list EXCEPT !.index = index]
    BY DEF ReindexFrom, behind
  <2>2. QED
    BY <2>1
<1> HIDE DEF index
<1>4. QED
  BY <1>2, <1>3 DEF ListOK, Home

----------------------------------------------------------------------------
(* The operations keep the index right.                                    *)

LEMMA NoNicksOK == ListOK(NoNicks)
<1>1. IsSequence(<<>>)
  BY EmptySeq DEF IsSequence
<1>2. QED
  BY <1>1 DEF NoNicks, ListOK

LEMMA AddNickOK ==
  ASSUME NEW list, ListOK(list), NEW n
  PROVE  ListOK(AddNick(list, n))
<1> DEFINE nicks == list.nicks
           place == LowerBound(nicks, Plain(n))
           longer == InsertAt(nicks, place, Plain(n))
           T == {nicks[j] : j \in DOMAIN nicks} \cup {Plain(n)}
<1>1. Len(nicks) \in Nat /\ DOMAIN nicks = 1..Len(nicks)
  BY SequenceHas DEF ListOK
<1>2. place \in 1..Len(nicks) + 1
  BY LowerBoundIs DEF ListOK
<1>3. nicks \in Seq(T)
  <2>1. nicks \in Seq({nicks[j] : j \in DOMAIN nicks})
    BY DEF ListOK, IsSequence
  <2>2. QED
    BY <2>1, SeqMonotonic
<1> HIDE DEF place, T
<1>4. Plain(n) \in T
  BY DEF T
<1>5. /\ longer \in Seq(T) /\ Len(longer) = Len(nicks) + 1
      /\ \A j \in 1..place - 1 : longer[j] = nicks[j]
      /\ longer[place] = Plain(n)
      /\ \A j \in place..Len(nicks) : longer[j + 1] = nicks[j]
  <2> HIDE DEF nicks
  <2>1. longer \in Seq(T)
    BY <1>2, <1>3, <1>4, InsertAtIs
  <2>2. Len(longer) = Len(nicks) + 1
    BY <1>2, <1>3, <1>4, InsertAtIs
  <2>3. \A j \in 1..place - 1 : longer[j] = nicks[j]
    BY <1>2, <1>3, <1>4, InsertAtIs
  <2>4. longer[place] = Plain(n)
    BY <1>2, <1>3, <1>4, InsertAtIs
  <2>5. \A j \in place..Len(nicks) : longer[j + 1] = nicks[j]
    BY <1>2, <1>3, <1>4, InsertAtIs
  <2>6. QED
    BY <2>1, <2>2, <2>3, <2>4, <2>5
<1> HIDE DEF longer
<1> DEFINE new == [list EXCEPT !.nicks = longer]
<1>6. new = [nicks |-> longer, index |-> list.index]
  BY DEF ListOK
<1>7. IsSequence(longer)
  BY <1>5, SequenceOf
<1>8. ASSUME NEW m \in DOMAIN new.index
       PROVE  Home(new, m) \/ m \in {new.nicks[j].nick : j \in place..Len(new.nicks)}
  <2>1. /\ new.index[m] = list.index[m] /\ list.index[m] \in 1..Len(nicks)
        /\ nicks[list.index[m]].nick = m
    BY <1>1, <1>6 DEF ListOK, Home
  <2>2. CASE list.index[m] < place
    <3>1. list.index[m] \in 1..place - 1 /\ list.index[m] \in 1..Len(longer)
      BY <1>1, <1>2, <1>5, <2>1, <2>2
    <3>2. longer[list.index[m]] = nicks[list.index[m]]
      BY <1>5, <3>1
    <3>3. DOMAIN longer = 1..Len(longer)
      BY <1>7, SequenceHas
    <3>4. QED
      BY <1>6, <2>1, <3>1, <3>2, <3>3 DEF Home
  <2>3. CASE ~(list.index[m] < place)
    <3>1. list.index[m] \in place..Len(nicks) /\ list.index[m] + 1 \in place..Len(longer)
      BY <1>1, <1>2, <1>5, <2>1, <2>3
    <3>2. longer[list.index[m] + 1].nick = m
      BY <1>5, <2>1, <3>1
    <3>3. QED
      BY <1>6, <3>1, <3>2
  <2>4. QED
    BY <2>2, <2>3
<1>9. ListOK(ReindexFrom(new, place))
  <2>1. place \in Nat \ {0}
    BY <1>1, <1>2
  <2>2. new = [nicks |-> new.nicks, index |-> new.index] /\ IsSequence(new.nicks)
    BY <1>6, <1>7
  <2> HIDE DEF new
  <2>3. QED
    BY <1>8, <2>1, <2>2, ReindexOK
<1>10. AddNick(list, n) \in {list, ReindexFrom(new, place)}
  BY DEF AddNick, place, longer
<1>11. QED
  BY <1>9, <1>10

LEMMA SetNicksOK ==
  ASSUME NEW names, IsFiniteSet(DOMAIN names)
  PROVE  ListOK(SetNicks({[nick |-> n, prefixes |-> names[n]] : n \in DOMAIN names}))
<1> DEFINE f == [n \in DOMAIN names |-> [nick |-> n, prefixes |-> names[n]]]
           entries == {[nick |-> n, prefixes |-> names[n]] : n \in DOMAIN names}
<1>1. entries = {f[n] : n \in DOMAIN names}
  OBVIOUS
<1>2. IsFiniteSet(entries)
  <2> HIDE DEF entries
  <2>1. DOMAIN f = DOMAIN names
    OBVIOUS
  <2> HIDE DEF f
  <2>2. QED
    BY <1>1, <2>1, ImageIsFinite
<1> HIDE DEF entries
<1>3. IsSequence(SetToSeq(entries))
  BY <1>2, SetToSeqHas, SequenceOf
<1>4. ListOK(SetNicks(entries))
  BY <1>3, SortedOK DEF SetNicks
<1>5. QED
  BY <1>4 DEF entries

LEMMA AddNicksOK ==
  ASSUME NEW list, ListOK(list), NEW new, IsFiniteSet(new)
  PROVE  ListOK(AddNicks(list, new))
<1> DEFINE lacking == {m \in new : ~Has(list, m)}
           f == [n \in lacking |-> Plain(n)]
           missing == {Plain(n) : n \in lacking}
<1>1. IsFiniteSet(lacking)
  BY FS_Subset
<1>2. IsFiniteSet(missing)
  <2> HIDE DEF lacking
  <2>1. missing = {f[n] : n \in lacking} /\ DOMAIN f = lacking
    OBVIOUS
  <2> HIDE DEF missing, f
  <2>2. QED
    BY <1>1, <2>1, ImageIsFinite
<1> HIDE DEF missing
<1>3. IsSequence(SetToSeq(missing)) /\ IsSequence(list.nicks)
  BY <1>2, SetToSeqHas, SequenceOf DEF ListOK
<1> DEFINE s == SetToSeq(missing)
           T == {s[i] : i \in DOMAIN s} \cup {list.nicks[i] : i \in DOMAIN list.nicks}
<1> HIDE DEF s
<1>4. s \in Seq(T) /\ list.nicks \in Seq(T)
  <2>1. s \in Seq({s[i] : i \in DOMAIN s})
    BY <1>3 DEF IsSequence, s
  <2>2. list.nicks \in Seq({list.nicks[i] : i \in DOMAIN list.nicks})
    BY <1>3 DEF IsSequence
  <2>3. QED
    BY <2>1, <2>2, SeqMonotonic
<1>5. list.nicks \o s \in Seq(T)
  <2> HIDE DEF T
  <2>1. QED
    BY <1>4, ConcatProperties
<1>6. ListOK(Sorted(list.nicks \o s))
  BY <1>5, SequenceOf, SortedOK
<1>7. AddNicks(list, new) \in {list, Sorted(list.nicks \o s)}
  BY DEF AddNicks, missing, s
<1>8. QED
  BY <1>6, <1>7

LEMMA RemoveNickOK ==
  ASSUME NEW list, ListOK(list), NEW n
  PROVE  ListOK(RemoveNick(list, n))
<1> SUFFICES ASSUME Has(list, n)
             PROVE  ListOK(RemoveNick(list, n))
  BY DEF RemoveNick
<1> DEFINE nicks == list.nicks
           place == list.index[n]
           shorter == RemoveAt(nicks, place)
           index == [m \in DOMAIN list.index \ {n} |-> list.index[m]]
           new == [nicks |-> shorter, index |-> index]
           T == {nicks[j] : j \in DOMAIN nicks}
<1>1. Len(nicks) \in Nat /\ DOMAIN nicks = 1..Len(nicks) /\ nicks \in Seq(T)
  BY SequenceHas DEF ListOK, IsSequence
<1>2. place \in 1..Len(nicks) /\ nicks[place].nick = n
  BY <1>1 DEF ListOK, Home, Has
<1> HIDE DEF place, T
<1> DEFINE front == SubSeq(nicks, 1, place - 1)
           back == SubSeq(nicks, place + 1, Len(nicks))
<1>3. /\ front \in Seq(T) /\ Len(front) = place - 1
      /\ \A j \in 1..place - 1 : front[j] = nicks[j]
  BY <1>1, <1>2
<1>4. /\ back \in Seq(T) /\ Len(back) = Len(nicks) - place
      /\ \A j \in 1..Len(nicks) - place : back[j] = nicks[place + j]
  BY <1>1, <1>2
<1> HIDE DEF front, back
<1>5. shorter = front \o back
  BY DEF RemoveAt, front, back
<1> HIDE DEF shorter
<1>6. /\ shorter \in Seq(T) /\ Len(shorter) = Len(front) + Len(back)
      /\ \A j \in 1..Len(front) + Len(back) :
           shorter[j] = IF j <= Len(front) THEN front[j] ELSE back[j - Len(front)]
  BY <1>3, <1>4, <1>5, ConcatProperties
<1>7. Len(shorter) = Len(nicks) - 1
  BY <1>1, <1>2, <1>3, <1>4, <1>6
<1>8. ASSUME NEW j \in 1..place - 1
      PROVE  shorter[j] = nicks[j]
  <2>1. j \in 1..Len(front) + Len(back) /\ j <= Len(front)
    BY <1>1, <1>2, <1>3, <1>4
  <2>2. QED
    BY <1>3, <1>6, <2>1
<1>9. ASSUME NEW j \in place + 1..Len(nicks)
      PROVE  shorter[j - 1] = nicks[j]
  <2>1. /\ j - 1 \in 1..Len(front) + Len(back) /\ ~(j - 1 <= Len(front))
        /\ j - 1 - Len(front) \in 1..Len(nicks) - place
        /\ place + (j - 1 - Len(front)) = j
    BY <1>1, <1>2, <1>3, <1>4
  <2>2. shorter[j - 1] = back[j - 1 - Len(front)]
    BY <1>6, <2>1
  <2>3. back[j - 1 - Len(front)] = nicks[place + (j - 1 - Len(front))]
    BY <1>4, <2>1
  <2>4. QED
    BY <2>1, <2>2, <2>3
<1>10. IsSequence(shorter)
  BY <1>6, SequenceOf
<1>11. ASSUME NEW m \in DOMAIN index
       PROVE  Home(new, m) \/ m \in {shorter[j].nick : j \in place..Len(shorter)}
  <2>1. /\ m # n /\ index[m] = list.index[m] /\ list.index[m] \in 1..Len(nicks)
        /\ nicks[list.index[m]].nick = m
    BY <1>1 DEF ListOK, Home
  <2>2. list.index[m] # place
    BY <1>2, <2>1
  <2>3. CASE list.index[m] < place
    <3>1. list.index[m] \in 1..place - 1 /\ list.index[m] \in 1..Len(shorter)
      BY <1>1, <1>2, <1>7, <2>1, <2>3
    <3>2. shorter[list.index[m]] = nicks[list.index[m]]
      BY <1>8, <3>1
    <3>3. DOMAIN shorter = 1..Len(shorter)
      BY <1>10, SequenceHas
    <3>4. QED
      BY <2>1, <3>1, <3>2, <3>3 DEF Home
  <2>4. CASE ~(list.index[m] < place)
    <3>1. list.index[m] \in place + 1..Len(nicks)
          /\ list.index[m] - 1 \in place..Len(shorter)
      BY <1>1, <1>2, <1>7, <2>1, <2>2, <2>4
    <3>2. shorter[list.index[m] - 1].nick = m
      BY <1>9, <2>1, <3>1
    <3>3. QED
      BY <3>1, <3>2
  <2>5. QED
    BY <2>3, <2>4
<1> HIDE DEF index
<1>12. ListOK(ReindexFrom(new, place))
  <2>1. place \in Nat \ {0}
    BY <1>1, <1>2
  <2>2. /\ new = [nicks |-> new.nicks, index |-> new.index]
        /\ new.nicks = shorter /\ new.index = index
    OBVIOUS
  <2> HIDE DEF new
  <2>3. QED
    BY <1>10, <1>11, <2>1, <2>2, ReindexOK
<1>13. RemoveNick(list, n) = ReindexFrom(new, place)
  BY DEF RemoveNick, place, shorter, index
<1>14. QED
  BY <1>12, <1>13

LEMMA RemoveNicksOK ==
  ASSUME NEW list, ListOK(list), NEW gone
  PROVE  ListOK(RemoveNicks(list, gone))
<1> DEFINE kept == {i \in DOMAIN list.nicks : list.nicks[i].nick \notin gone}
           from(k) == CHOOSE i \in kept : Cardinality({j \in kept : j < i}) = k - 1
           s == [k \in 1..Cardinality(kept) |-> list.nicks[from(k)]]
<1>1. Len(list.nicks) \in Nat /\ DOMAIN list.nicks = 1..Len(list.nicks)
  BY SequenceHas DEF ListOK
<1>2. IsFiniteSet(kept)
  <2>1. kept \in SUBSET (1..Len(list.nicks))
    BY <1>1
  <2>2. IsFiniteSet(1..Len(list.nicks))
    BY <1>1, FS_Interval, 1 \in Int, Len(list.nicks) \in Int
  <2> HIDE DEF kept
  <2>3. QED
    BY <2>1, <2>2, FS_Subset
<1>3. Cardinality(kept) \in Nat
  BY <1>2, FS_CardinalityType
<1>4. s \in [1..Cardinality(kept) -> {list.nicks[from(k)] : k \in 1..Cardinality(kept)}]
  OBVIOUS
<1>5. IsSequence(s)
  BY <1>3, <1>4, FunctionIsSequence
<1>6. RemoveNicks(list, gone) = Rebuilt(s)
  BY DEF RemoveNicks
<1>7. QED
  BY <1>5, <1>6, RebuiltOK

\* A list with one entry changed, sorted again.
LEMMA ChangedOK ==
  ASSUME NEW nicks, IsSequence(nicks), NEW s,
         s = [i \in DOMAIN nicks |-> s[i]]
  PROVE  ListOK(Sorted(s))
<1>1. Len(nicks) \in Nat /\ DOMAIN nicks = 1..Len(nicks)
  BY SequenceHas
<1>2. s \in [1..Len(nicks) -> {s[i] : i \in DOMAIN nicks}]
  BY <1>1
<1>3. QED
  BY <1>1, <1>2, FunctionIsSequence, SortedOK

LEMMA RenameNickOK ==
  ASSUME NEW list, ListOK(list), NEW n, NEW m
  PROVE  ListOK(RenameNick(list, n, m))
<1> DEFINE s == [list.nicks EXCEPT ![list.index[n]].nick = m]
<1>1. s = [i \in DOMAIN list.nicks |-> s[i]] /\ IsSequence(list.nicks)
  BY DEF ListOK
<1>2. RenameNick(list, n, m) \in {list, Sorted(s)}
  BY DEF RenameNick
<1> HIDE DEF s
<1>3. QED
  BY <1>1, <1>2, ChangedOK

LEMMA SetPrefixesOK ==
  ASSUME NEW list, ListOK(list), NEW line
  PROVE  ListOK(SetPrefixes(list, line))
<1> DEFINE s == [j \in DOMAIN list.nicks |->
                   [list.nicks[j] EXCEPT !.prefixes = Applied(line, HitsOf(list, line, j), @)]]
<1>1. s = [j \in DOMAIN list.nicks |-> s[j]] /\ IsSequence(list.nicks)
  BY DEF ListOK
<1>2. SetPrefixes(list, line) = Sorted(s)
  BY DEF SetPrefixes
<1> HIDE DEF s
<1>3. QED
  BY <1>1, <1>2, ChangedOK

----------------------------------------------------------------------------
(* The order of the entries, and of their places.                          *)

\* The highest prefix is a number, whatever the set of prefixes.
LEMMA PrefixIs ==
  ASSUME NEW e \in NickEntry
  PROVE  Prefix(e) \in Nat
<1> DEFINE S == e.prefixes \cup {0}
<1>1. S \in SUBSET (0..5) /\ S # {}
  <2>1. e.prefixes \in SUBSET Ranks
    BY DEF NickEntry
  <2>2. \A r \in Ranks : r \in 1..5
    BY NickAssumption
  <2>3. QED
    BY <2>1, <2>2
<1> HIDE DEF S
<1>2. Max(S) \in S
  BY <1>1, MaxIsIn, 5 \in Nat
<1>3. QED
  BY <1>1, <1>2 DEF Prefix, S

\* operator< is a strict order, of all but those of one nick and one prefix.
LEMMA PrecedesIsOrder ==
  ASSUME NEW e \in NickEntry, NEW f \in NickEntry
  PROVE  /\ ~(Precedes(e, f) /\ Precedes(f, e))
         /\ Precedes(e, f) \/ Precedes(f, e) \/ e.nick = f.nick
         /\ \A g \in NickEntry : Precedes(e, f) /\ Precedes(f, g) => Precedes(e, g)
<1>1. /\ Prefix(e) \in Nat /\ Prefix(f) \in Nat /\ e.nick \in Nat /\ f.nick \in Nat
      /\ \A g \in NickEntry : Prefix(g) \in Nat /\ g.nick \in Nat
  BY PrefixIs, NickAssumption DEF NickEntry
<1>2. QED
  BY <1>1 DEF Precedes

\* Before orders the places of a list.
LEMMA BeforeIsOrder ==
  ASSUME NEW nicks \in Seq(NickEntry)
  PROVE  /\ \A i \in DOMAIN nicks : i \notin Before(nicks, i)
         /\ \A i, j \in DOMAIN nicks : i # j => i \in Before(nicks, j) \/ j \in Before(nicks, i)
         /\ \A i, j \in DOMAIN nicks :
              j \in Before(nicks, i) => Before(nicks, j) \subseteq Before(nicks, i)
<1> DEFINE P(i) == Prefix(nicks[i])
           N(i) == nicks[i].nick
<1>1. \A i \in DOMAIN nicks : i \in Nat /\ nicks[i] \in NickEntry
  OBVIOUS
<1>2. \A i \in DOMAIN nicks : i \in Nat /\ P(i) \in Nat /\ N(i) \in Nat
  BY <1>1, PrefixIs, NickAssumption DEF NickEntry
<1>3. \A i \in DOMAIN nicks : Before(nicks, i) =
        {j \in DOMAIN nicks : \/ P(j) > P(i)
                              \/ P(j) = P(i) /\ (N(j) < N(i) \/ (N(j) = N(i) /\ j < i))}
  <2> SUFFICES ASSUME NEW i \in DOMAIN nicks, NEW j \in DOMAIN nicks
               PROVE  j \in Before(nicks, i) <=>
                        (\/ P(j) > P(i)
                         \/ P(j) = P(i) /\ (N(j) < N(i) \/ (N(j) = N(i) /\ j < i)))
    BY DEF Before
  <2>1. j \in Before(nicks, i) <=>
          Precedes(nicks[j], nicks[i]) \/ (j < i /\ ~Precedes(nicks[i], nicks[j]))
    BY DEF Before
  <2>2. Precedes(nicks[j], nicks[i]) <=> P(j) > P(i) \/ (P(j) = P(i) /\ N(j) < N(i))
    BY DEF Precedes
  <2>3. Precedes(nicks[i], nicks[j]) <=> P(i) > P(j) \/ (P(i) = P(j) /\ N(i) < N(j))
    BY DEF Precedes
  <2> HIDE DEF P, N
  <2>4. QED
    BY <1>2, <2>1, <2>2, <2>3
<1> HIDE DEF P, N
<1>4. QED
  BY <1>2, <1>3

\* The members of a finite set in the places an order gives them: before[i] is
\* what goes before i.
LEMMA Ranked ==
  ASSUME NEW D, IsFiniteSet(D), NEW before \in [D -> SUBSET D],
         \A i \in D : i \notin before[i],
         \A i, j \in D : i # j => i \in before[j] \/ j \in before[i],
         \A i, j \in D : j \in before[i] => before[j] \subseteq before[i]
  PROVE  /\ Cardinality(D) \in Nat
         /\ \A i \in D : Cardinality(before[i]) \in 0..Cardinality(D) - 1
         /\ \A i, j \in D : j \in before[i] => Cardinality(before[j]) < Cardinality(before[i])
         /\ \A i, j \in D : Cardinality(before[i]) = Cardinality(before[j]) => i = j
         /\ \A k \in 0..Cardinality(D) - 1 : \E i \in D : Cardinality(before[i]) = k
<1> DEFINE rank == [i \in D |-> Cardinality(before[i])]
           n == Cardinality(D)
<1>1. n \in Nat
  BY FS_CardinalityType
<1>2. \A i \in D : IsFiniteSet(before[i]) /\ Cardinality(before[i]) \in Nat
  BY FS_Subset, FS_CardinalityType
<1>3. ASSUME NEW i \in D
      PROVE  Cardinality(before[i]) < n
  <2>1. before[i] \in SUBSET D /\ before[i] # D
    OBVIOUS
  <2>2. Cardinality(before[i]) <= n /\ Cardinality(before[i]) # n
    BY <2>1, FS_Subset
  <2>3. QED
    BY <1>1, <1>2, <2>2
<1>4. ASSUME NEW i \in D, NEW j \in D, j \in before[i]
      PROVE  Cardinality(before[j]) < Cardinality(before[i])
  <2>1. before[j] \in SUBSET before[i] /\ before[j] # before[i]
    BY <1>4
  <2>2. /\ Cardinality(before[j]) <= Cardinality(before[i])
        /\ Cardinality(before[j]) # Cardinality(before[i])
    BY <1>2, <2>1, FS_Subset
  <2>3. QED
    BY <1>2, <2>2
<1>5. \A i, j \in D : Cardinality(before[i]) = Cardinality(before[j]) => i = j
  BY <1>2, <1>4
<1>6. \A k \in 0..n - 1 : \E i \in D : Cardinality(before[i]) = k
  <2>1. rank \in Injection(D, 0..n - 1)
    <3>1. rank \in [D -> 0..n - 1]
      BY <1>1, <1>2, <1>3
    <3>2. QED
      BY <1>5, <3>1 DEF Injection, IsInjective
  <2>2. IsFiniteSet(0..n - 1) /\ Cardinality(0..n - 1) = n
    BY <1>1, FS_Interval, 0 \in Int, n - 1 \in Int
  <2>3. rank \in Surjection(D, 0..n - 1)
    <3> HIDE DEF rank
    <3>1. QED
      BY <2>1, <2>2, FS_Injection
  <2>4. QED
    BY <2>3 DEF Surjection
<1>7. QED
  BY <1>1, <1>2, <1>3, <1>4, <1>5, <1>6

----------------------------------------------------------------------------
(* A list that has who is there, and its sorting.                          *)

\* No nick has two entries.
Once(nicks) ==
  \A i, j \in DOMAIN nicks : nicks[i].nick = nicks[j].nick => i = j

InOrder(nicks) ==
  \A i, j \in DOMAIN nicks : i < j => Precedes(nicks[i], nicks[j])

\* The entries are those of the roster r.
Tells(nicks, r) ==
  /\ Once(nicks)
  /\ \A i \in DOMAIN nicks : nicks[i].nick \in DOMAIN r /\ nicks[i].prefixes = r[nicks[i].nick]
  /\ \A n \in DOMAIN r : \E i \in DOMAIN nicks : nicks[i].nick = n

Lists(list, r) == Tells(list.nicks, r) /\ InOrder(list.nicks) /\ DOMAIN list.index = DOMAIN r

LEMMA ListTyped ==
  ASSUME NEW nicks \in Seq(NickEntry)
  PROVE  /\ Len(nicks) \in Nat /\ DOMAIN nicks = 1..Len(nicks) /\ IsFiniteSet(DOMAIN nicks)
         /\ \A i \in DOMAIN nicks : nicks[i] \in NickEntry /\ nicks[i].nick \in Nicks
<1>1. Len(nicks) \in Nat /\ DOMAIN nicks = 1..Len(nicks)
  BY LenProperties
<1>2. IsFiniteSet(1..Len(nicks))
  BY <1>1, FS_Interval, 1 \in Int, Len(nicks) \in Int
<1>3. \A i \in DOMAIN nicks : nicks[i] \in NickEntry /\ nicks[i].nick \in Nicks
  <2>1. \A i \in DOMAIN nicks : nicks[i] \in NickEntry
    OBVIOUS
  <2>2. \A e \in NickEntry : e.nick \in Nicks
    BY DEF NickEntry
  <2>3. QED
    BY <2>1, <2>2
<1>4. QED
  BY <1>1, <1>2, <1>3

LEMMA IndexOf ==
  ASSUME NEW nicks \in Seq(NickEntry)
  PROVE  /\ Rebuilt(nicks).nicks = nicks
         /\ DOMAIN Rebuilt(nicks).index = {nicks[j].nick : j \in DOMAIN nicks}
         /\ IsNickList(Rebuilt(nicks))
<1>1. DOMAIN PlacesFrom(nicks, 1) = {nicks[j].nick : j \in 1..Len(nicks)}
  BY DEF PlacesFrom
<1>2. QED
  BY <1>1, ListTyped DEF Rebuilt, IsNickList

\* Sorting moves the entries to the places Before gives them.
LEMMA SortedIs ==
  ASSUME NEW nicks \in Seq(NickEntry)
  PROVE  /\ IsNickList(Sorted(nicks)) /\ DOMAIN Sorted(nicks).nicks = DOMAIN nicks
         /\ DOMAIN Sorted(nicks).index
              = {Sorted(nicks).nicks[k].nick : k \in DOMAIN Sorted(nicks).nicks}
         /\ \E p \in [DOMAIN nicks -> DOMAIN nicks] :
              /\ \A k \in DOMAIN nicks : Sorted(nicks).nicks[k] = nicks[p[k]]
              /\ \A i \in DOMAIN nicks : \E k \in DOMAIN nicks : p[k] = i
              /\ \A k, l \in DOMAIN nicks : k < l => p[k] \in Before(nicks, p[l])
<1> DEFINE D == DOMAIN nicks
           before == [i \in D |-> Before(nicks, i)]
           at(k) == CHOOSE i \in DOMAIN nicks : Cardinality(Before(nicks, i)) = k - 1
           s == [k \in DOMAIN nicks |-> nicks[at(k)]]
           p == [k \in D |-> at(k)]
<1>1. /\ Len(nicks) \in Nat /\ D = 1..Len(nicks) /\ IsFiniteSet(D)
      /\ \A i \in D : nicks[i] \in NickEntry
  BY ListTyped
<1>2. Cardinality(D) = Len(nicks)
  BY <1>1, FS_Interval, 1 \in Int, Len(nicks) \in Int
<1>3. /\ before \in [D -> SUBSET D]
      /\ \A i \in D : i \notin before[i]
      /\ \A i, j \in D : i # j => i \in before[j] \/ j \in before[i]
      /\ \A i, j \in D : j \in before[i] => before[j] \subseteq before[i]
  <2>1. before \in [D -> SUBSET D]
    BY DEF Before
  <2>2. QED
    BY <2>1, BeforeIsOrder
<1>4. /\ \A i \in D : Cardinality(before[i]) \in 0..Len(nicks) - 1
      /\ \A i, j \in D : j \in before[i] => Cardinality(before[j]) < Cardinality(before[i])
      /\ \A i, j \in D : Cardinality(before[i]) = Cardinality(before[j]) => i = j
      /\ \A k \in 0..Len(nicks) - 1 : \E i \in D : Cardinality(before[i]) = k
  <2>1. /\ \A i \in D : Cardinality(before[i]) \in 0..Cardinality(D) - 1
        /\ \A i, j \in D : j \in before[i] => Cardinality(before[j]) < Cardinality(before[i])
        /\ \A i, j \in D : Cardinality(before[i]) = Cardinality(before[j]) => i = j
        /\ \A k \in 0..Cardinality(D) - 1 : \E i \in D : Cardinality(before[i]) = k
    <3>1. IsFiniteSet(D)
      BY <1>1
    <3> HIDE DEF before, D
    <3>2. QED
      BY <3>1, <1>3, Ranked
  <2> HIDE DEF before, D
  <2>2. QED
    BY <1>2, <2>1
<1>5. ASSUME NEW k \in D
      PROVE  at(k) \in D /\ Cardinality(before[at(k)]) = k - 1
  <2>1. k - 1 \in 0..Len(nicks) - 1
    BY <1>1
  <2>2. \E i \in D : Cardinality(before[i]) = k - 1
    BY <1>4, <2>1
  <2>3. \E i \in D : Cardinality(Before(nicks, i)) = k - 1
    BY <2>2
  <2>4. at(k) \in D /\ Cardinality(Before(nicks, at(k))) = k - 1
    BY <2>3
  <2>5. QED
    BY <2>4
<1>6. ASSUME NEW i \in D
      PROVE  \E k \in D : at(k) = i
  <2> DEFINE k == Cardinality(before[i]) + 1
  <2>1. k \in D /\ k - 1 = Cardinality(before[i])
    BY <1>1, <1>4
  <2> HIDE DEF k
  <2>2. at(k) \in D /\ Cardinality(before[at(k)]) = Cardinality(before[i])
    BY <1>5, <2>1
  <2>3. at(k) = i
    BY <1>4, <2>2
  <2>4. QED
    BY <2>1, <2>3
<1>7. ASSUME NEW k \in D, NEW l \in D, k < l
      PROVE  at(k) \in Before(nicks, at(l))
  <2>1. /\ at(k) \in D /\ at(l) \in D
        /\ Cardinality(before[at(k)]) = k - 1 /\ Cardinality(before[at(l)]) = l - 1
    BY <1>5
  <2> HIDE DEF at
  <2>2. Cardinality(before[at(k)]) < Cardinality(before[at(l)])
    BY <1>1, <1>7, <2>1
  <2>3. at(k) # at(l) /\ at(l) \notin before[at(k)]
    BY <1>1, <1>4, <1>7, <2>1, <2>2
  <2>4. at(k) \in before[at(l)]
    BY <1>3, <2>1, <2>3
  <2>5. QED
    BY <2>1, <2>4
<1>8. Sorted(nicks) = Rebuilt(s)
  BY DEF Sorted
<1>9. s \in Seq(NickEntry) /\ DOMAIN s = D
  <2>1. \A k \in D : s[k] \in NickEntry
    BY <1>1, <1>5
  <2>2. DOMAIN s = D
    OBVIOUS
  <2>3. s \in [1..Len(nicks) -> NickEntry]
    BY <1>1, <2>1
  <2> HIDE DEF s
  <2>4. QED
    BY <1>1, <2>2, <2>3, SeqDef
<1>10. /\ p \in [D -> D]
       /\ \A k \in D : s[k] = nicks[p[k]]
       /\ \A i \in D : \E k \in D : p[k] = i
       /\ \A k, l \in D : k < l => p[k] \in Before(nicks, p[l])
  <2>1. p \in [D -> D]
    BY <1>5
  <2>2. \A k \in D : p[k] = at(k)
    OBVIOUS
  <2>3. \A k \in D : s[k] = nicks[p[k]]
    OBVIOUS
  <2> HIDE DEF p, at, s
  <2>4. QED
    BY <1>6, <1>7, <2>1, <2>2, <2>3
<1> HIDE DEF p, s, at, before
<1>11. /\ Sorted(nicks).nicks = s /\ IsNickList(Sorted(nicks))
       /\ DOMAIN Sorted(nicks).index = {s[j].nick : j \in DOMAIN s}
  BY <1>8, <1>9, IndexOf
<1>12. \E q \in [D -> D] :
         /\ \A k \in D : Sorted(nicks).nicks[k] = nicks[q[k]]
         /\ \A i \in D : \E k \in D : q[k] = i
         /\ \A k, l \in D : k < l => q[k] \in Before(nicks, q[l])
  BY <1>10, <1>11, Zenon
<1>13. QED
  BY <1>9, <1>11, <1>12

\* A list that has who is there lists them when it is sorted.
LEMMA SortedLists ==
  ASSUME NEW nicks \in Seq(NickEntry), NEW r, Tells(nicks, r)
  PROVE  Lists(Sorted(nicks), r)
<1> DEFINE s == Sorted(nicks).nicks
           D == DOMAIN nicks
<1>1. /\ IsNickList(Sorted(nicks)) /\ DOMAIN s = D
      /\ DOMAIN Sorted(nicks).index = {s[k].nick : k \in D}
  BY SortedIs
<1>0. D = DOMAIN nicks
  OBVIOUS
<1>2. PICK p \in [D -> D] :
        /\ \A k \in D : s[k] = nicks[p[k]]
        /\ \A i \in D : \E k \in D : p[k] = i
        /\ \A k, l \in D : k < l => p[k] \in Before(nicks, p[l])
  BY SortedIs
<1> HIDE DEF s, D
<1>3. /\ Once(nicks)
      /\ \A i \in D : nicks[i].nick \in DOMAIN r /\ nicks[i].prefixes = r[nicks[i].nick]
      /\ \A n \in DOMAIN r : \E i \in D : nicks[i].nick = n
  BY DEF Tells, D
<1>4. D \subseteq Nat /\ \A i \in D : nicks[i] \in NickEntry
  BY ListTyped DEF D
<1>5. ASSUME NEW k \in D, NEW l \in D, k < l
      PROVE  p[k] # p[l] /\ p[k] \in Before(nicks, p[l])
  <2>1. p[k] \in Before(nicks, p[l]) /\ p[l] \in D
    BY <1>2, <1>5
  <2>2. p[l] \notin Before(nicks, p[l])
    BY <2>1, BeforeIsOrder DEF D
  <2>3. QED
    BY <2>1, <2>2
<1>6. Once(s)
  <2> SUFFICES ASSUME NEW k \in D, NEW l \in D, s[k].nick = s[l].nick
               PROVE  k = l
    BY <1>1 DEF Once
  <2>1. /\ p[k] \in D /\ p[l] \in D
        /\ s[k] = nicks[p[k]] /\ s[l] = nicks[p[l]]
    BY <1>2
  <2>2. p[k] = p[l]
    BY <1>3, <2>1 DEF Once, D
  <2>3. ~(k < l) /\ ~(l < k)
    BY <1>5, <2>2
  <2>4. QED
    BY <1>4, <2>3
<1>7. InOrder(s)
  <2> SUFFICES ASSUME NEW k \in D, NEW l \in D, k < l
               PROVE  Precedes(s[k], s[l])
    BY <1>1 DEF InOrder
  <2>1. /\ p[k] # p[l] /\ p[k] \in Before(nicks, p[l]) /\ p[k] \in D /\ p[l] \in D
        /\ s[k] = nicks[p[k]] /\ s[l] = nicks[p[l]]
    BY <1>2, <1>5
  <2>2. nicks[p[k]].nick # nicks[p[l]].nick
    BY <1>3, <2>1 DEF Once, D
  <2>3. Precedes(nicks[p[k]], nicks[p[l]]) \/ ~Precedes(nicks[p[l]], nicks[p[k]])
    BY <2>1 DEF Before
  <2>4. nicks[p[k]] \in NickEntry /\ nicks[p[l]] \in NickEntry
    BY <1>4, <2>1
  <2>5. Precedes(nicks[p[k]], nicks[p[l]])
    BY <2>2, <2>3, <2>4, PrecedesIsOrder
  <2>6. QED
    BY <2>1, <2>5
<1>8. ASSUME NEW k \in D
      PROVE  s[k].nick \in DOMAIN r /\ s[k].prefixes = r[s[k].nick]
  <2>1. p[k] \in D /\ s[k] = nicks[p[k]]
    BY <1>2
  <2>2. QED
    BY <1>3, <2>1
<1>9. ASSUME NEW n \in DOMAIN r
      PROVE  \E k \in D : s[k].nick = n
  <2>1. PICK i \in D : nicks[i].nick = n
    BY <1>3
  <2>2. PICK k \in D : p[k] = i
    BY <1>2
  <2>3. s[k] = nicks[i]
    BY <1>2, <2>2
  <2>4. QED
    BY <2>1, <2>3
<1>10. DOMAIN Sorted(nicks).index = DOMAIN r
  <2>1. \A n \in DOMAIN Sorted(nicks).index : n \in DOMAIN r
    BY <1>1, <1>8
  <2>2. \A n \in DOMAIN r : n \in DOMAIN Sorted(nicks).index
    BY <1>1, <1>9
  <2>3. QED
    BY <2>1, <2>2
<1>11. Tells(s, r)
  BY <1>1, <1>6, <1>8, <1>9 DEF Tells
<1>12. QED
  BY <1>7, <1>10, <1>11 DEF Lists, s

\* Two lists in order that have who is there are the same.
LEMMA OneList ==
  ASSUME NEW r, NEW a \in Seq(NickEntry), NEW b \in Seq(NickEntry),
         Tells(a, r), InOrder(a), Tells(b, r), InOrder(b)
  PROVE  a = b
<1>1. /\ Len(a) \in Nat /\ DOMAIN a = 1..Len(a) /\ \A i \in DOMAIN a : a[i] \in NickEntry
      /\ Len(b) \in Nat /\ DOMAIN b = 1..Len(b) /\ \A i \in DOMAIN b : b[i] \in NickEntry
  BY ListTyped
<1>2. ASSUME NEW c \in Seq(NickEntry), NEW d \in Seq(NickEntry), Tells(c, r), Tells(d, r),
             NEW i \in DOMAIN c
      PROVE  \E j \in DOMAIN d : d[j] = c[i]
  <2>1. c[i].nick \in DOMAIN r /\ c[i].prefixes = r[c[i].nick]
    BY <1>2 DEF Tells
  <2>2. PICK j \in DOMAIN d : d[j].nick = c[i].nick
    BY <1>2, <2>1 DEF Tells
  <2>3. d[j].prefixes = r[d[j].nick]
    BY <1>2 DEF Tells
  <2>4. c[i] \in NickEntry /\ d[j] \in NickEntry
    BY <1>2, ListTyped
  <2>5. d[j] = c[i]
    <3>1. \A e, f \in NickEntry : e.nick = f.nick /\ e.prefixes = f.prefixes => e = f
      BY DEF NickEntry
    <3>2. d[j].nick = c[i].nick /\ d[j].prefixes = c[i].prefixes
      BY <2>1, <2>2, <2>3
    <3>3. QED
      BY <2>4, <3>1, <3>2
  <2>6. QED
    BY <2>5
<1> DEFINE differ == {i \in DOMAIN a \cap DOMAIN b : a[i] # b[i]}
<1>3. differ = {}
  <2> SUFFICES ASSUME differ # {}
               PROVE  FALSE
    OBVIOUS
  <2>1. differ \in SUBSET Nat
    BY <1>1
  <2> HIDE DEF differ
  <2>2. PICK i \in differ : \A j \in differ : i =< j
    BY <2>1, Least
  <2>3. i \in DOMAIN a /\ i \in DOMAIN b /\ a[i] # b[i]
    BY DEF differ
  <2>4. \A j \in 1..i - 1 : j \in DOMAIN a /\ j \in DOMAIN b /\ a[j] = b[j]
    <3>1. \A j \in 1..i - 1 : j \in DOMAIN a /\ j \in DOMAIN b /\ j \notin differ
      BY <1>1, <2>2, <2>3
    <3>2. QED
      BY <3>1 DEF differ
  <2>5. PICK j \in DOMAIN b : b[j] = a[i]
    BY <1>2, <2>3
  <2>6. PICK k \in DOMAIN a : a[k] = b[i]
    BY <1>2, <2>3
  <2>7. i < j
    <3>1. i # j
      BY <2>3, <2>5
    <3>2. ASSUME j < i
          PROVE  FALSE
      <4>1. j \in DOMAIN a /\ a[j] = a[i]
        BY <1>1, <2>3, <2>4, <2>5, <3>2
      <4>2. j = i
        BY <4>1, <2>3 DEF Tells, Once
      <4>3. QED
        BY <3>1, <4>2
    <3>3. QED
      BY <1>1, <2>3, <2>5, <3>1, <3>2
  <2>8. i < k
    <3>1. i # k
      BY <2>3, <2>6
    <3>2. ASSUME k < i
          PROVE  FALSE
      <4>1. k \in DOMAIN b /\ b[k] = b[i]
        BY <1>1, <2>3, <2>4, <2>6, <3>2
      <4>2. k = i
        BY <4>1, <2>3 DEF Tells, Once
      <4>3. QED
        BY <3>1, <4>2
    <3>3. QED
      BY <1>1, <2>3, <2>6, <3>1, <3>2
  <2>9. Precedes(b[i], a[i]) /\ Precedes(a[i], b[i])
    <3>1. Precedes(b[i], b[j]) /\ Precedes(a[i], a[k])
      BY <2>3, <2>5, <2>6, <2>7, <2>8 DEF InOrder
    <3>2. QED
      BY <2>5, <2>6, <3>1
  <2>10. a[i] \in NickEntry /\ b[i] \in NickEntry
    BY <1>1, <2>3
  <2>11. QED
    BY <2>9, <2>10, PrecedesIsOrder
<1>4. \A i \in DOMAIN a \cap DOMAIN b : a[i] = b[i]
  BY <1>3
<1> HIDE DEF differ
<1>5. ASSUME NEW c \in Seq(NickEntry), NEW d \in Seq(NickEntry), Tells(c, r), Tells(d, r),
             \A i \in DOMAIN c \cap DOMAIN d : c[i] = d[i]
      PROVE  ~(Len(c) < Len(d))
  <2> SUFFICES ASSUME Len(c) < Len(d)
               PROVE  FALSE
    OBVIOUS
  <2>1. /\ Len(c) \in Nat /\ DOMAIN c = 1..Len(c)
        /\ Len(d) \in Nat /\ DOMAIN d = 1..Len(d)
    BY ListTyped
  <2>2. Len(d) \in DOMAIN d /\ Len(d) \notin DOMAIN c
    BY <2>1
  <2>3. PICK k \in DOMAIN c : c[k] = d[Len(d)]
    BY <1>2, <1>5, <2>2
  <2>4. k \in DOMAIN d /\ d[k] = d[Len(d)]
    BY <1>5, <2>1, <2>3
  <2>5. k = Len(d)
    BY <1>5, <2>2, <2>4 DEF Tells, Once
  <2>6. QED
    BY <2>2, <2>3, <2>5
<1>6. ~(Len(a) < Len(b)) /\ ~(Len(b) < Len(a))
  BY <1>4, <1>5
<1>7. Len(a) = Len(b)
  <2>1. \A x, y \in Nat : ~(x < y) /\ ~(y < x) => x = y
    OBVIOUS
  <2>2. QED
    BY <1>1, <1>6, <2>1
<1>8. QED
  BY <1>1, <1>4, <1>7

----------------------------------------------------------------------------
(* The operations keep a list that has who is there, of any a typed one.   *)

EntriesOf(r) == {[nick |-> n, prefixes |-> r[n]] : n \in DOMAIN r}

LEMMA EntriesTyped ==
  ASSUME NEW r \in Rosters(Nicks)
  PROVE  /\ DOMAIN r \in SUBSET Nicks /\ IsFiniteSet(DOMAIN r)
         /\ \A n \in DOMAIN r : r[n] \in SUBSET Ranks
         /\ EntriesOf(r) \in SUBSET NickEntry /\ IsFiniteSet(EntriesOf(r))
<1>1. /\ DOMAIN r \in SUBSET Nicks
      /\ \A n \in DOMAIN r : r[n] \in SUBSET Ranks
  BY DEF Rosters
<1>2. IsFiniteSet(DOMAIN r)
  BY <1>1, NicksFinite
<1>3. EntriesOf(r) \in SUBSET NickEntry
  BY <1>1 DEF EntriesOf, NickEntry
<1>4. IsFiniteSet(EntriesOf(r))
  <2> DEFINE f == [n \in DOMAIN r |-> [nick |-> n, prefixes |-> r[n]]]
  <2>1. EntriesOf(r) = {f[n] : n \in DOMAIN r} /\ DOMAIN f = DOMAIN r
    BY DEF EntriesOf
  <2> HIDE DEF f
  <2>2. QED
    BY <1>2, <2>1, ImageIsFinite
<1>5. QED
  BY <1>1, <1>2, <1>3, <1>4

LEMMA SetNicksLists ==
  ASSUME NEW r \in Rosters(Nicks)
  PROVE  IsNickList(SetNicks(EntriesOf(r))) /\ Lists(SetNicks(EntriesOf(r)), r)
<1> DEFINE s == SetToSeq(EntriesOf(r))
<1>1. /\ s \in Seq(EntriesOf(r))
      /\ \A i, j \in DOMAIN s : s[i] = s[j] => i = j
      /\ \A e \in EntriesOf(r) : \E i \in DOMAIN s : s[i] = e
  BY EntriesTyped, SetToSeqHas
<1> HIDE DEF s
<1>2. s \in Seq(NickEntry)
  BY <1>1, EntriesTyped, SeqMonotonic
<1>3. \A i \in DOMAIN s : s[i] \in EntriesOf(r)
  BY <1>1
<1>4. \A e \in EntriesOf(r) : e.nick \in DOMAIN r /\ e = [nick |-> e.nick, prefixes |-> r[e.nick]]
  BY DEF EntriesOf
<1>5. Once(s)
  BY <1>1, <1>3, <1>4 DEF Once
<1>6. \A i \in DOMAIN s : s[i].nick \in DOMAIN r /\ s[i].prefixes = r[s[i].nick]
  <2>1. \A e \in EntriesOf(r) : e.nick \in DOMAIN r /\ e.prefixes = r[e.nick]
    BY DEF EntriesOf
  <2>2. QED
    BY <1>3, <2>1
<1>7. ASSUME NEW n \in DOMAIN r
      PROVE  \E i \in DOMAIN s : s[i].nick = n
  <2>1. [nick |-> n, prefixes |-> r[n]] \in EntriesOf(r)
    BY DEF EntriesOf
  <2>2. PICK i \in DOMAIN s : s[i] = [nick |-> n, prefixes |-> r[n]]
    BY <1>1, <2>1
  <2>3. QED
    BY <2>2
<1>8. Tells(s, r)
  BY <1>5, <1>6, <1>7 DEF Tells
<1>9. QED
  BY <1>2, <1>8, SortedIs, SortedLists DEF SetNicks, s

LEMMA ReindexedIs ==
  ASSUME NEW list, list = [nicks |-> list.nicks, index |-> list.index], IsNickList(list),
         NEW i \in Nat \ {0}
  PROVE  /\ ReindexFrom(list, i).nicks = list.nicks
         /\ DOMAIN ReindexFrom(list, i).index
              = DOMAIN list.index \cup {list.nicks[j].nick : j \in i..Len(list.nicks)}
         /\ IsNickList(ReindexFrom(list, i))
<1> DEFINE behind == PlacesFrom(list.nicks, i)
           index == [n \in DOMAIN list.index \cup DOMAIN behind |->
                       IF n \in DOMAIN behind THEN behind[n] ELSE list.index[n]]
<1>1. DOMAIN behind = {list.nicks[j].nick : j \in i..Len(list.nicks)}
  BY DEF PlacesFrom
<1>2. ReindexFrom(list, i) = [nicks |-> list.nicks, index |-> index]
  <2>1. ReindexFrom(list, i) = [list EXCEPT !.index = index]
    BY DEF ReindexFrom
  <2> HIDE DEF index
  <2>2. QED
    BY <2>1
<1>3. DOMAIN index = DOMAIN list.index \cup DOMAIN behind
  OBVIOUS
<1> HIDE DEF behind, index
<1>4. DOMAIN behind \subseteq Nicks
  <2>1. list.nicks \in Seq(NickEntry)
    BY DEF IsNickList
  <2>2. \A j \in i..Len(list.nicks) : list.nicks[j].nick \in Nicks
    BY <2>1, ListTyped
  <2>3. QED
    BY <1>1, <2>2
<1>5. QED
  BY <1>1, <1>2, <1>3, <1>4 DEF IsNickList

LEMMA AddNickLists ==
  ASSUME NEW list, ListOK(list), IsNickList(list), NEW n \in Nicks
  PROVE  /\ IsNickList(AddNick(list, n))
         /\ \A r : Lists(list, r) /\ n \notin DOMAIN r => Lists(AddNick(list, n), WithNick(r, n, {}))
<1> DEFINE nicks == list.nicks
           place == LowerBound(nicks, Plain(n))
           longer == InsertAt(nicks, place, Plain(n))
           new == [list EXCEPT !.nicks = longer]
<1>1. nicks \in Seq(NickEntry) /\ Len(nicks) \in Nat /\ DOMAIN nicks = 1..Len(nicks)
  BY ListTyped DEF IsNickList
<1>2. Plain(n) \in NickEntry /\ Plain(n).nick = n /\ Plain(n).prefixes = {}
  BY DEF Plain, NickEntry
<1>3. /\ place \in 1..Len(nicks) + 1
      /\ \A j \in 1..place - 1 : Precedes(nicks[j], Plain(n))
      /\ place <= Len(nicks) => ~Precedes(nicks[place], Plain(n))
  BY LowerBoundIs DEF ListOK
<1> HIDE DEF place
<1>4. /\ longer \in Seq(NickEntry) /\ Len(longer) = Len(nicks) + 1
      /\ \A j \in 1..place - 1 : longer[j] = nicks[j]
      /\ longer[place] = Plain(n)
      /\ \A j \in place..Len(nicks) : longer[j + 1] = nicks[j]
  <2>1. /\ nicks \in Seq(NickEntry) /\ Plain(n) \in NickEntry
        /\ place \in 1..Len(nicks) + 1
    BY <1>1, <1>2, <1>3
  <2> HIDE DEF nicks
  <2>2. longer \in Seq(NickEntry)
    BY <2>1, InsertAtIs
  <2>3. Len(longer) = Len(nicks) + 1
    BY <2>1, InsertAtIs
  <2>4. \A j \in 1..place - 1 : longer[j] = nicks[j]
    BY <2>1, InsertAtIs
  <2>5. longer[place] = Plain(n)
    BY <2>1, InsertAtIs
  <2>6. \A j \in place..Len(nicks) : longer[j + 1] = nicks[j]
    BY <2>1, InsertAtIs
  <2>7. QED
    BY <2>2, <2>3, <2>4, <2>5, <2>6
<1> HIDE DEF longer
<1>5. new = [nicks |-> longer, index |-> list.index]
  BY DEF ListOK
<1>6. /\ new = [nicks |-> new.nicks, index |-> new.index] /\ IsNickList(new)
      /\ new.nicks = longer /\ new.index = list.index
  BY <1>4, <1>5 DEF IsNickList
<1>7. AddNick(list, n) = IF Has(list, n) THEN list ELSE ReindexFrom(new, place)
  BY DEF AddNick, place, longer
<1> HIDE DEF new
<1> DEFINE added == ReindexFrom(new, place)
<1>8. /\ added.nicks = longer /\ IsNickList(added)
      /\ DOMAIN added.index = DOMAIN list.index \cup {longer[j].nick : j \in place..Len(longer)}
  <2>1. place \in Nat \ {0}
    BY <1>1, <1>3
  <2>2. QED
    BY <1>6, <2>1, ReindexedIs
<1> HIDE DEF added
<1>9. ASSUME NEW r, Lists(list, r), n \notin DOMAIN r
      PROVE  Lists(added, WithNick(r, n, {}))
  <2> DEFINE r2 == WithNick(r, n, {})
  <2>1. /\ DOMAIN r2 = DOMAIN r \cup {n} /\ r2[n] = {}
        /\ \A m \in DOMAIN r : r2[m] = r[m]
    BY <1>9 DEF WithNick
  <2> HIDE DEF r2
  <2>2. /\ Once(nicks) /\ InOrder(nicks) /\ DOMAIN list.index = DOMAIN r
        /\ \A i \in DOMAIN nicks : nicks[i].nick \in DOMAIN r /\ nicks[i].prefixes = r[nicks[i].nick]
        /\ \A m \in DOMAIN r : \E i \in DOMAIN nicks : nicks[i].nick = m
    BY <1>9 DEF Lists, Tells
  <2>3. /\ DOMAIN longer = 1..Len(longer)
        /\ \A j \in DOMAIN longer : \/ j \in 1..place - 1 /\ j \in DOMAIN nicks /\ longer[j] = nicks[j]
                                    \/ j = place /\ longer[j] = Plain(n)
                                    \/ /\ j - 1 \in place..Len(nicks) /\ j - 1 \in DOMAIN nicks
                                       /\ longer[j] = nicks[j - 1]
    <3>1. DOMAIN longer = 1..Len(longer)
      BY <1>4
    <3>2. ASSUME NEW j \in DOMAIN longer
          PROVE  j \in 1..place - 1 \/ j = place \/ (j - 1 \in place..Len(nicks) /\ (j - 1) + 1 = j)
      BY <1>1, <1>3, <1>4, <3>1
    <3>3. 1..place - 1 \subseteq DOMAIN nicks /\ place..Len(nicks) \subseteq DOMAIN nicks
      BY <1>1, <1>3
    <3>4. ASSUME NEW j \in DOMAIN longer, j - 1 \in place..Len(nicks), (j - 1) + 1 = j
          PROVE  longer[j] = nicks[j - 1]
      BY <1>4, <3>4
    <3>5. QED
      BY <1>4, <3>1, <3>2, <3>3, <3>4
  <2>4. \A i \in DOMAIN nicks : \E j \in DOMAIN longer : longer[j] = nicks[i]
    <3>1. ASSUME NEW i \in DOMAIN nicks
          PROVE  \/ i \in 1..place - 1 /\ i \in 1..Len(longer)
                 \/ i \in place..Len(nicks) /\ i + 1 \in 1..Len(longer)
      BY <1>1, <1>3, <1>4
    <3>2. QED
      BY <1>4, <2>3, <3>1
  <2>5. place \in DOMAIN longer
    BY <1>1, <1>3, <1>4, <2>3
  <2>6. \A i \in DOMAIN nicks : nicks[i] \in NickEntry /\ nicks[i].nick # n
    BY <1>1, <1>9, <2>2, ListTyped
  <2>7. ASSUME NEW i \in place..Len(nicks)
        PROVE  Precedes(Plain(n), nicks[i])
    <3>1. place \in DOMAIN nicks /\ i \in DOMAIN nicks /\ place <= Len(nicks)
      BY <1>1, <1>3
    <3>2. Precedes(Plain(n), nicks[place])
      BY <1>2, <1>3, <2>6, <3>1, PrecedesIsOrder
    <3>3. CASE i = place
      BY <3>2, <3>3
    <3>4. CASE i # place
      <4>1. place < i
        BY <1>1, <1>3, <3>4
      <4>2. Precedes(nicks[place], nicks[i])
        BY <2>2, <3>1, <4>1 DEF InOrder
      <4>3. QED
        BY <1>2, <2>6, <3>1, <3>2, <4>2, PrecedesIsOrder
    <3>5. QED
      BY <3>3, <3>4
  <2>8. InOrder(longer)
    <3> SUFFICES ASSUME NEW i \in DOMAIN longer, NEW j \in DOMAIN longer, i < j
                 PROVE  Precedes(longer[i], longer[j])
      BY DEF InOrder
    <3>1. i \in Nat /\ j \in Nat /\ place \in Nat
      BY <1>1, <1>3, <2>3
    <3>2. CASE j \in 1..place - 1
      <4>1. i \in DOMAIN nicks /\ j \in DOMAIN nicks /\ longer[i] = nicks[i] /\ longer[j] = nicks[j]
        BY <2>3, <3>1, <3>2
      <4>2. QED
        BY <2>2, <4>1 DEF InOrder
    <3>3. CASE j = place
      <4>1. i \in 1..place - 1 /\ longer[i] = nicks[i] /\ longer[j] = Plain(n)
        BY <2>3, <3>1, <3>3
      <4>2. QED
        BY <1>3, <4>1
    <3>4. CASE j - 1 \in place..Len(nicks)
      <4>1. longer[j] = nicks[j - 1] /\ j - 1 \in DOMAIN nicks
        BY <2>3, <3>1, <3>4
      <4>2. CASE i = place
        BY <1>4, <2>7, <3>4, <4>1, <4>2
      <4>3. CASE i \in 1..place - 1
        <5>1. longer[i] = nicks[i] /\ i \in DOMAIN nicks /\ i < j - 1
          BY <2>3, <3>1, <3>4, <4>3
        <5>2. QED
          BY <2>2, <4>1, <5>1 DEF InOrder
      <4>4. CASE i - 1 \in place..Len(nicks)
        <5>1. longer[i] = nicks[i - 1] /\ i - 1 \in DOMAIN nicks /\ i - 1 < j - 1
          BY <2>3, <3>1, <3>4, <4>4
        <5>2. QED
          BY <2>2, <4>1, <5>1 DEF InOrder
      <4>5. QED
        BY <2>3, <4>2, <4>3, <4>4
    <3>5. QED
      BY <2>3, <3>2, <3>3, <3>4
  <2>9. ASSUME NEW j \in DOMAIN longer
        PROVE  longer[j].nick \in DOMAIN r2 /\ longer[j].prefixes = r2[longer[j].nick]
    <3>1. CASE longer[j] = Plain(n)
      BY <1>2, <2>1, <3>1
    <3>2. CASE longer[j] # Plain(n)
      <4>1. PICK i \in DOMAIN nicks : longer[j] = nicks[i]
        BY <2>3, <3>2
      <4>2. nicks[i].nick \in DOMAIN r /\ nicks[i].prefixes = r[nicks[i].nick]
        BY <2>2
      <4>3. QED
        BY <2>1, <4>1, <4>2
    <3>3. QED
      BY <3>1, <3>2
  <2>10. \A m \in DOMAIN r2 : \E j \in DOMAIN longer : longer[j].nick = m
    <3>1. \A m \in DOMAIN r : \E j \in DOMAIN longer : longer[j].nick = m
      BY <2>2, <2>4
    <3>2. longer[place].nick = n
      BY <1>2, <1>4
    <3>3. QED
      BY <2>1, <2>5, <3>1, <3>2
  <2>11. Once(longer)
    <3> SUFFICES ASSUME NEW i \in DOMAIN longer, NEW j \in DOMAIN longer,
                        longer[i].nick = longer[j].nick
                 PROVE  i = j
      BY DEF Once
    <3>1. \A k \in DOMAIN longer : longer[k] \in NickEntry
      BY <1>4
    <3>2. longer[i] = longer[j]
      <4>1. \A e, f \in NickEntry : e.nick = f.nick /\ e.prefixes = f.prefixes => e = f
        BY DEF NickEntry
      <4>2. QED
        BY <2>9, <3>1, <4>1
    <3>3. ~(i < j) /\ ~(j < i)
      BY <2>8, <3>1, <3>2, PrecedesIsOrder DEF InOrder
    <3>4. QED
      BY <2>3, <3>3
  <2>12. DOMAIN added.index = DOMAIN r2
    <3>1. place \in place..Len(longer) /\ place..Len(longer) \subseteq DOMAIN longer
      BY <1>1, <1>3, <1>4, <2>3
    <3>2. longer[place].nick = n
      BY <1>2, <1>4
    <3>3. {longer[j].nick : j \in place..Len(longer)} \subseteq DOMAIN r2
      BY <2>9, <3>1
    <3>4. n \in {longer[j].nick : j \in place..Len(longer)}
      BY <3>1, <3>2
    <3>5. QED
      BY <1>8, <2>1, <2>2, <3>3, <3>4
  <2>13. QED
    BY <1>8, <2>8, <2>9, <2>10, <2>11, <2>12 DEF Lists, Tells, r2
<1>10. ASSUME NEW r, Lists(list, r), n \notin DOMAIN r
       PROVE  ~Has(list, n)
  BY <1>10 DEF Lists, Has
<1>11. QED
  BY <1>7, <1>8, <1>9, <1>10 DEF added

\* A roster with the same in it is the same to a list.
LEMMA SameRoster ==
  ASSUME NEW list, NEW r, NEW r2, Lists(list, r),
         DOMAIN r2 = DOMAIN r, \A m \in DOMAIN r : r2[m] = r[m]
  PROVE  Lists(list, r2)
BY DEF Lists, Tells

\* s has the entries of nicks of those in r2, at p in order.
Thins(s, nicks, r, r2, p) ==
  /\ DOMAIN r2 \subseteq DOMAIN r /\ \A m \in DOMAIN r2 : r2[m] = r[m]
  /\ p \in [DOMAIN s -> DOMAIN nicks]
  /\ \A k \in DOMAIN s : s[k] = nicks[p[k]] /\ s[k].nick \in DOMAIN r2
  /\ \A k, l \in DOMAIN s : k < l => p[k] < p[l]
  /\ \A i \in DOMAIN nicks : nicks[i].nick \in DOMAIN r2 => \E k \in DOMAIN s : p[k] = i

LEMMA Thinned ==
  ASSUME NEW nicks \in Seq(NickEntry), NEW s \in Seq(NickEntry), NEW r, NEW r2,
         Tells(nicks, r), InOrder(nicks), NEW p, Thins(s, nicks, r, r2, p)
  PROVE  Tells(s, r2) /\ InOrder(s)
<1> USE DEF Thins
<1> DEFINE D == DOMAIN nicks
           E == DOMAIN s
<1>1. D \subseteq Nat /\ E \subseteq Nat
  BY ListTyped
<1>2. /\ Once(nicks) /\ \A i \in D : nicks[i].prefixes = r[nicks[i].nick]
      /\ \A n \in DOMAIN r : \E i \in D : nicks[i].nick = n
  BY DEF Tells
<1>3. InOrder(s)
  <2> SUFFICES ASSUME NEW k \in E, NEW l \in E, k < l
               PROVE  Precedes(s[k], s[l])
    BY DEF InOrder
  <2>1. p[k] \in D /\ p[l] \in D /\ p[k] < p[l] /\ s[k] = nicks[p[k]] /\ s[l] = nicks[p[l]]
    OBVIOUS
  <2>2. QED
    BY <2>1 DEF InOrder
<1>4. Once(s)
  <2> SUFFICES ASSUME NEW k \in E, NEW l \in E, s[k].nick = s[l].nick
               PROVE  k = l
    BY DEF Once
  <2>1. p[k] \in D /\ p[l] \in D /\ s[k] = nicks[p[k]] /\ s[l] = nicks[p[l]]
    OBVIOUS
  <2>2. p[k] = p[l]
    BY <1>2, <2>1 DEF Once
  <2>3. p[k] \in Nat /\ ~(k < l) /\ ~(l < k)
    <3>1. p[k] \in Nat
      BY <1>1, <2>1
    <3>2. k < l => p[k] < p[l]
      OBVIOUS
    <3>3. l < k => p[l] < p[k]
      OBVIOUS
    <3>4. QED
      BY <2>2, <3>1, <3>2, <3>3
  <2>4. k \in Nat /\ l \in Nat
    BY <1>1
  <2>5. QED
    BY <2>3, <2>4
<1>5. ASSUME NEW k \in E
      PROVE  s[k].nick \in DOMAIN r2 /\ s[k].prefixes = r2[s[k].nick]
  <2>1. p[k] \in D /\ s[k] = nicks[p[k]] /\ s[k].nick \in DOMAIN r2
    OBVIOUS
  <2>2. nicks[p[k]].prefixes = r[nicks[p[k]].nick]
    BY <1>2, <2>1
  <2>3. QED
    BY <2>1, <2>2
<1>6. ASSUME NEW n \in DOMAIN r2
      PROVE  \E k \in E : s[k].nick = n
  <2>1. PICK i \in D : nicks[i].nick = n
    BY <1>2
  <2>2. PICK k \in E : p[k] = i
    BY <2>1
  <2>3. s[k] = nicks[i]
    BY <2>2
  <2>4. QED
    BY <2>1, <2>3
<1>7. QED
  BY <1>3, <1>4, <1>5, <1>6 DEF Tells

LEMMA RemoveNickLists ==
  ASSUME NEW list, ListOK(list), IsNickList(list), NEW n
  PROVE  /\ IsNickList(RemoveNick(list, n))
         /\ \A r, r2 : /\ Lists(list, r) /\ DOMAIN r2 = DOMAIN r \ {n}
                       /\ \A m \in DOMAIN r2 : r2[m] = r[m]
                       => Lists(RemoveNick(list, n), r2)
<1>1. CASE ~Has(list, n)
  <2>1. RemoveNick(list, n) = list
    BY <1>1 DEF RemoveNick
  <2>2. ASSUME NEW r, NEW r2, Lists(list, r), DOMAIN r2 = DOMAIN r \ {n},
               \A m \in DOMAIN r2 : r2[m] = r[m]
        PROVE  Lists(list, r2)
    <3>1. n \notin DOMAIN r
      BY <1>1, <2>2 DEF Lists, Has
    <3>2. DOMAIN r2 = DOMAIN r
      BY <2>2, <3>1
    <3>3. QED
      BY <2>2, <3>2, SameRoster
  <2>3. QED
    BY <2>1, <2>2
<1>2. CASE Has(list, n)
  <2> DEFINE nicks == list.nicks
             place == list.index[n]
             shorter == RemoveAt(nicks, place)
             index == [m \in DOMAIN list.index \ {n} |-> list.index[m]]
             new == [nicks |-> shorter, index |-> index]
  <2>1. nicks \in Seq(NickEntry) /\ Len(nicks) \in Nat /\ DOMAIN nicks = 1..Len(nicks)
    BY ListTyped DEF IsNickList
  <2>2. place \in 1..Len(nicks) /\ nicks[place].nick = n
    BY <1>2, <2>1 DEF ListOK, Home, Has
  <2> HIDE DEF place
  <2>3. /\ shorter \in Seq(NickEntry) /\ Len(shorter) = Len(nicks) - 1
        /\ \A j \in 1..place - 1 : shorter[j] = nicks[j]
        /\ \A j \in place..Len(nicks) - 1 : shorter[j] = nicks[j + 1]
    <3> HIDE DEF nicks
    <3>1. QED
      BY <2>1, <2>2, RemoveAtIs
  <2> HIDE DEF shorter
  <2>4. /\ new.nicks = shorter /\ new.index = index
        /\ new = [nicks |-> new.nicks, index |-> new.index]
        /\ DOMAIN index = DOMAIN list.index \ {n}
    OBVIOUS
  <2>5. RemoveNick(list, n) = ReindexFrom(new, place)
    BY <1>2 DEF RemoveNick, place, shorter
  <2> HIDE DEF new, index
  <2>6. IsNickList(new)
    BY <2>3, <2>4 DEF IsNickList
  <2> DEFINE left2 == ReindexFrom(new, place)
  <2>7. /\ left2.nicks = shorter /\ IsNickList(left2)
        /\ DOMAIN left2.index
             = (DOMAIN list.index \ {n}) \cup {shorter[j].nick : j \in place..Len(shorter)}
    <3>1. place \in Nat \ {0}
      BY <2>1, <2>2
    <3>2. QED
      BY <2>4, <2>6, <3>1, ReindexedIs
  <2> HIDE DEF left2
  <2>8. ASSUME NEW r, NEW r2, Lists(list, r), DOMAIN r2 = DOMAIN r \ {n},
               \A m \in DOMAIN r2 : r2[m] = r[m]
        PROVE  Lists(left2, r2)
    <3> DEFINE p == [k \in DOMAIN shorter |-> IF k < place THEN k ELSE k + 1]
    <3>1. DOMAIN shorter = 1..Len(nicks) - 1
      BY <2>3
    <3>2. /\ Tells(nicks, r) /\ InOrder(nicks) /\ DOMAIN list.index = DOMAIN r
          /\ Once(nicks) /\ \A i \in DOMAIN nicks : nicks[i].nick \in DOMAIN r
      BY <2>8 DEF Lists, Tells
    <3>3. ASSUME NEW k \in DOMAIN shorter
          PROVE  /\ p[k] \in DOMAIN nicks /\ p[k] # place
                 /\ shorter[k] = nicks[p[k]] /\ shorter[k].nick \in DOMAIN r2
      <4>1. p[k] \in DOMAIN nicks /\ p[k] # place /\ shorter[k] = nicks[p[k]]
        <5>1. CASE k < place
          <6>1. p[k] = k /\ k \in 1..place - 1 /\ k \in 1..Len(nicks)
            BY <2>1, <2>2, <3>1, <5>1
          <6>2. QED
            BY <2>1, <2>3, <5>1, <6>1
        <5>2. CASE ~(k < place)
          <6>1. p[k] = k + 1 /\ k \in place..Len(nicks) - 1 /\ k + 1 \in 1..Len(nicks) /\ k + 1 # place
            BY <2>1, <2>2, <3>1, <5>2
          <6>2. QED
            BY <2>1, <2>3, <6>1
        <5>3. QED
          BY <5>1, <5>2
      <4>2. nicks[p[k]].nick # n
        BY <2>1, <2>2, <3>2, <4>1 DEF Once
      <4>3. QED
        BY <2>8, <3>2, <4>1, <4>2
    <3>4. p \in [DOMAIN shorter -> DOMAIN nicks]
      BY <3>3
    <3>5. \A k, l \in DOMAIN shorter : k < l => p[k] < p[l]
      BY <2>1, <2>2, <3>1
    <3>6. ASSUME NEW i \in DOMAIN nicks, nicks[i].nick \in DOMAIN r2
          PROVE  \E k \in DOMAIN shorter : p[k] = i
      <4>1. i # place
        BY <2>2, <2>8, <3>6
      <4>2. CASE i < place
        <5>1. i \in DOMAIN shorter /\ p[i] = i
          BY <2>1, <2>2, <3>1, <4>2
        <5>2. QED
          BY <5>1
      <4>3. CASE ~(i < place)
        <5>1. i - 1 \in DOMAIN shorter /\ ~(i - 1 < place) /\ (i - 1) + 1 = i
          BY <2>1, <2>2, <3>1, <4>1, <4>3
        <5>2. p[i - 1] = i
          BY <5>1
        <5>3. QED
          BY <5>1, <5>2
      <4>4. QED
        BY <4>2, <4>3
    <3> HIDE DEF p
    <3>7. Tells(shorter, r2) /\ InOrder(shorter)
      <4>1. DOMAIN r2 \subseteq DOMAIN r /\ (\A m \in DOMAIN r2 : r2[m] = r[m])
        BY <2>8
      <4>2. \A k \in DOMAIN shorter : shorter[k] = nicks[p[k]] /\ shorter[k].nick \in DOMAIN r2
        BY <3>3
      <4>3. \A i \in DOMAIN nicks :
              nicks[i].nick \in DOMAIN r2 => \E k \in DOMAIN shorter : p[k] = i
        BY <3>6
      <4>4. nicks \in Seq(NickEntry) /\ shorter \in Seq(NickEntry)
        BY <2>1, <2>3
      <4>5. Thins(shorter, nicks, r, r2, p)
        BY <3>4, <3>5, <4>1, <4>2, <4>3 DEF Thins
      <4> HIDE DEF nicks
      <4>6. QED
        BY <3>2, <4>4, <4>5, Thinned
    <3>8. DOMAIN left2.index = DOMAIN r2
      <4>1. place..Len(shorter) \subseteq DOMAIN shorter
        BY <2>1, <2>2, <2>3, <3>1
      <4>2. {shorter[j].nick : j \in place..Len(shorter)} \subseteq DOMAIN r2
        BY <3>3, <4>1
      <4>3. QED
        BY <2>7, <2>8, <3>2, <4>2
    <3>9. QED
      BY <2>7, <3>7, <3>8 DEF Lists
  <2>9. QED
    BY <2>5, <2>7, <2>8 DEF left2
<1>3. QED
  BY <1>1, <1>2

LEMMA RemoveNicksLists ==
  ASSUME NEW list, IsNickList(list), NEW gone
  PROVE  /\ IsNickList(RemoveNicks(list, gone))
         /\ \A r, r2 : /\ Lists(list, r) /\ DOMAIN r2 = DOMAIN r \ gone
                       /\ \A m \in DOMAIN r2 : r2[m] = r[m]
                       => Lists(RemoveNicks(list, gone), r2)
<1> DEFINE nicks == list.nicks
           D == DOMAIN nicks
           kept == {i \in D : nicks[i].nick \notin gone}
           before == [i \in kept |-> {j \in kept : j < i}]
           from(k) == CHOOSE i \in kept : Cardinality({j \in kept : j < i}) = k - 1
           n == Cardinality(kept)
           s == [k \in 1..n |-> nicks[from(k)]]
           p == [k \in 1..n |-> from(k)]
<1>1. /\ nicks \in Seq(NickEntry) /\ IsFiniteSet(D) /\ D \subseteq Nat
      /\ \A i \in D : nicks[i] \in NickEntry /\ nicks[i].nick \in Nicks
  BY ListTyped DEF IsNickList
<1>2. IsFiniteSet(kept) /\ kept \subseteq D
  BY <1>1, FS_Subset
<1>3. /\ before \in [kept -> SUBSET kept]
      /\ \A i \in kept : i \notin before[i]
      /\ \A i, j \in kept : i # j => i \in before[j] \/ j \in before[i]
      /\ \A i, j \in kept : j \in before[i] => before[j] \subseteq before[i]
      /\ \A i, j \in kept : j \in before[i] => j < i
  <2>1. kept \subseteq Nat
    BY <1>1, <1>2
  <2> HIDE DEF kept
  <2>2. before \in [kept -> SUBSET kept]
    OBVIOUS
  <2>3. \A i \in kept : before[i] = {j \in kept : j < i}
    OBVIOUS
  <2> HIDE DEF before
  <2>4. \A i, j \in kept : j \in before[i] <=> j < i
    BY <2>3
  <2>5. \A i \in kept : i \notin before[i]
    BY <2>1, <2>4
  <2>6. \A i, j \in kept : i # j => i \in before[j] \/ j \in before[i]
    BY <2>1, <2>4
  <2>7. ASSUME NEW i \in kept, NEW j \in kept, j \in before[i], NEW k \in before[j]
        PROVE  k \in before[i]
    <3>1. k \in kept /\ k < j /\ j < i
      BY <2>2, <2>4, <2>7
    <3>2. k < i
      BY <2>1, <3>1
    <3>3. QED
      BY <2>4, <3>1, <3>2
  <2>8. QED
    BY <2>2, <2>4, <2>5, <2>6, <2>7
<1>4. n \in Nat
  BY <1>2, FS_CardinalityType
<1>5. /\ \A i \in kept : Cardinality(before[i]) \in 0..n - 1
      /\ \A i, j \in kept : j \in before[i] => Cardinality(before[j]) < Cardinality(before[i])
      /\ \A i, j \in kept : Cardinality(before[i]) = Cardinality(before[j]) => i = j
      /\ \A k \in 0..n - 1 : \E i \in kept : Cardinality(before[i]) = k
  <2> HIDE DEF before, kept
  <2>1. QED
    BY <1>2, <1>3, Ranked
<1>6. ASSUME NEW k \in 1..n
      PROVE  from(k) \in kept /\ Cardinality(before[from(k)]) = k - 1
  <2>1. k - 1 \in 0..n - 1
    BY <1>4
  <2>2. \E i \in kept : Cardinality(before[i]) = k - 1
    BY <1>5, <2>1
  <2>3. \E i \in kept : Cardinality({j \in kept : j < i}) = k - 1
    BY <2>2
  <2>4. from(k) \in kept /\ Cardinality({j \in kept : j < from(k)}) = k - 1
    BY <2>3
  <2>5. QED
    BY <2>4
<1>7. ASSUME NEW i \in kept
      PROVE  \E k \in 1..n : from(k) = i
  <2> HIDE DEF before, kept, n, from
  <2> DEFINE k == Cardinality(before[i]) + 1
  <2>1. k \in 1..n /\ k - 1 = Cardinality(before[i])
    BY <1>4, <1>5
  <2> HIDE DEF k
  <2>2. from(k) \in kept /\ Cardinality(before[from(k)]) = Cardinality(before[i])
    BY <1>6, <2>1
  <2>3. from(k) = i
    BY <1>5, <2>2
  <2>4. QED
    BY <2>1, <2>3
<1>8. ASSUME NEW k \in 1..n, NEW l \in 1..n, k < l
      PROVE  from(k) < from(l)
  <2>1. /\ from(k) \in kept /\ from(l) \in kept
        /\ Cardinality(before[from(k)]) = k - 1 /\ Cardinality(before[from(l)]) = l - 1
    BY <1>6
  <2> HIDE DEF from, kept, before
  <2>2. k - 1 < l - 1 /\ ~(l - 1 < k - 1)
    BY <1>4, <1>8
  <2>3. from(k) # from(l) /\ from(l) \notin before[from(k)]
    BY <1>5, <2>1, <2>2
  <2>4. from(k) \in before[from(l)]
    BY <1>3, <2>1, <2>3
  <2>5. QED
    BY <1>3, <2>1, <2>4
<1>9. RemoveNicks(list, gone) = Rebuilt(s)
  BY DEF RemoveNicks
<1>10. s \in Seq(NickEntry) /\ DOMAIN s = 1..n
  <2>1. \A k \in 1..n : s[k] \in NickEntry
    BY <1>1, <1>2, <1>6
  <2>2. DOMAIN s = 1..n
    OBVIOUS
  <2>3. s \in [1..n -> NickEntry]
    BY <2>1
  <2> HIDE DEF s, n
  <2>4. QED
    BY <1>4, <2>2, <2>3, SeqDef
<1>11. /\ p \in [1..n -> kept] /\ \A k \in 1..n : s[k] = nicks[p[k]]
       /\ \A i \in kept : \E k \in 1..n : p[k] = i
       /\ \A k, l \in 1..n : k < l => p[k] < p[l]
  <2>1. p \in [1..n -> kept]
    BY <1>6
  <2> HIDE DEF from, kept, n
  <2>2. \A k \in 1..n : p[k] = from(k) /\ s[k] = nicks[p[k]]
    OBVIOUS
  <2> HIDE DEF p, s
  <2>3. QED
    BY <1>7, <1>8, <2>1, <2>2
<1> HIDE DEF p, s, from, n, before
<1>12. /\ RemoveNicks(list, gone).nicks = s /\ IsNickList(RemoveNicks(list, gone))
       /\ DOMAIN RemoveNicks(list, gone).index = {s[j].nick : j \in 1..n}
  BY <1>9, <1>10, IndexOf
<1>13. ASSUME NEW r, NEW r2, Lists(list, r), DOMAIN r2 = DOMAIN r \ gone,
              \A m \in DOMAIN r2 : r2[m] = r[m]
       PROVE  Lists(RemoveNicks(list, gone), r2)
  <2>1. /\ Tells(nicks, r) /\ InOrder(nicks)
        /\ \A i \in D : nicks[i].nick \in DOMAIN r
    BY <1>13 DEF Lists, Tells
  <2>2. ASSUME NEW k \in 1..n
        PROVE  s[k] = nicks[p[k]] /\ s[k].nick \in DOMAIN r2
    <3>1. s[k] = nicks[p[k]] /\ p[k] \in kept
      BY <1>11
    <3>2. p[k] \in D /\ nicks[p[k]].nick \notin gone
      BY <3>1
    <3>3. QED
      BY <1>13, <2>1, <3>1, <3>2
  <2>3. ASSUME NEW i \in D, nicks[i].nick \in DOMAIN r2
        PROVE  \E k \in 1..n : p[k] = i
    <3>1. i \in kept
      BY <1>13, <2>3
    <3>2. QED
      BY <1>11, <3>1
  <2>4. p \in [1..n -> D] /\ DOMAIN r2 \subseteq DOMAIN r
    BY <1>2, <1>11, <1>13
  <2>5. Tells(s, r2) /\ InOrder(s)
    <3>1. /\ nicks \in Seq(NickEntry) /\ s \in Seq(NickEntry)
          /\ DOMAIN r2 \subseteq DOMAIN r /\ (\A m \in DOMAIN r2 : r2[m] = r[m])
          /\ p \in [DOMAIN s -> DOMAIN nicks]
      BY <1>1, <1>10, <1>13, <2>4
    <3>2. /\ \A k \in DOMAIN s : s[k] = nicks[p[k]] /\ s[k].nick \in DOMAIN r2
          /\ \A k, l \in DOMAIN s : k < l => p[k] < p[l]
      BY <1>10, <1>11, <2>2
    <3>3. \A i \in DOMAIN nicks : nicks[i].nick \in DOMAIN r2 => \E k \in DOMAIN s : p[k] = i
      BY <1>10, <2>3
    <3>4. Thins(s, nicks, r, r2, p)
      BY <3>1, <3>2, <3>3 DEF Thins
    <3> HIDE DEF nicks, D
    <3>5. QED
      BY <2>1, <3>1, <3>4, Thinned
  <2>6. {s[j].nick : j \in 1..n} = DOMAIN r2
    <3>1. \A j \in 1..n : s[j].nick \in DOMAIN r2
      BY <2>2
    <3>2. \A m \in DOMAIN r2 : \E j \in 1..n : s[j].nick = m
      BY <1>10, <2>5 DEF Tells
    <3>3. QED
      BY <3>1, <3>2
  <2>7. QED
    BY <1>12, <2>5, <2>6 DEF Lists
<1>14. QED
  BY <1>12, <1>13

LEMMA AddNicksLists ==
  ASSUME NEW list, IsNickList(list), NEW new \in SUBSET Nicks
  PROVE  /\ IsNickList(AddNicks(list, new))
         /\ \A r, r2 : /\ Lists(list, r) /\ new \cap DOMAIN r = {} /\ DOMAIN r2 = DOMAIN r \cup new
                       /\ \A m \in new : r2[m] = {}
                       /\ \A m \in DOMAIN r : r2[m] = r[m]
                       => Lists(AddNicks(list, new), r2)
<1> DEFINE nicks == list.nicks
           lacking == {m \in new : ~Has(list, m)}
           missing == {Plain(n) : n \in lacking}
           s == SetToSeq(missing)
           all == nicks \o s
<1>1. nicks \in Seq(NickEntry) /\ Len(nicks) \in Nat /\ DOMAIN nicks = 1..Len(nicks)
  BY ListTyped DEF IsNickList
<1>2. \A n \in Nicks : Plain(n) \in NickEntry /\ Plain(n).nick = n /\ Plain(n).prefixes = {}
  BY DEF Plain, NickEntry
<1>3. lacking \subseteq Nicks
  OBVIOUS
<1>4. missing \subseteq NickEntry /\ IsFiniteSet(missing)
  <2> DEFINE f == [n \in lacking |-> Plain(n)]
  <2>1. missing = {f[n] : n \in lacking} /\ DOMAIN f = lacking
    OBVIOUS
  <2>2. IsFiniteSet(lacking)
    BY <1>3, NicksFinite
  <2>3. missing \subseteq NickEntry
    BY <1>2, <1>3
  <2> HIDE DEF missing, f, lacking
  <2>4. QED
    BY <2>1, <2>2, <2>3, ImageIsFinite
<1>5. /\ s \in Seq(missing)
      /\ \A i, j \in DOMAIN s : s[i] = s[j] => i = j
      /\ \A e \in missing : \E i \in DOMAIN s : s[i] = e
  <2> HIDE DEF missing
  <2>1. QED
    BY <1>4, SetToSeqHas
<1> HIDE DEF s
<1>6. /\ \A i \in DOMAIN s : s[i].nick \in lacking /\ s[i] = Plain(s[i].nick)
      /\ \A n \in lacking : \E i \in DOMAIN s : s[i] = Plain(n)
  <2>1. \A e \in missing : e.nick \in lacking /\ e = Plain(e.nick)
    BY <1>2, <1>3
  <2>2. \A i \in DOMAIN s : s[i] \in missing
    BY <1>5
  <2>3. \A n \in lacking : Plain(n) \in missing
    OBVIOUS
  <2> HIDE DEF missing, lacking
  <2>4. QED
    BY <1>5, <2>1, <2>2, <2>3
<1>7. s \in Seq(NickEntry) /\ Len(s) \in Nat /\ DOMAIN s = 1..Len(s)
  <2> HIDE DEF missing
  <2>1. s \in Seq(NickEntry)
    BY <1>4, <1>5, SeqMonotonic
  <2>2. QED
    BY <2>1, ListTyped
<1>8. AddNicks(list, new) = IF missing = {} THEN list ELSE Sorted(all)
  BY DEF AddNicks, s
<1>9. /\ all \in Seq(NickEntry) /\ DOMAIN all = 1..Len(nicks) + Len(s)
      /\ \A j \in 1..Len(nicks) + Len(s) :
           all[j] = IF j <= Len(nicks) THEN nicks[j] ELSE s[j - Len(nicks)]
  <2> HIDE DEF nicks
  <2>1. /\ all \in Seq(NickEntry) /\ Len(all) = Len(nicks) + Len(s)
        /\ \A j \in 1..Len(nicks) + Len(s) :
             all[j] = IF j <= Len(nicks) THEN nicks[j] ELSE s[j - Len(nicks)]
    BY <1>1, <1>7, ConcatProperties
  <2> HIDE DEF all
  <2>2. QED
    BY <2>1
<1> HIDE DEF all
<1>10. /\ \A j \in DOMAIN all : \/ j \in DOMAIN nicks /\ all[j] = nicks[j]
                                \/ j - Len(nicks) \in DOMAIN s /\ all[j] = s[j - Len(nicks)]
       /\ \A i \in DOMAIN nicks : i \in DOMAIN all /\ all[i] = nicks[i]
       /\ \A i \in DOMAIN s : i + Len(nicks) \in DOMAIN all /\ all[i + Len(nicks)] = s[i]
  <2> DEFINE l == Len(nicks)
             D == DOMAIN nicks
  <2>0. D = 1..l /\ l \in Nat
    BY <1>1
  <2>1. /\ DOMAIN all = 1..l + Len(s)
        /\ \A j \in 1..l + Len(s) : all[j] = IF j <= l THEN nicks[j] ELSE s[j - l]
    BY <1>9
  <2> HIDE DEF l, D
  <2>2. ASSUME NEW j \in DOMAIN all
        PROVE  \/ j \in D /\ all[j] = nicks[j]
               \/ j - l \in DOMAIN s /\ all[j] = s[j - l]
    <3>1. CASE j <= l
      BY <1>7, <2>0, <2>1, <3>1
    <3>2. CASE ~(j <= l)
      BY <1>7, <2>0, <2>1, <3>2
    <3>3. QED
      BY <3>1, <3>2
  <2>3. \A i \in D : i \in DOMAIN all /\ all[i] = nicks[i]
    BY <1>7, <2>0, <2>1
  <2>4. ASSUME NEW i \in DOMAIN s
        PROVE  i + l \in DOMAIN all /\ all[i + l] = s[i]
    <3>1. i + l \in 1..l + Len(s) /\ ~(i + l <= l) /\ (i + l) - l = i
      BY <1>7, <2>0
    <3>2. QED
      BY <2>1, <3>1
  <2>5. QED
    BY <2>2, <2>3, <2>4 DEF l, D
<1>11. ASSUME NEW r, NEW r2, Lists(list, r), new \cap DOMAIN r = {}, DOMAIN r2 = DOMAIN r \cup new,
              \A m \in new : r2[m] = {}, \A m \in DOMAIN r : r2[m] = r[m]
       PROVE  lacking = new /\ Tells(all, r2)
  <2>1. /\ Once(nicks) /\ DOMAIN list.index = DOMAIN r
        /\ \A i \in DOMAIN nicks : nicks[i].nick \in DOMAIN r /\ nicks[i].prefixes = r[nicks[i].nick]
        /\ \A m \in DOMAIN r : \E i \in DOMAIN nicks : nicks[i].nick = m
    BY <1>11 DEF Lists, Tells
  <2>2. lacking = new
    BY <1>11, <2>1 DEF Has
  <2>3. /\ \A i \in DOMAIN nicks : nicks[i].nick \in DOMAIN r2 /\ nicks[i].nick \notin new
                                   /\ nicks[i].prefixes = r2[nicks[i].nick]
        /\ \A i \in DOMAIN s : s[i].nick \in DOMAIN r2 /\ s[i].nick \in new
                               /\ s[i].prefixes = r2[s[i].nick]
    <3>1. ASSUME NEW i \in DOMAIN nicks
          PROVE  nicks[i].nick \in DOMAIN r2 /\ nicks[i].nick \notin new
                 /\ nicks[i].prefixes = r2[nicks[i].nick]
      <4>1. nicks[i].nick \in DOMAIN r /\ nicks[i].prefixes = r[nicks[i].nick]
        BY <2>1
      <4>2. nicks[i].nick \notin new
        BY <1>11, <4>1
      <4>3. QED
        BY <1>11, <4>1, <4>2
    <3>2. ASSUME NEW i \in DOMAIN s
          PROVE  s[i].nick \in DOMAIN r2 /\ s[i].nick \in new /\ s[i].prefixes = r2[s[i].nick]
      <4>1. s[i].nick \in new /\ s[i] = Plain(s[i].nick)
        BY <1>6, <2>2
      <4>2. s[i].prefixes = {}
        BY <1>2, <4>1
      <4>3. QED
        BY <1>11, <4>1, <4>2
    <3>3. QED
      BY <3>1, <3>2
  <2>4. Once(all)
    <3> SUFFICES ASSUME NEW i \in DOMAIN all, NEW j \in DOMAIN all, all[i].nick = all[j].nick
                 PROVE  i = j
      BY DEF Once
    <3>1. CASE i \in DOMAIN nicks /\ all[i] = nicks[i] /\ j \in DOMAIN nicks /\ all[j] = nicks[j]
      BY <2>1, <3>1 DEF Once
    <3>2. CASE /\ i - Len(nicks) \in DOMAIN s /\ all[i] = s[i - Len(nicks)]
               /\ j - Len(nicks) \in DOMAIN s /\ all[j] = s[j - Len(nicks)]
      <4>1. s[i - Len(nicks)] = s[j - Len(nicks)]
        BY <1>6, <3>2
      <4>2. i - Len(nicks) = j - Len(nicks)
        BY <1>5, <3>2, <4>1
      <4>3. i \in Nat /\ j \in Nat
        BY <1>9
      <4>4. QED
        BY <1>1, <4>2, <4>3
    <3>3. QED
      BY <1>10, <2>3, <3>1, <3>2
  <2>5. \A j \in DOMAIN all : all[j].nick \in DOMAIN r2 /\ all[j].prefixes = r2[all[j].nick]
    BY <1>10, <2>3
  <2>6. ASSUME NEW m \in DOMAIN r2
        PROVE  \E j \in DOMAIN all : all[j].nick = m
    <3>1. CASE m \in DOMAIN r
      BY <1>10, <2>1, <3>1
    <3>2. CASE m \in new
      <4>1. PICK i \in DOMAIN s : s[i] = Plain(m)
        BY <1>6, <2>2, <3>2
      <4>2. s[i].nick = m
        BY <1>2, <3>2, <4>1
      <4>3. QED
        BY <1>10, <4>2
    <3>3. QED
      BY <1>11, <3>1, <3>2
  <2>7. QED
    BY <2>2, <2>4, <2>5, <2>6 DEF Tells
<1>12. ASSUME NEW r, NEW r2, Lists(list, r), new \cap DOMAIN r = {}, DOMAIN r2 = DOMAIN r \cup new,
              \A m \in new : r2[m] = {}, \A m \in DOMAIN r : r2[m] = r[m]
       PROVE  Lists(AddNicks(list, new), r2)
  <2>1. lacking = new /\ Tells(all, r2)
    BY <1>11, <1>12
  <2>2. CASE missing = {}
    <3>1. new = {}
      BY <2>1, <2>2
    <3>2. Lists(list, r2)
      BY <1>12, <3>1, SameRoster
    <3>3. QED
      BY <1>8, <2>2, <3>2
  <2>3. CASE missing # {}
    BY <1>8, <1>9, <2>1, <2>3, SortedLists
  <2>4. QED
    BY <2>2, <2>3
<1>13. IsNickList(AddNicks(list, new))
  BY <1>8, <1>9, SortedIs
<1>14. QED
  BY <1>12, <1>13

\* One entry is another one: of a rename, or with other prefixes.
Swapped(r, r2, n, e) ==
  /\ e.nick \notin DOMAIN r \ {n}
  /\ DOMAIN r2 = (DOMAIN r \ {n}) \cup {e.nick}
  /\ r2[e.nick] = e.prefixes
  /\ \A m \in DOMAIN r \ {n} : r2[m] = r[m]

LEMMA Changed ==
  ASSUME NEW nicks \in Seq(NickEntry), NEW i \in DOMAIN nicks, NEW e \in NickEntry
  PROVE  /\ [nicks EXCEPT ![i] = e] \in Seq(NickEntry)
         /\ \A r, r2 : Tells(nicks, r) /\ Swapped(r, r2, nicks[i].nick, e)
                         => Tells([nicks EXCEPT ![i] = e], r2)
<1> DEFINE D == DOMAIN nicks
           s == [nicks EXCEPT ![i] = e]
<1>1. /\ Len(nicks) \in Nat /\ D = 1..Len(nicks)
      /\ \A j \in D : nicks[j] \in NickEntry
  BY ListTyped
<1>2. DOMAIN s = D /\ s[i] = e /\ \A j \in D \ {i} : s[j] = nicks[j]
  OBVIOUS
<1>3. s \in Seq(NickEntry)
  <2>1. s \in [1..Len(nicks) -> NickEntry]
    BY <1>1
  <2> HIDE DEF s
  <2>2. QED
    BY <1>1, <2>1, SeqDef
<1> HIDE DEF s, D
<1>4. ASSUME NEW r, NEW r2, Tells(nicks, r), Swapped(r, r2, nicks[i].nick, e)
      PROVE  Tells(s, r2)
  <2>0. /\ e.nick \notin DOMAIN r \ {nicks[i].nick}
        /\ DOMAIN r2 = (DOMAIN r \ {nicks[i].nick}) \cup {e.nick}
        /\ r2[e.nick] = e.prefixes
        /\ \A m \in DOMAIN r \ {nicks[i].nick} : r2[m] = r[m]
    BY <1>4 DEF Swapped
  <2>1. /\ \A j, k \in D : nicks[j].nick = nicks[k].nick => j = k
        /\ \A j \in D : nicks[j].nick \in DOMAIN r /\ nicks[j].prefixes = r[nicks[j].nick]
        /\ \A n \in DOMAIN r : \E j \in D : nicks[j].nick = n
    BY <1>4 DEF Tells, Once, D
  <2>2. i \in D
    BY DEF D
  <2>3. ASSUME NEW j \in D \ {i}
        PROVE  s[j] = nicks[j] /\ nicks[j].nick \in DOMAIN r \ {nicks[i].nick}
    BY <1>2, <2>1, <2>2
  <2>4. Once(s)
    <3> SUFFICES ASSUME NEW j \in D, NEW k \in D, s[j].nick = s[k].nick, j # k
                 PROVE  FALSE
      BY <1>2 DEF Once
    <3>1. CASE j = i
      BY <1>2, <2>0, <2>3, <3>1
    <3>2. CASE k = i
      BY <1>2, <2>0, <2>3, <3>2
    <3>3. CASE j # i /\ k # i
      BY <2>1, <2>3, <3>3
    <3>4. QED
      BY <3>1, <3>2, <3>3
  <2>5. ASSUME NEW j \in D
        PROVE  s[j].nick \in DOMAIN r2 /\ s[j].prefixes = r2[s[j].nick]
    <3>1. CASE j = i
      BY <1>2, <2>0, <3>1
    <3>2. CASE j # i
      <4>1. s[j] = nicks[j] /\ nicks[j].nick \in DOMAIN r \ {nicks[i].nick}
        BY <2>3, <3>2
      <4>2. nicks[j].prefixes = r[nicks[j].nick]
        BY <2>1
      <4>3. QED
        BY <2>0, <4>1, <4>2
    <3>3. QED
      BY <3>1, <3>2
  <2>6. ASSUME NEW n \in DOMAIN r2
        PROVE  \E j \in D : s[j].nick = n
    <3>1. CASE n = e.nick
      BY <1>2, <2>2, <3>1
    <3>2. CASE n # e.nick
      <4>1. n \in DOMAIN r /\ n # nicks[i].nick
        BY <2>0, <3>2
      <4>2. PICK j \in D : nicks[j].nick = n
        BY <2>1, <4>1
      <4>3. j # i
        BY <4>1, <4>2
      <4>4. QED
        BY <2>3, <4>2, <4>3
    <3>3. QED
      BY <3>1, <3>2
  <2>7. QED
    BY <1>2, <2>4, <2>5, <2>6 DEF Tells
<1>5. QED
  BY <1>3, <1>4 DEF s

LEMMA RenameNickLists ==
  ASSUME NEW list, ListOK(list), IsNickList(list), NEW n, NEW m \in Nicks
  PROVE  /\ IsNickList(RenameNick(list, n, m))
         /\ \A r, r2 : /\ Lists(list, r) /\ m \notin DOMAIN r
                       /\ DOMAIN r2 = IF n \in DOMAIN r THEN (DOMAIN r \ {n}) \cup {m} ELSE DOMAIN r
                       /\ \A k \in DOMAIN r2 : r2[k] = r[IF k = m THEN n ELSE k]
                       => Lists(RenameNick(list, n, m), r2)
<1>1. CASE ~Has(list, n)
  <2>1. RenameNick(list, n, m) = list
    BY <1>1 DEF RenameNick
  <2>2. ASSUME NEW r, NEW r2, Lists(list, r), m \notin DOMAIN r,
               DOMAIN r2 = IF n \in DOMAIN r THEN (DOMAIN r \ {n}) \cup {m} ELSE DOMAIN r,
               \A k \in DOMAIN r2 : r2[k] = r[IF k = m THEN n ELSE k]
        PROVE  Lists(list, r2)
    <3>1. n \notin DOMAIN r
      BY <1>1, <2>2 DEF Lists, Has
    <3>2. DOMAIN r2 = DOMAIN r /\ \A k \in DOMAIN r : r2[k] = r[k]
      BY <2>2, <3>1
    <3>3. QED
      BY <2>2, <3>2, SameRoster
  <2>3. QED
    BY <2>1, <2>2
<1>2. CASE Has(list, n)
  <2> DEFINE nicks == list.nicks
             i == list.index[n]
             e == [nick |-> m, prefixes |-> nicks[i].prefixes]
             s == [nicks EXCEPT ![i] = e]
  <2>1. nicks \in Seq(NickEntry) /\ \A j \in DOMAIN nicks : nicks[j] \in NickEntry
    BY ListTyped DEF IsNickList
  <2>2. i \in DOMAIN nicks /\ nicks[i].nick = n
    BY <1>2 DEF ListOK, Home, Has
  <2>3. e \in NickEntry /\ e.nick = m /\ e.prefixes = nicks[i].prefixes
    BY <2>1, <2>2 DEF NickEntry
  <2>4. RenameNick(list, n, m) = Sorted(s)
    <3>1. [nicks[i] EXCEPT !.nick = m] = e
      BY <2>1, <2>2 DEF NickEntry
    <3>2. RenameNick(list, n, m) = Sorted([nicks EXCEPT ![i] = [nicks[i] EXCEPT !.nick = m]])
      BY <1>2 DEF RenameNick
    <3>3. QED
      BY <3>1, <3>2
  <2> HIDE DEF e, i
  <2>5. s \in Seq(NickEntry)
    <3> HIDE DEF nicks
    <3>1. QED
      BY <2>1, <2>2, <2>3, Changed
  <2>6. ASSUME NEW r, NEW r2, Lists(list, r), m \notin DOMAIN r,
               DOMAIN r2 = IF n \in DOMAIN r THEN (DOMAIN r \ {n}) \cup {m} ELSE DOMAIN r,
               \A k \in DOMAIN r2 : r2[k] = r[IF k = m THEN n ELSE k]
        PROVE  Tells(s, r2)
    <3>1. /\ n \in DOMAIN r /\ Tells(nicks, r) /\ nicks[i].prefixes = r[n]
      BY <2>2, <2>6 DEF Lists, Tells
    <3>2. DOMAIN r2 = (DOMAIN r \ {nicks[i].nick}) \cup {e.nick} /\ e.nick \notin DOMAIN r
      BY <2>2, <2>3, <2>6, <3>1
    <3>3. r2[e.nick] = e.prefixes
      BY <2>3, <2>6, <3>1, <3>2
    <3>4. \A k \in DOMAIN r \ {nicks[i].nick} : r2[k] = r[k]
      BY <2>6, <3>2
    <3>5. e.nick \notin DOMAIN r \ {nicks[i].nick}
      BY <3>2
    <3>6. Swapped(r, r2, nicks[i].nick, e)
      BY <3>2, <3>3, <3>4, <3>5 DEF Swapped
    <3> HIDE DEF nicks
    <3>7. QED
      BY <2>1, <2>2, <2>3, <3>1, <3>6, Changed
  <2> HIDE DEF s
  <2>7. IsNickList(Sorted(s)) /\ \A r : Tells(s, r) => Lists(Sorted(s), r)
    BY <2>5, SortedIs, SortedLists
  <2>8. QED
    BY <2>4, <2>6, <2>7
<1>3. QED
  BY <1>1, <1>2

\* The places at which Uplink reads a line as one about n.
ReadOf(line, n) == {i \in DOMAIN line : n \in WordRead(line, i)}

\* What a line leaves everybody as Uplink reads it.
ReadFor(line, r) == [n \in DOMAIN r |-> Applied(line, ReadOf(line, n), r[n])]

LEMMA AppliedIs ==
  ASSUME NEW line, NEW places, NEW old
  PROVE  Applied(line, places, old) \in SUBSET Ranks
BY DEF Applied

LEMMA SetPrefixesLists ==
  ASSUME NEW list, ListOK(list), IsNickList(list), NEW line
  PROVE  /\ IsNickList(SetPrefixes(list, line))
         /\ \A r : Lists(list, r) => Lists(SetPrefixes(list, line), ReadFor(line, r))
<1> DEFINE nicks == list.nicks
           now(j) == Applied(line, HitsOf(list, line, j), nicks[j].prefixes)
           s == [j \in DOMAIN nicks |-> [nick |-> nicks[j].nick, prefixes |-> now(j)]]
<1>1. /\ nicks \in Seq(NickEntry) /\ Len(nicks) \in Nat /\ DOMAIN nicks = 1..Len(nicks)
      /\ \A j \in DOMAIN nicks : nicks[j] \in NickEntry
  BY ListTyped DEF IsNickList
<1>2. \A j \in DOMAIN nicks : now(j) \in SUBSET Ranks
  BY AppliedIs
<1> HIDE DEF now
<1>3. SetPrefixes(list, line) = Sorted(s)
  <2>1. SetPrefixes(list, line) = Sorted([j \in DOMAIN nicks |-> [nicks[j] EXCEPT !.prefixes = now(j)]])
    BY DEF SetPrefixes, now
  <2>2. \A j \in DOMAIN nicks : [nicks[j] EXCEPT !.prefixes = now(j)]
                                 = [nick |-> nicks[j].nick, prefixes |-> now(j)]
    BY <1>1 DEF NickEntry
  <2>3. [j \in DOMAIN nicks |-> [nicks[j] EXCEPT !.prefixes = now(j)]] = s
    BY <2>2
  <2>4. QED
    BY <2>1, <2>3
<1>4. \A j \in DOMAIN nicks : /\ s[j] \in NickEntry /\ s[j].nick = nicks[j].nick
                              /\ s[j].prefixes = now(j)
  BY <1>1, <1>2 DEF NickEntry
<1>5. s \in Seq(NickEntry) /\ DOMAIN s = DOMAIN nicks
  <2>1. DOMAIN s = DOMAIN nicks /\ s = [j \in DOMAIN nicks |-> s[j]]
    OBVIOUS
  <2> HIDE DEF s, nicks
  <2>2. s \in [1..Len(nicks) -> NickEntry]
    BY <1>1, <1>4, <2>1
  <2>3. QED
    BY <1>1, <2>1, <2>2, SeqDef
<1> HIDE DEF s
<1>6. ASSUME NEW r, Lists(list, r)
      PROVE  Tells(s, ReadFor(line, r))
  <2>1. /\ Once(nicks) /\ DOMAIN list.index = DOMAIN r
        /\ \A j \in DOMAIN nicks : nicks[j].nick \in DOMAIN r /\ nicks[j].prefixes = r[nicks[j].nick]
        /\ \A n \in DOMAIN r : \E j \in DOMAIN nicks : nicks[j].nick = n
    BY <1>6 DEF Lists, Tells
  <2>2. \A n \in DOMAIN list.index : list.index[n] \in DOMAIN nicks /\ nicks[list.index[n]].nick = n
    BY DEF ListOK, Home
  <2>3. ASSUME NEW j \in DOMAIN nicks
        PROVE  HitsOf(list, line, j) = ReadOf(line, nicks[j].nick)
    <3>1. \A n \in DOMAIN list.index : list.index[n] = j <=> n = nicks[j].nick
      BY <2>1, <2>2 DEF Once
    <3>2. nicks[j].nick \in DOMAIN list.index
      BY <2>1
    <3>3. QED
      BY <3>1, <3>2 DEF HitsOf, ReadOf
  <2>4. DOMAIN ReadFor(line, r) = DOMAIN r
        /\ \A n \in DOMAIN r : ReadFor(line, r)[n] = Applied(line, ReadOf(line, n), r[n])
    BY DEF ReadFor
  <2>5. \A j \in DOMAIN nicks : s[j].prefixes = ReadFor(line, r)[nicks[j].nick]
    BY <1>4, <2>1, <2>3, <2>4 DEF now
  <2>6. Once(s)
    BY <1>4, <1>5, <2>1 DEF Once
  <2>7. QED
    BY <1>4, <1>5, <2>1, <2>4, <2>5, <2>6 DEF Tells
<1>7. IsNickList(Sorted(s)) /\ \A r : Tells(s, r) => Lists(Sorted(s), r)
  BY <1>5, SortedIs, SortedLists
<1>8. QED
  BY <1>3, <1>6, <1>7

\* A line as a server says it.
IsLine(line) ==
  /\ \E k \in Nat : DOMAIN line = 1..k
  /\ \A i \in DOMAIN line : line[i].rank # 0 => line[i].arg \in Nicks

LEMMA LineTyped ==
  ASSUME NEW line \in LinesNow, Members \subseteq Nicks
  PROVE  IsLine(line)
<1> DEFINE held == {m \in PrefixModes : m.arg \in Members}
<1>1. PICK k \in 1..MaxModes : line \in [1..k -> held \cup OtherModes]
  BY DEF LinesNow
<1>2. k \in Nat /\ DOMAIN line = 1..k
  BY <1>1, BoundAssumption
<1>3. \A m \in held \cup OtherModes : m.rank # 0 => m.arg \in Nicks
  BY DEF PrefixModes, OtherModes
<1> HIDE DEF held
<1>4. QED
  BY <1>1, <1>2, <1>3 DEF IsLine

\* argIdx is right for every prefix of a line that does not stray.
LEMMA StraightRead ==
  ASSUME NEW line, IsLine(line), ~Strays(line),
         NEW i \in DOMAIN line, line[i].rank # 0
  PROVE  WordRead(line, i) = {line[i].arg}
<1> DEFINE D == DOMAIN line
           has(j) == line[j].arg # NoWord
<1>1. PICK k \in Nat : D = 1..k
  BY DEF IsLine
<1>2. has(i)
  BY NickAssumption DEF IsLine, NoWord
<1>3. CountedBefore(line, i) = WordsBefore(line, i)
  BY DEF Strays, CountedBefore, WordsBefore
<1>4. \A j \in D : IsFiniteSet(WordsBefore(line, j))
  <2>1. IsFiniteSet(D)
    BY <1>1, FS_Interval, 1 \in Int, k \in Int
  <2>2. \A j \in D : WordsBefore(line, j) \in SUBSET D
    BY DEF WordsBefore
  <2>3. QED
    BY <2>1, <2>2, FS_Subset
<1>5. ASSUME NEW a \in D, NEW b \in D, has(a), a < b
      PROVE  Cardinality(WordsBefore(line, a)) # Cardinality(WordsBefore(line, b))
  <2>1. WordsBefore(line, a) \in SUBSET WordsBefore(line, b)
    BY <1>1, <1>5 DEF WordsBefore
  <2>2. a \in WordsBefore(line, b) /\ a \notin WordsBefore(line, a)
    BY <1>1, <1>5 DEF WordsBefore
  <2>3. QED
    BY <1>4, <2>1, <2>2, FS_Subset
<1>6. ASSUME NEW j \in D, has(j), Cardinality(WordsBefore(line, j)) = Cardinality(WordsBefore(line, i))
      PROVE  j = i
  <2>1. j < i \/ i < j \/ j = i
    BY <1>1
  <2>2. QED
    BY <1>2, <1>5, <1>6, <2>1
<1>7. {j \in D : has(j) /\ Cardinality(WordsBefore(line, j)) = Cardinality(CountedBefore(line, i))} = {i}
  BY <1>2, <1>3, <1>6
<1>8. QED
  BY <1>7 DEF WordRead

\* It leaves everybody what the server says.
LEMMA StraightLine ==
  ASSUME NEW line, IsLine(line), ~Strays(line), NEW n, NEW old
  PROVE  Applied(line, ReadOf(line, n), old)
           = Applied(line, {i \in DOMAIN line : line[i].arg = n}, old)
<1>1. \A p \in Ranks : p # 0
  BY NickAssumption
<1>2. ASSUME NEW p \in Ranks
      PROVE  {i \in ReadOf(line, n) : line[i].rank = p}
               = {i \in {j \in DOMAIN line : line[j].arg = n} : line[i].rank = p}
  <2>1. \A i \in DOMAIN line : line[i].rank = p => (n \in WordRead(line, i) <=> line[i].arg = n)
    BY <1>1, StraightRead
  <2>2. QED
    BY <2>1 DEF ReadOf
<1>3. QED
  BY <1>2 DEF Applied

----------------------------------------------------------------------------
(* What is true in every state.                                            *)

Lines == {"JOIN", "PART", "NAMES"}

LinkOK(k) == k = [up |-> k.up, sent |-> k.sent] /\ k.up \in BOOLEAN /\ k.sent \in Seq(Lines)
RosterOK == IsFiniteSet(Members) /\ (Members = {} \/ Joined)
BufferOK ==
  /\ buffer = [held |-> buffer.held, list |-> buffer.list] /\ buffer.held \in BOOLEAN
  /\ ListOK(buffer.list)
UiOK(u) ==
  u \in [row : BOOLEAN, view : {"none", "channel", "other"}, fresh : BOOLEAN, due : BOOLEAN]
FlagsOK == note \in BOOLEAN /\ left \in BOOLEAN /\ asked \in BOOLEAN

\* A row has its buffer, a channel with a row is in, was left or is being joined,
\* and a note of a request is of one that was made.
RowHeld == ui.row => buffer.held
JoinDue ==
  link.up /\ ui.row => Joined \/ left \/ \E i \in DOMAIN link.sent : link.sent[i] = "JOIN"
NoteTrue == note => asked

Inv ==
  /\ LinkOK(link) /\ RosterOK /\ BufferOK /\ UiOK(ui)
  /\ FlagsOK
  /\ PanelShowsList
  /\ RowHeld /\ JoinDue /\ NoteTrue

\* Sending appends a line, unless the link is down.
LEMMA SentLine ==
  ASSUME NEW line \in Lines, LinkOK(link)
  PROVE  /\ LinkOK(Sent(line)) /\ Sent(line).up = link.up
         /\ (\E i \in DOMAIN link.sent : link.sent[i] = "JOIN")
              => \E i \in DOMAIN Sent(line).sent : Sent(line).sent[i] = "JOIN"
<1> DEFINE longer == Append(link.sent, line)
<1>1. link.up \in BOOLEAN /\ link.sent \in Seq(Lines)
  BY DEF LinkOK
<1>2. /\ longer \in Seq(Lines)
      /\ \A i \in DOMAIN link.sent : i \in DOMAIN longer /\ longer[i] = link.sent[i]
  BY <1>1
<1>3. Sent(line) = [up |-> link.up, sent |-> IF link.up THEN longer ELSE link.sent]
  BY <1>1 DEF Sent, LinkOK
<1> HIDE DEF longer
<1>4. QED
  BY <1>1, <1>2, <1>3 DEF LinkOK

\* A line that is not a JOIN is answered: the requests to join stay.
LEMMA LineAnswered ==
  ASSUME LinkOK(link), link.sent # <<>>
  PROVE  /\ Tail(link.sent) \in Seq(Lines)
         /\ LinkOK([link EXCEPT !.sent = Tail(@)])
         /\ [link EXCEPT !.sent = Tail(@)] = [up |-> link.up, sent |-> Tail(link.sent)]
         /\ (Head(link.sent) # "JOIN" /\ \E i \in DOMAIN link.sent : link.sent[i] = "JOIN")
              => \E i \in DOMAIN Tail(link.sent) : Tail(link.sent)[i] = "JOIN"
<1>1. link.sent \in Seq(Lines) /\ link.up \in BOOLEAN
  BY DEF LinkOK
<1>2. Tail(link.sent) \in Seq(Lines)
  BY <1>1
<1>3. [link EXCEPT !.sent = Tail(@)] = [up |-> link.up, sent |-> Tail(link.sent)]
  <2> DEFINE t == Tail(link.sent)
  <2>1. link = [up |-> link.up, sent |-> link.sent]
    BY DEF LinkOK
  <2> HIDE DEF t
  <2>2. [link EXCEPT !.sent = t] = [up |-> link.up, sent |-> t]
    BY <2>1
  <2>3. QED
    BY <2>2 DEF t
<1>4. ASSUME NEW i \in DOMAIN link.sent, link.sent[i] = "JOIN", Head(link.sent) # "JOIN"
      PROVE  \E k \in DOMAIN Tail(link.sent) : Tail(link.sent)[k] = "JOIN"
  <2>1. i \in 1..Len(link.sent) /\ Len(link.sent) \in Nat
    BY <1>1, <1>4
  <2>2. i # 1
    BY <1>1, <1>4, <2>1
  <2>3. i - 1 \in DOMAIN Tail(link.sent) /\ Tail(link.sent)[i - 1] = link.sent[i]
    BY <1>1, <2>1, <2>2
  <2>4. QED
    BY <1>4, <2>3
<1>5. QED
  BY <1>1, <1>2, <1>3, <1>4 DEF LinkOK

LEMMA PostedOK ==
  ASSUME NEW list, ListOK(list), buffer' = Posted(list)
  PROVE  BufferOK' /\ buffer'.held
<1>1. buffer'.held = TRUE /\ buffer'.list = list
  BY DEF Posted
<1>2. QED
  BY <1>1 DEF BufferOK, Posted

LEMMA ListChangedOK ==
  ASSUME BufferOK, NEW list, ListOK(list), buffer' = [buffer EXCEPT !.list = list]
  PROVE  BufferOK' /\ buffer'.held = buffer.held /\ buffer'.list = list
<1>1. buffer = [held |-> buffer.held, list |-> buffer.list]
  BY DEF BufferOK
<1>2. buffer' = [held |-> buffer.held, list |-> list]
  BY <1>1
<1>3. buffer'.held = buffer.held /\ buffer'.list = list
  BY <1>2
<1>4. QED
  BY <1>2, <1>3 DEF BufferOK

LEMMA UiUpdated ==
  ASSUME UiOK(ui)
  PROVE  /\ UiOK(Updated(ui)) /\ Updated(ui).fresh
         /\ Updated(ui).row = ui.row /\ Updated(ui).view = ui.view
BY DEF Updated, UiOK

LEMMA UiUnshown ==
  ASSUME UiOK(ui)
  PROVE  /\ UiOK(Unshown(ui))
         /\ Unshown(ui).row = ui.row /\ Unshown(ui).view = ui.view
<1> DEFINE f == ui.fresh /\ (ui.view # "channel" \/ buffer'.list = buffer.list)
<1>1. f \in BOOLEAN
  OBVIOUS
<1>2. Unshown(ui) = [ui EXCEPT !.fresh = f]
  BY DEF Unshown
<1> HIDE DEF f
<1>3. QED
  BY <1>1, <1>2 DEF UiOK

LEMMA UiScheduled ==
  ASSUME UiOK(ui)
  PROVE  /\ UiOK(Scheduled(ui)) /\ Scheduled(ui).due
         /\ Scheduled(ui).row = ui.row /\ Scheduled(ui).view = ui.view
<1> DEFINE u == Unshown(ui)
<1> HIDE DEF u
<1>1. UiOK(u) /\ u.row = ui.row /\ u.view = ui.view
  BY UiUnshown DEF u
<1>2. Scheduled(ui) = [u EXCEPT !.due = TRUE]
  BY DEF Scheduled, u
<1>3. QED
  BY <1>1, <1>2 DEF UiOK

----------------------------------------------------------------------------
(* Steps.                                                                  *)

\* The view does not go to the channel unless the user asked.
ViewAsked == ui.view = "other" /\ ui'.view = "channel" => LookAt \/ asked

Good == Inv' /\ ViewAsked

\* A step that leaves who is in alone, or tells the list on screen.
LEMMA ShownOK ==
  ASSUME PanelShowsList, Joined' => Joined, ui'.view = ui.view,
         \/ ui'.fresh \/ ui'.due
         \/ ui' = ui
  PROVE  PanelShowsList'
BY DEF PanelShowsList

LEMMA InitOK == Init => Inv
<1> SUFFICES ASSUME Init
             PROVE  Inv
  OBVIOUS
<1>1. LinkOK(link) /\ ~link.up
  <2>1. <<>> \in Seq(Lines)
    BY EmptySeq
  <2>2. QED
    BY <2>1 DEF Init, LinkOK
<1>2. RosterOK
  BY FS_EmptySet DEF Init, RosterOK, Members
<1>3. config.listed \in BOOLEAN
  BY DEF Init
<1>4. buffer.held = config.listed /\ BufferOK
  <2>1. buffer = [held |-> config.listed, list |-> NoNicks]
    BY <1>3 DEF Init, Held, NoBuffer
  <2>2. QED
    BY <1>3, <2>1, NoNicksOK DEF BufferOK
<1>5. PICK view \in {"none", "channel", "other"} :
        ui = [row |-> config.listed, view |-> view, fresh |-> TRUE, due |-> FALSE]
  BY DEF Init
<1>6. UiOK(ui) /\ ui.fresh /\ ui.row = config.listed
  BY <1>3, <1>5 DEF UiOK
<1>7. PanelShowsList /\ RowHeld /\ JoinDue /\ NoteTrue /\ FlagsOK
  BY <1>1, <1>4, <1>6 DEF FlagsOK, Init, PanelShowsList, RowHeld, JoinDue, NoteTrue
<1>8. QED
  BY <1>1, <1>2, <1>4, <1>6, <1>7 DEF Inv

LEMMA UserStep ==
  ASSUME Inv, User \/ RefreshNicks
  PROVE  Good
<1>1. /\ LinkOK(link) /\ RosterOK /\ BufferOK /\ UiOK(ui)
      /\ FlagsOK /\ PanelShowsList /\ RowHeld /\ JoinDue /\ NoteTrue
  BY DEF Inv
<1>2. ASSUME RefreshNicks \/ LookAway \/ LookAt
      PROVE  Good
  <2>1. UNCHANGED <<self, link, roster, buffer, note, left, asked>>
    BY <1>2 DEF RefreshNicks, LookAway, LookAt
  <2>2. UiOK(ui') /\ ui'.fresh /\ ui'.row = ui.row
    BY <1>1, <1>2 DEF UiOK, RefreshNicks, LookAway, LookAt
  <2>3. ViewAsked
    BY <1>1, <1>2 DEF ViewAsked, RefreshNicks, LookAway, UiOK
  <2>4. /\ LinkOK(link') /\ RosterOK' /\ BufferOK'
    BY <1>1, <2>1 DEF RosterOK, BufferOK, Members, Joined
  <2>5. FlagsOK' /\ PanelShowsList' /\ RowHeld' /\ JoinDue' /\ NoteTrue'
    BY <1>1, <2>1, <2>2 DEF FlagsOK, PanelShowsList, RowHeld, JoinDue, NoteTrue, Joined, Members
  <2>6. QED
    BY <2>1, <2>2, <2>3, <2>4, <2>5 DEF Good, Inv
<1>3. ASSUME SendJoin \/ SendPart
      PROVE  Good
  <2>1. /\ UNCHANGED <<self, roster, buffer, ui, left>>
        /\ FlagsOK' /\ NoteTrue'
    <3>1. CASE SendJoin
      BY <1>1, <3>1 DEF SendJoin, NoteTrue, FlagsOK
    <3>2. CASE SendPart
      BY <1>1, <3>2 DEF SendPart, NoteTrue, FlagsOK
    <3>3. QED
      BY <1>3, <3>1, <3>2
  <2>2. PICK line \in Lines : link' = Sent(line)
    BY <1>3 DEF SendJoin, SendPart, Lines
  <2>3. LinkOK(link') /\ link'.up = link.up
    BY <1>1, <2>2, SentLine
  <2>4. JoinDue'
    BY <1>1, <2>1, <2>2, SentLine DEF JoinDue, Joined, Members
  <2>5. RosterOK' /\ BufferOK' /\ UiOK(ui')
    BY <1>1, <2>1 DEF RosterOK, BufferOK, Members, Joined
  <2>6. PanelShowsList' /\ RowHeld' /\ ViewAsked
    BY <1>1, <2>1 DEF PanelShowsList, RowHeld, Joined, Members, ViewAsked
  <2>7. QED
    BY <2>1, <2>3, <2>4, <2>5, <2>6 DEF Good, Inv
<1>4. ASSUME CloseBuffer
      PROVE  Good
  <2>1. /\ UNCHANGED <<self, roster, note, left, asked>> /\ buffer' = NoBuffer
    BY <1>4 DEF CloseBuffer
  <2>2. LinkOK(link')
    BY <1>1, <1>4, SentLine DEF CloseBuffer, Lines
  <2>3. BufferOK'
    BY <2>1, NoNicksOK DEF NoBuffer, BufferOK
  <2>4. UiOK(ui') /\ ui'.fresh /\ ~ui'.row /\ ui'.view # "channel"
    BY <1>1, <1>4 DEF CloseBuffer, UiOK
  <2>5. RosterOK'
    BY <1>1, <2>1 DEF RosterOK, Members, Joined
  <2>6. FlagsOK' /\ PanelShowsList' /\ RowHeld' /\ JoinDue' /\ NoteTrue' /\ ViewAsked
    BY <1>1, <2>1, <2>4 DEF FlagsOK, PanelShowsList, RowHeld, JoinDue, NoteTrue, ViewAsked
  <2>7. QED
    BY <2>1, <2>2, <2>3, <2>4, <2>5, <2>6 DEF Good, Inv
<1>5. QED
  BY <1>2, <1>3, <1>4 DEF User

\* The user is in: the roster has the user, the buffer and its row are there.
LEMMA SelfJoinedStep ==
  ASSUME Inv, NEW rest \in Seq(Lines), OnSelfJoined(rest)
  PROVE  Good
<1>1. /\ LinkOK(link) /\ RosterOK /\ BufferOK /\ UiOK(ui)
      /\ FlagsOK /\ PanelShowsList /\ RowHeld /\ JoinDue /\ NoteTrue
  BY DEF Inv
<1>2. UNCHANGED <<self, left, asked>> /\ ChannelAdded
  BY DEF OnSelfJoined
<1>3. RosterOK' /\ Joined'
  <2>1. PICK others \in Rosters(Others), mine \in SUBSET Ranks :
          roster' = WithNick(others, self, mine)
    BY DEF OnSelfJoined
  <2>2. DOMAIN others \in SUBSET Nicks
    BY DEF Rosters, Others
  <2>3. Members' = DOMAIN others \cup {self}
    BY <2>1 DEF Members, WithNick
  <2>4. IsFiniteSet(Members')
    BY <2>2, <2>3, NicksFinite, FS_AddElement
  <2>5. QED
    BY <1>2, <2>3, <2>4 DEF RosterOK, Joined
<1>4. LinkOK(link')
  <2> DEFINE sent == IF config.implicit THEN <<"NAMES">> \o rest ELSE Append(rest, "NAMES")
  <2>1. sent \in Seq(Lines)
    <3>1. "NAMES" \in Lines
      BY DEF Lines
    <3>2. <<"NAMES">> \o rest \in Seq(Lines) /\ Append(rest, "NAMES") \in Seq(Lines)
      BY <3>1
    <3>3. QED
      BY <3>2
  <2>2. link' = [link EXCEPT !.sent = sent]
    BY DEF OnSelfJoined
  <2> HIDE DEF sent
  <2>3. link = [up |-> link.up, sent |-> link.sent] /\ link.up \in BOOLEAN
    BY <1>1 DEF LinkOK
  <2>4. link' = [up |-> link.up, sent |-> sent]
    BY <2>2, <2>3
  <2>5. QED
    BY <2>1, <2>3, <2>4 DEF LinkOK
<1>5. BufferOK' /\ buffer'.held
  <2>1. ListOK(AddNick(buffer.list, self))
    BY <1>1, AddNickOK DEF BufferOK
  <2>2. buffer' = Posted(AddNick(buffer.list, self))
    BY DEF OnSelfJoined
  <2>3. QED
    BY <2>1, <2>2, PostedOK
<1>6. UiOK(ui') /\ ui'.fresh
  BY <1>1, <1>2 DEF ChannelAdded, UiOK
<1>7. FlagsOK' /\ NoteTrue' /\ ViewAsked
  <2>1. note' = (note /\ ui.row)
    BY <1>2 DEF ChannelAdded
  <2>2. FlagsOK' /\ NoteTrue'
    BY <1>1, <1>2, <2>1, Zenon DEF FlagsOK, NoteTrue
  <2>3. ui.view = "other" /\ ~note => ui'.view = "other"
    BY <1>1, <1>2 DEF ChannelAdded, UiOK
  <2>4. QED
    BY <1>1, <2>2, <2>3 DEF NoteTrue, ViewAsked
<1>8. PanelShowsList' /\ RowHeld' /\ JoinDue'
  BY <1>3, <1>5, <1>6 DEF PanelShowsList, RowHeld, JoinDue
<1>9. QED
  BY <1>3, <1>4, <1>5, <1>6, <1>7, <1>8 DEF Good, Inv

\* The server's answers, and a join it makes by itself.
LEMMA AnswerStep ==
  ASSUME Inv,
         ServerJoins \/ AnswerJoin \/ IgnoreJoin \/ RefuseJoin \/ AnswerPart \/ AnswerNames
  PROVE  Good
<1>1. /\ LinkOK(link) /\ RosterOK /\ BufferOK /\ UiOK(ui)
      /\ FlagsOK /\ PanelShowsList /\ RowHeld /\ JoinDue /\ NoteTrue
  BY DEF Inv
<1>2. ASSUME ServerJoins
      PROVE  Good
  <2>1. link.sent \in Seq(Lines) /\ OnSelfJoined(link.sent)
    BY <1>1, <1>2 DEF ServerJoins, LinkOK
  <2>2. QED
    BY <2>1, SelfJoinedStep
<1>3. ASSUME AnswerJoin
      PROVE  Good
  <2>1. Tail(link.sent) \in Seq(Lines) /\ OnSelfJoined(Tail(link.sent))
    BY <1>1, <1>3, LineAnswered DEF AnswerJoin
  <2>2. QED
    BY <2>1, SelfJoinedStep
<1>4. ASSUME IgnoreJoin \/ RefuseJoin
      PROVE  Good
  <2>1. /\ UNCHANGED <<self, roster, buffer, ui, note, asked>>
        /\ link.sent # <<>> /\ link' = [link EXCEPT !.sent = Tail(@)]
        /\ left' = left \/ left' = TRUE
        /\ Joined \/ left' = TRUE
    BY <1>4 DEF IgnoreJoin, RefuseJoin
  <2>2. LinkOK(link')
    BY <1>1, <2>1, LineAnswered
  <2>3. RosterOK' /\ BufferOK' /\ UiOK(ui') /\ FlagsOK'
    BY <1>1, <2>1 DEF RosterOK, BufferOK, FlagsOK, Members, Joined
  <2>4. PanelShowsList' /\ RowHeld' /\ JoinDue' /\ NoteTrue' /\ ViewAsked
    BY <1>1, <2>1 DEF PanelShowsList, RowHeld, JoinDue, NoteTrue, ViewAsked, Joined, Members
  <2>5. QED
    BY <2>2, <2>3, <2>4 DEF Good, Inv
<1>5. ASSUME AnswerPart
      PROVE  Good
  <2>1. /\ UNCHANGED <<self, note, asked>> /\ roster' = <<>>
        /\ link.sent # <<>> /\ Head(link.sent) = "PART"
        /\ link' = [link EXCEPT !.sent = Tail(@)]
    BY <1>5 DEF AnswerPart
  <2>2. /\ LinkOK(link') /\ link'.up = link.up
        /\ (\E i \in DOMAIN link.sent : link.sent[i] = "JOIN")
             => \E i \in DOMAIN link'.sent : link'.sent[i] = "JOIN"
    BY <1>1, <2>1, LineAnswered
  <2>3. RosterOK' /\ ~Joined'
    BY <2>1, FS_EmptySet DEF RosterOK, Members, Joined
  <2>4. CASE Joined
    <3>1. /\ buffer' = Held /\ left' = TRUE
          /\ ui' = IF buffer.held THEN Scheduled(ui) ELSE ui
      BY <1>5, <2>4 DEF AnswerPart
    <3>2. BufferOK' /\ buffer'.held
      BY <3>1, NoNicksOK DEF Held, BufferOK
    <3>3. UiOK(ui') /\ ui'.view = ui.view
      BY <1>1, <3>1, UiScheduled
    <3>4. FlagsOK' /\ PanelShowsList' /\ RowHeld' /\ JoinDue' /\ NoteTrue' /\ ViewAsked
      BY <1>1, <2>1, <2>3, <3>1, <3>2, <3>3
      DEF FlagsOK, PanelShowsList, RowHeld, JoinDue, NoteTrue, ViewAsked
    <3>5. QED
      BY <2>2, <2>3, <3>2, <3>3, <3>4 DEF Good, Inv
  <2>5. CASE ~Joined
    <3>1. UNCHANGED <<buffer, ui, left>>
      BY <1>5, <2>5 DEF AnswerPart
    <3>2. BufferOK' /\ UiOK(ui') /\ FlagsOK'
      BY <1>1, <2>1, <3>1 DEF BufferOK, FlagsOK
    <3>3. PanelShowsList' /\ RowHeld' /\ JoinDue' /\ NoteTrue' /\ ViewAsked
      BY <1>1, <2>1, <2>2, <2>3, <2>5, <3>1
      DEF PanelShowsList, RowHeld, JoinDue, NoteTrue, ViewAsked
    <3>4. QED
      BY <2>2, <2>3, <3>2, <3>3 DEF Good, Inv
  <2>6. QED
    BY <2>4, <2>5
<1>6. ASSUME AnswerNames
      PROVE  Good
  <2>1. /\ UNCHANGED <<self, roster, note, left, asked>>
        /\ link.sent # <<>> /\ Head(link.sent) = "NAMES"
        /\ link' = [link EXCEPT !.sent = Tail(@)]
        /\ ui' = Scheduled(ui)
    BY <1>6 DEF AnswerNames
  <2>2. PICK names \in (IF Joined THEN {roster} ELSE Rosters(Others)) :
          buffer' = Posted(SetNicks({[nick |-> n, prefixes |-> names[n]] : n \in DOMAIN names}))
    BY <1>6 DEF AnswerNames
  <2>3. IsFiniteSet(DOMAIN names)
    BY <1>1, NicksFinite DEF RosterOK, Members, Rosters, Others
  <2>4. BufferOK' /\ buffer'.held
    BY <2>2, <2>3, SetNicksOK, PostedOK
  <2>5. /\ LinkOK(link') /\ link'.up = link.up
        /\ (\E i \in DOMAIN link.sent : link.sent[i] = "JOIN")
             => \E i \in DOMAIN link'.sent : link'.sent[i] = "JOIN"
    BY <1>1, <2>1, LineAnswered
  <2>6. UiOK(ui') /\ ui'.due /\ ui'.row = ui.row /\ ui'.view = ui.view
    BY <1>1, <2>1, UiScheduled
  <2>7. RosterOK' /\ FlagsOK' /\ (Joined' <=> Joined)
    BY <1>1, <2>1 DEF RosterOK, FlagsOK, Members, Joined
  <2>8. PanelShowsList' /\ RowHeld' /\ JoinDue' /\ NoteTrue' /\ ViewAsked
    BY <1>1, <2>1, <2>4, <2>5, <2>6, <2>7
    DEF PanelShowsList, RowHeld, JoinDue, NoteTrue, ViewAsked
  <2>9. QED
    BY <2>4, <2>5, <2>6, <2>7, <2>8 DEF Good, Inv
<1>7. QED
  BY <1>2, <1>3, <1>4, <1>5, <1>6

\* The user list is told of a change, or nothing of it shows.
LEMMA UiTold ==
  ASSUME UiOK(ui), ui' \in {ui, Updated(ui), Scheduled(ui)}
  PROVE  /\ UiOK(ui') /\ ui'.row = ui.row /\ ui'.view = ui.view
         /\ ui'.fresh \/ ui'.due \/ ui' = ui
BY UiUpdated, UiScheduled

\* The buffer keeps the index right, and is not closed.
LEMMA BufferKept ==
  ASSUME BufferOK, NEW list, ListOK(list),
         buffer' \in {buffer, Posted(list), [buffer EXCEPT !.list = list]}
  PROVE  BufferOK' /\ (buffer.held => buffer'.held)
<1>1. CASE buffer' = buffer
  BY <1>1 DEF BufferOK
<1>2. CASE buffer' = Posted(list)
  BY <1>2, PostedOK
<1>3. CASE buffer' = [buffer EXCEPT !.list = list]
  BY <1>3, ListChangedOK
<1>4. QED
  BY <1>1, <1>2, <1>3

\* A line about the others, or of a kick: the link and the requests stay, and
\* the user stays in or is kicked.
LEMMA LineStep ==
  ASSUME Inv, UNCHANGED <<link, note, asked>>, RosterOK', left' \in BOOLEAN,
         Joined' => Joined, Joined => Joined' \/ left', left => left',
         NEW list, ListOK(list),
         buffer' \in {buffer, Posted(list), [buffer EXCEPT !.list = list]},
         ui' \in {ui, Updated(ui), Scheduled(ui)}
  PROVE  Good
<1>1. /\ LinkOK(link) /\ RosterOK /\ BufferOK /\ UiOK(ui)
      /\ FlagsOK /\ PanelShowsList /\ RowHeld /\ JoinDue /\ NoteTrue
  BY DEF Inv
<1>2. /\ UiOK(ui') /\ ui'.row = ui.row /\ ui'.view = ui.view
      /\ ui'.fresh \/ ui'.due \/ ui' = ui
  BY <1>1, UiTold
<1>3. BufferOK' /\ (buffer.held => buffer'.held)
  BY <1>1, BufferKept
<1>4. PanelShowsList'
  BY <1>1, <1>2, ShownOK
<1>5. LinkOK(link') /\ FlagsOK' /\ NoteTrue'
  BY <1>1 DEF FlagsOK, NoteTrue
<1>6. RowHeld' /\ JoinDue' /\ ViewAsked
  BY <1>1, <1>2, <1>3 DEF RowHeld, JoinDue, ViewAsked
<1>7. QED
  BY <1>2, <1>3, <1>4, <1>5, <1>6 DEF Good, Inv

LEMMA OtherStep ==
  ASSUME Inv, NEW n \in Nicks,
         OtherJoined(n) \/ OtherParted(n) \/ OnUserQuit(n) \/ OnKicked(n)
  PROVE  Good
<1>1. RosterOK /\ ListOK(buffer.list) /\ left \in BOOLEAN
  BY DEF Inv, BufferOK, FlagsOK
<1>2. UNCHANGED <<self, link, note, asked>>
  BY DEF OtherJoined, OtherParted, OnUserQuit, OnKicked
<1>3. IsFiniteSet(Members) /\ (Members = {} \/ Joined)
  BY <1>1 DEF RosterOK
<1>4. /\ ListOK(AddNick(buffer.list, n)) /\ ListOK(RemoveNick(buffer.list, n))
  BY <1>1, AddNickOK, RemoveNickOK
<1>5. ASSUME OtherJoined(n)
      PROVE  Good
  <2>1. Members' = Members \cup {n} /\ Joined
    BY <1>5 DEF OtherJoined, Members, WithNick
  <2>2. RosterOK' /\ Joined'
    BY <1>2, <1>3, <2>1, FS_AddElement DEF RosterOK, Joined
  <2>3. UNCHANGED left /\ buffer' = Posted(AddNick(buffer.list, n)) /\ ui' = Updated(ui)
    BY <1>5 DEF OtherJoined
  <2>4. QED
    BY <1>1, <1>2, <1>4, <2>1, <2>2, <2>3, LineStep
<1>6. ASSUME OtherParted(n) \/ OnUserQuit(n)
      PROVE  Good
  <2>1. Members' = Members \ {n} /\ n # self
    BY <1>6 DEF OtherParted, OnUserQuit, Members, Others
  <2>2. RosterOK' /\ (Joined' <=> Joined)
    BY <1>2, <1>3, <2>1, FS_RemoveElement DEF RosterOK, Joined
  <2>3. /\ UNCHANGED left
        /\ ui' \in {ui, Updated(ui), Scheduled(ui)}
    BY <1>6 DEF OtherParted, OnUserQuit
  <2>4. buffer' \in {buffer, Posted(RemoveNick(buffer.list, n)),
                     [buffer EXCEPT !.list = RemoveNick(buffer.list, n)]}
    BY <1>6 DEF OtherParted, OnUserQuit
  <2>5. QED
    BY <1>1, <1>2, <1>4, <2>2, <2>3, <2>4, LineStep
<1>7. ASSUME OnKicked(n)
      PROVE  Good
  <2>1. /\ Members' = IF n = self THEN {} ELSE Members \ {n}
        /\ left' = (left \/ n = self)
    BY <1>7 DEF OnKicked, Members
  <2>2. RosterOK' /\ (Joined' => Joined) /\ (Joined => Joined' \/ left')
    BY <1>2, <1>3, <2>1, FS_RemoveElement, FS_EmptySet DEF RosterOK, Joined
  <2>3. left' \in BOOLEAN /\ (left => left')
    BY <1>1, <2>1
  <2>4. /\ ui' \in {ui, Updated(ui), Scheduled(ui)}
        /\ buffer' \in {buffer, Posted(RemoveNick(buffer.list, n)),
                        [buffer EXCEPT !.list = RemoveNick(buffer.list, n)]}
    BY <1>7 DEF OnKicked
  <2>5. QED
    BY <1>2, <1>4, <2>2, <2>3, <2>4, LineStep
<1>8. QED
  BY <1>5, <1>6, <1>7

LEMMA BatchStep ==
  ASSUME Inv, NEW S \in SUBSET Nicks, OnNetsplit(S) \/ OnNetjoin(S)
  PROVE  Good
<1>1. RosterOK /\ ListOK(buffer.list) /\ left \in BOOLEAN
  BY DEF Inv, BufferOK, FlagsOK
<1>2. UNCHANGED <<self, link, note, left, asked>>
  BY DEF OnNetsplit, OnNetjoin
<1>3. IsFiniteSet(Members) /\ (Members = {} \/ Joined) /\ IsFiniteSet(S)
  BY <1>1, NicksFinite DEF RosterOK
<1>4. ASSUME OnNetsplit(S)
      PROVE  Good
  <2>1. Members' = Members \ S /\ self \notin S
    BY <1>4 DEF OnNetsplit, Members, Others
  <2>2. IsFiniteSet(Members')
    BY <1>3, <2>1, FS_Subset
  <2>3. RosterOK' /\ (Joined' <=> Joined)
    BY <1>2, <1>3, <2>1, <2>2 DEF RosterOK, Joined
  <2>4. ListOK(RemoveNicks(buffer.list, S))
    BY <1>1, RemoveNicksOK
  <2>5. /\ ui' \in {ui, Updated(ui), Scheduled(ui)}
        /\ buffer' \in {buffer, Posted(RemoveNicks(buffer.list, S)),
                        [buffer EXCEPT !.list = RemoveNicks(buffer.list, S)]}
    BY <1>4 DEF OnNetsplit
  <2>6. QED
    BY <1>1, <1>2, <2>3, <2>4, <2>5, LineStep
<1>5. ASSUME OnNetjoin(S)
      PROVE  Good
  <2>1. Members' = Members \cup S /\ Joined
    BY <1>5 DEF OnNetjoin, Members
  <2>2. IsFiniteSet(Members')
    BY <1>3, <2>1, FS_Union
  <2>3. RosterOK' /\ Joined'
    BY <1>2, <2>1, <2>2 DEF RosterOK, Joined
  <2>4. ListOK(AddNicks(buffer.list, S))
    BY <1>1, <1>3, AddNicksOK
  <2>5. /\ ui' \in {ui, Updated(ui), Scheduled(ui)}
        /\ buffer' \in {buffer, Posted(AddNicks(buffer.list, S)),
                        [buffer EXCEPT !.list = AddNicks(buffer.list, S)]}
    BY <1>5 DEF OnNetjoin
  <2>6. QED
    BY <1>1, <1>2, <2>1, <2>3, <2>4, <2>5, LineStep
<1>6. QED
  BY <1>4, <1>5

LEMMA RenameStep ==
  ASSUME Inv, NEW n \in Nicks, NEW m \in Nicks, OnNickChanged(n, m)
  PROVE  Good
<1>1. RosterOK /\ ListOK(buffer.list) /\ left \in BOOLEAN
  BY DEF Inv, BufferOK, FlagsOK
<1>2. UNCHANGED <<link, note, left, asked>> /\ m \notin Members \cup {n, self}
  BY DEF OnNickChanged
<1>3. /\ self' = IF n = self THEN m ELSE self
      /\ Members' = IF n \in Members THEN (Members \ {n}) \cup {m} ELSE Members
  BY DEF OnNickChanged, Members
<1>4. IsFiniteSet(Members) /\ (Members = {} \/ Joined)
  BY <1>1 DEF RosterOK
<1>5. IsFiniteSet(Members')
  <2>1. IsFiniteSet(Members \ {n})
    BY <1>4, FS_RemoveElement
  <2>2. IsFiniteSet((Members \ {n}) \cup {m})
    BY <2>1, FS_AddElement
  <2>3. QED
    BY <1>3, <1>4, <2>2
<1>6. (Joined' <=> Joined) /\ (Members' = {} \/ Joined')
  BY <1>2, <1>3, <1>4 DEF Joined
<1>7. ListOK(RenameNick(buffer.list, n, m))
  BY <1>1, RenameNickOK
<1>8. /\ ui' \in {ui, Updated(ui), Scheduled(ui)}
      /\ buffer' \in {buffer, Posted(RenameNick(buffer.list, n, m)),
                      [buffer EXCEPT !.list = RenameNick(buffer.list, n, m)]}
  BY DEF OnNickChanged
<1>9. RosterOK'
  BY <1>5, <1>6 DEF RosterOK
<1>10. QED
  BY <1>1, <1>2, <1>6, <1>7, <1>8, <1>9, LineStep

LEMMA ModeStep ==
  ASSUME Inv, NEW line, OnModes(line)
  PROVE  Good
<1>1. RosterOK /\ ListOK(buffer.list) /\ left \in BOOLEAN
  BY DEF Inv, BufferOK, FlagsOK
<1>2. UNCHANGED <<self, link, note, left, asked>>
  BY DEF OnModes
<1>3. Members' = Members
  BY DEF OnModes, Members
<1>4. RosterOK' /\ (Joined' <=> Joined)
  BY <1>1, <1>2, <1>3 DEF RosterOK, Joined
<1> DEFINE list == IF buffer.held THEN SetPrefixes(buffer.list, line) ELSE NoNicks
<1>5. ListOK(list)
  BY <1>1, SetPrefixesOK, NoNicksOK
<1>6. /\ ui' \in {ui, Updated(ui), Scheduled(ui)}
      /\ buffer' \in {buffer, Posted(list), [buffer EXCEPT !.list = list]}
  BY DEF OnModes
<1> HIDE DEF list
<1>7. QED
  BY <1>1, <1>2, <1>4, <1>5, <1>6, LineStep

\* The channel is joined on every link if it has a row; no list is kept off it.
LEMMA LinkStep ==
  ASSUME Inv, OnConnected \/ OnDisconnected
  PROVE  Good
<1>1. /\ LinkOK(link) /\ RosterOK /\ BufferOK /\ UiOK(ui)
      /\ FlagsOK /\ PanelShowsList /\ RowHeld /\ JoinDue /\ NoteTrue
  BY DEF Inv
<1>2. ASSUME OnConnected
      PROVE  Good
  <2>1. UNCHANGED <<self, roster, buffer, ui, note, asked>> /\ left' = FALSE
    BY <1>2 DEF OnConnected
  <2> DEFINE sent == IF config.listed \/ buffer.held THEN <<"JOIN">> ELSE <<>>
  <2>2. link' = [up |-> TRUE, sent |-> sent]
    BY <1>2 DEF OnConnected
  <2>3. sent \in Seq(Lines) /\ (buffer.held => sent[1] = "JOIN" /\ 1 \in DOMAIN sent)
    <3>1. <<>> \in Seq(Lines)
      BY EmptySeq
    <3>2. <<"JOIN">> \in Seq(Lines)
      <4>1. "JOIN" \in Lines
        BY DEF Lines
      <4>2. QED
        BY <4>1
    <3>3. QED
      BY <3>1, <3>2
  <2> HIDE DEF sent
  <2>4. LinkOK(link') /\ (buffer.held => \E i \in DOMAIN link'.sent : link'.sent[i] = "JOIN")
    BY <2>2, <2>3 DEF LinkOK
  <2>5. RosterOK' /\ BufferOK' /\ UiOK(ui') /\ FlagsOK'
    BY <1>1, <2>1 DEF RosterOK, BufferOK, FlagsOK, Members, Joined
  <2>6. PanelShowsList' /\ RowHeld' /\ JoinDue' /\ NoteTrue' /\ ViewAsked
    BY <1>1, <2>1, <2>4
    DEF PanelShowsList, RowHeld, JoinDue, NoteTrue, ViewAsked, Joined, Members
  <2>7. QED
    BY <2>4, <2>5, <2>6 DEF Good, Inv
<1>3. ASSUME OnDisconnected
      PROVE  Good
  <2>1. /\ UNCHANGED <<self, note, left, asked>> /\ roster' = <<>>
        /\ link' = [up |-> FALSE, sent |-> <<>>]
        /\ buffer' = [buffer EXCEPT !.list = NoNicks]
        /\ ui' = Unshown(ui)
    BY <1>3 DEF OnDisconnected
  <2>2. LinkOK(link') /\ ~link'.up
    <3>1. <<>> \in Seq(Lines)
      BY EmptySeq
    <3>2. QED
      BY <2>1, <3>1 DEF LinkOK
  <2>3. RosterOK' /\ ~Joined'
    BY <2>1, FS_EmptySet DEF RosterOK, Members, Joined
  <2>4. BufferOK' /\ buffer'.held = buffer.held
    BY <1>1, <2>1, NoNicksOK, ListChangedOK
  <2>5. UiOK(ui') /\ ui'.row = ui.row /\ ui'.view = ui.view
    BY <1>1, <2>1, UiUnshown
  <2>6. FlagsOK' /\ PanelShowsList' /\ RowHeld' /\ JoinDue' /\ NoteTrue' /\ ViewAsked
    BY <1>1, <2>1, <2>2, <2>3, <2>4, <2>5
    DEF FlagsOK, PanelShowsList, RowHeld, JoinDue, NoteTrue, ViewAsked
  <2>7. QED
    BY <2>2, <2>3, <2>4, <2>5, <2>6 DEF Good, Inv
<1>4. QED
  BY <1>2, <1>3

LEMMA StepGood == Inv /\ [Next]_vars => Good
<1> SUFFICES ASSUME Inv, [Next]_vars
             PROVE  Good
  OBVIOUS
<1>1. CASE User \/ RefreshNicks
  BY <1>1, UserStep
<1>2. CASE ServerJoins \/ AnswerJoin \/ IgnoreJoin \/ RefuseJoin \/ AnswerPart \/ AnswerNames
  BY <1>2, AnswerStep
<1>3. CASE \E n \in Nicks : OtherJoined(n) \/ OtherParted(n) \/ OnUserQuit(n) \/ OnKicked(n)
  BY <1>3, OtherStep
<1>4. CASE \E S \in SUBSET Nicks : OnNetsplit(S) \/ OnNetjoin(S)
  BY <1>4, BatchStep
<1>5. CASE \E n, m \in Nicks : OnNickChanged(n, m)
  BY <1>5, RenameStep
<1>6. CASE \E line \in LinesNow : OnModes(line)
  BY <1>6, ModeStep
<1>7. CASE OnConnected \/ OnDisconnected
  BY <1>7, LinkStep
<1>8. CASE UNCHANGED vars
  <2>1. UNCHANGED <<config, self, link, roster, buffer, ui, note, left, asked, strayed>>
    BY <1>8 DEF vars
  <2>2. Inv'
    BY <2>1 DEF Inv, RosterOK, BufferOK, FlagsOK, PanelShowsList, RowHeld, JoinDue, NoteTrue,
                Joined, Members
  <2>3. ViewAsked
    BY <2>1 DEF ViewAsked
  <2>4. QED
    BY <2>2, <2>3 DEF Good
<1>9. QED
  BY <1>1, <1>2, <1>3, <1>4, <1>5, <1>6, <1>7, <1>8 DEF Next

----------------------------------------------------------------------------
(* The list has who is there once NAMES are in.                            *)

\* The list has the members of r with the prefixes that Uplink was told of, and
\* they are r's unless a line has strayed.
Told(t, list, r, off) ==
  /\ t \in Rosters(Nicks) /\ DOMAIN t = DOMAIN r
  /\ Lists(list, t)
  /\ off \/ t = r

\* Inductive with Inv.  The list is one of entries even while it is out of
\* date, or an operation on it might not be one on a list.
ListsInv ==
  /\ config \in [listed : BOOLEAN, implicit : BOOLEAN]
  /\ self \in Nicks /\ roster \in Rosters(Nicks) /\ strayed \in BOOLEAN
  /\ ~link.up => link.sent = <<>> /\ Members = {}
  /\ IsNickList(buffer.list)
  /\ NamesAreIn => \E t : Told(t, buffer.list, roster, strayed)

LEMMA RosterTyped ==
  ASSUME NEW r
  PROVE  r \in Rosters(Nicks) <=> r = [n \in DOMAIN r |-> r[n]] /\ DOMAIN r \subseteq Nicks
                                  /\ \A n \in DOMAIN r : r[n] \in SUBSET Ranks
BY DEF Rosters

LEMMA NobodyThere ==
  ASSUME NEW r, r = [n \in DOMAIN r |-> r[n]], DOMAIN r = {}
  PROVE  r = <<>>
OBVIOUS

LEMMA NobodyIsRoster == <<>> \in Rosters(Nicks) /\ DOMAIN <<>> = {}
<1>1. <<>> \in [{} -> SUBSET Ranks] /\ DOMAIN <<>> = {}
  OBVIOUS
<1>2. {} \in SUBSET Nicks
  OBVIOUS
<1>3. QED
  BY <1>1, <1>2 DEF Rosters

LEMMA NoNicksTyped == IsNickList(NoNicks)
<1>1. <<>> \in Seq(NickEntry)
  BY EmptySeq
<1>2. QED
  BY <1>1 DEF NoNicks, IsNickList

LEMMA InitLists == Init => ListsInv
<1> SUFFICES ASSUME Init
             PROVE  ListsInv
  OBVIOUS
<1>1. self \in Nicks
  BY NickAssumption, MinIsIn DEF Init
<1>2. roster = <<>> /\ Members = {}
  BY DEF Init, Members
<1>3. roster \in Rosters(Nicks)
  BY <1>2, NobodyIsRoster
<1>4. buffer.list = NoNicks
  BY DEF Init, Held, NoBuffer
<1>5. link.sent = <<>> /\ ~link.up
  BY DEF Init
<1>6. config \in [listed : BOOLEAN, implicit : BOOLEAN] /\ strayed \in BOOLEAN
  BY DEF Init
<1>7. QED
  BY <1>1, <1>2, <1>3, <1>4, <1>5, <1>6, NoNicksTyped DEF ListsInv, NamesAreIn

\* Lines that are there in an earlier queue are there still.
LEMMA UserLists ==
  ASSUME Inv, ListsInv, User \/ RefreshNicks
  PROVE  ListsInv'
<1>1. LinkOK(link) /\ link.sent \in Seq(Lines) /\ link.up \in BOOLEAN /\ UiOK(ui)
  BY DEF Inv, LinkOK
<1>2. /\ self \in Nicks /\ roster \in Rosters(Nicks) /\ IsNickList(buffer.list)
      /\ config \in [listed : BOOLEAN, implicit : BOOLEAN]
      /\ ~link.up => link.sent = <<>> /\ Members = {}
      /\ NamesAreIn => \E t : Told(t, buffer.list, roster, strayed)
      /\ strayed \in BOOLEAN
  BY DEF ListsInv
<1>3. ASSUME RefreshNicks \/ LookAway \/ LookAt
      PROVE  ListsInv'
  <2>1. UNCHANGED <<config, self, link, roster, buffer, strayed>>
    BY <1>3 DEF RefreshNicks, LookAway, LookAt
  <2>2. ui'.row = ui.row
    BY <1>1, <1>3 DEF UiOK, RefreshNicks, LookAway, LookAt
  <2>3. QED
    BY <1>2, <2>1, <2>2 DEF ListsInv, NamesAreIn, Joined, Members
<1>4. ASSUME SendJoin \/ SendPart
      PROVE  ListsInv'
  <2>1. UNCHANGED <<config, self, roster, buffer, ui, strayed>>
    BY <1>4 DEF SendJoin, SendPart
  <2>2. PICK line \in Lines : link' = Sent(line)
    BY <1>4 DEF SendJoin, SendPart, Lines
  <2>3. link'.up = link.up
    BY <1>1, <2>2, SentLine
  <2>4. ~link.up => link' = link
    BY <2>2 DEF Sent
  <2>5. \A i \in DOMAIN link.sent : i \in DOMAIN link'.sent /\ link'.sent[i] = link.sent[i]
    <3>1. CASE link.up
      <4> DEFINE longer == Append(link.sent, line)
      <4>1. \A i \in DOMAIN link.sent : i \in DOMAIN longer /\ longer[i] = link.sent[i]
        BY <1>1
      <4>2. link'.sent = longer
        <5> HIDE DEF longer
        <5>1. link = [up |-> link.up, sent |-> link.sent]
          BY <1>1 DEF LinkOK
        <5>2. link' = [link EXCEPT !.sent = longer]
          BY <2>2, <3>1 DEF Sent, longer
        <5>3. QED
          BY <5>1, <5>2
      <4> HIDE DEF longer
      <4>3. QED
        BY <4>1, <4>2
    <3>2. CASE ~link.up
      BY <2>4, <3>2
    <3>3. QED
      BY <3>1, <3>2
  <2>6. NamesAreIn' => NamesAreIn
    BY <2>1, <2>3, <2>5 DEF NamesAreIn, Joined, Members
  <2>7. QED
    BY <1>2, <2>1, <2>3, <2>4, <2>6 DEF ListsInv, Members
<1>5. ASSUME CloseBuffer
      PROVE  ListsInv'
  <2>1. UNCHANGED <<config, self, roster, strayed>> /\ buffer' = NoBuffer /\ link' = Sent("PART")
    BY <1>5 DEF CloseBuffer
  <2>2. ~ui'.row
    BY <1>1, <1>5 DEF CloseBuffer, UiOK
  <2>3. IsNickList(buffer'.list)
    BY <2>1, NoNicksTyped DEF NoBuffer
  <2>4. ~link'.up => link' = link
    <3>1. link'.up = link.up
      BY <1>1, <2>1, SentLine DEF Lines
    <3>2. QED
      BY <2>1, <3>1 DEF Sent
  <2>5. QED
    BY <1>2, <2>1, <2>2, <2>3, <2>4 DEF ListsInv, NamesAreIn, Members
<1>6. QED
  BY <1>3, <1>4, <1>5 DEF User

LEMMA SelfJoinedLists ==
  ASSUME Inv, ListsInv, link.up, NEW rest \in Seq(Lines), OnSelfJoined(rest)
  PROVE  ListsInv'
<1>1. /\ self \in Nicks /\ IsNickList(buffer.list) /\ ListOK(buffer.list)
      /\ config \in [listed : BOOLEAN, implicit : BOOLEAN] /\ strayed \in BOOLEAN
  BY DEF Inv, BufferOK, ListsInv
<1>2. UNCHANGED <<config, self, strayed>>
  BY DEF OnSelfJoined
<1>3. roster' \in Rosters(Nicks)
  <2>1. PICK others \in Rosters(Others), mine \in SUBSET Ranks :
          roster' = WithNick(others, self, mine)
    BY DEF OnSelfJoined
  <2>2. DOMAIN others \subseteq Nicks /\ \A n \in DOMAIN others : others[n] \in SUBSET Ranks
    BY DEF Rosters, Others
  <2>3. /\ DOMAIN roster' = DOMAIN others \cup {self}
        /\ roster' = [n \in DOMAIN roster' |-> roster'[n]]
        /\ \A n \in DOMAIN roster' : roster'[n] = IF n = self THEN mine ELSE others[n]
    BY <2>1 DEF WithNick
  <2>4. QED
    BY <1>1, <2>2, <2>3, RosterTyped
<1>4. link'.up /\ \E i \in DOMAIN link'.sent : link'.sent[i] = "NAMES"
  <2> DEFINE sent == IF config.implicit THEN <<"NAMES">> \o rest ELSE Append(rest, "NAMES")
  <2>1. \E i \in DOMAIN sent : sent[i] = "NAMES"
    <3>1. Len(rest) \in Nat
      BY LenProperties
    <3>2. CASE config.implicit
      <4>1. 1 \in DOMAIN (<<"NAMES">> \o rest) /\ (<<"NAMES">> \o rest)[1] = "NAMES"
        BY <3>1
      <4>2. QED
        BY <3>2, <4>1
    <3>3. CASE ~config.implicit
      <4>1. /\ Len(rest) + 1 \in DOMAIN Append(rest, "NAMES")
            /\ Append(rest, "NAMES")[Len(rest) + 1] = "NAMES"
        BY <3>1
      <4>2. QED
        BY <3>3, <4>1
    <3>4. QED
      BY <3>2, <3>3
  <2>2. link' = [link EXCEPT !.sent = sent]
    BY DEF OnSelfJoined
  <2> HIDE DEF sent
  <2>3. link = [up |-> link.up, sent |-> link.sent]
    BY DEF Inv, LinkOK
  <2>4. link' = [up |-> link.up, sent |-> sent]
    BY <2>2, <2>3
  <2>5. QED
    BY <2>1, <2>4
<1>5. IsNickList(buffer'.list)
  <2>1. buffer'.list = AddNick(buffer.list, self)
    BY DEF OnSelfJoined, Posted
  <2>2. QED
    BY <1>1, <2>1, AddNickLists
<1>6. QED
  BY <1>1, <1>2, <1>3, <1>4, <1>5 DEF ListsInv, NamesAreIn

LEMMA AnswerLists ==
  ASSUME Inv, ListsInv,
         ServerJoins \/ AnswerJoin \/ IgnoreJoin \/ RefuseJoin \/ AnswerPart \/ AnswerNames
  PROVE  ListsInv'
<1>1. LinkOK(link) /\ link.sent \in Seq(Lines) /\ BufferOK
  BY DEF Inv, LinkOK
<1>2. /\ self \in Nicks /\ roster \in Rosters(Nicks) /\ IsNickList(buffer.list)
      /\ config \in [listed : BOOLEAN, implicit : BOOLEAN]
      /\ ~link.up => link.sent = <<>> /\ Members = {}
      /\ NamesAreIn => \E t : Told(t, buffer.list, roster, strayed)
      /\ strayed \in BOOLEAN
  BY DEF ListsInv
<1>3. ASSUME ServerJoins
      PROVE  ListsInv'
  BY <1>1, <1>3, SelfJoinedLists DEF ServerJoins, Listening
<1>4. ASSUME AnswerJoin
      PROVE  ListsInv'
  <2>1. link.sent # <<>> /\ OnSelfJoined(Tail(link.sent))
    BY <1>4 DEF AnswerJoin
  <2>2. Tail(link.sent) \in Seq(Lines) /\ link.up
    BY <1>1, <1>2, <2>1, LineAnswered
  <2>3. QED
    BY <2>1, <2>2, SelfJoinedLists
<1>5. ASSUME link.sent # <<>>, link' = [link EXCEPT !.sent = Tail(@)]
      PROVE  /\ link.up /\ link'.up
             /\ (Head(link.sent) # "NAMES" /\ \A i \in DOMAIN link'.sent : link'.sent[i] # "NAMES")
                  => \A i \in DOMAIN link.sent : link.sent[i] # "NAMES"
  <2>1. link' = [up |-> link.up, sent |-> Tail(link.sent)] /\ link.up
    BY <1>1, <1>2, <1>5, LineAnswered
  <2>2. ASSUME NEW i \in DOMAIN link.sent, link.sent[i] = "NAMES", Head(link.sent) # "NAMES"
        PROVE  \E k \in DOMAIN Tail(link.sent) : Tail(link.sent)[k] = "NAMES"
    <3>1. i \in 1..Len(link.sent) /\ Len(link.sent) \in Nat
      BY <1>1, <2>2
    <3>2. i # 1
      BY <1>1, <2>2, <3>1
    <3>3. i - 1 \in DOMAIN Tail(link.sent) /\ Tail(link.sent)[i - 1] = link.sent[i]
      BY <1>1, <3>1, <3>2
    <3>4. QED
      BY <2>2, <3>3
  <2>3. link'.sent = Tail(link.sent)
    BY <2>1
  <2>4. QED
    BY <2>1, <2>2, <2>3
<1>6. ASSUME IgnoreJoin \/ RefuseJoin
      PROVE  ListsInv'
  <2>1. /\ UNCHANGED <<config, self, roster, buffer, ui, strayed>>
        /\ link.sent # <<>> /\ Head(link.sent) = "JOIN" /\ link' = [link EXCEPT !.sent = Tail(@)]
    BY <1>6 DEF IgnoreJoin, RefuseJoin
  <2>2. link'.up /\ (NamesAreIn' => NamesAreIn)
    BY <1>5, <2>1 DEF NamesAreIn, Joined, Members
  <2>3. QED
    BY <1>2, <2>1, <2>2 DEF ListsInv, Members
<1>7. ASSUME AnswerPart
      PROVE  ListsInv'
  <2>1. /\ UNCHANGED <<config, self>> /\ roster' = <<>> /\ strayed' = FALSE
        /\ link.sent # <<>> /\ link' = [link EXCEPT !.sent = Tail(@)]
        /\ buffer' = Held \/ buffer' = buffer
    BY <1>7 DEF AnswerPart
  <2>2. link'.up /\ Members' = {} /\ ~Joined'
    BY <1>5, <2>1 DEF Members, Joined
  <2>3. IsNickList(buffer'.list)
    BY <1>2, <2>1, NoNicksTyped DEF Held
  <2>4. roster' \in Rosters(Nicks)
    BY <2>1, NobodyIsRoster
  <2>5. QED
    BY <1>2, <2>1, <2>2, <2>3, <2>4 DEF ListsInv, NamesAreIn
<1>8. ASSUME AnswerNames
      PROVE  ListsInv'
  <2>1. /\ UNCHANGED <<config, self, roster>> /\ strayed' = FALSE
        /\ link.sent # <<>> /\ link' = [link EXCEPT !.sent = Tail(@)]
    BY <1>8 DEF AnswerNames
  <2>2. PICK names \in (IF Joined THEN {roster} ELSE Rosters(Others)) :
          buffer' = Posted(SetNicks({[nick |-> n, prefixes |-> names[n]] : n \in DOMAIN names}))
    BY <1>8 DEF AnswerNames
  <2>3. names \in Rosters(Nicks)
    <3>1. CASE Joined
      BY <1>2, <2>2, <3>1
    <3>2. CASE ~Joined
      BY <2>2, <3>2 DEF Rosters, Others
    <3>3. QED
      BY <3>1, <3>2
  <2>4. buffer'.list = SetNicks(EntriesOf(names))
    BY <2>2 DEF Posted, EntriesOf
  <2>5. IsNickList(buffer'.list) /\ Lists(buffer'.list, names)
    BY <2>3, <2>4, SetNicksLists
  <2>6. NamesAreIn' => names = roster'
    BY <2>1, <2>2 DEF NamesAreIn, Joined, Members
  <2>7. link'.up
    BY <1>5, <2>1
  <2>8. names = roster' => Told(names, buffer'.list, roster', strayed')
    BY <2>3, <2>5 DEF Told
  <2>9. QED
    BY <1>2, <2>1, <2>5, <2>6, <2>7, <2>8 DEF ListsInv
<1>9. QED
  BY <1>3, <1>4, <1>6, <1>7, <1>8

\* What Uplink was told is taken on as the roster is.
LEMMA TakenUp ==
  ASSUME NEW t, NEW r, NEW r2 \in Rosters(Nicks), NEW t2,
         t2 = [m \in DOMAIN r2 |-> t2[m]], \A m \in DOMAIN r2 : t2[m] \in SUBSET Ranks,
         t = r => \A m \in DOMAIN r2 : t2[m] = r2[m],
         NEW list2, Lists(list2, t2), NEW off, NEW off2, off \/ t = r, off => off2
  PROVE  Told(t2, list2, r2, off2)
<1>1. r2 = [m \in DOMAIN r2 |-> r2[m]] /\ DOMAIN r2 \subseteq Nicks
  BY RosterTyped
<1>2. DOMAIN t2 = DOMAIN r2
  OBVIOUS
<1>3. t2 \in Rosters(Nicks)
  BY <1>1, <1>2, RosterTyped
<1>4. t = r => t2 = r2
  BY <1>1
<1>5. QED
  BY <1>2, <1>3, <1>4 DEF Told

LEMMA ToldIs ==
  ASSUME NEW t, NEW list, NEW r, NEW off, Told(t, list, r, off)
  PROVE  /\ DOMAIN t = DOMAIN r /\ Lists(list, t) /\ (off \/ t = r)
         /\ DOMAIN t \subseteq Nicks /\ \A m \in DOMAIN t : t[m] \in SUBSET Ranks
BY RosterTyped DEF Told

\* A line about who is there: the list takes it up as the roster does.
LEMMA LineLists ==
  ASSUME Inv, ListsInv, link.up, UNCHANGED <<config, link>>,
         self' \in Nicks, roster' \in Rosters(Nicks), strayed' \in BOOLEAN, Joined' => Joined,
         ui' \in {ui, Updated(ui), Scheduled(ui)}, IsNickList(buffer'.list),
         \A t : Joined /\ Joined' /\ buffer.held /\ Told(t, buffer.list, roster, strayed)
                  => \E t2 : Told(t2, buffer'.list, roster', strayed')
  PROVE  ListsInv'
<1>1. ui'.row = ui.row /\ (ui.row => buffer.held)
  BY UiTold DEF Inv, RowHeld
<1>2. NamesAreIn' => NamesAreIn /\ buffer.held /\ Joined /\ Joined'
  BY <1>1 DEF NamesAreIn
<1>3. NamesAreIn' => \E t2 : Told(t2, buffer'.list, roster', strayed')
  BY <1>2 DEF ListsInv
<1>4. QED
  BY <1>3 DEF ListsInv

LEMMA ListNow ==
  ASSUME Inv, NEW list,
         \/ buffer' = Posted(list)
         \/ buffer' = [buffer EXCEPT !.list = list]
  PROVE  buffer'.list = list
<1>1. buffer = [held |-> buffer.held, list |-> buffer.list]
  BY DEF Inv, BufferOK
<1>2. QED
  BY <1>1 DEF Posted

LEMMA OtherLists ==
  ASSUME Inv, ListsInv, NEW n \in Nicks,
         OtherJoined(n) \/ OtherParted(n) \/ OnUserQuit(n) \/ OnKicked(n)
  PROVE  ListsInv'
<1>1. /\ self \in Nicks /\ roster \in Rosters(Nicks)
      /\ IsNickList(buffer.list) /\ ListOK(buffer.list) /\ strayed \in BOOLEAN
  BY DEF Inv, BufferOK, ListsInv
<1>2. link.up /\ UNCHANGED <<config, self, link>>
  BY DEF OtherJoined, OtherParted, OnUserQuit, OnKicked, Listening
<1>3. DOMAIN roster \subseteq Nicks /\ \A m \in DOMAIN roster : roster[m] \in SUBSET Ranks
  BY <1>1, RosterTyped
<1>4. CASE OtherJoined(n)
  <2>1. /\ roster' = WithNick(roster, n, {}) /\ n \notin DOMAIN roster
        /\ buffer' = Posted(AddNick(buffer.list, n)) /\ ui' = Updated(ui) /\ Joined
    BY <1>4 DEF OtherJoined, Members
  <2>2. roster' \in Rosters(Nicks)
    <3>1. /\ DOMAIN roster' = DOMAIN roster \cup {n}
          /\ roster' = [m \in DOMAIN roster' |-> roster'[m]]
          /\ \A m \in DOMAIN roster' : roster'[m] = IF m = n THEN {} ELSE roster[m]
      BY <2>1 DEF WithNick
    <3>2. QED
      BY <1>3, <3>1, RosterTyped
  <2>3. buffer'.list = AddNick(buffer.list, n)
    BY <2>1, ListNow
  <2>4. IsNickList(buffer'.list) /\ strayed' = strayed
    BY <1>1, <1>4, <2>3, AddNickLists DEF OtherJoined
  <2>5. ASSUME NEW t, Told(t, buffer.list, roster, strayed)
        PROVE  \E t2 : Told(t2, buffer'.list, roster', strayed')
    <3> DEFINE t2 == WithNick(t, n, {})
    <3>1. /\ DOMAIN t = DOMAIN roster /\ Lists(buffer.list, t) /\ (strayed \/ t = roster)
          /\ \A m \in DOMAIN t : t[m] \in SUBSET Ranks
      BY <2>5, ToldIs
    <3>2. Lists(buffer'.list, t2)
      BY <1>1, <2>1, <2>3, <3>1, AddNickLists
    <3>3. /\ DOMAIN roster' = DOMAIN roster \cup {n}
          /\ \A m \in DOMAIN roster' : roster'[m] = IF m = n THEN {} ELSE roster[m]
      BY <2>1 DEF WithNick
    <3>4. /\ DOMAIN t2 = DOMAIN roster' /\ t2 = [m \in DOMAIN roster' |-> t2[m]]
          /\ \A m \in DOMAIN roster' : t2[m] = IF m = n THEN {} ELSE t[m]
      BY <3>1, <3>3 DEF WithNick
    <3> HIDE DEF t2
    <3>5. \A m \in DOMAIN roster' : t2[m] \in SUBSET Ranks
      BY <3>1, <3>3, <3>4
    <3>6. t = roster => \A m \in DOMAIN roster' : t2[m] = roster'[m]
      BY <3>3, <3>4
    <3>7. Told(t2, buffer'.list, roster', strayed')
      BY <2>2, <2>4, <3>1, <3>2, <3>4, <3>5, <3>6, TakenUp
    <3>8. QED
      BY <3>7
  <2>6. QED
    BY <1>1, <1>2, <2>1, <2>2, <2>4, <2>5, LineLists
<1>5. CASE OtherParted(n) \/ OnUserQuit(n) \/ OnKicked(n)
  <2>1. /\ IsNickList(RemoveNick(buffer.list, n))
        /\ \A r, r2 : /\ Lists(buffer.list, r) /\ DOMAIN r2 = DOMAIN r \ {n}
                      /\ \A m \in DOMAIN r2 : r2[m] = r[m]
                      => Lists(RemoveNick(buffer.list, n), r2)
    BY <1>1, RemoveNickLists
  <2>2. /\ DOMAIN roster' \in {DOMAIN roster \ {n}, {}}
        /\ roster' = [m \in DOMAIN roster' |-> roster'[m]]
        /\ \A m \in DOMAIN roster' : roster'[m] = roster[m]
        /\ DOMAIN roster' = {} \/ DOMAIN roster' = DOMAIN roster \ {n}
    BY <1>5 DEF OtherParted, OnUserQuit, OnKicked, Members
  <2>3. roster' \in Rosters(Nicks)
    <3>1. DOMAIN roster' \subseteq DOMAIN roster
      BY <2>2
    <3>2. \A m \in DOMAIN roster' : roster'[m] \in SUBSET Ranks
      BY <1>3, <2>2, <3>1
    <3>3. QED
      BY <1>3, <2>2, <3>1, <3>2, RosterTyped
  <2>4. Joined' => Joined /\ DOMAIN roster' = DOMAIN roster \ {n}
    BY <1>2, <2>2 DEF Joined, Members
  <2>5. ui' \in {ui, Updated(ui), Scheduled(ui)}
    BY <1>5 DEF OtherParted, OnUserQuit, OnKicked
  <2>6. \/ buffer'.list = RemoveNick(buffer.list, n)
        \/ buffer'.list = buffer.list /\ ~buffer.held
    <3>1. \/ buffer' = Posted(RemoveNick(buffer.list, n))
          \/ buffer' = [buffer EXCEPT !.list = RemoveNick(buffer.list, n)]
          \/ buffer' = buffer /\ ~buffer.held
      BY <1>5 DEF OtherParted, OnUserQuit, OnKicked
    <3>2. QED
      BY <3>1, ListNow
  <2>7. IsNickList(buffer'.list)
    BY <1>1, <2>1, <2>6
  <2>8. strayed' \in BOOLEAN /\ (Joined' => strayed' = strayed)
    BY <1>1, <1>2, <1>5 DEF OtherParted, OnUserQuit, OnKicked, Joined, Members
  <2>9. ASSUME NEW t, Joined', buffer.held, Told(t, buffer.list, roster, strayed)
        PROVE  \E t2 : Told(t2, buffer'.list, roster', strayed')
    <3> DEFINE t2 == [m \in DOMAIN roster' |-> t[m]]
    <3>1. /\ DOMAIN t = DOMAIN roster /\ Lists(buffer.list, t) /\ (strayed \/ t = roster)
          /\ \A m \in DOMAIN t : t[m] \in SUBSET Ranks
      BY <2>9, ToldIs
    <3>2. /\ DOMAIN t2 = DOMAIN roster' /\ t2 = [m \in DOMAIN roster' |-> t2[m]]
          /\ \A m \in DOMAIN roster' : t2[m] = t[m]
      OBVIOUS
    <3> HIDE DEF t2
    <3>3. DOMAIN roster' = DOMAIN roster \ {n} /\ buffer'.list = RemoveNick(buffer.list, n)
      BY <2>4, <2>6, <2>9
    <3>4. Lists(buffer'.list, t2)
      BY <2>1, <3>1, <3>2, <3>3
    <3>5. \A m \in DOMAIN roster' : t2[m] \in SUBSET Ranks
      BY <3>1, <3>2, <3>3
    <3>6. t = roster => \A m \in DOMAIN roster' : t2[m] = roster'[m]
      BY <2>2, <3>2
    <3>7. strayed => strayed'
      BY <2>8, <2>9
    <3>8. Told(t2, buffer'.list, roster', strayed')
      BY <2>3, <3>1, <3>2, <3>4, <3>5, <3>6, <3>7, TakenUp
    <3>9. QED
      BY <3>8
  <2>10. QED
    BY <1>1, <1>2, <2>3, <2>4, <2>5, <2>7, <2>8, <2>9, LineLists
<1>6. QED
  BY <1>4, <1>5

LEMMA BatchLists ==
  ASSUME Inv, ListsInv, NEW S \in SUBSET Nicks, OnNetsplit(S) \/ OnNetjoin(S)
  PROVE  ListsInv'
<1>1. /\ self \in Nicks /\ roster \in Rosters(Nicks)
      /\ IsNickList(buffer.list) /\ ListOK(buffer.list) /\ strayed \in BOOLEAN
  BY DEF Inv, BufferOK, ListsInv
<1>2. link.up /\ UNCHANGED <<config, self, link, strayed>>
  BY DEF OnNetsplit, OnNetjoin, Listening
<1>3. DOMAIN roster \subseteq Nicks /\ \A m \in DOMAIN roster : roster[m] \in SUBSET Ranks
  BY <1>1, RosterTyped
<1>4. CASE OnNetsplit(S)
  <2>1. /\ IsNickList(RemoveNicks(buffer.list, S))
        /\ \A r, r2 : /\ Lists(buffer.list, r) /\ DOMAIN r2 = DOMAIN r \ S
                      /\ \A m \in DOMAIN r2 : r2[m] = r[m]
                      => Lists(RemoveNicks(buffer.list, S), r2)
    BY <1>1, RemoveNicksLists
  <2>2. /\ roster' = [m \in DOMAIN roster' |-> roster'[m]]
        /\ DOMAIN roster' = DOMAIN roster \ S
        /\ \A m \in DOMAIN roster' : roster'[m] = roster[m]
    BY <1>4 DEF OnNetsplit, Members
  <2>3. roster' \in Rosters(Nicks)
    <3>1. \A m \in DOMAIN roster' : roster'[m] \in SUBSET Ranks
      BY <1>3, <2>2
    <3>2. QED
      BY <1>3, <2>2, <3>1, RosterTyped
  <2>4. Joined' => Joined
    BY <1>2, <2>2 DEF Joined, Members
  <2>5. ui' \in {ui, Updated(ui), Scheduled(ui)}
    BY <1>4 DEF OnNetsplit
  <2>6. \/ buffer'.list = RemoveNicks(buffer.list, S)
        \/ buffer'.list = buffer.list /\ ~(\E n \in S : Has(buffer.list, n))
    <3>1. \/ buffer' = [buffer EXCEPT !.list = RemoveNicks(buffer.list, S)]
          \/ buffer' = buffer /\ ~(\E n \in S : Has(buffer.list, n))
      BY <1>4 DEF OnNetsplit
    <3>2. QED
      BY <3>1, ListNow
  <2>7. IsNickList(buffer'.list)
    BY <1>1, <2>1, <2>6
  <2>8. ASSUME NEW t, Told(t, buffer.list, roster, strayed)
        PROVE  \E t2 : Told(t2, buffer'.list, roster', strayed')
    <3> DEFINE t2 == [m \in DOMAIN roster' |-> t[m]]
    <3>1. /\ DOMAIN t = DOMAIN roster /\ Lists(buffer.list, t) /\ (strayed \/ t = roster)
          /\ \A m \in DOMAIN t : t[m] \in SUBSET Ranks
      BY <2>8, ToldIs
    <3>2. /\ DOMAIN t2 = DOMAIN roster' /\ t2 = [m \in DOMAIN roster' |-> t2[m]]
          /\ \A m \in DOMAIN roster' : t2[m] = t[m]
      OBVIOUS
    <3> HIDE DEF t2
    <3>3. Lists(buffer'.list, t2)
      <4>1. CASE buffer'.list = RemoveNicks(buffer.list, S)
        BY <2>1, <2>2, <3>1, <3>2, <4>1
      <4>2. CASE buffer'.list = buffer.list /\ ~(\E n \in S : Has(buffer.list, n))
        <5>1. DOMAIN buffer.list.index = DOMAIN t
          BY <3>1 DEF Lists
        <5>2. DOMAIN t2 = DOMAIN t
          BY <2>2, <3>1, <3>2, <4>2, <5>1 DEF Has
        <5>3. \A m \in DOMAIN t : t2[m] = t[m]
          BY <3>2, <5>2
        <5>4. QED
          BY <3>1, <4>2, <5>2, <5>3, SameRoster
      <4>3. QED
        BY <2>6, <4>1, <4>2
    <3>4. \A m \in DOMAIN roster' : t2[m] \in SUBSET Ranks
      BY <2>2, <3>1, <3>2
    <3>5. t = roster => \A m \in DOMAIN roster' : t2[m] = roster'[m]
      BY <2>2, <3>2
    <3>6. Told(t2, buffer'.list, roster', strayed')
      BY <1>2, <2>3, <3>1, <3>2, <3>3, <3>4, <3>5, TakenUp
    <3>7. QED
      BY <3>6
  <2>9. QED
    BY <1>1, <1>2, <2>3, <2>4, <2>5, <2>7, <2>8, LineLists
<1>5. CASE OnNetjoin(S)
  <2>1. /\ IsNickList(AddNicks(buffer.list, S))
        /\ \A r, r2 : /\ Lists(buffer.list, r) /\ S \cap DOMAIN r = {}
                      /\ DOMAIN r2 = DOMAIN r \cup S
                      /\ \A m \in S : r2[m] = {}
                      /\ \A m \in DOMAIN r : r2[m] = r[m]
                      => Lists(AddNicks(buffer.list, S), r2)
    BY <1>1, AddNicksLists
  <2>2. /\ roster' = [m \in DOMAIN roster' |-> roster'[m]]
        /\ DOMAIN roster' = DOMAIN roster \cup S
        /\ \A m \in DOMAIN roster' : roster'[m] = IF m \in S THEN {} ELSE roster[m]
        /\ S \cap DOMAIN roster = {} /\ Joined
    BY <1>5 DEF OnNetjoin, Members
  <2>3. roster' \in Rosters(Nicks)
    <3>1. \A m \in DOMAIN roster' : roster'[m] \in SUBSET Ranks
      BY <1>3, <2>2
    <3>2. QED
      BY <1>3, <2>2, <3>1, RosterTyped
  <2>4. ui' \in {ui, Updated(ui), Scheduled(ui)}
    BY <1>5 DEF OnNetjoin
  <2>5. \/ buffer'.list = AddNicks(buffer.list, S)
        \/ buffer'.list = buffer.list /\ ~buffer.held
    <3>1. \/ buffer' = [buffer EXCEPT !.list = AddNicks(buffer.list, S)]
          \/ buffer' = buffer /\ ~buffer.held
      BY <1>5 DEF OnNetjoin
    <3>2. QED
      BY <3>1, ListNow
  <2>6. IsNickList(buffer'.list)
    BY <1>1, <2>1, <2>5
  <2>7. ASSUME NEW t, buffer.held, Told(t, buffer.list, roster, strayed)
        PROVE  \E t2 : Told(t2, buffer'.list, roster', strayed')
    <3> DEFINE t2 == [m \in DOMAIN roster' |-> IF m \in S THEN {} ELSE t[m]]
    <3>1. /\ DOMAIN t = DOMAIN roster /\ Lists(buffer.list, t) /\ (strayed \/ t = roster)
          /\ \A m \in DOMAIN t : t[m] \in SUBSET Ranks
      BY <2>7, ToldIs
    <3>2. /\ DOMAIN t2 = DOMAIN roster' /\ t2 = [m \in DOMAIN roster' |-> t2[m]]
          /\ \A m \in DOMAIN roster' : t2[m] = IF m \in S THEN {} ELSE t[m]
      OBVIOUS
    <3> HIDE DEF t2
    <3>3. (\A m \in S : t2[m] = {}) /\ (\A m \in DOMAIN t : t2[m] = t[m])
      BY <2>2, <3>1, <3>2
    <3>4. Lists(buffer'.list, t2)
      BY <2>1, <2>2, <2>5, <2>7, <3>1, <3>2, <3>3
    <3>5. \A m \in DOMAIN roster' : t2[m] \in SUBSET Ranks
      BY <2>2, <3>1, <3>2
    <3>6. t = roster => \A m \in DOMAIN roster' : t2[m] = roster'[m]
      BY <2>2, <3>2
    <3>7. Told(t2, buffer'.list, roster', strayed')
      BY <1>2, <2>3, <3>1, <3>2, <3>4, <3>5, <3>6, TakenUp
    <3>8. QED
      BY <3>7
  <2>8. QED
    BY <1>1, <1>2, <2>2, <2>3, <2>4, <2>6, <2>7, LineLists
<1>6. QED
  BY <1>4, <1>5

LEMMA RenameLists ==
  ASSUME Inv, ListsInv, NEW n \in Nicks, NEW m \in Nicks, OnNickChanged(n, m)
  PROVE  ListsInv'
<1>1. /\ self \in Nicks /\ roster \in Rosters(Nicks)
      /\ IsNickList(buffer.list) /\ ListOK(buffer.list) /\ strayed \in BOOLEAN
  BY DEF Inv, BufferOK, ListsInv
<1>2. /\ link.up /\ UNCHANGED <<config, link, strayed>> /\ m \notin Members \cup {n, self}
      /\ self' = IF n = self THEN m ELSE self
  BY DEF OnNickChanged, Listening
<1>3. DOMAIN roster \subseteq Nicks /\ \A k \in DOMAIN roster : roster[k] \in SUBSET Ranks
  BY <1>1, RosterTyped
<1>4. /\ roster' = [k \in DOMAIN roster' |-> roster'[k]]
      /\ DOMAIN roster' = IF n \in DOMAIN roster THEN (DOMAIN roster \ {n}) \cup {m}
                                                 ELSE DOMAIN roster
      /\ \A k \in DOMAIN roster' : roster'[k] = roster[IF k = m THEN n ELSE k]
  BY DEF OnNickChanged, Members
<1>5. roster' \in Rosters(Nicks)
  <2>1. \A k \in DOMAIN roster' : k \in Nicks /\ (IF k = m THEN n ELSE k) \in DOMAIN roster
    BY <1>2, <1>3, <1>4 DEF Members
  <2>2. \A k \in DOMAIN roster' : roster'[k] \in SUBSET Ranks
    BY <1>3, <1>4, <2>1
  <2>3. QED
    BY <1>4, <2>1, <2>2, RosterTyped
<1>6. Joined' => Joined
  BY <1>2, <1>4 DEF Joined, Members
<1>7. ui' \in {ui, Updated(ui), Scheduled(ui)}
  BY DEF OnNickChanged
<1>8. buffer'.list = RenameNick(buffer.list, n, m)
  <2>1. buffer' = [buffer EXCEPT !.list = RenameNick(buffer.list, n, m)]
    BY DEF OnNickChanged
  <2>2. QED
    BY <2>1, ListNow
<1>9. IsNickList(buffer'.list)
  BY <1>1, <1>8, RenameNickLists
<1>10. self' \in Nicks
  BY <1>1, <1>2
<1>11. ASSUME NEW t, Told(t, buffer.list, roster, strayed)
       PROVE  \E t2 : Told(t2, buffer'.list, roster', strayed')
  <2> DEFINE t2 == [k \in DOMAIN roster' |-> t[IF k = m THEN n ELSE k]]
  <2>1. /\ DOMAIN t = DOMAIN roster /\ Lists(buffer.list, t) /\ (strayed \/ t = roster)
        /\ \A k \in DOMAIN t : t[k] \in SUBSET Ranks
    BY <1>11, ToldIs
  <2>2. /\ DOMAIN t2 = DOMAIN roster' /\ t2 = [k \in DOMAIN roster' |-> t2[k]]
        /\ \A k \in DOMAIN roster' : t2[k] = t[IF k = m THEN n ELSE k]
    OBVIOUS
  <2> HIDE DEF t2
  <2>3. m \notin DOMAIN t /\ DOMAIN t2 = IF n \in DOMAIN t THEN (DOMAIN t \ {n}) \cup {m} ELSE DOMAIN t
    BY <1>2, <1>4, <2>1, <2>2 DEF Members
  <2>4. Lists(RenameNick(buffer.list, n, m), t2)
    BY <1>1, <2>1, <2>2, <2>3, RenameNickLists
  <2>5. \A k \in DOMAIN roster' : (IF k = m THEN n ELSE k) \in DOMAIN t
    BY <1>4, <2>1, <2>3
  <2>6. \A k \in DOMAIN roster' : t2[k] \in SUBSET Ranks
    BY <2>1, <2>2, <2>5
  <2>7. t = roster => \A k \in DOMAIN roster' : t2[k] = roster'[k]
    BY <1>4, <2>2
  <2>8. Told(t2, buffer'.list, roster', strayed')
    BY <1>2, <1>5, <1>8, <2>1, <2>2, <2>4, <2>6, <2>7, TakenUp
  <2>9. QED
    BY <2>8
<1>12. QED
  BY <1>1, <1>2, <1>5, <1>6, <1>7, <1>9, <1>10, <1>11, LineLists

LEMMA ModeLists ==
  ASSUME Inv, ListsInv, NEW line \in LinesNow, OnModes(line)
  PROVE  ListsInv'
<1>1. /\ self \in Nicks /\ roster \in Rosters(Nicks)
      /\ IsNickList(buffer.list) /\ ListOK(buffer.list) /\ strayed \in BOOLEAN
  BY DEF Inv, BufferOK, ListsInv
<1>2. link.up /\ UNCHANGED <<config, self, link>>
  BY DEF OnModes, Listening
<1>3. DOMAIN roster \subseteq Nicks /\ IsLine(line)
  BY <1>1, RosterTyped, LineTyped DEF Members
<1>4. /\ DOMAIN roster' = DOMAIN roster /\ roster' = [n \in DOMAIN roster' |-> roster'[n]]
      /\ \A n \in DOMAIN roster' :
           roster'[n] = Applied(line, {i \in DOMAIN line : line[i].arg = n}, roster[n])
  BY DEF OnModes, Members
<1>5. roster' \in Rosters(Nicks)
  <2>1. ASSUME NEW n \in DOMAIN roster'
        PROVE  roster'[n] \in SUBSET Ranks
    <3> DEFINE places == {i \in DOMAIN line : line[i].arg = n}
    <3>1. roster'[n] = Applied(line, places, roster[n])
      BY <1>4
    <3> HIDE DEF places
    <3>2. Applied(line, places, roster[n]) \in SUBSET Ranks
      BY AppliedIs, Zenon
    <3>3. QED
      BY <3>1, <3>2, Zenon
  <2>2. DOMAIN roster' \subseteq Nicks /\ roster' = [n \in DOMAIN roster' |-> roster'[n]]
    BY <1>3, <1>4
  <2> DEFINE r2 == roster'
  <2> HIDE DEF r2
  <2>3. r2 \in Rosters(Nicks)
    <3>1. /\ \A n \in DOMAIN r2 : r2[n] \in SUBSET Ranks
          /\ DOMAIN r2 \subseteq Nicks /\ r2 = [n \in DOMAIN r2 |-> r2[n]]
      BY <2>1, <2>2 DEF r2
    <3>2. QED
      BY <3>1, RosterTyped
  <2>4. QED
    BY <2>3 DEF r2
<1>6. Joined' => Joined
  BY <1>2, <1>4 DEF Joined, Members
<1>7. ui' \in {ui, Updated(ui), Scheduled(ui)}
  BY DEF OnModes
<1>8. strayed' \in BOOLEAN /\ (strayed => strayed') /\ (Strays(line) => strayed')
  <2>1. strayed' = (strayed \/ Strays(line))
    BY DEF OnModes
  <2>2. QED
    BY <1>1, <2>1, Zenon
<1>9. buffer'.list = IF buffer.held THEN SetPrefixes(buffer.list, line) ELSE NoNicks
  BY DEF OnModes, Posted
<1>10. IsNickList(buffer'.list)
  BY <1>1, <1>9, SetPrefixesLists, NoNicksTyped
<1>11. ASSUME NEW t, buffer.held, Told(t, buffer.list, roster, strayed)
       PROVE  \E t2 : Told(t2, buffer'.list, roster', strayed')
  <2> DEFINE t2 == ReadFor(line, t)
  <2>1. DOMAIN t = DOMAIN roster /\ Lists(buffer.list, t) /\ (strayed \/ t = roster)
    BY <1>11, ToldIs
  <2>2. /\ DOMAIN t2 = DOMAIN roster' /\ t2 = [n \in DOMAIN roster' |-> t2[n]]
        /\ \A n \in DOMAIN roster' : t2[n] = Applied(line, ReadOf(line, n), t[n])
    BY <1>4, <2>1 DEF ReadFor
  <2>3. Lists(buffer'.list, t2)
    BY <1>1, <1>9, <1>11, <2>1, SetPrefixesLists
  <2> HIDE DEF t2
  <2>4. \A n \in DOMAIN roster' : t2[n] \in SUBSET Ranks
    BY <2>2, AppliedIs
  <2>5. t = roster /\ ~Strays(line) => \A n \in DOMAIN roster' : t2[n] = roster'[n]
    <3>1. SUFFICES ASSUME t = roster, ~Strays(line), NEW n \in DOMAIN roster'
                   PROVE  t2[n] = roster'[n]
      OBVIOUS
    <3>2. Applied(line, ReadOf(line, n), roster[n])
            = Applied(line, {i \in DOMAIN line : line[i].arg = n}, roster[n])
      <4> DEFINE old == roster[n]
      <4> HIDE DEF old
      <4>1. Applied(line, ReadOf(line, n), old)
              = Applied(line, {i \in DOMAIN line : line[i].arg = n}, old)
        BY <1>3, <3>1, StraightLine
      <4>2. QED
        BY <4>1 DEF old
    <3>3. QED
      BY <1>4, <2>2, <3>1, <3>2
  <2>6. DOMAIN roster' \subseteq Nicks /\ roster' = [n \in DOMAIN roster' |-> roster'[n]]
    BY <1>3, <1>4
  <2>7. t2 \in Rosters(Nicks)
    BY <2>2, <2>4, <2>6, RosterTyped
  <2>8. t = roster /\ ~Strays(line) => t2 = roster'
    BY <2>2, <2>5, <2>6
  <2>9. Told(t2, buffer'.list, roster', strayed')
    BY <1>8, <2>1, <2>2, <2>3, <2>7, <2>8 DEF Told
  <2>10. QED
    BY <2>9
<1>12. QED
  BY <1>1, <1>2, <1>5, <1>6, <1>7, <1>8, <1>10, <1>11, LineLists

LEMMA LinkLists ==
  ASSUME Inv, ListsInv, OnConnected \/ OnDisconnected
  PROVE  ListsInv'
<1>1. /\ self \in Nicks /\ roster \in Rosters(Nicks) /\ IsNickList(buffer.list)
      /\ strayed \in BOOLEAN
      /\ config \in [listed : BOOLEAN, implicit : BOOLEAN]
      /\ ~link.up => link.sent = <<>> /\ Members = {}
  BY DEF ListsInv
<1>2. CASE OnConnected
  <2>1. UNCHANGED <<config, self, roster, buffer, strayed>> /\ Members = {} /\ link'.up
    BY <1>1, <1>2 DEF OnConnected
  <2>2. ~Joined'
    BY <2>1 DEF Joined, Members
  <2>3. QED
    BY <1>1, <2>1, <2>2 DEF ListsInv, NamesAreIn
<1>3. CASE OnDisconnected
  <2>1. /\ UNCHANGED <<config, self>> /\ roster' = <<>> /\ strayed' = FALSE
        /\ ~link'.up /\ link'.sent = <<>> /\ buffer' = [buffer EXCEPT !.list = NoNicks]
    BY <1>3 DEF OnDisconnected
  <2>2. roster' \in Rosters(Nicks) /\ Members' = {}
    BY <2>1, NobodyIsRoster DEF Members
  <2>3. IsNickList(buffer'.list)
    BY <2>1, ListNow, NoNicksTyped
  <2>4. QED
    BY <1>1, <2>1, <2>2, <2>3 DEF ListsInv, NamesAreIn
<1>4. QED
  BY <1>2, <1>3

\* Every step.
LEMMA StepLists == Inv /\ ListsInv /\ [Next]_vars => ListsInv'
<1> SUFFICES ASSUME Inv, ListsInv, [Next]_vars
             PROVE  ListsInv'
  OBVIOUS
<1>1. CASE User \/ RefreshNicks
  BY <1>1, UserLists
<1>2. CASE ServerJoins \/ AnswerJoin \/ IgnoreJoin \/ RefuseJoin \/ AnswerPart \/ AnswerNames
  BY <1>2, AnswerLists
<1>3. CASE \E n \in Nicks : OtherJoined(n) \/ OtherParted(n) \/ OnUserQuit(n) \/ OnKicked(n)
  BY <1>3, OtherLists
<1>4. CASE \E S \in SUBSET Nicks : OnNetsplit(S) \/ OnNetjoin(S)
  BY <1>4, BatchLists
<1>5. CASE \E n, m \in Nicks : OnNickChanged(n, m)
  BY <1>5, RenameLists
<1>6. CASE \E line \in LinesNow : OnModes(line)
  BY <1>6, ModeLists
<1>7. CASE OnConnected \/ OnDisconnected
  BY <1>7, LinkLists
<1>8. CASE UNCHANGED vars
  BY <1>8 DEF vars, ListsInv, NamesAreIn, Joined, Members
<1>9. QED
  BY <1>1, <1>2, <1>3, <1>4, <1>5, <1>6, <1>7, <1>8 DEF Next

\* A list that has who is there is the one setNicks makes of them.
LEMMA NickListFollows == Inv /\ ListsInv => NickListInv
<1> SUFFICES ASSUME Inv, ListsInv
             PROVE  NickListInv
  OBVIOUS
<1>1. TypeOK
  <2>1. /\ config \in [listed : BOOLEAN, implicit : BOOLEAN] /\ self \in Nicks
        /\ roster \in Rosters(Nicks) /\ IsNickList(buffer.list) /\ strayed \in BOOLEAN
    BY DEF ListsInv
  <2>2. roster = <<>> \/ Joined
    <3>1. roster = [n \in DOMAIN roster |-> roster[n]]
      BY <2>1, RosterTyped
    <3>2. Members = {} \/ Joined
      BY DEF Inv, RosterOK
    <3>3. QED
      BY <3>1, <3>2, NobodyThere DEF Members
  <2>3. link.up \in BOOLEAN /\ link.sent \in Seq({"JOIN", "PART", "NAMES"})
    BY DEF Inv, LinkOK, Lines
  <2>4. /\ buffer.held \in BOOLEAN /\ ui.row \in BOOLEAN
        /\ ui.view \in {"none", "channel", "other"} /\ {ui.fresh, ui.due} \subseteq BOOLEAN
        /\ {note, left, asked, strayed} \subseteq BOOLEAN
    BY <2>1 DEF Inv, BufferOK, UiOK, FlagsOK
  <2>5. QED
    BY <2>1, <2>2, <2>3, <2>4 DEF TypeOK
<1>2. NickListAgrees
  <2> SUFFICES ASSUME NamesAreIn
               PROVE  \E told \in [Members -> SUBSET Ranks] :
                        buffer.list.nicks = ListOf(told) /\ (strayed \/ told = roster)
    BY DEF NickListAgrees
  <2>1. PICK t : Told(t, buffer.list, roster, strayed)
    BY DEF ListsInv
  <2>2. /\ IsNickList(buffer.list) /\ t \in Rosters(Nicks) /\ Lists(buffer.list, t)
        /\ DOMAIN t = Members /\ (strayed \/ t = roster)
    BY <2>1 DEF ListsInv, Told, Members
  <2>3. IsNickList(SetNicks(EntriesOf(t))) /\ Lists(SetNicks(EntriesOf(t)), t)
    BY <2>2, SetNicksLists
  <2>4. buffer.list.nicks = ListOf(t)
    <3>1. buffer.list.nicks = SetNicks(EntriesOf(t)).nicks
      BY <2>2, <2>3, OneList DEF Lists, IsNickList
    <3>2. QED
      BY <3>1 DEF ListOf, EntriesOf
  <2>5. t \in [Members -> SUBSET Ranks]
    <3>1. /\ t = [n \in DOMAIN t |-> t[n]]
          /\ \A n \in DOMAIN t : t[n] \in SUBSET Ranks
      BY <2>2, RosterTyped
    <3>2. QED
      BY <2>2, <3>1
  <2>6. QED
    BY <2>2, <2>4, <2>5
<1>3. IndexPointsHome /\ PanelShowsList
  BY DEF Inv, BufferOK, ListOK, Home, IndexPointsHome
<1>4. QED
  BY <1>1, <1>2, <1>3 DEF NickListInv

----------------------------------------------------------------------------
(* Theorems.                                                               *)

\* The state of the buffer, the row, the list on screen and the queue of lines
\* belong together in every state: the invariant the others rest on.
THEOREM Invariant == Spec => []Inv
<1>1. Inv /\ [Next]_vars => Inv'
  BY StepGood DEF Good
<1>2. QED
  BY InitOK, <1>1, PTL DEF Spec

\* nickIndex of a Channel gives the place of the nick it is asked for, whatever
\* came in which order: addNick, removeNick, the batches of a netsplit, NAMES
\* and renames, also of nicks that are there twice or not at all.
THEOREM IndexRight == Spec => []IndexPointsHome
<1>1. Inv => IndexPointsHome
  BY DEF Inv, BufferOK, ListOK, Home, IndexPointsHome
<1>2. QED
  BY Invariant, <1>1, PTL

\* Uplink knows who is in a channel it is in: once the answer to NAMES is
\* handled, a Channel's list has just those in the channel, each once and in
\* the place that setNicks would give it, through every JOIN, PART, KICK, QUIT,
\* NICK, MODE, netsplit and netjoin that SessionModel handles; with the server's
\* prefixes, unless onModesReceived has met a prefix behind a mode whose argument
\* argModes is wrong about; and with it the type invariant, the index and the
\* list on screen.
THEOREM NickListRight == Spec => []NickListInv
<1>1. Init => Inv /\ ListsInv
  BY InitOK, InitLists
<1>2. Inv /\ ListsInv /\ [Next]_vars => (Inv /\ ListsInv)'
  BY StepGood, StepLists DEF Good
<1>3. Inv /\ ListsInv => NickListInv
  BY NickListFollows
<1>4. QED
  BY <1>1, <1>2, <1>3, PTL DEF Spec

\* The user list MainWindow shows is that of the buffer, or onNickListChanged's
\* timer is running, in every state in which Uplink is in the channel.
THEOREM PanelRight == Spec => []PanelShowsList
<1>1. Inv => PanelShowsList
  BY DEF Inv
<1>2. QED
  BY Invariant, <1>1, PTL

\* SessionModel joins a channel that has a row on every link, for whatever the
\* server answers: it is in the channel, or was refused, left or was kicked.
THEOREM Rejoined == Spec => []RejoinsOpen
<1>1. Inv => RejoinsOpen
  <2> SUFFICES ASSUME Inv, link.up, link.sent = <<>>, ui.row
               PROVE  Joined \/ left
    BY DEF RejoinsOpen
  <2>1. ~\E i \in DOMAIN link.sent : link.sent[i] = "JOIN"
    OBVIOUS
  <2>2. QED
    BY <2>1 DEF Inv, JoinDue
<1>2. QED
  BY Invariant, <1>1, PTL

\* MainWindow's onChannelAdded takes the view only for a user who has asked to
\* join: its note of a request is never left by anything else.
THEOREM ViewRight == Spec => ViewFollowsUser
<1>1. Inv /\ [Next]_vars => [ui.view = "other" /\ ui'.view = "channel" => LookAt \/ asked]_vars
  BY StepGood DEF Good, ViewAsked
<1>2. QED
  BY Invariant, <1>1, PTL DEF Spec, ViewFollowsUser
=============================================================================
