--------------------------- MODULE ServersProofs ---------------------------
(***************************************************************************)
(* Proofs about Servers, for any names of servers, also given twice or     *)
(* left blank, any nicks and any number of workers: the window's list of   *)
(* servers and ignored nicks and the session model's copy agree, rows,     *)
(* icons and panes follow the sessions, no client connects before the      *)
(* keychain has answered, and a worker is answered once.                   *)
(*                                                                         *)
(* The invariant is that the world, which is what the loops of the model   *)
(* rewrite, is a good one; a loop over a list of servers keeps it good by  *)
(* induction over the part of the list that has been gone through.         *)
(***************************************************************************)
EXTENDS Servers, SequenceTheorems, WellFoundedInduction, TLAPS

(* ------------------------------ induction ------------------------------ *)

LEMMA Least ==
  ASSUME NEW S \in SUBSET Nat, S # {}
  PROVE  \E k \in S : \A j \in S : k =< j
<1> DEFINE R == {ss \in Nat \X Nat : ss[1] < ss[2]}
<1>1. OpToRel(<, Nat) = R
  BY Zenon DEF OpToRel
<1>2. IsWellFoundedOn(R, Nat)
  BY NatLessThanWellFounded, <1>1, Zenon
<1>3. S \subseteq Nat
  OBVIOUS
<1> HIDE DEF R
<1>4. PICK k \in S : \A j \in S : ~(<<j, k>> \in R)
  BY <1>2, <1>3, WFMin, Zenon
<1>5. ASSUME NEW j \in S
      PROVE  k =< j
  <2>1. <<j, k>> \in Nat \X Nat /\ ~(<<j, k>> \in R)
    BY <1>3, <1>4
  <2>2. ~(j < k)
    BY <2>1 DEF R
  <2>3. QED
    BY <1>3, <2>2
<1>6. QED
  BY <1>5

\* Induction over the naturals, for a set of them.
LEMMA AllNaturals ==
  ASSUME NEW H, 0 \in H, \A k \in Nat : k \in H => k + 1 \in H
  PROVE  Nat \subseteq H
<1> DEFINE Rest == {k \in Nat : k \notin H}
<1>1. SUFFICES ASSUME Rest # {}
               PROVE  FALSE
  OBVIOUS
<1>2. Rest \in SUBSET Nat
  OBVIOUS
<1> HIDE DEF Rest
<1>3. PICK k \in Rest : \A j \in Rest : k =< j
  BY <1>1, <1>2, Least
<1>4. k \in Nat /\ k # 0 /\ k - 1 \in Nat /\ k - 1 \notin Rest
  BY <1>3 DEF Rest
<1>5. k - 1 \in H /\ (k - 1) + 1 = k
  BY <1>4 DEF Rest
<1>6. QED
  BY <1>3, <1>4, <1>5 DEF Rest

\* Induction up to a number.
LEMMA UpTo ==
  ASSUME NEW n \in Nat, NEW H, 0 \in H, \A k \in Nat : k < n /\ k \in H => k + 1 \in H
  PROVE  n \in H
<1> DEFINE P == {k \in Nat : k =< n => k \in H}
<1>1. 0 \in P
  OBVIOUS
<1>2. \A k \in Nat : k \in P => k + 1 \in P
  OBVIOUS
<1> HIDE DEF P
<1>3. Nat \subseteq P
  BY <1>1, <1>2, AllNaturals
<1>4. n \in P
  BY <1>3
<1>5. QED
  BY <1>4 DEF P

\* A loop that goes n times through a body, a function of what there is so
\* far and of the number of the turn, runs.
IsLoop(h, n, V, base, G) ==
  /\ h \in [0..n -> V]
  /\ \A i \in 0..n : h[i] = IF i = 0 THEN base ELSE G[<<h[i - 1], i>>]

LEMMA LoopExists ==
  ASSUME NEW n \in Nat, NEW V, NEW base \in V, NEW G \in [V \X (1..n) -> V]
  PROVE  \E h : IsLoop(h, n, V, base, G)
<1> DEFINE H == {k \in Nat : k =< n /\ \E h : IsLoop(h, k, V, base, G)}
<1>1. 0 \in H
  <2>1. IsLoop([i \in 0..0 |-> base], 0, V, base, G)
    BY DEF IsLoop
  <2>2. QED
    BY <2>1
<1>2. ASSUME NEW k \in Nat, k < n, k \in H
      PROVE  k + 1 \in H
  <2>1. PICK h : IsLoop(h, k, V, base, G)
    BY <1>2
  <2> DEFINE next == G[<<h[k], k + 1>>]
             g == [i \in 0..k + 1 |-> IF i = k + 1 THEN next ELSE h[i]]
  <2>2. h[k] \in V /\ k + 1 \in 1..n
    BY <1>2, <2>1 DEF IsLoop
  <2>3. next \in V
    BY <2>2
  <2> HIDE DEF next
  <2>4. \A i \in 0..k : h[i] \in V
    BY <2>1 DEF IsLoop
  <2>5. g \in [0..k + 1 -> V] /\ g[k + 1] = next /\ \A i \in 0..k : g[i] = h[i]
    BY <2>3, <2>4
  <2> HIDE DEF g
  <2>6. ASSUME NEW i \in 0..k + 1
        PROVE  g[i] = IF i = 0 THEN base ELSE G[<<g[i - 1], i>>]
    <3>1. CASE i = k + 1
      <4>1. g[i - 1] = h[k] /\ i # 0
        BY <2>5, <3>1
      <4>2. QED
        BY <2>5, <3>1, <4>1 DEF next
    <3>2. CASE i # k + 1
      <4>1. i \in 0..k /\ g[i] = h[i] /\ (i # 0 => g[i - 1] = h[i - 1])
        BY <2>5, <3>2
      <4>2. QED
        BY <2>1, <4>1 DEF IsLoop
    <3>3. QED
      BY <3>1, <3>2
  <2>7. IsLoop(g, k + 1, V, base, G)
    BY <2>5, <2>6 DEF IsLoop
  <2>8. k + 1 =< n
    BY <1>2
  <2>9. QED
    BY <2>7, <2>8
<1> HIDE DEF H
<1>3. n \in H
  BY <1>1, <1>2, UpTo
<1>4. QED
  BY <1>3 DEF H

\* A worker: told once its answer was handled in time or its time was up, and
\* no timer runs after either.
JobFields == [kind : {"sysinfo", "script"}, thread : {"running", "posted", "done"},
              timer : BOOLEAN, aborted : BOOLEAN, told : Nat]

ToldDuly(job) ==
  /\ job.told = IF job.aborted \/ job.thread = "done" THEN 1 ELSE 0
  /\ job.timer => ~job.aborted /\ job.thread # "done"

Workers == {job \in JobFields : ToldDuly(job)}

JobsOK == jobs \in Seq(Workers)

(* ------------------------------ the state ------------------------------ *)

Server == [name : Ids, rev : 1..2, off : BOOLEAN, pin : BOOLEAN]

\* What names from N are mapped to, some of them.
Table(N, V) == UNION {[S -> V] : S \in SUBSET N}

Configs == [servers : Seq(Server), ignore : Table(Nicks, SUBSET Kinds)]

\* A client that has left "resolving" waits for nothing.
Clients ==
  {c \in [cfg : Ids, name : Ids, pin : BOOLEAN, pending : SUBSET UNION {Secrets[n] : n \in Ids},
          phase : {"resolving", "trying", "up", "quitting", "down"}] :
     c.pending \subseteq Secrets[c.cfg] /\ (c.phase # "resolving" => c.pending = {})}

Worlds ==
  [known : [servers : Seq(Server), ignore : Table(Nicks, SUBSET Kinds)],
   sessions : [Ids -> Seq({"up", "down"})],
   clients : Seq(Clients),
   ui : [rows : SUBSET Ids, icons : SUBSET Ids, panes : SUBSET Ids]]

\* Rows, icons and panes follow the sessions.
Shown(ss, u) ==
  /\ u.icons \subseteq u.rows
  /\ \A n \in Ids : ss[n] # <<>> => n \in u.rows
  /\ \A n \in u.rows : n \in u.icons <=> ss[n] # <<>> /\ ss[n][1] = "up"
  /\ \A n \in u.panes : ss[n] # <<>>

Good == {w \in Worlds : Shown(w.sessions, w.ui)}

\* The configuration, the file, and what waits to be written or answered.
Settings ==
  /\ win \in Configs
  /\ file \in [servers : Seq(Server), ignore : Table(Nicks, SUBSET Kinds), ok : BOOLEAN]
  /\ store \in [saving : BOOLEAN, notice : BOOLEAN, reload : BOOLEAN, draft : Seq(Configs)]
  /\ dialog \in Seq(Seq(Server))
  /\ prompt \in Ids \cup {None}

(* ------------------------------- tables -------------------------------- *)

LEMMA TableHas ==
  ASSUME NEW N, NEW V, NEW f \in Table(N, V)
  PROVE  /\ DOMAIN f \subseteq N /\ f = [m \in DOMAIN f |-> f[m]]
         /\ \A m \in DOMAIN f : f[m] \in V
BY DEF Table

LEMMA IsTable ==
  ASSUME NEW N, NEW V, NEW D \in SUBSET N, NEW f \in [D -> V]
  PROVE  f \in Table(N, V)
BY DEF Table

LEMMA WithoutIs ==
  ASSUME NEW N, NEW V, NEW f \in Table(N, V), NEW n
  PROVE  Without(f, n) \in Table(N, V)
<1>1. Without(f, n) \in [DOMAIN f \ {n} -> V]
  BY TableHas DEF Without
<1>2. DOMAIN f \ {n} \in SUBSET N
  BY TableHas
<1>3. QED
  BY <1>1, <1>2, IsTable

LEMMA WithIs ==
  ASSUME NEW N, NEW V, NEW f \in Table(N, V), NEW n \in N, NEW v \in V
  PROVE  With(f, n, v) \in Table(N, V)
<1>1. With(f, n, v) \in [DOMAIN f \cup {n} -> V]
  BY TableHas DEF With
<1>2. DOMAIN f \cup {n} \in SUBSET N
  BY TableHas
<1>3. QED
  BY <1>1, <1>2, IsTable

(* -------------------------- lists of servers --------------------------- *)

Entries(list) == {list[i] : i \in DOMAIN list}

LEMMA ListHas ==
  ASSUME NEW list \in Seq(Server)
  PROVE  /\ Entries(list) \subseteq Server
         /\ NamesOf(list) = {e.name : e \in Entries(list)} /\ NamesOf(list) \subseteq Ids
         /\ Len(list) \in Nat /\ DOMAIN list = 1..Len(list)
         /\ \A i \in 1..Len(list) : list[i] \in Server /\ list[i].name \in Ids
<1>1. \A i \in DOMAIN list : list[i] \in Server
  OBVIOUS
<1>2. Len(list) \in Nat /\ DOMAIN list = 1..Len(list)
  BY LenProperties
<1>3. \A e \in Server : e.name \in Ids
  BY DEF Server
<1>4. Entries(list) \subseteq Server
  BY <1>1 DEF Entries
<1>5. NamesOf(list) = {e.name : e \in Entries(list)}
  BY DEF Entries, NamesOf
<1>6. QED
  BY <1>1, <1>2, <1>3, <1>4, <1>5

LEMMA SameEntries ==
  ASSUME NEW list, NEW copy
  PROVE  SameRevisions(list, copy) <=>
           \A e \in Entries(list), f \in Entries(copy) : e.name = f.name => e.rev = f.rev
BY DEF SameRevisions, Entries

LEMMA DistinctEntries ==
  ASSUME NEW list, Distinct(list)
  PROVE  \A e, f \in Entries(list) : e.name # NoName /\ (e.name = f.name => e = f)
BY DEF Distinct, Entries

LEMMA AppendIs ==
  ASSUME NEW list \in Seq(Server), NEW e \in Server
  PROVE  /\ Append(list, e) \in Seq(Server)
         /\ Entries(Append(list, e)) = Entries(list) \cup {e}
<1> DEFINE q == Append(list, e)
           n == Len(list)
<1>1. n \in Nat /\ DOMAIN list = 1..n
  BY LenProperties
<1>2. /\ q \in Seq(Server) /\ Len(q) = n + 1 /\ q[n + 1] = e
      /\ \A i \in 1..n : q[i] = list[i]
  BY AppendProperties
<1>3. DOMAIN q = 1..n + 1
  BY <1>2, LenProperties
<1> HIDE DEF q, n
<1>4. 1..n + 1 = (1..n) \cup {n + 1}
  BY <1>1
<1>5. Entries(q) = Entries(list) \cup {e}
  BY <1>1, <1>2, <1>3, <1>4 DEF Entries
<1>6. QED
  BY <1>2, <1>5 DEF q

LEMMA ConcatIs ==
  ASSUME NEW a \in Seq(Server), NEW b \in Seq(Server)
  PROVE  a \o b \in Seq(Server) /\ Entries(a \o b) = Entries(a) \cup Entries(b)
<1> DEFINE q == a \o b
           m == Len(a)
           n == Len(b)
<1>1. m \in Nat /\ DOMAIN a = 1..m /\ n \in Nat /\ DOMAIN b = 1..n
  BY LenProperties
<1>2. /\ q \in Seq(Server) /\ Len(q) = m + n
      /\ \A i \in 1..m : q[i] = a[i]
      /\ \A i \in 1..n : q[m + i] = b[i]
  BY <1>1, ConcatProperties
<1>3. DOMAIN q = 1..m + n
  BY <1>2, LenProperties
<1> HIDE DEF q, m, n
<1>4. Entries(q) \subseteq Entries(a) \cup Entries(b)
  <2> SUFFICES ASSUME NEW i \in 1..m + n
               PROVE  q[i] \in Entries(a) \cup Entries(b)
    BY <1>3 DEF Entries
  <2>1. CASE i \in 1..m
    BY <1>1, <1>2, <2>1 DEF Entries
  <2>2. CASE i \notin 1..m
    <3>1. i - m \in 1..n /\ m + (i - m) = i
      BY <1>1, <2>2
    <3>2. QED
      BY <1>1, <1>2, <3>1 DEF Entries
  <2>3. QED
    BY <2>1, <2>2
<1>5. Entries(a) \subseteq Entries(q)
  <2>1. \A i \in 1..m : i \in 1..m + n
    BY <1>1
  <2>2. QED
    BY <1>1, <1>2, <1>3, <2>1 DEF Entries
<1>6. Entries(b) \subseteq Entries(q)
  <2>1. \A i \in 1..n : m + i \in 1..m + n
    BY <1>1
  <2>2. QED
    BY <1>1, <1>2, <1>3, <2>1 DEF Entries
<1>7. QED
  BY <1>2, <1>4, <1>5, <1>6 DEF q

LEMMA ReverseIs ==
  ASSUME NEW list \in Seq(Server)
  PROVE  Reverse(list) \in Seq(Server) /\ Entries(Reverse(list)) = Entries(list)
<1> DEFINE n == Len(list)
           q == Reverse(list)
<1>1. n \in Nat /\ DOMAIN list = 1..n /\ \A i \in 1..n : list[i] \in Server
  BY ListHas
<1>2. q = [i \in 1..n |-> list[(n - i) + 1]]
  BY DEF Reverse
<1> HIDE DEF n, q
<1>3. \A i \in 1..n : (n - i) + 1 \in 1..n /\ (n - ((n - i) + 1)) + 1 = i
  BY <1>1
<1>4. DOMAIN q = 1..n /\ \A i \in 1..n : q[i] \in Server
  BY <1>1, <1>2, <1>3
<1>5. q \in Seq(Server)
  BY <1>1, <1>2, <1>4
<1>6. Entries(q) \subseteq Entries(list)
  BY <1>1, <1>2, <1>3, <1>4 DEF Entries
<1>7. Entries(list) \subseteq Entries(q)
  <2>1. \A i \in 1..n : list[i] = q[(n - i) + 1]
    BY <1>2, <1>3
  <2>2. QED
    BY <1>1, <1>3, <1>4, <2>1 DEF Entries
<1>8. QED
  BY <1>5, <1>6, <1>7 DEF q

LEMMA RemoveAtIs ==
  ASSUME NEW S, NEW s \in Seq(S), NEW k \in 1..Len(s)
  PROVE  RemoveAt(s, k) \in Seq(S)
<1>1. Len(s) \in Nat
  BY LenProperties
<1>2. SubSeq(s, 1, k - 1) \in Seq(S)
  BY <1>1, SubSeqProperties
<1>3. SubSeq(s, k + 1, Len(s)) \in Seq(S)
  BY <1>1, SubSeqProperties
<1>4. QED
  BY <1>2, <1>3, ConcatProperties DEF RemoveAt

\* The servers of a list that have one of some names.
LEMMA AmongIs ==
  ASSUME NEW list \in Seq(Server), NEW names
  PROVE  /\ Among(list, names) \in Seq(Server)
         /\ Entries(Among(list, names)) = {e \in Entries(list) : e.name \in names}
<1> DEFINE n == Len(list)
           V == Seq(Server)
           G == [x \in V \X (1..n) |-> IF list[x[2]].name \in names THEN Append(x[1], list[x[2]])
                                       ELSE x[1]]
           Body(f) == [i \in 0..n |-> IF i = 0 THEN <<>>
                                      ELSE IF list[i].name \in names THEN Append(f[i - 1], list[i])
                                      ELSE f[i - 1]]
           kept == CHOOSE f : f = Body(f)
           Upto(k) == {list[j] : j \in 1..k}
           Some(k) == {e \in Upto(k) : e.name \in names}
<1>1. n \in Nat /\ DOMAIN list = 1..n /\ \A i \in 1..n : list[i] \in Server
  BY ListHas
<1>2. Among(list, names) = kept[n]
  BY DEF Among
<1>3. <<>> \in V
  OBVIOUS
<1>4. \A x \in V \X (1..n) : G[x] \in V
  BY <1>1, AppendIs
<1>5. G \in [V \X (1..n) -> V]
  BY <1>4
<1>6. \A v \in V, i \in 1..n : G[<<v, i>>] = IF list[i].name \in names THEN Append(v, list[i]) ELSE v
  OBVIOUS
<1> HIDE DEF G, V
<1>7. PICK h : IsLoop(h, n, V, <<>>, G)
  BY <1>1, <1>3, <1>5, LoopExists
<1>8. \A i \in 1..n : h[i] = IF list[i].name \in names THEN Append(h[i - 1], list[i]) ELSE h[i - 1]
  <2> TAKE i \in 1..n
  <2>1. i - 1 \in 0..n /\ i \in 0..n /\ i # 0
    BY <1>1
  <2>2. h[i - 1] \in V /\ h[i] = G[<<h[i - 1], i>>]
    BY <1>7, <2>1 DEF IsLoop
  <2>3. QED
    BY <1>6, <2>2
<1>9. \A i \in 0..n : h[i] = IF i = 0 THEN <<>>
                             ELSE IF list[i].name \in names THEN Append(h[i - 1], list[i])
                             ELSE h[i - 1]
  <2> TAKE i \in 0..n
  <2>1. CASE i = 0
    BY <1>7, <2>1 DEF IsLoop
  <2>2. CASE i # 0
    <3>1. i \in 1..n
      BY <1>1, <2>2
    <3>2. QED
      BY <1>8, <2>2, <3>1
  <2>3. QED
    BY <2>1, <2>2
<1>10. h = Body(h)
  BY <1>7, <1>9 DEF IsLoop
<1>11. kept = Body(kept)
  BY <1>10
<1> HIDE DEF kept
<1>12. /\ kept[0] = <<>>
       /\ \A i \in 1..n : kept[i] = IF list[i].name \in names THEN Append(kept[i - 1], list[i])
                                    ELSE kept[i - 1]
  <2>1. 0 \in 0..n /\ \A i \in 1..n : i \in 0..n /\ i # 0
    BY <1>1
  <2>2. \A i \in 0..n : kept[i] = IF i = 0 THEN <<>>
                                  ELSE IF list[i].name \in names THEN Append(kept[i - 1], list[i])
                                  ELSE kept[i - 1]
    BY <1>11, Zenon
  <2> HIDE DEF n
  <2>3. QED
    BY <2>1, <2>2
<1> DEFINE H == {k \in Nat : kept[k] \in Seq(Server) /\ Entries(kept[k]) = Some(k)}
<1>13. 0 \in H
  <2>1. 1..0 = {} /\ Some(0) = {}
    OBVIOUS
  <2>2. <<>> \in Seq(Server) /\ Entries(<<>>) = {}
    BY DEF Entries
  <2> HIDE DEF Some
  <2>3. QED
    BY <1>12, <2>1, <2>2
<1>14. ASSUME NEW k \in Nat, k < n, k \in H
       PROVE  k + 1 \in H
  <2> DEFINE e == list[k + 1]
             q == kept[k]
  <2>1. k + 1 \in 1..n /\ (k + 1) - 1 = k /\ e \in Server
    BY <1>1, <1>14
  <2>2. q \in Seq(Server) /\ Entries(q) = Some(k)
    BY <1>14
  <2>3. Upto(k + 1) = Upto(k) \cup {e}
    <3>1. 1..k + 1 = (1..k) \cup {k + 1}
      OBVIOUS
    <3>2. QED
      BY <3>1
  <2> HIDE DEF Upto
  <2>4. Some(k + 1) = IF e.name \in names THEN Some(k) \cup {e} ELSE Some(k)
    BY <2>3
  <2>5. kept[k + 1] = IF e.name \in names THEN Append(q, e) ELSE q
    BY <1>12, <2>1
  <2> HIDE DEF Some, e, q
  <2>6. kept[k + 1] \in Seq(Server) /\ Entries(kept[k + 1]) = Some(k + 1)
    BY <2>1, <2>2, <2>4, <2>5, AppendIs
  <2>7. QED
    BY <2>6
<1> HIDE DEF H
<1>15. n \in H
  BY <1>1, <1>13, <1>14, UpTo
<1>16. Entries(list) = Upto(n)
  BY <1>1 DEF Entries
<1>17. QED
  BY <1>2, <1>15, <1>16 DEF H

\* The first server of a name is one.
LEMMA MinIn ==
  ASSUME NEW S \in SUBSET Nat, S # {}
  PROVE  Min(S) \in S
<1>1. PICK k \in S : \A j \in S : k =< j
  BY Least
<1>2. QED
  BY <1>1 DEF Min

LEMMA FirstNamedIs ==
  ASSUME NEW list \in Seq(Server), NEW n, Named(list, n) # {}
  PROVE  FirstNamed(list, n) \in DOMAIN list /\ list[FirstNamed(list, n)].name = n
<1>1. DOMAIN list = 1..Len(list) /\ Len(list) \in Nat
  BY LenProperties
<1>2. Named(list, n) \in SUBSET Nat
  BY <1>1 DEF Named
<1>3. FirstNamed(list, n) \in Named(list, n)
  BY <1>2, MinIn DEF FirstNamed
<1>4. QED
  BY <1>3 DEF Named

\* The names of some of a list.
LEMMA NamesAmong ==
  ASSUME NEW list \in Seq(Server), NEW names
  PROVE  NamesOf(Among(list, names)) = NamesOf(list) \cap names
<1> DEFINE a == Among(list, names)
<1>1. a \in Seq(Server) /\ Entries(a) = {e \in Entries(list) : e.name \in names}
  BY AmongIs
<1> HIDE DEF a
<1>2. NamesOf(a) = {e.name : e \in Entries(a)} /\ NamesOf(list) = {e.name : e \in Entries(list)}
  BY <1>1, ListHas
<1>3. {e.name : e \in Entries(a)} = {e.name : e \in Entries(list)} \cap names
  BY <1>1
<1>4. QED
  BY <1>2, <1>3 DEF a

LEMMA NamesOut ==
  ASSUME NEW a \in Seq(Server), NEW list \in Seq(Server), NEW names,
         Entries(a) = {e \in Entries(list) : e.name \notin names}
  PROVE  NamesOf(a) = NamesOf(list) \ names
<1>1. NamesOf(a) = {e.name : e \in Entries(a)} /\ NamesOf(list) = {e.name : e \in Entries(list)}
  BY ListHas
<1>2. {e.name : e \in Entries(a)} = {e.name : e \in Entries(list)} \ names
  OBVIOUS
<1>3. QED
  BY <1>1, <1>2

(* ----------------------- what happens to a world ----------------------- *)

LEMMA WorldHas ==
  ASSUME NEW w \in Good
  PROVE  /\ w \in Worlds /\ Shown(w.sessions, w.ui)
         /\ w.known \in [servers : Seq(Server), ignore : Table(Nicks, SUBSET Kinds)]
         /\ w.known.servers \in Seq(Server) /\ w.known.ignore \in Table(Nicks, SUBSET Kinds)
         /\ w.sessions \in [Ids -> Seq({"up", "down"})]
         /\ w.clients \in Seq(Clients)
         /\ w.ui \in [rows : SUBSET Ids, icons : SUBSET Ids, panes : SUBSET Ids]
BY DEF Good, Worlds

LEMMA WorldIs ==
  ASSUME NEW k \in [servers : Seq(Server), ignore : Table(Nicks, SUBSET Kinds)],
         NEW ss \in [Ids -> Seq({"up", "down"})], NEW cs \in Seq(Clients),
         NEW u \in [rows : SUBSET Ids, icons : SUBSET Ids, panes : SUBSET Ids],
         Shown(ss, u)
  PROVE  [known |-> k, sessions |-> ss, clients |-> cs, ui |-> u] \in Good
BY DEF Good, Worlds

\* One part of a world after another.
LEMMA WorldWith ==
  ASSUME NEW w \in Worlds,
         NEW k \in [servers : Seq(Server), ignore : Table(Nicks, SUBSET Kinds)],
         NEW ss \in [Ids -> Seq({"up", "down"})], NEW cs \in Seq(Clients),
         NEW u \in [rows : SUBSET Ids, icons : SUBSET Ids, panes : SUBSET Ids]
  PROVE  /\ [w EXCEPT !.known = k] \in Worlds
         /\ [w EXCEPT !.known = k].known = k
         /\ [w EXCEPT !.known = k].sessions = w.sessions
         /\ [w EXCEPT !.known = k].clients = w.clients
         /\ [w EXCEPT !.known = k].ui = w.ui
         /\ [w EXCEPT !.sessions = ss] \in Worlds
         /\ [w EXCEPT !.sessions = ss].known = w.known
         /\ [w EXCEPT !.sessions = ss].sessions = ss
         /\ [w EXCEPT !.sessions = ss].clients = w.clients
         /\ [w EXCEPT !.sessions = ss].ui = w.ui
         /\ [w EXCEPT !.clients = cs] \in Worlds
         /\ [w EXCEPT !.clients = cs].known = w.known
         /\ [w EXCEPT !.clients = cs].sessions = w.sessions
         /\ [w EXCEPT !.clients = cs].clients = cs
         /\ [w EXCEPT !.clients = cs].ui = w.ui
         /\ [w EXCEPT !.ui = u] \in Worlds
         /\ [w EXCEPT !.ui = u].known = w.known
         /\ [w EXCEPT !.ui = u].sessions = w.sessions
         /\ [w EXCEPT !.ui = u].clients = w.clients
         /\ [w EXCEPT !.ui = u].ui = u
BY DEF Worlds

LEMMA WorldWithAll ==
  ASSUME NEW w \in Worlds,
         NEW ss \in [Ids -> Seq({"up", "down"})], NEW cs \in Seq(Clients),
         NEW u \in [rows : SUBSET Ids, icons : SUBSET Ids, panes : SUBSET Ids],
         Shown(ss, u)
  PROVE  /\ [w EXCEPT !.sessions = ss, !.clients = cs, !.ui = u] \in Good
         /\ [w EXCEPT !.sessions = ss, !.clients = cs, !.ui = u].known = w.known
BY DEF Worlds, Good

LEMMA NewClientIs ==
  ASSUME NEW sc \in Server
  PROVE  NewClient(sc) \in Clients
BY DEF NewClient, Answered, Clients, Server, Ids

LEMMA Spawned ==
  ASSUME NEW w \in Good, NEW sc \in Server
  PROVE  Spawn(w, sc) \in Good /\ Spawn(w, sc).known = w.known
<1> DEFINE n == sc.name
           c == NewClient(sc)
           cs == Append(w.clients, c)
           ss == [w.sessions EXCEPT ![n] = Append(@, "down")]
           u == [w.ui EXCEPT !.rows = @ \cup {n}]
<1>0. n \in Ids
  BY DEF Server
<1>1. c \in Clients
  BY NewClientIs
<1> HIDE DEF c
<1>2. cs \in Seq(Clients)
  BY <1>1, WorldHas
<1>3. ss \in [Ids -> Seq({"up", "down"})]
  BY <1>0, WorldHas
<1>4. u \in [rows : SUBSET Ids, icons : SUBSET Ids, panes : SUBSET Ids]
  BY <1>0, WorldHas
<1>5. Shown(ss, u)
  BY <1>0, WorldHas DEF Shown
<1>6. Spawn(w, sc) = [w EXCEPT !.sessions = ss, !.clients = cs, !.ui = u]
  BY DEF Spawn, ServerAdded, c
<1>7. w \in Worlds
  BY WorldHas
<1> HIDE DEF cs, ss, u
<1>8. [w EXCEPT !.sessions = ss, !.clients = cs, !.ui = u] \in Good
  BY <1>2, <1>3, <1>4, <1>5, <1>7, WorldWithAll, Zenon
<1>9. [w EXCEPT !.sessions = ss, !.clients = cs, !.ui = u].known = w.known
  BY <1>7 DEF Worlds
<1>10. QED
  BY <1>6, <1>8, <1>9, Zenon

\* The first client of a name is one.
LEMMA FirstClient ==
  ASSUME NEW w \in Worlds, NEW n, ClientAt(w, n) # {}
  PROVE  /\ Min(ClientAt(w, n)) \in 1..Len(w.clients)
         /\ Min(ClientAt(w, n)) \in DOMAIN w.clients
         /\ w.clients[Min(ClientAt(w, n))].name = n
<1>1. w.clients \in Seq(Clients)
  BY DEF Worlds
<1>2. DOMAIN w.clients = 1..Len(w.clients) /\ Len(w.clients) \in Nat
  BY <1>1, LenProperties
<1>3. ClientAt(w, n) \in SUBSET Nat
  BY <1>2 DEF ClientAt
<1>4. PICK k \in ClientAt(w, n) : \A j \in ClientAt(w, n) : k =< j
  BY <1>3, Least
<1>5. Min(ClientAt(w, n)) \in ClientAt(w, n)
  BY <1>4 DEF Min
<1>6. QED
  BY <1>2, <1>5 DEF ClientAt

LEMMA DropClientGives ==
  ASSUME NEW w \in Worlds, NEW n
  PROVE  /\ DropClient(w, n) \in Worlds
         /\ DropClient(w, n).known = w.known
         /\ DropClient(w, n).sessions = w.sessions
         /\ DropClient(w, n).ui = w.ui
<1>1. CASE ClientAt(w, n) = {}
  BY <1>1 DEF DropClient
<1>2. CASE ClientAt(w, n) # {}
  <2> DEFINE k == Min(ClientAt(w, n))
             cs == RemoveAt(w.clients, k)
  <2>1. k \in 1..Len(w.clients)
    BY <1>2, FirstClient
  <2>2. w.clients \in Seq(Clients)
    BY DEF Worlds
  <2> HIDE DEF k
  <2>3. cs \in Seq(Clients)
    BY <2>1, <2>2, RemoveAtIs
  <2>4. DropClient(w, n) = [w EXCEPT !.clients = cs]
    BY <1>2 DEF DropClient, k
  <2> HIDE DEF cs
  <2>5. QED
    BY <2>3, <2>4 DEF Worlds
<1>3. QED
  BY <1>1, <1>2

\* The client and the sessions of a name are gone.
LEMMA Dropped ==
  ASSUME NEW w \in Worlds, NEW n \in Ids
  PROVE  /\ DropSession(DropClient(w, n), n) \in Worlds
         /\ DropSession(DropClient(w, n), n).known = w.known
         /\ DropSession(DropClient(w, n), n).sessions = [w.sessions EXCEPT ![n] = <<>>]
         /\ DropSession(DropClient(w, n), n).ui = w.ui
<1> DEFINE v == DropClient(w, n)
           ss == [w.sessions EXCEPT ![n] = <<>>]
<1>1. v \in Worlds /\ v.known = w.known /\ v.sessions = w.sessions /\ v.ui = w.ui
  BY DropClientGives
<1> HIDE DEF v
<1>2. DropSession(v, n) = [v EXCEPT !.sessions = ss]
  BY <1>1 DEF DropSession
<1>3. <<>> \in Seq({"up", "down"})
  OBVIOUS
<1>4. ss \in [Ids -> Seq({"up", "down"})]
  BY <1>3 DEF Worlds
<1> HIDE DEF ss
<1>5. DropSession(v, n) \in Worlds /\ DropSession(v, n).known = w.known
      /\ DropSession(v, n).sessions = ss /\ DropSession(v, n).ui = w.ui
  BY <1>1, <1>2, <1>4 DEF Worlds
<1>6. QED
  BY <1>5 DEF v, ss

LEMMA DisconnectedGives ==
  ASSUME NEW w \in Worlds, NEW n \in Ids
  PROVE  /\ Disconnected(w, n) \in Worlds
         /\ Disconnected(w, n).known = w.known
         /\ Disconnected(w, n).sessions = w.sessions
         /\ Disconnected(w, n).clients = w.clients
         /\ Disconnected(w, n).ui.rows = w.ui.rows
         /\ Disconnected(w, n).ui.icons = w.ui.icons \ {n}
         /\ Disconnected(w, n).ui.panes =
              IF w.sessions[n] # <<>> THEN w.ui.panes ELSE w.ui.panes \ {n}
<1>1. HasSession(w, n) <=> w.sessions[n] # <<>>
  BY DEF HasSession, Worlds
<1>2. QED
  BY <1>1 DEF Disconnected, Worlds

\* removeServer() leaves rows, icons and panes in step.
LEMMA Removed ==
  ASSUME NEW w \in Good, NEW n \in Ids
  PROVE  /\ RemoveServer(w, n) \in Good
         /\ RemoveServer(w, n).known.ignore = w.known.ignore
         /\ Entries(RemoveServer(w, n).known.servers) = {e \in Entries(w.known.servers) : e.name # n}
<1> DEFINE v == DropSession(DropClient(w, n), n)
           list == Among(w.known.servers, Ids \ {n})
           x == [v EXCEPT !.known.servers = Among(@, Ids \ {n})]
<1>1. w \in Worlds /\ Shown(w.sessions, w.ui) /\ w.known.servers \in Seq(Server)
  BY WorldHas
<1>2. v \in Worlds /\ v.known = w.known /\ v.ui = w.ui
      /\ v.sessions = [w.sessions EXCEPT ![n] = <<>>]
  BY <1>1, Dropped
<1>3. list \in Seq(Server) /\ Entries(list) = {e \in Entries(w.known.servers) : e.name # n}
  <2>1. \A e \in Entries(w.known.servers) : e.name \in Ids
    BY <1>1, ListHas DEF Server
  <2>2. list \in Seq(Server) /\ Entries(list) = {e \in Entries(w.known.servers) : e.name \in Ids \ {n}}
    BY <1>1, AmongIs
  <2> HIDE DEF list
  <2>3. QED
    BY <2>1, <2>2
<1> HIDE DEF v
<1>4. x = [v EXCEPT !.known = [v.known EXCEPT !.servers = list]]
  BY <1>2
<1> HIDE DEF list
<1>5. x \in Worlds /\ x.known.servers = list /\ x.known.ignore = w.known.ignore
      /\ x.sessions = v.sessions /\ x.ui = w.ui
  BY <1>2, <1>3, <1>4 DEF Worlds
<1> HIDE DEF x
<1> DEFINE y == Disconnected(x, n)
<1>6. /\ y \in Worlds /\ y.known = x.known /\ y.sessions = x.sessions
      /\ y.ui.rows = x.ui.rows /\ y.ui.icons = x.ui.icons \ {n}
      /\ y.ui.panes = IF x.sessions[n] # <<>> THEN x.ui.panes ELSE x.ui.panes \ {n}
  BY <1>5, DisconnectedGives
<1>7. RemoveServer(w, n) = y
  BY DEF RemoveServer, v, x
<1> HIDE DEF y
<1>8. w.sessions \in [Ids -> Seq({"up", "down"})] /\ w.ui.panes \subseteq Ids /\ w.ui.rows \subseteq Ids
  BY <1>1 DEF Worlds
<1>9. Shown(y.sessions, y.ui)
  BY <1>1, <1>2, <1>5, <1>6, <1>8 DEF Shown
<1>10. y \in Good
  BY <1>6, <1>9 DEF Good
<1>11. QED
  BY <1>3, <1>5, <1>6, <1>7, <1>10

\* closeServer() too.
LEMMA Closed ==
  ASSUME NEW w \in Good, NEW n \in Ids
  PROVE  CloseServer(w, n) \in Good /\ CloseServer(w, n).known = w.known
<1> DEFINE v == DropSession(DropClient(w, n), n)
           u == ServerClosed(w.ui, n)
<1>1. w \in Worlds /\ Shown(w.sessions, w.ui)
  BY WorldHas
<1>2. v \in Worlds /\ v.known = w.known /\ v.ui = w.ui
      /\ v.sessions = [w.sessions EXCEPT ![n] = <<>>]
  BY <1>1, Dropped
<1>3. /\ u \in [rows : SUBSET Ids, icons : SUBSET Ids, panes : SUBSET Ids]
      /\ u.rows = w.ui.rows \ {n} /\ u.icons = w.ui.icons \ {n} /\ u.panes = w.ui.panes \ {n}
  BY <1>1 DEF ServerClosed, Worlds, Shown
<1> HIDE DEF v, u
<1>4. CloseServer(w, n) = [v EXCEPT !.ui = u]
  BY <1>2 DEF CloseServer, v, u
<1>5. w.sessions \in [Ids -> Seq({"up", "down"})] /\ w.ui.panes \subseteq Ids /\ w.ui.rows \subseteq Ids
  BY <1>1 DEF Worlds
<1>6. Shown(v.sessions, u)
  BY <1>1, <1>2, <1>3, <1>5 DEF Shown
<1>7. QED
  BY <1>2, <1>3, <1>4, <1>6 DEF Worlds, Good

LEMMA Added ==
  ASSUME NEW w \in Good, NEW sc \in Server
  PROVE  /\ AddServer(w, sc) \in Good
         /\ AddServer(w, sc).known.ignore = w.known.ignore
         /\ AddServer(w, sc).known.servers = Append(w.known.servers, sc)
         /\ Entries(AddServer(w, sc).known.servers) = Entries(w.known.servers) \cup {sc}
<1> DEFINE list == Append(w.known.servers, sc)
           v == [w EXCEPT !.known.servers = Append(@, sc)]
<1>1. w \in Worlds /\ Shown(w.sessions, w.ui) /\ w.known.servers \in Seq(Server)
  BY WorldHas
<1>2. list \in Seq(Server) /\ Entries(list) = Entries(w.known.servers) \cup {sc}
  BY <1>1, AppendIs
<1>3. v = [w EXCEPT !.known = [w.known EXCEPT !.servers = list]]
  OBVIOUS
<1> HIDE DEF list
<1>4. v \in Worlds /\ v.known.servers = list /\ v.known.ignore = w.known.ignore
      /\ v.sessions = w.sessions /\ v.ui = w.ui
  BY <1>1, <1>2, <1>3 DEF Worlds
<1>5. AddServer(w, sc) = IF sc.off THEN v ELSE Spawn(v, sc)
  BY DEF AddServer
<1> HIDE DEF v
<1>6. v \in Good
  BY <1>1, <1>4 DEF Good
<1>7. Spawn(v, sc) \in Good /\ Spawn(v, sc).known = v.known
  BY <1>6, Spawned
<1>8. AddServer(w, sc) \in Good /\ AddServer(w, sc).known = v.known
  BY <1>5, <1>6, <1>7
<1>9. QED
  BY <1>2, <1>4, <1>8 DEF list

\* updateServer() leaves one server of the name.
LEMMA Updated ==
  ASSUME NEW w \in Good, NEW sc \in Server
  PROVE  /\ UpdateServer(w, sc) \in Good
         /\ UpdateServer(w, sc).known.ignore = w.known.ignore
         /\ Entries(UpdateServer(w, sc).known.servers) =
              {e \in Entries(w.known.servers) : e.name # sc.name} \cup {sc}
<1> DEFINE v == RemoveServer(w, sc.name)
<1>1. sc.name \in Ids
  BY DEF Server
<1>2. /\ v \in Good /\ v.known.ignore = w.known.ignore
      /\ Entries(v.known.servers) = {e \in Entries(w.known.servers) : e.name # sc.name}
  BY <1>1, Removed
<1> HIDE DEF v
<1>3. UpdateServer(w, sc) = AddServer(v, sc)
  BY DEF UpdateServer, v
<1>4. QED
  BY <1>2, <1>3, Added

(* ------------------------ one after the other -------------------------- *)

\* What the removal of every server with one of some names makes of w.
AreRemoved(v, w, names) ==
  /\ v \in Good /\ v.known.ignore = w.known.ignore
  /\ Entries(v.known.servers) = {e \in Entries(w.known.servers) : e.name \notin names}

LEMMA AllRemoved ==
  ASSUME NEW w \in Good, NEW list \in Seq(Server)
  PROVE  AreRemoved(RemoveAll(w, list), w, NamesOf(list))
<1> DEFINE n == Len(list)
           G == [x \in Good \X (1..n) |-> RemoveServer(x[1], list[x[2]].name)]
           Body(f) == [i \in 0..n |-> IF i = 0 THEN w ELSE RemoveServer(f[i - 1], list[i].name)]
           after == CHOOSE f : f = Body(f)
           Gone(k) == {list[j].name : j \in 1..k}
<1>1. n \in Nat /\ DOMAIN list = 1..n /\ \A i \in 1..n : list[i].name \in Ids
  BY ListHas
<1>2. RemoveAll(w, list) = after[n]
  BY DEF RemoveAll
<1>3. \A x \in Good \X (1..n) : RemoveServer(x[1], list[x[2]].name) \in Good
  BY <1>1, Removed
<1>4. G \in [Good \X (1..n) -> Good]
  BY <1>3
<1>5. \A v \in Good, i \in 1..n : G[<<v, i>>] = RemoveServer(v, list[i].name)
  OBVIOUS
<1> HIDE DEF G
<1>6. PICK h : IsLoop(h, n, Good, w, G)
  BY <1>1, <1>4, LoopExists
<1>7. \A i \in 1..n : h[i] = RemoveServer(h[i - 1], list[i].name)
  <2> TAKE i \in 1..n
  <2>1. i - 1 \in 0..n /\ i \in 0..n /\ i # 0
    BY <1>1
  <2>2. h[i - 1] \in Good /\ h[i] = G[<<h[i - 1], i>>]
    BY <1>6, <2>1 DEF IsLoop
  <2>3. QED
    BY <1>5, <2>2
<1>8. \A i \in 0..n : h[i] = IF i = 0 THEN w ELSE RemoveServer(h[i - 1], list[i].name)
  BY <1>6, <1>7 DEF IsLoop
<1>9. h = Body(h)
  BY <1>6, <1>8 DEF IsLoop
<1>10. after = Body(after)
  BY <1>9
<1> HIDE DEF after
<1>11. after[0] = w /\ \A i \in 1..n : after[i] = RemoveServer(after[i - 1], list[i].name)
  BY <1>1, <1>10
<1> DEFINE H == {k \in Nat : AreRemoved(after[k], w, Gone(k))}
<1>12. 0 \in H
  BY <1>11 DEF AreRemoved
<1>13. ASSUME NEW k \in Nat, k < n, k \in H
       PROVE  k + 1 \in H
  <2> DEFINE m == list[k + 1].name
             v == after[k]
  <2>1. k + 1 \in 1..n /\ (k + 1) - 1 = k /\ m \in Ids
    BY <1>1, <1>13
  <2>2. AreRemoved(v, w, Gone(k))
    BY <1>13
  <2>3. Gone(k + 1) = Gone(k) \cup {m}
    <3>1. 1..k + 1 = (1..k) \cup {k + 1}
      OBVIOUS
    <3>2. QED
      BY <3>1
  <2>4. after[k + 1] = RemoveServer(v, m)
    BY <1>11, <2>1
  <2> HIDE DEF Gone, m, v
  <2>5. /\ RemoveServer(v, m) \in Good /\ RemoveServer(v, m).known.ignore = v.known.ignore
        /\ Entries(RemoveServer(v, m).known.servers) = {e \in Entries(v.known.servers) : e.name # m}
    BY <2>1, <2>2, Removed DEF AreRemoved
  <2>6. AreRemoved(after[k + 1], w, Gone(k + 1))
    BY <2>2, <2>3, <2>4, <2>5 DEF AreRemoved
  <2>7. QED
    BY <2>6
<1> HIDE DEF H
<1>14. n \in H
  BY <1>1, <1>12, <1>13, UpTo
<1>15. NamesOf(list) = Gone(n)
  BY <1>1 DEF NamesOf
<1>16. QED
  BY <1>2, <1>14, <1>15 DEF H

\* An old list and a world fit a new one: every name is there once, and a
\* server that was known had the revision of the old list.
Fit(w, old, list) ==
  /\ Distinct(list) /\ SameRevisions(old, w.known.servers)
  /\ NamesOf(w.known.servers) \ {NoName} \subseteq NamesOf(old)

\* What placing the first k servers of a list makes of w.
ArePlaced(v, w, old, list, k) ==
  /\ v \in Good /\ v.known.ignore = w.known.ignore
  /\ NamesOf(v.known.servers) = NamesOf(w.known.servers) \cup {list[j].name : j \in 1..k}
  /\ \A e \in Entries(v.known.servers) :
       e \in Entries(w.known.servers) \/ \E j \in 1..k : e = list[j]
  /\ Fit(w, old, list) =>
       \A e \in Entries(v.known.servers) :
         \A j \in 1..k : e.name = list[j].name => e.rev = list[j].rev

Others(list, n) == {e \in Entries(list) : e.name # n}

\* What placing one server does: it is added, or nothing, or it is all there
\* is of its name.
LEMMA PlacedGives ==
  ASSUME NEW v \in Good, NEW old \in Seq(Server), NEW sc \in Server
  PROVE  /\ Placed(v, old, sc) \in Good /\ Placed(v, old, sc).known.ignore = v.known.ignore
         /\ \/ /\ sc.name \notin NamesOf(old)
               /\ Entries(Placed(v, old, sc).known.servers) = Entries(v.known.servers) \cup {sc}
            \/ /\ Placed(v, old, sc) = v
               /\ \E e \in Entries(old) : e.name = sc.name /\ e.rev = sc.rev
            \/ /\ sc.name \in NamesOf(old)
               /\ Entries(Placed(v, old, sc).known.servers) =
                    Others(v.known.servers, sc.name) \cup {sc}
<1>1. CASE Named(old, sc.name) = {}
  <2>1. sc.name \notin NamesOf(old)
    BY <1>1 DEF Named, NamesOf
  <2>2. Placed(v, old, sc) = AddServer(v, sc)
    BY <1>1 DEF Placed
  <2>3. QED
    BY <2>1, <2>2, Added
<1>2. CASE Named(old, sc.name) # {}
  <2> DEFINE e == old[FirstNamed(old, sc.name)]
  <2>1. e \in Entries(old) /\ e.name = sc.name
    BY <1>2, FirstNamedIs DEF Entries
  <2>2. sc.name \in NamesOf(old)
    BY <1>2 DEF Named, NamesOf
  <2>3. Placed(v, old, sc) = IF <<e.rev, e.pin>> = <<sc.rev, sc.pin>> THEN v ELSE UpdateServer(v, sc)
    BY <1>2 DEF Placed
  <2> HIDE DEF e
  <2>4. CASE <<e.rev, e.pin>> = <<sc.rev, sc.pin>>
    BY <2>1, <2>3, <2>4
  <2>5. CASE <<e.rev, e.pin>> # <<sc.rev, sc.pin>>
    BY <2>2, <2>3, <2>5, Updated DEF Others
  <2>6. QED
    BY <2>4, <2>5
<1>3. QED
  BY <1>1, <1>2

LEMMA OnePlaced ==
  ASSUME NEW w \in Good, NEW old \in Seq(Server), NEW list \in Seq(Server),
         NamesOf(old) \cap NamesOf(list) \subseteq NamesOf(w.known.servers),
         NEW k \in Nat, k < Len(list), NEW v, ArePlaced(v, w, old, list, k)
  PROVE  ArePlaced(Placed(v, old, list[k + 1]), w, old, list, k + 1)
<1> DEFINE sc == list[k + 1]
           x == Placed(v, old, sc)
           a == Entries(x.known.servers)
           b == Entries(v.known.servers)
           c == Entries(w.known.servers)
           names == {list[j].name : j \in 1..k}
<1>1. /\ k + 1 \in 1..Len(list) /\ sc \in Server /\ sc.name \in NamesOf(list)
      /\ \A j \in 1..k : j \in 1..Len(list) /\ j # k + 1
      /\ DOMAIN list = 1..Len(list)
  BY ListHas DEF NamesOf
<1>2. 1..k + 1 = (1..k) \cup {k + 1}
  OBVIOUS
<1>3. /\ v \in Good /\ v.known.ignore = w.known.ignore
      /\ NamesOf(v.known.servers) = NamesOf(w.known.servers) \cup names
      /\ \A e \in b : e \in c \/ \E j \in 1..k : e = list[j]
      /\ Fit(w, old, list) =>
           \A e \in b : \A j \in 1..k : e.name = list[j].name => e.rev = list[j].rev
  BY DEF ArePlaced
<1>4. /\ x \in Good /\ x.known.ignore = v.known.ignore
      /\ \/ sc.name \notin NamesOf(old) /\ a = b \cup {sc}
         \/ x = v /\ \E e \in Entries(old) : e.name = sc.name /\ e.rev = sc.rev
         \/ sc.name \in NamesOf(old) /\ a = {e \in b : e.name # sc.name} \cup {sc}
  <2> HIDE DEF sc
  <2>1. sc \in Server /\ v \in Good
    BY <1>1, <1>3
  <2>2. /\ x \in Good /\ x.known.ignore = v.known.ignore
        /\ \/ sc.name \notin NamesOf(old) /\ a = b \cup {sc}
           \/ x = v /\ \E e \in Entries(old) : e.name = sc.name /\ e.rev = sc.rev
           \/ sc.name \in NamesOf(old) /\ a = Others(v.known.servers, sc.name) \cup {sc}
    BY <2>1, PlacedGives
  <2>3. QED
    BY <2>2 DEF Others
<1>5. /\ NamesOf(v.known.servers) = {e.name : e \in b}
      /\ NamesOf(w.known.servers) = {e.name : e \in c}
      /\ NamesOf(x.known.servers) = {e.name : e \in a}
      /\ NamesOf(old) = {e.name : e \in Entries(old)}
  <2>1. v.known.servers \in Seq(Server) /\ w.known.servers \in Seq(Server)
        /\ x.known.servers \in Seq(Server)
    BY <1>3, <1>4, WorldHas
  <2>2. QED
    BY <2>1, ListHas
<1>6. x = v => a = b
  OBVIOUS
<1>7. \A e \in a : e \in b \/ e = sc
  BY <1>4, <1>6
<1>8. Fit(w, old, list) => \A j \in 1..k : list[j].name # sc.name
  BY <1>1 DEF Fit, Distinct
<1>9. Fit(w, old, list) => sc.name # NoName
  BY <1>1 DEF Fit, Distinct
<1>10. Fit(w, old, list) => /\ \A e \in Entries(old), f \in c : e.name = f.name => e.rev = f.rev
                            /\ NamesOf(w.known.servers) \ {NoName} \subseteq NamesOf(old)
  BY SameEntries DEF Fit
<1> DEFINE next == {list[j].name : j \in 1..k + 1}
<1>11. next = names \cup {sc.name}
  BY <1>2
<1> HIDE DEF sc, x, a, b, c, names, next
<1>12. NamesOf(x.known.servers) = NamesOf(w.known.servers) \cup next
  <2>1. CASE sc.name \notin NamesOf(old) /\ a = b \cup {sc}
    BY <1>3, <1>5, <1>11, <2>1
  <2>2. CASE x = v /\ \E e \in Entries(old) : e.name = sc.name /\ e.rev = sc.rev
    <3>1. sc.name \in NamesOf(w.known.servers)
      BY <1>1, <1>5, <2>2
    <3>2. QED
      BY <1>3, <1>11, <2>2, <3>1
  <2>3. CASE sc.name \in NamesOf(old) /\ a = {e \in b : e.name # sc.name} \cup {sc}
    <3>1. \A m : (\E e \in a : e.name = m) <=> ((\E e \in b : e.name = m) \/ m = sc.name)
      BY <2>3
    <3>2. \A m : m \in {e.name : e \in a} <=> m \in {e.name : e \in b} \/ m = sc.name
      BY <3>1
    <3>3. {e.name : e \in a} = {e.name : e \in b} \cup {sc.name}
      BY <3>2
    <3>4. QED
      BY <1>3, <1>5, <1>11, <3>3
  <2>4. QED
    BY <1>4, <2>1, <2>2, <2>3
<1>13. \A e \in a : e \in c \/ \E j \in 1..k + 1 : e = list[j]
  BY <1>2, <1>3, <1>7 DEF sc
<1>14. ASSUME Fit(w, old, list), NEW e \in a, e.name = sc.name
       PROVE  e.rev = sc.rev
  <2>1. ASSUME e \in b
        PROVE  e \in c
    BY <1>3, <1>8, <1>14, <2>1
  <2>2. CASE sc.name \notin NamesOf(old) /\ a = b \cup {sc}
    BY <1>5, <1>9, <1>10, <1>14, <2>1, <2>2
  <2>3. CASE x = v /\ \E f \in Entries(old) : f.name = sc.name /\ f.rev = sc.rev
    BY <1>6, <1>10, <1>14, <2>1, <2>3
  <2>4. CASE sc.name \in NamesOf(old) /\ a = {f \in b : f.name # sc.name} \cup {sc}
    BY <1>14, <2>4
  <2>5. QED
    BY <1>4, <2>2, <2>3, <2>4
<1>15. ASSUME Fit(w, old, list), NEW e \in a, NEW j \in 1..k + 1, e.name = list[j].name
       PROVE  e.rev = list[j].rev
  <2>1. CASE j = k + 1
    BY <1>14, <1>15, <2>1 DEF sc
  <2>2. CASE j # k + 1
    <3>1. j \in 1..k
      BY <2>2
    <3>2. e.name # sc.name
      BY <1>8, <1>15, <3>1
    <3>3. e \in b
      BY <1>7, <1>15, <3>2
    <3>4. QED
      BY <1>3, <1>15, <3>1, <3>3
  <2>3. QED
    BY <2>1, <2>2
<1>16. QED
  BY <1>3, <1>4, <1>12, <1>13, <1>15 DEF ArePlaced, a, c, sc, next, x

LEMMA AllPlaced ==
  ASSUME NEW w \in Good, NEW old \in Seq(Server), NEW list \in Seq(Server),
         NamesOf(old) \cap NamesOf(list) \subseteq NamesOf(w.known.servers)
  PROVE  ArePlaced(PlaceAll(w, old, list), w, old, list, Len(list))
<1> DEFINE n == Len(list)
           G == [x \in Good \X (1..n) |-> Placed(x[1], old, list[x[2]])]
           Body(f) == [i \in 0..n |-> IF i = 0 THEN w ELSE Placed(f[i - 1], old, list[i])]
           after == CHOOSE f : f = Body(f)
<1>1. n \in Nat /\ \A i \in 1..n : list[i] \in Server
  BY ListHas
<1>2. PlaceAll(w, old, list) = after[n]
  BY DEF PlaceAll
<1>3. \A x \in Good \X (1..n) : Placed(x[1], old, list[x[2]]) \in Good
  BY <1>1, PlacedGives
<1>4. G \in [Good \X (1..n) -> Good]
  BY <1>3
<1>5. \A v \in Good, i \in 1..n : G[<<v, i>>] = Placed(v, old, list[i])
  OBVIOUS
<1> HIDE DEF G
<1>6. PICK h : IsLoop(h, n, Good, w, G)
  BY <1>1, <1>4, LoopExists
<1>7. \A i \in 1..n : h[i] = Placed(h[i - 1], old, list[i])
  <2> TAKE i \in 1..n
  <2>1. i - 1 \in 0..n /\ i \in 0..n /\ i # 0
    BY <1>1
  <2>2. h[i - 1] \in Good /\ h[i] = G[<<h[i - 1], i>>]
    BY <1>6, <2>1 DEF IsLoop
  <2>3. QED
    BY <1>5, <2>2
<1>8. \A i \in 0..n : h[i] = IF i = 0 THEN w ELSE Placed(h[i - 1], old, list[i])
  <2> TAKE i \in 0..n
  <2>1. CASE i = 0
    BY <1>6, <2>1 DEF IsLoop
  <2>2. CASE i # 0
    <3>1. i \in 1..n
      BY <1>1, <2>2
    <3>2. QED
      BY <1>7, <2>2, <3>1
  <2>3. QED
    BY <2>1, <2>2
<1>9. h = Body(h)
  BY <1>6, <1>8 DEF IsLoop
<1>10. after = Body(after)
  BY <1>9
<1> HIDE DEF after
<1>11. after[0] = w /\ \A i \in 1..n : after[i] = Placed(after[i - 1], old, list[i])
  BY <1>1, <1>10
<1> DEFINE H == {k \in Nat : ArePlaced(after[k], w, old, list, k)}
<1>12. 0 \in H
  BY <1>11 DEF ArePlaced
<1>13. ASSUME NEW k \in Nat, k < n, k \in H
       PROVE  k + 1 \in H
  <2>1. k + 1 \in 1..n /\ (k + 1) - 1 = k
    BY <1>1, <1>13
  <2>2. after[k + 1] = Placed(after[k], old, list[k + 1])
    BY <1>11, <2>1
  <2> DEFINE v == after[k]
  <2>3. ArePlaced(v, w, old, list, k)
    BY <1>13
  <2> HIDE DEF v
  <2>4. ArePlaced(Placed(v, old, list[k + 1]), w, old, list, k + 1)
    BY <1>13, <2>3, OnePlaced
  <2>5. QED
    BY <2>2, <2>4 DEF v
<1> HIDE DEF H
<1>14. n \in H
  BY <1>1, <1>12, <1>13, UpTo
<1>15. QED
  BY <1>2, <1>14 DEF H

\* The loop that starts a session for every server that is not disabled.
LEMMA AllSpawned ==
  ASSUME NEW w \in Good, NEW list \in Seq(Server), NEW after,
         after = [i \in 0..Len(list) |->
                    IF i = 0 THEN w ELSE IF list[i].off THEN after[i - 1]
                    ELSE Spawn(after[i - 1], list[i])]
  PROVE  after[Len(list)] \in Good /\ after[Len(list)].known = w.known
<1> DEFINE n == Len(list)
<1>1. n \in Nat /\ \A i \in 1..n : list[i] \in Server
  BY ListHas
<1>2. /\ after[0] = w
      /\ \A i \in 1..n : after[i] = IF list[i].off THEN after[i - 1] ELSE Spawn(after[i - 1], list[i])
  <2>1. 0 \in 0..n /\ \A i \in 1..n : i \in 0..n /\ i # 0
    BY <1>1
  <2>2. \A i \in 0..n : after[i] = IF i = 0 THEN w ELSE IF list[i].off THEN after[i - 1]
                                   ELSE Spawn(after[i - 1], list[i])
    BY Zenon
  <2> HIDE DEF n
  <2>3. QED
    BY <2>1, <2>2
<1> HIDE DEF n
<1> DEFINE H == {k \in Nat : after[k] \in Good /\ after[k].known = w.known}
<1>3. 0 \in H
  BY <1>2
<1>4. ASSUME NEW k \in Nat, k < n, k \in H
      PROVE  k + 1 \in H
  <2>1. k + 1 \in 1..n /\ (k + 1) - 1 = k /\ list[k + 1] \in Server
    BY <1>1, <1>4
  <2> DEFINE v == after[k]
  <2>2. v \in Good /\ v.known = w.known
    BY <1>4
  <2>3. after[k + 1] = IF list[k + 1].off THEN v ELSE Spawn(v, list[k + 1])
    BY <1>2, <2>1
  <2> HIDE DEF v
  <2>4. Spawn(v, list[k + 1]) \in Good /\ Spawn(v, list[k + 1]).known = v.known
    BY <2>1, <2>2, Spawned
  <2>5. QED
    BY <2>2, <2>3, <2>4
<1> HIDE DEF H
<1>5. n \in H
  BY <1>1, <1>3, <1>4, UpTo
<1>6. QED
  BY <1>5 DEF H, n

\* The loop runs.
LEMMA SpawnLoop ==
  ASSUME NEW w \in Good, NEW list \in Seq(Server)
  PROVE  \E after : after = [i \in 0..Len(list) |->
                               IF i = 0 THEN w ELSE IF list[i].off THEN after[i - 1]
                               ELSE Spawn(after[i - 1], list[i])]
<1> DEFINE n == Len(list)
           G == [x \in Good \X (1..n) |-> IF list[x[2]].off THEN x[1] ELSE Spawn(x[1], list[x[2]])]
<1>1. n \in Nat /\ \A i \in 1..n : list[i] \in Server
  BY ListHas
<1>2. \A x \in Good \X (1..n) : Spawn(x[1], list[x[2]]) \in Good
  BY <1>1, Spawned
<1>3. G \in [Good \X (1..n) -> Good]
  BY <1>2
<1>4. \A v \in Good, i \in 1..n : G[<<v, i>>] = IF list[i].off THEN v ELSE Spawn(v, list[i])
  OBVIOUS
<1> HIDE DEF G
<1>5. PICK h : IsLoop(h, n, Good, w, G)
  BY <1>1, <1>3, LoopExists
<1>6. \A i \in 1..n : h[i] = IF list[i].off THEN h[i - 1] ELSE Spawn(h[i - 1], list[i])
  <2> TAKE i \in 1..n
  <2>1. i - 1 \in 0..n /\ i \in 0..n /\ i # 0
    BY <1>1
  <2>2. h[i - 1] \in Good /\ h[i] = G[<<h[i - 1], i>>]
    BY <1>5, <2>1 DEF IsLoop
  <2>3. QED
    BY <1>4, <2>2
<1>7. \A i \in 0..n : h[i] = IF i = 0 THEN w ELSE IF list[i].off THEN h[i - 1]
                             ELSE Spawn(h[i - 1], list[i])
  <2> TAKE i \in 0..n
  <2>1. CASE i = 0
    BY <1>5, <2>1 DEF IsLoop
  <2>2. CASE i # 0
    <3>1. i \in 1..n
      BY <1>1, <2>2
    <3>2. QED
      BY <1>6, <2>2, <3>1
  <2>3. QED
    BY <2>1, <2>2
<1>8. h = [i \in 0..n |-> IF i = 0 THEN w ELSE IF list[i].off THEN h[i - 1]
                          ELSE Spawn(h[i - 1], list[i])]
  BY <1>5, <1>7 DEF IsLoop
<1>9. QED
  BY <1>8

(* ------------------------------ the links ------------------------------ *)

LEMMA MarkedIs ==
  ASSUME NEW ss \in [Ids -> Seq({"up", "down"})], NEW n \in Ids, NEW state \in {"up", "down"}
  PROVE  /\ Marked(ss, n, state) \in [Ids -> Seq({"up", "down"})]
         /\ \A m \in Ids : Marked(ss, n, state)[m] = <<>> <=> ss[m] = <<>>
         /\ \A m \in Ids \ {n} : Marked(ss, n, state)[m] = ss[m]
         /\ ss[n] # <<>> => Marked(ss, n, state)[n][1] = state
<1>1. CASE ss[n] = <<>>
  BY <1>1 DEF Marked
<1>2. CASE ss[n] # <<>>
  <2> DEFINE q == [ss[n] EXCEPT ![1] = state]
  <2>1. q \in Seq({"up", "down"}) /\ q # <<>> /\ q[1] = state
    BY <1>2
  <2>2. Marked(ss, n, state) = [ss EXCEPT ![n] = q]
    BY <1>2 DEF Marked
  <2> HIDE DEF q
  <2>3. QED
    BY <1>2, <2>1, <2>2
<1>3. QED
  BY <1>1, <1>2

LEMMA FallenIs ==
  ASSUME NEW w \in Good, NEW n \in Ids
  PROVE  Fallen(w, n) \in Good /\ Fallen(w, n).known = w.known /\ Fallen(w, n).clients = w.clients
<1>1. w \in Worlds /\ Shown(w.sessions, w.ui) /\ w.sessions \in [Ids -> Seq({"up", "down"})]
      /\ w.ui \in [rows : SUBSET Ids, icons : SUBSET Ids, panes : SUBSET Ids]
  BY WorldHas
<1>2. HasSession(w, n) <=> w.sessions[n] # <<>>
  BY <1>1 DEF HasSession
<1>3. CASE w.sessions[n] = <<>>
  BY <1>2, <1>3 DEF Fallen
<1>4. CASE w.sessions[n] # <<>>
  <2> DEFINE ss == Marked(w.sessions, n, "down")
             v == [w EXCEPT !.sessions = ss]
             x == Disconnected(v, n)
  <2>1. /\ ss \in [Ids -> Seq({"up", "down"})]
        /\ \A m \in Ids : ss[m] = <<>> <=> w.sessions[m] = <<>>
        /\ \A m \in Ids \ {n} : ss[m] = w.sessions[m]
        /\ ss[n][1] = "down"
    BY <1>1, <1>4, MarkedIs
  <2>2. Fallen(w, n) = x
    BY <1>2, <1>4 DEF Fallen
  <2> HIDE DEF ss
  <2>3. v \in Worlds /\ v.known = w.known /\ v.sessions = ss /\ v.clients = w.clients /\ v.ui = w.ui
    BY <1>1, <2>1 DEF Worlds
  <2> HIDE DEF v
  <2>4. /\ x \in Worlds /\ x.known = v.known /\ x.sessions = v.sessions /\ x.clients = v.clients
        /\ x.ui.rows = v.ui.rows /\ x.ui.icons = v.ui.icons \ {n}
        /\ x.ui.panes = IF v.sessions[n] # <<>> THEN v.ui.panes ELSE v.ui.panes \ {n}
    BY <2>3, DisconnectedGives
  <2> HIDE DEF x
  <2>5. Shown(x.sessions, x.ui)
    BY <1>1, <1>4, <2>1, <2>3, <2>4 DEF Shown
  <2>6. QED
    BY <2>2, <2>3, <2>4, <2>5 DEF Good
<1>5. QED
  BY <1>3, <1>4

\* One client of a world changes.
LEMMA ClientChanged ==
  ASSUME NEW w \in Good, NEW i \in DOMAIN w.clients, NEW c \in Clients
  PROVE  /\ [w EXCEPT !.clients = [w.clients EXCEPT ![i] = c]] \in Good
         /\ [w EXCEPT !.clients = [w.clients EXCEPT ![i] = c]].known = w.known
<1>1. [w.clients EXCEPT ![i] = c] \in Seq(Clients)
  BY WorldHas
<1>2. QED
  BY <1>1 DEF Good, Worlds

LEMMA ClientHas ==
  ASSUME NEW w \in Good, NEW i \in DOMAIN w.clients
  PROVE  /\ w.clients[i] \in Clients
         /\ w.clients[i].name \in Ids
         /\ w.clients[i].phase # "resolving" => w.clients[i].pending = {}
<1>1. w.clients[i] \in Clients
  BY WorldHas
<1>2. QED
  BY <1>1 DEF Clients

LEMMA ReconnectedIs ==
  ASSUME NEW w \in Good, NEW n \in Ids
  PROVE  Reconnected(w, n) \in Good /\ Reconnected(w, n).known = w.known
<1> DEFINE k == Min(ClientAt(w, n))
           v == IF w.clients[k].phase = "up" THEN Fallen(w, n) ELSE w
           c == [v.clients[k] EXCEPT !.phase = "trying"]
<1>1. CASE ClientAt(w, n) = {} \/ w.clients[k].phase = "resolving"
  BY <1>1 DEF Reconnected
<1>2. CASE ~(ClientAt(w, n) = {} \/ w.clients[k].phase = "resolving")
  <2>1. v \in Good /\ v.known = w.known /\ v.clients = w.clients
    BY FallenIs
  <2>2. k \in DOMAIN w.clients
    BY <1>2, FirstClient DEF Good
  <2>3. w.clients[k] \in Clients /\ w.clients[k].pending = {}
    BY <1>2, <2>2, ClientHas
  <2>4. Reconnected(w, n) = [v EXCEPT !.clients = [v.clients EXCEPT ![k] = c]]
    BY <1>2 DEF Reconnected
  <2> HIDE DEF v, k
  <2>5. c \in Clients
    BY <2>1, <2>3 DEF Clients
  <2> HIDE DEF c
  <2>6. QED
    BY <2>1, <2>2, <2>4, <2>5, ClientChanged
<1>3. QED
  BY <1>1, <1>2

LEMMA AcceptedIs ==
  ASSUME NEW w \in Good, NEW n \in Ids
  PROVE  AcceptedFor(w, n) \in Good /\ AcceptedFor(w, n).known = w.known
<1> DEFINE k == Min(ClientAt(w, n))
           c == [w.clients[k] EXCEPT !.pin = TRUE]
           v == [w EXCEPT !.clients = [w.clients EXCEPT ![k] = c]]
<1>1. CASE ClientAt(w, n) = {}
  BY <1>1 DEF AcceptedFor
<1>2. CASE ClientAt(w, n) # {}
  <2>1. k \in DOMAIN w.clients
    BY <1>2, FirstClient DEF Good
  <2>2. w.clients[k] \in Clients
    BY <2>1, ClientHas
  <2>3. AcceptedFor(w, n) = Reconnected(v, n)
    BY <1>2 DEF AcceptedFor
  <2> HIDE DEF k
  <2>4. c \in Clients
    BY <2>2 DEF Clients
  <2> HIDE DEF c
  <2>5. v \in Good /\ v.known = w.known
    BY <2>1, <2>4, ClientChanged
  <2> HIDE DEF v
  <2>6. QED
    BY <2>3, <2>5, ReconnectedIs
<1>3. QED
  BY <1>1, <1>2

LEMMA ConnectedIs ==
  ASSUME NEW w \in Good, NEW t, HasSession(w, t) \/ Matching(w, t) # {}
  PROVE  ConnectServer(w, t) \in Good /\ ConnectServer(w, t).known = w.known
<1>1. CASE HasSession(w, t)
  BY <1>1 DEF ConnectServer
<1>2. CASE ~HasSession(w, t)
  <2> DEFINE list == w.known.servers
             i == Min(Matching(w, t))
  <2>1. list \in Seq(Server) /\ DOMAIN list = 1..Len(list) /\ Len(list) \in Nat
        /\ \A j \in 1..Len(list) : list[j] \in Server
    BY WorldHas, ListHas
  <2>2. Matching(w, t) \in SUBSET DOMAIN list
    BY DEF Matching
  <2>3. Matching(w, t) \in SUBSET Nat /\ Matching(w, t) # {}
    BY <1>2, <2>1, <2>2
  <2>4. i \in Matching(w, t)
    BY <2>3, MinIn
  <2>5. ConnectServer(w, t) = Spawn(w, list[i])
    BY <1>2 DEF ConnectServer
  <2> HIDE DEF i, list
  <2>6. list[i] \in Server
    BY <2>1, <2>2, <2>4
  <2>7. QED
    BY <2>5, <2>6, Spawned
<1>3. QED
  BY <1>1, <1>2

\* The program starts.
LEMMA LoadedIs ==
  ASSUME NEW f \in Configs
  PROVE  Loaded(f) \in Good /\ Loaded(f).known = f
<1> DEFINE w == [known |-> f, sessions |-> [n \in Ids |-> <<>>], clients |-> <<>>,
                 ui |-> [rows |-> {}, icons |-> {}, panes |-> {}]]
           list == f.servers
           after == CHOOSE g : g = [i \in 0..Len(list) |->
                      IF i = 0 THEN w ELSE IF list[i].off THEN g[i - 1]
                      ELSE Spawn(g[i - 1], list[i])]
<1>1. list \in Seq(Server) /\ f \in [servers : Seq(Server), ignore : Table(Nicks, SUBSET Kinds)]
  BY DEF Configs
<1>2. <<>> \in Seq({"up", "down"}) /\ <<>> \in Seq(Clients)
  OBVIOUS
<1>3. [n \in Ids |-> <<>>] \in [Ids -> Seq({"up", "down"})]
  BY <1>2
<1>4. Shown([n \in Ids |-> <<>>], [rows |-> {}, icons |-> {}, panes |-> {}])
  BY DEF Shown
<1>5. w \in Good
  BY <1>1, <1>2, <1>3, <1>4, WorldIs
<1>6. w.known = f
  OBVIOUS
<1>7. Loaded(f) = after[Len(list)]
  BY DEF Loaded
<1> HIDE DEF w, list
<1>8. \E g : g = [i \in 0..Len(list) |->
                    IF i = 0 THEN w ELSE IF list[i].off THEN g[i - 1]
                    ELSE Spawn(g[i - 1], list[i])]
  BY <1>1, <1>5, SpawnLoop
<1>9. after = [i \in 0..Len(list) |->
                 IF i = 0 THEN w ELSE IF list[i].off THEN after[i - 1]
                 ELSE Spawn(after[i - 1], list[i])]
  BY <1>8, Zenon
<1> HIDE DEF after
<1>10. after[Len(list)] \in Good /\ after[Len(list)].known = w.known
  BY <1>1, <1>5, <1>9, AllSpawned
<1>11. QED
  BY <1>6, <1>7, <1>10

(* -------------------------- step by step ------------------------------- *)

SInv == Settings /\ World \in Good /\ NamesAgree

\* What CopiesAgree says of revisions.
RevisionsKept ==
  SameRevisions(win.servers, known.servers) /\ Distinct(win'.servers)
  => SameRevisions(win'.servers, known'.servers)

\* What is shown of every step.
Kept == SInv' /\ RevisionsKept

LEMMA WorldParts ==
  /\ World.known = known /\ World.sessions = sessions
  /\ World.clients = clients /\ World.ui = ui
BY DEF World

LEMMA BecomesIs ==
  ASSUME NEW x \in Good, Becomes(x)
  PROVE  World' \in Good /\ known' = x.known
<1>1. World' = [known |-> x.known, sessions |-> x.sessions, clients |-> x.clients, ui |-> x.ui]
  BY DEF World, Becomes
<1>2. QED
  BY <1>1, WorldHas, WorldIs DEF Becomes

LEMMA NewServerIs == \A n \in Ids, off \in BOOLEAN : NewServer(n, off) \in Server
BY DEF NewServer, Server

LEMMA FirstIs == First \in Configs
<1>1. Start \in Seq(Ids)
  BY NameAssumption DEF Ids
<1>2. DOMAIN Start = 1..Len(Start) /\ Len(Start) \in Nat /\ \A i \in 1..Len(Start) : Start[i] \in Ids
  BY <1>1, LenProperties
<1>3. \A i \in 1..Len(Start) : NewServer(Start[i], FALSE) \in Server
  BY <1>2, NewServerIs
<1>4. [i \in DOMAIN Start |-> NewServer(Start[i], FALSE)] \in Seq(Server)
  <2> DEFINE n == Len(Start)
             list == [i \in 1..n |-> NewServer(Start[i], FALSE)]
  <2> HIDE DEF n
  <2>1. n \in Nat /\ DOMAIN list = 1..n /\ \A i \in 1..n : list[i] \in Server
    BY <1>2, <1>3 DEF n
  <2>2. list \in [1..n -> Server]
    BY <2>1
  <2>3. list \in Seq(Server)
    <3> HIDE DEF list
    <3>1. QED
      BY <2>1, <2>2
  <2>4. [i \in DOMAIN Start |-> NewServer(Start[i], FALSE)] = list
    BY <1>2 DEF n
  <2> HIDE DEF list
  <2>5. QED
    BY <2>3, <2>4
<1>5. First.ignore \in Table(Nicks, SUBSET Kinds)
  <2>1. First.ignore \in [{} -> SUBSET Kinds] /\ {} \in SUBSET Nicks
    BY DEF First
  <2>2. QED
    BY <2>1, IsTable
<1>6. QED
  BY <1>4, <1>5 DEF First, Configs

\* Lists that stay as they are, with the same ignored nicks.
LEMMA SameLists ==
  ASSUME SInv, win'.servers = win.servers, known'.servers = known.servers,
         win'.ignore = known'.ignore
  PROVE  NamesAgree' /\ RevisionsKept
BY DEF SInv, NamesAgree, RevisionsKept

\* What a save writes, and what a load makes of it.
LEMMA WrittenIs ==
  ASSUME NEW w \in Configs
  PROVE  Written(w) \in [servers : Seq(Server), ignore : Table(Nicks, SUBSET Kinds), ok : BOOLEAN]
BY DEF Written, Configs

LEMMA ReadIs ==
  ASSUME Settings
  PROVE  Read(file) \in Configs
<1>1. <<>> \in Seq(Server)
  OBVIOUS
<1>2. [n \in {} |-> {}] \in Table(Nicks, SUBSET Kinds)
  <2>1. [n \in {} |-> {}] \in [{} -> SUBSET Kinds] /\ {} \in SUBSET Nicks
    OBVIOUS
  <2>2. QED
    BY <2>1, IsTable
<1>3. QED
  BY <1>1, <1>2 DEF Settings, Read, Configs

LEMMA SaveKeeps ==
  ASSUME Settings, NEW w \in Configs, Save(w) \/ SaveConfig(w) \/ BeginSave(w)
  PROVE  /\ file' \in [servers : Seq(Server), ignore : Table(Nicks, SUBSET Kinds), ok : BOOLEAN]
         /\ store' \in [saving : BOOLEAN, notice : BOOLEAN, reload : BOOLEAN, draft : Seq(Configs)]
<1>1. <<w>> \in Seq(Configs)
  OBVIOUS
<1>2. QED
  BY <1>1, WrittenIs DEF Settings, Save, SaveConfig, BeginSave

\* A list with a server less, or a new one.
LEMMA ShortenedAre ==
  ASSUME NEW list \in Seq(Server), NEW next \in Shortened(list) \cup Lengthened(list)
  PROVE  next \in Seq(Server)
<1>1. CASE next \in Shortened(list)
  <2>1. PICK i \in DOMAIN list : next = RemoveAt(list, i)
    BY <1>1 DEF Shortened
  <2>2. i \in 1..Len(list)
    BY <2>1, LenProperties
  <2>3. QED
    BY <2>1, <2>2, RemoveAtIs
<1>2. CASE next \in Lengthened(list)
  <2>1. PICK n \in Ids : next = Append(list, NewServer(n, FALSE))
    BY <1>2 DEF Lengthened
  <2>2. NewServer(n, FALSE) \in Server
    BY NewServerIs
  <2>3. QED
    BY <2>1, <2>2, AppendIs
<1>3. QED
  BY <1>1, <1>2

\* What happens to the file, its watcher, the dialogs and the workers.
LEMMA QuietStep ==
  ASSUME Settings,
         \/ OpenManage \/ CancelManage \/ EditFile \/ Notice \/ GuardEnds \/ EndSave
         \/ Sysinfo \/ RunScript
         \/ \E j \in DOMAIN jobs : ThreadEnds(j) \/ JobAnswer(j) \/ SysinfoTimeout(j)
  PROVE  Settings' /\ UNCHANGED <<win, world>>
<1>1. CASE OpenManage
  <2>1. win.servers \in Seq(Server)
    BY DEF Settings, Configs
  <2>2. <<win.servers>> \in Seq(Seq(Server))
    BY <2>1
  <2>3. QED
    BY <1>1, <2>2 DEF OpenManage, Settings
<1>2. CASE CancelManage
  <2>1. <<>> \in Seq(Seq(Server))
    OBVIOUS
  <2>2. QED
    BY <1>2, <2>1 DEF CancelManage, Settings
<1>3. CASE EditFile
  <2>1. file.servers \in Seq(Server)
    BY DEF Settings
  <2>2. \A list \in Shortened(file.servers) \cup Lengthened(file.servers) : list \in Seq(Server)
    BY <2>1, ShortenedAre
  <2>3. file' \in [servers : Seq(Server), ignore : Table(Nicks, SUBSET Kinds), ok : BOOLEAN]
    <3>1. CASE file' = [file EXCEPT !.ok = ~@]
      BY <3>1 DEF Settings
    <3>2. ASSUME NEW list \in Seq(Server), file' = [file EXCEPT !.servers = list]
          PROVE  file' \in [servers : Seq(Server), ignore : Table(Nicks, SUBSET Kinds), ok : BOOLEAN]
      BY <3>2 DEF Settings
    <3>3. QED
      BY <1>3, <2>2, <3>1, <3>2 DEF EditFile
  <2>4. QED
    BY <1>3, <2>3 DEF EditFile, Settings
<1>4. CASE Notice \/ GuardEnds
  BY <1>4 DEF Notice, GuardEnds, Settings
<1>5. CASE EndSave
  <2>1. store.draft[1] \in Configs /\ <<>> \in Seq(Configs)
    BY <1>5 DEF EndSave, Settings
  <2>2. win.servers \in Seq(Server) /\ store.draft[1].servers \in Seq(Server)
    BY <2>1 DEF Settings, Configs
  <2>3. \A list \in Seq(Server) :
          Written([store.draft[1] EXCEPT !.servers = list])
            \in [servers : Seq(Server), ignore : Table(Nicks, SUBSET Kinds), ok : BOOLEAN]
    BY <2>1 DEF Written, Configs
  <2>4. file' \in [servers : Seq(Server), ignore : Table(Nicks, SUBSET Kinds), ok : BOOLEAN]
    BY <1>5, <2>2, <2>3 DEF EndSave
  <2>5. QED
    BY <1>5, <2>1, <2>4 DEF EndSave, Settings
<1>6. CASE Sysinfo \/ RunScript
  BY <1>6 DEF Sysinfo, RunScript, Settings
<1>7. CASE \E j \in DOMAIN jobs : ThreadEnds(j) \/ JobAnswer(j) \/ SysinfoTimeout(j)
  BY <1>7 DEF ThreadEnds, JobAnswer, SysinfoTimeout, Settings
<1>8. QED
  BY <1>1, <1>2, <1>3, <1>4, <1>5, <1>6, <1>7

\* One client's record changes, and with it perhaps what is shown.
LEMMA ClientStep ==
  ASSUME World \in Good, NEW i \in DOMAIN clients, NEW c \in Clients, Client(i, c),
         known' = known,
         sessions' \in [Ids -> Seq({"up", "down"})],
         ui' \in [rows : SUBSET Ids, icons : SUBSET Ids, panes : SUBSET Ids],
         Shown(sessions', ui')
  PROVE  World' \in Good
<1>1. clients \in Seq(Clients) /\ known \in [servers : Seq(Server), ignore : Table(Nicks, SUBSET Kinds)]
  BY WorldHas, WorldParts, Zenon
<1>2. clients' \in Seq(Clients)
  BY <1>1 DEF Client
<1>3. known' \in [servers : Seq(Server), ignore : Table(Nicks, SUBSET Kinds)]
  BY <1>1
<1>4. World' = [known |-> known', sessions |-> sessions', clients |-> clients', ui |-> ui']
  BY DEF World
<1>5. QED
  BY <1>2, <1>3, <1>4, WorldIs

LEMMA LinkStep ==
  ASSUME SInv, NEW i \in DOMAIN clients,
         KeychainAnswer(i) \/ LinkUp(i) \/ LinkDown(i) \/ CertificatePrompt(i)
  PROVE  World' \in Good /\ known' = known /\ win' = win /\ Settings'
<1> DEFINE c == clients[i]
<1>1. /\ World \in Good /\ clients \in Seq(Clients)
      /\ sessions \in [Ids -> Seq({"up", "down"})]
      /\ ui \in [rows : SUBSET Ids, icons : SUBSET Ids, panes : SUBSET Ids]
      /\ Shown(sessions, ui)
  BY WorldHas, WorldParts, Zenon DEF SInv
<1>2. c \in Clients /\ c.name \in Ids /\ (c.phase # "resolving" => c.pending = {})
  <2>1. c \in Clients
    BY <1>1
  <2>2. QED
    BY <2>1 DEF Clients
<1>3. CASE KeychainAnswer(i)
  <2>1. PICK item \in c.pending : Client(i, Answered(c, c.pending \ {item}))
    BY <1>3 DEF KeychainAnswer
  <2>2. c.phase = "resolving"
    BY <1>3 DEF KeychainAnswer
  <2>3. Answered(c, c.pending \ {item}) \in Clients
    BY <1>2, <2>2 DEF Answered, Clients
  <2>4. known' = known /\ sessions' = sessions /\ ui' = ui /\ win' = win
        /\ UNCHANGED <<file, store, dialog, prompt>>
    BY <1>3 DEF KeychainAnswer
  <2>5. World' \in Good
    BY <1>1, <2>1, <2>3, <2>4, ClientStep
  <2>6. QED
    BY <2>4, <2>5 DEF SInv, Settings
<1>4. CASE LinkUp(i)
  <2> DEFINE up == [c EXCEPT !.phase = "up"]
  <2>1. Client(i, up) /\ c.phase = "trying"
    BY <1>4 DEF LinkUp
  <2>2. up \in Clients
    BY <1>2, <2>1 DEF Clients
  <2>3. /\ sessions' = Marked(sessions, c.name, "up")
        /\ ui' = IF HasSession(World, c.name) /\ c.name \in ui.rows
                 THEN [ui EXCEPT !.icons = @ \cup {c.name}] ELSE ui
        /\ known' = known /\ win' = win /\ UNCHANGED <<file, store, dialog, prompt>>
    BY <1>4 DEF LinkUp
  <2>4. HasSession(World, c.name) <=> sessions[c.name] # <<>>
    BY <1>1, <1>2, WorldParts DEF HasSession
  <2>5. /\ sessions' \in [Ids -> Seq({"up", "down"})]
        /\ \A m \in Ids : sessions'[m] = <<>> <=> sessions[m] = <<>>
        /\ \A m \in Ids \ {c.name} : sessions'[m] = sessions[m]
        /\ sessions[c.name] # <<>> => sessions'[c.name][1] = "up"
    BY <1>1, <1>2, <2>3, MarkedIs
  <2> HIDE DEF c
  <2>6. ui' \in [rows : SUBSET Ids, icons : SUBSET Ids, panes : SUBSET Ids]
        /\ ui'.rows = ui.rows /\ ui'.panes = ui.panes
        /\ ui'.icons = IF sessions[c.name] # <<>> /\ c.name \in ui.rows
                       THEN ui.icons \cup {c.name} ELSE ui.icons
    BY <1>1, <1>2, <2>3, <2>4
  <2>7. Shown(sessions', ui')
    BY <1>1, <1>2, <2>5, <2>6 DEF Shown
  <2> HIDE DEF up
  <2>8. World' \in Good
    BY <1>1, <2>1, <2>2, <2>3, <2>5, <2>6, <2>7, ClientStep
  <2>9. QED
    BY <2>3, <2>8 DEF SInv, Settings
<1>5. CASE LinkDown(i)
  <2> DEFINE w == Fallen(World, c.name)
             down == [w.clients[i] EXCEPT !.phase = IF @ = "up" THEN "trying" ELSE "down"]
             x == [w EXCEPT !.clients = [w.clients EXCEPT ![i] = down]]
  <2>1. Becomes(x) /\ c.phase \in {"up", "quitting"} /\ win' = win
        /\ UNCHANGED <<file, store, dialog, prompt>>
    BY <1>5 DEF LinkDown
  <2>2. w \in Good /\ w.known = known /\ w.clients = clients
    BY <1>1, <1>2, FallenIs, WorldParts
  <2> HIDE DEF w
  <2>3. down \in Clients
    BY <1>2, <2>1, <2>2 DEF Clients
  <2> HIDE DEF down
  <2>4. x \in Good /\ x.known = known
    BY <2>2, <2>3, ClientChanged
  <2> HIDE DEF x
  <2>5. World' \in Good /\ known' = known
    BY <2>1, <2>4, BecomesIs
  <2>6. QED
    BY <2>1, <2>5 DEF SInv, Settings
<1>6. CASE CertificatePrompt(i)
  <2> DEFINE down == [c EXCEPT !.phase = "down"]
  <2>1. Client(i, down) /\ c.phase = "trying"
        /\ known' = known /\ sessions' = sessions /\ ui' = ui /\ win' = win
        /\ UNCHANGED <<file, store, dialog>> /\ prompt' = c.name
    BY <1>6 DEF CertificatePrompt
  <2>2. down \in Clients
    BY <1>2, <2>1 DEF Clients
  <2> HIDE DEF down
  <2>3. World' \in Good
    BY <1>1, <2>1, <2>2, ClientStep
  <2>4. prompt' \in Ids \cup {None}
    BY <1>2, <2>1
  <2>5. QED
    BY <2>1, <2>3, <2>4 DEF SInv, Settings
<1>7. QED
  BY <1>3, <1>4, <1>5, <1>6

LEMMA UserLinkStep ==
  ASSUME SInv,
         \/ \E n \in Ids : Connect(n) \/ Close(n) \/ Quit(n) \/ TogglePane(n)
         \/ \E t \in Targets : ConnectTo(t)
  PROVE  Kept
<1>1. /\ World \in Good /\ clients \in Seq(Clients)
      /\ sessions \in [Ids -> Seq({"up", "down"})]
      /\ ui \in [rows : SUBSET Ids, icons : SUBSET Ids, panes : SUBSET Ids]
      /\ known \in [servers : Seq(Server), ignore : Table(Nicks, SUBSET Kinds)]
      /\ Shown(sessions, ui)
  BY WorldHas, WorldParts, Zenon DEF SInv
<1>2. ASSUME UNCHANGED <<win, file, store, dialog, prompt>>, known' = known, World' \in Good
      PROVE  Kept
  <2>1. win'.servers = win.servers /\ known'.servers = known.servers /\ win'.ignore = known'.ignore
    BY <1>2 DEF SInv, NamesAgree
  <2>2. NamesAgree' /\ RevisionsKept
    BY <2>1, SameLists
  <2>3. QED
    BY <1>2, <2>2 DEF SInv, Settings, Kept
<1>3. ASSUME NEW n \in Ids, Connect(n)
      PROVE  Kept
  <2> DEFINE x == IF ClientAt(World, n) # {} THEN Reconnected(World, n)
                  ELSE IF HasSession(World, n) \/ Matching(World, n) # {}
                       THEN ConnectServer(World, n) ELSE World
  <2>1. Becomes(x) /\ UNCHANGED <<win, file, store, dialog, prompt>>
    BY <1>3 DEF Connect
  <2>2. x \in Good /\ x.known = known
    BY <1>1, ReconnectedIs, ConnectedIs, WorldParts
  <2> HIDE DEF x
  <2>3. QED
    BY <1>2, <2>1, <2>2, BecomesIs
<1>4. ASSUME NEW n \in Ids, Close(n)
      PROVE  Kept
  <2> DEFINE x == CloseServer(World, n)
  <2>1. Becomes(x) /\ UNCHANGED <<win, file, store, dialog, prompt>>
    BY <1>4 DEF Close
  <2>2. x \in Good /\ x.known = known
    BY <1>1, Closed, WorldParts
  <2> HIDE DEF x
  <2>3. QED
    BY <1>2, <2>1, <2>2, BecomesIs
<1>5. ASSUME NEW n \in Ids, Quit(n)
      PROVE  Kept
  <2>1. PICK i \in ClientAt(World, n) :
          /\ clients[i].phase \in {"trying", "up"}
          /\ Client(i, [clients[i] EXCEPT !.phase = "quitting"])
    BY <1>5 DEF Quit
  <2> DEFINE c == [clients[i] EXCEPT !.phase = "quitting"]
  <2>2. i \in DOMAIN clients
    BY <2>1, WorldParts DEF ClientAt
  <2>3. clients[i] \in Clients
    BY <1>1, <2>2
  <2>4. c \in Clients
    BY <2>1, <2>3 DEF Clients
  <2> HIDE DEF c
  <2>5. known' = known /\ sessions' = sessions /\ ui' = ui /\ UNCHANGED <<win, file, store, dialog, prompt>>
    BY <1>5 DEF Quit
  <2>6. World' \in Good
    BY <1>1, <2>1, <2>2, <2>4, <2>5, ClientStep DEF c
  <2>7. QED
    BY <1>2, <2>5, <2>6
<1>6. ASSUME NEW n \in Ids, TogglePane(n)
      PROVE  Kept
  <2>1. /\ UNCHANGED <<win, file, store, known, sessions, clients, dialog, prompt>>
        /\ ui' = [ui EXCEPT !.panes = IF n \in @ THEN @ \ {n} ELSE @ \cup {n}]
        /\ HasSession(World, n)
    BY <1>6 DEF TogglePane
  <2>2. sessions[n] # <<>>
    BY <2>1, WorldParts DEF HasSession
  <2>3. ui' \in [rows : SUBSET Ids, icons : SUBSET Ids, panes : SUBSET Ids] /\ Shown(sessions, ui')
    BY <1>1, <2>1, <2>2 DEF Shown
  <2>4. World' = [known |-> known, sessions |-> sessions, clients |-> clients, ui |-> ui']
    BY <2>1 DEF World
  <2>5. World' \in Good
    BY <1>1, <2>3, <2>4, WorldIs
  <2>6. QED
    BY <1>2, <2>1, <2>5
<1>7. ASSUME NEW t, ConnectTo(t)
      PROVE  Kept
  <2>1. UNCHANGED <<win, file, store, dialog, prompt>>
    BY <1>7 DEF ConnectTo
  <2>2. CASE HasSession(World, t) \/ Matching(World, t) # {}
    <3> DEFINE x == ConnectServer(World, t)
    <3>1. Becomes(x)
      BY <1>7, <2>2 DEF ConnectTo
    <3>2. x \in Good /\ x.known = known
      BY <1>1, <2>2, ConnectedIs, WorldParts
    <3> HIDE DEF x
    <3>3. QED
      BY <1>2, <2>1, <3>1, <3>2, BecomesIs
  <2>3. CASE ~(HasSession(World, t) \/ Matching(World, t) # {})
    <3> DEFINE e == NewServer(NoName, FALSE)
               x == AddServer(World, e)
    <3>1. Becomes(x)
      BY <1>7, <2>3 DEF ConnectTo
    <3>2. e \in Server /\ e.name = NoName
      BY NewServerIs DEF Ids, NewServer
    <3> HIDE DEF e
    <3>3. /\ x \in Good /\ x.known.ignore = known.ignore
          /\ Entries(x.known.servers) = Entries(known.servers) \cup {e}
      BY <1>1, <3>2, Added, WorldParts
    <3> HIDE DEF x
    <3>4. World' \in Good /\ known' = x.known
      BY <3>1, <3>3, BecomesIs
    <3>5. /\ x.known.servers \in Seq(Server) /\ known.servers \in Seq(Server)
      BY <1>1, <3>3, WorldHas
    <3>6. NamesOf(x.known.servers) = NamesOf(known.servers) \cup {NoName}
      <4>1. /\ NamesOf(x.known.servers) = {f.name : f \in Entries(x.known.servers)}
            /\ NamesOf(known.servers) = {f.name : f \in Entries(known.servers)}
        BY <3>5, ListHas
      <4>2. QED
        BY <3>2, <3>3, <4>1
    <3>7. NamesAgree'
      BY <2>1, <3>3, <3>4, <3>6 DEF SInv, NamesAgree
    <3>8. ASSUME SameRevisions(win.servers, known.servers), Distinct(win.servers)
          PROVE  SameRevisions(win.servers, x.known.servers)
      <4>1. \A f \in Entries(win.servers) : f.name # NoName
        BY <3>8, DistinctEntries
      <4>2. \A f \in Entries(win.servers), g \in Entries(known.servers) : f.name = g.name => f.rev = g.rev
        BY <3>8, SameEntries
      <4>3. QED
        BY <3>2, <3>3, <4>1, <4>2, SameEntries
    <3>9. RevisionsKept
      BY <2>1, <3>4, <3>8 DEF RevisionsKept
    <3>10. QED
      BY <2>1, <3>4, <3>7, <3>9 DEF SInv, Settings, Kept
  <2>4. QED
    BY <2>2, <2>3
<1>8. QED
  BY <1>3, <1>4, <1>5, <1>6, <1>7

\* What Manage Servers can make of a list is one.
LEMMA EditsAre ==
  ASSUME NEW list \in Seq(Server), NEW updated \in Edits(list)
  PROVE  updated \in Seq(Server)
<1>1. DOMAIN list = 1..Len(list) /\ Len(list) \in Nat /\ \A i \in 1..Len(list) : list[i] \in Server
  BY ListHas
<1>2. CASE updated \in Shortened(list) \cup Lengthened(list)
  BY <1>2, ShortenedAre
<1>3. ASSUME NEW i \in DOMAIN list, NEW sc \in Changes(list[i])
      PROVE  [list EXCEPT ![i] = sc] \in Seq(Server)
  <2>1. list[i] \in Server
    BY <1>1
  <2> DEFINE old == list[i]
             flip == ~old.off
  <2>2. flip \in BOOLEAN
    BY Zenon
  <2>3. \/ sc = [old EXCEPT !.rev = 2] \/ sc = [old EXCEPT !.off = flip]
        \/ \E n \in Ids : sc = [old EXCEPT !.name = n]
    BY DEF Changes
  <2> HIDE DEF flip, old
  <2>4. sc \in Server
    BY <2>1, <2>2, <2>3 DEF Server, old
  <2>5. QED
    BY <2>4
<1>4. ASSUME NEW i \in 1..Len(list) - 1
      PROVE  Swapped(list, i) \in Seq(Server)
  <2>1. i \in 1..Len(list) /\ i + 1 \in 1..Len(list)
    BY <1>1
  <2>2. list[i] \in Server /\ list[i + 1] \in Server
    BY <1>1, <2>1
  <2>3. QED
    BY <1>1, <2>1, <2>2 DEF Swapped
<1>5. QED
  BY <1>2, <1>3, <1>4 DEF Edits

\* Both copies after the loops of openManageServers().
LEMMA ManagedIs ==
  ASSUME SInv, NEW updated \in Seq(Server), NEW x, x = Managed(World, win.servers, updated)
  PROVE  /\ x \in Good /\ x.known.ignore = known.ignore
         /\ NamesOf(x.known.servers) \ {NoName} \subseteq NamesOf(updated)
         /\ NamesOf(updated) \subseteq NamesOf(x.known.servers)
         /\ SameRevisions(win.servers, known.servers) /\ Distinct(updated)
            => SameRevisions(updated, x.known.servers)
<1> DEFINE old == win.servers
           list == Among(old, Ids \ NamesOf(updated))
           w == RemoveAll(World, list)
           k == known.servers
           n == Len(updated)
<1>1. /\ World \in Good /\ old \in Seq(Server) /\ k \in Seq(Server)
      /\ NamesOf(k) \ {NoName} \subseteq NamesOf(old) /\ NamesOf(old) \subseteq NamesOf(k)
  <2>1. World \in Good /\ World.known = known
    BY WorldParts DEF SInv
  <2>2. k \in Seq(Server)
    BY <2>1, WorldHas
  <2>3. QED
    BY <2>1, <2>2 DEF SInv, Settings, Configs, NamesAgree
<1>2. /\ NamesOf(old) = {e.name : e \in Entries(old)} /\ NamesOf(old) \subseteq Ids
      /\ NamesOf(k) = {e.name : e \in Entries(k)}
  BY <1>1, ListHas
<1>3. x = PlaceAll(w, old, updated)
  BY DEF Managed
<1>4. list \in Seq(Server) /\ Entries(list) = {e \in Entries(old) : e.name \in Ids \ NamesOf(updated)}
  BY <1>1, AmongIs
<1> HIDE DEF list
<1>5. NamesOf(list) = NamesOf(old) \ NamesOf(updated)
  <2>1. NamesOf(list) = {e.name : e \in Entries(list)}
    BY <1>4, ListHas
  <2>2. QED
    BY <1>2, <1>4, <2>1
<1>6. AreRemoved(w, World, NamesOf(list))
  BY <1>1, <1>4, AllRemoved
<1> HIDE DEF w
<1>7. /\ w \in Good /\ w.known.ignore = known.ignore
      /\ Entries(w.known.servers) = {e \in Entries(k) : e.name \notin NamesOf(old) \ NamesOf(updated)}
  BY <1>5, <1>6, WorldParts DEF AreRemoved
<1>8. /\ w.known.servers \in Seq(Server)
      /\ NamesOf(w.known.servers) = {e.name : e \in Entries(w.known.servers)}
  BY <1>7, WorldHas, ListHas
<1> HIDE DEF k
<1>9. NamesOf(w.known.servers) = NamesOf(k) \ (NamesOf(old) \ NamesOf(updated))
  BY <1>2, <1>7, <1>8
<1> HIDE DEF old
<1>10. NamesOf(old) \cap NamesOf(updated) \subseteq NamesOf(w.known.servers)
  BY <1>1, <1>9
<1>11. ArePlaced(x, w, old, updated, n)
  BY <1>1, <1>3, <1>7, <1>10, AllPlaced
<1>12. n \in Nat /\ DOMAIN updated = 1..n
  BY ListHas
<1>13. NamesOf(updated) = {updated[j].name : j \in 1..n}
  BY <1>12 DEF NamesOf
<1> HIDE DEF n
<1>14. /\ x \in Good /\ x.known.ignore = known.ignore
       /\ NamesOf(x.known.servers) = NamesOf(w.known.servers) \cup NamesOf(updated)
       /\ Fit(w, old, updated) =>
            \A e \in Entries(x.known.servers) :
              \A j \in 1..n : e.name = updated[j].name => e.rev = updated[j].rev
  BY <1>7, <1>11, <1>13 DEF ArePlaced
<1>15. NamesOf(x.known.servers) \ {NoName} \subseteq NamesOf(updated)
  BY <1>1, <1>9, <1>14
<1>16. ASSUME SameRevisions(old, k), Distinct(updated)
       PROVE  SameRevisions(updated, x.known.servers)
  <2>1. Entries(w.known.servers) \subseteq Entries(k)
    BY <1>7
  <2>2. SameRevisions(old, w.known.servers)
    BY <1>16, <2>1, SameEntries
  <2>3. Fit(w, old, updated)
    BY <1>1, <1>9, <1>16, <2>2 DEF Fit
  <2>4. \A e \in Entries(x.known.servers) :
          \A j \in 1..n : e.name = updated[j].name => e.rev = updated[j].rev
    BY <1>14, <2>3
  <2>5. QED
    BY <1>12, <2>4 DEF SameRevisions, Entries
<1>17. QED
  BY <1>14, <1>15, <1>16 DEF old, k

\* Both copies after a reload.
NewIn(fresh) == Among(fresh, Ids \ NamesOf(win.servers))
GoneFrom(fresh) == Among(win.servers, Ids \ NamesOf(fresh))
ListAfter(fresh) == Among(win.servers \o NewIn(fresh), NamesOf(fresh))
WorldAfter(fresh) ==
  RemoveAll(PlaceAll(World, <<>>, NewIn(fresh)), Reverse(GoneFrom(fresh)))

LEMMA ReloadedIs ==
  ASSUME SInv, NEW fresh \in Seq(Server)
  PROVE  /\ ListAfter(fresh) \in Seq(Server)
         /\ WorldAfter(fresh) \in Good
         /\ WorldAfter(fresh).known.ignore = known.ignore
         /\ NamesOf(WorldAfter(fresh).known.servers) \ {NoName} \subseteq NamesOf(ListAfter(fresh))
         /\ NamesOf(ListAfter(fresh)) \subseteq NamesOf(WorldAfter(fresh).known.servers)
         /\ SameRevisions(win.servers, known.servers) /\ Distinct(ListAfter(fresh))
            => SameRevisions(ListAfter(fresh), WorldAfter(fresh).known.servers)
<1> DEFINE new == NewIn(fresh)
           gone == GoneFrom(fresh)
           list == ListAfter(fresh)
           x == WorldAfter(fresh)
<1>0. /\ new = Among(fresh, Ids \ NamesOf(win.servers))
      /\ gone = Among(win.servers, Ids \ NamesOf(fresh))
      /\ list = Among(win.servers \o new, NamesOf(fresh))
      /\ x = RemoveAll(PlaceAll(World, <<>>, new), Reverse(gone))
  BY DEF NewIn, GoneFrom, ListAfter, WorldAfter
<1> HIDE DEF new, gone, list, x
<1> DEFINE old == win.servers
           w == PlaceAll(World, <<>>, new)
           k == known.servers
           n == Len(new)
<1>1. /\ World \in Good /\ World.known = known /\ old \in Seq(Server) /\ k \in Seq(Server)
      /\ NamesOf(k) \ {NoName} \subseteq NamesOf(old) /\ NamesOf(old) \subseteq NamesOf(k)
  <2>1. World \in Good /\ World.known = known
    BY WorldParts DEF SInv
  <2>2. k \in Seq(Server)
    BY <2>1, WorldHas
  <2>3. QED
    BY <2>1, <2>2 DEF SInv, Settings, Configs, NamesAgree
<1>2. /\ NamesOf(old) = {e.name : e \in Entries(old)} /\ NamesOf(old) \subseteq Ids
      /\ NamesOf(k) = {e.name : e \in Entries(k)}
      /\ NamesOf(fresh) = {e.name : e \in Entries(fresh)} /\ NamesOf(fresh) \subseteq Ids
  BY <1>1, ListHas
<1>3. new \in Seq(Server) /\ Entries(new) = {e \in Entries(fresh) : e.name \in Ids \ NamesOf(old)}
  BY <1>0, AmongIs
<1>4. gone \in Seq(Server) /\ Entries(gone) = {e \in Entries(old) : e.name \in Ids \ NamesOf(fresh)}
  BY <1>0, <1>1, AmongIs
<1>5. Reverse(gone) \in Seq(Server) /\ Entries(Reverse(gone)) = Entries(gone)
  BY <1>4, ReverseIs
<1>6. old \o new \in Seq(Server) /\ Entries(old \o new) = Entries(old) \cup Entries(new)
  BY <1>1, <1>3, ConcatIs
<1>7. /\ list \in Seq(Server)
      /\ Entries(list) = {e \in Entries(old) \cup Entries(new) : e.name \in NamesOf(fresh)}
  <2>1. list \in Seq(Server) /\ Entries(list) = {e \in Entries(old \o new) : e.name \in NamesOf(fresh)}
    BY <1>0, <1>6, AmongIs
  <2>2. QED
    BY <1>6, <2>1
<1>8. NamesOf(new) = {e.name : e \in Entries(new)}
      /\ NamesOf(Reverse(gone)) = {e.name : e \in Entries(Reverse(gone))}
      /\ NamesOf(list) = {e.name : e \in Entries(list)}
  BY <1>3, <1>5, <1>7, ListHas
<1>9. NamesOf(new) = NamesOf(fresh) \ NamesOf(old)
  <2>1. NamesOf(new) = NamesOf(fresh) \cap (Ids \ NamesOf(old))
    BY <1>0, NamesAmong
  <2>2. QED
    BY <1>2, <2>1
<1>10. NamesOf(Reverse(gone)) = NamesOf(old) \ NamesOf(fresh)
  <2>1. NamesOf(gone) = NamesOf(old) \cap (Ids \ NamesOf(fresh))
    BY <1>0, <1>1, NamesAmong
  <2>2. NamesOf(gone) = {e.name : e \in Entries(gone)}
    BY <1>4, ListHas
  <2>3. NamesOf(Reverse(gone)) = NamesOf(gone)
    BY <1>5, <1>8, <2>2
  <2>4. QED
    BY <1>2, <2>1, <2>3
<1>11. NamesOf(list) = NamesOf(fresh)
  <2> DEFINE both == old \o new
  <2>1. both \in Seq(Server) /\ Entries(both) = Entries(old) \cup Entries(new)
    BY <1>6
  <2>2. list = Among(both, NamesOf(fresh))
    BY <1>0
  <2> HIDE DEF both
  <2>3. NamesOf(both) = {e.name : e \in Entries(both)}
    BY <2>1, ListHas
  <2>4. NamesOf(both) = NamesOf(old) \cup NamesOf(new)
    <3>1. {e.name : e \in Entries(both)}
            = {e.name : e \in Entries(old)} \cup {e.name : e \in Entries(new)}
      BY <2>1
    <3>2. QED
      BY <1>2, <1>8, <2>3, <3>1
  <2>5. NamesOf(list) = NamesOf(both) \cap NamesOf(fresh)
    BY <2>1, <2>2, NamesAmong
  <2>6. QED
    BY <1>9, <2>4, <2>5
<1>12. ArePlaced(w, World, <<>>, new, n)
  <2>1. <<>> \in Seq(Server) /\ NamesOf(<<>>) = {}
    BY DEF NamesOf
  <2>2. NamesOf(<<>>) \cap NamesOf(new) \subseteq NamesOf(World.known.servers)
    BY <2>1
  <2>3. QED
    BY <1>1, <1>3, <2>1, <2>2, AllPlaced
<1>13. n \in Nat /\ DOMAIN new = 1..n
  BY <1>3, ListHas
<1>14. NamesOf(new) = {new[j].name : j \in 1..n} /\ \A j \in 1..n : new[j] \in Entries(new)
  BY <1>13 DEF NamesOf, Entries
<1> HIDE DEF w, n, old, k
<1>15. /\ w \in Good /\ w.known.ignore = known.ignore
       /\ NamesOf(w.known.servers) = NamesOf(k) \cup NamesOf(new)
       /\ \A e \in Entries(w.known.servers) : e \in Entries(k) \/ e \in Entries(new)
  BY <1>1, <1>12, <1>14 DEF ArePlaced, k
<1>16. AreRemoved(x, w, NamesOf(Reverse(gone)))
  BY <1>5, <1>15, <1>0, AllRemoved DEF w
<1>17. /\ x \in Good /\ x.known.ignore = known.ignore
       /\ Entries(x.known.servers) =
            {e \in Entries(w.known.servers) : e.name \notin NamesOf(old) \ NamesOf(fresh)}
  BY <1>10, <1>15, <1>16 DEF AreRemoved
<1>18. /\ w.known.servers \in Seq(Server) /\ x.known.servers \in Seq(Server)
       /\ NamesOf(w.known.servers) = {e.name : e \in Entries(w.known.servers)}
       /\ NamesOf(x.known.servers) = {e.name : e \in Entries(x.known.servers)}
  BY <1>15, <1>17, WorldHas, ListHas
<1>19. NamesOf(x.known.servers)
         = (NamesOf(k) \cup (NamesOf(fresh) \ NamesOf(old))) \ (NamesOf(old) \ NamesOf(fresh))
  <2> DEFINE names == NamesOf(old) \ NamesOf(fresh)
  <2>1. Entries(x.known.servers) = {e \in Entries(w.known.servers) : e.name \notin names}
    BY <1>17
  <2> HIDE DEF names
  <2>2. NamesOf(x.known.servers) = NamesOf(w.known.servers) \ names
    BY <1>18, <2>1, NamesOut
  <2>3. QED
    BY <1>9, <1>15, <2>2 DEF names
<1>20. /\ NamesOf(x.known.servers) \ {NoName} \subseteq NamesOf(list)
       /\ NamesOf(list) \subseteq NamesOf(x.known.servers)
  BY <1>1, <1>11, <1>19
<1>21. ASSUME SameRevisions(old, k), Distinct(list)
       PROVE  SameRevisions(list, x.known.servers)
  <2> SUFFICES ASSUME NEW e \in Entries(list), NEW f \in Entries(x.known.servers), e.name = f.name
               PROVE  e.rev = f.rev
    BY SameEntries
  <2>1. e.name # NoName /\ \A g \in Entries(list) : e.name = g.name => e = g
    BY <1>21, DistinctEntries
  <2>2. f \in Entries(k) \/ f \in Entries(new)
    BY <1>15, <1>17
  <2>3. e \in Entries(old) \/ e \in Entries(new)
    BY <1>7
  <2>4. \A g \in Entries(new) : g.name \notin NamesOf(old) /\ g \in Entries(list)
    BY <1>2, <1>3, <1>7
  <2>5. CASE f \in Entries(k) /\ e \in Entries(old)
    BY <1>21, <2>5, SameEntries
  <2>6. CASE f \in Entries(k) /\ e \in Entries(new)
    <3>1. f.name \in NamesOf(k) /\ f.name # NoName
      BY <1>2, <2>1, <2>6
    <3>2. QED
      BY <1>1, <2>4, <2>6, <3>1
  <2>7. CASE f \in Entries(new) /\ e \in Entries(old)
    <3>1. e.name \in NamesOf(old)
      BY <1>2, <2>7
    <3>2. QED
      BY <2>4, <2>7, <3>1
  <2>8. CASE f \in Entries(new) /\ e \in Entries(new)
    BY <2>1, <2>4, <2>8
  <2>9. QED
    BY <2>2, <2>3, <2>5, <2>6, <2>7, <2>8
<1>22. QED
  BY <1>7, <1>17, <1>20, <1>21 DEF old, k, list, x

\* The configuration changes: by dialogs, by the file, by the user's answer.
LEMMA ConfigStep ==
  ASSUME SInv,
         \/ \E n \in Ids : AddServerDialog(n)
         \/ AcceptManage \/ Reload \/ Restart
  PROVE  Kept
<1>1. /\ Settings /\ World \in Good /\ World.known = known /\ win \in Configs
      /\ win.servers \in Seq(Server) /\ win.ignore \in Table(Nicks, SUBSET Kinds)
      /\ known.servers \in Seq(Server)
      /\ NamesOf(known.servers) \ {NoName} \subseteq NamesOf(win.servers)
      /\ NamesOf(win.servers) \subseteq NamesOf(known.servers)
      /\ win.ignore = known.ignore
  <2>1. World \in Good /\ World.known = known
    BY WorldParts DEF SInv
  <2>2. known.servers \in Seq(Server)
    BY <2>1, WorldHas
  <2>3. QED
    BY <2>1, <2>2 DEF SInv, Settings, Configs, NamesAgree
<1>2. ASSUME NEW n \in Ids, AddServerDialog(n)
      PROVE  Kept
  <2>1. PICK off \in BOOLEAN :
          /\ win' = [win EXCEPT !.servers = Append(@, NewServer(n, off))]
          /\ Becomes(AddServer(World, NewServer(n, off)))
    BY <1>2 DEF AddServerDialog
  <2> DEFINE e == NewServer(n, off)
             x == AddServer(World, e)
             more == Append(win.servers, e)
  <2>2. e \in Server /\ e.name = n
    BY NewServerIs DEF NewServer
  <2>3. BeginSave(win') /\ UNCHANGED <<dialog, prompt>>
    BY <1>2 DEF AddServerDialog
  <2>4. win' = [win EXCEPT !.servers = more] /\ Becomes(x)
    BY <2>1
  <2> HIDE DEF e
  <2>5. more \in Seq(Server) /\ Entries(more) = Entries(win.servers) \cup {e}
    BY <1>1, <2>2, AppendIs
  <2> HIDE DEF more
  <2>6. win' \in Configs /\ win'.servers = more /\ win'.ignore = win.ignore
    BY <1>1, <2>4, <2>5 DEF Configs
  <2>7. /\ x \in Good /\ x.known.ignore = known.ignore
        /\ Entries(x.known.servers) = Entries(known.servers) \cup {e}
    BY <1>1, <2>2, Added
  <2> HIDE DEF x
  <2>8. World' \in Good /\ known' = x.known
    BY <2>4, <2>7, BecomesIs
  <2>9. /\ x.known.servers \in Seq(Server)
        /\ NamesOf(x.known.servers) = {f.name : f \in Entries(x.known.servers)}
        /\ NamesOf(known.servers) = {f.name : f \in Entries(known.servers)}
        /\ NamesOf(win.servers) = {f.name : f \in Entries(win.servers)}
        /\ NamesOf(more) = {f.name : f \in Entries(more)}
    BY <1>1, <2>5, <2>7, WorldHas, ListHas
  <2>10. /\ NamesOf(more) = NamesOf(win.servers) \cup {n}
         /\ NamesOf(x.known.servers) = NamesOf(known.servers) \cup {n}
    BY <2>2, <2>5, <2>7, <2>9
  <2>11. NamesAgree'
    BY <1>1, <2>6, <2>7, <2>8, <2>10 DEF NamesAgree
  <2>12. ASSUME SameRevisions(win.servers, known.servers), Distinct(more)
         PROVE  SameRevisions(more, x.known.servers)
    <3> SUFFICES ASSUME NEW f \in Entries(more), NEW g \in Entries(x.known.servers), f.name = g.name
                 PROVE  f.rev = g.rev
      BY SameEntries
    <3>1. n # NoName /\ \A h \in Entries(win.servers) : h.name = n => h = e
      BY <2>2, <2>5, <2>12, DistinctEntries
    <3>2. CASE f \in Entries(win.servers) /\ g \in Entries(known.servers)
      BY <2>12, <3>2, SameEntries
    <3>3. CASE f = e /\ g \in Entries(known.servers)
      <4>1. n \in NamesOf(known.servers)
        BY <2>2, <2>9, <3>3
      <4>2. n \in NamesOf(win.servers)
        BY <1>1, <3>1, <4>1
      <4>3. e \in Entries(win.servers)
        BY <2>9, <3>1, <4>2
      <4>4. QED
        BY <2>12, <3>3, <4>3, SameEntries
    <3>4. CASE f \in Entries(win.servers) /\ g = e
      BY <2>2, <3>1, <3>4
    <3>5. QED
      BY <2>5, <2>7, <3>2, <3>3, <3>4
  <2>13. RevisionsKept
    BY <2>6, <2>8, <2>12 DEF RevisionsKept
  <2>14. Settings'
    BY <1>1, <2>3, <2>6, SaveKeeps DEF Settings
  <2>15. QED
    BY <2>8, <2>11, <2>13, <2>14 DEF SInv, Kept
<1>3. CASE AcceptManage
  <2>1. PICK updated \in Edits(dialog[1]) :
          /\ win' = [win EXCEPT !.servers = updated]
          /\ Becomes(Managed(World, win.servers, updated))
    BY <1>3 DEF AcceptManage
  <2>2. dialog[1] \in Seq(Server) /\ <<>> \in Seq(Seq(Server))
    BY <1>1, <1>3 DEF AcceptManage, Settings
  <2>3. updated \in Seq(Server)
    BY <2>2, EditsAre
  <2> DEFINE x == Managed(World, win.servers, updated)
  <2>4. /\ x \in Good /\ x.known.ignore = known.ignore
        /\ NamesOf(x.known.servers) \ {NoName} \subseteq NamesOf(updated)
        /\ NamesOf(updated) \subseteq NamesOf(x.known.servers)
        /\ SameRevisions(win.servers, known.servers) /\ Distinct(updated)
           => SameRevisions(updated, x.known.servers)
    BY <2>3, ManagedIs
  <2>5. Becomes(x) /\ BeginSave(win') /\ dialog' = <<>> /\ prompt' = prompt
    BY <1>3, <2>1 DEF AcceptManage
  <2> HIDE DEF x
  <2>6. World' \in Good /\ known' = x.known
    BY <2>4, <2>5, BecomesIs
  <2>7. win' \in Configs /\ win'.servers = updated /\ win'.ignore = win.ignore
    BY <1>1, <2>1, <2>3 DEF Configs
  <2>8. NamesAgree'
    BY <1>1, <2>4, <2>6, <2>7 DEF NamesAgree
  <2>9. RevisionsKept
    BY <2>4, <2>6, <2>7 DEF RevisionsKept
  <2>10. Settings'
    BY <1>1, <2>2, <2>5, <2>7, SaveKeeps DEF Settings
  <2>11. QED
    BY <2>6, <2>8, <2>9, <2>10 DEF SInv, Kept
<1>4. CASE Reload
  <2> DEFINE fresh == Read(file).servers
             list == ListAfter(fresh)
             x == WorldAfter(fresh)
  <2>1. /\ win' = [win EXCEPT !.servers = list]
        /\ Becomes(x) /\ store' = [store EXCEPT !.reload = FALSE]
        /\ UNCHANGED <<file, dialog, prompt>>
    BY <1>4 DEF Reload, NewIn, GoneFrom, ListAfter, WorldAfter
  <2>2. fresh \in Seq(Server)
    BY <1>1, ReadIs DEF Configs
  <2> HIDE DEF fresh
  <2>3. /\ list \in Seq(Server) /\ x \in Good /\ x.known.ignore = known.ignore
        /\ NamesOf(x.known.servers) \ {NoName} \subseteq NamesOf(list)
        /\ NamesOf(list) \subseteq NamesOf(x.known.servers)
        /\ SameRevisions(win.servers, known.servers) /\ Distinct(list)
           => SameRevisions(list, x.known.servers)
    BY <2>2, ReloadedIs
  <2> HIDE DEF list, x
  <2>4. World' \in Good /\ known' = x.known
    BY <2>1, <2>3, BecomesIs
  <2>5. win' \in Configs /\ win'.servers = list /\ win'.ignore = win.ignore
    BY <1>1, <2>1, <2>3 DEF Configs
  <2>6. NamesAgree'
    BY <1>1, <2>3, <2>4, <2>5 DEF NamesAgree
  <2>7. RevisionsKept
    BY <2>3, <2>4, <2>5 DEF RevisionsKept
  <2>8. Settings'
    BY <1>1, <2>1, <2>5 DEF Settings
  <2>9. QED
    BY <2>4, <2>6, <2>7, <2>8 DEF SInv, Kept
<1>5. CASE Restart
  <2> DEFINE f == Read(file)
             x == Loaded(f)
  <2>1. win' = f /\ Becomes(x) /\ store' = Idle /\ UNCHANGED <<file, dialog, prompt>>
    BY <1>5 DEF Restart
  <2>2. f \in Configs
    BY <1>1, ReadIs
  <2>3. x \in Good /\ x.known = f
    BY <2>2, LoadedIs
  <2> HIDE DEF f, x
  <2>4. World' \in Good /\ known' = f
    BY <2>1, <2>3, BecomesIs
  <2>5. NamesAgree'
    BY <2>1, <2>4 DEF NamesAgree
  <2>6. RevisionsKept
    <3>1. Distinct(f.servers) => SameRevisions(f.servers, f.servers)
      BY DEF Distinct, SameRevisions
    <3>2. QED
      BY <2>1, <2>4, <3>1 DEF RevisionsKept
  <2>7. store' \in [saving : BOOLEAN, notice : BOOLEAN, reload : BOOLEAN, draft : Seq(Configs)]
    <3>1. <<>> \in Seq(Configs)
      OBVIOUS
    <3>2. QED
      BY <2>1, <3>1 DEF Idle
  <2>8. Settings'
    BY <1>1, <2>1, <2>2, <2>7 DEF Settings
  <2>9. QED
    BY <2>4, <2>5, <2>6, <2>8 DEF SInv, Kept
<1>6. QED
  BY <1>2, <1>3, <1>4, <1>5

\* A pinned server stays what it was otherwise.
LEMMA PinnedIs ==
  ASSUME NEW list \in Seq(Server), NEW n
  PROVE  /\ Pinned(list, n) \in Seq(Server)
         /\ DOMAIN Pinned(list, n) = DOMAIN list
         /\ \A i \in DOMAIN list : /\ Pinned(list, n)[i].name = list[i].name
                                   /\ Pinned(list, n)[i].rev = list[i].rev
<1>1. CASE Named(list, n) = {}
  BY <1>1 DEF Pinned
<1>2. CASE Named(list, n) # {}
  <2> DEFINE k == FirstNamed(list, n)
             old == list[k]
             sc == [old EXCEPT !.pin = TRUE]
             next == [list EXCEPT ![k] = sc]
  <2>1. k \in DOMAIN list
    BY <1>2, FirstNamedIs
  <2>2. Pinned(list, n) = next
    BY <1>2 DEF Pinned
  <2> HIDE DEF k
  <2>3. old \in Server
    BY <2>1
  <2>4. sc \in Server /\ sc.name = old.name /\ sc.rev = old.rev
    BY <2>3 DEF Server
  <2> HIDE DEF sc
  <2>5. next \in Seq(Server) /\ DOMAIN next = DOMAIN list
    BY <2>1, <2>4
  <2>6. \A i \in DOMAIN list : next[i] = IF i = k THEN sc ELSE list[i]
    BY <2>1
  <2> HIDE DEF next
  <2>7. QED
    BY <2>2, <2>4, <2>5, <2>6
<1>3. QED
  BY <1>1, <1>2

\* The known configuration of a world changes.
LEMMA KnownIs ==
  ASSUME NEW w \in Good,
         NEW k \in [servers : Seq(Server), ignore : Table(Nicks, SUBSET Kinds)]
  PROVE  [w EXCEPT !.known = k] \in Good /\ [w EXCEPT !.known = k].known = k
BY DEF Good, Worlds

\* The certificate prompt is answered: for good, once, or not at all.
LEMMA PromptStep ==
  ASSUME SInv, AnswerPrompt
  PROVE  Kept
<1>1. /\ Settings /\ World \in Good /\ win \in Configs
      /\ known \in [servers : Seq(Server), ignore : Table(Nicks, SUBSET Kinds)]
      /\ known.servers \in Seq(Server)
      /\ win.ignore = known.ignore
  <2>1. World \in Good
    BY DEF SInv
  <2>2. known \in [servers : Seq(Server), ignore : Table(Nicks, SUBSET Kinds)]
    BY <2>1, WorldHas, WorldParts, Zenon
  <2>3. QED
    BY <2>1, <2>2 DEF SInv, Settings, NamesAgree
<1>2. prompt \in Ids /\ prompt' = None /\ UNCHANGED <<win, dialog>>
  BY <1>1 DEF AnswerPrompt, Settings
<1>3. ASSUME UNCHANGED <<file, store>>
      PROVE  Settings'
  BY <1>1, <1>2, <1>3 DEF Settings
<1>4. CASE /\ Becomes(AcceptedFor([World EXCEPT !.known.servers = Pinned(@, prompt)], prompt))
           /\ IF prompt \in NamesOf(Read(file).servers)
              THEN Save([Read(file) EXCEPT !.servers = Pinned(@, prompt)])
              ELSE UNCHANGED <<file, store>>
  <2> DEFINE list == Pinned(known.servers, prompt)
             k == [known EXCEPT !.servers = list]
             w == [World EXCEPT !.known = k]
             x == AcceptedFor(w, prompt)
  <2>1. [World EXCEPT !.known.servers = Pinned(@, prompt)] = w
    BY WorldParts
  <2>2. /\ list \in Seq(Server) /\ DOMAIN list = DOMAIN known.servers
        /\ \A i \in DOMAIN known.servers : /\ list[i].name = known.servers[i].name
                                           /\ list[i].rev = known.servers[i].rev
    BY <1>1, PinnedIs
  <2> HIDE DEF list
  <2>3. /\ k \in [servers : Seq(Server), ignore : Table(Nicks, SUBSET Kinds)]
        /\ k.servers = list /\ k.ignore = known.ignore
    BY <1>1, <2>2
  <2> HIDE DEF k
  <2>4. w \in Good /\ w.known = k
    BY <1>1, <2>3, KnownIs
  <2>5. Becomes(x)
    BY <1>4, <2>1
  <2> HIDE DEF w
  <2>6. x \in Good /\ x.known = k
    BY <1>2, <2>4, AcceptedIs
  <2> HIDE DEF x
  <2>7. World' \in Good /\ known' = k
    BY <2>5, <2>6, BecomesIs
  <2>8. NamesAgree' /\ RevisionsKept
    <3>1. NamesOf(list) = NamesOf(known.servers)
      BY <2>2 DEF NamesOf
    <3>2. NamesAgree'
      BY <1>1, <1>2, <2>3, <2>7, <3>1 DEF SInv, NamesAgree
    <3>3. SameRevisions(win.servers, known.servers) => SameRevisions(win.servers, list)
      BY <2>2 DEF SameRevisions
    <3>4. QED
      BY <1>2, <2>3, <2>7, <3>2, <3>3 DEF RevisionsKept
  <2>9. Settings'
    <3>1. CASE prompt \notin NamesOf(Read(file).servers)
      BY <1>3, <1>4, <3>1
    <3>2. CASE prompt \in NamesOf(Read(file).servers)
      <4> DEFINE r == Read(file)
                 c == [r EXCEPT !.servers = Pinned(r.servers, prompt)]
      <4>1. r \in Configs
        BY <1>1, ReadIs
      <4>2. Save(c)
        BY <1>4, <3>2
      <4> HIDE DEF r
      <4>3. Pinned(r.servers, prompt) \in Seq(Server)
        BY <4>1, PinnedIs DEF Configs
      <4>4. c \in Configs
        BY <4>1, <4>3 DEF Configs
      <4> HIDE DEF c
      <4>5. QED
        BY <1>1, <1>2, <4>2, <4>4, SaveKeeps DEF Settings
    <3>3. QED
      BY <3>1, <3>2
  <2>10. QED
    BY <2>7, <2>8, <2>9 DEF SInv, Kept
<1>5. CASE Becomes(AcceptedFor(World, prompt)) /\ UNCHANGED <<file, store>>
  <2> DEFINE x == AcceptedFor(World, prompt)
  <2>1. x \in Good /\ x.known = known
    BY <1>1, <1>2, AcceptedIs, WorldParts
  <2>2. Becomes(x)
    BY <1>5
  <2> HIDE DEF x
  <2>3. World' \in Good /\ known' = known
    BY <2>1, <2>2, BecomesIs
  <2>4. NamesAgree' /\ RevisionsKept
    BY <1>1, <1>2, <2>3, SameLists
  <2>5. QED
    BY <1>3, <1>5, <2>3, <2>4 DEF SInv, Kept
<1>6. CASE UNCHANGED <<world, file, store>>
  <2>1. known' = known /\ World' = World
    BY <1>6 DEF world, World
  <2>2. NamesAgree' /\ RevisionsKept
    BY <1>1, <1>2, <2>1, SameLists
  <2>3. QED
    BY <1>1, <1>3, <1>6, <2>1, <2>2 DEF SInv, Kept
<1>7. QED
  BY <1>4, <1>5, <1>6 DEF AnswerPrompt

\* The ignore list becomes another, in the window and in the session model.
LEMMA IgnoreChanges ==
  ASSUME SInv, NEW list \in Table(Nicks, SUBSET Kinds), SetIgnore(list),
         known' = [known EXCEPT !.ignore = list],
         Save(win') \/ SaveConfig(win')
  PROVE  Kept
<1>1. /\ Settings /\ World \in Good /\ win \in Configs
      /\ known \in [servers : Seq(Server), ignore : Table(Nicks, SUBSET Kinds)]
  <2>1. World \in Good
    BY DEF SInv
  <2>2. known \in [servers : Seq(Server), ignore : Table(Nicks, SUBSET Kinds)]
    BY <2>1, WorldHas, WorldParts, Zenon
  <2>3. QED
    BY <2>1, <2>2 DEF SInv, Settings
<1>2. /\ win' = [win EXCEPT !.ignore = list]
      /\ UNCHANGED <<sessions, clients, ui, dialog, prompt>>
  BY DEF SetIgnore
<1>3. win' \in Configs /\ win'.servers = win.servers /\ win'.ignore = list
  BY <1>1, <1>2 DEF Configs
<1>4. /\ known' \in [servers : Seq(Server), ignore : Table(Nicks, SUBSET Kinds)]
      /\ known'.servers = known.servers /\ known'.ignore = list
  BY <1>1
<1>5. World' = [World EXCEPT !.known = known']
  BY <1>2 DEF World
<1>6. World' \in Good
  BY <1>1, <1>4, <1>5, KnownIs
<1>7. NamesAgree' /\ RevisionsKept
  BY <1>3, <1>4, SameLists
<1>8. Settings'
  BY <1>1, <1>2, <1>3, SaveKeeps DEF Settings
<1>9. QED
  BY <1>6, <1>7, <1>8 DEF SInv, Kept

\* Commands, the menu and the dialog make the same of both lists, as long as
\* these are the same.
LEMMA IgnoreStep ==
  ASSUME SInv,
         \/ \E x \in Nicks : \/ \E kinds \in SUBSET Kinds : Ignore(x, kinds)
                             \/ \E kind \in Kinds : TickIgnore(x, kind)
                             \/ Unignore(x)
         \/ \E list \in IgnoreLists : IgnoreDialog(list)
  PROVE  Kept
<1>1. /\ win.ignore \in Table(Nicks, SUBSET Kinds) /\ win.ignore = known.ignore
  BY DEF SInv, Settings, Configs, NamesAgree
<1>2. ASSUME NEW x \in Nicks, NEW kinds \in SUBSET Kinds, Ignore(x, kinds)
      PROVE  Kept
  <2> DEFINE list == With(win.ignore, x, IF kinds = {} THEN Kinds ELSE kinds)
  <2>1. SetIgnore(list) /\ known' = [known EXCEPT !.ignore = list] /\ Save(win')
    BY <1>1, <1>2 DEF Ignore
  <2>2. list \in Table(Nicks, SUBSET Kinds)
    BY <1>1, WithIs
  <2> HIDE DEF list
  <2>3. QED
    BY <2>1, <2>2, IgnoreChanges
<1>3. ASSUME NEW x \in Nicks, Unignore(x)
      PROVE  Kept
  <2> DEFINE list == Without(win.ignore, x)
  <2>1. SetIgnore(list) /\ known' = [known EXCEPT !.ignore = list] /\ Save(win')
    BY <1>1, <1>3 DEF Unignore
  <2>2. list \in Table(Nicks, SUBSET Kinds)
    BY <1>1, WithoutIs
  <2> HIDE DEF list
  <2>3. QED
    BY <2>1, <2>2, IgnoreChanges
<1>4. ASSUME NEW x \in Nicks, NEW kind \in Kinds, TickIgnore(x, kind)
      PROVE  Kept
  <2> DEFINE was == FlagsOf(known.ignore, x)
             kinds == IF kind \in was THEN was \ {kind} ELSE was \cup {kind}
             list == IF kinds = {} THEN Without(win.ignore, x) ELSE With(win.ignore, x, kinds)
  <2>1. SetIgnore(list) /\ known' = [known EXCEPT !.ignore = list] /\ SaveConfig(win')
    BY <1>1, <1>4 DEF TickIgnore, Ticked
  <2>2. was \in SUBSET Kinds
    BY <1>1, TableHas DEF FlagsOf
  <2> HIDE DEF was
  <2>3. kinds \in SUBSET Kinds
    BY <2>2
  <2> HIDE DEF kinds
  <2>4. list \in Table(Nicks, SUBSET Kinds)
    <3>1. CASE kinds = {}
      BY <1>1, <3>1, WithoutIs
    <3>2. CASE kinds # {}
      BY <1>1, <2>3, <3>2, WithIs
    <3>3. QED
      BY <3>1, <3>2
  <2> HIDE DEF list
  <2>5. QED
    BY <2>1, <2>4, IgnoreChanges
<1>5. ASSUME NEW list \in IgnoreLists, IgnoreDialog(list)
      PROVE  Kept
  <2> DEFINE both == [x \in (DOMAIN known.ignore \ DOMAIN win.ignore) \cup DOMAIN list |->
                        IF x \in DOMAIN list THEN list[x] ELSE known.ignore[x]]
  <2>1. SetIgnore(list) /\ known' = [known EXCEPT !.ignore = both] /\ SaveConfig(win')
    BY <1>5 DEF IgnoreDialog
  <2>2. PICK S \in SUBSET Nicks : list \in [S -> (SUBSET Kinds) \ {{}}]
    BY DEF IgnoreLists
  <2>3. list \in [S -> SUBSET Kinds]
    BY <2>2
  <2>4. list \in Table(Nicks, SUBSET Kinds)
    BY <2>3, IsTable
  <2>5. both = list
    BY <1>1, <2>3
  <2> HIDE DEF both
  <2>6. QED
    BY <2>1, <2>4, <2>5, IgnoreChanges
<1>6. QED
  BY <1>2, <1>3, <1>4, <1>5

\* Every step.
LEMMA StepInv == SInv /\ [Next]_vars => Kept
<1> SUFFICES ASSUME SInv, [Next]_vars
             PROVE  Kept
  OBVIOUS
<1>1. ASSUME Settings', win' = win, known' = known, World' \in Good
      PROVE  Kept
  <2>1. win.ignore = known.ignore
    BY DEF SInv, NamesAgree
  <2>2. NamesAgree' /\ RevisionsKept
    BY <1>1, <2>1, SameLists
  <2>3. QED
    BY <1>1, <2>2 DEF SInv, Kept
<1>2. Settings /\ World \in Good
  BY DEF SInv
<1>3. ASSUME Settings', UNCHANGED <<win, world>>
      PROVE  Kept
  <2>1. known' = known /\ World' = World
    BY <1>3 DEF world, World
  <2>2. QED
    BY <1>1, <1>2, <1>3, <2>1
<1>4. CASE \/ OpenManage \/ CancelManage \/ EditFile \/ Notice \/ GuardEnds \/ EndSave
           \/ Sysinfo \/ RunScript
           \/ \E j \in DOMAIN jobs : ThreadEnds(j) \/ JobAnswer(j) \/ SysinfoTimeout(j)
  BY <1>2, <1>3, <1>4, QuietStep
<1>5. CASE \E i \in DOMAIN clients : \/ KeychainAnswer(i) \/ LinkUp(i) \/ LinkDown(i)
                                     \/ CertificatePrompt(i)
  BY <1>1, <1>5, LinkStep
<1>6. CASE \/ \E n \in Ids : Connect(n) \/ Close(n) \/ Quit(n) \/ TogglePane(n)
           \/ \E t \in Targets : ConnectTo(t)
  BY <1>6, UserLinkStep
<1>7. CASE \/ \E n \in Ids : AddServerDialog(n)
           \/ AcceptManage \/ Reload \/ Restart
  BY <1>7, ConfigStep
<1>8. CASE AnswerPrompt
  BY <1>8, PromptStep
<1>9. CASE \/ \E x \in Nicks : \/ \E kinds \in SUBSET Kinds : Ignore(x, kinds)
                               \/ \E kind \in Kinds : TickIgnore(x, kind)
                               \/ Unignore(x)
           \/ \E list \in IgnoreLists : IgnoreDialog(list)
  BY <1>9, IgnoreStep
<1>10. CASE UNCHANGED vars
  <2>1. UNCHANGED <<win, file, store, world, dialog, prompt>>
    BY <1>10 DEF vars
  <2>2. Settings'
    BY <1>2, <2>1 DEF Settings
  <2>3. QED
    BY <1>3, <2>1, <2>2
<1>11. QED
  BY <1>4, <1>5, <1>6, <1>7, <1>8, <1>9, <1>10 DEF Next, UserDoes

LEMMA InitInv == Init => SInv
<1> SUFFICES ASSUME Init
             PROVE  SInv
  OBVIOUS
<1>1. First \in Configs
  BY FirstIs
<1> DEFINE x == Loaded(First)
<1>2. x \in Good /\ x.known = First
  BY <1>1, LoadedIs
<1>3. /\ win = First /\ file = Written(First) /\ store = Idle /\ dialog = <<>> /\ prompt = None
      /\ known = x.known /\ sessions = x.sessions /\ clients = x.clients /\ ui = x.ui
  BY DEF Init
<1> HIDE DEF x
<1>4. World \in Good
  BY <1>2, <1>3, WorldHas, WorldIs DEF World
<1>5. Settings
  <2>1. <<>> \in Seq(Configs) /\ <<>> \in Seq(Seq(Server))
    OBVIOUS
  <2>2. QED
    BY <1>1, <1>3, <2>1, WrittenIs DEF Settings, Idle
<1>6. NamesAgree
  BY <1>2, <1>3 DEF NamesAgree
<1>7. QED
  BY <1>4, <1>5, <1>6 DEF SInv

\* A worker starts, with nothing told yet.
LEMMA JobStarts ==
  ASSUME JobsOK, NEW kind \in {"sysinfo", "script"}, jobs' = Append(jobs, Job(kind))
  PROVE  JobsOK'
<1>1. Job(kind) \in Workers
  BY DEF Job, Workers, JobFields, ToldDuly
<1>2. QED
  BY <1>1 DEF JobsOK

\* Its thread ends, its answer is handled, its time is up.
LEMMA WorkerStep ==
  ASSUME JobsOK, NEW j \in DOMAIN jobs, ThreadEnds(j) \/ JobAnswer(j) \/ SysinfoTimeout(j)
  PROVE  JobsOK'
<1> DEFINE job == jobs[j]
<1>1. job \in JobFields /\ ToldDuly(job)
  BY DEF JobsOK, Workers
<1>2. ASSUME NEW next \in JobFields, ToldDuly(next), jobs' = [jobs EXCEPT ![j] = next]
      PROVE  JobsOK'
  <2>1. next \in Workers
    BY <1>2 DEF Workers
  <2>2. QED
    BY <1>2, <2>1 DEF JobsOK
<1>3. CASE ThreadEnds(j)
  <2>1. jobs' = [jobs EXCEPT ![j] = [job EXCEPT !.thread = "posted"]] /\ job.thread = "running"
    BY <1>3 DEF ThreadEnds
  <2> HIDE DEF job
  <2> DEFINE next == [job EXCEPT !.thread = "posted"]
  <2>2. next \in JobFields /\ ToldDuly(next)
    BY <1>1, <2>1 DEF JobFields, ToldDuly
  <2> HIDE DEF next
  <2>3. QED
    BY <1>2, <2>1, <2>2 DEF next
<1>4. CASE JobAnswer(j)
  <2>1. jobs' = [jobs EXCEPT ![j] = AnsweredJob(job)] /\ job.thread = "posted"
    BY <1>4 DEF JobAnswer
  <2> HIDE DEF job
  <2> DEFINE told == IF job.aborted THEN job.told ELSE job.told + 1
  <2>2. told = 1
    BY <1>1, <2>1 DEF JobFields, ToldDuly
  <2> DEFINE next == [job EXCEPT !.thread = "done", !.timer = FALSE, !.told = 1]
  <2>3. AnsweredJob(job) = next
    BY <2>2 DEF AnsweredJob
  <2>4. next \in JobFields /\ ToldDuly(next)
    BY <1>1 DEF JobFields, ToldDuly
  <2> HIDE DEF next
  <2>5. QED
    BY <1>2, <2>1, <2>3, <2>4
<1>5. CASE SysinfoTimeout(j)
  <2>1. /\ jobs' = [jobs EXCEPT ![j] = [job EXCEPT !.timer = FALSE, !.aborted = TRUE,
                                                  !.told = @ + 1]]
        /\ job.timer
    BY <1>5 DEF SysinfoTimeout
  <2> HIDE DEF job
  <2> DEFINE next == [job EXCEPT !.timer = FALSE, !.aborted = TRUE, !.told = 1]
  <2>2. job.told + 1 = 1
    BY <1>1, <2>1 DEF JobFields, ToldDuly
  <2>3. next \in JobFields /\ ToldDuly(next)
    BY <1>1, <2>1 DEF JobFields, ToldDuly
  <2> HIDE DEF next
  <2>4. QED
    BY <1>2, <2>1, <2>2, <2>3 DEF next
<1>6. QED
  BY <1>3, <1>4, <1>5

\* What the user does starts a worker, ends all of them, or leaves them alone.
LEMMA UserJobs ==
  ASSUME UserDoes
  PROVE  \/ jobs' = jobs
         \/ jobs' = <<>>
         \/ \E kind \in {"sysinfo", "script"} : jobs' = Append(jobs, Job(kind))
BY DEF UserDoes, AddServerDialog, OpenManage, EditFile, Sysinfo, RunScript, Restart, Connect,
       Close, Quit, TogglePane, ConnectTo, Ignore, TickIgnore, Unignore, IgnoreDialog,
       SetIgnore, work

LEMMA OtherJobs ==
  ASSUME \/ AcceptManage \/ CancelManage \/ AnswerPrompt
         \/ Reload \/ Notice \/ GuardEnds \/ EndSave
         \/ \E i \in DOMAIN clients : \/ KeychainAnswer(i) \/ LinkUp(i) \/ LinkDown(i)
                                      \/ CertificatePrompt(i)
  PROVE  jobs' = jobs
BY DEF AcceptManage, CancelManage, AnswerPrompt, Reload, Notice, GuardEnds, EndSave,
       KeychainAnswer, LinkUp, LinkDown, CertificatePrompt, work

LEMMA JobsStep == JobsOK /\ [Next]_vars => JobsOK'
<1> SUFFICES ASSUME JobsOK, [Next]_vars
             PROVE  JobsOK'
  OBVIOUS
<1>1. ASSUME jobs' = jobs
      PROVE  JobsOK'
  BY <1>1 DEF JobsOK
<1>2. CASE UserDoes
  <2>1. CASE jobs' = <<>>
    BY <2>1, EmptySeq DEF JobsOK
  <2>2. QED
    BY <1>1, <1>2, <2>1, UserJobs, JobStarts
<1>3. CASE \E j \in DOMAIN jobs : ThreadEnds(j) \/ JobAnswer(j) \/ SysinfoTimeout(j)
  BY <1>3, WorkerStep
<1>4. CASE \/ AcceptManage \/ CancelManage \/ AnswerPrompt
           \/ Reload \/ Notice \/ GuardEnds \/ EndSave
           \/ \E i \in DOMAIN clients : \/ KeychainAnswer(i) \/ LinkUp(i) \/ LinkDown(i)
                                        \/ CertificatePrompt(i)
  BY <1>1, <1>4, OtherJobs
<1>5. CASE UNCHANGED vars
  BY <1>1, <1>5 DEF vars, work
<1>6. QED
  BY <1>2, <1>3, <1>4, <1>5 DEF Next

LEMMA Invariant == Spec => [](SInv /\ JobsOK)
<1>1. Init => JobsOK
  BY EmptySeq DEF Init, JobsOK
<1>2. SInv /\ [Next]_vars => SInv'
  BY StepInv DEF Kept
<1>3. QED
  BY <1>1, <1>2, InitInv, JobsStep, PTL DEF Spec

\* The answer of /sysinfo or a script, which its thread posts, and the timer of
\* /sysinfo, which the event loop runs, race each other; whatever comes first,
\* and however many workers run, the user is told once.
THEOREM WorkersToldOnce == Spec => []ToldOnce
<1>1. Init => JobsOK
  BY EmptySeq DEF Init, JobsOK
<1>2. JobsOK => ToldOnce
  <2> SUFFICES ASSUME JobsOK, NEW j \in DOMAIN jobs
               PROVE  jobs[j].told <= 1 /\ (jobs[j].thread = "done" => jobs[j].told = 1)
    BY DEF ToldOnce
  <2>1. QED
    <3>1. jobs[j] \in JobFields /\ ToldDuly(jobs[j])
      BY DEF JobsOK, Workers
    <3>2. QED
      BY <3>1 DEF JobFields, ToldDuly
<1>3. QED
  BY <1>1, <1>2, JobsStep, PTL DEF Spec

\* Dialogs, the nick's menu, commands, the certificate prompt and reloads of
\* the file change the window's servers and ignored nicks and the session
\* model's copy of them side by side, some of them from a list that has gone
\* stale meanwhile.  Whatever names the user gives, the copies keep servers of
\* the same names, apart from those connected to ad hoc, and the same ignored
\* nicks; and only a list with a missing or repeated name makes revisions
\* differ.
THEOREM CopiesStayAgreed == Spec => CopiesAgree
<1>1. SInv /\ [Next]_vars =>
        /\ NamesAgree'
        /\ SameRevisions(win.servers, known.servers) /\ Distinct(win'.servers)
           => SameRevisions(win'.servers, known'.servers)
  BY StepInv DEF Kept, SInv, RevisionsKept
<1>2. QED
  BY <1>1, Invariant, PTL DEF Spec, CopiesAgree

\* However servers come, go and are replaced, and whatever their links and the
\* keychain do meanwhile: every session has a row, a row shows the connected
\* icon exactly if its session is connected, a pane's server has a session, no
\* client connects while a password is still asked for, and every collection
\* and script is answered once.
THEOREM ServersSound == Spec => []ServersInv
<1>1. SInv /\ JobsOK => TypeOK
  <2> SUFFICES ASSUME SInv, JobsOK
               PROVE  TypeOK
    OBVIOUS
  <2>1. /\ Settings /\ World \in Good
        /\ known \in [servers : Seq(Server), ignore : Table(Nicks, SUBSET Kinds)]
        /\ sessions \in [Ids -> Seq({"up", "down"})] /\ clients \in Seq(Clients)
        /\ Shown(sessions, ui)
    BY WorldHas, WorldParts, Zenon DEF SInv
  <2>2. \A list \in Seq(Server) : IsList(list)
    BY DEF IsList, Server
  <2>3. \A f \in Table(Nicks, SUBSET Kinds) : IsIgnoreList(f)
    BY TableHas DEF IsIgnoreList
  <2>4. Read(file) \in Configs /\ win \in Configs
    BY <2>1, ReadIs DEF Settings
  <2>5. \A c \in {win, Read(file), known} : IsList(c.servers) /\ IsIgnoreList(c.ignore)
    BY <2>1, <2>2, <2>3, <2>4 DEF Configs
  <2>6. \A i \in DOMAIN clients : IsClient(clients[i])
    <3> SUFFICES ASSUME NEW i \in DOMAIN clients
                 PROVE  IsClient(clients[i])
      OBVIOUS
    <3>1. clients[i] \in Clients
      BY <2>1
    <3>2. QED
      BY <3>1 DEF Clients, IsClient
  <2>7. \A i \in DOMAIN dialog : IsList(dialog[i])
    BY <2>1, <2>2 DEF Settings
  <2>8. \A j \in DOMAIN jobs : jobs[j].told \in 0 .. 2
    <3> SUFFICES ASSUME NEW j \in DOMAIN jobs
                 PROVE  jobs[j].told \in 0 .. 2
      OBVIOUS
    <3>1. jobs[j] \in JobFields /\ ToldDuly(jobs[j])
      BY DEF JobsOK, Workers
    <3>2. QED
      BY <3>1 DEF JobFields, ToldDuly
  <2>9. /\ file.ok \in BOOLEAN /\ store.saving \in BOOLEAN
        /\ store.notice \in BOOLEAN /\ store.reload \in BOOLEAN
    BY <2>1 DEF Settings
  <2>10. prompt \in Names \cup {NoName, None} /\ ui.icons \subseteq ui.rows
    BY <2>1 DEF Settings, Ids, Shown
  <2>11. QED
    BY <2>1, <2>5, <2>6, <2>7, <2>8, <2>9, <2>10 DEF TypeOK
<1>2. SInv => ViewsFollow /\ PasswordsFirst
  <2> SUFFICES ASSUME SInv
               PROVE  ViewsFollow /\ PasswordsFirst
    OBVIOUS
  <2>1. /\ sessions \in [Ids -> Seq({"up", "down"})] /\ clients \in Seq(Clients)
        /\ ui \in [rows : SUBSET Ids, icons : SUBSET Ids, panes : SUBSET Ids]
        /\ Shown(sessions, ui)
    BY WorldHas, WorldParts, Zenon DEF SInv
  <2>2. \A n \in Ids : HasSession(World, n) <=> sessions[n] # <<>>
    BY <2>1, WorldParts DEF HasSession
  <2>3. ViewsFollow
    BY <2>1, <2>2 DEF ViewsFollow, Shown
  <2>4. ASSUME NEW i \in DOMAIN clients
        PROVE  clients[i].phase # "resolving" => clients[i].pending = {}
    <3>1. clients[i] \in Clients
      BY <2>1
    <3>2. QED
      BY <3>1 DEF Clients
  <2>5. QED
    BY <2>3, <2>4 DEF PasswordsFirst
<1>3. SInv /\ JobsOK /\ ToldOnce => ServersInv
  BY <1>1, <1>2 DEF ServersInv
<1>4. QED
  BY <1>3, Invariant, WorkersToldOnce, PTL
=============================================================================
