------------------------------ MODULE NickList ------------------------------
(***************************************************************************)
(* The nick list of a channel: Channel::nicks, sorted by the highest       *)
(* prefix held and then by nick, and Channel::nickIndex, which finds a     *)
(* nick's place in it (src/src/model/channel.h).  The operations keep the  *)
(* index by hand, from the place they touched or all of it.                *)
(*                                                                         *)
(* Nicks are numbers, in the order case-insensitive comparison gives them. *)
(* A prefix is its rank, 1 (voice) to 5 (owner).                           *)
(***************************************************************************)
EXTENDS Integers, Sequences, FiniteSets, SequencesExt

CONSTANTS
  Nicks,     \* the nicks of the network
  Ranks,     \* the ranks of the prefixes the server has, a subset of 1..5
  Words      \* the keys, limits and masks of modes; one may be a nick too

ASSUME NickAssumption ==
  /\ Nicks \subseteq Nat /\ Nicks # {} /\ IsFiniteSet(Nicks)
  /\ Ranks \subseteq 1..5
  /\ Words \subseteq Nat

\* A nick with the prefixes it holds.
NickEntry == [nick : Nicks, prefixes : SUBSET Ranks]

\* A list and its index.
IsNickList(list) ==
  /\ list.nicks \in Seq(NickEntry)
  /\ DOMAIN list.index \subseteq Nicks

NoNicks == [nicks |-> <<>>, index |-> <<>>]

\* The prefix an entry shows and is sorted by: the highest it holds.
Prefix(e) == Max(e.prefixes \cup {0})

\* NickEntry's operator<.
Precedes(e, f) ==
  \/ Prefix(e) > Prefix(f)
  \/ Prefix(e) = Prefix(f) /\ e.nick < f.nick

Has(list, n) == n \in DOMAIN list.index

\* Where nicks i.. of a list are; of two equal nicks the later one.
PlacesFrom(nicks, i) ==
  [n \in {nicks[j].nick : j \in i..Len(nicks)} |-> Max({j \in i..Len(nicks) : nicks[j].nick = n})]

\* rebuildNickIndex
Rebuilt(nicks) == [nicks |-> nicks, index |-> PlacesFrom(nicks, 1)]

\* reindexFrom: the places before i are taken to be as they were.
ReindexFrom(list, i) ==
  LET behind == PlacesFrom(list.nicks, i)
  IN  [list EXCEPT !.index = [n \in DOMAIN @ \cup DOMAIN behind |->
                                IF n \in DOMAIN behind THEN behind[n] ELSE @[n]]]

\* The entries std::sort puts before the one at i.  Only entries of one nick
\* with one highest prefix are equal; they keep the order they have.
Before(nicks, i) ==
  {j \in DOMAIN nicks : \/ Precedes(nicks[j], nicks[i])
                        \/ j < i /\ ~Precedes(nicks[i], nicks[j])}

\* std::sort and rebuildNickIndex.
Sorted(nicks) ==
  LET at(k) == CHOOSE i \in DOMAIN nicks : Cardinality(Before(nicks, i)) = k - 1
  IN  Rebuilt([k \in DOMAIN nicks |-> nicks[at(k)]])

\* setNicks: a NAMES reply, given as the set of its entries.
SetNicks(entries) == Sorted(SetToSeq(entries))

\* A nick whose prefixes are not known, as a JOIN gives it.
Plain(n) == [nick |-> n, prefixes |-> {}]

\* Where std::lower_bound puts an entry in a sorted list.
LowerBound(nicks, e) ==
  Min({i \in 1..Len(nicks) + 1 : i > Len(nicks) \/ ~Precedes(nicks[i], e)})

AddNick(list, n) ==
  LET place == LowerBound(list.nicks, Plain(n))
  IN  IF Has(list, n)
        THEN list
        ELSE ReindexFrom([list EXCEPT !.nicks = InsertAt(@, place, Plain(n))], place)

\* addNicks: those of a netjoin, sorted in at once.
AddNicks(list, new) ==
  LET missing == {Plain(n) : n \in {m \in new : ~Has(list, m)}}
  IN  IF missing = {} THEN list ELSE Sorted(list.nicks \o SetToSeq(missing))

\* Mutant: the entry goes, the places behind it are not refreshed.
RemoveNickOnly(list, n) ==
  IF Has(list, n)
    THEN [nicks |-> RemoveAt(list.nicks, list.index[n]),
          index |-> [m \in DOMAIN list.index \ {n} |-> list.index[m]]]
    ELSE list

RemoveNick(list, n) ==
  IF Has(list, n)
    THEN ReindexFrom([nicks |-> RemoveAt(list.nicks, list.index[n]),
                      index |-> [m \in DOMAIN list.index \ {n} |-> list.index[m]]],
                     list.index[n])
    ELSE list

\* removeNicks: those of a netsplit.
RemoveNicks(list, gone) ==
  LET kept    == {i \in DOMAIN list.nicks : list.nicks[i].nick \notin gone}
      from(k) == CHOOSE i \in kept : Cardinality({j \in kept : j < i}) = k - 1
  IN  Rebuilt([k \in 1..Cardinality(kept) |-> list.nicks[from(k)]])

RenameNick(list, n, m) ==
  IF Has(list, n)
    THEN Sorted([list.nicks EXCEPT ![list.index[n]].nick = m])
    ELSE list

----------------------------------------------------------------------------
(* A MODE line: its modes, and the words behind them, one for each mode    *)
(* that has an argument.  counted: argModes, "ovhaqBe", has the letter.    *)

NoWord == -1   \* a mode without an argument

PrefixModes == [rank : Ranks, adding : BOOLEAN, arg : Nicks, counted : {TRUE}]
OtherModes == [rank : {0}, adding : {TRUE}, arg : Words \cup {NoWord}, counted : BOOLEAN]

\* The modes before the one at i that move argIdx on, and that have a word.
CountedBefore(line, i) == {j \in DOMAIN line : j < i /\ line[j].counted}
WordsBefore(line, i) == {j \in DOMAIN line : j < i /\ line[j].arg # NoWord}

\* The word parts[argIdx], if there is one, when the mode at i is handled.
WordRead(line, i) ==
  {line[k].arg : k \in {j \in DOMAIN line :
     line[j].arg # NoWord
       /\ Cardinality(WordsBefore(line, j)) = Cardinality(CountedBefore(line, i))}}

\* The prefixes left to one who had old by the modes at these places.
Applied(line, places, old) ==
  {p \in Ranks :
     LET ofP == {i \in places : line[i].rank = p}
     IN  IF ofP = {} THEN p \in old ELSE line[Max(ofP)].adding}

\* Where a line changes the entry at j: its word is a nick the index has there.
HitsOf(list, line, j) ==
  {i \in DOMAIN line : \E n \in WordRead(line, i) \cap DOMAIN list.index : list.index[n] = j}

\* All the modes of a line; then the list is sorted, whatever they were.
SetPrefixes(list, line) ==
  Sorted([j \in DOMAIN list.nicks |->
            [list.nicks[j] EXCEPT !.prefixes = Applied(line, HitsOf(list, line, j), @)]])
=============================================================================
