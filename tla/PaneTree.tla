------------------------------ MODULE PaneTree ------------------------------
(***************************************************************************)
(* The layout of the docked views as a tree (src/src/ui/panetree.cpp): a   *)
(* leaf holds the id of a view, a split holds an axis and its children.    *)
(* The proportions of a split's children are left out.                     *)
(***************************************************************************)
EXTENDS Integers, Sequences, SequencesExt

Axes == {"h", "v"}
NoSlot == -1

Leaf(id) == [slot |-> id, axis |-> "h", kids |-> <<>>]
SplitOf(axis, kids) == [slot |-> NoSlot, axis |-> axis, kids |-> kids]
IsLeaf(n) == n.kids = <<>>
EmptyRoot == Leaf(NoSlot)

RECURSIVE LeafOrder(_)
LeafOrder(n) ==
    IF IsLeaf(n) THEN (IF n.slot = NoSlot THEN <<>> ELSE << n.slot >>)
    ELSE FlattenSeq([i \in DOMAIN n.kids |-> LeafOrder(n.kids[i])])

RECURSIVE Leaves(_)
Leaves(n) ==
    IF IsLeaf(n) THEN {n.slot} \ {NoSlot}
    ELSE UNION { Leaves(n.kids[i]) : i \in DOMAIN n.kids }

-----------------------------------------------------------------------------
\* as a bug would have it: a nested split of the same axis is left alone
NoSplice(kid, axis) == << kid >>

(* Children that are splits of the node's own axis are spliced into it, and *)
(* a split left with one child becomes that child.                          *)
Spliced(kid, axis) ==
    IF ~IsLeaf(kid) /\ kid.axis = axis THEN kid.kids ELSE << kid >>

RECURSIVE Normalize(_)
Normalize(n) ==
    IF IsLeaf(n) THEN n
    ELSE LET kids == FlattenSeq([i \in DOMAIN n.kids |->
                                   Spliced(Normalize(n.kids[i]), n.axis)])
         IN  IF Len(kids) = 1 THEN kids[1] ELSE [n EXCEPT !.kids = kids]

RECURSIVE ReplaceLeaf(_, _, _)
ReplaceLeaf(n, id, by) ==
    IF IsLeaf(n) THEN (IF n.slot = id THEN by ELSE n)
    ELSE [n EXCEPT !.kids = [i \in DOMAIN n.kids |-> ReplaceLeaf(n.kids[i], id, by)]]

SplitLeaf(root, target, new, axis, before) ==
    IF target \notin Leaves(root) THEN root
    ELSE LET pair == IF before THEN << Leaf(new), Leaf(target) >>
                     ELSE << Leaf(target), Leaf(new) >>
         IN  Normalize(ReplaceLeaf(root, target, SplitOf(axis, pair)))

RECURSIVE SwapIds(_, _, _)
SwapIds(n, a, b) ==
    IF IsLeaf(n)
    THEN [n EXCEPT !.slot = IF @ = a THEN b ELSE IF @ = b THEN a ELSE @]
    ELSE [n EXCEPT !.kids = [i \in DOMAIN n.kids |-> SwapIds(n.kids[i], a, b)]]

SwapLeaves(root, a, b) ==
    IF a = b \/ ~({a, b} \subseteq Leaves(root)) THEN root ELSE SwapIds(root, a, b)

\* a split whose last child goes reads as a leaf without an id
RECURSIVE EraseLeaf(_, _)
EraseLeaf(n, id) ==
    IF IsLeaf(n) THEN n
    ELSE LET kept == SelectSeq(n.kids, LAMBDA c : ~(IsLeaf(c) /\ c.slot = id))
         IN  IF kept = <<>> THEN EmptyRoot
             ELSE [n EXCEPT !.kids = [i \in DOMAIN kept |-> EraseLeaf(kept[i], id)]]

RemoveLeaf(root, id) ==
    CASE IsLeaf(root) -> IF root.slot = id THEN EmptyRoot ELSE root
      [] id \in Leaves(root) -> Normalize(EraseLeaf(root, id))
      [] OTHER -> root

\* the tree unchanged when the move is refused
MoveLeafBeside(root, moving, target, axis, before) ==
    IF moving = target \/ ~({moving, target} \subseteq Leaves(root)) THEN root
    ELSE SplitLeaf(RemoveLeaf(root, moving), target, moving, axis, before)

FlattenTree(root, axis) ==
    SplitOf(axis, [i \in DOMAIN LeafOrder(root) |-> Leaf(LeafOrder(root)[i])])

-----------------------------------------------------------------------------
(* Saving and restoring.  Leaves are written under the keys of the caller;  *)
(* a key that no view has any more is dropped.                              *)
RECURSIVE ToKeys(_, _)
ToKeys(n, keyOf) ==
    IF IsLeaf(n) THEN [n EXCEPT !.slot = IF @ = NoSlot THEN NoSlot ELSE keyOf[@]]
    ELSE [n EXCEPT !.kids = [i \in DOMAIN n.kids |-> ToKeys(n.kids[i], keyOf)]]

\* idFor maps the keys that came back to their views
RECURSIVE FromKeys(_, _)
FromKeys(n, idFor) ==
    IF IsLeaf(n)
    THEN (IF n.slot \in DOMAIN idFor THEN Leaf(idFor[n.slot]) ELSE EmptyRoot)
    ELSE LET kids == SelectSeq([i \in DOMAIN n.kids |-> FromKeys(n.kids[i], idFor)],
                               LAMBDA c : c # EmptyRoot)
         IN  CASE kids = <<>>    -> EmptyRoot
               [] Len(kids) = 1 -> kids[1]
               [] OTHER         -> [n EXCEPT !.kids = kids]

-----------------------------------------------------------------------------
\* no split holds one child, and none sits in a split of its own axis
RECURSIVE Nested(_, _)
Nested(n, within) ==
    IsLeaf(n) \/ /\ Len(n.kids) >= 2 /\ n.axis # within
                 /\ \A i \in DOMAIN n.kids : Nested(n.kids[i], n.axis)

Tidy(root) == \A i \in DOMAIN root.kids : Nested(root.kids[i], root.axis)

\* no view has two leaves
OneLeafEach(root) == Len(LeafOrder(root)) = Cardinality(Leaves(root))
=============================================================================
