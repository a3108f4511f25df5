------------------------- MODULE MCMessageRouting -------------------------
(* Small instances of MessageRouting for TLC. *)
EXTENDS MessageRouting, TLC

Batches == Permutations(Refs)
=============================================================================
