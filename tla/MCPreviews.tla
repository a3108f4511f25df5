----------------------------- MODULE MCPreviews -----------------------------
(***************************************************************************)
(* Instances of Previews.                                                  *)
(***************************************************************************)
EXTENDS Previews
=============================================================================
