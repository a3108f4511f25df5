---------------------------- MODULE MCReadState ----------------------------
(* A TLC instance of ReadState: a buffer of three lines, pages of two.     *)
EXTENDS ReadState

ThirdLine == {3}
=============================================================================
