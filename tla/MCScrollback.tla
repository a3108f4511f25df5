--------------------------- MODULE MCScrollback ----------------------------
(* A TLC instance of Scrollback: servers with and without chathistory.     *)
EXTENDS Scrollback

Both == BOOLEAN
=============================================================================
