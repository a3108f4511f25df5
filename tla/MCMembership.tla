---------------------------- MODULE MCMembership ----------------------------
(* A TLC instance of Membership: two nicks, one prefix, and a key that is  *)
(* a nick.                                                                 *)
EXTENDS Membership

TwoNicks == 1..2
Op == {3}
Key == {2}
=============================================================================
