----------------------------- MODULE MCServers -----------------------------
(* A small instance of Servers for TLC: a server with a password and a     *)
(* channel key in the keychain, one without, and what has no name, whose   *)
(* certificate cannot be verified.                                         *)
EXTENDS Servers

MCStart == <<"a", "b">>

MCHostOf == [n \in {"a", "b", "noname"} |->
               IF n = "a" THEN "a.host" ELSE IF n = "b" THEN "b.host" ELSE "c.host"]
MCSecrets == [n \in {"a", "b", "noname"} |-> IF n = "a" THEN {"bundle", "key"} ELSE {}]
=============================================================================
