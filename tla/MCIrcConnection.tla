-------------------------- MODULE MCIrcConnection --------------------------
(* TLC instance of IrcConnection: the code's delays and ping limit, for   *)
(* each transport.                                                         *)
EXTENDS IrcConnection
=============================================================================
