---------------------------- MODULE MCChatWindow ----------------------------
(***************************************************************************)
(* Instances of ChatWindow.                                                *)
(***************************************************************************)
EXTENDS ChatWindow

MC_Said == {TextMessage("a", "u"), Event("nick", "a"), Event("join", "me")}
=============================================================================
