------------------------------ MODULE MCPanes -------------------------------
(* A TLC instance of Panes: two channels, two docked panes whose ids are    *)
(* interchangeable, one window.                                             *)
EXTENDS Panes, TLC

Panels == Permutations(PaneIds)
=============================================================================
