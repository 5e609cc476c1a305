---------------------------- MODULE MCPanelRefresh ----------------------------
(* A small instance of PanelRefresh for TLC. *)
EXTENDS PanelRefresh
=============================================================================
