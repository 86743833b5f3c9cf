----------------------------- MODULE MCHistory -----------------------------
(***************************************************************************)
(* The instances of MCPanel, for PanelHistory.                             *)
(***************************************************************************)
EXTENDS MCPanel, PanelHistory
=============================================================================
