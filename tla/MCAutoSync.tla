----------------------------- MODULE MCAutoSync -----------------------------
(***************************************************************************)
(* An instance of AutoSync for TLC: two browser tabs, a configuration that *)
(* switches the sync off and two that switch it on.                        *)
(***************************************************************************)
EXTENDS AutoSync

CONSTANTS u1, u2, off, hourly, daily
=============================================================================
