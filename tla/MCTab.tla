------------------------------- MODULE MCTab -------------------------------
(***************************************************************************)
(* An instance of Tab for TLC.                                             *)
(***************************************************************************)
EXTENDS Tab
CONSTANTS k1, k2
=============================================================================
