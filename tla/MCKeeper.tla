------------------------------ MODULE MCKeeper ------------------------------
(***************************************************************************)
(* An instance of Keeper for TLC.                                          *)
(***************************************************************************)
EXTENDS Keeper
CONSTANTS r1, r2
=============================================================================
