------------------------------ MODULE MCRelay ------------------------------
(***************************************************************************)
(* The relay for TLC.                                                      *)
(***************************************************************************)
EXTENDS Relay, TLC
=============================================================================
