---------------------------- MODULE MCSupervisor ----------------------------
(***************************************************************************)
(* The supervisor for TLC.                                                 *)
(***************************************************************************)
EXTENDS Supervisor, TLC
=============================================================================
