-------------------------- MODULE MCAdmissionGate --------------------------
(***************************************************************************)
(* The admission gate for TLC.                                             *)
(***************************************************************************)
EXTENDS AdmissionGate, TLC
=============================================================================
