-------------------------- MODULE MCContextManager --------------------------
(***************************************************************************)
(* The context manager for TLC.  The token counts are scaled down; what    *)
(* matters is that every tier is reachable, that prompts sit on both sides *)
(* of every tier boundary and of the pressure threshold, and that the      *)
(* clock can pass the minimum interval and the idle time after a switch.   *)
(***************************************************************************)
EXTENDS ContextManager

NoCap == NoLimit
=============================================================================
