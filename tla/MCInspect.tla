----------------------------- MODULE MCInspect -----------------------------
(***************************************************************************)
(* Inspect for TLC.                                                        *)
(***************************************************************************)
EXTENDS Inspect
=============================================================================
