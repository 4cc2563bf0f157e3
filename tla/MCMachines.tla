----------------------------- MODULE MCMachines -----------------------------
(***************************************************************************)
(* Machines for TLC: a node of the same name in two clusters.              *)
(***************************************************************************)
EXTENDS Machines

CONSTANTS k1, k2

TwoSlots == {<<k1, "node">>, <<k2, "node">>}
=============================================================================
