------------------------------ MODULE MCDeploy ------------------------------
(***************************************************************************)
(* Instances of Deploy for TLC: m is the master, p a peer.                 *)
(***************************************************************************)
EXTENDS Deploy

CONSTANTS m, p
=============================================================================
