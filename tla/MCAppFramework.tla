--------------------------- MODULE MCAppFramework ---------------------------
(***************************************************************************)
(* AppFramework for TLC: the framework and one app on it.                  *)
(***************************************************************************)
EXTENDS AppFramework

CONSTANT cmp

OneApp == {cmp}
=============================================================================
