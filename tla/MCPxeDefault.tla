---------------------------- MODULE MCPxeDefault ----------------------------
\* Small instances of the shared PXE default for TLC.
EXTENDS PxeDefault, TLC

CONSTANTS b1, b2, b3, cos, ubuntu

\* Boots are interchangeable, and so are images.
PxeSymmetry == Permutations(Boots) \cup Permutations(Images)
=============================================================================
