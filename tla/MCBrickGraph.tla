---------------------------- MODULE MCBrickGraph ----------------------------
(* Small instances of BrickGraph for TLC.                                  *)
EXTENDS BrickGraph, TLC

CONSTANTS n1, n2, n3, v1, v2

NicSymmetry == Permutations(NicId)
=============================================================================
