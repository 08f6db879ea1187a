---------------------------- MODULE MCNfsUvCache ----------------------------
(* Up to three jobs on up to three lockfiles.                               *)
EXTENDS NfsUvCache, TLC

CONSTANTS j1, j2, j3, k1, k2, k3, pr7

Symmetry == Permutations(Jobs) \cup Permutations(Keys)
=============================================================================
