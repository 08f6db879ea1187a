------------------------- MODULE MCNfsCompileCache -------------------------
(* Two jobs of main or of a pull request, on two lockfiles, beside a delta of *)
(* main; either may set aside what the other, or that one, has left.          *)
EXTENDS NfsCompileCache

CONSTANTS j1, j2, j3, k1, k2, g1, g2, pr7
=============================================================================
