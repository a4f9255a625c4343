-------------------------- MODULE MCReleaseMirror --------------------------
(***************************************************************************)
(* Two runs for two tags, over two commits.                                *)
(***************************************************************************)
EXTENDS ReleaseMirror, TLC

CONSTANTS r1, r2, v1, v2, a, b

ReleaseSymmetry == Permutations({r1, r2}) \cup Permutations({v1, v2}) \cup Permutations({a, b})
=============================================================================
