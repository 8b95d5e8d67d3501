-------------------------- MODULE MCRuntimeAccess --------------------------
(* Small instances of RuntimeAccess for TLC.                                *)
EXTENDS RuntimeAccess, TLC

Symmetry ==
  UNION {Permutations(S) : S \in {Roots, Paths, Requests, Replies, Revokers}}
=============================================================================
