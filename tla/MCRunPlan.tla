----------------------------- MODULE MCRunPlan ------------------------------
EXTENDS RunPlan, TLC

(* Inputs, the values of a part and the runs a row comes from differ in    *)
(* name only.                                                              *)
CONSTANTS old, new, f1, f2, probe, tool, r1, r2

Symmetry ==
  Permutations(Inputs) \union Permutations(Values) \union Permutations(Sources)
=============================================================================
