-------------------------- MODULE MCRuntimeSwitch --------------------------
(* Small instances of RuntimeSwitch for TLC.  Bundles are interchangeable.  *)
EXTENDS RuntimeSwitch, TLC

Symmetry == Permutations(Bundles)
=============================================================================
