----------------------------- MODULE MCStartup -----------------------------
(* A small instance of Startup.                                            *)
EXTENDS Startup

Symmetry == Permutations(Servers) \union Permutations(Swaps)
=============================================================================
