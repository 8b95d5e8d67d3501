--------------------------- MODULE MCMemoryBackup ---------------------------
(* A small instance of MemoryBackup.                                       *)
EXTENDS MemoryBackup

Symmetry == Permutations(Runs) \union Permutations(Exports)
              \union Permutations(Restores) \union Permutations(Names)
=============================================================================
