--------------------------- MODULE MCRunnerCache ---------------------------
(* Small instances of RunnerCache.  Runs are interchangeable, and so are   *)
(* contents, and so are services where that keeps the servers.             *)
EXTENDS RunnerCache, TLC

KeepsServers(f) == \A S \in Servers : {f[s] : s \in S} \in Servers

Symmetry ==
  {f \in Permutations(Services) : KeepsServers(f)}
    \union Permutations(Runs) \union Permutations(Contents)
=============================================================================
