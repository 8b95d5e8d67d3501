------------------------------ MODULE MCRunner ------------------------------
(* Small instances of Runner for TLC.  Calls and plans are interchangeable, *)
(* and so are services within one server and servers of as many services.  *)
EXTENDS Runner, TLC

KeepsServers(f) == \A S \in Servers : {f[s] : s \in S} \in Servers

Symmetry ==
  {f \in Permutations(Services) : KeepsServers(f)}
    \union Permutations(Plans) \union Permutations(Calls)
=============================================================================
