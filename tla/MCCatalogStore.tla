--------------------------- MODULE MCCatalogStore ---------------------------
(* A small instance of CatalogStore: two manifests, one of which passes a  *)
(* script to what it runs; the tree may be edited so that the script goes, *)
(* and with it all sources of that item, or an item is declared twice.     *)
EXTENDS CatalogStore

CONSTANTS m1, m2, k, v1

Build == [id |-> "build", rev |-> 1, executes |-> TRUE, runs |-> {}, args |-> {k},
          words |-> {"go"}]
Lint  == [id |-> "lint", rev |-> 1, executes |-> FALSE, runs |-> {}, args |-> {},
          words |-> {"go", "style"}]

MCManifests == {m1, m2}
MCScripts   == {k}
MCContents  == (m1 :> {Build}) @@ (m2 :> {Lint, Build}) @@ (k :> {v1, Absent})
MCTree      == (m1 :> Build) @@ (m2 :> Lint) @@ (k :> v1)
MCStored    == {[items  |-> {Item(m1, Build, {}), Item(m2, Lint, {})},
                 issues |-> {}]}
MCQueries   == {[mode |-> "search", word |-> "go"], [mode |-> "audit"], [mode |-> "get", id |-> "build"]}

Symmetry == Permutations(Calls) \union Permutations(Servers)
=============================================================================
