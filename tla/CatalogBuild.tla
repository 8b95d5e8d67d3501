---------------------------- MODULE CatalogBuild ----------------------------
(***************************************************************************)
(* What the catalog of a tree is (internal/catalog/indexer.go, Build and   *)
(* auditCandidates) and what a query finds in it (store/sqlite/sqlite.go,  *)
(* SearchCatalog).  No state: CatalogStore reads the tree one file at a    *)
(* time and applies these operators to what it read.                       *)
(*                                                                         *)
(* A manifest that parses is a declaration, a record of                    *)
(*   id, rev      its ID and its revision,                                 *)
(*   executes     whether it says how it is executed,                      *)
(*   runs, args   the scripts its executable_ref is a path to, and those   *)
(*                its argv_template names,                                 *)
(*   words        the words its ID, summary, tags and aliases hold.        *)
(* A content stands for its hash, so an item carries its declaration       *)
(* whole, and a generation is the record of its items and its issues: two  *)
(* generations with one fingerprint, or one ID, are one value.             *)
(***************************************************************************)
EXTENDS FiniteSets, Sequences, SequencesExt, Functions

CONSTANTS
  Manifests,  \* paths under the catalog roots with a manifest's extension
  Scripts,    \* paths under the candidate roots
  Absent,     \* no such file
  Broken,     \* a file that is no manifest: too large, or it does not parse
  Everything  \* the empty query: catalog_query(mode=list)

ASSUME PathsAssumption ==
  /\ IsFiniteSet(Manifests) /\ IsFiniteSet(Scripts)
  /\ Manifests \intersect Scripts = {}

-----------------------------------------------------------------------------
(* read holds what every listed manifest path was when it was read.        *)
Declared(read)   == {p \in DOMAIN read : read[p] \notin {Absent, Broken}}
Namesakes(read, p) == {q \in Declared(read) : read[q].id = read[p].id}

(* Every ID that is declared once is an item.                              *)
Registered(read) == {p \in Declared(read) : Namesakes(read, p) = {p}}

Issue(code, path, what) == [code |-> code, at |-> path, what |-> what]

ManifestIssues(read) ==
  {Issue("source_unavailable", p, Absent) : p \in {q \in DOMAIN read : read[q] = Absent}}
    \union
  {Issue("invalid_manifest", p, Broken) : p \in {q \in DOMAIN read : read[q] = Broken}}
    \union
  {Issue("duplicate_id", p, read[p]) : p \in Declared(read) \ Registered(read)}

(* auditExecutionSources: arguments count only if they are candidates.     *)
Sources(declaration, candidates) ==
  declaration.runs \union (declaration.args \intersect candidates)

(* The items whose sources are audited, be there none left.                *)
Executing(read) == {p \in Registered(read) : read[p].executes}

(* combinedExecutionFingerprint of the sources that could be read; the     *)
(* empty set is the empty fingerprint.                                     *)
Fingerprint(sources, content) == {<<k, content[k]>> : k \in {j \in sources : content[j] # Absent}}

MissingSources(p, sources, content) ==
  {Issue("missing_source", p, k) : k \in {j \in sources : content[j] = Absent}}

(* The declaration has the revision of an item of the current generation   *)
(* and sources with another fingerprint.                                   *)
NeedsReview(earlier, declaration, print) ==
  \E i \in earlier :
    /\ i.says.id = declaration.id /\ i.says.rev = declaration.rev
    /\ i.print \notin {{}, print}

Unregistered(read, candidates) ==
  {Issue("unregistered_candidate", k, Absent) :
     k \in candidates \ UNION {Sources(read[p], candidates) : p \in Registered(read)}}

Item(p, declaration, print) == [at |-> p, says |-> declaration, print |-> print]

(* The generation: audited holds each item's fingerprint and its issues.   *)
Generation(read, candidates, audited) ==
  [items  |-> {Item(p, read[p], IF p \in DOMAIN audited THEN audited[p].print ELSE {}) :
                 p \in Registered(read)},
   issues |-> ManifestIssues(read) \union Unregistered(read, candidates)
                \union UNION {audited[p].issues : p \in DOMAIN audited}]

-----------------------------------------------------------------------------
(* What a query of a generation finds: SearchCatalog, ListCatalogIssues    *)
(* and GetCatalogItem.  The order is one fixed order of the rows; weights  *)
(* and scores decide it in the code and nothing else.                      *)
Terms(i) == i.says.words

Scores(i, terms, word) == word = Everything \/ word \in terms

Matches(g, word) == {i \in g.items : Scores(i, Terms(i), word)}
Named(g, id)     == {i \in g.items : i.says.id = id}

Found(g, ask) ==
  CASE ask.mode = "search" -> SetToSeq(Matches(g, ask.word))
    [] ask.mode = "audit"  -> SetToSeq(g.issues)
    [] ask.mode = "get"    -> SetToSeq(Named(g, ask.id))
=============================================================================
