---------------------------- MODULE CatalogStore ----------------------------
(***************************************************************************)
(* catalog_query and run_prepare's ResolveCapability                       *)
(* (internal/catalog/service.go, indexer.go) over the catalog tables of    *)
(* the workspace's database (internal/store/sqlite/sqlite.go,              *)
(* catalog_retention.go) and the cursors (internal/cursor/codec.go).       *)
(*                                                                         *)
(* A call reads the tree file by file, with a server's refreshMu held,     *)
(* publishes what it read as a generation if that is not the current one,  *)
(* and answers from the generation: directly, or through a result set that *)
(* later calls page through by cursor.  Retired generations and expired    *)
(* result sets are deleted on the way.  A step is one read of a file, one  *)
(* SQL statement or one transaction; several servers share the database    *)
(* and the tree is edited at any time.                                     *)
(*                                                                         *)
(* Time is counted in quarters of an hour: a result set lives TTL, is      *)
(* reused while more than MinReuse is left, and a generation stays Grace   *)
(* after it was replaced.  A query lasts thirty seconds at most, so no     *)
(* call sees more than one quarter begin; nor does the call that replaces  *)
(* the generation it reads, so that Grace is to be longer than both.       *)
(***************************************************************************)
EXTENDS CatalogBuild, Naturals

CONSTANTS
  Servers,   \* server processes over one database
  Calls,     \* clients, each with one call at a time
  Queries,   \* what clients ask
  Contents,  \* by path, what a file may hold
  Tree,      \* the tree at the start
  Stored,    \* generations an older server left, without retirement times
  TTL, MinReuse, Grace,    \* 2, 1 and 4 quarters in the code
  Batch,     \* retiredGenerationBatch
  PruneBatch,\* expiredResultSetBatch
  None,
  MaxEdits, MaxAsked, MaxTime  \* bounds

Paths == Manifests \union Scripts

ASSUME TimesAssumption ==
  /\ MinReuse \in Nat /\ {TTL, Grace, Batch, PruneBatch} \subseteq Nat \ {0}
  /\ MinReuse < TTL /\ TTL < Grace /\ 2 < Grace

ASSUME CallsAssumption ==
  /\ None \notin Calls
  /\ {MaxEdits, MaxAsked, MaxTime} \subseteq Nat

(* A declaration runs what is a path of the workspace.                     *)
ASSUME ContentsAssumption ==
  /\ DOMAIN Tree = Paths /\ \A p \in Paths : Tree[p] \in Contents[p]
  /\ \A p \in Manifests : \A d \in Contents[p] \ {Absent, Broken} :
       d.runs \subseteq Paths

ASSUME StoredAssumption ==
  \A g \in Stored : IsFiniteSet(g.items) /\ IsFiniteSet(g.issues)

VARIABLES
  files,    \* the tree
  edits,    \* how often it was edited
  now,
  gens,     \* catalog_generations with their items, terms and issues
  current,  \* the generation in the row of current_catalog, if there is one
  retired,  \* catalog_retirements: generation to time
  sets,     \* result_sets with their items
  mu,       \* each server's refreshMu: the call that holds it, or None
  call,     \* what each client's call is doing
  scan,     \* the files and rows its Build has read
  seen,     \* history: all a file was since Build began, <<>> once it answers
  asked,    \* how many first pages were asked for; a set's ID is one
  chain     \* each client's pages of its last query

tree     == <<files, edits>>
tables   == <<gens, current, retired>>
vars     == <<tree, now, tables, sets, mu, call, scan, seen, asked, chain>>

-----------------------------------------------------------------------------
NoScan  == [todo |-> {}, read |-> <<>>, candidates |-> {}, base |-> {}, audited |-> <<>>]
NoCall  == [pc |-> "idle", on |-> None, began |-> 0, clock |-> 0, gen |-> None, rows |-> <<>>,
            todo |-> {}, set |-> 0, from |-> 0, total |-> 0]
NoChain == [ask |-> None, gen |-> None, set |-> 0, got |-> <<>>, next |-> 0,
            expires |-> 0, done |-> FALSE]

Refreshing == {"manifests", "read", "audit", "probe", "delete",
               "current", "publish", "reread"}
Answering  == {"find", "resolve", "terms", "create", "total", "page"}

At(c, label) == call[c].pc = label
Server(c)    == call[c].on
Ask(c)       == chain[c].ask

(* f, with v at x.                                                         *)
With(f, x, v) == [y \in DOMAIN f \union {x} |-> IF y = x THEN v ELSE f[y]]

(* The client has its last page, and no cursor.                            *)
Whole(c, got) ==
  chain' = [chain EXCEPT ![c] = [NoChain EXCEPT !.ask = chain[c].ask, !.gen = chain[c].gen,
                                                !.got = got, !.done = TRUE]]

(* The call goes on with d, or at label; it fails or has answered.         *)
Go(c, d)     == call' = [call EXCEPT ![c] = d]
To(c, label) == Go(c, [call[c] EXCEPT !.pc = label])
End(c)       == Go(c, NoCall)

Forget(c) == seen' = [seen EXCEPT ![c] = <<>>]

(* Whatever only a refresh reads or writes.                                *)
Scan(c, d) == scan' = [scan EXCEPT ![c] = d]

(* Refresh returned generation g: refreshMu is free, and the call answers. *)
Resolved(c, g) ==
  /\ Go(c, [call[c] EXCEPT !.pc = IF Ask(c).mode = "get" THEN "resolve" ELSE "find",
                           !.gen = g, !.clock = now])
  /\ chain' = [chain EXCEPT ![c] = [chain[c] EXCEPT !.gen = g]]
  /\ mu'   = [mu EXCEPT ![Server(c)] = None]
  /\ scan' = [scan EXCEPT ![c] = NoScan]

Built(c) == Generation(scan[c].read, scan[c].candidates, scan[c].audited)

-----------------------------------------------------------------------------
(* Mutant: a generation that becomes current again keeps its retirement.   *)
ActivateOnly(g, t) ==
  /\ current' = {g}
  /\ retired' = [h \in DOMAIN retired \union (current \ {g}) |->
                  IF h \in current THEN t ELSE retired[h]]

(* The row of current_catalog is set to g and the triggers keep            *)
(* catalog_retirements: g leaves it, what g replaces enters at time t.     *)
Activate(g, t) ==
  /\ current' = {g}
  /\ retired' = [h \in (DOMAIN retired \union current) \ {g} |->
                  IF h \in current THEN t ELSE retired[h]]

Live(s, t) == s.expires > t

(* retiredCatalogGenerationsSQL without its LIMIT.                         *)
Retirable(t) ==
  {g \in DOMAIN retired : /\ retired[g] + Grace <= t
                          /\ g \notin current
                          /\ ~ \E s \in Range(sets) : s.gen = g /\ Live(s, t)}

(* The n of S that come first by age, ties in any order.                   *)
Oldest(S, age, n) ==
  {T \in SUBSET S : /\ Cardinality(T) = IF Cardinality(S) < n THEN Cardinality(S) ELSE n
                    /\ \A x \in T, y \in S \ T : age[x] <= age[y]}
-----------------------------------------------------------------------------
Init ==
  /\ files   = Tree
  /\ edits   = 0
  /\ now     = 0
  /\ gens    = Stored
  /\ current = {}
  /\ retired = [g \in Stored |-> 0]
  /\ sets    = <<>>
  /\ mu      = [s \in Servers |-> None]
  /\ call    = [c \in Calls |-> NoCall]
  /\ scan    = [c \in Calls |-> NoScan]
  /\ seen    = [c \in Calls |-> <<>>]
  /\ asked   = 0
  /\ chain   = [c \in Calls |-> NoChain]

(* Somebody edits the workspace.                                           *)
Edit(p) ==
  /\ edits < MaxEdits
  /\ edits' = edits + 1
  /\ \E x \in Contents[p] \ {files[p]} : files' = [files EXCEPT ![p] = x]
  /\ seen' = [c \in Calls |->
       IF call[c].pc \in Refreshing
         THEN [seen[c] EXCEPT ![p] = seen[c][p] \union {files'[p]}] ELSE seen[c]]
  /\ UNCHANGED <<now, tables, sets, mu, call, scan, asked, chain>>

(* A quarter begins; no call lasts into another one.                       *)
Tick ==
  /\ now < MaxTime
  /\ \A c \in Calls : At(c, "idle") \/ call[c].began = now
  /\ now' = now + 1
  /\ UNCHANGED <<tree, tables, sets, mu, call, scan, seen, asked, chain>>

(* initializeCatalogRetention: generations whose retirement nobody         *)
(* recorded get a fresh grace period.                                      *)
Observed(times, stored, t) ==
  [g \in DOMAIN times \union (stored \ current) |-> IF g \in DOMAIN times THEN times[g] ELSE t]

(* A server dies, its calls end and clients keep their cursors; it opens   *)
(* the database again.                                                     *)
Restart(s) ==
  /\ \E c \in Calls : Server(c) = s /\ call[c].pc # "idle"
  /\ mu' = [mu EXCEPT ![s] = None]
  /\ call' = [c \in Calls |-> IF Server(c) = s THEN NoCall ELSE call[c]]
  /\ scan' = [c \in Calls |-> IF Server(c) = s THEN NoScan ELSE scan[c]]
  /\ seen' = [c \in Calls |-> IF Server(c) = s THEN <<>> ELSE seen[c]]
  /\ retired' = Observed(retired, gens, now)
  /\ UNCHANGED <<tree, now, gens, current, sets, asked, chain>>

-----------------------------------------------------------------------------
(* Query without a cursor: the limits, the mode; Refresh waits for         *)
(* refreshMu.                                                              *)
Begin(c, s, q) ==
  /\ At(c, "idle")
  /\ asked < MaxAsked
  /\ asked' = asked + 1
  /\ Go(c, [NoCall EXCEPT !.pc = "lock", !.on = s, !.began = now, !.set = asked'])
  /\ chain' = [chain EXCEPT ![c] = [NoChain EXCEPT !.ask = q]]
  /\ UNCHANGED <<tree, now, tables, sets, mu, scan, seen>>

(* Build lists the manifests ...                                           *)
ListManifests(c) ==
  /\ At(c, "lock") /\ mu[Server(c)] = None
  /\ mu' = [mu EXCEPT ![Server(c)] = c]
  /\ To(c, "read")
  /\ Scan(c, [NoScan EXCEPT !.todo = {p \in Manifests : files[p] # Absent}])
  /\ seen' = [seen EXCEPT ![c] = [p \in Paths |-> {files[p]}]]
  /\ UNCHANGED <<tree, now, tables, sets, asked, chain>>

(* ... and opens one after the other; one that went is source_unavailable. *)
ReadManifest(c) ==
  /\ At(c, "read")
  /\ scan[c].todo # {}
  /\ LET p == CHOOSE x \in scan[c].todo : TRUE
     IN  Scan(c, [scan[c] EXCEPT !.todo = scan[c].todo \ {p},
                                 !.read = With(scan[c].read, p, files[p])])
  /\ UNCHANGED <<tree, now, tables, sets, mu, call, seen, asked, chain>>

(* auditCandidates walks the candidate roots, looks for the current        *)
(* generation ...                                                          *)
ListCandidates(c) ==
  /\ At(c, "read") /\ scan[c].todo = {}
  /\ To(c, "audit")
  /\ LET candidates == {k \in Scripts : files[k] # Absent}
     IN  Scan(c, [scan[c] EXCEPT !.candidates = candidates, !.base = current,
                                 !.todo = Executing(scan[c].read)])
  /\ UNCHANGED <<tree, now, tables, sets, mu, seen, asked, chain>>

(* ... and takes one item after the other: its sources and what the        *)
(* current generation, if it is still stored, says of it.                  *)
AuditItem(c) ==
  /\ At(c, "audit")
  /\ scan[c].todo # {}
  /\ LET p       == CHOOSE x \in scan[c].todo : TRUE
         d       == scan[c].read[p]
         sources == Sources(d, scan[c].candidates)
         print   == Fingerprint(sources, files)
         earlier == UNION {g.items : g \in scan[c].base \intersect gens}
         issues  == MissingSources(p, sources, files) \union
                      IF NeedsReview(earlier, d, print)
                      THEN {Issue("needs_review", p, d)} ELSE {}
     IN  Scan(c, [scan[c] EXCEPT !.todo = scan[c].todo \ {p},
           !.audited = With(scan[c].audited, p, [print |-> print, issues |-> issues])])
  /\ UNCHANGED <<tree, now, tables, sets, mu, call, seen, asked, chain>>

-----------------------------------------------------------------------------
(* The generation is built.  DeleteRetiredCatalogGenerations first looks   *)
(* for a row ...                                                           *)
Probe(c) ==
  /\ At(c, "audit") /\ scan[c].todo = {}
  /\ \E G \in Oldest(Retirable(now), retired, 1) :
       Go(c, [call[c] EXCEPT !.pc = IF G = {} THEN "current" ELSE "delete",
                             !.clock = now, !.todo = G])
  /\ UNCHANGED <<tree, now, tables, sets, mu, scan, seen, asked, chain>>

(* Mutant: the row that was found is deleted.                              *)
DeleteProbed(c) ==
  /\ At(c, "delete")
  /\ gens'    = gens \ call[c].todo
  /\ retired' = Restrict(retired, DOMAIN retired \ call[c].todo)
  /\ Go(c, [call[c] EXCEPT !.pc = "current", !.todo = {}])
  /\ UNCHANGED <<tree, now, current, sets, mu, scan, seen, asked, chain>>

(* ... and then deletes what it finds now.                                 *)
DeleteRetired(c) ==
  /\ At(c, "delete")
  /\ \E G \in Oldest(Retirable(call[c].clock), retired, Batch) :
       /\ gens'    = gens \ G
       /\ retired' = Restrict(retired, DOMAIN retired \ G)
  /\ Go(c, [call[c] EXCEPT !.pc = "current", !.todo = {}])
  /\ UNCHANGED <<tree, now, current, sets, mu, scan, seen, asked, chain>>

(* The current generation has the fingerprint of what was built, ...       *)
Unchanged(c) ==
  /\ At(c, "current")
  /\ current = {Built(c)}
  /\ Resolved(c, Built(c))
  /\ UNCHANGED <<tree, now, tables, sets, seen, asked>>

Changed(c) ==
  /\ At(c, "current")
  /\ current # {Built(c)}
  /\ To(c, "publish")
  /\ UNCHANGED <<tree, now, tables, sets, mu, scan, seen, asked, chain>>

(* ... or what was built is inserted, if it is not stored, and becomes     *)
(* current, in one transaction.                                            *)
Publish(c) ==
  /\ At(c, "publish")
  /\ gens' = gens \union {Built(c)}
  /\ Activate(Built(c), call[c].clock)
  /\ Resolved(c, Built(c))
  /\ UNCHANGED <<tree, now, sets, seen, asked>>

(* The database was busy, which is a conflict like any other: Refresh      *)
(* looks whether somebody else published the same.                         *)
PublishFails(c) ==
  /\ At(c, "publish")
  /\ To(c, "reread")
  /\ UNCHANGED <<tree, now, tables, sets, mu, scan, seen, asked, chain>>

(* Mutant: ... published anything.                                         *)
RereadAny(c) ==
  /\ At(c, "reread")
  /\ \E g \in current : Resolved(c, g)
  /\ UNCHANGED <<tree, now, tables, sets, seen, asked>>

Reread(c) ==
  /\ At(c, "reread")
  /\ current = {Built(c)}
  /\ Resolved(c, Built(c))
  /\ UNCHANGED <<tree, now, tables, sets, seen, asked>>

RefreshFails(c) ==
  /\ At(c, "reread")
  /\ current # {Built(c)}
  /\ End(c)
  /\ mu'   = [mu EXCEPT ![Server(c)] = None]
  /\ scan' = [scan EXCEPT ![c] = NoScan]
  /\ Forget(c)
  /\ UNCHANGED <<tree, now, tables, sets, asked, chain>>

-----------------------------------------------------------------------------
(* firstPage: a result set of this generation and query that lives long    *)
(* enough is read again, ...                                               *)
Reusable(c) ==
  {i \in DOMAIN sets : /\ sets[i].gen = call[c].gen /\ sets[i].ask = Ask(c)
                       /\ sets[i].expires > call[c].clock + MinReuse}

FindSet(c) ==
  /\ At(c, "find")
  /\ \E i \in Reusable(c) :
       /\ \A j \in Reusable(c) : sets[j].expires <= sets[i].expires
       /\ Go(c, [call[c] EXCEPT !.pc = "total", !.set = i])
       /\ chain' = [chain EXCEPT ![c] =
                     [chain[c] EXCEPT !.set = i, !.expires = sets[i].expires]]
  /\ Forget(c)
  /\ UNCHANGED <<tree, now, tables, sets, mu, scan, asked>>

(* ... or the generation is searched.                                      *)
FindNone(c) ==
  /\ At(c, "find")
  /\ Reusable(c) = {}
  /\ To(c, "resolve")
  /\ Forget(c)
  /\ UNCHANGED <<tree, now, tables, sets, mu, scan, asked, chain>>

(* resolveGeneration: it must be stored, whether it is current or not, or  *)
(* the call fails.  GenerationsInUseStay says that it is, so no action of  *)
(* these fails for want of it.                                             *)

(* The items of a search.  Their terms are read one by one, ...            *)
SearchRows(c) ==
  /\ At(c, "resolve") /\ call[c].gen \in gens /\ Ask(c).mode = "search"
  /\ Go(c, [call[c] EXCEPT !.pc = "terms", !.todo = call[c].gen.items])
  /\ Forget(c)
  /\ UNCHANGED <<tree, now, tables, sets, mu, scan, asked, chain>>

(* ... and an item that scores is a match.                                 *)
ReadTerms(c) ==
  /\ At(c, "terms")
  /\ call[c].todo # {}
  /\ LET i     == CHOOSE x \in call[c].todo : TRUE
         terms == IF call[c].gen \in gens THEN Terms(i) ELSE {}
     IN  Go(c, [call[c] EXCEPT !.todo = call[c].todo \ {i},
           !.rows = IF Scores(i, terms, Ask(c).word) THEN Append(call[c].rows, i)
                    ELSE call[c].rows])
  /\ UNCHANGED <<tree, now, tables, sets, mu, scan, seen, asked, chain>>

IssueRows(c) ==
  /\ At(c, "resolve") /\ call[c].gen \in gens /\ Ask(c).mode = "audit"
  /\ Go(c, [call[c] EXCEPT !.pc = "terms", !.rows = Found(call[c].gen, Ask(c))])
  /\ Forget(c)
  /\ UNCHANGED <<tree, now, tables, sets, mu, scan, asked, chain>>

(* get and ResolveCapability read one item and answer at once.             *)
GetItem(c) ==
  /\ At(c, "resolve") /\ call[c].gen \in gens /\ Ask(c).mode = "get"
  /\ Whole(c, Found(call[c].gen, Ask(c)))
  /\ End(c)
  /\ Forget(c)
  /\ UNCHANGED <<tree, now, tables, sets, mu, scan, asked>>

(* CreateResultSet: expired sets go, the new one is stored.                *)
CreateSet(c) ==
  /\ At(c, "terms") /\ call[c].todo = {}
  /\ LET t   == call[c].clock
         set == [gen |-> call[c].gen, ask |-> Ask(c), expires |-> t + TTL,
                 items |-> call[c].rows]
     IN  /\ \E S \in Oldest({i \in DOMAIN sets : ~ Live(sets[i], t)},
                           [i \in DOMAIN sets |-> sets[i].expires], PruneBatch) :
              sets' = With(Restrict(sets, DOMAIN sets \ S), call[c].set, set)
         /\ chain' = [chain EXCEPT ![c] =
                       [chain[c] EXCEPT !.set = call[c].set, !.expires = set.expires]]
  /\ Go(c, [call[c] EXCEPT !.pc = "total", !.rows = <<>>])
  /\ UNCHANGED <<tree, now, tables, mu, scan, seen, asked>>

-----------------------------------------------------------------------------
(* A client continues with its cursor, which Decode accepts until the set  *)
(* expires ...                                                             *)
Continue(c, s) ==
  /\ At(c, "idle")
  /\ chain[c].next > 0
  /\ now < chain[c].expires
  /\ Go(c, [NoCall EXCEPT !.pc = "total", !.on = s, !.began = now,
                          !.set = chain[c].set, !.from = chain[c].next])
  /\ UNCHANGED <<tree, now, tables, sets, mu, scan, seen, asked, chain>>

(* ... and refuses afterwards.                                             *)
CursorExpired(c) ==
  /\ At(c, "idle")
  /\ chain[c].next > 0
  /\ chain[c].expires <= now
  /\ chain' = [chain EXCEPT ![c] = NoChain]
  /\ UNCHANGED <<tree, now, tables, sets, mu, call, scan, seen, asked>>

(* ReadResultPage reads the set's row ...                                  *)
ReadTotal(c) ==
  /\ At(c, "total")
  /\ IF call[c].set \in DOMAIN sets
     THEN Go(c, [call[c] EXCEPT !.pc = "page", !.total = Len(sets[call[c].set].items)])
     ELSE End(c)
  /\ UNCHANGED <<tree, now, tables, sets, mu, scan, seen, asked, chain>>

(* ... and its items, if they are still there, from the ordinal on.        *)
PageRows(c) ==
  IF call[c].set \in DOMAIN sets
  THEN SubSeq(sets[call[c].set].items, call[c].from + 1, call[c].total) ELSE <<>>

FirstOf(rows, n) == SubSeq(rows, 1, IF n < Len(rows) THEN n ELSE Len(rows))

(* Mutant: the cursor skips the items that did not fit.                    *)
NextPastLimit(c, limit, returned) == call[c].from + limit

NextOrdinal(c, limit, returned) == call[c].from + returned

(* readPage returns as many of the items within the limit as fit into the  *)
(* bytes, one at least.                                                    *)
ReadPage(c) ==
  /\ At(c, "page")
  /\ \E limit \in 1 .. call[c].total + 1 :
       LET rows == FirstOf(PageRows(c), limit) IN
       \E returned \in 0 .. Len(rows) :
         /\ returned = 0 => rows = <<>>
         /\ LET got  == chain[c].got \o SubSeq(rows, 1, returned)
                next == NextOrdinal(c, limit, returned)
            IN  IF next < call[c].total
                THEN chain' = [chain EXCEPT ![c] = [chain[c] EXCEPT !.got = got, !.next = next]]
                ELSE Whole(c, got)
  /\ End(c)
  /\ UNCHANGED <<tree, now, tables, sets, mu, scan, seen, asked>>

(* Not even one item fits, or the call's time is over.                     *)
PageFails(c) ==
  /\ At(c, "page")
  /\ End(c)
  /\ UNCHANGED <<tree, now, tables, sets, mu, scan, seen, asked, chain>>

-----------------------------------------------------------------------------
Refresh(c) ==
  \/ ListManifests(c) \/ ReadManifest(c) \/ ListCandidates(c)
  \/ AuditItem(c) \/ Probe(c) \/ DeleteRetired(c) \/ Unchanged(c) \/ Changed(c)
  \/ Publish(c) \/ PublishFails(c) \/ Reread(c) \/ RefreshFails(c)

Answer(c) ==
  \/ FindSet(c) \/ FindNone(c) \/ SearchRows(c) \/ ReadTerms(c)
  \/ IssueRows(c) \/ GetItem(c) \/ CreateSet(c)
  \/ ReadTotal(c) \/ ReadPage(c) \/ PageFails(c)

Next ==
  \/ Tick
  \/ \E p \in Paths : Edit(p)
  \/ \E s \in Servers : Restart(s)
  \/ \E c \in Calls :
       \/ \E s \in Servers : Continue(c, s) \/ \E q \in Queries : Begin(c, s, q)
       \/ CursorExpired(c) \/ Refresh(c) \/ Answer(c)

Spec == Init /\ [][Next]_vars

-----------------------------------------------------------------------------
(* Every variable has its type; whatever is not current has a retirement   *)
(* time so that nothing is kept for ever, and what is current has none     *)
(* (catalog_retention.go:70-96).                                           *)
TypeOK ==
  /\ \A p \in Paths : files[p] \in Contents[p]
  /\ current \subseteq gens /\ \A g, h \in current : g = h
  /\ DOMAIN retired = gens \ current
  /\ \A g \in DOMAIN retired : retired[g] \in 0 .. now
  /\ DOMAIN sets \subseteq 1 .. asked
  /\ \A i \in DOMAIN sets : sets[i].ask \in Queries /\ sets[i].expires <= now + TTL
  /\ \A s \in Servers : mu[s] # None => call[mu[s]].pc \in Refreshing
  /\ \A c \in Calls :
       /\ call[c].pc \in {"idle", "lock"} \union Refreshing \union Answering
       /\ call[c].pc \in Refreshing => mu[Server(c)] = c
       /\ call[c].pc # "idle" => now <= call[c].began + 1

(* README.md:489-493: at most the retired generations that nothing refers  *)
(* to are deleted.  The current one, the one of every unexpired result     *)
(* set, and the one that a call resolved and has not yet searched are      *)
(* stored; the last is what retiredGenerationGrace is for                  *)
(* (indexer.go:63-66).                                                     *)
GenerationsInUseStay ==
  /\ \A i \in DOMAIN sets : Live(sets[i], now) => sets[i].gen \in gens
  /\ \A c \in Calls : call[c].gen # None => call[c].gen \in gens
  /\ current \subseteq gens

(* What the catalog says of an issue was so.                               *)
WasSo(i, was) ==
  CASE i.code = "source_unavailable"     -> Absent \in was[i.at]
    [] i.code = "invalid_manifest"       -> Broken \in was[i.at]
    [] i.code = "duplicate_id"           ->
         /\ i.what \in was[i.at]
         /\ \E q \in Manifests \ {i.at} : \E d \in was[q] \ {Absent, Broken} : d.id = i.what.id
    [] i.code = "missing_source"         -> Absent \in was[i.what]
    [] i.code = "unregistered_candidate" -> was[i.at] # {Absent}
    [] i.code = "needs_review"           -> i.what \in was[i.at]

(* So are its items and issues, each at some time, and a manifest that was *)
(* there all the time is an item or is reported.                           *)
IsFresh(g, was) ==
  /\ \A i \in g.items : i.says \in was[i.at] /\ \A s \in i.print : s[2] \in was[s[1]]
  /\ \A i \in g.issues : WasSo(i, was)
  /\ \A p \in Manifests : Absent \notin was[p] =>
       \/ \E i \in g.items : i.at = p
       \/ \E i \in g.issues : i.at = p /\ i.code \in {"invalid_manifest", "duplicate_id"}

(* A refreshed answer tells what was in the workspace during the call,     *)
(* from the start of Build to the answer, whoever else edited, refreshed   *)
(* or published meanwhile, and however old the generation it found is      *)
(* (indexer.go:56-89).                                                     *)
AnswersAreFresh ==
  \A c \in Calls : call[c].gen # None /\ seen[c] # <<>> => IsFresh(call[c].gen, seen[c])

(* README.md:88: cursors continue one snapshot.  A client that follows its *)
(* cursors to the last page has every match of the generation its query    *)
(* resolved, once each, however the pages were cut, whoever created the    *)
(* result set, and although catalog and database changed in between.       *)
ChainsAreWhole ==
  \A c \in Calls : chain[c].done =>
    LET found == Found(chain[c].gen, chain[c].ask)
    IN  /\ Range(chain[c].got) = Range(found)
        /\ Len(chain[c].got) = Len(found)
=============================================================================
