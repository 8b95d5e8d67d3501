--------------------------- MODULE CatalogProofs ---------------------------
(***************************************************************************)
(* Theorems about CatalogStore, for any number of servers, clients, files, *)
(* queries, edits and quarters: TypeOK, and that no generation is deleted  *)
(* that is in use, that answers are fresh, and that a client's pages are   *)
(* everything the query found.                                             *)
(*                                                                         *)
(* A generation that a call resolved stays because it was current no       *)
(* longer than a quarter before the call began (IsHeld), and a call sees   *)
(* one quarter begin: this is where Grace must be longer than two.  An     *)
(* answer is fresh because each single read was (ScanTells), which edits   *)
(* only add to, and because a generation is published or found current     *)
(* only under the value that was built (BuildIsFresh).  Pages are whole    *)
(* because every list of one query has the same members and length         *)
(* (Lists), a query's number is no other's (NumbersAreFree), and each page *)
(* continues the beginning of such a list (Follows, PageIsCut).            *)
(***************************************************************************)
EXTENDS CatalogStore, FiniteSetTheorems, SequenceTheorems, TLAPS

(* The fields of the records that are updated one by one.                  *)
CallFields  == {"pc", "on", "began", "clock", "gen", "rows", "todo", "set", "from", "total"}
ScanFields  == {"todo", "read", "candidates", "base", "audited"}
ChainFields == {"ask", "gen", "set", "got", "next", "expires", "done"}

(* The places from which an answer may still be asked of a generation that *)
(* was read from the clock's time on.                                      *)
Timed == {"delete", "current", "publish", "reread", "find", "resolve", "terms"}

(* What is a function, and of what.                                        *)
Shapes ==
  /\ DOMAIN files = Paths /\ DOMAIN mu = Servers
  /\ DOMAIN call = Calls /\ DOMAIN scan = Calls
  /\ DOMAIN seen = Calls /\ DOMAIN chain = Calls
  /\ \A c \in Calls : /\ DOMAIN call[c] = CallFields
                      /\ DOMAIN scan[c] = ScanFields
                      /\ DOMAIN chain[c] = ChainFields
  /\ now \in Nat /\ asked \in Nat
  /\ \A p \in Paths : files[p] \in Contents[p]

(* A call works at a server, which it keeps from other refreshes while it  *)
(* refreshes itself, and sees one step of time begin at most.              *)
CallFits(d, c) ==
  /\ d.pc \in {"idle", "lock"} \union Refreshing \union Answering
  /\ d.pc # "idle" => /\ d.on \in Servers
                      /\ d.began \in Nat /\ d.began <= now /\ now <= d.began + 1
  /\ d.pc \in Timed => d.clock \in Nat /\ d.began <= d.clock /\ d.clock <= now
  /\ d.pc \in Refreshing => mu[d.on] = c

CallsFit == \A c \in Calls : CallFits(call[c], c)

(* Who holds a refreshMu refreshes at its server.                          *)
MutexesFit ==
  \A s \in Servers : mu[s] # None =>
    mu[s] \in Calls /\ call[mu[s]].pc \in Refreshing /\ call[mu[s]].on = s

(* One generation is current at most, the other ones are retired.          *)
TablesFit ==
  /\ current \subseteq gens /\ \A g, h \in current : g = h
  /\ DOMAIN retired = gens \ current
  /\ \A g \in DOMAIN retired : retired[g] \in 0 .. now

(* A result set has the number of the query it was made for.               *)
SetsFit ==
  \A i \in DOMAIN sets : /\ i \in 1 .. asked /\ sets[i].ask \in Queries
                         /\ sets[i].expires \in Nat /\ sets[i].expires <= now + TTL

(* The places of a query for which no result set was found or made.        *)
Numbered == {"lock", "find", "resolve", "terms"} \union Refreshing

(* Such a query has a number that no other one, no result set and no       *)
(* cursor has.                                                             *)
NumbersAreFree ==
  \A c \in Calls :
    /\ chain[c].set \in 0 .. asked
    /\ call[c].pc \in Numbered =>
         /\ call[c].set \in 1 .. asked /\ Ask(c) \in Queries
         /\ call[c].set \notin DOMAIN sets
         /\ \A d \in Calls : /\ chain[d].set # call[c].set
                             /\ d # c /\ call[d].pc \in Numbered => call[d].set # call[c].set

(* Until Refresh returns there is no generation to answer from.            *)
CallsHaveNone ==
  \A c \in Calls : call[c].pc \in {"idle", "lock"} \union Refreshing => call[c].gen = None

(* Deleting looks at result sets as of a time that is past.                *)
SetsAreStored == \A i \in DOMAIN sets : Live(sets[i], now) => sets[i].gen \in gens

(* A call that resolved a generation saw it current no longer than a step  *)
(* of time before the call began.                                          *)
IsHeld(c) ==
  call[c].gen # None \/ call[c].pc \in {"find", "resolve", "terms"} =>
    /\ call[c].gen \in gens
    /\ call[c].gen \in DOMAIN retired => call[c].began <= retired[call[c].gen] + 1

GenerationsAreHeld == \A c \in Calls : IsHeld(c)

(* What Build has read was so at some time since it began.                 *)
ReadTells(read, was) == DOMAIN read \subseteq Manifests /\ \A p \in DOMAIN read : read[p] \in was[p]

AuditTells(a, was) ==
  /\ IsFiniteSet(a.issues)
  /\ \A s \in a.print : s[1] \in Paths /\ s[2] \in was[s[1]]
  /\ \A i \in a.issues :
       \/ i.code = "missing_source" /\ i.what \in Paths /\ Absent \in was[i.what]
       \/ i.code = "needs_review" /\ i.at \in Paths /\ i.what \in was[i.at]

ScanTells(d, was) ==
  /\ ReadTells(d.read, was)
  /\ d.candidates \subseteq Scripts
  /\ \A k \in d.candidates : \E x \in was[k] : x # Absent
  /\ DOMAIN d.audited \subseteq Declared(d.read)
  /\ \A p \in DOMAIN d.audited : AuditTells(d.audited[p], was)

(* A generation can be listed.                                             *)
IsFinite(g) == IsFiniteSet(g.items) /\ IsFiniteSet(g.issues)

(* While a call refreshes, every file is what the call has seen of it.     *)
SeenFits(c) ==
  call[c].pc \in Refreshing =>
    /\ DOMAIN seen[c] = Paths
    /\ \A p \in Paths : files[p] \in seen[c][p] /\ seen[c][p] \subseteq Contents[p]

SeenFit == \A c \in Calls : SeenFits(c)

(* What was read of it was so, and no manifest was passed over.            *)
ScanFits(c) ==
  LET d == scan[c] IN
  call[c].pc \in Refreshing =>
    /\ ScanTells(d, seen[c])
    /\ \A p \in Manifests :
         Absent \notin seen[c][p] => p \in DOMAIN d.read \/ (call[c].pc = "read" /\ p \in d.todo)
    /\ call[c].pc = "read" => d.todo \subseteq Manifests /\ d.audited = <<>>
    /\ call[c].pc = "audit" => d.todo \subseteq Declared(d.read)

ScansFit == \A c \in Calls : ScanFits(c)

(* A sequence of whatever it has.                                          *)
IsList(s) == s \in Seq(Range(s))

(* s has each member of S once, ...                                        *)
Each(s, S) ==
  /\ IsList(s) /\ Range(s) = S
  /\ \A i, j \in DOMAIN s : s[i] = s[j] => i = j

(* ... or what the query finds in the generation, in whatever order.       *)
Lists(s, g, ask) ==
  LET found == Found(g, ask)
  IN  /\ IsList(s) /\ IsList(found)
      /\ Range(s) = Range(found) /\ Len(s) = Len(found)

(* Whatever is stored can be listed, and a stored result set is the list   *)
(* of its query.                                                           *)
GenerationsAreFinite == \A g \in gens : IsFinite(g)

SetsAreLists == \A i \in DOMAIN sets : Lists(sets[i].items, sets[i].gen, sets[i].ask)

(* A call has rows when it has found some: those of a search are the       *)
(* matches among the items that it has looked at.                          *)
RowsAreNone ==
  \A c \in Calls :
    /\ call[c].pc \in Numbered \ {"terms"} => call[c].rows = <<>>
    /\ call[c].pc \in Numbered \ {"terms", "delete"} => call[c].todo = {}

RowsAre(rows, g, todo, ask) ==
  \/ /\ ask.mode = "search" /\ todo \subseteq g.items
     /\ Each(rows, {i \in g.items \ todo : Scores(i, Terms(i), ask.word)})
  \/ ask.mode = "audit" /\ todo = {} /\ rows = Found(g, ask)

RowsFits(c) ==
  call[c].pc = "terms" => RowsAre(call[c].rows, call[c].gen, call[c].todo, Ask(c))

RowsFit == \A c \in Calls : RowsFits(c)

(* A client's pages are the beginning of the result set, up to where the   *)
(* cursor says.                                                            *)
Follows(k, s) ==
  /\ s.gen = k.gen /\ s.ask = k.ask
  /\ k.next = 0 \/ k.next < Len(s.items)
  /\ k.got = SubSeq(s.items, 1, k.next)

(* There are n matches.                                                    *)
Counts(n, g, ask) == IsList(Found(g, ask)) /\ n = Len(Found(g, ask))

(* A call answers the query and goes on where the client's cursor is.      *)
Serves(d, k) ==
  /\ k.next \in Nat
  /\ k.done => d.pc = "idle" /\ k.next = 0 /\ k.set = 0
  /\ ~ k.done => IsList(k.got) /\ (k.next = 0 => k.got = <<>>)
  /\ d.pc \in Numbered => k.next = 0 /\ k.set = 0 /\ d.from = 0
  /\ d.pc \in {"find", "resolve", "terms"} => k.gen = d.gen
  /\ d.pc \in {"total", "page"} => d.set = k.set /\ d.from = k.next
  /\ d.pc = "page" => Counts(d.total, k.gen, k.ask) /\ (d.from = 0 \/ d.from < d.total)

CallsServe == \A c \in Calls : Serves(call[c], chain[c])

(* The cursor belongs to its result set, as long as that is there.         *)
ChainsFollow ==
  \A c \in Calls : chain[c].set \in DOMAIN sets => Follows(chain[c], sets[chain[c].set])

CatalogInv ==
  /\ Shapes /\ CallsFit /\ MutexesFit /\ TablesFit /\ SetsFit
  /\ NumbersAreFree /\ CallsHaveNone
  /\ SetsAreStored /\ GenerationsAreHeld
  /\ SeenFit /\ ScansFit /\ AnswersAreFresh
  /\ GenerationsAreFinite /\ SetsAreLists /\ RowsAreNone /\ RowsFit
  /\ CallsServe /\ ChainsFollow /\ ChainsAreWhole

-----------------------------------------------------------------------------
(* What ReadTotal does, whatever number of items the result set has.       *)
TotalRead(c) ==
  /\ call[c].pc = "total"
  /\ DOMAIN call' = Calls /\ DOMAIN call'[c] = CallFields
  /\ \A d \in Calls : d # c => call'[d] = call[d]
  /\ \/ call'[c] = NoCall
     \/ /\ call'[c].pc = "page"
        /\ call'[c].on = call[c].on /\ call'[c].began = call[c].began
        /\ call'[c].gen = call[c].gen /\ call'[c].set = call[c].set
        /\ call'[c].from = call[c].from
  /\ UNCHANGED <<files, edits, now, gens, current, retired, sets, mu, scan, seen, asked,
                 chain>>

(* So it does, whether the set is still there or not.                      *)
LEMMA TotalIsRead ==
  ASSUME Shapes, NEW c \in Calls, ReadTotal(c)
  PROVE  TotalRead(c)
<1> USE DEF Shapes, CallFields, At, Go, End, NoCall, tree, tables
<1>1. CASE call[c].set \in DOMAIN sets
  <2> DEFINE n == Len(sets[call[c].set].items)
  <2>1. call' = [call EXCEPT ![c] = [call[c] EXCEPT !.pc = "page", !.total = n]]
    BY <1>1 DEF ReadTotal
  <2> HIDE DEF n
  <2> QED
    BY <2>1 DEF ReadTotal, TotalRead
<1>2. CASE call[c].set \notin DOMAIN sets
  BY <1>2 DEF ReadTotal, TotalRead
<1> QED
  BY <1>1, <1>2

(* A page ends the call, and leaves its client a cursor or the whole.      *)
PageRead(c) ==
  /\ call[c].pc = "page"
  /\ call' = [call EXCEPT ![c] = NoCall]
  /\ DOMAIN chain' = Calls /\ DOMAIN chain'[c] = ChainFields
  /\ \A d \in Calls : d # c => chain'[d] = chain[d]
  /\ chain'[c].ask = chain[c].ask /\ chain'[c].gen = chain[c].gen
  /\ chain'[c].set \in {0, chain[c].set}
  /\ UNCHANGED <<files, edits, now, gens, current, retired, sets, mu, scan, seen, asked>>

(* So it is, however the page is cut.                                      *)
LEMMA PageIsRead ==
  ASSUME Shapes, NEW c \in Calls, ReadPage(c)
  PROVE  PageRead(c)
<1>1. PICK limit, returned :
        LET rows == FirstOf(PageRows(c), limit)
            got  == chain[c].got \o SubSeq(rows, 1, returned)
            next == NextOrdinal(c, limit, returned)
        IN  IF next < call[c].total
            THEN chain' = [chain EXCEPT ![c] = [chain[c] EXCEPT !.got = got, !.next = next]]
            ELSE Whole(c, got)
  BY Zenon DEF ReadPage
<1> DEFINE rows == FirstOf(PageRows(c), limit)
           got  == chain[c].got \o SubSeq(rows, 1, returned)
           next == NextOrdinal(c, limit, returned)
<1>2. \/ chain' = [chain EXCEPT ![c] = [chain[c] EXCEPT !.got = got, !.next = next]]
      \/ Whole(c, got)
  BY <1>1
<1> HIDE DEF got, next
<1>3. /\ DOMAIN chain' = Calls /\ DOMAIN chain'[c] = ChainFields
      /\ \A d \in Calls : d # c => chain'[d] = chain[d]
      /\ chain'[c].ask = chain[c].ask /\ chain'[c].gen = chain[c].gen
      /\ chain'[c].set \in {0, chain[c].set}
  BY <1>2 DEF Shapes, ChainFields, Whole, NoChain
<1> QED
  BY <1>3 DEF PageRead, ReadPage, At, End, Go, tree, tables

(* What is a function stays one, and of the same.                          *)
LEMMA NextShapes ==
  ASSUME Shapes, CallsFit, [Next]_vars
  PROVE  Shapes'
<1>0. \A c \in Calls : (ReadTotal(c) => TotalRead(c)) /\ (ReadPage(c) => PageRead(c))
  BY TotalIsRead, PageIsRead
<1> USE DEF Shapes, CallFields, ScanFields, ChainFields, Go, To, End, Scan, Whole, Resolved,
        NoCall, NoScan, NoChain, tree, tables, CallsFit, CallFits
<1>1. CASE Tick
  BY <1>1 DEF Tick
<1>2. ASSUME NEW p \in Paths, Edit(p) PROVE Shapes'
  BY <1>2 DEF Edit
<1>3. ASSUME NEW s \in Servers, Restart(s) PROVE Shapes'
  BY <1>3 DEF Restart
<1>4. ASSUME NEW c \in Calls, NEW s \in Servers, Continue(c, s) PROVE Shapes'
  BY <1>4 DEF Continue
<1>5. ASSUME NEW c \in Calls, NEW s \in Servers, NEW q \in Queries, Begin(c, s, q) PROVE Shapes'
  BY <1>5 DEF Begin
<1>6. ASSUME NEW c \in Calls, CursorExpired(c) PROVE Shapes'
  BY <1>6 DEF CursorExpired
<1>7. ASSUME NEW c \in Calls, Refresh(c) PROVE Shapes'
  <2>1. CASE ListManifests(c) BY <2>1 DEF ListManifests
  <2>2. CASE ReadManifest(c) BY <2>2 DEF ReadManifest
  <2>3. CASE ListCandidates(c) BY <2>3 DEF ListCandidates
  <2>4. CASE AuditItem(c) BY <2>4 DEF AuditItem
  <2>5. CASE Probe(c) BY <2>5 DEF Probe
  <2>6. CASE DeleteRetired(c) BY <2>6 DEF DeleteRetired
  <2>7. CASE Unchanged(c) BY <2>7 DEF Unchanged
  <2>8. CASE Changed(c) BY <2>8 DEF Changed
  <2>9. CASE Publish(c) BY <2>9 DEF Publish
  <2>10. CASE PublishFails(c) BY <2>10 DEF PublishFails
  <2>11. CASE Reread(c) BY <2>11 DEF Reread
  <2>12. CASE RefreshFails(c) BY <2>12 DEF RefreshFails, Forget
  <2> QED BY <1>7, <2>1, <2>2, <2>3, <2>4, <2>5, <2>6, <2>7, <2>8, <2>9, <2>10, <2>11, <2>12
          DEF Refresh
<1>8. ASSUME NEW c \in Calls, Answer(c) PROVE Shapes'
  <2> USE DEF Forget
  <2>1. CASE FindSet(c) BY <2>1 DEF FindSet
  <2>2. CASE FindNone(c) BY <2>2 DEF FindNone
  <2>3. CASE SearchRows(c) BY <2>3 DEF SearchRows
  <2>4. CASE ReadTerms(c) BY <2>4 DEF ReadTerms
  <2>5. CASE IssueRows(c) BY <2>5 DEF IssueRows
  <2>6. CASE GetItem(c) BY <2>6 DEF GetItem
  <2>7. CASE CreateSet(c) BY <2>7 DEF CreateSet
  <2>8. CASE ReadTotal(c) BY <2>8, <1>0 DEF TotalRead
  <2>9. CASE ReadPage(c) BY <2>9, <1>0 DEF PageRead
  <2>10. CASE PageFails(c) BY <2>10 DEF PageFails
  <2> QED BY <1>8, <2>1, <2>2, <2>3, <2>4, <2>5, <2>6, <2>7, <2>8, <2>9, <2>10 DEF Answer
<1>9. CASE UNCHANGED vars
  BY <1>9 DEF vars
<1> QED
  BY <1>1, <1>2, <1>3, <1>4, <1>5, <1>6, <1>7, <1>8, <1>9 DEF Next
(* Every call fits where it gets to, whatever the others do.               *)
LEMMA NextCalls ==
  ASSUME Shapes, CallsFit, MutexesFit, [Next]_vars
  PROVE  CallsFit'
<1>0. \A c \in Calls : (ReadTotal(c) => TotalRead(c)) /\ (ReadPage(c) => PageRead(c))
  BY TotalIsRead, PageIsRead
<1> USE CallsAssumption DEF Shapes, CallFields, CallsFit, CallFits, MutexesFit,
        Timed, Refreshing, Answering, At, Server, Go, To, End, Scan, Forget,
        Whole, Resolved, NoCall, tree, tables
<1>1. CASE Tick
  BY <1>1 DEF Tick
<1>2. ASSUME NEW p \in Paths, Edit(p) PROVE CallsFit'
  BY <1>2 DEF Edit
<1>3. ASSUME NEW s \in Servers, Restart(s) PROVE CallsFit'
  BY <1>3 DEF Restart
<1>4. ASSUME NEW c \in Calls, NEW s \in Servers, Continue(c, s) PROVE CallsFit'
  BY <1>4 DEF Continue
<1>5. ASSUME NEW c \in Calls, NEW s \in Servers, NEW q \in Queries, Begin(c, s,
      q) PROVE CallsFit'
  BY <1>5 DEF Begin
<1>6. ASSUME NEW c \in Calls, CursorExpired(c) PROVE CallsFit'
  BY <1>6 DEF CursorExpired
<1>7. ASSUME NEW c \in Calls, Refresh(c) PROVE CallsFit'
  <2>1. CASE ListManifests(c) BY <2>1 DEF ListManifests
  <2>2. CASE ReadManifest(c) BY <2>2 DEF ReadManifest
  <2>3. CASE ListCandidates(c) BY <2>3 DEF ListCandidates
  <2>4. CASE AuditItem(c) BY <2>4 DEF AuditItem
  <2>5. CASE Probe(c) BY <2>5 DEF Probe
  <2>6. CASE DeleteRetired(c) BY <2>6 DEF DeleteRetired
  <2>7. CASE Unchanged(c) BY <2>7 DEF Unchanged
  <2>8. CASE Changed(c) BY <2>8 DEF Changed
  <2>9. CASE Publish(c) BY <2>9 DEF Publish
  <2>10. CASE PublishFails(c) BY <2>10 DEF PublishFails
  <2>11. CASE Reread(c) BY <2>11 DEF Reread
  <2>12. CASE RefreshFails(c) BY <2>12 DEF RefreshFails
  <2> QED BY <1>7, <2>1, <2>2, <2>3, <2>4, <2>5, <2>6, <2>7, <2>8, <2>9, <2>10,
          <2>11, <2>12 DEF Refresh
<1>8. ASSUME NEW c \in Calls, Answer(c) PROVE CallsFit'
  <2>1. CASE FindSet(c) BY <2>1 DEF FindSet
  <2>2. CASE FindNone(c) BY <2>2 DEF FindNone
  <2>3. CASE SearchRows(c) BY <2>3 DEF SearchRows
  <2>4. CASE ReadTerms(c) BY <2>4 DEF ReadTerms
  <2>5. CASE IssueRows(c) BY <2>5 DEF IssueRows
  <2>6. CASE GetItem(c) BY <2>6 DEF GetItem
  <2>7. CASE CreateSet(c) BY <2>7 DEF CreateSet
  <2>8. CASE ReadTotal(c)
    BY <2>8, <1>0 DEF TotalRead
  <2>9. CASE ReadPage(c)
    BY <2>9, <1>0 DEF PageRead
  <2>10. CASE PageFails(c) BY <2>10 DEF PageFails
  <2> QED BY <1>8, <2>1, <2>2, <2>3, <2>4, <2>5, <2>6, <2>7, <2>8, <2>9, <2>10
          DEF Answer
<1>9. CASE UNCHANGED vars
  BY <1>9 DEF vars
<1> QED
  BY <1>1, <1>2, <1>3, <1>4, <1>5, <1>6, <1>7, <1>8, <1>9 DEF Next

(* A refreshMu is held by a call that refreshes at its server.             *)
LEMMA NextMutexes ==
  ASSUME Shapes, CallsFit, MutexesFit, [Next]_vars
  PROVE  MutexesFit'
<1>0. \A c \in Calls : (ReadTotal(c) => TotalRead(c)) /\ (ReadPage(c) => PageRead(c))
  BY TotalIsRead, PageIsRead
<1> USE CallsAssumption DEF Shapes, CallFields, CallsFit, CallFits, MutexesFit,
        Refreshing, Answering, At, Server, Go, To, End, Scan, Forget, Whole,
        Resolved, NoCall, tree, tables
<1>1. CASE Tick
  BY <1>1 DEF Tick
<1>2. ASSUME NEW p \in Paths, Edit(p) PROVE MutexesFit'
  BY <1>2 DEF Edit
<1>3. ASSUME NEW s \in Servers, Restart(s) PROVE MutexesFit'
  BY <1>3 DEF Restart
<1>4. ASSUME NEW c \in Calls, NEW s \in Servers, Continue(c, s) PROVE
      MutexesFit'
  BY <1>4 DEF Continue
<1>5. ASSUME NEW c \in Calls, NEW s \in Servers, NEW q \in Queries, Begin(c, s,
      q) PROVE MutexesFit'
  BY <1>5 DEF Begin
<1>6. ASSUME NEW c \in Calls, CursorExpired(c) PROVE MutexesFit'
  BY <1>6 DEF CursorExpired
<1>7. ASSUME NEW c \in Calls, Refresh(c) PROVE MutexesFit'
  <2>1. CASE ListManifests(c) BY <2>1 DEF ListManifests
  <2>2. CASE ReadManifest(c) BY <2>2 DEF ReadManifest
  <2>3. CASE ListCandidates(c) BY <2>3 DEF ListCandidates
  <2>4. CASE AuditItem(c) BY <2>4 DEF AuditItem
  <2>5. CASE Probe(c) BY <2>5 DEF Probe
  <2>6. CASE DeleteRetired(c) BY <2>6 DEF DeleteRetired
  <2>7. CASE Unchanged(c) BY <2>7 DEF Unchanged
  <2>8. CASE Changed(c) BY <2>8 DEF Changed
  <2>9. CASE Publish(c) BY <2>9 DEF Publish
  <2>10. CASE PublishFails(c) BY <2>10 DEF PublishFails
  <2>11. CASE Reread(c) BY <2>11 DEF Reread
  <2>12. CASE RefreshFails(c) BY <2>12 DEF RefreshFails
  <2> QED BY <1>7, <2>1, <2>2, <2>3, <2>4, <2>5, <2>6, <2>7, <2>8, <2>9, <2>10,
          <2>11, <2>12 DEF Refresh
<1>8. ASSUME NEW c \in Calls, Answer(c) PROVE MutexesFit'
  <2>1. CASE FindSet(c) BY <2>1 DEF FindSet
  <2>2. CASE FindNone(c) BY <2>2 DEF FindNone
  <2>3. CASE SearchRows(c) BY <2>3 DEF SearchRows
  <2>4. CASE ReadTerms(c) BY <2>4 DEF ReadTerms
  <2>5. CASE IssueRows(c) BY <2>5 DEF IssueRows
  <2>6. CASE GetItem(c) BY <2>6 DEF GetItem
  <2>7. CASE CreateSet(c) BY <2>7 DEF CreateSet
  <2>8. CASE ReadTotal(c)
    BY <2>8, <1>0 DEF TotalRead
  <2>9. CASE ReadPage(c)
    BY <2>9, <1>0 DEF PageRead
  <2>10. CASE PageFails(c) BY <2>10 DEF PageFails
  <2> QED BY <1>8, <2>1, <2>2, <2>3, <2>4, <2>5, <2>6, <2>7, <2>8, <2>9, <2>10
          DEF Answer
<1>9. CASE UNCHANGED vars
  BY <1>9 DEF vars
<1> QED
  BY <1>1, <1>2, <1>3, <1>4, <1>5, <1>6, <1>7, <1>8, <1>9 DEF Next

(* Whatever is not current is retired, at a time that is past.             *)
LEMMA NextTables ==
  ASSUME Shapes, CallsFit, TablesFit, [Next]_vars
  PROVE  TablesFit'
<1>0. \A c \in Calls : (ReadTotal(c) => TotalRead(c)) /\ (ReadPage(c) => PageRead(c))
  BY TotalIsRead, PageIsRead
<1> USE DEF Shapes, CallFields, CallsFit, CallFits, TablesFit, Timed,
        Refreshing, Answering, At, Server, Go, To, End, Scan, Forget, Whole,
        Resolved, NoCall, tree, tables
<1>1. CASE Tick
  BY <1>1 DEF Tick
<1>2. ASSUME NEW p \in Paths, Edit(p) PROVE TablesFit'
  BY <1>2 DEF Edit
<1>3. ASSUME NEW s \in Servers, Restart(s) PROVE TablesFit'
  BY <1>3 DEF Restart, Observed
<1>4. ASSUME NEW c \in Calls, NEW s \in Servers, Continue(c, s) PROVE
      TablesFit'
  BY <1>4 DEF Continue
<1>5. ASSUME NEW c \in Calls, NEW s \in Servers, NEW q \in Queries, Begin(c, s,
      q) PROVE TablesFit'
  BY <1>5 DEF Begin
<1>6. ASSUME NEW c \in Calls, CursorExpired(c) PROVE TablesFit'
  BY <1>6 DEF CursorExpired
<1>7. ASSUME NEW c \in Calls, Refresh(c) PROVE TablesFit'
  <2>1. CASE ListManifests(c) BY <2>1 DEF ListManifests
  <2>2. CASE ReadManifest(c) BY <2>2 DEF ReadManifest
  <2>3. CASE ListCandidates(c) BY <2>3 DEF ListCandidates
  <2>4. CASE AuditItem(c) BY <2>4 DEF AuditItem
  <2>5. CASE Probe(c) BY <2>5 DEF Probe
  <2>6. CASE DeleteRetired(c)
    BY <2>6 DEF DeleteRetired, Oldest, Retirable, Restrict
  <2>7. CASE Unchanged(c) BY <2>7 DEF Unchanged
  <2>8. CASE Changed(c) BY <2>8 DEF Changed
  <2>9. CASE Publish(c) BY <2>9 DEF Publish, Activate
  <2>10. CASE PublishFails(c) BY <2>10 DEF PublishFails
  <2>11. CASE Reread(c) BY <2>11 DEF Reread
  <2>12. CASE RefreshFails(c) BY <2>12 DEF RefreshFails
  <2> QED BY <1>7, <2>1, <2>2, <2>3, <2>4, <2>5, <2>6, <2>7, <2>8, <2>9, <2>10,
          <2>11, <2>12 DEF Refresh
<1>8. ASSUME NEW c \in Calls, Answer(c) PROVE TablesFit'
  <2>1. CASE FindSet(c) BY <2>1 DEF FindSet
  <2>2. CASE FindNone(c) BY <2>2 DEF FindNone
  <2>3. CASE SearchRows(c) BY <2>3 DEF SearchRows
  <2>4. CASE ReadTerms(c) BY <2>4 DEF ReadTerms
  <2>5. CASE IssueRows(c) BY <2>5 DEF IssueRows
  <2>6. CASE GetItem(c) BY <2>6 DEF GetItem
  <2>7. CASE CreateSet(c) BY <2>7 DEF CreateSet
  <2>8. CASE ReadTotal(c)
    BY <2>8, <1>0 DEF TotalRead
  <2>9. CASE ReadPage(c)
    BY <2>9, <1>0 DEF PageRead
  <2>10. CASE PageFails(c) BY <2>10 DEF PageFails
  <2> QED BY <1>8, <2>1, <2>2, <2>3, <2>4, <2>5, <2>6, <2>7, <2>8, <2>9, <2>10
          DEF Answer
<1>9. CASE UNCHANGED vars
  BY <1>9 DEF vars
<1> QED
  BY <1>1, <1>2, <1>3, <1>4, <1>5, <1>6, <1>7, <1>8, <1>9 DEF Next

(* A result set has the number of a query and lives TTL from now at most.  *)
LEMMA NextSets ==
  ASSUME Shapes, CallsFit, SetsFit, NumbersAreFree, [Next]_vars
  PROVE  SetsFit'
<1>0. \A c \in Calls : (ReadTotal(c) => TotalRead(c)) /\ (ReadPage(c) => PageRead(c))
  BY TotalIsRead, PageIsRead
<1> USE TimesAssumption DEF Shapes, CallFields, CallsFit, CallFits, SetsFit,
        NumbersAreFree, Numbered, Refreshing, Timed, At, Ask, Go, To, End,
        Scan, Forget, Whole, Resolved, NoCall, tree, tables
<1>1. CASE Tick
  BY <1>1 DEF Tick
<1>2. ASSUME NEW p \in Paths, Edit(p) PROVE SetsFit'
  BY <1>2 DEF Edit
<1>3. ASSUME NEW s \in Servers, Restart(s) PROVE SetsFit'
  BY <1>3 DEF Restart
<1>4. ASSUME NEW c \in Calls, NEW s \in Servers, Continue(c, s) PROVE SetsFit'
  BY <1>4 DEF Continue
<1>5. ASSUME NEW c \in Calls, NEW s \in Servers, NEW q \in Queries, Begin(c, s,
      q) PROVE SetsFit'
  BY <1>5 DEF Begin
<1>6. ASSUME NEW c \in Calls, CursorExpired(c) PROVE SetsFit'
  BY <1>6 DEF CursorExpired
<1>7. ASSUME NEW c \in Calls, Refresh(c) PROVE SetsFit'
  <2>1. CASE ListManifests(c) BY <2>1 DEF ListManifests
  <2>2. CASE ReadManifest(c) BY <2>2 DEF ReadManifest
  <2>3. CASE ListCandidates(c) BY <2>3 DEF ListCandidates
  <2>4. CASE AuditItem(c) BY <2>4 DEF AuditItem
  <2>5. CASE Probe(c) BY <2>5 DEF Probe
  <2>6. CASE DeleteRetired(c) BY <2>6 DEF DeleteRetired
  <2>7. CASE Unchanged(c) BY <2>7 DEF Unchanged
  <2>8. CASE Changed(c) BY <2>8 DEF Changed
  <2>9. CASE Publish(c) BY <2>9 DEF Publish
  <2>10. CASE PublishFails(c) BY <2>10 DEF PublishFails
  <2>11. CASE Reread(c) BY <2>11 DEF Reread
  <2>12. CASE RefreshFails(c) BY <2>12 DEF RefreshFails
  <2> QED BY <1>7, <2>1, <2>2, <2>3, <2>4, <2>5, <2>6, <2>7, <2>8, <2>9, <2>10,
          <2>11, <2>12 DEF Refresh
<1>8. ASSUME NEW c \in Calls, Answer(c) PROVE SetsFit'
  <2>1. CASE FindSet(c) BY <2>1 DEF FindSet
  <2>2. CASE FindNone(c) BY <2>2 DEF FindNone
  <2>3. CASE SearchRows(c) BY <2>3 DEF SearchRows
  <2>4. CASE ReadTerms(c) BY <2>4 DEF ReadTerms
  <2>5. CASE IssueRows(c) BY <2>5 DEF IssueRows
  <2>6. CASE GetItem(c) BY <2>6 DEF GetItem
  <2>7. CASE CreateSet(c) BY <2>7 DEF CreateSet, Oldest, Restrict, With
  <2>8. CASE ReadTotal(c)
    BY <2>8, <1>0 DEF TotalRead
  <2>9. CASE ReadPage(c)
    BY <2>9, <1>0 DEF PageRead
  <2>10. CASE PageFails(c) BY <2>10 DEF PageFails
  <2> QED BY <1>8, <2>1, <2>2, <2>3, <2>4, <2>5, <2>6, <2>7, <2>8, <2>9, <2>10
          DEF Answer
<1>9. CASE UNCHANGED vars
  BY <1>9 DEF vars
<1> QED
  BY <1>1, <1>2, <1>3, <1>4, <1>5, <1>6, <1>7, <1>8, <1>9 DEF Next

(* A number is given to one query, and used for one result set.            *)
LEMMA NextNumbers ==
  ASSUME Shapes, SetsFit, NumbersAreFree, [Next]_vars
  PROVE  NumbersAreFree'
<1>0. \A c \in Calls : (ReadTotal(c) => TotalRead(c)) /\ (ReadPage(c) => PageRead(c))
  BY TotalIsRead, PageIsRead
<1> USE DEF Shapes, CallFields, ChainFields, SetsFit, NumbersAreFree, Numbered,
        Refreshing, At, Ask, NoChain, Go, To, End, Scan, Forget, Whole,
        Resolved, NoCall, tree, tables
<1>1. CASE Tick
  BY <1>1 DEF Tick
<1>2. ASSUME NEW p \in Paths, Edit(p) PROVE NumbersAreFree'
  BY <1>2 DEF Edit
<1>3. ASSUME NEW s \in Servers, Restart(s) PROVE NumbersAreFree'
  BY <1>3 DEF Restart
<1>4. ASSUME NEW c \in Calls, NEW s \in Servers, Continue(c, s) PROVE
      NumbersAreFree'
  BY <1>4 DEF Continue
<1>5. ASSUME NEW c \in Calls, NEW s \in Servers, NEW q \in Queries, Begin(c, s,
      q) PROVE NumbersAreFree'
  BY <1>5 DEF Begin
<1>6. ASSUME NEW c \in Calls, CursorExpired(c) PROVE NumbersAreFree'
  BY <1>6 DEF CursorExpired
<1>7. ASSUME NEW c \in Calls, Refresh(c) PROVE NumbersAreFree'
  <2>1. CASE ListManifests(c) BY <2>1 DEF ListManifests
  <2>2. CASE ReadManifest(c) BY <2>2 DEF ReadManifest
  <2>3. CASE ListCandidates(c) BY <2>3 DEF ListCandidates
  <2>4. CASE AuditItem(c) BY <2>4 DEF AuditItem
  <2>5. CASE Probe(c) BY <2>5 DEF Probe
  <2>6. CASE DeleteRetired(c) BY <2>6 DEF DeleteRetired
  <2>7. CASE Unchanged(c) BY <2>7 DEF Unchanged
  <2>8. CASE Changed(c) BY <2>8 DEF Changed
  <2>9. CASE Publish(c) BY <2>9 DEF Publish
  <2>10. CASE PublishFails(c) BY <2>10 DEF PublishFails
  <2>11. CASE Reread(c) BY <2>11 DEF Reread
  <2>12. CASE RefreshFails(c) BY <2>12 DEF RefreshFails
  <2> QED BY <1>7, <2>1, <2>2, <2>3, <2>4, <2>5, <2>6, <2>7, <2>8, <2>9, <2>10,
          <2>11, <2>12 DEF Refresh
<1>8. ASSUME NEW c \in Calls, Answer(c) PROVE NumbersAreFree'
  <2>1. CASE FindSet(c) BY <2>1 DEF FindSet, Reusable
  <2>2. CASE FindNone(c) BY <2>2 DEF FindNone
  <2>3. CASE SearchRows(c) BY <2>3 DEF SearchRows
  <2>4. CASE ReadTerms(c) BY <2>4 DEF ReadTerms
  <2>5. CASE IssueRows(c) BY <2>5 DEF IssueRows
  <2>6. CASE GetItem(c) BY <2>6 DEF GetItem
  <2>7. CASE CreateSet(c) BY <2>7 DEF CreateSet, Oldest, Restrict, With
  <2>8. CASE ReadTotal(c)
    BY <2>8, <1>0 DEF TotalRead
  <2>9. CASE ReadPage(c)
    <3>1. sets' = sets /\ asked' = asked
      BY <2>9, <1>0 DEF PageRead
    <3>2. \A d \in Calls : chain'[d].set \in {0, chain[d].set} /\ chain'[d].ask = chain[d].ask
      BY <2>9, <1>0 DEF PageRead
    <3>3. \A d \in Calls : call'[d].pc \in Numbered => call'[d] = call[d]
      BY <2>9, <1>0 DEF PageRead
    <3> QED
      BY <3>1, <3>2, <3>3
  <2>10. CASE PageFails(c) BY <2>10 DEF PageFails
  <2> QED BY <1>8, <2>1, <2>2, <2>3, <2>4, <2>5, <2>6, <2>7, <2>8, <2>9, <2>10
          DEF Answer
<1>9. CASE UNCHANGED vars
  BY <1>9 DEF vars
<1> QED
  BY <1>1, <1>2, <1>3, <1>4, <1>5, <1>6, <1>7, <1>8, <1>9 DEF Next

(* Until Refresh returns, a call has no generation.                        *)
LEMMA NextNoGeneration ==
  ASSUME Shapes, CallsFit, CallsHaveNone, [Next]_vars
  PROVE  CallsHaveNone'
<1>0. \A c \in Calls : (ReadTotal(c) => TotalRead(c)) /\ (ReadPage(c) => PageRead(c))
  BY TotalIsRead, PageIsRead
<1> USE DEF Shapes, CallFields, CallsFit, CallFits, CallsHaveNone, Refreshing,
        Answering, At, Go, To, End, Scan, Forget, Whole, Resolved, NoCall,
        tree, tables
<1>1. CASE Tick
  BY <1>1 DEF Tick
<1>2. ASSUME NEW p \in Paths, Edit(p) PROVE CallsHaveNone'
  BY <1>2 DEF Edit
<1>3. ASSUME NEW s \in Servers, Restart(s) PROVE CallsHaveNone'
  BY <1>3 DEF Restart
<1>4. ASSUME NEW c \in Calls, NEW s \in Servers, Continue(c, s) PROVE
      CallsHaveNone'
  BY <1>4 DEF Continue
<1>5. ASSUME NEW c \in Calls, NEW s \in Servers, NEW q \in Queries, Begin(c, s,
      q) PROVE CallsHaveNone'
  BY <1>5 DEF Begin
<1>6. ASSUME NEW c \in Calls, CursorExpired(c) PROVE CallsHaveNone'
  BY <1>6 DEF CursorExpired
<1>7. ASSUME NEW c \in Calls, Refresh(c) PROVE CallsHaveNone'
  <2>1. CASE ListManifests(c) BY <2>1 DEF ListManifests
  <2>2. CASE ReadManifest(c) BY <2>2 DEF ReadManifest
  <2>3. CASE ListCandidates(c) BY <2>3 DEF ListCandidates
  <2>4. CASE AuditItem(c) BY <2>4 DEF AuditItem
  <2>5. CASE Probe(c) BY <2>5 DEF Probe
  <2>6. CASE DeleteRetired(c) BY <2>6 DEF DeleteRetired
  <2>7. CASE Unchanged(c) BY <2>7 DEF Unchanged
  <2>8. CASE Changed(c) BY <2>8 DEF Changed
  <2>9. CASE Publish(c) BY <2>9 DEF Publish
  <2>10. CASE PublishFails(c) BY <2>10 DEF PublishFails
  <2>11. CASE Reread(c) BY <2>11 DEF Reread
  <2>12. CASE RefreshFails(c) BY <2>12 DEF RefreshFails
  <2> QED BY <1>7, <2>1, <2>2, <2>3, <2>4, <2>5, <2>6, <2>7, <2>8, <2>9, <2>10,
          <2>11, <2>12 DEF Refresh
<1>8. ASSUME NEW c \in Calls, Answer(c) PROVE CallsHaveNone'
  <2>1. CASE FindSet(c) BY <2>1 DEF FindSet
  <2>2. CASE FindNone(c) BY <2>2 DEF FindNone
  <2>3. CASE SearchRows(c) BY <2>3 DEF SearchRows
  <2>4. CASE ReadTerms(c) BY <2>4 DEF ReadTerms
  <2>5. CASE IssueRows(c) BY <2>5 DEF IssueRows
  <2>6. CASE GetItem(c) BY <2>6 DEF GetItem
  <2>7. CASE CreateSet(c) BY <2>7 DEF CreateSet
  <2>8. CASE ReadTotal(c)
    BY <2>8, <1>0 DEF TotalRead
  <2>9. CASE ReadPage(c)
    <3> HIDE DEF Shapes, NoCall
    <3>1. call' = [call EXCEPT ![c] = NoCall]
      BY <2>9, <1>0 DEF PageRead
    <3> QED
      BY <3>1 DEF Shapes, NoCall
  <2>10. CASE PageFails(c) BY <2>10 DEF PageFails
  <2> QED BY <1>8, <2>1, <2>2, <2>3, <2>4, <2>5, <2>6, <2>7, <2>8, <2>9, <2>10
          DEF Answer
<1>9. CASE UNCHANGED vars
  BY <1>9 DEF vars
<1> QED
  BY <1>1, <1>2, <1>3, <1>4, <1>5, <1>6, <1>7, <1>8, <1>9 DEF Next

(* The generation of a result set that has not expired is not deleted.     *)
LEMMA NextSetsStored ==
  ASSUME Shapes, CallsFit, SetsFit, SetsAreStored, GenerationsAreHeld,
         [Next]_vars
  PROVE  SetsAreStored'
<1>0. \A c \in Calls : (ReadTotal(c) => TotalRead(c)) /\ (ReadPage(c) => PageRead(c))
  BY TotalIsRead, PageIsRead
<1> USE DEF Shapes, CallFields, CallsFit, CallFits, SetsFit, SetsAreStored,
        GenerationsAreHeld, IsHeld, Timed, Answering, Live, At, Go, To, End,
        Scan, Forget, Whole, Resolved, NoCall, tree, tables
<1>1. CASE Tick
  BY <1>1 DEF Tick
<1>2. ASSUME NEW p \in Paths, Edit(p) PROVE SetsAreStored'
  BY <1>2 DEF Edit
<1>3. ASSUME NEW s \in Servers, Restart(s) PROVE SetsAreStored'
  BY <1>3 DEF Restart
<1>4. ASSUME NEW c \in Calls, NEW s \in Servers, Continue(c, s) PROVE
      SetsAreStored'
  BY <1>4 DEF Continue
<1>5. ASSUME NEW c \in Calls, NEW s \in Servers, NEW q \in Queries, Begin(c, s,
      q) PROVE SetsAreStored'
  BY <1>5 DEF Begin
<1>6. ASSUME NEW c \in Calls, CursorExpired(c) PROVE SetsAreStored'
  BY <1>6 DEF CursorExpired
<1>7. ASSUME NEW c \in Calls, Refresh(c) PROVE SetsAreStored'
  <2>1. CASE ListManifests(c) BY <2>1 DEF ListManifests
  <2>2. CASE ReadManifest(c) BY <2>2 DEF ReadManifest
  <2>3. CASE ListCandidates(c) BY <2>3 DEF ListCandidates
  <2>4. CASE AuditItem(c) BY <2>4 DEF AuditItem
  <2>5. CASE Probe(c) BY <2>5 DEF Probe
  <2>6. CASE DeleteRetired(c)
    BY <2>6 DEF DeleteRetired, Oldest, Retirable, Range
  <2>7. CASE Unchanged(c) BY <2>7 DEF Unchanged
  <2>8. CASE Changed(c) BY <2>8 DEF Changed
  <2>9. CASE Publish(c) BY <2>9 DEF Publish
  <2>10. CASE PublishFails(c) BY <2>10 DEF PublishFails
  <2>11. CASE Reread(c) BY <2>11 DEF Reread
  <2>12. CASE RefreshFails(c) BY <2>12 DEF RefreshFails
  <2> QED BY <1>7, <2>1, <2>2, <2>3, <2>4, <2>5, <2>6, <2>7, <2>8, <2>9, <2>10,
          <2>11, <2>12 DEF Refresh
<1>8. ASSUME NEW c \in Calls, Answer(c) PROVE SetsAreStored'
  <2>1. CASE FindSet(c) BY <2>1 DEF FindSet
  <2>2. CASE FindNone(c) BY <2>2 DEF FindNone
  <2>3. CASE SearchRows(c) BY <2>3 DEF SearchRows
  <2>4. CASE ReadTerms(c) BY <2>4 DEF ReadTerms
  <2>5. CASE IssueRows(c) BY <2>5 DEF IssueRows
  <2>6. CASE GetItem(c) BY <2>6 DEF GetItem
  <2>7. CASE CreateSet(c) BY <2>7 DEF CreateSet, Oldest, Restrict, With
  <2>8. CASE ReadTotal(c)
    BY <2>8, <1>0 DEF TotalRead
  <2>9. CASE ReadPage(c)
    BY <2>9, <1>0 DEF PageRead
  <2>10. CASE PageFails(c) BY <2>10 DEF PageFails
  <2> QED BY <1>8, <2>1, <2>2, <2>3, <2>4, <2>5, <2>6, <2>7, <2>8, <2>9, <2>10
          DEF Answer
<1>9. CASE UNCHANGED vars
  BY <1>9 DEF vars
<1> QED
  BY <1>1, <1>2, <1>3, <1>4, <1>5, <1>6, <1>7, <1>8, <1>9 DEF Next

(* Nor is one that a call has resolved: it is not yet retired long enough. *)
LEMMA NextHeld ==
  ASSUME Shapes, CallsFit, TablesFit, CallsHaveNone, GenerationsAreHeld,
         [Next]_vars
  PROVE  GenerationsAreHeld'
<1>0. \A c \in Calls : (ReadTotal(c) => TotalRead(c)) /\ (ReadPage(c) => PageRead(c))
  BY TotalIsRead, PageIsRead
<1> USE DEF Shapes, CallFields, CallsFit, CallFits, TablesFit, CallsHaveNone,
        GenerationsAreHeld, IsHeld, Timed, Refreshing, Answering, At, Go, To,
        End, Scan, Forget, Whole, Resolved, NoCall, tree, tables
<1>1. CASE Tick
  BY <1>1 DEF Tick
<1>2. ASSUME NEW p \in Paths, Edit(p) PROVE GenerationsAreHeld'
  BY <1>2 DEF Edit
<1>3. ASSUME NEW s \in Servers, Restart(s) PROVE GenerationsAreHeld'
  BY <1>3 DEF Restart, Observed
<1>4. ASSUME NEW c \in Calls, NEW s \in Servers, Continue(c, s) PROVE
      GenerationsAreHeld'
  BY <1>4 DEF Continue
<1>5. ASSUME NEW c \in Calls, NEW s \in Servers, NEW q \in Queries, Begin(c, s,
      q) PROVE GenerationsAreHeld'
  BY <1>5 DEF Begin
<1>6. ASSUME NEW c \in Calls, CursorExpired(c) PROVE GenerationsAreHeld'
  BY <1>6 DEF CursorExpired
<1>7. ASSUME NEW c \in Calls, Refresh(c) PROVE GenerationsAreHeld'
  <2>1. CASE ListManifests(c) BY <2>1 DEF ListManifests
  <2>2. CASE ReadManifest(c) BY <2>2 DEF ReadManifest
  <2>3. CASE ListCandidates(c) BY <2>3 DEF ListCandidates
  <2>4. CASE AuditItem(c) BY <2>4 DEF AuditItem
  <2>5. CASE Probe(c) BY <2>5 DEF Probe
  <2>6. CASE DeleteRetired(c)
    BY <2>6, TimesAssumption DEF DeleteRetired, Oldest, Retirable, Restrict
  <2>7. CASE Unchanged(c) BY <2>7 DEF Unchanged
  <2>8. CASE Changed(c) BY <2>8 DEF Changed
  <2>9. CASE Publish(c) BY <2>9 DEF Publish, Activate
  <2>10. CASE PublishFails(c) BY <2>10 DEF PublishFails
  <2>11. CASE Reread(c) BY <2>11 DEF Reread
  <2>12. CASE RefreshFails(c) BY <2>12 DEF RefreshFails
  <2> QED BY <1>7, <2>1, <2>2, <2>3, <2>4, <2>5, <2>6, <2>7, <2>8, <2>9, <2>10,
          <2>11, <2>12 DEF Refresh
<1>8. ASSUME NEW c \in Calls, Answer(c) PROVE GenerationsAreHeld'
  <2>1. CASE FindSet(c) BY <2>1 DEF FindSet
  <2>2. CASE FindNone(c) BY <2>2 DEF FindNone
  <2>3. CASE SearchRows(c) BY <2>3 DEF SearchRows
  <2>4. CASE ReadTerms(c) BY <2>4 DEF ReadTerms
  <2>5. CASE IssueRows(c) BY <2>5 DEF IssueRows
  <2>6. CASE GetItem(c) BY <2>6 DEF GetItem
  <2>7. CASE CreateSet(c) BY <2>7 DEF CreateSet
  <2>8. CASE ReadTotal(c)
    <3>1. gens' = gens /\ retired' = retired
      BY <2>8, <1>0 DEF TotalRead
    <3>2. \A d \in Calls : d # c => IsHeld(d)'
      BY <2>8, <1>0, <3>1 DEF TotalRead
    <3>3. IsHeld(c)'
      BY <2>8, <1>0, <3>1 DEF TotalRead
    <3> QED
      BY <3>2, <3>3
  <2>9. CASE ReadPage(c)
    <3>1. gens' = gens /\ retired' = retired
      BY <2>9, <1>0 DEF PageRead
    <3>2. \A d \in Calls : d # c => IsHeld(d)'
      BY <2>9, <1>0, <3>1 DEF PageRead
    <3>3. IsHeld(c)'
      BY <2>9, <1>0, <3>1 DEF PageRead
    <3> QED
      BY <3>2, <3>3
  <2>10. CASE PageFails(c) BY <2>10 DEF PageFails
  <2> QED BY <1>8, <2>1, <2>2, <2>3, <2>4, <2>5, <2>6, <2>7, <2>8, <2>9, <2>10
          DEF Answer
<1>9. CASE UNCHANGED vars
  BY <1>9 DEF vars
<1> QED
  BY <1>1, <1>2, <1>3, <1>4, <1>5, <1>6, <1>7, <1>8, <1>9 DEF Next

(* A set of what a finite set is mapped to is finite.                      *)
LEMMA ImageIsFinite ==
  ASSUME NEW f, IsFiniteSet(DOMAIN f)
  PROVE  IsFiniteSet(Range(f))
<1> DEFINE S == DOMAIN f
           h == [x \in S |-> f[x]]
<1>1. h \in Surjection(S, Range(f))
  BY DEF Surjection, Range
<1> QED
  BY <1>1, FS_Surjection

(* More that a file was does not make wrong what was read of it.           *)
LEMMA ScansStayTrue ==
  ASSUME NEW d, NEW was, NEW since, ScanTells(d, was),
         \A p \in Paths : was[p] \subseteq since[p]
  PROVE  ScanTells(d, since)
<1>1. ReadTells(d.read, since)
  BY DEF ScanTells, ReadTells, Paths
<1>2. \A k \in d.candidates : \E x \in since[k] : x # Absent
  BY DEF ScanTells, Paths
<1>3. \A p \in DOMAIN d.audited : AuditTells(d.audited[p], since)
  BY DEF ScanTells, AuditTells
<1> QED
  BY <1>1, <1>2, <1>3 DEF ScanTells

(* An item's audit says what its sources were, one after the other.        *)
LEMMA AuditIsTrue ==
  ASSUME NEW read, NEW was, NEW candidates, NEW earlier, NEW p \in Declared(read),
         ReadTells(read, was), candidates \subseteq Scripts,
         \A x \in Paths : files[x] \in was[x] /\ was[x] \subseteq Contents[x]
  PROVE  LET sources == Sources(read[p], candidates)
             print   == Fingerprint(sources, files)
         IN  AuditTells([print  |-> print,
                         issues |-> MissingSources(p, sources, files) \union
                                      IF NeedsReview(earlier, read[p], print)
                                      THEN {Issue("needs_review", p, read[p])} ELSE {}], was)
<1> DEFINE sources == Sources(read[p], candidates)
           print   == Fingerprint(sources, files)
           missing == MissingSources(p, sources, files)
           review  == IF NeedsReview(earlier, read[p], print)
                      THEN {Issue("needs_review", p, read[p])} ELSE {}
<1>1. p \in Manifests /\ read[p] \in was[p] /\ read[p] \in Contents[p] \ {Absent, Broken}
  BY DEF Declared, ReadTells, Paths
<1>2. sources \subseteq Paths
  BY <1>1, ContentsAssumption DEF Sources, Paths
<1>3. \A s \in print : s[1] \in Paths /\ s[2] \in was[s[1]]
  BY <1>2 DEF Fingerprint
<1>4. \A i \in missing : i.code = "missing_source" /\ i.what \in Paths /\ Absent \in was[i.what]
  BY <1>2 DEF MissingSources, Issue
<1>5. \A i \in review : i.code = "needs_review" /\ i.at \in Paths /\ i.what \in was[i.at]
  BY <1>1 DEF Issue, Paths
<1>6. IsFiniteSet(missing)
  <2> DEFINE gone == {j \in sources : files[j] = Absent}
             f    == [k \in gone |-> Issue("missing_source", p, k)]
  <2>1. IsFiniteSet(Paths)
    BY PathsAssumption, FS_Union DEF Paths
  <2>2. IsFiniteSet(gone)
    BY <1>2, <2>1, FS_Subset
  <2>3. missing = Range(f)
    BY DEF MissingSources, Range
  <2> HIDE DEF gone, missing
  <2>4. DOMAIN f = gone
    OBVIOUS
  <2> QED
    BY <2>2, <2>3, <2>4, ImageIsFinite
<1>7. IsFiniteSet(review)
  BY FS_EmptySet, FS_Singleton
<1>8. IsFiniteSet(missing \union review)
  BY <1>6, <1>7, FS_Union
<1> HIDE DEF sources, print, missing, review
<1>9. AuditTells([print |-> print, issues |-> missing \union review], was)
  BY <1>3, <1>4, <1>5, <1>8 DEF AuditTells
<1> QED
  BY <1>9 DEF sources, print, missing, review

(* What is built of what was read was so, and leaves nothing out.          *)
LEMMA BuildIsFresh ==
  ASSUME NEW d, NEW was, ScanTells(d, was),
         \A p \in Manifests : Absent \notin was[p] => p \in DOMAIN d.read
  PROVE  IsFresh(Generation(d.read, d.candidates, d.audited), was)
<1> DEFINE g == Generation(d.read, d.candidates, d.audited)
           audits == UNION {d.audited[p].issues : p \in DOMAIN d.audited}
<1> USE DEF ScanTells, ReadTells
<1>1. ASSUME NEW i \in g.items
      PROVE  i.says \in was[i.at] /\ \A s \in i.print : s[2] \in was[s[1]]
  <2>1. PICK p \in Registered(d.read) :
          i = Item(p, d.read[p], IF p \in DOMAIN d.audited THEN d.audited[p].print ELSE {})
    BY <1>1 DEF Generation
  <2>2. p \in DOMAIN d.read
    BY DEF Registered, Declared
  <2> QED
    BY <2>1, <2>2 DEF Item, AuditTells
<1>2. ASSUME NEW i \in g.issues
      PROVE  WasSo(i, was)
  <2>1. i \in ManifestIssues(d.read) \/ i \in Unregistered(d.read, d.candidates) \/ i \in audits
    BY <1>2 DEF Generation
  <2>2. ASSUME i \in ManifestIssues(d.read) PROVE WasSo(i, was)
    <3>1. CASE \E p \in DOMAIN d.read : d.read[p] = Absent /\ i = Issue("source_unavailable", p, Absent)
      BY <3>1 DEF Issue, WasSo
    <3>2. CASE \E p \in DOMAIN d.read : d.read[p] = Broken /\ i = Issue("invalid_manifest", p, Broken)
      BY <3>2 DEF Issue, WasSo
    <3>3. ASSUME NEW p \in Declared(d.read) \ Registered(d.read),
                 i = Issue("duplicate_id", p, d.read[p])
          PROVE  WasSo(i, was)
      <4>1. p \in Namesakes(d.read, p)
        BY DEF Namesakes
      <4>2. PICK q \in Namesakes(d.read, p) : q # p
        BY <4>1 DEF Registered
      <4>3. /\ q \in Manifests \ {p} /\ d.read[q] \in was[q] \ {Absent, Broken}
            /\ d.read[q].id = d.read[p].id /\ d.read[p] \in was[p]
        BY <4>2 DEF Namesakes, Declared
      <4> QED
        BY <3>3, <4>3 DEF Issue, WasSo
    <3> QED
      BY <2>2, <3>1, <3>2, <3>3 DEF ManifestIssues
  <2>3. ASSUME i \in Unregistered(d.read, d.candidates) PROVE WasSo(i, was)
    <3>1. PICK k \in d.candidates : i = Issue("unregistered_candidate", k, Absent)
      BY <2>3 DEF Unregistered
    <3>2. was[k] # {Absent}
      OBVIOUS
    <3> QED
      BY <3>1, <3>2 DEF Issue, WasSo
  <2>4. ASSUME i \in audits PROVE WasSo(i, was)
    BY <2>4 DEF AuditTells, WasSo
  <2> QED
    BY <2>1, <2>2, <2>3, <2>4
<1>3. ASSUME NEW p \in Manifests, Absent \notin was[p]
      PROVE  \/ \E i \in g.items : i.at = p
             \/ \E i \in g.issues : i.at = p /\ i.code \in {"invalid_manifest", "duplicate_id"}
  <2>1. p \in DOMAIN d.read /\ d.read[p] # Absent
    BY <1>3
  <2>2. CASE d.read[p] = Broken
    <3> DEFINE i == Issue("invalid_manifest", p, Broken)
    <3>1. i \in g.issues
      BY <2>1, <2>2 DEF Generation, ManifestIssues
    <3> QED
      BY <3>1 DEF Issue
  <2>3. CASE p \in Declared(d.read) \ Registered(d.read)
    <3> DEFINE i == Issue("duplicate_id", p, d.read[p])
    <3>1. i \in g.issues
      BY <2>3 DEF Generation, ManifestIssues
    <3> QED
      BY <3>1 DEF Issue
  <2>4. CASE p \in Registered(d.read)
    <3> DEFINE i == Item(p, d.read[p], IF p \in DOMAIN d.audited THEN d.audited[p].print ELSE {})
    <3>1. i \in g.items
      BY <2>4 DEF Generation
    <3> QED
      BY <3>1 DEF Item
  <2> QED
    BY <2>1, <2>2, <2>3, <2>4 DEF Declared
<1> HIDE DEF g
<1>4. IsFresh(g, was)
  BY <1>1, <1>2, <1>3 DEF IsFresh
<1> QED
  BY <1>4 DEF g

(* What is built of finitely many files can be listed.                     *)
LEMMA BuildIsFinite ==
  ASSUME NEW d, NEW was, ScanTells(d, was)
  PROVE  IsFinite(Generation(d.read, d.candidates, d.audited))
<1> DEFINE R == Registered(d.read)
           f == [p \in R |-> Item(p, d.read[p],
                               IF p \in DOMAIN d.audited THEN d.audited[p].print ELSE {})]
<1>1. IsFiniteSet(DOMAIN d.read) /\ IsFiniteSet(d.candidates)
  BY PathsAssumption, FS_Subset DEF ScanTells, ReadTells
<1>2. IsFiniteSet(Declared(d.read)) /\ IsFiniteSet(R)
  BY <1>1, FS_Subset DEF Declared, Registered
<1>3. IsFiniteSet(Generation(d.read, d.candidates, d.audited).items)
  <2>1. Generation(d.read, d.candidates, d.audited).items = Range(f)
    BY DEF Generation, Range
  <2> HIDE DEF R
  <2>2. IsFiniteSet(Range(f))
    <3>1. DOMAIN f = R
      OBVIOUS
    <3> HIDE DEF f
    <3> QED
      BY <1>2, <3>1, ImageIsFinite
  <2> QED
    BY <2>1, <2>2
<1>4. IsFiniteSet(ManifestIssues(d.read))
  <2> DEFINE A == {q \in DOMAIN d.read : d.read[q] = Absent}
             B == {q \in DOMAIN d.read : d.read[q] = Broken}
             D == Declared(d.read) \ Registered(d.read)
             a == [p \in A |-> Issue("source_unavailable", p, Absent)]
             b == [p \in B |-> Issue("invalid_manifest", p, Broken)]
             e == [p \in D |-> Issue("duplicate_id", p, d.read[p])]
  <2>1. ManifestIssues(d.read) = Range(a) \union Range(b) \union Range(e)
    BY DEF ManifestIssues, Range
  <2>2. IsFiniteSet(A) /\ IsFiniteSet(B) /\ IsFiniteSet(D)
    BY <1>1, <1>2, FS_Subset
  <2> HIDE DEF A, B, D
  <2>3. DOMAIN a = A /\ DOMAIN b = B /\ DOMAIN e = D
    OBVIOUS
  <2> HIDE DEF a, b, e
  <2>4. IsFiniteSet(Range(a)) /\ IsFiniteSet(Range(b)) /\ IsFiniteSet(Range(e))
    BY <2>2, <2>3, ImageIsFinite
  <2>5. IsFiniteSet(Range(a) \union Range(b))
    BY <2>4, FS_Union
  <2> QED
    BY <2>1, <2>4, <2>5, FS_Union
<1>5. IsFiniteSet(Unregistered(d.read, d.candidates))
  <2> DEFINE U == d.candidates \ UNION {Sources(d.read[p], d.candidates) : p \in Registered(d.read)}
             u == [k \in U |-> Issue("unregistered_candidate", k, Absent)]
  <2>1. Unregistered(d.read, d.candidates) = Range(u)
    BY DEF Unregistered, Range
  <2>2. IsFiniteSet(U)
    BY <1>1, FS_Subset
  <2> HIDE DEF U
  <2>3. DOMAIN u = U
    OBVIOUS
  <2> HIDE DEF u
  <2> QED
    BY <2>1, <2>2, <2>3, ImageIsFinite
<1>6. IsFiniteSet(UNION {d.audited[p].issues : p \in DOMAIN d.audited})
  <2> DEFINE w == [p \in DOMAIN d.audited |-> d.audited[p].issues]
  <2>1. IsFiniteSet(DOMAIN d.audited)
    BY <1>2, FS_Subset DEF ScanTells
  <2>2. {d.audited[p].issues : p \in DOMAIN d.audited} = Range(w)
    BY DEF Range
  <2>3. \A T \in Range(w) : IsFiniteSet(T)
    BY <2>2 DEF ScanTells, AuditTells
  <2>4. DOMAIN w = DOMAIN d.audited
    OBVIOUS
  <2> HIDE DEF w
  <2>5. IsFiniteSet(Range(w))
    BY <2>1, <2>4, ImageIsFinite
  <2> QED
    BY <2>2, <2>3, <2>5, FS_UNION
<1>7. IsFiniteSet(Generation(d.read, d.candidates, d.audited).issues)
  <2>1. IsFiniteSet(ManifestIssues(d.read) \union Unregistered(d.read, d.candidates))
    BY <1>4, <1>5, FS_Union
  <2> QED
    BY <1>6, <2>1, FS_Union DEF Generation
<1> QED
  BY <1>3, <1>7 DEF IsFinite

(* A call that refreshes notices every edit.                               *)
LEMMA NextSeen ==
  ASSUME Shapes, CallsFit, SeenFit, [Next]_vars
  PROVE  SeenFit'
<1>0. \A c \in Calls : (ReadTotal(c) => TotalRead(c)) /\ (ReadPage(c) => PageRead(c))
  BY TotalIsRead, PageIsRead
<1> USE DEF Shapes, CallFields, CallsFit, CallFits, SeenFit, SeenFits,
        Refreshing, Answering, At, Go, To, End, Scan, Forget, Resolved, NoCall,
        tree, tables
<1>1. CASE Tick
  BY <1>1 DEF Tick
<1>2. ASSUME NEW p \in Paths, Edit(p) PROVE SeenFit'
  BY <1>2 DEF Edit
<1>3. ASSUME NEW s \in Servers, Restart(s) PROVE SeenFit'
  BY <1>3 DEF Restart
<1>4. ASSUME NEW c \in Calls, NEW s \in Servers, Continue(c, s) PROVE SeenFit'
  BY <1>4 DEF Continue
<1>5. ASSUME NEW c \in Calls, NEW s \in Servers, NEW q \in Queries, Begin(c, s,
      q) PROVE SeenFit'
  BY <1>5 DEF Begin
<1>6. ASSUME NEW c \in Calls, CursorExpired(c) PROVE SeenFit'
  BY <1>6 DEF CursorExpired
<1>7. ASSUME NEW c \in Calls, Refresh(c) PROVE SeenFit'
  <2>1. CASE ListManifests(c) BY <2>1 DEF ListManifests
  <2>2. CASE ReadManifest(c) BY <2>2 DEF ReadManifest
  <2>3. CASE ListCandidates(c) BY <2>3 DEF ListCandidates
  <2>4. CASE AuditItem(c) BY <2>4 DEF AuditItem
  <2>5. CASE Probe(c) BY <2>5 DEF Probe
  <2>6. CASE DeleteRetired(c) BY <2>6 DEF DeleteRetired
  <2>7. CASE Unchanged(c) BY <2>7 DEF Unchanged
  <2>8. CASE Changed(c) BY <2>8 DEF Changed
  <2>9. CASE Publish(c) BY <2>9 DEF Publish
  <2>10. CASE PublishFails(c) BY <2>10 DEF PublishFails
  <2>11. CASE Reread(c) BY <2>11 DEF Reread
  <2>12. CASE RefreshFails(c) BY <2>12 DEF RefreshFails
  <2> QED BY <1>7, <2>1, <2>2, <2>3, <2>4, <2>5, <2>6, <2>7, <2>8, <2>9, <2>10,
          <2>11, <2>12 DEF Refresh
<1>8. ASSUME NEW c \in Calls, Answer(c) PROVE SeenFit'
  <2>1. CASE FindSet(c) BY <2>1 DEF FindSet
  <2>2. CASE FindNone(c) BY <2>2 DEF FindNone
  <2>3. CASE SearchRows(c) BY <2>3 DEF SearchRows
  <2>4. CASE ReadTerms(c) BY <2>4 DEF ReadTerms
  <2>5. CASE IssueRows(c) BY <2>5 DEF IssueRows
  <2>6. CASE GetItem(c) BY <2>6 DEF GetItem
  <2>7. CASE CreateSet(c) BY <2>7 DEF CreateSet
  <2>8. CASE ReadTotal(c)
    <3> HIDE DEF Shapes, CallFits, SeenFits, NoCall
    <3>1. /\ UNCHANGED <<files, seen>> /\ \A e \in Calls : e # c => call'[e] = call[e]
          /\ call'[c] = NoCall \/ call'[c].pc = "page"
      BY <2>8, <1>0 DEF TotalRead
    <3>2. \A e \in Calls : call'[e].pc \in Refreshing => call'[e] = call[e]
      BY <3>1 DEF NoCall
    <3> QED
      BY <3>1, <3>2 DEF SeenFits
  <2>9. CASE ReadPage(c)
    <3> HIDE DEF Shapes, CallFits, SeenFits, NoCall
    <3>1. UNCHANGED <<files, seen>> /\ call' = [call EXCEPT ![c] = NoCall]
      BY <2>9, <1>0 DEF PageRead
    <3>2. \A e \in Calls : call'[e].pc \in Refreshing => call'[e] = call[e]
      BY <3>1 DEF NoCall, Shapes
    <3> QED
      BY <3>1, <3>2 DEF SeenFits
  <2>10. CASE PageFails(c) BY <2>10 DEF PageFails
  <2> QED BY <1>8, <2>1, <2>2, <2>3, <2>4, <2>5, <2>6, <2>7, <2>8, <2>9, <2>10
          DEF Answer
<1>9. CASE UNCHANGED vars
  BY <1>9 DEF vars
<1> QED
  BY <1>1, <1>2, <1>3, <1>4, <1>5, <1>6, <1>7, <1>8, <1>9 DEF Next

(* What a refreshing call read stays true of what it has seen.             *)
LEMMA NextScans ==
  ASSUME Shapes, CallsFit, SeenFit, ScansFit, [Next]_vars
  PROVE  ScansFit'
<1>0. \A c \in Calls : (ReadTotal(c) => TotalRead(c)) /\ (ReadPage(c) => PageRead(c))
  BY TotalIsRead, PageIsRead
<1> USE DEF Shapes, CallFields, CallsFit, CallFits, ScansFit, ScanFits,
        Refreshing, Answering, At, Go, To, End, Scan, Forget, Resolved, NoCall,
        tree, tables
<1>1. CASE Tick
  BY <1>1 DEF Tick
<1>2. ASSUME NEW p \in Paths, Edit(p) PROVE ScansFit'
  <2>1. ASSUME NEW c \in Calls, (call[c].pc \in Refreshing)' PROVE ScanFits(c)'
    <3>1. call[c].pc \in Refreshing /\ call' = call /\ scan' = scan
      BY <1>2, <2>1 DEF Edit
    <3>2. \A q \in Paths : seen[c][q] \subseteq seen'[c][q]
      BY <1>2, <3>1 DEF Edit, SeenFit, SeenFits
    <3>3. ScanTells(scan'[c], seen'[c])
      BY <3>1, <3>2, ScansStayTrue DEF ScansFit, ScanFits
    <3>4. \A q \in Manifests : Absent \in seen[c][q] => Absent \in seen'[c][q]
      BY <3>2 DEF Paths
    <3> QED
      BY <3>1, <3>3, <3>4 DEF ScansFit, ScanFits
  <2> QED
    BY <2>1 DEF ScansFit, ScanFits
<1>3. ASSUME NEW s \in Servers, Restart(s) PROVE ScansFit'
  BY <1>3 DEF Restart
<1>4. ASSUME NEW c \in Calls, NEW s \in Servers, Continue(c, s) PROVE ScansFit'
  BY <1>4 DEF Continue
<1>5. ASSUME NEW c \in Calls, NEW s \in Servers, NEW q \in Queries, Begin(c, s,
      q) PROVE ScansFit'
  BY <1>5 DEF Begin
<1>6. ASSUME NEW c \in Calls, CursorExpired(c) PROVE ScansFit'
  BY <1>6 DEF CursorExpired
<1>7. ASSUME NEW c \in Calls, Refresh(c) PROVE ScansFit'
  <2>1. CASE ListManifests(c)
    <3> DEFINE todo == {p \in Manifests : files[p] # Absent}
    <3>1. /\ call'[c].pc = "read" /\ \A e \in Calls : e # c => ScanFits(e)'
          /\ scan'[c] = [NoScan EXCEPT !.todo = todo]
          /\ \A p \in Paths : seen'[c][p] = {files[p]}
      BY <2>1 DEF ListManifests
    <3>2. /\ scan'[c].todo = todo /\ scan'[c].read = <<>> /\ scan'[c].audited = <<>>
          /\ scan'[c].candidates = {}
      BY <3>1 DEF NoScan
    <3>3. DOMAIN scan'[c].read = {} /\ DOMAIN scan'[c].audited = {}
      BY <3>2
    <3>4. ScanTells(scan'[c], seen'[c])
      BY <3>2, <3>3 DEF ScanTells, ReadTells
    <3>5. ScanFits(c)'
      BY <3>1, <3>2, <3>4 DEF Paths
    <3> QED
      BY <3>1, <3>5 DEF ScansFit
  <2>2. CASE ReadManifest(c)
    <3> DEFINE p == CHOOSE x \in scan[c].todo : TRUE
               read == With(scan[c].read, p, files[p])
    <3>1. p \in scan[c].todo /\ call[c].pc = "read"
      BY <2>2 DEF ReadManifest
    <3>2. p \in Manifests /\ scan[c].audited = <<>> /\ ScanTells(scan[c], seen[c])
      BY <3>1 DEF ScansFit, ScanFits
    <3>3. DOMAIN read = DOMAIN scan[c].read \union {p} /\ read[p] = files[p]
          /\ \A q \in DOMAIN scan[c].read \ {p} : read[q] = scan[c].read[q]
      BY DEF With
    <3>4. /\ call' = call /\ seen' = seen /\ \A e \in Calls : e # c => ScanFits(e)'
          /\ scan'[c] = [scan[c] EXCEPT !.todo = scan[c].todo \ {p}, !.read = read]
      BY <2>2 DEF ReadManifest, ScansFit, ScanFits
    <3> HIDE DEF p, read
    <3>5. /\ scan'[c].todo = scan[c].todo \ {p} /\ scan'[c].read = read
          /\ scan'[c].audited = <<>> /\ scan'[c].candidates = scan[c].candidates
      BY <3>2, <3>4 DEF ScanFields
    <3>6. files[p] \in seen[c][p]
      BY <3>1, <3>2 DEF SeenFit, SeenFits, Paths
    <3>7. ReadTells(read, seen[c])
      BY <3>2, <3>3, <3>6 DEF ScanTells, ReadTells
    <3>8. DOMAIN scan'[c].audited = {}
      BY <3>5
    <3>9. ScanTells(scan'[c], seen'[c])
      BY <3>2, <3>4, <3>5, <3>7, <3>8 DEF ScanTells
    <3>10. ScanFits(c)'
      BY <3>1, <3>2, <3>3, <3>4, <3>5, <3>9 DEF ScansFit, ScanFits
    <3> QED
      BY <3>4, <3>10 DEF ScansFit
  <2>3. CASE ListCandidates(c)
    <3> DEFINE candidates == {k \in Scripts : files[k] # Absent}
               todo == Executing(scan[c].read)
    <3>1. call[c].pc = "read" /\ call'[c].pc = "audit" /\ scan[c].todo = {}
      BY <2>3 DEF ListCandidates
    <3>2. ScanTells(scan[c], seen[c])
      BY <3>1 DEF ScansFit, ScanFits
    <3>3. /\ seen' = seen /\ \A e \in Calls : e # c => ScanFits(e)'
          /\ scan'[c] = [scan[c] EXCEPT !.candidates = candidates, !.base = current,
                                        !.todo = todo]
      BY <2>3 DEF ListCandidates, ScansFit, ScanFits
    <3>4. /\ scan'[c].todo = todo /\ scan'[c].read = scan[c].read
          /\ scan'[c].audited = scan[c].audited /\ scan'[c].candidates = candidates
      BY <3>3 DEF ScanFields
    <3>5. todo \subseteq Declared(scan[c].read)
      BY DEF Executing, Registered
    <3>6. \A k \in candidates : \E x \in seen[c][k] : x # Absent
      BY <3>1 DEF SeenFit, SeenFits, Paths
    <3>7. ScanTells(scan'[c], seen'[c])
      BY <3>2, <3>3, <3>4, <3>6 DEF ScanTells
    <3>8. \A p \in Manifests : Absent \notin seen[c][p] => p \in DOMAIN scan[c].read
      BY <3>1 DEF ScansFit, ScanFits
    <3> HIDE DEF todo
    <3>9. ScanFits(c)'
      BY <3>1, <3>3, <3>4, <3>5, <3>7, <3>8 DEF ScanFits
    <3> QED
      BY <3>3, <3>9 DEF ScansFit
  <2>4. CASE AuditItem(c)
    <3> DEFINE d == scan[c]
               p == CHOOSE x \in d.todo : TRUE
               sources == Sources(d.read[p], d.candidates)
               print == Fingerprint(sources, files)
               earlier == UNION {g.items : g \in d.base \intersect gens}
               a == [print |-> print,
                     issues |-> MissingSources(p, sources, files) \union
                                  IF NeedsReview(earlier, d.read[p], print)
                                  THEN {Issue("needs_review", p, d.read[p])} ELSE {}]
               audited == With(d.audited, p, a)
    <3>1. p \in d.todo /\ call[c].pc = "audit"
      BY <2>4 DEF AuditItem
    <3>2. p \in Declared(d.read) /\ ScanTells(d, seen[c])
      BY <3>1 DEF ScansFit, ScanFits
    <3>3. AuditTells(a, seen[c])
      <4>1. \A x \in Paths : files[x] \in seen[c][x] /\ seen[c][x] \subseteq Contents[x]
        BY <3>1 DEF SeenFit, SeenFits
      <4>2. ReadTells(d.read, seen[c]) /\ d.candidates \subseteq Scripts
        BY <3>2 DEF ScanTells
      <4> HIDE DEF d, p, earlier
      <4> QED
        BY <3>2, <4>1, <4>2, AuditIsTrue
    <3>4. /\ call' = call /\ seen' = seen /\ \A e \in Calls : e # c => ScanFits(e)'
          /\ scan'[c] = [d EXCEPT !.todo = d.todo \ {p}, !.audited = audited]
      BY <2>4 DEF AuditItem, ScansFit, ScanFits
    <3> HIDE DEF a
    <3>5. DOMAIN audited = DOMAIN d.audited \union {p} /\ audited[p] = a
          /\ \A q \in DOMAIN d.audited \ {p} : audited[q] = d.audited[q]
      BY DEF With
    <3> HIDE DEF audited, p
    <3>6. /\ scan'[c].todo = d.todo \ {p} /\ scan'[c].read = d.read
          /\ scan'[c].audited = audited /\ scan'[c].candidates = d.candidates
      BY <3>4 DEF ScanFields
    <3>7. ScanTells(scan'[c], seen'[c])
      BY <3>2, <3>3, <3>4, <3>5, <3>6 DEF ScanTells
    <3>8. ScanFits(c)'
      BY <3>1, <3>4, <3>6, <3>7 DEF ScansFit, ScanFits
    <3> QED
      BY <3>4, <3>8 DEF ScansFit
  <2>5. CASE Probe(c) BY <2>5 DEF Probe
  <2>6. CASE DeleteRetired(c) BY <2>6 DEF DeleteRetired
  <2>7. CASE Unchanged(c) BY <2>7 DEF Unchanged
  <2>8. CASE Changed(c) BY <2>8 DEF Changed
  <2>9. CASE Publish(c) BY <2>9 DEF Publish
  <2>10. CASE PublishFails(c) BY <2>10 DEF PublishFails
  <2>11. CASE Reread(c) BY <2>11 DEF Reread
  <2>12. CASE RefreshFails(c) BY <2>12 DEF RefreshFails
  <2> QED BY <1>7, <2>1, <2>2, <2>3, <2>4, <2>5, <2>6, <2>7, <2>8, <2>9, <2>10,
          <2>11, <2>12 DEF Refresh
<1>8. ASSUME NEW c \in Calls, Answer(c) PROVE ScansFit'
  <2>1. CASE FindSet(c) BY <2>1 DEF FindSet
  <2>2. CASE FindNone(c) BY <2>2 DEF FindNone
  <2>3. CASE SearchRows(c) BY <2>3 DEF SearchRows
  <2>4. CASE ReadTerms(c) BY <2>4 DEF ReadTerms
  <2>5. CASE IssueRows(c) BY <2>5 DEF IssueRows
  <2>6. CASE GetItem(c) BY <2>6 DEF GetItem
  <2>7. CASE CreateSet(c) BY <2>7 DEF CreateSet
  <2>8. CASE ReadTotal(c)
    BY <2>8, <1>0 DEF TotalRead
  <2>9. CASE ReadPage(c)
    BY <2>9, <1>0 DEF PageRead
  <2>10. CASE PageFails(c) BY <2>10 DEF PageFails
  <2> QED BY <1>8, <2>1, <2>2, <2>3, <2>4, <2>5, <2>6, <2>7, <2>8, <2>9, <2>10
          DEF Answer
<1>9. CASE UNCHANGED vars
  BY <1>9 DEF vars
<1> QED
  BY <1>1, <1>2, <1>3, <1>4, <1>5, <1>6, <1>7, <1>8, <1>9 DEF Next

(* Whoever published it, what a call answers from was built of what it has *)
(* seen.                                                                   *)
LEMMA NextFresh ==
  ASSUME Shapes, CallsFit, CallsHaveNone, ScansFit, AnswersAreFresh,
         [Next]_vars
  PROVE  AnswersAreFresh'
<1>0. \A c \in Calls : (ReadTotal(c) => TotalRead(c)) /\ (ReadPage(c) => PageRead(c))
  BY TotalIsRead, PageIsRead
<1> USE DEF Shapes, CallFields, CallsFit, CallFits, CallsHaveNone,
        AnswersAreFresh, Refreshing, Answering, At, Go, To, End, Scan, Forget,
        Resolved, NoCall, tree, tables
<1>1. CASE Tick
  BY <1>1 DEF Tick
<1>2. ASSUME NEW p \in Paths, Edit(p) PROVE AnswersAreFresh'
  BY <1>2 DEF Edit
<1>3. ASSUME NEW s \in Servers, Restart(s) PROVE AnswersAreFresh'
  BY <1>3 DEF Restart
<1>4. ASSUME NEW c \in Calls, NEW s \in Servers, Continue(c, s) PROVE
      AnswersAreFresh'
  BY <1>4 DEF Continue
<1>5. ASSUME NEW c \in Calls, NEW s \in Servers, NEW q \in Queries, Begin(c, s,
      q) PROVE AnswersAreFresh'
  BY <1>5 DEF Begin
<1>6. ASSUME NEW c \in Calls, CursorExpired(c) PROVE AnswersAreFresh'
  BY <1>6 DEF CursorExpired
<1>7. ASSUME NEW c \in Calls, Refresh(c) PROVE AnswersAreFresh'
  <2>1. CASE ListManifests(c) BY <2>1 DEF ListManifests
  <2>2. CASE ReadManifest(c) BY <2>2 DEF ReadManifest
  <2>3. CASE ListCandidates(c) BY <2>3 DEF ListCandidates
  <2>4. CASE AuditItem(c) BY <2>4 DEF AuditItem
  <2>5. CASE Probe(c) BY <2>5 DEF Probe
  <2>6. CASE DeleteRetired(c) BY <2>6 DEF DeleteRetired
  <2>7. CASE Unchanged(c)
    <3>1. call[c].pc \in Refreshing \ {"read"}
      BY <2>7 DEF Unchanged
    <3>2. IsFresh(Built(c), seen[c])
      BY <3>1, BuildIsFresh DEF ScansFit, ScanFits, Built
    <3> HIDE DEF IsFresh
    <3>3. call'[c].gen = Built(c) /\ seen' = seen /\ \A e \in Calls : e # c => call'[e] = call[e]
      BY <2>7 DEF Unchanged
    <3> QED
      BY <3>2, <3>3
  <2>8. CASE Changed(c) BY <2>8 DEF Changed
  <2>9. CASE Publish(c)
    <3>1. call[c].pc \in Refreshing \ {"read"}
      BY <2>9 DEF Publish
    <3>2. IsFresh(Built(c), seen[c])
      BY <3>1, BuildIsFresh DEF ScansFit, ScanFits, Built
    <3> HIDE DEF IsFresh
    <3>3. call'[c].gen = Built(c) /\ seen' = seen /\ \A e \in Calls : e # c => call'[e] = call[e]
      BY <2>9 DEF Publish
    <3> QED
      BY <3>2, <3>3
  <2>10. CASE PublishFails(c) BY <2>10 DEF PublishFails
  <2>11. CASE Reread(c)
    <3>1. call[c].pc \in Refreshing \ {"read"}
      BY <2>11 DEF Reread
    <3>2. IsFresh(Built(c), seen[c])
      BY <3>1, BuildIsFresh DEF ScansFit, ScanFits, Built
    <3> HIDE DEF IsFresh
    <3>3. call'[c].gen = Built(c) /\ seen' = seen /\ \A e \in Calls : e # c => call'[e] = call[e]
      BY <2>11 DEF Reread
    <3> QED
      BY <3>2, <3>3
  <2>12. CASE RefreshFails(c) BY <2>12 DEF RefreshFails
  <2> QED BY <1>7, <2>1, <2>2, <2>3, <2>4, <2>5, <2>6, <2>7, <2>8, <2>9, <2>10,
          <2>11, <2>12 DEF Refresh
<1>8. ASSUME NEW c \in Calls, Answer(c) PROVE AnswersAreFresh'
  <2>1. CASE FindSet(c) BY <2>1 DEF FindSet
  <2>2. CASE FindNone(c) BY <2>2 DEF FindNone
  <2>3. CASE SearchRows(c) BY <2>3 DEF SearchRows
  <2>4. CASE ReadTerms(c) BY <2>4 DEF ReadTerms
  <2>5. CASE IssueRows(c) BY <2>5 DEF IssueRows
  <2>6. CASE GetItem(c) BY <2>6 DEF GetItem
  <2>7. CASE CreateSet(c) BY <2>7 DEF CreateSet
  <2>8. CASE ReadTotal(c)
    <3> HIDE DEF Shapes, AnswersAreFresh, NoCall
    <3>1. /\ seen' = seen /\ \A e \in Calls : e # c => call'[e] = call[e]
          /\ call'[c] = NoCall \/ call'[c].gen = call[c].gen
      BY <2>8, <1>0 DEF TotalRead
    <3>2. \A e \in Calls : call'[e].gen = None \/ call'[e].gen = call[e].gen
      BY <3>1 DEF NoCall
    <3> QED
      BY <3>1, <3>2 DEF AnswersAreFresh
  <2>9. CASE ReadPage(c)
    <3> HIDE DEF Shapes, AnswersAreFresh
    <3>1. seen' = seen /\ call' = [call EXCEPT ![c] = NoCall]
      BY <2>9, <1>0 DEF PageRead
    <3>2. \A e \in Calls : call'[e].gen = None \/ call'[e].gen = call[e].gen
      BY <3>1 DEF Shapes
    <3> QED
      BY <3>1, <3>2 DEF AnswersAreFresh
  <2>10. CASE PageFails(c) BY <2>10 DEF PageFails
  <2> QED BY <1>8, <2>1, <2>2, <2>3, <2>4, <2>5, <2>6, <2>7, <2>8, <2>9, <2>10
          DEF Answer
<1>9. CASE UNCHANGED vars
  BY <1>9 DEF vars
<1> QED
  BY <1>1, <1>2, <1>3, <1>4, <1>5, <1>6, <1>7, <1>8, <1>9 DEF Next

(* A list of a finite set is as long as the set is large.                  *)
LEMMA EachIsCounted ==
  ASSUME NEW s, NEW S, IsFiniteSet(S), Each(s, S)
  PROVE  Len(s) = Cardinality(S)
<1> DEFINE n == Len(s)
<1>1. n \in Nat /\ DOMAIN s = 1 .. n /\ s \in [1 .. n -> S]
  BY DEF Each, IsList, Range
<1>2. s \in Bijection(1 .. n, S)
  <2>1. \A i, j \in 1 .. n : s[i] = s[j] => i = j
    BY <1>1 DEF Each
  <2>2. \A y \in S : \E i \in 1 .. n : s[i] = y
    BY <1>1 DEF Each, Range
  <2> HIDE DEF n
  <2>3. s \in Injection(1 .. n, S) /\ s \in Surjection(1 .. n, S)
    BY <1>1, <2>1, <2>2 DEF Injection, IsInjective, Surjection
  <2> QED
    BY <2>3 DEF Bijection
<1> HIDE DEF n
<1>3. IsFiniteSet(1 .. n) /\ Cardinality(1 .. n) = n
  BY <1>1, FS_Interval
<1>4. ExistsBijection(1 .. n, S)
  BY <1>2 DEF ExistsBijection
<1> QED
  BY <1>3, <1>4, FS_Bijection DEF n

(* SetToSeq lists a finite set.                                            *)
LEMMA SetIsListed ==
  ASSUME NEW S, IsFiniteSet(S)
  PROVE  Each(SetToSeq(S), S)
<1> DEFINE n == Cardinality(S)
           s == SetToSeq(S)
<1>1. n \in Nat /\ ExistsBijection(1 .. n, S)
  BY FS_CardinalityType
<1>2. PICK f : f \in Bijection(1 .. n, S)
  BY <1>1 DEF ExistsBijection
<1>3. f \in [1 .. n -> S] /\ IsInjective(f)
  BY <1>2 DEF Bijection, Injection, IsInjective
<1>4. s \in [1 .. n -> S] /\ IsInjective(s)
  BY <1>3 DEF SetToSeq
<1> HIDE DEF s
<1>5. s \in Injection(1 .. n, S)
  BY <1>4 DEF Injection, IsInjective
<1>6. IsFiniteSet(1 .. n) /\ Cardinality(1 .. n) = n
  BY <1>1, FS_Interval
<1>7. s \in Surjection(1 .. n, S)
  BY <1>5, <1>6, FS_Injection
<1>8. Range(s) = S
  BY <1>4, <1>7 DEF Surjection, Range
<1>9. s \in Seq(S)
  BY <1>1, <1>4
<1>10. Each(s, S)
  BY <1>4, <1>8, <1>9 DEF Each, IsList, IsInjective
<1> QED
  BY <1>10 DEF s

(* What searches and audits find is a list.                                *)
LEMMA FoundIsList ==
  ASSUME NEW g, NEW ask, IsFinite(g), ask.mode \in {"search", "audit"}
  PROVE  Each(Found(g, ask), IF ask.mode = "search" THEN Matches(g, ask.word) ELSE g.issues)
<1>1. IsFiniteSet(g.issues) /\ IsFiniteSet(Matches(g, ask.word))
  BY FS_Subset DEF IsFinite, Matches
<1>2. CASE ask.mode = "search"
  <2>1. Found(g, ask) = SetToSeq(Matches(g, ask.word))
    BY <1>2 DEF Found
  <2> QED
    BY <1>1, <1>2, <2>1, SetIsListed
<1>3. CASE ask.mode = "audit"
  <2>1. Found(g, ask) = SetToSeq(g.issues)
    BY <1>3 DEF Found
  <2> QED
    BY <1>1, <1>3, <2>1, SetIsListed
<1> QED
  BY <1>2, <1>3

(* One more item is listed.                                                *)
LEMMA EachAppended ==
  ASSUME NEW s, NEW S, NEW x, Each(s, S), x \notin S
  PROVE  Each(Append(s, x), S \union {x})
<1> DEFINE t == Append(s, x)
<1>1. s \in Seq(S) /\ DOMAIN s = 1 .. Len(s) /\ Len(s) \in Nat
  BY DEF Each, IsList
<1>2. t \in Seq(S \union {x}) /\ DOMAIN t = 1 .. Len(s) + 1 /\ t[Len(s) + 1] = x
      /\ \A i \in 1 .. Len(s) : t[i] = s[i]
  BY <1>1
<1>3. \A i \in 1 .. Len(s) : s[i] \in S
  BY <1>1
<1> HIDE DEF t
<1>4. Range(t) = S \union {x}
  <2>1. \A y \in S : \E i \in 1 .. Len(s) : s[i] = y
    BY <1>1 DEF Each, Range
  <2>2. S \union {x} \subseteq Range(t)
    BY <1>1, <1>2, <2>1 DEF Range
  <2>3. Range(t) \subseteq S \union {x}
    BY <1>1, <1>2, <1>3 DEF Range
  <2> QED
    BY <2>2, <2>3
<1>5. \A i, j \in DOMAIN t : t[i] = t[j] => i = j
  BY <1>1, <1>2, <1>3 DEF Each
<1> QED
  BY <1>2, <1>4, <1>5 DEF Each, IsList, t

(* Two lists of what a search finds are equally long.                      *)
LEMMA EachLists ==
  ASSUME NEW s, NEW S, NEW g, NEW ask, IsFiniteSet(S), Each(s, S), Each(Found(g, ask), S)
  PROVE  Lists(s, g, ask)
<1>1. Len(s) = Len(Found(g, ask))
  BY EachIsCounted
<1> QED
  BY <1>1 DEF Lists, Each

(* A page that goes on where the pages before it ended.                    *)
LEMMA PageIsCut ==
  ASSUME NEW items, IsList(items), NEW from \in 0 .. Len(items), NEW limit \in Nat \ {0},
         NEW n \in 0 .. Len(FirstOf(SubSeq(items, from + 1, Len(items)), limit))
  PROVE  LET rows == FirstOf(SubSeq(items, from + 1, Len(items)), limit)
         IN  /\ from + n \in from .. Len(items)
             /\ SubSeq(items, 1, from) \o SubSeq(rows, 1, n) = SubSeq(items, 1, from + n)
             /\ rows = <<>> => from = Len(items)
<1> DEFINE S == Range(items)
           m == Len(items)
           rest == SubSeq(items, from + 1, m)
           k == IF limit < Len(rest) THEN limit ELSE Len(rest)
           rows == SubSeq(rest, 1, k)
<1>1. items \in Seq(S) /\ m \in Nat /\ from \in Nat /\ from <= m
  BY DEF IsList
<1>2. /\ rest \in Seq(S) /\ Len(rest) = m - from
      /\ \A i \in 1 .. m - from : rest[i] = items[from + i]
  <2> HIDE DEF S
  <2>1. rest \in Seq(S) /\ Len(rest) = m - from
    BY <1>1
  <2>2. \A i \in 1 .. m - from : rest[i] = items[from + i]
    BY <1>1
  <2> QED
    BY <2>1, <2>2
<1> HIDE DEF rest, S
<1>3. k \in 0 .. m - from /\ (k = 0 => m = from)
  BY <1>1, <1>2
<1> HIDE DEF k
<1>4. rows \in Seq(S) /\ Len(rows) = k /\ \A i \in 1 .. k : rows[i] = items[from + i]
  BY <1>1, <1>2, <1>3
<1>5. rows = FirstOf(SubSeq(items, from + 1, Len(items)), limit)
  BY DEF FirstOf, rest, k
<1>6. n \in 0 .. k
  BY <1>4, <1>5
<1> HIDE DEF rows
<1> DEFINE more == SubSeq(rows, 1, n)
           next == SubSeq(items, from + 1, from + n)
<1>7. n \in Nat /\ n <= k /\ from + n \in from .. m
  BY <1>1, <1>3, <1>6
<1>8. more \in Seq(S) /\ Len(more) = n /\ \A i \in 1 .. n : more[i] = items[from + i]
  <2> HIDE DEF k, more, next, rest, S, m
  <2>1. n <= Len(rows) /\ n \in Nat /\ 1 .. n \subseteq 1 .. k
    BY <1>3, <1>4, <1>7
  <2>2. more \in Seq(S) /\ Len(more) = n
    BY <1>4, <2>1 DEF more
  <2>3. \A i \in 1 .. n : more[i] = rows[i]
    BY <1>4, <2>1 DEF more
  <2> QED
    BY <1>4, <2>1, <2>2, <2>3
<1>9. next \in Seq(S) /\ Len(next) = n /\ \A i \in 1 .. n : next[i] = items[from + i]
  BY <1>1, <1>7
<1>10. more = next
  <2> HIDE DEF more, next
  <2> QED
    BY <1>8, <1>9, SeqEqual
<1>11. SubSeq(items, 1, from) \o more = SubSeq(items, 1, from + n)
  <2>1. 1 \in 1 .. Len(items) + 1 /\ from \in 1 - 1 .. Len(items) /\ from + n \in from .. Len(items)
    BY <1>1, <1>7
  <2> HIDE DEF m, more
  <2>2. SubSeq(items, 1, from) \o SubSeq(items, from + 1, from + n) = SubSeq(items, 1, from + n)
    BY <1>1, <2>1, ConcatAdjacentSubSeq
  <2> QED
    BY <1>10, <2>2
<1>12. rows = <<>> => from = m
  BY <1>1, <1>3, <1>4
<1> HIDE DEF more
<1>13. /\ from + n \in from .. Len(items)
       /\ SubSeq(items, 1, from) \o more = SubSeq(items, 1, from + n)
       /\ rows = <<>> => from = Len(items)
  BY <1>7, <1>11, <1>12
<1> QED
  BY <1>5, <1>13 DEF more

(* The empty list has none.                                                *)
LEMMA NothingIsListed == Each(<<>>, {})
<1> DEFINE s == <<>>
<1>1. DOMAIN s = {} /\ Range(s) = {}
  BY DEF Range
<1> QED
  BY <1>1 DEF Each, IsList

(* A generation that is published can be listed.                           *)
LEMMA NextFinite ==
  ASSUME Shapes, ScansFit, GenerationsAreFinite, [Next]_vars
  PROVE  GenerationsAreFinite'
<1>0. \A c \in Calls : (ReadTotal(c) => TotalRead(c)) /\ (ReadPage(c) => PageRead(c))
  BY TotalIsRead, PageIsRead
<1> USE DEF Shapes, CallFields, GenerationsAreFinite, Refreshing, Answering,
        At, Go, To, End, Scan, Forget, Resolved, Whole, NoCall, tree, tables
<1>1. CASE Tick
  BY <1>1 DEF Tick
<1>2. ASSUME NEW p \in Paths, Edit(p) PROVE GenerationsAreFinite'
  BY <1>2 DEF Edit
<1>3. ASSUME NEW s \in Servers, Restart(s) PROVE GenerationsAreFinite'
  BY <1>3 DEF Restart
<1>4. ASSUME NEW c \in Calls, NEW s \in Servers, Continue(c, s) PROVE
      GenerationsAreFinite'
  BY <1>4 DEF Continue
<1>5. ASSUME NEW c \in Calls, NEW s \in Servers, NEW q \in Queries, Begin(c, s,
      q) PROVE GenerationsAreFinite'
  BY <1>5 DEF Begin
<1>6. ASSUME NEW c \in Calls, CursorExpired(c) PROVE GenerationsAreFinite'
  BY <1>6 DEF CursorExpired
<1>7. ASSUME NEW c \in Calls, Refresh(c) PROVE GenerationsAreFinite'
  <2>1. CASE ListManifests(c) BY <2>1 DEF ListManifests
  <2>2. CASE ReadManifest(c) BY <2>2 DEF ReadManifest
  <2>3. CASE ListCandidates(c) BY <2>3 DEF ListCandidates
  <2>4. CASE AuditItem(c) BY <2>4 DEF AuditItem
  <2>5. CASE Probe(c) BY <2>5 DEF Probe
  <2>6. CASE DeleteRetired(c) BY <2>6 DEF DeleteRetired
  <2>7. CASE Unchanged(c) BY <2>7 DEF Unchanged
  <2>8. CASE Changed(c) BY <2>8 DEF Changed
  <2>9. CASE Publish(c)
    <3>1. IsFinite(Built(c))
      BY <2>9, BuildIsFinite DEF Publish, ScansFit, ScanFits, Built
    <3> QED
      BY <2>9, <3>1 DEF Publish
  <2>10. CASE PublishFails(c) BY <2>10 DEF PublishFails
  <2>11. CASE Reread(c) BY <2>11 DEF Reread
  <2>12. CASE RefreshFails(c) BY <2>12 DEF RefreshFails
  <2> QED BY <1>7, <2>1, <2>2, <2>3, <2>4, <2>5, <2>6, <2>7, <2>8, <2>9, <2>10,
          <2>11, <2>12 DEF Refresh
<1>8. ASSUME NEW c \in Calls, Answer(c) PROVE GenerationsAreFinite'
  <2>1. CASE FindSet(c) BY <2>1 DEF FindSet
  <2>2. CASE FindNone(c) BY <2>2 DEF FindNone
  <2>3. CASE SearchRows(c) BY <2>3 DEF SearchRows
  <2>4. CASE ReadTerms(c) BY <2>4 DEF ReadTerms
  <2>5. CASE IssueRows(c) BY <2>5 DEF IssueRows
  <2>6. CASE GetItem(c) BY <2>6 DEF GetItem
  <2>7. CASE CreateSet(c) BY <2>7 DEF CreateSet
  <2>8. CASE ReadTotal(c)
    BY <2>8, <1>0 DEF TotalRead
  <2>9. CASE ReadPage(c)
    BY <2>9, <1>0 DEF PageRead
  <2>10. CASE PageFails(c) BY <2>10 DEF PageFails
  <2> QED BY <1>8, <2>1, <2>2, <2>3, <2>4, <2>5, <2>6, <2>7, <2>8, <2>9, <2>10
          DEF Answer
<1>9. CASE UNCHANGED vars
  BY <1>9 DEF vars
<1> QED
  BY <1>1, <1>2, <1>3, <1>4, <1>5, <1>6, <1>7, <1>8, <1>9 DEF Next

(* A result set that is created is the list of its query.                  *)
LEMMA NextSetsAreLists ==
  ASSUME Shapes, GenerationsAreHeld, GenerationsAreFinite, RowsFit,
         SetsAreLists, [Next]_vars
  PROVE  SetsAreLists'
<1>0. \A c \in Calls : (ReadTotal(c) => TotalRead(c)) /\ (ReadPage(c) => PageRead(c))
  BY TotalIsRead, PageIsRead
<1> USE DEF Shapes, CallFields, SetsAreLists, Refreshing, Answering, At, Go,
        To, End, Scan, Forget, Resolved, Whole, NoCall, tree, tables
<1>1. CASE Tick
  BY <1>1 DEF Tick
<1>2. ASSUME NEW p \in Paths, Edit(p) PROVE SetsAreLists'
  BY <1>2 DEF Edit
<1>3. ASSUME NEW s \in Servers, Restart(s) PROVE SetsAreLists'
  BY <1>3 DEF Restart
<1>4. ASSUME NEW c \in Calls, NEW s \in Servers, Continue(c, s) PROVE
      SetsAreLists'
  BY <1>4 DEF Continue
<1>5. ASSUME NEW c \in Calls, NEW s \in Servers, NEW q \in Queries, Begin(c, s,
      q) PROVE SetsAreLists'
  BY <1>5 DEF Begin
<1>6. ASSUME NEW c \in Calls, CursorExpired(c) PROVE SetsAreLists'
  BY <1>6 DEF CursorExpired
<1>7. ASSUME NEW c \in Calls, Refresh(c) PROVE SetsAreLists'
  <2>1. CASE ListManifests(c) BY <2>1 DEF ListManifests
  <2>2. CASE ReadManifest(c) BY <2>2 DEF ReadManifest
  <2>3. CASE ListCandidates(c) BY <2>3 DEF ListCandidates
  <2>4. CASE AuditItem(c) BY <2>4 DEF AuditItem
  <2>5. CASE Probe(c) BY <2>5 DEF Probe
  <2>6. CASE DeleteRetired(c) BY <2>6 DEF DeleteRetired
  <2>7. CASE Unchanged(c) BY <2>7 DEF Unchanged
  <2>8. CASE Changed(c) BY <2>8 DEF Changed
  <2>9. CASE Publish(c) BY <2>9 DEF Publish
  <2>10. CASE PublishFails(c) BY <2>10 DEF PublishFails
  <2>11. CASE Reread(c) BY <2>11 DEF Reread
  <2>12. CASE RefreshFails(c) BY <2>12 DEF RefreshFails
  <2> QED BY <1>7, <2>1, <2>2, <2>3, <2>4, <2>5, <2>6, <2>7, <2>8, <2>9, <2>10,
          <2>11, <2>12 DEF Refresh
<1>8. ASSUME NEW c \in Calls, Answer(c) PROVE SetsAreLists'
  <2>1. CASE FindSet(c) BY <2>1 DEF FindSet
  <2>2. CASE FindNone(c) BY <2>2 DEF FindNone
  <2>3. CASE SearchRows(c) BY <2>3 DEF SearchRows
  <2>4. CASE ReadTerms(c) BY <2>4 DEF ReadTerms
  <2>5. CASE IssueRows(c) BY <2>5 DEF IssueRows
  <2>6. CASE GetItem(c) BY <2>6 DEF GetItem
  <2>7. CASE CreateSet(c)
    <3> DEFINE g == call[c].gen
               ask == Ask(c)
               rows == call[c].rows
    <3>1. call[c].pc = "terms" /\ call[c].todo = {} /\ g \in gens
      BY <2>7 DEF CreateSet, GenerationsAreHeld, IsHeld
    <3>2. IsFinite(g)
      BY <3>1 DEF GenerationsAreFinite
    <3>3. Lists(rows, g, ask)
      <4>1. CASE ask.mode = "search" /\ rows # Found(g, ask)
        <5>1. Each(rows, {i \in g.items : Scores(i, Terms(i), ask.word)})
          BY <3>1, <4>1 DEF RowsFit, RowsFits, RowsAre
        <5>2. Each(rows, Matches(g, ask.word)) /\ IsFiniteSet(Matches(g, ask.word))
          BY <3>2, <5>1, FS_Subset DEF Matches, IsFinite
        <5> QED
          BY <3>2, <4>1, <5>2, FoundIsList, EachLists
      <4>2. CASE ask.mode \in {"search", "audit"} /\ rows = Found(g, ask)
        BY <3>2, <4>2, FoundIsList DEF Lists, Each
      <4> QED
        BY <3>1, <4>1, <4>2 DEF RowsFit, RowsFits, RowsAre
    <3>4. PICK S : sets' = With(Restrict(sets, DOMAIN sets \ S), call[c].set,
                                [gen |-> g, ask |-> ask, expires |-> call[c].clock + TTL,
                                 items |-> rows])
      BY <2>7 DEF CreateSet
    <3> HIDE DEF g, ask, rows
    <3> QED
      BY <3>3, <3>4 DEF With, Restrict
  <2>8. CASE ReadTotal(c)
    BY <2>8, <1>0 DEF TotalRead
  <2>9. CASE ReadPage(c)
    BY <2>9, <1>0 DEF PageRead
  <2>10. CASE PageFails(c) BY <2>10 DEF PageFails
  <2> QED BY <1>8, <2>1, <2>2, <2>3, <2>4, <2>5, <2>6, <2>7, <2>8, <2>9, <2>10
          DEF Answer
<1>9. CASE UNCHANGED vars
  BY <1>9 DEF vars
<1> QED
  BY <1>1, <1>2, <1>3, <1>4, <1>5, <1>6, <1>7, <1>8, <1>9 DEF Next

(* A call that has not found anything has no rows, and nothing left to     *)
(* look at.                                                                *)
LEMMA NextNoRows ==
  ASSUME Shapes, RowsAreNone, [Next]_vars
  PROVE  RowsAreNone'
<1>0. \A c \in Calls : (ReadTotal(c) => TotalRead(c)) /\ (ReadPage(c) => PageRead(c))
  BY TotalIsRead, PageIsRead
<1> USE DEF Shapes, CallFields, RowsAreNone, Numbered, Refreshing, At, Go, To,
        End, Scan, Forget, Resolved, Whole, NoCall, tree, tables
<1>1. CASE Tick
  BY <1>1 DEF Tick
<1>2. ASSUME NEW p \in Paths, Edit(p) PROVE RowsAreNone'
  BY <1>2 DEF Edit
<1>3. ASSUME NEW s \in Servers, Restart(s) PROVE RowsAreNone'
  BY <1>3 DEF Restart
<1>4. ASSUME NEW c \in Calls, NEW s \in Servers, Continue(c, s) PROVE
      RowsAreNone'
  BY <1>4 DEF Continue
<1>5. ASSUME NEW c \in Calls, NEW s \in Servers, NEW q \in Queries, Begin(c, s,
      q) PROVE RowsAreNone'
  BY <1>5 DEF Begin
<1>6. ASSUME NEW c \in Calls, CursorExpired(c) PROVE RowsAreNone'
  BY <1>6 DEF CursorExpired
<1>7. ASSUME NEW c \in Calls, Refresh(c) PROVE RowsAreNone'
  <2>1. CASE ListManifests(c) BY <2>1 DEF ListManifests
  <2>2. CASE ReadManifest(c) BY <2>2 DEF ReadManifest
  <2>3. CASE ListCandidates(c) BY <2>3 DEF ListCandidates
  <2>4. CASE AuditItem(c) BY <2>4 DEF AuditItem
  <2>5. CASE Probe(c) BY <2>5 DEF Probe
  <2>6. CASE DeleteRetired(c) BY <2>6 DEF DeleteRetired
  <2>7. CASE Unchanged(c) BY <2>7 DEF Unchanged
  <2>8. CASE Changed(c) BY <2>8 DEF Changed
  <2>9. CASE Publish(c) BY <2>9 DEF Publish
  <2>10. CASE PublishFails(c) BY <2>10 DEF PublishFails
  <2>11. CASE Reread(c) BY <2>11 DEF Reread
  <2>12. CASE RefreshFails(c) BY <2>12 DEF RefreshFails
  <2> QED BY <1>7, <2>1, <2>2, <2>3, <2>4, <2>5, <2>6, <2>7, <2>8, <2>9, <2>10,
          <2>11, <2>12 DEF Refresh
<1>8. ASSUME NEW c \in Calls, Answer(c) PROVE RowsAreNone'
  <2>1. CASE FindSet(c) BY <2>1 DEF FindSet
  <2>2. CASE FindNone(c) BY <2>2 DEF FindNone
  <2>3. CASE SearchRows(c) BY <2>3 DEF SearchRows
  <2>4. CASE ReadTerms(c) BY <2>4 DEF ReadTerms
  <2>5. CASE IssueRows(c) BY <2>5 DEF IssueRows
  <2>6. CASE GetItem(c) BY <2>6 DEF GetItem
  <2>7. CASE CreateSet(c) BY <2>7 DEF CreateSet
  <2>8. CASE ReadTotal(c)
    BY <2>8, <1>0 DEF TotalRead
  <2>9. CASE ReadPage(c)
    BY <2>9, <1>0 DEF PageRead
  <2>10. CASE PageFails(c) BY <2>10 DEF PageFails
  <2> QED BY <1>8, <2>1, <2>2, <2>3, <2>4, <2>5, <2>6, <2>7, <2>8, <2>9, <2>10
          DEF Answer
<1>9. CASE UNCHANGED vars
  BY <1>9 DEF vars
<1> QED
  BY <1>1, <1>2, <1>3, <1>4, <1>5, <1>6, <1>7, <1>8, <1>9 DEF Next

(* An item joins the rows of a search if it matches, and once.             *)
LEMMA NextRows ==
  ASSUME Shapes, GenerationsAreHeld, RowsAreNone, RowsFit, [Next]_vars
  PROVE  RowsFit'
<1>0. \A c \in Calls : (ReadTotal(c) => TotalRead(c)) /\ (ReadPage(c) => PageRead(c))
  BY TotalIsRead, PageIsRead
<1> USE DEF Shapes, CallFields, RowsFit, RowsFits, Ask, At, Go, To, End, Scan,
        Forget, Resolved, Whole, NoCall, tree, tables
<1>1. CASE Tick
  BY <1>1 DEF Tick
<1>2. ASSUME NEW p \in Paths, Edit(p) PROVE RowsFit'
  BY <1>2 DEF Edit
<1>3. ASSUME NEW s \in Servers, Restart(s) PROVE RowsFit'
  BY <1>3 DEF Restart
<1>4. ASSUME NEW c \in Calls, NEW s \in Servers, Continue(c, s) PROVE RowsFit'
  BY <1>4 DEF Continue
<1>5. ASSUME NEW c \in Calls, NEW s \in Servers, NEW q \in Queries, Begin(c, s,
      q) PROVE RowsFit'
  BY <1>5 DEF Begin
<1>6. ASSUME NEW c \in Calls, CursorExpired(c) PROVE RowsFit'
  BY <1>6 DEF CursorExpired
<1>7. ASSUME NEW c \in Calls, Refresh(c) PROVE RowsFit'
  <2>1. CASE ListManifests(c) BY <2>1 DEF ListManifests
  <2>2. CASE ReadManifest(c) BY <2>2 DEF ReadManifest
  <2>3. CASE ListCandidates(c) BY <2>3 DEF ListCandidates
  <2>4. CASE AuditItem(c) BY <2>4 DEF AuditItem
  <2>5. CASE Probe(c) BY <2>5 DEF Probe
  <2>6. CASE DeleteRetired(c) BY <2>6 DEF DeleteRetired
  <2>7. CASE Unchanged(c) BY <2>7 DEF Unchanged
  <2>8. CASE Changed(c) BY <2>8 DEF Changed
  <2>9. CASE Publish(c) BY <2>9 DEF Publish
  <2>10. CASE PublishFails(c) BY <2>10 DEF PublishFails
  <2>11. CASE Reread(c) BY <2>11 DEF Reread
  <2>12. CASE RefreshFails(c) BY <2>12 DEF RefreshFails
  <2> QED BY <1>7, <2>1, <2>2, <2>3, <2>4, <2>5, <2>6, <2>7, <2>8, <2>9, <2>10,
          <2>11, <2>12 DEF Refresh
<1>8. ASSUME NEW c \in Calls, Answer(c) PROVE RowsFit'
  <2>1. CASE FindSet(c) BY <2>1 DEF FindSet
  <2>2. CASE FindNone(c) BY <2>2 DEF FindNone
  <2>3. CASE SearchRows(c)
    <3> DEFINE g == call[c].gen
    <3>1. /\ call'[c].pc = "terms" /\ call'[c].rows = <<>> /\ call'[c].todo = g.items
          /\ call'[c].gen = g /\ chain' = chain /\ Ask(c).mode = "search"
          /\ \A e \in Calls : e # c => RowsFits(e)'
      BY <2>3 DEF SearchRows, RowsAreNone, Numbered
    <3>2. Each(<<>>, {i \in g.items \ g.items : Scores(i, Terms(i), Ask(c).word)})
      <4>1. {i \in g.items \ g.items : Scores(i, Terms(i), Ask(c).word)} = {}
        OBVIOUS
      <4> QED
        BY <4>1, NothingIsListed
    <3>3. RowsAre(<<>>, g, g.items, Ask(c))
      BY <3>1, <3>2 DEF RowsAre
    <3> QED
      BY <3>1, <3>3
  <2>4. CASE ReadTerms(c)
    <3> DEFINE g == call[c].gen
               ask == Ask(c)
               todo == call[c].todo
               i == CHOOSE x \in todo : TRUE
               rest == todo \ {i}
               seenOf(t) == {x \in g.items \ t : Scores(x, Terms(x), ask.word)}
               rows == IF Scores(i, Terms(i), ask.word) THEN Append(call[c].rows, i)
                       ELSE call[c].rows
    <3>1. i \in todo /\ call[c].pc = "terms" /\ g \in gens
      BY <2>4 DEF ReadTerms, GenerationsAreHeld, IsHeld
    <3>2. /\ call' = [call EXCEPT ![c] = [call[c] EXCEPT !.todo = rest, !.rows = rows]]
          /\ chain' = chain
      BY <2>4, <3>1 DEF ReadTerms
    <3>3. /\ ask.mode = "search" /\ todo \subseteq g.items
          /\ Each(call[c].rows, seenOf(todo))
      BY <3>1 DEF RowsAre
    <3>4. Each(rows, seenOf(rest))
      <4>1. CASE Scores(i, Terms(i), ask.word)
        <5>1. seenOf(rest) = seenOf(todo) \union {i} /\ i \notin seenOf(todo)
          BY <3>1, <3>3, <4>1
        <5>2. rows = Append(call[c].rows, i)
          BY <4>1
        <5>3. Each(call[c].rows, seenOf(todo))
          BY <3>3
        <5> HIDE DEF seenOf, i, rows, rest, todo
        <5>4. Each(Append(call[c].rows, i), seenOf(todo) \union {i})
          BY <5>1, <5>3, EachAppended
        <5> QED
          BY <5>1, <5>2, <5>4
      <4>2. CASE ~ Scores(i, Terms(i), ask.word)
        <5>1. seenOf(rest) = seenOf(todo)
          BY <3>1, <3>3, <4>2
        <5> QED
          BY <3>3, <4>2, <5>1
      <4> QED
        BY <4>1, <4>2
    <3>5. RowsAre(rows, g, rest, ask)
      BY <3>3, <3>4 DEF RowsAre
    <3> HIDE DEF rows, rest, i
    <3> QED
      BY <3>1, <3>2, <3>5
  <2>5. CASE IssueRows(c)
    <3> DEFINE g == call[c].gen
    <3>1. /\ call'[c].pc = "terms" /\ call'[c].rows = Found(g, Ask(c))
          /\ call'[c].todo = call[c].todo /\ call'[c].gen = g /\ chain' = chain
          /\ Ask(c).mode = "audit" /\ \A e \in Calls : e # c => RowsFits(e)'
      BY <2>5 DEF IssueRows
    <3>2. call[c].todo = {}
      BY <2>5 DEF IssueRows, RowsAreNone, Numbered
    <3>3. RowsAre(Found(g, Ask(c)), g, {}, Ask(c))
      BY <3>1 DEF RowsAre
    <3> QED
      BY <3>1, <3>2, <3>3
  <2>6. CASE GetItem(c) BY <2>6 DEF GetItem
  <2>7. CASE CreateSet(c) BY <2>7 DEF CreateSet
  <2>8. CASE ReadTotal(c)
    BY <2>8, <1>0 DEF TotalRead
  <2>9. CASE ReadPage(c)
    BY <2>9, <1>0 DEF PageRead
  <2>10. CASE PageFails(c) BY <2>10 DEF PageFails
  <2> QED BY <1>8, <2>1, <2>2, <2>3, <2>4, <2>5, <2>6, <2>7, <2>8, <2>9, <2>10
          DEF Answer
<1>9. CASE UNCHANGED vars
  BY <1>9 DEF vars
<1> QED
  BY <1>1, <1>2, <1>3, <1>4, <1>5, <1>6, <1>7, <1>8, <1>9 DEF Next

(* So is the beginning of one.                                             *)
LEMMA BeginningIsList ==
  ASSUME NEW s, IsList(s), NEW n \in 0 .. Len(s)
  PROVE  IsList(SubSeq(s, 1, n)) /\ (n = 0 => SubSeq(s, 1, n) = <<>>)
<1> DEFINE S == Range(s)
           t == SubSeq(s, 1, n)
<1>1. s \in Seq(S) /\ Len(s) \in Nat /\ n \in Nat
  BY DEF IsList
<1> HIDE DEF S
<1>2. t \in Seq(S) /\ Len(t) = n
  BY <1>1
<1> HIDE DEF t
<1>3. t \in [1 .. n -> Range(t)]
  BY <1>2 DEF Range
<1>4. t \in Seq(Range(t))
  BY <1>1, <1>3
<1>5. n = 0 => t = <<>>
  BY <1>2
<1> QED
  BY <1>4, <1>5 DEF IsList, t

(* The client goes on at next, with the beginning of its result set if     *)
(* that is still there; or it has everything.                              *)
GoesOn(c, got, next) ==
  /\ chain' = [chain EXCEPT ![c] = [chain[c] EXCEPT !.got = got, !.next = next]]
  /\ next \in Nat /\ IsList(got) /\ (next = 0 => got = <<>>)
  /\ chain[c].set \in DOMAIN sets =>
       next < Len(sets[chain[c].set].items) /\ got = SubSeq(sets[chain[c].set].items, 1, next)

HasAll(c, got) == Whole(c, got) /\ Lists(got, chain[c].gen, chain[c].ask)

(* A page leaves the client with the beginning of the list, or with all of *)
(* it; if the result set is gone, with what it has.                        *)
LEMMA PageFollows ==
  ASSUME Shapes, SetsAreLists, CallsServe, ChainsFollow, NEW c \in Calls, ReadPage(c)
  PROVE  \E got, next : GoesOn(c, got, next) \/ HasAll(c, got)
<1> DEFINE k == chain[c]
           total == call[c].total
           from == call[c].from
<1>1. call[c].pc = "page"
  BY DEF ReadPage, At
<1> DEFINE s == Found(k.gen, k.ask)
<1>2. Lists(s, k.gen, k.ask) /\ total = Len(s)
  BY <1>1 DEF CallsServe, Serves, Counts, Lists
<1> HIDE DEF s
<1>3. /\ total \in Nat /\ from \in Nat /\ from = k.next /\ (from = 0 \/ from < total)
      /\ call[c].set = k.set /\ ~ k.done /\ IsList(k.got) /\ (k.next = 0 => k.got = <<>>)
      /\ k.set \in DOMAIN sets => Follows(k, sets[k.set])
  BY <1>1, <1>2 DEF CallsServe, Serves, ChainsFollow, Lists, IsList
<1>4. PICK limit \in 1 .. total + 1 :
        LET rows == FirstOf(PageRows(c), limit) IN
        \E returned \in 0 .. Len(rows) :
          /\ returned = 0 => rows = <<>>
          /\ LET got  == k.got \o SubSeq(rows, 1, returned)
                 next == from + returned
             IN  IF next < total
                 THEN chain' = [chain EXCEPT ![c] = [chain[c] EXCEPT !.got = got, !.next = next]]
                 ELSE Whole(c, got)
  BY DEF ReadPage, NextOrdinal
<1> DEFINE rows == FirstOf(PageRows(c), limit)
<1>5. PICK n \in 0 .. Len(rows) :
        /\ n = 0 => rows = <<>>
        /\ IF from + n < total
           THEN chain' = [chain EXCEPT ![c] = [chain[c] EXCEPT !.got = k.got \o SubSeq(rows, 1, n),
                                                               !.next = from + n]]
           ELSE Whole(c, k.got \o SubSeq(rows, 1, n))
  BY <1>4
<1> DEFINE got == k.got \o SubSeq(rows, 1, n)
<1>6. CASE k.set \in DOMAIN sets
  <2> DEFINE items == sets[k.set].items
  <2>1. Lists(items, k.gen, k.ask) /\ k.got = SubSeq(items, 1, from)
    BY <1>3, <1>6 DEF SetsAreLists, Follows
  <2>2. IsList(items) /\ Len(items) = total
    BY <1>2, <2>1 DEF Lists
  <2>3. from \in 0 .. Len(items) /\ limit \in Nat \ {0}
    BY <1>3, <2>2
  <2>4. rows = FirstOf(SubSeq(items, from + 1, Len(items)), limit)
    BY <1>3, <1>6, <2>2 DEF PageRows
  <2> HIDE DEF rows, items, from
  <2>5. /\ from + n \in from .. Len(items)
        /\ SubSeq(items, 1, from) \o SubSeq(rows, 1, n) = SubSeq(items, 1, from + n)
        /\ rows = <<>> => from = Len(items)
    <3>1. n \in 0 .. Len(FirstOf(SubSeq(items, from + 1, Len(items)), limit))
      BY <2>4
    <3>2. LET page == FirstOf(SubSeq(items, from + 1, Len(items)), limit)
          IN  /\ from + n \in from .. Len(items)
              /\ SubSeq(items, 1, from) \o SubSeq(page, 1, n) = SubSeq(items, 1, from + n)
              /\ page = <<>> => from = Len(items)
      <4> HIDE DEF got
      <4> QED
        BY <2>2, <2>3, <3>1, PageIsCut
    <3> QED
      BY <2>4, <3>2
  <2>6. got = SubSeq(items, 1, from + n)
    BY <2>1, <2>5
  <2>7. CASE from + n < total
    <3>1. from + n \in 0 .. Len(items)
      BY <1>3, <2>2, <2>3, <2>5
    <3>2. IsList(got) /\ (from + n = 0 => got = <<>>)
      BY <2>2, <2>6, <3>1, BeginningIsList
    <3>3. from + n \in Nat /\ from + n < Len(items)
      BY <1>3, <2>2, <2>3, <2>5, <2>7
    <3>4. chain' = [chain EXCEPT ![c] = [chain[c] EXCEPT !.got = got, !.next = from + n]]
      BY <1>5, <2>7
    <3> HIDE DEF got
    <3> QED
      BY <2>6, <3>2, <3>3, <3>4 DEF items, GoesOn
  <2>8. CASE ~ from + n < total
    <3>1. from + n = Len(items)
      BY <2>2, <2>3, <2>5, <2>8, <1>3
    <3>2. got = items
      BY <2>2, <2>6, <3>1, SubSeqFull DEF IsList
    <3>3. Whole(c, got)
      BY <1>5, <2>8
    <3> HIDE DEF got
    <3>4. Lists(got, k.gen, k.ask)
      BY <2>1, <3>2
    <3> QED
      BY <3>3, <3>4 DEF HasAll
  <2> QED
    BY <2>7, <2>8
<1>7. CASE k.set \notin DOMAIN sets
  <2>1. PageRows(c) = <<>>
    BY <1>3, <1>7 DEF PageRows
  <2>2. rows = <<>>
    BY <2>1, SubSeqEmpty DEF FirstOf
  <2>3. n = 0
    BY <2>2
  <2>4. SubSeq(rows, 1, n) = <<>>
    BY <2>3, SubSeqEmpty
  <2>5. got = k.got
    BY <1>3, <2>4, ConcatEmptySeq DEF IsList
  <2>6. CASE from + n < total
    <3>1. chain' = [chain EXCEPT ![c] = [chain[c] EXCEPT !.got = got, !.next = from + n]]
      BY <1>5, <2>6
    <3>2. from + n = k.next /\ k.next \in Nat
      BY <1>3, <2>3
    <3> HIDE DEF got, from
    <3> QED
      BY <1>3, <1>7, <2>5, <3>1, <3>2 DEF GoesOn
  <2>7. CASE ~ from + n < total
    <3>1. from = 0 /\ total = 0
      <4> HIDE DEF from, total
      <4> QED
        BY <1>3, <2>3, <2>7
    <3>2. from = 0 /\ total = 0 /\ got = <<>>
      BY <1>3, <2>5, <3>1
    <3>3. Len(s) = 0 /\ s = <<>>
      BY <1>2, <3>2 DEF Lists, IsList
    <3>4. Whole(c, got)
      BY <1>5, <2>7
    <3>5. Lists(got, k.gen, k.ask)
      BY <1>2, <3>2, <3>3
    <3> HIDE DEF got
    <3> QED
      BY <3>4, <3>5 DEF HasAll
  <2> QED
    BY <2>6, <2>7
<1> QED
  BY <1>6, <1>7

(* A call stays where its client's cursor is.                              *)
LEMMA NextServe ==
  ASSUME Shapes, CallsFit, SetsAreLists, CallsServe, ChainsFollow, [Next]_vars
  PROVE  CallsServe'
<1>0. \A c \in Calls : (ReadTotal(c) => TotalRead(c)) /\ (ReadPage(c) => PageRead(c))
  BY TotalIsRead, PageIsRead
<1> USE DEF Shapes, CallFields, ChainFields, At, Go, To, End, Scan, Forget,
        Resolved, Whole, NoCall, NoChain, tree, tables
<1>1. CASE Tick
  BY <1>1 DEF Tick, CallsServe
<1>2. ASSUME NEW p \in Paths, Edit(p) PROVE CallsServe'
  BY <1>2 DEF Edit, CallsServe
<1>3. ASSUME NEW s \in Servers, Restart(s) PROVE CallsServe'
  <2>1. \A c \in Calls : Serves(NoCall, chain[c])
    BY DEF CallsServe, Serves, Numbered, Refreshing
  <2> HIDE DEF NoCall
  <2>2. chain' = chain /\ \A c \in Calls : call'[c] \in {NoCall, call[c]}
    BY <1>3 DEF Restart
  <2> QED
    BY <2>1, <2>2 DEF CallsServe
<1>4. ASSUME NEW c \in Calls, NEW s \in Servers, Continue(c, s) PROVE
      CallsServe'
  <2>1. \A e \in Calls : e # c => Serves(call'[e], chain'[e])
    BY <1>4 DEF Continue, CallsServe
  <2>2. Serves(call'[c], chain'[c])
    BY <1>4 DEF Continue, CallsServe, Serves, Numbered, Refreshing
  <2> QED
    BY <2>1, <2>2 DEF CallsServe
<1>5. ASSUME NEW c \in Calls, NEW s \in Servers, NEW q \in Queries, Begin(c, s,
      q) PROVE CallsServe'
  <2>1. IsList(<<>>)
    BY DEF IsList
  <2>2. \A e \in Calls : e # c => Serves(call'[e], chain'[e])
    BY <1>5 DEF Begin, CallsServe
  <2>3. Serves(call'[c], chain'[c])
    BY <1>5, <2>1 DEF Begin, CallsServe, Serves, Numbered, Refreshing
  <2> QED
    BY <2>2, <2>3 DEF CallsServe
<1>6. ASSUME NEW c \in Calls, CursorExpired(c) PROVE CallsServe'
  <2>1. IsList(<<>>)
    BY DEF IsList
  <2>2. \A e \in Calls : e # c => Serves(call'[e], chain'[e])
    BY <1>6 DEF CursorExpired, CallsServe
  <2>3. Serves(call'[c], chain'[c])
    BY <1>6, <2>1 DEF CursorExpired, CallsServe, Serves, Numbered, Refreshing
  <2> QED
    BY <2>2, <2>3 DEF CallsServe
<1>7. ASSUME NEW c \in Calls, Refresh(c) PROVE CallsServe'
  <2>1. CASE ListManifests(c)
    <3>1. \A e \in Calls : e # c => Serves(call'[e], chain'[e])
      BY <2>1 DEF ListManifests, CallsServe
    <3>2. Serves(call'[c], chain'[c])
      BY <2>1 DEF ListManifests, CallsServe, Serves, Numbered, Refreshing
    <3> QED
      BY <3>1, <3>2 DEF CallsServe
  <2>2. CASE ReadManifest(c)
    <3>1. \A e \in Calls : e # c => Serves(call'[e], chain'[e])
      BY <2>2 DEF ReadManifest, CallsServe
    <3>2. Serves(call'[c], chain'[c])
      BY <2>2 DEF ReadManifest, CallsServe, Serves, Numbered, Refreshing
    <3> QED
      BY <3>1, <3>2 DEF CallsServe
  <2>3. CASE ListCandidates(c)
    <3>1. \A e \in Calls : e # c => Serves(call'[e], chain'[e])
      BY <2>3 DEF ListCandidates, CallsServe
    <3>2. Serves(call'[c], chain'[c])
      BY <2>3 DEF ListCandidates, CallsServe, Serves, Numbered, Refreshing
    <3> QED
      BY <3>1, <3>2 DEF CallsServe
  <2>4. CASE AuditItem(c)
    <3>1. \A e \in Calls : e # c => Serves(call'[e], chain'[e])
      BY <2>4 DEF AuditItem, CallsServe
    <3>2. Serves(call'[c], chain'[c])
      BY <2>4 DEF AuditItem, CallsServe, Serves, Numbered, Refreshing
    <3> QED
      BY <3>1, <3>2 DEF CallsServe
  <2>5. CASE Probe(c)
    <3>1. \A e \in Calls : e # c => Serves(call'[e], chain'[e])
      BY <2>5 DEF Probe, CallsServe
    <3>2. Serves(call'[c], chain'[c])
      BY <2>5 DEF Probe, CallsServe, Serves, Numbered, Refreshing
    <3> QED
      BY <3>1, <3>2 DEF CallsServe
  <2>6. CASE DeleteRetired(c)
    <3>1. \A e \in Calls : e # c => Serves(call'[e], chain'[e])
      BY <2>6 DEF DeleteRetired, CallsServe
    <3>2. Serves(call'[c], chain'[c])
      BY <2>6 DEF DeleteRetired, CallsServe, Serves, Numbered, Refreshing
    <3> QED
      BY <3>1, <3>2 DEF CallsServe
  <2>7. CASE Unchanged(c)
    <3>1. \A e \in Calls : e # c => Serves(call'[e], chain'[e])
      BY <2>7 DEF Unchanged, CallsServe
    <3>2. Serves(call'[c], chain'[c])
      BY <2>7 DEF Unchanged, CallsServe, Serves, Numbered, Refreshing
    <3> QED
      BY <3>1, <3>2 DEF CallsServe
  <2>8. CASE Changed(c)
    <3>1. \A e \in Calls : e # c => Serves(call'[e], chain'[e])
      BY <2>8 DEF Changed, CallsServe
    <3>2. Serves(call'[c], chain'[c])
      BY <2>8 DEF Changed, CallsServe, Serves, Numbered, Refreshing
    <3> QED
      BY <3>1, <3>2 DEF CallsServe
  <2>9. CASE Publish(c)
    <3>1. \A e \in Calls : e # c => Serves(call'[e], chain'[e])
      BY <2>9 DEF Publish, CallsServe
    <3>2. Serves(call'[c], chain'[c])
      BY <2>9 DEF Publish, CallsServe, Serves, Numbered, Refreshing
    <3> QED
      BY <3>1, <3>2 DEF CallsServe
  <2>10. CASE PublishFails(c)
    <3>1. \A e \in Calls : e # c => Serves(call'[e], chain'[e])
      BY <2>10 DEF PublishFails, CallsServe
    <3>2. Serves(call'[c], chain'[c])
      BY <2>10 DEF PublishFails, CallsServe, Serves, Numbered, Refreshing
    <3> QED
      BY <3>1, <3>2 DEF CallsServe
  <2>11. CASE Reread(c)
    <3>1. \A e \in Calls : e # c => Serves(call'[e], chain'[e])
      BY <2>11 DEF Reread, CallsServe
    <3>2. Serves(call'[c], chain'[c])
      BY <2>11 DEF Reread, CallsServe, Serves, Numbered, Refreshing
    <3> QED
      BY <3>1, <3>2 DEF CallsServe
  <2>12. CASE RefreshFails(c)
    <3>1. \A e \in Calls : e # c => Serves(call'[e], chain'[e])
      BY <2>12 DEF RefreshFails, CallsServe
    <3>2. Serves(call'[c], chain'[c])
      BY <2>12 DEF RefreshFails, CallsServe, Serves, Numbered, Refreshing
    <3> QED
      BY <3>1, <3>2 DEF CallsServe
  <2> QED BY <1>7, <2>1, <2>2, <2>3, <2>4, <2>5, <2>6, <2>7, <2>8, <2>9, <2>10,
          <2>11, <2>12 DEF Refresh
<1>8. ASSUME NEW c \in Calls, Answer(c) PROVE CallsServe'
  <2>1. CASE FindSet(c)
    <3>1. \A e \in Calls : e # c => Serves(call'[e], chain'[e])
      BY <2>1 DEF FindSet, CallsServe
    <3>2. Serves(call'[c], chain'[c])
      BY <2>1 DEF FindSet, CallsServe, Serves, Numbered, Refreshing
    <3> QED
      BY <3>1, <3>2 DEF CallsServe
  <2>2. CASE FindNone(c)
    <3>1. \A e \in Calls : e # c => Serves(call'[e], chain'[e])
      BY <2>2 DEF FindNone, CallsServe
    <3>2. Serves(call'[c], chain'[c])
      BY <2>2 DEF FindNone, CallsServe, Serves, Numbered, Refreshing
    <3> QED
      BY <3>1, <3>2 DEF CallsServe
  <2>3. CASE SearchRows(c)
    <3>1. \A e \in Calls : e # c => Serves(call'[e], chain'[e])
      BY <2>3 DEF SearchRows, CallsServe
    <3>2. Serves(call'[c], chain'[c])
      BY <2>3 DEF SearchRows, CallsServe, Serves, Numbered, Refreshing
    <3> QED
      BY <3>1, <3>2 DEF CallsServe
  <2>4. CASE ReadTerms(c)
    <3>1. \A e \in Calls : e # c => Serves(call'[e], chain'[e])
      BY <2>4 DEF ReadTerms, CallsServe
    <3>2. Serves(call'[c], chain'[c])
      BY <2>4 DEF ReadTerms, CallsServe, Serves, Numbered, Refreshing
    <3> QED
      BY <3>1, <3>2 DEF CallsServe
  <2>5. CASE IssueRows(c)
    <3>1. \A e \in Calls : e # c => Serves(call'[e], chain'[e])
      BY <2>5 DEF IssueRows, CallsServe
    <3>2. Serves(call'[c], chain'[c])
      BY <2>5 DEF IssueRows, CallsServe, Serves, Numbered, Refreshing
    <3> QED
      BY <3>1, <3>2 DEF CallsServe
  <2>6. CASE GetItem(c)
    <3>1. \A e \in Calls : e # c => Serves(call'[e], chain'[e])
      BY <2>6 DEF GetItem, CallsServe
    <3>2. Serves(call'[c], chain'[c])
      BY <2>6 DEF GetItem, CallsServe, Serves, Numbered, Refreshing
    <3> QED
      BY <3>1, <3>2 DEF CallsServe
  <2>7. CASE CreateSet(c)
    <3>1. \A e \in Calls : e # c => Serves(call'[e], chain'[e])
      BY <2>7 DEF CreateSet, CallsServe
    <3>2. Serves(call'[c], chain'[c])
      BY <2>7 DEF CreateSet, CallsServe, Serves, Numbered, Refreshing
    <3> QED
      BY <3>1, <3>2 DEF CallsServe
  <2>8. CASE ReadTotal(c)
    <3>1. \A e \in Calls : e # c => Serves(call'[e], chain'[e])
      BY <2>8, <1>0 DEF TotalRead, CallsServe
    <3>2. Serves(call'[c], chain'[c])
      <4>1. CASE call[c].set \in DOMAIN sets
        <5> DEFINE s == sets[call[c].set]
                   n == Len(s.items)
        <5>1. /\ call[c].pc = "total" /\ chain' = chain
              /\ call' = [call EXCEPT ![c] = [call[c] EXCEPT !.pc = "page", !.total = n]]
          BY <2>8, <4>1 DEF ReadTotal
        <5>2. Serves(call[c], chain[c]) /\ call[c].set = chain[c].set
          BY <5>1 DEF CallsServe, Serves
        <5>3. Follows(chain[c], s)
          BY <4>1, <5>2 DEF ChainsFollow
        <5>4. Lists(s.items, chain[c].gen, chain[c].ask)
          BY <4>1, <5>3 DEF Follows, SetsAreLists
        <5>5. Counts(n, chain[c].gen, chain[c].ask)
          BY <5>4 DEF Counts, Lists
        <5>6. chain[c].next = 0 \/ chain[c].next < n
          BY <5>3 DEF Follows
        <5> HIDE DEF n
        <5> QED
          BY <5>1, <5>2, <5>5, <5>6 DEF Serves, Numbered, Refreshing
      <4>2. CASE call[c].set \notin DOMAIN sets
        BY <2>8, <4>2 DEF ReadTotal, CallsServe, Serves, Numbered, Refreshing
      <4> QED
        BY <4>1, <4>2
    <3> QED
      BY <3>1, <3>2 DEF CallsServe
  <2>9. CASE ReadPage(c)
    <3>1. /\ call[c].pc = "page" /\ call' = [call EXCEPT ![c] = NoCall]
      BY <2>9, <1>0 DEF PageRead
    <3>2. PICK got, next : GoesOn(c, got, next) \/ HasAll(c, got)
      BY <2>9, PageFollows
    <3>3. call'[c].pc = "idle" /\ \A e \in Calls : e # c => call'[e] = call[e]
      BY <3>1
    <3>4. CASE HasAll(c, got)
      <4>1. chain'[c].next = 0 /\ chain'[c].set = 0 /\ chain'[c].done
        BY <3>4 DEF HasAll
      <4>2. \A e \in Calls : e # c => chain'[e] = chain[e]
        BY <3>4 DEF HasAll
      <4> QED
        BY <3>3, <4>1, <4>2 DEF CallsServe, Serves, Numbered, Refreshing
    <3>5. CASE GoesOn(c, got, next)
      <4>1. /\ chain'[c].next = next /\ chain'[c].got = got /\ chain'[c].done = chain[c].done
            /\ \A e \in Calls : e # c => chain'[e] = chain[e]
        BY <3>5 DEF GoesOn
      <4>2. next \in Nat /\ IsList(got) /\ (next = 0 => got = <<>>)
        BY <3>5 DEF GoesOn
      <4>3. ~ chain[c].done
        BY <3>1 DEF CallsServe, Serves
      <4> QED
        BY <3>3, <4>1, <4>2, <4>3 DEF CallsServe, Serves, Numbered, Refreshing
    <3> QED
      BY <3>2, <3>4, <3>5
  <2>10. CASE PageFails(c)
    <3>1. \A e \in Calls : e # c => Serves(call'[e], chain'[e])
      BY <2>10 DEF PageFails, CallsServe
    <3>2. Serves(call'[c], chain'[c])
      BY <2>10 DEF PageFails, CallsServe, Serves, Numbered, Refreshing
    <3> QED
      BY <3>1, <3>2 DEF CallsServe
  <2> QED BY <1>8, <2>1, <2>2, <2>3, <2>4, <2>5, <2>6, <2>7, <2>8, <2>9, <2>10
          DEF Answer
<1>9. CASE UNCHANGED vars
  BY <1>9 DEF vars, CallsServe
<1> QED
  BY <1>1, <1>2, <1>3, <1>4, <1>5, <1>6, <1>7, <1>8, <1>9 DEF Next

(* A client's pages stay the beginning of its result set, whoever made or  *)
(* deletes it.                                                             *)
LEMMA NextFollow ==
  ASSUME Shapes, SetsFit, NumbersAreFree, SetsAreLists, CallsServe,
         ChainsFollow, [Next]_vars
  PROVE  ChainsFollow'
<1>0. \A c \in Calls : (ReadTotal(c) => TotalRead(c)) /\ (ReadPage(c) => PageRead(c))
  BY TotalIsRead, PageIsRead
<1> USE DEF Shapes, CallFields, ChainFields, ChainsFollow, At, Go, To, End,
        Scan, Forget, Resolved, Whole, NoCall, NoChain, tree, tables
<1>1. CASE Tick
  BY <1>1 DEF Tick
<1>2. ASSUME NEW p \in Paths, Edit(p) PROVE ChainsFollow'
  BY <1>2 DEF Edit
<1>3. ASSUME NEW s \in Servers, Restart(s) PROVE ChainsFollow'
  BY <1>3 DEF Restart
<1>4. ASSUME NEW c \in Calls, NEW s \in Servers, Continue(c, s) PROVE
      ChainsFollow'
  BY <1>4 DEF Continue
<1>5. ASSUME NEW c \in Calls, NEW s \in Servers, NEW q \in Queries, Begin(c, s,
      q) PROVE ChainsFollow'
  BY <1>5 DEF Begin, SetsFit
<1>6. ASSUME NEW c \in Calls, CursorExpired(c) PROVE ChainsFollow'
  BY <1>6 DEF CursorExpired, SetsFit
<1>7. ASSUME NEW c \in Calls, Refresh(c) PROVE ChainsFollow'
  <2>1. CASE ListManifests(c) BY <2>1 DEF ListManifests
  <2>2. CASE ReadManifest(c) BY <2>2 DEF ReadManifest
  <2>3. CASE ListCandidates(c) BY <2>3 DEF ListCandidates
  <2>4. CASE AuditItem(c) BY <2>4 DEF AuditItem
  <2>5. CASE Probe(c) BY <2>5 DEF Probe
  <2>6. CASE DeleteRetired(c) BY <2>6 DEF DeleteRetired
  <2>7. CASE Unchanged(c)
    <3>1. /\ call[c].pc \in Refreshing /\ chain'[c].set = chain[c].set /\ sets' = sets
          /\ \A e \in Calls : e # c => chain'[e] = chain[e]
      BY <2>7 DEF Unchanged, Refreshing
    <3>2. chain[c].set \notin DOMAIN sets
      BY <3>1 DEF CallsServe, Serves, Numbered, SetsFit
    <3> QED
      BY <3>1, <3>2
  <2>8. CASE Changed(c) BY <2>8 DEF Changed
  <2>9. CASE Publish(c)
    <3>1. /\ call[c].pc \in Refreshing /\ chain'[c].set = chain[c].set /\ sets' = sets
          /\ \A e \in Calls : e # c => chain'[e] = chain[e]
      BY <2>9 DEF Publish, Refreshing
    <3>2. chain[c].set \notin DOMAIN sets
      BY <3>1 DEF CallsServe, Serves, Numbered, SetsFit
    <3> QED
      BY <3>1, <3>2
  <2>10. CASE PublishFails(c) BY <2>10 DEF PublishFails
  <2>11. CASE Reread(c)
    <3>1. /\ call[c].pc \in Refreshing /\ chain'[c].set = chain[c].set /\ sets' = sets
          /\ \A e \in Calls : e # c => chain'[e] = chain[e]
      BY <2>11 DEF Reread, Refreshing
    <3>2. chain[c].set \notin DOMAIN sets
      BY <3>1 DEF CallsServe, Serves, Numbered, SetsFit
    <3> QED
      BY <3>1, <3>2
  <2>12. CASE RefreshFails(c) BY <2>12 DEF RefreshFails
  <2> QED BY <1>7, <2>1, <2>2, <2>3, <2>4, <2>5, <2>6, <2>7, <2>8, <2>9, <2>10,
          <2>11, <2>12 DEF Refresh
<1>8. ASSUME NEW c \in Calls, Answer(c) PROVE ChainsFollow'
  <2>1. CASE FindSet(c)
    <3>1. PICK i \in Reusable(c) :
            chain' = [chain EXCEPT ![c] = [chain[c] EXCEPT !.set = i, !.expires = sets[i].expires]]
      BY <2>1 DEF FindSet
    <3> DEFINE s == sets[i]
    <3>2. /\ call[c].pc = "find" /\ i \in DOMAIN sets /\ s.gen = call[c].gen
          /\ s.ask = chain[c].ask /\ sets' = sets
      BY <2>1 DEF FindSet, Reusable, Ask
    <3>3. SubSeq(s.items, 1, 0) = <<>>
      BY SubSeqEmpty
    <3>4. chain[c].next = 0 /\ chain[c].got = <<>> /\ chain[c].gen = call[c].gen
      BY <3>2 DEF CallsServe, Serves, Numbered
    <3>5. Follows(chain'[c], s)
      BY <3>1, <3>2, <3>3, <3>4 DEF Follows
    <3> HIDE DEF s
    <3> QED
      BY <3>1, <3>2, <3>5 DEF s
  <2>2. CASE FindNone(c) BY <2>2 DEF FindNone
  <2>3. CASE SearchRows(c) BY <2>3 DEF SearchRows
  <2>4. CASE ReadTerms(c) BY <2>4 DEF ReadTerms
  <2>5. CASE IssueRows(c) BY <2>5 DEF IssueRows
  <2>6. CASE GetItem(c) BY <2>6 DEF GetItem, SetsFit
  <2>7. CASE CreateSet(c)
    <3> DEFINE s == [gen |-> call[c].gen, ask |-> Ask(c), expires |-> call[c].clock + TTL,
                     items |-> call[c].rows]
    <3>1. PICK S : sets' = With(Restrict(sets, DOMAIN sets \ S), call[c].set, s)
      BY <2>7 DEF CreateSet
    <3>2. /\ call[c].pc = "terms"
          /\ chain' = [chain EXCEPT ![c] =
                        [chain[c] EXCEPT !.set = call[c].set, !.expires = s.expires]]
      BY <2>7 DEF CreateSet
    <3>3. sets'[call[c].set] = s
      BY <3>1 DEF With
    <3>4. /\ s.gen = call[c].gen /\ s.ask = chain[c].ask
          /\ SubSeq(s.items, 1, 0) = <<>>
      BY SubSeqEmpty DEF Ask
    <3> HIDE DEF s
    <3>5. chain[c].next = 0 /\ chain[c].got = <<>> /\ chain[c].gen = call[c].gen
      BY <3>2 DEF CallsServe, Serves, Numbered
    <3>6. Follows(chain'[c], s)
      BY <3>2, <3>4, <3>5 DEF Follows
    <3>7. ASSUME NEW e \in Calls, e # c, chain'[e].set \in DOMAIN sets'
          PROVE  Follows(chain'[e], sets'[chain'[e].set])
      <4>1. chain'[e] = chain[e] /\ chain[e].set # call[c].set
        BY <3>2, <3>7 DEF NumbersAreFree, Numbered
      <4>2. chain[e].set \in DOMAIN sets /\ sets'[chain[e].set] = sets[chain[e].set]
        BY <3>1, <3>7, <4>1 DEF With, Restrict
      <4> QED
        BY <4>1, <4>2
    <3> QED
      BY <3>2, <3>3, <3>6, <3>7
  <2>8. CASE ReadTotal(c)
    BY <2>8, <1>0 DEF TotalRead
  <2>9. CASE ReadPage(c)
    <3>1. PICK got, next : GoesOn(c, got, next) \/ HasAll(c, got)
      BY <2>9, PageFollows
    <3>2. sets' = sets
      BY <2>9, <1>0 DEF PageRead
    <3>3. CASE HasAll(c, got)
      BY <3>2, <3>3 DEF HasAll, SetsFit
    <3>4. CASE GoesOn(c, got, next)
      <4>1. /\ chain'[c].next = next /\ chain'[c].got = got /\ chain'[c].set = chain[c].set
            /\ chain'[c].gen = chain[c].gen /\ chain'[c].ask = chain[c].ask
            /\ \A e \in Calls : e # c => chain'[e] = chain[e]
        BY <3>4 DEF GoesOn
      <4>2. chain[c].set \in DOMAIN sets => Follows(chain'[c], sets[chain[c].set])
        BY <3>4, <4>1 DEF GoesOn, Follows
      <4> QED
        BY <3>2, <4>1, <4>2
    <3> QED
      BY <3>1, <3>3, <3>4
  <2>10. CASE PageFails(c) BY <2>10 DEF PageFails
  <2> QED BY <1>8, <2>1, <2>2, <2>3, <2>4, <2>5, <2>6, <2>7, <2>8, <2>9, <2>10
          DEF Answer
<1>9. CASE UNCHANGED vars
  BY <1>9 DEF vars
<1> QED
  BY <1>1, <1>2, <1>3, <1>4, <1>5, <1>6, <1>7, <1>8, <1>9 DEF Next

(* What a client is told is everything is everything.                      *)
LEMMA NextWhole ==
  ASSUME Shapes, SetsAreLists, CallsServe, ChainsFollow, ChainsAreWhole,
         [Next]_vars
  PROVE  ChainsAreWhole'
<1> USE DEF Shapes, ChainFields, ChainsAreWhole, Resolved, Whole, NoChain
<1>1. CASE Tick
  BY <1>1 DEF Tick
<1>2. ASSUME NEW p \in Paths, Edit(p) PROVE ChainsAreWhole'
  BY <1>2 DEF Edit
<1>3. ASSUME NEW s \in Servers, Restart(s) PROVE ChainsAreWhole'
  BY <1>3 DEF Restart
<1>4. ASSUME NEW c \in Calls, NEW s \in Servers, Continue(c, s) PROVE
      ChainsAreWhole'
  BY <1>4 DEF Continue
<1>5. ASSUME NEW c \in Calls, NEW s \in Servers, NEW q \in Queries, Begin(c, s,
      q) PROVE ChainsAreWhole'
  BY <1>5 DEF Begin
<1>6. ASSUME NEW c \in Calls, CursorExpired(c) PROVE ChainsAreWhole'
  BY <1>6 DEF CursorExpired
<1>7. ASSUME NEW c \in Calls, Refresh(c) PROVE ChainsAreWhole'
  <2>1. CASE ListManifests(c) BY <2>1 DEF ListManifests
  <2>2. CASE ReadManifest(c) BY <2>2 DEF ReadManifest
  <2>3. CASE ListCandidates(c) BY <2>3 DEF ListCandidates
  <2>4. CASE AuditItem(c) BY <2>4 DEF AuditItem
  <2>5. CASE Probe(c) BY <2>5 DEF Probe
  <2>6. CASE DeleteRetired(c) BY <2>6 DEF DeleteRetired
  <2>7. CASE Unchanged(c)
    <3>1. /\ chain'[c].done = chain[c].done /\ call[c].pc # "idle"
          /\ \A e \in Calls : e # c => chain'[e] = chain[e]
      BY <2>7 DEF Unchanged, At
    <3>2. ~ chain[c].done
      BY <3>1 DEF CallsServe, Serves
    <3> QED
      BY <3>1, <3>2
  <2>8. CASE Changed(c) BY <2>8 DEF Changed
  <2>9. CASE Publish(c)
    <3>1. /\ chain'[c].done = chain[c].done /\ call[c].pc # "idle"
          /\ \A e \in Calls : e # c => chain'[e] = chain[e]
      BY <2>9 DEF Publish, At
    <3>2. ~ chain[c].done
      BY <3>1 DEF CallsServe, Serves
    <3> QED
      BY <3>1, <3>2
  <2>10. CASE PublishFails(c) BY <2>10 DEF PublishFails
  <2>11. CASE Reread(c)
    <3>1. /\ chain'[c].done = chain[c].done /\ call[c].pc # "idle"
          /\ \A e \in Calls : e # c => chain'[e] = chain[e]
      BY <2>11 DEF Reread, At
    <3>2. ~ chain[c].done
      BY <3>1 DEF CallsServe, Serves
    <3> QED
      BY <3>1, <3>2
  <2>12. CASE RefreshFails(c) BY <2>12 DEF RefreshFails
  <2> QED BY <1>7, <2>1, <2>2, <2>3, <2>4, <2>5, <2>6, <2>7, <2>8, <2>9, <2>10,
          <2>11, <2>12 DEF Refresh
<1>8. ASSUME NEW c \in Calls, Answer(c) PROVE ChainsAreWhole'
  <2>1. CASE FindSet(c) BY <2>1 DEF FindSet
  <2>2. CASE FindNone(c) BY <2>2 DEF FindNone
  <2>3. CASE SearchRows(c) BY <2>3 DEF SearchRows
  <2>4. CASE ReadTerms(c) BY <2>4 DEF ReadTerms
  <2>5. CASE IssueRows(c) BY <2>5 DEF IssueRows
  <2>6. CASE GetItem(c)
    <3>1. Whole(c, Found(call[c].gen, Ask(c))) /\ chain[c].gen = call[c].gen
      <4> HIDE DEF Whole
      <4> QED
        BY <2>6 DEF GetItem, CallsServe, Serves, At
    <3> QED
      BY <3>1 DEF Ask
  <2>7. CASE CreateSet(c) BY <2>7 DEF CreateSet
  <2>8. CASE ReadTotal(c) BY <2>8 DEF ReadTotal
  <2>9. CASE ReadPage(c)
    <3>1. PICK got, next : GoesOn(c, got, next) \/ HasAll(c, got)
      BY <2>9, PageFollows
    <3>2. ~ chain[c].done
      BY <2>9 DEF ReadPage, At, CallsServe, Serves
    <3>3. CASE HasAll(c, got)
      <4>1. /\ chain'[c].gen = chain[c].gen /\ chain'[c].ask = chain[c].ask
            /\ chain'[c].got = got
            /\ \A e \in Calls : e # c => chain'[e] = chain[e]
        BY <3>3 DEF HasAll
      <4>2. Lists(got, chain[c].gen, chain[c].ask)
        BY <3>3 DEF HasAll
      <4> QED
        BY <4>1, <4>2 DEF Lists
    <3>4. CASE GoesOn(c, got, next)
      BY <3>2, <3>4 DEF GoesOn
    <3> QED
      BY <3>1, <3>3, <3>4
  <2>10. CASE PageFails(c) BY <2>10 DEF PageFails
  <2> QED BY <1>8, <2>1, <2>2, <2>3, <2>4, <2>5, <2>6, <2>7, <2>8, <2>9, <2>10
          DEF Answer
<1>9. CASE UNCHANGED vars
  BY <1>9 DEF vars
<1> QED
  BY <1>1, <1>2, <1>3, <1>4, <1>5, <1>6, <1>7, <1>8, <1>9 DEF Next

-----------------------------------------------------------------------------
(* The invariant holds of a database that an older server left, ...        *)
LEMMA InitCatalogInv == Init => CatalogInv
<1> SUFFICES ASSUME Init PROVE CatalogInv
  OBVIOUS
<1> USE DEF Init, NoCall, NoScan, NoChain, Numbered, Refreshing, Answering, Timed
<1>1. Shapes
  BY ContentsAssumption DEF Shapes, CallFields, ScanFields, ChainFields
<1>2. CallsFit /\ CallsHaveNone /\ GenerationsAreHeld
  BY DEF CallsFit, CallFits, CallsHaveNone, GenerationsAreHeld, IsHeld
<1>3. MutexesFit /\ TablesFit
  BY DEF MutexesFit, TablesFit
<1>4. DOMAIN sets = {}
  OBVIOUS
<1>5. SetsFit /\ NumbersAreFree /\ SetsAreStored /\ SetsAreLists /\ ChainsFollow
  BY <1>4 DEF SetsFit, NumbersAreFree, SetsAreStored, SetsAreLists, ChainsFollow
<1>6. SeenFit /\ ScansFit /\ AnswersAreFresh
  BY DEF SeenFit, SeenFits, ScansFit, ScanFits, AnswersAreFresh
<1>7. GenerationsAreFinite
  BY StoredAssumption DEF GenerationsAreFinite, IsFinite
<1>8. RowsAreNone /\ RowsFit
  BY DEF RowsAreNone, RowsFit, RowsFits
<1>9. IsList(<<>>)
  BY NothingIsListed DEF Each
<1>10. CallsServe
  BY <1>9 DEF CallsServe, Serves
<1>11. ChainsAreWhole
  BY DEF ChainsAreWhole
<1> QED
  BY <1>1, <1>2, <1>3, <1>5, <1>6, <1>7, <1>8, <1>10, <1>11 DEF CatalogInv

(* ... and every step keeps it, ...                                        *)
LEMMA NextCatalogInv == CatalogInv /\ [Next]_vars => CatalogInv'
<1> SUFFICES ASSUME CatalogInv, [Next]_vars PROVE CatalogInv'
  OBVIOUS
<1>1. /\ Shapes /\ CallsFit /\ MutexesFit /\ TablesFit /\ SetsFit
      /\ NumbersAreFree /\ CallsHaveNone
      /\ SetsAreStored /\ GenerationsAreHeld
  BY DEF CatalogInv
<1>2. /\ SeenFit /\ ScansFit /\ AnswersAreFresh
      /\ GenerationsAreFinite /\ SetsAreLists /\ RowsAreNone /\ RowsFit
      /\ CallsServe /\ ChainsFollow /\ ChainsAreWhole
  BY DEF CatalogInv
<1>3. Shapes' /\ CallsFit' /\ MutexesFit' /\ TablesFit' /\ SetsFit'
  BY <1>1, <1>2, NextShapes, NextCalls, NextMutexes, NextTables, NextSets
<1>4. NumbersAreFree' /\ CallsHaveNone' /\ SetsAreStored' /\ GenerationsAreHeld'
  BY <1>1, <1>2, NextNumbers, NextNoGeneration, NextSetsStored, NextHeld
<1>5. SeenFit' /\ ScansFit' /\ AnswersAreFresh' /\ GenerationsAreFinite' /\ SetsAreLists'
  BY <1>1, <1>2, NextSeen, NextScans, NextFresh, NextFinite, NextSetsAreLists
<1>6. RowsAreNone' /\ RowsFit' /\ CallsServe' /\ ChainsFollow' /\ ChainsAreWhole'
  BY <1>1, <1>2, NextNoRows, NextRows, NextServe, NextFollow, NextWhole
<1> QED
  BY <1>3, <1>4, <1>5, <1>6 DEF CatalogInv

(* ... so that it always holds.                                            *)
THEOREM CatalogIsInvariant == Spec => []CatalogInv
<1> QED
  BY InitCatalogInv, NextCatalogInv, PTL DEF Spec

(* Every variable has its type, and what is not current has a time from    *)
(* which on it is kept (TypeOK; catalog_retention.go:70-96).               *)
THEOREM CatalogTypesAlways == Spec => []TypeOK
<1>1. CatalogInv => TypeOK
  BY DEF CatalogInv, TypeOK, Shapes, CallsFit, CallFits, MutexesFit, TablesFit, SetsFit,
         Server
<1> QED
  BY <1>1, CatalogIsInvariant, PTL

(* No generation is deleted that is current, that an unexpired result set  *)
(* was cut from, or that a call is about to search (indexer.go:63-66,      *)
(* catalog_retention.go).                                                  *)
THEOREM GenerationsInUseAlwaysStay == Spec => []GenerationsInUseStay
<1>1. CatalogInv => GenerationsInUseStay
  BY DEF CatalogInv, GenerationsInUseStay, SetsAreStored, GenerationsAreHeld, IsHeld, TablesFit
<1> QED
  BY <1>1, CatalogIsInvariant, PTL

(* What a refreshed call answers from says what was in the workspace       *)
(* between the start of its Build and the answer, and passes over no       *)
(* manifest that was there throughout (indexer.go:56-89).                  *)
THEOREM AnswersAreAlwaysFresh == Spec => []AnswersAreFresh
<1> QED
  BY CatalogIsInvariant, PTL DEF CatalogInv

(* A client that follows its cursors to the last page has every match of   *)
(* the generation its query resolved, once each (README.md:88).            *)
THEOREM ChainsAreAlwaysWhole == Spec => []ChainsAreWhole
<1> QED
  BY CatalogIsInvariant, PTL DEF CatalogInv
=============================================================================
