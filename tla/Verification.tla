---------------------------- MODULE Verification ----------------------------
(***************************************************************************)
(* Evidence that checks passed: report_import, which turns a report and a  *)
(* tracked checklist into a verification record; project_records, which    *)
(* shows a validity that it works out anew from the workspace; and the     *)
(* Runner, which reuses a cached result only on current passed evidence    *)
(* (internal/records/service.go, internal/runner/cache.go).                *)
(*                                                                         *)
(* The workspace changes while a call reads it, so every look at it is a   *)
(* step.  There is one configuration and one cache key; what an entry      *)
(* holds is RunnerCache's, what the durable records guard is Records'.     *)
(***************************************************************************)
EXTENDS Naturals, Sequences, FiniteSets

CONSTANTS
  Calls,       \* report_import, project_records and Runner calls
  Trees,       \* what the working tree may contain
  ChecklistIn, \* of each tree: the checklist in it, or None
  Commits,
  Committed,   \* of each commit: its tree
  Reports,     \* what the report file may say
  Wanted,      \* the IDs of the capability's qualification checks
  Filters,     \* the validities a reader asks for, "any" among them
  Configuration,
  Nothing      \* no commit, no checklist, no reference, unknown

Checklist ==
  [id : Wanted, configurations : SUBSET {Configuration}, minimum : Nat \ {0}]

Report ==
  [status : {"passed", "failed", "partial"}, passed : Nat, failed : Nat,
   unknown : Nat, truncated : BOOLEAN,
   commit : Commits \union {Nothing}, dirty : BOOLEAN \union {Nothing}]

ASSUME VerificationAssumption ==
  /\ \A tree \in Trees : ChecklistIn[tree] \in Checklist \union {Nothing}
  /\ Committed \in [Commits -> Trees]
  /\ Reports \subseteq Report /\ Wanted # {}

(* Nothing stands beside values of these sets.                             *)
ASSUME NothingAssumption ==
  /\ Nothing \notin Commits \union BOOLEAN \union Checklist
  /\ Nothing \notin [Wanted -> Nat] /\ Nothing \notin {"any", "current", "stale"}

VARIABLES
  head, tree,     \* the workspace: its commit and its working tree
  verifications,  \* the verification records, in the order of their import
  entryRefs,      \* the cache entry: the evidence of its last observation
  step,           \* where a call is
  draft           \* what it has read, and whether the workspace moved since

worktree     == <<head, tree>>
evidenceVars == <<worktree, verifications, entryRefs, step, draft>>

-----------------------------------------------------------------------------
(* parseReport: a status must fit the checks it sums up.                   *)
Accepted(report) ==
  /\ report.status = "passed" =>
       /\ report.passed > 0 /\ report.failed = 0 /\ report.unknown = 0
       /\ ~report.truncated
  /\ report.status = "failed" => report.failed > 0
  /\ report.status = "partial" => report.unknown > 0 \/ report.truncated

(* Mutant: the outcome is what the report says.                            *)
OutcomeAsReported(report, checklist) == report.status

(* verificationOutcome.                                                    *)
Outcome(report, checklist) ==
  IF report.truncated \/ report.unknown > 0 THEN "unknown"
  ELSE IF report.failed > 0 \/ report.status = "failed" THEN "failed"
  ELSE IF report.passed + report.failed < checklist.minimum THEN "not_run"
  ELSE IF report.status = "passed" THEN "passed" ELSE "unknown"

(* An observation of the workspace; commit is None when git fails.         *)
Blind == [commit |-> Nothing, dirty |-> FALSE]

(* How ImportReport judges the report it stores.                           *)
StoredValidity(report, now) ==
  IF now = Blind \/ report.commit = Nothing \/ report.dirty = Nothing THEN "unknown"
  ELSE IF now.commit = report.commit /\ ~now.dirty /\ ~report.dirty
         THEN IF report.truncated THEN "unknown" ELSE "current"
  ELSE IF now.commit # report.commit \/ (~report.dirty /\ now.dirty) THEN "stale"
  ELSE "unknown"

(* Mutant: only the commits are compared.                                  *)
ValidityOfCommit(report, now) ==
  IF now = Blind \/ report.commit = Nothing \/ report.dirty = Nothing THEN "unknown"
  ELSE IF report.commit # now.commit THEN "stale"
  ELSE IF report.truncated THEN "unknown" ELSE "current"

(* validityFromPayload: how a reader judges it.                            *)
Validity(report, now) ==
  IF report.dirty = Nothing \/ report.commit = Nothing \/ now = Blind THEN "unknown"
  ELSE IF report.commit = now.commit /\ ~report.dirty /\ ~now.dirty
         THEN IF report.truncated THEN "unknown" ELSE "current"
  ELSE IF report.commit # now.commit \/ (~report.dirty /\ now.dirty) THEN "stale"
  ELSE "unknown"

Clean == tree = Committed[head]

NoDraft ==
  [kind |-> "none", report |-> Nothing, checklist |-> Nothing, page |-> 0, now |-> Blind,
   filter |-> Nothing, shown |-> {}, stored |-> Nothing, refs |-> Nothing, moved |-> FALSE]

EvidenceInit ==
  /\ head \in Commits /\ Clean
  /\ verifications = <<>>
  /\ entryRefs = Nothing
  /\ step = [c \in Calls |-> "idle"]
  /\ draft = [c \in Calls |-> NoDraft]

-----------------------------------------------------------------------------
(* An answer is looked at once: the next step forgets it.                  *)
Looking  == {c \in Calls : step[c] \in {"changes", "observed", "hit", "miss"}}
Answered == {c \in Calls : step[c] \in {"stored", "answered", "reused"}}

Settled(c) == IF c \in Answered THEN "done" ELSE step[c]

Goes(c, place) == step' = [d \in Calls |-> IF d = c THEN place ELSE Settled(d)]

Kept == [c \in Calls |-> IF c \in Answered THEN NoDraft ELSE draft[c]]

(* The workspace is edited, committed, stashed, or another commit is       *)
(* checked out.                                                            *)
Move ==
  /\ step' = [c \in Calls |-> Settled(c)]
  /\ draft' = [c \in Calls |->
                IF c \in Looking THEN [draft[c] EXCEPT !.moved = TRUE] ELSE Kept[c]]
  /\ UNCHANGED <<verifications, entryRefs>>

EditTree ==
  /\ Move
  /\ tree' \in Trees \ {tree}
  /\ UNCHANGED head

Commit(commit) ==
  /\ Move
  /\ commit # head /\ Committed[commit] = tree
  /\ head' = commit
  /\ UNCHANGED tree

Checkout(commit) ==
  /\ Move
  /\ <<commit, Committed[commit]>> # <<head, tree>>
  /\ head' = commit /\ tree' = Committed[commit]

-----------------------------------------------------------------------------
(* currentSubject asks git for the commit, and then for changes.  What a   *)
(* call does before it asks for the commit is part of that step.           *)
ReadHead(c, read) ==
  /\ Goes(c, "changes")
  /\ draft' = [Kept EXCEPT ![c] = [read EXCEPT
       !.now = [commit |-> head, dirty |-> FALSE], !.moved = FALSE]]
  /\ UNCHANGED <<worktree, verifications, entryRefs>>

ReadChanges(c) ==
  /\ step[c] = "changes"
  /\ Goes(c, "observed")
  /\ draft' = [Kept EXCEPT ![c] = [draft[c] EXCEPT
       !.now = [commit |-> draft[c].now.commit, dirty |-> ~Clean]]]
  /\ UNCHANGED <<worktree, verifications, entryRefs>>

GitFails(c) ==
  /\ step[c] = "changes"
  /\ Goes(c, "observed")
  /\ draft' = [Kept EXCEPT ![c] = [draft[c] EXCEPT !.now = Blind]]
  /\ UNCHANGED <<worktree, verifications, entryRefs>>

Saw(c, kind) == step[c] = "observed" /\ draft[c].kind = kind

-----------------------------------------------------------------------------
(* ImportReport.                                                           *)
ReadFiles(c, report) ==
  LET checklist == ChecklistIn[tree]
  IN  /\ step[c] = "idle"
      /\ Accepted(report)
      /\ checklist # Nothing /\ Configuration \in checklist.configurations
      /\ Goes(c, "tracked")
      /\ draft' = [Kept EXCEPT ![c] = [NoDraft EXCEPT
           !.kind = "import", !.report = report, !.checklist = checklist]]
      /\ UNCHANGED <<worktree, verifications, entryRefs>>

(* gitTracked looks at the index: a change may have staged the file.       *)
CheckTracked(c) ==
  /\ step[c] = "tracked"
  /\ ChecklistIn[Committed[head]] # Nothing \/ ~Clean
  /\ ReadHead(c, draft[c])

(* ImportVerification: a report is imported once under one checklist.      *)
Store(c) ==
  LET report == draft[c].report  checklist == draft[c].checklist
      known  == \E i \in DOMAIN verifications :
                  /\ verifications[i].report = report
                  /\ verifications[i].checklist = checklist
  IN  /\ Saw(c, "import")
      /\ Goes(c, IF known THEN "done" ELSE "stored")
      /\ draft' = [Kept EXCEPT ![c] = IF known THEN NoDraft ELSE
           [NoDraft EXCEPT !.report = report, !.moved = draft[c].moved,
                           !.stored = StoredValidity(report, draft[c].now)]]
      /\ verifications' = IF known THEN verifications ELSE Append(verifications,
           [report |-> report, checklist |-> checklist,
            outcome |-> Outcome(report, checklist)])
      /\ UNCHANGED <<worktree, entryRefs>>

(* The checklist is not tracked; a limit; a deadline; the store.           *)
RefuseImport(c) ==
  /\ step[c] = "tracked" \/ Saw(c, "import")
  /\ Goes(c, "done")
  /\ draft' = [Kept EXCEPT ![c] = NoDraft]
  /\ UNCHANGED <<worktree, verifications, entryRefs>>

-----------------------------------------------------------------------------
(* Query: "get" reads the record and then the workspace, "list" the other  *)
(* way round.  A filter is on the validity shown, not on the one stored.   *)
Get(c, i) ==
  /\ step[c] = "idle"
  /\ ReadHead(c, [NoDraft EXCEPT !.kind = "get", !.page = i])

AnswerGet(c) ==
  LET i == draft[c].page
  IN  /\ Saw(c, "get")
      /\ Goes(c, "answered")
      /\ draft' = [Kept EXCEPT ![c] = [NoDraft EXCEPT
           !.page = i, !.now = draft[c].now, !.moved = draft[c].moved,
           !.shown = {<<i, Validity(verifications[i].report, draft[c].now)>>}]]
      /\ UNCHANGED <<worktree, verifications, entryRefs>>

List(c, filter) ==
  /\ step[c] = "idle"
  /\ ReadHead(c, [NoDraft EXCEPT !.kind = "list", !.filter = filter])

AnswerList(c) ==
  LET filter == draft[c].filter
      Shown(i) == Validity(verifications[i].report, draft[c].now)
  IN  /\ Saw(c, "list")
      /\ Goes(c, "answered")
      /\ draft' = [Kept EXCEPT ![c] = [NoDraft EXCEPT
           !.page = Len(verifications), !.filter = filter, !.now = draft[c].now,
           !.moved = draft[c].moved,
           !.shown = {<<i, Shown(i)>> : i \in
             {j \in DOMAIN verifications : filter \in {"any", Shown(j)}}}]]
      /\ UNCHANGED <<worktree, verifications, entryRefs>>

-----------------------------------------------------------------------------
(* ResolveCacheQualifications, of Prepare and again of Execute: the page   *)
(* of records, the subject, and for each check the newest current pass.    *)
Evidence(c, id) ==
  {i \in 1 .. draft[c].page :
    /\ Validity(verifications[i].report, draft[c].now) = "current"
    /\ verifications[i].checklist.id = id
    /\ verifications[i].outcome = "passed"}

Qualified(c) == \A id \in Wanted : Evidence(c, id) # {}

Newest(S) == CHOOSE i \in S : \A j \in S : j <= i

Refs(c) == [id \in Wanted |-> Newest(Evidence(c, id))]

Resolves(c, kind) ==
  ReadHead(c, [draft[c] EXCEPT !.kind = kind, !.page = Len(verifications)])

Prepare(c) == step[c] = "idle" /\ Resolves(c, "prepare")

(* prepareCache.                                                           *)
Decide(c) ==
  LET refs == IF Qualified(c) THEN Refs(c) ELSE Nothing
  IN  /\ Saw(c, "prepare")
      /\ Goes(c, IF refs = Nothing THEN "done" ELSE IF entryRefs = refs THEN "hit" ELSE "miss")
      /\ draft' = [Kept EXCEPT ![c] = [NoDraft EXCEPT
           !.refs = refs, !.moved = draft[c].moved /\ refs # Nothing]]
      /\ UNCHANGED <<worktree, verifications, entryRefs>>

(* The process ran and PublishCacheObservation records the plan's refs.    *)
PublishObservation(c) ==
  /\ step[c] = "miss"
  /\ Goes(c, "done")
  /\ entryRefs' = draft[c].refs
  /\ draft' = [Kept EXCEPT ![c] = NoDraft]
  /\ UNCHANGED <<worktree, verifications>>

Execute(c) == step[c] = "hit" /\ Resolves(c, "execute")

(* Mutant: the evidence is looked at when the run is planned only.         *)
ReuseAsPlanned(c) ==
  /\ Saw(c, "execute")
  /\ entryRefs = draft[c].refs
  /\ Goes(c, "reused")
  /\ draft' = [Kept EXCEPT ![c] = [NoDraft EXCEPT
       !.refs = draft[c].refs, !.moved = draft[c].moved]]
  /\ UNCHANGED <<worktree, verifications, entryRefs>>

(* executeCacheHit: the same evidence as planned, and still the entry's.   *)
ReuseResult(c) ==
  /\ Saw(c, "execute")
  /\ Qualified(c) /\ Refs(c) = draft[c].refs
  /\ entryRefs = draft[c].refs
  /\ Goes(c, "reused")
  /\ draft' = [Kept EXCEPT ![c] = [NoDraft EXCEPT
       !.refs = draft[c].refs, !.moved = draft[c].moved]]
  /\ UNCHANGED <<worktree, verifications, entryRefs>>

(* ErrPlanStale; or a plan that is never executed, a run that failed.      *)
Drop(c) ==
  /\ \/ step[c] \in {"hit", "miss"}
     \/ Saw(c, "prepare") \/ Saw(c, "execute")
  /\ Goes(c, "done")
  /\ draft' = [Kept EXCEPT ![c] = NoDraft]
  /\ UNCHANGED <<worktree, verifications, entryRefs>>

(* The entry expires and is deleted, or is quarantined.                    *)
ExpireEntry ==
  /\ entryRefs # Nothing
  /\ entryRefs' = Nothing
  /\ UNCHANGED <<worktree, verifications, step, draft>>

-----------------------------------------------------------------------------
EvidenceNext ==
  \/ EditTree \/ ExpireEntry \/ \E commit \in Commits : Commit(commit) \/ Checkout(commit)
  \/ \E c \in Calls :
       \/ ReadChanges(c) \/ GitFails(c)
       \/ \E report \in Reports : ReadFiles(c, report)
       \/ CheckTracked(c) \/ Store(c) \/ RefuseImport(c)
       \/ \E i \in DOMAIN verifications : Get(c, i)
       \/ \E filter \in Filters : List(c, filter)
       \/ AnswerGet(c) \/ AnswerList(c)
       \/ Prepare(c) \/ Decide(c) \/ PublishObservation(c) \/ Execute(c) \/ ReuseResult(c) \/ Drop(c)

EvidenceSpec == EvidenceInit /\ [][EvidenceNext]_evidenceVars

-----------------------------------------------------------------------------
Judgements == {"current", "stale", "unknown"}

Checklists == {ChecklistIn[t] : t \in Trees} \ {Nothing}

Imported ==
  [report : Reports, checklist : Checklists,
   outcome : {"passed", "failed", "not_run", "unknown"}]

Draft ==
  [kind : {"none", "import", "get", "list", "prepare", "execute"},
   report : Reports \union {Nothing}, checklist : Checklists \union {Nothing},
   page : Nat, now : [commit : Commits \union {Nothing}, dirty : BOOLEAN],
   filter : Filters \union {Nothing}, shown : SUBSET (Nat \X Judgements),
   stored : Judgements \union {Nothing}, refs : [Wanted -> Nat] \union {Nothing},
   moved : BOOLEAN]

Steps ==
  {"idle", "tracked", "changes", "observed", "stored", "answered",
   "hit", "miss", "reused", "done"}

(* Every variable keeps its type; with it, an entry always has a reference *)
(* to an existing record for each check it is qualified by.                *)
EvidenceTypeOK ==
  /\ head \in Commits /\ tree \in Trees
  /\ verifications \in Seq(Imported)
  /\ entryRefs \in [Wanted -> DOMAIN verifications] \union {Nothing}
  /\ step \in [Calls -> Steps]
  /\ draft \in [Calls -> Draft]
  /\ \A c \in Calls :
       /\ draft[c].page \in 0 .. Len(verifications)
       /\ draft[c].refs \in [Wanted -> DOMAIN verifications] \union {Nothing}
       /\ draft[c].shown \subseteq (DOMAIN verifications) \X Judgements

Unmoved == {c \in Calls : ~draft[c].moved}

(* What a report says holds of the workspace as it is, or cannot.          *)
Describes(report) ==
  /\ report.commit = head /\ Clean
  /\ report.dirty = FALSE /\ ~report.truncated

Outdated(report) == report.commit # head \/ ~Clean

Judges(validity, report) ==
  /\ validity = "current" => Describes(report)
  /\ validity = "stale"   => Outdated(report)

(* The two places that judge a report, at its import and when it is read,  *)
(* tell the truth of a workspace that did not change under the call, and   *)
(* a reader who filters by validity misses no record of that validity,     *)
(* whatever was stored with it when it was imported.                       *)
ValidityIsTrue ==
  \A c \in Unmoved :
    /\ step[c] = "stored" => Judges(draft[c].stored, draft[c].report)
    /\ step[c] = "answered" =>
         /\ \A s \in draft[c].shown : Judges(s[2], verifications[s[1]].report)
         /\ draft[c].now # Blind /\ draft[c].filter \in {"any", "current"} =>
              {s[1] : s \in {t \in draft[c].shown : t[2] = "current"}} =
                {i \in 1 .. draft[c].page : Describes(verifications[i].report)}

(* A pass is earned: enough checks ran, and every one of them passed.      *)
Passed(i) ==
  LET v == verifications[i]
  IN  /\ v.report.failed = 0 /\ v.report.unknown = 0 /\ ~v.report.truncated
      /\ v.report.passed >= v.checklist.minimum

(* SECURITY.md:55 reuse "requires [...] current passed qualification       *)
(* evidence": a run that is planned or reuses a result on evidence has a   *)
(* pass of this very commit, clean, for every check its capability names;  *)
(* and no entry was observed without one.                                  *)
ReuseIsQualified ==
  /\ \A c \in Unmoved, id \in Wanted :
       step[c] \in {"hit", "miss", "reused"} =>
         LET i == draft[c].refs[id]
         IN  Passed(i) /\ Describes(verifications[i].report)
                       /\ verifications[i].checklist.id = id
  /\ entryRefs # Nothing =>
       \A id \in Wanted :
         Passed(entryRefs[id]) /\ verifications[entryRefs[id]].report.dirty = FALSE
=============================================================================
