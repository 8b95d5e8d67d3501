# RepoPlane in TLA+

RepoPlane is an MCP server: a long-lived process that offers a client tools to search a repository,
read its catalog, keep durable records (memos, checkpoints, imported verification reports), and
prepare and run registered capabilities. Its state is a state directory of SQLite databases and
files, a workspace directory, and a few maps in memory. Several server processes may open one
state directory. This directory holds TLA+ models of the parts of it in which actors race, fail and
restart, the TLC configurations that check them, and TLAPS proofs about them. Line numbers refer to
the sources of the commit this was written against.

## 1. Inventory

| Part | Sources (internal/) | State | Operations | What is hard |
|---|---|---|---|---|
| Runner | runner/service.go, execute.go | run records; `Service.mu`, `running`; `runs/<id>/*.log`; processes | run_prepare, run_execute, `waitForRun`, run_inspect(cancel), BeginMemorySnapshot, Close, Recover | calls race on one plan; process, timeout and cancel race; crash; recovery beside a switch or in a second server |
| Runner cache, artifacts | runner/cache.go, artifact.go, store/sqlite/cache.go | cache entries, quarantine, blobs, directories being swapped | prepareCache, executeCacheHit, publish, materialize, recoverCacheSwaps, cleanupExpiredRuns | stale entries; swap interrupted between renames; blob removed while captured |
| Router and runtime configuration | application/router.go, runtime_config.go | current bundle, RWMutex, settings, HTTP server | every tool call, switch of workspace / state / sources, HTTP start and stop | lock order; switch that fails half way; calls in flight |
| Startup and shutdown | application/application.go | databases, secret keys, identity | Open, buildBundle, Close | two first starts; order of closing |
| Runtime access | runtimeaccess/service.go, workspace/root.go | grants, pending tokens, capabilities; read grants of the root | Begin, Complete, Revoke, RebindRoot, ApplyReadGrant | answers that come twice or late; grants across a switch |
| Intention memory | records/service.go, update.go | none of its own | memo_write, checkpoint_write, report_import, project_records | optimistic updates; topic identity; replacement |
| Records store | store/sqlite/records.go | tables records, record_revisions, report_imports | create, update, ReplaceMemo, ImportVerification, export, restore | compare-and-swap; unique indexes; complete history |
| Catalog and its store | catalog/*, store/sqlite/sqlite.go, catalog_retention.go | generations, entries, result sets | Refresh, queries, pages by cursor, retention | refresh during paging; probe-then-delete |
| Memory backup | memorybackup/service.go | archives, staged state | export, restore | archive consistent with the Runner; crash while promoting |
| Workspace identity | workspace/identity.go | pinned identity file | PinIdentity | link race; moved and copied workspaces |
| HTTP transport | httptransport/* , store/sqlite/audit.go | admission counters, audit rows | authenticate, admit, audit, Shutdown | limits; requests cut off after admission |
| MCP server | mcpserver/* | none | decodes calls, routes, words results | wording and budgets only |
| Search, data query, path facts, text | search, dataquery, pathfacts, textcodec, content | none | one process or bounded read per call | limits and parsing |
| Cursors, result view, contracts, config, usage | cursor, resultview, contracts, config, usage | keys, counters | encode/verify, normalise, count | authentication of cursors |
| Toolbox client | toolboxclient | contract cache | look up, evict | residency |
| Developer tools | devtool, schemaexport, cmd/repoplane-dev, cmd/schema-gen | none | builds and checks | not part of the running system |

How they meet: main opens an *Application*, which builds a *bundle* of services over one workspace and
one state directory and puts it in the *router*. Every tool call borrows the current bundle under the
router's read lock. runtime_config builds another bundle and swaps it in under the write lock. A
bundle's Runner keeps its runs in memory and its receipts in the records store, which all bundles
and server processes on one state directory share. memory_backup and the switch both freeze a Runner by
holding `Service.mu`. The switch also tells runtime access which root is current.

What makes each part correct is listed where it is modelled (section 3); PROJECT.json lists, line
by line, what can go wrong and which property would show it.

## 2. Plan

In order of importance, all written:

1. `RunReceipt` (abstract) and `Runner` (detailed), with proofs in `RunnerProofs`.
2. `RuntimeSwitch`: router, switch, HTTP, the Runner's lock.
3. `RuntimeAccess`: grants, tokens, roots.
4. `Records`: intention memory over the records store.
5. `RunnerCache`: cache entries, quarantine, blobs, artifacts and run retention.
6. `CatalogBuild` (what a catalog of a tree is, without state) and `CatalogStore`: refresh, result sets,
   cursors, retention.
7. `Startup`: identity, secret keys, and the directory swap of a cache hit with its recovery, under crashes.
8. `MemoryBackup`: export beside a running Runner, restores that race, fail and crash.
9. `Verification`: from an imported report to a reuse that rests on it.
10. `Admission`: HTTP authentication, limiter, audit trail, and what an error says of a write.
11. `RunPlan`: what run_prepare binds and run_execute looks at again.

Each stateful module has an MC module with its symmetry and data, and a configuration. The stateful modules meet at
what one leaves to another as an input: RunnerCache takes qualification as given, which is Verification; Runner takes the
outcome of run_prepare as given, which is RunPlan and RunnerCache; MemoryBackup restores what ExportIsRestorable of Records says an
archive is; Admission reduces a service to whether it wrote and how it failed.

Theorems about them are in `RunnerProofs`, `RuntimeProofs` (RuntimeSwitch, then RuntimeAccess), `RecordsProofs`, `CacheProofs`
(RunnerCache, then Verification), `CatalogProofs`, `StartupProofs`, `BackupProofs` and `AdmissionProofs`.

Still open: pure algorithms against reference definitions (argument expansion, glob matching, stream bounds, limits). No module
uses a RECURSIVE operator and every assumption on a constant is named, so that each can be proved about.

## 3. The modules

Each module's header says what its actors are and where its steps begin and end. A step lies between
two accesses to state that another actor can see: a transaction, a file operation, a critical
section, a system call. Definitions marked *Mutant* are plausible bugs used to test the properties
(PROJECT.json pairs each with the property it must violate); no specification refers to them.

### RunReceipt and Runner

`RunReceipt` is the promise of README.md:336-338 to one client: a receipt that moves from prepared through
running or materializing to one terminal state, and at most one process per plan. `Runner` is the
code. Correspondence:

| Model | Code |
|---|---|
| `rec[p]` | the run's record: `payload.State` and `Revision`. `Written` is UpdateObservation after its revision check |
| `stdoutLog[p]` | `runs/<id>/stdout.log`, created O_EXCL (execute.go:105) |
| `running`, `snapshot` | `Service.running`, and `Service.mu` held by BeginMemorySnapshot's caller |
| `pc`, `held`, `ctx` | where Execute and then waitForRun are, the record they hold, runContext |
| `proc` | the started process, as the operating system knows it |
| `status`, `seen` | a service from Recover to Close; the list Recover's query returned |

A *service* is one runner.Service, a *server* a set of services that it may hold over this state directory: one, or the two of a
switch (switchBundleLocked, runtime_config.go:221-266; adding, removing or refreshing a source is one). `BeginSwitch` takes the old
service's lock as BeginMemorySnapshot does (222-232), `Open` and the three actions of recovery are buildBundle (233-237, application.go:187), which so
runs beside the calls of the old service, and the switch ends in `AbandonSwitch`, or `Swap` and `FinishSwitch`, or `RollBack`. Between servers
nothing is shared but the store.

Execute is ten actions, from `Load` to `Register`, waitForRun seven, executeCacheHit three, Recover four. To end a process is to kill
it (`KillRun`, or `AbortStart` before it is registered) and then to wait for it (`ReapKilled`, `AwaitAborted`): the output is a boundedFileWriter, which Go copies
from a pipe, and Wait has no WaitDelay (execute.go:146-147, 179-180), so it returns only once the process is gone *and* nobody holds the write end of the
pipe. `pipe` is that end, `PipeCloses` its last holder's end, which may never come; `WaitReturns` is the condition. A cancelled or expired request
context leads to `GiveUp` or `AbortStart`. `Gone` is the end of a server process by any route: its
goroutines stop, its children live on.

`rev` counts what UpdateObservation writes while a receipt is alive. The cleanup of old runs writes a terminal record once more, to say that its streams
are gone (artifact.go:211-219), which changes neither state nor outcome and is not modelled here.

Abstracted: what run_prepare checks (its three possible results are inputs), the file contents,
argument values, artifacts, the cache entry itself, and the ten seconds of Close (`Stop` may happen
before its goroutines ended).

### RunPlan

One call at a time reads the *parts* of the world: the declaration and the fingerprint of what it executes, the executable, the working directory, each
required check, each input, the grant for reuse, the evidence. `Look` is one read (one file hashed, one check probed), `Advance` goes on when a step has
read its parts; `Move`, `MoveRow` and `LoseBlob` change the world between any two. `plan.bound` is what the stored plan says of each part.
run_prepare is `Prepare` to `Snapshot`, prepareCache (`NoReuse` or `Qualify`, `Qualified`, `Lookup`, `VerifyOutputs` or `VerifyFails`), the environment
record and the run (`RecordPreflight`, `RecordPlan`): a call that ends between the two leaves an environment record that no run refers to. run_execute is `Execute` to `Launch`, and for a hit
executeCacheHit up to its first write (`BeginHit` to `Materialize`). Two things are *not* looked at again (execute.go:76-100): required checks that are not in the
cache key, and the grant for reuse. `seen` and `rows` remember what was so since the call began.

Abstracted: argument expansion (a function of declaration and request, which refuses or not), the order of the walk over the inputs (any order), recommended checks and host facts, which
only warn, and the outputs that were there before. A row that expired is gone.

### RuntimeSwitch

`current` is serviceRouter.current. A call that is `Inside` holds the router's read lock. `admin` walks
through switchBundleLocked and stands for `Application.mu` when it is not idle. A Go RWMutex lets
no new reader in while a writer waits: `Enter` requires that `admin` is not in `Writing`, and a
writer proceeds when `NoReader`. `mu[b]` is the Runner's mutex of bundle b, which Probe (BeginMemorySnapshot) keeps
until the switch releases it. Calls fall into kinds by what they do with that mutex. All
error paths of the switch are there: busy, build failure, HTTP that does not stop, HTTP that does not
start (swap back). Bundles are reused once closed, so three cover any number of switches.

Abstracted: what differs between the bundles (settings, sources, state directory), audit, the HTTP
profile. A change of a source alone takes the same path as a workspace switch.

### RuntimeAccess

`listed`, `exportTo`, `granted` are Service.grants split by kind, `enabled` is Service.enabled, `authority[x]` is the grants map of the
workspace root x that every read consults. Begin is `Propose` and `Enqueue`, Complete is `Take` and
one or two more steps, Revoke of a path is `UnlistRead` and `RevokeRead`: the places where the code
gives its mutex up. `Service.root` is read without the mutex; reading it and acting on the
root is one step, which loses nothing, since a late action on a root that is no longer current commutes with
the RebindRoot that came in between. `Take` accepts any token ever issued, so duplicated and late answers
are included.

### Records

A record's ID is the call that created it. `payload` is the set of calls whose edits the record
contains, which tells apart exactly what optimistic updates may lose. `Fits` is the two unique
indexes, `Store` the write of a record together with its row in record_revisions. memo_write with
a topic is a lookup, an insertion, and after a conflict another lookup; an update is three reads
and compares (recordForUpdate, mutate, the transaction), and `Revised` what it writes: the same record, one revision on. QueryRecords drops empty filters, so `Found`
compares the configuration only if the new memo names one.

A call that is told that its topic exists writes nothing. Abstracted: texts, evidence, source, time, host facts, warnings. The trigger that forbids a current memo's topic to
change is not a guard: no update of the code can ask for it (WriteMemo compares the identity
first).

### RunnerCache

`entry` is the row of cache_entries under the one key that all runs have; `observers` tells whom its
observation_count counted. A content stands for its hash, so `blob[h]` is what the file named by h holds, and `blob[h] = h`
is verifyCacheOutputs. `stored[r]` is the storage of r's artifact record. A launched run is `Start`, `Produce` (the
process), `Observe`, `Capture`, `RecordArtifact`, `Publish` and `Conclude`; a hit is `Admit`, the three steps of
copyVerifiedFile (`CheckOutput`, `CopyBlob`, `Place`), `RecordReused` and `ConcludeReuse`, or `UndoReuse`. A
service that is opened goes through `Recover`, `Pin`, any number of `RemoveBlob` and `MarkDeleted`; it is opened by a server that starts, or by
one that switches and whose old service is frozen meanwhile: it registers no run, but its hits go on, for executeCacheHit never takes Service.mu. The server may crash between any two steps. `beside` are the hits that were under way when a
cleanup began to choose.
`lost` are the runs it called interrupted while their goroutine or handler goes on, in this server or another: its
last update is refused. `Edit`, `Damage`, `Age`, `Expire` and
`Cite` are the workspace, the disk, the clock and clients writing memos. Damage is what verifyCacheOutputs and the hash check of
captureBlob are written against; a blob that disappears by itself is not modelled.

Abstracted: the HMAC key (equal keys mean equal capability, configuration and inputs), qualification (an input of `PlanLaunch`; Verification
models it), several outputs of a run, byte limits, stream directories, hit counts. A memo that names a run and one that names its artifact
protect the same blob. replace_isolated_root is in Startup. Not part of a step: that the process was given the
inputs it declared.

### CatalogBuild and CatalogStore

A manifest that parses is a *declaration* (ID, revision, the scripts it runs and those its arguments name, its words); a
content stands for its hash, and a generation *is* its items and issues, so that equal fingerprints are equal values.
CatalogBuild translates Build's audit (duplicates, missing sources, candidates without a declaration, items that execute and whose scripts, if any are
left, changed since their declaration did) and SearchCatalog as operators. CatalogStore's `scan` is what one Build has read so far; it reads
one file per step with the server's refreshMu (`mu`), while the tree is edited.

| Model | Code |
|---|---|
| `gens`, `current`, `retired` | catalog_generations with their items; the row of current_catalog, as a set that has it or is empty; catalog_retirements |
| `sets` | result_sets with their items; a set's ID is the count of queries when it was made |
| `call`, `chain` | one client's call; the pages it has collected and the cursor it holds (result set, offset, request) |
| `ListManifests` .. `AuditItem` | Build |
| `Probe`, `DeleteRetired` | DeleteRetiredCatalogGenerations: first a read, then a statement with the same condition |
| `Unchanged`, `Changed`, `Publish`, `Reread` | Refresh's comparison, PublishCatalogGeneration, and the second look after a conflict |
| `FindSet`, `SearchRows`, `CreateSet`, `ReadTotal`, `ReadPage` | FindResultSet, SearchCatalog, CreateResultSet with pruning, the two reads of ReadResultPage |

`Go`, `To` and `End` say how the call goes on, `Scan` what its Build has read, and `Activate` is PublishCatalogGeneration's change of the
current row with the triggers that keep catalog_retirements. A page holds as many items as its budget lets through, at least one; where it is cut is free. A server that restarts keeps
nothing but the database. needs_review compares with the generation before, and so is seen in one generation only
(indexer.go:275). Abstracted: manifest syntax (parses or not), ranking within a search, byte budgets, symbols and overview.

### Startup

`Open` is buildBundle up to serving: workspace.Open and PrepareIdentity, two keys by loadOrCreateKey, `Refreshed` (the first
catalog refresh), recoverCacheSwaps marker by marker, Runner recovery, PinIdentity with its link. Any step may fail or crash, and
the files stay. `Materialize` is materializeIsolatedRoot: stage, marker, root moved away, stage promoted, backup and marker dropped,
with every error path. A bundle that a switch builds (runtime_config.go:233) is one more element of `Servers`, which starts while the first is up and swaps.

The errors of the renames back (cache.go:474 and 511) and of RemoveAll (479 and 513) are ignored, and the marker goes all the same (459, 515).
`MoveBack` therefore may do nothing, and RemoveAll takes a tree entry by entry (`RemoveBackup` and `DropEntry` leave it in part) and stops anywhere (`RemoveEnds`).
What is left of the root then depends on what happened, which `excused` remembers: "beside", a start looked at the marker of a swap in progress; "refused", a rename
back failed; "crossed", a swap moved the root away while another one was still to recover or to be finished. RootSurvives has two parts. If none of these happened, or only "refused" did, a whole
tree is left, as the root or as some backup. If neither "beside" nor "refused" did and the root is away, a marker on disk names the backup it went to, which is whole unless "crossed".
`OpenBlocked` is a server of the local transport whose state directory lies in the workspace.

Abstracted: the content of a tree (whole or partly filled), the limit of 64 markers, stage directories that a crash leaves behind.

### MemoryBackup

`at`, `rec`, `art`, `files` are as much of the exporting server's runs as an archive can tell; `mu` is the Runner's mutex between
BeginMemorySnapshot and its release. An export reads the records in one transaction, then runs/, then artifacts/, creates the archive
under its final name, writes it, and fails or dies anywhere. A restore opens and verifies an archive, stages it, and for each directory
finds it missing, empty or in the way, removes the empty one, renames the stage into place; then RestoreRecords in one transaction that refuses a
database with records; a failure undoes what it promoted. Several restores and a server that writes its own first record
race for the target.

Abstracted: byte limits, ZIP, record contents, the digest (an archive that is torn is not opened).

### Admission

The steps of one request over HTTP: the verifier and scopeMiddleware with the global slot (`TakeSlot`, `TurnAway`, `RefuseToken`), the two halves of
`acquire` around its mutex (`TakeSlot` reads the time, `Acquire` has the lock), AdmitAudit, the tool surface, the operation's own gate (`RefuseUnapproved`), the service (`Serve`, `Reject`,
`ServiceFails`), CompleteAudit and the release. `surface` is --tool-surface, one of `Surfaces` for as long as the process lives. On typed.v1, the default (README.md:389), each operation is a tool: `Dispatch` calls
it, whatever has become of the row, which never names it. On toolbox.v1 handleToolbox notes the operation in the row first (`Resolve`, AuditOperation, operations.go:629-633) and refuses if
that fails (`ResolveFails`); `Describe` and `RefuseFields` are its other answers. Its refusals, `Deny` among them, use publicError with mutation = false and say nothing of a mutation (`Fails`); those
of an operation say `mutation_state` (`Refuse`). `Serve` answers without an error and may have written nothing: a memo whose topic exists (records/service.go:609-611, 635-638), a report that was imported before.

AuditIsTrue says on either surface that a write was made only by a request whose token covers it and whose row was stored first ("Admission fails closed if its audit event cannot be
stored", SECURITY.md:36); only on toolbox.v1 does it say that the row names the operation. `global` and `states` are admissionLimiter, `audit` is the table audit_events, `open` the audit stores not
yet closed. A stop that times out closes the store while requests run on; the next start has a new limiter, and the old one is followed no further (`AcquireStray`).

Abstracted: OAuth introspection, host, origin and path checks, the compatible surface, usage records, panics, stdio (which has leases; HTTP has none).

### Verification

`head` and `tree` are the workspace; a look at it is two steps, HEAD and then the changes (currentSubject), and `Move` comes between any two. An
import reads the report, the checklist from the working tree, whether its name is tracked, and the workspace; it stores outcome and validity in
one transaction. A reader takes the page of verifications and then works validity out anew (`Validity`) from its own look. The Runner resolves qualifications when a run is prepared and
again when a hit is executed; a launch that succeeds makes the entry with the evidence it had. `draft[c].moved` remembers that the workspace moved since a call
began to look: what is said of a call that read a moving tree could be about none of its states.

Abstracted: one configuration and one cache key; the three git commands that look for changes are one look; a page is complete (a thousand records);
evidence is ordered by import; report_required is the minimum of checks, at least one; topic, resume, search and the wording of warnings.

## 4. The runs

| Run | Instance | What it shows |
|---|---|---|
| runner_safety | 1 server that switches, 1 plan, 2 calls, fairness | ReceiptIsHonest (one launch per plan, honest outcomes, no process behind a settled receipt); RunsAreOwned (running records have an owner, snapshots exclude registered runs); RunReceipt is implemented; RegisteredIsSpared (nobody but its goroutine settles a registered run); CallsSettle (calls, goroutines and running receipts end, if Service.mu comes free and Wait returns) |
| plan_safety | 2 inputs, 2 checks (1 in the key), 2 rows; 3 calls, 2 moves | ExecutionIsPlanned: what is launched or copied is what the plan binds, and was so during that call; PlanWasObserved: so was what a plan binds |
| cache_safety | 1 server that switches, 2 runs, 2 contents | CacheIsTrue: a reuse leaves what its source observed, an active entry is unanimous; BlobsAreThere: pinned and retained blobs survive cleanup, beside the calls of the old bundle, and crashes |
| switch_safety | 1 reader, 2 runs, 1 export, 3 bundles | lent bundles stay open; every outcome of a switch is consistent; FrozenRunnerIsIdle under a switch and under an export |
| switch_deadlock | 1 run, 2 bundles, fairness | **violation** of SwitchEnds: switch and run_execute wait for each other |
| access_safety | 2 requests, 3 replies, 3 roots, 2 revocations, 1 rollback | EffectIsListed (capabilities follow grants; before any rollback what the root lets read is listed), GrantsAreAnswered (tokens are spent once, grants were accepted) |
| records_safety | 5 calls, 1 key with and without a configuration, 1 report | export is restorable; NothingIsLost (edits survive, replaced memos are preserved); OneOfEach (one current memo per topic, one record per report, answers name them) |
| catalog_safety | 2 clients, 2 servers, 2 manifests, 1 edit, pages of one item | generations in use stay; an answer was so during its call; a chain of pages is one whole snapshot |
| startup_safety | 2 servers, 3 starts, 2 swaps | StartedAgree: the same keys and one identity, pinned only after a complete start; RootSurvives: what is left of the isolated root, and what tells where it is |
| backup_safety | 1 run, 2 exports, 2 restores | an archive has all that its records cite; restored records have their files; what failed leaves nothing |
| admission_safety | either surface; 3 requests, 2 principals, 2 starts, 1 principal remembered, 1 audit row | slots are returned; the audit is true of each write, and on typed.v1 names none |
| verification_safety | 3 calls of any kind, 2 trees, 2 commits | validity is true of a workspace at rest; evidence that qualifies is a pass of this very commit |

A property made of named parts is checked as a whole, and has a mutant for each part.

Bounds and why they are enough. *Runner*: a plan is independent of every other but for the snapshot, which looks at
all; the races on one plan are between two calls, which may be on the two services of one server (75,000 states). What more servers do
to a plan is what the proofs say of any division into servers; `Servers = {{s1, s2}, {s3}}` in RunnerSafety.cfg checks the invariants for two (325,000 states up to symmetry, with Spec). A record's revision needs no
bound: it stops at 3, and that is proved. *RunPlan*: an input, a check, a source of a row has one that moves and one that does not; `MaxMoves` = 2 changes a part and changes it back, or two parts;
`MaxCalls` = 3 is a preparation and two executions, or the reverse (976,000 states). *RuntimeSwitch*: at most three bundles exist at
once (old, next, one of a former switch), and each kind of call is there; `MaxRuns` = 2 lets a run end while another is registered.
*RuntimeAccess*: requests and replies are used once; `MaxPending` = 1 is reached by two requests, `MaxRollbacks` = 1 is where the
behaviour changes: ForwardReadableIsListed looks at the states before it. *RunnerCache*: two contents are enough to disagree; two runs are a source and its reuse, two observers, or the old and
the retained owner of one blob. The sweep is beside a switch or alone (2.0 million states, over two minutes). *Records*: five calls make a memo, its replacement, two racing edits and a
topic creation at once; one key is two topics, with and without a configuration, which a lookup that names none confuses (210,000 states). *CatalogStore*: a step of time is twenty minutes, a result set
lives one step and a retired generation three, so that a set expires, a generation outlives its last set and is deleted (1.3 million states); a grace of two steps would be
too short in the model, where a call and the call that replaces its generation may each see a step begin, and TimesAssumption says so of every instance (the code's four quarters of an hour
and calls of thirty seconds are far from it); one edit makes a second generation, which a server that read before it replaces again by
the first. *Startup*: three starts are a first one, one that races it, and one after a crash of either; the second swap is for the root (3.8 million states). *MemoryBackup*: one run is in an archive of one time and not in the other's; two restores race, or one comes after the other, of the same archive or of two.
*Admission*: one slot per principal, one request per minute, one principal remembered and one audit row: each bound is reached by two requests, and a third meets what two left; a process has one surface from its start (2.5 million states). *Verification*: three calls are an import, the run that records an entry on it, and the one that would reuse it; one commit's checklist asks for two checks and the other has none, and either tree is a change to the other's commit; a report is a pass, a pass over local changes, one of too few checks, or a partial one that was cut off.
Calls, requests and starts are used once or bounded, which ends every behaviour: hence CHECK_DEADLOCK FALSE wherever it is said.
The Runner and the cache are checked for deadlock (RunPlan is not, whose calls are counted); switch_safety is not, because the cycle of locks is real.
Symmetry is used where no definition tells the values apart and never with fairness, so not in runner_safety.

Fairness. Only what the Go runtime and the code give: a goroutine that can step does (WF); a mutex that comes free again and again
is not withheld for ever from one waiter (Go's starvation mode, SF on Register and Unregister); a run's timer fires. Nothing is assumed of clients, started processes, or someone restarting a
server. In particular nothing is assumed of the holder of Service.mu, which SwitchEnds shows stuck for ever, nor that Wait returns for a process that was killed,
as a child of it may hold the pipe. These two are the hypothesis of what is checked: CallsSettle is LocksComeFree /\ WaitsReturn => CallsEnd /\ RunSettles. It then rests on
the timer: the mutant without it violates it. Of the switch, liveness is checked where it fails (switch_deadlock).

## 5. Disagreements between code and documents

One has a run whose counterexample TLC finds, and PROJECT.json quotes the lines:

- *SwitchEnds* (switch_deadlock): router read lock before Runner mutex in a call, the reverse in the switch.

Four more are stated as a property that TLC finds violated when it is the only INVARIANT of the configuration named:

- *InterruptedMeansLost* (RunnerSafety.cfg): Recover "marks runs whose process ownership was lost across a server restart" (execute.go:474-475), but a source or
  refresh switch runs it (application.go:187) beside a call of its own server that started its process and waits at execute.go:153, or that materializes a hit, which never takes Service.mu. If the switch
  then gives up, the goroutine waits for a process whose receipt is final, and its last update is refused.
- *UnreferencedOnly* (CacheSafety.cfg): the cleanup removes "unreferenced artifact blobs" (artifact.go:129-130), also one a hit of the old bundle has
  copied and is about to cite (cache.go:331): its record then says stored, and nothing is.
- *ExistingHasThatTopic* (RecordsSafety.cfg): currentTopicMemo passes a new memo's configuration to a query that skips empty filters (records/service.go:658-670, store/sqlite/records.go:204-214): a
  memo that names none is answered with the memo of another, and not written, though scope, configuration and topic_key are "an immutable identity" (README.md:270-271).
- *FailedWritesSayState* (AdmissionSafety.cfg): handleToolbox refuses a write without mutation_state (operations.go:617, 626, 631; README.md:314).

The following are in behaviours the models contain; where a configuration can show one, what to change in it is named.

- Recover marks every running record, whoever owns the process (execute.go:482-497): with two servers on one state directory it settles registered runs too, and the
  owner's last update is refused. README.md:442 says "Keep only one active server per identity/state directory". RunnerSafety.cfg with Servers = {{s1}, {s2}} violates RegisteredIsSpared.
- RebindRoot forgets the listed grants while the former root keeps them (runtimeaccess/service.go:199-209, workspace/root.go:243-248); after a rollback
  (runtime_config.go:257) that root can still be read where nothing is listed, though README.md:367-368 says grants "can be inspected or revoked with `runtime_access`". AccessSafety.cfg with
  ReadableIsListed shows it.
- An update sets validity to current without looking at what it was (records/service.go:849-853): a memo that was replaced becomes current again
  beside its successor, though README.md:271-273 says a successor "atomically supersedes the old record".
- The process of a run is started (execute.go:128) before the run is registered (160), and BeginMemorySnapshot looks at the registry alone, so that
  a snapshot can be granted beside a process (SECURITY.md:72 "refuses to snapshot an active Runner").
- With two servers on one state directory, the cleanup of one removes, by lists it read before, a blob that the other has just pinned by publishing. CacheSafety.cfg
  with Servers = {{s1}, {s2}} violates BlobsAreThere. In one server a switch holds publication back, and hits are the exception that BlobsAreThere makes (`beside`).
- The errors of the renames back and of RemoveAll of a swap are ignored and the marker goes (cache.go:474, 479, 511, 513): after a refused rename the root is away and nothing
  on disk says where. StartupSafety.cfg with the second part of RootSurvives freed of "refused" shows it.
- run_execute does not look again at required checks outside the cache key, nor at the grant for reuse, and what it compares may change before the process starts
  (execute.go:76-128), while SECURITY.md:50-51 says plans "bind the executable identity and declared inputs before one-time execution". ExecutionIsPlanned says what is left: each part that is looked at was as planned at some time during that call.
- copyVerifiedFile checks for a differing output and renames over the destination later (SECURITY.md:57 "does not overwrite a differing output").
- When HTTP does not restart, the rollback closes the new bundle (runtime_config.go:253-259) and so cancels a run that began on it, without the active-run check.
- Complete applies a token it took before a switch to the root that is current afterwards
  (runtimeaccess/service.go:218-236), though a switch discards pending proposals (197-198).
- A server that dies between the creation and the writing of a key leaves a file that every later start refuses (application.go:304-327), until someone removes it.
- A restore that dies between its promotions and its commit leaves files without records. The next restore refuses the directory as not empty; one of an archive with nothing for that directory
  passes over it and reports success beside them. SettledIsClean therefore speaks of restores that did not crash.
- acquire reads the time before it takes the limiter's mutex (httptransport/server.go:332-334): around the turn of a minute, requests that were delayed set the count back in turn, and more
  than requests_per_minute are admitted.
- report_import reads the checklist from the working tree and asks git only whether its name is tracked. A checklist edited to ask for less makes a report "passed"; the record is stored with validity
  stale, which no later reader looks at, and once the edit is taken back it qualifies a reuse that the committed checklist would not.
- HEAD and the changes are looked at one after the other (records/service.go:1596): a commit or stash in between makes an observation of a workspace that never was. And a later failed report of a commit does not displace an earlier pass.

## 6. What is proved

`RunnerProofs`, for any finite or infinite sets of services, plans and calls and any division of the services into servers, from the two
assumptions that `NoCall` is not a call and that each service is of one server:

- `TypesAlways`: Spec => []TypeOK. TypeOK is not inductive: that a revision stays within 0..3 needs to
  know what state each revision stands for and what each holder of a revision will do with it. The
  inductive invariant is TypeOK /\ UpdatesKnowState.
- `UpdatesAlwaysKnowState`: Spec => []UpdatesKnowState, where UpdatesKnowState is the conjunction of
  RevisionTellsState (1 is prepared, 2 running, materializing or a failed start, 3 terminal),
  HeldTellsState (the revision a call holds, at each of its places) and SeenTellsState (the same of
  Recover's list). The argument: every writer compares the revision, every write raises it, and so a comparison that
  succeeds means that the record is as the writer left it.
- `LogAlwaysTellsLauncher`: from CreateStdout to the end of its goroutine, and for ever once it started
  a process, a call is the one that stdout.log names.
- `LaunchIsUnique`: Spec => []AtMostOneLaunch, from the former: one file, one creator, one process.
- `ReceiptsAreFinal`: Spec => TerminalIsFinal. A terminal record has revision 3, or 2 and "failed"; by UpdatesKnowState no
  comparison against it succeeds.

Its second part, from the same assumptions, adds four invariants: `ModeDecides` (a launch and a materialization
never meet on one plan), `PlaceTellsProcess` (where a call's process is, by where the call is), `LauncherDecides`
(until the creator of stdout.log has recorded an outcome the plan has none but "interrupted") and `RegistryTells`
(Service.running lists exactly the calls whose goroutine waits). With TypeOK, UpdatesKnowState and LogTellsLauncher they are the inductive
invariant `Known`; from it follow

- `NoProcessSurvives`: Spec => []NoSurvivor.
- `OutcomesAreHonest`: Spec => []OutcomeHonest, since exit status and the end of a context never change.
- `RunningHasOwner`: Spec => []RunningIsOwned. The branch of Register that finds its entry taken (execute.go:153-160) would
  break it; `OwnEntryIsFree` proves that it cannot be reached.
- `SnapshotsMeetNoRun`: Spec => []SnapshotExcludesRegistered.
- `ReceiptsAreHonest` and `RunsAlwaysOwned`: Spec => []ReceiptIsHonest and Spec => []RunsAreOwned, the two properties the run checks, from their parts.
- `RunnerImplementsReceipt`: Spec => ReceiptSpec. `StepImplements` has a step per action: eleven change what RunReceipt
  sees, and every other one leaves receipt and process as they are.

Lemmas: one for Init, one per invariant for a step, and `GoneTypes` and `GoneRegistry` for the end of a server, which three
actions share.

- `RegisteredIsAlwaysSpared`: OneServer /\ Spec => RegisteredIsSpared, where OneServer says Servers = {Services} (README.md:442 "Keep only one active server per
  identity/state directory"; section 5 has what two do). The one server may crash, start again, and switch as often as it likes. It needs
  CallsNeedService (a handler is inside a service that is up, a goroutine inside one that is up or closing) and ServicesTakeTurns (a service recovers alone, or beside one whose lock the
  switch holds): BeginMemorySnapshot refuses while a run is registered, and its lock lets none register until Recover is over. That a run which is *not* registered is spared as well is false (InterruptedMeansLost, section 5).

Below, each theorem about a module is read off one inductive invariant, whose conjuncts TLC checked first on the instance of the module's run,
and the proof that a step keeps it has one step per action. Constants are any sets; what is assumed of them is the named ASSUME of the
module, mostly that `None` is no other value.

`RuntimeProofs`, of RuntimeSwitch, for any calls and bundles and any bound on runs: `LentBundlesStay`, `QuiescenceIsConsistent`, `FrozenRunnersAreIdle` (and
`SwitchTypesAlways`). None of the three is inductive. SwitchInv adds SwitchPlace (which of `old`, `next` and `current` is which at each
place of switchBundleLocked), ExistingAreInUse (no bundle but those exists), AllFollowCurrent (settings, grants and HTTP), AdminHolds (the switch
keeps the old Runner's mutex from the busy check to the release) and ClosedIsIdle. That the lent bundle stays then rests on the read lock
alone: the steps that change `current` or close need NoReader.

`RuntimeProofs`, of RuntimeAccess, for any roots, paths, capabilities, requests, replies, revocations and limits: `EffectIsAlwaysListed`,
`GrantsAreAlwaysAnswered` (and `AccessTypesAlways`, which states AccessTypeOK). EffectIsListed speaks of moments at which no reply or revocation is under way. What is
inductive is ReadableIsInHand: before any rollback a path the current root lets through is listed, or a reply has applied it and will list it, or a
revocation has unlisted it and will withdraw it. GrantsAreAnswered needs TokensAreSpent: a token that a reply took is gone, and can neither be taken again nor expire.

`StartupProofs`, for any servers, swaps and identities and any number of starts: `StartedAlwaysAgree`, `RootAlwaysSurvives` (and
`StartupTypesAlways`). OneWriter says that the file of a key that is being written is empty and has one writer, who created it with O_EXCL. For the
root, SwapPlace says what a swap left on disk at each of its places, LooksAtDone that a recovery holds a swap that is over (both as long as the two keep Apart). The first part of RootSurvives is
OneByOne: WholeIsLeft, and PartsAreSpare, which says that wherever a backup may be removed, or is removed in part, the root is whole. The second is KeeperIsThere: if no rename back was refused and the root is absent,
the swap that moved it away last still has its backup and its marker, and every recovery that has looked at that marker decided to restore.

`BackupProofs`, for any runs, exports, restores and archive names: `ArchivesAreWhole`, `RestoredStaysWhole`, `SettledStaysClean` (and
`BackupTypesAlways`). For the archive, the order of writes and the order of reads meet: SourceIsWhole (a run's files are there before a record cites them, and
never go) and ReadIsWhole (records are read first, so that what they cite is in the files read later). For the restore, RestorePlace (what
was promoted, by where the restore is), PromotedIsOwned (a directory that was promoted is that restore's alone) and RecordsAreOfOne. That files never go while
an export reads is the model's: cleanup runs in Recover only, when a server starts or switches, and a switch needs the lock the export holds.

`CacheProofs`, of RunnerCache: `CacheIsAlwaysTrue` (and `CacheTypesAlways`) for any number of servers, runs and contents. OutputsAreKnown, EntryIsObserved and HitsAgree
say that what a run observed is settled when it is recorded, that the entry holds what its source observed, and that a hit has the hash it was
admitted with although the entry may be replaced or quarantined meanwhile. `BlobsStayThere`: OneServer /\ Spec => []BlobsAreThere, where OneServer is Servers = {Services}: one server, which may switch; with two
it is false (section 5). ServicesTakeTurns and RunsHaveService say that only hits go on beside a cleanup. ProtectedIsThere is about the bytes of runs that retention
protects. CleanupKeeps says that what is protected, or can be reused, is on the list of what the cleanup keeps: of the runs only hits write meanwhile, and those the cleanup can have missed are in `beside`, the exception that
BlobsAreThere makes for their records; UnreferencedOnly (section 5), which has no exception, is false.

`CacheProofs`, of Verification, for any calls, commits, trees, checklists and reports: `ValidityIsAlwaysTrue`, `ReusesAreQualified` (and `EvidenceTypesAlways`). EvidenceInv
describes a draft by the place its call has reached: HasRead says what the call has read of the report, the checklist and the workspace, HasSeen that what it
read still is so unless `moved` says that the workspace moved. So a step of one call is one draft to look at, and Move is the same for all. EntryTells says that the
references of the entry are, check by check, passes of enough checks over a tree without local changes. LastOfMany is the lemma about the newest verification of a check: if there is one, there is a last.
NothingAssumption keeps "no commit" and "no checklist" apart from the values they stand beside.

`CatalogProofs`, for any servers, clients, files, queries and times, and any bounds: `GenerationsInUseAlwaysStay`, `AnswersAreAlwaysFresh`,
`ChainsAreAlwaysWhole` (and `CatalogTypesAlways`), from CatalogInv.

- A generation in use stays: a call's generation is current, or was retired no earlier than a step of time before the call began (IsHeld), and a call sees one step begin
  at most; so it is two steps old at most when somebody deletes, and 2 < Grace (TimesAssumption). For result sets, deleting looks at them as of a time that is past, when
  more of them were alive.
- An answer is fresh although it was read file by file: ScanTells says of each single thing that Build has read that it was so since Build began, which edits only add to;
  BuildIsFresh that what is built of such things tells nothing else and leaves out no manifest that was there throughout. Whoever published it, a call answers
  from the generation it built itself, because equal fingerprints are equal values.
- A chain of pages is whole although another query's result set is reused, the database changes, and the set may be deleted between the two reads of a page: all lists of one query and
  generation have the same members and length (Lists); a query's number belongs to no other set or cursor (NumbersAreFree), so that a cursor never meets a set of another query; what a client has
  is the beginning of the set up to its cursor (Follows), and PageIsCut says that a page, wherever it is cut, is the piece that comes next. Each says that SetToSeq lists a
  finite set once each, for which generations must be finite: an assumption about those that are there at the start (StoredAssumption) and BuildIsFinite for the others.

`AdmissionProofs`, for any requests (infinitely many too), principals, tokens, operations and limits: `SlotsAreAlwaysReturned`, `SharesAreAlwaysKept`, `AuditIsAlwaysTrue`,
`TrailIsKept` (and `AdmissionTypesAlways`), from AdmissionInv (`AdmissionIsInvariant`). PlaceTells says what a request has at each place, SlotsTell that the slot count
and each principal's active count are the numbers of requests that hold them and RowsTell what a row says of its request, on either surface (a write names its operation in the row on toolbox.v1, and never on typed.v1). StepOf says what a step of one request leaves alone: each
action is shown to be such a step, and each invariant to survive such a step once. SlotsAreReturned and SharesAreKept count finite sets, and no assumption is needed for it: the requests that
hold something are finite in number because they started one by one. TrailStays, which TrailIsKept states of every step, has no run: rows that are dropped stay out and completed rows are final.

`RecordsProofs`, for any finite set of calls and any keys, configurations and reports: `ExportsAreRestorable`, `NothingIsEverLost`, `OneOfEachAlways` (and `RecordTypesAlways`).
A step does one of three things to a record (Grows): nothing, its creation, or one more revision that keeps kind, topic and link and
contains every edit the former did. The third is what has to be shown, for the new revision is written from a draft read in an earlier transaction: DraftIsRead says
that the draft is the record, or a revision that is no longer current, and then the compare-and-swap refuses it. RevisionsAreCalls counts: a revision is a call
that ended, so none is numbered beyond the calls there are. PredecessorIsKept finds the two revisions of a replaced memo in its history. `OneOfEachAlways` has no hypothesis: of its three parts, one current
memo per topic is the index, one record per report ImportVerification's transaction, and ExistingIsOfTopic says what a lookup that drops empty filters does promise: a memo of the key, and of the configuration if the call names one.

Only model-checked: CallsSettle and SwitchEnds, for liveness under fairness stays with TLC, which is where temporal reasoning with ENABLED can be done; ExecutionIsPlanned and PlanWasObserved
of RunPlan. The other invariants that a passing run checks are theorems; the five that section 5 calls violated are false, and are proved of nothing.

## 7. Not modelled

Search, data query, path facts and text decoding: each call stands alone, and its outcome is a function of
files, arguments and one external process; their limits are for tests. Configuration, contracts, usage and result views: pure functions of a request, or one insert.
Of the MCP layer, the decoding of arguments and the wording and budgets of results. The toolbox client is a library for others.
The developer tools do not run in the server. File system semantics below
rename, link and O_EXCL; SQLite's own transactions, taken as atomic; clocks, except as timers that fire, quarters of an hour in CatalogStore and minutes in Admission.
