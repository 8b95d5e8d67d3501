---------------------------- MODULE RunnerCache ----------------------------
(***************************************************************************)
(* The Runner's cache (internal/runner/cache.go, artifact.go and           *)
(* store/sqlite/cache.go): a completed run publishes what it produced      *)
(* under a key, a later plan with that key copies the stored bytes instead *)
(* of launching, and the next service to recover sweeps what retention no  *)
(* longer protects: when a server starts, and whenever one switches its    *)
(* bundle over the same state directory (runtime_config.go:221-266), then  *)
(* beside the calls of the bundle in use.                                  *)
(*                                                                         *)
(* Every run here has the same key and one declared output.  A content     *)
(* stands for its own hash: blob[h] is what the file named by hash h       *)
(* holds.  A process may produce anything; what the cache has to survive   *)
(* is exactly that.  Services share the state directory and the workspace. *)
(*                                                                         *)
(* A step lies between two accesses to a file, a row or a record.  Recover *)
(* is one step up to its query for pinned hashes.  What decides whether a  *)
(* run is eligible (policy, qualification, key checks) is an input.        *)
(***************************************************************************)
EXTENDS Naturals, FiniteSets

CONSTANTS
  Services,   \* runner services over the one state directory
  Servers,    \* server processes: each is the set of the services it may hold
  Runs,       \* plans of one capability, configuration and inputs
  Contents,   \* what the declared output may hold
  None        \* no file, no entry, no run

ASSUME NoneAssumption == None \notin Contents \union Runs \union Services

ASSUME ServersAssumption ==
  /\ UNION Servers = Services
  /\ \A S, T \in Servers : S # T => S \intersect T = {}

VARIABLES
  file,       \* the declared output in the workspace
  blob,       \* artifacts/blobs/<hash>
  entry,      \* the row of cache_entries for the key, or None
  stored,     \* each run's artifact record: its storage, "none" without one
  out,        \* the hash each run observed, or was given by the cache
  old,        \* beyond retentionRunCount and retentionAge
  cited,      \* a current memo names the run: since it was "young" or "late"
  pc,         \* where each run is
  source,     \* the plan's cache decision: a hit's SourceRunRef, or None
  copy,       \* a hit: the temporary file, then what it put in the workspace
  wrote,      \* a hit under way: the output was created by it
  on,         \* the service that executes the run, None before and after
  lost,       \* the runs that a recovering service called interrupted, until
              \* their goroutine or handler ends
  phase,      \* each service: "down"; recovering, "pin" and "sweep"; "ready"
              \* (built beside the one in use), "up", "frozen" (in use, kept
              \* from registering by a switch), "aside" (replaced), "closing"
  sweep,      \* each service's cleanup: the runs and hashes it may remove
  beside      \* the hits that ran while a service chose what to remove (a
              \* record of what happened: no code keeps it)

workspace == <<file>>
evidence  == <<blob, entry, stored, out, old, cited>>
local     == <<pc, source, copy, wrote, on, lost>>
service   == <<phase, sweep, beside>>
vars      == <<workspace, evidence, local, service>>

-----------------------------------------------------------------------------
Files  == Contents \union {None}
Waiter == {"running", "exited", "observed", "captured", "uncaptured",
           "recorded", "published"}
Launch == {"launched"} \union Waiter
Reuse  == {"materializing", "absent", "copied", "placed", "restored"}
Ended  == {"finished", "reused", "failed"}
PCs    == {"idle", "planned", "dead"} \union Launch \union Reuse \union Ended

(* A run inside the run_execute handler, and not yet or never registered.  *)
Handled == {"launched"} \union Reuse

Mine(s) == {r \in Runs : on[r] = s}

(* The other services of the same server process.                          *)
Peers(s) == {t \in Services : t # s /\ \E S \in Servers : {s, t} \subseteq S}

(* A frozen service goes on serving.                                       *)
Serving(s) == phase[s] \in {"up", "frozen"}

(* The run's record says running or materializing.                         *)
Open(r) == pc[r] \in Launch \union Reuse \union {"dead"} /\ r \notin lost

(* A row of cache_entries; observers is observation_count, as the set of   *)
(* the runs it counted.                                                    *)
Entries ==
  [state : {"active", "quarantined"}, from : Runs, holds : Contents,
   expired : BOOLEAN, observers : SUBSET Runs]

Active == entry # None /\ entry.state = "active"
Usable == Active /\ ~ entry.expired

(* verifyCacheOutputs: the blob is there and has the content of its name.  *)
Verified(h) == blob[h] = h

NoSweep == [listed |-> {}, kept |-> {}, doomed |-> None]

Go(r, label) == pc' = [pc EXCEPT ![r] = label]

(* Mutant: a quarantined row forgets what it held.                         *)
QuarantinedEmpty == [entry EXCEPT !.state = "quarantined", !.holds = None]

(* QuarantineCacheEntry: the row stays, under its key.                     *)
Quarantined == [entry EXCEPT !.state = "quarantined"]

(* A goroutine or handler ends with the last update of the receipt, which  *)
(* sets FinishedAt; it is refused if the record was called interrupted in  *)
(* the meantime.  Nobody executes the run any more.                        *)
Leaves(r) ==
  /\ old'   = [old EXCEPT ![r] = @ /\ r \in lost]
  /\ on'    = [on EXCEPT ![r] = None]
  /\ lost'  = lost \ {r}
  /\ wrote' = [wrote EXCEPT ![r] = FALSE]

-----------------------------------------------------------------------------
Init ==
  /\ file   = None
  /\ blob   = [h \in Contents |-> None]
  /\ entry  = None
  /\ stored = [r \in Runs |-> "none"]
  /\ out    = [r \in Runs |-> None]
  /\ old    = [r \in Runs |-> FALSE]
  /\ cited  = [r \in Runs |-> "no"]
  /\ pc     = [r \in Runs |-> "idle"]
  /\ source = [r \in Runs |-> None]
  /\ copy   = [r \in Runs |-> None]
  /\ wrote  = [r \in Runs |-> FALSE]
  /\ on     = [r \in Runs |-> None]
  /\ lost   = {}
  /\ phase  = [s \in Services |-> "down"]
  /\ sweep  = [s \in Services |-> NoSweep]
  /\ beside = {}

-----------------------------------------------------------------------------
(* prepareCache decides on a hit ...                                       *)
PlanHit(s, r) ==
  /\ Serving(s)
  /\ pc[r] = "idle"
  /\ Usable /\ Verified(entry.holds)
  /\ source' = [source EXCEPT ![r] = entry.from]
  /\ Go(r, "planned")
  /\ UNCHANGED <<workspace, evidence, copy, wrote, on, lost, service>>

(* ... or against one: nothing usable, a bypass, or no qualification.  An  *)
(* entry whose blob does not verify is quarantined.                        *)
PlanLaunch(s, r) ==
  /\ Serving(s)
  /\ pc[r] = "idle"
  /\ entry' \in {entry} \union
       (IF Usable /\ ~ Verified(entry.holds) THEN {Quarantined} ELSE {})
  /\ Go(r, "planned")
  /\ UNCHANGED <<workspace, blob, stored, out, old, cited, source, copy,
                 wrote, on, lost, service>>

(* Execute launches, and its record says running ...                       *)
Start(s, r) ==
  /\ Serving(s)
  /\ pc[r] = "planned"
  /\ source[r] = None
  /\ on' = [on EXCEPT ![r] = s]
  /\ Go(r, "launched")
  /\ UNCHANGED <<workspace, evidence, source, copy, wrote, lost, service>>

(* Mutant: the lock is not waited for.                                     *)
RegisterUnlocked(r) ==
  /\ pc[r] = "launched"
  /\ Go(r, "running")
  /\ UNCHANGED <<workspace, evidence, source, copy, wrote, on, lost,
                 service>>

(* ... and registers under Service.mu.                                     *)
Register(r) ==
  /\ pc[r] = "launched"
  /\ phase[on[r]] = "up"
  /\ Go(r, "running")
  /\ UNCHANGED <<workspace, evidence, source, copy, wrote, on, lost,
                 service>>

(* The process writes what it likes and exits.                             *)
Produce(r) ==
  /\ pc[r] = "running"
  /\ file' \in Files
  /\ Go(r, "exited")
  /\ UNCHANGED <<evidence, source, copy, wrote, on, lost, service>>

(* observeArtifacts: hash the declared output.  A missing one ends it.     *)
Observe(r) ==
  /\ pc[r] = "exited"
  /\ out' = [out EXCEPT ![r] = file]
  /\ IF file = None
       THEN /\ Go(r, "finished")
            /\ Leaves(r)
       ELSE /\ Go(r, "observed")
            /\ UNCHANGED <<old, on, lost, wrote>>
  /\ UNCHANGED <<workspace, blob, entry, stored, cited, source, copy, service>>

(* captureBlob: an existing blob is verified; else the file is copied as   *)
(* it is now, which need not be what was hashed.                           *)
Capture(r) ==
  LET h == out[r]
  IN  /\ pc[r] = "observed"
      /\ \/ /\ blob[h] # None
            /\ Go(r, IF Verified(h) THEN "captured" ELSE "uncaptured")
            /\ UNCHANGED blob
         \/ /\ blob[h] = None
            /\ file # None
            /\ blob' = [blob EXCEPT ![h] = file]
            /\ Go(r, "captured")
         \/ /\ Go(r, "uncaptured")
            /\ UNCHANGED blob
      /\ UNCHANGED <<workspace, entry, stored, out, old, cited, source,
                     copy, wrote, on, lost, service>>

RecordArtifact(r) ==
  /\ pc[r] \in {"captured", "uncaptured"}
  /\ stored' = [stored EXCEPT ![r] =
                 IF pc[r] = "captured" THEN "stored" ELSE "not_stored"]
  /\ Go(r, "recorded")
  /\ UNCHANGED <<workspace, blob, entry, out, old, cited, source, copy,
                 wrote, on, lost, service>>

(* Mutant: the last observation wins.                                      *)
ObservedLatest(r) ==
  IF entry = None
    THEN [state |-> "active", from |-> r, holds |-> out[r],
          expired |-> FALSE, observers |-> {r}]
    ELSE [entry EXCEPT !.expired = FALSE, !.holds = out[r],
                       !.observers = @ \union {r}]

(* PublishCacheObservation, one transaction: insert, or confirm, or        *)
(* quarantine for ever; either way the entry's time starts again.          *)
Observed(r) ==
  IF entry = None
    THEN [state |-> "active", from |-> r, holds |-> out[r],
          expired |-> FALSE, observers |-> {r}]
    ELSE [entry EXCEPT !.expired = FALSE,
                       !.observers = @ \union {r},
                       !.state = IF entry.holds = out[r] THEN @
                                 ELSE "quarantined"]

(* publishCacheObservation, if the artifact record says stored.            *)
Publish(r) ==
  /\ pc[r] = "recorded"
  /\ stored[r] = "stored"
  /\ entry' = Observed(r)
  /\ Go(r, "published")
  /\ UNCHANGED <<workspace, blob, stored, out, old, cited, source, copy,
                 wrote, on, lost, service>>

(* The receipt; nothing was published if the run did not complete, was not *)
(* eligible or not captured, or the store refused.                         *)
Conclude(r) ==
  /\ pc[r] \in {"exited", "captured", "uncaptured", "recorded", "published"}
  /\ Leaves(r)
  /\ Go(r, "finished")
  /\ UNCHANGED <<workspace, blob, entry, stored, out, cited, source, copy,
                 service>>

-----------------------------------------------------------------------------
(* executeCacheHit reads the entry again and admits the plan's own one.    *)
Admit(s, r) ==
  /\ Serving(s)
  /\ pc[r] = "planned"
  /\ Usable /\ source[r] = entry.from
  /\ Verified(entry.holds)
  /\ out' = [out EXCEPT ![r] = entry.holds]
  /\ on' = [on EXCEPT ![r] = s]
  /\ Go(r, "materializing")
  /\ beside' = IF \E t \in Services : phase[t] = "pin"
                 THEN beside \union {r} ELSE beside
  /\ UNCHANGED <<workspace, blob, entry, stored, old, cited, source, copy,
                 wrote, lost, phase, sweep>>

(* The plan is stale: a blob that does not verify is quarantined by key.   *)
RefuseHit(s, r) ==
  /\ Serving(s)
  /\ pc[r] = "planned"
  /\ Usable /\ source[r] = entry.from
  /\ ~ Verified(entry.holds)
  /\ entry' = Quarantined
  /\ UNCHANGED <<workspace, blob, stored, out, old, cited, local, service>>

Fail(r) ==
  /\ Go(r, "failed")
  /\ Leaves(r)

(* copyVerifiedFile: an equal output is left alone, another is a conflict, *)
CheckOutput(r) ==
  /\ pc[r] = "materializing"
  /\ \/ /\ file = None
        /\ Go(r, "absent")
        /\ UNCHANGED <<copy, old, on, lost, wrote>>
     \/ /\ file = out[r]
        /\ copy' = [copy EXCEPT ![r] = file]
        /\ Go(r, "placed")
        /\ UNCHANGED <<old, on, lost, wrote>>
     \/ /\ file \notin {None, out[r]}
        /\ Fail(r)
        /\ UNCHANGED copy
  /\ UNCHANGED <<workspace, blob, entry, stored, out, cited, source, service>>

(* Mutant: the copy is not hashed.                                         *)
CopyBlobUnverified(r) ==
  LET bytes == blob[out[r]]
  IN  /\ pc[r] = "absent"
      /\ IF bytes # None
           THEN /\ copy' = [copy EXCEPT ![r] = bytes]
                /\ Go(r, "copied")
                /\ UNCHANGED <<old, on, lost, wrote>>
           ELSE /\ Fail(r)
                /\ UNCHANGED copy
      /\ UNCHANGED <<workspace, blob, entry, stored, out, cited, source,
                     service>>

(* the blob is copied to a temporary file and the copy is hashed,          *)
CopyBlob(r) ==
  LET bytes == blob[out[r]]
  IN  /\ pc[r] = "absent"
      /\ IF bytes = out[r]
           THEN /\ copy' = [copy EXCEPT ![r] = bytes]
                /\ Go(r, "copied")
                /\ UNCHANGED <<old, on, lost, wrote>>
           ELSE /\ Fail(r)
                /\ UNCHANGED copy
      /\ UNCHANGED <<workspace, blob, entry, stored, out, cited, source,
                     service>>

(* and renamed over whatever is there by now.                              *)
Place(r) ==
  /\ pc[r] = "copied"
  /\ file' = copy[r]
  /\ wrote' = [wrote EXCEPT ![r] = TRUE]
  /\ Go(r, "placed")
  /\ UNCHANGED <<evidence, source, copy, on, lost, service>>

(* recordReusedArtifacts, whose errors are not fatal,                      *)
RecordReused(r) ==
  /\ pc[r] = "placed"
  /\ \E st \in {"stored", "none"} : stored' = [stored EXCEPT ![r] = st]
  /\ Go(r, "restored")
  /\ UNCHANGED <<workspace, blob, entry, out, old, cited, source, copy,
                 wrote, on, lost, service>>

(* and the receipt.                                                        *)
ConcludeReuse(r) ==
  /\ pc[r] = "restored"
  /\ Leaves(r)
  /\ Go(r, "reused")
  /\ UNCHANGED <<workspace, blob, entry, stored, out, cited, source, copy,
                 service>>

(* The outputs cannot be listed: what was created is removed, and the      *)
(* receipt is left to Recover.                                             *)
UndoReuse(r) ==
  /\ pc[r] = "placed"
  /\ file' = IF wrote[r] THEN None ELSE file
  /\ Go(r, "dead")
  /\ on'    = [on EXCEPT ![r] = None]
  /\ wrote' = [wrote EXCEPT ![r] = FALSE]
  /\ UNCHANGED <<evidence, source, copy, lost, service>>

-----------------------------------------------------------------------------
(* Recover interrupts what it finds open, as of now, and then reads the    *)
(* records: what is old and not cited may go, with the artifacts that say  *)
(* stored, unless a run that stays has the same content.                   *)
Recover(s) ==
  LET open == {r \in Runs : Open(r)}
      aged == [r \in Runs |-> old[r] /\ r \notin open]
      gone == {r \in Runs : aged[r] /\ cited[r] = "no"}
  IN  /\ phase[s] = "down"
      /\ \A t \in Peers(s) : phase[t] \in {"down", "frozen"}
      /\ lost' = lost \union open
      /\ old' = aged
      /\ sweep' = [sweep EXCEPT ![s] =
           [listed |-> {r \in gone : stored[r] = "stored"},
            kept   |-> {out[r] : r \in {q \in Runs \ gone : stored[q] # "none"}},
            doomed |-> None]]
      /\ phase' = [phase EXCEPT ![s] = "pin"]
      /\ beside' = beside \union {r \in Runs : pc[r] \in Reuse}
      /\ UNCHANGED <<workspace, blob, entry, stored, out, cited, pc,
                     source, copy, wrote, on>>

(* Mutant: the cache is not asked.                                         *)
PinNothing(s) ==
  /\ phase[s] = "pin"
  /\ phase' = [phase EXCEPT ![s] = "sweep"]
  /\ UNCHANGED <<workspace, evidence, local, sweep, beside>>

(* ListProtectedCacheHashes: active entries that have not expired.         *)
Pin(s) ==
  /\ phase[s] = "pin"
  /\ LET pinned == IF Usable THEN {entry.holds} ELSE {}
     IN  sweep' = [sweep EXCEPT ![s].kept = sweep[s].kept \union pinned]
  /\ phase' = [phase EXCEPT ![s] = "sweep"]
  /\ UNCHANGED <<workspace, evidence, local, beside>>

(* Mutant: a content shared with a run that stays is not protected.        *)
RemoveSharedBlob(s, r) ==
  /\ phase[s] = "sweep"
  /\ sweep[s].doomed = None
  /\ r \in sweep[s].listed
  /\ blob' = [blob EXCEPT ![out[r]] = None]
  /\ sweep' = [sweep EXCEPT ![s].doomed = r]
  /\ UNCHANGED <<workspace, entry, stored, out, old, cited, local, phase,
                 beside>>

RemoveBlob(s, r) ==
  /\ phase[s] = "sweep"
  /\ sweep[s].doomed = None
  /\ r \in sweep[s].listed
  /\ out[r] \notin sweep[s].kept
  /\ blob' = [blob EXCEPT ![out[r]] = None]
  /\ sweep' = [sweep EXCEPT ![s].doomed = r]
  /\ UNCHANGED <<workspace, entry, stored, out, old, cited, local, phase,
                 beside>>

(* The artifact record is updated by revision; a conflict fails the build. *)
MarkDeleted(s) ==
  LET r == sweep[s].doomed
  IN  /\ phase[s] = "sweep"
      /\ r # None
      /\ IF stored[r] = "stored"
           THEN /\ stored' = [stored EXCEPT ![r] = "deleted"]
                /\ sweep' = [sweep EXCEPT ![s] =
                     [listed |-> sweep[s].listed \ {r}, kept |-> sweep[s].kept,
                      doomed |-> None]]
                /\ UNCHANGED phase
           ELSE /\ phase' = [phase EXCEPT ![s] = "down"]
                /\ sweep' = [sweep EXCEPT ![s] = NoSweep]
                /\ UNCHANGED stored
      /\ UNCHANGED <<workspace, blob, entry, out, old, cited, local, beside>>

(* Nothing is left, or 64 removals were made; what is left of these is for *)
(* expired entries.                                                        *)
Serve(s) ==
  /\ phase[s] = "sweep"
  /\ sweep[s].doomed = None
  /\ entry' \in {entry} \union
       (IF entry # None /\ entry.expired THEN {None} ELSE {})
  /\ phase' = [phase EXCEPT ![s] =
                IF \A t \in Peers(s) : phase[t] = "down" THEN "up" ELSE "ready"]
  /\ sweep' = [sweep EXCEPT ![s] = NoSweep]
  /\ UNCHANGED <<workspace, blob, stored, out, old, cited, local, beside>>

-----------------------------------------------------------------------------
(* What services end with: nobody finishes their runs.                     *)
Gone(S) ==
  /\ phase' = [s \in Services |-> IF s \in S THEN "down" ELSE phase[s]]
  /\ sweep' = [s \in Services |-> IF s \in S THEN NoSweep ELSE sweep[s]]
  /\ pc' = [r \in Runs |->
             IF on[r] \in S /\ pc[r] \in Launch \union Reuse THEN "dead"
             ELSE pc[r]]
  /\ on'    = [r \in Runs |-> IF on[r] \in S THEN None ELSE on[r]]
  /\ wrote' = [r \in Runs |-> wrote[r] /\ on[r] \notin S]
  /\ UNCHANGED <<workspace, evidence, source, copy, lost, beside>>

(* The server process ends, at any point of its cleanup or of its runs.    *)
Crash(S) == (\E s \in S : phase[s] # "down") /\ Gone(S)

(* A bundle that a failed switch replaced has closed.                      *)
Stop(s) == phase[s] = "closing" /\ Gone({s})

(* switchBundleLocked freezes the Runner in use unless runs are registered. *)
BeginSwitch(s) ==
  /\ phase[s] = "up"
  /\ \A t \in Peers(s) : phase[t] = "down"
  /\ \A r \in Mine(s) : pc[r] \notin Waiter
  /\ phase' = [phase EXCEPT ![s] = "frozen"]
  /\ UNCHANGED <<workspace, evidence, local, sweep, beside>>

(* The build failed, or HTTP did not stop: the Runner in use goes on.      *)
AbandonSwitch(s) ==
  /\ phase[s] = "frozen"
  /\ phase' = [t \in Services |->
                IF t = s THEN "up" ELSE IF t \in Peers(s) THEN "down" ELSE phase[t]]
  /\ sweep' = [t \in Services |-> IF t \in Peers(s) THEN NoSweep ELSE sweep[t]]
  /\ UNCHANGED <<workspace, evidence, local, beside>>

(* router.swap waits for every handler of the bundle in use.               *)
Swap(s, t) ==
  /\ phase[s] = "frozen"
  /\ t \in Peers(s)
  /\ phase[t] = "ready"
  /\ \A r \in Mine(s) : pc[r] \notin Handled
  /\ phase' = [phase EXCEPT ![s] = "aside", ![t] = "up"]
  /\ UNCHANGED <<workspace, evidence, local, sweep, beside>>

(* The old bundle is closed, ...                                           *)
FinishSwitch(s) ==
  /\ phase[s] = "aside"
  /\ phase' = [phase EXCEPT ![s] = "down"]
  /\ UNCHANGED <<workspace, evidence, local, sweep, beside>>

(* ... or HTTP did not start and it is swapped back.                       *)
RollBack(s, t) ==
  /\ phase[s] = "aside"
  /\ t \in Peers(s)
  /\ phase[t] = "up"
  /\ \A r \in Mine(t) : pc[r] \notin Handled
  /\ phase' = [phase EXCEPT ![s] = "up", ![t] = "closing"]
  /\ UNCHANGED <<workspace, evidence, local, sweep, beside>>

-----------------------------------------------------------------------------
(* The surroundings: somebody edits the output; a stored file is damaged;  *)
(* time passes for a run or for the entry; a client writes a memo that     *)
(* names a run.                                                            *)
Edit ==
  /\ file' \in Files \ {file}
  /\ UNCHANGED <<evidence, local, service>>

Damage(h) ==
  /\ blob[h] = h
  /\ \E bytes \in Contents \ {h} : blob' = [blob EXCEPT ![h] = bytes]
  /\ UNCHANGED <<workspace, entry, stored, out, old, cited, local, service>>

Age(r) ==
  /\ pc[r] # "idle"
  /\ ~ old[r]
  /\ old' = [old EXCEPT ![r] = TRUE]
  /\ UNCHANGED <<workspace, blob, entry, stored, out, cited, local, service>>

Expire ==
  /\ entry # None
  /\ ~ entry.expired
  /\ entry' = [entry EXCEPT !.expired = TRUE]
  /\ UNCHANGED <<workspace, blob, stored, out, old, cited, local, service>>

Cite(r) ==
  /\ pc[r] # "idle"
  /\ cited[r] = "no"
  /\ cited' = [cited EXCEPT ![r] = IF old[r] THEN "late" ELSE "young"]
  /\ UNCHANGED <<workspace, blob, entry, stored, out, old, local, service>>

-----------------------------------------------------------------------------
RunStep(r) ==
  \/ Register(r)
  \/ Produce(r)
  \/ Observe(r)
  \/ Capture(r)
  \/ RecordArtifact(r)
  \/ Publish(r)
  \/ Conclude(r)
  \/ CheckOutput(r)
  \/ CopyBlob(r)
  \/ Place(r)
  \/ RecordReused(r)
  \/ ConcludeReuse(r)
  \/ UndoReuse(r)
  \/ Age(r)
  \/ Cite(r)

ServiceStep(s) ==
  \/ Recover(s)
  \/ Pin(s)
  \/ MarkDeleted(s)
  \/ Serve(s)
  \/ Stop(s)
  \/ BeginSwitch(s)
  \/ AbandonSwitch(s)
  \/ FinishSwitch(s)

PairStep(s, t) ==
  \/ Swap(s, t)
  \/ RollBack(s, t)

CallStep(s, r) ==
  \/ PlanHit(s, r)
  \/ PlanLaunch(s, r)
  \/ Start(s, r)
  \/ Admit(s, r)
  \/ RefuseHit(s, r)
  \/ RemoveBlob(s, r)

Next ==
  \/ \E r \in Runs : RunStep(r)
  \/ \E s \in Services : ServiceStep(s)
  \/ \E s, t \in Services : PairStep(s, t)
  \/ \E S \in Servers : Crash(S)
  \/ \E s \in Services, r \in Runs : CallStep(s, r)
  \/ \E h \in Contents : Damage(h)
  \/ Edit
  \/ Expire

Spec == Init /\ [][Next]_vars

-----------------------------------------------------------------------------
(* Type invariant.                                                         *)
TypeOK ==
  /\ file   \in Files
  /\ blob   \in [Contents -> Files]
  /\ entry  \in Entries \union {None}
  /\ stored \in [Runs -> {"none", "stored", "not_stored", "deleted"}]
  /\ out    \in [Runs -> Files]
  /\ old    \in [Runs -> BOOLEAN]
  /\ cited  \in [Runs -> {"no", "young", "late"}]
  /\ pc     \in [Runs -> PCs]
  /\ source \in [Runs -> Runs \union {None}]
  /\ copy   \in [Runs -> Files]
  /\ wrote  \in [Runs -> BOOLEAN]
  /\ on     \in [Runs -> Services \union {None}]
  /\ lost   \subseteq Runs
  /\ phase  \in [Services -> {"down", "pin", "sweep", "ready", "up", "frozen",
                            "aside", "closing"}]
  /\ sweep  \in [Services -> [listed : SUBSET Runs, kept : SUBSET Contents,
                             doomed : Runs \union {None}]]
  /\ beside \subseteq Runs

(* CHANGELOG.md:439-440 "verified reuse": what a reuse leaves in the       *)
(* workspace is what its source run observed as its own output, whatever   *)
(* was produced, edited, captured, published or removed since.             *)
ReuseIsObserved ==
  \A r \in Runs :
    pc[r] \in {"placed", "restored", "reused"} => copy[r] = out[source[r]]

(* "false-hit quarantine": an entry can be reused only as long as every    *)
(* run that published under its key observed the same output.              *)
ActiveIsUnanimous ==
  Active => \A r \in entry.observers : out[r] = entry.holds

(* "verified reuse, false-hit quarantine": neither does a reuse differ from *)
(* its source, nor is one on offer that a later observation contradicts.   *)
CacheIsTrue == ReuseIsObserved /\ ActiveIsUnanimous

(* CHANGELOG.md:441 "active artifact-blob pins": the bytes of an entry     *)
(* that can be reused are there, whichever runs shared them and went.      *)
PinnedIsThere == Usable => blob[entry.holds] # None

(* README.md:472-473 "captured artifacts are retained there under bounded  *)
(* policies": the artifact of a run that is recent, or was cited while it  *)
(* was, is there as long as its record says stored, whatever cleanup did   *)
(* and where it was stopped.  A hit is excepted that was under way while   *)
(* cleanup chose what to remove (UnreferencedOnly).                        *)
RetainedIsThere ==
  \A r \in Runs \ beside :
    stored[r] = "stored" /\ (~ old[r] \/ cited[r] = "young") =>
      blob[out[r]] # None

(* Cleanup, which lists records, then pins, then removes one blob after    *)
(* another while runs go on, removes no bytes that anything still needs.   *)
BlobsAreThere == PinnedIsThere /\ RetainedIsThere

(* artifact.go:129-130 "expires at most limit stream directories or        *)
(* unreferenced artifact blobs": no artifact record of a recent run is     *)
(* left without its blob.  It is not so: cleanup runs beside the hits of   *)
(* its own server, which write their artifact records last.                *)
UnreferencedOnly ==
  \A r \in Runs : stored[r] = "stored" /\ ~ old[r] => blob[out[r]] # None
=============================================================================
