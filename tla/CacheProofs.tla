---------------------------- MODULE CacheProofs ----------------------------
(***************************************************************************)
(* Theorems about a reuse: what it restores (RunnerCache) and what it      *)
(* rests on (Verification, from EvidenceInv on).                           *)
(*                                                                         *)
(* RunnerCache, for any number of servers, runs and contents: a reuse is   *)
(* what its source run observed, and an entry that can be reused was       *)
(* observed by everybody who published it.  For one server, with all its   *)
(* switches and crashes: cleanup removes no bytes that anything still      *)
(* needs, other than those of a hit it met while it chose.                 *)
(*                                                                         *)
(* What a run observed is settled once it is recorded (OutputsAreKnown);   *)
(* so an entry's hash stays that of its source run (EntryIsObserved), and  *)
(* a hit's that of the entry it was admitted for (HitsAgree).              *)
(*                                                                         *)
(* Verification, for any number of calls, commits, trees and reports: what *)
(* is called current describes the workspace that was looked at, and who   *)
(* plans or reuses has a clean pass of it for each check.  A draft is      *)
(* described by the place its call has reached (HasRead, HasSeen), so that *)
(* a step of one call is one draft to look at.                             *)
(***************************************************************************)
EXTENDS RunnerCache, Verification, WellFoundedInduction, TLAPS

(* A run's hash is that of a content once it was observed or admitted, and *)
(* none is recorded before.                                                *)
OutputsAreKnown ==
  \A r \in Runs :
    /\ pc[r] \in {"observed", "captured", "uncaptured", "recorded", "published",
                  "reused"} \union Reuse => out[r] \in Contents
    /\ stored[r] # "none" =>
         out[r] \in Contents /\ pc[r] \notin {"idle", "planned", "launched", "running", "exited"}

(* Where a run is that has published.                                      *)
Fixed == {"published", "finished", "dead"}

(* The entry holds what its source run observed; its observers' outputs    *)
(* are settled, and agree as long as it is active.                         *)
EntryIsObserved ==
  entry # None =>
    /\ entry.from \in entry.observers
    /\ out[entry.from] = entry.holds
    /\ \A r \in entry.observers :
         pc[r] \in Fixed /\ (entry.state = "active" => out[r] = entry.holds)

(* A hit has the hash of its source run, and copies it.                    *)
HitsAgree ==
  \A r \in Runs : pc[r] \in Reuse \union {"reused"} =>
    /\ source[r] \in Runs /\ pc[source[r]] \in Fixed
    /\ out[r] = out[source[r]]
    /\ pc[r] \in {"copied", "placed", "restored", "reused"} => copy[r] = out[r]

CacheInv == TypeOK /\ OutputsAreKnown /\ EntryIsObserved /\ HitsAgree

-----------------------------------------------------------------------------
(* Cleanup and one server, which may switch between its services.          *)
OneServer == Servers = {Services}

(* A service recovers alone, or beside a frozen one; and beside a frozen   *)
(* one no other is in use.                                                 *)
ServicesTakeTurns ==
  /\ \A s \in Services : phase[s] \in {"pin", "sweep"} =>
       \A t \in Peers(s) : phase[t] \in {"down", "frozen"}
  /\ \A s \in Services : phase[s] = "frozen" =>
       \A t \in Peers(s) : phase[t] \in {"down", "pin", "sweep", "ready"}

(* A handler runs in a service in use, a goroutine in one that is not      *)
(* frozen; only hits meet a cleanup that is choosing.                      *)
RunsHaveService ==
  \A r \in Runs :
    /\ pc[r] \in Handled => on[r] \in Services /\ Serving(on[r])
    /\ pc[r] \in Waiter  => on[r] \in Services /\ phase[on[r]] \in {"up", "closing"}
    /\ r \in beside      => pc[r] \in Reuse \union {"reused", "failed", "dead"}

(* Retention protects a run that is young, was cited in time or has no     *)
(* receipt yet: a recovering service dates that from now.                  *)
Protected(r) == stored[r] = "stored" /\ (~ old[r] \/ cited[r] = "young" \/ Open(r))

(* The bytes of protected runs, and of those captured or reused, exist.    *)
ProtectedIsThere ==
  \A r \in Runs \ beside :
    \/ Protected(r)
    \/ pc[r] \in Reuse \union {"captured"}
    \/ pc[r] = "recorded" /\ stored[r] = "stored"
    => blob[out[r]] # None

(* Cleanup keeps the hashes of protected runs from its first reading on,   *)
(* and from its query on the entry's, and so those of the hits admitted    *)
(* since; the others are beside it.                                        *)
CleanupKeeps ==
  \A s \in Services :
    /\ phase[s] \in {"pin", "sweep"} =>
         \A r \in Runs \ beside : Protected(r) => out[r] \in sweep[s].kept
    /\ phase[s] = "pin" => \A r \in Runs \ beside : pc[r] \notin Reuse
    /\ phase[s] = "sweep" =>
         /\ Usable => entry.holds \in sweep[s].kept
         /\ \A r \in Runs \ beside : pc[r] \in Reuse => out[r] \in sweep[s].kept

CleanupInv ==
  /\ OneServer
  /\ CacheInv
  /\ ServicesTakeTurns
  /\ RunsHaveService
  /\ ProtectedIsThere
  /\ PinnedIsThere
  /\ CleanupKeeps

-----------------------------------------------------------------------------
(* The last update of a receipt.                                           *)
LEMMA LeavesTypes ==
  ASSUME TypeOK, NEW r \in Runs, Observe(r) \/ CheckOutput(r) \/ CopyBlob(r)
  PROVE  /\ old'   \in [Runs -> BOOLEAN]
         /\ on'    \in [Runs -> Services \union {None}]
         /\ lost'  \subseteq Runs
         /\ wrote' \in [Runs -> BOOLEAN]
<1>1. CASE Leaves(r)
  BY <1>1 DEF TypeOK, Leaves
<1>2. CASE UNCHANGED <<old, on, lost, wrote>>
  BY <1>2 DEF TypeOK
<1>3. Leaves(r) \/ UNCHANGED <<old, on, lost, wrote>>
  BY Zenon DEF Observe, CheckOutput, CopyBlob, Fail
<1> QED
  BY <1>1, <1>2, <1>3

(* What an entry says, before and after it is quarantined or expires.      *)
LEMMA EntryValues ==
  ASSUME TypeOK, entry # None
  PROVE  /\ entry.from \in Runs /\ entry.holds \in Contents /\ entry.observers \subseteq Runs
         /\ LET e == Quarantined
            IN  /\ e \in Entries /\ e.state = "quarantined" /\ e.from = entry.from
                /\ e.holds = entry.holds /\ e.observers = entry.observers
         /\ LET e == [entry EXCEPT !.expired = TRUE]
            IN  /\ e \in Entries /\ e.expired /\ e.from = entry.from /\ e.state = entry.state
                /\ e.holds = entry.holds /\ e.observers = entry.observers
<1>1. entry \in Entries
  BY DEF TypeOK
<1> QED
  BY <1>1 DEF Entries, Quarantined

(* What it says once run r has published.                                  *)
LEMMA ObservedValues ==
  ASSUME TypeOK, NEW r \in Runs, out[r] \in Contents
  PROVE  LET e == Observed(r)
         IN  /\ e \in Entries
             /\ entry = None =>
                  /\ e.from = r /\ e.holds = out[r] /\ e.observers = {r}
             /\ entry # None =>
                  /\ e.from = entry.from /\ e.holds = entry.holds
                  /\ e.observers = entry.observers \union {r}
                  /\ e.state = "active" => entry.state = "active" /\ entry.holds = out[r]
<1>1. CASE entry = None
  BY <1>1 DEF Observed, Entries
<1>2. CASE entry # None
  <2>1. entry \in Entries
    BY <1>2 DEF TypeOK
  <2>2. CASE entry.holds = out[r]
    BY <1>2, <2>1, <2>2 DEF Observed, Entries
  <2>3. CASE entry.holds # out[r]
    BY <1>2, <2>1, <2>3 DEF Observed, Entries
  <2> QED
    BY <2>2, <2>3
<1> QED
  BY <1>1, <1>2

(* Every step keeps every variable within its type.                        *)
LEMMA NextTypes ==
  ASSUME TypeOK, OutputsAreKnown, [Next]_vars
  PROVE  TypeOK'
<1> USE NoneAssumption DEF TypeOK, OutputsAreKnown, Files, PCs, Go, Leaves, Fail,
    NoSweep, Waiter, Launch, Reuse, Ended, vars, workspace, evidence, local, service
<1>1. ASSUME NEW r \in Runs, RunStep(r)
      PROVE  TypeOK'
  <2>0. CASE Register(r)
    BY <2>0 DEF Register
  <2>1. CASE Produce(r)
    BY <2>1 DEF Produce
  <2>2. CASE Observe(r)
    <3>1. CASE file = None
      <4>1. /\ old' \in [Runs -> BOOLEAN] /\ on' \in [Runs -> Services \union {None}]
            /\ lost' \subseteq Runs /\ wrote' \in [Runs -> BOOLEAN]
        BY <2>2, LeavesTypes
      <4>2. pc' \in [Runs -> PCs] /\ out' \in [Runs -> Files]
        BY <2>2, <3>1 DEF Observe
      <4> QED
        BY <2>2, <4>1, <4>2 DEF Observe
    <3>2. CASE ~ (file = None)
      <4>1. /\ old' \in [Runs -> BOOLEAN] /\ on' \in [Runs -> Services \union {None}]
            /\ lost' \subseteq Runs /\ wrote' \in [Runs -> BOOLEAN]
        BY <2>2, LeavesTypes
      <4>2. pc' \in [Runs -> PCs] /\ out' \in [Runs -> Files]
        BY <2>2, <3>2 DEF Observe
      <4> QED
        BY <2>2, <4>1, <4>2 DEF Observe
    <3> QED
      BY <3>1, <3>2
  <2>3. CASE Capture(r)
    BY <2>3 DEF Capture
  <2>4. CASE RecordArtifact(r)
    BY <2>4 DEF RecordArtifact
  <2>5. CASE Publish(r)
    <3>1. entry' \in Entries \union {None}
      BY <2>5, ObservedValues DEF Publish
    <3> QED
      BY <2>5, <3>1 DEF Publish
  <2>6. CASE Conclude(r)
    BY <2>6 DEF Conclude
  <2>7. CASE CheckOutput(r)
    <3>1. CASE file = None
      BY <2>7, <3>1 DEF CheckOutput
    <3>2. CASE file = out[r]
      BY <2>7, <3>2 DEF CheckOutput
    <3>3. CASE file \notin {None, out[r]}
      <4>1. /\ old' \in [Runs -> BOOLEAN] /\ on' \in [Runs -> Services \union {None}]
            /\ lost' \subseteq Runs /\ wrote' \in [Runs -> BOOLEAN]
        BY <2>7, LeavesTypes
      <4>2. pc' \in [Runs -> PCs] /\ copy' \in [Runs -> Files]
        BY <2>7, <3>3 DEF CheckOutput
      <4> QED
        BY <2>7, <3>3, <4>1, <4>2 DEF CheckOutput
    <3> QED
      BY <3>1, <3>2, <3>3
  <2>8. CASE CopyBlob(r)
    <3>1. CASE blob[out[r]] = out[r]
      <4>1. old' \in [Runs -> BOOLEAN]
        BY <2>8, LeavesTypes
      <4>2. pc' \in [Runs -> PCs]
        BY <2>8, <3>1 DEF CopyBlob
      <4>3. copy' \in [Runs -> Files]
        BY <2>8, <3>1 DEF CopyBlob
      <4> QED
        BY <2>8, <4>1, <4>2, <4>3 DEF CopyBlob
    <3>2. CASE ~ (blob[out[r]] = out[r])
      <4>1. old' \in [Runs -> BOOLEAN]
        BY <2>8, LeavesTypes
      <4>2. pc' \in [Runs -> PCs]
        BY <2>8, <3>2 DEF CopyBlob
      <4>3. copy' \in [Runs -> Files]
        BY <2>8, <3>2 DEF CopyBlob
      <4> QED
        BY <2>8, <4>1, <4>2, <4>3 DEF CopyBlob
    <3> QED
      BY <3>1, <3>2
  <2>9. CASE Place(r)
    BY <2>9 DEF Place
  <2>10. CASE RecordReused(r)
    BY <2>10 DEF RecordReused
  <2>11. CASE ConcludeReuse(r)
    BY <2>11 DEF ConcludeReuse
  <2>12. CASE UndoReuse(r)
    BY <2>12 DEF UndoReuse
  <2>13. CASE Age(r)
    BY <2>13 DEF Age
  <2>14. CASE Cite(r)
    BY <2>14 DEF Cite
  <2> QED
    BY <1>1, <2>0, <2>1, <2>2, <2>3, <2>4, <2>5, <2>6, <2>7, <2>8, <2>9,
       <2>10, <2>11, <2>12, <2>13, <2>14 DEF RunStep
<1>gone. ASSUME NEW S, Gone(S)
      PROVE  TypeOK'
  BY <1>gone DEF Gone
<1>2. ASSUME NEW s \in Services, ServiceStep(s)
      PROVE  TypeOK'
  <2>1. CASE Recover(s)
    BY <2>1 DEF Recover
  <2>2. CASE Pin(s)
    <3> DEFINE pinned == IF Usable THEN {entry.holds} ELSE {}
    <3>1. pinned \subseteq Contents
      BY EntryValues DEF Usable, Active
    <3>2. sweep' = [sweep EXCEPT ![s].kept = sweep[s].kept \union pinned]
      BY <2>2 DEF Pin
    <3> HIDE DEF pinned
    <3> QED
      BY <2>2, <3>1, <3>2 DEF Pin
  <2>3. CASE MarkDeleted(s)
    <3>1. stored' \in [Runs -> {"none", "stored", "not_stored", "deleted"}]
      BY <2>3 DEF MarkDeleted
    <3>2. /\ [listed |-> sweep[s].listed \ {sweep[s].doomed}, kept |-> sweep[s].kept,
           doomed |-> None] \in [listed : SUBSET Runs, kept : SUBSET Contents,
                                doomed : Runs \union {None}]
          /\ NoSweep \in [listed : SUBSET Runs, kept : SUBSET Contents,
                           doomed : Runs \union {None}]
      OBVIOUS
    <3>3. sweep' \in [Services -> [listed : SUBSET Runs, kept : SUBSET Contents,
                                  doomed : Runs \union {None}]]
      BY <2>3, <3>2 DEF MarkDeleted
    <3> QED
      BY <2>3, <3>1, <3>3 DEF MarkDeleted
  <2>4. CASE Serve(s)
    BY <2>4 DEF Serve
  <2>5. CASE Stop(s)
    BY <1>gone, <2>5 DEF Stop
  <2>6. CASE BeginSwitch(s)
    BY <2>6 DEF BeginSwitch
  <2>7. CASE AbandonSwitch(s)
    BY <2>7 DEF AbandonSwitch
  <2>8. CASE FinishSwitch(s)
    BY <2>8 DEF FinishSwitch
  <2> QED
    BY <1>2, <2>1, <2>2, <2>3, <2>4, <2>5, <2>6, <2>7, <2>8 DEF ServiceStep
<1>3. ASSUME NEW s \in Services, NEW r \in Runs, CallStep(s, r)
      PROVE  TypeOK'
  <2>1. CASE PlanHit(s, r)
    <3>1. entry.from \in Runs
      BY <2>1, EntryValues DEF PlanHit, Usable, Active
    <3> QED
      BY <2>1, <3>1 DEF PlanHit
  <2>2. CASE PlanLaunch(s, r)
    <3>1. entry' \in Entries \union {None}
      BY <2>2, EntryValues DEF PlanLaunch, Usable, Active
    <3> QED
      BY <2>2, <3>1 DEF PlanLaunch
  <2>3. CASE Start(s, r)
    BY <2>3 DEF Start
  <2>4. CASE Admit(s, r)
    <3>1. entry.holds \in Contents
      BY <2>4, EntryValues DEF Admit, Usable, Active
    <3> QED
      BY <2>4, <3>1 DEF Admit
  <2>5. CASE RefuseHit(s, r)
    <3>1. entry' \in Entries \union {None}
      BY <2>5, EntryValues DEF RefuseHit, Usable, Active
    <3> QED
      BY <2>5, <3>1 DEF RefuseHit
  <2>6. CASE RemoveBlob(s, r)
    <3>1. blob' \in [Contents -> Files]
      BY <2>6 DEF RemoveBlob
    <3> QED
      BY <2>6, <3>1 DEF RemoveBlob
  <2> QED
    BY <1>3, <2>1, <2>2, <2>3, <2>4, <2>5, <2>6 DEF CallStep
<1>4. ASSUME NEW h \in Contents, Damage(h)
      PROVE  TypeOK'
  BY <1>4 DEF Damage
<1>5. CASE Edit
  BY <1>5 DEF Edit
<1>6. CASE Expire
  <2>1. entry' \in Entries \union {None}
    BY <1>6, EntryValues DEF Expire
  <2> QED
    BY <1>6, <2>1 DEF Expire
<1>7. ASSUME NEW s \in Services, NEW t \in Services, PairStep(s, t)
      PROVE  TypeOK'
  BY <1>7 DEF PairStep, Swap, RollBack
<1>8. CASE UNCHANGED vars
  BY <1>8
<1> HIDE DEF TypeOK
<1> QED
  BY <1>gone, <1>1, <1>2, <1>3, <1>4, <1>5, <1>6, <1>7, <1>8 DEF Next, Crash

(* A run's hash is settled before anything is recorded of it.              *)
LEMMA NextOutputs ==
  ASSUME TypeOK, OutputsAreKnown, [Next]_vars
  PROVE  OutputsAreKnown'
<1> USE NoneAssumption DEF TypeOK, OutputsAreKnown, Files, PCs, Go, Leaves, Fail, Reuse,
    vars, workspace, evidence, local, service
<1>1. ASSUME NEW r \in Runs, RunStep(r)
      PROVE  OutputsAreKnown'
  <2>0. CASE Register(r)
    BY <2>0 DEF Register
  <2>1. CASE Produce(r)
    BY <2>1 DEF Produce
  <2>2. CASE Observe(r)
    BY <2>2 DEF Observe
  <2>3. CASE Capture(r)
    BY <2>3 DEF Capture
  <2>4. CASE RecordArtifact(r)
    BY <2>4 DEF RecordArtifact
  <2>5. CASE Publish(r)
    BY <2>5 DEF Publish
  <2>6. CASE Conclude(r)
    BY <2>6 DEF Conclude
  <2>7. CASE CheckOutput(r)
    BY <2>7 DEF CheckOutput
  <2>8. CASE CopyBlob(r)
    BY <2>8 DEF CopyBlob
  <2>9. CASE Place(r)
    BY <2>9 DEF Place
  <2>10. CASE RecordReused(r)
    BY <2>10 DEF RecordReused
  <2>11. CASE ConcludeReuse(r)
    BY <2>11 DEF ConcludeReuse
  <2>12. CASE UndoReuse(r)
    BY <2>12 DEF UndoReuse
  <2>13. CASE Age(r)
    BY <2>13 DEF Age
  <2>14. CASE Cite(r)
    BY <2>14 DEF Cite
  <2> QED
    BY <1>1, <2>0, <2>1, <2>2, <2>3, <2>4, <2>5, <2>6, <2>7, <2>8, <2>9,
       <2>10, <2>11, <2>12, <2>13, <2>14 DEF RunStep
<1>gone. ASSUME NEW S, Gone(S)
      PROVE  OutputsAreKnown'
  BY <1>gone DEF Gone
<1>2. ASSUME NEW s \in Services, ServiceStep(s)
      PROVE  OutputsAreKnown'
  <2>1. CASE Recover(s)
    BY <2>1 DEF Recover
  <2>2. CASE Pin(s)
    BY <2>2 DEF Pin
  <2>3. CASE MarkDeleted(s)
    BY <2>3 DEF MarkDeleted
  <2>4. CASE Serve(s)
    BY <2>4 DEF Serve
  <2>5. CASE Stop(s)
    BY <1>gone, <2>5 DEF Stop
  <2>6. CASE BeginSwitch(s)
    BY <2>6 DEF BeginSwitch
  <2>7. CASE AbandonSwitch(s)
    BY <2>7 DEF AbandonSwitch
  <2>8. CASE FinishSwitch(s)
    BY <2>8 DEF FinishSwitch
  <2> QED
    BY <1>2, <2>1, <2>2, <2>3, <2>4, <2>5, <2>6, <2>7, <2>8 DEF ServiceStep
<1>3. ASSUME NEW s \in Services, NEW r \in Runs, CallStep(s, r)
      PROVE  OutputsAreKnown'
  <2>1. CASE PlanHit(s, r)
    BY <2>1 DEF PlanHit
  <2>2. CASE PlanLaunch(s, r)
    BY <2>2 DEF PlanLaunch
  <2>3. CASE Start(s, r)
    BY <2>3 DEF Start
  <2>4. CASE Admit(s, r)
    <3>1. entry.holds \in Contents
      BY <2>4, EntryValues DEF Admit, Usable, Active
    <3> QED
      BY <2>4, <3>1 DEF Admit
  <2>5. CASE RefuseHit(s, r)
    BY <2>5 DEF RefuseHit
  <2>6. CASE RemoveBlob(s, r)
    BY <2>6 DEF RemoveBlob
  <2> QED
    BY <1>3, <2>1, <2>2, <2>3, <2>4, <2>5, <2>6 DEF CallStep
<1>4. ASSUME NEW h \in Contents, Damage(h)
      PROVE  OutputsAreKnown'
  BY <1>4 DEF Damage
<1>5. CASE Edit
  BY <1>5 DEF Edit
<1>6. CASE Expire
  BY <1>6 DEF Expire
<1>7. ASSUME NEW s \in Services, NEW t \in Services, PairStep(s, t)
      PROVE  OutputsAreKnown'
  BY <1>7 DEF PairStep, Swap, RollBack
<1>8. CASE UNCHANGED vars
  BY <1>8
<1> HIDE DEF OutputsAreKnown
<1> QED
  BY <1>gone, <1>1, <1>2, <1>3, <1>4, <1>5, <1>6, <1>7, <1>8 DEF Next, Crash

(* An entry is inserted by its source run and confirmed or quarantined.    *)
LEMMA NextEntry ==
  ASSUME TypeOK, OutputsAreKnown, EntryIsObserved, [Next]_vars
  PROVE  EntryIsObserved'
<1> USE NoneAssumption DEF TypeOK, EntryIsObserved, Fixed, Go, Leaves, Fail, vars,
    workspace, evidence, local, service
<1>0. ASSUME UNCHANGED entry,
             \A r \in Runs : pc[r] \in Fixed => pc'[r] \in Fixed /\ out'[r] = out[r]
      PROVE  EntryIsObserved'
  BY <1>0, EntryValues
<1>1. ASSUME NEW r \in Runs, RunStep(r)
      PROVE  EntryIsObserved'
  <2>0. CASE Register(r)
    BY <2>0 DEF Register
  <2>1. CASE Produce(r)
    BY <2>1 DEF Produce
  <2>2. CASE Observe(r)
    <3>1. /\ UNCHANGED entry /\ pc[r] \notin Fixed
          /\ \A q \in Runs \ {r} : pc'[q] = pc[q] /\ out'[q] = out[q]
      BY <2>2 DEF Observe
    <3> QED
      BY <1>0, <3>1
  <2>3. CASE Capture(r)
    <3>1. /\ UNCHANGED entry /\ pc[r] \notin Fixed
          /\ \A q \in Runs \ {r} : pc'[q] = pc[q] /\ out'[q] = out[q]
      BY <2>3 DEF Capture
    <3> QED
      BY <1>0, <3>1
  <2>4. CASE RecordArtifact(r)
    BY <2>4 DEF RecordArtifact
  <2>5. CASE Publish(r)
    <3>1. out[r] \in Contents /\ pc[r] = "recorded" /\ entry' = Observed(r)
      BY <2>5 DEF Publish, OutputsAreKnown
    <3>2. pc' = [pc EXCEPT ![r] = "published"] /\ UNCHANGED out
      BY <2>5 DEF Publish
    <3>3. CASE entry = None
      BY <3>1, <3>2, <3>3, ObservedValues
    <3>4. CASE entry # None
      <4>1. /\ entry'.from = entry.from /\ entry'.holds = entry.holds
            /\ entry'.observers = entry.observers \union {r}
            /\ entry'.state = "active" => entry.state = "active" /\ entry.holds = out[r]
        BY <3>1, <3>4, ObservedValues
      <4>2. entry.observers \subseteq Runs
        BY <3>4, EntryValues
      <4> QED
        BY <3>1, <3>2, <3>4, <4>1, <4>2
    <3> QED
      BY <3>3, <3>4
  <2>6. CASE Conclude(r)
    BY <2>6 DEF Conclude
  <2>7. CASE CheckOutput(r)
    <3>1. /\ UNCHANGED entry /\ pc[r] \notin Fixed
          /\ \A q \in Runs \ {r} : pc'[q] = pc[q] /\ out'[q] = out[q]
      BY <2>7 DEF CheckOutput
    <3> QED
      BY <1>0, <3>1
  <2>8. CASE CopyBlob(r)
    <3>1. /\ UNCHANGED entry /\ pc[r] \notin Fixed
          /\ \A q \in Runs \ {r} : pc'[q] = pc[q] /\ out'[q] = out[q]
      BY <2>8 DEF CopyBlob
    <3> QED
      BY <1>0, <3>1
  <2>9. CASE Place(r)
    BY <2>9 DEF Place
  <2>10. CASE RecordReused(r)
    BY <2>10 DEF RecordReused
  <2>11. CASE ConcludeReuse(r)
    BY <2>11 DEF ConcludeReuse
  <2>12. CASE UndoReuse(r)
    BY <2>12 DEF UndoReuse
  <2>13. CASE Age(r)
    BY <2>13 DEF Age
  <2>14. CASE Cite(r)
    BY <2>14 DEF Cite
  <2> QED
    BY <1>1, <2>0, <2>1, <2>2, <2>3, <2>4, <2>5, <2>6, <2>7, <2>8, <2>9,
       <2>10, <2>11, <2>12, <2>13, <2>14 DEF RunStep
<1>gone. ASSUME NEW S, Gone(S)
      PROVE  EntryIsObserved'
  <2>1. (entry # None => entry.from \in Runs /\ entry.observers \subseteq Runs)
    BY <1>gone, EntryValues DEF Gone, Waiter, Launch, Reuse
  <2> QED
    BY <1>gone, <2>1 DEF Gone, Waiter, Launch, Reuse
<1>2. ASSUME NEW s \in Services, ServiceStep(s)
      PROVE  EntryIsObserved'
  <2>1. CASE Recover(s)
    BY <2>1 DEF Recover
  <2>2. CASE Pin(s)
    BY <2>2 DEF Pin
  <2>3. CASE MarkDeleted(s)
    BY <2>3 DEF MarkDeleted
  <2>4. CASE Serve(s)
    BY <2>4 DEF Serve
  <2>5. CASE Stop(s)
    BY <1>gone, <2>5 DEF Stop
  <2>6. CASE BeginSwitch(s)
    BY <2>6 DEF BeginSwitch
  <2>7. CASE AbandonSwitch(s)
    BY <2>7 DEF AbandonSwitch
  <2>8. CASE FinishSwitch(s)
    BY <2>8 DEF FinishSwitch
  <2> QED
    BY <1>2, <2>1, <2>2, <2>3, <2>4, <2>5, <2>6, <2>7, <2>8 DEF ServiceStep
<1>3. ASSUME NEW s \in Services, NEW r \in Runs, CallStep(s, r)
      PROVE  EntryIsObserved'
  <2>1. CASE PlanHit(s, r)
    BY <2>1 DEF PlanHit
  <2>2. CASE PlanLaunch(s, r)
    <3>1. CASE UNCHANGED entry
      BY <2>2, <3>1, EntryValues DEF PlanLaunch
    <3>2. CASE entry # None /\ entry' = Quarantined
      BY <2>2, <3>2, EntryValues DEF PlanLaunch
    <3> QED
      BY <2>2, <3>1, <3>2 DEF PlanLaunch, Usable, Active
  <2>3. CASE Start(s, r)
    BY <2>3 DEF Start
  <2>4. CASE Admit(s, r)
    BY <2>4 DEF Admit
  <2>5. CASE RefuseHit(s, r)
    <3>1. CASE UNCHANGED entry
      BY <2>5, <3>1, EntryValues DEF RefuseHit
    <3>2. CASE entry # None /\ entry' = Quarantined
      BY <2>5, <3>2, EntryValues DEF RefuseHit
    <3> QED
      BY <2>5, <3>1, <3>2 DEF RefuseHit, Usable, Active
  <2>6. CASE RemoveBlob(s, r)
    BY <2>6 DEF RemoveBlob
  <2> QED
    BY <1>3, <2>1, <2>2, <2>3, <2>4, <2>5, <2>6 DEF CallStep
<1>4. ASSUME NEW h \in Contents, Damage(h)
      PROVE  EntryIsObserved'
  BY <1>4 DEF Damage
<1>5. CASE Edit
  BY <1>5 DEF Edit
<1>6. CASE Expire
  BY <1>6 DEF Expire
<1>7. ASSUME NEW s \in Services, NEW t \in Services, PairStep(s, t)
      PROVE  EntryIsObserved'
  BY <1>7 DEF PairStep, Swap, RollBack
<1>8. CASE UNCHANGED vars
  BY <1>8
<1> HIDE DEF EntryIsObserved
<1> QED
  BY <1>gone, <1>1, <1>2, <1>3, <1>4, <1>5, <1>6, <1>7, <1>8 DEF Next, Crash

(* A hit is admitted for its entry, and copies nothing else.               *)
LEMMA NextHits ==
  ASSUME TypeOK, EntryIsObserved, HitsAgree, [Next]_vars
  PROVE  HitsAgree'
<1> USE NoneAssumption DEF TypeOK, HitsAgree, Fixed, Go, Leaves, Fail, Reuse, vars,
    workspace, evidence, local, service
<1>1. ASSUME NEW r \in Runs, RunStep(r)
      PROVE  HitsAgree'
  <2>0. CASE Register(r)
    BY <2>0 DEF Register
  <2>1. CASE Produce(r)
    BY <2>1 DEF Produce
  <2>2. CASE Observe(r)
    BY <2>2 DEF Observe
  <2>3. CASE Capture(r)
    BY <2>3 DEF Capture
  <2>4. CASE RecordArtifact(r)
    BY <2>4 DEF RecordArtifact
  <2>5. CASE Publish(r)
    BY <2>5 DEF Publish
  <2>6. CASE Conclude(r)
    BY <2>6 DEF Conclude
  <2>7. CASE CheckOutput(r)
    BY <2>7 DEF CheckOutput
  <2>8. CASE CopyBlob(r)
    BY <2>8 DEF CopyBlob
  <2>9. CASE Place(r)
    BY <2>9 DEF Place
  <2>10. CASE RecordReused(r)
    BY <2>10 DEF RecordReused
  <2>11. CASE ConcludeReuse(r)
    BY <2>11 DEF ConcludeReuse
  <2>12. CASE UndoReuse(r)
    BY <2>12 DEF UndoReuse
  <2>13. CASE Age(r)
    BY <2>13 DEF Age
  <2>14. CASE Cite(r)
    BY <2>14 DEF Cite
  <2> QED
    BY <1>1, <2>0, <2>1, <2>2, <2>3, <2>4, <2>5, <2>6, <2>7, <2>8, <2>9,
       <2>10, <2>11, <2>12, <2>13, <2>14 DEF RunStep
<1>gone. ASSUME NEW S, Gone(S)
      PROVE  HitsAgree'
  BY <1>gone DEF Gone
<1>2. ASSUME NEW s \in Services, ServiceStep(s)
      PROVE  HitsAgree'
  <2>1. CASE Recover(s)
    BY <2>1 DEF Recover
  <2>2. CASE Pin(s)
    BY <2>2 DEF Pin
  <2>3. CASE MarkDeleted(s)
    BY <2>3 DEF MarkDeleted
  <2>4. CASE Serve(s)
    BY <2>4 DEF Serve
  <2>5. CASE Stop(s)
    BY <1>gone, <2>5 DEF Stop
  <2>6. CASE BeginSwitch(s)
    BY <2>6 DEF BeginSwitch
  <2>7. CASE AbandonSwitch(s)
    BY <2>7 DEF AbandonSwitch
  <2>8. CASE FinishSwitch(s)
    BY <2>8 DEF FinishSwitch
  <2> QED
    BY <1>2, <2>1, <2>2, <2>3, <2>4, <2>5, <2>6, <2>7, <2>8 DEF ServiceStep
<1>3. ASSUME NEW s \in Services, NEW r \in Runs, CallStep(s, r)
      PROVE  HitsAgree'
  <2>1. CASE PlanHit(s, r)
    BY <2>1 DEF PlanHit
  <2>2. CASE PlanLaunch(s, r)
    BY <2>2 DEF PlanLaunch
  <2>3. CASE Start(s, r)
    BY <2>3 DEF Start
  <2>4. CASE Admit(s, r)
    <3>1. /\ entry # None /\ entry.from = source[r] /\ entry.from \in Runs
          /\ pc[entry.from] \in Fixed /\ out[entry.from] = entry.holds
      BY <2>4, EntryValues DEF Admit, Usable, Active, EntryIsObserved
    <3> HIDE DEF EntryIsObserved
    <3> QED
      BY <2>4, <3>1 DEF Admit
  <2>5. CASE RefuseHit(s, r)
    BY <2>5 DEF RefuseHit
  <2>6. CASE RemoveBlob(s, r)
    BY <2>6 DEF RemoveBlob
  <2> QED
    BY <1>3, <2>1, <2>2, <2>3, <2>4, <2>5, <2>6 DEF CallStep
<1>4. ASSUME NEW h \in Contents, Damage(h)
      PROVE  HitsAgree'
  BY <1>4 DEF Damage
<1>5. CASE Edit
  BY <1>5 DEF Edit
<1>6. CASE Expire
  BY <1>6 DEF Expire
<1>7. ASSUME NEW s \in Services, NEW t \in Services, PairStep(s, t)
      PROVE  HitsAgree'
  BY <1>7 DEF PairStep, Swap, RollBack
<1>8. CASE UNCHANGED vars
  BY <1>8
<1> HIDE DEF HitsAgree
<1> QED
  BY <1>gone, <1>1, <1>2, <1>3, <1>4, <1>5, <1>6, <1>7, <1>8 DEF Next, Crash

(* In one server every other service is a peer.                            *)
LEMMA OthersArePeers ==
  ASSUME OneServer
  PROVE  \A s, t \in Services : t \in Peers(s) <=> t # s
BY DEF OneServer, Peers

(* Who may recover, and beside whom, is kept by every step of a service.   *)
LEMMA NextTurns ==
  ASSUME OneServer, TypeOK, ServicesTakeTurns, [Next]_vars
  PROVE  ServicesTakeTurns'
<1> USE OthersArePeers DEF TypeOK, ServicesTakeTurns
<1>0. \A s \in Services : Peers(s) \subseteq Services
  BY DEF Peers
<1>gone. ASSUME NEW S, Gone(S)
         PROVE  ServicesTakeTurns'
  BY <1>0, <1>gone DEF Gone
<1>1. ASSUME NEW s \in Services, ServiceStep(s)
      PROVE  ServicesTakeTurns'
  <2>1. CASE Recover(s)
    BY <1>0, <2>1 DEF Recover
  <2>2. CASE Pin(s)
    BY <1>0, <2>2 DEF Pin
  <2>3. CASE MarkDeleted(s)
    BY <1>0, <2>3 DEF MarkDeleted
  <2>4. CASE Serve(s)
    BY <1>0, <2>4 DEF Serve
  <2>5. CASE Stop(s)
    BY <1>gone, <2>5 DEF Stop
  <2>6. CASE BeginSwitch(s)
    BY <1>0, <2>6 DEF BeginSwitch
  <2>7. CASE AbandonSwitch(s)
    BY <1>0, <2>7 DEF AbandonSwitch
  <2>8. CASE FinishSwitch(s)
    BY <1>0, <2>8 DEF FinishSwitch
  <2> QED
    BY <1>1, <2>1, <2>2, <2>3, <2>4, <2>5, <2>6, <2>7, <2>8 DEF ServiceStep
<1>2. ASSUME NEW s \in Services, NEW t \in Services, PairStep(s, t)
      PROVE  ServicesTakeTurns'
  <2>1. CASE Swap(s, t)
    BY <1>0, <2>1 DEF Swap
  <2>2. CASE RollBack(s, t)
    BY <1>0, <2>2 DEF RollBack
  <2> QED
    BY <1>2, <2>1, <2>2 DEF PairStep
<1>3. ASSUME NEW r \in Runs, RunStep(r)
      PROVE  UNCHANGED phase
  BY <1>3 DEF RunStep, Register, Produce, Observe, Capture, RecordArtifact,
     Publish, Conclude, CheckOutput, CopyBlob, Place, RecordReused,
     ConcludeReuse, UndoReuse, Age, Cite, service
<1>4. ASSUME NEW s \in Services, NEW r \in Runs, CallStep(s, r)
      PROVE  UNCHANGED phase
  BY <1>4 DEF CallStep, PlanHit, PlanLaunch, Start, Admit, RefuseHit,
     RemoveBlob, service
<1>5. ASSUME (\E h \in Contents : Damage(h)) \/ Edit \/ Expire \/ UNCHANGED vars
      PROVE  UNCHANGED phase
  BY <1>5 DEF Damage, Edit, Expire, service, vars
<1>6. ASSUME UNCHANGED phase
      PROVE  ServicesTakeTurns'
  BY <1>6
<1> QED
  BY <1>gone, <1>1, <1>2, <1>3, <1>4, <1>5, <1>6 DEF Next, Crash

(* Recovery meets no registered run of its server.                         *)
LEMMA RecoveryIsQuiet ==
  ASSUME OneServer, TypeOK, ServicesTakeTurns, RunsHaveService
  PROVE  \A s \in Services : phase[s] \in {"pin", "sweep"} =>
           \A r \in Runs : pc[r] \notin Waiter
BY OthersArePeers DEF TypeOK, ServicesTakeTurns, RunsHaveService

(* A run's service stays in use, and registered runs keep it from being    *)
(* frozen, until the run ends or dies with it.                             *)
LEMMA NextRuns ==
  ASSUME OneServer, TypeOK, ServicesTakeTurns, RunsHaveService, [Next]_vars
  PROVE  RunsHaveService'
<1> USE NoneAssumption DEF TypeOK, RunsHaveService, Serving, Handled, Waiter, Launch,
    Reuse, Go, Leaves, Fail, vars, workspace, evidence, local, service
<1>1. ASSUME NEW r \in Runs, RunStep(r)
      PROVE  RunsHaveService'
  <2>0. CASE Register(r)
    BY <2>0 DEF Register
  <2>1. CASE Produce(r)
    BY <2>1 DEF Produce
  <2>2. CASE Observe(r)
    BY <2>2 DEF Observe
  <2>3. CASE Capture(r)
    BY <2>3 DEF Capture
  <2>4. CASE RecordArtifact(r)
    BY <2>4 DEF RecordArtifact
  <2>5. CASE Publish(r)
    BY <2>5 DEF Publish
  <2>6. CASE Conclude(r)
    BY <2>6 DEF Conclude
  <2>7. CASE CheckOutput(r)
    BY <2>7 DEF CheckOutput
  <2>8. CASE CopyBlob(r)
    BY <2>8 DEF CopyBlob
  <2>9. CASE Place(r)
    BY <2>9 DEF Place
  <2>10. CASE RecordReused(r)
    BY <2>10 DEF RecordReused
  <2>11. CASE ConcludeReuse(r)
    BY <2>11 DEF ConcludeReuse
  <2>12. CASE UndoReuse(r)
    BY <2>12 DEF UndoReuse
  <2>13. CASE Age(r)
    BY <2>13 DEF Age
  <2>14. CASE Cite(r)
    BY <2>14 DEF Cite
  <2> QED
    BY <1>1, <2>0, <2>1, <2>2, <2>3, <2>4, <2>5, <2>6, <2>7, <2>8, <2>9,
       <2>10, <2>11, <2>12, <2>13, <2>14 DEF RunStep
<1>gone. ASSUME NEW S, Gone(S)
      PROVE  RunsHaveService'
  BY <1>gone DEF Gone
<1>2. ASSUME NEW s \in Services, ServiceStep(s)
      PROVE  RunsHaveService'
  <2>1. CASE Recover(s)
    BY <2>1 DEF Recover
  <2>2. CASE Pin(s)
    BY <2>2 DEF Pin
  <2>3. CASE MarkDeleted(s)
    BY <2>3 DEF MarkDeleted
  <2>4. CASE Serve(s)
    BY <2>4 DEF Serve
  <2>5. CASE Stop(s)
    BY <1>gone, <2>5 DEF Stop
  <2>6. CASE BeginSwitch(s)
    BY <2>6 DEF BeginSwitch, Mine
  <2>7. CASE AbandonSwitch(s)
    BY <2>7, OthersArePeers DEF AbandonSwitch, ServicesTakeTurns
  <2>8. CASE FinishSwitch(s)
    BY <2>8 DEF FinishSwitch
  <2> QED
    BY <1>2, <2>1, <2>2, <2>3, <2>4, <2>5, <2>6, <2>7, <2>8 DEF ServiceStep
<1>3. ASSUME NEW s \in Services, NEW r \in Runs, CallStep(s, r)
      PROVE  RunsHaveService'
  <2>1. CASE PlanHit(s, r)
    BY <2>1 DEF PlanHit
  <2>2. CASE PlanLaunch(s, r)
    BY <2>2 DEF PlanLaunch
  <2>3. CASE Start(s, r)
    BY <2>3 DEF Start
  <2>4. CASE Admit(s, r)
    BY <2>4 DEF Admit
  <2>5. CASE RefuseHit(s, r)
    BY <2>5 DEF RefuseHit
  <2>6. CASE RemoveBlob(s, r)
    BY <2>6 DEF RemoveBlob
  <2> QED
    BY <1>3, <2>1, <2>2, <2>3, <2>4, <2>5, <2>6 DEF CallStep
<1>4. ASSUME NEW h \in Contents, Damage(h)
      PROVE  RunsHaveService'
  BY <1>4 DEF Damage
<1>5. CASE Edit
  BY <1>5 DEF Edit
<1>6. CASE Expire
  BY <1>6 DEF Expire
<1>7. ASSUME NEW s \in Services, NEW t \in Services, PairStep(s, t)
      PROVE  RunsHaveService'
  <2>1. CASE Swap(s, t)
    BY <2>1 DEF Swap, Mine
  <2>2. CASE RollBack(s, t)
    BY <2>2 DEF RollBack, Mine
  <2> QED
    BY <1>7, <2>1, <2>2 DEF PairStep
<1>8. CASE UNCHANGED vars
  BY <1>8
<1> HIDE DEF RunsHaveService
<1> QED
  BY <1>gone, <1>1, <1>2, <1>3, <1>4, <1>5, <1>6, <1>7, <1>8 DEF Next, Crash

(* Bytes go only in cleanup, when nothing is under way.                    *)
LEMMA NextThere ==
  ASSUME OneServer, TypeOK, OutputsAreKnown, ServicesTakeTurns, RunsHaveService,
         ProtectedIsThere, CleanupKeeps, [Next]_vars
  PROVE  ProtectedIsThere'
<1> USE NoneAssumption DEF TypeOK, OutputsAreKnown, ProtectedIsThere,
    Protected, Go, Leaves, Fail, Open, Waiter, Launch, Reuse, Verified, vars,
    workspace, evidence, local, service
<1>1. ASSUME NEW r \in Runs, RunStep(r)
      PROVE  ProtectedIsThere'
  <2>0. CASE Register(r)
    BY <2>0 DEF Register
  <2>1. CASE Produce(r)
    BY <2>1 DEF Produce
  <2>2. CASE Observe(r)
    BY <2>2 DEF Observe
  <2>3. CASE Capture(r)
    BY <2>3 DEF Capture
  <2>4. CASE RecordArtifact(r)
    BY <2>4 DEF RecordArtifact
  <2>5. CASE Publish(r)
    BY <2>5 DEF Publish
  <2>6. CASE Conclude(r)
    BY <2>6 DEF Conclude
  <2>7. CASE CheckOutput(r)
    BY <2>7 DEF CheckOutput
  <2>8. CASE CopyBlob(r)
    BY <2>8 DEF CopyBlob
  <2>9. CASE Place(r)
    BY <2>9 DEF Place
  <2>10. CASE RecordReused(r)
    BY <2>10 DEF RecordReused
  <2>11. CASE ConcludeReuse(r)
    BY <2>11 DEF ConcludeReuse
  <2>12. CASE UndoReuse(r)
    BY <2>12 DEF UndoReuse
  <2>13. CASE Age(r)
    BY <2>13 DEF Age
  <2>14. CASE Cite(r)
    BY <2>14 DEF Cite
  <2> QED
    BY <1>1, <2>0, <2>1, <2>2, <2>3, <2>4, <2>5, <2>6, <2>7, <2>8, <2>9,
       <2>10, <2>11, <2>12, <2>13, <2>14 DEF RunStep
<1>gone. ASSUME NEW S, Gone(S)
      PROVE  ProtectedIsThere'
  BY <1>gone DEF Gone
<1>2. ASSUME NEW s \in Services, ServiceStep(s)
      PROVE  ProtectedIsThere'
  <2>1. CASE Recover(s)
    BY <2>1 DEF Recover
  <2>2. CASE Pin(s)
    BY <2>2 DEF Pin
  <2>3. CASE MarkDeleted(s)
    BY <2>3 DEF MarkDeleted
  <2>4. CASE Serve(s)
    BY <2>4 DEF Serve
  <2>5. CASE Stop(s)
    BY <1>gone, <2>5 DEF Stop
  <2>6. CASE BeginSwitch(s)
    BY <2>6 DEF BeginSwitch
  <2>7. CASE AbandonSwitch(s)
    BY <2>7 DEF AbandonSwitch
  <2>8. CASE FinishSwitch(s)
    BY <2>8 DEF FinishSwitch
  <2> QED
    BY <1>2, <2>1, <2>2, <2>3, <2>4, <2>5, <2>6, <2>7, <2>8 DEF ServiceStep
<1>3. ASSUME NEW s \in Services, NEW r \in Runs, CallStep(s, r)
      PROVE  ProtectedIsThere'
  <2>1. CASE PlanHit(s, r)
    BY <2>1 DEF PlanHit
  <2>2. CASE PlanLaunch(s, r)
    BY <2>2 DEF PlanLaunch
  <2>3. CASE Start(s, r)
    BY <2>3 DEF Start
  <2>4. CASE Admit(s, r)
    <3>1. entry.holds \in Contents
      BY <2>4, EntryValues DEF Admit, Usable, Active
    <3> QED
      BY <2>4, <3>1 DEF Admit
  <2>5. CASE RefuseHit(s, r)
    BY <2>5 DEF RefuseHit
  <2>6. CASE RemoveBlob(s, r)
    <3>1. \A q \in Runs \ beside :
            Protected(q) \/ pc[q] \in Reuse => out[q] \in sweep[s].kept
      BY <2>6 DEF RemoveBlob, CleanupKeeps
    <3>2. \A q \in Runs : pc[q] \notin Waiter
      BY <2>6, RecoveryIsQuiet DEF RemoveBlob
    <3>3. out[r] \notin sweep[s].kept /\ blob' = [blob EXCEPT ![out[r]] = None]
          /\ UNCHANGED <<stored, old, cited, pc, lost, out, beside>>
      BY <2>6 DEF RemoveBlob
    <3> QED
      BY <3>1, <3>2, <3>3
  <2> QED
    BY <1>3, <2>1, <2>2, <2>3, <2>4, <2>5, <2>6 DEF CallStep
<1>4. ASSUME NEW h \in Contents, Damage(h)
      PROVE  ProtectedIsThere'
  BY <1>4 DEF Damage
<1>5. CASE Edit
  BY <1>5 DEF Edit
<1>6. CASE Expire
  BY <1>6 DEF Expire
<1>7. ASSUME NEW s \in Services, NEW t \in Services, PairStep(s, t)
      PROVE  ProtectedIsThere'
  BY <1>7 DEF PairStep, Swap, RollBack
<1>8. CASE UNCHANGED vars
  BY <1>8
<1> HIDE DEF ProtectedIsThere
<1> QED
  BY <1>gone, <1>1, <1>2, <1>3, <1>4, <1>5, <1>6, <1>7, <1>8 DEF Next, Crash

(* An entry is published with its bytes, which cleanup keeps.              *)
LEMMA NextPinned ==
  ASSUME TypeOK, OutputsAreKnown, RunsHaveService, ProtectedIsThere,
         PinnedIsThere, CleanupKeeps, [Next]_vars
  PROVE  PinnedIsThere'
<1> USE NoneAssumption DEF TypeOK, PinnedIsThere, Usable, Active, vars, workspace,
    evidence, local, service
<1>1. ASSUME NEW r \in Runs, RunStep(r)
      PROVE  PinnedIsThere'
  <2>0. CASE Register(r)
    BY <2>0 DEF Register
  <2>1. CASE Produce(r)
    BY <2>1 DEF Produce
  <2>2. CASE Observe(r)
    BY <2>2 DEF Observe
  <2>3. CASE Capture(r)
    <3>1. \A c \in Contents : blob[c] # None => blob'[c] # None
      BY <2>3 DEF Capture
    <3>2. Usable' = Usable /\ entry' = entry
      BY <2>3 DEF Capture
    <3> QED
      BY <3>1, <3>2, EntryValues
  <2>4. CASE RecordArtifact(r)
    BY <2>4 DEF RecordArtifact
  <2>5. CASE Publish(r)
    <3>1. out[r] \in Contents /\ blob[out[r]] # None
      BY <2>5 DEF Publish, OutputsAreKnown, RunsHaveService, ProtectedIsThere, Reuse
    <3>2. blob' = blob /\ entry' = Observed(r)
      BY <2>5 DEF Publish
    <3>3. entry'.state = "active" => entry'.holds = out[r]
      BY <3>1, <3>2, ObservedValues
    <3> QED
      BY <3>1, <3>2, <3>3
  <2>6. CASE Conclude(r)
    BY <2>6 DEF Conclude
  <2>7. CASE CheckOutput(r)
    BY <2>7 DEF CheckOutput
  <2>8. CASE CopyBlob(r)
    BY <2>8 DEF CopyBlob
  <2>9. CASE Place(r)
    BY <2>9 DEF Place
  <2>10. CASE RecordReused(r)
    BY <2>10 DEF RecordReused
  <2>11. CASE ConcludeReuse(r)
    BY <2>11 DEF ConcludeReuse
  <2>12. CASE UndoReuse(r)
    BY <2>12 DEF UndoReuse
  <2>13. CASE Age(r)
    BY <2>13 DEF Age
  <2>14. CASE Cite(r)
    BY <2>14 DEF Cite
  <2> QED
    BY <1>1, <2>0, <2>1, <2>2, <2>3, <2>4, <2>5, <2>6, <2>7, <2>8, <2>9,
       <2>10, <2>11, <2>12, <2>13, <2>14 DEF RunStep
<1>gone. ASSUME NEW S, Gone(S)
      PROVE  PinnedIsThere'
  BY <1>gone DEF Gone
<1>2. ASSUME NEW s \in Services, ServiceStep(s)
      PROVE  PinnedIsThere'
  <2>1. CASE Recover(s)
    BY <2>1 DEF Recover
  <2>2. CASE Pin(s)
    BY <2>2 DEF Pin
  <2>3. CASE MarkDeleted(s)
    BY <2>3 DEF MarkDeleted
  <2>4. CASE Serve(s)
    BY <2>4 DEF Serve
  <2>5. CASE Stop(s)
    BY <1>gone, <2>5 DEF Stop
  <2>6. CASE BeginSwitch(s)
    BY <2>6 DEF BeginSwitch
  <2>7. CASE AbandonSwitch(s)
    BY <2>7 DEF AbandonSwitch
  <2>8. CASE FinishSwitch(s)
    BY <2>8 DEF FinishSwitch
  <2> QED
    BY <1>2, <2>1, <2>2, <2>3, <2>4, <2>5, <2>6, <2>7, <2>8 DEF ServiceStep
<1>3. ASSUME NEW s \in Services, NEW r \in Runs, CallStep(s, r)
      PROVE  PinnedIsThere'
  <2>1. CASE PlanHit(s, r)
    BY <2>1 DEF PlanHit
  <2>2. CASE PlanLaunch(s, r)
    <3>1. CASE UNCHANGED entry
      BY <2>2, <3>1, EntryValues DEF PlanLaunch
    <3>2. CASE entry # None /\ entry' = Quarantined
      BY <2>2, <3>2, EntryValues DEF PlanLaunch
    <3> QED
      BY <2>2, <3>1, <3>2 DEF PlanLaunch, Usable, Active
  <2>3. CASE Start(s, r)
    BY <2>3 DEF Start
  <2>4. CASE Admit(s, r)
    BY <2>4 DEF Admit
  <2>5. CASE RefuseHit(s, r)
    <3>1. CASE UNCHANGED entry
      BY <2>5, <3>1, EntryValues DEF RefuseHit
    <3>2. CASE entry # None /\ entry' = Quarantined
      BY <2>5, <3>2, EntryValues DEF RefuseHit
    <3> QED
      BY <2>5, <3>1, <3>2 DEF RefuseHit, Usable, Active
  <2>6. CASE RemoveBlob(s, r)
    <3>1. Usable => entry.holds \in sweep[s].kept
      BY <2>6 DEF RemoveBlob, CleanupKeeps
    <3> QED
      BY <2>6, <3>1, EntryValues DEF RemoveBlob
  <2> QED
    BY <1>3, <2>1, <2>2, <2>3, <2>4, <2>5, <2>6 DEF CallStep
<1>4. ASSUME NEW h \in Contents, Damage(h)
      PROVE  PinnedIsThere'
  BY <1>4 DEF Damage
<1>5. CASE Edit
  BY <1>5 DEF Edit
<1>6. CASE Expire
  BY <1>6 DEF Expire
<1>7. ASSUME NEW s \in Services, NEW t \in Services, PairStep(s, t)
      PROVE  PinnedIsThere'
  BY <1>7 DEF PairStep, Swap, RollBack
<1>8. CASE UNCHANGED vars
  BY <1>8
<1> HIDE DEF PinnedIsThere
<1> QED
  BY <1>gone, <1>1, <1>2, <1>3, <1>4, <1>5, <1>6, <1>7, <1>8 DEF Next, Crash

(* Nothing becomes protected during cleanup, and no entry usable.          *)
LEMMA NextKeeps ==
  ASSUME OneServer, TypeOK, OutputsAreKnown, ServicesTakeTurns, RunsHaveService,
         CleanupKeeps, [Next]_vars
  PROVE  CleanupKeeps'
<1> USE NoneAssumption DEF TypeOK, OutputsAreKnown, CleanupKeeps, Protected, Go, Leaves,
    Fail, Open, Waiter, Launch, Reuse, Usable, Active, vars, workspace, evidence, local,
    service
<1>0. \A s \in Services : phase[s] \in {"pin", "sweep"} =>
        \A r \in Runs : pc[r] \notin Waiter
  BY RecoveryIsQuiet
<1>1. ASSUME NEW r \in Runs, RunStep(r)
      PROVE  CleanupKeeps'
  <2>0. CASE Register(r)
    BY <2>0 DEF Register
  <2>1. CASE Produce(r)
    BY <1>0, <2>1 DEF Produce
  <2>2. CASE Observe(r)
    BY <1>0, <2>2 DEF Observe
  <2>3. CASE Capture(r)
    BY <1>0, <2>3 DEF Capture
  <2>4. CASE RecordArtifact(r)
    BY <1>0, <2>4 DEF RecordArtifact
  <2>5. CASE Publish(r)
    BY <1>0, <2>5 DEF Publish
  <2>6. CASE Conclude(r)
    BY <1>0, <2>6 DEF Conclude
  <2>7. CASE CheckOutput(r)
    BY <2>7 DEF CheckOutput
  <2>8. CASE CopyBlob(r)
    BY <2>8 DEF CopyBlob
  <2>9. CASE Place(r)
    BY <2>9 DEF Place
  <2>10. CASE RecordReused(r)
    BY <2>10 DEF RecordReused
  <2>11. CASE ConcludeReuse(r)
    BY <2>11 DEF ConcludeReuse
  <2>12. CASE UndoReuse(r)
    BY <2>12 DEF UndoReuse
  <2>13. CASE Age(r)
    BY <2>13 DEF Age
  <2>14. CASE Cite(r)
    BY <2>14 DEF Cite
  <2> QED
    BY <1>1, <2>0, <2>1, <2>2, <2>3, <2>4, <2>5, <2>6, <2>7, <2>8, <2>9,
       <2>10, <2>11, <2>12, <2>13, <2>14 DEF RunStep
<1>gone. ASSUME NEW S, Gone(S)
      PROVE  CleanupKeeps'
  BY <1>gone DEF Gone
<1>2. ASSUME NEW s \in Services, ServiceStep(s)
      PROVE  CleanupKeeps'
  <2>1. CASE Recover(s)
    BY <2>1 DEF Recover
  <2>2. CASE Pin(s)
    BY <2>2 DEF Pin
  <2>3. CASE MarkDeleted(s)
    BY <2>3 DEF MarkDeleted
  <2>4. CASE Serve(s)
    BY <2>4 DEF Serve
  <2>5. CASE Stop(s)
    BY <1>gone, <2>5 DEF Stop
  <2>6. CASE BeginSwitch(s)
    BY <2>6 DEF BeginSwitch
  <2>7. CASE AbandonSwitch(s)
    BY <2>7 DEF AbandonSwitch
  <2>8. CASE FinishSwitch(s)
    BY <2>8 DEF FinishSwitch
  <2> QED
    BY <1>2, <2>1, <2>2, <2>3, <2>4, <2>5, <2>6, <2>7, <2>8 DEF ServiceStep
<1>3. ASSUME NEW s \in Services, NEW r \in Runs, CallStep(s, r)
      PROVE  CleanupKeeps'
  <2>1. CASE PlanHit(s, r)
    BY <2>1 DEF PlanHit
  <2>2. CASE PlanLaunch(s, r)
    <3>1. Usable' => Usable /\ entry'.holds = entry.holds
      BY <2>2, EntryValues DEF PlanLaunch
    <3> QED
      BY <2>2, <3>1 DEF PlanLaunch
  <2>3. CASE Start(s, r)
    BY <2>3 DEF Start
  <2>4. CASE Admit(s, r)
    BY <2>4 DEF Admit
  <2>5. CASE RefuseHit(s, r)
    <3>1. Usable' => Usable /\ entry'.holds = entry.holds
      BY <2>5, EntryValues DEF RefuseHit
    <3> QED
      BY <2>5, <3>1 DEF RefuseHit
  <2>6. CASE RemoveBlob(s, r)
    BY <2>6 DEF RemoveBlob
  <2> QED
    BY <1>3, <2>1, <2>2, <2>3, <2>4, <2>5, <2>6 DEF CallStep
<1>4. ASSUME NEW h \in Contents, Damage(h)
      PROVE  CleanupKeeps'
  BY <1>4 DEF Damage
<1>5. CASE Edit
  BY <1>5 DEF Edit
<1>6. CASE Expire
  BY <1>6 DEF Expire
<1>7. ASSUME NEW s \in Services, NEW t \in Services, PairStep(s, t)
      PROVE  CleanupKeeps'
  BY <1>7 DEF PairStep, Swap, RollBack
<1>8. CASE UNCHANGED vars
  BY <1>8
<1> HIDE DEF CleanupKeeps
<1> QED
  BY <1>gone, <1>1, <1>2, <1>3, <1>4, <1>5, <1>6, <1>7, <1>8 DEF Next, Crash

-----------------------------------------------------------------------------
(* Nothing has run, and nothing is cached.                                 *)
LEMMA InitCleanupInv == Init => CacheInv /\ (OneServer => CleanupInv)
<1> SUFFICES ASSUME Init
             PROVE  CacheInv /\ (OneServer => CleanupInv)
  OBVIOUS
<1>1. TypeOK
  <2>1. NoSweep \in [listed : SUBSET Runs, kept : SUBSET Contents, doomed : Runs \union {None}]
    BY DEF NoSweep
  <2>2. sweep \in [Services -> [listed : SUBSET Runs, kept : SUBSET Contents,
                               doomed : Runs \union {None}]]
    BY <2>1 DEF Init
  <2>3. pc \in [Runs -> PCs]
    BY DEF Init, PCs
  <2> QED
    BY <2>2, <2>3 DEF Init, TypeOK, Files
<1>2. OutputsAreKnown /\ EntryIsObserved /\ HitsAgree
  BY NoneAssumption DEF Init, OutputsAreKnown, EntryIsObserved, HitsAgree, Reuse
<1>3. ServicesTakeTurns /\ RunsHaveService /\ ProtectedIsThere
  BY DEF Init, ServicesTakeTurns, Peers, RunsHaveService, Handled, ProtectedIsThere,
     Protected, Waiter, Reuse
<1>4. PinnedIsThere /\ CleanupKeeps
  BY NoneAssumption DEF Init, PinnedIsThere, CleanupKeeps, Usable, Active
<1> QED
  BY <1>1, <1>2, <1>3, <1>4 DEF CacheInv, CleanupInv

(* The inductive invariant of the cache, for any number of servers.        *)
THEOREM CacheInvAlways == Spec => []CacheInv
<1>1. CacheInv /\ [Next]_vars => CacheInv'
  BY NextTypes, NextOutputs, NextEntry, NextHits DEF CacheInv
<1> QED
  BY InitCleanupInv, <1>1, PTL DEF Spec

(* Every variable keeps its type.                                          *)
THEOREM CacheTypesAlways == Spec => []TypeOK
<1>1. CacheInv => TypeOK
  BY DEF CacheInv
<1> QED
  BY CacheInvAlways, <1>1, PTL

(* What a reuse puts in the workspace is what its source run observed,     *)
(* whoever ran, edited, damaged, published, died or cleaned up since, and  *)
(* an entry is active only as long as its observers agree.                 *)
THEOREM CacheIsAlwaysTrue == Spec => []CacheIsTrue
<1>1. CacheInv => ReuseIsObserved
  BY DEF CacheInv, HitsAgree, ReuseIsObserved, Reuse
<1>2. CacheInv => ActiveIsUnanimous
  BY DEF CacheInv, EntryIsObserved, ActiveIsUnanimous, Active
<1>3. CacheInv => CacheIsTrue
  BY <1>1, <1>2 DEF CacheIsTrue
<1> QED
  BY CacheInvAlways, <1>3, PTL

(* In one server cleanup, which lists, pins and removes in steps, beside   *)
(* the calls of the service in use when the server switches, and may die   *)
(* between any two steps, leaves the bytes of every entry that can be      *)
(* reused and of every artifact that retention protects, unless a hit that *)
(* was under way at the choice made it: the lock keeps only registered     *)
(* runs away.                                                              *)
THEOREM BlobsStayThere == OneServer /\ Spec => []BlobsAreThere
<1>1. OneServer /\ Init => CleanupInv
  BY InitCleanupInv
<1>2. CleanupInv /\ [Next]_vars => CleanupInv'
  <2> SUFFICES ASSUME CleanupInv, [Next]_vars
               PROVE  CleanupInv'
    OBVIOUS
  <2>1. OneServer'
    BY DEF CleanupInv, OneServer
  <2>2. CacheInv'
    BY NextTypes, NextOutputs, NextEntry, NextHits DEF CleanupInv, CacheInv
  <2>3. /\ ServicesTakeTurns' /\ RunsHaveService'
        /\ ProtectedIsThere' /\ PinnedIsThere' /\ CleanupKeeps'
    BY NextTurns, NextRuns, NextThere, NextPinned, NextKeeps DEF CleanupInv, CacheInv
  <2> QED
    BY <2>1, <2>2, <2>3 DEF CleanupInv
<1>3. CleanupInv => BlobsAreThere
  BY DEF CleanupInv, ProtectedIsThere, Protected, BlobsAreThere, RetainedIsThere
<1> QED
  BY <1>1, <1>2, <1>3, PTL DEF Spec

-----------------------------------------------------------------------------
(* Of finitely many positions one is the last.                             *)
LEMMA LastOfMany ==
  ASSUME NEW n \in Nat, NEW S \in SUBSET (0..n), S # {}
  PROVE  \E m \in S : \A j \in S : j <= m
<1> DEFINE R == OpToRel(<, Nat)
           T == {n - i : i \in S}
<1>1. IsWellFoundedOn(R, Nat)
  BY NatLessThanWellFounded
<1>2. T \subseteq Nat /\ T # {}
  <2>1. \A i \in S : n - i \in Nat
    OBVIOUS
  <2> QED
    BY <2>1
<1>3. \E x \in T : \A y \in T : <<y, x>> \notin R
  <2> HIDE DEF R, T
  <2> QED
    BY <1>1, <1>2, WFMin
<1>4. \A x, y \in Nat : y < x => <<y, x>> \in R
  BY DEF OpToRel
<1>5. PICK x \in T : \A y \in T : ~(y < x)
  BY <1>2, <1>3, <1>4
<1>6. PICK m \in S : x = n - m
  OBVIOUS
<1>7. ASSUME NEW j \in S
      PROVE  j <= m
  <2>1. n - j \in T
    OBVIOUS
  <2>2. ~(n - j < n - m)
    BY <1>5, <1>6, <2>1
  <2> QED
    BY <2>2
<1> QED
  BY <1>7

-----------------------------------------------------------------------------
(* A verification that a reuse may rest on: enough checks ran, none of     *)
(* them failed, and the workspace had no local changes.                    *)
Earned(v) ==
  /\ v.report.failed = 0 /\ v.report.unknown = 0 /\ ~v.report.truncated
  /\ v.report.passed >= v.checklist.minimum
  /\ v.report.dirty = FALSE

(* Each check the capability asks for has one.                             *)
Backed(imports, refs) ==
  /\ refs \in [Wanted -> DOMAIN imports]
  /\ \A id \in Wanted :
       Earned(imports[refs[id]]) /\ imports[refs[id]].checklist.id = id

(* An outcome is what verificationOutcome made of report and checklist.    *)
ImportsTell ==
  \A i \in DOMAIN verifications :
    verifications[i].outcome =
      Outcome(verifications[i].report, verifications[i].checklist)

EntryTells == entryRefs # Nothing => Backed(verifications, entryRefs)

(* What a call has read by where it is.                                    *)
Between == {"changes", "observed"}

HasRead(place, d) ==
  /\ place = "tracked" => d.kind = "import"
  /\ place \in Between \union {"tracked"} /\ d.kind = "import" =>
       d.report \in Reports /\ d.checklist \in Checklists
  /\ place \in Between /\ d.kind = "get" => d.page \in DOMAIN verifications
  /\ place \in {"hit", "miss", "reused"}
       \/ (place \in Between /\ d.kind = "execute") =>
       Backed(verifications, d.refs)

(* An answer of project_records is true of a workspace that did not move.  *)
AnswerIsTrue(d) ==
  /\ \A s \in d.shown : Judges(s[2], verifications[s[1]].report)
  /\ d.now # Blind /\ d.filter \in {"any", "current"} =>
       {s[1] : s \in {t \in d.shown : t[2] = "current"}} =
         {i \in 1 .. d.page : Describes(verifications[i].report)}

(* What it saw is so, as long as the workspace has not moved.              *)
HasSeen(place, d) ==
  ~d.moved =>
    /\ place = "changes" => d.now = [commit |-> head, dirty |-> FALSE]
    /\ place = "observed" =>
         d.now \in {Blind, [commit |-> head, dirty |-> ~Clean]}
    /\ place = "stored" => Judges(d.stored, d.report)
    /\ place = "answered" => AnswerIsTrue(d)
    /\ place \in {"hit", "miss", "reused"} =>
         \A id \in Wanted : Describes(verifications[d.refs[id]].report)

(* The positions a draft names exist.                                      *)
HasBounds(d) ==
  /\ d.page \in 0 .. Len(verifications)
  /\ d.refs \in [Wanted -> DOMAIN verifications] \union {Nothing}
  /\ d.shown \subseteq (DOMAIN verifications) \X Judgements

EvidenceInv ==
  /\ EvidenceTypeOK /\ ImportsTell /\ EntryTells
  /\ \A c \in Calls : HasRead(step[c], draft[c]) /\ HasSeen(step[c], draft[c])

-----------------------------------------------------------------------------
(* The fields of a report.                                                 *)
LEMMA ReportFields ==
  ASSUME NEW report \in Reports
  PROVE  /\ report.status \in {"passed", "failed", "partial"}
         /\ report.passed \in Nat /\ report.failed \in Nat
         /\ report.unknown \in Nat /\ report.truncated \in BOOLEAN
         /\ report.commit \in Commits \union {Nothing}
         /\ report.dirty \in BOOLEAN \union {Nothing}
<1>1. report \in Report
  BY VerificationAssumption
<1> QED
  BY <1>1 DEF Report

(* The fields of a checklist.                                              *)
LEMMA ChecklistFields ==
  ASSUME NEW checklist \in Checklists
  PROVE  checklist.id \in Wanted /\ checklist.minimum \in Nat \ {0}
<1>1. checklist \in Checklist
  BY VerificationAssumption DEF Checklists
<1> QED
  BY <1>1 DEF Checklist

(* The fields of an import.                                                *)
LEMMA ImportFields ==
  ASSUME NEW v \in Imported
  PROVE  v.report \in Reports /\ v.checklist \in Checklists
  BY DEF Imported

(* The fields of a draft.                                                  *)
LEMMA DraftFields ==
  ASSUME NEW d \in Draft
  PROVE  /\ d.report \in Reports \union {Nothing}
         /\ d.checklist \in Checklists \union {Nothing} /\ d.page \in Nat
         /\ d.now.commit \in Commits \union {Nothing}
         /\ d.now.dirty \in BOOLEAN
         /\ d.filter \in Filters \union {Nothing}
         /\ d.shown \subseteq Nat \X Judgements
         /\ d.stored \in Judgements \union {Nothing}
         /\ d.refs \in [Wanted -> Nat] \union {Nothing}
         /\ d.moved \in BOOLEAN
  BY DEF Draft

(* A call that reads nothing has read nothing.                             *)
LEMMA EmptyDraft ==
  /\ NoDraft \in Draft /\ NoDraft.page = 0 /\ NoDraft.shown = {}
  /\ NoDraft.refs = Nothing /\ NoDraft.moved = FALSE
  /\ NoDraft.kind = "none" /\ NoDraft.filter = Nothing
  BY DEF NoDraft, Draft, Blind

(* A draft that sees another commit, and nothing else.                     *)
LEMMA SeesHead ==
  ASSUME NEW d \in Draft, NEW commit \in Commits
  PROVE  LET e == [d EXCEPT !.now = [commit |-> commit, dirty |-> FALSE],
                            !.moved = FALSE]
         IN  /\ e \in Draft /\ e.now = [commit |-> commit, dirty |-> FALSE]
             /\ e.kind = d.kind /\ e.report = d.report
             /\ e.checklist = d.checklist /\ e.page = d.page
             /\ e.refs = d.refs /\ e.shown = d.shown
  BY DEF Draft

-----------------------------------------------------------------------------
(* Imports are appended: what was imported stays where it is.              *)
Grows ==
  /\ DOMAIN verifications \subseteq DOMAIN verifications'
  /\ \A i \in DOMAIN verifications : verifications'[i] = verifications[i]

(* What a step of call c leaves of the other calls.                        *)
OthersSettle(c) ==
  \A x \in Calls \ {c} :
    IF x \in Answered THEN step'[x] = "done" /\ draft'[x] = NoDraft
    ELSE step'[x] = step[x] /\ draft'[x] = draft[x]

(* A reference into the imports stays a reference to the same import.      *)
LEMMA StaysBacked ==
  ASSUME Grows, NEW refs, Backed(verifications, refs)
  PROVE  Backed(verifications', refs)
  BY DEF Grows, Backed

(* A call goes somewhere with a draft; those that were answered are done.  *)
LEMMA GoesTo ==
  ASSUME EvidenceTypeOK, NEW c \in Calls, NEW place \in Steps, NEW d \in Draft,
         Goes(c, place), draft' = [Kept EXCEPT ![c] = d]
  PROVE  /\ step' \in [Calls -> Steps] /\ draft' \in [Calls -> Draft]
         /\ step'[c] = place /\ draft'[c] = d /\ OthersSettle(c)
<1>1. Kept \in [Calls -> Draft]
  BY EmptyDraft DEF EvidenceTypeOK, Kept
<1>2. \A x \in Calls : Settled(x) \in Steps
  BY DEF EvidenceTypeOK, Settled, Steps
<1> QED
  BY <1>1, <1>2 DEF Goes, OthersSettle, Kept, Settled

(* What a step of call c leaves, whichever it is.                          *)
CallStepOf(c) ==
  /\ UNCHANGED worktree
  /\ verifications' \in Seq(Imported) /\ Grows /\ ImportsTell'
  /\ entryRefs' \in [Wanted -> DOMAIN verifications'] \union {Nothing}
  /\ EntryTells'
  /\ step' \in [Calls -> Steps] /\ draft' \in [Calls -> Draft]
  /\ OthersSettle(c)
  /\ HasBounds(draft[c])'
  /\ HasRead(step[c], draft[c])' /\ HasSeen(step[c], draft[c])'

(* Then the other calls have read and seen what they had.                  *)
LEMMA CallStepKeepsInv ==
  ASSUME EvidenceInv, NEW c \in Calls, CallStepOf(c)
  PROVE  EvidenceInv'
<1> USE DEF EvidenceInv, CallStepOf
<1>1. Len(verifications) \in Nat /\ Len(verifications') \in Nat
  BY DEF EvidenceTypeOK
<1>2. Len(verifications) <= Len(verifications')
  <2>1. /\ DOMAIN verifications = 1 .. Len(verifications)
        /\ DOMAIN verifications' = 1 .. Len(verifications')
    BY DEF EvidenceTypeOK
  <2> QED
    BY <1>1, <2>1 DEF Grows
<1>3. ASSUME NEW x \in Calls, x # c
      PROVE  /\ HasBounds(draft[x])'
             /\ HasRead(step[x], draft[x])' /\ HasSeen(step[x], draft[x])'
  <2>1. CASE x \in Answered
    <3>1. step'[x] = "done" /\ draft'[x] = NoDraft
      BY <1>3, <2>1 DEF OthersSettle
    <3> QED
      BY <1>1, <3>1, EmptyDraft DEF HasBounds, HasRead, HasSeen, Between
  <2>2. CASE x \notin Answered
    <3>1. /\ step'[x] = step[x] /\ draft'[x] = draft[x]
          /\ step[x] \notin {"stored", "answered", "reused"}
      BY <1>3, <2>2 DEF OthersSettle, Answered
    <3>2. /\ HasBounds(draft[x])
          /\ HasRead(step[x], draft[x]) /\ HasSeen(step[x], draft[x])
      BY DEF EvidenceTypeOK, HasBounds
    <3>3. HasBounds(draft[x])'
      <4>1. draft'[x].page \in 0 .. Len(verifications')
        BY <1>1, <1>2, <3>1, <3>2 DEF HasBounds
      <4>2. /\ draft'[x].refs \in [Wanted -> DOMAIN verifications']
                                   \union {Nothing}
            /\ draft'[x].shown \subseteq (DOMAIN verifications') \X Judgements
        BY <3>1, <3>2 DEF Grows, HasBounds
      <4> QED
        BY <4>1, <4>2 DEF HasBounds
    <3>4. HasRead(step[x], draft[x])'
      <4>1. Backed(verifications, draft[x].refs) =>
              Backed(verifications', draft'[x].refs)
        BY <3>1, StaysBacked
      <4>2. draft[x].page \in DOMAIN verifications =>
              draft[x].page \in DOMAIN verifications'
        BY DEF Grows
      <4> QED
        BY <3>1, <3>2, <4>1, <4>2 DEF HasRead
    <3>5. HasSeen(step[x], draft[x])'
      <4>1. step[x] \in {"hit", "miss"} =>
              draft[x].refs \in [Wanted -> DOMAIN verifications]
        BY <3>2 DEF HasRead, Backed
      <4> QED
        BY <3>1, <3>2, <4>1
           DEF HasSeen, AnswerIsTrue, worktree, Clean, Grows, Describes
    <3> QED
      BY <3>3, <3>4, <3>5
  <2> QED
    BY <2>1, <2>2
<1>4. EvidenceTypeOK'
  BY <1>3 DEF EvidenceTypeOK, HasBounds, worktree
<1> QED
  BY <1>3, <1>4

(* Most steps of a call leave everything but its place and its draft.      *)
LEMMA QuietCallStep ==
  ASSUME EvidenceInv, NEW c \in Calls, NEW place \in Steps, NEW d \in Draft,
         Goes(c, place), draft' = [Kept EXCEPT ![c] = d],
         UNCHANGED <<worktree, verifications, entryRefs>>,
         HasBounds(d), HasRead(place, d), HasSeen(place, d)
  PROVE  EvidenceInv'
<1>1. /\ step' \in [Calls -> Steps] /\ draft' \in [Calls -> Draft]
      /\ step'[c] = place /\ draft'[c] = d /\ OthersSettle(c)
  BY GoesTo DEF EvidenceInv
<1>2. /\ verifications' \in Seq(Imported) /\ Grows /\ ImportsTell'
      /\ entryRefs' \in [Wanted -> DOMAIN verifications'] \union {Nothing}
      /\ EntryTells'
  BY DEF EvidenceInv, EvidenceTypeOK, Grows, ImportsTell, EntryTells
<1>3. HasBounds(draft[c])'
  BY <1>1 DEF HasBounds
<1>4. HasRead(step[c], draft[c])'
  BY <1>1 DEF HasRead
<1>5. HasSeen(step[c], draft[c])'
  BY <1>1 DEF HasSeen, AnswerIsTrue, Judges, Describes, Outdated, Clean,
     worktree
<1> QED
  BY <1>1, <1>2, <1>3, <1>4, <1>5, CallStepKeepsInv DEF CallStepOf

(* A call that ends forgets its draft.                                     *)
LEMMA CallEnds ==
  ASSUME EvidenceInv, NEW c \in Calls, Goes(c, "done"),
         draft' = [Kept EXCEPT ![c] = NoDraft],
         UNCHANGED <<worktree, verifications, entryRefs>>
  PROVE  EvidenceInv'
<1>1. HasBounds(NoDraft)
  BY EmptyDraft DEF HasBounds, EvidenceInv, EvidenceTypeOK
<1>2. HasRead("done", NoDraft) /\ HasSeen("done", NoDraft)
  BY DEF HasRead, HasSeen, Between
<1> QED
  BY <1>1, <1>2, EmptyDraft, QuietCallStep DEF Steps

(* A call asks for the commit with the draft it has read.                  *)
LEMMA HeadIsRead ==
  ASSUME EvidenceInv, NEW c \in Calls, NEW read \in Draft, HasBounds(read),
         HasRead("changes", read), ReadHead(c, read)
  PROVE  EvidenceInv'
<1> DEFINE d == [read EXCEPT !.now = [commit |-> head, dirty |-> FALSE],
                             !.moved = FALSE]
<1>1. head \in Commits
  BY DEF EvidenceInv, EvidenceTypeOK
<1>2. /\ d \in Draft /\ d.now = [commit |-> head, dirty |-> FALSE]
      /\ d.kind = read.kind /\ d.report = read.report
      /\ d.checklist = read.checklist /\ d.page = read.page
      /\ d.refs = read.refs /\ d.shown = read.shown
  BY <1>1, SeesHead
<1>3. /\ Goes(c, "changes") /\ draft' = [Kept EXCEPT ![c] = d]
      /\ UNCHANGED <<worktree, verifications, entryRefs>>
  BY DEF ReadHead
<1> HIDE DEF d
<1>4. HasBounds(d)
  BY <1>2 DEF HasBounds
<1>5. HasRead("changes", d) /\ HasSeen("changes", d)
  BY <1>2 DEF HasRead, HasSeen
<1> QED
  BY <1>2, <1>3, <1>4, <1>5, QuietCallStep DEF Steps

(* What a call has read and seen, to be cited by its steps.                *)
LEMMA CallFacts ==
  ASSUME EvidenceInv, NEW c \in Calls
  PROVE  /\ draft[c] \in Draft /\ HasBounds(draft[c])
         /\ HasRead(step[c], draft[c]) /\ HasSeen(step[c], draft[c])
         /\ head \in Commits /\ tree \in Trees
         /\ Len(verifications) \in Nat
         /\ DOMAIN verifications = 1 .. Len(verifications)
         /\ \A i \in DOMAIN verifications :
              /\ verifications[i] \in Imported
              /\ verifications[i].report \in Reports
              /\ verifications[i].checklist \in Checklists
<1>1. verifications \in Seq(Imported)
  BY DEF EvidenceInv, EvidenceTypeOK
<1>2. \A i \in DOMAIN verifications : verifications[i] \in Imported
  BY <1>1
<1> QED
  BY <1>1, <1>2, ImportFields DEF EvidenceInv, EvidenceTypeOK, HasBounds

(* currentSubject has the commit, and now asks for changes.                *)
LEMMA NextReadChanges ==
  ASSUME EvidenceInv, NEW c \in Calls, ReadChanges(c)
  PROVE  EvidenceInv'
<1> DEFINE d == [draft[c] EXCEPT
              !.now = [commit |-> draft[c].now.commit, dirty |-> ~Clean]]
<1>1. /\ draft[c].now.commit \in Commits \union {Nothing}
      /\ (~Clean) \in BOOLEAN
  BY CallFacts, DraftFields DEF Clean
<1>2. /\ d \in Draft
      /\ d.now = [commit |-> draft[c].now.commit, dirty |-> ~Clean]
      /\ d.kind = draft[c].kind /\ d.report = draft[c].report
      /\ d.checklist = draft[c].checklist /\ d.page = draft[c].page
      /\ d.refs = draft[c].refs /\ d.shown = draft[c].shown
      /\ d.moved = draft[c].moved
  BY <1>1, CallFacts DEF Draft
<1>3. /\ Goes(c, "observed") /\ draft' = [Kept EXCEPT ![c] = d]
      /\ step[c] = "changes"
      /\ UNCHANGED <<worktree, verifications, entryRefs>>
  BY DEF ReadChanges
<1> HIDE DEF d
<1>4. HasBounds(d)
  BY <1>2, CallFacts DEF HasBounds
<1>5. HasRead("observed", d)
  BY <1>2, <1>3, CallFacts DEF HasRead, Between
<1>6. HasSeen("observed", d)
  BY <1>2, <1>3, CallFacts DEF HasSeen
<1> QED
  BY <1>2, <1>3, <1>4, <1>5, <1>6, QuietCallStep DEF Steps

(* It saw nothing of the workspace.                                        *)
LEMMA NextGitFails ==
  ASSUME EvidenceInv, NEW c \in Calls, GitFails(c)
  PROVE  EvidenceInv'
<1> DEFINE d == [draft[c] EXCEPT !.now = Blind]
<1>1. /\ d \in Draft /\ d.now = Blind
      /\ d.kind = draft[c].kind /\ d.report = draft[c].report
      /\ d.checklist = draft[c].checklist /\ d.page = draft[c].page
      /\ d.refs = draft[c].refs /\ d.shown = draft[c].shown
  BY CallFacts DEF Draft, Blind
<1>2. /\ Goes(c, "observed") /\ draft' = [Kept EXCEPT ![c] = d]
      /\ step[c] = "changes"
      /\ UNCHANGED <<worktree, verifications, entryRefs>>
  BY DEF GitFails
<1> HIDE DEF d
<1>3. HasBounds(d)
  BY <1>1, CallFacts DEF HasBounds
<1>4. HasRead("observed", d)
  BY <1>1, <1>2, CallFacts DEF HasRead, Between
<1>5. HasSeen("observed", d)
  BY <1>1 DEF HasSeen
<1> QED
  BY <1>1, <1>2, <1>3, <1>4, <1>5, QuietCallStep DEF Steps

(* ImportReport has the report and a checklist of the working tree.        *)
LEMMA NextReadFiles ==
  ASSUME EvidenceInv, NEW c \in Calls, NEW report \in Reports,
         ReadFiles(c, report)
  PROVE  EvidenceInv'
<1> DEFINE d == [NoDraft EXCEPT !.kind = "import", !.report = report,
                                !.checklist = ChecklistIn[tree]]
<1>1. ChecklistIn[tree] \in Checklists
  BY CallFacts DEF ReadFiles, Checklists
<1>2. /\ d \in Draft /\ d.kind = "import" /\ d.report = report
      /\ d.checklist = ChecklistIn[tree] /\ d.page = 0
      /\ d.shown = {} /\ d.refs = Nothing
  BY <1>1 DEF NoDraft, Draft, Blind
<1>3. /\ Goes(c, "tracked") /\ draft' = [Kept EXCEPT ![c] = d]
      /\ UNCHANGED <<worktree, verifications, entryRefs>>
  BY DEF ReadFiles
<1> HIDE DEF d
<1>4. HasBounds(d)
  BY <1>2, CallFacts DEF HasBounds
<1>5. HasRead("tracked", d) /\ HasSeen("tracked", d)
  BY <1>1, <1>2 DEF HasRead, HasSeen, Between
<1> QED
  BY <1>2, <1>3, <1>4, <1>5, QuietCallStep DEF Steps

(* Of the four looks: each asks for the commit with what it has read.      *)
LEMMA NextCheckTracked ==
  ASSUME EvidenceInv, NEW c \in Calls, CheckTracked(c)
  PROVE  EvidenceInv'
<1>1. ReadHead(c, draft[c]) /\ step[c] = "tracked"
  BY DEF CheckTracked
<1>2. HasRead("changes", draft[c])
  BY <1>1, CallFacts DEF HasRead, Between
<1> QED
  BY <1>1, <1>2, CallFacts, HeadIsRead

(* Query of one record reads it before the workspace.                      *)
LEMMA NextGet ==
  ASSUME EvidenceInv, NEW c \in Calls, NEW i \in DOMAIN verifications, Get(c, i)
  PROVE  EvidenceInv'
<1> DEFINE d == [NoDraft EXCEPT !.kind = "get", !.page = i]
<1>1. i \in 1 .. Len(verifications) /\ i \in Nat
  BY CallFacts
<1>2. /\ d \in Draft /\ d.kind = "get" /\ d.page = i
      /\ d.shown = {} /\ d.refs = Nothing
  BY <1>1 DEF NoDraft, Draft, Blind
<1>3. ReadHead(c, d)
  BY DEF Get
<1> HIDE DEF d
<1>4. HasBounds(d) /\ HasRead("changes", d)
  BY <1>1, <1>2, CallFacts DEF HasBounds, HasRead, Between
<1> QED
  BY <1>2, <1>3, <1>4, HeadIsRead

(* Query of a list reads the workspace first.                              *)
LEMMA NextList ==
  ASSUME EvidenceInv, NEW c \in Calls, NEW filter \in Filters, List(c, filter)
  PROVE  EvidenceInv'
<1> DEFINE d == [NoDraft EXCEPT !.kind = "list", !.filter = filter]
<1>1. /\ d \in Draft /\ d.kind = "list" /\ d.page = 0
      /\ d.shown = {} /\ d.refs = Nothing
  BY DEF NoDraft, Draft, Blind
<1>2. ReadHead(c, d)
  BY DEF List
<1> HIDE DEF d
<1>3. HasBounds(d) /\ HasRead("changes", d)
  BY <1>1, CallFacts DEF HasBounds, HasRead, Between
<1> QED
  BY <1>1, <1>2, <1>3, HeadIsRead

(* Prepare has no references yet; those of Execute are the plan's.         *)
LEMMA NextResolves ==
  ASSUME EvidenceInv, NEW c \in Calls, NEW kind \in {"prepare", "execute"},
         kind = "execute" => step[c] = "hit", Resolves(c, kind)
  PROVE  EvidenceInv'
<1> DEFINE d == [draft[c] EXCEPT !.kind = kind, !.page = Len(verifications)]
<1>1. /\ d \in Draft /\ d.kind = kind /\ d.page = Len(verifications)
      /\ d.shown = draft[c].shown /\ d.refs = draft[c].refs
  BY CallFacts DEF Draft
<1>2. ReadHead(c, d)
  BY DEF Resolves
<1> HIDE DEF d
<1>3. HasBounds(d)
  BY <1>1, CallFacts DEF HasBounds
<1>4. HasRead("changes", d)
  BY <1>1, CallFacts DEF HasRead, Between
<1> QED
  BY <1>1, <1>2, <1>3, <1>4, HeadIsRead

-----------------------------------------------------------------------------
(* Both judgements of a report are true of a workspace seen as it is.      *)
LEMMA JudgementIsTrue ==
  ASSUME EvidenceInv, NEW report \in Reports, NEW now,
         now \in {Blind, [commit |-> head, dirty |-> ~Clean]}
  PROVE  /\ Judges(Validity(report, now), report)
         /\ Judges(StoredValidity(report, now), report)
         /\ now # Blind =>
              (Validity(report, now) = "current" <=> Describes(report))
<1>1. /\ head \in Commits /\ head # Nothing
      /\ TRUE # Nothing /\ FALSE # Nothing
  BY NothingAssumption DEF EvidenceInv, EvidenceTypeOK
<1>2. report.dirty \in BOOLEAN \union {Nothing} /\ report.truncated \in BOOLEAN
  BY ReportFields
<1>3. CASE now = Blind
  BY <1>3 DEF Validity, StoredValidity, Judges
<1>4. CASE now # Blind
  <2>1. now.commit = head /\ now.dirty = ~Clean
    BY <1>4
  <2> QED
    BY <1>1, <1>2, <1>4, <2>1
       DEF Validity, StoredValidity, Judges, Describes, Outdated
<1> QED
  BY <1>3, <1>4

(* A judgement is one of three.                                            *)
LEMMA JudgementsAreThree ==
  ASSUME NEW report, NEW now
  PROVE  Validity(report, now) \in Judgements /\
         StoredValidity(report, now) \in Judgements
  BY DEF Validity, StoredValidity, Judgements

(* What validityFromPayload calls current was clean and complete.          *)
LEMMA CurrentIsClean ==
  ASSUME NEW report \in Reports, NEW now, Validity(report, now) = "current"
  PROVE  /\ now # Blind /\ report.dirty = FALSE /\ report.truncated = FALSE
  BY ReportFields DEF Validity

(* What verificationOutcome calls passed is: enough ran, and none failed.  *)
LEMMA PassIsEarned ==
  ASSUME NEW report \in Reports, NEW checklist \in Checklists,
         Outcome(report, checklist) = "passed"
  PROVE  /\ report.failed = 0 /\ report.unknown = 0 /\ ~report.truncated
         /\ report.passed >= checklist.minimum
<1>1. /\ ~report.truncated /\ ~(report.unknown > 0) /\ ~(report.failed > 0)
      /\ ~(report.passed + report.failed < checklist.minimum)
  BY DEF Outcome
<1> QED
  BY <1>1, ReportFields, ChecklistFields

(* The evidence a qualified call chooses: the last of each check's.        *)
LEMMA EvidenceIsChosen ==
  ASSUME EvidenceInv, NEW c \in Calls, Qualified(c)
  PROVE  /\ Refs(c) \in [Wanted -> DOMAIN verifications]
         /\ \A id \in Wanted : Refs(c)[id] \in Evidence(c, id)
<1>1. ASSUME NEW id \in Wanted
      PROVE  /\ Newest(Evidence(c, id)) \in Evidence(c, id)
             /\ Newest(Evidence(c, id)) \in DOMAIN verifications
  <2> DEFINE S == Evidence(c, id)
  <2>1. draft[c].page \in Nat /\ draft[c].page <= Len(verifications)
    BY CallFacts DEF HasBounds
  <2>2. /\ S \in SUBSET (0..draft[c].page) /\ S # {}
        /\ S \subseteq DOMAIN verifications
    BY <2>1, CallFacts DEF Evidence, Qualified
  <2> HIDE DEF S
  <2>3. \E i \in S : \A j \in S : j <= i
    BY <2>1, <2>2, LastOfMany
  <2>4. Newest(S) \in S
    BY <2>3 DEF Newest
  <2> QED
    BY <2>2, <2>4 DEF S
<1> QED
  BY <1>1 DEF Refs

(* The chosen evidence backs a reuse, and describes a workspace that did   *)
(* not move since it was looked at.                                        *)
LEMMA EvidenceBacks ==
  ASSUME EvidenceInv, NEW c \in Calls, Qualified(c), step[c] = "observed"
  PROVE  /\ Backed(verifications, Refs(c))
         /\ ~draft[c].moved =>
              \A id \in Wanted : Describes(verifications[Refs(c)[id]].report)
<1>1. ASSUME NEW id \in Wanted
      PROVE  LET v == verifications[Refs(c)[id]]
             IN  /\ Earned(v) /\ v.checklist.id = id
                 /\ ~draft[c].moved => Describes(v.report)
  <2> DEFINE i == Refs(c)[id]
             report == verifications[i].report
             checklist == verifications[i].checklist
  <2>1. i \in DOMAIN verifications /\ i \in Evidence(c, id)
    BY EvidenceIsChosen
  <2>2. /\ Validity(report, draft[c].now) = "current"
        /\ checklist.id = id /\ verifications[i].outcome = "passed"
    BY <2>1 DEF Evidence
  <2>3. report \in Reports /\ checklist \in Checklists
    BY <2>1, CallFacts
  <2>4. Outcome(report, checklist) = "passed"
    BY <2>1, <2>2 DEF EvidenceInv, ImportsTell
  <2>5. /\ draft[c].now # Blind
        /\ report.dirty = FALSE
    BY <2>2, <2>3, CurrentIsClean
  <2>6. /\ report.failed = 0 /\ report.unknown = 0 /\ ~report.truncated
        /\ report.passed >= checklist.minimum
    BY <2>3, <2>4, PassIsEarned
  <2>7. ~draft[c].moved => Describes(report)
    <3>1. ~draft[c].moved =>
            draft[c].now \in {Blind, [commit |-> head, dirty |-> ~Clean]}
      BY CallFacts DEF HasSeen
    <3> QED
      BY <2>2, <2>3, <2>5, <3>1, JudgementIsTrue
  <2> QED
    BY <2>2, <2>5, <2>6, <2>7 DEF Earned
<1> QED
  BY <1>1, EvidenceIsChosen DEF Backed

-----------------------------------------------------------------------------
(* An answer about one record is as true as the look at the workspace.     *)
LEMMA NextAnswerGet ==
  ASSUME EvidenceInv, NEW c \in Calls, AnswerGet(c)
  PROVE  EvidenceInv'
<1> DEFINE i == draft[c].page
           now == draft[c].now
           judged == Validity(verifications[i].report, now)
           d == [NoDraft EXCEPT !.page = i, !.now = now,
                   !.moved = draft[c].moved, !.shown = {<<i, judged>>}]
<1>1. /\ step[c] = "observed" /\ draft[c].kind = "get"
      /\ Goes(c, "answered") /\ draft' = [Kept EXCEPT ![c] = d]
      /\ UNCHANGED <<worktree, verifications, entryRefs>>
  BY DEF AnswerGet, Saw
<1>2. i \in DOMAIN verifications /\ i \in Nat /\ i \in 0 .. Len(verifications)
  BY <1>1, CallFacts DEF HasRead, HasBounds, Between
<1>3. judged \in Judgements /\ verifications[i].report \in Reports
  BY <1>2, CallFacts, JudgementsAreThree
<1>4. /\ now.commit \in Commits \union {Nothing} /\ now.dirty \in BOOLEAN
      /\ now \in [commit : Commits \union {Nothing}, dirty : BOOLEAN]
      /\ draft[c].moved \in BOOLEAN
  BY CallFacts DEF Draft
<1>5. ~draft[c].moved => Judges(judged, verifications[i].report)
  <2>1. ~draft[c].moved =>
          now \in {Blind, [commit |-> head, dirty |-> ~Clean]}
    BY <1>1, CallFacts DEF HasSeen
  <2> QED
    BY <1>3, <2>1, JudgementIsTrue
<1> HIDE DEF i, now, judged
<1>6. /\ d \in Draft /\ d.page = i /\ d.moved = draft[c].moved
      /\ d.shown = {<<i, judged>>} /\ d.refs = Nothing /\ d.filter = Nothing
  <2>1. {<<i, judged>>} \in SUBSET (Nat \X Judgements)
    BY <1>2, <1>3
  <2> QED
    BY <1>2, <1>4, <2>1 DEF NoDraft, Draft
<1> HIDE DEF d
<1>7. HasBounds(d) /\ HasRead("answered", d)
  BY <1>2, <1>3, <1>6 DEF HasBounds, HasRead, Between
<1>8. HasSeen("answered", d)
  BY <1>5, <1>6, NothingAssumption DEF HasSeen, AnswerIsTrue
<1> QED
  BY <1>1, <1>6, <1>7, <1>8, QuietCallStep DEF Steps

(* A list in the filter shows every record that is current.                *)
LEMMA NextAnswerList ==
  ASSUME EvidenceInv, NEW c \in Calls, AnswerList(c)
  PROVE  EvidenceInv'
<1> DEFINE now == draft[c].now
           filter == draft[c].filter
           Shown(i) == Validity(verifications[i].report, now)
           In == {j \in DOMAIN verifications : filter \in {"any", Shown(j)}}
           shown == {<<i, Shown(i)>> : i \in In}
           d == [NoDraft EXCEPT !.page = Len(verifications), !.filter = filter,
                   !.now = now, !.moved = draft[c].moved, !.shown = shown]
<1>1. /\ step[c] = "observed"
      /\ Goes(c, "answered") /\ draft' = [Kept EXCEPT ![c] = d]
      /\ UNCHANGED <<worktree, verifications, entryRefs>>
  BY DEF AnswerList, Saw
<1>2. /\ DOMAIN verifications = 1 .. Len(verifications)
      /\ Len(verifications) \in Nat
  BY CallFacts
<1>3. shown \subseteq (DOMAIN verifications) \X Judgements
  BY JudgementsAreThree
<1>4. /\ now \in [commit : Commits \union {Nothing}, dirty : BOOLEAN]
      /\ draft[c].moved \in BOOLEAN /\ filter \in Filters \union {Nothing}
  BY CallFacts DEF Draft
<1>5. ASSUME ~draft[c].moved, NEW i \in DOMAIN verifications
      PROVE  /\ Judges(Shown(i), verifications[i].report)
             /\ now # Blind =>
                  (Shown(i) = "current" <=> Describes(verifications[i].report))
  <2>1. now \in {Blind, [commit |-> head, dirty |-> ~Clean]}
    BY <1>1, <1>5, CallFacts DEF HasSeen
  <2> QED
    BY <1>5, <2>1, CallFacts, JudgementIsTrue
<1>6. ASSUME ~draft[c].moved, now # Blind, filter \in {"any", "current"}
      PROVE  {s[1] : s \in {t \in shown : t[2] = "current"}} =
               {i \in 1 .. Len(verifications) :
                  Describes(verifications[i].report)}
  <2>1. ASSUME NEW s \in shown, s[2] = "current"
        PROVE  /\ s[1] \in 1 .. Len(verifications)
               /\ Describes(verifications[s[1]].report)
    BY <1>2, <1>5, <1>6, <2>1
  <2>2. ASSUME NEW i \in 1 .. Len(verifications),
               Describes(verifications[i].report)
        PROVE  \E s \in shown : s[2] = "current" /\ s[1] = i
    <3>1. Shown(i) = "current" /\ i \in In
      BY <1>2, <1>5, <1>6, <2>2
    <3>2. <<i, Shown(i)>> \in shown
      BY <3>1
    <3> QED
      BY <3>1, <3>2
  <2> HIDE DEF shown
  <2> QED
    BY <2>1, <2>2
<1>7. ~draft[c].moved =>
        \A s \in shown : Judges(s[2], verifications[s[1]].report)
  BY <1>5
<1> HIDE DEF now, filter, shown
<1>8. /\ d \in Draft /\ d.page = Len(verifications) /\ d.filter = filter
      /\ d.moved = draft[c].moved /\ d.now = now /\ d.shown = shown
      /\ d.refs = Nothing
  <2>1. shown \in SUBSET (Nat \X Judgements)
    BY <1>2, <1>3
  <2> QED
    BY <1>2, <1>4, <2>1 DEF NoDraft, Draft
<1> HIDE DEF d
<1>9. HasBounds(d) /\ HasRead("answered", d)
  BY <1>2, <1>3, <1>8 DEF HasBounds, HasRead, Between
<1>10. HasSeen("answered", d)
  BY <1>6, <1>7, <1>8 DEF HasSeen, AnswerIsTrue
<1> QED
  BY <1>1, <1>8, <1>9, <1>10, QuietCallStep DEF Steps

-----------------------------------------------------------------------------
(* A plan that is a hit or a miss rests on its evidence.                   *)
LEMMA NextDecide ==
  ASSUME EvidenceInv, NEW c \in Calls, Decide(c)
  PROVE  EvidenceInv'
<1>1. /\ step[c] = "observed"
      /\ UNCHANGED <<worktree, verifications, entryRefs>>
  BY DEF Decide, Saw
<1>2. CASE Qualified(c)
  <2> DEFINE refs == Refs(c)
             place == IF entryRefs = refs THEN "hit" ELSE "miss"
             d == [NoDraft EXCEPT !.refs = refs, !.moved = draft[c].moved]
  <2>1. /\ Backed(verifications, refs)
        /\ ~draft[c].moved =>
             \A id \in Wanted : Describes(verifications[refs[id]].report)
    BY <1>1, <1>2, EvidenceBacks
  <2>2. refs \in [Wanted -> DOMAIN verifications] /\ refs \in [Wanted -> Nat]
    BY <2>1, CallFacts DEF Backed
  <2>3. refs # Nothing /\ draft[c].moved \in BOOLEAN
    BY <2>2, NothingAssumption, CallFacts, DraftFields
  <2>4. Goes(c, place) /\ draft' = [Kept EXCEPT ![c] = d]
    BY <1>2, <2>3 DEF Decide
  <2> HIDE DEF refs
  <2>5. /\ d \in Draft /\ d.page = 0 /\ d.shown = {} /\ d.refs = refs
        /\ d.moved = draft[c].moved
    BY <2>2, <2>3 DEF NoDraft, Draft, Blind
  <2>6. place \in {"hit", "miss"}
    OBVIOUS
  <2> HIDE DEF d, place
  <2>7. HasBounds(d)
    BY <2>2, <2>5, CallFacts DEF HasBounds
  <2>8. HasRead(place, d) /\ HasSeen(place, d)
    BY <2>1, <2>5, <2>6 DEF HasRead, HasSeen, Between
  <2> QED
    BY <1>1, <2>4, <2>5, <2>6, <2>7, <2>8, QuietCallStep DEF Steps
<1>3. CASE ~Qualified(c)
  <2> DEFINE d == [NoDraft EXCEPT !.refs = Nothing, !.moved = FALSE]
  <2>1. Goes(c, "done") /\ draft' = [Kept EXCEPT ![c] = d]
    BY <1>3 DEF Decide
  <2>2. d \in Draft /\ d.page = 0 /\ d.shown = {} /\ d.refs = Nothing
    BY DEF NoDraft, Draft, Blind
  <2> HIDE DEF d
  <2>3. HasBounds(d) /\ HasRead("done", d) /\ HasSeen("done", d)
    BY <2>2, CallFacts DEF HasBounds, HasRead, HasSeen, Between
  <2> QED
    BY <1>1, <2>1, <2>2, <2>3, QuietCallStep DEF Steps
<1> QED
  BY <1>2, <1>3

(* A reuse rests on the evidence it looked at again.                       *)
LEMMA NextReuseResult ==
  ASSUME EvidenceInv, NEW c \in Calls, ReuseResult(c)
  PROVE  EvidenceInv'
<1> DEFINE refs == draft[c].refs
           d == [NoDraft EXCEPT !.refs = refs, !.moved = draft[c].moved]
<1>1. /\ step[c] = "observed" /\ Qualified(c) /\ Refs(c) = refs
      /\ Goes(c, "reused") /\ draft' = [Kept EXCEPT ![c] = d]
      /\ UNCHANGED <<worktree, verifications, entryRefs>>
  BY DEF ReuseResult, Saw
<1>2. /\ Backed(verifications, refs)
      /\ ~draft[c].moved =>
           \A id \in Wanted : Describes(verifications[refs[id]].report)
  BY <1>1, EvidenceBacks
<1>3. refs \in [Wanted -> DOMAIN verifications] /\ refs \in [Wanted -> Nat]
  BY <1>2, CallFacts DEF Backed
<1>4. draft[c].moved \in BOOLEAN
  BY CallFacts, DraftFields
<1> HIDE DEF refs
<1>5. /\ d \in Draft /\ d.page = 0 /\ d.shown = {} /\ d.refs = refs
      /\ d.moved = draft[c].moved
  BY <1>3, <1>4 DEF NoDraft, Draft, Blind
<1> HIDE DEF d
<1>6. HasBounds(d)
  BY <1>3, <1>5, CallFacts DEF HasBounds
<1>7. HasRead("reused", d) /\ HasSeen("reused", d)
  BY <1>2, <1>5 DEF HasRead, HasSeen, Between
<1> QED
  BY <1>1, <1>5, <1>6, <1>7, QuietCallStep DEF Steps

(* An observation leaves the entry the evidence its plan rested on.        *)
LEMMA NextPublishObservation ==
  ASSUME EvidenceInv, NEW c \in Calls, PublishObservation(c)
  PROVE  EvidenceInv'
<1>1. /\ step[c] = "miss" /\ Goes(c, "done")
      /\ draft' = [Kept EXCEPT ![c] = NoDraft] /\ entryRefs' = draft[c].refs
      /\ UNCHANGED <<worktree, verifications>>
  BY DEF PublishObservation
<1>2. /\ step' \in [Calls -> Steps] /\ draft' \in [Calls -> Draft]
      /\ step'[c] = "done" /\ draft'[c] = NoDraft /\ OthersSettle(c)
  BY <1>1, GoesTo, EmptyDraft DEF EvidenceInv, Steps
<1>3. Backed(verifications, draft[c].refs)
  BY <1>1, CallFacts DEF HasRead
<1>4. /\ verifications' \in Seq(Imported) /\ Grows /\ ImportsTell'
      /\ entryRefs' \in [Wanted -> DOMAIN verifications'] \union {Nothing}
  BY <1>1, <1>3 DEF EvidenceInv, EvidenceTypeOK, Grows, ImportsTell, Backed
<1>5. EntryTells'
  BY <1>1, <1>3 DEF EntryTells
<1>6. HasBounds(draft[c])'
  BY <1>1, <1>2, EmptyDraft, CallFacts DEF HasBounds
<1>7. HasRead(step[c], draft[c])' /\ HasSeen(step[c], draft[c])'
  BY <1>2 DEF HasRead, HasSeen, Between
<1> QED
  BY <1>1, <1>2, <1>4, <1>5, <1>6, <1>7, CallStepKeepsInv DEF CallStepOf

(* A report is judged as it is stored; one imported before is not stored.  *)
LEMMA NextStore ==
  ASSUME EvidenceInv, NEW c \in Calls, Store(c)
  PROVE  EvidenceInv'
<1> DEFINE report == draft[c].report
           checklist == draft[c].checklist
           now == draft[c].now
           known == \E i \in DOMAIN verifications :
                      /\ verifications[i].report = report
                      /\ verifications[i].checklist = checklist
<1>1. step[c] = "observed" /\ draft[c].kind = "import"
  BY DEF Store, Saw
<1>2. CASE known
  <2>1. /\ Goes(c, "done") /\ draft' = [Kept EXCEPT ![c] = NoDraft]
        /\ UNCHANGED <<worktree, verifications, entryRefs>>
    BY <1>2 DEF Store
  <2> QED
    BY <2>1, CallEnds
<1>3. CASE ~known
  <2> DEFINE judged == StoredValidity(report, now)
             d == [NoDraft EXCEPT !.report = report, !.moved = draft[c].moved,
                                  !.stored = judged]
             new == [report |-> report, checklist |-> checklist,
                     outcome |-> Outcome(report, checklist)]
  <2>1. /\ Goes(c, "stored") /\ draft' = [Kept EXCEPT ![c] = d]
        /\ verifications' = Append(verifications, new)
        /\ UNCHANGED <<worktree, entryRefs>>
    BY <1>3 DEF Store
  <2>2. report \in Reports /\ checklist \in Checklists
    BY <1>1, CallFacts DEF HasRead, Between
  <2>3. new \in Imported /\ new.report = report /\ new.checklist = checklist
        /\ new.outcome = Outcome(report, checklist)
    BY <2>2 DEF Imported, Outcome
  <2>4. judged \in Judgements /\ draft[c].moved \in BOOLEAN
    BY JudgementsAreThree, CallFacts, DraftFields
  <2>5. ~draft[c].moved => Judges(judged, report)
    <3>1. ~draft[c].moved =>
            now \in {Blind, [commit |-> head, dirty |-> ~Clean]}
      BY <1>1, CallFacts DEF HasSeen
    <3> QED
      BY <2>2, <3>1, JudgementIsTrue
  <2> HIDE DEF new, judged
  <2>6. /\ verifications \in Seq(Imported)
        /\ verifications' \in Seq(Imported)
        /\ Len(verifications') = Len(verifications) + 1
        /\ \A i \in 1 .. Len(verifications) :
             verifications'[i] = verifications[i]
        /\ verifications'[Len(verifications) + 1] = new
    BY <2>1, <2>3 DEF EvidenceInv, EvidenceTypeOK
  <2>7. /\ DOMAIN verifications' = 1 .. (Len(verifications) + 1)
        /\ DOMAIN verifications = 1 .. Len(verifications)
        /\ Len(verifications) \in Nat
    BY <2>6
  <2>8. Grows
    BY <2>6, <2>7 DEF Grows
  <2>9. ImportsTell'
    <3>1. ASSUME NEW i \in DOMAIN verifications'
          PROVE  LET v == verifications'[i]
                 IN  v.outcome = Outcome(v.report, v.checklist)
      <4>1. CASE i \in DOMAIN verifications
        BY <2>6, <2>7, <4>1 DEF EvidenceInv, ImportsTell
      <4>2. CASE i = Len(verifications) + 1
        BY <2>3, <2>6, <4>2
      <4> QED
        BY <2>7, <4>1, <4>2
    <3> QED
      BY <3>1 DEF ImportsTell
  <2>10. /\ entryRefs' \in [Wanted -> DOMAIN verifications'] \union {Nothing}
         /\ EntryTells'
    <3>1. entryRefs' = entryRefs
      BY <2>1
    <3>2. entryRefs # Nothing => Backed(verifications', entryRefs)
      BY <2>8, StaysBacked DEF EvidenceInv, EntryTells
    <3> QED
      BY <3>1, <3>2 DEF EntryTells, Backed
  <2>11. /\ d \in Draft /\ d.page = 0 /\ d.shown = {} /\ d.refs = Nothing
         /\ d.report = report /\ d.stored = judged /\ d.moved = draft[c].moved
    BY <2>2, <2>4 DEF NoDraft, Draft, Blind
  <2> HIDE DEF d
  <2>12. /\ step' \in [Calls -> Steps] /\ draft' \in [Calls -> Draft]
         /\ step'[c] = "stored" /\ draft'[c] = d /\ OthersSettle(c)
    BY <2>1, <2>11, GoesTo DEF EvidenceInv, Steps
  <2>13. HasBounds(draft[c])'
    BY <2>6, <2>7, <2>11, <2>12 DEF HasBounds
  <2>14. HasRead(step[c], draft[c])'
    BY <2>12 DEF HasRead, Between
  <2>15. HasSeen(step[c], draft[c])'
    BY <2>1, <2>5, <2>11, <2>12
       DEF HasSeen, Judges, Describes, Outdated, Clean, worktree
  <2> QED
    BY <2>1, <2>6, <2>8, <2>9, <2>10, <2>12, <2>13, <2>14, <2>15,
       CallStepKeepsInv DEF CallStepOf
<1> QED
  BY <1>2, <1>3

-----------------------------------------------------------------------------
(* The workspace moves: who was looking knows no more than that.           *)
LEMMA MoveKeepsInv ==
  ASSUME EvidenceInv, Move, head' \in Commits, tree' \in Trees
  PROVE  EvidenceInv'
<1>1. ASSUME NEW x \in Calls
      PROVE  /\ step'[x] \in Steps /\ draft'[x] \in Draft
             /\ HasBounds(draft'[x])
             /\ HasRead(step[x], draft[x])' /\ HasSeen(step[x], draft[x])'
  <2>1. verifications' = verifications
    BY DEF Move
  <2>2. CASE x \in Looking
    <3> DEFINE d == [draft[x] EXCEPT !.moved = TRUE]
    <3>1. /\ step'[x] = step[x] /\ draft'[x] = d /\ step[x] \in Steps
      BY <2>2 DEF Move, Settled, Looking, Answered, Steps
    <3>2. /\ d \in Draft /\ d.moved = TRUE
          /\ d.kind = draft[x].kind /\ d.report = draft[x].report
          /\ d.checklist = draft[x].checklist /\ d.page = draft[x].page
          /\ d.refs = draft[x].refs /\ d.shown = draft[x].shown
      BY CallFacts DEF Draft
    <3> HIDE DEF d
    <3>3. HasBounds(d) /\ HasRead(step[x], d)
      BY <3>2, CallFacts DEF HasBounds, HasRead
    <3> QED
      BY <2>1, <3>1, <3>2, <3>3 DEF HasRead, HasSeen
  <2>3. CASE x \in Answered
    <3>1. step'[x] = "done" /\ draft'[x] = NoDraft
      BY <2>3 DEF Move, Settled, Kept, Looking, Answered
    <3>2. HasBounds(NoDraft)
      BY EmptyDraft, CallFacts DEF HasBounds
    <3> QED
      BY <3>1, <3>2, EmptyDraft DEF Steps, HasRead, HasSeen, Between
  <2>4. CASE x \notin Looking \union Answered
    <3>1. step'[x] = step[x] /\ draft'[x] = draft[x]
      BY <2>4 DEF Move, Settled, Kept
    <3>2. /\ step[x] \in Steps
          /\ step[x] \notin {"changes", "observed", "hit", "miss",
                            "stored", "answered", "reused"}
      BY <2>4 DEF EvidenceInv, EvidenceTypeOK, Looking, Answered
    <3>3. HasRead(step[x], draft[x])'
      BY <2>1, <3>1, CallFacts DEF HasRead
    <3>4. HasSeen(step[x], draft[x])'
      BY <3>1, <3>2 DEF HasSeen
    <3> QED
      BY <3>1, <3>2, <3>3, <3>4, CallFacts
  <2> QED
    BY <2>2, <2>3, <2>4
<1>2. UNCHANGED <<verifications, entryRefs>>
  BY DEF Move
<1>3. step' \in [Calls -> Steps] /\ draft' \in [Calls -> Draft]
  BY <1>1 DEF Move
<1>4. EvidenceTypeOK'
  BY <1>1, <1>2, <1>3 DEF EvidenceInv, EvidenceTypeOK, HasBounds
<1>5. ImportsTell' /\ EntryTells'
  BY <1>2 DEF EvidenceInv, ImportsTell, EntryTells
<1> QED
  BY <1>1, <1>4, <1>5 DEF EvidenceInv

(* An edit, a commit, a checkout.                                          *)
LEMMA NextMoves ==
  ASSUME EvidenceInv,
         \/ EditTree
         \/ \E commit \in Commits : Commit(commit) \/ Checkout(commit)
  PROVE  EvidenceInv'
<1>1. head \in Commits /\ tree \in Trees
  BY DEF EvidenceInv, EvidenceTypeOK
<1>2. Move /\ head' \in Commits /\ tree' \in Trees
  BY <1>1, VerificationAssumption DEF EditTree, Commit, Checkout
<1> QED
  BY <1>2, MoveKeepsInv

(* A step that leaves all but the entry, which it empties or leaves too.   *)
LEMMA NextEntryOnly ==
  ASSUME EvidenceInv, UNCHANGED <<worktree, verifications, step, draft>>,
         entryRefs' \in {entryRefs, Nothing}
  PROVE  EvidenceInv'
<1>1. EvidenceTypeOK'
  BY DEF EvidenceInv, EvidenceTypeOK, worktree
<1>2. ImportsTell' /\ EntryTells'
  BY DEF EvidenceInv, ImportsTell, EntryTells
<1>3. ASSUME NEW x \in Calls
      PROVE  HasRead(step[x], draft[x])' /\ HasSeen(step[x], draft[x])'
  BY CallFacts DEF HasRead, HasSeen, AnswerIsTrue, Judges, Describes, Outdated,
     Clean, worktree
<1> QED
  BY <1>1, <1>2, <1>3 DEF EvidenceInv

-----------------------------------------------------------------------------
(* It holds of a clean workspace without evidence.                         *)
LEMMA EvidenceInitially ==
  EvidenceInit => EvidenceInv
<1> SUFFICES ASSUME EvidenceInit PROVE EvidenceInv
  OBVIOUS
<1> USE DEF EvidenceInit
<1>1. /\ head \in Commits /\ tree \in Trees
      /\ verifications = <<>> /\ verifications \in Seq(Imported)
      /\ DOMAIN verifications = {} /\ Len(verifications) = 0
  BY VerificationAssumption DEF Clean
<1>2. \A c \in Calls : step[c] = "idle" /\ draft[c] = NoDraft
  OBVIOUS
<1>3. EvidenceTypeOK
  BY <1>1, <1>2, EmptyDraft DEF EvidenceTypeOK, Steps
<1>4. ImportsTell /\ EntryTells
  BY <1>1 DEF ImportsTell, EntryTells
<1>5. \A c \in Calls : HasRead(step[c], draft[c]) /\ HasSeen(step[c], draft[c])
  BY <1>2 DEF HasRead, HasSeen, Between
<1> QED
  BY <1>3, <1>4, <1>5 DEF EvidenceInv

(* One case for each group of steps.                                       *)
LEMMA EvidenceStep ==
  EvidenceInv /\ [EvidenceNext]_evidenceVars => EvidenceInv'
<1> SUFFICES ASSUME EvidenceInv, [EvidenceNext]_evidenceVars
             PROVE  EvidenceInv'
  OBVIOUS
<1>1. CASE EditTree
  BY <1>1, NextMoves
<1>2. CASE ExpireEntry
  BY <1>2, NextEntryOnly DEF ExpireEntry
<1>3. CASE \E commit \in Commits : Commit(commit) \/ Checkout(commit)
  BY <1>3, NextMoves
<1>4. ASSUME NEW c \in Calls,
             ReadChanges(c) \/ GitFails(c) \/ CheckTracked(c) \/ Store(c)
               \/ \E report \in Reports : ReadFiles(c, report)
      PROVE  EvidenceInv'
  BY <1>4, NextReadChanges, NextGitFails, NextCheckTracked, NextStore,
     NextReadFiles
<1>5. ASSUME NEW c \in Calls, RefuseImport(c) \/ Drop(c)
      PROVE  EvidenceInv'
  BY <1>5, CallEnds DEF RefuseImport, Drop
<1>6. ASSUME NEW c \in Calls,
             \/ \E i \in DOMAIN verifications : Get(c, i)
             \/ \E filter \in Filters : List(c, filter)
             \/ AnswerGet(c) \/ AnswerList(c)
      PROVE  EvidenceInv'
  BY <1>6, NextGet, NextList, NextAnswerGet, NextAnswerList
<1>7. ASSUME NEW c \in Calls, Prepare(c) \/ Execute(c)
      PROVE  EvidenceInv'
  BY <1>7, NextResolves DEF Prepare, Execute
<1>8. ASSUME NEW c \in Calls,
             Decide(c) \/ PublishObservation(c) \/ ReuseResult(c)
      PROVE  EvidenceInv'
  BY <1>8, NextDecide, NextPublishObservation, NextReuseResult
<1>9. CASE UNCHANGED evidenceVars
  BY <1>9, NextEntryOnly DEF evidenceVars
<1> QED
  BY <1>1, <1>2, <1>3, <1>4, <1>5, <1>6, <1>7, <1>8, <1>9 DEF EvidenceNext

(* Evidence is what it says, at each step of the calls that read it while  *)
(* the workspace moves.                                                    *)
THEOREM EvidenceIsInvariant == EvidenceSpec => []EvidenceInv
  BY EvidenceInitially, EvidenceStep, PTL DEF EvidenceSpec

(* An entry and a plan always name existing records, one for each check.   *)
THEOREM EvidenceTypesAlways == EvidenceSpec => []EvidenceTypeOK
<1>1. EvidenceInv => EvidenceTypeOK
  BY DEF EvidenceInv
<1> QED
  BY <1>1, EvidenceIsInvariant, PTL

(* ImportReport and validityFromPayload tell the truth of a workspace that *)
(* did not move, and a filtered list misses no current record.             *)
THEOREM ValidityIsAlwaysTrue == EvidenceSpec => []ValidityIsTrue
<1>1. EvidenceInv => ValidityIsTrue
  <2> SUFFICES ASSUME EvidenceInv, NEW c \in Unmoved
               PROVE  /\ step[c] = "stored" =>
                           Judges(draft[c].stored, draft[c].report)
                      /\ step[c] = "answered" => AnswerIsTrue(draft[c])
    BY DEF ValidityIsTrue, AnswerIsTrue
  <2> QED
    BY CallFacts DEF Unmoved, HasSeen
<1> QED
  BY <1>1, EvidenceIsInvariant, PTL

(* prepareCache and executeCacheHit rest on passes of this very commit,    *)
(* clean; PublishCacheObservation leaves an entry that was one's.          *)
THEOREM ReusesAreQualified == EvidenceSpec => []ReuseIsQualified
<1>1. EvidenceInv => ReuseIsQualified
  <2>1. ASSUME EvidenceInv, NEW c \in Unmoved, NEW id \in Wanted,
               step[c] \in {"hit", "miss", "reused"}
        PROVE  LET i == draft[c].refs[id]
               IN  Passed(i) /\ Describes(verifications[i].report)
                             /\ verifications[i].checklist.id = id
    BY <2>1, CallFacts DEF Unmoved, HasRead, HasSeen, Backed, Earned, Passed
  <2>2. ASSUME EvidenceInv, entryRefs # Nothing, NEW id \in Wanted
        PROVE  /\ Passed(entryRefs[id])
               /\ verifications[entryRefs[id]].report.dirty = FALSE
    BY <2>2 DEF EvidenceInv, EntryTells, Backed, Earned, Passed
  <2> QED
    BY <2>1, <2>2 DEF ReuseIsQualified
<1> QED
  BY <1>1, EvidenceIsInvariant, PTL
=============================================================================
