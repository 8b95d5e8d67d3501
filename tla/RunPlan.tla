------------------------------ MODULE RunPlan -------------------------------
(***************************************************************************)
(* What a plan binds: run_prepare reads the declaration, the executable,   *)
(* the working directory, the preflight checks, the inputs and the cache,  *)
(* one after the other, and stores what it read; run_execute reads most of *)
(* it again and refuses a plan that is stale (internal/runner/service.go,  *)
(* execute.go, cache.go).  The workspace, the host and the cache row move  *)
(* between any two reads.                                                  *)
(*                                                                         *)
(* There is one plan; other calls are part of the world that moves.  What  *)
(* happens once a run has begun is Runner's, what a row and its blobs hold *)
(* RunnerCache's, and which evidence is current Verification's.            *)
(***************************************************************************)
EXTENDS Naturals, Sequences, FiniteSets

CONSTANTS
  Inputs,    \* the files the declaration names as inputs
  Required,  \* its required preflight checks
  Keyed,     \* those of them whose identity is in the cache key
  Values,    \* what a part of the world may be: contents, identities, refs
  Gone,      \* a part that is missing: no file, a failed check, no grant,
             \* no declaration that is trusted for runs
  Sources,   \* the runs a cache row may come from
  MaxMoves,  \* bound: how often the world moves
  MaxCalls   \* bound: calls of run_prepare and run_execute

(* manifest.go: a key check is a required executable check.                *)
ASSUME PlanAssumption ==
  /\ Keyed \subseteq Required
  /\ Gone \notin Values \union Sources
  /\ MaxMoves \in Nat /\ MaxCalls \in Nat

(* The parts of the world a call reads.  "print" is the fingerprint of the *)
(* sources the declaration executes, "grant" the leave to reuse results,   *)
(* "evidence" the records that qualify the cached result.                  *)
Bound    == {"revision", "print", "executable", "cwd"} \union Inputs
Parts    == Bound \union Required \union {"grant", "evidence"}
KeyParts == {"revision", "print", "executable"} \union Inputs \union Keyed

VARIABLES
  world,    \* of each part, what it is
  row,      \* the cache row, or Gone
  intact,   \* the blobs it names verify
  call,     \* "none", "prepare" or "execute"
  step,     \* where the call is
  todo,     \* the parts that step has still to read
  read,     \* what the call has read
  hit,      \* the run whose result a preparation found, or Gone
  observed, \* the environment records, in the order of their writing
  plan,     \* the prepared run, or Gone
  moves, calls,
  seen,     \* history: of each part, what it was since the call began
  rows      \* history: likewise of the row, and whether its blobs verified

worldVars == <<world, row, intact, moves>>
history   == <<seen, rows>>
progress  == <<call, step, todo>>
records   == <<observed, plan>>
planVars  == <<worldVars, history, progress, read, hit, records, calls>>

-----------------------------------------------------------------------------
(* makeCacheKey: the declaration, what it executes, inputs and key checks. *)
KeyOf(parts) == [p \in KeyParts |-> parts[p]]

Row == [key : [KeyParts -> Values \union {Gone}], from : Sources,
        refs : Values, state : {"active", "quarantined"}]

(* The row a run publishes that finds the parts so.                        *)
RowOf(parts, s) ==
  [key |-> KeyOf(parts), from |-> s, refs |-> parts["evidence"],
   state |-> "active"]

(* Mutant: a quarantined row will do.                                      *)
UsableThough(parts) ==
  row # Gone /\ row.key = KeyOf(parts) /\ row.refs = parts["evidence"]

(* An active row under the key of what was read, on the same evidence.     *)
Usable(parts) ==
  /\ row # Gone
  /\ row.key = KeyOf(parts) /\ row.state = "active"
  /\ row.refs = parts["evidence"]

(* Every required check passed.  Recommended checks and host facts only    *)
(* warn.                                                                   *)
Ready(parts) == \A c \in Required : parts[c] # Gone

Init ==
  /\ \E v \in Values : world = [p \in Parts |-> v]
  /\ row \in {Gone} \union {RowOf(world, s) : s \in Sources}
  /\ intact = TRUE
  /\ call = "none" /\ step = "idle" /\ todo = {}
  /\ read = [p \in Parts |-> Gone] /\ hit = Gone
  /\ observed = <<>> /\ plan = Gone
  /\ moves = 0 /\ calls = 0
  /\ seen = [p \in Parts |-> {world[p]}] /\ rows = {<<row, intact>>}

-----------------------------------------------------------------------------
(* The world.  What moves after a run has begun is no longer its plan's.   *)
Begun == step \in {"launched", "materializing"}

Noted ==
  /\ seen' = [p \in Parts |-> seen[p] \union {world'[p]}]
  /\ rows' = rows \union {<<row', intact'>>}

Moves ==
  /\ ~Begun /\ moves < MaxMoves /\ moves' = moves + 1
  /\ Noted
  /\ UNCHANGED <<progress, read, hit, records, calls>>

(* Any part changes or goes; a fingerprint is always some fingerprint.     *)
Move(p) ==
  /\ \E v \in Values \union (IF p = "print" THEN {} ELSE {Gone}) :
       v # world[p] /\ world' = [world EXCEPT ![p] = v]
  /\ UNCHANGED <<row, intact>>
  /\ Moves

(* Another run quarantines, drops or publishes the row.                    *)
MoveRow ==
  /\ \/ row # Gone /\ row' \in {Gone, [row EXCEPT !.state = "quarantined"]}
        /\ UNCHANGED intact
     \/ world["evidence"] # Gone /\ intact' = TRUE
        /\ \E s \in Sources : row' = RowOf(world, s)
  /\ UNCHANGED world
  /\ Moves

LoseBlob ==
  /\ intact' = FALSE
  /\ UNCHANGED <<world, row>>
  /\ Moves

-----------------------------------------------------------------------------
(* Steps of a call.                                                        *)
BeginCall(c) ==
  /\ call = "none" /\ calls < MaxCalls /\ calls' = calls + 1
  /\ call' = c /\ step' = "declaration" /\ todo' = {"revision", "print"}
  /\ read' = [p \in Parts |-> Gone] /\ hit' = Gone
  /\ seen' = [p \in Parts |-> {world[p]}] /\ rows' = {<<row, intact>>}
  /\ UNCHANGED <<worldVars, records>>

Done == call' = "none" /\ step' = "idle" /\ todo' = {}

(* Mutant: a call that is refused stays at the step that refused it.       *)
RefuseInPlace ==
  /\ call # "none" /\ ~Begun
  /\ call' = "none"
  /\ UNCHANGED <<worldVars, history, step, todo, read, hit, records, calls>>

(* It ends with nothing begun: a check refuses, a read fails, the deadline *)
(* passes, the server goes.                                                *)
Refuse ==
  /\ call # "none" /\ ~Begun
  /\ Done
  /\ UNCHANGED <<worldVars, history, read, hit, records, calls>>

(* One read: a file is hashed, a check probed, the catalog refreshed ...   *)
Look(p) ==
  /\ p \in todo /\ todo' = todo \ {p}
  /\ read' = [read EXCEPT ![p] = world[p]]
  /\ UNCHANGED <<worldVars, history, call, step, hit, records, calls>>

(* ... and once a step has read all of its parts, the call goes on.        *)
Advance(c, from, to, parts) ==
  /\ call = c /\ step = from /\ todo = {}
  /\ step' = to /\ todo' = parts
  /\ UNCHANGED <<worldVars, history, call, read, hit, records, calls>>

-----------------------------------------------------------------------------
(* run_prepare.  The client asks for the revision it has seen; another one *)
(* is refused, and so are arguments that do not fit its declaration.       *)
Prepare == plan = Gone /\ BeginCall("prepare")

ResolveCapability ==
  /\ read["revision"] # Gone
  /\ Advance("prepare", "declaration", "executable", {"executable"})

ResolveExecutable ==
  /\ read["executable"] # Gone
  /\ Advance("prepare", "executable", "cwd", {"cwd"})

ResolveCWD ==
  /\ read["cwd"] # Gone
  /\ Advance("prepare", "cwd", "checks", Required)

(* A check that fails and an input that is missing are part of the plan.   *)
Preflight == Advance("prepare", "checks", "inputs", Inputs)

Snapshot == Advance("prepare", "inputs", "cache", {"grant"})

(* prepareCache.  Reuse is not on offer: the policy or a bypass, no grant, *)
(* no identity for a key check, no evidence, no row, a row that is stale.  *)
NoReuse ==
  /\ call = "prepare" /\ step \in {"cache", "qualify", "lookup"} /\ todo = {}
  /\ step' = "record"
  /\ UNCHANGED <<worldVars, history, call, todo, read, hit, records, calls>>

Qualify ==
  /\ read["grant"] # Gone /\ \A c \in Keyed : read[c] # Gone
  /\ Advance("prepare", "cache", "qualify", {"evidence"})

Qualified ==
  /\ read["evidence"] # Gone
  /\ Advance("prepare", "qualify", "lookup", {})

Lookup ==
  /\ call = "prepare" /\ step = "lookup"
  /\ Usable(read) /\ hit' = row.from
  /\ step' = "verify"
  /\ UNCHANGED <<worldVars, history, call, todo, read, records, calls>>

VerifyOutputs ==
  /\ intact
  /\ Advance("prepare", "verify", "record", {})

(* QuarantineCacheEntry: by key, whatever the row says by now.             *)
Quarantine ==
  /\ ~intact /\ step = "verify"
  /\ row' = IF row # Gone /\ row.key = KeyOf(read)
            THEN [row EXCEPT !.state = "quarantined"] ELSE row
  /\ UNCHANGED <<world, intact, moves>>
  /\ Noted

VerifyFails ==
  /\ call = "prepare"
  /\ Quarantine
  /\ hit' = Gone /\ step' = "record"
  /\ UNCHANGED <<call, todo, read, records, calls>>

(* The environment record, and then the run that refers to it.             *)
RecordPreflight ==
  /\ call = "prepare" /\ step = "record"
  /\ observed' = Append(observed, [c \in Required |-> read[c]])
  /\ step' = "insert"
  /\ UNCHANGED <<worldVars, history, call, todo, read, hit, plan, calls>>

RecordPlan ==
  /\ call = "prepare" /\ step = "insert"
  /\ plan' = [bound |-> read, ready |-> Ready(read), hit |-> hit,
              preflight |-> Len(observed)]
  /\ Done
  /\ UNCHANGED <<worldVars, history, read, hit, observed, calls>>

-----------------------------------------------------------------------------
(* run_execute, of a plan that is ready.  Neither the checks that are not  *)
(* in the key nor the grant are read again.                                *)
Execute == plan # Gone /\ plan.ready /\ BeginCall("execute")

Holds(parts) ==
  call = "execute" /\ \A p \in parts : read[p] = plan.bound[p]

ResolveAgain ==
  /\ Holds({"revision", "print"})
  /\ Advance("execute", "declaration", "executable", {"executable"})

(* Mutant: the executable is resolved and hashed, but not compared.        *)
ExecutableResolves ==
  /\ read["executable"] # Gone
  /\ Advance("execute", "executable", "inputs", Inputs)

ExecutableHolds ==
  /\ Holds({"executable"})
  /\ Advance("execute", "executable", "inputs", Inputs)

InputsHold ==
  /\ Holds(Inputs)
  /\ Advance("execute", "inputs", "cwd", {"cwd"})

Launch ==
  /\ Holds({"cwd"}) /\ plan.hit = Gone
  /\ Advance("execute", "cwd", "launched", {})

(* executeCacheHit: the key checks, in a working directory that is looked  *)
(* up anew, the key, the evidence, the row and its blobs.                  *)
BeginHit ==
  /\ Holds({"cwd"}) /\ plan.hit # Gone /\ world["cwd"] # Gone
  /\ Advance("execute", "cwd", "checks", Keyed)

(* Mutant: a key check has to pass, whatever it finds.                     *)
KeyChecksPass ==
  /\ \A c \in Keyed : read[c] # Gone
  /\ Advance("execute", "checks", "qualify", {"evidence"})

KeyHolds ==
  /\ Holds(Keyed) /\ KeyOf(read) = KeyOf(plan.bound)
  /\ Advance("execute", "checks", "qualify", {"evidence"})

EvidenceHolds ==
  /\ Holds({"evidence"})
  /\ Advance("execute", "qualify", "lookup", {})

RowHolds ==
  /\ Advance("execute", "lookup", "verify", {})
  /\ Usable(plan.bound) /\ row.from = plan.hit

Materialize ==
  /\ intact
  /\ Advance("execute", "verify", "materializing", {})

MaterializeFails ==
  /\ call = "execute"
  /\ Quarantine
  /\ Done
  /\ UNCHANGED <<read, hit, records, calls>>

-----------------------------------------------------------------------------
Next ==
  \/ \E p \in Parts : Move(p) \/ Look(p)
  \/ MoveRow \/ LoseBlob
  \/ Prepare \/ ResolveCapability \/ ResolveExecutable \/ ResolveCWD
  \/ Preflight \/ Snapshot \/ NoReuse \/ Qualify \/ Qualified
  \/ Lookup \/ VerifyOutputs \/ VerifyFails
  \/ RecordPreflight \/ RecordPlan
  \/ Execute \/ ResolveAgain \/ ExecutableHolds \/ InputsHold \/ Launch
  \/ BeginHit \/ KeyHolds \/ EvidenceHolds \/ RowHolds
  \/ Materialize \/ MaterializeFails
  \/ Refuse

PlanSpec == Init /\ [][Next]_planVars

-----------------------------------------------------------------------------
(* The state of the world, of the call and of the records has its type, a  *)
(* plan refers to an environment record there is, and a call that is not   *)
(* going on has nothing left to read.                                      *)
TypeOK ==
  /\ world \in [Parts -> Values \union {Gone}] /\ world["print"] # Gone
  /\ row = Gone \/ row \in Row
  /\ intact \in BOOLEAN
  /\ call \in {"none", "prepare", "execute"} /\ todo \subseteq Parts
  /\ call = "none" <=> step = "idle"
  /\ call = "none" => todo = {}
  /\ read \in [Parts -> Values \union {Gone}]
  /\ hit \in Sources \union {Gone}
  /\ observed \in Seq([Required -> Values \union {Gone}])
  /\ plan # Gone =>
       plan \in [bound : [Parts -> Values \union {Gone}], ready : BOOLEAN,
                 hit : Sources \union {Gone}, preflight : DOMAIN observed]

(* What a plan says was so while it was prepared, if not all at one time:  *)
(* every part was as it is bound, the environment record it refers to has  *)
(* its checks, and a hit was an active row under the plan's key, on        *)
(* evidence that was current, with blobs that verified, reuse being        *)
(* granted (service.go Prepare, cache.go prepareCache).                    *)
PlanWasObserved ==
  [][plan' # plan =>
       /\ \A p \in Bound \union Required : plan'.bound[p] \in seen[p]
       /\ \A c \in Required : observed[plan'.preflight][c] = plan'.bound[c]
       /\ plan'.ready <=> \A c \in Required : plan'.bound[c] # Gone
       /\ plan'.hit # Gone =>
            /\ seen["grant"] \ {Gone} # {}
            /\ plan'.bound["evidence"] \in seen["evidence"]
            /\ \E r \in rows, verified \in rows :
                 /\ r[1] = RowOf(plan'.bound, plan'.hit)
                 /\ verified[2]]_planVars

(* What run_execute begins is what was planned: a trusted declaration, its *)
(* sources, the executable, every input and the working directory were as  *)
(* the plan binds them during this very call, although the plan may be old *)
(* and its own reads may be of different times (execute.go:79-97;          *)
(* SECURITY.md: "Plans bind the executable identity and declared inputs    *)
(* before one-time execution").                                            *)
LaunchIsPlanned ==
  Begun => /\ plan.ready /\ plan.bound["revision"] # Gone
           /\ \A p \in Bound : plan.bound[p] \in seen[p]

(* A cached result is copied into the workspace only when, during this     *)
(* very call, the key checks and the evidence were those of the plan, the  *)
(* row was active, of the run the plan names and under the key of what was *)
(* found, and its blobs verified (cache.go executeCacheHit).               *)
HitIsCurrent ==
  step = "materializing" =>
    /\ \A p \in KeyParts \union {"evidence"} : plan.bound[p] \in seen[p]
    /\ \E r \in rows, verified \in rows :
         r[1] = RowOf(plan.bound, plan.hit) /\ verified[2]

(* run_execute, which reads each part again once, while any may move       *)
(* between two reads, neither launches a process nor copies a cached       *)
(* result that is not the plan's as this very call found the world.        *)
ExecutionIsPlanned == LaunchIsPlanned /\ HitIsCurrent
=============================================================================
