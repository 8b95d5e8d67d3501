------------------------------- MODULE Runner -------------------------------
(***************************************************************************)
(* Runner services (internal/runner) over one state directory: the life of *)
(* a prepared plan from run_prepare through run_execute, the goroutine     *)
(* that waits for the process, cancellation, timeout, the snapshot lock,   *)
(* shutdown, crash and recovery.                                           *)
(*                                                                         *)
(* A service is one runner.Service: the one of a server process, or one of *)
(* the two a server holds while it switches its bundle over this directory *)
(* (runtime_config.go:221-266; every source added, removed or refreshed is *)
(* such a switch).  Services share the records database and the runs/      *)
(* directory and nothing else; Service.mu and Service.running belong to    *)
(* one service.                                                            *)
(*                                                                         *)
(* A call is one run_execute request, followed after it returns by the     *)
(* waitForRun goroutine it spawned.  A step of a call lies between two     *)
(* accesses to shared state.  A call that is refused before it touched     *)
(* anything leaves no trace and is a stuttering step.                      *)
(***************************************************************************)
EXTENDS Naturals, FiniteSets

CONSTANTS
  Services,   \* runner services over the one state directory
  Servers,    \* server processes: each is the set of the services it may hold
  Plans,      \* run IDs
  Calls,      \* run_execute requests
  NoCall      \* no call: absent stdout.log, absent s.running entry

ASSUME NoCallAssumption == NoCall \notin Calls

ASSUME ServersAssumption ==
  /\ UNION Servers = Services
  /\ \A S, T \in Servers : S # T => S \intersect T = {}

VARIABLES
  rec,        \* run records: payload.State and the record's revision
  mode,       \* what run_prepare decided: launch, reuse a cache hit, not ready
  stdoutLog,  \* runs/<id>/stdout.log: the call that created it, or NoCall
  status,     \* each service: "down", "recovering", "ready" (built beside the
              \* one in use), "up", "aside" (replaced, still held), "closing"
  seen,       \* Recover: revisions it queried and has still to mark, 0 for none
  running,    \* Service.running: the call registered for a plan, or NoCall
  lock,       \* Service.mu: "free", or kept by BeginMemorySnapshot's caller,
              \* a memory export ("memory") or a switch ("switch")
  srv,        \* the service a call was sent to (an argument)
  plan,       \* the plan a call names (an argument)
  pc,         \* where a call, and then its goroutine, is
  held,       \* the record revision a call holds in its local variable
  ctx,        \* runContext: "live", "cancelled", "deadline"
  proc,       \* the call's process: "none", "alive", "ok", "bad", "killed"
  pipe        \* TRUE while something holds the write end of its output

store   == <<rec, mode, stdoutLog>>
service == <<status, seen, running, lock>>
args    == <<srv, plan>>
local   == <<pc, held, ctx, proc, pipe>>
vars    == <<store, service, args, local>>

-----------------------------------------------------------------------------
Modes == {"launch", "reuse", "not_ready"}

(* payload.State, grouped by what may still happen to it.                  *)
Concluded == {"completed", "failed", "timed_out", "cancelled"}
Owned     == {"running", "materializing"}
Terminal  == Concluded \union {"reused", "interrupted"}
States    == {"none", "prepared"} \union Owned \union Terminal

(* Where a call is: inside the run_execute handler, or in its goroutine.   *)
(* In the goroutine, a concluded state is payload.State once decided.      *)
Handler == {"loaded", "stdout", "streams", "started", "aborting", "recorded",
            "materializing"}
Waiter  == {"waiting", "awaiting", "finished"} \union Concluded
PCs     == {"idle", "returned", "done", "dead"} \union Handler \union Waiter

Mine(s) == {c \in Calls : srv[c] = s}

(* The other services of the same server process.                          *)
Peers(s) == {t \in Services : t # s /\ \E S \in Servers : {s, t} \subseteq S}

(* A switch keeps the Runner in use from registering while the next one is *)
(* built.  The Runner goes on serving.                                     *)
Frozen(s) == status[s] = "up" /\ lock[s] = "switch"

(* Definitions marked "Mutant" are plausible bugs.  No specification uses   *)
(* them; PROJECT.json names the property that each one violates.           *)
MatchesAlways(p, revision) == TRUE                                 \* Mutant

(* UpdateObservation: compare the revision, write, and bump it.            *)
Matches(p, revision) == rec[p].rev = revision
Written(p, state) ==
  [rec EXCEPT ![p] = [state |-> state, rev |-> rec[p].rev + 1]]

(* terminateProcessTree: its error is ignored, so it may do nothing.       *)
Kill(c) == {proc, [proc EXCEPT ![c] = IF @ = "alive" THEN "killed" ELSE @]}

(* command.Wait returns: the process ended, and so did the goroutines that *)
(* copy its output, which end when nothing holds the pipe any more.        *)
WaitReturns(c) == proc[c] # "alive" /\ ~ pipe[c]

Go(c, label) == pc' = [pc EXCEPT ![c] = label]

-----------------------------------------------------------------------------
Init ==
  /\ rec       = [p \in Plans |-> [state |-> "none", rev |-> 0]]
  /\ mode      = [p \in Plans |-> "not_ready"]
  /\ stdoutLog = [p \in Plans |-> NoCall]
  /\ status    = [s \in Services |-> "down"]
  /\ seen      = [s \in Services |-> [p \in Plans |-> 0]]
  /\ running   = [s \in Services |-> [p \in Plans |-> NoCall]]
  /\ lock      = [s \in Services |-> "free"]
  /\ srv       \in [Calls -> Services]
  /\ plan      \in [Calls -> Plans]
  /\ pc        = [c \in Calls |-> "idle"]
  /\ held      = [c \in Calls |-> 0]
  /\ ctx       = [c \in Calls |-> "live"]
  /\ proc      = [c \in Calls |-> "none"]
  /\ pipe      = [c \in Calls |-> FALSE]

-----------------------------------------------------------------------------
(* run_prepare: the preflight outcome and the cache decision are inputs.   *)
Prepare(s, p) ==
  /\ status[s] = "up"
  /\ rec[p].state = "none"
  /\ \E m \in Modes : mode' = [mode EXCEPT ![p] = m]
  /\ rec' = Written(p, "prepared")
  /\ UNCHANGED <<stdoutLog, service, args, local>>

(* Execute reads the record and admits only a ready plan at revision 1.    *)
Load(c) ==
  /\ pc[c] = "idle"
  /\ status[srv[c]] = "up"
  /\ rec[plan[c]] = [state |-> "prepared", rev |-> 1]
  /\ mode[plan[c]] # "not_ready"
  /\ Go(c, "loaded")
  /\ held' = [held EXCEPT ![c] = rec[plan[c]].rev]
  /\ UNCHANGED <<store, service, args, ctx, proc, pipe>>

(* The declaration, executable or inputs changed, the cache entry no longer *)
(* verifies, stdout.log exists, a file or the command cannot be created, a *)
(* compare-and-swap lost, the request's deadline passed.                   *)
GiveUp(c) ==
  /\ pc[c] \in {"loaded", "stdout", "streams"}
  /\ Go(c, "returned")
  /\ UNCHANGED <<store, service, args, held, ctx, proc, pipe>>

(* Mutant: O_TRUNC for O_EXCL.                                             *)
CreateStdoutShared(c) ==
  /\ pc[c] = "loaded"
  /\ mode[plan[c]] = "launch"
  /\ stdoutLog' = [stdoutLog EXCEPT ![plan[c]] = c]
  /\ Go(c, "stdout")
  /\ UNCHANGED <<rec, mode, service, args, held, ctx, proc, pipe>>

(* O_CREATE|O_EXCL: at most one call ever creates a plan's stdout.log.     *)
CreateStdout(c) ==
  /\ pc[c] = "loaded"
  /\ mode[plan[c]] = "launch"
  /\ stdoutLog[plan[c]] = NoCall
  /\ stdoutLog' = [stdoutLog EXCEPT ![plan[c]] = c]
  /\ Go(c, "stdout")
  /\ UNCHANGED <<rec, mode, service, args, held, ctx, proc, pipe>>

(* stderr.log lies in the directory its creator of stdout.log has alone.   *)
CreateStderr(c) ==
  /\ pc[c] = "stdout"
  /\ Go(c, "streams")
  /\ UNCHANGED <<store, service, args, held, ctx, proc, pipe>>

StartProcess(c) ==
  /\ pc[c] = "streams"
  /\ proc' = [proc EXCEPT ![c] = "alive"]
  /\ pipe' = [pipe EXCEPT ![c] = TRUE]
  /\ Go(c, "started")
  /\ UNCHANGED <<store, service, args, held, ctx>>

(* command.Start failed: the outcome is written, an error of it ignored.   *)
StartFails(c) ==
  /\ pc[c] = "streams"
  /\ rec' = IF Matches(plan[c], held[c]) THEN Written(plan[c], "failed") ELSE rec
  /\ Go(c, "returned")
  /\ UNCHANGED <<mode, stdoutLog, service, args, held, ctx, proc, pipe>>

(* Mutant: the record the update returned is not kept.                     *)
RecordRunningStale(c) ==
  /\ pc[c] = "started"
  /\ Matches(plan[c], held[c])
  /\ rec' = Written(plan[c], "running")
  /\ Go(c, "recorded")
  /\ UNCHANGED <<mode, stdoutLog, service, args, held, ctx, proc, pipe>>

(* The process runs before the record says so.                             *)
RecordRunning(c) ==
  /\ pc[c] = "started"
  /\ Matches(plan[c], held[c])
  /\ rec' = Written(plan[c], "running")
  /\ held' = [held EXCEPT ![c] = @ + 1]
  /\ Go(c, "recorded")
  /\ UNCHANGED <<mode, stdoutLog, service, args, ctx, proc, pipe>>

(* The update failed (conflict, or startCtx expired): kill ...             *)
AbortStart(c) ==
  /\ pc[c] = "started"
  /\ proc' \in Kill(c)
  /\ Go(c, "aborting")
  /\ UNCHANGED <<store, service, args, held, ctx, pipe>>

(* ... and await, for as long as it takes.                                 *)
AwaitAborted(c) ==
  /\ pc[c] = "aborting"
  /\ WaitReturns(c)
  /\ Go(c, "returned")
  /\ UNCHANGED <<store, service, args, held, ctx, proc, pipe>>

(* Mutant: the lock is not waited for.                                     *)
RegisterUnlocked(c) ==
  /\ pc[c] = "recorded"
  /\ running[srv[c]][plan[c]] = NoCall
  /\ running' = [running EXCEPT ![srv[c]][plan[c]] = c]
  /\ Go(c, "waiting")
  /\ UNCHANGED <<store, status, seen, lock, args, held, ctx, proc, pipe>>

(* Under Service.mu.  Only now can Close, cancel or a snapshot see the run. *)
Register(c) ==
  LET s == srv[c]
      p == plan[c]
  IN  /\ pc[c] = "recorded"
      /\ lock[s] = "free"
      /\ IF running[s][p] = NoCall
           THEN /\ running' = [running EXCEPT ![s][p] = c]
                /\ Go(c, "waiting")
                /\ UNCHANGED proc
           ELSE /\ proc' \in Kill(c)
                /\ Go(c, "returned")
                /\ UNCHANGED running
      /\ UNCHANGED <<store, status, seen, lock, args, held, ctx, pipe>>

-----------------------------------------------------------------------------
(* The operating system and the timer.                                     *)
ProcessExits(c) ==
  /\ proc[c] = "alive"
  /\ \E result \in {"ok", "bad"} : proc' = [proc EXCEPT ![c] = result]
  /\ UNCHANGED <<store, service, args, pc, held, ctx, pipe>>

(* The last process that inherited the output closes it.                   *)
PipeCloses(c) ==
  /\ proc[c] \notin {"none", "alive"}
  /\ pipe[c]
  /\ pipe' = [pipe EXCEPT ![c] = FALSE]
  /\ UNCHANGED <<store, service, args, pc, held, ctx, proc>>

(* Mutant: the timer is stopped once the run is recorded.                  *)
TimeoutOfStart(c) ==
  /\ pc[c] \in {"streams", "started"}
  /\ ctx[c] = "live"
  /\ ctx' = [ctx EXCEPT ![c] = "deadline"]
  /\ UNCHANGED <<store, service, args, pc, held, proc, pipe>>

Timeout(c) ==
  /\ pc[c] \in {"streams", "started", "recorded", "waiting"}
  /\ ctx[c] = "live"
  /\ ctx' = [ctx EXCEPT ![c] = "deadline"]
  /\ UNCHANGED <<store, service, args, pc, held, proc, pipe>>

(* run_inspect(action=cancel) finds the run in Service.running.            *)
Cancel(s, p) ==
  LET c == running[s][p]
  IN  /\ status[s] = "up"
      /\ lock[s] = "free"
      /\ c # NoCall
      /\ ctx[c] = "live"
      /\ ctx' = [ctx EXCEPT ![c] = "cancelled"]
      /\ UNCHANGED <<store, service, args, pc, held, proc, pipe>>

(* Mutant: the exit code is not looked at.                                 *)
ReapAnyExit(c) ==
  /\ pc[c] = "waiting"
  /\ proc[c] \in {"ok", "bad"}
  /\ WaitReturns(c)
  /\ Go(c, "completed")
  /\ UNCHANGED <<store, service, args, held, ctx, proc, pipe>>

(* waitForRun: Wait returned ...                                           *)
ReapExit(c) ==
  /\ pc[c] = "waiting"
  /\ proc[c] \in {"ok", "bad"}
  /\ WaitReturns(c)
  /\ Go(c, IF proc[c] = "ok" THEN "completed" ELSE "failed")
  /\ UNCHANGED <<store, service, args, held, ctx, proc, pipe>>

(* ... or runContext was done, and the process is killed ...  Both may be:  *)
(* select then picks either.                                               *)
KillRun(c) ==
  /\ pc[c] = "waiting"
  /\ ctx[c] # "live"
  /\ proc' \in Kill(c)
  /\ Go(c, "awaiting")
  /\ UNCHANGED <<store, service, args, held, ctx, pipe>>

(* Mutant: the killed process is not awaited.                              *)
SettleKilled(c) ==
  /\ pc[c] = "awaiting"
  /\ Go(c, IF ctx[c] = "deadline" THEN "timed_out" ELSE "cancelled")
  /\ UNCHANGED <<store, service, args, held, ctx, proc, pipe>>

(* ... and awaited, for as long as it takes.                               *)
ReapKilled(c) ==
  /\ pc[c] = "awaiting"
  /\ WaitReturns(c)
  /\ Go(c, IF ctx[c] = "deadline" THEN "timed_out" ELSE "cancelled")
  /\ UNCHANGED <<store, service, args, held, ctx, proc, pipe>>

(* The receipt's last update; an error of it is ignored.                   *)
RecordOutcome(c) ==
  /\ pc[c] \in Concluded
  /\ rec' = IF Matches(plan[c], held[c]) THEN Written(plan[c], pc[c]) ELSE rec
  /\ Go(c, "finished")
  /\ UNCHANGED <<mode, stdoutLog, service, args, held, ctx, proc, pipe>>

Unregister(c) ==
  /\ pc[c] = "finished"
  /\ lock[srv[c]] = "free"
  /\ running' = [running EXCEPT ![srv[c]][plan[c]] = NoCall]
  /\ Go(c, "done")
  /\ UNCHANGED <<store, status, seen, lock, args, held, ctx, proc, pipe>>

-----------------------------------------------------------------------------
(* executeCacheHit: never takes Service.mu and never enters s.running.     *)
BeginMaterialize(c) ==
  /\ pc[c] = "loaded"
  /\ mode[plan[c]] = "reuse"
  /\ Matches(plan[c], held[c])
  /\ rec' = Written(plan[c], "materializing")
  /\ held' = [held EXCEPT ![c] = @ + 1]
  /\ Go(c, "materializing")
  /\ UNCHANGED <<mode, stdoutLog, service, args, ctx, proc, pipe>>

(* Outputs restored and recorded, or a copy failed and was rolled back.    *)
EndMaterialize(c) ==
  /\ pc[c] = "materializing"
  /\ Matches(plan[c], held[c])
  /\ \E s \in {"reused", "failed"} : rec' = Written(plan[c], s)
  /\ Go(c, "returned")
  /\ UNCHANGED <<mode, stdoutLog, service, args, held, ctx, proc, pipe>>

(* The outputs could not be listed, or the update failed: no record change. *)
AbandonMaterialize(c) ==
  /\ pc[c] = "materializing"
  /\ Go(c, "returned")
  /\ UNCHANGED <<store, service, args, held, ctx, proc, pipe>>

-----------------------------------------------------------------------------
(* Mutant: the lock alone is taken for idleness.                           *)
LockAnyway(s, holder) ==
  /\ status[s] = "up"
  /\ lock[s] = "free"
  /\ lock' = [lock EXCEPT ![s] = holder]
  /\ UNCHANGED <<store, status, seen, running, args, local>>

(* BeginMemorySnapshot locks Service.mu and keeps it if nothing is running. *)
LockIdle(s, holder) ==
  /\ status[s] = "up"
  /\ lock[s] = "free"
  /\ \A p \in Plans : running[s][p] = NoCall
  /\ lock' = [lock EXCEPT ![s] = holder]
  /\ UNCHANGED <<store, status, seen, running, args, local>>

BeginSnapshot(s) == LockIdle(s, "memory")

EndSnapshot(s) ==
  /\ lock[s] = "memory"
  /\ lock' = [lock EXCEPT ![s] = "free"]
  /\ UNCHANGED <<store, status, seen, running, args, local>>

(* Closing a service cancels the runs it has registered.                   *)
Cancelled(s) ==
  [c \in Calls |-> IF \E p \in Plans : running[s][p] = c /\ ctx[c] = "live"
                     THEN "cancelled" ELSE ctx[c]]

(* Application.Close waits for a switch, then for every handler.           *)
Close(s) ==
  /\ status[s] = "up"
  /\ lock[s] = "free"
  /\ \A t \in Peers(s) : status[t] = "down"
  /\ \A c \in Mine(s) : pc[c] \notin Handler
  /\ status' = [status EXCEPT ![s] = "closing"]
  /\ ctx' = Cancelled(s)
  /\ UNCHANGED <<store, seen, running, lock, args, pc, held, proc, pipe>>

(* Services end: their goroutines are gone, or cut off from the closed     *)
(* database; the processes they started are not taken along.               *)
Gone(S) ==
  /\ status'  = [s \in Services |-> IF s \in S THEN "down" ELSE status[s]]
  /\ seen'    = [s \in Services |->
                   IF s \in S THEN [p \in Plans |-> 0] ELSE seen[s]]
  /\ running' = [s \in Services |->
                   IF s \in S THEN [p \in Plans |-> NoCall] ELSE running[s]]
  /\ lock'    = [s \in Services |-> IF s \in S THEN "free" ELSE lock[s]]
  /\ pc' = [c \in Calls |->
             IF srv[c] \in S /\ pc[c] \in Handler \union Waiter
               THEN "dead" ELSE pc[c]]
  /\ UNCHANGED <<store, args, held, ctx, proc, pipe>>

(* Close saw every goroutine end, or its ten seconds passed.               *)
Stop(s) == status[s] = "closing" /\ Gone({s})

(* The server process dies with all it holds.                              *)
Crash(S) == (\E s \in S : status[s] # "down") /\ Gone(S)

(* The runs that a service finds open when it queries the records.         *)
OpenRuns ==
  [p \in Plans |-> IF rec[p].state \in Owned THEN rec[p].rev ELSE 0]

(* Mutant: Recover beside a service that nothing keeps from registering.   *)
OpenBeside(s) ==
  /\ status[s] = "down"
  /\ status' = [status EXCEPT ![s] = "recovering"]
  /\ seen' = [seen EXCEPT ![s] = OpenRuns]
  /\ UNCHANGED <<store, running, lock, args, local>>

(* Mutant: every run that is not terminal is marked, prepared ones too.    *)
OpenMarksPrepared(s) ==
  /\ status[s] = "down"
  /\ status' = [status EXCEPT ![s] = "recovering"]
  /\ seen' = [seen EXCEPT ![s] =
               [p \in Plans |->
                 IF rec[p].state \notin Terminal THEN rec[p].rev ELSE 0]]
  /\ UNCHANGED <<store, running, lock, args, local>>

(* Recover, when a server starts or builds the bundle it will switch to,   *)
(* queries the run records once ...                                        *)
Open(s) ==
  /\ status[s] = "down"
  /\ \A t \in Peers(s) : status[t] = "down" \/ Frozen(t)
  /\ status' = [status EXCEPT ![s] = "recovering"]
  /\ seen' = [seen EXCEPT ![s] = OpenRuns]
  /\ UNCHANGED <<store, running, lock, args, local>>

(* ... then marks each one it saw running or materializing ...             *)
RecoverRun(s, p) ==
  /\ status[s] = "recovering"
  /\ seen[s][p] # 0
  /\ Matches(p, seen[s][p])
  /\ rec' = Written(p, "interrupted")
  /\ seen' = [seen EXCEPT ![s][p] = 0]
  /\ UNCHANGED <<mode, stdoutLog, status, running, lock, args, local>>

(* ... and fails if one changed meanwhile, or on any other error: the      *)
(* server does not start.  (AbandonSwitch is the failure within a switch.) *)
StartupFails(s) ==
  /\ status[s] = "recovering"
  /\ \A t \in Peers(s) : status[t] = "down"
  /\ Gone({s})

(* The bundle is built: it serves, or waits for the one in use.            *)
Serve(s) ==
  /\ status[s] = "recovering"
  /\ \A p \in Plans : seen[s][p] = 0
  /\ status' = [status EXCEPT ![s] =
                 IF \A t \in Peers(s) : status[t] = "down" THEN "up" ELSE "ready"]
  /\ UNCHANGED <<store, seen, running, lock, args, local>>

-----------------------------------------------------------------------------
(* switchBundleLocked, under Application.mu: the Runner in use is frozen,   *)
(* or the switch refused because a run is registered.                      *)
BeginSwitch(s) ==
  /\ \A t \in Peers(s) : status[t] = "down"
  /\ LockIdle(s, "switch")

(* The build failed, before or in Recover or behind it, or the listener    *)
(* for HTTP could not be stopped: the Runner in use goes on.               *)
AbandonSwitch(s) ==
  /\ Frozen(s)
  /\ lock' = [lock EXCEPT ![s] = "free"]
  /\ status' = [t \in Services |->
                 IF t \in Peers(s) THEN "down" ELSE status[t]]
  /\ seen' = [t \in Services |->
               IF t \in Peers(s) THEN [p \in Plans |-> 0] ELSE seen[t]]
  /\ UNCHANGED <<store, running, args, local>>

(* router.swap waits for every handler of the bundle in use.               *)
Swap(s, t) ==
  /\ Frozen(s)
  /\ t \in Peers(s)
  /\ status[t] = "ready"
  /\ \A c \in Mine(s) : pc[c] \notin Handler
  /\ status' = [status EXCEPT ![s] = "aside", ![t] = "up"]
  /\ UNCHANGED <<store, seen, running, lock, args, local>>

(* The old bundle is unlocked and closed; it has nothing to wait for.      *)
FinishSwitch(s) ==
  /\ status[s] = "aside"
  /\ status' = [status EXCEPT ![s] = "down"]
  /\ lock' = [lock EXCEPT ![s] = "free"]
  /\ UNCHANGED <<store, seen, running, args, local>>

(* The HTTP listener did not start: the old bundle is swapped back, and    *)
(* the new one closed with the runs it may have started meanwhile.         *)
RollBack(s, t) ==
  /\ status[s] = "aside"
  /\ t \in Peers(s)
  /\ status[t] = "up"
  /\ lock[t] = "free"
  /\ \A c \in Mine(t) : pc[c] \notin Handler
  /\ status' = [status EXCEPT ![s] = "up", ![t] = "closing"]
  /\ lock' = [lock EXCEPT ![s] = "free"]
  /\ ctx' = Cancelled(t)
  /\ UNCHANGED <<store, seen, running, args, pc, held, proc, pipe>>

-----------------------------------------------------------------------------
CallStep(c) ==
  \/ Load(c)
  \/ GiveUp(c)
  \/ CreateStdout(c)
  \/ CreateStderr(c)
  \/ StartProcess(c)
  \/ StartFails(c)
  \/ RecordRunning(c)
  \/ AbortStart(c)
  \/ AwaitAborted(c)
  \/ Register(c)
  \/ ProcessExits(c)
  \/ PipeCloses(c)
  \/ Timeout(c)
  \/ ReapExit(c)
  \/ KillRun(c)
  \/ ReapKilled(c)
  \/ RecordOutcome(c)
  \/ Unregister(c)
  \/ BeginMaterialize(c)
  \/ EndMaterialize(c)
  \/ AbandonMaterialize(c)

ServiceStep(s) ==
  \/ BeginSnapshot(s)
  \/ EndSnapshot(s)
  \/ Close(s)
  \/ Stop(s)
  \/ Open(s)
  \/ StartupFails(s)
  \/ Serve(s)
  \/ BeginSwitch(s)
  \/ AbandonSwitch(s)
  \/ FinishSwitch(s)

PairStep(s, t) ==
  \/ Swap(s, t)
  \/ RollBack(s, t)

PlanStep(s, p) ==
  \/ Prepare(s, p)
  \/ Cancel(s, p)
  \/ RecoverRun(s, p)

Next ==
  \/ \E c \in Calls : CallStep(c)
  \/ \E s \in Services : ServiceStep(s)
  \/ \E s, t \in Services : PairStep(s, t)
  \/ \E s \in Services, p \in Plans : PlanStep(s, p)
  \/ \E S \in Servers : Crash(S)

Spec == Init /\ [][Next]_vars

(***************************************************************************)
(* Fairness.  Every step of a handler or goroutine is taken by a runnable  *)
(* goroutine, and the run timer fires.  Register and Unregister compete    *)
(* for Service.mu, which Go hands to a waiter that starves, hence SF; but  *)
(* nothing is assumed of who keeps the lock.  Nor of clients, of the       *)
(* processes a run started, or of anyone restarting a server.              *)
(***************************************************************************)
Fairness ==
  \A c \in Calls :
    /\ WF_vars(CreateStdout(c) \/ BeginMaterialize(c) \/ GiveUp(c))
    /\ WF_vars(CreateStderr(c))
    /\ WF_vars(StartProcess(c) \/ StartFails(c))
    /\ WF_vars(RecordRunning(c) \/ AbortStart(c))
    /\ WF_vars(AwaitAborted(c))
    /\ SF_vars(Register(c))
    /\ WF_vars(Timeout(c))
    /\ WF_vars(ReapExit(c) \/ KillRun(c))
    /\ WF_vars(ReapKilled(c))
    /\ WF_vars(RecordOutcome(c))
    /\ SF_vars(Unregister(c))
    /\ WF_vars(EndMaterialize(c) \/ AbandonMaterialize(c))

FairSpec == Spec /\ Fairness

-----------------------------------------------------------------------------
(* Type invariant: every variable has the values the code can give it; the *)
(* record revision of a run never passes 3.                                *)
TypeOK ==
  /\ rec       \in [Plans -> [state : States, rev : 0 .. 3]]
  /\ mode      \in [Plans -> Modes]
  /\ stdoutLog \in [Plans -> Calls \union {NoCall}]
  /\ status    \in [Services -> {"down", "recovering", "ready", "up", "aside",
                             "closing"}]
  /\ seen      \in [Services -> [Plans -> 0 .. 3]]
  /\ running   \in [Services -> [Plans -> Calls \union {NoCall}]]
  /\ lock      \in [Services -> {"free", "memory", "switch"}]
  /\ srv       \in [Calls -> Services]
  /\ plan      \in [Calls -> Plans]
  /\ pc        \in [Calls -> PCs]
  /\ held      \in [Calls -> 0 .. 2]
  /\ ctx       \in [Calls -> {"live", "cancelled", "deadline"}]
  /\ proc      \in [Calls -> {"none", "alive", "ok", "bad", "killed"}]
  /\ pipe      \in [Calls -> BOOLEAN]

(* The revision stands for the state: 1 is prepared, 2 is running,         *)
(* materializing or a failed start, 3 is terminal.  Whoever compares one   *)
(* therefore writes over exactly the state it decided upon.                *)
RevisionTellsState ==
  \A p \in Plans :
    /\ rec[p].rev = 0 <=> rec[p].state = "none"
    /\ rec[p].rev = 1 <=> rec[p].state = "prepared"
    /\ rec[p].rev = 2 => rec[p].state \in Owned \union {"failed"}
    /\ rec[p].rev = 3 => rec[p].state \in Terminal

(* What a call's update will replace, if its compare-and-swap succeeds:    *)
(* the state its own earlier step left, which nothing else can restore.    *)
HeldTellsState ==
  \A c \in Calls :
    LET r == rec[plan[c]]
    IN  /\ pc[c] \in {"loaded", "stdout", "streams", "started"} =>
             held[c] = 1 /\ r.rev >= 1
        /\ pc[c] \in {"recorded"} \union Waiter =>
             held[c] = 2 /\ r.rev >= 2 /\ (r.rev = 2 => r.state = "running")
        /\ pc[c] = "materializing" =>
             held[c] = 2 /\ r.rev >= 2 /\ (r.rev = 2 => r.state = "materializing")

(* The same of a starting server's list of runs to interrupt.              *)
SeenTellsState ==
  \A s \in Services, p \in Plans :
    seen[s][p] # 0 =>
      /\ seen[s][p] = 2
      /\ rec[p].rev >= 2
      /\ rec[p].rev = 2 => rec[p].state \in Owned

UpdatesKnowState == RevisionTellsState /\ HeldTellsState /\ SeenTellsState

(* A process belongs to the call that created its plan's stdout.log.       *)
LogTellsLauncher ==
  \A c \in Calls :
    pc[c] \in {"stdout", "streams", "started", "aborting", "recorded"}
               \union Waiter
      \/ proc[c] # "none"
    => stdoutLog[plan[c]] = c

Launched(p) == {c \in Calls : plan[c] = p /\ proc[c] # "none"}

(* README.md:337 "executes the returned plan ID once": whatever calls      *)
(* race, on whatever services, across crashes and restarts, a plan starts  *)
(* at most one process.  It rests on stdout.log's exclusive creation, not  *)
(* on the record, which still says prepared when the process starts.       *)
AtMostOneLaunch ==
  \A c, d \in Calls :
    plan[c] = plan[d] /\ proc[c] # "none" /\ proc[d] # "none" => c = d

(* A receipt tells what happened to its own process: completed means it    *)
(* exited with success, timed_out and cancelled that its context ended so. *)
OutcomeHonest ==
  \A p \in Plans :
    /\ rec[p].state = "completed" => \E c \in Launched(p) : proc[c] = "ok"
    /\ rec[p].state = "timed_out" => \E c \in Launched(p) : ctx[c] = "deadline"
    /\ rec[p].state = "cancelled" => \E c \in Launched(p) : ctx[c] = "cancelled"

(* No process outlives the outcome of its plan: the goroutine awaited it   *)
(* before it wrote one.  Only "interrupted" makes no such promise.         *)
NoSurvivor ==
  \A p \in Plans :
    rec[p].state \in Terminal \ {"interrupted"} =>
      \A c \in Launched(p) : proc[c] # "alive"

(* A record says running only while a call holds its current revision and  *)
(* will still write it, or died with its server and left it to Recover.    *)
RunningIsOwned ==
  \A p \in Plans :
    rec[p].state = "running" =>
      \E c \in Calls :
        /\ plan[c] = p
        /\ held[c] = rec[p].rev
        /\ pc[c] \in {"recorded", "waiting", "awaiting", "dead"}
                     \union Concluded

(* What a client may rely on in a receipt, whatever raced and crashed: one *)
(* process behind it at most, an outcome that is that process's own, and   *)
(* no process left running behind a settled one.                           *)
ReceiptIsHonest == AtMostOneLaunch /\ OutcomeHonest /\ NoSurvivor

(* While an export or a switch keeps Service.mu no registered run's        *)
(* goroutine exists, so nothing the archive copies is being written by     *)
(* one, and none is left in a bundle that is put aside.                    *)
SnapshotExcludesRegistered ==
  \A s \in Services :
    lock[s] # "free" => \A c \in Mine(s) : pc[c] \notin Waiter

(* No run is unaccounted for: a running record has a goroutine that will   *)
(* settle it (or died), and a snapshot meets none of its own server.       *)
RunsAreOwned == RunningIsOwned /\ SnapshotExcludesRegistered

(* A terminal receipt is never rewritten: not by a late outcome after      *)
(* Recover, nor by Recover after a late outcome (compare-and-swap).        *)
TerminalIsFinal ==
  [][\A p \in Plans : rec[p].state \in Terminal => rec'[p] = rec[p]]_vars

(* execute.go:474-475 "marks runs whose process ownership was lost across  *)
(* a server restart as interrupted": no live goroutine still owns the run  *)
(* that is recorded as interrupted.  It is not so: a switch recovers       *)
(* beside the calls of its own server that are not registered.             *)
InterruptedMeansLost ==
  \A c \in Calls :
    rec[plan[c]].state = "interrupted" =>
      pc[c] \notin {"recorded", "waiting", "awaiting"} \union Concluded

(* What does hold in one server: nobody but its own goroutine settles a    *)
(* run once it is registered.  BeginMemorySnapshot lets no switch begin    *)
(* while one is (ErrBusy), and its lock lets none register until Recover   *)
(* is over.                                                                *)
RegisteredIsSpared ==
  [][\A c \in Calls :
       pc[c] \in Waiter /\ rec'[plan[c]] # rec[plan[c]] =>
         rec'[plan[c]].state = pc[c]]_vars

(* What a client and the operating system see of each plan.               *)
Receipts  == [p \in Plans |-> rec[p].state]
Processes ==
  [p \in Plans |-> IF Launched(p) = {} THEN "none"
                   ELSE IF \E c \in Launched(p) : proc[c] = "alive" THEN "alive"
                   ELSE "gone"]

(* The Runner implements RunReceipt: the receipt is the record's state and *)
(* the process is that of the one call that started one.                   *)
Receipt == INSTANCE RunReceipt WITH receipt <- Receipts, process <- Processes

ReceiptSpec == Receipt!Spec

(* What a goroutine of a run waits for and nobody can promise: that        *)
(* Service.mu comes free, again and again, and that what holds a process's *)
(* output when the process ended or was to be killed ends some time.       *)
(* RuntimeSwitch!SwitchEnds shows the first not to be so.                  *)
LocksComeFree == \A s \in Services : []<>(lock[s] = "free")

WaitsReturn ==
  \A c \in Calls :
    []<>(pc[c] \in {"aborting", "awaiting"} \/ proc[c] \in {"ok", "bad"}
           => WaitReturns(c))

(* A call that run_execute admitted comes back to its client, and the      *)
(* goroutine of a started run ends: the timeout is what bounds it.  (Or    *)
(* its service is gone.)                                                   *)
CallsEnd ==
  \A c \in Calls :
    pc[c] \in Handler \union Waiter ~> pc[c] \in {"returned", "done", "dead"}

(* A running receipt is settled, unless the service that owns it is gone.  *)
RunSettles ==
  \A c \in Calls :
    (rec[plan[c]].state = "running" /\ pc[c] \in {"recorded", "waiting"})
      ~> (rec[plan[c]].state \in Terminal \/ pc[c] = "dead")

(* Nothing is left behind, neither a client nor a goroutine nor a running  *)
(* receipt, as far as locks come free and what was killed ends.            *)
CallsSettle == LocksComeFree /\ WaitsReturn => CallsEnd /\ RunSettles
=============================================================================
