--------------------------- MODULE RuntimeSwitch ---------------------------
(***************************************************************************)
(* How a running server replaces its workspace, state directory or sources *)
(* under live tool calls (internal/application).  The router lends every   *)
(* call the current bundle of services under a read lock (serviceRouter,   *)
(* an RWMutex: a waiting writer stops new readers); runtime_config builds  *)
(* the next bundle, waits for the write lock and swaps.  It freezes the    *)
(* Runner of the bundle it replaces by holding that Runner's own mutex, the *)
(* one run_execute, run_inspect(cancel) and memory_backup take while they  *)
(* hold the read lock.                                                     *)
(*                                                                         *)
(* Bundles are reused once closed, so their number bounds nothing but how  *)
(* many exist at once.  MaxRuns bounds the runs registered in one Runner.  *)
(***************************************************************************)
EXTENDS Naturals, FiniteSets

CONSTANTS
  ReadCalls,    \* tool calls that take no mutex of the bundle's Runner
  RunCalls,     \* run_execute, run_inspect(action=cancel)
  ExportCalls,  \* memory_backup(action=export)
  HttpCalls,    \* those of the calls above that arrive over HTTP
  Bundles,      \* service bundles that may exist
  None,         \* no bundle, nobody
  Admin,        \* the runtime_config request that holds Application.mu
  MaxRuns       \* bound on the runs registered in a Runner

Callers == ReadCalls \union RunCalls \union ExportCalls

ASSUME SwitchAssumption ==
  /\ None \notin Bundles \union Callers
  /\ Admin \notin Callers \union {None}
  /\ MaxRuns \in Nat

VARIABLES
  current,    \* serviceRouter.current
  bundle,     \* each bundle: "absent", "open", or "blocked" (state overlap)
  runs,       \* number of runs in the bundle's Runner.running
  mu,         \* who holds the bundle's Runner.mu
  pc,         \* where a call is
  using,      \* the bundle a call was lent
  admin,      \* where the runtime_config request is
  old, next,  \* its local variables
  hadHTTP,    \* likewise
  settings,   \* Application.settings: the bundle they describe
  access,     \* runtimeaccess.Service.root: the bundle it belongs to
  http        \* the bundle the HTTP listener was started for, None if off

callVars  == <<pc, using>>
adminVars == <<admin, old, next, hadHTTP>>
appVars   == <<settings, access, http>>
vars      == <<current, bundle, runs, mu, callVars, adminVars, appVars>>

-----------------------------------------------------------------------------
(* The admin request waits for the write lock in these places.             *)
Writing == {"swap", "swapBack", "shut"}

(* A call with the read lock is in one of these.                           *)
Inside == {"inside", "locking", "copying"}

NoReader == \A c \in Callers : pc[c] \notin Inside

Go(c, label) == pc' = [pc EXCEPT ![c] = label]

Init ==
  \E b \in Bundles, state \in {"open", "blocked"} :
    /\ current  = b
    /\ bundle   = [x \in Bundles |-> IF x = b THEN state ELSE "absent"]
    /\ runs     = [x \in Bundles |-> 0]
    /\ mu       = [x \in Bundles |-> None]
    /\ pc       = [c \in Callers |-> "idle"]
    /\ using    = [c \in Callers |-> None]
    /\ admin    = "idle"
    /\ old      = None
    /\ next     = None
    /\ hadHTTP  = FALSE
    /\ settings = b
    /\ access   = b
    /\ http     = None

-----------------------------------------------------------------------------
(* A tool call.                                                            *)

Call(c) ==
  /\ pc[c] = "idle"
  /\ c \in HttpCalls => http # None
  /\ Go(c, "entering")
  /\ UNCHANGED <<current, bundle, runs, mu, using, adminVars, appVars>>

(* RLock, then readyLocked.                                                *)
Enter(c) ==
  /\ pc[c] = "entering"
  /\ admin \notin Writing
  /\ IF current = None \/ bundle[current] = "blocked"
       THEN Go(c, "idle") /\ UNCHANGED using
       ELSE Go(c, "inside") /\ using' = [using EXCEPT ![c] = current]
  /\ UNCHANGED <<current, bundle, runs, mu, adminVars, appVars>>

(* Refused, or finished without Runner.mu.                                 *)
Leave(c) ==
  /\ pc[c] = "inside"
  /\ Go(c, "idle")
  /\ UNCHANGED <<current, bundle, runs, mu, using, adminVars, appVars>>

(* A process was started and must be registered, a cancellation looks the  *)
(* run up, an export calls BeginMemorySnapshot: all take Runner.mu.        *)
Want(c) ==
  /\ pc[c] = "inside"
  /\ c \notin ReadCalls
  /\ Go(c, "locking")
  /\ UNCHANGED <<current, bundle, runs, mu, using, adminVars, appVars>>

LockRun(c) ==
  LET b == using[c]
  IN  /\ pc[c] = "locking"
      /\ c \in RunCalls
      /\ mu[b] = None
      /\ \E n \in {runs[b], runs[b] + 1} \intersect 0 .. MaxRuns :
           runs' = [runs EXCEPT ![b] = n]
      /\ Go(c, "idle")
      /\ UNCHANGED <<current, bundle, mu, using, adminVars, appVars>>

(* Mutants, here and below: no specification uses them.  This one: the     *)
(* lock alone is taken for idleness.                                       *)
LockExportUnchecked(c) ==
  LET b == using[c]
  IN  /\ pc[c] = "locking"
      /\ c \in ExportCalls
      /\ mu[b] = None
      /\ mu' = [mu EXCEPT ![b] = c]
      /\ Go(c, "copying")
      /\ UNCHANGED <<current, bundle, runs, using, adminVars, appVars>>

LockExport(c) ==
  LET b == using[c]
  IN  /\ pc[c] = "locking"
      /\ c \in ExportCalls
      /\ mu[b] = None
      /\ IF runs[b] = 0
           THEN Go(c, "copying") /\ mu' = [mu EXCEPT ![b] = c]
           ELSE Go(c, "idle") /\ UNCHANGED mu
      /\ UNCHANGED <<current, bundle, runs, using, adminVars, appVars>>

EndExport(c) ==
  /\ pc[c] = "copying"
  /\ mu' = [mu EXCEPT ![using[c]] = None]
  /\ Go(c, "idle")
  /\ UNCHANGED <<current, bundle, runs, using, adminVars, appVars>>

(* Mutant: a run is removed twice.                                         *)
RunEndsTwice(b) ==
  /\ mu[b] = None
  /\ runs' = [runs EXCEPT ![b] = @ - 1]
  /\ UNCHANGED <<current, bundle, mu, callVars, adminVars, appVars>>

(* waitForRun removes a finished run under Runner.mu.                      *)
RunEnds(b) ==
  /\ runs[b] > 0
  /\ mu[b] = None
  /\ runs' = [runs EXCEPT ![b] = @ - 1]
  /\ UNCHANGED <<current, bundle, mu, callVars, adminVars, appVars>>

-----------------------------------------------------------------------------
(* A runtime_config request; Application.mu admits one at a time.          *)

(* switchBundleLocked reads the current bundle under the read lock, which  *)
(* it keeps until BeginMemorySnapshot returned.                            *)
BeginSwitch ==
  /\ admin = "idle"
  /\ old' = current
  /\ admin' = IF bundle[current] = "blocked" THEN "build" ELSE "probe"
  /\ UNCHANGED <<current, bundle, runs, mu, callVars, next, hadHTTP, appVars>>

(* Mutant: the lock alone is taken for idleness.                           *)
ProbeUnchecked ==
  /\ admin = "probe"
  /\ mu[old] = None
  /\ admin' = "build"
  /\ mu' = [mu EXCEPT ![old] = Admin]
  /\ UNCHANGED <<current, bundle, runs, callVars, old, next, hadHTTP, appVars>>

(* BeginMemorySnapshot: ErrBusy if a run is registered, else keep the lock. *)
Probe ==
  /\ admin = "probe"
  /\ mu[old] = None
  /\ IF runs[old] = 0
       THEN admin' = "build" /\ mu' = [mu EXCEPT ![old] = Admin]
       ELSE admin' = "idle" /\ UNCHANGED mu
  /\ UNCHANGED <<current, bundle, runs, callVars, old, next, hadHTTP, appVars>>

Released(b) == [mu EXCEPT ![b] = IF @ = Admin THEN None ELSE @]

(* Mutant: the error path does not release the old Runner.                 *)
BuildFailsFrozen ==
  /\ admin = "build"
  /\ admin' = "idle"
  /\ UNCHANGED <<current, bundle, runs, mu, callVars, old, next, hadHTTP,
                 appVars>>

BuildFails ==
  /\ admin = "build"
  /\ admin' = "idle"
  /\ mu' = Released(old)
  /\ UNCHANGED <<current, bundle, runs, callVars, old, next, hadHTTP, appVars>>

Build(b) ==
  /\ admin = "build"
  /\ bundle[b] = "absent"
  /\ bundle' = [bundle EXCEPT ![b] = "open"]
  /\ next' = b
  /\ hadHTTP' = (http # None)
  /\ admin' = IF http # None THEN "stopHTTP" ELSE "swap"
  /\ UNCHANGED <<current, runs, mu, callVars, old, appVars>>

(* Runner.Close cancels what is registered and waits for it; then the      *)
(* databases are closed.  A blocked bundle has nothing to close.           *)
Close(b) ==
  /\ bundle' = [bundle EXCEPT ![b] = "absent"]
  /\ runs'   = [runs EXCEPT ![b] = 0]

(* http.Server.Shutdown returns once no request is in flight ...           *)
StopHTTP ==
  /\ admin = "stopHTTP"
  /\ \A c \in HttpCalls : pc[c] = "idle"
  /\ http' = None
  /\ admin' = "swap"
  /\ UNCHANGED <<current, bundle, runs, mu, callVars, old, next, hadHTTP,
                 settings, access>>

(* ... or its timeout passed: the switch fails, with HTTP off.             *)
StopHTTPTimesOut ==
  /\ admin = "stopHTTP"
  /\ http' = None
  /\ mu' = Released(old)
  /\ Close(next)
  /\ admin' = "idle"
  /\ UNCHANGED <<current, callVars, old, next, hadHTTP, settings, access>>

(* router.swap, a.settings, RebindRoot.                                    *)
Install(b) ==
  /\ current'  = b
  /\ settings' = b
  /\ access'   = b

(* Mutant: the pointer is replaced without the write lock.                 *)
SwapUnlocked ==
  /\ admin = "swap"
  /\ Install(next)
  /\ admin' = IF hadHTTP THEN "startHTTP" ELSE "finish"
  /\ UNCHANGED <<bundle, runs, mu, callVars, old, next, hadHTTP, http>>

Swap ==
  /\ admin = "swap"
  /\ NoReader
  /\ Install(next)
  /\ admin' = IF hadHTTP THEN "startHTTP" ELSE "finish"
  /\ UNCHANGED <<bundle, runs, mu, callVars, old, next, hadHTTP, http>>

StartHTTP ==
  /\ admin = "startHTTP"
  /\ http' = current
  /\ admin' = "finish"
  /\ UNCHANGED <<current, bundle, runs, mu, callVars, old, next, hadHTTP,
                 settings, access>>

StartHTTPFails ==
  /\ admin = "startHTTP"
  /\ admin' = "swapBack"
  /\ UNCHANGED <<current, bundle, runs, mu, callVars, old, next, hadHTTP,
                 appVars>>

SwapBack ==
  /\ admin = "swapBack"
  /\ NoReader
  /\ Install(old)
  /\ admin' = "undo"
  /\ UNCHANGED <<bundle, runs, mu, callVars, old, next, hadHTTP, http>>

(* release, next.close, and HTTP started again if that works.              *)
Undo ==
  /\ admin = "undo"
  /\ mu' = Released(old)
  /\ Close(next)
  /\ http' \in {None, current}
  /\ admin' = "idle"
  /\ UNCHANGED <<current, callVars, old, next, hadHTTP, settings, access>>

(* release, old.close.                                                     *)
Finish ==
  /\ admin = "finish"
  /\ mu' = Released(old)
  /\ Close(old)
  /\ admin' = "idle"
  /\ UNCHANGED <<current, callVars, old, next, hadHTTP, appVars>>

(* configureHTTPLocked: start, or stop and start, or stop.                 *)
ConfigureHTTP ==
  /\ admin = "idle"
  /\ bundle[current] # "blocked"
  /\ http' \in {None, current}
  /\ UNCHANGED <<current, bundle, runs, mu, callVars, adminVars, settings,
                 access>>

(* Application.Close, from main once no more requests are read.            *)
BeginShutdown ==
  /\ admin = "idle"
  /\ admin' = "shut"
  /\ http' = None
  /\ UNCHANGED <<current, bundle, runs, mu, callVars, old, next, hadHTTP,
                 settings, access>>

Shutdown ==
  /\ admin = "shut"
  /\ NoReader
  /\ current' = None
  /\ Close(current)
  /\ admin' = "down"
  /\ UNCHANGED <<mu, callVars, old, next, hadHTTP, appVars>>

-----------------------------------------------------------------------------
CallStep(c) ==
  \/ Call(c)
  \/ Enter(c)
  \/ Leave(c)
  \/ Want(c)
  \/ LockRun(c)
  \/ LockExport(c)
  \/ EndExport(c)

AdminStep ==
  \/ BeginSwitch
  \/ Probe
  \/ BuildFails
  \/ \E b \in Bundles : Build(b)
  \/ StopHTTP
  \/ StopHTTPTimesOut
  \/ Swap
  \/ StartHTTP
  \/ StartHTTPFails
  \/ SwapBack
  \/ Undo
  \/ Finish
  \/ ConfigureHTTP
  \/ BeginShutdown
  \/ Shutdown

Next ==
  \/ \E c \in Callers : CallStep(c)
  \/ \E b \in Bundles : RunEnds(b)
  \/ AdminStep

Spec == Init /\ [][Next]_vars

(***************************************************************************)
(* Fairness.  Goroutines that can run do run; a mutex or read lock is not  *)
(* withheld for ever from one who waits for it (Go's starvation mode, and  *)
(* an unlocking writer admits the readers that queued), hence SF; the run  *)
(* timeout bounds a process and the HTTP shutdown is given ten seconds.    *)
(* Nothing obliges a client to send anything.                              *)
(***************************************************************************)
Fairness ==
  /\ \A c \in Callers :
       /\ SF_vars(Enter(c))
       /\ WF_vars(Leave(c) \/ Want(c))
       /\ SF_vars(LockRun(c) \/ LockExport(c))
       /\ WF_vars(EndExport(c))
  /\ \A b \in Bundles : SF_vars(RunEnds(b))
  /\ SF_vars(Probe)
  /\ WF_vars(BuildFails \/ \E b \in Bundles : Build(b))
  /\ WF_vars(StopHTTP \/ StopHTTPTimesOut)
  /\ WF_vars(Swap)
  /\ WF_vars(StartHTTP \/ StartHTTPFails)
  /\ WF_vars(SwapBack)
  /\ WF_vars(Undo)
  /\ WF_vars(Finish)
  /\ WF_vars(Shutdown)

FairSpec == Spec /\ Fairness

-----------------------------------------------------------------------------
(* Type invariant: every variable has the values the code can give it.     *)
TypeOK ==
  /\ current  \in Bundles \union {None}
  /\ bundle   \in [Bundles -> {"absent", "open", "blocked"}]
  /\ runs     \in [Bundles -> 0 .. MaxRuns]
  /\ mu       \in [Bundles -> Callers \union {None, Admin}]
  /\ pc       \in [Callers -> {"idle", "entering"} \union Inside]
  /\ using    \in [Callers -> Bundles \union {None}]
  /\ admin    \in {"idle", "probe", "build", "stopHTTP", "startHTTP", "undo",
                   "finish", "down"} \union Writing
  /\ {old, next, settings, access, http} \subseteq Bundles \union {None}
  /\ hadHTTP  \in BOOLEAN

(* A call never works on services that were closed or replaced under it:   *)
(* the read lock it keeps holds the switch back.                           *)
LentBundleStays ==
  \A c \in Callers :
    pc[c] \in Inside => using[c] = current /\ bundle[using[c]] = "open"

(* Between two requests exactly one bundle exists, the one in use, its     *)
(* Runner is not left frozen, and the settings, the path grants and the    *)
(* HTTP listener all belong to it, however the last switch ended.          *)
QuiescentIsConsistent ==
  admin = "idle" =>
    /\ \A b \in Bundles : bundle[b] # "absent" <=> b = current
    /\ \A b \in Bundles : mu[b] # Admin
    /\ settings = current
    /\ access = current
    /\ http \in {current, None}

(* From the busy check to the close of the replaced bundle no run can be   *)
(* registered in it, so a switch that succeeds ends no run.                *)
ReplacedRunnerIsIdle ==
  /\ \A b \in Bundles : mu[b] = Admin => runs[b] = 0
  /\ admin = "finish" => runs[old] = 0 /\ bundle[old] # "absent"

(* memory_backup copies while no run of its Runner is registered and no    *)
(* switch is past its busy check; SECURITY.md:72.                          *)
ExportSeesIdleRunner ==
  \A c \in Callers :
    pc[c] = "copying" => mu[using[c]] = c /\ runs[using[c]] = 0

(* Whoever holds a Runner's mutex for longer than a step, the switch or an *)
(* export, found the Runner idle and finds it idle until the end.          *)
FrozenRunnerIsIdle == ReplacedRunnerIsIdle /\ ExportSeesIdleRunner

(* A runtime_config request that was admitted is answered (README.md:373   *)
(* "switch ... without waiting for a person").                             *)
SwitchEnds == admin # "idle" ~> admin \in {"idle", "down"}
=============================================================================
