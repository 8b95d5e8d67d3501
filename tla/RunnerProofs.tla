---------------------------- MODULE RunnerProofs ----------------------------
(***************************************************************************)
(* Theorems about Runner, for any numbers of services, plans and calls,    *)
(* and that it implements RunReceipt.  UpdatesKnowState makes the types    *)
(* inductive (a revision never passes 3) and the receipt's outcome final;  *)
(* LogTellsLauncher makes the launch unique.  The refinement rests on two  *)
(* more facts: the creator of stdout.log alone decides its plan's receipt  *)
(* from then on (LauncherDecides), and Service.running lists exactly the   *)
(* calls whose goroutine waits (RegistryTells).  In one server, however    *)
(* often it switches, a registered run is settled by its own goroutine.    *)
(***************************************************************************)
EXTENDS Runner, TLAPS

(* Init gives every variable a value of its type.                          *)
LEMMA InitTypes == Init => TypeOK
  BY DEF Init, TypeOK, States, Modes, PCs, Concluded, Owned, Terminal

(* Nothing is prepared, held or seen before the first step.                *)
LEMMA InitUpdates == Init => UpdatesKnowState
  BY DEF Init, UpdatesKnowState, RevisionTellsState, HeldTellsState,
         SeenTellsState, Concluded, Owned, Terminal, Waiter

-----------------------------------------------------------------------------
(* Any step of a service, of a switch or of a server's end.                *)
ServerStep ==
  \/ \E s \in Services : ServiceStep(s)
  \/ \E s, t \in Services : PairStep(s, t)
  \/ \E S \in Servers : Crash(S)

(* Such a step writes no record and starts no process: it may stop a call  *)
(* where it is, or cancel its context.                                     *)
LEMMA ServersKeepRuns ==
  ASSUME TypeOK, ServerStep
  PROVE  /\ UNCHANGED <<rec, mode, stdoutLog, srv, plan, held, proc, pipe>>
         /\ \A c \in Calls : \/ pc'[c] = pc[c]
                             \/ pc[c] \in Handler \union Waiter /\ pc'[c] = "dead"
         /\ \A c \in Calls : ctx'[c] = ctx[c] \/ ctx[c] = "live"
<1> DEFINE Goal ==
      /\ UNCHANGED <<rec, mode, stdoutLog, srv, plan, held, proc, pipe>>
      /\ \A c \in Calls : \/ pc'[c] = pc[c]
                          \/ pc[c] \in Handler \union Waiter /\ pc'[c] = "dead"
      /\ \A c \in Calls : ctx'[c] = ctx[c] \/ ctx[c] = "live"
<1> USE DEF store, service, args, local
<1>1. ASSUME NEW S, Gone(S)
      PROVE  Goal
  BY <1>1 DEF Gone
<1>2. ASSUME NEW s \in Services, ServiceStep(s)
      PROVE  Goal
  <2>1. CASE Stop(s) \/ StartupFails(s)
    BY <1>1, <2>1 DEF Stop, StartupFails
  <2>2. CASE Close(s)
    BY <2>2 DEF Close, Cancelled
  <2>3. CASE BeginSnapshot(s) \/ EndSnapshot(s) \/ Open(s) \/ Serve(s)
    BY <2>3 DEF BeginSnapshot, LockIdle, EndSnapshot, Open, Serve
  <2>4. CASE BeginSwitch(s) \/ AbandonSwitch(s) \/ FinishSwitch(s)
    BY <2>4 DEF BeginSwitch, LockIdle, AbandonSwitch, FinishSwitch
  <2> QED
    BY <1>2, <2>1, <2>2, <2>3, <2>4 DEF ServiceStep
<1>3. ASSUME NEW s \in Services, NEW t \in Services, PairStep(s, t)
      PROVE  Goal
  BY <1>3 DEF PairStep, Swap, RollBack, Cancelled
<1> QED
  BY <1>1, <1>2, <1>3 DEF ServerStep, Crash

-----------------------------------------------------------------------------
(* A server's end forgets its volatile state and stops its calls.          *)
LEMMA GoneTypes ==
  ASSUME TypeOK, NEW S, Gone(S)
  PROVE  TypeOK'
<1> USE DEF TypeOK, Gone
<1>1. pc' \in [Calls -> PCs]
  BY DEF PCs
<1>2. /\ status' \in [Services -> {"down", "recovering", "ready", "up", "aside",
                                  "closing"}]
      /\ lock' \in [Services -> {"free", "memory", "switch"}]
  OBVIOUS
<1>3. /\ seen' \in [Services -> [Plans -> 0 .. 3]]
      /\ running' \in [Services -> [Plans -> Calls \union {NoCall}]]
  OBVIOUS
<1> QED
  BY <1>1, <1>2, <1>3 DEF store, args

(* Whether or not the signal arrives, only this process can be killed.     *)
LEMMA KillKeeps ==
  ASSUME TypeOK, NEW c \in Calls, proc' \in Kill(c)
  PROVE  /\ proc' \in [Calls -> {"none", "alive", "ok", "bad", "killed"}]
         /\ \A d \in Calls :
              \/ proc'[d] = proc[d]
              \/ d = c /\ proc[d] = "alive" /\ proc'[d] = "killed"
<1>1. CASE proc' = proc
  BY <1>1 DEF TypeOK
<1>2. CASE proc' = [proc EXCEPT ![c] = IF @ = "alive" THEN "killed" ELSE @]
  BY <1>2 DEF TypeOK
<1> QED
  BY <1>1, <1>2 DEF Kill

(* Every action keeps every variable within its type.                      *)
LEMMA NextTypes ==
  ASSUME TypeOK, UpdatesKnowState, [Next]_vars
  PROVE  TypeOK'
<1> USE DEF TypeOK, Go, Written, Matches, store, service, args, local,
            vars
<1> USE DEF States, Concluded, Owned, Terminal, PCs, Handler, Waiter, Modes
<1>1. ASSUME NEW c \in Calls, CallStep(c)
      PROVE  TypeOK'
  <2>1. CASE Load(c)
    BY <2>1 DEF Load
  <2>2. CASE GiveUp(c)
    BY <2>2 DEF GiveUp
  <2>3. CASE CreateStdout(c)
    BY <2>3 DEF CreateStdout
  <2>4. CASE CreateStderr(c)
    BY <2>4 DEF CreateStderr
  <2>5. CASE StartProcess(c)
    BY <2>5 DEF StartProcess
  <2>6. CASE StartFails(c)
    <3>1. CASE Matches(plan[c], held[c])
      BY <2>6, <3>1 DEF StartFails, UpdatesKnowState, HeldTellsState
    <3>2. CASE ~ Matches(plan[c], held[c])
      BY <2>6, <3>2 DEF StartFails
    <3> QED
      BY <3>1, <3>2
  <2>7. CASE RecordRunning(c)
    BY <2>7 DEF RecordRunning, UpdatesKnowState, HeldTellsState
  <2>8. CASE AbortStart(c)
    BY <2>8, KillKeeps DEF AbortStart
  <2>9. CASE Register(c)
    <3>1. CASE running[srv[c]][plan[c]] = NoCall
      <4>1. /\ running' = [running EXCEPT ![srv[c]][plan[c]] = c]
            /\ pc' = [pc EXCEPT ![c] = "waiting"]
            /\ UNCHANGED <<store, status, seen, lock, args, held, ctx,
                          proc, pipe>>
        BY <2>9, <3>1 DEF Register
      <4> QED
        BY <4>1
    <3>2. CASE running[srv[c]][plan[c]] # NoCall
      <4>1. /\ proc' \in Kill(c)
            /\ pc' = [pc EXCEPT ![c] = "returned"]
            /\ UNCHANGED <<store, service, args, held, ctx, pipe>>
        BY <2>9, <3>2 DEF Register
      <4>2. proc' \in [Calls -> {"none", "alive", "ok", "bad", "killed"}]
        BY <4>1, KillKeeps
      <4> QED
        BY <4>1, <4>2
    <3> QED
      BY <3>1, <3>2
  <2>10. CASE ProcessExits(c)
    BY <2>10 DEF ProcessExits
  <2>11. CASE Timeout(c)
    BY <2>11 DEF Timeout
  <2>12. CASE ReapExit(c)
    BY <2>12 DEF ReapExit
  <2>13. CASE KillRun(c)
    BY <2>13, KillKeeps DEF KillRun
  <2>14. CASE RecordOutcome(c)
    BY <2>14 DEF RecordOutcome, UpdatesKnowState, HeldTellsState
  <2>15. CASE Unregister(c)
    BY <2>15 DEF Unregister
  <2>16. CASE BeginMaterialize(c)
    BY <2>16 DEF BeginMaterialize, UpdatesKnowState, HeldTellsState
  <2>17. CASE EndMaterialize(c)
    BY <2>17 DEF EndMaterialize, UpdatesKnowState, HeldTellsState
  <2>18. CASE AbandonMaterialize(c)
    BY <2>18 DEF AbandonMaterialize
  <2>19. CASE AwaitAborted(c)
    BY <2>19 DEF AwaitAborted
  <2>20. CASE PipeCloses(c)
    BY <2>20 DEF PipeCloses
  <2>21. CASE ReapKilled(c)
    BY <2>21 DEF ReapKilled
  <2> QED
    BY <1>1, <2>1, <2>2, <2>3, <2>4, <2>5, <2>6, <2>7, <2>8, <2>9, <2>10,
       <2>11, <2>12, <2>13, <2>14, <2>15, <2>16, <2>17, <2>18, <2>19, <2>20,
       <2>21 DEF CallStep
<1>2. ASSUME NEW s \in Services, ServiceStep(s)
      PROVE  TypeOK'
  <2>1. CASE BeginSnapshot(s)
    BY <2>1 DEF BeginSnapshot, LockIdle
  <2>2. CASE EndSnapshot(s)
    BY <2>2 DEF EndSnapshot
  <2>3. CASE Close(s)
    BY <2>3 DEF Close, Cancelled
  <2>4. CASE Stop(s) \/ StartupFails(s)
    BY <2>4, GoneTypes DEF Stop, StartupFails
  <2>5. CASE Open(s)
    BY <2>5 DEF Open, OpenRuns
  <2>6. CASE Serve(s)
    BY <2>6 DEF Serve
  <2>7. CASE BeginSwitch(s)
    BY <2>7 DEF BeginSwitch, LockIdle
  <2>8. CASE AbandonSwitch(s)
    BY <2>8 DEF AbandonSwitch
  <2>9. CASE FinishSwitch(s)
    BY <2>9 DEF FinishSwitch
  <2> QED
    BY <1>2, <2>1, <2>2, <2>3, <2>4, <2>5, <2>6, <2>7, <2>8, <2>9 DEF ServiceStep
<1>3. ASSUME NEW s \in Services, NEW p \in Plans, PlanStep(s, p)
      PROVE  TypeOK'
  <2>1. CASE Prepare(s, p)
    BY <2>1 DEF Prepare, UpdatesKnowState, RevisionTellsState
  <2>2. CASE Cancel(s, p)
    BY <2>2 DEF Cancel
  <2>3. CASE RecoverRun(s, p)
    BY <2>3 DEF RecoverRun, UpdatesKnowState, SeenTellsState
  <2> QED
    BY <1>3, <2>1, <2>2, <2>3 DEF PlanStep
<1>4. ASSUME NEW s \in Services, NEW t \in Services, PairStep(s, t)
      PROVE  TypeOK'
  <2>1. CASE Swap(s, t)
    BY <2>1 DEF Swap
  <2>2. CASE RollBack(s, t)
    BY <2>2 DEF RollBack, Cancelled
  <2> QED
    BY <1>4, <2>1, <2>2 DEF PairStep
<1>5. ASSUME NEW S \in Servers, Crash(S)
      PROVE  TypeOK'
  BY <1>5, GoneTypes DEF Crash
<1>6. CASE UNCHANGED vars
  BY <1>6
<1> QED
  BY <1>1, <1>2, <1>3, <1>4, <1>5, <1>6 DEF Next
-----------------------------------------------------------------------------
(* Revisions only grow, so what a holder knows of one stays known.         *)
LEMMA NextUpdates ==
  ASSUME TypeOK, UpdatesKnowState, [Next]_vars
  PROVE  UpdatesKnowState'
<1> USE DEF UpdatesKnowState, RevisionTellsState, HeldTellsState,
            SeenTellsState
<1> USE DEF TypeOK, Go, Written, Matches, store, service, args, local,
            vars
<1> USE DEF Concluded, Owned, Terminal, Handler, Waiter, PCs, States
<1>1. ASSUME NEW c \in Calls, CallStep(c)
      PROVE  UpdatesKnowState'
  <2>1. CASE Load(c)
    BY <2>1 DEF Load
  <2>2. CASE GiveUp(c)
    BY <2>2 DEF GiveUp
  <2>3. CASE CreateStdout(c)
    BY <2>3 DEF CreateStdout
  <2>4. CASE CreateStderr(c)
    BY <2>4 DEF CreateStderr
  <2>5. CASE StartProcess(c)
    BY <2>5 DEF StartProcess
  <2>6. CASE StartFails(c)
    <3>1. CASE Matches(plan[c], held[c])
      BY <2>6, <3>1 DEF StartFails
    <3>2. CASE ~ Matches(plan[c], held[c])
      BY <2>6, <3>2 DEF StartFails
    <3> QED
      BY <3>1, <3>2
  <2>7. CASE RecordRunning(c)
    BY <2>7 DEF RecordRunning
  <2>8. CASE AbortStart(c)
    BY <2>8, KillKeeps DEF AbortStart
  <2>9. CASE Register(c)
    BY <2>9, KillKeeps DEF Register
  <2>10. CASE ProcessExits(c)
    BY <2>10 DEF ProcessExits
  <2>11. CASE Timeout(c)
    BY <2>11 DEF Timeout
  <2>12. CASE ReapExit(c)
    BY <2>12 DEF ReapExit
  <2>13. CASE KillRun(c)
    BY <2>13, KillKeeps DEF KillRun
  <2>14. CASE RecordOutcome(c)
    BY <2>14 DEF RecordOutcome
  <2>15. CASE Unregister(c)
    BY <2>15 DEF Unregister
  <2>16. CASE BeginMaterialize(c)
    BY <2>16 DEF BeginMaterialize
  <2>17. CASE EndMaterialize(c)
    BY <2>17 DEF EndMaterialize
  <2>18. CASE AbandonMaterialize(c)
    BY <2>18 DEF AbandonMaterialize
  <2>19. CASE AwaitAborted(c)
    BY <2>19 DEF AwaitAborted
  <2>20. CASE PipeCloses(c)
    BY <2>20 DEF PipeCloses
  <2>21. CASE ReapKilled(c)
    BY <2>21 DEF ReapKilled
  <2> QED
    BY <1>1, <2>1, <2>2, <2>3, <2>4, <2>5, <2>6, <2>7, <2>8, <2>9, <2>10,
       <2>11, <2>12, <2>13, <2>14, <2>15, <2>16, <2>17, <2>18, <2>19, <2>20,
       <2>21 DEF CallStep
<1>2. ASSUME SeenTellsState', ServerStep
      PROVE  UpdatesKnowState'
  BY <1>2, ServersKeepRuns
<1>3. ASSUME NEW S, Gone(S)
      PROVE  SeenTellsState'
  BY <1>3 DEF Gone
<1>4. ASSUME NEW s \in Services, ServiceStep(s)
      PROVE  SeenTellsState'
  <2>1. CASE Stop(s) \/ StartupFails(s)
    BY <1>3, <2>1 DEF Stop, StartupFails
  <2>2. CASE Open(s)
    <3>1. UNCHANGED rec
      BY <2>2 DEF Open
    <3>2. ASSUME NEW t \in Services, NEW p \in Plans, seen'[t][p] # 0
          PROVE  seen'[t][p] = 2 /\ rec[p].rev >= 2
                   /\ (rec[p].rev = 2 => rec[p].state \in Owned)
      <4>1. CASE t # s
        BY <2>2, <3>2, <4>1 DEF Open
      <4>2. CASE t = s
        <5>1. rec[p].state \in Owned /\ seen'[t][p] = rec[p].rev
          BY <2>2, <3>2, <4>2 DEF Open, OpenRuns
        <5>2. rec[p].rev \in 0 .. 3
          OBVIOUS
        <5>3. rec[p].rev \notin {0, 1, 3}
          BY <5>1
        <5> QED
          BY <5>1, <5>2, <5>3
      <4> QED
        BY <4>1, <4>2
    <3> QED
      BY <3>1, <3>2
  <2>3. CASE BeginSnapshot(s) \/ EndSnapshot(s) \/ Close(s) \/ Serve(s)
    BY <2>3 DEF BeginSnapshot, LockIdle, EndSnapshot, Close, Serve
  <2>4. CASE BeginSwitch(s) \/ AbandonSwitch(s) \/ FinishSwitch(s)
    BY <2>4 DEF BeginSwitch, LockIdle, AbandonSwitch, FinishSwitch
  <2> QED
    BY <1>4, <2>1, <2>2, <2>3, <2>4 DEF ServiceStep
<1>5. ASSUME NEW s \in Services, NEW t \in Services, PairStep(s, t)
      PROVE  SeenTellsState'
  BY <1>5 DEF PairStep, Swap, RollBack
<1>6. CASE ServerStep
  BY <1>2, <1>3, <1>4, <1>5, <1>6 DEF ServerStep, Crash
<1>7. ASSUME NEW s \in Services, NEW p \in Plans, PlanStep(s, p)
      PROVE  UpdatesKnowState'
  <2>1. CASE Prepare(s, p)
    BY <2>1 DEF Prepare
  <2>2. CASE Cancel(s, p)
    BY <2>2 DEF Cancel
  <2>3. CASE RecoverRun(s, p)
    BY <2>3 DEF RecoverRun
  <2> QED
    BY <1>7, <2>1, <2>2, <2>3 DEF PlanStep
<1>8. CASE UNCHANGED vars
  BY <1>8
<1> QED
  BY <1>1, <1>6, <1>7, <1>8 DEF Next, ServerStep

-----------------------------------------------------------------------------
(* O_EXCL: once a plan has a stdout.log, its creator never changes.        *)
LEMMA NextLauncher ==
  ASSUME TypeOK, LogTellsLauncher, [Next]_vars
  PROVE  LogTellsLauncher'
<1> USE DEF LogTellsLauncher
<1> USE DEF TypeOK, Go, Written, Matches, store, service, args, local,
            vars
<1> USE DEF Concluded, Handler, Waiter
<1> USE NoCallAssumption
<1>1. ASSUME NEW c \in Calls, CallStep(c)
      PROVE  LogTellsLauncher'
  <2>1. CASE Load(c)
    BY <2>1 DEF Load
  <2>2. CASE GiveUp(c)
    BY <2>2 DEF GiveUp
  <2>3. CASE CreateStdout(c)
    BY <2>3 DEF CreateStdout
  <2>4. CASE CreateStderr(c)
    BY <2>4 DEF CreateStderr
  <2>5. CASE StartProcess(c)
    BY <2>5 DEF StartProcess
  <2>6. CASE StartFails(c)
    BY <2>6 DEF StartFails
  <2>7. CASE RecordRunning(c)
    BY <2>7 DEF RecordRunning
  <2>8. CASE AbortStart(c)
    BY <2>8, KillKeeps DEF AbortStart
  <2>9. CASE Register(c)
    BY <2>9, KillKeeps DEF Register
  <2>10. CASE ProcessExits(c)
    BY <2>10 DEF ProcessExits
  <2>11. CASE Timeout(c)
    BY <2>11 DEF Timeout
  <2>12. CASE ReapExit(c)
    BY <2>12 DEF ReapExit
  <2>13. CASE KillRun(c)
    BY <2>13, KillKeeps DEF KillRun
  <2>14. CASE RecordOutcome(c)
    BY <2>14 DEF RecordOutcome
  <2>15. CASE Unregister(c)
    BY <2>15 DEF Unregister
  <2>16. CASE BeginMaterialize(c)
    BY <2>16 DEF BeginMaterialize
  <2>17. CASE EndMaterialize(c)
    BY <2>17 DEF EndMaterialize
  <2>18. CASE AbandonMaterialize(c)
    BY <2>18 DEF AbandonMaterialize
  <2>19. CASE AwaitAborted(c)
    BY <2>19 DEF AwaitAborted
  <2>20. CASE PipeCloses(c)
    BY <2>20 DEF PipeCloses
  <2>21. CASE ReapKilled(c)
    BY <2>21 DEF ReapKilled
  <2> QED
    BY <1>1, <2>1, <2>2, <2>3, <2>4, <2>5, <2>6, <2>7, <2>8, <2>9, <2>10,
       <2>11, <2>12, <2>13, <2>14, <2>15, <2>16, <2>17, <2>18, <2>19, <2>20,
       <2>21 DEF CallStep
<1>2. CASE ServerStep
  BY <1>2, ServersKeepRuns
<1>3. ASSUME NEW s \in Services, NEW p \in Plans, PlanStep(s, p)
      PROVE  LogTellsLauncher'
  <2>1. CASE Prepare(s, p)
    BY <2>1 DEF Prepare
  <2>2. CASE Cancel(s, p)
    BY <2>2 DEF Cancel
  <2>3. CASE RecoverRun(s, p)
    BY <2>3 DEF RecoverRun
  <2> QED
    BY <1>3, <2>1, <2>2, <2>3 DEF PlanStep
<1>4. CASE UNCHANGED vars
  BY <1>4
<1> QED
  BY <1>1, <1>2, <1>3, <1>4 DEF Next, ServerStep

-----------------------------------------------------------------------------
(* Whatever happens, every variable keeps a value of its type; in          *)
(* particular no run record is ever written more than three times.         *)
THEOREM TypesAlways == Spec => []TypeOK
<1>1. Init => TypeOK /\ UpdatesKnowState
  BY InitTypes, InitUpdates
<1>2. TypeOK /\ UpdatesKnowState /\ [Next]_vars => (TypeOK /\ UpdatesKnowState)'
  BY NextTypes, NextUpdates
<1> QED
  BY <1>1, <1>2, PTL DEF Spec

(* Every update that passes its compare-and-swap replaces the state its    *)
(* writer decided upon.                                                    *)
THEOREM UpdatesAlwaysKnowState == Spec => []UpdatesKnowState
<1>1. TypeOK /\ UpdatesKnowState /\ [Next]_vars => UpdatesKnowState'
  BY NextUpdates
<1> QED
  BY InitUpdates, TypesAlways, <1>1, PTL DEF Spec

(* Every process belongs to the creator of its plan's stdout.log.          *)
THEOREM LogAlwaysTellsLauncher == Spec => []LogTellsLauncher
<1>1. Init => LogTellsLauncher
  BY DEF Init, LogTellsLauncher, Waiter, Concluded
<1>2. TypeOK /\ LogTellsLauncher /\ [Next]_vars => LogTellsLauncher'
  BY NextLauncher
<1> QED
  BY <1>1, <1>2, TypesAlways, PTL DEF Spec

(* run_execute starts a plan's process at most once, whatever calls race   *)
(* on whatever servers and however often these crash and restart.          *)
THEOREM LaunchIsUnique == Spec => []AtMostOneLaunch
<1>1. LogTellsLauncher => AtMostOneLaunch
  BY DEF LogTellsLauncher, AtMostOneLaunch
<1> QED
  BY <1>1, LogAlwaysTellsLauncher, PTL

-----------------------------------------------------------------------------
(* A step that changes a run record changes one that is not terminal.      *)
LEMMA NextKeepsTerminal ==
  ASSUME TypeOK, UpdatesKnowState, [Next]_vars, NEW p \in Plans,
         rec[p].state \in Terminal
  PROVE  rec'[p] = rec[p]
<1> USE DEF UpdatesKnowState, TypeOK, Written, Matches, store, service, vars
<1> USE DEF Concluded, Owned, Terminal, Waiter
<1>1. ASSUME NEW c \in Calls, CallStep(c)
      PROVE  rec'[p] = rec[p]
  <2>1. CASE StartFails(c)
    BY <2>1 DEF StartFails, RevisionTellsState, HeldTellsState
  <2>2. CASE RecordRunning(c)
    BY <2>2 DEF RecordRunning, RevisionTellsState, HeldTellsState
  <2>3. CASE RecordOutcome(c)
    BY <2>3 DEF RecordOutcome, RevisionTellsState, HeldTellsState
  <2>4. CASE BeginMaterialize(c)
    BY <2>4 DEF BeginMaterialize, RevisionTellsState, HeldTellsState
  <2>5. CASE EndMaterialize(c)
    BY <2>5 DEF EndMaterialize, RevisionTellsState, HeldTellsState
  <2>6. ASSUME ~ StartFails(c), ~ RecordRunning(c), ~ RecordOutcome(c),
               ~ BeginMaterialize(c), ~ EndMaterialize(c)
        PROVE  UNCHANGED rec
    BY <1>1, <2>6
       DEF CallStep, Load, GiveUp, CreateStdout, CreateStderr, StartProcess,
           AbortStart, AwaitAborted, Register, ProcessExits, PipeCloses,
           Timeout, ReapExit, KillRun, ReapKilled, Unregister,
           AbandonMaterialize
  <2> QED
    BY <2>1, <2>2, <2>3, <2>4, <2>5, <2>6
<1>2. CASE ServerStep
  BY <1>2, ServersKeepRuns
<1>3. ASSUME NEW s \in Services, NEW q \in Plans, PlanStep(s, q)
      PROVE  rec'[p] = rec[p]
  <2>1. CASE Prepare(s, q)
    BY <2>1 DEF Prepare
  <2>2. CASE RecoverRun(s, q)
    BY <2>2 DEF RecoverRun, RevisionTellsState, SeenTellsState
  <2>3. CASE Cancel(s, q)
    BY <2>3 DEF Cancel
  <2> QED
    BY <1>3, <2>1, <2>2, <2>3 DEF PlanStep
<1> QED
  BY <1>1, <1>2, <1>3 DEF Next, ServerStep

(* A terminal receipt is final: neither a goroutine that comes late nor a  *)
(* recovering server ever replaces it.                                     *)
THEOREM ReceiptsAreFinal == Spec => TerminalIsFinal
<1>1. TypeOK /\ UpdatesKnowState /\ [Next]_vars =>
        [\A p \in Plans : rec[p].state \in Terminal => rec'[p] = rec[p]]_vars
  BY NextKeepsTerminal
<1> QED
  BY <1>1, TypesAlways, UpdatesAlwaysKnowState, PTL DEF Spec, TerminalIsFinal

-----------------------------------------------------------------------------
(* Run_prepare decided once how the plan is executed; a launch and a       *)
(* materialization never meet on one plan.                                 *)
ModeDecides ==
  /\ \A p \in Plans :
       /\ stdoutLog[p] # NoCall => rec[p].state # "none" /\ mode[p] = "launch"
       /\ rec[p].state \in {"materializing", "reused"} => mode[p] = "reuse"
       /\ rec[p].state \notin {"none", "prepared"} =>
            stdoutLog[p] # NoCall \/ mode[p] = "reuse"
  /\ \A c \in Calls :
       /\ pc[c] = "materializing" => mode[plan[c]] = "reuse"
       /\ pc[c] \in {"recorded"} \union Waiter => mode[plan[c]] = "launch"

(* Where the process of a call is, by where the call is.                   *)
PlaceTellsProcess ==
  \A c \in Calls :
    /\ pc[c] \in {"idle", "loaded", "stdout", "streams", "materializing"} =>
         proc[c] = "none"
    /\ pc[c] \in {"started", "aborting", "recorded"} \union Waiter =>
         proc[c] # "none"
    /\ proc[c] = "alive" => pc[c] \in {"started", "aborting", "recorded",
                                      "waiting", "awaiting", "dead"}
    /\ pc[c] = "awaiting"  => ctx[c] # "live"
    /\ pc[c] = "completed" => proc[c] = "ok"
    /\ pc[c] = "timed_out" => ctx[c] = "deadline"
    /\ pc[c] = "cancelled" => ctx[c] = "cancelled"

(* Until its launcher has recorded an outcome, a plan has none: nobody     *)
(* else can start it, and Recover can only interrupt it.                   *)
LauncherDecides ==
  \A c \in Calls :
    /\ pc[c] \in {"stdout", "streams", "started", "aborting"} =>
         rec[plan[c]].state = "prepared"
    /\ (proc[c] = "alive" \/ pc[c] \in {"recorded", "waiting", "awaiting"}
                                         \union Concluded)
         => rec[plan[c]].state \in {"prepared", "running", "interrupted"}

(* Service.running names the calls whose goroutine waits, and only them.   *)
RegistryTells ==
  /\ \A s \in Services, p \in Plans :
       running[s][p] # NoCall =>
         LET c == running[s][p]
         IN  srv[c] = s /\ plan[c] = p /\ pc[c] \in Waiter
  /\ \A c \in Calls : pc[c] \in Waiter => running[srv[c]][plan[c]] = c

(* A call that comes to register finds its entry free: whatever were there *)
(* would be the launcher of the same plan, and already waiting.            *)
LEMMA OwnEntryIsFree ==
  ASSUME TypeOK, LogTellsLauncher, RegistryTells,
         NEW c \in Calls, pc[c] = "recorded"
  PROVE  running[srv[c]][plan[c]] = NoCall
<1> DEFINE d == running[srv[c]][plan[c]]
<1> SUFFICES ASSUME d # NoCall PROVE FALSE
  OBVIOUS
<1>1. stdoutLog[plan[c]] = c
  BY DEF LogTellsLauncher
<1>2. d \in Calls /\ plan[d] = plan[c] /\ pc[d] \in Waiter
  BY DEF TypeOK, RegistryTells
<1>3. stdoutLog[plan[d]] = d
  BY <1>2 DEF LogTellsLauncher
<1>4. d = c
  BY <1>1, <1>2, <1>3
<1> QED
  BY <1>2, <1>4 DEF Waiter, Concluded

(* Only run_prepare writes the mode, before anything else happens.         *)
LEMMA NextMode ==
  ASSUME TypeOK, UpdatesKnowState, LogTellsLauncher, ModeDecides, [Next]_vars
  PROVE  ModeDecides'
<1> USE DEF ModeDecides, UpdatesKnowState, RevisionTellsState,
            HeldTellsState, LogTellsLauncher
<1> USE DEF TypeOK, Go, Written, Matches, store, service, args, local,
            vars
<1> USE DEF Concluded, Handler, Waiter
<1> USE NoCallAssumption
<1>1. ASSUME NEW c \in Calls, CallStep(c)
      PROVE  ModeDecides'
  <2>1. CASE Load(c)
    BY <2>1 DEF Load
  <2>2. CASE GiveUp(c)
    BY <2>2 DEF GiveUp
  <2>3. CASE CreateStdout(c)
    BY <2>3 DEF CreateStdout
  <2>4. CASE CreateStderr(c)
    BY <2>4 DEF CreateStderr
  <2>5. CASE StartProcess(c)
    BY <2>5 DEF StartProcess
  <2>6. CASE StartFails(c)
    BY <2>6 DEF StartFails
  <2>7. CASE RecordRunning(c)
    BY <2>7 DEF RecordRunning
  <2>8. CASE AbortStart(c)
    BY <2>8, KillKeeps DEF AbortStart
  <2>9. CASE Register(c)
    BY <2>9, KillKeeps DEF Register
  <2>10. CASE ProcessExits(c)
    BY <2>10 DEF ProcessExits
  <2>11. CASE Timeout(c)
    BY <2>11 DEF Timeout
  <2>12. CASE ReapExit(c)
    BY <2>12 DEF ReapExit
  <2>13. CASE KillRun(c)
    BY <2>13, KillKeeps DEF KillRun
  <2>14. CASE RecordOutcome(c)
    BY <2>14 DEF RecordOutcome
  <2>15. CASE Unregister(c)
    BY <2>15 DEF Unregister
  <2>16. CASE BeginMaterialize(c)
    BY <2>16 DEF BeginMaterialize
  <2>17. CASE EndMaterialize(c)
    BY <2>17 DEF EndMaterialize
  <2>18. CASE AbandonMaterialize(c)
    BY <2>18 DEF AbandonMaterialize
  <2>19. CASE AwaitAborted(c)
    BY <2>19 DEF AwaitAborted
  <2>20. CASE PipeCloses(c)
    BY <2>20 DEF PipeCloses
  <2>21. CASE ReapKilled(c)
    BY <2>21 DEF ReapKilled
  <2> QED
    BY <1>1, <2>1, <2>2, <2>3, <2>4, <2>5, <2>6, <2>7, <2>8, <2>9, <2>10,
       <2>11, <2>12, <2>13, <2>14, <2>15, <2>16, <2>17, <2>18, <2>19, <2>20,
       <2>21 DEF CallStep
<1>2. CASE ServerStep
  BY <1>2, ServersKeepRuns
<1>3. ASSUME NEW s \in Services, NEW p \in Plans, PlanStep(s, p)
      PROVE  ModeDecides'
  <2>1. CASE Prepare(s, p)
    <3>1. /\ rec[p].state = "none" /\ stdoutLog[p] = NoCall
          /\ \E m \in Modes : mode' = [mode EXCEPT ![p] = m]
          /\ rec' = [rec EXCEPT ![p] = [state |-> "prepared",
                                       rev |-> rec[p].rev + 1]]
          /\ UNCHANGED <<stdoutLog, plan, pc>>
      BY <2>1 DEF Prepare
    <3>2. \A q \in Plans \ {p} : rec'[q] = rec[q] /\ mode'[q] = mode[q]
      BY <3>1
    <3>3. rec'[p].state = "prepared"
      BY <3>1
    <3>4. \A c \in Calls :
            pc[c] \in {"materializing", "recorded"} \union Waiter => plan[c] # p
      BY <3>1
    <3>5. ASSUME NEW q \in Plans
          PROVE  /\ stdoutLog'[q] # NoCall =>
                      rec'[q].state # "none" /\ mode'[q] = "launch"
                 /\ rec'[q].state \in {"materializing", "reused"} =>
                      mode'[q] = "reuse"
                 /\ rec'[q].state \notin {"none", "prepared"} =>
                      stdoutLog'[q] # NoCall \/ mode'[q] = "reuse"
      <4>1. CASE q = p
        BY <3>1, <3>3, <4>1
      <4>2. CASE q # p
        BY <3>1, <3>2, <4>2
      <4> QED
        BY <4>1, <4>2
    <3>6. ASSUME NEW c \in Calls
          PROVE  /\ pc'[c] = "materializing" => mode'[plan'[c]] = "reuse"
                 /\ pc'[c] \in {"recorded"} \union Waiter =>
                      mode'[plan'[c]] = "launch"
      BY <3>1, <3>2, <3>4
    <3> QED
      BY <3>5, <3>6
  <2>2. CASE Cancel(s, p)
    BY <2>2 DEF Cancel
  <2>3. CASE RecoverRun(s, p)
    BY <2>3 DEF RecoverRun, SeenTellsState, Owned
  <2> QED
    BY <1>3, <2>1, <2>2, <2>3 DEF PlanStep
<1>4. CASE UNCHANGED vars
  BY <1>4
<1> QED
  BY <1>1, <1>2, <1>3, <1>4 DEF Next, ServerStep

(* A process begins at StartProcess, and its call never steps back.        *)
LEMMA NextPlace ==
  ASSUME TypeOK, LogTellsLauncher, RegistryTells, PlaceTellsProcess,
         [Next]_vars
  PROVE  PlaceTellsProcess'
<1> USE DEF PlaceTellsProcess
<1> USE DEF TypeOK, Go, Written, Matches, store, service, args, local,
            vars
<1> USE DEF Concluded, Handler, Waiter
<1> USE NoCallAssumption
<1>1. ASSUME NEW c \in Calls, CallStep(c)
      PROVE  PlaceTellsProcess'
  <2>1. CASE Load(c)
    BY <2>1 DEF Load
  <2>2. CASE GiveUp(c)
    BY <2>2 DEF GiveUp
  <2>3. CASE CreateStdout(c)
    BY <2>3 DEF CreateStdout
  <2>4. CASE CreateStderr(c)
    BY <2>4 DEF CreateStderr
  <2>5. CASE StartProcess(c)
    BY <2>5 DEF StartProcess
  <2>6. CASE StartFails(c)
    BY <2>6 DEF StartFails
  <2>7. CASE RecordRunning(c)
    BY <2>7 DEF RecordRunning
  <2>8. CASE AbortStart(c)
    BY <2>8, KillKeeps DEF AbortStart
  <2>9. CASE Register(c)
    <3>1. running[srv[c]][plan[c]] = NoCall
      BY <2>9, OwnEntryIsFree DEF Register
    <3> QED
      BY <2>9, <3>1 DEF Register
  <2>10. CASE ProcessExits(c)
    BY <2>10 DEF ProcessExits
  <2>11. CASE Timeout(c)
    BY <2>11 DEF Timeout
  <2>12. CASE ReapExit(c)
    BY <2>12 DEF ReapExit
  <2>13. CASE KillRun(c)
    BY <2>13, KillKeeps DEF KillRun
  <2>14. CASE RecordOutcome(c)
    BY <2>14 DEF RecordOutcome
  <2>15. CASE Unregister(c)
    BY <2>15 DEF Unregister
  <2>16. CASE BeginMaterialize(c)
    BY <2>16 DEF BeginMaterialize
  <2>17. CASE EndMaterialize(c)
    BY <2>17 DEF EndMaterialize
  <2>18. CASE AbandonMaterialize(c)
    BY <2>18 DEF AbandonMaterialize
  <2>19. CASE AwaitAborted(c)
    BY <2>19 DEF AwaitAborted, WaitReturns
  <2>20. CASE PipeCloses(c)
    BY <2>20 DEF PipeCloses
  <2>21. CASE ReapKilled(c)
    BY <2>21 DEF ReapKilled, WaitReturns
  <2> QED
    BY <1>1, <2>1, <2>2, <2>3, <2>4, <2>5, <2>6, <2>7, <2>8, <2>9, <2>10,
       <2>11, <2>12, <2>13, <2>14, <2>15, <2>16, <2>17, <2>18, <2>19, <2>20,
       <2>21 DEF CallStep
<1>2. CASE ServerStep
  BY <1>2, ServersKeepRuns
<1>3. ASSUME NEW s \in Services, NEW p \in Plans, PlanStep(s, p)
      PROVE  PlaceTellsProcess'
  <2>1. CASE Prepare(s, p)
    BY <2>1 DEF Prepare
  <2>2. CASE Cancel(s, p)
    BY <2>2 DEF Cancel
  <2>3. CASE RecoverRun(s, p)
    BY <2>3 DEF RecoverRun
  <2> QED
    BY <1>3, <2>1, <2>2, <2>3 DEF PlanStep
<1>4. CASE UNCHANGED vars
  BY <1>4
<1> QED
  BY <1>1, <1>2, <1>3, <1>4 DEF Next, ServerStep

(* Another call can neither launch the plan nor conclude it.               *)
LEMMA NextDecides ==
  ASSUME TypeOK, UpdatesKnowState, LogTellsLauncher, ModeDecides,
         PlaceTellsProcess, LauncherDecides, [Next]_vars
  PROVE  LauncherDecides'
<1> USE DEF LauncherDecides, PlaceTellsProcess, ModeDecides,
            UpdatesKnowState, RevisionTellsState, HeldTellsState,
            SeenTellsState, LogTellsLauncher, Owned
<1> USE DEF TypeOK, Go, Written, Matches, store, service, args, local,
            vars
<1> USE DEF Concluded, Handler, Waiter
<1> USE NoCallAssumption
<1>1. ASSUME NEW c \in Calls, CallStep(c)
      PROVE  LauncherDecides'
  <2>1. CASE Load(c)
    BY <2>1 DEF Load
  <2>2. CASE GiveUp(c)
    BY <2>2 DEF GiveUp
  <2>3. CASE CreateStdout(c)
    BY <2>3 DEF CreateStdout
  <2>4. CASE CreateStderr(c)
    BY <2>4 DEF CreateStderr
  <2>5. CASE StartProcess(c)
    BY <2>5 DEF StartProcess
  <2>6. CASE StartFails(c)
    BY <2>6 DEF StartFails
  <2>7. CASE RecordRunning(c)
    BY <2>7 DEF RecordRunning
  <2>8. CASE AbortStart(c)
    BY <2>8, KillKeeps DEF AbortStart
  <2>9. CASE Register(c)
    BY <2>9, KillKeeps DEF Register
  <2>10. CASE ProcessExits(c)
    BY <2>10 DEF ProcessExits
  <2>11. CASE Timeout(c)
    BY <2>11 DEF Timeout
  <2>12. CASE ReapExit(c)
    BY <2>12 DEF ReapExit
  <2>13. CASE KillRun(c)
    BY <2>13, KillKeeps DEF KillRun
  <2>14. CASE RecordOutcome(c)
    BY <2>14 DEF RecordOutcome
  <2>15. CASE Unregister(c)
    BY <2>15 DEF Unregister
  <2>16. CASE BeginMaterialize(c)
    <3>1. /\ mode[plan[c]] = "reuse"
          /\ \A p \in Plans : p # plan[c] => rec'[p] = rec[p]
          /\ \A d \in Calls : d # c => pc'[d] = pc[d]
          /\ pc'[c] = "materializing"
          /\ proc' = proc /\ plan' = plan
      BY <2>16 DEF BeginMaterialize
    <3>2. \A d \in Calls :
            proc[d] # "none" \/ pc[d] \in {"stdout", "streams", "started",
                                          "aborting", "recorded"} \union Waiter
              => plan[d] # plan[c]
      <4>1. \A d \in Calls :
              proc[d] # "none" \/ pc[d] \in {"stdout", "streams", "started",
                                            "aborting", "recorded"} \union Waiter
                => stdoutLog[plan[d]] = d
        BY DEF LogTellsLauncher
      <4>2. \A d \in Calls : stdoutLog[plan[d]] = d => mode[plan[d]] = "launch"
        BY DEF ModeDecides
      <4> QED
        BY <3>1, <4>1, <4>2
    <3>3. proc[c] = "none"
      BY <2>16 DEF BeginMaterialize
    <3>4. ASSUME NEW d \in Calls,
                 \/ proc'[d] = "alive"
                 \/ pc'[d] \in {"stdout", "streams", "started", "aborting",
                                "recorded", "waiting", "awaiting"}
                               \union Concluded
          PROVE  d # c /\ pc'[d] = pc[d] /\ rec'[plan'[d]] = rec[plan[d]]
      <4>1. d # c /\ pc'[d] = pc[d]
        BY <3>1, <3>3, <3>4
      <4>2. plan[d] # plan[c]
        BY <3>1, <3>2, <3>4, <4>1
      <4> QED
        BY <3>1, <4>1, <4>2
    <3>5. ASSUME NEW d \in Calls,
                 pc'[d] \in {"stdout", "streams", "started", "aborting"}
          PROVE  rec'[plan'[d]].state = "prepared"
      BY <3>4, <3>5
    <3>6. ASSUME NEW d \in Calls,
                 \/ proc'[d] = "alive"
                 \/ pc'[d] \in {"recorded", "waiting", "awaiting"}
                               \union Concluded
          PROVE  rec'[plan'[d]].state \in {"prepared", "running",
                                          "interrupted"}
      BY <3>1, <3>4, <3>6
    <3> QED
      BY <3>5, <3>6
  <2>17. CASE EndMaterialize(c)
    BY <2>17 DEF EndMaterialize
  <2>18. CASE AbandonMaterialize(c)
    BY <2>18 DEF AbandonMaterialize
  <2>19. CASE AwaitAborted(c)
    BY <2>19 DEF AwaitAborted
  <2>20. CASE PipeCloses(c)
    BY <2>20 DEF PipeCloses
  <2>21. CASE ReapKilled(c)
    BY <2>21 DEF ReapKilled
  <2> QED
    BY <1>1, <2>1, <2>2, <2>3, <2>4, <2>5, <2>6, <2>7, <2>8, <2>9, <2>10,
       <2>11, <2>12, <2>13, <2>14, <2>15, <2>16, <2>17, <2>18, <2>19, <2>20,
       <2>21 DEF CallStep
<1>2. CASE ServerStep
  BY <1>2, ServersKeepRuns
<1>3. ASSUME NEW s \in Services, NEW p \in Plans, PlanStep(s, p)
      PROVE  LauncherDecides'
  <2>1. CASE Prepare(s, p)
    BY <2>1 DEF Prepare
  <2>2. CASE Cancel(s, p)
    BY <2>2 DEF Cancel
  <2>3. CASE RecoverRun(s, p)
    BY <2>3 DEF RecoverRun
  <2> QED
    BY <1>3, <2>1, <2>2, <2>3 DEF PlanStep
<1>4. CASE UNCHANGED vars
  BY <1>4
<1> QED
  BY <1>1, <1>2, <1>3, <1>4 DEF Next, ServerStep

(* A server's end empties its registry and stops the calls it listed.      *)
LEMMA GoneRegistry ==
  ASSUME TypeOK, RegistryTells, NEW S, Gone(S)
  PROVE  RegistryTells'
<1> USE DEF TypeOK, Gone, Mine, Handler, Waiter, Concluded, store, args
<1>1. ASSUME NEW t \in Services, NEW p \in Plans, running'[t][p] # NoCall
      PROVE  LET d == running'[t][p]
             IN  srv[d] = t /\ plan[d] = p /\ pc'[d] \in Waiter
  <2>1. t \notin S /\ running'[t][p] = running[t][p]
    BY <1>1
  <2>2. running[t][p] \in Calls
    BY <1>1, <2>1
  <2> DEFINE d == running[t][p]
  <2>3. srv[d] = t /\ plan[d] = p /\ pc[d] \in Waiter
    BY <1>1, <2>1 DEF RegistryTells
  <2>4. pc'[d] = pc[d]
    BY <2>1, <2>2, <2>3
  <2> QED
    BY <2>1, <2>3, <2>4
<1>2. ASSUME NEW d \in Calls, pc'[d] \in Waiter
      PROVE  running'[srv[d]][plan[d]] = d
  <2>1. pc[d] \in Waiter /\ srv[d] \notin S
    BY <1>2
  <2> QED
    BY <2>1 DEF RegistryTells
<1> QED
  BY <1>1, <1>2 DEF RegistryTells

(* Register finds its entry free: an entry there would be its own.         *)
LEMMA NextRegistry ==
  ASSUME TypeOK, LogTellsLauncher, RegistryTells, [Next]_vars
  PROVE  RegistryTells'
<1> USE DEF RegistryTells, LogTellsLauncher
<1> USE DEF TypeOK, Go, Written, Matches, store, service, args, local,
            vars
<1> USE DEF Concluded, Handler, Waiter
<1> USE NoCallAssumption
<1>1. ASSUME NEW c \in Calls, CallStep(c)
      PROVE  RegistryTells'
  <2>1. CASE Load(c)
    BY <2>1 DEF Load
  <2>2. CASE GiveUp(c)
    BY <2>2 DEF GiveUp
  <2>3. CASE CreateStdout(c)
    BY <2>3 DEF CreateStdout
  <2>4. CASE CreateStderr(c)
    BY <2>4 DEF CreateStderr
  <2>5. CASE StartProcess(c)
    BY <2>5 DEF StartProcess
  <2>6. CASE StartFails(c)
    BY <2>6 DEF StartFails
  <2>7. CASE RecordRunning(c)
    BY <2>7 DEF RecordRunning
  <2>8. CASE AbortStart(c)
    BY <2>8, KillKeeps DEF AbortStart
  <2>9. CASE Register(c)
    <3>1. running[srv[c]][plan[c]] = NoCall
      BY <2>9, OwnEntryIsFree DEF Register
    <3>2. /\ running' = [running EXCEPT ![srv[c]][plan[c]] = c]
          /\ pc' = [pc EXCEPT ![c] = "waiting"]
          /\ UNCHANGED <<srv, plan>>
      BY <2>9, <3>1 DEF Register
    <3>3. ASSUME NEW s \in Services, NEW p \in Plans,
                 running'[s][p] # NoCall
          PROVE  LET d == running'[s][p]
                 IN  srv[d] = s /\ plan[d] = p /\ pc'[d] \in Waiter
      <4>1. CASE s = srv[c] /\ p = plan[c]
        BY <3>2, <4>1
      <4>2. CASE ~ (s = srv[c] /\ p = plan[c])
        <5>1. running'[s][p] = running[s][p]
          BY <3>2, <4>2
        <5>2. running[s][p] \in Calls
          BY <3>3, <5>1
        <5> QED
          BY <3>2, <3>3, <5>1, <5>2
      <4> QED
        BY <4>1, <4>2
    <3>4. ASSUME NEW d \in Calls, pc'[d] \in Waiter
          PROVE  running'[srv[d]][plan[d]] = d
      <4>1. CASE d = c
        BY <3>2, <4>1
      <4>2. CASE d # c
        BY <3>1, <3>2, <3>4, <4>2
      <4> QED
        BY <4>1, <4>2
    <3> QED
      BY <3>2, <3>3, <3>4
  <2>10. CASE ProcessExits(c)
    BY <2>10 DEF ProcessExits
  <2>11. CASE Timeout(c)
    BY <2>11 DEF Timeout
  <2>12. CASE ReapExit(c)
    BY <2>12 DEF ReapExit
  <2>13. CASE KillRun(c)
    BY <2>13, KillKeeps DEF KillRun
  <2>14. CASE RecordOutcome(c)
    BY <2>14 DEF RecordOutcome
  <2>15. CASE Unregister(c)
    BY <2>15 DEF Unregister
  <2>16. CASE BeginMaterialize(c)
    BY <2>16 DEF BeginMaterialize
  <2>17. CASE EndMaterialize(c)
    BY <2>17 DEF EndMaterialize
  <2>18. CASE AbandonMaterialize(c)
    BY <2>18 DEF AbandonMaterialize
  <2>19. CASE AwaitAborted(c)
    BY <2>19 DEF AwaitAborted
  <2>20. CASE PipeCloses(c)
    BY <2>20 DEF PipeCloses
  <2>21. CASE ReapKilled(c)
    BY <2>21 DEF ReapKilled
  <2> QED
    BY <1>1, <2>1, <2>2, <2>3, <2>4, <2>5, <2>6, <2>7, <2>8, <2>9, <2>10,
       <2>11, <2>12, <2>13, <2>14, <2>15, <2>16, <2>17, <2>18, <2>19, <2>20,
       <2>21 DEF CallStep
<1>2. ASSUME NEW s \in Services, ServiceStep(s)
      PROVE  RegistryTells'
  <2>1. CASE BeginSnapshot(s)
    BY <2>1 DEF BeginSnapshot, LockIdle
  <2>2. CASE EndSnapshot(s)
    BY <2>2 DEF EndSnapshot
  <2>3. CASE Close(s)
    BY <2>3 DEF Close
  <2>4. CASE Stop(s) \/ StartupFails(s)
    BY <2>4, GoneRegistry DEF Stop, StartupFails
  <2>5. CASE Open(s)
    BY <2>5 DEF Open
  <2>6. CASE Serve(s)
    BY <2>6 DEF Serve
  <2>7. CASE BeginSwitch(s)
    BY <2>7 DEF BeginSwitch, LockIdle
  <2>8. CASE AbandonSwitch(s)
    BY <2>8 DEF AbandonSwitch
  <2>9. CASE FinishSwitch(s)
    BY <2>9 DEF FinishSwitch
  <2> QED
    BY <1>2, <2>1, <2>2, <2>3, <2>4, <2>5, <2>6, <2>7, <2>8, <2>9 DEF ServiceStep
<1>3. ASSUME NEW s \in Services, NEW p \in Plans, PlanStep(s, p)
      PROVE  RegistryTells'
  <2>1. CASE Prepare(s, p)
    BY <2>1 DEF Prepare
  <2>2. CASE Cancel(s, p)
    BY <2>2 DEF Cancel
  <2>3. CASE RecoverRun(s, p)
    BY <2>3 DEF RecoverRun
  <2> QED
    BY <1>3, <2>1, <2>2, <2>3 DEF PlanStep
<1>4. ASSUME NEW s \in Services, NEW t \in Services, PairStep(s, t)
      PROVE  RegistryTells'
  <2>1. CASE Swap(s, t)
    BY <2>1 DEF Swap
  <2>2. CASE RollBack(s, t)
    BY <2>2 DEF RollBack
  <2> QED
    BY <1>4, <2>1, <2>2 DEF PairStep
<1>5. ASSUME NEW S \in Servers, Crash(S)
      PROVE  RegistryTells'
  BY <1>5, GoneRegistry DEF Crash
<1>6. CASE UNCHANGED vars
  BY <1>6
<1> QED
  BY <1>1, <1>2, <1>3, <1>4, <1>5, <1>6 DEF Next

(* The lock keeps a new goroutine out of the registry, and so from waiting. *)
LEMMA NextSnapshot ==
  ASSUME TypeOK, RegistryTells, SnapshotExcludesRegistered, [Next]_vars
  PROVE  SnapshotExcludesRegistered'
<1> USE DEF SnapshotExcludesRegistered, RegistryTells, Mine
<1> USE DEF TypeOK, Go, Written, Matches, store, service, args, local,
            vars
<1> USE DEF Concluded, Handler, Waiter
<1> USE NoCallAssumption
<1>1. ASSUME NEW c \in Calls, CallStep(c)
      PROVE  SnapshotExcludesRegistered'
  <2>1. CASE Load(c)
    BY <2>1 DEF Load
  <2>2. CASE GiveUp(c)
    BY <2>2 DEF GiveUp
  <2>3. CASE CreateStdout(c)
    BY <2>3 DEF CreateStdout
  <2>4. CASE CreateStderr(c)
    BY <2>4 DEF CreateStderr
  <2>5. CASE StartProcess(c)
    BY <2>5 DEF StartProcess
  <2>6. CASE StartFails(c)
    BY <2>6 DEF StartFails
  <2>7. CASE RecordRunning(c)
    BY <2>7 DEF RecordRunning
  <2>8. CASE AbortStart(c)
    BY <2>8, KillKeeps DEF AbortStart
  <2>9. CASE Register(c)
    BY <2>9, KillKeeps DEF Register
  <2>10. CASE ProcessExits(c)
    BY <2>10 DEF ProcessExits
  <2>11. CASE Timeout(c)
    BY <2>11 DEF Timeout
  <2>12. CASE ReapExit(c)
    BY <2>12 DEF ReapExit
  <2>13. CASE KillRun(c)
    BY <2>13, KillKeeps DEF KillRun
  <2>14. CASE RecordOutcome(c)
    BY <2>14 DEF RecordOutcome
  <2>15. CASE Unregister(c)
    BY <2>15 DEF Unregister
  <2>16. CASE BeginMaterialize(c)
    BY <2>16 DEF BeginMaterialize
  <2>17. CASE EndMaterialize(c)
    <3>1. /\ pc' = [pc EXCEPT ![c] = "returned"]
          /\ UNCHANGED <<lock, srv>>
      BY <2>17 DEF EndMaterialize
    <3> QED
      BY <3>1
  <2>18. CASE AbandonMaterialize(c)
    BY <2>18 DEF AbandonMaterialize
  <2>19. CASE AwaitAborted(c)
    BY <2>19 DEF AwaitAborted
  <2>20. CASE PipeCloses(c)
    BY <2>20 DEF PipeCloses
  <2>21. CASE ReapKilled(c)
    BY <2>21 DEF ReapKilled
  <2> QED
    BY <1>1, <2>1, <2>2, <2>3, <2>4, <2>5, <2>6, <2>7, <2>8, <2>9, <2>10,
       <2>11, <2>12, <2>13, <2>14, <2>15, <2>16, <2>17, <2>18, <2>19, <2>20,
       <2>21 DEF CallStep
<1>2. ASSUME NEW s \in Services, ServiceStep(s)
      PROVE  SnapshotExcludesRegistered'
  <2>1. CASE BeginSnapshot(s)
    BY <2>1 DEF BeginSnapshot, LockIdle
  <2>2. CASE EndSnapshot(s)
    BY <2>2 DEF EndSnapshot
  <2>3. CASE Close(s)
    BY <2>3 DEF Close
  <2>4. CASE Stop(s) \/ StartupFails(s)
    BY <2>4 DEF Stop, StartupFails, Gone
  <2>5. CASE Open(s)
    BY <2>5 DEF Open
  <2>6. CASE Serve(s)
    BY <2>6 DEF Serve
  <2>7. CASE BeginSwitch(s)
    BY <2>7 DEF BeginSwitch, LockIdle
  <2>8. CASE AbandonSwitch(s)
    BY <2>8 DEF AbandonSwitch
  <2>9. CASE FinishSwitch(s)
    BY <2>9 DEF FinishSwitch
  <2> QED
    BY <1>2, <2>1, <2>2, <2>3, <2>4, <2>5, <2>6, <2>7, <2>8, <2>9 DEF ServiceStep
<1>3. ASSUME NEW s \in Services, NEW p \in Plans, PlanStep(s, p)
      PROVE  SnapshotExcludesRegistered'
  <2>1. CASE Prepare(s, p)
    BY <2>1 DEF Prepare
  <2>2. CASE Cancel(s, p)
    BY <2>2 DEF Cancel
  <2>3. CASE RecoverRun(s, p)
    BY <2>3 DEF RecoverRun
  <2> QED
    BY <1>3, <2>1, <2>2, <2>3 DEF PlanStep
<1>4. ASSUME NEW s \in Services, NEW t \in Services, PairStep(s, t)
      PROVE  SnapshotExcludesRegistered'
  <2>1. CASE Swap(s, t)
    BY <2>1 DEF Swap
  <2>2. CASE RollBack(s, t)
    BY <2>2 DEF RollBack
  <2> QED
    BY <1>4, <2>1, <2>2 DEF PairStep
<1>5. ASSUME NEW S \in Servers, Crash(S)
      PROVE  SnapshotExcludesRegistered'
  BY <1>5 DEF Crash, Gone
<1>6. CASE UNCHANGED vars
  BY <1>6
<1> QED
  BY <1>1, <1>2, <1>3, <1>4, <1>5, <1>6 DEF Next

(* An exit status and the end of a context stay as they are.               *)
LEMMA NextHonest ==
  ASSUME TypeOK, LogTellsLauncher, PlaceTellsProcess, OutcomeHonest, [Next]_vars
  PROVE  OutcomeHonest'
<1> USE DEF OutcomeHonest, PlaceTellsProcess, Launched
<1> USE DEF TypeOK, Go, Written, Matches, store, service, args, local,
            vars
<1> USE DEF Concluded, Handler, Waiter
<1> USE NoCallAssumption
<1>0. ASSUME UNCHANGED <<rec, plan>>,
             \A d \in Calls : proc[d] = "ok" => proc'[d] = "ok",
             \A d \in Calls : proc[d] # "none" => proc'[d] # "none",
             \A d \in Calls : ctx[d] # "live" => ctx'[d] = ctx[d]
      PROVE  OutcomeHonest'
  <2>1. \A p \in Plans : Launched(p) \subseteq Launched(p)'
    BY <1>0
  <2>2. ASSUME NEW p \in Plans, rec'[p].state = "completed"
        PROVE  \E c \in Launched(p)' : proc'[c] = "ok"
    BY <1>0, <2>1, <2>2
  <2>3. ASSUME NEW p \in Plans, NEW c \in Launched(p), ctx[c] # "live"
        PROVE  c \in Launched(p)' /\ ctx'[c] = ctx[c]
    BY <1>0, <2>3
  <2>4. ASSUME NEW p \in Plans, rec'[p].state = "timed_out"
        PROVE  \E c \in Launched(p)' : ctx'[c] = "deadline"
    <3>1. PICK c \in Launched(p) : ctx[c] = "deadline"
      BY <1>0, <2>4
    <3>2. c \in Launched(p)' /\ ctx'[c] = "deadline"
      BY <2>3, <3>1
    <3> HIDE DEF Launched
    <3> QED
      BY <3>2
  <2>5. ASSUME NEW p \in Plans, rec'[p].state = "cancelled"
        PROVE  \E c \in Launched(p)' : ctx'[c] = "cancelled"
    <3>1. PICK c \in Launched(p) : ctx[c] = "cancelled"
      BY <1>0, <2>5
    <3>2. c \in Launched(p)' /\ ctx'[c] = "cancelled"
      BY <2>3, <3>1
    <3> HIDE DEF Launched
    <3> QED
      BY <3>2
  <2> QED
    BY <2>2, <2>4, <2>5
<1>1. ASSUME NEW c \in Calls, CallStep(c)
      PROVE  OutcomeHonest'
  <2>1. CASE Load(c)
    BY <2>1 DEF Load
  <2>2. CASE GiveUp(c)
    BY <2>2 DEF GiveUp
  <2>3. CASE CreateStdout(c)
    BY <2>3 DEF CreateStdout
  <2>4. CASE CreateStderr(c)
    BY <2>4 DEF CreateStderr
  <2>5. CASE StartProcess(c)
    BY <2>5 DEF StartProcess
  <2>6. CASE StartFails(c)
    BY <2>6 DEF StartFails
  <2>7. CASE RecordRunning(c)
    BY <2>7 DEF RecordRunning
  <2>8. CASE AbortStart(c)
    BY <2>8, <1>0, KillKeeps DEF AbortStart
  <2>9. CASE Register(c)
    BY <2>9, <1>0, KillKeeps DEF Register
  <2>10. CASE ProcessExits(c)
    BY <2>10 DEF ProcessExits
  <2>11. CASE Timeout(c)
    BY <2>11 DEF Timeout
  <2>12. CASE ReapExit(c)
    BY <2>12 DEF ReapExit
  <2>13. CASE KillRun(c)
    BY <2>13, <1>0, KillKeeps DEF KillRun
  <2>14. CASE RecordOutcome(c)
    BY <2>14 DEF RecordOutcome
  <2>15. CASE Unregister(c)
    BY <2>15 DEF Unregister
  <2>16. CASE BeginMaterialize(c)
    BY <2>16 DEF BeginMaterialize
  <2>17. CASE EndMaterialize(c)
    BY <2>17 DEF EndMaterialize
  <2>18. CASE AbandonMaterialize(c)
    BY <2>18 DEF AbandonMaterialize
  <2>19. CASE AwaitAborted(c)
    BY <2>19 DEF AwaitAborted
  <2>20. CASE PipeCloses(c)
    BY <2>20 DEF PipeCloses
  <2>21. CASE ReapKilled(c)
    BY <2>21 DEF ReapKilled
  <2> QED
    BY <1>1, <2>1, <2>2, <2>3, <2>4, <2>5, <2>6, <2>7, <2>8, <2>9, <2>10,
       <2>11, <2>12, <2>13, <2>14, <2>15, <2>16, <2>17, <2>18, <2>19, <2>20,
       <2>21 DEF CallStep
<1>2. CASE ServerStep
  BY <1>0, <1>2, ServersKeepRuns
<1>3. ASSUME NEW s \in Services, NEW p \in Plans, PlanStep(s, p)
      PROVE  OutcomeHonest'
  <2>1. CASE Prepare(s, p)
    BY <2>1 DEF Prepare
  <2>2. CASE Cancel(s, p)
    BY <2>2 DEF Cancel
  <2>3. CASE RecoverRun(s, p)
    BY <2>3 DEF RecoverRun
  <2> QED
    BY <1>3, <2>1, <2>2, <2>3 DEF PlanStep
<1>4. CASE UNCHANGED vars
  BY <1>4
<1> QED
  BY <1>1, <1>2, <1>3, <1>4 DEF Next, ServerStep

(* Only RecordRunning makes a record say running.                          *)
LEMMA RunningStarts ==
  ASSUME TypeOK, [Next]_vars, NEW p \in Plans, rec'[p].state = "running"
  PROVE  \/ rec'[p] = rec[p]
         \/ \E c \in Calls : plan[c] = p /\ RecordRunning(c)
<1> USE DEF TypeOK, Written, Matches, store, service, vars
<1>1. ASSUME NEW c \in Calls, CallStep(c)
      PROVE  rec'[p] = rec[p] \/ (plan[c] = p /\ RecordRunning(c))
  <2>1. CASE RecordRunning(c)
    BY <2>1 DEF RecordRunning
  <2>2. CASE StartFails(c) \/ BeginMaterialize(c) \/ EndMaterialize(c)
    BY <2>2 DEF StartFails, BeginMaterialize, EndMaterialize
  <2>3. CASE RecordOutcome(c)
    BY <2>3 DEF RecordOutcome, Concluded
  <2> QED
    BY <1>1, <2>1, <2>2, <2>3
       DEF CallStep, Load, GiveUp, CreateStdout, CreateStderr, StartProcess,
           AbortStart, AwaitAborted, Register, ProcessExits, PipeCloses,
           Timeout, ReapExit, KillRun, ReapKilled, Unregister,
           AbandonMaterialize
<1>2. CASE ServerStep
  BY <1>2, ServersKeepRuns
<1>3. ASSUME NEW s \in Services, NEW q \in Plans, PlanStep(s, q)
      PROVE  rec'[p] = rec[p]
  <2>1. CASE Prepare(s, q) \/ RecoverRun(s, q)
    BY <2>1 DEF Prepare, RecoverRun
  <2>2. CASE Cancel(s, q)
    BY <2>2 DEF Cancel
  <2> QED
    BY <1>3, <2>1, <2>2 DEF PlanStep
<1> QED
  BY <1>1, <1>2, <1>3 DEF Next, ServerStep

Owners == {"recorded", "waiting", "awaiting", "dead"} \union Concluded

(* The holder of a running record's revision gives it up by writing.       *)
LEMMA OwnerStays ==
  ASSUME TypeOK, UpdatesKnowState, LogTellsLauncher, RegistryTells, [Next]_vars,
         NEW c \in Calls, pc[c] \in Owners,
         rec[plan[c]].state = "running", held[c] = rec[plan[c]].rev,
         rec'[plan[c]] = rec[plan[c]]
  PROVE  pc'[c] \in Owners /\ held'[c] = held[c] /\ plan' = plan
<1> USE DEF TypeOK, Owners, Concluded, Go, store, service, args, local, vars
<1>1. ASSUME NEW d \in Calls, CallStep(d), d # c
      PROVE  pc'[c] = pc[c] /\ held'[c] = held[c] /\ plan' = plan
  BY <1>1 DEF CallStep, Load, GiveUp, CreateStdout, CreateStderr, StartProcess,
              StartFails, RecordRunning, AbortStart, AwaitAborted, Register,
              ProcessExits, PipeCloses, Timeout, ReapExit, KillRun, ReapKilled,
              RecordOutcome, Unregister, BeginMaterialize, EndMaterialize,
              AbandonMaterialize
<1>2. CASE CallStep(c)
  <2>1. CASE Register(c)
    <3>1. running[srv[c]][plan[c]] = NoCall
      BY <2>1, OwnEntryIsFree DEF Register
    <3> QED
      BY <2>1, <3>1 DEF Register
  <2>2. CASE ReapExit(c) \/ KillRun(c) \/ ReapKilled(c)
    BY <2>2 DEF ReapExit, KillRun, ReapKilled
  <2>3. CASE RecordOutcome(c)
    BY <2>3 DEF RecordOutcome, Matches, Written
  <2>4. CASE ProcessExits(c) \/ PipeCloses(c) \/ Timeout(c)
    BY <2>4 DEF ProcessExits, PipeCloses, Timeout
  <2> QED
    BY <1>2, <2>1, <2>2, <2>3, <2>4
       DEF CallStep, Load, GiveUp, CreateStdout, CreateStderr, StartProcess,
           StartFails, RecordRunning, AbortStart, AwaitAborted, Unregister,
           BeginMaterialize, EndMaterialize, AbandonMaterialize
<1>3. CASE ServerStep
  BY <1>3, ServersKeepRuns
<1>4. ASSUME NEW s \in Services, NEW p \in Plans, PlanStep(s, p)
      PROVE  pc'[c] \in Owners /\ held'[c] = held[c] /\ plan' = plan
  BY <1>4 DEF PlanStep, Prepare, Cancel, RecoverRun
<1>5. CASE UNCHANGED vars
  BY <1>5
<1> QED
  BY <1>1, <1>2, <1>3, <1>4, <1>5 DEF Next, ServerStep

(* A new owner comes with the record, and an old one stays.                *)
LEMMA NextOwned ==
  ASSUME TypeOK, UpdatesKnowState, LogTellsLauncher, RegistryTells,
         RunningIsOwned, [Next]_vars
  PROVE  RunningIsOwned'
<1> SUFFICES ASSUME NEW p \in Plans, rec'[p].state = "running"
             PROVE  \E c \in Calls : plan'[c] = p /\ held'[c] = rec'[p].rev
                                       /\ pc'[c] \in Owners
  BY DEF RunningIsOwned, Owners
<1>1. CASE rec'[p] = rec[p]
  <2>1. PICK c \in Calls : plan[c] = p /\ held[c] = rec[p].rev
                             /\ pc[c] \in Owners
    BY <1>1 DEF RunningIsOwned, Owners
  <2> QED
    BY <1>1, <2>1, OwnerStays
<1>2. ASSUME NEW c \in Calls, plan[c] = p, RecordRunning(c)
      PROVE  plan'[c] = p /\ held'[c] = rec'[p].rev /\ pc'[c] \in Owners
  BY <1>2 DEF RecordRunning, Matches, Written, Go, TypeOK, Owners, args
<1> QED
  BY <1>1, <1>2, RunningStarts

-----------------------------------------------------------------------------
(* The inductive invariant, and what every behaviour therefore keeps.      *)
Known ==
  /\ TypeOK
  /\ UpdatesKnowState
  /\ LogTellsLauncher
  /\ ModeDecides
  /\ PlaceTellsProcess
  /\ LauncherDecides
  /\ RegistryTells

LEMMA KnownAlways == Spec => []Known
<1> DEFINE More ==
      ModeDecides /\ PlaceTellsProcess /\ LauncherDecides /\ RegistryTells
<1>1. Init => More
  BY NoCallAssumption
     DEF Init, ModeDecides, PlaceTellsProcess, LauncherDecides, RegistryTells,
         Waiter, Concluded
<1>2. TypeOK /\ UpdatesKnowState /\ LogTellsLauncher /\ More /\ [Next]_vars
        => More'
  BY NextMode, NextPlace, NextDecides, NextRegistry
<1>3. TypeOK /\ UpdatesKnowState /\ LogTellsLauncher /\ More => Known
  BY DEF Known
<1> QED
  BY <1>1, <1>2, <1>3, TypesAlways, UpdatesAlwaysKnowState,
     LogAlwaysTellsLauncher, PTL DEF Spec

(* A receipt that says more than "interrupted" is never written while its  *)
(* process still runs.                                                     *)
THEOREM NoProcessSurvives == Spec => []NoSurvivor
<1>1. Known => NoSurvivor
  BY DEF Known, LauncherDecides, NoSurvivor, Launched, Terminal, Concluded
<1> QED
  BY <1>1, KnownAlways, PTL

(* A receipt's outcome is that of the plan's own process and context.      *)
THEOREM OutcomesAreHonest == Spec => []OutcomeHonest
<1>1. Init => OutcomeHonest
  BY DEF Init, OutcomeHonest
<1>2. Known /\ OutcomeHonest /\ [Next]_vars => OutcomeHonest'
  BY NextHonest DEF Known
<1> QED
  BY <1>1, <1>2, KnownAlways, PTL DEF Spec

(* No record says running that nobody is left to settle.                   *)
THEOREM RunningHasOwner == Spec => []RunningIsOwned
<1>1. Init => RunningIsOwned
  BY DEF Init, RunningIsOwned
<1>2. Known /\ RunningIsOwned /\ [Next]_vars => RunningIsOwned'
  BY NextOwned DEF Known
<1> QED
  BY <1>1, <1>2, KnownAlways, PTL DEF Spec

(* A snapshot never meets the goroutine of a registered run.               *)
THEOREM SnapshotsMeetNoRun == Spec => []SnapshotExcludesRegistered
<1>1. Init => SnapshotExcludesRegistered
  BY DEF Init, SnapshotExcludesRegistered
<1>2. Known /\ SnapshotExcludesRegistered /\ [Next]_vars
        => SnapshotExcludesRegistered'
  BY NextSnapshot DEF Known
<1> QED
  BY <1>1, <1>2, KnownAlways, PTL DEF Spec

(* Together: a receipt tells what happened to the one process of its plan. *)
THEOREM ReceiptsAreHonest == Spec => []ReceiptIsHonest
BY LaunchIsUnique, OutcomesAreHonest, NoProcessSurvives, PTL
   DEF ReceiptIsHonest

(* Together: every running record has its goroutine, and no snapshot meets *)
(* one.                                                                    *)
THEOREM RunsAlwaysOwned == Spec => []RunsAreOwned
BY RunningHasOwner, SnapshotsMeetNoRun, PTL DEF RunsAreOwned

-----------------------------------------------------------------------------
(* What one active server per state directory means (README.md:442); the   *)
(* server may switch between its services as often as it likes.            *)
OneServer == Servers = {Services}

(* A handler runs in a service in use, a goroutine also in one that closes. *)
CallsNeedService ==
  \A c \in Calls :
    /\ pc[c] \in Handler => status[srv[c]] = "up"
    /\ pc[c] \in Waiter  => status[srv[c]] \in {"up", "closing"}

(* A service recovers alone in its server, or beside a frozen one; beside  *)
(* a frozen one no other is in use; and only one in use, or put aside by a *)
(* switch, is locked.                                                      *)
ServicesTakeTurns ==
  /\ \A s \in Services : status[s] = "recovering" =>
       \A t \in Peers(s) : status[t] = "down" \/ Frozen(t)
  /\ \A s \in Services : Frozen(s) =>
       \A t \in Peers(s) : status[t] \in {"down", "recovering", "ready"}
  /\ \A s \in Services : lock[s] # "free" => status[s] \in {"up", "aside"}

(* To be in one server is an equivalence.                                  *)
LEMMA PeersTogether ==
  /\ \A s \in Services : s \notin Peers(s)
  /\ \A s, t \in Services : t \in Peers(s) => s \in Peers(t)
  /\ \A s, t, u \in Services :
       t \in Peers(s) /\ u \in Peers(s) => t = u \/ u \in Peers(t)
BY ServersAssumption DEF Peers

(* Who may recover, and beside whom, is kept by every step of a service.   *)
LEMMA NextTurns ==
  ASSUME TypeOK, ServicesTakeTurns, [Next]_vars
  PROVE  ServicesTakeTurns'
<1> USE DEF TypeOK, ServicesTakeTurns, Frozen
<1>0. ASSUME UNCHANGED <<status, lock>>
      PROVE  ServicesTakeTurns'
  BY <1>0
<1>1. ASSUME NEW S, Gone(S)
      PROVE  ServicesTakeTurns'
  <2>1. /\ \A s \in Services : status'[s] = IF s \in S THEN "down" ELSE status[s]
        /\ \A s \in Services : lock'[s] = IF s \in S THEN "free" ELSE lock[s]
    BY <1>1 DEF Gone
  <2>2. \A s \in Services : Peers(s) \subseteq Services
    BY DEF Peers
  <2>3. \A s \in Services : status'[s] # "down" =>
          status'[s] = status[s] /\ lock'[s] = lock[s]
    BY <2>1
  <2>4. \A s \in Services : status[s] = "down" => status'[s] = "down"
    BY <2>1
  <2>5. \A s \in Services : Frozen(s) => status'[s] = "down" \/ Frozen(s)'
    BY <2>1
  <2>6. \A s \in Services : status'[s] = "recovering" =>
          \A t \in Peers(s) : status'[t] = "down" \/ Frozen(t)'
    <3> SUFFICES ASSUME NEW r \in Services, status'[r] = "recovering",
                        NEW t \in Peers(r)
                 PROVE  status'[t] = "down" \/ Frozen(t)'
      OBVIOUS
    <3>1. t \in Services /\ status[r] = "recovering"
      BY <2>2, <2>3
    <3>2. status[t] = "down" \/ Frozen(t)
      BY <3>1
    <3> QED
      BY <2>1, <3>1, <3>2
  <2>7. \A s \in Services : Frozen(s)' =>
          \A t \in Peers(s) : status'[t] \in {"down", "recovering", "ready"}
    BY <2>2, <2>3
  <2>8. \A s \in Services : lock'[s] # "free" => status'[s] \in {"up", "aside"}
    BY <2>1
  <2> QED
    BY <2>6, <2>7, <2>8 DEF Peers
<1>2. ASSUME NEW s \in Services, ServiceStep(s)
      PROVE  ServicesTakeTurns'
  <2> USE PeersTogether
  <2>0. \A t \in Services : Peers(t) \subseteq Services
    BY DEF Peers
  <2>1. CASE BeginSnapshot(s)
    BY <2>0, <2>1 DEF BeginSnapshot, LockIdle
  <2>2. CASE EndSnapshot(s)
    BY <2>0, <2>2 DEF EndSnapshot
  <2>3. CASE Close(s)
    BY <2>0, <2>3 DEF Close
  <2>4. CASE Stop(s) \/ StartupFails(s)
    BY <1>1, <2>4 DEF Stop, StartupFails
  <2>5. CASE Open(s)
    BY <2>0, <2>5 DEF Open
  <2>6. CASE Serve(s)
    BY <2>0, <2>6 DEF Serve
  <2>7. CASE BeginSwitch(s)
    BY <2>0, <2>7 DEF BeginSwitch, LockIdle
  <2>8. CASE AbandonSwitch(s)
    <3>1. /\ status[s] = "up" /\ lock[s] = "switch" /\ s \notin Peers(s)
          /\ \A t \in Peers(s) : status[t] \in {"down", "recovering", "ready"}
      BY <2>8 DEF AbandonSwitch
    <3>2. /\ \A t \in Services :
               status'[t] = IF t \in Peers(s) THEN "down" ELSE status[t]
          /\ \A t \in Services : lock'[t] = IF t = s THEN "free" ELSE lock[t]
      BY <2>8 DEF AbandonSwitch
    <3>3. \A r \in Services : status[r] = "recovering" /\ s \in Peers(r) =>
            r \in Peers(s)
      OBVIOUS
    <3>4. \A r \in Services : status'[r] = "recovering" =>
            \A t \in Peers(r) : status'[t] = "down" \/ Frozen(t)'
      <4> SUFFICES ASSUME NEW r \in Services, status'[r] = "recovering",
                          NEW t \in Peers(r)
                   PROVE  status'[t] = "down" \/ Frozen(t)'
        OBVIOUS
      <4>1. t \in Services /\ status[r] = "recovering" /\ r \notin Peers(s)
        BY <2>0, <3>1, <3>2
      <4>2. t # s
        BY <3>3, <4>1
      <4>3. status[t] = "down" \/ Frozen(t)
        BY <4>1
      <4> QED
        BY <3>2, <4>1, <4>2, <4>3
    <3>5. \A r \in Services : Frozen(r)' => r # s /\ Frozen(r)
      BY <3>1, <3>2
    <3>6. \A r \in Services : Frozen(r)' =>
            \A t \in Peers(r) : status'[t] \in {"down", "recovering", "ready"}
      BY <2>0, <3>2, <3>5
    <3>7. \A r \in Services : lock'[r] # "free" => status'[r] \in {"up", "aside"}
      BY <3>1, <3>2
    <3> QED
      BY <3>4, <3>6, <3>7 DEF Peers
  <2>9. CASE FinishSwitch(s)
    BY <2>0, <2>9 DEF FinishSwitch
  <2> QED
    BY <1>2, <2>1, <2>2, <2>3, <2>4, <2>5, <2>6, <2>7, <2>8, <2>9 DEF ServiceStep
<1>3. ASSUME NEW s \in Services, NEW t \in Services, PairStep(s, t)
      PROVE  ServicesTakeTurns'
  <2> USE PeersTogether
  <2>0. \A u \in Services : Peers(u) \subseteq Services
    BY DEF Peers
  <2>1. CASE Swap(s, t)
    <3>1. /\ status[s] = "up" /\ status[t] = "ready" /\ lock[t] = "free"
          /\ status' = [status EXCEPT ![s] = "aside", ![t] = "up"]
          /\ lock' = lock
      BY <2>1 DEF Swap, service
    <3>2. ASSUME NEW r \in Services, status[r] = "recovering"
          PROVE  s \notin Peers(r) /\ t \notin Peers(r)
      <4>1. t \notin Peers(r)
        BY <3>1, <3>2
      <4>2. s \in Peers(r) => t \in Peers(r)
        BY <2>1, <3>1, <3>2 DEF Swap
      <4> QED
        BY <4>1, <4>2
    <3>3. ASSUME NEW r \in Services, Frozen(r), r # s
          PROVE  s \notin Peers(r) /\ t \notin Peers(r)
      <4>1. s \notin Peers(r)
        BY <3>1, <3>3
      <4>2. t \in Peers(r) => s \in Peers(r)
        BY <2>1, <3>1, <3>3 DEF Swap
      <4> QED
        BY <4>1, <4>2
    <3>4. \A r \in Services : r # s /\ r # t =>
            status'[r] = status[r] /\ lock'[r] = lock[r]
      BY <3>1
    <3>5. status'[s] = "aside" /\ status'[t] = "up" /\ lock'[t] = "free"
      BY <3>1
    <3>6. \A r \in Services : status'[r] = "recovering" =>
            r # s /\ r # t /\ status[r] = "recovering"
      BY <3>4, <3>5
    <3>7. \A r \in Services : status'[r] = "recovering" =>
            \A u \in Peers(r) : status'[u] = "down" \/ Frozen(u)'
      BY <2>0, <3>2, <3>4, <3>6
    <3>8. \A r \in Services : Frozen(r)' => r # s /\ r # t /\ Frozen(r)
      BY <3>4, <3>5
    <3>9. \A r \in Services : Frozen(r)' =>
            \A u \in Peers(r) : status'[u] \in {"down", "recovering", "ready"}
      BY <2>0, <3>3, <3>4, <3>8
    <3>10. \A r \in Services : lock'[r] # "free" => status'[r] \in {"up", "aside"}
      BY <3>1, <3>4, <3>5
    <3> QED
      BY <3>7, <3>9, <3>10 DEF Peers
  <2>2. CASE RollBack(s, t)
    <3>1. /\ status[s] = "aside" /\ status[t] = "up" /\ lock[t] = "free"
          /\ status' = [status EXCEPT ![s] = "up", ![t] = "closing"]
          /\ lock' = [lock EXCEPT ![s] = "free"]
      BY <2>2 DEF RollBack
    <3>2. ASSUME NEW r \in Services, status[r] = "recovering" \/ Frozen(r)
          PROVE  s \notin Peers(r) /\ t \notin Peers(r)
      BY <3>1, <3>2
    <3>3. \A r \in Services : r # s /\ r # t =>
            status'[r] = status[r] /\ lock'[r] = lock[r]
      BY <3>1
    <3>4. /\ status'[s] = "up" /\ lock'[s] = "free"
          /\ status'[t] = "closing" /\ lock'[t] = "free"
      BY <2>2, <3>1 DEF RollBack
    <3>5. \A r \in Services : status'[r] = "recovering" =>
            \A u \in Peers(r) : status'[u] = "down" \/ Frozen(u)'
      BY <2>0, <3>2, <3>3, <3>4
    <3>6. \A r \in Services : Frozen(r)' =>
            \A u \in Peers(r) : status'[u] \in {"down", "recovering", "ready"}
      <4> SUFFICES ASSUME NEW r \in Services, Frozen(r)', NEW u \in Peers(r)
                   PROVE  status'[u] \in {"down", "recovering", "ready"}
        OBVIOUS
      <4>1. r # s /\ r # t /\ Frozen(r)
        BY <3>3, <3>4
      <4>2. u \in Services /\ u # s /\ u # t
        BY <2>0, <3>2, <4>1
      <4> QED
        BY <3>3, <4>1, <4>2
    <3>7. \A r \in Services : lock'[r] # "free" => status'[r] \in {"up", "aside"}
      BY <3>3, <3>4
    <3> QED
      BY <3>5, <3>6, <3>7 DEF Peers
  <2> QED
    BY <1>3, <2>1, <2>2 DEF PairStep
<1>4. ASSUME NEW c \in Calls, CallStep(c)
      PROVE  ServicesTakeTurns'
  <2>1. UNCHANGED <<status, lock>>
    BY <1>4 DEF CallStep, Load, GiveUp, CreateStdout, CreateStderr,
       StartProcess, StartFails, RecordRunning, AbortStart, AwaitAborted,
       Register, ProcessExits, PipeCloses, Timeout, ReapExit, KillRun,
       ReapKilled, RecordOutcome, Unregister, BeginMaterialize,
       EndMaterialize, AbandonMaterialize, service
  <2> QED
    BY <1>0, <2>1
<1>5. ASSUME NEW s \in Services, NEW p \in Plans, PlanStep(s, p)
      PROVE  ServicesTakeTurns'
  BY <1>0, <1>5 DEF PlanStep, Prepare, Cancel, RecoverRun, service
<1>6. CASE UNCHANGED vars
  BY <1>0, <1>6 DEF vars, service
<1> QED
  BY <1>1, <1>2, <1>3, <1>4, <1>5, <1>6 DEF Next, Crash

(* Every step keeps the calls inside services in use: none is left in one  *)
(* that is put aside, for Swap waited for its handlers and the lock keeps  *)
(* its goroutines out.                                                     *)
LEMMA NextService ==
  ASSUME TypeOK, ServicesTakeTurns, SnapshotExcludesRegistered,
         CallsNeedService, [Next]_vars
  PROVE  CallsNeedService'
<1> USE DEF TypeOK, CallsNeedService, Go, store, service, args, local, vars
<1> USE DEF Concluded, PCs, Handler, Waiter
<1>1. ASSUME NEW c \in Calls, CallStep(c)
      PROVE  CallsNeedService'
  <2>1. UNCHANGED <<status, srv>>
    BY <1>1 DEF CallStep, Load, GiveUp, CreateStdout, CreateStderr,
       StartProcess, StartFails, RecordRunning, AbortStart, AwaitAborted,
       Register, ProcessExits, PipeCloses, Timeout, ReapExit, KillRun,
       ReapKilled, RecordOutcome, Unregister, BeginMaterialize,
       EndMaterialize, AbandonMaterialize
  <2>2. \A d \in Calls \ {c} : pc'[d] = pc[d]
    BY <1>1 DEF CallStep, Load, GiveUp, CreateStdout, CreateStderr,
       StartProcess, StartFails, RecordRunning, AbortStart, AwaitAborted,
       Register, ProcessExits, PipeCloses, Timeout, ReapExit, KillRun,
       ReapKilled, RecordOutcome, Unregister, BeginMaterialize,
       EndMaterialize, AbandonMaterialize
  <2>3. /\ pc'[c] \in Handler => status[srv[c]] = "up"
        /\ pc'[c] \in Waiter  => status[srv[c]] \in {"up", "closing"}
    <3>1. CASE Load(c) \/ GiveUp(c) \/ CreateStdout(c) \/ CreateStderr(c)
               \/ StartProcess(c) \/ StartFails(c)
      BY <3>1 DEF Load, GiveUp, CreateStdout, CreateStderr, StartProcess, StartFails
    <3>2. CASE RecordRunning(c) \/ AbortStart(c) \/ AwaitAborted(c) \/ Register(c)
      BY <3>2 DEF RecordRunning, AbortStart, AwaitAborted, Register
    <3>3. CASE ProcessExits(c) \/ PipeCloses(c) \/ Timeout(c)
      BY <3>3 DEF ProcessExits, PipeCloses, Timeout
    <3>4. CASE ReapExit(c) \/ KillRun(c) \/ ReapKilled(c) \/ RecordOutcome(c)
               \/ Unregister(c)
      BY <3>4 DEF ReapExit, KillRun, ReapKilled, RecordOutcome, Unregister
    <3>5. CASE BeginMaterialize(c) \/ EndMaterialize(c) \/ AbandonMaterialize(c)
      BY <3>5 DEF BeginMaterialize, EndMaterialize, AbandonMaterialize
    <3> QED
      BY <1>1, <3>1, <3>2, <3>3, <3>4, <3>5 DEF CallStep
  <2> QED
    BY <2>1, <2>2, <2>3
<1>2. ASSUME NEW S, Gone(S)
      PROVE  CallsNeedService'
  BY <1>2 DEF Gone
<1>3. ASSUME NEW s \in Services, ServiceStep(s)
      PROVE  CallsNeedService'
  <2>1. CASE Stop(s) \/ StartupFails(s)
    BY <1>2, <2>1 DEF Stop, StartupFails
  <2>2. CASE BeginSnapshot(s) \/ EndSnapshot(s) \/ BeginSwitch(s)
    BY <2>2 DEF BeginSnapshot, EndSnapshot, BeginSwitch, LockIdle
  <2>3. CASE Close(s)
    BY <2>3 DEF Close, Mine
  <2>4. CASE Open(s)
    BY <2>4 DEF Open
  <2>5. CASE Serve(s)
    BY <2>5 DEF Serve
  <2>6. CASE AbandonSwitch(s)
    <3>1. \A t \in Peers(s) : status[t] \in {"down", "recovering", "ready"}
      BY <2>6 DEF AbandonSwitch, ServicesTakeTurns
    <3> QED
      BY <2>6, <3>1 DEF AbandonSwitch
  <2>7. CASE FinishSwitch(s)
    BY <2>7 DEF FinishSwitch
  <2> QED
    BY <1>3, <2>1, <2>2, <2>3, <2>4, <2>5, <2>6, <2>7 DEF ServiceStep
<1>4. ASSUME NEW s \in Services, NEW t \in Services, PairStep(s, t)
      PROVE  CallsNeedService'
  <2>1. CASE Swap(s, t)
    <3>1. \A c \in Calls : srv[c] = s => pc[c] \notin Handler \union Waiter
      BY <2>1 DEF Swap, Frozen, SnapshotExcludesRegistered, Mine
    <3> QED
      BY <2>1, <3>1 DEF Swap
  <2>2. CASE RollBack(s, t)
    BY <2>2 DEF RollBack, Mine
  <2> QED
    BY <1>4, <2>1, <2>2 DEF PairStep
<1>5. ASSUME NEW s \in Services, NEW p \in Plans, PlanStep(s, p)
      PROVE  CallsNeedService'
  BY <1>5 DEF PlanStep, Prepare, Cancel, RecoverRun
<1>6. CASE UNCHANGED vars
  BY <1>6
<1> QED
  BY <1>1, <1>2, <1>3, <1>4, <1>5, <1>6 DEF Next, Crash

(* A record of a registered run changes by its own goroutine: stdout.log   *)
(* keeps every other call away, the mode every materialization, and the    *)
(* lock every switch that would recover.                                   *)
LEMMA RegisteredSettlesItself ==
  ASSUME OneServer, Known, SnapshotExcludesRegistered, ServicesTakeTurns,
         CallsNeedService, [Next]_vars,
         NEW c \in Calls, pc[c] \in Waiter, rec'[plan[c]] # rec[plan[c]]
  PROVE  rec'[plan[c]].state = pc[c]
<1> USE DEF Known, TypeOK, Written, Matches, store, service, args, vars
<1>1. stdoutLog[plan[c]] = c /\ mode[plan[c]] = "launch"
  BY DEF LogTellsLauncher, ModeDecides
<1>2. ASSUME NEW d \in Calls, CallStep(d)
      PROVE  rec'[plan[c]].state = pc[c]
  <2>1. CASE RecordOutcome(d)
    <3>1. plan[d] = plan[c] /\ rec' = Written(plan[d], pc[d])
      BY <2>1 DEF RecordOutcome
    <3>2. d = c
      BY <1>1, <2>1, <3>1 DEF RecordOutcome, LogTellsLauncher, Waiter
    <3> QED
      BY <3>1, <3>2
  <2>2. CASE StartFails(d) \/ RecordRunning(d)
    <3>1. pc[d] \in {"streams", "started"}
      BY <2>2 DEF StartFails, RecordRunning
    <3>2. d # c /\ stdoutLog[plan[d]] = d
      BY <3>1 DEF LogTellsLauncher, Waiter, Concluded
    <3> QED
      BY <1>1, <2>2, <3>2 DEF StartFails, RecordRunning
  <2>3. CASE BeginMaterialize(d) \/ EndMaterialize(d)
    <3>1. mode[plan[d]] = "reuse"
      BY <2>3 DEF BeginMaterialize, EndMaterialize, ModeDecides
    <3> QED
      BY <1>1, <2>3, <3>1 DEF BeginMaterialize, EndMaterialize
  <2> QED
    BY <1>2, <2>1, <2>2, <2>3
       DEF CallStep, Load, GiveUp, CreateStdout, CreateStderr, StartProcess,
           AbortStart, AwaitAborted, Register, ProcessExits, PipeCloses,
           Timeout, ReapExit, KillRun, ReapKilled, Unregister,
           AbandonMaterialize
<1>3. CASE ServerStep
  BY <1>3, ServersKeepRuns
<1>4. ASSUME NEW s \in Services, NEW p \in Plans, PlanStep(s, p)
      PROVE  rec'[plan[c]].state = pc[c]
  <2>1. CASE Prepare(s, p)
    <3>1. plan[c] # p
      BY <1>1, <2>1, NoCallAssumption DEF Prepare, ModeDecides
    <3> QED
      BY <2>1, <3>1 DEF Prepare
  <2>2. CASE RecoverRun(s, p)
    <3>1. status[s] = "recovering"
      BY <2>2 DEF RecoverRun
    <3>2. status[srv[c]] \in {"up", "closing"} /\ srv[c] \in Services
      BY DEF CallsNeedService
    <3>3. srv[c] \in Peers(s)
      BY <3>1, <3>2 DEF OneServer, Peers
    <3>4. lock[srv[c]] = "switch"
      BY <3>1, <3>2, <3>3 DEF ServicesTakeTurns, Frozen
    <3> QED
      BY <3>2, <3>4 DEF SnapshotExcludesRegistered, Mine
  <2>3. CASE Cancel(s, p)
    BY <2>3 DEF Cancel
  <2> QED
    BY <1>4, <2>1, <2>2, <2>3 DEF PlanStep
<1> QED
  BY <1>2, <1>3, <1>4 DEF Next, ServerStep

(* In one server, which recovers runs whenever it starts and whenever it   *)
(* switches, nobody but its own goroutine settles a registered run         *)
(* (execute.go:153-181 and 474-501, runtime_config.go:221-266).            *)
THEOREM RegisteredIsAlwaysSpared == OneServer /\ Spec => RegisteredIsSpared
<1> SUFFICES ASSUME OneServer
             PROVE  Spec => RegisteredIsSpared
  OBVIOUS
<1> DEFINE Inv == ServicesTakeTurns /\ CallsNeedService
<1>1. Init => Inv
  BY DEF Init, ServicesTakeTurns, CallsNeedService, Frozen, Handler, Waiter,
         Concluded
<1>2. Known /\ SnapshotExcludesRegistered /\ Inv /\ [Next]_vars => Inv'
  BY NextTurns, NextService DEF Known
<1>3. Known /\ SnapshotExcludesRegistered /\ Inv /\ [Next]_vars
        => [\A c \in Calls :
              pc[c] \in Waiter /\ rec'[plan[c]] # rec[plan[c]] =>
                rec'[plan[c]].state = pc[c]]_vars
  BY OneServer, RegisteredSettlesItself
<1> QED
  BY <1>1, <1>2, <1>3, KnownAlways, SnapshotsMeetNoRun, PTL
     DEF Spec, RegisteredIsSpared

-----------------------------------------------------------------------------
(* At most one call has launched a plan: the one stdout.log names.         *)
LEMMA OneLauncher ==
  ASSUME Known, NEW c \in Calls, stdoutLog[plan[c]] = c
  PROVE  Launched(plan[c]) = IF proc[c] = "none" THEN {} ELSE {c}
  BY DEF Known, LogTellsLauncher, Launched

(* How a step on one call's process shows in Processes.                    *)
LEMMA ProcessSteps ==
  ASSUME Known, NEW c \in Calls, stdoutLog[plan[c]] = c, plan' = plan,
         NEW result, proc' = [proc EXCEPT ![c] = result]
  PROVE  /\ Processes[plan[c]] = IF proc[c] = "none" THEN "none"
                                 ELSE IF proc[c] = "alive" THEN "alive"
                                 ELSE "gone"
         /\ Processes' = [Processes EXCEPT ![plan[c]] =
                            IF result = "none" THEN "none"
                            ELSE IF result = "alive" THEN "alive" ELSE "gone"]
<1> USE DEF Known, TypeOK
<1>1. Launched(plan[c]) = IF proc[c] = "none" THEN {} ELSE {c}
  BY OneLauncher
<1>2. Launched(plan[c])' = IF result = "none" THEN {} ELSE {c}
  BY DEF LogTellsLauncher, Launched
<1>3. \A p \in Plans : p # plan[c] =>
        /\ Launched(p)' = Launched(p)
        /\ \A d \in Launched(p) : proc'[d] = proc[d]
  BY DEF Launched
<1>4. Processes'[plan[c]] = IF result = "none" THEN "none"
                            ELSE IF result = "alive" THEN "alive" ELSE "gone"
  BY <1>2 DEF Processes
<1>5. \A p \in Plans : p # plan[c] => Processes'[p] = Processes[p]
  BY <1>3 DEF Processes
<1>6. Processes[plan[c]] = IF proc[c] = "none" THEN "none"
                           ELSE IF proc[c] = "alive" THEN "alive" ELSE "gone"
  BY <1>1 DEF Processes
<1>7. plan[c] \in Plans /\ DOMAIN Processes = Plans
        /\ Processes' = [p \in Plans |-> Processes'[p]]
  BY DEF Processes
<1> QED
  BY <1>4, <1>5, <1>6, <1>7

(* How an update of a record shows in Receipts.                            *)
LEMMA ReceiptWritten ==
  ASSUME TypeOK, NEW p \in Plans, NEW state, rec' = Written(p, state)
  PROVE  Receipts' = [Receipts EXCEPT ![p] = state]
  BY DEF TypeOK, Written, Receipts

(* A process that runs may end in a step; nothing else of the plan changes. *)
LEMMA KillIsExit ==
  ASSUME Known, NEW c \in Calls, stdoutLog[plan[c]] = c,
         proc' \in Kill(c), rec' = rec, plan' = plan
  PROVE  Receipt!Exit(plan[c]) \/ UNCHANGED <<Receipts, Processes>>
<1>1. Receipts' = Receipts
  BY DEF Receipts
<1>2. CASE proc[c] = "alive" /\ proc' # proc
  <2>1. proc' = [proc EXCEPT ![c] = "killed"]
    BY <1>2 DEF Kill, Known, TypeOK
  <2>2. Processes[plan[c]] = IF proc[c] = "none" THEN "none"
                             ELSE IF proc[c] = "alive" THEN "alive" ELSE "gone"
    BY <2>1, ProcessSteps
  <2>3. Processes' = [Processes EXCEPT ![plan[c]] =
                        IF "killed" = "none" THEN "none"
                        ELSE IF "killed" = "alive" THEN "alive" ELSE "gone"]
    BY <2>1, ProcessSteps
  <2> QED
    BY <1>1, <1>2, <2>2, <2>3 DEF Receipt!Exit
<1>3. CASE proc[c] # "alive" \/ proc' = proc
  <2>1. proc' = proc
    BY <1>3 DEF Kill, Known, TypeOK
  <2> QED
    BY <1>1, <2>1 DEF Processes, Launched
<1> QED
  BY <1>2, <1>3

(* Every step of the Runner is a step of RunReceipt, or none of its steps. *)
LEMMA StepImplements ==
  ASSUME Known, [Next]_vars
  PROVE  [Receipt!Next]_<<Receipts, Processes>>
<1> USE DEF store, service, args, local, vars
<1> DEFINE Goal == [Receipt!Next]_<<Receipts, Processes>>
<1>1. ASSUME rec' = rec, proc' = proc, plan' = plan
      PROVE  Goal
  BY <1>1 DEF Receipts, Processes, Launched
<1>2. ASSUME proc' = proc, plan' = plan
      PROVE  Processes' = Processes
  BY <1>2 DEF Processes, Launched
<1>3. \A c \in Calls : plan[c] \in Plans
  BY DEF Known, TypeOK
<1>4. \A p \in Plans : Receipts[p] = rec[p].state
  BY DEF Receipts
<1>5. ASSUME NEW c \in Calls, CallStep(c)
      PROVE  Goal
  <2>1. CASE StartProcess(c)
    <3>1. /\ stdoutLog[plan[c]] = c
          /\ rec[plan[c]].state = "prepared"
          /\ proc[c] = "none"
      BY <2>1 DEF StartProcess, Known, LogTellsLauncher, LauncherDecides,
                  PlaceTellsProcess
    <3>2. /\ Processes[plan[c]] = "none"
          /\ Processes' = [Processes EXCEPT ![plan[c]] = "alive"]
          /\ Receipts' = Receipts
      BY <2>1, <3>1, ProcessSteps DEF StartProcess, Receipts
    <3>3. Receipt!Launch(plan[c])
      BY <1>3, <1>4, <3>1, <3>2 DEF Receipt!Launch
    <3> QED
      BY <1>3, <3>3 DEF Receipt!Next
  <2>2. CASE StartFails(c)
    <3>1. /\ stdoutLog[plan[c]] = c
          /\ rec[plan[c]].state = "prepared"
          /\ proc[c] = "none"
      BY <2>2 DEF StartFails, Known, LogTellsLauncher, LauncherDecides,
                  PlaceTellsProcess
    <3>2. Processes[plan[c]] = "none"
      BY <1>3, <3>1, OneLauncher DEF Processes
    <3>3. CASE rec' = rec
      BY <2>2, <1>1, <3>3 DEF StartFails
    <3>4. CASE rec' = Written(plan[c], "failed")
      <4>1. Receipts' = [Receipts EXCEPT ![plan[c]] = "failed"]
        BY <1>3, <3>4, ReceiptWritten DEF Known
      <4>2. Receipt!StartFails(plan[c])
        BY <1>2, <1>3, <1>4, <2>2, <3>1, <3>2, <4>1
           DEF StartFails, Receipt!StartFails
      <4> QED
        BY <1>3, <4>2 DEF Receipt!Next
    <3> QED
      BY <2>2, <3>3, <3>4 DEF StartFails
  <2>3. CASE RecordRunning(c)
    <3>1. /\ stdoutLog[plan[c]] = c
          /\ rec[plan[c]].state = "prepared"
          /\ proc[c] # "none"
      BY <2>3 DEF RecordRunning, Known, LogTellsLauncher, LauncherDecides,
                  PlaceTellsProcess
    <3>2. Processes[plan[c]] # "none"
      BY <1>3, <3>1, OneLauncher DEF Processes
    <3>3. Receipts' = [Receipts EXCEPT ![plan[c]] = "running"]
      BY <1>3, <2>3, ReceiptWritten DEF RecordRunning, Known
    <3>4. Receipt!Run(plan[c])
      BY <1>2, <1>3, <1>4, <2>3, <3>1, <3>2, <3>3
         DEF RecordRunning, Receipt!Run
    <3> QED
      BY <1>3, <3>4 DEF Receipt!Next
  <2>4. CASE AbortStart(c) \/ KillRun(c)
    <3>1. stdoutLog[plan[c]] = c
      BY <2>4 DEF AbortStart, KillRun, Known, LogTellsLauncher, Waiter
    <3>2. Receipt!Exit(plan[c]) \/ UNCHANGED <<Receipts, Processes>>
      BY <2>4, <3>1, KillIsExit DEF AbortStart, KillRun
    <3> QED
      BY <1>3, <3>2 DEF Receipt!Next
  <2>5. CASE Register(c)
    <3>1. running[srv[c]][plan[c]] = NoCall
      BY <2>5, OwnEntryIsFree DEF Register, Known
    <3> QED
      BY <1>1, <2>5, <3>1 DEF Register
  <2>6. CASE ProcessExits(c)
    <3>1. stdoutLog[plan[c]] = c
      BY <2>6 DEF ProcessExits, Known, LogTellsLauncher
    <3>2. PICK result \in {"ok", "bad"} : proc' = [proc EXCEPT ![c] = result]
      BY <2>6 DEF ProcessExits
    <3>3. /\ Processes[plan[c]] = "alive"
          /\ Processes' = [Processes EXCEPT ![plan[c]] = "gone"]
          /\ Receipts' = Receipts
      BY <2>6, <3>1, <3>2, ProcessSteps DEF ProcessExits, Receipts
    <3> QED
      BY <1>3, <3>3 DEF Receipt!Exit, Receipt!Next
  <2>7. CASE RecordOutcome(c)
    <3>1. /\ stdoutLog[plan[c]] = c
          /\ proc[c] # "none" /\ proc[c] # "alive"
      BY <2>7 DEF RecordOutcome, Known, LogTellsLauncher, PlaceTellsProcess,
                  Waiter, Concluded
    <3>2. Processes[plan[c]] = "gone"
      BY <1>3, <3>1, OneLauncher DEF Processes
    <3>3. CASE rec' = rec
      BY <1>1, <2>7, <3>3 DEF RecordOutcome
    <3>4. CASE Matches(plan[c], held[c])
      <4>1. rec[plan[c]].state = "running"
        BY <2>7, <3>4 DEF RecordOutcome, Matches, Known, UpdatesKnowState,
                          HeldTellsState, Waiter
      <4>2. Receipts' = [Receipts EXCEPT ![plan[c]] = pc[c]]
        BY <1>3, <2>7, <3>4, ReceiptWritten DEF RecordOutcome, Known
      <4>3. pc[c] \in Receipt!Concluded
        BY <2>7 DEF RecordOutcome, Concluded, Receipt!Concluded
      <4>4. Receipt!Conclude(plan[c])
        BY <1>2, <1>3, <1>4, <2>7, <3>2, <4>1, <4>2, <4>3
           DEF RecordOutcome, Receipt!Conclude
      <4> QED
        BY <1>3, <4>4 DEF Receipt!Next
    <3> QED
      BY <2>7, <3>3, <3>4 DEF RecordOutcome
  <2>8. CASE BeginMaterialize(c)
    <3>1. rec[plan[c]].rev = 1 /\ mode[plan[c]] = "reuse"
      BY <2>8 DEF BeginMaterialize, Matches, Known, UpdatesKnowState,
                  HeldTellsState
    <3>2. rec[plan[c]].state = "prepared"
      BY <1>3, <3>1 DEF Known, UpdatesKnowState, RevisionTellsState
    <3>3. Launched(plan[c]) = {}
      BY <1>3, <3>1, NoCallAssumption
         DEF Launched, Known, LogTellsLauncher, ModeDecides
    <3>4. Processes[plan[c]] = "none"
      BY <1>3, <3>3 DEF Processes
    <3>5. Receipts' = [Receipts EXCEPT ![plan[c]] = "materializing"]
      BY <1>3, <2>8, ReceiptWritten DEF BeginMaterialize, Known
    <3>6. Receipt!Materialize(plan[c])
      BY <1>2, <1>3, <1>4, <2>8, <3>2, <3>4, <3>5
         DEF BeginMaterialize, Receipt!Materialize
    <3> QED
      BY <1>3, <3>6 DEF Receipt!Next
  <2>9. CASE EndMaterialize(c)
    <3>1. rec[plan[c]].state = "materializing"
      BY <2>9 DEF EndMaterialize, Matches, Known, UpdatesKnowState,
                  HeldTellsState
    <3>2. PICK state \in {"reused", "failed"} : rec' = Written(plan[c], state)
      BY <2>9 DEF EndMaterialize
    <3>3. Receipts' = [Receipts EXCEPT ![plan[c]] = state]
      BY <1>3, <3>2, ReceiptWritten DEF Known
    <3>4. Receipt!Reuse(plan[c])
      BY <1>2, <1>3, <1>4, <2>9, <3>1, <3>3 DEF EndMaterialize, Receipt!Reuse
    <3> QED
      BY <1>3, <3>4 DEF Receipt!Next
  <2>10. CASE \/ Load(c) \/ GiveUp(c) \/ CreateStdout(c) \/ CreateStderr(c)
              \/ AwaitAborted(c) \/ PipeCloses(c) \/ Timeout(c)
              \/ ReapExit(c) \/ ReapKilled(c) \/ Unregister(c)
              \/ AbandonMaterialize(c)
    BY <1>1, <2>10 DEF Load, GiveUp, CreateStdout, CreateStderr, AwaitAborted,
                       PipeCloses, Timeout, ReapExit, ReapKilled, Unregister,
                       AbandonMaterialize
  <2> QED
    BY <1>5, <2>1, <2>2, <2>3, <2>4, <2>5, <2>6, <2>7, <2>8, <2>9, <2>10
       DEF CallStep
<1>6. CASE ServerStep
  BY <1>1, <1>6, ServersKeepRuns DEF Known
<1>7. ASSUME NEW s \in Services, NEW p \in Plans, PlanStep(s, p)
      PROVE  Goal
  <2>1. CASE Prepare(s, p)
    <3>1. Receipts' = [Receipts EXCEPT ![p] = "prepared"]
      BY <2>1, ReceiptWritten DEF Prepare, Known
    <3>2. Receipt!Prepare(p)
      BY <1>2, <1>4, <2>1, <3>1 DEF Prepare, Receipt!Prepare
    <3> QED
      BY <3>2 DEF Receipt!Next
  <2>2. CASE RecoverRun(s, p)
    <3>1. rec[p].state \in {"running", "materializing"}
      BY <2>2 DEF RecoverRun, Matches, Known, UpdatesKnowState,
                  SeenTellsState, Owned
    <3>2. Receipts' = [Receipts EXCEPT ![p] = "interrupted"]
      BY <2>2, ReceiptWritten DEF RecoverRun, Known
    <3>3. Receipt!Interrupt(p)
      BY <1>2, <1>4, <2>2, <3>1, <3>2 DEF RecoverRun, Receipt!Interrupt
    <3> QED
      BY <3>3 DEF Receipt!Next
  <2>3. CASE Cancel(s, p)
    BY <1>1, <2>3 DEF Cancel
  <2> QED
    BY <1>7, <2>1, <2>2, <2>3 DEF PlanStep
<1>8. CASE UNCHANGED vars
  BY <1>1, <1>8
<1> QED
  BY <1>5, <1>6, <1>7, <1>8 DEF Next, ServerStep

(* Servers, calls, locks, files and revisions together are no more than    *)
(* the receipt and the one process that README.md:336-338 promises.        *)
THEOREM RunnerImplementsReceipt == Spec => ReceiptSpec
<1>1. Init => Receipt!Init
  BY DEF Init, Receipt!Init, Receipts, Processes, Launched
<1>2. Known /\ [Next]_vars => [Receipt!Next]_(Receipt!vars)
  BY StepImplements DEF Receipt!vars
<1> QED
  BY <1>1, <1>2, KnownAlways, PTL DEF Spec, ReceiptSpec, Receipt!Spec
=============================================================================
