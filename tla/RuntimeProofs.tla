--------------------------- MODULE RuntimeProofs ---------------------------
(***************************************************************************)
(* Theorems about the runtime configuration: RuntimeSwitch, the exchange   *)
(* of the bundle that calls are served by, and RuntimeAccess, the grants   *)
(* that last as long as the session (from RequestsFit on).                 *)
(*                                                                         *)
(* RuntimeSwitch, for any sets of calls and bundles and any bound on runs: *)
(* what a call was lent stays open under it, the end of every switch       *)
(* leaves one bundle to which everything belongs, and no run is registered *)
(* in a Runner that an export or a switch has frozen.  None of them is     *)
(* inductive: each needs to know which bundles a switch has in its hands   *)
(* at each of its places (SwitchPlace), and who may hold a Runner's mutex  *)
(* there (AdminHolds).                                                     *)
(*                                                                         *)
(* RuntimeAccess, for any sets of roots, paths, capabilities, requests,    *)
(* replies and revocations, and any limits: what is in effect is listed,   *)
(* and what is granted was asked for and accepted.  A path that the        *)
(* current root lets through is on its way into the list or out of the     *)
(* root (ReadableIsInHand); a reply that consumed a token leaves it spent  *)
(* (TokensAreSpent).                                                       *)
(***************************************************************************)
EXTENDS RuntimeSwitch, RuntimeAccess, TLAPS

(* The places between the build of the next bundle and the close of one.   *)
HasBoth == {"stopHTTP", "swap", "startHTTP", "finish", "swapBack", "undo"}

(* Those after the swap and before a swap back.                            *)
Swapped == {"startHTTP", "finish", "swapBack"}

(* From the busy check to the release.                                     *)
Checked == HasBoth \union {"build"}

(* Which bundle is lent, which is replaced and which is new, by where the  *)
(* request is.                                                             *)
SwitchPlace ==
  /\ admin = "down" => current = None /\ NoReader
  /\ admin # "down" => current \in Bundles
  /\ admin \in Checked \union {"probe"} => old \in Bundles
  /\ admin \in HasBoth => next \in Bundles /\ next # old
  /\ admin \in Swapped => current = next
  /\ admin \in (Checked \union {"probe"}) \ Swapped => current = old

(* No bundle exists but the one that is lent and those of the switch.      *)
ExistingAreInUse ==
  \A b \in Bundles :
    bundle[b] # "absent" <=> b = current \/ (admin \in HasBoth /\ b \in {old, next})

(* Settings and path grants follow the router; HTTP serves what it lends,  *)
(* and is off while that is replaced.                                      *)
AllFollowCurrent ==
  /\ admin # "down" => settings = current /\ access = current
  /\ http \in {current, None}
  /\ admin \in {"swap", "startHTTP", "swapBack", "undo", "shut", "down"} =>
       http = None

(* The switch keeps the old Runner's mutex as long as it needs it, and no  *)
(* longer; there is none to keep if that bundle is blocked.                *)
AdminHolds ==
  /\ \A b \in Bundles : mu[b] = Admin => b = old /\ admin \in Checked
  /\ admin \in Checked => mu[old] = Admin \/ bundle[old] = "blocked"

(* Runs are registered in open bundles only.                               *)
ClosedIsIdle == \A b \in Bundles : bundle[b] # "open" => runs[b] = 0

SwitchInv ==
  /\ TypeOK
  /\ SwitchPlace
  /\ ExistingAreInUse
  /\ AllFollowCurrent
  /\ AdminHolds
  /\ ClosedIsIdle
  /\ LentBundleStays
  /\ FrozenRunnerIsIdle

-----------------------------------------------------------------------------
(* A bundle that is closed has no runs.                                    *)
LEMMA CloseTypes ==
  ASSUME TypeOK, NEW b \in Bundles \union {None}, Close(b)
  PROVE  /\ bundle' \in [Bundles -> {"absent", "open", "blocked"}]
         /\ runs' \in [Bundles -> 0 .. MaxRuns]
<1>1. 0 \in 0 .. MaxRuns
  BY SwitchAssumption
<1> QED
  BY <1>1 DEF TypeOK, Close

(* Every step keeps every variable within its type.                        *)
LEMMA NextTypes ==
  ASSUME TypeOK, [Next]_vars
  PROVE  TypeOK'
<1> USE SwitchAssumption DEF TypeOK, Go, Released, Install, Writing, Inside, vars, callVars,
         adminVars, appVars
<1>1. ASSUME NEW c \in Callers, CallStep(c)
      PROVE  TypeOK'
  <2>1. CASE Call(c)
    BY <2>1 DEF Call
  <2>2. CASE Enter(c)
    BY <2>2 DEF Enter
  <2>3. CASE Leave(c)
    BY <2>3 DEF Leave
  <2>4. CASE Want(c)
    BY <2>4 DEF Want
  <2>5. CASE LockRun(c)
    <3>1. runs' \in [Bundles -> 0 .. MaxRuns]
      BY <2>5 DEF LockRun
    <3> QED
      BY <2>5, <3>1 DEF LockRun
  <2>6. CASE LockExport(c)
    BY <2>6 DEF LockExport
  <2>7. CASE EndExport(c)
    BY <2>7 DEF EndExport
  <2> QED
    BY <1>1, <2>1, <2>2, <2>3, <2>4, <2>5, <2>6, <2>7 DEF CallStep
<1>2. ASSUME NEW b \in Bundles, RunEnds(b)
      PROVE  TypeOK'
  BY <1>2 DEF RunEnds
<1>3. CASE AdminStep
  <2>1. CASE BeginSwitch
    BY <2>1 DEF BeginSwitch
  <2>2. CASE Probe
    BY <2>2 DEF Probe
  <2>3. CASE BuildFails
    BY <2>3 DEF BuildFails
  <2>4. ASSUME NEW b \in Bundles, Build(b)
        PROVE  TypeOK'
    BY <2>4 DEF Build
  <2>5. CASE StopHTTP
    BY <2>5 DEF StopHTTP
  <2>6. CASE StopHTTPTimesOut
    BY <2>6, CloseTypes DEF StopHTTPTimesOut
  <2>7. CASE Swap
    BY <2>7 DEF Swap
  <2>8. CASE StartHTTP
    BY <2>8 DEF StartHTTP
  <2>9. CASE StartHTTPFails
    BY <2>9 DEF StartHTTPFails
  <2>10. CASE SwapBack
    BY <2>10 DEF SwapBack
  <2>11. CASE Undo
    BY <2>11, CloseTypes DEF Undo
  <2>12. CASE Finish
    BY <2>12, CloseTypes DEF Finish
  <2>13. CASE ConfigureHTTP
    BY <2>13 DEF ConfigureHTTP
  <2>14. CASE BeginShutdown
    BY <2>14 DEF BeginShutdown
  <2>15. CASE Shutdown
    BY <2>15, CloseTypes DEF Shutdown
  <2> QED
    BY <1>3, <2>1, <2>2, <2>3, <2>4, <2>5, <2>6, <2>7, <2>8, <2>9, <2>10,
       <2>11, <2>12, <2>13, <2>14, <2>15 DEF AdminStep
<1>4. CASE UNCHANGED vars
  BY <1>4
<1> QED
  BY <1>1, <1>2, <1>3, <1>4 DEF Next

(* A switch knows at each of its places which bundle is which.             *)
LEMMA NextPlace ==
  ASSUME TypeOK, SwitchPlace, ExistingAreInUse, [Next]_vars
  PROVE  SwitchPlace'
<1> USE SwitchAssumption DEF SwitchPlace, NoReader, ExistingAreInUse,
         HasBoth, Swapped, Checked,
         TypeOK, Go, Released, Close, Install, Writing, Inside, vars, callVars,
         adminVars, appVars
<1>1. ASSUME NEW c \in Callers, CallStep(c)
      PROVE  SwitchPlace'
  <2>1. CASE Call(c)
    BY <2>1 DEF Call
  <2>2. CASE Enter(c)
    BY <2>2 DEF Enter
  <2>3. CASE Leave(c)
    BY <2>3 DEF Leave
  <2>4. CASE Want(c)
    BY <2>4 DEF Want
  <2>5. CASE LockRun(c)
    BY <2>5 DEF LockRun
  <2>6. CASE LockExport(c)
    BY <2>6 DEF LockExport
  <2>7. CASE EndExport(c)
    BY <2>7 DEF EndExport
  <2> QED
    BY <1>1, <2>1, <2>2, <2>3, <2>4, <2>5, <2>6, <2>7 DEF CallStep
<1>2. ASSUME NEW b \in Bundles, RunEnds(b)
      PROVE  SwitchPlace'
  BY <1>2 DEF RunEnds
<1>3. CASE AdminStep
  <2>1. CASE BeginSwitch
    BY <2>1 DEF BeginSwitch
  <2>2. CASE Probe
    BY <2>2 DEF Probe
  <2>3. CASE BuildFails
    BY <2>3 DEF BuildFails
  <2>4. ASSUME NEW b \in Bundles, Build(b)
        PROVE  SwitchPlace'
    BY <2>4 DEF Build
  <2>5. CASE StopHTTP
    BY <2>5 DEF StopHTTP
  <2>6. CASE StopHTTPTimesOut
    BY <2>6 DEF StopHTTPTimesOut
  <2>7. CASE Swap
    BY <2>7 DEF Swap
  <2>8. CASE StartHTTP
    BY <2>8 DEF StartHTTP
  <2>9. CASE StartHTTPFails
    BY <2>9 DEF StartHTTPFails
  <2>10. CASE SwapBack
    BY <2>10 DEF SwapBack
  <2>11. CASE Undo
    BY <2>11 DEF Undo
  <2>12. CASE Finish
    BY <2>12 DEF Finish
  <2>13. CASE ConfigureHTTP
    BY <2>13 DEF ConfigureHTTP
  <2>14. CASE BeginShutdown
    BY <2>14 DEF BeginShutdown
  <2>15. CASE Shutdown
    BY <2>15 DEF Shutdown
  <2> QED
    BY <1>3, <2>1, <2>2, <2>3, <2>4, <2>5, <2>6, <2>7, <2>8, <2>9, <2>10,
       <2>11, <2>12, <2>13, <2>14, <2>15 DEF AdminStep
<1>4. CASE UNCHANGED vars
  BY <1>4
<1> QED
  BY <1>1, <1>2, <1>3, <1>4 DEF Next

(* A bundle is built, swapped in and closed by one switch.                 *)
LEMMA NextExisting ==
  ASSUME TypeOK, SwitchPlace, ExistingAreInUse, [Next]_vars
  PROVE  ExistingAreInUse'
<1> USE SwitchAssumption DEF SwitchPlace, NoReader, ExistingAreInUse,
         HasBoth, Swapped, Checked,
         TypeOK, Go, Released, Close, Install, Writing, Inside, vars, callVars,
         adminVars, appVars
<1>1. ASSUME NEW c \in Callers, CallStep(c)
      PROVE  ExistingAreInUse'
  <2>1. CASE Call(c)
    BY <2>1 DEF Call
  <2>2. CASE Enter(c)
    BY <2>2 DEF Enter
  <2>3. CASE Leave(c)
    BY <2>3 DEF Leave
  <2>4. CASE Want(c)
    BY <2>4 DEF Want
  <2>5. CASE LockRun(c)
    BY <2>5 DEF LockRun
  <2>6. CASE LockExport(c)
    BY <2>6 DEF LockExport
  <2>7. CASE EndExport(c)
    BY <2>7 DEF EndExport
  <2> QED
    BY <1>1, <2>1, <2>2, <2>3, <2>4, <2>5, <2>6, <2>7 DEF CallStep
<1>2. ASSUME NEW b \in Bundles, RunEnds(b)
      PROVE  ExistingAreInUse'
  BY <1>2 DEF RunEnds
<1>3. CASE AdminStep
  <2>1. CASE BeginSwitch
    BY <2>1 DEF BeginSwitch
  <2>2. CASE Probe
    BY <2>2 DEF Probe
  <2>3. CASE BuildFails
    BY <2>3 DEF BuildFails
  <2>4. ASSUME NEW b \in Bundles, Build(b)
        PROVE  ExistingAreInUse'
    BY <2>4 DEF Build
  <2>5. CASE StopHTTP
    BY <2>5 DEF StopHTTP
  <2>6. CASE StopHTTPTimesOut
    BY <2>6 DEF StopHTTPTimesOut
  <2>7. CASE Swap
    BY <2>7 DEF Swap
  <2>8. CASE StartHTTP
    BY <2>8 DEF StartHTTP
  <2>9. CASE StartHTTPFails
    BY <2>9 DEF StartHTTPFails
  <2>10. CASE SwapBack
    BY <2>10 DEF SwapBack
  <2>11. CASE Undo
    BY <2>11 DEF Undo
  <2>12. CASE Finish
    BY <2>12 DEF Finish
  <2>13. CASE ConfigureHTTP
    BY <2>13 DEF ConfigureHTTP
  <2>14. CASE BeginShutdown
    BY <2>14 DEF BeginShutdown
  <2>15. CASE Shutdown
    BY <2>15 DEF Shutdown
  <2> QED
    BY <1>3, <2>1, <2>2, <2>3, <2>4, <2>5, <2>6, <2>7, <2>8, <2>9, <2>10,
       <2>11, <2>12, <2>13, <2>14, <2>15 DEF AdminStep
<1>4. CASE UNCHANGED vars
  BY <1>4
<1> QED
  BY <1>1, <1>2, <1>3, <1>4 DEF Next

(* What belongs to a bundle changes with it.                               *)
LEMMA NextFollow ==
  ASSUME TypeOK, SwitchPlace, AllFollowCurrent, [Next]_vars
  PROVE  AllFollowCurrent'
<1> USE SwitchAssumption DEF SwitchPlace, AllFollowCurrent, HasBoth, Swapped, Checked,
         TypeOK, Go, Released, Close, Install, Writing, Inside, vars, callVars,
         adminVars, appVars
<1>1. ASSUME NEW c \in Callers, CallStep(c)
      PROVE  AllFollowCurrent'
  <2>1. CASE Call(c)
    BY <2>1 DEF Call
  <2>2. CASE Enter(c)
    BY <2>2 DEF Enter
  <2>3. CASE Leave(c)
    BY <2>3 DEF Leave
  <2>4. CASE Want(c)
    BY <2>4 DEF Want
  <2>5. CASE LockRun(c)
    BY <2>5 DEF LockRun
  <2>6. CASE LockExport(c)
    BY <2>6 DEF LockExport
  <2>7. CASE EndExport(c)
    BY <2>7 DEF EndExport
  <2> QED
    BY <1>1, <2>1, <2>2, <2>3, <2>4, <2>5, <2>6, <2>7 DEF CallStep
<1>2. ASSUME NEW b \in Bundles, RunEnds(b)
      PROVE  AllFollowCurrent'
  BY <1>2 DEF RunEnds
<1>3. CASE AdminStep
  <2>1. CASE BeginSwitch
    BY <2>1 DEF BeginSwitch
  <2>2. CASE Probe
    BY <2>2 DEF Probe
  <2>3. CASE BuildFails
    BY <2>3 DEF BuildFails
  <2>4. ASSUME NEW b \in Bundles, Build(b)
        PROVE  AllFollowCurrent'
    BY <2>4 DEF Build
  <2>5. CASE StopHTTP
    BY <2>5 DEF StopHTTP
  <2>6. CASE StopHTTPTimesOut
    BY <2>6 DEF StopHTTPTimesOut
  <2>7. CASE Swap
    BY <2>7 DEF Swap
  <2>8. CASE StartHTTP
    BY <2>8 DEF StartHTTP
  <2>9. CASE StartHTTPFails
    BY <2>9 DEF StartHTTPFails
  <2>10. CASE SwapBack
    BY <2>10 DEF SwapBack
  <2>11. CASE Undo
    BY <2>11 DEF Undo
  <2>12. CASE Finish
    BY <2>12 DEF Finish
  <2>13. CASE ConfigureHTTP
    BY <2>13 DEF ConfigureHTTP
  <2>14. CASE BeginShutdown
    BY <2>14 DEF BeginShutdown
  <2>15. CASE Shutdown
    BY <2>15 DEF Shutdown
  <2> QED
    BY <1>3, <2>1, <2>2, <2>3, <2>4, <2>5, <2>6, <2>7, <2>8, <2>9, <2>10,
       <2>11, <2>12, <2>13, <2>14, <2>15 DEF AdminStep
<1>4. CASE UNCHANGED vars
  BY <1>4
<1> QED
  BY <1>1, <1>2, <1>3, <1>4 DEF Next

(* The write lock of the swap waits for every reader.                      *)
LEMMA NextLent ==
  ASSUME TypeOK, SwitchPlace, ExistingAreInUse, LentBundleStays, [Next]_vars
  PROVE  LentBundleStays'
<1> USE SwitchAssumption DEF SwitchPlace, ExistingAreInUse, LentBundleStays, NoReader,
         HasBoth, Swapped, Checked,
         TypeOK, Go, Released, Close, Install, Writing, Inside, vars, callVars,
         adminVars, appVars
<1>1. ASSUME NEW c \in Callers, CallStep(c)
      PROVE  LentBundleStays'
  <2>1. CASE Call(c)
    BY <2>1 DEF Call
  <2>2. CASE Enter(c)
    BY <2>2 DEF Enter
  <2>3. CASE Leave(c)
    BY <2>3 DEF Leave
  <2>4. CASE Want(c)
    BY <2>4 DEF Want
  <2>5. CASE LockRun(c)
    BY <2>5 DEF LockRun
  <2>6. CASE LockExport(c)
    BY <2>6 DEF LockExport
  <2>7. CASE EndExport(c)
    BY <2>7 DEF EndExport
  <2> QED
    BY <1>1, <2>1, <2>2, <2>3, <2>4, <2>5, <2>6, <2>7 DEF CallStep
<1>2. ASSUME NEW b \in Bundles, RunEnds(b)
      PROVE  LentBundleStays'
  BY <1>2 DEF RunEnds
<1>3. CASE AdminStep
  <2>1. CASE BeginSwitch
    BY <2>1 DEF BeginSwitch
  <2>2. CASE Probe
    BY <2>2 DEF Probe
  <2>3. CASE BuildFails
    BY <2>3 DEF BuildFails
  <2>4. ASSUME NEW b \in Bundles, Build(b)
        PROVE  LentBundleStays'
    BY <2>4 DEF Build
  <2>5. CASE StopHTTP
    BY <2>5 DEF StopHTTP
  <2>6. CASE StopHTTPTimesOut
    BY <2>6 DEF StopHTTPTimesOut
  <2>7. CASE Swap
    BY <2>7 DEF Swap
  <2>8. CASE StartHTTP
    BY <2>8 DEF StartHTTP
  <2>9. CASE StartHTTPFails
    BY <2>9 DEF StartHTTPFails
  <2>10. CASE SwapBack
    BY <2>10 DEF SwapBack
  <2>11. CASE Undo
    BY <2>11 DEF Undo
  <2>12. CASE Finish
    BY <2>12 DEF Finish
  <2>13. CASE ConfigureHTTP
    BY <2>13 DEF ConfigureHTTP
  <2>14. CASE BeginShutdown
    BY <2>14 DEF BeginShutdown
  <2>15. CASE Shutdown
    BY <2>15 DEF Shutdown
  <2> QED
    BY <1>3, <2>1, <2>2, <2>3, <2>4, <2>5, <2>6, <2>7, <2>8, <2>9, <2>10,
       <2>11, <2>12, <2>13, <2>14, <2>15 DEF AdminStep
<1>4. CASE UNCHANGED vars
  BY <1>4
<1> QED
  BY <1>1, <1>2, <1>3, <1>4 DEF Next

(* Only a call that was lent an open bundle registers a run.               *)
LEMMA NextClosed ==
  ASSUME TypeOK, SwitchPlace, ExistingAreInUse, LentBundleStays, ClosedIsIdle,
         [Next]_vars
  PROVE  ClosedIsIdle'
<1> USE SwitchAssumption DEF SwitchPlace, ExistingAreInUse, LentBundleStays, ClosedIsIdle,
         HasBoth, Swapped, Checked,
         TypeOK, Go, Released, Close, Install, Writing, Inside, vars, callVars,
         adminVars, appVars
<1>1. ASSUME NEW c \in Callers, CallStep(c)
      PROVE  ClosedIsIdle'
  <2>1. CASE Call(c)
    BY <2>1 DEF Call
  <2>2. CASE Enter(c)
    BY <2>2 DEF Enter
  <2>3. CASE Leave(c)
    BY <2>3 DEF Leave
  <2>4. CASE Want(c)
    BY <2>4 DEF Want
  <2>5. CASE LockRun(c)
    BY <2>5 DEF LockRun
  <2>6. CASE LockExport(c)
    BY <2>6 DEF LockExport
  <2>7. CASE EndExport(c)
    BY <2>7 DEF EndExport
  <2> QED
    BY <1>1, <2>1, <2>2, <2>3, <2>4, <2>5, <2>6, <2>7 DEF CallStep
<1>2. ASSUME NEW b \in Bundles, RunEnds(b)
      PROVE  ClosedIsIdle'
  BY <1>2 DEF RunEnds
<1>3. CASE AdminStep
  <2>1. CASE BeginSwitch
    BY <2>1 DEF BeginSwitch
  <2>2. CASE Probe
    BY <2>2 DEF Probe
  <2>3. CASE BuildFails
    BY <2>3 DEF BuildFails
  <2>4. ASSUME NEW b \in Bundles, Build(b)
        PROVE  ClosedIsIdle'
    BY <2>4 DEF Build
  <2>5. CASE StopHTTP
    BY <2>5 DEF StopHTTP
  <2>6. CASE StopHTTPTimesOut
    BY <2>6 DEF StopHTTPTimesOut
  <2>7. CASE Swap
    BY <2>7 DEF Swap
  <2>8. CASE StartHTTP
    BY <2>8 DEF StartHTTP
  <2>9. CASE StartHTTPFails
    BY <2>9 DEF StartHTTPFails
  <2>10. CASE SwapBack
    BY <2>10 DEF SwapBack
  <2>11. CASE Undo
    BY <2>11 DEF Undo
  <2>12. CASE Finish
    BY <2>12 DEF Finish
  <2>13. CASE ConfigureHTTP
    BY <2>13 DEF ConfigureHTTP
  <2>14. CASE BeginShutdown
    BY <2>14 DEF BeginShutdown
  <2>15. CASE Shutdown
    BY <2>15 DEF Shutdown
  <2> QED
    BY <1>3, <2>1, <2>2, <2>3, <2>4, <2>5, <2>6, <2>7, <2>8, <2>9, <2>10,
       <2>11, <2>12, <2>13, <2>14, <2>15 DEF AdminStep
<1>4. CASE UNCHANGED vars
  BY <1>4
<1> QED
  BY <1>1, <1>2, <1>3, <1>4 DEF Next

(* The switch takes the mutex in one place and releases it on every path.  *)
LEMMA NextHolds ==
  ASSUME TypeOK, SwitchPlace, ExistingAreInUse, AdminHolds, ExportSeesIdleRunner,
         [Next]_vars
  PROVE  AdminHolds'
<1> USE SwitchAssumption DEF SwitchPlace, ExistingAreInUse, AdminHolds, ExportSeesIdleRunner,
         HasBoth, Swapped, Checked,
         TypeOK, Go, Released, Close, Install, Writing, Inside, vars, callVars,
         adminVars, appVars
<1>1. ASSUME NEW c \in Callers, CallStep(c)
      PROVE  AdminHolds'
  <2>1. CASE Call(c)
    BY <2>1 DEF Call
  <2>2. CASE Enter(c)
    BY <2>2 DEF Enter
  <2>3. CASE Leave(c)
    BY <2>3 DEF Leave
  <2>4. CASE Want(c)
    BY <2>4 DEF Want
  <2>5. CASE LockRun(c)
    BY <2>5 DEF LockRun
  <2>6. CASE LockExport(c)
    BY <2>6 DEF LockExport
  <2>7. CASE EndExport(c)
    BY <2>7 DEF EndExport
  <2> QED
    BY <1>1, <2>1, <2>2, <2>3, <2>4, <2>5, <2>6, <2>7 DEF CallStep
<1>2. ASSUME NEW b \in Bundles, RunEnds(b)
      PROVE  AdminHolds'
  BY <1>2 DEF RunEnds
<1>3. CASE AdminStep
  <2>1. CASE BeginSwitch
    BY <2>1 DEF BeginSwitch
  <2>2. CASE Probe
    BY <2>2 DEF Probe
  <2>3. CASE BuildFails
    BY <2>3 DEF BuildFails
  <2>4. ASSUME NEW b \in Bundles, Build(b)
        PROVE  AdminHolds'
    BY <2>4 DEF Build
  <2>5. CASE StopHTTP
    BY <2>5 DEF StopHTTP
  <2>6. CASE StopHTTPTimesOut
    BY <2>6 DEF StopHTTPTimesOut
  <2>7. CASE Swap
    BY <2>7 DEF Swap
  <2>8. CASE StartHTTP
    BY <2>8 DEF StartHTTP
  <2>9. CASE StartHTTPFails
    BY <2>9 DEF StartHTTPFails
  <2>10. CASE SwapBack
    BY <2>10 DEF SwapBack
  <2>11. CASE Undo
    BY <2>11 DEF Undo
  <2>12. CASE Finish
    BY <2>12 DEF Finish
  <2>13. CASE ConfigureHTTP
    BY <2>13 DEF ConfigureHTTP
  <2>14. CASE BeginShutdown
    BY <2>14 DEF BeginShutdown
  <2>15. CASE Shutdown
    BY <2>15 DEF Shutdown
  <2> QED
    BY <1>3, <2>1, <2>2, <2>3, <2>4, <2>5, <2>6, <2>7, <2>8, <2>9, <2>10,
       <2>11, <2>12, <2>13, <2>14, <2>15 DEF AdminStep
<1>4. CASE UNCHANGED vars
  BY <1>4
<1> QED
  BY <1>1, <1>2, <1>3, <1>4 DEF Next

(* Whoever registers a run needs the mutex that an export or a switch has. *)
LEMMA NextFrozen ==
  ASSUME SwitchInv, [Next]_vars
  PROVE  FrozenRunnerIsIdle'
<1> USE SwitchAssumption DEF SwitchInv, SwitchPlace, ExistingAreInUse, AdminHolds, ClosedIsIdle,
         LentBundleStays, NoReader, FrozenRunnerIsIdle,
         ReplacedRunnerIsIdle, ExportSeesIdleRunner,
         HasBoth, Swapped, Checked,
         TypeOK, Go, Released, Close, Install, Writing, Inside, vars, callVars,
         adminVars, appVars
<1>1. ASSUME NEW c \in Callers, CallStep(c)
      PROVE  FrozenRunnerIsIdle'
  <2>1. CASE Call(c)
    BY <2>1 DEF Call
  <2>2. CASE Enter(c)
    BY <2>2 DEF Enter
  <2>3. CASE Leave(c)
    BY <2>3 DEF Leave
  <2>4. CASE Want(c)
    BY <2>4 DEF Want
  <2>5. CASE LockRun(c)
    BY <2>5 DEF LockRun
  <2>6. CASE LockExport(c)
    <3>1. ReplacedRunnerIsIdle'
      BY <2>6 DEF LockExport
    <3>2. ASSUME NEW d \in Callers, pc'[d] = "copying"
          PROVE  mu'[using'[d]] = d /\ runs'[using'[d]] = 0
      <4>1. using[c] \in Bundles /\ mu[using[c]] = None
        BY <2>6 DEF LockExport
      <4>2. CASE d = c
        BY <2>6, <3>2, <4>1, <4>2 DEF LockExport
      <4>3. CASE d # c
        BY <2>6, <3>2, <4>1, <4>3 DEF LockExport
      <4> QED
        BY <4>2, <4>3
    <3> QED
      BY <3>1, <3>2
  <2>7. CASE EndExport(c)
    BY <2>7 DEF EndExport
  <2> QED
    BY <1>1, <2>1, <2>2, <2>3, <2>4, <2>5, <2>6, <2>7 DEF CallStep
<1>2. ASSUME NEW b \in Bundles, RunEnds(b)
      PROVE  FrozenRunnerIsIdle'
  BY <1>2 DEF RunEnds
<1>3. CASE AdminStep
  <2>1. CASE BeginSwitch
    BY <2>1 DEF BeginSwitch
  <2>2. CASE Probe
    BY <2>2 DEF Probe
  <2>3. CASE BuildFails
    BY <2>3 DEF BuildFails
  <2>4. ASSUME NEW b \in Bundles, Build(b)
        PROVE  FrozenRunnerIsIdle'
    BY <2>4 DEF Build
  <2>5. CASE StopHTTP
    BY <2>5 DEF StopHTTP
  <2>6. CASE StopHTTPTimesOut
    BY <2>6 DEF StopHTTPTimesOut
  <2>7. CASE Swap
    BY <2>7 DEF Swap
  <2>8. CASE StartHTTP
    BY <2>8 DEF StartHTTP
  <2>9. CASE StartHTTPFails
    BY <2>9 DEF StartHTTPFails
  <2>10. CASE SwapBack
    BY <2>10 DEF SwapBack
  <2>11. CASE Undo
    BY <2>11 DEF Undo
  <2>12. CASE Finish
    BY <2>12 DEF Finish
  <2>13. CASE ConfigureHTTP
    BY <2>13 DEF ConfigureHTTP
  <2>14. CASE BeginShutdown
    BY <2>14 DEF BeginShutdown
  <2>15. CASE Shutdown
    BY <2>15 DEF Shutdown
  <2> QED
    BY <1>3, <2>1, <2>2, <2>3, <2>4, <2>5, <2>6, <2>7, <2>8, <2>9, <2>10,
       <2>11, <2>12, <2>13, <2>14, <2>15 DEF AdminStep
<1>4. CASE UNCHANGED vars
  BY <1>4
<1> QED
  BY <1>1, <1>2, <1>3, <1>4 DEF Next
-----------------------------------------------------------------------------
(* The application starts with one bundle, the one everything belongs to.  *)
LEMMA InitSwitchInv == Init => SwitchInv
<1>1. 0 \in 0 .. MaxRuns
  BY SwitchAssumption
<1> SUFFICES ASSUME Init
             PROVE  SwitchInv
  OBVIOUS
<1> USE SwitchAssumption DEF Init, Inside, Writing, HasBoth, Swapped, Checked
<1>2. TypeOK
  <2>1. current \in Bundles /\ settings = current /\ access = current
    OBVIOUS
  <2>2. bundle \in [Bundles -> {"absent", "open", "blocked"}]
    OBVIOUS
  <2>3. /\ runs \in [Bundles -> 0 .. MaxRuns]
        /\ mu \in [Bundles -> Callers \union {None, Admin}]
        /\ pc \in [Callers -> {"idle", "entering"} \union Inside]
        /\ using \in [Callers -> Bundles \union {None}]
    BY <1>1
  <2>4. http = None /\ old = None /\ next = None /\ admin = "idle" /\ hadHTTP = FALSE
    OBVIOUS
  <2> QED
    BY <2>1, <2>2, <2>3, <2>4 DEF TypeOK
<1>3. SwitchPlace /\ ExistingAreInUse /\ AllFollowCurrent
  BY DEF SwitchPlace, ExistingAreInUse, AllFollowCurrent
<1>4. AdminHolds /\ ClosedIsIdle
  BY DEF AdminHolds, ClosedIsIdle
<1>5. LentBundleStays /\ FrozenRunnerIsIdle
  BY DEF LentBundleStays, FrozenRunnerIsIdle, ReplacedRunnerIsIdle,
         ExportSeesIdleRunner
<1> QED
  BY <1>2, <1>3, <1>4, <1>5 DEF SwitchInv

LEMMA NextSwitchInv ==
  ASSUME SwitchInv, [Next]_vars
  PROVE  SwitchInv'
<1>1. /\ TypeOK /\ SwitchPlace /\ ExistingAreInUse /\ AllFollowCurrent
      /\ AdminHolds /\ ClosedIsIdle /\ LentBundleStays
      /\ ExportSeesIdleRunner
  BY DEF SwitchInv, FrozenRunnerIsIdle
<1> QED
  BY <1>1, NextTypes, NextPlace, NextExisting, NextFollow, NextLent, NextClosed,
     NextHolds, NextFrozen DEF SwitchInv

(* SwitchInv is inductive.                                                 *)
LEMMA SwitchInvAlways == Spec => []SwitchInv
<1>1. SwitchInv /\ [Next]_vars => SwitchInv'
  BY NextSwitchInv
<1> QED
  BY InitSwitchInv, <1>1, PTL DEF Spec

-----------------------------------------------------------------------------
(* Every variable keeps a value the code can give it; in particular the    *)
(* router lends an existing bundle until the application is closed.        *)
THEOREM SwitchTypesAlways == Spec => []TypeOK
<1>1. SwitchInv => TypeOK
  BY DEF SwitchInv
<1> QED
  BY SwitchInvAlways, <1>1, PTL

(* No call is ever left with services that were closed or replaced.        *)
THEOREM LentBundlesStay == Spec => []LentBundleStays
<1>1. SwitchInv => LentBundleStays
  BY DEF SwitchInv
<1> QED
  BY SwitchInvAlways, <1>1, PTL

(* However a switch ended, built or not, rolled back or not, one bundle is *)
(* left, unfrozen, and everything belongs to it.                           *)
THEOREM QuiescenceIsConsistent == Spec => []QuiescentIsConsistent
<1>1. SwitchInv => QuiescentIsConsistent
  BY DEF SwitchInv, QuiescentIsConsistent, SwitchPlace, ExistingAreInUse,
         AllFollowCurrent, AdminHolds, HasBoth, Checked
<1> QED
  BY SwitchInvAlways, <1>1, PTL

(* No run is registered in a Runner between the busy check of an export or *)
(* of a switch and its end.                                                *)
THEOREM FrozenRunnersAreIdle == Spec => []FrozenRunnerIsIdle
<1>1. SwitchInv => FrozenRunnerIsIdle
  BY DEF SwitchInv
<1> QED
  BY SwitchInvAlways, <1>1, PTL

-----------------------------------------------------------------------------
(* What is asked for is a path or a capability, as its kind says.          *)
RequestsFit ==
  request \in [Requests -> [kind : {"read", "export"}, item : Paths]
                  \union [kind : {"capability"}, item : Capabilities]]

(* A reply under way holds a token, of a read request if it has applied    *)
(* one; a reply not begun holds none.                                      *)
RepliesHoldTokens ==
  \A q \in Replies :
    /\ reply[q] = "idle" => token[q] = Nothing
    /\ reply[q] \in {"taken", "applied"} => token[q] \in Requests
    /\ reply[q] = "applied" => Asked(q).kind = "read"

(* A token that was consumed can be neither consumed again nor expire.     *)
TokensAreSpent ==
  \A q \in Replies :
    token[q] # Nothing => stage[token[q]] = "gone" /\ token[q] \notin expired

(* Before any rollback, a path that can be read is listed, or a reply is   *)
(* about to list it, or a revocation is about to withdraw it.              *)
ReadableIsInHand ==
  rollbacks = 0 =>
    \A p \in authority[root] :
      \/ p \in listed
      \/ \E q \in Replies : reply[q] = "applied" /\ Asked(q).item = p
      \/ \E v \in Revokers : revoking[v] = p

AccessInv ==
  /\ AccessTypeOK
  /\ RequestsFit
  /\ RepliesHoldTokens
  /\ TokensAreSpent
  /\ GrantsAreAnswered
  /\ CapabilitiesFollowGrants
  /\ ReadableIsInHand

-----------------------------------------------------------------------------
(* Every step keeps every variable within its type.                        *)
LEMMA AccessStepTypes ==
  ASSUME AccessTypeOK, RequestsFit, RepliesHoldTokens, [AccessNext]_accessVars
  PROVE  AccessTypeOK'
<1> USE AccessAssumption
        DEF AccessTypeOK, RequestsFit, RepliesHoldTokens, Kinds, Asked,
         Pending, RebindRoot, accessVars, grantVars, requestVars, replyVars,
         rootVars
<1>1. ASSUME NEW r \in Requests, Propose(r)
      PROVE  AccessTypeOK'
  BY <1>1 DEF Propose
<1>2. ASSUME NEW r \in Requests, Enqueue(r)
      PROVE  AccessTypeOK'
  BY <1>2 DEF Enqueue
<1>3. ASSUME NEW r \in Requests, Expire(r)
      PROVE  AccessTypeOK'
  BY <1>3 DEF Expire
<1>4. ASSUME NEW q \in Replies, NEW r \in Requests,
             NEW accepted \in BOOLEAN, Take(q, r, accepted)
      PROVE  AccessTypeOK'
  <2>1. stage' \in [Requests -> {"idle", "planned", "pending", "gone"}]
    BY <1>4 DEF Take
  <2>2. CASE r \in Pending \ expired /\ accepted
    BY <1>4, <2>1, <2>2 DEF Take
  <2>3. CASE ~ (r \in Pending \ expired /\ accepted)
    BY <1>4, <2>1, <2>3 DEF Take
  <2> QED
    BY <2>2, <2>3
<1>5. ASSUME NEW q \in Replies, ApplyRead(q)
      PROVE  AccessTypeOK'
  BY <1>5 DEF ApplyRead
<1>6. ASSUME NEW q \in Replies, ListRead(q)
      PROVE  AccessTypeOK'
  BY <1>6 DEF ListRead
<1>7. ASSUME NEW q \in Replies, GrantExport(q)
      PROVE  AccessTypeOK'
  BY <1>7 DEF GrantExport
<1>8. ASSUME NEW q \in Replies, GrantCapability(q)
      PROVE  AccessTypeOK'
  BY <1>8 DEF GrantCapability
<1>9. ASSUME NEW v \in Revokers, NEW p \in Paths, UnlistRead(v, p)
      PROVE  AccessTypeOK'
  BY <1>9 DEF UnlistRead
<1>10. ASSUME NEW v \in Revokers, RevokeRead(v)
      PROVE  AccessTypeOK'
  BY <1>10 DEF RevokeRead
<1>11. CASE RevokeExport
  BY <1>11 DEF RevokeExport
<1>12. ASSUME NEW k \in Capabilities, RevokeCapability(k)
      PROVE  AccessTypeOK'
  BY <1>12 DEF RevokeCapability
<1>13. ASSUME NEW x \in Roots, SwitchTo(x)
      PROVE  AccessTypeOK'
  BY <1>13 DEF SwitchTo
<1>14. CASE SwitchSettles
  BY <1>14 DEF SwitchSettles
<1>15. CASE RollBack
  BY <1>15 DEF RollBack
<1>16. CASE UNCHANGED accessVars
  BY <1>16
<1> QED
  BY <1>1, <1>2, <1>3, <1>4, <1>5, <1>6, <1>7, <1>8, <1>9, <1>10, <1>11,
     <1>12, <1>13, <1>14, <1>15, <1>16 DEF AccessNext

(* A request is what it was when it was made.                              *)
LEMMA NextRequests ==
  ASSUME RequestsFit, [AccessNext]_accessVars
  PROVE  RequestsFit'
<1> USE DEF RequestsFit, RebindRoot, accessVars, grantVars, requestVars, replyVars,
         rootVars
<1>1. ASSUME NEW r \in Requests, Propose(r)
      PROVE  RequestsFit'
  BY <1>1 DEF Propose
<1>2. ASSUME NEW r \in Requests, Enqueue(r)
      PROVE  RequestsFit'
  BY <1>2 DEF Enqueue
<1>3. ASSUME NEW r \in Requests, Expire(r)
      PROVE  RequestsFit'
  BY <1>3 DEF Expire
<1>4. ASSUME NEW q \in Replies, NEW r \in Requests,
             NEW accepted \in BOOLEAN, Take(q, r, accepted)
      PROVE  RequestsFit'
  BY <1>4 DEF Take
<1>5. ASSUME NEW q \in Replies, ApplyRead(q)
      PROVE  RequestsFit'
  BY <1>5 DEF ApplyRead
<1>6. ASSUME NEW q \in Replies, ListRead(q)
      PROVE  RequestsFit'
  BY <1>6 DEF ListRead
<1>7. ASSUME NEW q \in Replies, GrantExport(q)
      PROVE  RequestsFit'
  BY <1>7 DEF GrantExport
<1>8. ASSUME NEW q \in Replies, GrantCapability(q)
      PROVE  RequestsFit'
  BY <1>8 DEF GrantCapability
<1>9. ASSUME NEW v \in Revokers, NEW p \in Paths, UnlistRead(v, p)
      PROVE  RequestsFit'
  BY <1>9 DEF UnlistRead
<1>10. ASSUME NEW v \in Revokers, RevokeRead(v)
      PROVE  RequestsFit'
  BY <1>10 DEF RevokeRead
<1>11. CASE RevokeExport
  BY <1>11 DEF RevokeExport
<1>12. ASSUME NEW k \in Capabilities, RevokeCapability(k)
      PROVE  RequestsFit'
  BY <1>12 DEF RevokeCapability
<1>13. ASSUME NEW x \in Roots, SwitchTo(x)
      PROVE  RequestsFit'
  BY <1>13 DEF SwitchTo
<1>14. CASE SwitchSettles
  BY <1>14 DEF SwitchSettles
<1>15. CASE RollBack
  BY <1>15 DEF RollBack
<1>16. CASE UNCHANGED accessVars
  BY <1>16
<1> QED
  BY <1>1, <1>2, <1>3, <1>4, <1>5, <1>6, <1>7, <1>8, <1>9, <1>10, <1>11,
     <1>12, <1>13, <1>14, <1>15, <1>16 DEF AccessNext

(* A reply takes its token first, and keeps it.                            *)
LEMMA NextReplies ==
  ASSUME AccessTypeOK, RequestsFit, RepliesHoldTokens, [AccessNext]_accessVars
  PROVE  RepliesHoldTokens'
<1> USE AccessAssumption
        DEF AccessTypeOK, RequestsFit, RepliesHoldTokens, Kinds, Asked,
         Pending, RebindRoot, accessVars, grantVars, requestVars, replyVars,
         rootVars
<1>1. ASSUME NEW r \in Requests, Propose(r)
      PROVE  RepliesHoldTokens'
  BY <1>1 DEF Propose
<1>2. ASSUME NEW r \in Requests, Enqueue(r)
      PROVE  RepliesHoldTokens'
  BY <1>2 DEF Enqueue
<1>3. ASSUME NEW r \in Requests, Expire(r)
      PROVE  RepliesHoldTokens'
  BY <1>3 DEF Expire
<1>4. ASSUME NEW q \in Replies, NEW r \in Requests,
             NEW accepted \in BOOLEAN, Take(q, r, accepted)
      PROVE  RepliesHoldTokens'
  BY <1>4 DEF Take
<1>5. ASSUME NEW q \in Replies, ApplyRead(q)
      PROVE  RepliesHoldTokens'
  BY <1>5 DEF ApplyRead
<1>6. ASSUME NEW q \in Replies, ListRead(q)
      PROVE  RepliesHoldTokens'
  BY <1>6 DEF ListRead
<1>7. ASSUME NEW q \in Replies, GrantExport(q)
      PROVE  RepliesHoldTokens'
  BY <1>7 DEF GrantExport
<1>8. ASSUME NEW q \in Replies, GrantCapability(q)
      PROVE  RepliesHoldTokens'
  BY <1>8 DEF GrantCapability
<1>9. ASSUME NEW v \in Revokers, NEW p \in Paths, UnlistRead(v, p)
      PROVE  RepliesHoldTokens'
  BY <1>9 DEF UnlistRead
<1>10. ASSUME NEW v \in Revokers, RevokeRead(v)
      PROVE  RepliesHoldTokens'
  BY <1>10 DEF RevokeRead
<1>11. CASE RevokeExport
  BY <1>11 DEF RevokeExport
<1>12. ASSUME NEW k \in Capabilities, RevokeCapability(k)
      PROVE  RepliesHoldTokens'
  BY <1>12 DEF RevokeCapability
<1>13. ASSUME NEW x \in Roots, SwitchTo(x)
      PROVE  RepliesHoldTokens'
  BY <1>13 DEF SwitchTo
<1>14. CASE SwitchSettles
  BY <1>14 DEF SwitchSettles
<1>15. CASE RollBack
  BY <1>15 DEF RollBack
<1>16. CASE UNCHANGED accessVars
  BY <1>16
<1> QED
  BY <1>1, <1>2, <1>3, <1>4, <1>5, <1>6, <1>7, <1>8, <1>9, <1>10, <1>11,
     <1>12, <1>13, <1>14, <1>15, <1>16 DEF AccessNext

(* Complete removes a token from the pending ones whatever it answers.     *)
LEMMA NextSpent ==
  ASSUME AccessTypeOK, RepliesHoldTokens, TokensAreSpent, [AccessNext]_accessVars
  PROVE  TokensAreSpent'
<1> USE AccessAssumption
        DEF AccessTypeOK, RepliesHoldTokens, TokensAreSpent, Asked,
         Pending, RebindRoot, accessVars, grantVars, requestVars, replyVars,
         rootVars
<1>1. ASSUME NEW r \in Requests, Propose(r)
      PROVE  TokensAreSpent'
  BY <1>1 DEF Propose
<1>2. ASSUME NEW r \in Requests, Enqueue(r)
      PROVE  TokensAreSpent'
  BY <1>2 DEF Enqueue
<1>3. ASSUME NEW r \in Requests, Expire(r)
      PROVE  TokensAreSpent'
  BY <1>3 DEF Expire
<1>4. ASSUME NEW q \in Replies, NEW r \in Requests,
             NEW accepted \in BOOLEAN, Take(q, r, accepted)
      PROVE  TokensAreSpent'
  BY <1>4 DEF Take
<1>5. ASSUME NEW q \in Replies, ApplyRead(q)
      PROVE  TokensAreSpent'
  BY <1>5 DEF ApplyRead
<1>6. ASSUME NEW q \in Replies, ListRead(q)
      PROVE  TokensAreSpent'
  BY <1>6 DEF ListRead
<1>7. ASSUME NEW q \in Replies, GrantExport(q)
      PROVE  TokensAreSpent'
  BY <1>7 DEF GrantExport
<1>8. ASSUME NEW q \in Replies, GrantCapability(q)
      PROVE  TokensAreSpent'
  BY <1>8 DEF GrantCapability
<1>9. ASSUME NEW v \in Revokers, NEW p \in Paths, UnlistRead(v, p)
      PROVE  TokensAreSpent'
  BY <1>9 DEF UnlistRead
<1>10. ASSUME NEW v \in Revokers, RevokeRead(v)
      PROVE  TokensAreSpent'
  BY <1>10 DEF RevokeRead
<1>11. CASE RevokeExport
  BY <1>11 DEF RevokeExport
<1>12. ASSUME NEW k \in Capabilities, RevokeCapability(k)
      PROVE  TokensAreSpent'
  BY <1>12 DEF RevokeCapability
<1>13. ASSUME NEW x \in Roots, SwitchTo(x)
      PROVE  TokensAreSpent'
  BY <1>13 DEF SwitchTo
<1>14. CASE SwitchSettles
  BY <1>14 DEF SwitchSettles
<1>15. CASE RollBack
  BY <1>15 DEF RollBack
<1>16. CASE UNCHANGED accessVars
  BY <1>16
<1> QED
  BY <1>1, <1>2, <1>3, <1>4, <1>5, <1>6, <1>7, <1>8, <1>9, <1>10, <1>11,
     <1>12, <1>13, <1>14, <1>15, <1>16 DEF AccessNext

(* A grant is made by a reply whose token was spent on it.                 *)
LEMMA NextAnswered ==
  ASSUME AccessTypeOK, RequestsFit, RepliesHoldTokens, TokensAreSpent,
         GrantsAreAnswered, [AccessNext]_accessVars
  PROVE  GrantsAreAnswered'
<1> USE AccessAssumption
        DEF AccessTypeOK, RequestsFit, RepliesHoldTokens, TokensAreSpent, Asked, Kinds,
         GrantsAreAnswered, TokenSpentOnce, GrantsWereAccepted,
         Pending, RebindRoot, accessVars, grantVars, requestVars, replyVars,
         rootVars
<1>1. ASSUME NEW r \in Requests, Propose(r)
      PROVE  GrantsAreAnswered'
  BY <1>1 DEF Propose
<1>2. ASSUME NEW r \in Requests, Enqueue(r)
      PROVE  GrantsAreAnswered'
  BY <1>2 DEF Enqueue
<1>3. ASSUME NEW r \in Requests, Expire(r)
      PROVE  GrantsAreAnswered'
  BY <1>3 DEF Expire
<1>4. ASSUME NEW q \in Replies, NEW r \in Requests,
             NEW accepted \in BOOLEAN, Take(q, r, accepted)
      PROVE  GrantsAreAnswered'
  <2>1. CASE r \in Pending \ expired /\ accepted
    <3>1. /\ reply[q] = "idle" /\ token[q] = Nothing
          /\ r \notin expired /\ stage[r] = "pending"
          /\ token' = [token EXCEPT ![q] = r]
          /\ UNCHANGED <<listed, granted, exportTo, request, expired>>
      BY <1>4, <2>1 DEF Take
    <3>2. \A t \in Replies : token[t] # r
      BY <3>1
    <3>3. TokenSpentOnce'
      BY <3>1, <3>2
    <3>4. ASSUME NEW t \in Replies, token[t] # Nothing
          PROVE  token'[t] = token[t] /\ token'[t] # Nothing
      BY <3>1, <3>4
    <3>5. GrantsWereAccepted'
      BY <3>1, <3>4
    <3> QED
      BY <3>3, <3>5
  <2>2. CASE ~ (r \in Pending \ expired /\ accepted)
    BY <1>4, <2>2 DEF Take
  <2> QED
    BY <2>1, <2>2
<1>5. ASSUME NEW q \in Replies, ApplyRead(q)
      PROVE  GrantsAreAnswered'
  BY <1>5 DEF ApplyRead
<1>6. ASSUME NEW q \in Replies, ListRead(q)
      PROVE  GrantsAreAnswered'
  BY <1>6 DEF ListRead
<1>7. ASSUME NEW q \in Replies, GrantExport(q)
      PROVE  GrantsAreAnswered'
  BY <1>7 DEF GrantExport
<1>8. ASSUME NEW q \in Replies, GrantCapability(q)
      PROVE  GrantsAreAnswered'
  BY <1>8 DEF GrantCapability
<1>9. ASSUME NEW v \in Revokers, NEW p \in Paths, UnlistRead(v, p)
      PROVE  GrantsAreAnswered'
  BY <1>9 DEF UnlistRead
<1>10. ASSUME NEW v \in Revokers, RevokeRead(v)
      PROVE  GrantsAreAnswered'
  BY <1>10 DEF RevokeRead
<1>11. CASE RevokeExport
  BY <1>11 DEF RevokeExport
<1>12. ASSUME NEW k \in Capabilities, RevokeCapability(k)
      PROVE  GrantsAreAnswered'
  BY <1>12 DEF RevokeCapability
<1>13. ASSUME NEW x \in Roots, SwitchTo(x)
      PROVE  GrantsAreAnswered'
  BY <1>13 DEF SwitchTo
<1>14. CASE SwitchSettles
  BY <1>14 DEF SwitchSettles
<1>15. CASE RollBack
  BY <1>15 DEF RollBack
<1>16. CASE UNCHANGED accessVars
  BY <1>16
<1> HIDE DEF AccessTypeOK, RequestsFit, RepliesHoldTokens, TokensAreSpent,
             GrantsAreAnswered, TokenSpentOnce, GrantsWereAccepted
<1> QED
  BY <1>1, <1>2, <1>3, <1>4, <1>5, <1>6, <1>7, <1>8, <1>9, <1>10, <1>11,
     <1>12, <1>13, <1>14, <1>15, <1>16 DEF AccessNext

(* A capability is listed and switched on, or off, in one step.            *)
LEMMA CapabilitiesFollow ==
  ASSUME AccessTypeOK, RequestsFit, CapabilitiesFollowGrants, [AccessNext]_accessVars
  PROVE  CapabilitiesFollowGrants'
<1> USE AccessAssumption
        DEF AccessTypeOK, RequestsFit, CapabilitiesFollowGrants, Asked,
         Pending, RebindRoot, accessVars, grantVars, requestVars, replyVars,
         rootVars
<1>1. ASSUME NEW r \in Requests, Propose(r)
      PROVE  CapabilitiesFollowGrants'
  BY <1>1 DEF Propose
<1>2. ASSUME NEW r \in Requests, Enqueue(r)
      PROVE  CapabilitiesFollowGrants'
  BY <1>2 DEF Enqueue
<1>3. ASSUME NEW r \in Requests, Expire(r)
      PROVE  CapabilitiesFollowGrants'
  BY <1>3 DEF Expire
<1>4. ASSUME NEW q \in Replies, NEW r \in Requests,
             NEW accepted \in BOOLEAN, Take(q, r, accepted)
      PROVE  CapabilitiesFollowGrants'
  BY <1>4 DEF Take
<1>5. ASSUME NEW q \in Replies, ApplyRead(q)
      PROVE  CapabilitiesFollowGrants'
  BY <1>5 DEF ApplyRead
<1>6. ASSUME NEW q \in Replies, ListRead(q)
      PROVE  CapabilitiesFollowGrants'
  BY <1>6 DEF ListRead
<1>7. ASSUME NEW q \in Replies, GrantExport(q)
      PROVE  CapabilitiesFollowGrants'
  BY <1>7 DEF GrantExport
<1>8. ASSUME NEW q \in Replies, GrantCapability(q)
      PROVE  CapabilitiesFollowGrants'
  BY <1>8 DEF GrantCapability
<1>9. ASSUME NEW v \in Revokers, NEW p \in Paths, UnlistRead(v, p)
      PROVE  CapabilitiesFollowGrants'
  BY <1>9 DEF UnlistRead
<1>10. ASSUME NEW v \in Revokers, RevokeRead(v)
      PROVE  CapabilitiesFollowGrants'
  BY <1>10 DEF RevokeRead
<1>11. CASE RevokeExport
  BY <1>11 DEF RevokeExport
<1>12. ASSUME NEW k \in Capabilities, RevokeCapability(k)
      PROVE  CapabilitiesFollowGrants'
  BY <1>12 DEF RevokeCapability
<1>13. ASSUME NEW x \in Roots, SwitchTo(x)
      PROVE  CapabilitiesFollowGrants'
  BY <1>13 DEF SwitchTo
<1>14. CASE SwitchSettles
  BY <1>14 DEF SwitchSettles
<1>15. CASE RollBack
  BY <1>15 DEF RollBack
<1>16. CASE UNCHANGED accessVars
  BY <1>16
<1> QED
  BY <1>1, <1>2, <1>3, <1>4, <1>5, <1>6, <1>7, <1>8, <1>9, <1>10, <1>11,
     <1>12, <1>13, <1>14, <1>15, <1>16 DEF AccessNext

(* A path enters the root before the list, and leaves it after the list.   *)
LEMMA NextReadable ==
  ASSUME AccessTypeOK, RequestsFit, RepliesHoldTokens, ReadableIsInHand, [AccessNext]_accessVars
  PROVE  ReadableIsInHand'
<1> USE AccessAssumption
        DEF AccessTypeOK, RequestsFit, RepliesHoldTokens, ReadableIsInHand, Asked, Kinds,
         Pending, RebindRoot, accessVars, grantVars, requestVars, replyVars,
         rootVars
<1>1. ASSUME NEW r \in Requests, Propose(r)
      PROVE  ReadableIsInHand'
  BY <1>1 DEF Propose
<1>2. ASSUME NEW r \in Requests, Enqueue(r)
      PROVE  ReadableIsInHand'
  BY <1>2 DEF Enqueue
<1>3. ASSUME NEW r \in Requests, Expire(r)
      PROVE  ReadableIsInHand'
  BY <1>3 DEF Expire
<1>4. ASSUME NEW q \in Replies, NEW r \in Requests,
             NEW accepted \in BOOLEAN, Take(q, r, accepted)
      PROVE  ReadableIsInHand'
  BY <1>4 DEF Take
<1>5. ASSUME NEW q \in Replies, ApplyRead(q)
      PROVE  ReadableIsInHand'
  BY <1>5 DEF ApplyRead
<1>6. ASSUME NEW q \in Replies, ListRead(q)
      PROVE  ReadableIsInHand'
  BY <1>6 DEF ListRead
<1>7. ASSUME NEW q \in Replies, GrantExport(q)
      PROVE  ReadableIsInHand'
  BY <1>7 DEF GrantExport
<1>8. ASSUME NEW q \in Replies, GrantCapability(q)
      PROVE  ReadableIsInHand'
  BY <1>8 DEF GrantCapability
<1>9. ASSUME NEW v \in Revokers, NEW p \in Paths, UnlistRead(v, p)
      PROVE  ReadableIsInHand'
  BY <1>9 DEF UnlistRead
<1>10. ASSUME NEW v \in Revokers, RevokeRead(v)
      PROVE  ReadableIsInHand'
  BY <1>10 DEF RevokeRead
<1>11. CASE RevokeExport
  BY <1>11 DEF RevokeExport
<1>12. ASSUME NEW k \in Capabilities, RevokeCapability(k)
      PROVE  ReadableIsInHand'
  BY <1>12 DEF RevokeCapability
<1>13. ASSUME NEW x \in Roots, SwitchTo(x)
      PROVE  ReadableIsInHand'
  BY <1>13 DEF SwitchTo
<1>14. CASE SwitchSettles
  BY <1>14 DEF SwitchSettles
<1>15. CASE RollBack
  BY <1>15 DEF RollBack
<1>16. CASE UNCHANGED accessVars
  BY <1>16
<1> QED
  BY <1>1, <1>2, <1>3, <1>4, <1>5, <1>6, <1>7, <1>8, <1>9, <1>10, <1>11,
     <1>12, <1>13, <1>14, <1>15, <1>16 DEF AccessNext

-----------------------------------------------------------------------------
(* A session begins with what the host fixed, and nothing else.            *)
LEMMA InitAccessInv == AccessInit => AccessInv
<1> SUFFICES ASSUME AccessInit
             PROVE  AccessInv
  OBVIOUS
<1> USE AccessAssumption DEF AccessInit
<1>1. AccessTypeOK /\ RequestsFit
  BY DEF AccessTypeOK, RequestsFit, Kinds
<1>2. RepliesHoldTokens /\ TokensAreSpent
  BY DEF RepliesHoldTokens, TokensAreSpent
<1>3. GrantsAreAnswered
  BY DEF GrantsAreAnswered, TokenSpentOnce, GrantsWereAccepted
<1>4. CapabilitiesFollowGrants /\ ReadableIsInHand
  BY DEF CapabilitiesFollowGrants, ReadableIsInHand
<1> QED
  BY <1>1, <1>2, <1>3, <1>4 DEF AccessInv

(* AccessInv is inductive.                                                 *)
LEMMA AccessInvAlways == AccessSpec => []AccessInv
<1>1. AccessInv /\ [AccessNext]_accessVars => AccessInv'
  BY AccessStepTypes, NextRequests, NextReplies, NextSpent, NextAnswered, CapabilitiesFollow,
     NextReadable DEF AccessInv
<1> QED
  BY InitAccessInv, <1>1, PTL DEF AccessSpec

-----------------------------------------------------------------------------
(* Every variable keeps a value the code can give it; in particular a root *)
(* is only ever given paths, and the session only ever capabilities.       *)
THEOREM AccessTypesAlways == AccessSpec => []AccessTypeOK
<1>1. AccessInv => AccessTypeOK
  BY DEF AccessInv
<1> QED
  BY AccessInvAlways, <1>1, PTL

(* runtime_access(action=status) tells what is in effect: every capability *)
(* that is on, and at rest, before any rollback, every path that can be    *)
(* read.                                                                   *)
THEOREM EffectIsAlwaysListed == AccessSpec => []EffectIsListed
<1>1. AccessInv => EffectIsListed
  <2> SUFFICES ASSUME AccessInv
               PROVE  EffectIsListed
    OBVIOUS
  <2>1. ASSUME rollbacks = 0, Quiescent, NEW p \in authority[root]
        PROVE  p \in listed
    <3>1. \A q \in Replies : reply[q] # "applied"
      BY <2>1 DEF Quiescent
    <3>2. p \in Paths
      BY DEF AccessInv, AccessTypeOK
    <3>3. \A v \in Revokers : revoking[v] # p
      BY <2>1, <3>2, AccessAssumption DEF Quiescent
    <3> QED
      BY <2>1, <3>1, <3>3 DEF AccessInv, ReadableIsInHand
  <2> QED
    BY <2>1 DEF AccessInv, EffectIsListed, ForwardReadableIsListed,
                ReadableIsListed
<1> QED
  BY AccessInvAlways, <1>1, PTL

(* Every grant in effect goes back to one answer in time, whose token no   *)
(* other answer, however late or often repeated, can spend again.          *)
THEOREM GrantsAreAlwaysAnswered == AccessSpec => []GrantsAreAnswered
<1>1. AccessInv => GrantsAreAnswered
  BY DEF AccessInv
<1> QED
  BY AccessInvAlways, <1>1, PTL
=============================================================================
