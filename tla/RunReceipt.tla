----------------------------- MODULE RunReceipt -----------------------------
(***************************************************************************)
(* What the Runner promises about one prepared plan, seen by a client that *)
(* reads its receipt (the "run" record) and by the operating system that   *)
(* runs its process.  It knows nothing of servers, calls, locks, files or  *)
(* revisions: Runner.tla implements it with those.                         *)
(*                                                                         *)
(* README.md:336-338 "Runner validates a registered ID with run_prepare,   *)
(* executes the returned plan ID once with run_execute, and retains status *)
(* and bounded evidence for run_inspect".                                  *)
(***************************************************************************)
CONSTANT Plans    \* run IDs returned by run_prepare

VARIABLES
  receipt,        \* payload.State of each plan's record
  process         \* the plan's one process: "none", "alive" or "gone"

vars == <<receipt, process>>

(* States written once the process was awaited; nothing follows them.      *)
Concluded == {"completed", "failed", "timed_out", "cancelled"}
Terminal  == Concluded \union {"reused", "interrupted"}
States    == {"none", "prepared", "running", "materializing"} \union Terminal

Init ==
  /\ receipt = [p \in Plans |-> "none"]
  /\ process = [p \in Plans |-> "none"]

Prepare(p) ==
  /\ receipt[p] = "none"
  /\ receipt' = [receipt EXCEPT ![p] = "prepared"]
  /\ UNCHANGED process

(* The only step that creates a process: a second one has no action.       *)
Launch(p) ==
  /\ receipt[p] = "prepared"
  /\ process[p] = "none"
  /\ process' = [process EXCEPT ![p] = "alive"]
  /\ UNCHANGED receipt

Exit(p) ==
  /\ process[p] = "alive"
  /\ process' = [process EXCEPT ![p] = "gone"]
  /\ UNCHANGED receipt

Run(p) ==
  /\ receipt[p] = "prepared"
  /\ process[p] # "none"
  /\ receipt' = [receipt EXCEPT ![p] = "running"]
  /\ UNCHANGED process

(* An outcome is recorded only for a process that is gone.                 *)
Conclude(p) ==
  /\ receipt[p] = "running"
  /\ process[p] = "gone"
  /\ \E s \in Concluded : receipt' = [receipt EXCEPT ![p] = s]
  /\ UNCHANGED process

StartFails(p) ==
  /\ receipt[p] = "prepared"
  /\ process[p] = "none"
  /\ receipt' = [receipt EXCEPT ![p] = "failed"]
  /\ UNCHANGED process

(* A qualified cache hit copies stored outputs instead of launching.       *)
Materialize(p) ==
  /\ receipt[p] = "prepared"
  /\ process[p] = "none"
  /\ receipt' = [receipt EXCEPT ![p] = "materializing"]
  /\ UNCHANGED process

Reuse(p) ==
  /\ receipt[p] = "materializing"
  /\ \E s \in {"reused", "failed"} : receipt' = [receipt EXCEPT ![p] = s]
  /\ UNCHANGED process

(* A server that opens the state directory gives up on what it finds open. *)
Interrupt(p) ==
  /\ receipt[p] \in {"running", "materializing"}
  /\ receipt' = [receipt EXCEPT ![p] = "interrupted"]
  /\ UNCHANGED process

Next ==
  \E p \in Plans :
    \/ Prepare(p)
    \/ Launch(p)
    \/ Exit(p)
    \/ Run(p)
    \/ Conclude(p)
    \/ StartFails(p)
    \/ Materialize(p)
    \/ Reuse(p)
    \/ Interrupt(p)

Spec == Init /\ [][Next]_vars
=============================================================================
