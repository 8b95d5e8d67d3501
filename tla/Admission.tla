----------------------------- MODULE Admission -----------------------------
(***************************************************************************)
(* A tool call over HTTP from its token to its answer: the middlewares and *)
(* the admission limiter (internal/httptransport/server.go), the audit     *)
(* store (internal/store/sqlite/audit.go), the tool surface that           *)
(* dispatches the call and the operation that serves it                    *)
(* (internal/mcpserver).  The default surface, typed.v1, registers each    *)
(* operation as a tool; toolbox.v1 has one tool per scope, which notes the *)
(* operation in the audit before it calls it.                              *)
(*                                                                         *)
(* A start of the transport makes a limiter and opens the audit store; a   *)
(* stop that times out closes the store under requests still running.      *)
(* HTTP has no leases of its own (runtimeaccess.New(root, false, ...)): a  *)
(* capability is one the host fixed, and whatever needs an approval is     *)
(* refused.  A service is reduced to whether it wrote and how it failed.   *)
(***************************************************************************)
EXTENDS FiniteSets, Naturals

CONSTANTS
  Requests,    \* HTTP requests; a request ID is random and so the request
  Principals,
  Tokens,      \* bearer tokens the verifier accepts: principal and scopes
  Operations,  \* the operations that are called
  Surfaces,    \* what --tool-surface may be
  Fixed,       \* capabilities the host's settings enable
  Concurrent, PerPrincipal, RequestsPerMinute, MaxStates,  \* the limiter's
  IdleMinutes, \* after which an idle principal may be forgotten
  MaxRows, Batch, Retention,  \* the audit store's
  None,
  MaxStarts, MaxMinute  \* bounds: starts of the transport and time

Reading   == {"catalog_query", "workspace_search", "path_explain",
              "data_query", "project_records"}
Writing   == {"checkpoint_write", "memo_write"}
Importing == {"check_report_import"}
Running   == {"run_prepare", "run_execute", "run_inspect"}
Exporting == {"memory_backup", "runtime_config"}

(* The scope of an operation is that of its toolbox, and names it.         *)
RequiredScope(op) ==
  CASE op \in Reading \union {"runtime_access"} -> "read"
    [] op \in Writing                           -> "intent_write"
    [] op \in Importing                         -> "report_import"
    [] op \in Running                           -> "runner_execute"
    [] op \in Exporting                         -> "state_export"

Scopes == {"read", "intent_write", "report_import", "runner_execute", "state_export"}

Mutating == Writing \union Importing

ASSUME TokensAssumption ==
  Tokens \subseteq [principal : Principals, scopes : SUBSET Scopes]

ASSUME OperationsAssumption ==
  /\ Operations \subseteq Reading \union {"runtime_access"} \union Mutating
                            \union Running \union Exporting
  /\ Fixed \subseteq {"intent_write", "report_import", "runner_execute"}

ASSUME SurfacesAssumption == Surfaces \subseteq {"typed.v1", "toolbox.v1"}

ASSUME LimitsAssumption ==
  /\ Concurrent \in Nat \ {0} /\ PerPrincipal \in 1..Concurrent
  /\ RequestsPerMinute \in Nat \ {0} /\ MaxStates \in Nat \ {0}
  /\ IdleMinutes \in Nat \ {0} /\ Retention \in Nat
  /\ MaxRows \in Nat \ {0} /\ Batch \in 1..MaxRows
  /\ MaxStarts \in Nat /\ MaxMinute \in Nat

VARIABLES
  surface,   \* --tool-surface, fixed when the process starts
  minute,    \* the clock
  start,     \* how often the transport was started
  serving,   \* it accepts requests
  open,      \* the starts whose audit store is open
  global,    \* the slots of its limiter that are taken
  states,    \* of each principal: what the limiter knows, or None
  pc,        \* where a request is
  call,      \* its token, the operation it came to, and its start
  stamp,     \* the time its acquire read
  audit,     \* table audit_events, by request ID
  dropped,   \* history: the rows that were deleted
  applied,   \* history: the requests whose write is in the records store
  answer     \* what a request answered: "ok", "failed", or a mutation_state

limiter == <<global, states>>
request == <<pc, call, stamp>>
store   == <<audit, dropped>>
outcome == <<applied, answer>>
vars    == <<surface, minute, start, serving, open, limiter, request, store, outcome>>

-----------------------------------------------------------------------------
Starts == 1..MaxStarts
Call   == [token : Tokens, op : Operations \union {None}, start : Starts]
State  == [minute : 0..MaxMinute, count : 0..RequestsPerMinute,
           active : 0..PerPrincipal, seen : 0..MaxMinute]
Row    == [op : Operations \union {None}, status : {"started", "completed"},
           started : 0..MaxMinute]

Answers == {"ok", "failed", "contract", "unknown", "not_applied"}

ASSUME NoneAssumption ==
  None \notin Call \union State \union Row \union Operations \union Answers

(* A request that holds a slot, and one the limiter counts as active.      *)
Admitted == {"admitted", "audited", "resolved", "answered"}
Holding  == Admitted \union {"acquiring", "leaving"}

Owner(r) == call[r].token.principal
Known    == {p \in Principals : states[p] # None}
Rows     == {r \in Requests : audit[r] # None}

(* How a service fails once it has begun, as the public code says it.      *)
Failures == {"storage_failure", "internal_error", "deadline_exceeded"}

(* publicErrorWithMutationState: what the error of an operation says of a  *)
(* mutation.                                                               *)
Uncertain == {"storage_failure", "internal_error", "deadline_exceeded"}

Failure(op, code) ==
  IF op \notin Mutating THEN "failed"
  ELSE IF code \in Uncertain THEN "unknown" ELSE "not_applied"

NewLimiter(slots, known) == slots = 0 /\ known = [p \in Principals |-> None]

Init ==
  /\ surface \in Surfaces
  /\ minute = 0 /\ start = 0 /\ serving = FALSE /\ open = {}
  /\ NewLimiter(global, states)
  /\ pc = [r \in Requests |-> "idle"]
  /\ call = [r \in Requests |-> None]
  /\ stamp = [r \in Requests |-> 0]
  /\ audit = [r \in Requests |-> None]
  /\ dropped = {} /\ applied = {}
  /\ answer = [r \in Requests |-> None]

-----------------------------------------------------------------------------
(* startHTTPLocked opens the store, forgets rows past their retention, and *)
(* listens; a failure closes the store again.                              *)
Oldest(table, n) ==
  LET there == {r \in Requests : table[r] # None}
  IN  {D \in SUBSET there :
         /\ Cardinality(D) = n
         /\ \A d \in D, k \in there \ D : table[d].started <= table[k].started}

Forget(table, D) == [r \in Requests |-> IF r \in D THEN None ELSE table[r]]

Expired == {r \in Rows : audit[r].started + Retention < minute}

(* At most a batch, the oldest first; a failure is ignored.                *)
DeleteExpired ==
  LET n == Cardinality(Expired)
  IN  \E D \in {{}} \union Oldest(audit, IF n < Batch THEN n ELSE Batch) :
        /\ audit' = Forget(audit, D)
        /\ dropped' = dropped \union D

StartHTTP ==
  /\ ~serving /\ start < MaxStarts
  /\ start' = start + 1
  /\ serving' = TRUE
  /\ open' = open \union {start'}
  /\ NewLimiter(global', states')
  /\ DeleteExpired
  /\ UNCHANGED <<surface, minute, request, outcome>>

StartHTTPFails ==
  /\ ~serving
  /\ DeleteExpired
  /\ UNCHANGED <<surface, minute, start, serving, open, limiter, request, outcome>>

(* stopHTTPLocked: the shutdown ends when every request has, or in time.   *)
StopHTTP ==
  /\ serving
  /\ serving' = FALSE
  /\ open' = open \ {start}
  /\ UNCHANGED <<surface, minute, start, limiter, request, store, outcome>>

Tick ==
  /\ minute < MaxMinute
  /\ minute' = minute + 1
  /\ UNCHANGED <<surface, start, serving, open, limiter, request, store, outcome>>

-----------------------------------------------------------------------------
Goes(r, place) == pc' = [pc EXCEPT ![r] = place]

(* publicError, which says nothing of a mutation, or what the operation's  *)
(* own error says of it.                                                   *)
Fails(r) == answer' = [answer EXCEPT ![r] = "failed"]

Refuse(r, op, code) == answer' = [answer EXCEPT ![r] = Failure(op, code)]

Covers(token, op) == RequiredScope(op) \in token.scopes

(* The verifier does not know the token, or cannot ask who does.           *)
RefuseToken(r) ==
  /\ serving /\ pc[r] = "idle"
  /\ Goes(r, "done")
  /\ UNCHANGED <<surface, minute, start, serving, open, limiter, call, stamp, store, outcome>>

(* The verifier knows the token.  scopeMiddleware refuses a call whose     *)
(* Mcp-Name header, if it has one, names a tool the token's scopes do not  *)
(* cover; what the call is for is in its body, read much later.            *)
TurnAway(r, token, op) ==
  /\ serving /\ pc[r] = "idle"
  /\ ~Covers(token, op) \/ global = Concurrent
  /\ Goes(r, "done")
  /\ UNCHANGED <<surface, minute, start, serving, open, limiter, call, stamp, store, outcome>>

(* acquire: a slot if one is free, and the time, before the limiter's lock *)
(* Mutant: the number of slots is not looked at.                           *)
TakeAnySlot(r, token) ==
  /\ serving /\ pc[r] = "idle"
  /\ Goes(r, "acquiring")
  /\ call' = [call EXCEPT ![r] = [token |-> token, op |-> None, start |-> start]]
  /\ stamp' = [stamp EXCEPT ![r] = minute]
  /\ global' = global + 1
  /\ UNCHANGED <<surface, minute, start, serving, open, states, store, outcome>>

TakeSlot(r, token) ==
  /\ serving /\ pc[r] = "idle"
  /\ global < Concurrent
  /\ Goes(r, "acquiring")
  /\ call' = [call EXCEPT ![r] = [token |-> token, op |-> None, start |-> start]]
  /\ stamp' = [stamp EXCEPT ![r] = minute]
  /\ global' = global + 1
  /\ UNCHANGED <<surface, minute, start, serving, open, states, store, outcome>>

(* A request whose transport was stopped, and replaced by another start.   *)
Stray(r) == call[r].start # start

(* Under the lock.  Idle principals are forgotten when the map is full.    *)
Idle(state, now) == state.active = 0 /\ now > state.seen + IdleMinutes

(* Mutant: one that has not been seen for long is forgotten though active. *)
SweptWhateverActive(now) ==
  IF Cardinality(Known) < MaxStates THEN states
  ELSE [p \in Principals |->
          IF states[p] # None /\ now > states[p].seen + IdleMinutes THEN None ELSE states[p]]

Swept(now) ==
  IF Cardinality(Known) < MaxStates THEN states
  ELSE [p \in Principals |->
          IF states[p] # None /\ Idle(states[p], now) THEN None ELSE states[p]]

NewState == [minute |-> 0, count |-> 0, active |-> 0, seen |-> 0]

Current(state, now) ==
  IF state.minute = now THEN state
  ELSE [minute |-> now, count |-> 0, active |-> state.active, seen |-> state.seen]

Full(swept, p) ==
  swept[p] = None /\ Cardinality({q \in Principals : swept[q] # None}) >= MaxStates

Counted(swept, p, now) ==
  Current(IF swept[p] = None THEN NewState ELSE swept[p], now)

Within(state) == state.count < RequestsPerMinute /\ state.active < PerPrincipal

Acquire(r) ==
  LET p == Owner(r)  now == stamp[r]
      swept == Swept(now)  state == Counted(swept, p, now)
  IN  /\ pc[r] = "acquiring" /\ ~Stray(r)
      /\ ~Full(swept, p) /\ Within(state)
      /\ Goes(r, "admitted")
      /\ states' = [swept EXCEPT ![p] =
           [minute |-> now, count |-> state.count + 1, active |-> state.active + 1, seen |-> now]]
      /\ UNCHANGED <<surface, minute, start, serving, open, global, call, stamp, store, outcome>>

(* A state that was made or moved on to this minute stays.                 *)
RefuseRate(r) ==
  LET p == Owner(r)  now == stamp[r]
      swept == Swept(now)  state == Counted(swept, p, now)
  IN  /\ pc[r] = "acquiring" /\ ~Stray(r)
      /\ Full(swept, p) \/ ~Within(state)
      /\ Goes(r, "leaving")
      /\ states' = IF Full(swept, p) THEN swept ELSE [swept EXCEPT ![p] = state]
      /\ stamp' = [stamp EXCEPT ![r] = 0]
      /\ UNCHANGED <<surface, minute, start, serving, open, global, call, store, outcome>>

(* By a limiter that only its own stray requests still reach: either.      *)
AcquireStray(r) ==
  /\ pc[r] = "acquiring" /\ Stray(r)
  /\ Goes(r, "admitted") \/ Goes(r, "leaving")
  /\ UNCHANGED <<surface, minute, start, serving, open, limiter, call, stamp, store, outcome>>

-----------------------------------------------------------------------------
Released(state) ==
  [minute |-> state.minute, count |-> state.count, active |-> state.active - 1, seen |-> minute]

(* A request comes to an operation.                                        *)
Noted(r, op) ==
  [call EXCEPT ![r] = [token |-> call[r].token, op |-> op, start |-> call[r].start]]

(* The deferred release: the principal's count under the lock, then the    *)
(* slot.  What no property looks at any more is forgotten with it.         *)
Release(r) ==
  /\ Goes(r, "leaving")
  /\ states' = IF Stray(r) THEN states
               ELSE [states EXCEPT ![Owner(r)] = Released(states[Owner(r)])]
  /\ stamp' = [stamp EXCEPT ![r] = 0]
  /\ answer' = [answer EXCEPT ![r] = None]
  /\ call' = IF r \in applied THEN call ELSE Noted(r, None)

(* AdmitAudit inserts the row and bounds the table, in one transaction.    *)
AdmitAudit(r) ==
  LET row   == [op |-> None, status |-> "started", started |-> stamp[r]]
      table == [audit EXCEPT ![r] = row]
      count == Cardinality(Rows \union {r})
  IN  /\ pc[r] = "admitted"
      /\ call[r].start \in open
      /\ \E D \in IF count > MaxRows THEN Oldest(table, Batch) ELSE {{}} :
           /\ audit' = Forget(table, D)
           /\ dropped' = dropped \union D
      /\ Goes(r, "audited")
      /\ UNCHANGED <<surface, minute, start, serving, open, limiter, call, stamp, outcome>>

(* Mutant: the call goes on without its row.                               *)
AdmitAuditOpen(r) ==
  /\ pc[r] = "admitted"
  /\ Goes(r, "audited")
  /\ UNCHANGED <<surface, minute, start, serving, open, limiter, call, stamp, store, outcome>>

(* The store fails, is closed, or the client is gone.                      *)
AdmitAuditFails(r) ==
  /\ pc[r] = "admitted"
  /\ Release(r)
  /\ UNCHANGED <<surface, minute, start, serving, open, global, store, applied>>

(* The token's scopes do not cover the operation: that says so itself, or  *)
(* handleToolbox does, whose errors do not tell of a mutation.             *)
Deny(r, op) ==
  /\ pc[r] = "audited"
  /\ ~Covers(call[r].token, op)
  /\ Goes(r, "answered")
  /\ call' = Noted(r, op)
  /\ IF surface = "toolbox.v1" THEN Fails(r) ELSE Refuse(r, op, "permission_denied")
  /\ UNCHANGED <<surface, minute, start, serving, open, limiter, stamp, store, applied>>

(* typed.v1: the operation is called, whatever has become of the row.      *)
Dispatch(r, op) ==
  /\ pc[r] = "audited" /\ surface = "typed.v1"
  /\ Covers(call[r].token, op)
  /\ Goes(r, "resolved")
  /\ call' = Noted(r, op)
  /\ UNCHANGED <<surface, minute, start, serving, open, limiter, stamp, store, outcome>>

(* Mutant: nobody looks whether a row was updated.                         *)
ResolveWhatever(r, op) ==
  /\ pc[r] = "audited" /\ surface = "toolbox.v1"
  /\ Covers(call[r].token, op)
  /\ Goes(r, "resolved")
  /\ call' = Noted(r, op)
  /\ audit' = IF audit[r] = None \/ call[r].start \notin open THEN audit
              ELSE [audit EXCEPT ![r].op = op]
  /\ UNCHANGED <<surface, minute, start, serving, open, limiter, stamp, dropped, outcome>>

(* handleToolbox notes the operation in the row, which must be there.      *)
Resolve(r, op) ==
  /\ pc[r] = "audited" /\ surface = "toolbox.v1"
  /\ Covers(call[r].token, op)
  /\ call[r].start \in open
  /\ audit[r] # None /\ audit[r].op = None
  /\ Goes(r, "resolved")
  /\ call' = Noted(r, op)
  /\ audit' = [audit EXCEPT ![r].op = op]
  /\ UNCHANGED <<surface, minute, start, serving, open, limiter, stamp, dropped, outcome>>

(* The row is gone, the store is closed or fails, or the client is gone.   *)
ResolveFails(r, op) ==
  /\ pc[r] = "audited" /\ surface = "toolbox.v1"
  /\ Covers(call[r].token, op)
  /\ Goes(r, "answered")
  /\ call' = Noted(r, op)
  /\ Fails(r)
  /\ UNCHANGED <<surface, minute, start, serving, open, limiter, stamp, store, applied>>

(* handleToolbox, and the strict decoding of the arguments: the fields of  *)
(* the call are wrong.                                                     *)
RefuseFields(r) ==
  /\ pc[r] = "resolved" /\ surface = "toolbox.v1"
  /\ Goes(r, "answered")
  /\ Fails(r)
  /\ UNCHANGED <<surface, minute, start, serving, open, limiter, call, stamp, store, applied>>

(* A contract is described, or was called under a handle it no longer has. *)
Describe(r) ==
  /\ pc[r] = "resolved" /\ surface = "toolbox.v1"
  /\ Goes(r, "answered")
  /\ answer' = [answer EXCEPT ![r] = "contract"]
  /\ UNCHANGED <<surface, minute, start, serving, open, limiter, call, stamp, store, applied>>

(* The operation's own gate.                                               *)
Allowed(op) ==
  CASE op \in Mutating \union Running         -> RequiredScope(op) \in Fixed
    [] op \in Reading \union {"runtime_access"} -> TRUE
    [] op \in Exporting                       -> FALSE

(* The capability is not fixed, the destination or path is not granted,    *)
(* the configuration is not for HTTP, or an approval is begun or resumed.  *)
RefuseUnapproved(r) ==
  LET op == call[r].op
  IN  /\ pc[r] = "resolved"
      /\ ~Allowed(op) \/ op \notin {"catalog_query", "project_records"}
      /\ Goes(r, "answered")
      /\ Refuse(r, op, "runtime_access_unavailable")
      /\ UNCHANGED <<surface, minute, start, serving, open, limiter, call, stamp, store, applied>>

-----------------------------------------------------------------------------
(* The service.  A write is rejected before it begins, fails on the way,   *)
(* or commits; what fails in the commit itself may be there or not.  A     *)
(* memo whose topic exists and a report that was imported before write     *)
(* nothing, and are answered with what is there.                           *)
Serves(r) == pc[r] = "resolved" /\ Allowed(call[r].op)

Serve(r) ==
  /\ Serves(r)
  /\ Goes(r, "answered")
  /\ answer' = [answer EXCEPT ![r] = "ok"]
  /\ \/ call[r].op \in Mutating /\ applied' = applied \union {r}
     \/ call[r].op # "checkpoint_write" /\ UNCHANGED applied
  /\ UNCHANGED <<surface, minute, start, serving, open, limiter, call, stamp, store>>

(* The argument, the revision, the transition or a limit is wrong.         *)
Reject(r) ==
  /\ Serves(r)
  /\ Goes(r, "answered")
  /\ Refuse(r, call[r].op, "rejected")
  /\ UNCHANGED <<surface, minute, start, serving, open, limiter, call, stamp, store, applied>>

ServiceFails(r, code) ==
  /\ Serves(r)
  /\ Goes(r, "answered")
  /\ Refuse(r, call[r].op, code)
  /\ \/ UNCHANGED applied
     \/ call[r].op \in Mutating /\ applied' = applied \union {r}
  /\ UNCHANGED <<surface, minute, start, serving, open, limiter, call, stamp, store>>

-----------------------------------------------------------------------------
(* CompleteAudit has a context of its own; its failure is only logged.     *)
CompleteAudit(r) ==
  /\ pc[r] = "answered"
  /\ call[r].start \in open /\ audit[r] # None
  /\ audit' = [audit EXCEPT ![r].status = "completed"]
  /\ Release(r)
  /\ UNCHANGED <<surface, minute, start, serving, open, global, dropped, applied>>

CompleteFails(r) ==
  /\ pc[r] = "answered"
  /\ Release(r)
  /\ UNCHANGED <<surface, minute, start, serving, open, global, store, applied>>

FreeSlot(r) ==
  /\ pc[r] = "leaving"
  /\ Goes(r, "done")
  /\ global' = IF Stray(r) THEN global ELSE global - 1
  /\ call' = IF r \in applied THEN call ELSE [call EXCEPT ![r] = None]
  /\ UNCHANGED <<surface, minute, start, serving, open, states, stamp, store, outcome>>

-----------------------------------------------------------------------------
Next ==
  \/ StartHTTP \/ StartHTTPFails \/ StopHTTP \/ Tick
  \/ \E r \in Requests :
       \/ \E token \in Tokens : TakeSlot(r, token) \/ \E op \in Operations : TurnAway(r, token, op)
       \/ RefuseToken(r) \/ Acquire(r) \/ RefuseRate(r) \/ AcquireStray(r)
       \/ AdmitAudit(r) \/ AdmitAuditFails(r)
       \/ \E op \in Operations :
            Deny(r, op) \/ Dispatch(r, op) \/ Resolve(r, op) \/ ResolveFails(r, op)
       \/ Describe(r) \/ RefuseFields(r) \/ RefuseUnapproved(r) \/ Serve(r) \/ Reject(r)
       \/ \E code \in Failures : ServiceFails(r, code)
       \/ CompleteAudit(r) \/ CompleteFails(r) \/ FreeSlot(r)

Spec == Init /\ [][Next]_vars

-----------------------------------------------------------------------------
Places == {"idle", "done"} \union Holding

(* Every variable keeps its type; with it the limiter's channel never      *)
(* holds more than its slots, and a principal never more than its share.   *)
TypeOK ==
  /\ surface \in Surfaces
  /\ minute \in 0..MaxMinute /\ start \in 0..MaxStarts /\ serving \in BOOLEAN
  /\ open \subseteq Starts
  /\ global \in 0..Concurrent
  /\ states \in [Principals -> State \union {None}]
  /\ pc \in [Requests -> Places]
  /\ call \in [Requests -> Call \union {None}]
  /\ stamp \in [Requests -> 0..MaxMinute]
  /\ audit \in [Requests -> Row \union {None}]
  /\ dropped \subseteq Requests /\ applied \subseteq Requests
  /\ answer \in [Requests -> Answers \union {None}]

(* Slots are neither lost nor given twice, on any of acquire's early       *)
(* returns and whatever principals are forgotten: the channel holds one    *)
(* slot per request between acquire and release, and the limiter knows     *)
(* every principal with a request in progress, and how many they are.      *)
In(places, owners) ==
  Cardinality({r \in Requests : pc[r] \in places /\ ~Stray(r) /\ Owner(r) \in owners})

SlotsAreReturned ==
  /\ global = In(Holding, Principals)
  /\ Cardinality(Known) <= MaxStates
  /\ \A p \in Principals :
       In(Admitted, {p}) = IF states[p] = None THEN 0 ELSE states[p].active

(* The audit tells of every write: one is there only for a request whose   *)
(* row was stored before, which stays until the bound or the retention     *)
(* takes it, and whose token covers it; the row says completed only of a   *)
(* request that has its answer (SECURITY.md: "Admission fails closed").    *)
(* The toolbox surface moreover stops a request whose row was dropped      *)
(* before its operation was noted; the row of a typed tool never names it. *)
AuditIsTrue ==
  /\ Cardinality(Rows) <= MaxRows
  /\ \A r \in Requests :
       /\ r \in applied =>
            /\ Covers(call[r].token, call[r].op) /\ RequiredScope(call[r].op) \in Fixed
            /\ r \in dropped \/ r \in Rows
            /\ r \in Rows => audit[r].op = IF surface = "toolbox.v1" THEN call[r].op ELSE None
       /\ r \in Rows /\ audit[r].status = "completed" =>
            pc[r] \in {"leaving", "done"}

(* README: "Mutation failures also include mutation_state".  Where the     *)
(* toolbox surface refuses a write before it calls it, the answer does not.*)
FailedWritesSayState ==
  \A r \in Requests : answer[r] = "failed" => call[r].op \notin Mutating
=============================================================================
