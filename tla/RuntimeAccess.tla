--------------------------- MODULE RuntimeAccess ---------------------------
(***************************************************************************)
(* Session-local authority (internal/runtimeaccess, and the read grants of *)
(* internal/workspace): a client asks for a grant, is sent a token and     *)
(* answers it; the grant is listed for runtime_access(action=status) and,  *)
(* for a read path, given to the workspace root that checks every read.    *)
(* Service.mu guards the service's maps, Root.grantsMu the root's; neither *)
(* is held from one to the other, and Service.root is read without either. *)
(*                                                                         *)
(* A workspace switch calls RebindRoot with the root it opened, and again  *)
(* with the former one when the switch is rolled back (RuntimeSwitch).     *)
(***************************************************************************)
EXTENDS Naturals, FiniteSets

CONSTANTS
  Roots,         \* workspace roots, one per workspace that is opened
  Paths,         \* canonical targets outside every workspace
  Capabilities,  \* intent_write, report_import, runner_execute, cache_reuse
  Fixed,         \* those the host's flags switched on
  Requests,      \* grant requests; each is issued one token
  Replies,       \* answers to tokens; two may carry the same one
  Revokers,      \* runtime_access(action=revoke) requests
  Nothing,       \* no path, root or token
  MaxPending,    \* maxPending, 64 in the code
  MaxRollbacks   \* bound on the switches that are rolled back

ASSUME AccessAssumption ==
  /\ Fixed \subseteq Capabilities
  /\ Paths \intersect Capabilities = {}
  /\ Nothing \notin Roots \union Paths \union Requests
  /\ MaxPending \in Nat /\ MaxRollbacks \in Nat

Kinds == {"read", "export", "capability"}

VARIABLES
  root,       \* Service.root
  authority,  \* Root.grants of each root: what it lets its readers read
  listed,     \* Service.grants: the read paths ...
  exportTo,   \* ... the one memory_export directory ...
  granted,    \* ... and the capabilities granted at run time
  enabled,    \* Service.enabled
  request,    \* what a request asks for: a kind and its item
  stage,      \* of a request: "idle", "planned", "pending", "gone"
  expired,    \* tokens older than pendingTTL
  reply,      \* of a reply: "idle", "taken", "applied", "done"
  token,      \* the accepted, unexpired token a reply consumed
  revoking,   \* the path a revocation has unlisted and must still withdraw
  former,     \* the root a switch in progress may return to
  rollbacks   \* number of switches rolled back

grantVars   == <<listed, exportTo, granted, enabled>>
requestVars == <<request, stage, expired>>
replyVars   == <<reply, token>>
rootVars    == <<root, former, rollbacks>>
accessVars  == <<authority, grantVars, requestVars, replyVars, rootVars, revoking>>

Pending == {r \in Requests : stage[r] = "pending"}

(* Nothing is half done.                                                   *)
Quiescent ==
  /\ \A q \in Replies : reply[q] \in {"idle", "done"}
  /\ \A v \in Revokers : revoking[v] = Nothing

AccessInit ==
  /\ root      \in Roots
  /\ authority = [x \in Roots |-> {}]
  /\ listed    = {}
  /\ exportTo  = Nothing
  /\ granted   = {}
  /\ enabled   = Fixed
  /\ request   \in [Requests -> [kind : {"read", "export"}, item : Paths]
                       \union [kind : {"capability"}, item : Capabilities]]
  /\ stage     = [r \in Requests |-> "idle"]
  /\ expired   = {}
  /\ reply     = [q \in Replies |-> "idle"]
  /\ token     = [q \in Replies |-> Nothing]
  /\ revoking  = [v \in Revokers |-> Nothing]
  /\ former    = Nothing
  /\ rollbacks = 0

-----------------------------------------------------------------------------
(* Begin validates a request, a read path against the current root ...     *)
Propose(r) ==
  /\ stage[r] = "idle"
  /\ stage' = [stage EXCEPT ![r] = "planned"]
  /\ UNCHANGED <<authority, grantVars, request, expired, replyVars, rootVars,
                 revoking>>

(* ... and then, under the mutex, sweeps old tokens and issues a new one.  *)
Enqueue(r) ==
  /\ stage[r] = "planned"
  /\ LET live == Pending \ expired
     IN  stage' = [x \in Requests |->
                    IF x = r
                      THEN IF Cardinality(live) >= MaxPending
                             THEN "gone" ELSE "pending"
                    ELSE IF x \in Pending \intersect expired
                      THEN "gone" ELSE stage[x]]
  /\ UNCHANGED <<authority, grantVars, request, expired, replyVars,
                 rootVars, revoking>>

Expire(r) ==
  /\ r \in Pending \ expired
  /\ expired' = expired \union {r}
  /\ UNCHANGED <<authority, grantVars, request, stage, replyVars,
                 rootVars, revoking>>

(* Mutants, here and below: no specification uses them.  This one: the     *)
(* token is read but not removed.                                          *)
TakeKeeping(q, r, accepted) ==
  /\ reply[q] = "idle"
  /\ r \in Pending \ expired
  /\ accepted
  /\ reply' = [reply EXCEPT ![q] = "taken"]
  /\ token' = [token EXCEPT ![q] = r]
  /\ UNCHANGED <<authority, grantVars, requestVars, rootVars, revoking>>

(* Complete removes the token, whatever the answer to it is.               *)
Take(q, r, accepted) ==
  /\ reply[q] = "idle"
  /\ stage[r] \in {"pending", "gone"}
  /\ stage' = [stage EXCEPT ![r] = "gone"]
  /\ IF r \in Pending \ expired /\ accepted
       THEN /\ reply' = [reply EXCEPT ![q] = "taken"]
            /\ token' = [token EXCEPT ![q] = r]
       ELSE /\ reply' = [reply EXCEPT ![q] = "done"]
            /\ UNCHANGED token
  /\ UNCHANGED <<authority, grantVars, request, expired, rootVars,
                 revoking>>

Asked(q) == request[token[q]]

(* A read path is first given to whatever root is current ...              *)
ApplyRead(q) ==
  /\ reply[q] = "taken"
  /\ Asked(q).kind = "read"
  /\ authority' = [authority EXCEPT ![root] = @ \union {Asked(q).item}]
  /\ reply' = [reply EXCEPT ![q] = "applied"]
  /\ UNCHANGED <<grantVars, requestVars, token, rootVars, revoking>>

(* ... and then listed.                                                    *)
ListRead(q) ==
  /\ reply[q] = "applied"
  /\ listed' = listed \union {Asked(q).item}
  /\ reply' = [reply EXCEPT ![q] = "done"]
  /\ UNCHANGED <<authority, exportTo, granted, enabled, requestVars, token,
                 rootVars, revoking>>

(* Mutant: a read request is taken for an export request.                  *)
GrantExportOfRead(q) ==
  /\ reply[q] = "taken"
  /\ Asked(q).kind # "capability"
  /\ exportTo' = Asked(q).item
  /\ reply' = [reply EXCEPT ![q] = "done"]
  /\ UNCHANGED <<authority, listed, granted, enabled, requestVars,
                 token, rootVars, revoking>>

GrantExport(q) ==
  /\ reply[q] = "taken"
  /\ Asked(q).kind = "export"
  /\ exportTo' = Asked(q).item
  /\ reply' = [reply EXCEPT ![q] = "done"]
  /\ UNCHANGED <<authority, listed, granted, enabled, requestVars,
                 token, rootVars, revoking>>

(* Mutant: whatever is not a read is taken for a capability.               *)
GrantOther(q) ==
  /\ reply[q] = "taken"
  /\ Asked(q).kind # "read"
  /\ enabled' = enabled \union {Asked(q).item}
  /\ granted' = granted \union {Asked(q).item}
  /\ reply' = [reply EXCEPT ![q] = "done"]
  /\ UNCHANGED <<authority, listed, exportTo, requestVars, token,
                 rootVars, revoking>>

GrantCapability(q) ==
  /\ reply[q] = "taken"
  /\ Asked(q).kind = "capability"
  /\ enabled' = enabled \union {Asked(q).item}
  /\ granted' = granted \union {Asked(q).item}
  /\ reply' = [reply EXCEPT ![q] = "done"]
  /\ UNCHANGED <<authority, listed, exportTo, requestVars, token,
                 rootVars, revoking>>

-----------------------------------------------------------------------------
(* Revoke unlists a read path, and only then withdraws it from the root.   *)
UnlistRead(v, p) ==
  /\ revoking[v] = Nothing
  /\ p \in listed
  /\ listed' = listed \ {p}
  /\ revoking' = [revoking EXCEPT ![v] = p]
  /\ UNCHANGED <<authority, exportTo, granted, enabled, requestVars,
                 replyVars, rootVars>>

(* Mutant: the path is unlisted and the root keeps it.                     *)
RevokeNothing(v) ==
  /\ revoking[v] # Nothing
  /\ revoking' = [revoking EXCEPT ![v] = Nothing]
  /\ UNCHANGED <<authority, grantVars, requestVars, replyVars, rootVars>>

RevokeRead(v) ==
  /\ revoking[v] # Nothing
  /\ authority' = [authority EXCEPT ![root] = @ \ {revoking[v]}]
  /\ revoking' = [revoking EXCEPT ![v] = Nothing]
  /\ UNCHANGED <<grantVars, requestVars, replyVars, rootVars>>

RevokeExport ==
  /\ exportTo # Nothing
  /\ exportTo' = Nothing
  /\ UNCHANGED <<authority, listed, granted, enabled, requestVars,
                 replyVars, rootVars, revoking>>

(* Mutant: revoking a grant takes the host's flag along.                   *)
RevokeFixed(k) ==
  /\ k \in granted
  /\ granted' = granted \ {k}
  /\ enabled' = enabled \ {k}
  /\ UNCHANGED <<authority, listed, exportTo, requestVars, replyVars,
                 rootVars, revoking>>

(* What the host's flags fixed stays on.                                   *)
RevokeCapability(k) ==
  /\ k \in granted
  /\ granted' = granted \ {k}
  /\ enabled' = IF k \in Fixed THEN enabled \union {k} ELSE enabled \ {k}
  /\ UNCHANGED <<authority, listed, exportTo, requestVars, replyVars,
                 rootVars, revoking>>

-----------------------------------------------------------------------------
(* RebindRoot: path grants and pending proposals are discarded.            *)
RebindRoot(x) ==
  /\ root' = x
  /\ listed' = {}
  /\ stage' = [r \in Requests |-> IF r \in Pending THEN "gone" ELSE stage[r]]
  /\ UNCHANGED <<authority, exportTo, granted, enabled, request,
                 expired, replyVars, revoking>>

(* A switch opens a root of its own, which no one has read from yet.       *)
SwitchTo(x) ==
  /\ former = Nothing
  /\ x # root
  /\ authority[x] = {}
  /\ RebindRoot(x)
  /\ former' = root
  /\ UNCHANGED rollbacks

SwitchSettles ==
  /\ former # Nothing
  /\ former' = Nothing
  /\ UNCHANGED <<authority, grantVars, requestVars, replyVars, root, rollbacks,
                 revoking>>

(* HTTP could not be restarted: back to the former root.                   *)
RollBack ==
  /\ former # Nothing
  /\ rollbacks < MaxRollbacks
  /\ RebindRoot(former)
  /\ former' = Nothing
  /\ rollbacks' = rollbacks + 1

-----------------------------------------------------------------------------
AccessNext ==
  \/ \E r \in Requests : Propose(r) \/ Enqueue(r) \/ Expire(r)
  \/ \E q \in Replies, r \in Requests, accepted \in BOOLEAN :
       Take(q, r, accepted)
  \/ \E q \in Replies :
       \/ ApplyRead(q)
       \/ ListRead(q)
       \/ GrantExport(q)
       \/ GrantCapability(q)
  \/ \E v \in Revokers :
       \/ \E p \in Paths : UnlistRead(v, p)
       \/ RevokeRead(v)
  \/ RevokeExport
  \/ \E k \in Capabilities : RevokeCapability(k)
  \/ \E x \in Roots : SwitchTo(x)
  \/ SwitchSettles
  \/ RollBack

AccessSpec == AccessInit /\ [][AccessNext]_accessVars

-----------------------------------------------------------------------------
(* Type invariant: every variable has the values the code can give it.     *)
AccessTypeOK ==
  /\ root      \in Roots
  /\ authority \in [Roots -> SUBSET Paths]
  /\ listed    \subseteq Paths
  /\ exportTo  \in Paths \union {Nothing}
  /\ granted   \subseteq Capabilities
  /\ enabled   \subseteq Capabilities
  /\ request   \in [Requests -> [kind : Kinds, item : Paths \union Capabilities]]
  /\ stage     \in [Requests -> {"idle", "planned", "pending", "gone"}]
  /\ expired   \subseteq Requests
  /\ reply     \in [Replies -> {"idle", "taken", "applied", "done"}]
  /\ token     \in [Replies -> Requests \union {Nothing}]
  /\ revoking  \in [Revokers -> Paths \union {Nothing}]
  /\ former    \in Roots \union {Nothing}
  /\ rollbacks \in 0 .. MaxRollbacks

(* A capability is on exactly while the host fixed it or a grant of it is  *)
(* listed: no order of grants and revocations leaves one on unlisted, or   *)
(* takes away what the host gave.                                          *)
CapabilitiesFollowGrants == enabled = Fixed \union granted

(* A token is spent by one reply, and an expired one by none.              *)
TokenSpentOnce ==
  \A q \in Replies :
    token[q] # Nothing =>
      /\ token[q] \notin expired
      /\ \A t \in Replies : token[t] = token[q] => t = q

(* Everything granted at run time was asked for and accepted.              *)
GrantsWereAccepted ==
  LET accepted == {request[token[q]] : q \in {t \in Replies : token[t] # Nothing}}
  IN  /\ \A p \in listed : [kind |-> "read", item |-> p] \in accepted
      /\ \A k \in granted : [kind |-> "capability", item |-> k] \in accepted
      /\ exportTo # Nothing => [kind |-> "export", item |-> exportTo] \in accepted

(* A grant goes back to one answer of the client: it was asked for and     *)
(* accepted in time, and its token was spent on it alone.                  *)
GrantsAreAnswered == TokenSpentOnce /\ GrantsWereAccepted

(* What the current root lets a client read outside its workspace is shown *)
(* by runtime_access(action=status), where it can be revoked: README.md:367 *)
(* "Grants ... can be inspected or revoked with runtime_access".           *)
ReadableIsListed == Quiescent => authority[root] \subseteq listed

(* Whatever grants, revocations and switches interleave, as long as no     *)
(* switch is rolled back: a rollback rebinds the former root, which still  *)
(* lets its paths be read (root.go:243-248), and lists none of them.       *)
ForwardReadableIsListed == rollbacks = 0 => ReadableIsListed

(* runtime_access(action=status) tells what is in effect: a capability or  *)
(* a readable path that it does not show could not be taken back.          *)
EffectIsListed == CapabilitiesFollowGrants /\ ForwardReadableIsListed
=============================================================================
