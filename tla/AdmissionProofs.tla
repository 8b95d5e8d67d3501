--------------------------- MODULE AdmissionProofs ---------------------------
(***************************************************************************)
(* Theorems about Admission, for any sets of requests (infinite ones too), *)
(* principals, tokens and operations, and any limits.  A step is one of a  *)
(* request, which changes only what is its own, its principal's count, and *)
(* rows it drops; or one of the transport or the clock.  StepOf says what  *)
(* a step of a request leaves, whichever it is: each action is shown to be *)
(* one, and the invariants are shown to survive it once.                   *)
(***************************************************************************)
EXTENDS Admission, FiniteSetTheorems, TLAPS

Busy == {r \in Requests : pc[r] # "idle"}

(* Where a request is tells what it has: one that holds a slot has a call  *)
(* of this start of the transport or an earlier one, one that is not       *)
(* audited has had no row, and only one that is between its answer and its *)
(* release has an answer.  A row is there or was dropped, not both.        *)
PlaceTellsOf(r) ==
  /\ pc[r] \in Holding => call[r] \in Call /\ call[r].start <= start
  /\ pc[r] \in {"idle", "acquiring", "admitted"} =>
       audit[r] = None /\ r \notin dropped
  /\ r \in dropped => audit[r] = None
  /\ answer[r] # None => pc[r] = "answered"

PlaceTells ==
  /\ serving => start \in Starts
  /\ IsFiniteSet(Busy)
  /\ \A r \in Requests : PlaceTellsOf(r)

(* A request that was audited has its row until that is dropped, and on    *)
(* the toolbox surface the row names the operation before it is called; a  *)
(* write is one of an operation the token covers, and comes before the     *)
(* request's answer.                                                       *)
Called(r) == pc[r] = "resolved" \/ r \in applied

RowTells(r) ==
  /\ pc[r] \in {"audited", "resolved"} \/ r \in applied =>
       r \in dropped \/ audit[r] # None
  /\ Called(r) => Covers(call[r].token, call[r].op)
  /\ audit[r] # None /\ surface # "toolbox.v1" => audit[r].op = None
  /\ audit[r] # None /\ surface = "toolbox.v1" /\ Called(r) => audit[r].op = call[r].op
  /\ r \in applied =>
       /\ pc[r] \in {"answered", "leaving", "done"}
       /\ call[r].op \in Mutating /\ RequiredScope(call[r].op) \in Fixed
  /\ audit[r] # None /\ audit[r].status = "completed" =>
       pc[r] \in {"leaving", "done"}

RowsTell ==
  /\ Cardinality(Rows) <= MaxRows
  /\ \A r \in Requests : RowTells(r)

(* The slots, and that the limiter knows finitely many principals.         *)
SlotsTell == SlotsAreReturned /\ IsFiniteSet(Known)

AdmissionInv ==
  TypeOK /\ PlaceTells /\ SlotsTell /\ RowsTell

-----------------------------------------------------------------------------
(* What one request takes of the transport's slots and of a principal's    *)
(* share; what the limiter knows of a principal's share.                   *)
HeldBy(r) == IF pc[r] \in Holding /\ ~Stray(r) THEN 1 ELSE 0

CountedBy(r, p) ==
  IF pc[r] \in Admitted /\ ~Stray(r) /\ Owner(r) = p THEN 1 ELSE 0

ActiveOf(p) == IF states[p] = None THEN 0 ELSE states[p].active

(* A step of request r leaves the other requests alone, but may drop rows. *)
OthersStay(r) ==
  /\ UNCHANGED <<surface, start, serving>>
  /\ dropped \subseteq dropped'
  /\ \A x \in Requests \ {r} :
       /\ pc'[x] = pc[x] /\ call'[x] = call[x] /\ answer'[x] = answer[x]
       /\ x \in applied' <=> x \in applied
       /\ \/ audit'[x] = audit[x] /\ (x \in dropped' <=> x \in dropped)
          \/ audit[x] # None /\ audit'[x] = None /\ x \in dropped'

(* The counters move by what r takes or gives back.                        *)
SlotStep(r) ==
  /\ global' - HeldBy(r)' = global - HeldBy(r)
  /\ \A p \in Principals :
       ActiveOf(p)' - CountedBy(r, p)' = ActiveOf(p) - CountedBy(r, p)
  /\ IsFiniteSet(Known') /\ Cardinality(Known') <= MaxStates

StepOf(r) ==
  /\ TypeOK' /\ OthersStay(r) /\ SlotStep(r)
  /\ Cardinality(Rows') <= MaxRows
  /\ PlaceTellsOf(r)' /\ RowTells(r)'

-----------------------------------------------------------------------------
(* The fields of a call, of a principal's state and of an audit row.       *)
LEMMA CallFields ==
  ASSUME NEW k \in Call
  PROVE  /\ k # None /\ k.start \in Starts
         /\ k.token \in Tokens /\ k.token.principal \in Principals
  BY NoneAssumption, TokensAssumption DEF Call

LEMMA CallMade ==
  ASSUME NEW token \in Tokens, NEW op \in Operations \union {None},
         NEW n \in Starts
  PROVE  [token |-> token, op |-> op, start |-> n] \in Call
  BY DEF Call

LEMMA StateFields ==
  ASSUME NEW k \in State
  PROVE  /\ k # None /\ k.minute \in 0..MaxMinute
         /\ k.count \in 0..RequestsPerMinute
         /\ k.active \in 0..PerPrincipal /\ k.seen \in 0..MaxMinute
  BY NoneAssumption DEF State

LEMMA StateMade ==
  ASSUME NEW m \in 0..MaxMinute, NEW n \in 0..RequestsPerMinute,
         NEW a \in 0..PerPrincipal, NEW s \in 0..MaxMinute
  PROVE  [minute |-> m, count |-> n, active |-> a, seen |-> s] \in State
  BY DEF State

LEMMA RowFields ==
  ASSUME NEW k \in Row
  PROVE  /\ k # None /\ k.op \in Operations \union {None}
         /\ k.status \in {"started", "completed"}
         /\ k.started \in 0..MaxMinute
  BY NoneAssumption DEF Row

LEMMA RowMade ==
  ASSUME NEW op \in Operations \union {None},
         NEW status \in {"started", "completed"}, NEW t \in 0..MaxMinute
  PROVE  [op |-> op, status |-> status, started |-> t] \in Row
  BY DEF Row

(* Two finite sets that agree but for one element.                         *)
LEMMA CountWithout ==
  ASSUME NEW S, NEW T, NEW x, IsFiniteSet(S), S \ {x} = T \ {x}
  PROVE  /\ IsFiniteSet(T)
         /\ Cardinality(S) \in Int /\ Cardinality(T) \in Int
         /\ Cardinality(T) - (IF x \in T THEN 1 ELSE 0) =
              Cardinality(S) - (IF x \in S THEN 1 ELSE 0)
<1>1. IsFiniteSet(T)
  <2>1. T \subseteq S \union {x}
    OBVIOUS
  <2> QED
    BY <2>1, FS_AddElement, FS_Subset
<1>2. /\ Cardinality(S) \in Nat /\ Cardinality(T) \in Nat
      /\ Cardinality(S \ {x}) \in Nat
  BY <1>1, FS_CardinalityType, FS_RemoveElement
<1>3. Cardinality(S \ {x}) = IF x \in S THEN Cardinality(S) - 1
                                        ELSE Cardinality(S)
  BY FS_RemoveElement
<1>4. Cardinality(T \ {x}) = IF x \in T THEN Cardinality(T) - 1
                                        ELSE Cardinality(T)
  BY <1>1, FS_RemoveElement
<1> QED
  BY <1>1, <1>2, <1>3, <1>4

-----------------------------------------------------------------------------
(* Requests that are busy stay finitely many, and every request's place    *)
(* tells what it has.                                                      *)
LEMMA StepKeepsPlaces ==
  ASSUME PlaceTells, NEW r \in Requests, StepOf(r)
  PROVE  PlaceTells'
<1> USE DEF PlaceTells, StepOf, OthersStay
<1>1. IsFiniteSet(Busy')
  <2>1. Busy' \subseteq Busy \union {r}
    BY DEF Busy
  <2> QED
    BY <2>1, FS_AddElement, FS_Subset
<1>2. \A x \in Requests : PlaceTellsOf(x)'
  <2>1. ASSUME NEW x \in Requests, x # r
        PROVE  PlaceTellsOf(x)'
    BY <2>1 DEF PlaceTellsOf
  <2> QED
    BY <2>1
<1> QED
  BY <1>1, <1>2

(* The requests that hold a slot are finitely many.                        *)
LEMMA HoldersFinite ==
  ASSUME PlaceTells, NEW places \in SUBSET Holding, NEW owners
  PROVE  IsFiniteSet({r \in Requests :
                        pc[r] \in places /\ ~Stray(r) /\ Owner(r) \in owners})
<1>1. "idle" \notin Holding
  BY DEF Holding, Admitted
<1>2. {r \in Requests : pc[r] \in places /\ ~Stray(r) /\ Owner(r) \in owners}
        \subseteq Busy
  BY <1>1 DEF Busy
<1> QED
  BY <1>2, FS_Subset DEF PlaceTells

(* The counters stay true to the slots that are held.                      *)
LEMMA StepKeepsSlots ==
  ASSUME TypeOK, PlaceTells, SlotsTell, NEW r \in Requests, StepOf(r)
  PROVE  SlotsTell'
<1> DEFINE All == {x \in Requests :
                     pc[x] \in Holding /\ ~Stray(x) /\ Owner(x) \in Principals}
           Of(p) == {x \in Requests :
                       pc[x] \in Admitted /\ ~Stray(x) /\ Owner(x) \in {p}}
<1> USE DEF StepOf
<1>1. PlaceTells'
  BY StepKeepsPlaces
<1>2. IsFiniteSet(All) /\ \A p : IsFiniteSet(Of(p))
  BY HoldersFinite DEF Holding
<1>3. global' = In(Holding, Principals)'
  <2>1. All \ {r} = All' \ {r}
    BY DEF OthersStay, Stray, Owner
  <2>2. /\ Cardinality(All) \in Int /\ Cardinality(All') \in Int
        /\ Cardinality(All') - (IF r \in All' THEN 1 ELSE 0) =
             Cardinality(All) - (IF r \in All THEN 1 ELSE 0)
    <3> HIDE DEF All, Of
    <3> QED
      BY <1>2, <2>1, CountWithout
  <2>3. /\ HeldBy(r) = (IF r \in All THEN 1 ELSE 0)
        /\ HeldBy(r)' = (IF r \in All' THEN 1 ELSE 0)
    BY <1>1, CallFields DEF HeldBy, PlaceTells, PlaceTellsOf, Owner
  <2>4. global = Cardinality(All) /\ global \in Int /\ global' \in Int
    BY DEF SlotsTell, SlotsAreReturned, In, TypeOK
  <2>5. global' = Cardinality(All')
    BY <2>2, <2>3, <2>4 DEF SlotStep
  <2> QED
    BY <2>5 DEF In
<1>4. ASSUME NEW p \in Principals
      PROVE  In(Admitted, {p})' = ActiveOf(p)'
  <2>1. Of(p) \ {r} = Of(p)' \ {r}
    BY DEF OthersStay, Stray, Owner
  <2>2. /\ Cardinality(Of(p)) \in Int /\ Cardinality(Of(p)') \in Int
        /\ Cardinality(Of(p)') - (IF r \in Of(p)' THEN 1 ELSE 0) =
             Cardinality(Of(p)) - (IF r \in Of(p) THEN 1 ELSE 0)
    <3> HIDE DEF All, Of
    <3> QED
      BY <1>2, <2>1, CountWithout
  <2>3. /\ CountedBy(r, p) = (IF r \in Of(p) THEN 1 ELSE 0)
        /\ CountedBy(r, p)' = (IF r \in Of(p)' THEN 1 ELSE 0)
    BY DEF CountedBy
  <2>4. ActiveOf(p) = Cardinality(Of(p))
    BY DEF SlotsTell, SlotsAreReturned, In, ActiveOf
  <2>5. ActiveOf(p)' \in Int
    BY StateFields, LimitsAssumption DEF TypeOK, ActiveOf
  <2>6. ActiveOf(p)' = Cardinality(Of(p)')
    BY <2>2, <2>3, <2>4, <2>5 DEF SlotStep
  <2> QED
    BY <2>6 DEF In
<1> QED
  BY <1>3, <1>4 DEF SlotsTell, SlotsAreReturned, SlotStep, ActiveOf

(* A row that stays, stays what it was; one that goes is in dropped.       *)
LEMMA StepKeepsRows ==
  ASSUME RowsTell, NEW r \in Requests, StepOf(r)
  PROVE  RowsTell'
<1>1. ASSUME NEW x \in Requests, x # r
      PROVE  RowTells(x)'
  BY <1>1 DEF RowsTell, RowTells, Called, StepOf, OthersStay
<1> QED
  BY <1>1 DEF RowsTell, StepOf

(* A step of a request keeps the invariant.                                *)
LEMMA StepKeepsInv ==
  ASSUME AdmissionInv, NEW r \in Requests, StepOf(r)
  PROVE  AdmissionInv'
<1>1. PlaceTells' /\ SlotsTell' /\ RowsTell'
  BY StepKeepsPlaces, StepKeepsSlots, StepKeepsRows DEF AdmissionInv
<1> QED
  BY <1>1 DEF AdmissionInv, StepOf

-----------------------------------------------------------------------------
(* A request that holds a slot is counted: the counters can go down.       *)
LEMMA HeldIsCounted ==
  ASSUME AdmissionInv, NEW r \in Requests, pc[r] \in Holding, ~Stray(r)
  PROVE  /\ global > 0 /\ Owner(r) \in Principals
         /\ pc[r] \in Admitted =>
              states[Owner(r)] \in State /\ states[Owner(r)].active > 0
<1> DEFINE All == {x \in Requests :
                     pc[x] \in Holding /\ ~Stray(x) /\ Owner(x) \in Principals}
           Of(p) == {x \in Requests :
                       pc[x] \in Admitted /\ ~Stray(x) /\ Owner(x) \in {p}}
<1> USE DEF AdmissionInv
<1>1. Owner(r) \in Principals
  BY CallFields DEF PlaceTells, PlaceTellsOf, Owner
<1>2. IsFiniteSet(All) /\ IsFiniteSet(Of(Owner(r)))
  BY HoldersFinite DEF Holding
<1>3. r \in All /\ (pc[r] \in Admitted => r \in Of(Owner(r)))
  BY <1>1
<1>4. /\ global = Cardinality(All)
      /\ Cardinality(Of(Owner(r))) =
           IF states[Owner(r)] = None THEN 0 ELSE states[Owner(r)].active
  BY <1>1 DEF SlotsTell, SlotsAreReturned, In
<1>5. /\ Cardinality(All) \in Nat \ {0}
      /\ pc[r] \in Admitted => Cardinality(Of(Owner(r))) \in Nat \ {0}
  <2> HIDE DEF All, Of
  <2> QED
    BY <1>2, <1>3, FS_EmptySet, FS_CardinalityType
<1>6. pc[r] \in Admitted => states[Owner(r)] # None
  BY <1>4, <1>5
<1>7. states[Owner(r)] \in State \union {None}
  BY <1>1 DEF TypeOK
<1> QED
  BY <1>1, <1>4, <1>5, <1>6, <1>7

(* No slot is taken or given back.                                         *)
LEMMA SlotsUntouched ==
  ASSUME AdmissionInv, NEW r \in Requests, UNCHANGED <<global, states, start>>,
         HeldBy(r)' = HeldBy(r),
         \A p \in Principals : CountedBy(r, p)' = CountedBy(r, p)
  PROVE  SlotStep(r)
<1>1. Known' = Known
  BY DEF Known
<1>2. /\ global \in Int /\ HeldBy(r) \in Int
      /\ \A p \in Principals : ActiveOf(p) \in Int /\ CountedBy(r, p) \in Int
  BY StateFields, LimitsAssumption
     DEF AdmissionInv, TypeOK, HeldBy, CountedBy, ActiveOf
<1>3. \A p \in Principals : ActiveOf(p)' = ActiveOf(p)
  BY DEF ActiveOf
<1> QED
  BY <1>1, <1>2, <1>3 DEF SlotStep, AdmissionInv, SlotsTell, SlotsAreReturned

(* A request that is turned away before it takes a slot.                   *)
LEMMA LeavesAtOnce ==
  ASSUME AdmissionInv, NEW r \in Requests, pc[r] = "idle", Goes(r, "done"),
         UNCHANGED <<surface, minute, start, serving, open, limiter, call, stamp,
                     store, outcome>>
  PROVE  StepOf(r)
<1> USE DEF AdmissionInv, Goes, limiter, store, outcome
<1>1. TypeOK'
  BY DEF TypeOK, Places
<1>2. OthersStay(r)
  BY DEF OthersStay, TypeOK
<1>3. pc'[r] = "done"
  BY DEF TypeOK
<1>4. SlotStep(r)
  BY <1>3, SlotsUntouched DEF HeldBy, CountedBy, Holding, Admitted
<1>5. Rows' = Rows /\ Cardinality(Rows) <= MaxRows
  BY DEF Rows, RowsTell
<1>6. PlaceTellsOf(r)' /\ RowTells(r)'
  BY <1>3 DEF PlaceTells, PlaceTellsOf, RowsTell, RowTells, Called,
              Holding, Admitted
<1> QED
  BY <1>1, <1>2, <1>4, <1>5, <1>6 DEF StepOf

(* acquire takes a slot.                                                   *)
LEMMA TakesSlot ==
  ASSUME AdmissionInv, NEW r \in Requests, NEW token \in Tokens,
         TakeSlot(r, token)
  PROVE  StepOf(r)
<1> USE DEF AdmissionInv, TakeSlot, Goes, store, outcome
<1>0. start \in Starts
  BY DEF PlaceTells
<1>1. call' \in [Requests -> Call \union {None}]
  BY <1>0, CallMade DEF TypeOK
<1>2. global' \in 0..Concurrent
  BY LimitsAssumption DEF TypeOK
<1>3. TypeOK'
  BY <1>1, <1>2 DEF TypeOK, Places, Holding
<1>4. OthersStay(r)
  BY DEF OthersStay, TypeOK
<1>5. pc'[r] = "acquiring" /\ call'[r] \in Call /\ call'[r].start = start
  BY <1>0, CallMade DEF TypeOK
<1>6. SlotStep(r)
  <2>1. HeldBy(r) = 0 /\ HeldBy(r)' = 1
    BY <1>5 DEF HeldBy, Holding, Admitted, Stray
  <2>2. \A p \in Principals : CountedBy(r, p) = 0 /\ CountedBy(r, p)' = 0
    BY <1>5 DEF CountedBy, Admitted
  <2>3. /\ global \in Int /\ Known' = Known
        /\ \A p \in Principals : ActiveOf(p)' = ActiveOf(p)
    BY LimitsAssumption DEF TypeOK, Known, ActiveOf
  <2> QED
    BY <2>1, <2>2, <2>3 DEF SlotStep, SlotsTell, SlotsAreReturned
<1>7. Rows' = Rows /\ Cardinality(Rows) <= MaxRows
  BY DEF Rows, RowsTell
<1>8. PlaceTellsOf(r)'
  BY <1>0, <1>5 DEF PlaceTells, PlaceTellsOf, Starts
<1>9. RowTells(r)'
  BY <1>5, NoneAssumption
     DEF PlaceTells, PlaceTellsOf, RowsTell, RowTells, Called
<1> QED
  BY <1>3, <1>4, <1>6, <1>7, <1>8, <1>9 DEF StepOf

-----------------------------------------------------------------------------
(* The sweep forgets only principals of which no request is in progress.   *)
LEMMA SweepForgetsIdle ==
  ASSUME AdmissionInv, NEW now \in 0..MaxMinute
  PROVE  /\ Swept(now) \in [Principals -> State \union {None}]
         /\ \A p \in Principals :
              ActiveOf(p) = IF Swept(now)[p] = None THEN 0
                            ELSE Swept(now)[p].active
         /\ {p \in Principals : Swept(now)[p] # None} \subseteq Known
<1>1. states \in [Principals -> State \union {None}]
  BY DEF AdmissionInv, TypeOK
<1>2. CASE Cardinality(Known) < MaxStates
  BY <1>1, <1>2 DEF Swept, ActiveOf, Known
<1>3. CASE ~(Cardinality(Known) < MaxStates)
  <2>1. \A p \in Principals :
          Swept(now)[p] = IF states[p] # None /\ Idle(states[p], now)
                          THEN None ELSE states[p]
    BY <1>3 DEF Swept
  <2>2. Swept(now) \in [Principals -> State \union {None}]
    BY <1>1, <1>3 DEF Swept
  <2> QED
    BY <2>1, <2>2 DEF ActiveOf, Known, Idle
<1> QED
  BY <1>2, <1>3

(* A principal that is let into the map fits into it.                      *)
LEMMA LetIn ==
  ASSUME AdmissionInv, NEW p \in Principals, NEW now \in 0..MaxMinute,
         ~Full(Swept(now), p), NEW k \in State,
         states' = [Swept(now) EXCEPT ![p] = k]
  PROVE  /\ states' \in [Principals -> State \union {None}]
         /\ \A q \in Principals :
              ActiveOf(q)' = IF q = p THEN k.active ELSE ActiveOf(q)
         /\ IsFiniteSet(Known') /\ Cardinality(Known') <= MaxStates
<1> DEFINE S == {q \in Principals : Swept(now)[q] # None}
<1>1. /\ Swept(now) \in [Principals -> State \union {None}]
      /\ S \subseteq Known
  BY SweepForgetsIdle
<1>2. \A q \in Principals :
        ActiveOf(q)' = IF q = p THEN k.active ELSE ActiveOf(q)
  BY <1>1, SweepForgetsIdle, StateFields DEF ActiveOf
<1>3. Known' = S \union {p}
  BY <1>1, StateFields DEF Known
<1>4. /\ IsFiniteSet(Known) /\ Cardinality(Known) <= MaxStates
      /\ MaxStates \in Nat
  BY LimitsAssumption DEF AdmissionInv, SlotsTell, SlotsAreReturned
<1>5. /\ IsFiniteSet(S) /\ Cardinality(S) <= MaxStates
      /\ Cardinality(S) \in Nat
  <2>1. IsFiniteSet(S) /\ Cardinality(S) <= Cardinality(Known)
    BY <1>1, <1>4, FS_Subset
  <2>2. Cardinality(S) \in Nat /\ Cardinality(Known) \in Nat
    BY <1>4, <2>1, FS_CardinalityType
  <2> QED
    BY <1>4, <2>1, <2>2
<1>6. p \in S \/ Cardinality(S) < MaxStates
  BY <1>4, <1>5 DEF Full
<1>7. /\ IsFiniteSet(S \union {p})
      /\ Cardinality(S \union {p}) =
           IF p \in S THEN Cardinality(S) ELSE Cardinality(S) + 1
  <2> HIDE DEF S
  <2> QED
    BY <1>5, FS_AddElement
<1>8. Cardinality(S \union {p}) <= MaxStates
  <2> HIDE DEF S
  <2> QED
    BY <1>4, <1>5, <1>6, <1>7
<1> QED
  BY <1>1, <1>2, <1>3, <1>7, <1>8

(* The state a request is counted in: as many are active as were before.   *)
LEMMA CountedState ==
  ASSUME AdmissionInv, NEW p \in Principals, NEW now \in 0..MaxMinute
  PROVE  /\ Counted(Swept(now), p, now) \in State
         /\ Counted(Swept(now), p, now).active = ActiveOf(p)
<1> DEFINE old == IF Swept(now)[p] = None THEN NewState ELSE Swept(now)[p]
<1>1. NewState \in State /\ NewState.active = 0
  BY StateMade, LimitsAssumption DEF NewState
<1>2. old \in State /\ old.active = ActiveOf(p)
  BY <1>1, SweepForgetsIdle
<1>3. CASE old.minute = now
  BY <1>2, <1>3 DEF Counted, Current
<1>4. CASE old.minute # now
  <2>1. Counted(Swept(now), p, now) =
          [minute |-> now, count |-> 0, active |-> old.active,
           seen |-> old.seen]
    BY <1>4 DEF Counted, Current
  <2>2. old.active \in 0..PerPrincipal /\ old.seen \in 0..MaxMinute
    BY <1>2, StateFields
  <2> HIDE DEF old
  <2>3. Counted(Swept(now), p, now) \in State
    BY <2>1, <2>2, StateMade, LimitsAssumption
  <2> QED
    BY <1>2, <2>1, <2>3
<1> QED
  BY <1>3, <1>4

(* acquire counts a request that it admits.                                *)
LEMMA Acquires ==
  ASSUME AdmissionInv, NEW r \in Requests, Acquire(r)
  PROVE  StepOf(r)
<1> DEFINE p == Owner(r)
           now == stamp[r]
           k == Counted(Swept(now), p, now)
           more == [minute |-> now, count |-> k.count + 1,
                    active |-> k.active + 1, seen |-> now]
<1> USE DEF AdmissionInv, Goes, store, outcome
<1>1. /\ pc[r] = "acquiring" /\ ~Stray(r) /\ pc' = [pc EXCEPT ![r] = "admitted"]
      /\ ~Full(Swept(now), p) /\ Within(k)
      /\ states' = [Swept(now) EXCEPT ![p] = more]
      /\ UNCHANGED <<surface, minute, start, serving, open, global, call, stamp, store,
                     outcome>>
  BY DEF Acquire
<1>2. now \in 0..MaxMinute
  BY DEF TypeOK
<1>3. p \in Principals
  BY <1>1, HeldIsCounted DEF Holding
<1>4. k \in State /\ k.active = ActiveOf(p)
  BY <1>2, <1>3, CountedState
<1>5. more \in State /\ more.active = ActiveOf(p) + 1
  <2> HIDE DEF k, now, p
  <2>1. k.count + 1 \in 0..RequestsPerMinute /\ k.active + 1 \in 0..PerPrincipal
    BY <1>1, <1>4, StateFields, LimitsAssumption DEF Within
  <2> QED
    BY <1>2, <1>4, <2>1, StateMade
<1>6. /\ states' \in [Principals -> State \union {None}]
      /\ \A q \in Principals :
           ActiveOf(q)' = IF q = p THEN ActiveOf(p) + 1 ELSE ActiveOf(q)
      /\ IsFiniteSet(Known') /\ Cardinality(Known') <= MaxStates
  <2> HIDE DEF more, p, now
  <2> QED
    BY <1>1, <1>2, <1>3, <1>5, LetIn
<1>7. TypeOK'
  BY <1>1, <1>6 DEF TypeOK, Places, Holding, Admitted
<1>8. OthersStay(r)
  BY <1>1 DEF OthersStay, TypeOK
<1>9. pc'[r] = "admitted"
  BY <1>1 DEF TypeOK
<1>10. SlotStep(r)
  <2>1. HeldBy(r)' = HeldBy(r)
    BY <1>1, <1>9 DEF HeldBy, Holding, Admitted, Stray
  <2>2. \A q \in Principals :
          /\ CountedBy(r, q) = 0
          /\ CountedBy(r, q)' = IF q = p THEN 1 ELSE 0
    BY <1>1, <1>9 DEF CountedBy, Admitted, Stray, Owner
  <2>3. /\ global' = global /\ global \in Int /\ HeldBy(r) \in Int
        /\ \A q \in Principals : ActiveOf(q) \in Int
    BY <1>1, StateFields, LimitsAssumption DEF TypeOK, ActiveOf, HeldBy
  <2> HIDE DEF p
  <2> QED
    BY <1>6, <2>1, <2>2, <2>3 DEF SlotStep
<1>11. Rows' = Rows /\ Cardinality(Rows) <= MaxRows
  BY <1>1 DEF Rows, RowsTell
<1>12. PlaceTellsOf(r)' /\ RowTells(r)'
  BY <1>1, <1>9 DEF PlaceTells, PlaceTellsOf, RowsTell, RowTells, Called,
                    Holding
<1> QED
  BY <1>7, <1>8, <1>10, <1>11, <1>12 DEF StepOf

(* acquire refuses: the map may have been swept, and the principal's state *)
(* moved on to this minute.                                                *)
LEMMA RefusesRate ==
  ASSUME AdmissionInv, NEW r \in Requests, RefuseRate(r)
  PROVE  StepOf(r)
<1> DEFINE p == Owner(r)
           now == stamp[r]
           k == Counted(Swept(now), p, now)
<1> USE DEF AdmissionInv, Goes, store, outcome
<1>1. /\ pc[r] = "acquiring" /\ ~Stray(r) /\ pc' = [pc EXCEPT ![r] = "leaving"]
      /\ states' = IF Full(Swept(now), p) THEN Swept(now)
                   ELSE [Swept(now) EXCEPT ![p] = k]
      /\ stamp' = [stamp EXCEPT ![r] = 0]
      /\ UNCHANGED <<surface, minute, start, serving, open, global, call, store,
                     outcome>>
  BY DEF RefuseRate
<1>2. now \in 0..MaxMinute
  BY DEF TypeOK
<1>3. p \in Principals
  BY <1>1, HeldIsCounted DEF Holding
<1>4. k \in State /\ k.active = ActiveOf(p)
  BY <1>2, <1>3, CountedState
<1>5. /\ states' \in [Principals -> State \union {None}]
      /\ \A q \in Principals : ActiveOf(q)' = ActiveOf(q)
      /\ IsFiniteSet(Known') /\ Cardinality(Known') <= MaxStates
  <2>1. CASE Full(Swept(now), p)
    <3>1. /\ states' = Swept(now) /\ Known' \subseteq Known
          /\ \A q \in Principals : ActiveOf(q)' = ActiveOf(q)
      BY <1>1, <1>2, <2>1, SweepForgetsIdle DEF Known, ActiveOf
    <3>2. /\ IsFiniteSet(Known) /\ Cardinality(Known) <= MaxStates
          /\ MaxStates \in Nat
      BY LimitsAssumption DEF SlotsTell, SlotsAreReturned
    <3>3. IsFiniteSet(Known') /\ Cardinality(Known') <= Cardinality(Known)
      BY <3>1, <3>2, FS_Subset
    <3>4. Cardinality(Known') \in Nat /\ Cardinality(Known) \in Nat
      BY <3>2, <3>3, FS_CardinalityType
    <3>5. Cardinality(Known') <= MaxStates
      BY <3>2, <3>3, <3>4
    <3> QED
      BY <1>2, <3>1, <3>3, <3>5, SweepForgetsIdle
  <2>2. CASE ~Full(Swept(now), p)
    <3> HIDE DEF k, p, now
    <3> QED
      BY <1>1, <1>2, <1>3, <1>4, <2>2, LetIn
  <2> QED
    BY <2>1, <2>2
<1>6. TypeOK'
  BY <1>1, <1>5, LimitsAssumption DEF TypeOK, Places, Holding
<1>7. OthersStay(r)
  BY <1>1 DEF OthersStay, TypeOK
<1>8. pc'[r] = "leaving"
  BY <1>1 DEF TypeOK
<1>9. SlotStep(r)
  <2>1. HeldBy(r)' = HeldBy(r)
    BY <1>1, <1>8 DEF HeldBy, Holding, Admitted, Stray
  <2>2. \A q \in Principals : CountedBy(r, q) = 0 /\ CountedBy(r, q)' = 0
    BY <1>1, <1>8 DEF CountedBy, Admitted
  <2>3. global' = global /\ global \in Int /\ HeldBy(r) \in Int
    BY <1>1, LimitsAssumption DEF TypeOK, HeldBy
  <2> QED
    BY <1>5, <2>1, <2>2, <2>3 DEF SlotStep
<1>10. Rows' = Rows /\ Cardinality(Rows) <= MaxRows
  BY <1>1 DEF Rows, RowsTell
<1>11. PlaceTellsOf(r)' /\ RowTells(r)'
  BY <1>1, <1>8 DEF PlaceTells, PlaceTellsOf, RowsTell, RowTells, Called,
                    Holding
<1> QED
  BY <1>6, <1>7, <1>9, <1>10, <1>11 DEF StepOf

(* acquire in a limiter of a start that is over.                           *)
LEMMA AcquiresStray ==
  ASSUME AdmissionInv, NEW r \in Requests, AcquireStray(r)
  PROVE  StepOf(r)
<1> USE DEF AdmissionInv, AcquireStray, Goes, limiter, store, outcome
<1>1. TypeOK'
  BY DEF TypeOK, Places, Holding, Admitted
<1>2. OthersStay(r)
  BY DEF OthersStay, TypeOK
<1>3. pc'[r] \in {"admitted", "leaving"}
  BY DEF TypeOK
<1>4. SlotStep(r)
  BY SlotsUntouched DEF HeldBy, CountedBy, Stray
<1>5. Rows' = Rows /\ Cardinality(Rows) <= MaxRows
  BY DEF Rows, RowsTell
<1>6. PlaceTellsOf(r)' /\ RowTells(r)'
  BY <1>3 DEF PlaceTells, PlaceTellsOf, RowsTell, RowTells, Called,
              Holding
<1> QED
  BY <1>1, <1>2, <1>4, <1>5, <1>6 DEF StepOf

-----------------------------------------------------------------------------
(* What deleting rows leaves.                                              *)
LEMMA Forgets ==
  ASSUME NEW table \in [Requests -> Row \union {None}], NEW D \in SUBSET Requests
  PROVE  /\ Forget(table, D) \in [Requests -> Row \union {None}]
         /\ \A r \in Requests :
              Forget(table, D)[r] = IF r \in D THEN None ELSE table[r]
         /\ {r \in Requests : Forget(table, D)[r] # None} =
              {r \in Requests : table[r] # None} \ D
  BY DEF Forget

(* DeleteExpired removes rows and remembers them.                          *)
LEMMA Expires ==
  ASSUME AdmissionInv, DeleteExpired
  PROVE  /\ audit' \in [Requests -> Row \union {None}]
         /\ dropped' \subseteq Requests /\ dropped \subseteq dropped'
         /\ \A r \in Requests :
              \/ audit'[r] = audit[r] /\ (r \in dropped' <=> r \in dropped)
              \/ audit[r] # None /\ audit'[r] = None /\ r \in dropped'
         /\ Cardinality(Rows') <= MaxRows
<1> USE DEF AdmissionInv
<1>1. PICK D \in SUBSET Rows : /\ audit' = Forget(audit, D)
                               /\ dropped' = dropped \union D
  BY DEF DeleteExpired, Oldest, Rows
<1>2. /\ audit' \in [Requests -> Row \union {None}]
      /\ \A r \in Requests : audit'[r] = IF r \in D THEN None ELSE audit[r]
      /\ Rows' = Rows \ D
  BY <1>1, Forgets DEF TypeOK, Rows
<1>3. IsFiniteSet(Rows)
  <2>1. Rows \subseteq Busy
    BY DEF Rows, Busy, PlaceTells, PlaceTellsOf
  <2> QED
    BY <2>1, FS_Subset DEF PlaceTells
<1>4. IsFiniteSet(Rows \ D) /\ Cardinality(Rows \ D) <= Cardinality(Rows)
  BY <1>3, FS_Subset
<1>5. Cardinality(Rows \ D) <= MaxRows
  <2>1. /\ Cardinality(Rows \ D) \in Nat /\ Cardinality(Rows) \in Nat
        /\ MaxRows \in Nat /\ Cardinality(Rows) <= MaxRows
    BY <1>3, <1>4, FS_CardinalityType, LimitsAssumption DEF RowsTell
  <2> QED
    BY <1>4, <2>1
<1> QED
  BY <1>1, <1>2, <1>5 DEF TypeOK, Rows

(* AdmitAudit: one row more, and a batch less when that is too many.       *)
LEMMA Audits ==
  ASSUME AdmissionInv, NEW r \in Requests, AdmitAudit(r)
  PROVE  StepOf(r)
<1> DEFINE row == [op |-> None, status |-> "started", started |-> stamp[r]]
           table == [audit EXCEPT ![r] = row]
           there == {x \in Requests : table[x] # None}
<1> USE DEF AdmissionInv, Goes, limiter, outcome
<1>1. /\ pc[r] = "admitted" /\ pc' = [pc EXCEPT ![r] = "audited"]
      /\ UNCHANGED <<surface, minute, start, serving, open, limiter, call, stamp, outcome>>
  BY DEF AdmitAudit
<1>2. row \in Row /\ row # None
  <2>1. row \in Row
    BY RowMade DEF TypeOK
  <2> QED
    BY <2>1, RowFields
<1>3. table \in [Requests -> Row \union {None}] /\ there = Rows \union {r}
  BY <1>2 DEF TypeOK, Rows
<1>4. PICK D \in SUBSET there :
        /\ audit' = Forget(table, D) /\ dropped' = dropped \union D
        /\ IF Cardinality(there) > MaxRows THEN Cardinality(D) = Batch ELSE D = {}
  BY <1>3 DEF AdmitAudit, Oldest
<1>5. /\ audit' \in [Requests -> Row \union {None}]
      /\ \A x \in Requests : audit'[x] = IF x \in D THEN None ELSE table[x]
      /\ Rows' = there \ D
  <2> HIDE DEF table
  <2> QED
    BY <1>3, <1>4, Forgets DEF Rows
<1>6. IsFiniteSet(Rows)
  <2>1. Rows \subseteq Busy
    BY DEF Rows, Busy, PlaceTells, PlaceTellsOf
  <2> QED
    BY <2>1, FS_Subset DEF PlaceTells
<1>7. Cardinality(Rows') <= MaxRows
  <2> HIDE DEF there
  <2>1. /\ IsFiniteSet(there) /\ Cardinality(there) \in Nat
        /\ Cardinality(there) <= Cardinality(Rows) + 1
    <3>1. /\ IsFiniteSet(Rows \union {r}) /\ Cardinality(Rows) \in Nat
          /\ Cardinality(Rows \union {r}) =
               IF r \in Rows THEN Cardinality(Rows) ELSE Cardinality(Rows) + 1
      BY <1>6, FS_AddElement, FS_CardinalityType
    <3> QED
      BY <1>3, <3>1
  <2>2. Cardinality(Rows) \in Nat /\ Cardinality(Rows) <= MaxRows
    BY <1>6, FS_CardinalityType DEF RowsTell
  <2>3. MaxRows \in Nat /\ Batch \in Nat /\ Batch >= 1
    BY LimitsAssumption
  <2>4. CASE Cardinality(there) > MaxRows
    <3>1. IsFiniteSet(D) /\ IsFiniteSet(there \ D)
      BY <2>1, FS_Subset
    <3>2. Cardinality((there \ D) \union D) = Cardinality(there \ D)
            + Cardinality(D) - Cardinality((there \ D) \intersect D)
      BY <3>1, FS_Union
    <3>3. (there \ D) \union D = there /\ (there \ D) \intersect D = {}
      OBVIOUS
    <3>4. Cardinality((there \ D) \intersect D) = 0
      BY <3>3, FS_EmptySet
    <3>5. Cardinality(there \ D) \in Nat
      BY <3>1, FS_CardinalityType
    <3>6. Cardinality(D) = Batch
      BY <1>4, <2>4
    <3>7. Cardinality(there) = Cardinality(there \ D) + Batch
      BY <2>3, <3>2, <3>3, <3>4, <3>5, <3>6
    <3>8. Cardinality(there \ D) <= MaxRows
      BY <2>1, <2>2, <2>3, <3>5, <3>7
    <3> QED
      BY <1>5, <3>8
  <2>5. CASE ~(Cardinality(there) > MaxRows)
    <3>1. Rows' = there
      BY <1>4, <1>5, <2>5
    <3> QED
      BY <2>1, <2>3, <2>5, <3>1
  <2> QED
    BY <2>4, <2>5
<1>8. TypeOK'
  <2>1. dropped' \subseteq Requests
    BY <1>4 DEF TypeOK
  <2> QED
    BY <1>1, <1>5, <2>1 DEF TypeOK, Places, Holding, Admitted
<1>9. OthersStay(r)
  BY <1>1, <1>4, <1>5 DEF OthersStay, TypeOK
<1>10. pc'[r] = "audited"
  BY <1>1 DEF TypeOK
<1>11. SlotStep(r)
  BY <1>1, <1>10, SlotsUntouched
     DEF HeldBy, CountedBy, Holding, Admitted, Stray, Owner
<1>12. /\ audit'[r] # None => audit'[r].status = "started" /\ audit'[r].op = None
       /\ r \in dropped' \/ audit'[r] # None
  <2>1. table[r] = row
    BY DEF TypeOK
  <2>2. /\ audit'[r] = IF r \in D THEN None ELSE table[r]
        /\ r \in D => r \in dropped'
    BY <1>4, <1>5
  <2>3. row.status = "started" /\ row.op = None
    OBVIOUS
  <2> HIDE DEF table
  <2> QED
    BY <1>2, <2>1, <2>2, <2>3
<1>13. r \in dropped' => audit'[r] = None
  BY <1>1, <1>4, <1>5 DEF PlaceTells, PlaceTellsOf
<1>14. PlaceTellsOf(r)'
  BY <1>1, <1>10, <1>13 DEF PlaceTells, PlaceTellsOf, Holding, Admitted
<1>15. r \notin applied'
  BY <1>1 DEF RowsTell, RowTells
<1>16. RowTells(r)'
  BY <1>10, <1>12, <1>15 DEF RowTells, Called
<1> QED
  BY <1>7, <1>8, <1>9, <1>11, <1>14, <1>16 DEF StepOf

-----------------------------------------------------------------------------
(* A request comes to an operation.                                        *)
LEMMA Notes ==
  ASSUME TypeOK, NEW r \in Requests, NEW op \in Operations,
         call[r] \in Call, call' = Noted(r, op)
  PROVE  /\ call' \in [Requests -> Call \union {None}]
         /\ call'[r] \in Call /\ call'[r].op = op
         /\ call'[r].token = call[r].token /\ call'[r].start = call[r].start
         /\ \A x \in Requests \ {r} : call'[x] = call[x]
<1>1. [token |-> call[r].token, op |-> op, start |-> call[r].start] \in Call
  BY CallFields, CallMade
<1> QED
  BY <1>1 DEF Noted, TypeOK

(* The operation is called, and on the toolbox surface it is first noted   *)
(* in a row that is there, and empty.                                      *)
LEMMA Comes ==
  ASSUME AdmissionInv, NEW r \in Requests, NEW op \in Operations,
         pc[r] = "audited", Covers(call[r].token, op), Goes(r, "resolved"),
         call' = Noted(r, op),
         UNCHANGED <<surface, minute, start, serving, open, limiter, stamp, dropped,
                     outcome>>,
         audit' \in [Requests -> Row \union {None}],
         \A x \in Requests : audit'[x] # None <=> audit[x] # None,
         \A x \in Requests \ {r} : audit'[x] = audit[x],
         audit[r] # None => audit'[r].status = audit[r].status,
         audit[r] # None => audit'[r].op = IF surface = "toolbox.v1" THEN op ELSE None
  PROVE  StepOf(r)
<1> USE DEF AdmissionInv, Goes, limiter, outcome
<1>1. call[r] \in Call
  BY DEF PlaceTells, PlaceTellsOf, Holding, Admitted
<1>2. /\ call' \in [Requests -> Call \union {None}]
      /\ call'[r] \in Call /\ call'[r].op = op
      /\ call'[r].token = call[r].token /\ call'[r].start = call[r].start
      /\ \A x \in Requests \ {r} : call'[x] = call[x]
  BY <1>1, Notes
<1>3. TypeOK'
  BY <1>2 DEF TypeOK, Places, Holding, Admitted
<1>4. OthersStay(r)
  BY <1>2 DEF OthersStay, TypeOK
<1>5. pc'[r] = "resolved"
  BY DEF TypeOK
<1>6. SlotStep(r)
  BY <1>2, <1>5, SlotsUntouched
     DEF HeldBy, CountedBy, Holding, Admitted, Stray, Owner
<1>7. Rows' = Rows /\ Cardinality(Rows) <= MaxRows
  BY DEF Rows, RowsTell
<1>8. PlaceTellsOf(r)'
  BY <1>2, <1>5 DEF PlaceTells, PlaceTellsOf, Holding, Admitted
<1>9. r \notin applied
  BY DEF RowsTell, RowTells
<1>10. RowTells(r)'
  BY <1>2, <1>5, <1>9 DEF RowsTell, RowTells, Called, Covers
<1> QED
  BY <1>3, <1>4, <1>6, <1>7, <1>8, <1>10 DEF StepOf

LEMMA Dispatches ==
  ASSUME AdmissionInv, NEW r \in Requests, NEW op \in Operations,
         Dispatch(r, op)
  PROVE  StepOf(r)
<1>1. /\ pc[r] = "audited" /\ surface = "typed.v1" /\ audit' = audit /\ dropped' = dropped
      /\ Covers(call[r].token, op) /\ Goes(r, "resolved") /\ call' = Noted(r, op)
      /\ UNCHANGED <<surface, minute, start, serving, open, limiter, stamp, outcome>>
  BY DEF Dispatch, store
<1>2. audit[r] # None => audit[r].op = None
  BY <1>1 DEF AdmissionInv, RowsTell, RowTells
<1> QED
  BY <1>1, <1>2, Comes DEF AdmissionInv, TypeOK

LEMMA Resolves ==
  ASSUME AdmissionInv, NEW r \in Requests, NEW op \in Operations,
         Resolve(r, op)
  PROVE  StepOf(r)
<1>1. /\ pc[r] = "audited" /\ surface = "toolbox.v1" /\ audit[r] # None
      /\ Covers(call[r].token, op) /\ Goes(r, "resolved") /\ call' = Noted(r, op)
      /\ UNCHANGED <<surface, minute, start, serving, open, limiter, stamp, dropped,
                     outcome>>
  BY DEF Resolve
<1>2. /\ audit' \in [Requests -> Row \union {None}]
      /\ audit'[r] # None /\ audit'[r].op = op
      /\ audit'[r].status = audit[r].status
      /\ \A x \in Requests : audit'[x] # None <=> audit[x] # None
      /\ \A x \in Requests \ {r} : audit'[x] = audit[x]
  <2> USE DEF AdmissionInv
  <2>1. audit[r] \in Row
    BY <1>1 DEF TypeOK
  <2>2. [audit[r] EXCEPT !.op = op] \in Row
    BY <2>1 DEF Row
  <2>3. audit' = [audit EXCEPT ![r] = [audit[r] EXCEPT !.op = op]]
    BY DEF Resolve
  <2>4. /\ [audit[r] EXCEPT !.op = op].op = op
        /\ [audit[r] EXCEPT !.op = op].status = audit[r].status
    BY <2>1 DEF Row
  <2> QED
    BY <1>1, <2>1, <2>2, <2>3, <2>4, RowFields DEF TypeOK
<1> QED
  BY <1>1, <1>2, Comes

(* The operation a request came to is noted with its answer.               *)
CallNoted(r) ==
  \/ call' = call
  \/ pc[r] = "audited" /\ \E op \in Operations : call' = Noted(r, op)

(* A request is answered, and has written at most what it was called for.  *)
LEMMA Answering ==
  ASSUME AdmissionInv, NEW r \in Requests, pc[r] \in {"audited", "resolved"},
         Goes(r, "answered"),
         NEW what \in Answers, answer' = [answer EXCEPT ![r] = what],
         CallNoted(r),
         applied' = applied
           \/ /\ applied' = applied \union {r}
              /\ pc[r] = "resolved" /\ Allowed(call[r].op)
              /\ call[r].op \in Mutating,
         UNCHANGED <<surface, minute, start, serving, open, limiter, stamp, store>>
  PROVE  StepOf(r)
<1> USE DEF AdmissionInv, Goes, limiter, store
<1>1. call[r] \in Call
  BY DEF PlaceTells, PlaceTellsOf, Holding, Admitted
<1>2. /\ call' \in [Requests -> Call \union {None}] /\ call'[r] \in Call
      /\ call'[r].token = call[r].token /\ call'[r].start = call[r].start
      /\ \A x \in Requests \ {r} : call'[x] = call[x]
      /\ pc[r] = "resolved" => call'[r] = call[r]
  <2>1. CASE call' = call
    BY <1>1, <2>1 DEF TypeOK
  <2>2. ASSUME pc[r] = "audited", NEW op \in Operations, call' = Noted(r, op)
        PROVE  <1>2!1 /\ <1>2!2 /\ <1>2!3 /\ <1>2!4
    BY <1>1, <2>2, Notes
  <2> QED
    BY <2>1, <2>2 DEF CallNoted
<1>3. TypeOK'
  BY <1>2 DEF TypeOK, Places, Holding, Admitted
<1>4. OthersStay(r)
  BY <1>2 DEF OthersStay, TypeOK
<1>5. pc'[r] = "answered" /\ answer'[r] = what
  BY DEF TypeOK
<1>6. SlotStep(r)
  BY <1>2, <1>5, SlotsUntouched
     DEF HeldBy, CountedBy, Holding, Admitted, Stray, Owner
<1>7. Rows' = Rows /\ Cardinality(Rows) <= MaxRows
  BY DEF Rows, RowsTell
<1>8. PlaceTellsOf(r)'
  BY <1>2, <1>5 DEF PlaceTells, PlaceTellsOf, Holding, Admitted
<1>9. r \notin applied
  BY DEF RowsTell, RowTells
<1>10. r \in applied' =>
        /\ pc[r] = "resolved" /\ call[r].op \in Mutating
        /\ RequiredScope(call[r].op) \in Fixed
  BY <1>9 DEF Allowed, Mutating, Writing, Importing, Reading, Running, Exporting
<1>11. RowTells(r)'
  BY <1>2, <1>5, <1>9, <1>10 DEF RowsTell, RowTells, Called
<1> QED
  BY <1>3, <1>4, <1>6, <1>7, <1>8, <1>11 DEF StepOf

(* So with the call it came with.                                          *)
LEMMA Ending ==
  ASSUME AdmissionInv, NEW r \in Requests, pc[r] \in {"audited", "resolved"},
         Goes(r, "answered"),
         NEW what \in Answers, answer' = [answer EXCEPT ![r] = what],
         applied' = applied
           \/ /\ applied' = applied \union {r}
              /\ pc[r] = "resolved" /\ Allowed(call[r].op)
              /\ call[r].op \in Mutating,
         UNCHANGED <<surface, minute, start, serving, open, limiter, call, stamp, store>>
  PROVE  StepOf(r)
<1>1. CallNoted(r)
  BY DEF CallNoted
<1>2. UNCHANGED <<surface, minute, start, serving, open, limiter, stamp, store>>
  OBVIOUS
<1> QED
  BY <1>1, <1>2, Answering

(* What a failure is worded as.                                            *)
LEMMA FailureWords ==
  ASSUME NEW op, NEW code
  PROVE  Failure(op, code) \in Answers
  BY DEF Failure, Answers

(* The actions that answer a request.                                      *)
LEMMA Answered ==
  ASSUME AdmissionInv, NEW r \in Requests,
         \/ \E op \in Operations : Deny(r, op) \/ ResolveFails(r, op)
         \/ Describe(r) \/ RefuseFields(r) \/ RefuseUnapproved(r)
         \/ Serve(r) \/ Reject(r)
         \/ \E code \in Failures : ServiceFails(r, code)
  PROVE  StepOf(r)
<1> USE FailureWords
<1>1. ASSUME NEW op \in Operations, Deny(r, op)
      PROVE  StepOf(r)
  BY <1>1, Answering DEF CallNoted, Deny, Refuse, Fails, Answers
<1>2. ASSUME NEW op \in Operations, ResolveFails(r, op)
      PROVE  StepOf(r)
  BY <1>2, Answering DEF CallNoted, ResolveFails, Fails, Answers
<1>3. CASE Describe(r)
  BY <1>3, Ending DEF Describe, Answers
<1>4. CASE RefuseFields(r)
  BY <1>4, Ending DEF RefuseFields, Fails, Answers
<1>5. CASE RefuseUnapproved(r)
  BY <1>5, Ending DEF RefuseUnapproved, Refuse
<1>6. CASE Serve(r)
  BY <1>6, Ending DEF Serve, Serves, Answers
<1>7. CASE Reject(r)
  BY <1>7, Ending DEF Reject, Serves, Refuse
<1>8. CASE \E code \in Failures : ServiceFails(r, code)
  BY <1>8, Ending DEF ServiceFails, Serves, Refuse
<1> QED
  BY <1>1, <1>2, <1>3, <1>4, <1>5, <1>6, <1>7, <1>8

-----------------------------------------------------------------------------
(* The row of a request that is answered is completed, or left as it is.   *)
RowLeft(r) ==
  \/ audit' = audit
  \/ /\ pc[r] = "answered" /\ audit[r] # None
     /\ audit' = [audit EXCEPT ![r].status = "completed"]

(* The deferred release of a request, admitted or answered.                *)
LEMMA Releases ==
  ASSUME AdmissionInv, NEW r \in Requests, pc[r] \in {"admitted", "answered"},
         Release(r), RowLeft(r),
         UNCHANGED <<surface, minute, start, serving, open, global, dropped, applied>>
  PROVE  StepOf(r)
<1> USE DEF AdmissionInv, Release, Goes
<1>1. pc' = [pc EXCEPT ![r] = "leaving"] /\ pc'[r] = "leaving"
  BY DEF TypeOK
<1>2. call[r] \in Call
  BY DEF PlaceTells, PlaceTellsOf, Holding, Admitted
<1>3. /\ call' \in [Requests -> Call \union {None}] /\ call'[r] \in Call
      /\ call'[r].token = call[r].token /\ call'[r].start = call[r].start
      /\ r \in applied => call'[r] = call[r]
      /\ \A x \in Requests \ {r} : call'[x] = call[x]
  <2>1. [token |-> call[r].token, op |-> None, start |-> call[r].start] \in Call
    BY <1>2, CallFields, CallMade
  <2> QED
    BY <1>2, <2>1 DEF Noted, TypeOK
<1>4. /\ audit' \in [Requests -> Row \union {None}]
      /\ audit'[r] # None => audit'[r].op = audit[r].op
      /\ \A x \in Requests : audit'[x] # None <=> audit[x] # None
      /\ \A x \in Requests \ {r} : audit'[x] = audit[x]
  <2>1. CASE audit' = audit
    BY <2>1 DEF TypeOK
  <2>2. CASE audit' # audit
    <3>1. audit[r] \in Row
      BY <2>2 DEF RowLeft, TypeOK
    <3>2. /\ [audit[r] EXCEPT !.status = "completed"] \in Row
          /\ [audit[r] EXCEPT !.status = "completed"].op = audit[r].op
      BY <3>1 DEF Row
    <3>3. audit' = [audit EXCEPT ![r] = [audit[r] EXCEPT !.status = "completed"]]
      BY <2>2 DEF RowLeft
    <3> QED
      BY <3>1, <3>2, <3>3, RowFields DEF TypeOK
  <2> QED
    BY <2>1, <2>2
<1>5. /\ stamp' \in [Requests -> 0..MaxMinute]
      /\ answer' \in [Requests -> Answers \union {None}] /\ answer'[r] = None
      /\ pc' \in [Requests -> Places]
      /\ \A x \in Requests \ {r} : answer'[x] = answer[x]
  BY LimitsAssumption DEF TypeOK, Places, Holding
<1>6. states' \in [Principals -> State \union {None}] => TypeOK'
  BY <1>3, <1>4, <1>5 DEF TypeOK
<1>7. ASSUME Stray(r)
      PROVE  TypeOK' /\ SlotStep(r)
  <2>1. states' = states
    BY <1>7
  <2>2. TypeOK'
    BY <1>6, <2>1 DEF TypeOK
  <2>3. SlotStep(r)
    BY <1>3, <1>7, <2>1, SlotsUntouched DEF HeldBy, CountedBy, Stray
  <2> QED
    BY <2>2, <2>3
<1>8. ASSUME ~Stray(r)
      PROVE  TypeOK' /\ SlotStep(r)
  <2> DEFINE p == Owner(r)
             k == Released(states[p])
  <2>1. /\ p \in Principals /\ states[p] \in State /\ states[p].active > 0
        /\ pc[r] \in Admitted
    BY <1>8, HeldIsCounted DEF Holding, Admitted
  <2>2. k \in State /\ k.active = states[p].active - 1
    <3>1. /\ states[p].minute \in 0..MaxMinute /\ minute \in 0..MaxMinute
          /\ states[p].count \in 0..RequestsPerMinute
          /\ states[p].active - 1 \in 0..PerPrincipal
      BY <2>1, StateFields, LimitsAssumption DEF TypeOK
    <3> QED
      BY <3>1, StateMade DEF Released
  <2>3. states' = [states EXCEPT ![p] = k]
    BY <1>8
  <2>4. /\ states' \in [Principals -> State \union {None}]
        /\ \A q \in Principals :
             /\ ActiveOf(q)' = IF q = p THEN ActiveOf(p) - 1 ELSE ActiveOf(q)
             /\ states'[q] # None <=> states[q] # None
    <3> HIDE DEF k, p
    <3> QED
      BY <2>1, <2>2, <2>3, StateFields DEF TypeOK, ActiveOf
  <2>5. TypeOK'
    BY <1>6, <2>4
  <2>6. SlotStep(r)
    <3>1. HeldBy(r)' = HeldBy(r)
      BY <1>1, <1>3, <2>1 DEF HeldBy, Holding, Stray
    <3>2. \A q \in Principals :
            /\ CountedBy(r, q)' = 0
            /\ CountedBy(r, q) = IF q = p THEN 1 ELSE 0
      BY <1>1, <1>8, <2>1 DEF CountedBy, Admitted
    <3>3. Known' = Known
      BY <2>4 DEF Known
    <3>4. /\ global' = global /\ global \in Int /\ HeldBy(r) \in Int
          /\ \A q \in Principals : ActiveOf(q) \in Int
      BY StateFields, LimitsAssumption DEF TypeOK, ActiveOf, HeldBy
    <3> HIDE DEF p
    <3> QED
      BY <2>4, <3>1, <3>2, <3>3, <3>4
         DEF SlotStep, SlotsTell, SlotsAreReturned
  <2> QED
    BY <2>5, <2>6
<1>9. OthersStay(r)
  BY <1>1, <1>3, <1>4, <1>5 DEF OthersStay, TypeOK
<1>10. Rows' = Rows /\ Cardinality(Rows) <= MaxRows
  BY <1>4 DEF Rows, RowsTell
<1>11. PlaceTellsOf(r)'
  BY <1>1, <1>3, <1>4, <1>5 DEF PlaceTells, PlaceTellsOf, Holding, Admitted
<1>12. RowTells(r)'
  BY <1>1, <1>3, <1>4, <1>5, NoneAssumption
     DEF RowsTell, RowTells, Called
<1> QED
  BY <1>7, <1>8, <1>9, <1>10, <1>11, <1>12 DEF StepOf

(* The actions that release a request.                                     *)
LEMMA LeavesAnswered ==
  ASSUME AdmissionInv, NEW r \in Requests,
         AdmitAuditFails(r) \/ CompleteAudit(r) \/ CompleteFails(r)
  PROVE  StepOf(r)
<1>1. CASE AdmitAuditFails(r)
  BY <1>1, Releases DEF AdmitAuditFails, RowLeft, store
<1>2. CASE CompleteAudit(r)
  BY <1>2, Releases DEF CompleteAudit, RowLeft
<1>3. CASE CompleteFails(r)
  BY <1>3, Releases DEF CompleteFails, RowLeft, store
<1> QED
  BY <1>1, <1>2, <1>3

(* The slot goes back.                                                     *)
LEMMA FreesSlot ==
  ASSUME AdmissionInv, NEW r \in Requests, FreeSlot(r)
  PROVE  StepOf(r)
<1> USE DEF AdmissionInv, FreeSlot, Goes, store, outcome
<1>1. pc' = [pc EXCEPT ![r] = "done"] /\ pc'[r] = "done" /\ pc[r] = "leaving"
  BY DEF TypeOK
<1>2. /\ call' \in [Requests -> Call \union {None}]
      /\ r \in applied => call'[r] = call[r]
      /\ \A x \in Requests \ {r} : call'[x] = call[x]
  BY DEF TypeOK
<1>3. /\ global' = global - HeldBy(r) /\ global' \in 0..Concurrent
      /\ HeldBy(r)' = 0 /\ HeldBy(r) \in Int /\ global \in Int
  <2>1. HeldBy(r) = (IF Stray(r) THEN 0 ELSE 1) /\ HeldBy(r)' = 0
    BY <1>1 DEF HeldBy, Holding, Admitted
  <2>2. ~Stray(r) => global > 0
    BY <1>1, HeldIsCounted DEF Holding
  <2> QED
    BY <2>1, <2>2, LimitsAssumption DEF TypeOK
<1>4. TypeOK'
  BY <1>1, <1>2, <1>3 DEF TypeOK, Places
<1>5. OthersStay(r)
  BY <1>1, <1>2 DEF OthersStay, TypeOK
<1>6. SlotStep(r)
  <2>1. \A p \in Principals : CountedBy(r, p) = 0 /\ CountedBy(r, p)' = 0
    BY <1>1 DEF CountedBy, Admitted
  <2>2. Known' = Known /\ \A p \in Principals : ActiveOf(p)' = ActiveOf(p)
    BY DEF Known, ActiveOf
  <2> QED
    BY <1>3, <2>1, <2>2 DEF SlotStep, SlotsTell, SlotsAreReturned
<1>7. Rows' = Rows /\ Cardinality(Rows) <= MaxRows
  BY DEF Rows, RowsTell
<1>8. PlaceTellsOf(r)'
  BY <1>1 DEF PlaceTells, PlaceTellsOf, Holding, Admitted
<1>9. answer'[r] = None
  BY <1>1 DEF PlaceTells, PlaceTellsOf
<1>10. RowTells(r)'
  BY <1>1, <1>2, <1>9, NoneAssumption
     DEF RowsTell, RowTells, Called
<1> QED
  BY <1>4, <1>5, <1>6, <1>7, <1>8, <1>10 DEF StepOf

-----------------------------------------------------------------------------
(* A start of the transport: its limiter is empty, and every request that  *)
(* is still under way has become a stray one.                              *)
LEMMA Starting ==
  ASSUME AdmissionInv, StartHTTP
  PROVE  AdmissionInv'
<1> USE DEF AdmissionInv, StartHTTP, request, outcome
<1>1. /\ audit' \in [Requests -> Row \union {None}]
      /\ dropped' \subseteq Requests /\ dropped \subseteq dropped'
      /\ \A r \in Requests :
           \/ audit'[r] = audit[r] /\ (r \in dropped' <=> r \in dropped)
           \/ audit[r] # None /\ audit'[r] = None /\ r \in dropped'
      /\ Cardinality(Rows') <= MaxRows
  BY Expires
<1>2. start' \in Starts /\ start' > start
  BY LimitsAssumption DEF TypeOK, Starts
<1>3. TypeOK'
  BY <1>1, <1>2, LimitsAssumption DEF TypeOK, NewLimiter, Starts
<1>4. PlaceTells'
  <2>1. \A r \in Requests : PlaceTellsOf(r)'
    <3> SUFFICES ASSUME NEW r \in Requests PROVE PlaceTellsOf(r)'
      OBVIOUS
    <3>1. call[r] \in Call => call[r].start \in Int
      BY CallFields DEF Starts
    <3>2. start \in Int /\ start' \in Int
      BY <1>2 DEF TypeOK, Starts
    <3> QED
      BY <1>1, <1>2, <3>1, <3>2 DEF PlaceTells, PlaceTellsOf
  <2>2. Busy' = Busy
    BY DEF Busy
  <2> QED
    BY <1>2, <2>1, <2>2 DEF PlaceTells
<1>5. SlotsTell'
  <2>1. ASSUME NEW r \in Requests, pc[r] \in Holding
        PROVE  Stray(r)'
    <3>1. call[r].start \in Int /\ call[r].start <= start /\ start \in Int
      BY <2>1, CallFields DEF PlaceTells, PlaceTellsOf, Starts, TypeOK
    <3> QED
      BY <1>2, <3>1 DEF Stray, Starts
  <2>2. \A places \in SUBSET Holding : \A owners :
          In(places, owners)' = Cardinality({})
    <3> SUFFICES ASSUME NEW places \in SUBSET Holding, NEW owners
                 PROVE  In(places, owners)' = Cardinality({})
      OBVIOUS
    <3>1. {r \in Requests :
             pc[r] \in places /\ ~Stray(r) /\ Owner(r) \in owners}' = {}
      BY <2>1
    <3> QED
      BY <3>1 DEF In
  <2>3. Known' = {}
    BY DEF Known, NewLimiter
  <2>4. Cardinality({}) = 0 /\ IsFiniteSet({})
    BY FS_EmptySet
  <2>5. \A p \in Principals : states'[p] = None
    BY DEF NewLimiter
  <2> QED
    BY <2>2, <2>3, <2>4, <2>5, LimitsAssumption
       DEF SlotsTell, SlotsAreReturned, NewLimiter, Holding
<1>6. \A r \in Requests : RowTells(r)'
  BY <1>1 DEF RowsTell, RowTells, Called
<1> QED
  BY <1>1, <1>3, <1>4, <1>5, <1>6 DEF RowsTell

(* A start that fails, a stop, the clock, and no step at all.              *)
LEMMA StandingStill ==
  ASSUME AdmissionInv,
         StartHTTPFails \/ StopHTTP \/ Tick \/ UNCHANGED vars
  PROVE  AdmissionInv'
<1> USE DEF AdmissionInv, limiter, request, store, outcome
<1>1. /\ audit' \in [Requests -> Row \union {None}]
      /\ dropped' \subseteq Requests /\ dropped \subseteq dropped'
      /\ \A r \in Requests :
           \/ audit'[r] = audit[r] /\ (r \in dropped' <=> r \in dropped)
           \/ audit[r] # None /\ audit'[r] = None /\ r \in dropped'
      /\ Cardinality(Rows') <= MaxRows
  <2>1. CASE StartHTTPFails
    BY <2>1, Expires DEF StartHTTPFails
  <2>2. CASE UNCHANGED <<audit, dropped>>
    BY <2>2 DEF TypeOK, RowsTell, Rows
  <2> QED
    BY <2>1, <2>2 DEF StopHTTP, Tick, vars
<1>2. /\ UNCHANGED <<surface, start, global, states, pc, call, stamp, applied, answer>>
      /\ minute' \in 0..MaxMinute /\ serving' \in BOOLEAN
      /\ serving' => serving
      /\ open' \subseteq open
  <2>1. CASE StartHTTPFails
    BY <2>1 DEF StartHTTPFails, TypeOK
  <2>2. CASE StopHTTP
    BY <2>2 DEF StopHTTP, TypeOK
  <2>3. CASE Tick
    BY <2>3, LimitsAssumption DEF Tick, TypeOK
  <2>4. CASE UNCHANGED vars
    BY <2>4 DEF vars, TypeOK
  <2> QED
    BY <2>1, <2>2, <2>3, <2>4
<1>3. TypeOK'
  BY <1>1, <1>2 DEF TypeOK
<1>4. PlaceTells'
  <2>1. \A r \in Requests : PlaceTellsOf(r)'
    BY <1>1, <1>2 DEF PlaceTells, PlaceTellsOf
  <2>2. Busy' = Busy
    BY <1>2 DEF Busy
  <2> QED
    BY <1>2, <2>1, <2>2 DEF PlaceTells
<1>5. SlotsTell'
  BY <1>2 DEF SlotsTell, SlotsAreReturned, In, Known, Stray, Owner
<1>6. \A r \in Requests : RowTells(r)'
  BY <1>1, <1>2 DEF RowsTell, RowTells, Called
<1> QED
  BY <1>1, <1>3, <1>4, <1>5, <1>6 DEF RowsTell

-----------------------------------------------------------------------------
(* Before the first start nobody has anything.                             *)
LEMMA InitAdmission == Init => AdmissionInv
<1> SUFFICES ASSUME Init PROVE AdmissionInv
  OBVIOUS
<1> USE DEF Init, NewLimiter
<1>1. TypeOK
  <2>1. 0 \in 0..MaxMinute /\ 0 \in 0..MaxStarts /\ 0 \in 0..Concurrent
    BY LimitsAssumption
  <2>2. /\ minute \in 0..MaxMinute /\ start \in 0..MaxStarts
        /\ serving \in BOOLEAN /\ open \subseteq Starts
        /\ global \in 0..Concurrent
    BY <2>1
  <2>3. /\ states \in [Principals -> State \union {None}]
        /\ pc \in [Requests -> Places]
        /\ call \in [Requests -> Call \union {None}]
        /\ stamp \in [Requests -> 0..MaxMinute]
        /\ audit \in [Requests -> Row \union {None}]
        /\ answer \in [Requests -> Answers \union {None}]
    BY <2>1 DEF Places
  <2> QED
    BY <2>2, <2>3 DEF TypeOK
<1>2. /\ Busy = {} /\ Known = {} /\ Rows = {}
      /\ \A places \in SUBSET Holding : \A owners :
           {r \in Requests : pc[r] \in places /\ ~Stray(r)
                             /\ Owner(r) \in owners} = {}
  BY DEF Busy, Known, Rows, Holding, Admitted
<1>3. IsFiniteSet({}) /\ Cardinality({}) = 0
  BY FS_EmptySet
<1>4. PlaceTells
  BY <1>2, <1>3 DEF PlaceTells, PlaceTellsOf, Holding, Admitted
<1>5. SlotsTell
  <2>1. Admitted \in SUBSET Holding /\ Holding \in SUBSET Holding
    BY DEF Holding
  <2>2. \A places \in SUBSET Holding : \A owners : In(places, owners) = 0
    BY <1>2, <1>3 DEF In
  <2> QED
    BY <1>2, <1>3, <2>1, <2>2, LimitsAssumption DEF SlotsTell, SlotsAreReturned
<1>6. RowsTell
  BY <1>2, <1>3, LimitsAssumption, NoneAssumption
     DEF RowsTell, RowTells, Called
<1> QED
  BY <1>1, <1>4, <1>5, <1>6 DEF AdmissionInv

(* Every action keeps the invariant.                                       *)
LEMMA NextAdmission ==
  ASSUME AdmissionInv, [Next]_vars
  PROVE  AdmissionInv'
<1>1. ASSUME NEW r \in Requests, StepOf(r)
      PROVE  AdmissionInv'
  BY <1>1, StepKeepsInv
<1>2. CASE StartHTTP
  BY <1>2, Starting
<1>3. CASE StartHTTPFails \/ StopHTTP \/ Tick \/ UNCHANGED vars
  BY <1>3, StandingStill
<1>4. ASSUME NEW r \in Requests,
             \/ \E token \in Tokens :
                  \/ TakeSlot(r, token)
                  \/ \E op \in Operations : TurnAway(r, token, op)
             \/ RefuseToken(r)
      PROVE  StepOf(r)
  BY <1>4, TakesSlot, LeavesAtOnce DEF TurnAway, RefuseToken
<1>5. ASSUME NEW r \in Requests,
             Acquire(r) \/ RefuseRate(r) \/ AcquireStray(r) \/ AdmitAudit(r)
               \/ FreeSlot(r)
               \/ \E op \in Operations : Dispatch(r, op) \/ Resolve(r, op)
      PROVE  StepOf(r)
  BY <1>5, Acquires, RefusesRate, AcquiresStray, Audits, FreesSlot, Dispatches,
     Resolves
<1> QED
  BY <1>1, <1>2, <1>3, <1>4, <1>5, Answered, LeavesAnswered DEF Next

(* The invariant holds of every state.                                     *)
THEOREM AdmissionIsInvariant == Spec => []AdmissionInv
<1> QED
  BY InitAdmission, NextAdmission, PTL DEF Spec

-----------------------------------------------------------------------------
(* Every variable of the transport keeps its type: no counter of the       *)
(* limiter runs over its limit or below nothing (server.go:309-364).       *)
THEOREM AdmissionTypesAlways == Spec => []TypeOK
<1>1. AdmissionInv => TypeOK
  BY DEF AdmissionInv
<1> QED
  BY <1>1, AdmissionIsInvariant, PTL

(* Slots and shares are given back on every path, and a principal with a   *)
(* request in progress is not forgotten (server.go:327-364).               *)
THEOREM SlotsAreAlwaysReturned == Spec => []SlotsAreReturned
<1>1. AdmissionInv => SlotsAreReturned
  BY DEF AdmissionInv, SlotsTell
<1> QED
  BY <1>1, AdmissionIsInvariant, PTL

(* What the slots are for: of one start of the transport, no more requests *)
(* than its limit are between acquire and release, and of one principal no *)
(* more than its share (server.go:327-364).                                *)
SharesAreKept ==
  /\ In(Holding, Principals) <= Concurrent
  /\ \A p \in Principals : In(Admitted, {p}) <= PerPrincipal

(* The counts of AdmissionInv are bounded by the checks of acquire.         *)
THEOREM SharesAreAlwaysKept == Spec => []SharesAreKept
<1>1. AdmissionInv => SharesAreKept
  <2> SUFFICES ASSUME AdmissionInv PROVE SharesAreKept
    OBVIOUS
  <2>1. global \in 0..Concurrent /\ In(Holding, Principals) = global
    BY DEF AdmissionInv, TypeOK, SlotsTell, SlotsAreReturned
  <2>2. ASSUME NEW p \in Principals
        PROVE  In(Admitted, {p}) <= PerPrincipal
    <3>1. states[p] \in State \union {None}
      BY DEF AdmissionInv, TypeOK
    <3>2. In(Admitted, {p}) = IF states[p] = None THEN 0 ELSE states[p].active
      BY DEF AdmissionInv, SlotsTell, SlotsAreReturned
    <3> QED
      BY <3>1, <3>2, StateFields, LimitsAssumption
  <2> QED
    BY <2>1, <2>2, LimitsAssumption DEF SharesAreKept
<1> QED
  BY <1>1, AdmissionIsInvariant, PTL

(* On either surface, a write is there only for a request whose row was    *)
(* stored and whose token covers it, and no row is completed before its    *)
(* request is answered; on the toolbox surface a row that is there names   *)
(* the operation (audit.go:73-118, mcpserver/operations.go:629-633).       *)
THEOREM AuditIsAlwaysTrue == Spec => []AuditIsTrue
<1>1. AdmissionInv => AuditIsTrue
  BY DEF AdmissionInv, RowsTell, RowTells, Called, AuditIsTrue, Rows
<1> QED
  BY <1>1, AdmissionIsInvariant, PTL

-----------------------------------------------------------------------------
(* One step of the audit: a row that stays keeps the time of its request   *)
(* and the operation that was noted, one that is completed does not        *)
(* change, and one that was dropped does not come back.                    *)
TrailStays ==
  \A r \in Requests :
    /\ audit[r] # None /\ audit'[r] # None =>
         /\ audit'[r].started = audit[r].started
         /\ audit[r].op # None => audit'[r].op = audit[r].op
         /\ audit[r].status = "completed" => audit'[r] = audit[r]
    /\ r \in dropped => audit'[r] = None /\ r \in dropped'

(* Every step keeps the trail.                                             *)
LEMMA NextTrail ==
  ASSUME AdmissionInv, [Next]_vars
  PROVE  TrailStays
<1> SUFFICES ASSUME NEW r \in Requests
             PROVE  /\ audit[r] # None /\ audit'[r] # None =>
                         /\ audit'[r].started = audit[r].started
                         /\ audit[r].op # None => audit'[r].op = audit[r].op
                         /\ audit[r].status = "completed" => audit'[r] = audit[r]
                    /\ r \in dropped => audit'[r] = None /\ r \in dropped'
  BY DEF TrailStays
<1> USE DEF AdmissionInv
<1>1. r \in dropped => audit[r] = None
  BY DEF PlaceTells, PlaceTellsOf
<1>2. CASE UNCHANGED <<audit, dropped>>
  BY <1>1, <1>2
<1>3. CASE DeleteExpired
  BY <1>1, <1>3, Expires
<1>4. ASSUME NEW x \in Requests, x # r, StepOf(x)
      PROVE  /\ audit[r] # None /\ audit'[r] # None => audit'[r] = audit[r]
             /\ r \in dropped => audit'[r] = None /\ r \in dropped'
  BY <1>1, <1>4 DEF StepOf, OthersStay
<1>5. CASE AdmitAudit(r)
  BY <1>5 DEF AdmitAudit, PlaceTells, PlaceTellsOf
<1>6. ASSUME NEW op \in Operations, Resolve(r, op)
      PROVE  /\ audit'[r].started = audit[r].started
             /\ audit[r].op = None /\ audit[r].status # "completed"
             /\ dropped' = dropped /\ r \notin dropped
  <2>1. audit[r] \in Row
    BY <1>6 DEF Resolve, TypeOK
  <2>2. audit' = [audit EXCEPT ![r] = [audit[r] EXCEPT !.op = op]]
    BY <1>6 DEF Resolve
  <2>3. [audit[r] EXCEPT !.op = op].started = audit[r].started
    BY <2>1 DEF Row
  <2> QED
    BY <1>1, <1>6, <2>1, <2>2, <2>3 DEF Resolve, TypeOK, RowsTell, RowTells
<1>7. ASSUME CompleteAudit(r)
      PROVE  /\ audit'[r].started = audit[r].started
             /\ audit'[r].op = audit[r].op /\ audit[r].status # "completed"
             /\ dropped' = dropped /\ r \notin dropped
  <2>1. audit[r] \in Row
    BY <1>7 DEF CompleteAudit, TypeOK
  <2>2. audit' = [audit EXCEPT ![r] = [audit[r] EXCEPT !.status = "completed"]]
    BY <1>7 DEF CompleteAudit
  <2>3. /\ [audit[r] EXCEPT !.status = "completed"].started = audit[r].started
        /\ [audit[r] EXCEPT !.status = "completed"].op = audit[r].op
    BY <2>1 DEF Row
  <2> QED
    BY <1>1, <1>7, <2>1, <2>2, <2>3
       DEF CompleteAudit, TypeOK, RowsTell, RowTells
<1>8. \/ UNCHANGED <<audit, dropped>> \/ DeleteExpired
      \/ \E x \in Requests :
           \/ AdmitAudit(x) \/ CompleteAudit(x)
           \/ \E op \in Operations : Resolve(x, op)
  <2>1. CASE UNCHANGED vars
    BY <2>1 DEF vars, store
  <2>2. CASE StartHTTP \/ StartHTTPFails \/ StopHTTP \/ Tick
    BY <2>2 DEF StartHTTP, StartHTTPFails, StopHTTP, Tick, store
  <2>3. ASSUME NEW x \in Requests,
               \/ \E token \in Tokens :
                    \/ TakeSlot(x, token)
                    \/ \E op \in Operations : TurnAway(x, token, op)
               \/ RefuseToken(x) \/ Acquire(x) \/ RefuseRate(x)
               \/ AcquireStray(x) \/ FreeSlot(x)
        PROVE  UNCHANGED <<audit, dropped>>
    BY <2>3 DEF TakeSlot, TurnAway, RefuseToken, Acquire, RefuseRate,
                AcquireStray, FreeSlot, store
  <2>4. ASSUME NEW x \in Requests,
               \/ AdmitAuditFails(x) \/ CompleteFails(x) \/ Describe(x)
               \/ RefuseFields(x) \/ RefuseUnapproved(x) \/ Serve(x) \/ Reject(x)
               \/ \E op \in Operations :
                    Deny(x, op) \/ Dispatch(x, op) \/ ResolveFails(x, op)
               \/ \E code \in Failures : ServiceFails(x, code)
        PROVE  UNCHANGED <<audit, dropped>>
    BY <2>4 DEF AdmitAuditFails, CompleteFails, Describe, RefuseFields,
                RefuseUnapproved, Serve, Reject, Deny, Dispatch, ResolveFails,
                ServiceFails, store
  <2> QED
    BY <2>1, <2>2, <2>3, <2>4 DEF Next
<1>9. ASSUME NEW x \in Requests, x # r,
             \/ AdmitAudit(x) \/ CompleteAudit(x)
             \/ \E op \in Operations : Resolve(x, op)
      PROVE  StepOf(x)
  BY <1>9, Audits, LeavesAnswered, Resolves
<1> QED
  BY <1>2, <1>3, <1>4, <1>5, <1>6, <1>7, <1>8, <1>9

(* The audit trail is only written forward: an operation that was noted is *)
(* not renamed, a completed row is final, a row that was dropped stays out *)
(* (audit.go:73-130).                                                      *)
THEOREM TrailIsKept == Spec => [][TrailStays]_vars
<1> QED
  BY AdmissionIsInvariant, NextTrail, PTL DEF Spec
=============================================================================
