--------------------------- MODULE RecordsProofs ---------------------------
(***************************************************************************)
(* Theorems about Records, for any sets of calls, topics and reports: an   *)
(* export taken at any moment can be restored, nothing acknowledged is     *)
(* lost, there is one current memo per topic and one record per report.    *)
(*                                                                         *)
(* A step does one of three things to a record (Grows): nothing, its       *)
(* creation, or one more revision that keeps its kind, its topic and its   *)
(* link and loses no edit.  That the third holds is what has to be shown,  *)
(* for the new revision is written from a draft that was read in an        *)
(* earlier transaction (DraftIsRead).                                      *)
(***************************************************************************)
EXTENDS Records, FiniteSetTheorems, SequenceTheorems, TLAPS

Done == {c \in Calls : pc[c] = "done"}

(* A record is written by a call that ends with it.                        *)
RevisionsAreCalls ==
  /\ \A r \in Live : pc[r] = "done" /\ records[r].rev <= Cardinality(Done)

(* What a call read is the record, or an earlier revision of it.           *)
DraftIsRead(c) ==
  pc[c] \in {"merged", "writing"} =>
    /\ draft[c].target \in Live
    /\ draft[c].rev <= records[draft[c].target].rev
    /\ c \in draft[c].payload \/ draft[c].validity = "superseded"
    /\ draft[c].rev = records[draft[c].target].rev =>
         /\ records[draft[c].target].payload \subseteq draft[c].payload
         /\ pc[c] = "writing" =>
              draft[c].supersedes = records[draft[c].target].supersedes

(* What a call was told is so.                                             *)
AnswerHolds(c) ==
  /\ answer[c].outcome # "none" => pc[c] = "done"
  /\ answer[c].outcome \in {"written", "exists", "imported"} =>
       answer[c].record \in Live
  /\ answer[c].outcome = "written" =>
       \/ c \in records[answer[c].record].payload
       \/ draft[c].validity = "superseded"
  /\ answer[c].outcome = "exists" =>
       SameTopicAsNamed(records[answer[c].record].topic, draft[c].topic)
  /\ answer[c].outcome = "imported" =>
       /\ draft[c].target \in Reports
       /\ imports[draft[c].target] = answer[c].record

CallHolds(c) == DraftIsRead(c) /\ AnswerHolds(c)

(* Revision n of a history retired the record, and did nothing else.       *)
RetiredAt(revisions, n) ==
  /\ revisions[n - 1].validity = "current"
  /\ revisions[n] = [revisions[n - 1] EXCEPT !.validity = "superseded"]

PredecessorIsKept ==
  \A s \in Live :
    records[s].supersedes # None =>
      /\ records[s].supersedes \in Live
      /\ \E n \in 2 .. records[records[s].supersedes].rev :
           RetiredAt(history[records[s].supersedes], n)

RecordsInv ==
  /\ TypeOK
  /\ RevisionsAreCalls
  /\ \A c \in Calls : CallHolds(c)
  /\ ExportIsRestorable
  /\ Fits(records)
  /\ PredecessorIsKept

-----------------------------------------------------------------------------
(* What the next revision of a record keeps; the first is number 1.        *)
Follows(before, after) ==
  IF before = None THEN after.rev = 1
  ELSE /\ after.rev = before.rev + 1
       /\ after.kind = before.kind
       /\ after.topic = before.topic
       /\ after.supersedes = before.supersedes
       /\ before.payload \subseteq after.payload

(* What a step does to a record and to its history.                        *)
Grows(r) ==
  \/ records'[r] = records[r] /\ history'[r] = history[r]
  \/ /\ records'[r] \in Record
     /\ Follows(records[r], records'[r])
     /\ history'[r] = Append(history[r], Revision(records'[r]))

(* Every variable but for the bound on revisions (TypeOK).                 *)
RecordTypes ==
  /\ records \in [Calls -> Record \union {None}]
  /\ history \in [Calls -> Seq(Revisions)]
  /\ imports \in [Reports -> Calls \union {None}]

Draft == [topic : Topics, rev : Nat, payload : SUBSET Calls,
          target : Calls \union Reports \union {None},
          validity : {"current", "superseded"},
          supersedes : Calls \union {None}]

Answer == [outcome : {"none", "written", "exists", "imported", "refused"},
           record : Calls \union {None}]

CallTypes ==
  /\ pc \in [Calls -> {"idle", "inserting", "conflict", "merged", "writing",
                       "done"}]
  /\ draft \in [Calls -> Draft]
  /\ answer \in [Calls -> Answer]

OthersStay(c) ==
  \A e \in Calls \ {c} :
    pc'[e] = pc[e] /\ draft'[e] = draft[e] /\ answer'[e] = answer[e]

(* What a step of call c is, whichever it is.                              *)
StepOf(c) ==
  /\ RecordTypes' /\ CallTypes'
  /\ \A r \in Calls : Grows(r)
  /\ \A r \in Calls \ {c} : records[r] = None => records'[r] = None
  /\ pc[c] # "done"
  /\ records' = records \/ pc'[c] = "done"
  /\ OthersStay(c)
  /\ CallHolds(c)'
  /\ \A i \in Reports :
       imports'[i] # imports[i] =>
         /\ imports[i] = None /\ imports'[i] = c
         /\ records'[c] # None /\ records'[c].kind = "verification"
  /\ Fits(records')
  /\ records'[c] # None /\ records'[c].supersedes # None /\ records[c] = None =>
       LET r == records'[c].supersedes
       IN  /\ r \in CurrentMemos(records)
           /\ records'[r] = Revised(records[r], "superseded",
                                    records[r].payload, records[r].supersedes)

-----------------------------------------------------------------------------
(* The fields of a record.                                                 *)
LEMMA RecordFields ==
  ASSUME NEW record \in Record
  PROVE  /\ record # None
         /\ record.kind \in Kinds
         /\ record.rev \in Nat \ {0}
         /\ record.validity \in Validities
         /\ record.topic \in Topics
         /\ record.payload \in SUBSET Calls
         /\ record.supersedes \in Calls \union {None}
<1>1. record # None
  BY RecordAssumption
<1> QED
  BY <1>1 DEF Record

(* A new record is one, and its first revision.                            *)
LEMMA NewIsRecord ==
  ASSUME NEW kind \in Kinds, NEW validity \in Validities, NEW topic \in Topics,
         NEW c \in Calls, NEW old \in Calls \union {None}
  PROVE  /\ New(kind, validity, topic, c, old) \in Record
         /\ Follows(None, New(kind, validity, topic, c, old))
         /\ New(kind, validity, topic, c, old).kind = kind
         /\ New(kind, validity, topic, c, old).validity = validity
         /\ New(kind, validity, topic, c, old).topic = topic
         /\ New(kind, validity, topic, c, old).supersedes = old
         /\ c \in New(kind, validity, topic, c, old).payload
<1> QED
  BY DEF New, Record, Follows

(* An edited record is one, and follows it if no edit and no link is lost. *)
LEMMA RevisedIsRecord ==
  ASSUME NEW record \in Record, NEW validity \in Validities,
         NEW payload \in SUBSET Calls, record.payload \subseteq payload
  PROVE  LET next == Revised(record, validity, payload, record.supersedes)
         IN  /\ next \in Record
             /\ Follows(record, next)
             /\ next # record
             /\ next.kind = record.kind
             /\ next.topic = record.topic
             /\ next.validity = validity
             /\ next.supersedes = record.supersedes
             /\ next.payload = payload
<1> DEFINE next == Revised(record, validity, payload, record.supersedes)
<1>1. record.rev + 1 \in Nat \ {0} /\ record.rev + 1 # record.rev
  BY RecordFields
<1>2. next \in Record
  BY <1>1, RecordFields DEF Revised, Record
<1>3. next.rev = record.rev + 1
  BY DEF Revised
<1> QED
  BY <1>1, <1>2, <1>3, RecordFields DEF Revised, Follows

(* What the history keeps of a record.                                     *)
LEMMA RevisionType ==
  ASSUME NEW record \in Record
  PROVE  Revision(record) \in Revisions
<1> QED
  BY RecordFields DEF Revision, Revisions

(* Storing what follows from the records is what Grows says.               *)
LEMMA StoreGrows ==
  ASSUME RecordTypes, NEW table \in [Calls -> Record \union {None}], Store(table),
         \A r \in Calls : \/ table[r] = records[r]
                          \/ table[r] \in Record /\ Follows(records[r], table[r])
  PROVE  /\ records' = table
         /\ history' \in [Calls -> Seq(Revisions)]
         /\ \A r \in Calls : Grows(r)
<1>1. records' = table
  BY DEF Store
<1>2. ASSUME NEW r \in Calls
      PROVE  Grows(r) /\ history'[r] \in Seq(Revisions)
  <2>1. CASE table[r] = records[r]
    <3>1. history'[r] = history[r]
      BY <2>1 DEF Store
    <3> QED
      BY <1>1, <2>1, <3>1 DEF Grows, RecordTypes
  <2>2. CASE table[r] # records[r]
    <3>1. history'[r] = Append(history[r], Revision(table[r]))
      BY <2>2 DEF Store
    <3>2. table[r] \in Record /\ Follows(records[r], table[r])
      BY <2>2
    <3>3. Revision(table[r]) \in Revisions /\ history[r] \in Seq(Revisions)
      BY <3>2, RevisionType DEF RecordTypes
    <3>4. history'[r] \in Seq(Revisions)
      BY <3>1, <3>3, AppendProperties
    <3> QED
      BY <1>1, <3>1, <3>2, <3>4 DEF Grows
  <2> QED
    BY <2>1, <2>2
<1>3. history' = [r \in Calls |-> history'[r]]
  BY DEF Store
<1> QED
  BY <1>1, <1>2, <1>3

-----------------------------------------------------------------------------
(* A record that grows stays, and nothing of it or of its history is lost. *)
LEMMA GrowsKeeps ==
  ASSUME RecordTypes, RecordTypes', ExportIsRestorable,
         NEW r \in Calls, Grows(r), records[r] # None
  PROVE  /\ records[r] \in Record /\ records'[r] \in Record
         /\ records'[r] # None
         /\ records'[r] # records[r] => records'[r].rev = records[r].rev + 1
         /\ records'[r].rev >= records[r].rev
         /\ records'[r].kind = records[r].kind
         /\ records'[r].topic = records[r].topic
         /\ records'[r].supersedes = records[r].supersedes
         /\ records[r].payload \subseteq records'[r].payload
         /\ \A n \in 1 .. records[r].rev : history'[r][n] = history[r][n]
<1>1. records[r] \in Record /\ records[r].rev \in Nat \ {0}
  BY RecordFields DEF RecordTypes
<1>2. CASE records'[r] = records[r] /\ history'[r] = history[r]
  BY <1>1, <1>2, RecordFields
<1>3. CASE /\ records'[r] \in Record
           /\ Follows(records[r], records'[r])
           /\ history'[r] = Append(history[r], Revision(records'[r]))
  <2>1. history[r] \in Seq(Revisions) /\ Len(history[r]) = records[r].rev
    BY DEF RecordTypes, ExportIsRestorable, Live
  <2>2. \A n \in 1 .. records[r].rev : history'[r][n] = history[r][n]
    BY <1>3, <2>1, RevisionType, AppendProperties
  <2>3. Follows(records[r], records'[r]) /\ records'[r] \in Record
    BY <1>3
  <2>4. /\ records'[r].rev = records[r].rev + 1
        /\ records'[r].kind = records[r].kind
        /\ records'[r].topic = records[r].topic
        /\ records'[r].supersedes = records[r].supersedes
        /\ records[r].payload \subseteq records'[r].payload
    BY <2>3 DEF Follows
  <2>5. records'[r] # None
    BY <2>3, RecordAssumption
  <2> QED
    BY <1>1, <2>2, <2>3, <2>4, <2>5
<1> QED
  BY <1>2, <1>3 DEF Grows

(* The last revision of a history that grew.                               *)
LEMMA GrowsEnds ==
  ASSUME RecordTypes, RecordTypes', ExportIsRestorable,
         NEW r \in Calls, Grows(r)
  PROVE  /\ records'[r] # None =>
              /\ Len(history'[r]) = records'[r].rev
              /\ history'[r][records'[r].rev] = Revision(records'[r])
         /\ records'[r] = None => history'[r] = <<>>
<1>1. CASE records'[r] = records[r] /\ history'[r] = history[r]
  BY <1>1 DEF ExportIsRestorable, Live
<1>2. CASE /\ records'[r] \in Record
           /\ Follows(records[r], records'[r])
           /\ history'[r] = Append(history[r], Revision(records'[r]))
  <2>1. history[r] \in Seq(Revisions) /\ Revision(records'[r]) \in Revisions
    BY <1>2, RevisionType DEF RecordTypes
  <2>2. /\ Len(history'[r]) = Len(history[r]) + 1
        /\ history'[r][Len(history[r]) + 1] = Revision(records'[r])
    BY <1>2, <2>1, AppendProperties
  <2>3. records'[r].rev = Len(history[r]) + 1
    <3>1. CASE records[r] = None
      BY <1>2, <3>1 DEF ExportIsRestorable, Live, Follows
    <3>2. CASE records[r] # None
      BY <1>2, <3>2 DEF ExportIsRestorable, Live, Follows
    <3> QED
      BY <3>1, <3>2
  <2> QED
    BY <1>2, <2>2, <2>3, RecordAssumption
<1> QED
  BY <1>1, <1>2 DEF Grows

(* An export stays restorable.                                             *)
LEMMA StepKeepsExport ==
  ASSUME RecordsInv, NEW c \in Calls, StepOf(c)
  PROVE  ExportIsRestorable'
<1>1. RecordTypes /\ RecordTypes' /\ ExportIsRestorable
  BY DEF RecordsInv, TypeOK, RecordTypes, StepOf
<1>2. \A r \in Calls : Grows(r)
  BY DEF StepOf
<1>3. ASSUME NEW i \in Reports, imports'[i] # None
      PROVE  /\ imports'[i] \in Calls /\ records'[imports'[i]] # None
             /\ records'[imports'[i]].kind = "verification"
  <2>1. CASE imports'[i] # imports[i]
    BY <2>1 DEF StepOf
  <2>2. CASE imports'[i] = imports[i]
    <3>1. /\ imports[i] \in Calls /\ records[imports[i]] # None
          /\ records[imports[i]].kind = "verification"
      BY <1>1, <1>3, <2>2 DEF ExportIsRestorable, Live
    <3> QED
      BY <1>1, <1>2, <2>2, <3>1, GrowsKeeps
  <2> QED
    BY <2>1, <2>2
<1> QED
  BY <1>1, <1>2, <1>3, GrowsEnds DEF ExportIsRestorable, Live

(* Every revision is a call that has ended.                                *)
LEMMA StepKeepsRevisions ==
  ASSUME RecordsInv, NEW c \in Calls, StepOf(c)
  PROVE  RevisionsAreCalls'
<1>1. RecordTypes /\ RecordTypes' /\ ExportIsRestorable
  BY DEF RecordsInv, TypeOK, RecordTypes, StepOf
<1>2. IsFiniteSet(Done) /\ Cardinality(Done) \in Nat
  BY RecordsAssumption, FS_Subset, FS_CardinalityType DEF Done
<1>3. IsFiniteSet(Done') /\ Cardinality(Done') \in Nat
  BY RecordsAssumption, FS_Subset, FS_CardinalityType DEF Done
<1>4. Done \subseteq Done' /\ c \notin Done
  BY DEF Done, StepOf, OthersStay
<1>5. Cardinality(Done) <= Cardinality(Done')
  BY <1>3, <1>4, FS_Subset
<1>6. ASSUME records' # records
      PROVE  Cardinality(Done') = Cardinality(Done) + 1
  <2>1. Done' = Done \union {c}
    BY <1>6 DEF Done, StepOf, OthersStay
  <2> QED
    BY <1>2, <1>4, <2>1, FS_AddElement
<1>7. ASSUME NEW r \in Calls, records'[r] # None
      PROVE  pc'[r] = "done" /\ records'[r].rev <= Cardinality(Done')
  <2>1. Grows(r)
    BY DEF StepOf
  <2>2. records'[r] \in Record /\ records'[r].rev \in Nat
    BY <1>1, <1>7, RecordFields DEF RecordTypes
  <2>3. CASE records[r] # None
    <3>1. pc[r] = "done" /\ records[r].rev <= Cardinality(Done)
      BY <2>3 DEF RecordsInv, RevisionsAreCalls, Live
    <3>2. pc'[r] = "done"
      BY <1>4, <3>1 DEF Done
    <3>3. records[r].rev \in Nat
      BY <1>1, <2>3, RecordFields DEF RecordTypes
    <3>4. CASE records'[r] = records[r]
      BY <1>2, <1>3, <1>5, <3>1, <3>2, <3>3, <3>4
    <3>5. CASE records'[r] # records[r]
      <4>1. records'[r].rev = records[r].rev + 1
        BY <1>1, <2>1, <2>3, <3>5, GrowsKeeps
      <4> QED
        BY <1>2, <1>6, <3>1, <3>2, <3>3, <3>5, <4>1
    <3> QED
      BY <3>4, <3>5
  <2>4. CASE records[r] = None
    <3>1. r = c /\ pc'[c] = "done"
      BY <1>7, <2>4 DEF StepOf
    <3>2. records'[r].rev = 1
      BY <1>7, <2>1, <2>4 DEF Grows, Follows
    <3> QED
      BY <1>2, <1>6, <1>7, <2>4, <3>1, <3>2
  <2> QED
    BY <2>3, <2>4
<1> QED
  BY <1>7 DEF RevisionsAreCalls, Live

(* What another call has read, or was told, still holds.                   *)
LEMMA StepKeepsCalls ==
  ASSUME RecordsInv, NEW c \in Calls, StepOf(c)
  PROVE  \A e \in Calls : CallHolds(e)'
<1>1. RecordTypes /\ RecordTypes' /\ ExportIsRestorable
  BY DEF RecordsInv, TypeOK, RecordTypes, StepOf
<1>2. \A r \in Calls : Grows(r)
  BY DEF StepOf
<1>3. ASSUME NEW e \in Calls \ {c}
      PROVE  CallHolds(e)'
  <2>1. pc'[e] = pc[e] /\ draft'[e] = draft[e] /\ answer'[e] = answer[e]
    BY DEF StepOf, OthersStay
  <2>2. DraftIsRead(e) /\ AnswerHolds(e)
    BY DEF RecordsInv, CallHolds
  <2>3. DraftIsRead(e)'
    <3>1. SUFFICES ASSUME pc[e] \in {"merged", "writing"}
                   PROVE  DraftIsRead(e)'
      BY <2>1 DEF DraftIsRead
    <3> DEFINE t == draft[e].target
    <3>2. t \in Calls /\ records[t] # None
      BY <2>2, <3>1 DEF DraftIsRead, Live
    <3>3. draft[e].rev \in Nat
      BY DEF RecordsInv, TypeOK
    <3>4. /\ records[t].rev \in Nat /\ records'[t].rev \in Nat
          /\ records'[t] # None
          /\ records'[t] # records[t] => records'[t].rev = records[t].rev + 1
          /\ records'[t].rev >= records[t].rev
      BY <1>1, <1>2, <3>2, GrowsKeeps, RecordFields
    <3>5. draft[e].rev <= records[t].rev
      BY <2>2, <3>1 DEF DraftIsRead
    <3>6. draft[e].rev = records'[t].rev => records'[t] = records[t]
      BY <3>3, <3>4, <3>5
    <3>7. draft[e].rev <= records'[t].rev
      BY <3>3, <3>4, <3>5
    <3> QED
      BY <2>1, <2>2, <3>1, <3>2, <3>4, <3>6, <3>7 DEF DraftIsRead, Live
  <2>4. AnswerHolds(e)'
    <3> DEFINE r == answer[e].record
    <3>1. ASSUME answer[e].outcome \in {"written", "exists", "imported"}
          PROVE  /\ r \in Calls /\ records'[r] # None
                 /\ records[r].payload \subseteq records'[r].payload
                 /\ records'[r].topic = records[r].topic
      <4>1. r \in Calls /\ records[r] # None
        BY <2>2, <3>1 DEF AnswerHolds, Live
      <4> QED
        BY <1>1, <1>2, <4>1, GrowsKeeps
    <3>2. ASSUME answer[e].outcome = "imported"
          PROVE  /\ draft[e].target \in Reports
                 /\ imports'[draft[e].target] = r
      <4>1. draft[e].target \in Reports /\ imports[draft[e].target] = r
        BY <2>2, <3>2 DEF AnswerHolds
      <4>2. imports[draft[e].target] # None
        BY <2>2, <3>2, <4>1, RecordsAssumption DEF AnswerHolds, Live
      <4> QED
        BY <4>1, <4>2 DEF StepOf
    <3> QED
      BY <2>1, <2>2, <3>1, <3>2 DEF AnswerHolds, Live
  <2> QED
    BY <2>3, <2>4 DEF CallHolds
<1>4. CallHolds(c)'
  BY DEF StepOf
<1> QED
  BY <1>3, <1>4

(* The revision that was retired, and the one that retired it, stay.       *)
LEMMA StepKeepsPredecessors ==
  ASSUME RecordsInv, NEW c \in Calls, StepOf(c)
  PROVE  PredecessorIsKept'
<1>1. RecordTypes /\ RecordTypes' /\ ExportIsRestorable
  BY DEF RecordsInv, TypeOK, RecordTypes, StepOf
<1>2. \A r \in Calls : Grows(r)
  BY DEF StepOf
<1>3. SUFFICES ASSUME NEW s \in Calls, records'[s] # None, records'[s].supersedes # None
               PROVE  LET r == records'[s].supersedes
                      IN  /\ r \in Calls /\ records'[r] # None
                          /\ \E n \in 2 .. records'[r].rev : RetiredAt(history'[r], n)
  BY DEF PredecessorIsKept, Live
<1> DEFINE r == records'[s].supersedes
<1>4. CASE records[s] # None
  <2>1. r = records[s].supersedes
    BY <1>1, <1>2, <1>4, GrowsKeeps
  <2>2. r \in Calls /\ records[r] # None
    BY <1>3, <1>4, <2>1 DEF RecordsInv, PredecessorIsKept, Live
  <2>3. PICK n \in 2 .. records[r].rev : RetiredAt(history[r], n)
    BY <1>3, <1>4, <2>1 DEF RecordsInv, PredecessorIsKept, Live
  <2>4. /\ records[r].rev \in Nat /\ records'[r].rev \in Nat
        /\ records'[r] # None
        /\ records'[r].rev >= records[r].rev
        /\ \A m \in 1 .. records[r].rev : history'[r][m] = history[r][m]
    BY <1>1, <1>2, <2>2, GrowsKeeps, RecordFields
  <2>5. n \in 1 .. records[r].rev /\ n - 1 \in 1 .. records[r].rev
    BY <2>3, <2>4
  <2>6. RetiredAt(history'[r], n)
    BY <2>3, <2>4, <2>5 DEF RetiredAt
  <2>7. n \in 2 .. records'[r].rev
    BY <2>3, <2>4
  <2> QED
    BY <2>2, <2>4, <2>6, <2>7
<1>5. CASE records[s] = None
  <2>1. s = c
    BY <1>3, <1>5 DEF StepOf
  <2>2. /\ r \in Calls /\ records[r] # None
        /\ records[r].validity = "current"
        /\ records'[r] = Revised(records[r], "superseded", records[r].payload,
                                 records[r].supersedes)
    BY <1>3, <1>5, <2>1 DEF StepOf, CurrentMemos
  <2> DEFINE k == records[r].rev
  <2>3. records[r] \in Record /\ k \in Nat \ {0}
    BY <1>1, <2>2, RecordFields DEF RecordTypes
  <2>4. records'[r] # None /\ records'[r].rev = k + 1
    BY <1>1, <1>2, <2>2, <2>3, GrowsKeeps DEF Revised
  <2>5. /\ history'[r][k + 1] = Revision(records'[r])
        /\ history'[r][k] = history[r][k]
    <3>1. history'[r][records'[r].rev] = Revision(records'[r])
      BY <1>1, <1>2, <2>2, <2>4, GrowsEnds
    <3>2. \A n \in 1 .. k : history'[r][n] = history[r][n]
      BY <1>1, <1>2, <2>2, GrowsKeeps
    <3>3. k \in 1 .. k
      BY <2>3
    <3> QED
      BY <2>4, <3>1, <3>2, <3>3
  <2>6. history[r][k] = Revision(records[r])
    BY <1>1, <2>2 DEF ExportIsRestorable, Live
  <2>7. RetiredAt(history'[r], k + 1)
    <3>1. Revision(records'[r]) = [Revision(records[r]) EXCEPT !.validity = "superseded"]
      BY <2>2 DEF Revision, Revised
    <3>2. Revision(records[r]).validity = "current"
      BY <2>2 DEF Revision
    <3>3. (k + 1) - 1 = k
      BY <2>3
    <3> QED
      BY <2>2, <2>4, <2>5, <2>6, <3>1, <3>2, <3>3 DEF RetiredAt
  <2>8. k + 1 \in 2 .. records'[r].rev
    BY <2>3, <2>4
  <2> QED
    BY <2>2, <2>4, <2>7, <2>8
<1> QED
  BY <1>4, <1>5

(* A step of any call keeps the invariant.                                 *)
LEMMA StepKeeps ==
  ASSUME RecordsInv, NEW c \in Calls, StepOf(c)
  PROVE  RecordsInv'
<1>1. RevisionsAreCalls'
  BY StepKeepsRevisions
<1>2. ExportIsRestorable'
  BY StepKeepsExport
<1>3. TypeOK'
  <2>1. RecordTypes' /\ CallTypes'
    BY DEF StepOf
  <2>2. ASSUME NEW r \in Live'
        PROVE  records'[r].rev <= Cardinality(Calls)
    <3>1. /\ Cardinality(Done') <= Cardinality(Calls)
          /\ Cardinality(Done') \in Nat /\ Cardinality(Calls) \in Nat
      BY RecordsAssumption, FS_Subset, FS_CardinalityType DEF Done
    <3>2. records'[r].rev <= Cardinality(Done')
      BY <1>1 DEF RevisionsAreCalls
    <3>3. records'[r].rev \in Nat
      BY <2>1, RecordFields DEF RecordTypes, Live
    <3> QED
      BY <3>1, <3>2, <3>3
  <2> QED
    BY <2>1, <2>2 DEF TypeOK, RecordTypes, CallTypes, Draft, Answer
<1> QED
  BY <1>1, <1>2, <1>3, StepKeepsCalls, StepKeepsPredecessors DEF RecordsInv, StepOf

-----------------------------------------------------------------------------
(* A draft that names a topic, or what was read.                           *)
LEMMA DraftTypes ==
  /\ NoDraft \in Draft
  /\ \A topic \in Topics : [NoDraft EXCEPT !.topic = topic] \in Draft
  /\ \A i \in Reports : [NoDraft EXCEPT !.target = i] \in Draft
<1> QED
  BY DEF NoDraft, Draft, Topics

(* What Say leaves behind.                                                 *)
LEMMA SayTypes ==
  ASSUME CallTypes, NEW c \in Calls,
         NEW outcome \in {"written", "exists", "imported", "refused"},
         NEW r \in Calls \union {None}, Say(c, outcome, r)
  PROVE  /\ pc' \in [Calls -> {"idle", "inserting", "conflict", "merged",
                               "writing", "done"}]
         /\ answer' \in [Calls -> Answer]
         /\ pc'[c] = "done"
         /\ answer'[c].outcome = outcome /\ answer'[c].record = r
         /\ \A e \in Calls \ {c} : pc'[e] = pc[e] /\ answer'[e] = answer[e]
<1> QED
  BY DEF CallTypes, Say, Answer

(* The memos a lookup finds have the topic it looks for.                   *)
LEMMA FoundHasTopic ==
  ASSUME RecordTypes, NEW topic \in Topics, NEW r \in Found(topic)
  PROVE  /\ r \in Live
         /\ SameTopicAsNamed(records[r].topic, topic)
<1> QED
  BY DEF Found, CurrentMemos, Live, SameTopicAsNamed

(* A call that has not ended has created no record and was told nothing.   *)
LEMMA UnendedIsNew ==
  ASSUME RecordsInv, NEW c \in Calls, pc[c] # "done"
  PROVE  records[c] = None /\ answer[c].outcome = "none"
<1> QED
  BY DEF RecordsInv, RevisionsAreCalls, CallHolds, AnswerHolds, Live

(* A step that writes nothing.                                             *)
LEMMA ReadingSteps ==
  ASSUME RecordsInv, NEW c \in Calls, pc[c] # "done", UNCHANGED tables,
         CallTypes', OthersStay(c), CallHolds(c)'
  PROVE  StepOf(c)
<1>1. RecordTypes /\ Fits(records)
  BY DEF RecordsInv, TypeOK, RecordTypes
<1>2. records' = records /\ history' = history /\ imports' = imports
  BY DEF tables
<1>3. RecordTypes'
  BY <1>1, <1>2 DEF RecordTypes
<1>4. Fits(records')
  BY <1>1, <1>2
<1>5. records[c] = None
  BY UnendedIsNew
<1> QED
  BY <1>2, <1>3, <1>4, <1>5 DEF StepOf, Grows

(* A step that stores what follows from the records, and then answers.     *)
LEMMA StoringSteps ==
  ASSUME RecordsInv, NEW c \in Calls, pc[c] # "done",
         NEW table \in [Calls -> Record \union {None}], Store(table), Fits(table),
         \A r \in Calls : \/ table[r] = records[r]
                          \/ table[r] \in Record /\ Follows(records[r], table[r]),
         \A r \in Calls \ {c} : records[r] = None => table[r] = None,
         table[c] # None /\ table[c].supersedes # None =>
           LET r == table[c].supersedes
           IN  /\ r \in CurrentMemos(records)
               /\ table[r] = Revised(records[r], "superseded",
                                     records[r].payload, records[r].supersedes),
         \/ UNCHANGED imports
         \/ \E i \in Reports :
              /\ imports[i] = None
              /\ imports' = [imports EXCEPT ![i] = c]
              /\ table[c] # None /\ table[c].kind = "verification",
         CallTypes', OthersStay(c), pc'[c] = "done", CallHolds(c)'
  PROVE  StepOf(c)
<1>1. RecordTypes
  BY DEF RecordsInv, TypeOK, RecordTypes
<1>2. /\ records' = table
      /\ history' \in [Calls -> Seq(Revisions)]
      /\ \A r \in Calls : Grows(r)
  BY <1>1, StoreGrows
<1>3. /\ imports' \in [Reports -> Calls \union {None}]
      /\ \A i \in Reports :
           imports'[i] # imports[i] =>
             /\ imports[i] = None /\ imports'[i] = c
             /\ table[c] # None /\ table[c].kind = "verification"
  <2>1. CASE UNCHANGED imports
    BY <1>1, <2>1 DEF RecordTypes
  <2>2. ASSUME NEW i \in Reports, imports[i] = None,
               imports' = [imports EXCEPT ![i] = c],
               table[c] # None, table[c].kind = "verification"
        PROVE  <1>3!1 /\ <1>3!2
    BY <1>1, <2>2 DEF RecordTypes
  <2> QED
    BY <2>1, <2>2
<1>4. RecordTypes'
  BY <1>2, <1>3 DEF RecordTypes
<1>5. Fits(records')
  BY <1>2
<1> QED
  BY <1>2, <1>3, <1>4, <1>5 DEF StepOf

(* A record without topic and link fits next to any others.                *)
LEMMA PlainFits ==
  ASSUME RecordsInv, NEW c \in Calls, NEW new \in Record,
         new.topic = NoTopic, new.supersedes = None
  PROVE  Fits([records EXCEPT ![c] = new])
<1> DEFINE table == [records EXCEPT ![c] = new]
<1>1. RecordTypes /\ Fits(records)
  BY DEF RecordsInv, TypeOK, RecordTypes
<1>2. table[c] = new /\ \A r \in Calls \ {c} : table[r] = records[r]
  BY <1>1 DEF RecordTypes
<1>3. ASSUME NEW a \in CurrentMemos(table), NEW b \in CurrentMemos(table),
             table[a].topic = table[b].topic, table[a].topic # NoTopic
      PROVE  a = b
  <2>1. a \in CurrentMemos(records) /\ b \in CurrentMemos(records)
    BY <1>2, <1>3 DEF CurrentMemos
  <2>2. a # c /\ b # c /\ a \in Calls /\ b \in Calls
    BY <1>2, <1>3 DEF CurrentMemos
  <2> QED
    BY <1>1, <1>2, <1>3, <2>1, <2>2 DEF Fits
<1>4. ASSUME NEW a \in Calls, NEW b \in Calls,
             table[a] # None, table[a].supersedes # None,
             table[b] # None, table[b].supersedes = table[a].supersedes
      PROVE  a = b
  <2>1. a # c /\ b # c
    BY <1>2, <1>4
  <2> QED
    BY <1>1, <1>2, <1>4, <2>1 DEF Fits
<1> HIDE DEF table
<1>5. Fits(table)
  BY <1>3, <1>4 DEF Fits
<1> QED
  BY <1>5 DEF table

(* What a call is while it is idle.                                        *)
LEMMA Idle ==
  ASSUME RecordsInv, NEW c \in Calls, pc[c] = "idle"
  PROVE  /\ RecordTypes /\ CallTypes
         /\ records[c] = None
         /\ answer[c].outcome = "none"
<1> QED
  BY UnendedIsNew DEF RecordsInv, TypeOK, RecordTypes, CallTypes, Draft, Answer

(* A call that was told of a record that it wrote, or found, or imported.  *)
LEMMA Answered ==
  ASSUME NEW c \in Calls, pc'[c] = "done",
         \/ answer'[c].outcome = "refused"
         \/ /\ answer'[c].outcome = "written"
            /\ answer'[c].record \in Calls
            /\ records'[answer'[c].record] # None
            /\ \/ c \in records'[answer'[c].record].payload
               \/ draft'[c].validity = "superseded"
         \/ /\ answer'[c].outcome = "exists"
            /\ answer'[c].record \in Calls
            /\ records'[answer'[c].record] # None
            /\ SameTopicAsNamed(records'[answer'[c].record].topic,
                                draft'[c].topic)
         \/ /\ answer'[c].outcome = "imported"
            /\ answer'[c].record \in Calls
            /\ records'[answer'[c].record] # None
            /\ draft'[c].target \in Reports
            /\ imports'[draft'[c].target] = answer'[c].record
  PROVE  CallHolds(c)'
<1>1. DraftIsRead(c)'
  BY DEF DraftIsRead
<1>2. AnswerHolds(c)'
  BY DEF AnswerHolds, Live
<1> QED
  BY <1>1, <1>2 DEF CallHolds

(* A call that creates a record without topic or link: Create and Import.  *)
LEMMA PlainRecord ==
  ASSUME RecordsInv, NEW c \in Calls, pc[c] # "done",
         NEW kind \in Kinds, NEW validity \in Validities
  PROVE  LET new   == New(kind, validity, NoTopic, c, None)
             table == [records EXCEPT ![c] = new]
         IN  /\ table \in [Calls -> Record \union {None}]
             /\ table[c] = new /\ new # None /\ new.kind = kind
             /\ new.supersedes = None /\ c \in new.payload
             /\ Fits(table)
             /\ \A r \in Calls :
                  \/ table[r] = records[r]
                  \/ table[r] \in Record /\ Follows(records[r], table[r])
             /\ \A r \in Calls \ {c} : records[r] = None => table[r] = None
<1> DEFINE new == New(kind, validity, NoTopic, c, None)
           table == [records EXCEPT ![c] = new]
<1>1. /\ new \in Record /\ Follows(None, new) /\ new.kind = kind
      /\ new.topic = NoTopic /\ new.supersedes = None /\ c \in new.payload
  BY NewIsRecord DEF Topics
<1>2. records \in [Calls -> Record \union {None}] /\ records[c] = None
  BY UnendedIsNew DEF RecordsInv, TypeOK
<1> HIDE DEF new
<1>3. Fits(table)
  BY <1>1, PlainFits
<1>4. /\ table \in [Calls -> Record \union {None}]
      /\ table[c] = new
      /\ \A r \in Calls \ {c} : table[r] = records[r]
  BY <1>1, <1>2
<1>5. new # None
  BY <1>1, RecordAssumption
<1> HIDE DEF table
<1>6. \A r \in Calls : \/ table[r] = records[r]
                       \/ table[r] \in Record /\ Follows(records[r], table[r])
  BY <1>1, <1>2, <1>4
<1>7. \A r \in Calls \ {c} : records[r] = None => table[r] = None
  BY <1>4
<1> QED
  BY <1>1, <1>3, <1>4, <1>5, <1>6, <1>7 DEF table, new

(* Create: a record that fits anywhere.                                    *)
LEMMA CreateSteps ==
  ASSUME RecordsInv, NEW c \in Calls, NEW kind \in {"memo", "checkpoint"},
         Create(c, kind)
  PROVE  StepOf(c)
<1> DEFINE new == New(kind, "current", NoTopic, c, None)
           table == [records EXCEPT ![c] = new]
<1>1. /\ pc[c] = "idle" /\ Store(table) /\ Say(c, "written", c)
      /\ imports' = imports /\ draft' = draft
  BY DEF Create
<1>2. RecordTypes /\ CallTypes
  BY <1>1, Idle
<1>3. kind \in Kinds /\ "current" \in Validities
  BY DEF Kinds, Validities
<1>4. /\ table \in [Calls -> Record \union {None}]
      /\ table[c] = new /\ new # None /\ new.kind = kind
      /\ new.supersedes = None /\ c \in new.payload
      /\ Fits(table)
      /\ \A r \in Calls : \/ table[r] = records[r]
                          \/ table[r] \in Record /\ Follows(records[r], table[r])
      /\ \A r \in Calls \ {c} : records[r] = None => table[r] = None
  BY <1>1, <1>3, PlainRecord
<1> HIDE DEF new, table
<1>5. records' = table
  BY <1>1 DEF Store
<1>6. /\ pc'[c] = "done" /\ answer'[c].outcome = "written"
      /\ answer'[c].record = c /\ CallTypes' /\ OthersStay(c)
  BY <1>1, <1>2, SayTypes DEF CallTypes, OthersStay
<1>7. CallHolds(c)'
  BY <1>4, <1>5, <1>6, Answered
<1> QED
  BY <1>1, <1>4, <1>6, <1>7, StoringSteps

(* Import: the receipt that answers, or a record and its receipt.          *)
LEMMA ImportSteps ==
  ASSUME RecordsInv, NEW c \in Calls, NEW i \in Reports,
         NEW validity \in {"current", "stale", "unknown"}, Import(c, i, validity)
  PROVE  StepOf(c)
<1>1. pc[c] = "idle" /\ draft' = [draft EXCEPT ![c] = [NoDraft EXCEPT !.target = i]]
  BY DEF Import
<1>2. RecordTypes /\ CallTypes
  BY <1>1, Idle
<1>3. /\ draft' \in [Calls -> Draft]
      /\ draft'[c] = [NoDraft EXCEPT !.target = i]
      /\ \A e \in Calls \ {c} : draft'[e] = draft[e]
  BY <1>1, <1>2, DraftTypes DEF CallTypes
<1>4. draft'[c].target = i
  BY <1>3 DEF NoDraft
<1>5. ASSUME NEW r \in Calls, Say(c, "imported", r)
      PROVE  /\ pc'[c] = "done" /\ answer'[c].outcome = "imported"
             /\ answer'[c].record = r /\ CallTypes' /\ OthersStay(c)
  BY <1>2, <1>3, <1>5, SayTypes DEF CallTypes, OthersStay
<1>6. CASE imports[i] # None
  <2>1. Say(c, "imported", imports[i]) /\ UNCHANGED tables
    BY <1>6 DEF Import
  <2>2. imports[i] \in Calls /\ records[imports[i]] # None
    BY <1>6 DEF RecordsInv, ExportIsRestorable, Live
  <2>3. /\ pc'[c] = "done" /\ answer'[c].outcome = "imported"
        /\ answer'[c].record = imports[i] /\ CallTypes' /\ OthersStay(c)
    BY <1>5, <2>1, <2>2
  <2>4. CallHolds(c)'
    BY <1>4, <2>1, <2>2, <2>3, Answered DEF tables
  <2> QED
    BY <1>1, <2>1, <2>3, <2>4, ReadingSteps
<1>7. CASE imports[i] = None
  <2> DEFINE new == New("verification", validity, NoTopic, c, None)
             table == [records EXCEPT ![c] = new]
  <2>1. /\ Store(table) /\ imports' = [imports EXCEPT ![i] = c]
        /\ Say(c, "imported", c)
    BY <1>7 DEF Import
  <2>2. "verification" \in Kinds /\ validity \in Validities
    BY DEF Kinds, Validities
  <2>3. /\ table \in [Calls -> Record \union {None}]
        /\ table[c] = new /\ new # None /\ new.kind = "verification"
        /\ new.supersedes = None
        /\ Fits(table)
        /\ \A r \in Calls : \/ table[r] = records[r]
                            \/ table[r] \in Record /\ Follows(records[r], table[r])
        /\ \A r \in Calls \ {c} : records[r] = None => table[r] = None
    BY <1>1, <2>2, PlainRecord
  <2> HIDE DEF new, table
  <2>4. records' = table /\ imports'[i] = c
    BY <1>2, <2>1 DEF Store, RecordTypes
  <2>5. /\ pc'[c] = "done" /\ answer'[c].outcome = "imported"
        /\ answer'[c].record = c /\ CallTypes' /\ OthersStay(c)
    BY <1>5, <2>1
  <2>6. CallHolds(c)'
    BY <1>4, <2>3, <2>4, <2>5, Answered
  <2>7. \E j \in Reports : /\ imports[j] = None
                           /\ imports' = [imports EXCEPT ![j] = c]
                           /\ table[c] # None /\ table[c].kind = "verification"
    BY <1>7, <2>1, <2>3
  <2> QED
    BY <1>1, <2>1, <2>3, <2>5, <2>6, <2>7, StoringSteps
<1> QED
  BY <1>6, <1>7

(* LookUp and LookUpFails: the memo that was found, or an insertion.       *)
LEMMA LookUpSteps ==
  ASSUME RecordsInv, NEW c \in Calls, NEW topic \in Identity,
         LookUp(c, topic) \/ LookUpFails(c, topic)
  PROVE  StepOf(c)
<1>1. /\ pc[c] = "idle" /\ UNCHANGED tables
      /\ draft' = [draft EXCEPT ![c] = [NoDraft EXCEPT !.topic = topic]]
  BY DEF LookUp, LookUpFails
<1>2. RecordTypes /\ CallTypes /\ answer[c].outcome = "none"
  BY <1>1, Idle
<1>3. topic \in Topics
  BY DEF Topics
<1>4. /\ draft' \in [Calls -> Draft]
      /\ draft'[c] = [NoDraft EXCEPT !.topic = topic]
      /\ \A e \in Calls \ {c} : draft'[e] = draft[e]
  BY <1>1, <1>2, <1>3, DraftTypes DEF CallTypes
<1>5. draft'[c].topic = topic
  BY <1>4 DEF NoDraft
<1>6. CASE Found(topic) # {} /\ \E r \in Found(topic) : Say(c, "exists", r)
  <2>1. PICK r \in Found(topic) : Say(c, "exists", r)
    BY <1>6
  <2>2. /\ r \in Calls /\ records[r] # None
        /\ SameTopicAsNamed(records[r].topic, topic)
    BY <1>2, <1>3, FoundHasTopic DEF Live
  <2>3. /\ pc'[c] = "done" /\ answer'[c].outcome = "exists"
        /\ answer'[c].record = r /\ CallTypes' /\ OthersStay(c)
    BY <1>2, <1>4, <2>1, <2>2, SayTypes DEF CallTypes, OthersStay
  <2>4. CallHolds(c)'
    BY <1>1, <1>5, <2>2, <2>3, Answered DEF tables
  <2> QED
    BY <1>1, <2>3, <2>4, ReadingSteps
<1>7. CASE pc' = [pc EXCEPT ![c] = "inserting"] /\ UNCHANGED answer
  <2>1. CallTypes' /\ OthersStay(c)
    BY <1>2, <1>4, <1>7 DEF CallTypes, OthersStay
  <2>2. pc'[c] = "inserting" /\ answer'[c].outcome = "none"
    BY <1>2, <1>7 DEF CallTypes
  <2>3. CallHolds(c)'
    BY <2>2 DEF CallHolds, DraftIsRead, AnswerHolds
  <2> QED
    BY <1>1, <2>1, <2>3, ReadingSteps
<1> QED
  BY <1>6, <1>7 DEF LookUp, LookUpFails

(* InsertConflicts: only the call goes on.                                 *)
LEMMA InsertConflictsSteps ==
  ASSUME RecordsInv, NEW c \in Calls, InsertConflicts(c)
  PROVE  StepOf(c)
<1>1. /\ pc[c] = "inserting" /\ pc' = [pc EXCEPT ![c] = "conflict"]
      /\ UNCHANGED <<tables, draft, answer>>
  BY DEF InsertConflicts
<1>2. CallTypes /\ answer[c].outcome = "none"
  BY <1>1, UnendedIsNew DEF RecordsInv, TypeOK, CallTypes, Draft, Answer
<1>3. CallTypes' /\ OthersStay(c)
  BY <1>1, <1>2 DEF CallTypes, OthersStay
<1>4. pc'[c] = "conflict" /\ answer'[c].outcome = "none"
  BY <1>1, <1>2 DEF CallTypes
<1>5. CallHolds(c)'
  BY <1>4 DEF CallHolds, DraftIsRead, AnswerHolds
<1> QED
  BY <1>1, <1>3, <1>5, ReadingSteps

(* A refusal writes nothing.                                               *)
LEMMA RefusedSteps ==
  ASSUME RecordsInv, NEW c \in Calls, pc[c] # "done", Say(c, "refused", None),
         UNCHANGED <<tables, draft>>
  PROVE  StepOf(c)
<1>1. CallTypes
  BY DEF RecordsInv, TypeOK, CallTypes, Draft, Answer
<1>2. /\ pc'[c] = "done" /\ answer'[c].outcome = "refused"
      /\ CallTypes' /\ OthersStay(c)
  BY <1>1, SayTypes DEF CallTypes, OthersStay
<1>3. CallHolds(c)'
  BY <1>2, Answered
<1> QED
  BY <1>2, <1>3, ReadingSteps

(* LookAgain: the memo that was found, or a refusal.                       *)
LEMMA LookAgainSteps ==
  ASSUME RecordsInv, NEW c \in Calls, LookAgain(c)
  PROVE  StepOf(c)
<1>1. pc[c] = "conflict" /\ UNCHANGED <<tables, draft>>
  BY DEF LookAgain
<1>2. RecordTypes /\ CallTypes
  BY DEF RecordsInv, TypeOK, RecordTypes, CallTypes, Draft, Answer
<1>3. draft[c].topic \in Topics
  BY <1>2 DEF CallTypes, Draft
<1>4. CASE \E r \in Found(draft[c].topic) : Say(c, "exists", r)
  <2>1. PICK r \in Found(draft[c].topic) : Say(c, "exists", r)
    BY <1>4
  <2>2. /\ r \in Calls /\ records[r] # None
        /\ SameTopicAsNamed(records[r].topic, draft[c].topic)
    BY <1>2, <1>3, FoundHasTopic DEF Live
  <2>3. /\ pc'[c] = "done" /\ answer'[c].outcome = "exists"
        /\ answer'[c].record = r /\ CallTypes' /\ OthersStay(c)
    BY <1>1, <1>2, <2>1, <2>2, SayTypes DEF CallTypes, OthersStay
  <2>4. CallHolds(c)'
    BY <1>1, <2>2, <2>3, Answered DEF tables
  <2> QED
    BY <1>1, <2>3, <2>4, ReadingSteps
<1>5. CASE Say(c, "refused", None)
  BY <1>1, <1>5, RefusedSteps
<1> QED
  BY <1>4, <1>5 DEF LookAgain

(* Insert: the indexes were asked.                                         *)
LEMMA InsertSteps ==
  ASSUME RecordsInv, NEW c \in Calls, Insert(c)
  PROVE  StepOf(c)
<1> DEFINE new == New("memo", "current", draft[c].topic, c, None)
           table == [records EXCEPT ![c] = new]
<1>1. /\ pc[c] = "inserting" /\ Fits(table) /\ Store(table)
      /\ Say(c, "written", c) /\ imports' = imports /\ draft' = draft
  BY DEF Insert
<1>2. RecordTypes /\ CallTypes /\ records[c] = None
  BY <1>1, UnendedIsNew DEF RecordsInv, TypeOK, RecordTypes, CallTypes, Draft, Answer
<1>3. draft[c].topic \in Topics
  BY <1>2 DEF CallTypes, Draft
<1>4. /\ new \in Record /\ Follows(None, new)
      /\ new.supersedes = None /\ c \in new.payload
  BY <1>3, NewIsRecord DEF Kinds, Validities
<1> HIDE DEF new
<1>5. /\ table \in [Calls -> Record \union {None}]
      /\ table[c] = new
      /\ \A r \in Calls \ {c} : table[r] = records[r]
  BY <1>2, <1>4 DEF RecordTypes
<1> HIDE DEF table
<1>6. /\ new # None
      /\ \A r \in Calls : \/ table[r] = records[r]
                          \/ table[r] \in Record /\ Follows(records[r], table[r])
      /\ \A r \in Calls \ {c} : records[r] = None => table[r] = None
  BY <1>2, <1>4, <1>5, RecordAssumption
<1>7. records' = table
  BY <1>1 DEF Store
<1>8. /\ pc'[c] = "done" /\ answer'[c].outcome = "written"
      /\ answer'[c].record = c /\ CallTypes' /\ OthersStay(c)
  BY <1>1, <1>2, SayTypes DEF CallTypes, OthersStay
<1>9. CallHolds(c)'
  BY <1>4, <1>5, <1>6, <1>7, <1>8, Answered
<1> QED
  BY <1>1, <1>4, <1>5, <1>6, <1>8, <1>9, StoringSteps

(* Replace: a new record, and the revision that retires the old one.       *)
LEMMA ReplaceSteps ==
  ASSUME RecordsInv, NEW c \in Calls, NEW r \in Live, NEW topic \in Topics,
         Replace(c, r, topic)
  PROVE  StepOf(c)
<1> DEFINE new     == New("memo", "current", topic, c, r)
           retired == Revised(records[r], "superseded", records[r].payload,
                              records[r].supersedes)
           table   == [records EXCEPT ![r] = retired, ![c] = new]
<1>1. /\ pc[c] = "idle" /\ r \in CurrentMemos(records)
      /\ Fits(table) /\ Store(table)
      /\ Say(c, "written", c) /\ imports' = imports /\ draft' = draft
  BY DEF Replace
<1>2. RecordTypes /\ CallTypes /\ records[c] = None
  BY <1>1, Idle
<1>3. r \in Calls /\ records[r] \in Record /\ r # c
  BY <1>2, RecordAssumption DEF Live, RecordTypes
<1>4. /\ new \in Record /\ Follows(None, new)
      /\ new.supersedes = r /\ c \in new.payload
  BY <1>3, NewIsRecord DEF Kinds, Validities
<1>5. retired \in Record /\ Follows(records[r], retired)
  <2>1. /\ "superseded" \in Validities
        /\ records[r].payload \in SUBSET Calls
        /\ records[r].payload \subseteq records[r].payload
    BY <1>3, RecordFields DEF Validities
  <2> QED
    BY <1>3, <2>1, RevisedIsRecord
<1> HIDE DEF new, retired
<1>6. /\ table \in [Calls -> Record \union {None}]
      /\ table[c] = new /\ table[r] = retired
      /\ \A s \in Calls \ {c, r} : table[s] = records[s]
  BY <1>2, <1>3, <1>4, <1>5 DEF RecordTypes
<1> HIDE DEF table
<1>7. /\ new # None
      /\ \A s \in Calls : \/ table[s] = records[s]
                          \/ table[s] \in Record /\ Follows(records[s], table[s])
      /\ \A s \in Calls \ {c} : records[s] = None => table[s] = None
  BY <1>2, <1>3, <1>4, <1>5, <1>6, RecordAssumption
<1>8. records' = table
  BY <1>1 DEF Store
<1>9. /\ pc'[c] = "done" /\ answer'[c].outcome = "written"
      /\ answer'[c].record = c /\ CallTypes' /\ OthersStay(c)
  BY <1>1, <1>2, SayTypes DEF CallTypes, OthersStay
<1>10. CallHolds(c)'
  BY <1>4, <1>6, <1>7, <1>8, <1>9, Answered
<1>11. /\ table[c].supersedes \in CurrentMemos(records)
       /\ table[table[c].supersedes] =
            Revised(records[table[c].supersedes], "superseded",
                    records[table[c].supersedes].payload,
                    records[table[c].supersedes].supersedes)
  BY <1>1, <1>4, <1>6 DEF retired
<1> QED
  BY <1>1, <1>6, <1>7, <1>9, <1>10, <1>11, StoringSteps

(* mode=update and mode=supersede begin with a read of the record.         *)
LEMMA ReadSteps ==
  ASSUME RecordsInv, NEW c \in Calls, NEW r \in Live,
         ReadForUpdate(c, r) \/ ReadToRetire(c, r)
  PROVE  StepOf(c)
<1>1. pc[c] = "idle" /\ UNCHANGED tables /\ answer' = answer
  BY DEF ReadForUpdate, ReadToRetire
<1>2. RecordTypes /\ CallTypes /\ answer[c].outcome = "none"
  BY <1>1, Idle
<1>3. /\ r \in Calls /\ records[r] # None /\ records[r].rev \in Nat
      /\ records[r].payload \in SUBSET Calls
      /\ records[r].supersedes \in Calls \union {None}
  <2>1. r \in Calls /\ records[r] # None /\ records[r] \in Record
    BY <1>2 DEF Live, RecordTypes
  <2> QED
    BY <2>1, RecordFields
<1>4. PICK d \in Draft :
        /\ draft' = [draft EXCEPT ![c] = d]
        /\ d.target = r /\ d.rev = records[r].rev
        /\ c \in d.payload \/ d.validity = "superseded"
        /\ records[r].payload \subseteq d.payload
        /\ \/ pc' = [pc EXCEPT ![c] = "merged"]
           \/ /\ pc' = [pc EXCEPT ![c] = "writing"]
              /\ d.supersedes = records[r].supersedes
  <2>1. CASE ReadForUpdate(c, r)
    <3> DEFINE d == [NoDraft EXCEPT !.target  = r, !.rev = records[r].rev,
                                    !.payload = records[r].payload \union {c}]
    <3>1. d \in Draft
      BY <1>3 DEF NoDraft, Draft, Topics
    <3>2. /\ d.target = r /\ d.rev = records[r].rev /\ c \in d.payload
          /\ records[r].payload \subseteq d.payload
      BY DEF NoDraft
    <3>3. /\ draft' = [draft EXCEPT ![c] = d]
          /\ pc' = [pc EXCEPT ![c] = "merged"]
      BY <2>1 DEF ReadForUpdate
    <3> HIDE DEF d
    <3> QED
      BY <3>1, <3>2, <3>3
  <2>2. CASE ReadToRetire(c, r)
    <3> DEFINE d == [NoDraft EXCEPT !.target     = r, !.rev = records[r].rev,
                                    !.validity   = "superseded",
                                    !.payload    = records[r].payload,
                                    !.supersedes = records[r].supersedes]
    <3>1. d \in Draft
      BY <1>3 DEF NoDraft, Draft, Topics
    <3>2. /\ d.target = r /\ d.rev = records[r].rev /\ d.validity = "superseded"
          /\ records[r].payload \subseteq d.payload
          /\ d.supersedes = records[r].supersedes
      BY DEF NoDraft
    <3>3. /\ draft' = [draft EXCEPT ![c] = d]
          /\ pc' = [pc EXCEPT ![c] = "writing"]
      BY <2>2 DEF ReadToRetire
    <3> HIDE DEF d
    <3> QED
      BY <3>1, <3>2, <3>3
  <2> QED
    BY <2>1, <2>2
<1>5. CallTypes' /\ OthersStay(c) /\ draft'[c] = d
  BY <1>1, <1>2, <1>4 DEF CallTypes, OthersStay
<1>6. /\ pc'[c] \in {"merged", "writing"}
      /\ pc'[c] = "writing" => d.supersedes = records[r].supersedes
  BY <1>2, <1>4 DEF CallTypes
<1>7. DraftIsRead(c)'
  BY <1>1, <1>3, <1>4, <1>5, <1>6 DEF DraftIsRead, Live, tables
<1>8. AnswerHolds(c)'
  BY <1>1, <1>2 DEF AnswerHolds
<1>9. CallHolds(c)'
  BY <1>7, <1>8 DEF CallHolds
<1> QED
  BY <1>1, <1>5, <1>9, ReadingSteps

(* Reread: the revision is the expected one, so the link is too.           *)
LEMMA RereadSteps ==
  ASSUME RecordsInv, NEW c \in Calls, Reread(c)
  PROVE  StepOf(c)
<1> DEFINE r == draft[c].target
           d == [draft[c] EXCEPT !.supersedes = records[r].supersedes]
<1>1. /\ pc[c] = "merged" /\ records[r].rev = draft[c].rev
      /\ draft' = [draft EXCEPT ![c] = d]
      /\ pc' = [pc EXCEPT ![c] = "writing"]
      /\ UNCHANGED tables /\ answer' = answer
  BY DEF Reread
<1>2. RecordTypes /\ CallTypes /\ answer[c].outcome = "none"
  BY <1>1, UnendedIsNew DEF RecordsInv, TypeOK, RecordTypes, CallTypes, Draft, Answer
<1>3. /\ r \in Calls /\ records[r] # None
      /\ c \in draft[c].payload \/ draft[c].validity = "superseded"
      /\ records[r].payload \subseteq draft[c].payload
  BY <1>1 DEF RecordsInv, CallHolds, DraftIsRead, Live
<1>4. records[r].supersedes \in Calls \union {None} /\ records[r].rev \in Nat
  BY <1>2, <1>3, RecordFields DEF RecordTypes
<1>5. draft[c] \in Draft
  BY <1>2 DEF CallTypes
<1>6. /\ d \in Draft /\ d.target = r /\ d.rev = draft[c].rev
      /\ d.payload = draft[c].payload /\ d.validity = draft[c].validity
      /\ d.supersedes = records[r].supersedes
  BY <1>4, <1>5 DEF Draft
<1> HIDE DEF d
<1>7. CallTypes' /\ OthersStay(c) /\ draft'[c] = d /\ pc'[c] = "writing"
  BY <1>1, <1>2, <1>6 DEF CallTypes, OthersStay
<1>8. DraftIsRead(c)'
  BY <1>1, <1>3, <1>4, <1>6, <1>7 DEF DraftIsRead, Live, tables
<1>9. AnswerHolds(c)'
  BY <1>1, <1>2 DEF AnswerHolds
<1>10. CallHolds(c)'
  BY <1>8, <1>9 DEF CallHolds
<1> QED
  BY <1>1, <1>7, <1>10, ReadingSteps

(* The record is still the one the draft was read from, for its revision   *)
(* is: so the write loses no edit and no link.                             *)
LEMMA WriteSteps ==
  ASSUME RecordsInv, NEW c \in Calls, Write(c)
  PROVE  StepOf(c)
<1> DEFINE r    == draft[c].target
           next == Revised(records[r], draft[c].validity, draft[c].payload,
                           records[r].supersedes)
           table == [records EXCEPT ![r] = next]
<1>1. /\ pc[c] = "writing" /\ records[r].rev = draft[c].rev
      /\ Fits(Edited(c)) /\ Store(Edited(c)) /\ Say(c, "written", r)
      /\ imports' = imports /\ draft' = draft
  BY DEF Write
<1>2. RecordTypes /\ CallTypes /\ records[c] = None
  BY <1>1, UnendedIsNew DEF RecordsInv, TypeOK, RecordTypes, CallTypes, Draft, Answer
<1>3. /\ r \in Calls /\ records[r] # None
      /\ c \in draft[c].payload \/ draft[c].validity = "superseded"
      /\ records[r].payload \subseteq draft[c].payload
      /\ draft[c].supersedes = records[r].supersedes
  BY <1>1 DEF RecordsInv, CallHolds, DraftIsRead, Live
<1>4. records[r] \in Record
  BY <1>2, <1>3 DEF RecordTypes
<1>5. draft[c].validity \in Validities /\ draft[c].payload \in SUBSET Calls
  BY <1>2 DEF CallTypes, Draft, Validities
<1>6. table = Edited(c)
  BY <1>3 DEF Edited
<1>7. next \in Record /\ Follows(records[r], next) /\ next.payload = draft[c].payload
  BY <1>3, <1>4, <1>5, RevisedIsRecord
<1> HIDE DEF next
<1>8. /\ table \in [Calls -> Record \union {None}]
      /\ table[r] = next
      /\ \A s \in Calls \ {r} : table[s] = records[s]
  BY <1>2, <1>3, <1>7 DEF RecordTypes
<1>9. Fits(table) /\ Store(table)
  BY <1>1, <1>6
<1> HIDE DEF table
<1>10. /\ next # None /\ table[c] = None
       /\ \A s \in Calls : \/ table[s] = records[s]
                           \/ table[s] \in Record /\ Follows(records[s], table[s])
       /\ \A s \in Calls \ {c} : records[s] = None => table[s] = None
  BY <1>2, <1>3, <1>7, <1>8, RecordAssumption
<1>11. records' = table
  BY <1>9 DEF Store
<1>12. /\ pc'[c] = "done" /\ answer'[c].outcome = "written"
       /\ answer'[c].record = r /\ CallTypes' /\ OthersStay(c)
  BY <1>1, <1>2, <1>3, SayTypes DEF CallTypes, OthersStay
<1>13. CallHolds(c)'
  BY <1>1, <1>3, <1>7, <1>8, <1>10, <1>11, <1>12, Answered
<1> QED
  BY <1>1, <1>8, <1>9, <1>10, <1>12, <1>13, StoringSteps

(* Refuse.                                                                 *)
LEMMA RefuseSteps ==
  ASSUME RecordsInv, NEW c \in Calls, Refuse(c)
  PROVE  StepOf(c)
<1> QED
  BY RefusedSteps DEF Refuse

-----------------------------------------------------------------------------
(* The invariant is inductive.                                             *)
LEMMA InitRecordsInv ==
  ASSUME Init
  PROVE  RecordsInv
<1> USE DEF Init
<1>1. Live = {} /\ CurrentMemos(records) = {}
  BY DEF Live, CurrentMemos
<1>2. TypeOK
  <2>1. NoDraft \in Draft
    BY DraftTypes
  <2>2. <<>> \in Seq(Revisions)
    OBVIOUS
  <2> QED
    BY <1>1, <2>1, <2>2 DEF TypeOK, Draft
<1>3. RevisionsAreCalls /\ PredecessorIsKept
  BY <1>1 DEF RevisionsAreCalls, PredecessorIsKept
<1>4. ASSUME NEW c \in Calls
      PROVE  CallHolds(c)
  BY DEF CallHolds, DraftIsRead, AnswerHolds
<1>5. ExportIsRestorable
  BY <1>1 DEF ExportIsRestorable
<1>6. Fits(records)
  BY <1>1 DEF Fits
<1> HIDE DEF Init
<1> QED
  BY <1>2, <1>3, <1>4, <1>5, <1>6 DEF RecordsInv

(* Every step keeps it: it is a step of some call.                         *)
LEMMA NextRecordsInv ==
  ASSUME RecordsInv, [Next]_vars
  PROVE  RecordsInv'
<1>1. ASSUME Next
      PROVE  RecordsInv'
  <2>1. PICK c \in Calls :
          \/ \E kind \in {"memo", "checkpoint"} : Create(c, kind)
          \/ \E topic \in Identity : LookUp(c, topic) \/ LookUpFails(c, topic)
          \/ Insert(c)
          \/ InsertConflicts(c)
          \/ LookAgain(c)
          \/ \E r \in Live, topic \in Topics : Replace(c, r, topic)
          \/ \E r \in Live : ReadForUpdate(c, r) \/ ReadToRetire(c, r)
          \/ Reread(c)
          \/ Write(c)
          \/ Refuse(c)
          \/ \E i \in Reports, validity \in {"current", "stale", "unknown"} :
               Import(c, i, validity)
    BY <1>1 DEF Next
  <2>2. StepOf(c)
    BY <2>1, CreateSteps, LookUpSteps, InsertSteps, InsertConflictsSteps,
       LookAgainSteps, ReplaceSteps, ReadSteps, RereadSteps, WriteSteps,
       RefuseSteps, ImportSteps
  <2> QED
    BY <2>2, StepKeeps
<1>2. ASSUME UNCHANGED vars
      PROVE  RecordsInv'
  <2>1. /\ records' = records /\ history' = history /\ imports' = imports
        /\ pc' = pc /\ draft' = draft /\ answer' = answer
    BY <1>2 DEF vars, tables
  <2>2. Live' = Live /\ Done' = Done
    BY <2>1 DEF Live, Done
  <2>3. TypeOK' /\ RevisionsAreCalls' /\ ExportIsRestorable' /\ PredecessorIsKept'
    BY <2>1, <2>2 DEF RecordsInv, TypeOK, RevisionsAreCalls, ExportIsRestorable,
       PredecessorIsKept
  <2>4. \A c \in Calls : CallHolds(c)'
    BY <2>1, <2>2 DEF RecordsInv, CallHolds, DraftIsRead, AnswerHolds
  <2>5. Fits(records')
    BY <2>1 DEF RecordsInv
  <2> QED
    BY <2>3, <2>4, <2>5 DEF RecordsInv
<1> QED
  BY <1>1, <1>2

(* What the theorems below are read off.                                   *)
THEOREM RecordsInvAlways == Spec => []RecordsInv
<1> QED
  BY InitRecordsInv, NextRecordsInv, PTL DEF Spec

(* Every variable keeps its type, and no record has more revisions than    *)
(* there are calls (mutate and ReplaceMemo, internal/records).             *)
THEOREM RecordTypesAlways == Spec => []TypeOK
<1>1. RecordsInv => TypeOK
  BY DEF RecordsInv
<1> QED
  BY <1>1, RecordsInvAlways, PTL

(* Whenever the memory is exported, validateRecordArchive accepts it.      *)
THEOREM ExportsAreRestorable == Spec => []ExportIsRestorable
<1>1. RecordsInv => ExportIsRestorable
  BY DEF RecordsInv
<1> QED
  BY <1>1, RecordsInvAlways, PTL

(* An edit answered as written stays in its record, and a replaced memo is *)
(* in its history word for word (mutate, ReplaceMemo, UpdateRecord).       *)
THEOREM NothingIsEverLost == Spec => []NothingIsLost
<1>1. ASSUME RecordsInv
      PROVE  NothingIsLost
  <2>1. WrittenEditsSurvive
    BY <1>1 DEF RecordsInv, CallHolds, AnswerHolds, WrittenEditsSurvive
  <2>2. ReplacedIsPreserved
    <3>1. ASSUME NEW s \in Live, records[s].supersedes # None
          PROVE  /\ \E n \in 2 .. Len(history[records[s].supersedes]) :
                      RetiredAt(history[records[s].supersedes], n)
                 /\ \A t \in Live :
                      records[t].supersedes = records[s].supersedes => t = s
      <4>1. /\ records[s].supersedes \in Live
            /\ \E n \in 2 .. records[records[s].supersedes].rev :
                 RetiredAt(history[records[s].supersedes], n)
        BY <1>1, <3>1 DEF RecordsInv, PredecessorIsKept
      <4>2. Len(history[records[s].supersedes]) =
              records[records[s].supersedes].rev
        BY <1>1, <4>1 DEF RecordsInv, ExportIsRestorable
      <4>3. \A t \in Live :
              records[t].supersedes = records[s].supersedes => t = s
        BY <1>1, <3>1 DEF RecordsInv, Fits, Live
      <4> QED
        BY <4>1, <4>2, <4>3
    <3> QED
      BY <3>1 DEF ReplacedIsPreserved, RetiredAt
  <2> QED
    BY <2>1, <2>2 DEF NothingIsLost
<1> QED
  BY <1>1, RecordsInvAlways, PTL

(* One current memo per topic (the index), one record per report           *)
(* (ImportVerification), and whoever is told its topic exists is told a    *)
(* memo of that topic, for any configurations (currentTopicMemo).          *)
THEOREM OneOfEachAlways == Spec => []OneOfEach
<1>1. ASSUME RecordsInv
      PROVE  OneOfEach
  <2>1. OneCurrentPerTopic
    BY <1>1 DEF RecordsInv, Fits, OneCurrentPerTopic
  <2>2. ImportedOnce
    BY <1>1 DEF RecordsInv, CallHolds, AnswerHolds, ImportedOnce
  <2>3. ExistingIsOfTopic
    BY <1>1 DEF RecordsInv, CallHolds, AnswerHolds, ExistingIsOfTopic
  <2> QED
    BY <2>1, <2>2, <2>3 DEF OneOfEach
<1> QED
  BY <1>1, RecordsInvAlways, PTL
=============================================================================
