------------------------------ MODULE Records ------------------------------
(***************************************************************************)
(* Intention memory: memo_write, checkpoint_write and report_import        *)
(* (internal/records) over the durable records store                       *)
(* (internal/store/sqlite/records.go).  Every database access is one       *)
(* transaction and so one step; a call makes several, and calls of any     *)
(* number of server processes interleave between them.  A call that dies   *)
(* with its process takes no further step.                                 *)
(*                                                                         *)
(* A record ID is random, so the ID of a record is here the call that      *)
(* created it.  What a record says is the set of calls whose edits it      *)
(* contains: an update merges its fields into the payload it read.  The    *)
(* revision a client names is the one the record has when the call first   *)
(* reads it; any other is refused without a trace.                         *)
(***************************************************************************)
EXTENDS Naturals, Sequences, FiniteSets

CONSTANTS
  Calls,           \* memo_write, checkpoint_write and report_import requests
  Keys,            \* pairs of scope and topic_key; both are required in one
  Configurations,  \* non-empty values of configuration
  Reports,         \* import identities: report, checklist, configuration
  None             \* no configuration, topic, record

ASSUME RecordsAssumption ==
  /\ None \notin Calls \union Configurations
  /\ IsFiniteSet(Calls)

VARIABLES
  records,   \* table records: by ID, None if there is none
  history,   \* table record_revisions: by ID, the revisions in order
  imports,   \* table report_imports: by identity, the record it produced
  pc,        \* where a call is
  draft,     \* what a call has read and means to write
  answer     \* what a call told its client: an outcome and a record

tables == <<records, history, imports>>
vars   == <<tables, pc, draft, answer>>

-----------------------------------------------------------------------------
(* The identity a topic memo must keep; NoTopic is a free-form memo.       *)
Identity == [key : Keys, configuration : Configurations \union {None}]
NoTopic  == [key |-> None, configuration |-> None]
Topics   == Identity \union {NoTopic}

Kinds      == {"memo", "checkpoint", "verification"}
Validities == {"current", "superseded", "stale", "unknown"}

Record ==
  [kind : Kinds, rev : Nat \ {0}, validity : Validities, topic : Topics,
   payload : SUBSET Calls, supersedes : Calls \union {None}]

ASSUME RecordAssumption == None \notin Record

Live == {r \in Calls : records[r] # None}

CurrentMemos(table) ==
  {r \in Calls : table[r] # None /\ table[r].kind = "memo"
                                 /\ table[r].validity = "current"}

(* Definitions marked "Mutant" are plausible bugs.  No specification uses  *)
(* them; PROJECT.json names the property that each one violates.           *)
FitsAlways(table) == TRUE                                          \* Mutant

(* The unique indexes records_current_memo_topic, records_memo_successor.  *)
Fits(table) ==
  /\ \A r, s \in CurrentMemos(table) :
       table[r].topic = table[s].topic /\ table[r].topic # NoTopic => r = s
  /\ \A r, s \in Calls :
       /\ table[r] # None /\ table[r].supersedes # None
       /\ table[s] # None /\ table[s].supersedes = table[r].supersedes
       => r = s

(* Mutant: the first revision is number 0.                                 *)
NewUnnumbered(kind, validity, topic, c, old) ==
  [kind |-> kind, rev |-> 0, validity |-> validity, topic |-> topic,
   payload |-> {c}, supersedes |-> old]

New(kind, validity, topic, c, old) ==
  [kind |-> kind, rev |-> 1, validity |-> validity, topic |-> topic,
   payload |-> {c}, supersedes |-> old]

(* A write of an existing record: its next revision.                       *)
Revised(record, validity, payload, supersedes) ==
  [kind |-> record.kind, rev |-> record.rev + 1, validity |-> validity,
   topic |-> record.topic, payload |-> payload, supersedes |-> supersedes]

(* Mutant: only the first revision goes to the history.                    *)
StoreFirst(table) ==
  /\ records' = table
  /\ history' = [r \in Calls |->
                  IF table[r] = records[r] \/ records[r] # None
                    THEN history[r]
                    ELSE <<[payload |-> table[r].payload,
                            validity |-> table[r].validity,
                            supersedes |-> table[r].supersedes]>>]

(* Every write of a record appends the revision it made.                   *)
Revision(record) ==
  [payload |-> record.payload, validity |-> record.validity,
   supersedes |-> record.supersedes]

Store(table) ==
  /\ records' = table
  /\ history' = [r \in Calls |->
                  IF table[r] = records[r] THEN history[r]
                  ELSE Append(history[r], Revision(table[r]))]

Say(c, outcome, r) ==
  /\ pc' = [pc EXCEPT ![c] = "done"]
  /\ answer' = [answer EXCEPT ![c] = [outcome |-> outcome, record |-> r]]

NoDraft ==
  [topic |-> NoTopic, target |-> None, rev |-> 0, validity |-> "current",
   payload |-> {}, supersedes |-> None]

Init ==
  /\ records = [r \in Calls |-> None]
  /\ history = [r \in Calls |-> <<>>]
  /\ imports = [i \in Reports |-> None]
  /\ pc      = [c \in Calls |-> "idle"]
  /\ draft   = [c \in Calls |-> NoDraft]
  /\ answer  = [c \in Calls |-> [outcome |-> "none", record |-> None]]

-----------------------------------------------------------------------------
(* A checkpoint, or a memo without a topic, is inserted at once.           *)
Create(c, kind) ==
  /\ pc[c] = "idle"
  /\ Store([records EXCEPT ![c] = New(kind, "current", NoTopic, c, None)])
  /\ Say(c, "written", c)
  /\ UNCHANGED <<imports, draft>>

FoundAny(topic) == CurrentMemos(records)                           \* Mutant

(* currentTopicMemo.  QueryRecords drops a filter that is empty, and so    *)
(* does not compare the configuration of a memo that names none.           *)
Found(topic) ==
  {r \in CurrentMemos(records) :
    /\ records[r].topic.key = topic.key
    /\ topic.configuration # None =>
         records[r].topic.configuration = topic.configuration}

(* A memo with a topic first looks for the current one of that topic.      *)
LookUp(c, topic) ==
  /\ pc[c] = "idle"
  /\ IF Found(topic) # {}
       THEN /\ \E r \in Found(topic) : Say(c, "exists", r)
            /\ draft' = [draft EXCEPT ![c] = [NoDraft EXCEPT !.topic = topic]]
       ELSE /\ pc' = [pc EXCEPT ![c] = "inserting"]
            /\ draft' = [draft EXCEPT ![c] = [NoDraft EXCEPT !.topic = topic]]
            /\ UNCHANGED answer
  /\ UNCHANGED tables

(* The lookup failed, which is only worth a warning.                       *)
LookUpFails(c, topic) ==
  /\ pc[c] = "idle"
  /\ pc' = [pc EXCEPT ![c] = "inserting"]
  /\ draft' = [draft EXCEPT ![c] = [NoDraft EXCEPT !.topic = topic]]
  /\ UNCHANGED <<tables, answer>>

(* Any error of the insertion is taken for a conflict.                     *)
Insert(c) ==
  LET table == [records EXCEPT ![c] =
                 New("memo", "current", draft[c].topic, c, None)]
  IN  /\ pc[c] = "inserting"
      /\ Fits(table)
      /\ Store(table)
      /\ Say(c, "written", c)
      /\ UNCHANGED <<imports, draft>>

InsertConflicts(c) ==
  /\ pc[c] = "inserting"
  /\ pc' = [pc EXCEPT ![c] = "conflict"]
  /\ UNCHANGED <<tables, draft, answer>>

LookAgain(c) ==
  /\ pc[c] = "conflict"
  /\ IF Found(draft[c].topic) # {}
       THEN \E r \in Found(draft[c].topic) : Say(c, "exists", r)
       ELSE Say(c, "refused", None)
  /\ UNCHANGED <<tables, draft>>

(* Mutant: the old memo's content is cleared along with its validity.      *)
ReplaceEmptied(c, r, topic) ==
  LET table ==
        [records EXCEPT
          ![r] = Revised(records[r], "superseded", {}, records[r].supersedes),
          ![c] = New("memo", "current", topic, c, r)]
  IN  /\ pc[c] = "idle"
      /\ r \in CurrentMemos(records)
      /\ Fits(table)
      /\ Store(table)
      /\ Say(c, "written", c)
      /\ UNCHANGED <<imports, draft>>

(* ReplaceMemo: one transaction retires the old memo and inserts the new.  *)
Replace(c, r, topic) ==
  LET table ==
        [records EXCEPT
          ![r] = Revised(records[r], "superseded", records[r].payload,
                         records[r].supersedes),
          ![c] = New("memo", "current", topic, c, r)]
  IN  /\ pc[c] = "idle"
      /\ r \in CurrentMemos(records)
      /\ Fits(table)
      /\ Store(table)
      /\ Say(c, "written", c)
      /\ UNCHANGED <<imports, draft>>

-----------------------------------------------------------------------------
Editable == {r \in Live : records[r].kind # "verification"}

(* mode=update: recordForUpdate reads the record and its fields are merged. *)
ReadForUpdate(c, r) ==
  /\ pc[c] = "idle"
  /\ r \in Editable
  /\ draft' = [draft EXCEPT ![c] =
                 [NoDraft EXCEPT !.target  = r,
                                 !.rev     = records[r].rev,
                                 !.payload = records[r].payload \union {c}]]
  /\ pc' = [pc EXCEPT ![c] = "merged"]
  /\ UNCHANGED <<tables, answer>>

(* Mutant: the revision the record has now is taken for the expected one.  *)
RereadAny(c) ==
  LET r == draft[c].target
  IN  /\ pc[c] = "merged"
      /\ draft' = [draft EXCEPT ![c] =
                     [draft[c] EXCEPT !.rev = records[r].rev,
                                      !.supersedes = records[r].supersedes]]
      /\ pc' = [pc EXCEPT ![c] = "writing"]
      /\ UNCHANGED <<tables, answer>>

(* mutate reads it again: the revision must still be the expected one, and *)
(* the link to a predecessor is carried over.                              *)
Reread(c) ==
  LET r == draft[c].target
  IN  /\ pc[c] = "merged"
      /\ records[r].rev = draft[c].rev
      /\ draft' = [draft EXCEPT ![c] =
                     [draft[c] EXCEPT !.supersedes = records[r].supersedes]]
      /\ pc' = [pc EXCEPT ![c] = "writing"]
      /\ UNCHANGED <<tables, answer>>

(* mode=supersede: only this read, which keeps payload and link.           *)
ReadToRetire(c, r) ==
  /\ pc[c] = "idle"
  /\ r \in Editable
  /\ draft' = [draft EXCEPT ![c] =
                 [NoDraft EXCEPT !.target     = r,
                                 !.rev        = records[r].rev,
                                 !.validity   = "superseded",
                                 !.payload    = records[r].payload,
                                 !.supersedes = records[r].supersedes]]
  /\ pc' = [pc EXCEPT ![c] = "writing"]
  /\ UNCHANGED <<tables, answer>>

Edited(c) ==
  [records EXCEPT ![draft[c].target] =
    Revised(records[draft[c].target], draft[c].validity, draft[c].payload,
            draft[c].supersedes)]

(* The update compares the revision once more, and the indexes apply.      *)
Write(c) ==
  /\ pc[c] = "writing"
  /\ records[draft[c].target].rev = draft[c].rev
  /\ Fits(Edited(c))
  /\ Store(Edited(c))
  /\ Say(c, "written", draft[c].target)
  /\ UNCHANGED <<imports, draft>>

(* A revision conflict, a busy database, a violated index, a deadline.     *)
Refuse(c) ==
  /\ pc[c] \in {"merged", "writing"}
  /\ Say(c, "refused", None)
  /\ UNCHANGED <<tables, draft>>

-----------------------------------------------------------------------------
(* Mutant: the receipt is not written.                                     *)
ImportUnreceipted(c, i, validity) ==
  /\ pc[c] = "idle"
  /\ IF imports[i] # None
       THEN Say(c, "imported", imports[i]) /\ UNCHANGED tables
       ELSE /\ Store([records EXCEPT ![c] =
                       New("verification", validity, NoTopic, c, None)])
            /\ Say(c, "imported", c)
            /\ UNCHANGED imports
  /\ draft' = [draft EXCEPT ![c] = [NoDraft EXCEPT !.target = i]]

(* ImportVerification: the receipt of an earlier import is what answers.   *)
Import(c, i, validity) ==
  /\ pc[c] = "idle"
  /\ IF imports[i] # None
       THEN Say(c, "imported", imports[i]) /\ UNCHANGED tables
       ELSE /\ Store([records EXCEPT ![c] =
                       New("verification", validity, NoTopic, c, None)])
            /\ imports' = [imports EXCEPT ![i] = c]
            /\ Say(c, "imported", c)
  /\ draft' = [draft EXCEPT ![c] = [NoDraft EXCEPT !.target = i]]

-----------------------------------------------------------------------------
Next ==
  \E c \in Calls :
    \/ \E kind \in {"memo", "checkpoint"} : Create(c, kind)
    \/ \E topic \in Identity : LookUp(c, topic) \/ LookUpFails(c, topic)
    \/ Insert(c)
    \/ InsertConflicts(c)
    \/ LookAgain(c)
    \/ \E r \in Live, topic \in Topics : Replace(c, r, topic)
    \/ \E r \in Live : ReadForUpdate(c, r) \/ ReadToRetire(c, r)
    \/ Reread(c)
    \/ Write(c)
    \/ Refuse(c)
    \/ \E i \in Reports, validity \in {"current", "stale", "unknown"} :
         Import(c, i, validity)

Spec == Init /\ [][Next]_vars

-----------------------------------------------------------------------------
Revisions ==
  [payload : SUBSET Calls, validity : Validities, supersedes : Calls \union {None}]

(* Type invariant: every variable has the values the code can give it, and *)
(* no record is written more often than there are calls.                   *)
TypeOK ==
  /\ records \in [Calls -> Record \union {None}]
  /\ \A r \in Live : records[r].rev <= Cardinality(Calls)
  /\ history \in [Calls -> Seq(Revisions)]
  /\ imports \in [Reports -> Calls \union {None}]
  /\ pc \in [Calls -> {"idle", "inserting", "conflict", "merged", "writing",
                       "done"}]
  /\ draft \in [Calls -> [topic : Topics, rev : Nat, payload : SUBSET Calls,
                          target : Calls \union Reports \union {None},
                          validity : {"current", "superseded"},
                          supersedes : Calls \union {None}]]
  /\ answer \in [Calls -> [outcome : {"none", "written", "exists", "imported",
                                      "refused"},
                           record : Calls \union {None}]]

(* What memory export copies at any moment, restore accepts: the history   *)
(* of each record is complete and ends with what the record says, and a    *)
(* receipt names a verification (validateRecordArchive).                   *)
ExportIsRestorable ==
  /\ \A r \in Live :
       /\ Len(history[r]) = records[r].rev
       /\ history[r][records[r].rev] = Revision(records[r])
  /\ \A r \in Calls \ Live : history[r] = <<>>
  /\ \A i \in Reports :
       imports[i] # None =>
         imports[i] \in Live /\ records[imports[i]].kind = "verification"

(* README.md:268 "stale revisions are rejected rather than overwriting     *)
(* newer content": an edit that was answered as written is in its record,  *)
(* whatever edits, retirements and replacements raced it or came after.    *)
WrittenEditsSurvive ==
  \A c \in Calls :
    answer[c].outcome = "written" =>
      \/ c \in records[answer[c].record].payload
      \/ draft[c].validity = "superseded"

(* CHANGELOG.md:349 "atomic prevention of duplicate current topics".       *)
OneCurrentPerTopic ==
  \A r, s \in CurrentMemos(records) :
    records[r].topic = records[s].topic /\ records[r].topic # NoTopic => r = s

(* README.md:151 "preserves the old content": whoever replaced a memo, its *)
(* history has the revision that was retired, word for word, right after   *)
(* the current one it retired; and no memo is replaced twice.              *)
ReplacedIsPreserved ==
  \A s \in Live :
    LET r == records[s].supersedes
    IN  r # None =>
          /\ \E n \in 2 .. Len(history[r]) :
               /\ history[r][n - 1].validity = "current"
               /\ history[r][n] =
                    [history[r][n - 1] EXCEPT !.validity = "superseded"]
          /\ \A t \in Live : records[t].supersedes = r => t = s

(* Importing a report again answers with the record of the first import.   *)
ImportedOnce ==
  \A c, d \in Calls :
    /\ answer[c].outcome = "imported" /\ answer[d].outcome = "imported"
    /\ draft[c].target = draft[d].target
    => answer[c].record = answer[d].record

(* A memo answered with a current one has the same key, and the same       *)
(* configuration if it names one, whatever conflict sent the call back to  *)
(* look again and whatever was replaced since (service.go:636-640).        *)
SameTopicAsNamed(old, new) ==
  old.key = new.key /\ new.configuration \in {None, old.configuration}

ExistingIsOfTopic ==
  \A c \in Calls :
    answer[c].outcome = "exists" =>
      SameTopicAsNamed(records[answer[c].record].topic, draft[c].topic)

(* README.md:270 "`scope`, `configuration`, and `topic_key` form an        *)
(* immutable identity": the memo a call is told to update in place of      *)
(* writing (service.go:654 "current topic exists") has the identity the    *)
(* call gave.  It need not, if the call gave no configuration (Found).     *)
ExistingHasThatTopic ==
  \A c \in Calls :
    answer[c].outcome = "exists" =>
      records[answer[c].record].topic = draft[c].topic

(* Nothing that was acknowledged disappears, edited or replaced.           *)
NothingIsLost == WrittenEditsSurvive /\ ReplacedIsPreserved

(* One current memo per topic, one record per report, and an answer that   *)
(* names one of that topic.                                                *)
OneOfEach == OneCurrentPerTopic /\ ImportedOnce /\ ExistingIsOfTopic
=============================================================================
