---------------------------- MODULE BackupProofs ----------------------------
(***************************************************************************)
(* Theorems about MemoryBackup, for any sets of runs, exports, restores    *)
(* and archive names: an archive that can be opened has all that its       *)
(* records cite, restored records have their files, and restores that fail *)
(* without a crash leave nothing.                                          *)
(*                                                                         *)
(* Export: what a record cites was written before the record and is read   *)
(* after it (SourceIsWhole, ReadIsWhole).  Restore: a directory belongs to *)
(* the one restore that promoted it (PromotedIsOwned), which has promoted  *)
(* all it needs when it commits (RestorePlace).                            *)
(***************************************************************************)
EXTENDS MemoryBackup, TLAPS

(* A run's files are written before the records that cite them.            *)
SourceIsWhole ==
  \A r \in Runs :
    /\ \/ at[r] \in {"created", "started", "registered", "captured", "recorded", "updated"}
       \/ rec[r] \in {"running", "completed", "interrupted"}
       => <<"runs", r>> \in files
    /\ at[r] \in {"captured", "recorded"} \/ art[r] => <<"artifacts", r>> \in files

(* What an export has read of what its records cite, by where it is.       *)
ReadIsWhole ==
  \A e \in Exports :
    /\ ex[e].pc \in {"runs", "artifacts"} => Cited(ex[e]) \subseteq files
    /\ ex[e].pc = "artifacts" => In("runs", Cited(ex[e])) \subseteq ex[e].files
    /\ ex[e].pc \in {"create", "write"} => Cited(ex[e]) \subseteq ex[e].files
    /\ ex[e].pc = "write" => ex[e].name \in Names

(* What the archive of a restore has for a directory was promoted.         *)
Covered(c, d) == In(d, c.from.files) # {} => d \in c.promoted

(* What a restore has done at each of its places.                          *)
InPlace(c) ==
  /\ c.pc \in Restoring \union {"done"} => c.from \in Contents
  /\ c.pc \in {"idle", "failed", "stage"} => c.promoted = {}
  /\ c.pc \in {"idle", "stage"} => c.here = "runs"
  /\ c.pc \in {"check", "remove", "rename"} =>
       /\ c.here = "runs" => c.promoted = {}
       /\ c.here = "artifacts" => c.promoted \subseteq {"runs"} /\ Covered(c, "runs")
  /\ c.pc \in {"remove", "rename"} => In(c.here, c.from.files) # {}
  /\ c.pc \in {"commit", "done"} => \A d \in Directories : Covered(c, d)

RestorePlace == \A x \in Restores : InPlace(re[x])

(* A promoted directory holds what one archive brought, until the restore  *)
(* that promoted it takes it back.                                         *)
PromotedIsOwned ==
  /\ \A x \in Restores : \A d \in re[x].promoted :
       dir[d] = In(d, re[x].from.files) /\ dir[d] \notin {None, {}}
  /\ \A x, y \in Restores : x # y => re[x].promoted \intersect re[y].promoted = {}

(* Whose records and files are there.                                      *)
RecordsAreOfOne ==
  /\ \A x \in Restores : re[x].pc = "done" => records = re[x].from
  /\ records \notin {None, Own} =>
       \E x \in Restores : re[x].pc = "done" /\ re[x].from = records
  /\ crashes = {} =>
       \A d \in Directories :
         dir[d] \in {None, {}} \/ \E x \in Restores : d \in re[x].promoted

BackupInv ==
  /\ TypeOK
  /\ SourceIsWhole
  /\ ReadIsWhole
  /\ ArchiveIsWhole
  /\ RestorePlace
  /\ PromotedIsOwned
  /\ RecordsAreOfOne

-----------------------------------------------------------------------------
(* An export that takes a step holds the Runner's mutex after it as long   *)
(* as it is under way, and no other export is.                             *)
LEMMA BecomeTypes ==
  ASSUME TypeOK, NEW e \in Exports, NEW c \in ExportCalls, Become(e, c),
         mu \in {e, None}, mu' = IF c.pc \in Exporting THEN e ELSE None
  PROVE  /\ ex' \in [Exports -> ExportCalls]
         /\ mu' \in Exports \union {None}
         /\ \A f \in Exports : mu' = f <=> ex'[f].pc \in Exporting
<1>1. ex' = [ex EXCEPT ![e] = c] /\ ex \in [Exports -> ExportCalls]
  BY DEF Become, TypeOK
<1>2. ex' \in [Exports -> ExportCalls] /\ ex'[e] = c
  BY <1>1
<1>3. mu' \in Exports \union {None}
  BY DEF TypeOK
<1>4. ASSUME NEW f \in Exports
      PROVE  mu' = f <=> ex'[f].pc \in Exporting
  <2>1. CASE f = e
    BY <1>2, <2>1, NamesAssumption
  <2>2. CASE f # e
    <3>1. ex'[f] = ex[f] /\ mu # f
      BY <1>1, <2>2, NamesAssumption
    <3>2. ex[f].pc \notin Exporting
      BY <3>1 DEF TypeOK
    <3> QED
      BY <2>2, <3>1, <3>2, NamesAssumption
  <2> QED
    BY <2>1, <2>2
<1> QED
  BY <1>2, <1>3, <1>4

(* The records that exports and restores turn into.                        *)
LEMMA ExportFields ==
  ASSUME NEW c \in ExportCalls, NEW l \in Exporting \union {"idle", "done"}
  PROVE  /\ [c EXCEPT !.pc = l] \in ExportCalls
         /\ [c EXCEPT !.pc = l].pc = l
         /\ \A p \in [Runs -> States], a \in [Runs -> BOOLEAN] :
              LET new == [c EXCEPT !.pc = l, !.rec = p, !.art = a]
              IN  new \in ExportCalls /\ new.pc = l
         /\ \A fs \in SUBSET File :
              LET new == [c EXCEPT !.pc = l, !.files = fs]
              IN  new \in ExportCalls /\ new.pc = l
         /\ \A n \in Names :
              LET new == [c EXCEPT !.pc = l, !.name = n]
              IN  new \in ExportCalls /\ new.pc = l
  BY DEF ExportCalls

LEMMA NoExportFields ==
  /\ [NoExport EXCEPT !.pc = "done"] \in ExportCalls
  /\ [NoExport EXCEPT !.pc = "done"].pc = "done"
  BY DEF ExportCalls, NoExport, States

LEMMA RestoreFields ==
  ASSUME NEW c \in RestoreCalls, NEW l \in Restoring \union {"idle", "done", "failed"}
  PROVE  /\ [c EXCEPT !.pc = l] \in RestoreCalls
         /\ \A ds \in SUBSET Directories : [c EXCEPT !.promoted = ds] \in RestoreCalls
         /\ \A a \in Contents : [c EXCEPT !.pc = l, !.from = a] \in RestoreCalls
         /\ \A h \in Directories : [c EXCEPT !.pc = l, !.here = h] \in RestoreCalls
         /\ \A h \in Directories, ds \in SUBSET Directories :
              [c EXCEPT !.pc = l, !.here = h, !.promoted = ds] \in RestoreCalls
         /\ [NoRestore EXCEPT !.pc = "failed"] \in RestoreCalls
  BY DEF RestoreCalls, NoRestore, Directories

LEMMA TurnTypes ==
  ASSUME TypeOK, NEW x \in Restores, NEW c \in RestoreCalls, Turn(x, c)
  PROVE  re' \in [Restores -> RestoreCalls]
  BY DEF TypeOK, Turn

(* An export's step keeps every variable within its type.                  *)
LEMMA ExportTypes ==
  ASSUME TypeOK, NEW e \in Exports, Export(e)
  PROVE  TypeOK'
<1> DEFINE OfExport == /\ ex' \in [Exports -> ExportCalls]
                       /\ mu' \in Exports \union {None}
                       /\ \A f \in Exports : mu' = f <=> ex'[f].pc \in Exporting
<1> USE DEF source, target
<1>1. ex[e] \in ExportCalls
  BY DEF TypeOK
<1>2. mu = e <=> ex[e].pc \in Exporting
  BY DEF TypeOK
<1>3. ex[e].files \subseteq File /\ ex[e].rec \in [Runs -> States] /\ ex[e].art \in [Runs -> BOOLEAN]
  BY <1>1 DEF ExportCalls
<1>4. \A complete \in BOOLEAN : Content(e, complete) \in Contents
  BY <1>3 DEF Content, Contents
<1>5. ASSUME NEW a \in Contents \union {None}, NEW n \in Names,
             archive' = [archive EXCEPT ![n] = a]
      PROVE  archive' \in [Names -> Contents \union {None}]
  BY <1>5 DEF TypeOK
<1>6. ASSUME OfExport, UNCHANGED <<source, target>>,
             archive' \in [Names -> Contents \union {None}]
      PROVE  TypeOK'
  BY <1>6 DEF TypeOK
<1>7. archive \in [Names -> Contents \union {None}]
  BY DEF TypeOK
<1> HIDE DEF OfExport
<1>8. CASE BeginSnapshot(e)
  <2> DEFINE new == [ex[e] EXCEPT !.pc = "records"]
  <2>1. new \in ExportCalls /\ new.pc = "records"
    BY <1>1, ExportFields DEF Exporting
  <2>2. mu = None /\ mu' = e /\ Become(e, new)
    BY <1>8 DEF BeginSnapshot, Step
  <2> HIDE DEF new
  <2>3. OfExport
    BY <2>1, <2>2, BecomeTypes DEF OfExport, Exporting
  <2> QED
    BY <1>6, <1>7, <1>8, <2>3 DEF BeginSnapshot
<1>9. CASE RefuseExport(e)
  <2> DEFINE new == [ex[e] EXCEPT !.pc = "done"]
  <2>1. new \in ExportCalls /\ new.pc = "done"
    BY <1>1, ExportFields DEF Exporting
  <2>2. mu = None /\ mu' = None /\ Become(e, new)
    BY <1>9 DEF RefuseExport, Step
  <2> HIDE DEF new
  <2>3. OfExport
    BY <2>1, <2>2, BecomeTypes DEF OfExport, Exporting
  <2> QED
    BY <1>6, <1>7, <1>9, <2>3 DEF RefuseExport
<1>10. CASE ExportRecords(e)
  <2> DEFINE new == [ex[e] EXCEPT !.pc = "runs", !.rec = rec, !.art = art]
  <2>1. new \in ExportCalls /\ new.pc = "runs"
    <3>1. rec \in [Runs -> States] /\ art \in [Runs -> BOOLEAN]
      BY DEF TypeOK
    <3>2. "runs" \in Exporting \union {"idle", "done"}
      BY DEF Exporting
    <3>3. \A p \in [Runs -> States], a \in [Runs -> BOOLEAN] :
            LET c == [ex[e] EXCEPT !.pc = "runs", !.rec = p, !.art = a]
            IN  c \in ExportCalls /\ c.pc = "runs"
      BY <1>1, <3>2, ExportFields
    <3> QED
      BY <3>1, <3>3
  <2>2. mu = e /\ mu' = mu /\ Become(e, new)
    BY <1>2, <1>10 DEF ExportRecords, Exporting
  <2> HIDE DEF new
  <2>3. OfExport
    BY <2>1, <2>2, BecomeTypes DEF OfExport, Exporting
  <2> QED
    BY <1>6, <1>7, <1>10, <2>3 DEF ExportRecords
<1>11. CASE CollectFiles(e)
  <2>1. PICK d \in Directories :
          /\ ex[e].pc = d
          /\ Become(e, [ex[e] EXCEPT !.pc = IF d = "runs" THEN "artifacts" ELSE "create",
                                     !.files = ex[e].files \union In(d, files)])
    BY <1>11 DEF CollectFiles
  <2> DEFINE label == IF d = "runs" THEN "artifacts" ELSE "create"
             read == ex[e].files \union In(d, files)
             new == [ex[e] EXCEPT !.pc = label, !.files = read]
  <2>2. label \in Exporting /\ read \in SUBSET File
    BY <1>3 DEF TypeOK, In, Exporting
  <2>3. Become(e, new)
    BY <2>1
  <2> HIDE DEF label, read
  <2>4. new \in ExportCalls /\ new.pc = label
    BY <1>1, <2>2, ExportFields
  <2>5. mu = e /\ mu' = mu
    BY <1>2, <1>11, <2>1 DEF CollectFiles, Exporting, Directories
  <2> HIDE DEF new
  <2>6. OfExport
    BY <2>2, <2>3, <2>4, <2>5, BecomeTypes DEF OfExport
  <2> QED
    BY <1>6, <1>7, <1>11, <2>6 DEF CollectFiles
<1>12. CASE CreateArchive(e)
  <2>1. PICK n \in Names :
          /\ archive' = [archive EXCEPT ![n] = Content(e, FALSE)]
          /\ Become(e, [ex[e] EXCEPT !.pc = "write", !.name = n])
    BY <1>12 DEF CreateArchive
  <2> DEFINE new == [ex[e] EXCEPT !.pc = "write", !.name = n]
  <2>2. new \in ExportCalls /\ new.pc = "write"
    BY <1>1, ExportFields DEF Exporting
  <2>3. mu = e /\ mu' = mu /\ Become(e, new)
    BY <1>2, <1>12, <2>1 DEF CreateArchive, Exporting
  <2> HIDE DEF new
  <2>4. OfExport
    BY <2>2, <2>3, BecomeTypes DEF OfExport, Exporting
  <2> QED
    BY <1>4, <1>5, <1>6, <1>12, <2>1, <2>4 DEF CreateArchive
<1>13. CASE FinishArchive(e) \/ ExportFails(e)
  <2> DEFINE new == [NoExport EXCEPT !.pc = "done"]
  <2>1. mu = e /\ mu' = None /\ Become(e, new) /\ UNCHANGED <<source, target>>
    BY <1>2, <1>13 DEF FinishArchive, ExportFails, Exporting
  <2>2. new \in ExportCalls /\ new.pc = "done"
    BY NoExportFields
  <2>3. archive' \in [Names -> Contents \union {None}]
    BY <1>4, <1>13 DEF FinishArchive, ExportFails, TypeOK
  <2> HIDE DEF new
  <2>4. OfExport
    BY <2>1, <2>2, BecomeTypes DEF OfExport, Exporting
  <2> QED
    BY <1>6, <2>1, <2>3, <2>4
<1> QED
  BY <1>8, <1>9, <1>10, <1>11, <1>12, <1>13 DEF Export

(* So does a restore's.                                                    *)
LEMMA RestoreTypes ==
  ASSUME TypeOK, RestorePlace, NEW x \in Restores, Restore(x)
  PROVE  TypeOK'
<1> DEFINE OfDir == /\ dir' \in [Directories -> {None} \union SUBSET File]
                    /\ \A d \in Directories : dir'[d] = None \/ dir'[d] \subseteq {d} \X Runs
<1> USE DEF source, export
<1>1. re[x] \in RestoreCalls
  BY DEF TypeOK
<1>2. /\ re[x].pc \in Restoring \union {"idle", "done", "failed"}
      /\ re[x].from \in Contents \union {None}
      /\ re[x].here \in Directories /\ re[x].promoted \subseteq Directories
  BY <1>1 DEF RestoreCalls
<1>3. ASSUME NEW d \in Directories, NEW v \in {None} \union SUBSET File,
             v = None \/ v \subseteq {d} \X Runs, dir' = [dir EXCEPT ![d] = v]
      PROVE  OfDir
  BY <1>3 DEF TypeOK
<1>4. OfDir \/ dir' # dir
  BY DEF TypeOK
<1> HIDE DEF OfDir
<1>5. ASSUME re' \in [Restores -> RestoreCalls], OfDir, UNCHANGED <<source, export>>,
             records' \in Contents \union {None, Own}, crashes' \subseteq Restores
      PROVE  TypeOK'
  BY <1>5 DEF TypeOK, OfDir
<1>6. records \in Contents \union {None, Own} /\ crashes \subseteq Restores
  BY DEF TypeOK
<1>7. ASSUME NEW label \in Restoring \union {"done", "failed"}, Go(x, label)
      PROVE  re' \in [Restores -> RestoreCalls]
  BY <1>1, <1>7, RestoreFields, TurnTypes DEF Go
<1>8. ASSUME Turn(x, [NoRestore EXCEPT !.pc = "failed"])
      PROVE  re' \in [Restores -> RestoreCalls]
  BY <1>1, <1>8, RestoreFields, TurnTypes
<1>9. Behind(re[x].here) \in Restoring
  BY DEF Behind, Restoring
<1>10. CASE OpenArchive(x)
  <2>1. PICK n \in Names :
          /\ archive[n] # None
          /\ \/ Turn(x, [re[x] EXCEPT !.pc = "stage", !.from = archive[n]])
             \/ Go(x, "failed")
    BY <1>10 DEF OpenArchive
  <2>2. archive[n] \in Contents
    BY <2>1 DEF TypeOK
  <2>3. [re[x] EXCEPT !.pc = "stage", !.from = archive[n]] \in RestoreCalls
    BY <1>1, <2>2, RestoreFields DEF Restoring
  <2>4. re' \in [Restores -> RestoreCalls]
    BY <1>7, <2>1, <2>3, TurnTypes
  <2> QED
    BY <1>4, <1>5, <1>6, <1>10, <2>4 DEF OpenArchive
<1>11. CASE Stage(x) \/ CheckDirectory(x) \/ RestoreFails(x)
  <2>1. re' \in [Restores -> RestoreCalls]
    BY <1>7, <1>11 DEF Stage, CheckDirectory, RestoreFails, Restoring
  <2> QED
    BY <1>4, <1>5, <1>6, <1>11, <2>1 DEF Stage, CheckDirectory, RestoreFails
<1>12. CASE SkipDirectory(x)
  <2>1. [re[x] EXCEPT !.pc = Behind(re[x].here), !.here = "artifacts"] \in RestoreCalls
    BY <1>1, <1>9, RestoreFields DEF Directories
  <2>2. re' \in [Restores -> RestoreCalls]
    BY <1>12, <2>1, TurnTypes DEF SkipDirectory
  <2> QED
    BY <1>4, <1>5, <1>6, <1>12, <2>2 DEF SkipDirectory
<1>13. CASE RemoveEmpty(x)
  <2>1. re' \in [Restores -> RestoreCalls]
    BY <1>7, <1>13 DEF RemoveEmpty, Restoring
  <2> DEFINE d == re[x].here
             v == IF dir[d] = {} THEN None ELSE dir[d]
  <2>2. v \in {None} \union SUBSET File /\ (v = None \/ v \subseteq {d} \X Runs)
    BY <1>2 DEF TypeOK
  <2>3. dir' = [dir EXCEPT ![d] = v]
    BY <1>13 DEF RemoveEmpty
  <2> HIDE DEF v
  <2>4. OfDir
    BY <1>2, <1>3, <2>2, <2>3
  <2> QED
    BY <1>5, <1>6, <1>13, <2>1, <2>4 DEF RemoveEmpty
<1>14. CASE Promote(x)
  <2> DEFINE d == re[x].here
             new == [re[x] EXCEPT !.pc = Behind(d), !.here = "artifacts",
                                  !.promoted = re[x].promoted \union {d}]
  <2>1. new \in RestoreCalls
    BY <1>1, <1>2, <1>9, RestoreFields DEF Directories
  <2>2. re' \in [Restores -> RestoreCalls]
    BY <1>14, <2>1, TurnTypes DEF Promote
  <2>3. re[x].from \in Contents
    BY <1>14 DEF Promote, RestorePlace, InPlace, Restoring
  <2>4. Staged(x) \in SUBSET File /\ Staged(x) \subseteq {d} \X Runs
    BY <2>3 DEF Staged, In, Contents, File
  <2>5. OfDir
    BY <1>2, <1>3, <1>14, <2>4 DEF Promote
  <2> QED
    BY <1>5, <1>6, <1>14, <2>2, <2>5 DEF Promote
<1>15. CASE RestoreRecords(x)
  <2>1. re' \in [Restores -> RestoreCalls]
    BY <1>7, <1>15 DEF RestoreRecords
  <2> QED
    BY <1>2, <1>4, <1>5, <1>6, <1>15, <2>1 DEF RestoreRecords
<1>16. CASE Undo(x)
  <2>1. ASSUME NEW d \in re[x].promoted, dir' = [dir EXCEPT ![d] = None],
               Turn(x, [re[x] EXCEPT !.promoted = re[x].promoted \ {d}])
        PROVE  TypeOK'
    <3>1. [re[x] EXCEPT !.promoted = re[x].promoted \ {d}] \in RestoreCalls
      BY <1>1, <1>2, RestoreFields
    <3>2. re' \in [Restores -> RestoreCalls]
      BY <2>1, <3>1, TurnTypes
    <3>3. OfDir
      BY <1>2, <1>3, <2>1
    <3> QED
      BY <1>5, <1>6, <1>16, <3>2, <3>3 DEF Undo
  <2>2. ASSUME Turn(x, [NoRestore EXCEPT !.pc = "failed"]), UNCHANGED dir
        PROVE  TypeOK'
    BY <1>4, <1>5, <1>6, <1>8, <1>16, <2>2 DEF Undo
  <2> QED
    BY <1>16, <2>1, <2>2 DEF Undo
<1>17. CASE RestoreCrash(x)
  <2>1. crashes' \subseteq Restores
    BY <1>6, <1>17 DEF RestoreCrash
  <2> QED
    BY <1>4, <1>5, <1>6, <1>8, <1>17, <2>1 DEF RestoreCrash
<1> QED
  BY <1>10, <1>11, <1>12, <1>13, <1>14, <1>15, <1>16, <1>17 DEF Restore

(* Every step keeps every variable within its type.                        *)
LEMMA NextTypes ==
  ASSUME TypeOK, RestorePlace, [Next]_vars
  PROVE  TypeOK'
<1>1. ASSUME NEW r \in Runs, Run(r)
      PROVE  TypeOK'
  <2> USE DEF TypeOK, Reach, export, target
  <2>1. CASE Prepare(r)
    BY <2>1 DEF Prepare, States
  <2>2. CASE CreateStreams(r)
    BY <2>2 DEF CreateStreams, File, Directories
  <2>3. CASE RecordRunning(r)
    BY <2>3 DEF RecordRunning, States
  <2>4. CASE Register(r)
    BY <2>4 DEF Register
  <2>5. CASE Capture(r)
    BY <2>5 DEF Capture, File, Directories
  <2>6. CASE RecordArtifact(r)
    BY <2>6 DEF RecordArtifact
  <2>7. CASE RecordOutcome(r)
    BY <2>7 DEF RecordOutcome, States
  <2>8. CASE Unregister(r)
    BY <2>8 DEF Unregister
  <2> QED
    BY <1>1, <2>1, <2>2, <2>3, <2>4, <2>5, <2>6, <2>7, <2>8 DEF Run
<1>2. ASSUME NEW e \in Exports, Export(e)
      PROVE  TypeOK'
  BY <1>2, ExportTypes
<1>3. ASSUME NEW x \in Restores, Restore(x)
      PROVE  TypeOK'
  BY <1>3, RestoreTypes
<1>4. CASE ServerCrash
  <2>1. ex' \in [Exports -> ExportCalls]
    BY <1>4, NoExportFields DEF ServerCrash, TypeOK
  <2>2. \A f \in Exports : mu' = f <=> ex'[f].pc \in Exporting
    BY <1>4, NoExportFields, NamesAssumption DEF ServerCrash, TypeOK, Exporting
  <2>3. rec' \in [Runs -> States]
    BY <1>4 DEF ServerCrash, TypeOK, States
  <2> QED
    BY <1>4, <2>1, <2>2, <2>3 DEF ServerCrash, TypeOK, target
<1>5. CASE WriteOwn
  BY <1>5 DEF WriteOwn, TypeOK, source, export
<1>6. CASE UNCHANGED vars
  BY <1>6 DEF TypeOK, vars, source, export, target
<1> QED
  BY <1>1, <1>2, <1>3, <1>4, <1>5, <1>6 DEF Next

(* A run's files come first, whatever it does and however it ends.         *)
LEMMA NextSource ==
  ASSUME TypeOK, SourceIsWhole, [Next]_vars
  PROVE  SourceIsWhole'
<1> USE DEF TypeOK, SourceIsWhole, Reach, source, export, target
<1>1. ASSUME NEW r \in Runs, Run(r)
      PROVE  SourceIsWhole'
  <2>1. CASE Prepare(r)
    BY <2>1 DEF Prepare
  <2>2. CASE CreateStreams(r)
    BY <2>2 DEF CreateStreams
  <2>3. CASE RecordRunning(r)
    BY <2>3 DEF RecordRunning
  <2>4. CASE Register(r)
    BY <2>4 DEF Register
  <2>5. CASE Capture(r)
    BY <2>5 DEF Capture
  <2>6. CASE RecordArtifact(r)
    BY <2>6 DEF RecordArtifact
  <2>7. CASE RecordOutcome(r)
    BY <2>7 DEF RecordOutcome
  <2>8. CASE Unregister(r)
    BY <2>8 DEF Unregister
  <2> QED
    BY <1>1, <2>1, <2>2, <2>3, <2>4, <2>5, <2>6, <2>7, <2>8 DEF Run
<1>2. CASE ServerCrash
  BY <1>2 DEF ServerCrash
<1>3. CASE UNCHANGED source
  BY <1>3
<1> HIDE DEF TypeOK, SourceIsWhole
<1>4. ASSUME NEW e \in Exports, Export(e)
      PROVE  SourceIsWhole'
  BY <1>3, <1>4 DEF Export, BeginSnapshot, RefuseExport, ExportRecords, CollectFiles,
     CreateArchive, FinishArchive, ExportFails
<1>5. ASSUME NEW x \in Restores, Restore(x)
      PROVE  SourceIsWhole'
  BY <1>3, <1>5 DEF Restore, OpenArchive, Stage, SkipDirectory, CheckDirectory, RemoveEmpty,
     Promote, RestoreRecords, RestoreFails, Undo, RestoreCrash
<1> QED
  BY <1>1, <1>2, <1>3, <1>4, <1>5 DEF Next, WriteOwn, vars

(* Files are read after the records that cite them, and stay.              *)
LEMMA NextRead ==
  ASSUME TypeOK, SourceIsWhole, ReadIsWhole, [Next]_vars
  PROVE  ReadIsWhole'
<1> DEFINE Whole(c, fs) ==
             /\ c.pc \in {"runs", "artifacts"} => Cited(c) \subseteq fs
             /\ c.pc = "artifacts" => In("runs", Cited(c)) \subseteq c.files
             /\ c.pc \in {"create", "write"} => Cited(c) \subseteq c.files
             /\ c.pc = "write" => c.name \in Names
<1> USE DEF source, export, target
<1>1. \A e \in Exports : Whole(ex[e], files)
  BY DEF ReadIsWhole
<1>2. ASSUME files \subseteq files', UNCHANGED ex
      PROVE  ReadIsWhole'
  BY <1>1, <1>2 DEF ReadIsWhole, Cited
<1>3. ASSUME NEW e \in Exports, NEW c, Whole(c, files), Become(e, c), UNCHANGED files
      PROVE  ReadIsWhole'
  <2>1. \A f \in Exports : Whole(ex'[f], files)
    BY <1>1, <1>3 DEF Become, TypeOK
  <2> QED
    BY <1>3, <2>1 DEF ReadIsWhole, Cited
<1>4. Whole([NoExport EXCEPT !.pc = "done"], files)
  BY DEF NoExport
<1> HIDE DEF Whole
<1>5. ASSUME NEW r \in Runs, Run(r)
      PROVE  ReadIsWhole'
  BY <1>2, <1>5 DEF Run, Prepare, CreateStreams, RecordRunning, Register, Capture,
     RecordArtifact, RecordOutcome, Unregister
<1>6. ASSUME NEW e \in Exports, Export(e)
      PROVE  ReadIsWhole'
  <2> DEFINE c == ex[e]
  <2>1. c \in ExportCalls
    BY DEF TypeOK
  <2>2. CASE BeginSnapshot(e)
    <3>1. Whole([c EXCEPT !.pc = "records"], files)
      BY <2>1 DEF Whole, ExportCalls
    <3> QED
      BY <1>3, <2>2, <3>1 DEF BeginSnapshot, Step
  <2>3. CASE RefuseExport(e)
    <3>1. Whole([c EXCEPT !.pc = "done"], files)
      BY <2>1 DEF Whole, ExportCalls
    <3> QED
      BY <1>3, <2>3, <3>1 DEF RefuseExport, Step
  <2>4. CASE ExportRecords(e)
    <3> DEFINE new == [c EXCEPT !.pc = "runs", !.rec = rec, !.art = art]
    <3>1. new.pc = "runs" /\ new.rec = rec /\ new.art = art
      BY <2>1 DEF ExportCalls
    <3> HIDE DEF new
    <3>2. Cited(new) \subseteq files
      BY <3>1 DEF Cited, SourceIsWhole
    <3>3. Whole(new, files)
      BY <3>1, <3>2 DEF Whole
    <3> QED
      BY <1>3, <2>4, <3>3 DEF ExportRecords, new
  <2>5. CASE CollectFiles(e)
    <3>1. PICK d \in Directories :
            /\ c.pc = d
            /\ Become(e, [c EXCEPT !.pc = IF d = "runs" THEN "artifacts" ELSE "create",
                                   !.files = c.files \union In(d, files)])
      BY <2>5 DEF CollectFiles
    <3> DEFINE label == IF d = "runs" THEN "artifacts" ELSE "create"
               new == [c EXCEPT !.pc = label, !.files = c.files \union In(d, files)]
    <3>2. /\ new.pc = label /\ new.rec = c.rec /\ new.art = c.art
          /\ new.files = c.files \union In(d, files)
      BY <2>1 DEF ExportCalls
    <3>3. Cited(new) = Cited(c)
      BY <3>2 DEF Cited
    <3>4. Become(e, new)
      BY <3>1
    <3> HIDE DEF new
    <3>5. Cited(c) \subseteq files
      BY <1>1, <3>1 DEF Whole, Directories
    <3>6. ASSUME d = "runs" PROVE Whole(new, files)
      <4>1. new.pc = "artifacts"
        BY <3>2, <3>6
      <4>2. In("runs", Cited(new)) \subseteq new.files
        BY <3>2, <3>3, <3>5, <3>6 DEF In
      <4> QED
        BY <3>3, <3>5, <4>1, <4>2 DEF Whole
    <3>7. ASSUME d = "artifacts" PROVE Whole(new, files)
      <4>1. In("runs", Cited(c)) \subseteq c.files
        BY <1>1, <3>1, <3>7 DEF Whole
      <4>2. Cited(c) = In("runs", Cited(c)) \union In("artifacts", Cited(c))
        BY DEF Cited, In
      <4>3. Cited(new) \subseteq new.files
        BY <3>2, <3>3, <3>5, <3>7, <4>1, <4>2 DEF In
      <4>4. new.pc = "create"
        BY <3>2, <3>7
      <4> QED
        BY <4>3, <4>4 DEF Whole
    <3>8. Whole(new, files)
      BY <3>6, <3>7 DEF Directories
    <3> QED
      BY <1>3, <2>5, <3>4, <3>8 DEF CollectFiles
  <2>6. CASE CreateArchive(e)
    <3>1. PICK n \in Names : Become(e, [c EXCEPT !.pc = "write", !.name = n])
      BY <2>6 DEF CreateArchive
    <3> DEFINE new == [c EXCEPT !.pc = "write", !.name = n]
    <3>2. /\ new.pc = "write" /\ new.rec = c.rec /\ new.art = c.art
          /\ new.files = c.files /\ new.name = n
      BY <2>1 DEF ExportCalls
    <3>3. Cited(new) = Cited(c)
      BY <3>2 DEF Cited
    <3>4. Cited(c) \subseteq c.files
      BY <1>1, <2>6 DEF Whole, CreateArchive
    <3> HIDE DEF new
    <3>5. Whole(new, files)
      BY <3>2, <3>3, <3>4 DEF Whole
    <3> QED
      BY <1>3, <2>6, <3>1, <3>5 DEF CreateArchive, new
  <2>7. CASE FinishArchive(e) \/ ExportFails(e)
    BY <1>3, <1>4, <2>7 DEF FinishArchive, ExportFails
  <2> QED
    BY <1>6, <2>2, <2>3, <2>4, <2>5, <2>6, <2>7 DEF Export
<1>7. ASSUME NEW x \in Restores, Restore(x)
      PROVE  ReadIsWhole'
  BY <1>2, <1>7 DEF Restore, OpenArchive, Stage, SkipDirectory, CheckDirectory, RemoveEmpty,
     Promote, RestoreRecords, RestoreFails, Undo, RestoreCrash
<1>8. CASE ServerCrash
  <2>1. \A e \in Exports : Whole(ex'[e], files) /\ files' = files
    BY <1>1, <1>4, <1>8 DEF ServerCrash
  <2> QED
    BY <2>1 DEF ReadIsWhole, Whole, Cited
<1> QED
  BY <1>2, <1>5, <1>6, <1>7, <1>8 DEF Next, WriteOwn, vars

(* Archives are finished by exports that read everything.                  *)
LEMMA NextArchive ==
  ASSUME TypeOK, ReadIsWhole, ArchiveIsWhole, [Next]_vars
  PROVE  ArchiveIsWhole'
<1> DEFINE Good(a) == a # None /\ a.whole => Cited(a) \subseteq a.files
<1> USE DEF source, export, target
<1>1. \A n \in Names : Good(archive[n])
  BY DEF ArchiveIsWhole
<1>2. CASE UNCHANGED archive
  BY <1>2 DEF ArchiveIsWhole, Cited
<1>3. ASSUME NEW n, NEW a, Good(a), archive' = [archive EXCEPT ![n] = a]
      PROVE  ArchiveIsWhole'
  <2>1. \A m \in Names : Good(archive'[m])
    BY <1>1, <1>3 DEF TypeOK
  <2> QED
    BY <2>1 DEF ArchiveIsWhole, Cited
<1>4. ASSUME NEW e \in Exports, Export(e)
      PROVE  ArchiveIsWhole'
  <2>1. CASE CreateArchive(e)
    <3>1. Good(Content(e, FALSE))
      BY DEF Content
    <3> HIDE DEF Good
    <3> QED
      BY <1>3, <2>1, <3>1 DEF CreateArchive
  <2>2. CASE FinishArchive(e)
    <3>1. Cited(Content(e, TRUE)) = Cited(ex[e])
      BY DEF Content, Cited
    <3>2. Good(Content(e, TRUE))
      BY <2>2, <3>1 DEF FinishArchive, ReadIsWhole, Content
    <3> HIDE DEF Good
    <3> QED
      BY <1>3, <2>2, <3>2 DEF FinishArchive
  <2>3. CASE ExportFails(e)
    <3>1. Good(None)
      OBVIOUS
    <3> HIDE DEF Good
    <3> QED
      BY <1>2, <1>3, <2>3, <3>1 DEF ExportFails
  <2>4. CASE UNCHANGED archive
    BY <1>2, <2>4
  <2> QED
    BY <1>4, <2>1, <2>2, <2>3, <2>4 DEF Export, BeginSnapshot, RefuseExport, ExportRecords,
       CollectFiles
<1>5. ASSUME NEW r \in Runs, Run(r)
      PROVE  ArchiveIsWhole'
  BY <1>2, <1>5 DEF Run, Prepare, CreateStreams, RecordRunning, Register, Capture,
     RecordArtifact, RecordOutcome, Unregister
<1>6. ASSUME NEW x \in Restores, Restore(x)
      PROVE  ArchiveIsWhole'
  BY <1>2, <1>6 DEF Restore, OpenArchive, Stage, SkipDirectory, CheckDirectory, RemoveEmpty,
     Promote, RestoreRecords, RestoreFails, Undo, RestoreCrash
<1> QED
  BY <1>2, <1>4, <1>5, <1>6 DEF Next, ServerCrash, WriteOwn, vars

(* A restore's place is its own.                                           *)
LEMMA TurnPlace ==
  ASSUME TypeOK, RestorePlace, NEW x \in Restores, NEW c, InPlace(c), Turn(x, c)
  PROVE  RestorePlace'
<1>1. \A y \in Restores : InPlace(re'[y])
  BY DEF TypeOK, RestorePlace, Turn
<1> QED
  BY <1>1 DEF RestorePlace, InPlace, Covered

(* A restore's fields, whatever place it goes to.                          *)
LEMMA GoFields ==
  ASSUME TypeOK, NEW x \in Restores, NEW label, Go(x, label)
  PROVE  /\ re'[x].pc = label /\ re'[x].from = re[x].from
         /\ re'[x].here = re[x].here /\ re'[x].promoted = re[x].promoted
         /\ \A y \in Restores \ {x} : re'[y] = re[y]
<1>1. re \in [Restores -> RestoreCalls] /\ re' = [re EXCEPT ![x] = [re[x] EXCEPT !.pc = label]]
  BY DEF TypeOK, Go, Turn
<1> QED
  BY <1>1 DEF RestoreCalls

(* A restore goes through the directories in order.                        *)
LEMMA NextPlace ==
  ASSUME TypeOK, RestorePlace, [Next]_vars
  PROVE  RestorePlace'
<1> USE DEF source, export, target
<1>1. CASE UNCHANGED re
  BY <1>1 DEF RestorePlace, InPlace, Covered
<1>2. ASSUME NEW x \in Restores, Restore(x)
      PROVE  RestorePlace'
  <2> DEFINE c == re[x]
  <2>1. c \in RestoreCalls /\ InPlace(c)
    BY DEF TypeOK, RestorePlace
  <2>2. c.here \in Directories /\ c.promoted \subseteq Directories
    BY <2>1 DEF RestoreCalls
  <2>3. InPlace([NoRestore EXCEPT !.pc = "failed"])
    BY DEF InPlace, NoRestore, Restoring
  <2>4. ASSUME NEW label \in Restoring \union {"done", "failed"}, Go(x, label),
               InPlace([c EXCEPT !.pc = label])
        PROVE  RestorePlace'
    BY <2>4, TurnPlace DEF Go
  <2>5. \A label \in STRING : LET new == [c EXCEPT !.pc = label]
                              IN  /\ new.pc = label /\ new.from = c.from
                                  /\ new.here = c.here /\ new.promoted = c.promoted
    BY <2>1 DEF RestoreCalls
  <2>6. CASE OpenArchive(x)
    <3>1. PICK n \in Names :
            /\ archive[n] # None
            /\ \/ Turn(x, [c EXCEPT !.pc = "stage", !.from = archive[n]])
               \/ Go(x, "failed")
      BY <2>6 DEF OpenArchive
    <3>2. archive[n] \in Contents /\ c.pc = "idle"
      BY <2>6, <3>1 DEF TypeOK, OpenArchive
    <3> DEFINE new == [c EXCEPT !.pc = "stage", !.from = archive[n]]
    <3>3. /\ new.pc = "stage" /\ new.from = archive[n]
          /\ new.here = c.here /\ new.promoted = c.promoted
      BY <2>1 DEF RestoreCalls
    <3> HIDE DEF new
    <3>4. InPlace(new)
      BY <2>1, <3>2, <3>3 DEF InPlace
    <3>5. InPlace([c EXCEPT !.pc = "failed"])
      BY <2>1, <2>5, <3>2 DEF InPlace, Restoring
    <3> QED
      BY <2>4, <3>1, <3>4, <3>5, TurnPlace DEF new
  <2>7. CASE Stage(x)
    <3>1. InPlace([c EXCEPT !.pc = "check"])
      BY <2>1, <2>5, <2>7 DEF Stage, InPlace, Restoring
    <3> QED
      BY <2>4, <2>7, <3>1 DEF Stage, Restoring
  <2>8. CASE SkipDirectory(x)
    <3> DEFINE new == [c EXCEPT !.pc = Behind(c.here), !.here = "artifacts"]
    <3>1. /\ new.pc = Behind(c.here) /\ new.from = c.from
          /\ new.here = "artifacts" /\ new.promoted = c.promoted
      BY <2>1 DEF RestoreCalls
    <3>2. c.pc = "check" /\ In(c.here, c.from.files) = {} /\ Turn(x, new)
      BY <2>8 DEF SkipDirectory, Staged
    <3> HIDE DEF new
    <3>3. Covered(new, c.here)
      BY <3>1, <3>2 DEF Covered
    <3>4. ASSUME c.here = "runs" PROVE InPlace(new)
      <4>1. "artifacts" \notin c.promoted
        BY <2>1, <3>2, <3>4 DEF InPlace
      <4> QED
        BY <2>1, <3>1, <3>2, <3>3, <3>4, <4>1 DEF InPlace, Behind, Restoring
    <3>5. ASSUME c.here = "artifacts" PROVE InPlace(new)
      BY <2>1, <3>1, <3>2, <3>3, <3>5 DEF InPlace, Covered, Behind, Restoring, Directories
    <3> QED
      BY <2>2, <3>2, <3>4, <3>5, TurnPlace DEF Directories
  <2>9. CASE CheckDirectory(x)
    <3>1. InPlace([c EXCEPT !.pc = "remove"])
      BY <2>1, <2>5, <2>9 DEF CheckDirectory, Staged, InPlace, Covered, Restoring
    <3> QED
      BY <2>4, <2>9, <3>1 DEF CheckDirectory, Restoring
  <2>10. CASE RemoveEmpty(x)
    <3>1. InPlace([c EXCEPT !.pc = "rename"])
      BY <2>1, <2>5, <2>10 DEF RemoveEmpty, InPlace, Covered, Restoring
    <3> QED
      BY <2>4, <2>10, <3>1 DEF RemoveEmpty, Restoring
  <2>11. CASE Promote(x)
    <3> DEFINE new == [c EXCEPT !.pc = Behind(c.here), !.here = "artifacts",
                                !.promoted = c.promoted \union {c.here}]
    <3>1. /\ new.pc = Behind(c.here) /\ new.from = c.from
          /\ new.here = "artifacts" /\ new.promoted = c.promoted \union {c.here}
      BY <2>1 DEF RestoreCalls
    <3>2. c.pc = "rename" /\ Turn(x, new)
      BY <2>11 DEF Promote
    <3> HIDE DEF new
    <3>3. Covered(new, c.here)
      BY <3>1 DEF Covered
    <3>4. ASSUME c.here = "runs" PROVE InPlace(new)
      BY <2>1, <3>1, <3>2, <3>3, <3>4 DEF InPlace, Behind, Restoring
    <3>5. ASSUME c.here = "artifacts" PROVE InPlace(new)
      BY <2>1, <3>1, <3>2, <3>3, <3>5 DEF InPlace, Covered, Behind, Restoring, Directories
    <3> QED
      BY <2>2, <3>2, <3>4, <3>5, TurnPlace DEF Directories
  <2>12. CASE RestoreRecords(x)
    <3>1. InPlace([c EXCEPT !.pc = "done"])
      BY <2>1, <2>5, <2>12 DEF RestoreRecords, InPlace, Covered, Restoring
    <3> QED
      BY <2>4, <2>12, <3>1 DEF RestoreRecords
  <2>13. CASE RestoreFails(x)
    <3>1. InPlace([c EXCEPT !.pc = "undo"])
      BY <2>1, <2>5, <2>13 DEF RestoreFails, InPlace, Restoring
    <3> QED
      BY <2>4, <2>13, <3>1 DEF RestoreFails, Restoring
  <2>14. CASE Undo(x)
    <3>1. ASSUME NEW d \in c.promoted
          PROVE  InPlace([c EXCEPT !.promoted = c.promoted \ {d}])
      <4> DEFINE new == [c EXCEPT !.promoted = c.promoted \ {d}]
      <4>1. new.pc = c.pc /\ new.from = c.from /\ c.pc = "undo"
        BY <2>1, <2>14 DEF RestoreCalls, Undo
      <4> HIDE DEF new
      <4>2. InPlace(new)
        BY <2>1, <4>1 DEF InPlace, Restoring
      <4> QED
        BY <4>2 DEF new
    <3> QED
      BY <2>3, <2>14, <3>1, TurnPlace DEF Undo
  <2>15. CASE RestoreCrash(x)
    BY <2>3, <2>15, TurnPlace DEF RestoreCrash
  <2> QED
    BY <1>2, <2>6, <2>7, <2>8, <2>9, <2>10, <2>11, <2>12, <2>13, <2>14, <2>15 DEF Restore
<1>3. ASSUME NEW r \in Runs, Run(r)
      PROVE  RestorePlace'
  BY <1>1, <1>3 DEF Run, Prepare, CreateStreams, RecordRunning, Register, Capture,
     RecordArtifact, RecordOutcome, Unregister
<1>4. ASSUME NEW e \in Exports, Export(e)
      PROVE  RestorePlace'
  BY <1>1, <1>4 DEF Export, BeginSnapshot, RefuseExport, ExportRecords, CollectFiles,
     CreateArchive, FinishArchive, ExportFails
<1> QED
  BY <1>1, <1>2, <1>3, <1>4 DEF Next, ServerCrash, WriteOwn, vars

(* A restore that fails and dies keeps nothing in its name.                *)
LEMMA ResetFields ==
  ASSUME TypeOK, NEW x \in Restores, Turn(x, [NoRestore EXCEPT !.pc = "failed"])
  PROVE  /\ re'[x].pc = "failed" /\ re'[x].promoted = {}
         /\ \A y \in Restores \ {x} : re'[y] = re[y]
  BY DEF TypeOK, Turn, NoRestore

(* The steps of a restore that do not touch the state directory.           *)
Inner(x) ==
  \/ OpenArchive(x) \/ Stage(x) \/ SkipDirectory(x) \/ CheckDirectory(x)
  \/ RestoreRecords(x) \/ RestoreFails(x) \/ RestoreCrash(x)

(* Such a step gives up what was promoted only with the restore, and       *)
(* keeps the archive it was promoted from.                                 *)
LEMMA InnerFields ==
  ASSUME TypeOK, RestorePlace, NEW x \in Restores, Inner(x)
  PROVE  /\ dir' = dir
         /\ \A y \in Restores \ {x} : re'[y] = re[y]
         /\ re'[x].promoted \in {{}, re[x].promoted}
         /\ re'[x].promoted # {} => re'[x].from = re[x].from
         /\ re[x].pc # "done" /\ (re'[x].pc = "done" => RestoreRecords(x))
         /\ re'[x].promoted # re[x].promoted => RestoreCrash(x)
<1>1. re \in [Restores -> RestoreCalls] /\ re[x].promoted \subseteq Directories
  BY DEF TypeOK, RestoreCalls
<1>2. ASSUME NEW label, Go(x, label)
      PROVE  /\ re'[x].pc = label /\ re'[x].from = re[x].from
             /\ re'[x].promoted = re[x].promoted
             /\ \A y \in Restores \ {x} : re'[y] = re[y]
  BY <1>2, GoFields
<1>3. CASE OpenArchive(x)
  <2>1. PICK n \in Names : \/ Turn(x, [re[x] EXCEPT !.pc = "stage", !.from = archive[n]])
                           \/ Go(x, "failed")
    BY <1>3 DEF OpenArchive
  <2>2. re[x].pc = "idle" /\ re[x].promoted = {} /\ dir' = dir
    BY <1>3 DEF OpenArchive, RestorePlace, InPlace
  <2>3. CASE Go(x, "failed")
    BY <1>2, <2>2, <2>3
  <2>4. CASE Turn(x, [re[x] EXCEPT !.pc = "stage", !.from = archive[n]])
    <3>1. /\ re'[x].pc = "stage" /\ re'[x].promoted = re[x].promoted
          /\ \A y \in Restores \ {x} : re'[y] = re[y]
      BY <1>1, <2>4 DEF Turn, RestoreCalls
    <3> QED
      BY <2>2, <3>1
  <2> QED
    BY <2>1, <2>3, <2>4
<1>4. CASE Stage(x)
  BY <1>2, <1>4 DEF Stage
<1>5. CASE SkipDirectory(x)
  <2>1. /\ re'[x].pc = Behind(re[x].here) /\ re'[x].from = re[x].from
        /\ re'[x].promoted = re[x].promoted
        /\ \A y \in Restores \ {x} : re'[y] = re[y]
    BY <1>1, <1>5 DEF SkipDirectory, Turn, RestoreCalls
  <2> QED
    BY <1>5, <2>1 DEF SkipDirectory, Behind
<1>6. CASE CheckDirectory(x)
  BY <1>2, <1>6 DEF CheckDirectory
<1>7. CASE RestoreRecords(x)
  BY <1>2, <1>7 DEF RestoreRecords
<1>8. CASE RestoreFails(x)
  BY <1>2, <1>8 DEF RestoreFails
<1>9. CASE RestoreCrash(x)
  BY <1>9, ResetFields DEF RestoreCrash, Restoring
<1> QED
  BY <1>3, <1>4, <1>5, <1>6, <1>7, <1>8, <1>9 DEF Inner

(* What the others do not touch.                                           *)
LEMMA RestoreSteps ==
  ASSUME [Next]_vars
  PROVE  \/ UNCHANGED <<re, dir, crashes>> /\ (records' = records \/ WriteOwn)
         \/ \E x \in Restores : Inner(x) \/ RemoveEmpty(x) \/ Promote(x) \/ Undo(x)
<1> USE DEF source, export, target
<1>1. ASSUME NEW r \in Runs, Run(r)
      PROVE  UNCHANGED <<re, dir, crashes, records>>
  BY <1>1 DEF Run, Prepare, CreateStreams, RecordRunning, Register, Capture,
     RecordArtifact, RecordOutcome, Unregister
<1>2. ASSUME NEW e \in Exports, Export(e)
      PROVE  UNCHANGED <<re, dir, crashes, records>>
  BY <1>2 DEF Export, BeginSnapshot, RefuseExport, ExportRecords, CollectFiles,
     CreateArchive, FinishArchive, ExportFails
<1> QED
  BY <1>1, <1>2 DEF Next, Restore, Inner, ServerCrash, WriteOwn, vars

(* Nobody touches what another restore promoted.                           *)
LEMMA NextOwned ==
  ASSUME TypeOK, RestorePlace, PromotedIsOwned, [Next]_vars
  PROVE  PromotedIsOwned'
<1>1. re \in [Restores -> RestoreCalls]
  BY DEF TypeOK
<1>2. ASSUME \A y \in Restores :
               /\ re'[y].promoted \subseteq re[y].promoted
               /\ \A d \in re'[y].promoted : re'[y].from = re[y].from /\ dir'[d] = dir[d]
      PROVE  PromotedIsOwned'
  BY <1>2 DEF PromotedIsOwned
<1>3. CASE UNCHANGED <<re, dir>>
  BY <1>2, <1>3
<1>4. ASSUME NEW x \in Restores, Inner(x)
      PROVE  PromotedIsOwned'
  <2>1. \A y \in Restores :
          /\ re'[y].promoted \subseteq re[y].promoted
          /\ \A d \in re'[y].promoted : re'[y].from = re[y].from /\ dir'[d] = dir[d]
    BY <1>4, InnerFields
  <2> QED
    BY <1>2, <2>1
<1>5. ASSUME NEW x \in Restores, RemoveEmpty(x)
      PROVE  PromotedIsOwned'
  <2>1. \A y \in Restores : re'[y].promoted = re[y].promoted /\ re'[y].from = re[y].from
    BY <1>5, GoFields DEF RemoveEmpty
  <2>2. \A d \in Directories : dir'[d] = dir[d] \/ dir[d] = {}
    BY <1>5 DEF RemoveEmpty, TypeOK
  <2>3. \A y \in Restores : \A d \in re[y].promoted : d \in Directories /\ dir[d] # {}
    BY <1>1 DEF PromotedIsOwned, RestoreCalls
  <2> QED
    BY <1>2, <2>1, <2>2, <2>3
<1>6. ASSUME NEW x \in Restores, Promote(x)
      PROVE  PromotedIsOwned'
  <2> DEFINE d == re[x].here
  <2>1. d \in Directories /\ re[x].from \in Contents /\ Staged(x) # {}
    BY <1>1, <1>6 DEF Promote, RestorePlace, InPlace, RestoreCalls, Staged, Restoring
  <2>2. /\ re'[x].promoted = re[x].promoted \union {d} /\ re'[x].from = re[x].from
        /\ \A y \in Restores \ {x} : re'[y] = re[y]
    BY <1>1, <1>6 DEF Promote, Turn, RestoreCalls
  <2>3. /\ dir[d] = None /\ dir'[d] = In(d, re[x].from.files)
        /\ \A f \in Directories \ {d} : dir'[f] = dir[f]
    BY <1>6, <2>1 DEF Promote, Staged, TypeOK
  <2>4. Staged(x) # None
    <3>1. Staged(x) \in SUBSET File
      BY <2>1 DEF Staged, In, Contents
    <3> QED
      BY <3>1, ContentsAssumption
  <2>5. \A y \in Restores : d \notin re[y].promoted /\ re[y].promoted \subseteq Directories
    BY <1>1, <2>3 DEF PromotedIsOwned, RestoreCalls
  <2>6. \A y \in Restores : \A f \in re'[y].promoted :
          dir'[f] = In(f, re'[y].from.files) /\ dir'[f] \notin {None, {}}
    BY <2>1, <2>2, <2>3, <2>4, <2>5 DEF PromotedIsOwned, Staged
  <2>7. \A y, z \in Restores : y # z => re'[y].promoted \intersect re'[z].promoted = {}
    BY <2>2, <2>5 DEF PromotedIsOwned
  <2> QED
    BY <2>6, <2>7 DEF PromotedIsOwned
<1>7. ASSUME NEW x \in Restores, Undo(x)
      PROVE  PromotedIsOwned'
  <2>1. ASSUME NEW d \in re[x].promoted, dir' = [dir EXCEPT ![d] = None],
               Turn(x, [re[x] EXCEPT !.promoted = re[x].promoted \ {d}])
        PROVE  PromotedIsOwned'
    <3>1. /\ re'[x].promoted = re[x].promoted \ {d} /\ re'[x].from = re[x].from
          /\ \A y \in Restores \ {x} : re'[y] = re[y]
      BY <1>1, <2>1 DEF Turn, RestoreCalls
    <3>2. \A f \in Directories \ {d} : dir'[f] = dir[f]
      BY <2>1 DEF TypeOK
    <3>3. \A y \in Restores \ {x} : d \notin re[y].promoted
      BY <2>1 DEF PromotedIsOwned
    <3>4. \A y \in Restores : re[y].promoted \subseteq Directories
      BY <1>1 DEF RestoreCalls
    <3> QED
      BY <1>2, <3>1, <3>2, <3>3, <3>4
  <2>2. ASSUME Turn(x, [NoRestore EXCEPT !.pc = "failed"]), UNCHANGED dir
        PROVE  PromotedIsOwned'
    BY <1>2, <2>2, ResetFields
  <2> QED
    BY <1>7, <2>1, <2>2 DEF Undo
<1> QED
  BY <1>3, <1>4, <1>5, <1>6, <1>7, RestoreSteps

(* Records are committed once, by the restore whose files are there.       *)
LEMMA NextRecords ==
  ASSUME TypeOK, RestorePlace, RecordsAreOfOne, [Next]_vars
  PROVE  RecordsAreOfOne'
<1> DEFINE Settled(d) == dir[d] \in {None, {}} \/ \E y \in Restores : d \in re[y].promoted
           OfOne == /\ \A y \in Restores : re[y].pc = "done" => records = re[y].from
                    /\ records \notin {None, Own} =>
                         \E y \in Restores : re[y].pc = "done" /\ re[y].from = records
           Clean == crashes = {} => \A d \in Directories : Settled(d)
<1>1. re \in [Restores -> RestoreCalls] /\ OfOne /\ Clean
  BY DEF TypeOK, RecordsAreOfOne
<1>2. ASSUME OfOne', Clean'
      PROVE  RecordsAreOfOne'
  BY <1>2 DEF RecordsAreOfOne
<1>3. \A y \in Restores : re[y].pc = "done" => re[y].from \notin {None, Own}
  BY ContentsAssumption DEF RestorePlace, InPlace
<1>4. ASSUME UNCHANGED records, NEW x \in Restores, re[x].pc # "done", re'[x].pc # "done",
             \A y \in Restores \ {x} : re'[y] = re[y]
      PROVE  OfOne'
  BY <1>1, <1>4
<1>5. CASE UNCHANGED <<re, dir, crashes>> /\ (records' = records \/ WriteOwn)
  <2>1. Clean'
    BY <1>1, <1>5
  <2>2. CASE records' = records
    BY <1>1, <1>2, <1>5, <2>1, <2>2
  <2>3. CASE WriteOwn
    <3>1. \A y \in Restores : re[y].pc # "done"
      BY <1>1, <1>3, <2>3 DEF WriteOwn
    <3>2. OfOne'
      BY <1>5, <2>3, <3>1 DEF WriteOwn
    <3> QED
      BY <1>2, <2>1, <3>2
  <2> QED
    BY <1>5, <2>2, <2>3
<1>6. ASSUME NEW x \in Restores, Inner(x)
      PROVE  RecordsAreOfOne'
  <2>1. Clean'
    <3>1. CASE RestoreCrash(x)
      BY <3>1 DEF RestoreCrash
    <3>2. CASE ~ RestoreCrash(x)
      <4>1. crashes' = crashes
        BY <1>6, <3>2 DEF Inner, OpenArchive, Stage, SkipDirectory, CheckDirectory,
           RestoreRecords, RestoreFails
      <4>2. dir' = dir /\ \A y \in Restores : re'[y].promoted = re[y].promoted
        BY <1>6, <3>2, InnerFields
      <4> QED
        BY <1>1, <4>1, <4>2
    <3> QED
      BY <3>1, <3>2
  <2>2. CASE RestoreRecords(x)
    <3>1. \A y \in Restores : re[y].pc # "done"
      BY <1>1, <1>3, <2>2 DEF RestoreRecords
    <3>2. /\ re'[x].pc = "done" /\ records' = re'[x].from
          /\ \A y \in Restores \ {x} : re'[y] = re[y]
      BY <2>2, GoFields DEF RestoreRecords
    <3>3. OfOne'
      BY <3>1, <3>2
    <3> QED
      BY <1>2, <2>1, <3>3
  <2>3. CASE ~ RestoreRecords(x)
    <3>1. records' = records
      BY <1>6, <2>3 DEF Inner, OpenArchive, Stage, SkipDirectory, CheckDirectory,
         RestoreFails, RestoreCrash
    <3>2. OfOne'
      BY <1>4, <1>6, <2>3, <3>1, InnerFields
    <3> QED
      BY <1>2, <2>1, <3>2
  <2> QED
    BY <2>2, <2>3
<1>7. ASSUME NEW x \in Restores, RemoveEmpty(x)
      PROVE  RecordsAreOfOne'
  <2>1. /\ \A y \in Restores : re'[y].promoted = re[y].promoted
        /\ re[x].pc # "done" /\ re'[x].pc # "done"
        /\ \A y \in Restores \ {x} : re'[y] = re[y]
    BY <1>7, GoFields DEF RemoveEmpty
  <2>2. \A d \in Directories : dir'[d] \in {None, dir[d]}
    BY <1>7 DEF RemoveEmpty, TypeOK
  <2>3. Clean'
    BY <1>1, <1>7, <2>1, <2>2 DEF RemoveEmpty
  <2>4. OfOne'
    BY <1>4, <1>7, <2>1 DEF RemoveEmpty
  <2> QED
    BY <1>2, <2>3, <2>4
<1>8. ASSUME NEW x \in Restores, Promote(x)
      PROVE  RecordsAreOfOne'
  <2> DEFINE d == re[x].here
  <2>1. /\ re'[x].promoted = re[x].promoted \union {d}
        /\ re'[x].pc = Behind(d) /\ re[x].pc = "rename"
        /\ \A y \in Restores \ {x} : re'[y] = re[y]
    BY <1>1, <1>8 DEF Promote, Turn, RestoreCalls
  <2>2. \A f \in Directories \ {d} : dir'[f] = dir[f]
    BY <1>8 DEF Promote, TypeOK
  <2>3. Clean'
    BY <1>1, <1>8, <2>1, <2>2 DEF Promote
  <2>4. OfOne'
    BY <1>4, <1>8, <2>1 DEF Promote, Behind
  <2> QED
    BY <1>2, <2>3, <2>4
<1>9. ASSUME NEW x \in Restores, Undo(x)
      PROVE  RecordsAreOfOne'
  <2>1. re[x].pc = "undo" /\ UNCHANGED <<records, crashes>>
    BY <1>9 DEF Undo
  <2>2. ASSUME NEW d \in re[x].promoted, dir' = [dir EXCEPT ![d] = None],
               Turn(x, [re[x] EXCEPT !.promoted = re[x].promoted \ {d}])
        PROVE  RecordsAreOfOne'
    <3>1. /\ re'[x].promoted = re[x].promoted \ {d} /\ re'[x].pc = "undo"
          /\ \A y \in Restores \ {x} : re'[y] = re[y]
      BY <1>1, <2>1, <2>2 DEF Turn, RestoreCalls
    <3>2. d \in Directories /\ dir'[d] = None /\ \A f \in Directories \ {d} : dir'[f] = dir[f]
      BY <1>1, <2>2 DEF TypeOK, RestoreCalls
    <3>3. Clean'
      BY <1>1, <2>1, <3>1, <3>2
    <3>4. OfOne'
      BY <1>4, <2>1, <3>1
    <3> QED
      BY <1>2, <3>3, <3>4
  <2>3. ASSUME re[x].promoted = {}, Turn(x, [NoRestore EXCEPT !.pc = "failed"]), UNCHANGED dir
        PROVE  RecordsAreOfOne'
    <3>1. Clean'
      BY <1>1, <2>1, <2>3, ResetFields
    <3>2. OfOne'
      BY <1>4, <2>1, <2>3, ResetFields
    <3> QED
      BY <1>2, <3>1, <3>2
  <2> QED
    BY <1>9, <2>2, <2>3 DEF Undo
<1> QED
  BY <1>5, <1>6, <1>7, <1>8, <1>9, RestoreSteps

-----------------------------------------------------------------------------
(* No call is under way at first, and the target holds nothing.            *)
LEMMA InitBackupInv == Init => BackupInv
<1> SUFFICES ASSUME Init
             PROVE  BackupInv
  OBVIOUS
<1>1. TypeOK
  <2>1. /\ NoExport \in ExportCalls /\ NoExport.pc = "idle"
        /\ NoRestore \in RestoreCalls /\ NoRestore.pc = "idle"
    BY DEF NoExport, NoRestore, ExportCalls, RestoreCalls, States, Directories
  <2>2. /\ ex \in [Exports -> ExportCalls] /\ re \in [Restores -> RestoreCalls]
        /\ \A e \in Exports : mu = e <=> ex[e].pc \in Exporting
    BY <2>1, NamesAssumption DEF Init, Exporting
  <2>3. rec \in [Runs -> States]
    BY DEF Init, States
  <2> QED
    BY <2>2, <2>3 DEF Init, TypeOK
<1>2. SourceIsWhole
  BY DEF Init, SourceIsWhole
<1>3. ReadIsWhole /\ ArchiveIsWhole
  BY DEF Init, ReadIsWhole, ArchiveIsWhole, NoExport
<1>4. RestorePlace /\ PromotedIsOwned /\ RecordsAreOfOne
  BY DEF Init, RestorePlace, InPlace, PromotedIsOwned, RecordsAreOfOne, NoRestore, Restoring
<1> QED
  BY <1>1, <1>2, <1>3, <1>4 DEF BackupInv

(* The inductive invariant of export and restore.                          *)
THEOREM BackupInvAlways == Spec => []BackupInv
<1>1. BackupInv /\ [Next]_vars => BackupInv'
  BY NextTypes, NextSource, NextRead, NextArchive, NextPlace, NextOwned, NextRecords
     DEF BackupInv
<1> QED
  BY InitBackupInv, <1>1, PTL DEF Spec

(* Every variable keeps its type, and an export has the Runner's mutex     *)
(* exactly while it is under way.                                          *)
THEOREM BackupTypesAlways == Spec => []TypeOK
<1>1. BackupInv => TypeOK
  BY DEF BackupInv
<1> QED
  BY BackupInvAlways, <1>1, PTL

(* An archive that can be opened holds every stream and blob its records   *)
(* cite, whatever ran and died while it was made.                          *)
THEOREM ArchivesAreWhole == Spec => []ArchiveIsWhole
<1>1. BackupInv => ArchiveIsWhole
  BY DEF BackupInv
<1> QED
  BY BackupInvAlways, <1>1, PTL

(* Restored records have their archive's files from the commit on, however *)
(* many restores race, fail or die.                                        *)
THEOREM RestoredStaysWhole == Spec => []RestoredIsWhole
<1>1. BackupInv => RestoredIsWhole
  <2> SUFFICES ASSUME BackupInv, records \notin {None, Own}, NEW d \in Directories,
                      In(d, records.files) # {}
               PROVE  dir[d] = In(d, records.files)
    BY DEF RestoredIsWhole
  <2>1. PICK x \in Restores : re[x].pc = "done" /\ re[x].from = records
    BY DEF BackupInv, RecordsAreOfOne
  <2>2. d \in re[x].promoted
    BY <2>1 DEF BackupInv, RestorePlace, InPlace, Covered
  <2> QED
    BY <2>1, <2>2 DEF BackupInv, PromotedIsOwned
<1> QED
  BY BackupInvAlways, <1>1, PTL

(* Once every restore is over and none has died, the state directory holds *)
(* the files of the archive whose records it has, or none.                 *)
THEOREM SettledStaysClean == Spec => []SettledIsClean
<1>1. BackupInv => SettledIsClean
  <2> SUFFICES ASSUME BackupInv, \A x \in Restores : re[x].pc \notin Restoring, crashes = {},
                      NEW d \in Directories, dir[d] \notin {None, {}}
               PROVE  records \notin {None, Own} /\ dir[d] = In(d, records.files)
    BY DEF SettledIsClean
  <2>1. PICK x \in Restores : d \in re[x].promoted
    BY DEF BackupInv, RecordsAreOfOne
  <2>2. re[x].pc \in Restoring \union {"idle", "done", "failed"} /\ re[x].pc \notin Restoring
    BY DEF BackupInv, TypeOK, RestoreCalls
  <2>3. re[x].pc = "done" /\ re[x].from \in Contents
    BY <2>1, <2>2 DEF BackupInv, RestorePlace, InPlace
  <2>4. records = re[x].from /\ dir[d] = In(d, re[x].from.files)
    BY <2>1, <2>3 DEF BackupInv, RecordsAreOfOne, PromotedIsOwned
  <2> QED
    BY <2>3, <2>4, ContentsAssumption
<1> QED
  BY BackupInvAlways, <1>1, PTL
=============================================================================
