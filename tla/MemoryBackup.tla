---------------------------- MODULE MemoryBackup ----------------------------
(***************************************************************************)
(* memory export and memory restore                                        *)
(* (internal/memorybackup/service.go, with ExportRecords and               *)
(* RestoreRecords of internal/store/sqlite/records.go): a server whose     *)
(* Runner executes exports its state directory into archives, and          *)
(* processes restore archives into another one, at the same time or after  *)
(* one another, with crashes on both sides.                                *)
(*                                                                         *)
(* Of a run the archive holds its record, the record of its artifact, the  *)
(* stream in runs/ and the blob in artifacts/.  A step is one transaction  *)
(* or one operation on a directory that another process can see between;   *)
(* an archive is written under its final name, and is torn until the end.  *)
(***************************************************************************)
EXTENDS FiniteSets, Naturals, TLC

CONSTANTS
  Runs,      \* runs of the exporting server
  Exports, Restores,  \* calls, each used once
  Names,     \* names of archives: the second in which they were created
  Own,       \* records that no archive brought
  None

ASSUME NamesAssumption == None # Own /\ None \notin Exports \union Restores \union Names

VARIABLES
  at,        \* where each run is
  rec, art,  \* its record's state; whether its artifact's record exists
  files,     \* of the exporting state directory: <<directory, run>>
  mu,        \* the Runner's mutex: the export that holds it, or None
  ex,        \* each export: place, records and files it read, its archive
  archive,   \* by name: None, or what was written and whether it is whole
  re,        \* each restore: place, archive read, directory it is at, those it promoted
  dir,       \* the restoring state directory's runs and artifacts, or None
  records,   \* its durable records: None, Own or those of an archive
  crashes    \* history: restores that crashed

source == <<at, rec, art, files>>
export == <<mu, ex, archive>>
target == <<re, dir, records, crashes>>
vars   == <<source, export, target>>

-----------------------------------------------------------------------------
Directories == {"runs", "artifacts"}
File        == Directories \X Runs

In(d, fs) == {f \in fs : f[1] = d}

NoExport  == [pc |-> "idle", rec |-> [r \in Runs |-> "none"],
              art |-> [r \in Runs |-> FALSE], files |-> {}, name |-> None]
NoRestore == [pc |-> "idle", from |-> None, here |-> "runs", promoted |-> {}]

Registered(r) == at[r] \in {"registered", "captured", "recorded", "updated"}

Init ==
  /\ at = [r \in Runs |-> "idle"]
  /\ rec = [r \in Runs |-> "none"]
  /\ art = [r \in Runs |-> FALSE]
  /\ files = {}
  /\ mu = None
  /\ ex = [e \in Exports |-> NoExport]
  /\ archive = [n \in Names |-> None]
  /\ re = [x \in Restores |-> NoRestore]
  /\ dir \in [Directories -> {None, {}}]
  /\ records = None
  /\ crashes = {}

-----------------------------------------------------------------------------
(* The exporting server's runs, as far as an archive can tell.             *)

Reach(r, label) == at' = [at EXCEPT ![r] = label]

Prepare(r) ==
  /\ at[r] = "idle"
  /\ Reach(r, "prepared")
  /\ rec' = [rec EXCEPT ![r] = "prepared"]
  /\ UNCHANGED <<art, files, export, target>>

CreateStreams(r) ==
  /\ at[r] = "prepared"
  /\ Reach(r, "created")
  /\ files' = files \union {<<"runs", r>>}
  /\ UNCHANGED <<rec, art, export, target>>

RecordRunning(r) ==
  /\ at[r] = "created"
  /\ Reach(r, "started")
  /\ rec' = [rec EXCEPT ![r] = "running"]
  /\ UNCHANGED <<art, files, export, target>>

(* Execute waits here for a snapshot to end.                               *)
Register(r) ==
  /\ at[r] = "started" /\ mu = None
  /\ Reach(r, "registered")
  /\ UNCHANGED <<rec, art, files, export, target>>

Capture(r) ==
  /\ at[r] = "registered"
  /\ Reach(r, "captured")
  /\ files' = files \union {<<"artifacts", r>>}
  /\ UNCHANGED <<rec, art, export, target>>

RecordArtifact(r) ==
  /\ at[r] = "captured"
  /\ Reach(r, "recorded")
  /\ art' = [art EXCEPT ![r] = TRUE]
  /\ UNCHANGED <<rec, files, export, target>>

RecordOutcome(r) ==
  /\ at[r] = "recorded"
  /\ Reach(r, "updated")
  /\ rec' = [rec EXCEPT ![r] = "completed"]
  /\ UNCHANGED <<art, files, export, target>>

Unregister(r) ==
  /\ at[r] = "updated" /\ mu = None
  /\ Reach(r, "over")
  /\ UNCHANGED <<rec, art, files, export, target>>

-----------------------------------------------------------------------------
(* Export.                                                                 *)

Exporting == {"records", "runs", "artifacts", "create", "write"}

Become(e, next) == ex' = [ex EXCEPT ![e] = next]

Step(e, label) == Become(e, [ex[e] EXCEPT !.pc = label])

(* BeginMemorySnapshot, after the destination and the limit were found     *)
(* valid.                                                                  *)
BeginSnapshot(e) ==
  /\ ex[e].pc = "idle" /\ mu = None
  /\ \A r \in Runs : ~Registered(r)
  /\ mu' = e
  /\ Step(e, "records")
  /\ UNCHANGED <<source, archive, target>>

RefuseExport(e) ==
  /\ ex[e].pc = "idle" /\ mu = None
  /\ \E r \in Runs : Registered(r)
  /\ Step(e, "done")
  /\ UNCHANGED <<source, mu, archive, target>>

(* One read transaction over records, revisions and imports.               *)
ExportRecords(e) ==
  /\ ex[e].pc = "records"
  /\ Become(e, [ex[e] EXCEPT !.pc = "runs", !.rec = rec, !.art = art])
  /\ UNCHANGED <<source, mu, archive, target>>

(* Mutant: only the streams are collected.                                 *)
CollectRuns(e) ==
  /\ ex[e].pc = "runs"
  /\ Become(e, [ex[e] EXCEPT !.pc = "create", !.files = In("runs", files)])
  /\ UNCHANGED <<source, mu, archive, target>>

(* collectFiles walks runs/, and then artifacts/.                          *)
CollectFiles(e) ==
  \E d \in Directories :
    /\ ex[e].pc = d
    /\ Become(e, [ex[e] EXCEPT !.pc = IF d = "runs" THEN "artifacts" ELSE "create",
                               !.files = ex[e].files \union In(d, files)])
    /\ UNCHANGED <<source, mu, archive, target>>

Content(e, complete) ==
  [rec |-> ex[e].rec, art |-> ex[e].art, files |-> ex[e].files, whole |-> complete]

CreateArchive(e) ==
  /\ ex[e].pc = "create"
  /\ \E n \in Names :
       /\ archive[n] = None
       /\ archive' = [archive EXCEPT ![n] = Content(e, FALSE)]
       /\ Become(e, [ex[e] EXCEPT !.pc = "write", !.name = n])
  /\ UNCHANGED <<source, mu, target>>

(* Written, closed, synced and within the limit.                           *)
FinishArchive(e) ==
  /\ ex[e].pc = "write"
  /\ ex[e].files \subseteq files
  /\ archive' = [archive EXCEPT ![ex[e].name] = Content(e, TRUE)]
  /\ Become(e, [NoExport EXCEPT !.pc = "done"])
  /\ mu' = None
  /\ UNCHANGED <<source, target>>

(* Mutant: the snapshot is not released when the export fails.             *)
ExportKeepsLock(e) ==
  /\ ex[e].pc \in Exporting
  /\ archive' = IF ex[e].name = None THEN archive ELSE [archive EXCEPT ![ex[e].name] = None]
  /\ Become(e, [NoExport EXCEPT !.pc = "done"])
  /\ UNCHANGED <<source, mu, target>>

(* The records or files exceed a limit, the name is taken, or writing      *)
(* fails: what was created is removed.                                     *)
ExportFails(e) ==
  /\ ex[e].pc \in Exporting
  /\ archive' = IF ex[e].name = None THEN archive ELSE [archive EXCEPT ![ex[e].name] = None]
  /\ Become(e, [NoExport EXCEPT !.pc = "done"])
  /\ mu' = None
  /\ UNCHANGED <<source, target>>

(* The exporting server dies and is started again: its runs are            *)
(* interrupted, and an archive stays as far as it was written.             *)
ServerCrash ==
  /\ \E e \in Exports : mu = e
  /\ at'  = [r \in Runs |-> IF at[r] \in {"idle", "prepared"} THEN at[r] ELSE "over"]
  /\ rec' = [r \in Runs |-> IF rec[r] = "running" THEN "interrupted" ELSE rec[r]]
  /\ ex'  = [e \in Exports |-> IF mu = e THEN [NoExport EXCEPT !.pc = "done"] ELSE ex[e]]
  /\ mu'  = None
  /\ UNCHANGED <<art, files, archive, target>>

-----------------------------------------------------------------------------
(* Restore.                                                                *)

Restoring == {"stage", "check", "remove", "rename", "commit", "undo"}

Turn(x, next) == re' = [re EXCEPT ![x] = next]

Go(x, label) == Turn(x, [re[x] EXCEPT !.pc = label])

(* A directory of which nothing was staged is passed over.                 *)
Staged(x) == In(re[x].here, re[x].from.files)

(* runs/, then artifacts/, then the records.                               *)
Behind(d) == IF d = "runs" THEN "check" ELSE "commit"

(* The process has opened the state directory (Startup) and reads the      *)
(* archive; one without its central directory or manifest is refused.      *)
OpenArchive(x) ==
  /\ re[x].pc = "idle"
  /\ \E n \in Names :
       /\ archive[n] # None
       /\ IF archive[n].whole
            THEN Turn(x, [re[x] EXCEPT !.pc = "stage", !.from = archive[n]])
            ELSE Go(x, "failed")
  /\ UNCHANGED <<source, export, dir, records, crashes>>

(* Every entry is checked and extracted below the staging directory, and   *)
(* the manifest's counts are compared.                                     *)
Stage(x) ==
  /\ re[x].pc = "stage"
  /\ Go(x, "check")
  /\ UNCHANGED <<source, export, dir, records, crashes>>

SkipDirectory(x) ==
  /\ re[x].pc = "check" /\ Staged(x) = {}
  /\ Turn(x, [re[x] EXCEPT !.pc = Behind(re[x].here), !.here = "artifacts"])
  /\ UNCHANGED <<source, export, dir, records, crashes>>

CheckDirectory(x) ==
  /\ re[x].pc = "check" /\ Staged(x) # {}
  /\ dir[re[x].here] \in {None, {}}
  /\ Go(x, "remove")
  /\ UNCHANGED <<source, export, dir, records, crashes>>

(* Mutant: whatever is there by now is removed.                            *)
RemoveAnything(x) ==
  /\ re[x].pc = "remove"
  /\ dir' = [dir EXCEPT ![re[x].here] = None]
  /\ Go(x, "rename")
  /\ UNCHANGED <<source, export, records, crashes>>

(* os.Remove takes an empty directory only; its error is ignored.          *)
RemoveEmpty(x) ==
  /\ re[x].pc = "remove"
  /\ dir' = [dir EXCEPT ![re[x].here] = IF @ = {} THEN None ELSE @]
  /\ Go(x, "rename")
  /\ UNCHANGED <<source, export, records, crashes>>

(* os.Rename does not replace a directory.                                 *)
Promote(x) ==
  /\ re[x].pc = "rename"
  /\ LET d == re[x].here IN
       /\ dir[d] = None
       /\ dir' = [dir EXCEPT ![d] = Staged(x)]
       /\ Turn(x, [re[x] EXCEPT !.pc = Behind(d), !.here = "artifacts",
                                !.promoted = re[x].promoted \union {d}])
  /\ UNCHANGED <<source, export, records, crashes>>

(* One transaction, into a workspace without durable records.              *)
RestoreRecords(x) ==
  /\ re[x].pc = "commit" /\ records = None
  /\ records' = re[x].from
  /\ Go(x, "done")
  /\ UNCHANGED <<source, export, dir, crashes>>

(* A directory that is not empty, a rename or a transaction that fails, or *)
(* an entry that cannot be extracted.                                      *)
RestoreFails(x) ==
  /\ re[x].pc \in {"stage", "check", "rename", "commit"}
  /\ Go(x, "undo")
  /\ UNCHANGED <<source, export, dir, records, crashes>>

(* Mutant: what was promoted stays.                                        *)
UndoNothing(x) ==
  /\ re[x].pc = "undo"
  /\ Turn(x, [NoRestore EXCEPT !.pc = "failed"])
  /\ UNCHANGED <<source, export, dir, records, crashes>>

(* The deferred removal of each directory this restore promoted.           *)
Undo(x) ==
  /\ re[x].pc = "undo"
  /\ \/ \E d \in re[x].promoted :
          /\ dir' = [dir EXCEPT ![d] = None]
          /\ Turn(x, [re[x] EXCEPT !.promoted = re[x].promoted \ {d}])
     \/ /\ re[x].promoted = {}
        /\ Turn(x, [NoRestore EXCEPT !.pc = "failed"])
        /\ UNCHANGED dir
  /\ UNCHANGED <<source, export, records, crashes>>

RestoreCrash(x) ==
  /\ re[x].pc \in Restoring
  /\ Turn(x, [NoRestore EXCEPT !.pc = "failed"])
  /\ crashes' = crashes \union {x}
  /\ UNCHANGED <<source, export, dir, records>>

(* A client of the restoring state directory writes a record first.        *)
WriteOwn ==
  /\ records = None
  /\ records' = Own
  /\ UNCHANGED <<source, export, re, dir, crashes>>

-----------------------------------------------------------------------------
Run(r) ==
  \/ Prepare(r) \/ CreateStreams(r) \/ RecordRunning(r) \/ Register(r) \/ Capture(r)
  \/ RecordArtifact(r) \/ RecordOutcome(r) \/ Unregister(r)

Export(e) ==
  \/ BeginSnapshot(e) \/ RefuseExport(e) \/ ExportRecords(e) \/ CollectFiles(e)
  \/ CreateArchive(e) \/ FinishArchive(e) \/ ExportFails(e)

Restore(x) ==
  \/ OpenArchive(x) \/ Stage(x) \/ SkipDirectory(x) \/ CheckDirectory(x) \/ RemoveEmpty(x)
  \/ Promote(x) \/ RestoreRecords(x) \/ RestoreFails(x) \/ Undo(x) \/ RestoreCrash(x)

Next ==
  \/ \E r \in Runs : Run(r)
  \/ \E e \in Exports : Export(e)
  \/ \E x \in Restores : Restore(x)
  \/ ServerCrash \/ WriteOwn

Spec == Init /\ [][Next]_vars

-----------------------------------------------------------------------------
States == {"none", "prepared", "running", "completed", "interrupted"}

Contents == [rec : [Runs -> States], art : [Runs -> BOOLEAN], files : SUBSET File, whole : BOOLEAN]

ExportCalls ==
  [pc : Exporting \union {"idle", "done"}, rec : [Runs -> States], art : [Runs -> BOOLEAN],
   files : SUBSET File, name : Names \union {None}]

RestoreCalls ==
  [pc : Restoring \union {"idle", "done", "failed"}, from : Contents \union {None},
   here : Directories, promoted : SUBSET Directories]

(* Records, and files, are told from the absence of any.                   *)
ASSUME ContentsAssumption ==
  {None, Own} \intersect Contents = {} /\ \A fs \in SUBSET File : fs # None

TypeOK ==
  /\ at \in [Runs -> {"idle", "prepared", "created", "started", "registered", "captured",
                      "recorded", "updated", "over"}]
  /\ rec \in [Runs -> States]
  /\ art \in [Runs -> BOOLEAN]
  /\ files \subseteq File
  /\ mu \in Exports \union {None}
  /\ ex \in [Exports -> ExportCalls]
  /\ \A e \in Exports : mu = e <=> ex[e].pc \in Exporting
  /\ archive \in [Names -> Contents \union {None}]
  /\ re \in [Restores -> RestoreCalls]
  /\ dir \in [Directories -> {None} \union SUBSET File]
  /\ \A d \in Directories : dir[d] = None \/ dir[d] \subseteq {d} \X Runs
  /\ records \in Contents \union {None, Own}
  /\ crashes \subseteq Restores

(* What the content's records cite.                                        *)
Cited(content) ==
  {<<"runs", r>> : r \in {q \in Runs : content.rec[q] \in {"running", "completed", "interrupted"}}}
    \union {<<"artifacts", r>> : r \in {q \in Runs : content.art[q]}}

(* An archive that can be opened holds every stream and blob its records   *)
(* cite, although records and directories are read one after another while *)
(* runs begin, and although exports fail or die half-way.                  *)
ArchiveIsWhole ==
  \A n \in Names : archive[n] # None /\ archive[n].whole =>
    Cited(archive[n]) \subseteq archive[n].files

(* Records are restored after their files and never without them: at every *)
(* moment, whatever other restores race, fail or crash, the files the      *)
(* archive brought are where its records look for them.                    *)
RestoredIsWhole ==
  records \notin {None, Own} =>
    \A d \in Directories : In(d, records.files) # {} => dir[d] = In(d, records.files)

(* A restore that fails takes back what it promoted, and one that succeeds *)
(* is alone: once no restore is under way, and none crashed, the state     *)
(* directory holds one archive or nothing of any.                          *)
SettledIsClean ==
  (\A x \in Restores : re[x].pc \notin Restoring) /\ crashes = {} =>
    \A d \in Directories :
      dir[d] \in {None, {}} \/ (records \notin {None, Own} /\ dir[d] = In(d, records.files))
=============================================================================
