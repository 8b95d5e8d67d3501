------------------------------ MODULE Startup ------------------------------
(***************************************************************************)
(* Servers that start on one workspace and one state directory, crash and  *)
(* start again (internal/application/application.go: buildBundle): the     *)
(* workspace's identity file (internal/workspace/identity.go), the two     *)
(* secret keys, and the directory swaps of a cache hit with their recovery *)
(* (internal/runner/cache.go: materializeIsolatedRoot, recoverCacheSwaps). *)
(*                                                                         *)
(* A step is one operation on a file that another server can see between:  *)
(* create with O_EXCL, write, read, link, rename; to remove a directory    *)
(* takes several.  Nothing that a crash leaves behind is cleaned up but by *)
(* the next start.  A server that switches its bundle over this directory  *)
(* (runtime_config.go:233) builds the next one beside the one in use: that *)
(* is one more element of Servers, which starts while the first is up.     *)
(***************************************************************************)
EXTENDS FiniteSets, Naturals, Sequences, TLC

CONSTANTS
  Servers,   \* server processes, and bundles that one builds to switch to
  Swaps,     \* materializations of one isolated root, each used once
  Ids,       \* workspace identities
  PathId,    \* the one derived from the directory's path
  Cursor, Cache,  \* the two keys
  None,
  MaxStarts  \* bound: how often servers start

ASSUME NamesAssumption ==
  /\ PathId \in Ids /\ None \notin Ids \union Servers \union Swaps
  /\ {"absent", "empty"} \intersect Servers = {}

ASSUME BoundAssumption == MaxStarts \in Nat

ASSUME KeysAssumption == Cursor # Cache

Keys == {Cursor, Cache}

VARIABLES
  starts,    \* bound
  pc, id, key,  \* of each server: its place, its identity and the keys it read
  keyFile,   \* cursor.key and cache.key: "absent", "empty" or who wrote the key
  pinned,    \* the identity file, or None
  todo,      \* the markers a starting server has not recovered yet
  look,      \* the marker it looks at and what it will do
  at, by, had,  \* of each swap: its place, its server, whether a root was there
  root,      \* the isolated root: "absent", "part" or "whole"
  stage, backup,  \* of each swap: the staged tree, and where the old one went
  marker,    \* of each swap, in cache-swaps/: "absent", "torn" or "whole"
  excused    \* history: "beside", a start looked at the marker of a swap in
             \* progress; "refused", a rename back failed; "crossed", a swap
             \* moved the root away while another one was still to recover

server == <<starts, pc, id>>
secret == <<key, keyFile>>
recov  == <<todo, look, excused>>
swap   == <<at, by, had, stage>>
tree   == <<root, backup, marker>>
vars   == <<server, secret, pinned, recov, swap, tree>>

-----------------------------------------------------------------------------
Starting == {"prepare", "readKey", "createKey", "writeKey", "refresh", "list",
             "recover", "apply", "unmark", "runs", "pin", "link"}

InSwap == {"fill", "mark", "write", "look", "away", "promote", "drop", "close"}

Wanting(s) == IF key[s][Cursor] = None THEN Cursor ELSE Cache

Up(s)    == pc[s] = "up"
Alive(w) == at[w] \in InSwap

Goto(s, label) == pc' = [pc EXCEPT ![s] = label]

NoKeys == [k \in Keys |-> None]
NoLook == [mark |-> None, verdict |-> "none"]

Init ==
  /\ starts = 0
  /\ pc = [s \in Servers |-> "down"]
  /\ id = [s \in Servers |-> None]
  /\ key = [s \in Servers |-> NoKeys]
  /\ keyFile = [k \in Keys |-> "absent"]
  /\ pinned = None
  /\ todo = [s \in Servers |-> {}]
  /\ look = [s \in Servers |-> NoLook]
  /\ excused = {}
  /\ at = [w \in Swaps |-> "idle"]
  /\ by = [w \in Swaps |-> None]
  /\ had = [w \in Swaps |-> FALSE]
  /\ stage = [w \in Swaps |-> "absent"]
  /\ root = "whole"
  /\ backup = [w \in Swaps |-> "absent"]
  /\ marker = [w \in Swaps |-> "absent"]

-----------------------------------------------------------------------------
(* Opening.                                                                *)

(* What a server that stops, by any route, leaves: only files.             *)
Stops(s) ==
  /\ Goto(s, "down")
  /\ id'   = [id EXCEPT ![s] = None]
  /\ key'  = [key EXCEPT ![s] = NoKeys]
  /\ todo' = [todo EXCEPT ![s] = {}]
  /\ look' = [look EXCEPT ![s] = NoLook]

(* An initialization step failed: the databases are closed.                *)
Fail(s) ==
  /\ Stops(s)
  /\ UNCHANGED <<starts, keyFile, pinned, excused, swap, tree>>

(* workspace.Open: the saved identity, or that of the path.                *)
OpenRoot(s) ==
  /\ pc[s] = "down" /\ starts < MaxStarts
  /\ starts' = starts + 1
  /\ id' = [id EXCEPT ![s] = IF pinned # None THEN pinned ELSE PathId]
  /\ Goto(s, "prepare")
  /\ UNCHANGED <<secret, pinned, recov, swap, tree>>

(* The state directory lies in the workspace: a server of the local        *)
(* transport serves its configuration alone; any other refuses.            *)
OpenBlocked(s) ==
  /\ pc[s] = "prepare"
  /\ Goto(s, "blocked")
  /\ UNCHANGED <<starts, id, secret, pinned, recov, swap, tree>>

(* PrepareIdentity: the configured former path, if any, decides, and must  *)
(* not disagree with what is saved.                                        *)
PrepareIdentity(s) ==
  /\ pc[s] = "prepare"
  /\ \E wanted \in {id[s]} \union Ids :
       /\ pinned \in {None, wanted}
       /\ id' = [id EXCEPT ![s] = wanted]
  /\ Goto(s, "readKey")
  /\ UNCHANGED <<starts, secret, pinned, recov, swap, tree>>

RefuseIdentity(s) ==
  /\ pc[s] = "prepare"
  /\ \E wanted \in {id[s]} \union Ids : pinned \notin {None, wanted}
  /\ Fail(s)

(* The key is there: on with the start.                                    *)
HoldKey(s, k, value) ==
  /\ key' = [key EXCEPT ![s][k] = value]
  /\ Goto(s, IF k = Cursor THEN "refresh" ELSE "list")

(* Mutant: the length of what is read is not looked at.                    *)
ReadAnyKey(s) ==
  /\ pc[s] = "readKey"
  /\ LET k == Wanting(s) IN
       \/ /\ keyFile[k] # "absent"
          /\ HoldKey(s, k, keyFile[k])
       \/ /\ keyFile[k] = "absent"
          /\ Goto(s, "createKey")
          /\ UNCHANGED key
  /\ UNCHANGED <<starts, id, keyFile, pinned, recov, swap, tree>>

(* loadOrCreateKey reads: a key, no file, or a file that is no key.        *)
ReadKey(s) ==
  /\ pc[s] = "readKey"
  /\ LET k == Wanting(s) IN
       \/ /\ keyFile[k] \in Servers
          /\ HoldKey(s, k, keyFile[k])
       \/ /\ keyFile[k] = "absent"
          /\ Goto(s, "createKey")
          /\ UNCHANGED key
  /\ UNCHANGED <<starts, id, keyFile, pinned, recov, swap, tree>>

ReadShortKey(s) ==
  /\ pc[s] = "readKey" /\ keyFile[Wanting(s)] = "empty"
  /\ Fail(s)

(* Mutant: the file is created without O_EXCL, and so emptied.             *)
CreateKeyAnyway(s) ==
  /\ pc[s] = "createKey"
  /\ keyFile' = [keyFile EXCEPT ![Wanting(s)] = "empty"]
  /\ Goto(s, "writeKey")
  /\ UNCHANGED <<starts, id, key, pinned, recov, swap, tree>>

(* O_EXCL: one server creates the file, every other one reads again.       *)
CreateKey(s) ==
  /\ pc[s] = "createKey"
  /\ IF keyFile[Wanting(s)] = "absent"
     THEN /\ keyFile' = [keyFile EXCEPT ![Wanting(s)] = "empty"]
          /\ Goto(s, "writeKey")
     ELSE Goto(s, "readKey") /\ UNCHANGED keyFile
  /\ UNCHANGED <<starts, id, key, pinned, recov, swap, tree>>

WriteKey(s) ==
  /\ pc[s] = "writeKey"
  /\ keyFile' = [keyFile EXCEPT ![Wanting(s)] = s]
  /\ HoldKey(s, Wanting(s), s)
  /\ UNCHANGED <<starts, id, pinned, recov, swap, tree>>

(* The first catalog refresh is done; the second key is next.              *)
Refreshed(s) ==
  /\ pc[s] = "refresh"
  /\ Goto(s, "readKey")
  /\ UNCHANGED <<starts, id, secret, pinned, recov, swap, tree>>

-----------------------------------------------------------------------------
(* recoverCacheSwaps.                                                      *)

ListMarkers(s) ==
  /\ pc[s] = "list"
  /\ todo' = [todo EXCEPT ![s] = {w \in Swaps : marker[w] # "absent"}]
  /\ Goto(s, "recover")
  /\ UNCHANGED <<starts, id, secret, pinned, look, excused, swap, tree>>

(* A marker that cannot be read or parsed is passed over, and stays.       *)
SkipMarker(s, w) ==
  /\ pc[s] = "recover" /\ w \in todo[s]
  /\ marker[w] # "whole"
  /\ todo' = [todo EXCEPT ![s] = @ \ {w}]
  /\ UNCHANGED <<server, secret, pinned, look, excused, swap, tree>>

(* What the root and the backup beside it say.                             *)
Verdict(w) ==
  CASE root = "absent" /\ backup[w] # "absent" -> "restore"
    [] root # "absent" /\ backup[w] # "absent" -> "clean"
    [] OTHER -> "none"

LookAtMarker(s, w) ==
  /\ pc[s] = "recover" /\ w \in todo[s]
  /\ marker[w] = "whole"
  /\ look' = [look EXCEPT ![s] = [mark |-> w, verdict |-> Verdict(w)]]
  /\ todo' = [todo EXCEPT ![s] = @ \ {w}]
  /\ excused' = excused \union (IF Alive(w) THEN {"beside"} ELSE {})
  /\ Goto(s, "apply")
  /\ UNCHANGED <<starts, id, secret, pinned, swap, tree>>

(* The backup is moved back; the error of that is ignored: a root may be   *)
(* there again, or the system refuse.                                      *)
MoveBack(w) ==
  \/ /\ root = "absent" /\ backup[w] # "absent"
     /\ root' = backup[w]
     /\ backup' = [backup EXCEPT ![w] = "absent"]
     /\ UNCHANGED excused
  \/ /\ excused' = excused \union (IF root = "absent" THEN {"refused"} ELSE {})
     /\ UNCHANGED <<root, backup>>

(* RemoveAll takes entry after entry, and may fail at any; its error is    *)
(* ignored.                                                                *)
RemoveEntry(w) ==
  /\ backup[w] # "absent"
  /\ backup' = [backup EXCEPT ![w] = "part"]
  /\ UNCHANGED <<root, excused>>

RemoveEnds(w) ==
  /\ backup' \in {backup, [backup EXCEPT ![w] = "absent"]}
  /\ UNCHANGED <<root, excused>>

ApplyVerdict(s) ==
  /\ pc[s] = "apply"
  /\ LET w == look[s].mark IN
       CASE look[s].verdict = "restore" -> MoveBack(w)
         [] look[s].verdict = "clean"   -> RemoveEnds(w)
         [] OTHER                       -> UNCHANGED <<root, backup, excused>>
  /\ Goto(s, "unmark")
  /\ UNCHANGED <<starts, id, secret, pinned, todo, look, swap, marker>>

RemoveBackup(s) ==
  /\ pc[s] = "apply" /\ look[s].verdict = "clean"
  /\ RemoveEntry(look[s].mark)
  /\ UNCHANGED <<server, secret, pinned, todo, look, swap, marker>>

RemoveMarker(s) ==
  /\ pc[s] = "unmark"
  /\ marker' = [marker EXCEPT ![look[s].mark] = "absent"]
  /\ look' = [look EXCEPT ![s] = NoLook]
  /\ Goto(s, "recover")
  /\ UNCHANGED <<starts, id, secret, pinned, todo, excused, swap, root, backup>>

(* The rest of Recover: runs marked interrupted, retention (Runner,        *)
(* RunnerCache).                                                           *)
Recovered(s) ==
  /\ pc[s] = "recover" /\ todo[s] = {}
  /\ Goto(s, "pin")
  /\ UNCHANGED <<starts, id, secret, pinned, recov, swap, tree>>

-----------------------------------------------------------------------------
(* PinIdentity.                                                            *)

(* Prepared again, then saved already or to be published.                  *)
CheckPin(s) ==
  /\ pc[s] = "pin" /\ pinned \in {None, id[s]}
  /\ Goto(s, IF pinned = None THEN "link" ELSE "up")
  /\ UNCHANGED <<starts, id, secret, pinned, recov, swap, tree>>

RefusePin(s) ==
  /\ pc[s] \in {"pin", "link"} /\ pinned \notin {None, id[s]}
  /\ Fail(s)

(* Mutant: the file is renamed over what another server published.         *)
LinkReplacing(s) ==
  /\ pc[s] = "link"
  /\ pinned' = id[s]
  /\ Goto(s, "up")
  /\ UNCHANGED <<starts, id, secret, recov, swap, tree>>

(* publishIdentity: a synced file is linked where none is; otherwise what  *)
(* is there must be the same.                                              *)
LinkPin(s) ==
  /\ pc[s] = "link" /\ pinned \in {None, id[s]}
  /\ pinned' = id[s]
  /\ Goto(s, "up")
  /\ UNCHANGED <<starts, id, secret, recov, swap, tree>>

-----------------------------------------------------------------------------
(* materializeIsolatedRoot, for a cache hit of a server that is up.        *)

Step(w, label) == at' = [at EXCEPT ![w] = label]

(* The handler returns.                                                    *)
Returns(w) ==
  /\ Step(w, "done")
  /\ by'  = [by EXCEPT ![w] = None]
  /\ had' = [had EXCEPT ![w] = FALSE]

(* Every way out: the deferred removals, first the marker.                 *)
Out(w) == Step(w, "close")

MakeStage(w, s) ==
  /\ at[w] = "idle" /\ Up(s)
  /\ by' = [by EXCEPT ![w] = s]
  /\ stage' = [stage EXCEPT ![w] = "part"]
  /\ Step(w, "fill")
  /\ UNCHANGED <<server, secret, pinned, recov, had, tree>>

(* Mutant: an output that cannot be copied is left out.                    *)
FillStagePartly(w) ==
  /\ at[w] = "fill"
  /\ \E content \in {"part", "whole"} : stage' = [stage EXCEPT ![w] = content]
  /\ Step(w, "mark")
  /\ UNCHANGED <<server, secret, pinned, recov, by, had, tree>>

(* copyVerifiedFile of every output, or of some until one fails.           *)
FillStage(w) ==
  /\ at[w] = "fill"
  /\ \/ stage' = [stage EXCEPT ![w] = "whole"] /\ Step(w, "mark")
     \/ Out(w) /\ UNCHANGED stage
  /\ UNCHANGED <<server, secret, pinned, recov, by, had, tree>>

(* os.WriteFile creates the marker, and then writes it.                    *)
CreateMarker(w) ==
  /\ at[w] = "mark"
  /\ marker' = [marker EXCEPT ![w] = "torn"]
  /\ Step(w, "write")
  /\ UNCHANGED <<server, secret, pinned, recov, by, had, stage, root, backup>>

(* If it cannot be written, what there is of it stays.                     *)
WriteMarker(w) ==
  /\ at[w] = "write"
  /\ \/ marker' = [marker EXCEPT ![w] = "whole"] /\ Step(w, "look") /\ UNCHANGED <<by, had, stage>>
     \/ stage' = [stage EXCEPT ![w] = "absent"] /\ Returns(w) /\ UNCHANGED marker
  /\ UNCHANGED <<server, secret, pinned, recov, root, backup>>

LookAtRoot(w) ==
  /\ at[w] = "look"
  /\ had' = [had EXCEPT ![w] = (root # "absent")]
  /\ Step(w, IF root # "absent" THEN "away" ELSE "promote")
  /\ UNCHANGED <<server, secret, pinned, recov, by, stage, tree>>

MoveAway(w) ==
  /\ at[w] = "away"
  /\ \/ /\ root # "absent"
        /\ backup' = [backup EXCEPT ![w] = root]
        /\ root' = "absent"
        /\ excused' = excused \union
             (IF \/ \E v \in Swaps \ {w} : marker[v] = "whole"
                 \/ \E s \in Servers : pc[s] = "apply"
              THEN {"crossed"} ELSE {})
        /\ Step(w, "promote")
     \/ Out(w) /\ UNCHANGED <<root, backup, excused>>
  /\ UNCHANGED <<server, secret, pinned, todo, look, by, had, stage, marker>>

Promote(w) ==
  /\ at[w] = "promote" /\ root = "absent"
  /\ root'  = stage[w]
  /\ stage' = [stage EXCEPT ![w] = "absent"]
  /\ Step(w, IF had[w] THEN "drop" ELSE "close")
  /\ UNCHANGED <<server, secret, pinned, recov, by, had, backup, marker>>

(* Mutant: a failed rename only reports its error.                         *)
PromoteFailsOnly(w) ==
  /\ at[w] = "promote"
  /\ Out(w)
  /\ UNCHANGED <<server, secret, pinned, recov, by, had, stage, tree>>

(* The rename fails, because a root is there again or for another reason:  *)
(* the old one is moved back if there was one, and that may fail too.      *)
PromoteFails(w) ==
  /\ at[w] = "promote"
  /\ IF had[w] THEN MoveBack(w) ELSE UNCHANGED <<root, backup, excused>>
  /\ Out(w)
  /\ UNCHANGED <<server, secret, pinned, todo, look, by, had, stage, marker>>

DropEntry(w) ==
  /\ at[w] = "drop"
  /\ RemoveEntry(w)
  /\ UNCHANGED <<server, secret, pinned, todo, look, swap, marker>>

DropBackup(w) ==
  /\ at[w] = "drop"
  /\ RemoveEnds(w)
  /\ Out(w)
  /\ UNCHANGED <<server, secret, pinned, todo, look, by, had, stage, marker>>

CloseSwap(w) ==
  /\ at[w] = "close"
  /\ marker' = [marker EXCEPT ![w] = "absent"]
  /\ stage'  = [stage EXCEPT ![w] = "absent"]
  /\ Returns(w)
  /\ UNCHANGED <<server, secret, pinned, recov, root, backup>>

(* A build of the workspace makes the directory it does not find.          *)
MakeRoot ==
  /\ root = "absent"
  /\ root' = "whole"
  /\ UNCHANGED <<server, secret, pinned, recov, swap, backup, marker>>

-----------------------------------------------------------------------------
(* A crash, a step of the start that fails, or Close, which waits for the  *)
(* calls in progress: what a crash may leave includes what they do.        *)
Crash(s) ==
  /\ pc[s] # "down"
  /\ Stops(s)
  /\ at'  = [w \in Swaps |-> IF by[w] = s THEN "done" ELSE at[w]]
  /\ by'  = [w \in Swaps |-> IF by[w] = s THEN None ELSE by[w]]
  /\ had' = [w \in Swaps |-> had[w] /\ by[w] # s]
  /\ UNCHANGED <<starts, keyFile, pinned, excused, stage, tree>>

Open(s) ==
  \/ OpenRoot(s) \/ OpenBlocked(s) \/ PrepareIdentity(s) \/ RefuseIdentity(s)
  \/ ReadKey(s) \/ ReadShortKey(s) \/ CreateKey(s) \/ WriteKey(s) \/ Refreshed(s)
  \/ ListMarkers(s) \/ ApplyVerdict(s) \/ RemoveBackup(s) \/ RemoveMarker(s) \/ Recovered(s)
  \/ CheckPin(s) \/ RefusePin(s) \/ LinkPin(s)
  \/ \E w \in Swaps : SkipMarker(s, w) \/ LookAtMarker(s, w)

Materialize(w) ==
  \/ FillStage(w) \/ CreateMarker(w) \/ WriteMarker(w) \/ LookAtRoot(w)
  \/ MoveAway(w) \/ Promote(w) \/ PromoteFails(w) \/ DropEntry(w)
  \/ DropBackup(w) \/ CloseSwap(w)

Next ==
  \/ \E s \in Servers : Open(s) \/ Crash(s)
  \/ \E w \in Swaps : Materialize(w)
  \/ \E w \in Swaps, s \in Servers : MakeStage(w, s)
  \/ MakeRoot

Spec == Init /\ [][Next]_vars

-----------------------------------------------------------------------------
TypeOK ==
  /\ starts \in 0..MaxStarts
  /\ pc \in [Servers -> Starting \union {"down", "up", "blocked"}]
  /\ id \in [Servers -> Ids \union {None}]
  /\ key \in [Servers -> [Keys -> Servers \union {None}]]
  /\ keyFile \in [Keys -> Servers \union {"absent", "empty"}]
  /\ pinned \in Ids \union {None}
  /\ todo \in [Servers -> SUBSET Swaps]
  /\ look \in [Servers -> [mark : Swaps \union {None}, verdict : {"none", "restore", "clean"}]]
  /\ excused \subseteq {"beside", "refused", "crossed"}
  /\ at \in [Swaps -> InSwap \union {"idle", "done"}]
  /\ by \in [Swaps -> Servers \union {None}]
  /\ had \in [Swaps -> BOOLEAN]
  /\ root \in {"absent", "part", "whole"}
  /\ stage \in [Swaps -> {"absent", "part", "whole"}]
  /\ backup \in [Swaps -> {"absent", "part", "whole"}]
  /\ marker \in [Swaps -> {"absent", "torn", "whole"}]

(* Servers that opened one state directory sign cursors and cache keys     *)
(* with the same secrets, those on disk, whatever first starts race and    *)
(* crash between the creation and the writing of a key.                    *)
KeysAgree ==
  \A s \in Servers, k \in Keys : key[s][k] # None => keyFile[k] = key[s][k]

(* Every server that is up serves the one identity that is pinned, and a   *)
(* pinned identity stands for an initialization that succeeded: no failed  *)
(* or racing start leaves it beside keys that are missing or cut short     *)
(* (README: "Failed state initialization leaves no pinned ID").            *)
IdentityIsOne ==
  /\ \A s \in Servers : Up(s) => pinned = id[s]
  /\ pinned # None => \A k \in Keys : keyFile[k] \in Servers

(* Servers that started on one state directory agree, in what they sign    *)
(* with and in who they are, whatever starts race, fail and crash.         *)
StartedAgree == KeysAgree /\ IdentityIsOne

(* What a swap, its rollback and the recovery make of the isolated root,   *)
(* wherever they stop.  As long as swaps and recoveries of one root do not *)
(* meet, a whole tree is left, as the root or as a backup; where they do,  *)
(* the next start may make the root of a backup a swap had begun to remove.*)
(* And as long as no rename back was refused (its error is ignored, and    *)
(* the marker goes), whenever the root is away a marker on disk tells where*)
(* it went.                                                                *)
RootSurvives ==
  /\ excused \subseteq {"refused"} =>
       root = "whole" \/ \E w \in Swaps : backup[w] = "whole"
  /\ "beside" \notin excused /\ "refused" \notin excused /\ root = "absent" =>
       \E w \in Swaps :
         /\ marker[w] = "whole" /\ backup[w] # "absent"
         /\ "crossed" \notin excused => backup[w] = "whole"
=============================================================================
