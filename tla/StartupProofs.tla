---------------------------- MODULE StartupProofs ----------------------------
(***************************************************************************)
(* Theorems about Startup, for any sets of servers, swaps and identities   *)
(* and any number of starts: the keys agree, the identity is one, and the  *)
(* isolated root survives.                                                 *)
(*                                                                         *)
(* OneWriter says who may still write a key's file; SwapPlace says what a  *)
(* swap has left behind at each of its places, OneByOne what is whole while*)
(* swaps and recoveries do not meet, and KeeperIsThere names the swap whose*)
(* backup a recovery will find.                                            *)
(***************************************************************************)
EXTENDS Startup, TLAPS

(* Behind the two keys, and behind the first of them.                      *)
WithKeys   == {"list", "recover", "apply", "unmark", "pin", "link", "up"}
WithCursor == WithKeys \union {"refresh"}

(* What a start has in hand at each of its places.                         *)
StartPlace ==
  \A s \in Servers :
    /\ pc[s] # "down" => id[s] \in Ids
    /\ pc[s] \in WithCursor => key[s][Cursor] # None
    /\ pc[s] \in WithKeys => key[s][Cache] # None

(* Who created a key's file alone writes it.                               *)
OneWriter ==
  /\ \A s \in Servers : pc[s] = "writeKey" => keyFile[Wanting(s)] = "empty"
  /\ \A s, t \in Servers :
       pc[s] = "writeKey" /\ pc[t] = "writeKey" /\ s # t =>
         Wanting(s) # Wanting(t)

(* No start has looked at the marker of a swap in progress.                *)
Apart == "beside" \notin excused

(* What a swap has in hand at each of its places; its marker and its       *)
(* backup stay while the starts keep apart from it.                        *)
SwapPlace ==
  \A w \in Swaps :
    /\ at[w] = "idle" => marker[w] = "absent"
    /\ at[w] \in {"mark", "write", "look", "away", "promote"} => stage[w] = "whole"
    /\ at[w] = "away" => had[w]
    /\ at[w] \in {"idle", "fill", "mark", "write", "look", "away"} =>
         backup[w] = "absent"
    /\ at[w] = "promote" /\ ~had[w] => backup[w] = "absent"
    /\ Apart =>
         /\ at[w] \in {"look", "away", "promote", "drop"} => marker[w] = "whole"
         /\ at[w] = "promote" /\ had[w] => backup[w] # "absent"

(* A recovery that has looked at a marker holds that of a swap that is over. *)
LooksAtDone ==
  \A s \in Servers :
    pc[s] \in {"apply", "unmark"} =>
      /\ look[s].mark \in Swaps
      /\ Apart => at[look[s].mark] = "done"

(* While swaps and recoveries do not meet: a whole tree is left, and the   *)
(* root is whole wherever a backup may be removed or is removed in part.   *)
WholeIsLeft ==
  root = "absent" => \E w \in Swaps : backup[w] = "whole"

PartsAreSpare ==
  /\ root # "part"
  /\ \A w \in Swaps :
       /\ backup[w] = "part" /\ marker[w] = "whole" => root = "whole"
       /\ at[w] = "promote" => backup[w] # "part"
       /\ at[w] = "drop" => root = "whole"
  /\ \A s \in Servers : pc[s] = "apply" =>
       /\ look[s].verdict = "clean" => root = "whole"
       /\ look[s].verdict = "restore" /\ backup[look[s].mark] = "part" =>
            root = "whole"

OneByOne == Apart /\ "crossed" \notin excused => WholeIsLeft /\ PartsAreSpare

(* The swap that moved the root away last, its marker and backup there; no *)
(* recovery that has looked at it thinks there is nothing to restore.      *)
Keeper(w) ==
  /\ at[w] \in {"promote", "done"}
  /\ backup[w] # "absent" /\ marker[w] = "whole"
  /\ \A s \in Servers :
       pc[s] \in {"apply", "unmark"} /\ look[s].mark = w =>
         pc[s] = "apply" /\ look[s].verdict = "restore"

KeeperIsThere ==
  Apart /\ "refused" \notin excused /\ root = "absent" => \E w \in Swaps : Keeper(w)

StartupInv ==
  /\ TypeOK
  /\ StartPlace
  /\ OneWriter
  /\ KeysAgree
  /\ IdentityIsOne
  /\ SwapPlace
  /\ LooksAtDone
  /\ OneByOne
  /\ KeeperIsThere

-----------------------------------------------------------------------------
(* The type of the trees and of what excuses their loss.                   *)
TreeTypes ==
  /\ root \in {"absent", "part", "whole"}
  /\ backup \in [Swaps -> {"absent", "part", "whole"}]
  /\ excused \subseteq {"beside", "refused", "crossed"}

(* Moves back and removals keep that type.                                 *)
LEMMA TreeSteps ==
  ASSUME TreeTypes, NEW w \in Swaps,
         \/ MoveBack(w) \/ RemoveEntry(w) \/ RemoveEnds(w)
         \/ UNCHANGED <<root, backup, excused>>
  PROVE  TreeTypes'
<1>1. CASE MoveBack(w)
  BY <1>1 DEF MoveBack, TreeTypes
<1>2. CASE RemoveEntry(w)
  BY <1>2 DEF RemoveEntry, TreeTypes
<1>3. CASE RemoveEnds(w)
  BY <1>3 DEF RemoveEnds, TreeTypes
<1>4. CASE UNCHANGED <<root, backup, excused>>
  BY <1>4 DEF TreeTypes
<1> QED
  BY <1>1, <1>2, <1>3, <1>4

(* What the local variables of a swap are once its handler returned.       *)
LEMMA ReturnTypes ==
  ASSUME TypeOK, NEW w \in Swaps, Returns(w)
  PROVE  by' \in [Swaps -> Servers \union {None}] /\ had' \in [Swaps -> BOOLEAN]
<1>1. by' \in [Swaps -> Servers \union {None}]
  BY DEF TypeOK, Returns
<1>2. had' \in [Swaps -> BOOLEAN]
  BY DEF TypeOK, Returns
<1> QED
  BY <1>1, <1>2

(* Every step keeps every variable within its type.                        *)
LEMMA NextTypes ==
  ASSUME TypeOK, SwapPlace, LooksAtDone, [Next]_vars
  PROVE  TypeOK'
<1> USE NamesAssumption, KeysAssumption, BoundAssumption
        DEF Apart, SwapPlace, LooksAtDone, Verdict, TypeOK, Starting, InSwap, Keys, Wanting, NoKeys, NoLook, Up, Alive,
         Goto, Stops, Fail, HoldKey, Out, Returns, Step, vars, server, secret,
         recov, swap, tree
<1>1. ASSUME NEW s \in Servers, Open(s)
      PROVE  TypeOK'
  <2>1. CASE OpenRoot(s)
    BY <2>1 DEF OpenRoot
  <2>2. CASE OpenBlocked(s)
    BY <2>2 DEF OpenBlocked
  <2>3. CASE PrepareIdentity(s)
    BY <2>3 DEF PrepareIdentity
  <2>4. CASE RefuseIdentity(s)
    BY <2>4 DEF RefuseIdentity
  <2>5. CASE ReadKey(s)
    <3>1. PICK k \in Keys : k = Wanting(s)
      OBVIOUS
    <3>2. CASE keyFile[k] \in Servers /\ HoldKey(s, k, keyFile[k])
      BY <2>5, <3>1, <3>2 DEF ReadKey
    <3>3. CASE keyFile[k] = "absent" /\ Goto(s, "createKey") /\ UNCHANGED key
      BY <2>5, <3>1, <3>3 DEF ReadKey
    <3> QED
      BY <2>5, <3>1, <3>2, <3>3 DEF ReadKey
  <2>6. CASE ReadShortKey(s)
    BY <2>6 DEF ReadShortKey
  <2>7. CASE CreateKey(s)
    <3>1. PICK k \in Keys : k = Wanting(s)
      OBVIOUS
    <3>2. keyFile' \in [Keys -> Servers \union {"absent", "empty"}]
      BY <2>7, <3>1 DEF CreateKey
    <3>3. \E label \in Starting : pc' = [pc EXCEPT ![s] = label]
      BY <2>7 DEF CreateKey
    <3> QED
      BY <2>7, <3>2, <3>3 DEF CreateKey
  <2>8. CASE WriteKey(s)
    BY <2>8 DEF WriteKey
  <2>9. CASE Refreshed(s)
    BY <2>9 DEF Refreshed
  <2>10. CASE ListMarkers(s)
    BY <2>10 DEF ListMarkers
  <2>11. CASE ApplyVerdict(s)
    <3>1. TreeTypes'
      BY <2>11, TreeSteps DEF ApplyVerdict, TreeTypes
    <3> QED
      BY <2>11, <3>1 DEF ApplyVerdict, TreeTypes
  <2>12. CASE RemoveMarker(s)
    BY <2>12 DEF RemoveMarker
  <2>13. CASE Recovered(s)
    BY <2>13 DEF Recovered
  <2>14. CASE CheckPin(s)
    BY <2>14 DEF CheckPin
  <2>15. CASE RefusePin(s)
    BY <2>15 DEF RefusePin
  <2>16. CASE LinkPin(s)
    BY <2>16 DEF LinkPin
  <2>17. ASSUME NEW w \in Swaps, SkipMarker(s, w)
        PROVE  TypeOK'
    BY <2>17 DEF SkipMarker
  <2>18. ASSUME NEW w \in Swaps, LookAtMarker(s, w)
        PROVE  TypeOK'
    BY <2>18 DEF LookAtMarker
  <2>19. CASE RemoveBackup(s)
    <3>1. TreeTypes'
      BY <2>19, TreeSteps DEF RemoveBackup, TreeTypes
    <3> QED
      BY <2>19, <3>1 DEF RemoveBackup, TreeTypes
  <2> QED
    BY <1>1, <2>1, <2>2, <2>3, <2>4, <2>5, <2>6, <2>7, <2>8, <2>9, <2>10,
       <2>11, <2>12, <2>13, <2>14, <2>15, <2>16, <2>17, <2>18, <2>19 DEF Open
<1>2. ASSUME NEW s \in Servers, Crash(s)
      PROVE  TypeOK'
  BY <1>2 DEF Crash
<1>3. ASSUME NEW w \in Swaps, Materialize(w)
      PROVE  TypeOK'
  <2>1. CASE FillStage(w)
    <3>1. at' \in [Swaps -> InSwap \union {"idle", "done"}]
      BY <2>1 DEF FillStage
    <3>2. stage' \in [Swaps -> {"absent", "part", "whole"}]
      BY <2>1 DEF FillStage
    <3> QED
      BY <2>1, <3>1, <3>2 DEF FillStage
  <2>2. CASE CreateMarker(w)
    BY <2>2 DEF CreateMarker
  <2>3. CASE WriteMarker(w)
    <3>1. at' \in [Swaps -> InSwap \union {"idle", "done"}]
      BY <2>3 DEF WriteMarker
    <3>2. stage' \in [Swaps -> {"absent", "part", "whole"}]
      BY <2>3 DEF WriteMarker
    <3>3. marker' \in [Swaps -> {"absent", "torn", "whole"}]
      BY <2>3 DEF WriteMarker
    <3>4. by' \in [Swaps -> Servers \union {None}] /\ had' \in [Swaps -> BOOLEAN]
      <4>1. UNCHANGED <<by, had>> \/ Returns(w)
        BY <2>3, Zenon DEF WriteMarker
      <4> QED
        BY <4>1, ReturnTypes
    <3> QED
      BY <2>3, <3>1, <3>2, <3>3, <3>4 DEF WriteMarker
  <2>4. CASE LookAtRoot(w)
    BY <2>4 DEF LookAtRoot
  <2>5. CASE MoveAway(w)
    <3>1. at' \in [Swaps -> InSwap \union {"idle", "done"}]
      BY <2>5 DEF MoveAway
    <3>2. TreeTypes'
      <4>1. CASE UNCHANGED <<root, backup, excused>>
        BY <4>1 DEF TreeTypes
      <4>2. CASE /\ backup' = [backup EXCEPT ![w] = root]
                 /\ root' = "absent"
                 /\ excused' \in {excused, excused \union {"crossed"}}
        BY <4>2 DEF TreeTypes
      <4>3. \/ UNCHANGED <<root, backup, excused>>
            \/ /\ backup' = [backup EXCEPT ![w] = root]
               /\ root' = "absent"
               /\ \/ excused' = excused \union {}
                  \/ excused' = excused \union {"crossed"}
        BY <2>5 DEF MoveAway
      <4>4. excused \union {} = excused
        OBVIOUS
      <4> QED
        BY <4>1, <4>2, <4>3, <4>4
    <3> QED
      BY <2>5, <3>1, <3>2 DEF MoveAway, TreeTypes
  <2>6. CASE Promote(w)
    BY <2>6 DEF Promote
  <2>7. CASE PromoteFails(w)
    <3>1. at' \in [Swaps -> InSwap \union {"idle", "done"}]
      BY <2>7 DEF PromoteFails
    <3>2. TreeTypes'
      BY <2>7, TreeSteps DEF PromoteFails, TreeTypes
    <3> QED
      BY <2>7, <3>1, <3>2 DEF PromoteFails, TreeTypes
  <2>8. CASE DropBackup(w)
    <3>1. TreeTypes'
      BY <2>8, TreeSteps DEF DropBackup, TreeTypes
    <3> QED
      BY <2>8, <3>1 DEF DropBackup, TreeTypes
  <2>9. CASE CloseSwap(w)
    BY <2>9 DEF CloseSwap
  <2>10. CASE DropEntry(w)
    <3>1. TreeTypes'
      BY <2>10, TreeSteps DEF DropEntry, TreeTypes
    <3> QED
      BY <2>10, <3>1 DEF DropEntry, TreeTypes
  <2> QED
    BY <1>3, <2>1, <2>2, <2>3, <2>4, <2>5, <2>6, <2>7, <2>8, <2>9, <2>10 DEF
       Materialize
<1>4. ASSUME NEW w \in Swaps, NEW s \in Servers, MakeStage(w, s)
      PROVE  TypeOK'
  BY <1>4 DEF MakeStage
<1>5. CASE MakeRoot
  BY <1>5 DEF MakeRoot
<1>6. CASE UNCHANGED vars
  BY <1>6
<1> QED
  BY <1>1, <1>2, <1>3, <1>4, <1>5, <1>6 DEF Next

(* A key is read or written before a start goes on.                        *)
LEMMA NextStart ==
  ASSUME TypeOK, StartPlace, [Next]_vars
  PROVE  StartPlace'
<1> USE NamesAssumption, KeysAssumption
        DEF StartPlace, WithKeys, WithCursor,
         TypeOK, Starting, InSwap, Keys, Wanting, NoKeys, NoLook, Up, Alive,
         Goto, Stops, Fail, HoldKey, MoveBack, RemoveEntry, RemoveEnds, Out, Returns, Step, vars, server, secret,
         recov, swap, tree
<1>1. ASSUME NEW s \in Servers, Open(s)
      PROVE  StartPlace'
  <2>1. CASE OpenRoot(s)
    BY <2>1 DEF OpenRoot
  <2>2. CASE OpenBlocked(s)
    BY <2>2 DEF OpenBlocked
  <2>3. CASE PrepareIdentity(s)
    BY <2>3 DEF PrepareIdentity
  <2>4. CASE RefuseIdentity(s)
    BY <2>4 DEF RefuseIdentity
  <2>5. CASE ReadKey(s)
    <3>1. PICK k \in Keys : k = Wanting(s)
      OBVIOUS
    <3>2. CASE keyFile[k] \in Servers /\ HoldKey(s, k, keyFile[k])
      BY <2>5, <3>1, <3>2 DEF ReadKey
    <3>3. CASE keyFile[k] = "absent" /\ Goto(s, "createKey") /\ UNCHANGED key
      BY <2>5, <3>1, <3>3 DEF ReadKey
    <3> QED
      BY <2>5, <3>1, <3>2, <3>3 DEF ReadKey
  <2>6. CASE ReadShortKey(s)
    BY <2>6 DEF ReadShortKey
  <2>7. CASE CreateKey(s)
    BY <2>7 DEF CreateKey
  <2>8. CASE WriteKey(s)
    BY <2>8 DEF WriteKey
  <2>9. CASE Refreshed(s)
    BY <2>9 DEF Refreshed
  <2>10. CASE ListMarkers(s)
    BY <2>10 DEF ListMarkers
  <2>11. CASE ApplyVerdict(s)
    BY <2>11 DEF ApplyVerdict
  <2>12. CASE RemoveMarker(s)
    BY <2>12 DEF RemoveMarker
  <2>13. CASE Recovered(s)
    BY <2>13 DEF Recovered
  <2>14. CASE CheckPin(s)
    BY <2>14 DEF CheckPin
  <2>15. CASE RefusePin(s)
    BY <2>15 DEF RefusePin
  <2>16. CASE LinkPin(s)
    BY <2>16 DEF LinkPin
  <2>17. ASSUME NEW w \in Swaps, SkipMarker(s, w)
        PROVE  StartPlace'
    BY <2>17 DEF SkipMarker
  <2>18. ASSUME NEW w \in Swaps, LookAtMarker(s, w)
        PROVE  StartPlace'
    BY <2>18 DEF LookAtMarker
  <2>19. CASE RemoveBackup(s)
    BY <2>19 DEF RemoveBackup
  <2> QED
    BY <1>1, <2>1, <2>2, <2>3, <2>4, <2>5, <2>6, <2>7, <2>8, <2>9, <2>10,
       <2>11, <2>12, <2>13, <2>14, <2>15, <2>16, <2>17, <2>18, <2>19 DEF Open
<1>2. ASSUME NEW s \in Servers, Crash(s)
      PROVE  StartPlace'
  BY <1>2 DEF Crash
<1>3. ASSUME NEW w \in Swaps, Materialize(w)
      PROVE  StartPlace'
  BY <1>3 DEF Materialize, FillStage, CreateMarker, WriteMarker, LookAtRoot,
     MoveAway, Promote, PromoteFails, DropEntry, DropBackup, CloseSwap
<1>4. ASSUME NEW w \in Swaps, NEW s \in Servers, MakeStage(w, s)
      PROVE  StartPlace'
  BY <1>4 DEF MakeStage
<1>5. CASE MakeRoot
  BY <1>5 DEF MakeRoot
<1>6. CASE UNCHANGED vars
  BY <1>6
<1> QED
  BY <1>1, <1>2, <1>3, <1>4, <1>5, <1>6 DEF Next

(* O_EXCL lets one server create a key's file.                             *)
LEMMA NextWriter ==
  ASSUME TypeOK, OneWriter, [Next]_vars
  PROVE  OneWriter'
<1> USE NamesAssumption, KeysAssumption
        DEF OneWriter, TypeOK, Starting, InSwap, Keys, Wanting, NoKeys, NoLook, Up, Alive,
         Goto, Stops, Fail, HoldKey, MoveBack, RemoveEntry, RemoveEnds, Out, Returns, Step, vars, server, secret,
         recov, swap, tree
<1>1. ASSUME NEW s \in Servers, Open(s)
      PROVE  OneWriter'
  <2>1. CASE OpenRoot(s)
    BY <2>1 DEF OpenRoot
  <2>2. CASE OpenBlocked(s)
    BY <2>2 DEF OpenBlocked
  <2>3. CASE PrepareIdentity(s)
    BY <2>3 DEF PrepareIdentity
  <2>4. CASE RefuseIdentity(s)
    BY <2>4 DEF RefuseIdentity
  <2>5. CASE ReadKey(s)
    <3>1. PICK k \in Keys : k = Wanting(s)
      OBVIOUS
    <3>2. CASE keyFile[k] \in Servers /\ HoldKey(s, k, keyFile[k])
      BY <2>5, <3>1, <3>2 DEF ReadKey
    <3>3. CASE keyFile[k] = "absent" /\ Goto(s, "createKey") /\ UNCHANGED key
      BY <2>5, <3>1, <3>3 DEF ReadKey
    <3> QED
      BY <2>5, <3>1, <3>2, <3>3 DEF ReadKey
  <2>6. CASE ReadShortKey(s)
    BY <2>6 DEF ReadShortKey
  <2>7. CASE CreateKey(s)
    BY <2>7 DEF CreateKey
  <2>8. CASE WriteKey(s)
    BY <2>8 DEF WriteKey
  <2>9. CASE Refreshed(s)
    BY <2>9 DEF Refreshed
  <2>10. CASE ListMarkers(s)
    BY <2>10 DEF ListMarkers
  <2>11. CASE ApplyVerdict(s)
    BY <2>11 DEF ApplyVerdict
  <2>12. CASE RemoveMarker(s)
    BY <2>12 DEF RemoveMarker
  <2>13. CASE Recovered(s)
    BY <2>13 DEF Recovered
  <2>14. CASE CheckPin(s)
    BY <2>14 DEF CheckPin
  <2>15. CASE RefusePin(s)
    BY <2>15 DEF RefusePin
  <2>16. CASE LinkPin(s)
    BY <2>16 DEF LinkPin
  <2>17. ASSUME NEW w \in Swaps, SkipMarker(s, w)
        PROVE  OneWriter'
    BY <2>17 DEF SkipMarker
  <2>18. ASSUME NEW w \in Swaps, LookAtMarker(s, w)
        PROVE  OneWriter'
    BY <2>18 DEF LookAtMarker
  <2>19. CASE RemoveBackup(s)
    BY <2>19 DEF RemoveBackup
  <2> QED
    BY <1>1, <2>1, <2>2, <2>3, <2>4, <2>5, <2>6, <2>7, <2>8, <2>9, <2>10,
       <2>11, <2>12, <2>13, <2>14, <2>15, <2>16, <2>17, <2>18, <2>19 DEF Open
<1>2. ASSUME NEW s \in Servers, Crash(s)
      PROVE  OneWriter'
  BY <1>2 DEF Crash
<1>3. ASSUME NEW w \in Swaps, Materialize(w)
      PROVE  OneWriter'
  BY <1>3 DEF Materialize, FillStage, CreateMarker, WriteMarker, LookAtRoot,
     MoveAway, Promote, PromoteFails, DropEntry, DropBackup, CloseSwap
<1>4. ASSUME NEW w \in Swaps, NEW s \in Servers, MakeStage(w, s)
      PROVE  OneWriter'
  BY <1>4 DEF MakeStage
<1>5. CASE MakeRoot
  BY <1>5 DEF MakeRoot
<1>6. CASE UNCHANGED vars
  BY <1>6
<1> QED
  BY <1>1, <1>2, <1>3, <1>4, <1>5, <1>6 DEF Next

(* A key that was read or written is not written again.                    *)
LEMMA NextKeys ==
  ASSUME TypeOK, OneWriter, KeysAgree, [Next]_vars
  PROVE  KeysAgree'
<1> USE NamesAssumption, KeysAssumption
        DEF OneWriter, KeysAgree, TypeOK, Starting, InSwap, Keys, Wanting, NoKeys, NoLook, Up, Alive,
         Goto, Stops, Fail, HoldKey, MoveBack, RemoveEntry, RemoveEnds, Out, Returns, Step, vars, server, secret,
         recov, swap, tree
<1>1. ASSUME NEW s \in Servers, Open(s)
      PROVE  KeysAgree'
  <2>1. CASE OpenRoot(s)
    BY <2>1 DEF OpenRoot
  <2>2. CASE OpenBlocked(s)
    BY <2>2 DEF OpenBlocked
  <2>3. CASE PrepareIdentity(s)
    BY <2>3 DEF PrepareIdentity
  <2>4. CASE RefuseIdentity(s)
    BY <2>4 DEF RefuseIdentity
  <2>5. CASE ReadKey(s)
    <3>1. PICK k \in Keys : k = Wanting(s)
      OBVIOUS
    <3>2. CASE keyFile[k] \in Servers /\ HoldKey(s, k, keyFile[k])
      BY <2>5, <3>1, <3>2 DEF ReadKey
    <3>3. CASE keyFile[k] = "absent" /\ Goto(s, "createKey") /\ UNCHANGED key
      BY <2>5, <3>1, <3>3 DEF ReadKey
    <3> QED
      BY <2>5, <3>1, <3>2, <3>3 DEF ReadKey
  <2>6. CASE ReadShortKey(s)
    BY <2>6 DEF ReadShortKey
  <2>7. CASE CreateKey(s)
    BY <2>7 DEF CreateKey
  <2>8. CASE WriteKey(s)
    BY <2>8 DEF WriteKey
  <2>9. CASE Refreshed(s)
    BY <2>9 DEF Refreshed
  <2>10. CASE ListMarkers(s)
    BY <2>10 DEF ListMarkers
  <2>11. CASE ApplyVerdict(s)
    BY <2>11 DEF ApplyVerdict
  <2>12. CASE RemoveMarker(s)
    BY <2>12 DEF RemoveMarker
  <2>13. CASE Recovered(s)
    BY <2>13 DEF Recovered
  <2>14. CASE CheckPin(s)
    BY <2>14 DEF CheckPin
  <2>15. CASE RefusePin(s)
    BY <2>15 DEF RefusePin
  <2>16. CASE LinkPin(s)
    BY <2>16 DEF LinkPin
  <2>17. ASSUME NEW w \in Swaps, SkipMarker(s, w)
        PROVE  KeysAgree'
    BY <2>17 DEF SkipMarker
  <2>18. ASSUME NEW w \in Swaps, LookAtMarker(s, w)
        PROVE  KeysAgree'
    BY <2>18 DEF LookAtMarker
  <2>19. CASE RemoveBackup(s)
    BY <2>19 DEF RemoveBackup
  <2> QED
    BY <1>1, <2>1, <2>2, <2>3, <2>4, <2>5, <2>6, <2>7, <2>8, <2>9, <2>10,
       <2>11, <2>12, <2>13, <2>14, <2>15, <2>16, <2>17, <2>18, <2>19 DEF Open
<1>2. ASSUME NEW s \in Servers, Crash(s)
      PROVE  KeysAgree'
  BY <1>2 DEF Crash
<1>3. ASSUME NEW w \in Swaps, Materialize(w)
      PROVE  KeysAgree'
  BY <1>3 DEF Materialize, FillStage, CreateMarker, WriteMarker, LookAtRoot,
     MoveAway, Promote, PromoteFails, DropEntry, DropBackup, CloseSwap
<1>4. ASSUME NEW w \in Swaps, NEW s \in Servers, MakeStage(w, s)
      PROVE  KeysAgree'
  BY <1>4 DEF MakeStage
<1>5. CASE MakeRoot
  BY <1>5 DEF MakeRoot
<1>6. CASE UNCHANGED vars
  BY <1>6
<1> QED
  BY <1>1, <1>2, <1>3, <1>4, <1>5, <1>6 DEF Next

(* An identity is linked once, by a server that has both keys.             *)
LEMMA NextIdentity ==
  ASSUME TypeOK, StartPlace, OneWriter, KeysAgree, IdentityIsOne, [Next]_vars
  PROVE  IdentityIsOne'
<1> USE NamesAssumption, KeysAssumption
        DEF StartPlace, WithKeys, WithCursor, OneWriter, KeysAgree,
         IdentityIsOne, TypeOK, Starting, InSwap, Keys, Wanting, NoKeys, NoLook, Up, Alive,
         Goto, Stops, Fail, HoldKey, MoveBack, RemoveEntry, RemoveEnds, Out, Returns, Step, vars, server, secret,
         recov, swap, tree
<1>1. ASSUME NEW s \in Servers, Open(s)
      PROVE  IdentityIsOne'
  <2>1. CASE OpenRoot(s)
    BY <2>1 DEF OpenRoot
  <2>2. CASE OpenBlocked(s)
    BY <2>2 DEF OpenBlocked
  <2>3. CASE PrepareIdentity(s)
    BY <2>3 DEF PrepareIdentity
  <2>4. CASE RefuseIdentity(s)
    BY <2>4 DEF RefuseIdentity
  <2>5. CASE ReadKey(s)
    BY <2>5 DEF ReadKey
  <2>6. CASE ReadShortKey(s)
    BY <2>6 DEF ReadShortKey
  <2>7. CASE CreateKey(s)
    BY <2>7 DEF CreateKey
  <2>8. CASE WriteKey(s)
    BY <2>8 DEF WriteKey
  <2>9. CASE Refreshed(s)
    BY <2>9 DEF Refreshed
  <2>10. CASE ListMarkers(s)
    BY <2>10 DEF ListMarkers
  <2>11. CASE ApplyVerdict(s)
    BY <2>11 DEF ApplyVerdict
  <2>12. CASE RemoveMarker(s)
    BY <2>12 DEF RemoveMarker
  <2>13. CASE Recovered(s)
    BY <2>13 DEF Recovered
  <2>14. CASE CheckPin(s)
    BY <2>14 DEF CheckPin
  <2>15. CASE RefusePin(s)
    BY <2>15 DEF RefusePin
  <2>16. CASE LinkPin(s)
    BY <2>16 DEF LinkPin
  <2>17. ASSUME NEW w \in Swaps, SkipMarker(s, w)
        PROVE  IdentityIsOne'
    BY <2>17 DEF SkipMarker
  <2>18. ASSUME NEW w \in Swaps, LookAtMarker(s, w)
        PROVE  IdentityIsOne'
    BY <2>18 DEF LookAtMarker
  <2>19. CASE RemoveBackup(s)
    BY <2>19 DEF RemoveBackup
  <2> QED
    BY <1>1, <2>1, <2>2, <2>3, <2>4, <2>5, <2>6, <2>7, <2>8, <2>9, <2>10,
       <2>11, <2>12, <2>13, <2>14, <2>15, <2>16, <2>17, <2>18, <2>19 DEF Open
<1>2. ASSUME NEW s \in Servers, Crash(s)
      PROVE  IdentityIsOne'
  BY <1>2 DEF Crash
<1>3. ASSUME NEW w \in Swaps, Materialize(w)
      PROVE  IdentityIsOne'
  BY <1>3 DEF Materialize, FillStage, CreateMarker, WriteMarker, LookAtRoot,
     MoveAway, Promote, PromoteFails, DropEntry, DropBackup, CloseSwap
<1>4. ASSUME NEW w \in Swaps, NEW s \in Servers, MakeStage(w, s)
      PROVE  IdentityIsOne'
  BY <1>4 DEF MakeStage
<1>5. CASE MakeRoot
  BY <1>5 DEF MakeRoot
<1>6. CASE UNCHANGED vars
  BY <1>6
<1> QED
  BY <1>1, <1>2, <1>3, <1>4, <1>5, <1>6 DEF Next

(* What a swap left behind is there unless a start looked at its marker.   *)
LEMMA NextSwap ==
  ASSUME TypeOK, SwapPlace, LooksAtDone, [Next]_vars
  PROVE  SwapPlace'
<1> USE NamesAssumption, KeysAssumption
        DEF Apart, SwapPlace, LooksAtDone, TypeOK, Starting, InSwap, Keys, Wanting, NoKeys, NoLook, Up, Alive,
         Goto, Stops, Fail, HoldKey, MoveBack, RemoveEntry, RemoveEnds, Out, Returns, Step, vars, server, secret,
         recov, swap, tree
<1>1. ASSUME NEW s \in Servers, Open(s)
      PROVE  SwapPlace'
  <2>1. CASE OpenRoot(s)
    BY <2>1 DEF OpenRoot
  <2>2. CASE OpenBlocked(s)
    BY <2>2 DEF OpenBlocked
  <2>3. CASE PrepareIdentity(s)
    BY <2>3 DEF PrepareIdentity
  <2>4. CASE RefuseIdentity(s)
    BY <2>4 DEF RefuseIdentity
  <2>5. CASE ReadKey(s)
    BY <2>5 DEF ReadKey
  <2>6. CASE ReadShortKey(s)
    BY <2>6 DEF ReadShortKey
  <2>7. CASE CreateKey(s)
    BY <2>7 DEF CreateKey
  <2>8. CASE WriteKey(s)
    BY <2>8 DEF WriteKey
  <2>9. CASE Refreshed(s)
    BY <2>9 DEF Refreshed
  <2>10. CASE ListMarkers(s)
    BY <2>10 DEF ListMarkers
  <2>11. CASE ApplyVerdict(s)
    BY <2>11 DEF ApplyVerdict
  <2>12. CASE RemoveMarker(s)
    BY <2>12 DEF RemoveMarker
  <2>13. CASE Recovered(s)
    BY <2>13 DEF Recovered
  <2>14. CASE CheckPin(s)
    BY <2>14 DEF CheckPin
  <2>15. CASE RefusePin(s)
    BY <2>15 DEF RefusePin
  <2>16. CASE LinkPin(s)
    BY <2>16 DEF LinkPin
  <2>17. ASSUME NEW w \in Swaps, SkipMarker(s, w)
        PROVE  SwapPlace'
    BY <2>17 DEF SkipMarker
  <2>18. ASSUME NEW w \in Swaps, LookAtMarker(s, w)
        PROVE  SwapPlace'
    BY <2>18 DEF LookAtMarker
  <2>19. CASE RemoveBackup(s)
    BY <2>19 DEF RemoveBackup
  <2> QED
    BY <1>1, <2>1, <2>2, <2>3, <2>4, <2>5, <2>6, <2>7, <2>8, <2>9, <2>10,
       <2>11, <2>12, <2>13, <2>14, <2>15, <2>16, <2>17, <2>18, <2>19 DEF Open
<1>2. ASSUME NEW s \in Servers, Crash(s)
      PROVE  SwapPlace'
  BY <1>2 DEF Crash
<1>3. ASSUME NEW w \in Swaps, Materialize(w)
      PROVE  SwapPlace'
  <2>1. CASE FillStage(w)
    BY <2>1 DEF FillStage
  <2>2. CASE CreateMarker(w)
    BY <2>2 DEF CreateMarker
  <2>3. CASE WriteMarker(w)
    BY <2>3 DEF WriteMarker
  <2>4. CASE LookAtRoot(w)
    <3>1. ASSUME NEW v \in Swaps \ {w}
          PROVE  at'[v] = at[v] /\ had'[v] = had[v]
      BY <2>4 DEF LookAtRoot
    <3>2. /\ at[w] = "look"
          /\ \/ at'[w] = "away" /\ had'[w]
             \/ at'[w] = "promote" /\ ~had'[w]
      <4>1. CASE root = "absent"
        BY <2>4, <4>1 DEF LookAtRoot
      <4>2. CASE root # "absent"
        <5>1. had' = [had EXCEPT ![w] = TRUE]
          BY <2>4, <4>2 DEF LookAtRoot
        <5>2. at[w] = "look" /\ at' = [at EXCEPT ![w] = "away"]
          BY <2>4, <4>2 DEF LookAtRoot
        <5> QED
          BY <5>1, <5>2
      <4> QED
        BY <4>1, <4>2
    <3>3. UNCHANGED <<stage, backup, marker, excused>>
      BY <2>4 DEF LookAtRoot
    <3> QED
      BY <3>1, <3>2, <3>3
  <2>5. CASE MoveAway(w)
    BY <2>5 DEF MoveAway
  <2>6. CASE Promote(w)
    BY <2>6 DEF Promote
  <2>7. CASE PromoteFails(w)
    BY <2>7 DEF PromoteFails
  <2>8. CASE DropBackup(w)
    BY <2>8 DEF DropBackup
  <2>9. CASE CloseSwap(w)
    BY <2>9 DEF CloseSwap
  <2>10. CASE DropEntry(w)
    BY <2>10 DEF DropEntry
  <2> QED
    BY <1>3, <2>1, <2>2, <2>3, <2>4, <2>5, <2>6, <2>7, <2>8, <2>9, <2>10 DEF
       Materialize
<1>4. ASSUME NEW w \in Swaps, NEW s \in Servers, MakeStage(w, s)
      PROVE  SwapPlace'
  BY <1>4 DEF MakeStage
<1>5. CASE MakeRoot
  BY <1>5 DEF MakeRoot
<1>6. CASE UNCHANGED vars
  BY <1>6
<1> QED
  BY <1>1, <1>2, <1>3, <1>4, <1>5, <1>6 DEF Next

(* A swap that is over stays so.                                           *)
LEMMA NextLook ==
  ASSUME TypeOK, SwapPlace, LooksAtDone, [Next]_vars
  PROVE  LooksAtDone'
<1> USE NamesAssumption, KeysAssumption
        DEF Apart, SwapPlace, LooksAtDone, TypeOK, Starting, InSwap, Keys, Wanting, NoKeys, NoLook, Up, Alive,
         Goto, Stops, Fail, HoldKey, MoveBack, RemoveEntry, RemoveEnds, Out, Returns, Step, vars, server, secret,
         recov, swap, tree
<1>1. ASSUME NEW s \in Servers, Open(s)
      PROVE  LooksAtDone'
  <2>1. CASE OpenRoot(s)
    BY <2>1 DEF OpenRoot
  <2>2. CASE OpenBlocked(s)
    BY <2>2 DEF OpenBlocked
  <2>3. CASE PrepareIdentity(s)
    BY <2>3 DEF PrepareIdentity
  <2>4. CASE RefuseIdentity(s)
    BY <2>4 DEF RefuseIdentity
  <2>5. CASE ReadKey(s)
    BY <2>5 DEF ReadKey
  <2>6. CASE ReadShortKey(s)
    BY <2>6 DEF ReadShortKey
  <2>7. CASE CreateKey(s)
    BY <2>7 DEF CreateKey
  <2>8. CASE WriteKey(s)
    BY <2>8 DEF WriteKey
  <2>9. CASE Refreshed(s)
    BY <2>9 DEF Refreshed
  <2>10. CASE ListMarkers(s)
    BY <2>10 DEF ListMarkers
  <2>11. CASE ApplyVerdict(s)
    BY <2>11 DEF ApplyVerdict
  <2>12. CASE RemoveMarker(s)
    BY <2>12 DEF RemoveMarker
  <2>13. CASE Recovered(s)
    BY <2>13 DEF Recovered
  <2>14. CASE CheckPin(s)
    BY <2>14 DEF CheckPin
  <2>15. CASE RefusePin(s)
    BY <2>15 DEF RefusePin
  <2>16. CASE LinkPin(s)
    BY <2>16 DEF LinkPin
  <2>17. ASSUME NEW w \in Swaps, SkipMarker(s, w)
        PROVE  LooksAtDone'
    BY <2>17 DEF SkipMarker
  <2>18. ASSUME NEW w \in Swaps, LookAtMarker(s, w)
        PROVE  LooksAtDone'
    <3>1. look'[s].mark = w /\ w \in Swaps
      BY <2>18 DEF LookAtMarker
    <3>2. Apart' => at[w] = "done"
      <4>1. marker[w] = "whole" /\ (Alive(w) => ~Apart')
        BY <2>18 DEF LookAtMarker
      <4>2. at[w] # "idle"
        BY <4>1
      <4> QED
        BY <4>1, <4>2
    <3>3. ASSUME NEW t \in Servers \ {s}
          PROVE  pc'[t] = pc[t] /\ look'[t] = look[t]
      BY <2>18 DEF LookAtMarker
    <3>4. UNCHANGED at /\ (Apart' => Apart)
      BY <2>18 DEF LookAtMarker
    <3> QED
      BY <3>1, <3>2, <3>3, <3>4
  <2>19. CASE RemoveBackup(s)
    BY <2>19 DEF RemoveBackup
  <2> QED
    BY <1>1, <2>1, <2>2, <2>3, <2>4, <2>5, <2>6, <2>7, <2>8, <2>9, <2>10,
       <2>11, <2>12, <2>13, <2>14, <2>15, <2>16, <2>17, <2>18, <2>19 DEF Open
<1>2. ASSUME NEW s \in Servers, Crash(s)
      PROVE  LooksAtDone'
  BY <1>2 DEF Crash
<1>3. ASSUME NEW w \in Swaps, Materialize(w)
      PROVE  LooksAtDone'
  <2>1. CASE FillStage(w)
    BY <2>1 DEF FillStage
  <2>2. CASE CreateMarker(w)
    BY <2>2 DEF CreateMarker
  <2>3. CASE WriteMarker(w)
    BY <2>3 DEF WriteMarker
  <2>4. CASE LookAtRoot(w)
    BY <2>4 DEF LookAtRoot
  <2>5. CASE MoveAway(w)
    BY <2>5 DEF MoveAway
  <2>6. CASE Promote(w)
    BY <2>6 DEF Promote
  <2>7. CASE PromoteFails(w)
    BY <2>7 DEF PromoteFails
  <2>8. CASE DropBackup(w)
    BY <2>8 DEF DropBackup
  <2>9. CASE CloseSwap(w)
    BY <2>9 DEF CloseSwap
  <2>10. CASE DropEntry(w)
    BY <2>10 DEF DropEntry
  <2> QED
    BY <1>3, <2>1, <2>2, <2>3, <2>4, <2>5, <2>6, <2>7, <2>8, <2>9, <2>10 DEF
       Materialize
<1>4. ASSUME NEW w \in Swaps, NEW s \in Servers, MakeStage(w, s)
      PROVE  LooksAtDone'
  BY <1>4 DEF MakeStage
<1>5. CASE MakeRoot
  BY <1>5 DEF MakeRoot
<1>6. CASE UNCHANGED vars
  BY <1>6
<1> QED
  BY <1>1, <1>2, <1>3, <1>4, <1>5, <1>6 DEF Next

(* One swap or recovery at a time leaves a whole tree.                     *)
LEMMA NextWhole ==
  ASSUME TypeOK, SwapPlace, LooksAtDone, OneByOne, [Next]_vars
  PROVE  OneByOne'
<1> USE NamesAssumption, KeysAssumption
        DEF Apart, SwapPlace, LooksAtDone, OneByOne, WholeIsLeft, PartsAreSpare,
         Verdict, TypeOK, Starting, InSwap, Keys, Wanting, NoKeys, NoLook, Up, Alive,
         Goto, Stops, Fail, HoldKey, MoveBack, RemoveEntry, RemoveEnds, Out, Returns, Step, vars, server, secret,
         recov, swap, tree
<1>1. ASSUME NEW s \in Servers, Open(s)
      PROVE  OneByOne'
  <2>1. CASE OpenRoot(s)
    BY <2>1 DEF OpenRoot
  <2>2. CASE OpenBlocked(s)
    BY <2>2 DEF OpenBlocked
  <2>3. CASE PrepareIdentity(s)
    BY <2>3 DEF PrepareIdentity
  <2>4. CASE RefuseIdentity(s)
    BY <2>4 DEF RefuseIdentity
  <2>5. CASE ReadKey(s)
    BY <2>5 DEF ReadKey
  <2>6. CASE ReadShortKey(s)
    BY <2>6 DEF ReadShortKey
  <2>7. CASE CreateKey(s)
    BY <2>7 DEF CreateKey
  <2>8. CASE WriteKey(s)
    BY <2>8 DEF WriteKey
  <2>9. CASE Refreshed(s)
    BY <2>9 DEF Refreshed
  <2>10. CASE ListMarkers(s)
    BY <2>10 DEF ListMarkers
  <2>11. CASE ApplyVerdict(s)
    BY <2>11 DEF ApplyVerdict
  <2>12. CASE RemoveMarker(s)
    BY <2>12 DEF RemoveMarker
  <2>13. CASE Recovered(s)
    BY <2>13 DEF Recovered
  <2>14. CASE CheckPin(s)
    BY <2>14 DEF CheckPin
  <2>15. CASE RefusePin(s)
    BY <2>15 DEF RefusePin
  <2>16. CASE LinkPin(s)
    BY <2>16 DEF LinkPin
  <2>17. ASSUME NEW w \in Swaps, SkipMarker(s, w)
        PROVE  OneByOne'
    BY <2>17 DEF SkipMarker
  <2>18. ASSUME NEW w \in Swaps, LookAtMarker(s, w)
        PROVE  OneByOne'
    BY <2>18 DEF LookAtMarker
  <2>19. CASE RemoveBackup(s)
    BY <2>19 DEF RemoveBackup
  <2> QED
    BY <1>1, <2>1, <2>2, <2>3, <2>4, <2>5, <2>6, <2>7, <2>8, <2>9, <2>10,
       <2>11, <2>12, <2>13, <2>14, <2>15, <2>16, <2>17, <2>18, <2>19 DEF Open
<1>2. ASSUME NEW s \in Servers, Crash(s)
      PROVE  OneByOne'
  BY <1>2 DEF Crash
<1>3. ASSUME NEW w \in Swaps, Materialize(w)
      PROVE  OneByOne'
  <2>1. CASE FillStage(w)
    BY <2>1 DEF FillStage
  <2>2. CASE CreateMarker(w)
    BY <2>2 DEF CreateMarker
  <2>3. CASE WriteMarker(w)
    BY <2>3 DEF WriteMarker
  <2>4. CASE LookAtRoot(w)
    BY <2>4 DEF LookAtRoot
  <2>5. CASE MoveAway(w)
    BY <2>5 DEF MoveAway
  <2>6. CASE Promote(w)
    BY <2>6 DEF Promote
  <2>7. CASE PromoteFails(w)
    BY <2>7 DEF PromoteFails
  <2>8. CASE DropBackup(w)
    BY <2>8 DEF DropBackup
  <2>9. CASE CloseSwap(w)
    BY <2>9 DEF CloseSwap
  <2>10. CASE DropEntry(w)
    BY <2>10 DEF DropEntry
  <2> QED
    BY <1>3, <2>1, <2>2, <2>3, <2>4, <2>5, <2>6, <2>7, <2>8, <2>9, <2>10 DEF
       Materialize
<1>4. ASSUME NEW w \in Swaps, NEW s \in Servers, MakeStage(w, s)
      PROVE  OneByOne'
  BY <1>4 DEF MakeStage
<1>5. CASE MakeRoot
  BY <1>5 DEF MakeRoot
<1>6. CASE UNCHANGED vars
  BY <1>6
<1> QED
  BY <1>1, <1>2, <1>3, <1>4, <1>5, <1>6 DEF Next

(* A root that is moved away is put back before its marker goes.           *)
LEMMA NextKeeper ==
  ASSUME TypeOK, SwapPlace, LooksAtDone, KeeperIsThere, [Next]_vars
  PROVE  KeeperIsThere'
<1> USE NamesAssumption, KeysAssumption
        DEF Apart, SwapPlace, LooksAtDone, KeeperIsThere, Keeper,
         Verdict, TypeOK, Starting, InSwap, Keys, Wanting, NoKeys, NoLook, Up, Alive,
         Goto, Stops, Fail, HoldKey, MoveBack, RemoveEntry, RemoveEnds, Out, Returns, Step, vars, server, secret,
         recov, swap, tree
<1>1. ASSUME NEW s \in Servers, Open(s)
      PROVE  KeeperIsThere'
  <2>1. CASE OpenRoot(s)
    BY <2>1 DEF OpenRoot
  <2>2. CASE OpenBlocked(s)
    BY <2>2 DEF OpenBlocked
  <2>3. CASE PrepareIdentity(s)
    BY <2>3 DEF PrepareIdentity
  <2>4. CASE RefuseIdentity(s)
    BY <2>4 DEF RefuseIdentity
  <2>5. CASE ReadKey(s)
    BY <2>5 DEF ReadKey
  <2>6. CASE ReadShortKey(s)
    BY <2>6 DEF ReadShortKey
  <2>7. CASE CreateKey(s)
    BY <2>7 DEF CreateKey
  <2>8. CASE WriteKey(s)
    BY <2>8 DEF WriteKey
  <2>9. CASE Refreshed(s)
    BY <2>9 DEF Refreshed
  <2>10. CASE ListMarkers(s)
    BY <2>10 DEF ListMarkers
  <2>11. CASE ApplyVerdict(s)
    BY <2>11 DEF ApplyVerdict
  <2>12. CASE RemoveMarker(s)
    BY <2>12 DEF RemoveMarker
  <2>13. CASE Recovered(s)
    BY <2>13 DEF Recovered
  <2>14. CASE CheckPin(s)
    BY <2>14 DEF CheckPin
  <2>15. CASE RefusePin(s)
    BY <2>15 DEF RefusePin
  <2>16. CASE LinkPin(s)
    BY <2>16 DEF LinkPin
  <2>17. ASSUME NEW w \in Swaps, SkipMarker(s, w)
        PROVE  KeeperIsThere'
    BY <2>17 DEF SkipMarker
  <2>18. ASSUME NEW w \in Swaps, LookAtMarker(s, w)
        PROVE  KeeperIsThere'
    BY <2>18 DEF LookAtMarker
  <2>19. CASE RemoveBackup(s)
    BY <2>19 DEF RemoveBackup
  <2> QED
    BY <1>1, <2>1, <2>2, <2>3, <2>4, <2>5, <2>6, <2>7, <2>8, <2>9, <2>10,
       <2>11, <2>12, <2>13, <2>14, <2>15, <2>16, <2>17, <2>18, <2>19 DEF Open
<1>2. ASSUME NEW s \in Servers, Crash(s)
      PROVE  KeeperIsThere'
  BY <1>2 DEF Crash
<1>3. ASSUME NEW w \in Swaps, Materialize(w)
      PROVE  KeeperIsThere'
  <2>1. CASE FillStage(w)
    BY <2>1 DEF FillStage
  <2>2. CASE CreateMarker(w)
    BY <2>2 DEF CreateMarker
  <2>3. CASE WriteMarker(w)
    BY <2>3 DEF WriteMarker
  <2>4. CASE LookAtRoot(w)
    BY <2>4 DEF LookAtRoot
  <2>5. CASE MoveAway(w)
    BY <2>5 DEF MoveAway
  <2>6. CASE Promote(w)
    BY <2>6 DEF Promote
  <2>7. CASE PromoteFails(w)
    BY <2>7 DEF PromoteFails
  <2>8. CASE DropBackup(w)
    BY <2>8 DEF DropBackup
  <2>9. CASE CloseSwap(w)
    BY <2>9 DEF CloseSwap
  <2>10. CASE DropEntry(w)
    BY <2>10 DEF DropEntry
  <2> QED
    BY <1>3, <2>1, <2>2, <2>3, <2>4, <2>5, <2>6, <2>7, <2>8, <2>9, <2>10 DEF
       Materialize
<1>4. ASSUME NEW w \in Swaps, NEW s \in Servers, MakeStage(w, s)
      PROVE  KeeperIsThere'
  BY <1>4 DEF MakeStage
<1>5. CASE MakeRoot
  BY <1>5 DEF MakeRoot
<1>6. CASE UNCHANGED vars
  BY <1>6
<1> QED
  BY <1>1, <1>2, <1>3, <1>4, <1>5, <1>6 DEF Next

-----------------------------------------------------------------------------
(* The first start finds no key, no identity and no swap.                  *)
LEMMA InitStartupInv == Init => StartupInv
<1> SUFFICES ASSUME Init
             PROVE  StartupInv
  OBVIOUS
<1> USE NamesAssumption, KeysAssumption, BoundAssumption
        DEF Init, NoKeys, NoLook, Keys, Up
<1>1. TypeOK
  <2>1. /\ pc \in [Servers -> Starting \union {"down", "up", "blocked"}]
        /\ id \in [Servers -> Ids \union {None}]
        /\ key \in [Servers -> [Keys -> Servers \union {None}]]
    BY DEF Starting
  <2>2. /\ at \in [Swaps -> InSwap \union {"idle", "done"}]
        /\ by \in [Swaps -> Servers \union {None}]
    BY DEF InSwap
  <2>3. look \in [Servers -> [mark : Swaps \union {None},
                              verdict : {"none", "restore", "clean"}]]
    OBVIOUS
  <2>4. /\ starts \in 0 .. MaxStarts
        /\ keyFile \in [Keys -> Servers \union {"absent", "empty"}]
        /\ todo \in [Servers -> SUBSET Swaps]
        /\ had \in [Swaps -> BOOLEAN]
    OBVIOUS
  <2> QED
    BY <2>1, <2>2, <2>3, <2>4 DEF TypeOK
<1>2. StartPlace /\ OneWriter
  BY DEF StartPlace, OneWriter, WithKeys, WithCursor
<1>3. KeysAgree /\ IdentityIsOne
  BY DEF KeysAgree, IdentityIsOne
<1>4. SwapPlace /\ LooksAtDone
  BY DEF SwapPlace, LooksAtDone, Apart
<1>5. OneByOne /\ KeeperIsThere
  BY DEF OneByOne, WholeIsLeft, PartsAreSpare, KeeperIsThere
<1> QED
  BY <1>1, <1>2, <1>3, <1>4, <1>5 DEF StartupInv

(* StartupInv is inductive.                                                *)
LEMMA StartupInvAlways == Spec => []StartupInv
<1>1. StartupInv /\ [Next]_vars => StartupInv'
  BY NextTypes, NextStart, NextWriter, NextKeys, NextIdentity, NextSwap,
     NextLook, NextWhole, NextKeeper DEF StartupInv
<1> QED
  BY InitStartupInv, <1>1, PTL DEF Spec

-----------------------------------------------------------------------------
(* Every variable keeps a value the code can give it.                      *)
THEOREM StartupTypesAlways == Spec => []TypeOK
<1>1. StartupInv => TypeOK
  BY DEF StartupInv
<1> QED
  BY StartupInvAlways, <1>1, PTL

(* Whatever first starts race and crash, every server that holds a key     *)
(* holds the one on disk, all servers that are up serve the identity that  *)
(* is pinned, and none is pinned beside a key that is missing or cut short.*)
THEOREM StartedAlwaysAgree == Spec => []StartedAgree
<1>1. StartupInv => StartedAgree
  BY DEF StartupInv, StartedAgree
<1> QED
  BY StartupInvAlways, <1>1, PTL

(* Wherever swaps, their rollbacks and recoveries stop, a whole tree is    *)
(* left unless they met, and a marker tells where the root went unless a   *)
(* rename back was refused.                                                *)
THEOREM RootAlwaysSurvives == Spec => []RootSurvives
<1>1. ASSUME StartupInv
      PROVE  RootSurvives
  <2>1. ASSUME excused \subseteq {"refused"}
        PROVE  root = "whole" \/ \E w \in Swaps : backup[w] = "whole"
    BY <1>1, <2>1 DEF StartupInv, TypeOK, OneByOne, WholeIsLeft, PartsAreSpare,
       Apart
  <2>2. ASSUME Apart, "refused" \notin excused, root = "absent"
        PROVE  \E w \in Swaps :
                 /\ marker[w] = "whole" /\ backup[w] # "absent"
                 /\ "crossed" \notin excused => backup[w] = "whole"
    BY <1>1, <2>2 DEF StartupInv, TypeOK, OneByOne, PartsAreSpare, KeeperIsThere,
       Keeper
  <2> QED
    BY <2>1, <2>2 DEF RootSurvives, Apart
<1> QED
  BY StartupInvAlways, <1>1, PTL
=============================================================================
