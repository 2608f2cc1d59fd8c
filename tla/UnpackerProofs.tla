--------------------------- MODULE UnpackerProofs ---------------------------
(***************************************************************************)
(* Proofs of the safety properties of Unpacker, for any images, mappings,  *)
(* calls and failures: first those that are about processes, whatever      *)
(* unpack makes of an entry, then that a layer is unpacked to what it      *)
(* means, and that nothing but a failure keeps an image from being made.   *)
(***************************************************************************)
EXTENDS Unpacker, TarUnpackerProofs

(***************************************************************************)
(* The inductive invariant.  A create has at most one call for each layer, *)
(* one after them and one of the command that follows.                     *)
(***************************************************************************)
CallsFit ==
    /\ calls[Now] = "unpack" => Now <= Len(cmd.image)
    /\ calls[Now] \in {"cleanup", "image"} => Now <= Len(cmd.image) + 1

\* Nothing has begun of calls to come.
Untouched(k) == child[k] = "none" /\ inner[k] = "none" /\ ~byte[k] /\ maps[k] = {}

Prepared == parent \in {"volume", "ready"}

NotBegun == \A k \in CallNumbers : k > Now \/ (k = Now /\ Prepared) => Untouched(k)

\* groot sets one map after the other, and both before it writes the byte.
MapsInOrder ==
    /\ parent = "mapUIDs" => maps[Now] = {}
    /\ parent = "mapGIDs" => maps[Now] = Wanted(calls[Now]) \cap {"uid"}
    /\ parent = "signal" => maps[Now] = Wanted(calls[Now])

Over(k) == k < Now \/ parent \in {"returned", "exited"}

(***************************************************************************)
(* Of a call that has begun: the byte comes after the maps and before all  *)
(* that the child does, a working process has a child that waits for it or *)
(* was killed, or groot itself, and what is over has nobody left but what  *)
(* a killed child leaves behind.                                           *)
(***************************************************************************)
CallOK(k) ==
    /\ byte[k] => maps[k] = Wanted(calls[k])
    /\ byte[k] /\ k = Now => parent \in {"wait", "returned", "exited", "killed"}
    /\ byte[k] /\ Over(k) => child[k] \in {"ok", "failed", "killed"}
    /\ child[k] \in {"exec", "wait", "ok"} => byte[k]
    /\ ViaChild(calls[k]) /\ inner[k] # "none" => byte[k]
    /\ ViaChild(calls[k]) /\ inner[k] \in Working => child[k] \in {"wait", "killed"}
    /\ ~ViaChild(calls[k]) => child[k] = "none"
    /\ ~ViaChild(calls[k]) /\ inner[k] \in Working => k = Now /\ parent \in {"run", "killed"}

UInv ==
    /\ UnpackTypeOK /\ CallsFit /\ NotBegun /\ MapsInOrder
    /\ \A k \in 1..Now : CallOK(k)

-----------------------------------------------------------------------------

\* What a command is, and what it may call.
LEMMA CommandType ==
    ASSUME cmd \in Commands
    PROVE  /\ Len(cmd.image) \in Nat /\ Len(cmd.image) + 2 <= MaxCalls
           /\ cmd.last \in {"collect", "destroy-image", "none"}
BY NamespaceAssumption

\* The steps, one action each.
LEMMA StepCases ==
    ASSUME UnpackNext
    PROVE  \/ RunInner \/ InnerIsDone \/ StartChild \/ MapUIDs \/ MapGIDs \/ Signal \/ Wait
           \/ GoToNextCall \/ NextCommand \/ Exit \/ BaseDirectoryMissing \/ DestroyDirectly
           \/ MakeImage \/ CreateVolume \/ VolumeFails \/ StartFails \/ KillParent
           \/ \E k \in CallNumbers :
                \/ ReadPipe(k) \/ Reexec(k) \/ ChildEnds(k) \/ KillChild(k) \/ InnerFails(k)
                \/ EnterRoot(k) \/ UnpackEntry(k) \/ EndOfStream(k) \/ DestroyInside(k)
           \/ UNCHANGED unpackVars
BY DEF UnpackNext, CommandStep, Begin, GoOn, ProcessStep, InnerStep, ChildStep, NamespaceFault

\* A mapping that is set, left out or fails.
LEMMA SetMapCases ==
    ASSUME UnpackTypeOK, NEW m \in {"uid", "gid"}, NEW mappings, NEW next,
           SetMap(m, mappings, next)
    PROVE  /\ byte' = byte
           /\ \/ parent' = next /\ result' = result /\ writer' = writer
                 /\ maps' = IF m \in Wanted(calls[Now]) THEN [maps EXCEPT ![Now] = @ \cup {m}]
                                                        ELSE maps
              \/ /\ parent' = "returned" /\ result' = "error" /\ maps' = maps
                 /\ writer' = [writer EXCEPT ![Now] = calls[Now] # "unpack"]
           /\ maps' \in [CallNumbers -> SUBSET {"uid", "gid"}]
<1>1. /\ byte' = byte
      /\ \/ parent' = next /\ result' = result /\ writer' = writer
            /\ maps' = IF m \in Wanted(calls[Now]) THEN [maps EXCEPT ![Now] = @ \cup {m}]
                                                   ELSE maps
         \/ /\ parent' = "returned" /\ result' = "error" /\ maps' = maps
            /\ writer' = [writer EXCEPT ![Now] = calls[Now] # "unpack"]
  BY DEF SetMap, MappingFails, Returns
<1>2. maps \in [CallNumbers -> SUBSET {"uid", "gid"}] /\ Now \in CallNumbers
  BY DEF UnpackTypeOK, Now
<1>3. [maps EXCEPT ![Now] = @ \cup {m}] \in [CallNumbers -> SUBSET {"uid", "gid"}]
  BY <1>2
<1> QED
  BY <1>1, <1>2, <1>3

\* The call that follows one of a command, or the one of the next command.
LEMMA NextCallCases ==
    ASSUME UnpackTypeOK, CallsFit, GoToNextCall \/ NextCommand
    PROVE  \E op \in {"unpack", "cleanup", "image", "collect", "destroy-image"} :
             /\ calls' = Append(calls, op)
             /\ op = "unpack" => Now + 1 <= Len(cmd.image)
             /\ op \in {"cleanup", "image"} => Now + 1 <= Len(cmd.image) + 1
             /\ Now + 1 <= MaxCalls
<1>1. /\ Len(cmd.image) \in Nat /\ Len(cmd.image) + 2 <= MaxCalls /\ Now \in Nat
      /\ cmd.last \in {"collect", "destroy-image", "none"}
  BY CommandType DEF UnpackTypeOK, Now
<1>2. CASE GoToNextCall
  <2>1. calls' = Append(calls, Following) /\ Following # "none"
    BY <1>2 DEF GoToNextCall, NextCall
  <2>2. /\ Following \in {"unpack", "cleanup", "image"}
        /\ calls[Now] = "unpack"
        /\ Following = "unpack" => Now < Len(cmd.image)
    BY <2>1 DEF Following
  <2>3. Now <= Len(cmd.image)
    BY <2>2 DEF CallsFit
  <2>4. /\ Following = "unpack" => Now + 1 <= Len(cmd.image)
        /\ Now + 1 <= Len(cmd.image) + 1 /\ Now + 1 <= MaxCalls
    BY <1>1, <2>2, <2>3, NamespaceAssumption
  <2> QED
    BY <2>1, <2>2, <2>4
<1>3. CASE NextCommand
  <2>1. calls' = Append(calls, cmd.last) /\ cmd.last \in {"collect", "destroy-image"}
    BY <1>1, <1>3 DEF NextCommand
  <2>2. Now <= Len(cmd.image) + 1
    BY <1>1, <1>3 DEF NextCommand, InCreate, CallsFit
  <2>3. Now + 1 <= MaxCalls
    BY <1>1, <2>2, NamespaceAssumption
  <2> QED
    BY <2>1, <2>3
<1> QED
  BY <1>2, <1>3

\* It becomes the last one, and the others stay as they are.
LEMMA AppendedCall ==
    ASSUME UnpackTypeOK, CallsFit, GoToNextCall \/ NextCommand
    PROVE  /\ calls' \in Seq({"unpack", "cleanup", "image", "collect", "destroy-image"})
           /\ Now' = Now + 1 /\ Now' \in CallNumbers
           /\ \A k \in 1..Now : calls'[k] = calls[k]
           /\ CallsFit'
<1>1. PICK op \in {"unpack", "cleanup", "image", "collect", "destroy-image"} :
        /\ calls' = Append(calls, op)
        /\ op = "unpack" => Now + 1 <= Len(cmd.image)
        /\ op \in {"cleanup", "image"} => Now + 1 <= Len(cmd.image) + 1
        /\ Now + 1 <= MaxCalls
  BY NextCallCases
<1>2. calls \in Seq({"unpack", "cleanup", "image", "collect", "destroy-image"}) /\ Now \in Nat
  BY DEF UnpackTypeOK, Now
<1>3. /\ calls' \in Seq({"unpack", "cleanup", "image", "collect", "destroy-image"})
      /\ Now' = Now + 1 /\ calls'[Now + 1] = op
      /\ \A k \in 1..Now : calls'[k] = calls[k]
  BY <1>1, <1>2 DEF Now
<1>4. cmd' = cmd
  BY DEF GoToNextCall, NextCall, NextCommand
<1>5. CallsFit'
  BY <1>1, <1>3, <1>4 DEF CallsFit
<1>6. Now + 1 \in CallNumbers
  BY <1>1, <1>2, NamespaceAssumption DEF CallNumbers
<1> QED
  BY <1>3, <1>5, <1>6

\* Every step keeps the types.
LEMMA TypeStep ==
    ASSUME UInv, UnpackNext
    PROVE  UnpackTypeOK'
<1> USE DEF UInv, UnpackTypeOK, CallNumbers, Now, Alive, Working
<1>1. /\ MaxCalls \in Nat /\ MaxFaults \in Nat
      /\ Len(cmd.image) \in Nat /\ Len(cmd.image) + 2 <= MaxCalls
      /\ cmd.last \in {"collect", "destroy-image", "none"}
      /\ pos' \in Nat
  <2>1. pos' \in {pos, pos + 1, 0}
    BY DEF UnpackNext, CommandStep, Begin, GoOn, ProcessStep, InnerStep, ChildStep,
      NamespaceFault, BaseDirectoryMissing, DestroyDirectly, MakeImage, CreateVolume,
      GoToNextCall, EnterRoot, UnpackEntry, EndOfStream, DestroyInside, treeVars, unpackVars
  <2> QED
    BY <2>1, CommandType, NamespaceAssumption
<1>2. CASE RunInner
  BY <1>1, <1>2 DEF RunInner, processVars
<1>3. CASE InnerIsDone
  BY <1>1, <1>3 DEF InnerIsDone, Returns, processVars
<1>4. CASE StartChild
  BY <1>1, <1>4 DEF StartChild, processVars
<1>5. CASE MapUIDs
  <2>1. SetMap("uid", cmd.uidMappings, "mapGIDs")
    BY <1>5 DEF MapUIDs
  <2> QED
    BY <1>1, <1>5, <2>1, SetMapCases DEF MapUIDs
<1>6. CASE MapGIDs
  <2>1. SetMap("gid", cmd.gidMappings, "signal")
    BY <1>6 DEF MapGIDs
  <2> QED
    BY <1>1, <1>6, <2>1, SetMapCases DEF MapGIDs
<1>7. CASE Signal
  BY <1>1, <1>7 DEF Signal, processVars
<1>8. CASE Wait
  BY <1>1, <1>8 DEF Wait, Returns, processVars
<1>9. CASE GoToNextCall
  BY <1>1, <1>9, AppendedCall DEF GoToNextCall, NextCall, processVars
<1>10. CASE NextCommand
  BY <1>1, <1>10, AppendedCall DEF NextCommand
<1>11. CASE Exit
  BY <1>1, <1>11 DEF Exit, processVars
<1>12. CASE BaseDirectoryMissing
  BY <1>1, <1>12 DEF BaseDirectoryMissing, Returns, processVars
<1>13. CASE DestroyDirectly
  BY <1>1, <1>13 DEF DestroyDirectly, Returns, processVars
<1>14. CASE MakeImage
  BY <1>1, <1>14 DEF MakeImage, Returns, processVars
<1>15. CASE VolumeFails \/ StartFails
  BY <1>1, <1>15 DEF VolumeFails, StartFails, Fault, Returns, processVars
<1>16. CASE KillParent
  BY <1>1, <1>16 DEF KillParent, Fault, processVars
<1>17. ASSUME NEW j \in CallNumbers,
             ReadPipe(j) \/ Reexec(j) \/ ChildEnds(j)
      PROVE  UnpackTypeOK'
  BY <1>1, <1>17 DEF ReadPipe, Reexec, ChildEnds
<1>18. ASSUME NEW j \in CallNumbers,
             KillChild(j) \/ InnerFails(j)
      PROVE  UnpackTypeOK'
  <2>1. /\ child' \in [CallNumbers -> Alive \cup {"none", "ok", "failed", "killed"}]
        /\ inner' \in [CallNumbers -> Working \cup {"none", "ok", "failed"}]
    BY <1>18 DEF KillChild, InnerFails
  <2>2. faults' \in 0..MaxFaults
    BY <1>1, <1>18 DEF KillChild, InnerFails, Fault
  <2> QED
    BY <1>1, <1>18, <2>1, <2>2 DEF KillChild, InnerFails
<1>19. ASSUME NEW j \in CallNumbers,
             EnterRoot(j) \/ UnpackEntry(j) \/ EndOfStream(j) \/ DestroyInside(j)
      PROVE  UnpackTypeOK'
  BY <1>1, <1>19 DEF EnterRoot, UnpackEntry, EndOfStream, DestroyInside, InnerState
<1>20. CASE UNCHANGED unpackVars
  BY <1>1, <1>20 DEF unpackVars, processVars
<1>21. CASE CreateVolume
  BY <1>1, <1>21 DEF CreateVolume, Returns, processVars
<1> QED
  BY StepCases, <1>2, <1>3, <1>4, <1>5, <1>6, <1>7, <1>8, <1>9, <1>10, <1>11, <1>12, <1>13, <1>14,
    <1>15, <1>16, <1>17, <1>18, <1>19, <1>20, <1>21

\* The calls stay within the bounds of their command.
LEMMA CallsFitStep ==
    ASSUME UInv, UnpackNext
    PROVE  CallsFit'
<1> USE DEF UInv, CallsFit, Now
<1>1. UnpackTypeOK
  OBVIOUS
<1>2. CASE RunInner
  BY <1>1, <1>2 DEF RunInner, processVars
<1>3. CASE InnerIsDone
  BY <1>1, <1>3 DEF InnerIsDone, Returns, processVars
<1>4. CASE StartChild
  BY <1>1, <1>4 DEF StartChild, processVars
<1>5. CASE MapUIDs
  <2>1. SetMap("uid", cmd.uidMappings, "mapGIDs")
    BY <1>5 DEF MapUIDs
  <2> QED
    BY <1>1, <1>5, <2>1, SetMapCases DEF MapUIDs
<1>6. CASE MapGIDs
  <2>1. SetMap("gid", cmd.gidMappings, "signal")
    BY <1>6 DEF MapGIDs
  <2> QED
    BY <1>1, <1>6, <2>1, SetMapCases DEF MapGIDs
<1>7. CASE Signal
  BY <1>1, <1>7 DEF Signal, processVars
<1>8. CASE Wait
  BY <1>1, <1>8 DEF Wait, Returns, processVars
<1>9. CASE GoToNextCall
  BY <1>1, <1>9, AppendedCall DEF GoToNextCall, NextCall, processVars
<1>10. CASE NextCommand
  BY <1>1, <1>10, AppendedCall DEF NextCommand, processVars
<1>11. CASE Exit
  BY <1>1, <1>11 DEF Exit, processVars
<1>12. CASE BaseDirectoryMissing
  BY <1>1, <1>12 DEF BaseDirectoryMissing, Returns, processVars
<1>13. CASE DestroyDirectly
  BY <1>1, <1>13 DEF DestroyDirectly, Returns, processVars
<1>14. CASE MakeImage
  BY <1>1, <1>14 DEF MakeImage, Returns, processVars
<1>15. CASE VolumeFails \/ StartFails
  BY <1>1, <1>15 DEF VolumeFails, StartFails, Fault, Returns, processVars
<1>16. CASE KillParent
  BY <1>1, <1>16 DEF KillParent, Fault, processVars
<1>17. ASSUME NEW j \in CallNumbers,
             ReadPipe(j) \/ Reexec(j) \/ ChildEnds(j)
      PROVE  CallsFit'
  BY <1>1, <1>17 DEF ReadPipe, Reexec, ChildEnds
<1>18. ASSUME NEW j \in CallNumbers,
             KillChild(j) \/ InnerFails(j)
      PROVE  CallsFit'
  BY <1>1, <1>18 DEF KillChild, InnerFails, Fault
<1>19. ASSUME NEW j \in CallNumbers,
             EnterRoot(j) \/ UnpackEntry(j) \/ EndOfStream(j) \/ DestroyInside(j)
      PROVE  CallsFit'
  BY <1>1, <1>19 DEF EnterRoot, UnpackEntry, EndOfStream, DestroyInside, InnerState
<1>20. CASE UNCHANGED unpackVars
  BY <1>1, <1>20 DEF unpackVars, processVars
<1>21. CASE CreateVolume
  BY <1>1, <1>21 DEF CreateVolume, Returns, processVars
<1> QED
  BY StepCases, <1>2, <1>3, <1>4, <1>5, <1>6, <1>7, <1>8, <1>9, <1>10, <1>11, <1>12, <1>13,
    <1>14, <1>15, <1>16, <1>17, <1>18, <1>19, <1>20, <1>21

\* What the calls of the command need does not change.
LEMMA SameCommand ==
    ASSUME UnpackNext
    PROVE  cmd' = cmd
BY DEF UnpackNext, CommandStep, Begin, GoOn, ProcessStep, InnerStep, ChildStep, NamespaceFault,
  RunInner, InnerIsDone, StartChild, MapUIDs, MapGIDs, Signal, Wait, GoToNextCall, NextCall,
  NextCommand, Exit, BaseDirectoryMissing, DestroyDirectly, MakeImage, CreateVolume, VolumeFails,
  StartFails, KillParent, ReadPipe, Reexec, ChildEnds, KillChild, InnerFails, EnterRoot,
  UnpackEntry, EndOfStream, DestroyInside, unpackVars

\* Nothing begins of a call before groot makes it.
LEMMA NotBegunStep ==
    ASSUME UInv, UnpackNext
    PROVE  NotBegun'
<1> USE DEF UInv, UnpackTypeOK, NotBegun, Prepared, Untouched, Alive, Working
<1>1. /\ Now \in Nat /\ CallNumbers \subseteq Nat /\ UnpackTypeOK /\ CallsFit
      /\ (calls' = calls => Now' = Now) /\ CallNumbers' = CallNumbers
  BY DEF CallNumbers, Now
<1>2. CASE RunInner
  BY <1>1, <1>2 DEF RunInner, processVars
<1>3. CASE InnerIsDone
  BY <1>1, <1>3 DEF InnerIsDone, Returns, processVars
<1>4. CASE StartChild
  BY <1>1, <1>4 DEF StartChild, processVars
<1>5. CASE MapUIDs
  <2>1. SetMap("uid", cmd.uidMappings, "mapGIDs")
    BY <1>5 DEF MapUIDs
  <2> QED
    BY <1>1, <1>5, <2>1, SetMapCases DEF MapUIDs
<1>6. CASE MapGIDs
  <2>1. SetMap("gid", cmd.gidMappings, "signal")
    BY <1>6 DEF MapGIDs
  <2> QED
    BY <1>1, <1>6, <2>1, SetMapCases DEF MapGIDs
<1>7. CASE Signal
  BY <1>1, <1>7 DEF Signal, processVars
<1>8. CASE Wait
  BY <1>1, <1>8 DEF Wait, Returns, processVars
<1>9. CASE GoToNextCall
  BY <1>1, <1>9, AppendedCall DEF GoToNextCall, NextCall, processVars
<1>10. CASE NextCommand
  BY <1>1, <1>10, AppendedCall DEF NextCommand, processVars
<1>11. CASE Exit
  BY <1>1, <1>11 DEF Exit, processVars
<1>12. CASE BaseDirectoryMissing
  BY <1>1, <1>12 DEF BaseDirectoryMissing, Returns, processVars
<1>13. CASE DestroyDirectly
  BY <1>1, <1>13 DEF DestroyDirectly, Returns, processVars
<1>14. CASE MakeImage
  BY <1>1, <1>14 DEF MakeImage, Returns, processVars
<1>15. CASE VolumeFails \/ StartFails
  BY <1>1, <1>15 DEF VolumeFails, StartFails, Fault, Returns, processVars
<1>16. CASE KillParent
  BY <1>1, <1>16 DEF KillParent, Fault, processVars
<1>17. ASSUME NEW j \in CallNumbers,
             ReadPipe(j) \/ Reexec(j) \/ ChildEnds(j)
      PROVE  NotBegun'
  BY <1>1, <1>17 DEF ReadPipe, Reexec, ChildEnds
<1>18. ASSUME NEW j \in CallNumbers,
             KillChild(j) \/ InnerFails(j)
      PROVE  NotBegun'
  BY <1>1, <1>18 DEF KillChild, InnerFails, Fault
<1>19. ASSUME NEW j \in CallNumbers,
             EnterRoot(j) \/ UnpackEntry(j) \/ EndOfStream(j) \/ DestroyInside(j)
      PROVE  NotBegun'
  BY <1>1, <1>19 DEF EnterRoot, UnpackEntry, EndOfStream, DestroyInside, InnerState
<1>20. CASE UNCHANGED unpackVars
  BY <1>1, <1>20 DEF unpackVars, processVars
<1>21. CASE CreateVolume
  BY <1>1, <1>21 DEF CreateVolume, Returns, processVars
<1> QED
  BY StepCases, <1>2, <1>3, <1>4, <1>5, <1>6, <1>7, <1>8, <1>9, <1>10, <1>11, <1>12, <1>13,
    <1>14, <1>15, <1>16, <1>17, <1>18, <1>19, <1>20, <1>21

\* The maps are set in their order.
LEMMA MapsInOrderStep ==
    ASSUME UInv, UnpackNext
    PROVE  MapsInOrder'
<1> USE DEF UInv, UnpackTypeOK, NotBegun, Prepared, Untouched, MapsInOrder
<1>1. /\ Now \in Nat /\ Now \in CallNumbers /\ UnpackTypeOK /\ CallsFit
      /\ calls' = calls => Now' = Now /\ Wanted(calls[Now])' = Wanted(calls[Now])
  BY SameCommand DEF CallNumbers, Now, Wanted
<1>2. CASE RunInner
  BY <1>1, <1>2 DEF RunInner, processVars
<1>3. CASE InnerIsDone
  BY <1>1, <1>3 DEF InnerIsDone, Returns, processVars
<1>4. CASE StartChild
  BY <1>1, <1>4 DEF StartChild, processVars
<1>5. CASE MapUIDs
  <2>1. SetMap("uid", cmd.uidMappings, "mapGIDs")
    BY <1>5 DEF MapUIDs
  <2> QED
    BY <1>1, <1>5, <2>1, SetMapCases DEF MapUIDs
<1>6. CASE MapGIDs
  <2>1. SetMap("gid", cmd.gidMappings, "signal")
    BY <1>6 DEF MapGIDs
  <2>2. Wanted(calls[Now]) \subseteq {"uid", "gid"}
    BY DEF Wanted
  <2>3. LET w == Wanted(calls[Now])
        IN  IF "gid" \in w THEN (w \cap {"uid"}) \cup {"gid"} = w ELSE w \cap {"uid"} = w
    BY <2>2
  <2>4. parent' = "signal" => maps'[Now] = Wanted(calls[Now])
    <3>1. maps[Now] = Wanted(calls[Now]) \cap {"uid"}
      BY <1>6 DEF MapGIDs
    <3>2. CASE "gid" \in Wanted(calls[Now])
      <4>1. parent' = "signal" => maps' = [maps EXCEPT ![Now] = @ \cup {"gid"}]
        BY <1>1, <1>6, <2>1, <3>2, SetMapCases DEF MapGIDs
      <4>2. parent' = "signal" => maps'[Now] = maps[Now] \cup {"gid"}
        BY <1>1, <4>1
      <4> QED
        BY <2>3, <3>1, <3>2, <4>2
    <3>3. CASE "gid" \notin Wanted(calls[Now])
      <4>1. parent' = "signal" => maps' = maps
        BY <1>1, <1>6, <2>1, <3>3, SetMapCases DEF MapGIDs
      <4> QED
        BY <2>3, <3>1, <3>3, <4>1
    <3> QED
      BY <3>2, <3>3
  <2>5. parent' \in {"signal", "returned"} /\ calls' = calls
    BY <1>6, <2>1, SetMapCases DEF MapGIDs
  <2> QED
    BY <1>1, <2>4, <2>5
<1>7. CASE Signal
  BY <1>1, <1>7 DEF Signal, processVars
<1>8. CASE Wait
  BY <1>1, <1>8 DEF Wait, Returns, processVars
<1>9. CASE GoToNextCall
  BY <1>1, <1>9, AppendedCall DEF GoToNextCall, NextCall, processVars
<1>10. CASE NextCommand
  BY <1>1, <1>10, AppendedCall DEF NextCommand, processVars
<1>11. CASE Exit
  BY <1>1, <1>11 DEF Exit, processVars
<1>12. CASE BaseDirectoryMissing
  BY <1>1, <1>12 DEF BaseDirectoryMissing, Returns, processVars
<1>13. CASE DestroyDirectly
  BY <1>1, <1>13 DEF DestroyDirectly, Returns, processVars
<1>14. CASE MakeImage
  BY <1>1, <1>14 DEF MakeImage, Returns, processVars
<1>15. CASE VolumeFails \/ StartFails
  BY <1>1, <1>15 DEF VolumeFails, StartFails, Fault, Returns, processVars
<1>16. CASE KillParent
  BY <1>1, <1>16 DEF KillParent, Fault, processVars
<1>17. ASSUME NEW j \in CallNumbers,
             ReadPipe(j) \/ Reexec(j) \/ ChildEnds(j)
      PROVE  MapsInOrder'
  BY <1>1, <1>17 DEF ReadPipe, Reexec, ChildEnds
<1>18. ASSUME NEW j \in CallNumbers,
             KillChild(j) \/ InnerFails(j)
      PROVE  MapsInOrder'
  BY <1>1, <1>18 DEF KillChild, InnerFails, Fault
<1>19. ASSUME NEW j \in CallNumbers,
             EnterRoot(j) \/ UnpackEntry(j) \/ EndOfStream(j) \/ DestroyInside(j)
      PROVE  MapsInOrder'
  BY <1>1, <1>19 DEF EnterRoot, UnpackEntry, EndOfStream, DestroyInside, InnerState
<1>20. CASE UNCHANGED unpackVars
  BY <1>1, <1>20 DEF unpackVars, processVars
<1>21. CASE CreateVolume
  BY <1>1, <1>21 DEF CreateVolume, Returns, processVars
<1> QED
  BY StepCases, <1>2, <1>3, <1>4, <1>5, <1>6, <1>7, <1>8, <1>9, <1>10, <1>11, <1>12, <1>13,
    <1>14, <1>15, <1>16, <1>17, <1>18, <1>19, <1>20, <1>21

\* A call that is not the last after the step was one before it.
LEMMA CallsKept ==
    ASSUME UInv, UnpackNext
    PROVE  /\ Now \in CallNumbers /\ Now \in Nat
           /\ calls' = calls \/ (GoToNextCall \/ NextCommand)
           /\ Now' \in Nat /\ Now' <= Now + 1
           /\ \A k \in 1..Now : calls'[k] = calls[k]
<1>1. Now \in CallNumbers /\ Now \in Nat
  BY DEF UInv, UnpackTypeOK, CallNumbers, Now
<1>2. calls' = calls \/ (GoToNextCall \/ NextCommand)
  BY DEF UnpackNext, CommandStep, Begin, GoOn, ProcessStep, InnerStep, ChildStep, NamespaceFault,
    RunInner, InnerIsDone, StartChild, MapUIDs, MapGIDs, Signal, Wait, Exit, BaseDirectoryMissing,
    DestroyDirectly, MakeImage, CreateVolume, VolumeFails, StartFails, KillParent, ReadPipe,
    Reexec, ChildEnds, KillChild, InnerFails, EnterRoot, UnpackEntry, EndOfStream, DestroyInside,
    unpackVars
<1>3. CASE calls' = calls
  BY <1>1, <1>3 DEF Now
<1>4. CASE GoToNextCall \/ NextCommand
  BY <1>1, <1>4, AppendedCall DEF UInv, CallNumbers
<1> QED
  BY <1>1, <1>2, <1>3, <1>4

\* Of a call that begins nothing has to be shown.
LEMMA NewCall ==
    ASSUME UInv, GoToNextCall \/ NextCommand, NEW k, k = Now + 1
    PROVE  CallOK(k)'
<1>1. Now + 1 \in CallNumbers /\ Now \in Nat /\ CallNumbers \subseteq Nat /\ Now' = Now + 1
  BY AppendedCall DEF UInv, UnpackTypeOK, CallNumbers, Now
<1>2. Untouched(k)
  BY <1>1 DEF UInv, NotBegun, Prepared
<1>3. child' = child /\ inner' = inner /\ byte' = byte /\ maps' = maps
  BY DEF GoToNextCall, NextCall, NextCommand, processVars
<1> QED
  BY <1>1, <1>2, <1>3 DEF Untouched, CallOK, Working

\* What a call that has begun is allowed, every step keeps.
LEMMA OldCall ==
    ASSUME UInv, UnpackNext, NEW k \in 1..Now
    PROVE  CallOK(k)'
<1> DEFINE W == Wanted(calls[k])
           V == ViaChild(calls[k])
<1>1. /\ Now \in Nat /\ Now \in CallNumbers /\ k \in CallNumbers /\ k \in Nat /\ k <= Now
      /\ UnpackTypeOK /\ CallsFit
      /\ calls' = calls => Now' = Now
      /\ k = Now => V = ViaChild(calls[Now]) /\ W = Wanted(calls[Now])
  <2>1. Now \in Nat /\ Now \in CallNumbers /\ UnpackTypeOK /\ CallsFit
    BY CallsKept DEF UInv
  <2>2. k \in CallNumbers /\ k \in Nat /\ k <= Now
    BY <2>1, NamespaceAssumption DEF CallNumbers
  <2>3. calls' = calls => Now' = Now
    BY DEF Now
  <2>4. k = Now => V = ViaChild(calls[Now]) /\ W = Wanted(calls[Now])
    OBVIOUS
  <2> QED
    BY <2>1, <2>2, <2>3, <2>4
<1>a. /\ byte[k] => maps[k] = W
      /\ byte[k] /\ k = Now => parent \in {"wait", "returned", "exited", "killed"}
      /\ byte[k] /\ (k < Now \/ parent \in {"returned", "exited"})
           => child[k] \in {"ok", "failed", "killed"}
      /\ child[k] \in {"exec", "wait", "ok"} => byte[k]
      /\ V /\ inner[k] # "none" => byte[k]
      /\ V /\ inner[k] \in Working => child[k] \in {"wait", "killed"}
      /\ ~V => child[k] = "none"
      /\ ~V /\ inner[k] \in Working => k = Now /\ parent \in {"run", "killed"}
  BY DEF UInv, CallOK, Over
<1>b. /\ k = Now /\ parent \in {"volume", "ready"} => Untouched(k)
      /\ k = Now /\ parent = "signal" => maps[k] = W
  BY <1>1 DEF UInv, NotBegun, Prepared, MapsInOrder
<1> DEFINE Still ==
        /\ byte'[k] => maps'[k] = W
        /\ byte'[k] /\ k = Now' => parent' \in {"wait", "returned", "exited", "killed"}
        /\ byte'[k] /\ (k < Now' \/ parent' \in {"returned", "exited"})
             => child'[k] \in {"ok", "failed", "killed"}
        /\ child'[k] \in {"exec", "wait", "ok"} => byte'[k]
        /\ V /\ inner'[k] # "none" => byte'[k]
        /\ V /\ inner'[k] \in Working => child'[k] \in {"wait", "killed"}
        /\ ~V => child'[k] = "none"
        /\ ~V /\ inner'[k] \in Working => k = Now' /\ parent' \in {"run", "killed"}
<1>c. SUFFICES Still
  <2>1. (V <=> ViaChild(calls[k])') /\ W = Wanted(calls[k])'
    BY SameCommand, CallsKept DEF Wanted, ViaChild, HasMappings
  <2> HIDE DEF V, W
  <2> QED
    BY <2>1 DEF CallOK, Over, Working
<1> HIDE DEF V, W
<1> USE DEF Untouched, Alive, Working, UnpackTypeOK
<1>2. CASE RunInner
  BY <1>1, <1>a, <1>b, <1>2 DEF RunInner, processVars
<1>3. CASE InnerIsDone
  BY <1>1, <1>a, <1>b, <1>3 DEF InnerIsDone, Returns, processVars
<1>4. CASE StartChild
  BY <1>1, <1>a, <1>b, <1>4 DEF StartChild, processVars
<1>5. CASE MapUIDs
  <2>1. SetMap("uid", cmd.uidMappings, "mapGIDs")
    BY <1>5 DEF MapUIDs
  <2> QED
    BY <1>1, <1>a, <1>b, <1>5, <2>1, SetMapCases DEF MapUIDs
<1>6. CASE MapGIDs
  <2>1. SetMap("gid", cmd.gidMappings, "signal")
    BY <1>6 DEF MapGIDs
  <2> QED
    BY <1>1, <1>a, <1>b, <1>6, <2>1, SetMapCases DEF MapGIDs
<1>7. CASE Signal
  BY <1>1, <1>a, <1>b, <1>7 DEF Signal, processVars
<1>8. CASE Wait
  BY <1>1, <1>a, <1>b, <1>8 DEF Wait, Returns, processVars
<1>9. CASE GoToNextCall
  BY <1>1, <1>a, <1>b, <1>9, AppendedCall DEF GoToNextCall, NextCall, processVars
<1>10. CASE NextCommand
  BY <1>1, <1>a, <1>b, <1>10, AppendedCall DEF NextCommand, processVars
<1>11. CASE Exit
  BY <1>1, <1>a, <1>b, <1>11 DEF Exit, processVars
<1>12. CASE BaseDirectoryMissing
  BY <1>1, <1>a, <1>b, <1>12 DEF BaseDirectoryMissing, Returns, processVars
<1>13. CASE DestroyDirectly
  BY <1>1, <1>a, <1>b, <1>13 DEF DestroyDirectly, Returns, processVars
<1>14. CASE MakeImage
  BY <1>1, <1>a, <1>b, <1>14 DEF MakeImage, Returns, processVars
<1>15. CASE VolumeFails \/ StartFails
  BY <1>1, <1>a, <1>b, <1>15 DEF VolumeFails, StartFails, Fault, Returns, processVars
<1>16. CASE KillParent
  BY <1>1, <1>a, <1>b, <1>16 DEF KillParent, Fault, processVars
<1>17. ASSUME NEW j \in CallNumbers,
             ReadPipe(j) \/ Reexec(j) \/ ChildEnds(j)
      PROVE  Still
  BY <1>1, <1>a, <1>b, <1>17 DEF ReadPipe, Reexec, ChildEnds
<1>18. ASSUME NEW j \in CallNumbers,
             KillChild(j) \/ InnerFails(j)
      PROVE  Still
  BY <1>1, <1>a, <1>b, <1>18 DEF KillChild, InnerFails, Fault
<1>19. ASSUME NEW j \in CallNumbers,
             EnterRoot(j) \/ UnpackEntry(j) \/ EndOfStream(j) \/ DestroyInside(j)
      PROVE  Still
  BY <1>1, <1>a, <1>b, <1>19 DEF EnterRoot, UnpackEntry, EndOfStream, DestroyInside, InnerState
<1>20. CASE UNCHANGED unpackVars
  BY <1>1, <1>a, <1>b, <1>20 DEF unpackVars, processVars
<1>21. CASE CreateVolume
  BY <1>1, <1>a, <1>b, <1>21 DEF CreateVolume, Returns, processVars
<1> QED
  BY StepCases, <1>2, <1>3, <1>4, <1>5, <1>6, <1>7, <1>8, <1>9, <1>10, <1>11, <1>12, <1>13,
    <1>14, <1>15, <1>16, <1>17, <1>18, <1>19, <1>20, <1>21

\* The invariant holds of the state in which a command starts.
LEMMA InvInit ==
    ASSUME UnpackInit
    PROVE  UInv
<1> USE DEF UnpackInit, NamespaceInit, CallNumbers, Now
<1>1. /\ Len(calls) = 1 /\ calls[1] = "unpack" /\ 1 \in CallNumbers
      /\ Len(cmd.image) \in Nat /\ 1 <= Len(cmd.image)
  BY NamespaceAssumption
<1>2. UnpackTypeOK
  BY <1>1, NamespaceAssumption DEF UnpackTypeOK
<1>3. CallsFit /\ NotBegun /\ MapsInOrder
  BY <1>1 DEF CallsFit, NotBegun, Prepared, Untouched, MapsInOrder
<1>4. \A k \in 1..Now : CallOK(k)
  BY <1>1 DEF CallOK, Working
<1> QED
  BY <1>2, <1>3, <1>4 DEF UInv

\* Every step keeps it.
LEMMA InvStep ==
    ASSUME UInv, [UnpackNext]_unpackVars
    PROVE  UInv'
<1>1. CASE UnpackNext
  <2>1. UnpackTypeOK' /\ CallsFit' /\ NotBegun' /\ MapsInOrder'
    BY <1>1, TypeStep, CallsFitStep, NotBegunStep, MapsInOrderStep
  <2>2. ASSUME NEW k \in 1..Now'
        PROVE  CallOK(k)'
    <3>1. CASE k \in 1..Now
      BY <1>1, <3>1, OldCall
    <3>2. CASE k \notin 1..Now
      <4>1. k = Now + 1 /\ (GoToNextCall \/ NextCommand)
        BY <1>1, <3>2, CallsKept DEF Now
      <4> QED
        BY <4>1, NewCall
    <3> QED
      BY <3>1, <3>2
  <2> QED
    BY <2>1, <2>2 DEF UInv
<1>2. CASE UNCHANGED unpackVars
  <2>1. Now' = Now /\ parent' = parent /\ calls' = calls /\ child' = child /\ inner' = inner
        /\ byte' = byte /\ maps' = maps /\ cmd' = cmd
        /\ result' = result /\ writer' = writer /\ faults' = faults /\ pos' = pos
    BY <1>2 DEF unpackVars, processVars, treeVars, Now
  <2>2. UnpackTypeOK' /\ CallsFit' /\ NotBegun' /\ MapsInOrder'
    <3>1. UnpackTypeOK'
      BY <2>1 DEF UInv, UnpackTypeOK, CallNumbers, Alive, Working
    <3>2. CallsFit'
      BY <2>1 DEF UInv, CallsFit
    <3>3. NotBegun'
      BY <2>1 DEF UInv, NotBegun, Prepared, Untouched, CallNumbers
    <3>4. Wanted(calls[Now])' = Wanted(calls[Now])
      BY <2>1 DEF Wanted
    <3>5. MapsInOrder'
      BY <2>1, <3>4 DEF UInv, MapsInOrder
    <3> QED
      BY <3>1, <3>2, <3>3, <3>5
  <2>3. ASSUME NEW k \in 1..Now
        PROVE  CallOK(k)'
    <3>1. CallOK(k)
      BY DEF UInv
    <3>2. /\ Wanted(calls[k])' = Wanted(calls[k])
          /\ ViaChild(calls[k])' <=> ViaChild(calls[k])
      BY <2>1 DEF Wanted, ViaChild, HasMappings
    <3> QED
      BY <2>1, <3>1, <3>2 DEF CallOK, Over
  <2> QED
    BY <2>1, <2>2, <2>3 DEF UInv
<1> QED
  BY <1>1, <1>2

\* The invariant of the processes.
LEMMA InvHolds == UnpackSpec => []UInv
<1> QED
  BY InvInit, InvStep, PTL DEF UnpackSpec

(***************************************************************************)
(* The state is always of its types: at most one call of every kind that   *)
(* create and clean make is made, within the bound, and no process is in a *)
(* state that its code does not have.                                      *)
(***************************************************************************)
THEOREM UnpackTypesHold == UnpackSpec => []UnpackTypeOK
<1>1. UInv => UnpackTypeOK
  BY DEF UInv
<1> QED
  BY <1>1, InvHolds, PTL

(***************************************************************************)
(* No process in a user namespace works before groot has set all the maps  *)
(* it sets: NSIdMapperUnpacker and the namespaced driver write the byte    *)
(* after newuidmap and newgidmap have both succeeded, and the child reads  *)
(* it before it executes the program that does the work.                   *)
(***************************************************************************)
THEOREM WorkIsMapped == UnpackSpec => []WorksMapped
<1>1. UInv => WorksMapped
  BY DEF UInv, CallOK, WorksMapped, Working, Now
<1> QED
  BY <1>1, InvHolds, PTL

(***************************************************************************)
(* What runs on after a call has returned was left behind by a child that  *)
(* was killed: groot waits for the child and the child for the process     *)
(* below it, and where groot does not wait, after a mapping that failed,   *)
(* the child never gets its byte.                                          *)
(***************************************************************************)
THEOREM QuietWhenReturned == UnpackSpec => []QuietAfterReturn
<1>1. ASSUME UInv
      PROVE  QuietAfterReturn
  <2> SUFFICES ASSUME NEW k \in 1..Now, k < Now \/ parent \in {"returned", "exited"}, Pending(k)
               PROVE  child[k] = "killed"
    BY DEF QuietAfterReturn, Now
  <2>1. CallOK(k) /\ Over(k)
    BY <1>1 DEF UInv, Over
  <2>2. CASE inner[k] \in Working
    BY <2>1, <2>2 DEF CallOK, Over, Working, Now
  <2>3. CASE child[k] = "exec" \/ (child[k] = "read" /\ byte[k])
    BY <2>1, <2>3 DEF CallOK
  <2> QED
    BY <2>2, <2>3 DEF Pending
<1> QED
  BY <1>1, InvHolds, PTL

-----------------------------------------------------------------------------

\* Ids and owners.

\* An id is in one range at most.
LEMMA OneRangeHas ==
    ASSUME NEW m \in Seq(IDMappingSpec), m # << >> => KernelAccepts(m), NEW id \in Nat,
           NEW j \in 1..Len(m), Within(id, m[j])
    PROVE  /\ m[j].HostID \in Nat /\ m[j].NamespaceID \in Nat /\ m[j].Size \in Nat
           /\ \A k \in 1..Len(m) : Within(id, m[k]) => k = j
           /\ KernelIDs(id, m) = {m[j].HostID + id - m[j].NamespaceID}
<1>1. ASSUME NEW k \in 1..Len(m)
      PROVE  m[k].HostID \in Nat /\ m[k].NamespaceID \in Nat /\ m[k].Size \in Nat
  <2>1. m[k] \in IDMappingSpec
    OBVIOUS
  <2> QED
    BY <2>1 DEF IDMappingSpec
<1>2. KernelAccepts(m)
  <2>1. Len(m) # 0 /\ Len(<< >>) = 0
    BY LenProperties
  <2>2. m # << >>
    BY <2>1
  <2> QED
    BY <2>2
<1>3. ASSUME NEW k \in 1..Len(m), Within(id, m[k])
      PROVE  k = j
  <2>1. k # j => Disjoint(m[k].NamespaceID, m[j].NamespaceID, m[k].Size, m[j].Size)
    BY <1>2 DEF KernelAccepts
  <2> QED
    BY <1>1, <1>3, <2>1 DEF Disjoint, Within
<1>4. {k \in 1..Len(m) : Within(id, m[k])} = {j}
  BY <1>3
<1>5. KernelIDs(id, m) = {m[j].HostID + id - m[j].NamespaceID}
  BY <1>4 DEF KernelIDs
<1> QED
  BY <1>1, <1>3, <1>5

\* The host id that an id means is the one that root translates it to.
LEMMA Translated ==
    ASSUME NEW m \in Seq(IDMappingSpec), UsualMappings(m), NEW id \in Nat,
           HostIDs(id, m) # {}
    PROVE  /\ \E x \in Int : HostIDs(id, m) = {x}
           /\ cmd.root => HostIDs(id, m) = {translateID(id, m)}
<1>1. CASE cmd.root /\ m = << >>
  <2>1. HostIDs(id, m) = {id}
    BY <1>1 DEF HostIDs
  <2>2. translateID(id, m) = id
    <3>1. 1..Len(m) = {}
      BY <1>1
    <3> QED
      BY <3>1 DEF translateID, translateRootID
  <2> QED
    BY <2>1, <2>2
<1>2. CASE ~(cmd.root /\ m = << >>)
  <2>1. HostIDs(id, m) = KernelIDs(id, m)
    BY <1>2 DEF HostIDs
  <2>2. PICK j \in 1..Len(m) : Within(id, m[j])
    BY <2>1 DEF KernelIDs
  <2>3. /\ m[j].HostID \in Nat /\ m[j].NamespaceID \in Nat /\ m[j].Size \in Nat
        /\ \A k \in 1..Len(m) : Within(id, m[k]) => k = j
        /\ KernelIDs(id, m) = {m[j].HostID + id - m[j].NamespaceID}
    BY <2>2, OneRangeHas DEF UsualMappings
  <2>4. \A k \in 1..Len(m) : m[k].NamespaceID = IF m[k].Size = 1 THEN 0 ELSE 1
    BY DEF UsualMappings
  <2>5. translateID(id, m) = m[j].HostID + id - m[j].NamespaceID
    <3>1. CASE id = 0
      <4>1. m[j].Size = 1 /\ m[j].NamespaceID = 0
        BY <2>2, <2>3, <2>4, <3>1 DEF Within
      <4>2. ASSUME NEW k \in 1..Len(m), m[k].Size = 1
            PROVE  k = j
        BY <2>3, <2>4, <3>1, <4>2 DEF Within
      <4>3. {k \in 1..Len(m) : m[k].Size = 1} = {j}
        BY <4>1, <4>2
      <4>4. Min({j}) = j
        BY DEF Min
      <4>5. translateRootID(m) = m[j].HostID
        BY <4>3, <4>4 DEF translateRootID
      <4> QED
        BY <2>3, <3>1, <4>1, <4>5 DEF translateID
    <3>2. CASE id # 0
      <4>1. m[j].Size # 1 /\ m[j].NamespaceID = 1
        BY <2>2, <2>3, <2>4, <3>2 DEF Within
      <4>2. {k \in 1..Len(m) : m[k].Size # 1 /\ Within(id, m[k])} = {j}
        BY <2>2, <2>3, <4>1
      <4>3. Min({j}) = j
        BY DEF Min
      <4>4. translateID(id, m) = m[j].HostID + id - 1
        BY <3>2, <4>2, <4>3 DEF translateID
      <4> QED
        BY <4>1, <4>4
    <3> QED
      BY <3>1, <3>2
  <2>6. PICK x \in Int : x = m[j].HostID + id - m[j].NamespaceID
    BY <2>3
  <2>7. HostIDs(id, m) = {x} /\ translateID(id, m) = x
    BY <2>1, <2>3, <2>5, <2>6
  <2> QED
    BY <2>7
<1> QED
  BY <1>1, <1>2

\* The owners of the files that the layer's entries are for.
LEMMA OwnersKnown ==
    ASSUME cmd \in Commands, NEW k, cmd.root \/ maps[k] = Wanted("unpack"),
           NEW layer \in LayerType, LayerMapped(layer), NEW n \in 1..Len(layer.entries),
           NEW e, e = layer.entries[n], Creates(e), e.type # "link"
    PROVE  /\ OwnersSet(k, e) = {EntryOwners(layer)[n]}
           /\ EntryOwners(layer)[n] \in Int \X Int
<1>1. cmd.uidMappings \in Seq(IDMappingSpec) /\ cmd.gidMappings \in Seq(IDMappingSpec)
  BY NamespaceAssumption, ImageAssumption
<1>2. e.uid \in Nat /\ e.gid \in Nat
  BY EntryOf
<1>3. /\ UsualMappings(cmd.uidMappings) /\ UsualMappings(cmd.gidMappings)
      /\ HostIDs(e.uid, cmd.uidMappings) # {} /\ HostIDs(e.gid, cmd.gidMappings) # {}
  BY DEF LayerMapped
<1>4. PICK u \in Int : /\ HostIDs(e.uid, cmd.uidMappings) = {u}
                       /\ cmd.root => u = translateID(e.uid, cmd.uidMappings)
  BY <1>1, <1>2, <1>3, Translated
<1>5. PICK g \in Int : /\ HostIDs(e.gid, cmd.gidMappings) = {g}
                       /\ cmd.root => g = translateID(e.gid, cmd.gidMappings)
  BY <1>1, <1>2, <1>3, Translated
<1>6. EntryOwners(layer)[n] = <<u, g>>
  BY <1>4, <1>5 DEF EntryOwners, EntryOwner
<1>7. OwnersSet(k, e) = {<<u, g>>}
  <2>1. CASE cmd.root
    BY <1>4, <1>5, <2>1 DEF OwnersSet
  <2>2. CASE ~cmd.root
    <3>1. /\ (IF "uid" \in maps[k] THEN cmd.uidMappings ELSE << >>) = cmd.uidMappings
          /\ (IF "gid" \in maps[k] THEN cmd.gidMappings ELSE << >>) = cmd.gidMappings
      BY <2>2 DEF Wanted
    <3>2. /\ HostIDs(e.uid, cmd.uidMappings) = KernelIDs(e.uid, cmd.uidMappings)
          /\ HostIDs(e.gid, cmd.gidMappings) = KernelIDs(e.gid, cmd.gidMappings)
      BY <2>2 DEF HostIDs
    <3>3. OwnersSet(k, e) = KernelIDs(e.uid, cmd.uidMappings) \X KernelIDs(e.gid, cmd.gidMappings)
      BY <2>2, <3>1 DEF OwnersSet
    <3> QED
      BY <1>4, <1>5, <3>2, <3>3
  <2> QED
    BY <2>1, <2>2
<1> QED
  BY <1>6, <1>7

\* Owners are pairs of ids, whatever the mappings are.
LEMMA OwnersAreIDs ==
    ASSUME cmd \in Commands, NEW k, NEW e \in Entries
    PROVE  OwnersSet(k, e) \in SUBSET (Int \X Int)
<1>1. e.uid \in Nat /\ e.gid \in Nat
  BY DEF Entries
<1>2. ASSUME NEW id \in Nat, NEW m \in Seq(IDMappingSpec)
      PROVE  KernelIDs(id, m) \subseteq Int /\ translateID(id, m) \in Int
  <2>1. ASSUME NEW j \in 1..Len(m)
        PROVE  m[j].HostID \in Nat /\ m[j].NamespaceID \in Nat /\ m[j].Size \in Nat
    <3>1. m[j] \in IDMappingSpec
      BY <1>2
    <3> QED
      BY <3>1 DEF IDMappingSpec
  <2>2. KernelIDs(id, m) \subseteq Int
    BY <2>1 DEF KernelIDs
  <2>3. ASSUME NEW S \in SUBSET (1..Len(m)), S # {}
        PROVE  m[Min(S)].HostID \in Nat
    <3>1. S \in SUBSET Nat
      OBVIOUS
    <3>2. \E x \in S : \A y \in S : x <= y
      BY <2>3, <3>1, Least
    <3>3. Min(S) \in S
      BY <3>2 DEF Min
    <3> QED
      BY <2>1, <3>3
  <2>4. translateRootID(m) \in Int
    <3> DEFINE S == {j \in 1..Len(m) : m[j].Size = 1}
    <3>1. translateRootID(m) = IF S = {} THEN 0 ELSE m[Min(S)].HostID
      BY DEF translateRootID
    <3>2. S \in SUBSET (1..Len(m))
      OBVIOUS
    <3> HIDE DEF S
    <3> QED
      BY <2>3, <3>1, <3>2
  <2>5. translateID(id, m) \in Int
    <3> DEFINE S == {j \in 1..Len(m) : m[j].Size # 1 /\ Within(id, m[j])}
    <3>1. translateID(id, m) = IF id = 0 THEN translateRootID(m)
                               ELSE IF S = {} THEN id ELSE m[Min(S)].HostID + id - 1
      BY DEF translateID
    <3>2. S \in SUBSET (1..Len(m))
      OBVIOUS
    <3> HIDE DEF S
    <3> QED
      BY <2>3, <2>4, <3>1, <3>2
  <2> QED
    BY <2>2, <2>5
<1>3. /\ cmd.uidMappings \in Seq(IDMappingSpec) /\ cmd.gidMappings \in Seq(IDMappingSpec)
      /\ << >> \in Seq(IDMappingSpec)
  BY NamespaceAssumption, ImageAssumption
<1>4. CASE cmd.root
  <2>1. /\ translateID(e.uid, cmd.uidMappings) \in Int
        /\ translateID(e.gid, cmd.gidMappings) \in Int
    BY <1>1, <1>2, <1>3
  <2> QED
    BY <1>4, <2>1 DEF OwnersSet
<1>5. CASE ~cmd.root
  <2> DEFINE U == IF "uid" \in maps[k] THEN cmd.uidMappings ELSE << >>
             G == IF "gid" \in maps[k] THEN cmd.gidMappings ELSE << >>
  <2>1. U \in Seq(IDMappingSpec) /\ G \in Seq(IDMappingSpec)
    BY <1>3
  <2>2. OwnersSet(k, e) = KernelIDs(e.uid, U) \X KernelIDs(e.gid, G)
    BY <1>5 DEF OwnersSet
  <2> HIDE DEF U, G
  <2> QED
    BY <1>1, <1>2, <2>1, <2>2
<1> QED
  BY <1>4, <1>5

\* The owner of a volume is a pair of ids as well.
LEMMA OwnerIsIDs ==
    ASSUME cmd \in Commands
    PROVE  Caller \in Nat \X Nat /\ Owner \in Int \X Int
<1>1. cmd.uidMappings \in Seq(IDMappingSpec) /\ cmd.gidMappings \in Seq(IDMappingSpec)
  BY NamespaceAssumption, ImageAssumption
<1>2. Caller \in Nat \X Nat
  BY ImageAssumption DEF Caller
<1>3. ASSUME NEW own \in Nat, NEW m \in Seq(IDMappingSpec)
      PROVE  parseOwner(own, m) \in Int
  <2> DEFINE roots == {k \in 1..Len(m) : m[k].Size = 1 /\ m[k].NamespaceID = 0}
  <2>1. parseOwner(own, m) = IF roots = {} THEN own ELSE m[Min(roots)].HostID
    BY DEF parseOwner
  <2>2. ASSUME roots # {}
        PROVE  m[Min(roots)].HostID \in Nat
    <3>1. roots \in SUBSET Nat
      OBVIOUS
    <3>2. Min(roots) \in 1..Len(m)
      <4>1. \E x \in roots : \A y \in roots : x <= y
        <5> HIDE DEF roots
        <5> QED
          BY <2>2, <3>1, Least
      <4> QED
        BY <4>1 DEF Min
    <3>3. m[Min(roots)] \in IDMappingSpec
      BY <1>3, <3>2
    <3> QED
      BY <3>3 DEF IDMappingSpec
  <2> HIDE DEF roots
  <2> QED
    BY <2>1, <2>2
<1> QED
  BY <1>1, <1>2, <1>3 DEF Owner

\* A tree stays one when its root directory gets an owner.
LEMMA OwnedTree ==
    ASSUME cmd \in Commands, Tree(tree)
    PROVE  Tree(Owned) /\ Inos(Owned) = Inos(tree)
<1>1. /\ tree \in [DOMAIN tree -> Nodes] /\ << >> \in DOMAIN tree
      /\ tree[<< >>] \in Nodes
  BY DEF Tree, IsDir
<1>2. NewOwner \in Int \X Int
  BY <1>1, OwnerIsIDs DEF NewOwner, Nodes
<1>3. [tree[<< >>] EXCEPT !.owner = NewOwner] \in Nodes
  BY ONLY <1>1, <1>2 DEF Nodes
<1>4. Owned \in [DOMAIN tree -> Nodes] /\ DOMAIN Owned = DOMAIN tree
  BY <1>1, <1>3 DEF Owned
<1>5. ASSUME NEW p \in DOMAIN tree
      PROVE  /\ Owned[p].kind = tree[p].kind /\ Owned[p].ino = tree[p].ino
             /\ Owned[p].data = tree[p].data
  <2>1. CASE p = << >>
    <3>1. Owned[p] = [tree[<< >>] EXCEPT !.owner = NewOwner]
      BY <1>1, <2>1 DEF Owned
    <3> QED
      BY <1>1, <2>1, <3>1 DEF Nodes
  <2>2. CASE p # << >>
    BY <1>1, <2>2 DEF Owned
  <2> QED
    BY <2>1, <2>2
<1>6. \A p : IsDir(Owned, p) <=> IsDir(tree, p)
  BY <1>4, <1>5 DEF IsDir
<1>7. Tree(Owned)
  BY <1>4, <1>5, <1>6 DEF Tree
<1>8. Inos(Owned) = Inos(tree)
  BY <1>4, <1>5 DEF Inos
<1> QED
  BY <1>7, <1>8

-----------------------------------------------------------------------------

\* Processes, results and the files that have been unpacked.

\* Both processes of a call have come to an end as they should.
Finished(k) == inner[k] = "ok" /\ child[k] \in {"none", "ok"}

\* The states of the processes that a result is about.
Meaning(k) ==
    /\ child[k] = "ok" => inner[k] = "ok"
    /\ child[k] \in {"read", "exec"} => inner[k] = "none"

(***************************************************************************)
(* What a result says: a call that returned has one, the child hands on    *)
(* that of the process below it, and the layers below the one that is      *)
(* unpacked went well and are left alone.                                  *)
(***************************************************************************)
ResultsMean ==
    /\ parent = "returned" => result \in {"ok", "error", "refused"}
    /\ \A k \in CallNumbers : Meaning(k)
    /\ calls[Now] = "unpack" => /\ \A k \in 1..(Now - 1) : Finished(k)
                                /\ parent = "returned" /\ result = "ok" => Finished(Now)

\* The files of the volume are those of the layers below and of the entries
\* that have been unpacked.
TreesMade ==
    calls[Now] = "unpack" =>
        /\ Tree(tree) /\ Tree(below)
        /\ \A i \in Inos(tree) :
             /\ i[1] <= Now
             /\ i[1] = Now => inner[Now] \notin {"none", "begin"} /\ i[2] <= pos

\* What has been unpacked so far is as meant.
MeantSoFar ==
    calls[Now] = "unpack" =>
        /\ inner[Now] \in {"none", "begin"} => tree = below
        /\ Regular(below, Layer(Now)) /\ LayerMapped(Layer(Now)) =>
             LET Upto(n) == Follows(tree, below, Layer(Now), n, EntryOwners(Layer(Now)))
             IN  /\ inner[Now] = "work" => Upto(pos)
                 /\ inner[Now] = "ok" /\ parent # "killed" => Upto(Len(Layer(Now).entries))

\* A step keeps what the states of a call's processes say, and a call that
\* is finished.
LEMMA MeaningStep ==
    ASSUME UInv, UnpackNext, NEW k \in CallNumbers, Meaning(k)
    PROVE  /\ Meaning(k)'
           /\ Finished(k) /\ (k # Now \/ parent \notin {"volume", "ready"}) => Finished(k)'
<1> DEFINE Goal == /\ Meaning(k)'
                   /\ Finished(k) /\ (k # Now \/ parent \notin {"volume", "ready"})
                        => Finished(k)'
<1> USE DEF UnpackTypeOK, Untouched, Alive, Working, Meaning, Finished
<1>1. /\ UnpackTypeOK /\ CallsFit /\ Now \in CallNumbers
      /\ k > Now \/ (k = Now /\ parent \in {"volume", "ready"}) => Untouched(k)
      /\ inner[k] \in Working /\ child[k] # "none" => child[k] \in {"wait", "killed"}
  <2>1. UnpackTypeOK /\ CallsFit /\ Now \in CallNumbers
    BY CallsKept DEF UInv
  <2>2. k > Now \/ (k = Now /\ parent \in {"volume", "ready"}) => Untouched(k)
    BY DEF UInv, NotBegun, Prepared
  <2>3. inner[k] \in Working => k <= Now
    BY <2>1, <2>2 DEF CallNumbers, Now
  <2>4. inner[k] \in Working /\ child[k] # "none" => child[k] \in {"wait", "killed"}
    BY <2>1, <2>3 DEF UInv, CallOK, CallNumbers, Now
  <2> QED
    BY <2>1, <2>2, <2>4
<1>2. CASE RunInner
  BY <1>1, <1>2 DEF RunInner, processVars
<1>3. CASE InnerIsDone
  BY <1>1, <1>3 DEF InnerIsDone, Returns, processVars
<1>4. CASE StartChild
  BY <1>1, <1>4 DEF StartChild, processVars
<1>5. CASE MapUIDs
  <2>1. SetMap("uid", cmd.uidMappings, "mapGIDs")
    BY <1>5 DEF MapUIDs
  <2> QED
    BY <1>1, <1>5, <2>1, SetMapCases DEF MapUIDs
<1>6. CASE MapGIDs
  <2>1. SetMap("gid", cmd.gidMappings, "signal")
    BY <1>6 DEF MapGIDs
  <2> QED
    BY <1>1, <1>6, <2>1, SetMapCases DEF MapGIDs
<1>7. CASE Signal
  BY <1>1, <1>7 DEF Signal, processVars
<1>8. CASE Wait
  BY <1>1, <1>8 DEF Wait, Returns, processVars
<1>9. CASE GoToNextCall
  BY <1>1, <1>9, AppendedCall DEF GoToNextCall, NextCall, Following, processVars
<1>10. CASE NextCommand
  BY <1>1, <1>10, AppendedCall DEF NextCommand
<1>11. CASE Exit
  BY <1>1, <1>11 DEF Exit, processVars
<1>12. CASE BaseDirectoryMissing
  BY <1>1, <1>12 DEF BaseDirectoryMissing, Returns, processVars
<1>13. CASE DestroyDirectly
  BY <1>1, <1>13 DEF DestroyDirectly, Returns, processVars
<1>14. CASE MakeImage
  BY <1>1, <1>14 DEF MakeImage, Returns, processVars
<1>15. CASE VolumeFails \/ StartFails
  BY <1>1, <1>15 DEF VolumeFails, StartFails, Fault, Returns, processVars
<1>16. CASE KillParent
  BY <1>1, <1>16 DEF KillParent, Fault, processVars
<1>17. ASSUME NEW j \in CallNumbers,
             ReadPipe(j) \/ Reexec(j) \/ ChildEnds(j)
      PROVE  Goal
  BY <1>1, <1>17 DEF ReadPipe, Reexec, ChildEnds
<1>18. ASSUME NEW j \in CallNumbers,
             KillChild(j) \/ InnerFails(j)
      PROVE  Goal
  BY <1>1, <1>18 DEF KillChild, InnerFails, Fault
<1>19. ASSUME NEW j \in CallNumbers,
             EnterRoot(j) \/ UnpackEntry(j) \/ EndOfStream(j) \/ DestroyInside(j)
      PROVE  Goal
  BY <1>1, <1>19 DEF EnterRoot, UnpackEntry, EndOfStream, DestroyInside, InnerState
<1>20. CASE UNCHANGED unpackVars
  BY <1>1, <1>20 DEF unpackVars, processVars
<1>21. CASE CreateVolume
  BY <1>1, <1>21 DEF CreateVolume, Returns, processVars
<1> QED
  BY StepCases, <1>2, <1>3, <1>4, <1>5, <1>6, <1>7, <1>8, <1>9, <1>10, <1>11, <1>12, <1>13,
    <1>14, <1>15, <1>16, <1>17, <1>18, <1>19, <1>20, <1>21

\* After a step the last call, k before it, is one that unpacks only if k is
\* one as well, and then went well if it has returned so or another follows.
GoesOn(k) ==
    /\ parent' = "returned" => result' \in {"ok", "error", "refused"}
    /\ calls'[Now'] = "unpack" =>
         /\ calls[k] = "unpack"
         /\ Now' # k => parent = "returned" /\ result = "ok"
         /\ parent' = "returned" /\ result' = "ok" =>
              Now' = k /\ inner'[k] = "ok" /\ child'[k] \in {"none", "ok"}

\* What a step says of the result, and of the call it goes on to.
LEMMA ReturnsStep ==
    ASSUME UInv, ResultsMean, UnpackNext, NEW m \in CallNumbers, m = Now
    PROVE  GoesOn(m)
<1>a. UnpackTypeOK /\ CallsFit /\ Now \in CallNumbers /\ Now \in Nat
  BY CallsKept DEF UInv
<1> USE DEF UnpackTypeOK, Alive, Working, GoesOn
<1>1. /\ UnpackTypeOK /\ CallsFit /\ m = Now /\ m \in CallNumbers /\ m \in Nat
      /\ calls' = calls => Now' = m
      /\ parent = "returned" => result \in {"ok", "error", "refused"}
      /\ calls[m] = "unpack" /\ parent = "returned" /\ result = "ok" =>
           inner[m] = "ok" /\ child[m] \in {"none", "ok"}
      /\ child[m] = "ok" => inner[m] = "ok"
      /\ inner[m] = "ok" /\ child[m] \in {"none", "ok"} /\ parent \notin {"volume", "ready"} =>
           inner'[m] = "ok" /\ child'[m] \in {"none", "ok"}
      /\ parent = "run" /\ inner[m] = "ok" => child[m] = "none"
      /\ cmd.last \in {"collect", "destroy-image", "none"}
  <2>1. calls' = calls => Now' = m
    BY DEF Now
  <2>2. parent = "run" /\ inner[m] = "ok" => child[m] = "none"
    <3>1. CallOK(m)
      BY <1>a DEF UInv, CallNumbers
    <3> QED
      BY <3>1 DEF CallOK
  <2>3. Meaning(m) /\ (Finished(m) /\ parent \notin {"volume", "ready"} => Finished(m)')
    BY MeaningStep DEF ResultsMean, Meaning
  <2>4. cmd.last \in {"collect", "destroy-image", "none"}
    BY <1>a, CommandType
  <2>5. /\ child[m] = "ok" => inner[m] = "ok"
        /\ inner[m] = "ok" /\ child[m] \in {"none", "ok"} /\ parent \notin {"volume", "ready"} =>
             inner'[m] = "ok" /\ child'[m] \in {"none", "ok"}
    BY <2>3 DEF Meaning, Finished
  <2>6. /\ parent = "returned" => result \in {"ok", "error", "refused"}
        /\ calls[m] = "unpack" /\ parent = "returned" /\ result = "ok" =>
             inner[m] = "ok" /\ child[m] \in {"none", "ok"}
    BY DEF ResultsMean, Finished
  <2> QED
    BY <1>a, <2>1, <2>2, <2>4, <2>5, <2>6
<1>2. CASE RunInner
  BY <1>1, <1>2 DEF RunInner, processVars
<1>3. CASE InnerIsDone
  BY <1>1, <1>3 DEF InnerIsDone, Returns, processVars
<1>4. CASE StartChild
  BY <1>1, <1>4 DEF StartChild, processVars
<1>5. CASE MapUIDs
  <2>1. SetMap("uid", cmd.uidMappings, "mapGIDs")
    BY <1>5 DEF MapUIDs
  <2> QED
    BY <1>1, <1>5, <2>1, SetMapCases DEF MapUIDs
<1>6. CASE MapGIDs
  <2>1. SetMap("gid", cmd.gidMappings, "signal")
    BY <1>6 DEF MapGIDs
  <2> QED
    BY <1>1, <1>6, <2>1, SetMapCases DEF MapGIDs
<1>7. CASE Signal
  BY <1>1, <1>7 DEF Signal, processVars
<1>8. CASE Wait
  BY <1>1, <1>8 DEF Wait, Returns, processVars
<1>9. CASE GoToNextCall
  <2>1. /\ parent = "returned" /\ parent' # "returned" /\ calls' = Append(calls, Following)
        /\ Following # "none" /\ result' = result
    BY <1>9 DEF GoToNextCall, NextCall
  <2>2. Now' = Now + 1 /\ calls'[Now'] = Following
    BY <1>1, <2>1 DEF Now
  <2> QED
    BY <1>1, <2>1, <2>2 DEF Following
<1>10. CASE NextCommand
  <2>1. parent' = "ready" /\ calls' = Append(calls, cmd.last) /\ cmd.last # "none"
    BY <1>10 DEF NextCommand
  <2>2. Now' = Now + 1 /\ calls'[Now'] = cmd.last
    BY <1>1, <2>1 DEF Now
  <2> QED
    BY <1>1, <2>1, <2>2
<1>11. CASE Exit
  BY <1>1, <1>11 DEF Exit, processVars
<1>12. CASE BaseDirectoryMissing
  BY <1>1, <1>12 DEF BaseDirectoryMissing, Returns, processVars
<1>13. CASE DestroyDirectly
  BY <1>1, <1>13 DEF DestroyDirectly, Returns, processVars
<1>14. CASE MakeImage
  BY <1>1, <1>14 DEF MakeImage, Returns, processVars
<1>15. CASE VolumeFails \/ StartFails
  BY <1>1, <1>15 DEF VolumeFails, StartFails, Fault, Returns, processVars
<1>16. CASE KillParent
  BY <1>1, <1>16 DEF KillParent, Fault, processVars
<1>17. ASSUME NEW j \in CallNumbers,
             ReadPipe(j) \/ Reexec(j) \/ ChildEnds(j)
      PROVE  GoesOn(m)
  BY <1>1, <1>17 DEF ReadPipe, Reexec, ChildEnds
<1>18. ASSUME NEW j \in CallNumbers,
             KillChild(j) \/ InnerFails(j)
      PROVE  GoesOn(m)
  BY <1>1, <1>18 DEF KillChild, InnerFails, Fault
<1>19. ASSUME NEW j \in CallNumbers,
             EnterRoot(j) \/ UnpackEntry(j) \/ EndOfStream(j) \/ DestroyInside(j)
      PROVE  GoesOn(m)
  BY <1>1, <1>19 DEF EnterRoot, UnpackEntry, EndOfStream, DestroyInside, InnerState
<1>20. CASE UNCHANGED unpackVars
  BY <1>1, <1>20 DEF unpackVars, processVars
<1>21. CASE CreateVolume
  BY <1>1, <1>21 DEF CreateVolume, Returns, processVars
<1> QED
  BY StepCases, <1>2, <1>3, <1>4, <1>5, <1>6, <1>7, <1>8, <1>9, <1>10, <1>11, <1>12, <1>13,
    <1>14, <1>15, <1>16, <1>17, <1>18, <1>19, <1>20, <1>21

\* So results go on to mean what they say.
LEMMA ResultsStep ==
    ASSUME UInv, ResultsMean, UnpackNext
    PROVE  ResultsMean'
<1>1. Now \in CallNumbers /\ Now \in Nat
  BY CallsKept
<1>2. PICK m \in CallNumbers : m = Now
  BY <1>1
<1>3. PICK x \in Nat : x = Now'
  BY CallsKept
<1>21. GoesOn(m)
  BY <1>2, ReturnsStep
<1>22. \A k \in CallNumbers : Meaning(k)'
  BY MeaningStep DEF ResultsMean
<1>23. ASSUME calls'[x] = "unpack", NEW k \in 1..(x - 1)
       PROVE  Finished(k)'
  <2>1. k \in CallNumbers /\ k \in Nat /\ k <= m /\ (k = m => x # m)
    <3>1. x <= m + 1 /\ m \in 1..MaxCalls /\ MaxCalls \in Nat
      BY <1>2, <1>3, CallsKept, NamespaceAssumption DEF CallNumbers
    <3>2. k \in Int /\ 1 <= k /\ k <= x - 1
      BY <1>23, <3>1
    <3>3. k \in Nat /\ k <= m /\ (k = m => x # m)
      BY <3>1, <3>2
    <3> QED
      BY <3>1, <3>3, <3>2 DEF CallNumbers
  <2>2. calls[m] = "unpack" /\ (x # m => parent = "returned" /\ result = "ok")
    BY <1>3, <1>21, <1>23 DEF GoesOn
  <2>3. Finished(k) /\ (k # m \/ parent \notin {"volume", "ready"})
    <3>1. CASE k = m
      BY <1>2, <2>1, <2>2, <3>1 DEF ResultsMean
    <3>2. CASE k # m
      <4>1. k \in 1..(Now - 1)
        BY <1>2, <2>1, <3>2 DEF CallNumbers
      <4> QED
        BY <1>2, <2>2, <3>2, <4>1 DEF ResultsMean
    <3> QED
      BY <3>1, <3>2
  <2> QED
    BY <1>2, <2>1, <2>3, MeaningStep DEF ResultsMean
<1>24. calls'[Now'] = "unpack" /\ parent' = "returned" /\ result' = "ok" => Finished(Now)'
  BY <1>21 DEF Finished, GoesOn
<1> QED
  BY <1>3, <1>21, <1>22, <1>23, <1>24 DEF ResultsMean, GoesOn, CallNumbers

\* The steps that change the files or how far a layer is unpacked.
LEMMA TreeCases ==
    ASSUME UnpackNext
    PROVE  \/ below' = below /\ tree' = tree /\ pos' = pos
           \/ CreateVolume \/ GoToNextCall \/ DestroyDirectly
           \/ \E k \in CallNumbers : EnterRoot(k) \/ UnpackEntry(k) \/ DestroyInside(k)
BY DEF UnpackNext, CommandStep, Begin, GoOn, ProcessStep, InnerStep, NamespaceFault,
  BaseDirectoryMissing, MakeImage, EndOfStream, treeVars, unpackVars

\* What else happens to the process that unpacks: it starts or fails.
Stepped(k) ==
    \/ GoToNextCall \/ NextCommand \/ EnterRoot(k) \/ UnpackEntry(k) \/ EndOfStream(k)
    \/ /\ calls' = calls /\ (parent = "killed" => parent' = "killed")
       /\ \/ inner'[k] = inner[k] \/ inner'[k] = "failed"
          \/ inner[k] = "none" /\ inner'[k] = "begin"

\* Nothing else can happen to it.
LEMMA SteppedStep ==
    ASSUME UInv, ResultsMean, UnpackNext, NEW m \in CallNumbers, m = Now, calls[m] = "unpack",
           \A j \in CallNumbers \ {m} : inner[j] \notin Working
    PROVE  Stepped(m)
<1> USE DEF UnpackTypeOK, Alive, Working, Stepped, Untouched, Meaning
<1>1. /\ UnpackTypeOK /\ CallsFit /\ m = Now /\ m \in CallNumbers /\ calls[m] = "unpack"
      /\ parent \in {"volume", "ready"} => Untouched(m)
      /\ Meaning(m)
      /\ \A j \in CallNumbers \ {m} : inner[j] \notin Working
  BY CallsKept DEF UInv, ResultsMean, NotBegun, Prepared
<1>2. CASE RunInner
  BY <1>1, <1>2 DEF RunInner, processVars
<1>3. CASE InnerIsDone
  BY <1>1, <1>3 DEF InnerIsDone, Returns, processVars
<1>4. CASE StartChild
  BY <1>1, <1>4 DEF StartChild, processVars
<1>5. CASE MapUIDs
  <2>1. SetMap("uid", cmd.uidMappings, "mapGIDs")
    BY <1>5 DEF MapUIDs
  <2> QED
    BY <1>1, <1>5, <2>1, SetMapCases DEF MapUIDs
<1>6. CASE MapGIDs
  <2>1. SetMap("gid", cmd.gidMappings, "signal")
    BY <1>6 DEF MapGIDs
  <2> QED
    BY <1>1, <1>6, <2>1, SetMapCases DEF MapGIDs
<1>7. CASE Signal
  BY <1>1, <1>7 DEF Signal, processVars
<1>8. CASE Wait
  BY <1>1, <1>8 DEF Wait, Returns, processVars
<1>9. CASE GoToNextCall
  BY <1>9
<1>10. CASE NextCommand
  BY <1>10
<1>11. CASE Exit
  BY <1>1, <1>11 DEF Exit, processVars
<1>12. CASE BaseDirectoryMissing
  BY <1>1, <1>12 DEF BaseDirectoryMissing, Returns, processVars
<1>13. CASE DestroyDirectly
  BY <1>1, <1>13 DEF DestroyDirectly, Returns, processVars
<1>14. CASE MakeImage
  BY <1>1, <1>14 DEF MakeImage, Returns, processVars
<1>15. CASE VolumeFails \/ StartFails
  BY <1>1, <1>15 DEF VolumeFails, StartFails, Fault, Returns, processVars
<1>16. CASE KillParent
  BY <1>1, <1>16 DEF KillParent, Fault, processVars
<1>17. ASSUME NEW j \in CallNumbers,
             ReadPipe(j) \/ Reexec(j) \/ ChildEnds(j)
      PROVE  Stepped(m)
  BY <1>1, <1>17 DEF ReadPipe, Reexec, ChildEnds
<1>18. ASSUME NEW j \in CallNumbers,
             KillChild(j) \/ InnerFails(j)
      PROVE  Stepped(m)
  BY <1>1, <1>18 DEF KillChild, InnerFails, Fault
<1>19. ASSUME NEW j \in CallNumbers,
             EnterRoot(j) \/ UnpackEntry(j) \/ EndOfStream(j) \/ DestroyInside(j)
      PROVE  Stepped(m)
  BY <1>1, <1>19 DEF EnterRoot, UnpackEntry, EndOfStream, DestroyInside, InnerState
<1>20. CASE UNCHANGED unpackVars
  BY <1>1, <1>20 DEF unpackVars, processVars
<1>21. CASE CreateVolume
  BY <1>1, <1>21 DEF CreateVolume, Returns, processVars
<1> QED
  BY StepCases, <1>2, <1>3, <1>4, <1>5, <1>6, <1>7, <1>8, <1>9, <1>10, <1>11, <1>12, <1>13,
    <1>14, <1>15, <1>16, <1>17, <1>18, <1>19, <1>20, <1>21

\* While a layer is unpacked no process of another call works.
LEMMA OthersIdle ==
    ASSUME UInv, ResultsMean, NEW m \in CallNumbers, m = Now, calls[m] = "unpack",
           NEW j \in CallNumbers \ {m}
    PROVE  inner[j] \notin Working
<1>1. m \in Nat /\ j \in Nat /\ 1 <= j
  BY NamespaceAssumption DEF CallNumbers
<1>2. CASE j > m
  BY <1>2 DEF UInv, NotBegun, Prepared, Untouched, Working
<1>3. CASE j < m
  <2>1. j \in 1..(Now - 1)
    BY <1>1, <1>3
  <2> QED
    BY <2>1 DEF ResultsMean, Finished, Working
<1> QED
  BY <1>1, <1>2, <1>3

\* The ways a step goes on with a layer, k being the last call before it.
LayerStep(k) ==
    \/ CreateVolume /\ Now' = k
    \/ GoToNextCall /\ Now' = k + 1 /\ parent = "returned" /\ Finished(k)
    \/ EnterRoot(k) /\ Now' = k
    \/ UnpackEntry(k) /\ Now' = k
    \/ /\ Now' = k /\ below' = below /\ tree' = tree /\ pos' = pos
       /\ \/ EndOfStream(k)
          \/ /\ parent = "killed" => parent' = "killed"
             /\ \/ inner'[k] = inner[k] \/ inner'[k] = "failed"
                \/ inner[k] = "none" /\ inner'[k] = "begin"

\* Nothing but these steps leaves a layer to be unpacked.
LEMMA LayerSteps ==
    ASSUME UInv, ResultsMean, UnpackNext, NEW m \in CallNumbers, m = Now,
           calls'[Now'] = "unpack"
    PROVE  calls[m] = "unpack" /\ LayerStep(m)
<1>1. GoesOn(m)
  BY ReturnsStep
<1>2. calls[m] = "unpack" /\ (Now' # m => parent = "returned" /\ result = "ok")
  BY <1>1 DEF GoesOn
<1>3. \A j \in CallNumbers \ {m} : inner[j] \notin Working
  BY <1>2, OthersIdle
<1>4. Stepped(m)
  BY <1>2, <1>3, SteppedStep
<1>5. calls' = calls => Now' = m
  BY DEF Now
<1>6. CASE GoToNextCall
  <2>1. Now' = m + 1 /\ parent = "returned"
    BY <1>6, AppendedCall DEF UInv, GoToNextCall, NextCall
  <2>2. m \in Nat
    BY CallsKept
  <2>3. Finished(m)
    BY <1>2, <2>1, <2>2 DEF ResultsMean
  <2> QED
    BY <1>2, <1>6, <2>1, <2>3 DEF LayerStep
<1>7. CASE EnterRoot(m)
  BY <1>2, <1>5, <1>7 DEF LayerStep, EnterRoot
<1>8. CASE UnpackEntry(m)
  BY <1>2, <1>5, <1>8 DEF LayerStep, UnpackEntry
<1>9. CASE CreateVolume
  BY <1>2, <1>5, <1>9 DEF LayerStep, CreateVolume
<1>10. CASE ~GoToNextCall /\ ~EnterRoot(m) /\ ~UnpackEntry(m) /\ ~CreateVolume
  <2>1. calls' = calls /\ ~NextCommand
    <3>1. ~NextCommand
      <4>1. NextCommand => calls' = Append(calls, cmd.last) /\ cmd.last # "unpack"
        BY CommandType DEF UInv, UnpackTypeOK, NextCommand
      <4>2. calls \in Seq({"unpack", "cleanup", "image", "collect", "destroy-image"})
        BY DEF UInv, UnpackTypeOK
      <4>3. NextCommand => calls'[Now'] = cmd.last
        BY <4>1, <4>2 DEF Now
      <4> QED
        BY <4>1, <4>3
    <3> QED
      BY <1>4, <1>10, <3>1 DEF Stepped, EndOfStream
  <2>2. below' = below /\ tree' = tree /\ pos' = pos
    <3>1. ~DestroyDirectly /\ ~DestroyInside(m)
      BY <1>2 DEF DestroyDirectly, DestroyInside
    <3>2. \A k \in CallNumbers \ {m} : ~EnterRoot(k) /\ ~UnpackEntry(k) /\ ~DestroyInside(k)
      BY <1>3 DEF EnterRoot, UnpackEntry, DestroyInside, Working
    <3> QED
      BY <1>10, <3>1, <3>2, TreeCases
  <2> QED
    BY <1>2, <1>4, <1>5, <1>10, <2>1, <2>2 DEF Stepped, LayerStep
<1> QED
  BY <1>6, <1>7, <1>8, <1>9, <1>10

\* The layer that is unpacked is one.
LEMMA LayerOf ==
    ASSUME UInv, NEW m \in CallNumbers, m = Now, calls[m] = "unpack"
    PROVE  Layer(m) \in LayerType
<1>1. m \in Nat /\ 1 <= m /\ m <= Len(cmd.image)
  BY CallsKept DEF UInv, CallsFit, CallNumbers
<1>2. cmd.image \in Seq(Layers)
  BY NamespaceAssumption DEF UInv, UnpackTypeOK
<1>3. cmd.image[m] \in Layers
  BY <1>1, <1>2
<1> QED
  BY <1>3, ImageAssumption DEF Layer, LayerType, Paths

\* What is known of the entry that is unpacked next.
LEMMA NextEntry ==
    ASSUME UInv, TreesMade, NEW m \in CallNumbers, m = Now, calls[m] = "unpack",
           UnpackEntry(m), NEW layer, layer = Layer(m)
    PROVE  /\ Tree(tree) /\ Tree(below) /\ layer \in LayerType
           /\ pos \in Nat /\ pos + 1 \in 1..Len(layer.entries) /\ pos' = pos + 1
           /\ <<m, pos + 1>> \in Nat \X Nat /\ <<m, pos + 1>> \notin Inos(tree)
           /\ OwnersSet(m, layer.entries[pos + 1]) \in SUBSET (Int \X Int)
           /\ Unpacked(m) = unpack(tree, layer.base, <<m, pos + 1>>, layer.entries[pos + 1],
                                   OwnersSet(m, layer.entries[pos + 1]))
           /\ tree' = Unpacked(m).tree /\ below' = below
           /\ inner[m] = "work" /\ inner'[m] = IF Unpacked(m).ok THEN "work" ELSE "failed"
<1>1. Tree(tree) /\ Tree(below) /\ layer \in LayerType
  BY LayerOf DEF TreesMade
<1>2. /\ inner[m] = "work" /\ pos < Len(layer.entries) /\ pos' = pos + 1
      /\ tree' = Unpacked(m).tree /\ below' = below
      /\ inner'[m] = IF Unpacked(m).ok THEN "work" ELSE "failed"
  BY DEF UnpackEntry, InnerState, UInv, UnpackTypeOK
<1>3. pos \in Nat /\ pos + 1 \in 1..Len(layer.entries) /\ m \in Nat
  <2>1. Len(layer.entries) \in Nat
    BY <1>1, LenProperties DEF LayerType
  <2> QED
    BY <1>2, <2>1, CallsKept DEF UInv, UnpackTypeOK
<1>4. <<m, pos + 1>> \in Nat \X Nat
  BY <1>3
<1>5. <<m, pos + 1>> \notin Inos(tree)
  <2> SUFFICES ASSUME <<m, pos + 1>> \in Inos(tree) PROVE FALSE
    OBVIOUS
  <2>1. <<m, pos + 1>>[1] = m /\ <<m, pos + 1>>[2] = pos + 1
    OBVIOUS
  <2>2. pos + 1 <= pos
    BY <2>1 DEF TreesMade
  <2> QED
    BY <1>3, <2>2
<1>6. OwnersSet(m, layer.entries[pos + 1]) \in SUBSET (Int \X Int)
  <2>1. layer.entries[pos + 1] \in Entries
    BY <1>1, <1>3, EntryOf
  <2> QED
    BY <2>1, OwnersAreIDs DEF UInv, UnpackTypeOK
<1>7. Unpacked(m) = unpack(tree, layer.base, <<m, pos + 1>>, layer.entries[pos + 1],
                           OwnersSet(m, layer.entries[pos + 1]))
  BY DEF Unpacked
<1> QED
  BY <1>1, <1>2, <1>3, <1>4, <1>5, <1>6, <1>7

\* Every step leaves trees, with files that have come in order.
LEMMA TreesStep ==
    ASSUME UInv, ResultsMean, TreesMade, UnpackNext
    PROVE  TreesMade'
<1>1. PICK m \in CallNumbers : m = Now
  BY CallsKept
<1>2. PICK x \in Nat : x = Now'
  BY CallsKept
<1>3. SUFFICES ASSUME calls'[x] = "unpack"
               PROVE  /\ Tree(tree') /\ Tree(below')
                      /\ \A i \in Inos(tree') :
                           /\ i[1] <= x
                           /\ i[1] = x => inner'[x] \notin {"none", "begin"} /\ i[2] <= pos'
  BY <1>2 DEF TreesMade, Tree, IsDir, Inos
<1>4. calls[m] = "unpack" /\ LayerStep(m) /\ m \in Nat
  BY <1>1, <1>2, <1>3, LayerSteps, CallsKept
<1>5. /\ Tree(tree) /\ Tree(below) /\ pos \in Nat
      /\ \A i \in Inos(tree) :
           i[1] <= m /\ (i[1] = m => inner[m] \notin {"none", "begin"} /\ i[2] <= pos)
  BY <1>1, <1>4 DEF TreesMade, UInv, UnpackTypeOK
<1>6. \A i \in Inos(tree) : i[1] \in Nat /\ i[2] \in Nat
  BY <1>5 DEF Inos, Tree, Nodes
<1>7. CASE GoToNextCall /\ Now' = m + 1
  <2>1. below' = tree /\ tree' = tree
    BY <1>7 DEF GoToNextCall
  <2>2. \A i \in Inos(tree) : i[1] <= x /\ i[1] # x
    BY <1>2, <1>4, <1>5, <1>6, <1>7
  <2> QED
    BY <1>5, <2>1, <2>2
<1>11. CASE CreateVolume /\ Now' = m
  <2>1. /\ inner' = inner /\ pos' = pos
        /\ (tree' = Owned /\ below' = Owned) \/ (tree' = tree /\ below' = below)
    BY <1>11 DEF CreateVolume, processVars
  <2>2. Tree(Owned) /\ Inos(Owned) = Inos(tree)
    BY <1>5, OwnedTree DEF UInv, UnpackTypeOK
  <2> QED
    BY <1>2, <1>5, <1>11, <2>1, <2>2
<1>8. CASE EnterRoot(m) /\ Now' = m
  <2>1. below' = below /\ tree' = tree /\ inner[m] = "begin"
    BY <1>8 DEF EnterRoot
  <2> QED
    BY <1>2, <1>5, <1>8, <2>1
<1>9. CASE UnpackEntry(m) /\ Now' = m
  <2> DEFINE layer == Layer(m)
             ino == <<m, pos + 1>>
             r == Unpacked(m)
  <2>1. /\ layer \in LayerType
        /\ pos + 1 \in 1..Len(layer.entries) /\ pos' = pos + 1
        /\ ino \in Nat \X Nat /\ ino \notin Inos(tree)
        /\ OwnersSet(m, layer.entries[pos + 1]) \in SUBSET (Int \X Int)
        /\ r = unpack(tree, layer.base, ino, layer.entries[pos + 1],
                      OwnersSet(m, layer.entries[pos + 1]))
        /\ tree' = r.tree /\ below' = below
        /\ inner'[m] \in {"work", "failed"}
    BY <1>1, <1>4, <1>9, NextEntry
  <2>2. ino[1] = m /\ ino[2] = pos + 1
    OBVIOUS
  <2> HIDE DEF layer, ino, r
  <2>3. StaysTree(r, tree, ino)
    BY <1>5, <2>1, UnpackStays
  <2>4. Tree(tree') /\ Inos(tree') \subseteq Inos(tree) \cup {ino}
    BY <2>1, <2>3 DEF StaysTree
  <2>5. ASSUME NEW i \in Inos(tree')
        PROVE  i[1] <= m /\ (i[1] = m => i[2] <= pos + 1)
    BY <1>4, <1>5, <1>6, <2>2, <2>4
  <2> QED
    BY <1>2, <1>5, <1>9, <2>1, <2>4, <2>5
<1>10. CASE /\ Now' = m /\ below' = below /\ tree' = tree /\ pos' = pos
            /\ \/ EndOfStream(m)
               \/ /\ parent = "killed" => parent' = "killed"
                  /\ \/ inner'[m] = inner[m] \/ inner'[m] = "failed"
                     \/ inner[m] = "none" /\ inner'[m] = "begin"
  <2>1. inner[m] \notin {"none", "begin"} => inner'[m] \notin {"none", "begin"}
    BY <1>10 DEF EndOfStream, InnerState, UInv, UnpackTypeOK
  <2> QED
    BY <1>2, <1>5, <1>10, <2>1
<1> QED
  BY <1>4, <1>7, <1>8, <1>9, <1>10, <1>11 DEF LayerStep

\* What a layer means depends on the command alone.
LEMMA SameMeaning ==
    ASSUME cmd' = cmd, NEW layer, NEW k
    PROVE  /\ LayerMapped(layer)' <=> LayerMapped(layer)
           /\ EntryOwners(layer)' = EntryOwners(layer)
           /\ Layer(k)' = Layer(k)
BY DEF LayerMapped, EntryOwners, EntryOwner, HostIDs, Layer

\* The next entry of a regular layer whose ids are mapped is unpacked, to
\* what it means.
LEMMA EntryMeant ==
    ASSUME UInv, TreesMade, NEW m \in CallNumbers, m = Now, calls[m] = "unpack",
           UnpackEntry(m), NEW layer, layer = Layer(m),
           Regular(below, layer), LayerMapped(layer),
           Follows(tree, below, layer, pos, EntryOwners(layer))
    PROVE  /\ Unpacked(m).ok
           /\ Follows(tree', below, layer, pos + 1, EntryOwners(layer))
<1>1. /\ Tree(tree) /\ layer \in LayerType
      /\ pos \in Nat /\ pos + 1 \in 1..Len(layer.entries)
      /\ <<m, pos + 1>> \in Nat \X Nat /\ <<m, pos + 1>> \notin Inos(tree)
      /\ Unpacked(m) = unpack(tree, layer.base, <<m, pos + 1>>, layer.entries[pos + 1],
                              OwnersSet(m, layer.entries[pos + 1]))
      /\ tree' = Unpacked(m).tree /\ inner[m] = "work"
  BY NextEntry
<1> DEFINE n == pos
           e == layer.entries[n + 1]
           ino == <<m, n + 1>>
           os == OwnersSet(m, e)
           r == Unpacked(m)
           owners == EntryOwners(layer)
<1>2. RegularEntry(below, layer, n + 1)
  BY <1>1 DEF Regular
<1>3. cmd.root \/ maps[m] = Wanted("unpack")
  <2>1. CallOK(m)
    BY CallsKept DEF UInv, CallNumbers
  <2> QED
    BY <1>1, <2>1 DEF CallOK, ViaChild
<1>4. Creates(e) /\ e.type # "link" => os = {owners[n + 1]} /\ owners[n + 1] \in Int \X Int
  <2>1. cmd \in Commands
    BY DEF UInv, UnpackTypeOK
  <2>2. n + 1 \in 1..Len(layer.entries) /\ e = layer.entries[n + 1] /\ layer \in LayerType
    BY <1>1
  <2> HIDE DEF n, e
  <2> SUFFICES ASSUME Creates(e), e.type # "link"
               PROVE  os = {owners[n + 1]} /\ owners[n + 1] \in Int \X Int
    OBVIOUS
  <2>3. PICK i \in 1..Len(layer.entries) : i = n + 1
    BY <2>2
  <2>4. Creates(e) /\ e.type # "link" /\ LayerMapped(layer) /\ e = layer.entries[i]
    BY <2>2, <2>3
  <2>5. /\ OwnersSet(m, e) = {EntryOwners(layer)[i]}
        /\ EntryOwners(layer)[i] \in Int \X Int
    BY ONLY <1>3, <2>1, <2>2, <2>4, OwnersKnown
  <2> QED
    BY <2>3, <2>5
<1>5. /\ r = unpack(tree, layer.base, ino, e, os) /\ ino \in Nat \X Nat /\ ino \notin Inos(tree)
      /\ n \in Nat /\ n + 1 \in 1..Len(layer.entries) /\ e = layer.entries[n + 1]
      /\ Follows(tree, below, layer, n, owners)
  BY <1>1
<1> HIDE DEF n, e, ino, os, r, owners
<1>6. EntryWorks(r, below, layer, n + 1, owners)
  BY <1>1, <1>2, <1>4, <1>5, EntryFollows
<1> QED
  BY <1>1, <1>6 DEF EntryWorks, n, r, owners

\* So every step keeps the files as meant.
LEMMA MeantStep ==
    ASSUME UInv, ResultsMean, TreesMade, MeantSoFar, UnpackNext
    PROVE  MeantSoFar'
<1>1. PICK m \in CallNumbers : m = Now
  BY CallsKept
<1>2. PICK x \in Nat : x = Now'
  BY CallsKept
<1> DEFINE O(l) == EntryOwners(l)
<1>3. cmd' = cmd
  BY SameCommand
<1>4. SUFFICES ASSUME calls'[x] = "unpack", NEW layer, layer = Layer(x)
               PROVE  /\ inner'[x] \in {"none", "begin"} => tree' = below'
                      /\ Regular(below', layer) /\ LayerMapped(layer) =>
                           /\ inner'[x] = "work" =>
                                Follows(tree', below', layer, pos', O(layer))
                           /\ inner'[x] = "ok" /\ parent' # "killed" =>
                                Follows(tree', below', layer, Len(layer.entries), O(layer))
  <2>1. Layer(x)' = Layer(x)
    BY <1>3, SameMeaning
  <2>2. /\ LayerMapped(Layer(x))' <=> LayerMapped(Layer(x))
        /\ EntryOwners(Layer(x))' = EntryOwners(Layer(x))
    BY <1>3 DEF LayerMapped, EntryOwners, EntryOwner, HostIDs, Layer
  <2> QED
    BY <1>2, <2>1, <2>2 DEF MeantSoFar
<1>5. calls[m] = "unpack" /\ LayerStep(m) /\ m \in Nat
  BY <1>1, <1>2, <1>4, LayerSteps, CallsKept
<1>6. ASSUME x = m
      PROVE  /\ inner[m] \in {"none", "begin"} => tree = below
             /\ Regular(below, layer) /\ LayerMapped(layer) =>
                  /\ inner[m] = "work" => Follows(tree, below, layer, pos, O(layer))
                  /\ inner[m] = "ok" /\ parent # "killed" =>
                       Follows(tree, below, layer, Len(layer.entries), O(layer))
  BY <1>1, <1>4, <1>5, <1>6 DEF MeantSoFar
<1> HIDE DEF O
<1>7. CASE GoToNextCall /\ Now' = m + 1
  <2>1. below' = tree /\ tree' = tree /\ inner' = inner
    BY <1>7 DEF GoToNextCall, NextCall, processVars
  <2>2. x > Now /\ x \in CallNumbers
    BY <1>1, <1>2, <1>5, <1>7, AppendedCall DEF UInv
  <2>3. inner[x] = "none"
    BY <2>2 DEF UInv, NotBegun, Prepared, Untouched
  <2> QED
    BY <2>1, <2>3
<1>11. CASE CreateVolume /\ Now' = m
  <2>1. inner[m] = "none"
    BY <1>1, <1>11 DEF CreateVolume, UInv, NotBegun, Prepared, Untouched
  <2>2. tree = below
    BY <1>2, <1>6, <1>11, <2>1
  <2>3. inner' = inner /\ tree' = below'
    BY <1>11, <2>2 DEF CreateVolume, processVars
  <2> QED
    BY <1>2, <1>11, <2>1, <2>3
<1>8. CASE EnterRoot(m) /\ Now' = m
  <2>1. /\ below' = below /\ tree' = tree /\ inner[m] = "begin" /\ pos' = 0
        /\ inner'[m] \in {"work", "failed"}
    BY <1>8 DEF EnterRoot, InnerState, UInv, UnpackTypeOK
  <2>2. tree = below
    BY <1>2, <1>6, <1>8, <2>1
  <2>3. Follows(tree, tree, layer, 0, O(layer))
    BY FollowsStart
  <2> QED
    BY <1>2, <1>8, <2>1, <2>2, <2>3
<1>9. CASE UnpackEntry(m) /\ Now' = m
  <2>1. /\ below' = below /\ pos' = pos + 1 /\ inner[m] = "work"
        /\ inner'[m] \in {"work", "failed"}
    BY <1>1, <1>5, <1>9, NextEntry
  <2>2. ASSUME Regular(below, layer), LayerMapped(layer)
        PROVE  Follows(tree', below, layer, pos + 1, O(layer))
    <3>1. Follows(tree, below, layer, pos, O(layer))
      BY <1>2, <1>6, <1>9, <2>1, <2>2
    <3> QED
      BY <1>1, <1>2, <1>4, <1>5, <1>9, <2>2, <3>1, EntryMeant DEF O
  <2> QED
    BY <1>2, <1>9, <2>1, <2>2
<1>10. CASE /\ Now' = m /\ below' = below /\ tree' = tree /\ pos' = pos
            /\ \/ EndOfStream(m)
               \/ /\ parent = "killed" => parent' = "killed"
                  /\ \/ inner'[m] = inner[m] \/ inner'[m] = "failed"
                     \/ inner[m] = "none" /\ inner'[m] = "begin"
  <2>1. CASE EndOfStream(m)
    <3>1. /\ inner[m] = "work" /\ inner'[m] = "ok" /\ parent' = parent
          /\ pos = Len(layer.entries) \/ parent = "killed"
      BY <1>2, <1>4, <1>10, <2>1 DEF EndOfStream, InnerState, UInv, UnpackTypeOK
    <3> QED
      BY <1>2, <1>6, <1>10, <3>1
  <2>2. CASE ~EndOfStream(m)
    BY <1>2, <1>6, <1>10, <2>2
  <2> QED
    BY <2>1, <2>2
<1> QED
  BY <1>5, <1>7, <1>8, <1>9, <1>10, <1>11 DEF LayerStep

\* With it, that what is unpacked is as meant.
MInv == UInv /\ ResultsMean /\ TreesMade /\ MeantSoFar

\* A volume without files is a tree.
LEMMA EmptyTreeOK ==
    ASSUME NEW o \in Int \X Int
    PROVE  Tree(EmptyTree(o)) /\ Inos(EmptyTree(o)) = {<<0, 0>>}
BY DEF Tree, EmptyTree, Inos, IsDir, Nodes, Node, Paths

\* The first layer is unpacked into an empty volume.
LEMMA MeantInit ==
    ASSUME UnpackInit
    PROVE  MInv
<1>1. Len(calls) = 1 /\ calls[1] = "unpack" /\ Now = 1 /\ 1 \in CallNumbers
  BY NamespaceAssumption DEF UnpackInit, NamespaceInit, CallNumbers, Now
<1>2. /\ parent = "volume" /\ \A k \in CallNumbers : child[k] = "none" /\ inner[k] = "none"
      /\ tree = EmptyTree(Caller) /\ below = EmptyTree(Caller)
  BY DEF UnpackInit, NamespaceInit
<1>3. ResultsMean
  BY <1>1, <1>2 DEF ResultsMean, Meaning
<1>4. TreesMade
  <2>1. Caller \in Int \X Int
    BY ImageAssumption DEF Caller
  <2>2. Tree(EmptyTree(Caller)) /\ Inos(EmptyTree(Caller)) = {<<0, 0>>}
    BY <2>1, EmptyTreeOK
  <2> QED
    BY <1>1, <1>2, <2>2 DEF TreesMade
<1>5. MeantSoFar
  BY <1>1, <1>2 DEF MeantSoFar
<1> QED
  BY <1>3, <1>4, <1>5, InvInit DEF MInv

\* Nothing is lost where nothing changes.
LEMMA MeantStutters ==
    ASSUME ResultsMean, TreesMade, MeantSoFar, UNCHANGED unpackVars
    PROVE  ResultsMean' /\ TreesMade' /\ MeantSoFar'
<1>1. /\ parent' = parent /\ calls' = calls /\ child' = child /\ inner' = inner
      /\ result' = result /\ cmd' = cmd /\ pos' = pos /\ tree' = tree /\ below' = below
  BY DEF unpackVars, processVars, treeVars
<1>2. Now' = Now
  BY <1>1 DEF Now
<1>3. ResultsMean'
  BY <1>1, <1>2 DEF ResultsMean, Meaning, Finished, CallNumbers
<1>4. TreesMade'
  BY <1>1, <1>2 DEF TreesMade, Tree, IsDir, Inos
<1>5. MeantSoFar'
  <2>1. PICK x : x = Now /\ x = Now'
    BY <1>2
  <2>2. /\ Layer(x)' = Layer(x)
        /\ LayerMapped(Layer(x))' <=> LayerMapped(Layer(x))
        /\ EntryOwners(Layer(x))' = EntryOwners(Layer(x))
    BY <1>1 DEF LayerMapped, EntryOwners, EntryOwner, HostIDs, Layer
  <2> QED
    BY <1>1, <2>1, <2>2 DEF MeantSoFar
<1> QED
  BY <1>3, <1>4, <1>5

\* The invariant.
LEMMA MeantHolds == UnpackSpec => []MInv
<1>1. ASSUME MInv, [UnpackNext]_unpackVars
      PROVE  MInv'
  BY <1>1, InvStep, ResultsStep, TreesStep, MeantStep, MeantStutters DEF MInv
<1> QED
  BY <1>1, MeantInit, PTL DEF UnpackSpec

(***************************************************************************)
(* A call that reports success has made of a regular layer whose ids are   *)
(* mapped what the layer means: groot reports it only when the process     *)
(* that unpacks got to the end of the layer, every entry on the way did    *)
(* what it means, and root's translateID gives the owner that the kernel   *)
(* gives in a user namespace.                                              *)
(***************************************************************************)
THEOREM LayersAsMeant == UnpackSpec => []LayerAsMeant
<1>1. ASSUME MInv
      PROVE  LayerAsMeant
  <2> DEFINE layer == Layer(Now)
             owners == EntryOwners(layer)
  <2> SUFFICES ASSUME parent = "returned", result = "ok", calls[Now] = "unpack",
                      Regular(below, layer), LayerMapped(layer)
               PROVE  Describe(tree) = Overlay(Describe(below), layer, Len(layer.entries), owners)
    BY DEF LayerAsMeant
  <2>1. inner[Now] = "ok"
    BY <1>1 DEF MInv, ResultsMean, Finished
  <2>2. Follows(tree, below, layer, Len(layer.entries), owners)
    BY <1>1, <2>1 DEF MInv, MeantSoFar
  <2> QED
    BY <2>2, FollowsEnd
<1> QED
  BY <1>1, MeantHolds, PTL

-----------------------------------------------------------------------------

\* Nothing but failures keeps an image from being made.

(***************************************************************************)
(* Where nothing has failed of itself: nobody has been killed, the child   *)
(* waits for the byte while groot sets the maps, its end of the pipe open, *)
(* and a child that fails has read the byte and has a process that failed. *)
(***************************************************************************)
Unharmed ==
    faults = 0 =>
        /\ parent # "killed"
        /\ \A k \in CallNumbers : child[k] # "killed"
        /\ parent \in {"mapUIDs", "mapGIDs", "signal"} => child[Now] = "read" /\ writer[Now]
        /\ parent = "wait" => byte[Now] /\ (child[Now] = "failed" => inner[Now] = "failed")

\* The mappings are those that an image can be made with.
MappingsUsable == Usable(cmd.uidMappings, Caller[1]) /\ Usable(cmd.gidMappings, Caller[2])

\* A regular layer whose ids are mapped does not fail to be unpacked.
LayerWell ==
    /\ faults = 0 /\ MappingsUsable
    /\ calls[Now] = "unpack" /\ Regular(below, Layer(Now)) /\ LayerMapped(Layer(Now))
    /\ cmd.root \/ below[<< >>].owner[1] = Caller[1]
    => inner[Now] # "failed" /\ (parent = "returned" => result = "ok")

\* An image whose root directory is root's is made, and is root's.
ImageWell ==
    calls[Now] = "image" =>
        /\ parent \notin {"run", "volume"}
        /\ /\ faults = 0 /\ MappingsUsable /\ parent = "returned"
           /\ RootsOwn(tree[<< >>].owner[1], cmd.uidMappings)
           /\ RootsOwn(tree[<< >>].owner[2], cmd.gidMappings)
           => /\ result = "ok"
              /\ owner[1] \in HostIDs(0, cmd.uidMappings)
              /\ owner[2] \in HostIDs(0, cmd.gidMappings)

\* Nobody is killed but by a failure, and groot keeps the pipe open as long as
\* it sets maps.
LEMMA UnharmedStep ==
    ASSUME UInv, Unharmed, UnpackNext
    PROVE  Unharmed'
<1>1. PICK m \in CallNumbers : m = Now
  BY CallsKept
<1>2. PICK x \in Nat : x = Now'
  BY CallsKept
<1>3. SUFFICES ASSUME faults' = 0
               PROVE  /\ parent' # "killed"
                      /\ \A k \in CallNumbers : child'[k] # "killed"
                      /\ parent' \in {"mapUIDs", "mapGIDs", "signal"} =>
                           child'[x] = "read" /\ writer'[x]
                      /\ parent' = "wait" =>
                           byte'[x] /\ (child'[x] = "failed" => inner'[x] = "failed")
  BY <1>2 DEF Unharmed, CallNumbers
<1> DEFINE Goal == /\ parent' # "killed"
                   /\ \A k \in CallNumbers : child'[k] # "killed"
                   /\ parent' \in {"mapUIDs", "mapGIDs", "signal"} =>
                        child'[x] = "read" /\ writer'[x]
                   /\ parent' = "wait" =>
                        byte'[x] /\ (child'[x] = "failed" => inner'[x] = "failed")
<1> USE DEF UnpackTypeOK, Alive, Working
<1>4. /\ UnpackTypeOK /\ m = Now /\ x = Now' /\ m \in CallNumbers
      /\ calls' = calls => x = m
      /\ faults = 0 => /\ parent # "killed"
                       /\ \A k \in CallNumbers : child[k] # "killed"
                       /\ parent \in {"mapUIDs", "mapGIDs", "signal"} =>
                            child[m] = "read" /\ writer[m] /\ ~byte[m]
                       /\ parent = "wait" =>
                            byte[m] /\ (child[m] = "failed" => inner[m] = "failed")
  <2>1. calls' = calls => x = m
    BY <1>1, <1>2 DEF Now
  <2>2. UnpackTypeOK
    BY DEF UInv
  <2>3. byte[m] => parent \notin {"mapUIDs", "mapGIDs", "signal"}
    <3>1. CallOK(m)
      BY <1>1 DEF UInv, CallNumbers
    <3> QED
      BY <1>1, <3>1 DEF CallOK
  <2> QED
    BY <1>1, <1>2, <2>1, <2>2, <2>3 DEF Unharmed
<1>5. CASE RunInner
  BY <1>3, <1>4, <1>5 DEF RunInner
<1>6. CASE InnerIsDone
  BY <1>3, <1>4, <1>6 DEF InnerIsDone, Returns, processVars
<1>7. CASE StartChild
  BY <1>3, <1>4, <1>7 DEF StartChild
<1>8. CASE MapUIDs
  <2>1. SetMap("uid", cmd.uidMappings, "mapGIDs") /\ child' = child /\ calls' = calls
        /\ faults' = faults /\ parent = "mapUIDs"
    BY <1>8 DEF MapUIDs
  <2>2. (parent' = "mapGIDs" /\ writer' = writer) \/ parent' = "returned"
    BY <1>4, <2>1, SetMapCases
  <2> QED
    BY <1>3, <1>4, <2>1, <2>2
<1>9. CASE MapGIDs
  <2>1. SetMap("gid", cmd.gidMappings, "signal") /\ child' = child /\ calls' = calls
        /\ faults' = faults /\ parent = "mapGIDs"
    BY <1>9 DEF MapGIDs
  <2>2. (parent' = "signal" /\ writer' = writer) \/ parent' = "returned"
    BY <1>4, <2>1, SetMapCases
  <2> QED
    BY <1>3, <1>4, <2>1, <2>2
<1>10. CASE Signal
  BY <1>3, <1>4, <1>10 DEF Signal
<1>11. CASE Wait
  BY <1>3, <1>4, <1>11 DEF Wait, Returns, processVars
<1>12. CASE GoToNextCall
  BY <1>3, <1>4, <1>12 DEF GoToNextCall, NextCall, processVars
<1>13. CASE NextCommand
  BY <1>3, <1>4, <1>13 DEF NextCommand
<1>14. CASE Exit
  BY <1>3, <1>4, <1>14 DEF Exit
<1>15. CASE BaseDirectoryMissing \/ DestroyDirectly \/ MakeImage \/ CreateVolume
  BY <1>3, <1>4, <1>15 DEF BaseDirectoryMissing, DestroyDirectly, MakeImage, CreateVolume,
    Returns, processVars
<1>16. ASSUME NEW j \in CallNumbers,
             \/ VolumeFails \/ StartFails \/ KillParent \/ KillChild(j) \/ InnerFails(j)
      PROVE  FALSE
  BY <1>3, <1>4, <1>16 DEF VolumeFails, StartFails, KillParent, KillChild, InnerFails, Fault
<1>17. ASSUME NEW j \in CallNumbers, ReadPipe(j) \/ Reexec(j) \/ ChildEnds(j)
      PROVE  Goal
  BY <1>3, <1>4, <1>17 DEF ReadPipe, Reexec, ChildEnds
<1>18. ASSUME NEW j \in CallNumbers,
             EnterRoot(j) \/ UnpackEntry(j) \/ EndOfStream(j) \/ DestroyInside(j)
      PROVE  Goal
  BY <1>3, <1>4, <1>18 DEF EnterRoot, UnpackEntry, EndOfStream, DestroyInside, InnerState
<1>19. CASE UNCHANGED unpackVars
  BY <1>3, <1>4, <1>19 DEF unpackVars, processVars
<1> QED
  BY <1>1, StepCases, <1>5, <1>6, <1>7, <1>8, <1>9, <1>10, <1>11, <1>12, <1>13, <1>14, <1>15,
    <1>16, <1>17, <1>18, <1>19

\* The owner of an image is whom root is mapped to, for a user himself.
LEMMA RootIsOwner ==
    ASSUME NEW m \in Seq(IDMappingSpec), NEW own \in Nat, Usable(m, own), cmd.root => own = 0
    PROVE  /\ parseOwner(own, m) \in HostIDs(0, m)
           /\ ~cmd.root => parseOwner(own, m) = own
<1> DEFINE roots == {k \in 1..Len(m) : m[k].Size = 1 /\ m[k].NamespaceID = 0}
<1>1. parseOwner(own, m) = IF roots = {} THEN own ELSE m[Min(roots)].HostID
  BY DEF parseOwner
<1>2. CASE roots = {}
  <2>1. CASE ~cmd.root
    BY <1>1, <1>2, <2>1 DEF Usable
  <2>2. CASE cmd.root /\ m = << >>
    BY <1>1, <1>2, <2>2 DEF HostIDs
  <2>3. CASE cmd.root /\ m # << >>
    <3>1. PICK k \in 1..Len(m) : Within(0, m[k])
      BY <2>3 DEF Usable, HostIDs, KernelIDs
    <3>2. m[k] \in IDMappingSpec /\ m[k].NamespaceID = IF m[k].Size = 1 THEN 0 ELSE 1
      BY DEF Usable, UsualMappings
    <3>3. m[k].NamespaceID \in Nat /\ m[k].Size \in Nat
      BY <3>2 DEF IDMappingSpec
    <3>4. k \in roots
      BY <3>1, <3>2, <3>3 DEF Within
    <3> QED
      BY <1>2, <3>4
  <2> QED
    BY <2>1, <2>2, <2>3
<1>3. CASE roots # {}
  <2>1. Min(roots) \in roots
    <3>1. roots \in SUBSET Nat
      OBVIOUS
    <3>2. \E x \in roots : \A y \in roots : x <= y
      <4> HIDE DEF roots
      <4> QED
        BY <1>3, <3>1, Least
    <3> QED
      BY <3>2 DEF Min
  <2>2. PICK j \in roots : j = Min(roots)
    BY <2>1
  <2>3. m[j] \in IDMappingSpec /\ m[j].Size = 1 /\ m[j].NamespaceID = 0 /\ j \in 1..Len(m)
    BY <2>2
  <2>4. m[j].HostID \in Nat
    BY <2>3 DEF IDMappingSpec
  <2>5. Within(0, m[j]) /\ m[j].HostID + 0 - m[j].NamespaceID = m[j].HostID
    BY <2>3, <2>4 DEF Within
  <2>6. m[j].HostID \in KernelIDs(0, m)
    BY <2>3, <2>5 DEF KernelIDs
  <2>7. HostIDs(0, m) = KernelIDs(0, m)
    BY <2>3 DEF HostIDs
  <2>8. parseOwner(own, m) = m[j].HostID
    BY <1>1, <1>3, <2>2
  <2> QED
    BY <2>6, <2>7, <2>8 DEF Usable
<1> QED
  BY <1>2, <1>3

\* A directory that is one by its name is found.
LEMMA BaseFound ==
    ASSUME NEW t, Tree(t), NEW base \in Paths,
           \A n \in 0..Len(base) : IsDir(t, SubSeq(base, 1, n))
    PROVE  ensureBaseDirectoryExists(t, base)
<1> SUFFICES ASSUME NEW k \in 1..Len(base)
             PROVE  Found(t, Resolve(t, SubSeq(base, 1, k)))
  BY DEF ensureBaseDirectoryExists
<1>1. Len(base) \in Nat /\ k \in 0..Len(base)
  BY DEF Paths
<1>2. PICK q \in Paths :
        q = SubSeq(base, 1, k) /\ Len(q) = k /\ \A n \in 0..k : SubSeq(q, 1, n) = SubSeq(base, 1, n)
  <2>1. /\ SubSeq(base, 1, k) \in Paths /\ Len(SubSeq(base, 1, k)) = k
        /\ \A n \in 0..k : SubSeq(SubSeq(base, 1, k), 1, n) = SubSeq(base, 1, n)
    BY ONLY <1>1, base \in Paths, PrefixOf
  <2> QED
    BY <2>1
<1>3. Len(q) = k /\ \A n \in 0..k : SubSeq(q, 1, n) = SubSeq(base, 1, n)
  BY <1>2
<1>4. ASSUME NEW n \in 0..(Len(q) - 1)
      PROVE  IsDir(t, SubSeq(q, 1, n))
  <2>1. n \in 0..k /\ n \in 0..Len(base)
    BY <1>1, <1>3
  <2>2. SubSeq(q, 1, n) = SubSeq(base, 1, n)
    BY <1>3, <2>1
  <2> QED
    BY <2>1, <2>2
<1>5. IsDir(t, q)
  BY <1>1, <1>2
<1>6. NoLink(t, q)
  BY <1>4, <1>5, NoLinkBelowDirs DEF IsDir
<1>7. Resolve(t, q) = q
  BY <1>6, ResolveIsPath
<1> QED
  BY <1>2, <1>5, <1>7 DEF Found, IsDir

\* A usable mapping that a call sets is accepted.
LEMMA MapsAccepted ==
    ASSUME UInv, MappingsUsable, NEW mappings \in {cmd.uidMappings, cmd.gidMappings},
           mappings # << >> \/ ~cmd.root
    PROVE  KernelAccepts(mappings) /\ mappings \in Mappings /\ mappings # << >>
<1>1. cmd.uidMappings \in Mappings /\ cmd.gidMappings \in Mappings
  BY NamespaceAssumption DEF UInv, UnpackTypeOK
<1>2. mappings # << >>
  <2>1. SUFFICES ASSUME ~cmd.root, mappings = << >> PROVE FALSE
    OBVIOUS
  <2>2. HostIDs(0, mappings) = {}
    BY <2>1 DEF HostIDs, KernelIDs
  <2> QED
    BY <2>1, <2>2 DEF MappingsUsable, Usable
<1>3. UsualMappings(mappings)
  BY DEF MappingsUsable, Usable
<1> QED
  BY <1>1, <1>2, <1>3 DEF UsualMappings

\* The process that unpacks may chroot.
LEMMA MayChroot ==
    ASSUME UInv, MappingsUsable, NEW m \in CallNumbers, m = Now, calls[m] = "unpack",
           inner[m] = "begin"
    PROVE  Privileged(m)
<1> SUFFICES ASSUME ~cmd.root
             PROVE  "uid" \in maps[m] /\ KernelIDs(0, cmd.uidMappings) # {}
  BY DEF Privileged
<1>1. maps[m] = Wanted("unpack")
  <2>1. CallOK(m)
    BY DEF UInv, CallNumbers
  <2> QED
    BY <2>1 DEF CallOK, ViaChild
<1>2. cmd.uidMappings # << >>
  BY MapsAccepted
<1>3. KernelIDs(0, cmd.uidMappings) # {}
  BY DEF MappingsUsable, Usable, HostIDs
<1> QED
  BY <1>1, <1>2, <1>3 DEF Wanted

\* What the mapping of a call does not get wrong.
LEMMA MapsAreSet ==
    ASSUME UnpackTypeOK, NEW m \in {"uid", "gid"}, NEW mappings, NEW next,
           SetMap(m, mappings, next), child[Now] = "read",
           m \in Wanted(calls[Now]) => Accepts(mappings)
    PROVE  parent' = next
BY DEF SetMap, Alive

\* Where nothing has failed of itself after a step nothing had before, nor has
\* the step.
LEMMA NothingFails ==
    ASSUME UInv, UnpackNext, faults' = 0
    PROVE  /\ faults = 0 /\ ~VolumeFails /\ ~StartFails /\ ~KillParent
           /\ \A k \in CallNumbers : ~KillChild(k) /\ ~InnerFails(k)
<1>1. faults \in Nat
  BY NamespaceAssumption DEF UInv, UnpackTypeOK
<1>2. faults' = faults \/ Fault
  BY DEF UnpackNext, CommandStep, Begin, GoOn, ProcessStep, InnerStep, ChildStep, NamespaceFault,
    RunInner, InnerIsDone, StartChild, MapUIDs, MapGIDs, Signal, Wait, GoToNextCall, NextCall,
    NextCommand, Exit, BaseDirectoryMissing, DestroyDirectly, MakeImage, CreateVolume,
    VolumeFails, StartFails, KillParent, ReadPipe, Reexec, ChildEnds, KillChild, InnerFails,
    EnterRoot, UnpackEntry, EndOfStream, DestroyInside, unpackVars
<1>3. ~Fault
  BY <1>1 DEF Fault
<1> QED
  BY <1>2, <1>3 DEF VolumeFails, StartFails, KillParent, KillChild, InnerFails

\* With usable mappings the owner is whom root is mapped to, for a user himself.
LEMMA OwnerUsable ==
    ASSUME cmd \in Commands, MappingsUsable
    PROVE  /\ Owner[1] \in HostIDs(0, cmd.uidMappings)
           /\ Owner[2] \in HostIDs(0, cmd.gidMappings)
           /\ ~cmd.root => Owner = Caller
<1>1. /\ cmd.uidMappings \in Seq(IDMappingSpec) /\ cmd.gidMappings \in Seq(IDMappingSpec)
      /\ cmd.root \in BOOLEAN
  BY NamespaceAssumption, ImageAssumption
<1>2. /\ Caller[1] \in Nat /\ Caller[2] \in Nat /\ Caller = <<Caller[1], Caller[2]>>
      /\ cmd.root => Caller[1] = 0 /\ Caller[2] = 0
  BY <1>1, ImageAssumption DEF Caller
<1>3. /\ parseOwner(Caller[1], cmd.uidMappings) \in HostIDs(0, cmd.uidMappings)
      /\ ~cmd.root => parseOwner(Caller[1], cmd.uidMappings) = Caller[1]
  BY <1>1, <1>2, RootIsOwner DEF MappingsUsable
<1>4. /\ parseOwner(Caller[2], cmd.gidMappings) \in HostIDs(0, cmd.gidMappings)
      /\ ~cmd.root => parseOwner(Caller[2], cmd.gidMappings) = Caller[2]
  BY <1>1, <1>2, RootIsOwner DEF MappingsUsable
<1> QED
  BY <1>2, <1>3, <1>4 DEF Owner

\* Every step goes on well with a layer that is regular.
LEMMA LayerWellStep ==
    ASSUME UInv, ResultsMean, TreesMade, MeantSoFar, Unharmed, LayerWell, UnpackNext,
           \A s \in Mappings : KernelAccepts(s) => Accepts(s)
    PROVE  LayerWell'
<1>1. PICK m \in CallNumbers : m = Now
  BY CallsKept
<1>2. PICK x \in Nat : x = Now'
  BY CallsKept
<1>3. cmd' = cmd
  BY SameCommand
<1>4. SUFFICES ASSUME faults' = 0, MappingsUsable, calls'[x] = "unpack",
                      NEW layer, layer = Layer(x), Regular(below', layer), LayerMapped(layer),
                      cmd.root \/ below'[<< >>].owner[1] = Caller[1]
               PROVE  inner'[x] # "failed" /\ (parent' = "returned" => result' = "ok")
  <2>1. Layer(x)' = Layer(x)
    BY <1>3 DEF Layer
  <2>2. LayerMapped(Layer(x))' <=> LayerMapped(Layer(x))
    BY <1>3, SameMeaning
  <2>3. (MappingsUsable' <=> MappingsUsable) /\ Caller' = Caller
    BY <1>3 DEF MappingsUsable, Usable, HostIDs, Caller
  <2> QED
    BY <1>2, <1>3, <2>1, <2>2, <2>3 DEF LayerWell
<1> DEFINE Goal == inner'[x] # "failed" /\ (parent' = "returned" => result' = "ok")
<1>5. calls[m] = "unpack" /\ LayerStep(m) /\ m \in Nat
  BY <1>1, <1>2, <1>4, LayerSteps, CallsKept
<1>6. CASE GoToNextCall
  <2>1. x > Now /\ x \in CallNumbers /\ inner' = inner /\ parent' # "returned"
    BY <1>1, <1>2, <1>5, <1>6, AppendedCall DEF UInv, GoToNextCall, NextCall, processVars
  <2>2. inner[x] = "none"
    BY <2>1 DEF UInv, NotBegun, Prepared, Untouched
  <2> QED
    BY <2>1, <2>2
<1>8. CASE CreateVolume
  <2>1. x = m
    BY <1>1, <1>2, <1>8 DEF CreateVolume, Now
  <2>2. inner[m] = "none" /\ inner' = inner
    BY <1>1, <1>8 DEF CreateVolume, UInv, NotBegun, Prepared, Untouched, processVars
  <2>3. tree = below
    BY <1>1, <1>5, <2>2 DEF MeantSoFar
  <2>4. ASSUME ~MayOwn
        PROVE  FALSE
    <3>1. below' = below
      BY <1>8, <2>4 DEF CreateVolume
    <3>2. ~cmd.root => Owner = Caller
      BY <1>4, OwnerUsable DEF UInv, UnpackTypeOK
    <3> QED
      BY <1>4, <2>3, <2>4, <3>1, <3>2 DEF MayOwn
  <2>5. parent' = "ready"
    BY <1>8, <2>4 DEF CreateVolume
  <2> QED
    BY <2>1, <2>2, <2>5
<1>7. CASE ~GoToNextCall /\ ~CreateVolume
  <2>1. x = m /\ below' = below /\ ~NextCommand
    <3>1. x = m /\ below' = below
      BY <1>2, <1>5, <1>7 DEF LayerStep, EnterRoot, UnpackEntry
    <3>2. ~NextCommand
      <4>1. NextCommand => Now' = Now + 1
        BY AppendedCall DEF UInv
      <4>2. m # m + 1
        BY <1>5
      <4> QED
        BY <1>1, <1>2, <3>1, <4>1, <4>2
    <3> QED
      BY <3>1, <3>2
  <2>2. faults = 0 /\ ~VolumeFails /\ ~StartFails /\ ~KillParent
        /\ \A j \in CallNumbers : ~KillChild(j) /\ ~InnerFails(j)
    BY <1>4, NothingFails
  <2>3. /\ UnpackTypeOK /\ m = Now /\ calls[m] = "unpack" /\ layer = Layer(m)
        /\ Regular(below, layer) /\ LayerMapped(layer) /\ x = m
        /\ inner[m] # "failed" /\ (parent = "returned" => result = "ok")
        /\ \A j \in CallNumbers : child[j] # "killed"
        /\ parent \in {"mapUIDs", "mapGIDs", "signal"} => child[Now] = "read"
        /\ parent = "wait" => child[Now] # "failed"
    BY <1>1, <1>4, <1>5, <2>1, <2>2 DEF UInv, LayerWell, Unharmed
  <2> USE DEF UnpackTypeOK, Alive, Working
  <2>4. CASE RunInner
    BY <2>3, <2>4 DEF RunInner
  <2>5. CASE InnerIsDone
    BY <2>3, <2>5 DEF InnerIsDone, Returns, processVars
  <2>6. CASE StartChild
    BY <2>3, <2>6 DEF StartChild
  <2>7. CASE MapUIDs
    <3>1. SetMap("uid", cmd.uidMappings, "mapGIDs") /\ parent = "mapUIDs" /\ inner' = inner
      BY <2>7 DEF MapUIDs
    <3>2. "uid" \in Wanted(calls[Now]) => Accepts(cmd.uidMappings)
      BY <1>4, <2>3, MapsAccepted DEF Wanted
    <3>3. parent' = "mapGIDs"
      BY <2>3, <3>1, <3>2, MapsAreSet
    <3> QED
      BY <2>3, <3>1, <3>3
  <2>8. CASE MapGIDs
    <3>1. SetMap("gid", cmd.gidMappings, "signal") /\ parent = "mapGIDs" /\ inner' = inner
      BY <2>8 DEF MapGIDs
    <3>2. "gid" \in Wanted(calls[Now]) => Accepts(cmd.gidMappings)
      BY <1>4, <2>3, MapsAccepted DEF Wanted
    <3>3. parent' = "signal"
      BY <2>3, <3>1, <3>2, MapsAreSet
    <3> QED
      BY <2>3, <3>1, <3>3
  <2>9. CASE Signal
    BY <2>3, <2>9 DEF Signal
  <2>10. CASE Wait
    BY <2>3, <2>10 DEF Wait, Returns, processVars
  <2>11. CASE Exit
    BY <2>3, <2>11 DEF Exit
  <2>12. CASE BaseDirectoryMissing
    <3>1. parent = "ready" /\ ~ensureBaseDirectoryExists(tree, layer.base)
      BY <2>3, <2>12 DEF BaseDirectoryMissing, BaseDirectoryFound
    <3>2. inner[m] = "none"
      BY <1>1, <3>1 DEF UInv, NotBegun, Prepared, Untouched
    <3>3. tree = below /\ Tree(tree)
      BY <2>3, <3>2 DEF MeantSoFar, TreesMade
    <3>4. layer.base \in Paths
      BY <1>1, <2>3, LayerOf DEF LayerType
    <3>5. \A n \in 0..Len(layer.base) : IsDir(tree, SubSeq(layer.base, 1, n))
      BY <2>3, <3>3 DEF Regular
    <3> QED
      BY <3>1, <3>3, <3>4, <3>5, BaseFound
  <2>13. CASE DestroyDirectly \/ MakeImage
    BY <2>3, <2>13 DEF DestroyDirectly, MakeImage, CreateVolume
  <2>14. ASSUME NEW j \in CallNumbers, ReadPipe(j) \/ Reexec(j) \/ ChildEnds(j)
         PROVE  Goal
    BY <2>3, <2>14 DEF ReadPipe, Reexec, ChildEnds
  <2>15. CASE EnterRoot(m)
    <3>1. Privileged(m)
      BY <1>1, <1>4, <2>3, <2>15, MayChroot DEF EnterRoot
    <3> QED
      BY <2>3, <2>15, <3>1 DEF EnterRoot, InnerState
  <2>16. CASE UnpackEntry(m)
    <3>1. inner[m] = "work" /\ parent' = parent /\ result' = result
          /\ (Unpacked(m).ok => inner'[m] = "work")
      BY <2>3, <2>16 DEF UnpackEntry, InnerState
    <3>2. Follows(tree, below, layer, pos, EntryOwners(layer))
      BY <2>3, <3>1 DEF MeantSoFar
    <3>3. Unpacked(m).ok
      BY <1>1, <2>3, <2>16, <3>2, EntryMeant
    <3> QED
      BY <2>3, <3>1, <3>3
  <2>17. CASE EndOfStream(m)
    BY <2>3, <2>17 DEF EndOfStream, InnerState
  <2>18. ASSUME NEW j \in CallNumbers \ {m},
                EnterRoot(j) \/ UnpackEntry(j) \/ EndOfStream(j) \/ DestroyInside(j)
         PROVE  Goal
    BY <2>3, <2>18 DEF EnterRoot, UnpackEntry, EndOfStream, DestroyInside, InnerState
  <2>19. ~DestroyInside(m)
    BY <2>3 DEF DestroyInside
  <2>20. CASE UNCHANGED unpackVars
    BY <2>3, <2>20 DEF unpackVars, processVars
  <2> QED
    BY <1>7, <2>1, <2>2, StepCases, <2>4, <2>5, <2>6, <2>7, <2>8, <2>9, <2>10, <2>11, <2>12,
      <2>13, <2>14, <2>15, <2>16, <2>17, <2>18, <2>19, <2>20
<1> QED
  BY <1>6, <1>7, <1>8

\* The making of an image.
LEMMA ImageIsMade ==
    ASSUME cmd \in Commands, MappingsUsable, MakeImage,
           RootsOwn(tree[<< >>].owner[1], cmd.uidMappings),
           RootsOwn(tree[<< >>].owner[2], cmd.gidMappings)
    PROVE  /\ result' = "ok"
           /\ owner'[1] \in HostIDs(0, cmd.uidMappings)
           /\ owner'[2] \in HostIDs(0, cmd.gidMappings)
<1> DEFINE u == Owner[1]
           g == Owner[2]
           o == tree[<< >>].owner
<1>1. /\ cmd.uidMappings \in Seq(IDMappingSpec) /\ cmd.gidMappings \in Seq(IDMappingSpec)
      /\ cmd.root \in BOOLEAN
  BY NamespaceAssumption, ImageAssumption
<1>2. /\ Caller[1] \in Nat /\ Caller[2] \in Nat /\ Caller = <<Caller[1], Caller[2]>>
      /\ cmd.root => Caller[1] = 0 /\ Caller[2] = 0
  BY <1>1, ImageAssumption DEF Caller
<1>3. u \in HostIDs(0, cmd.uidMappings) /\ g \in HostIDs(0, cmd.gidMappings)
  BY OwnerUsable
<1>4. Owner = <<u, g>>
  BY OwnerIsIDs
<1>5. ~cmd.root => o[1] = Caller[1]
  BY DEF RootsOwn, MappingsUsable, Usable
<1>6. MayOwn
  BY <1>5, OwnerUsable DEF MayOwn
<1>7. /\ owner' = IF <<u, g>> = <<0, 0>> THEN o ELSE <<u, g>>
      /\ result' = "ok"
  BY <1>4, <1>6 DEF MakeImage, NewOwner, Returns
<1>8. /\ o[1] \in HostIDs(0, cmd.uidMappings) \/ o[1] = 0
      /\ o[2] \in HostIDs(0, cmd.gidMappings) \/ o[2] = 0
  BY DEF RootsOwn
<1> HIDE DEF u, g, o
<1>9. CASE <<u, g>> = <<0, 0>>
  <2>1. owner' = o /\ u = 0 /\ g = 0
    BY <1>7, <1>9
  <2> QED
    BY <1>3, <1>7, <1>8, <2>1
<1>10. CASE <<u, g>> # <<0, 0>>
  <2>1. owner'[1] = u /\ owner'[2] = g
    BY <1>7, <1>10
  <2> QED
    BY <1>3, <1>7, <2>1
<1> QED
  BY <1>9, <1>10

\* After a call has returned no process works on the volume.
LEMMA NobodyWorks ==
    ASSUME UInv, Unharmed, faults = 0, parent = "returned", NEW j \in CallNumbers
    PROVE  inner[j] \notin Working
<1>1. j \in Nat /\ 1 <= j /\ Now \in Nat
  BY NamespaceAssumption DEF CallNumbers, UInv, UnpackTypeOK, Now
<1>2. CASE j > Now
  BY <1>2 DEF UInv, NotBegun, Prepared, Untouched, Working
<1>3. CASE j <= Now
  <2>1. CallOK(j) /\ child[j] # "killed" /\ Over(j)
    BY <1>1, <1>3 DEF UInv, Unharmed, Over
  <2> QED
    BY <2>1 DEF CallOK, Over, Working
<1> QED
  BY <1>1, <1>2, <1>3

\* Every step goes on well with the image, which MakeImage alone makes.
LEMMA ImageWellStep ==
    ASSUME UInv, Unharmed, ImageWell, UnpackNext
    PROVE  ImageWell'
<1>1. PICK m \in CallNumbers : m = Now
  BY CallsKept
<1>2. PICK x \in Nat : x = Now'
  BY CallsKept
<1>3. cmd' = cmd
  BY SameCommand
<1> DEFINE Owns(t) == /\ RootsOwn(t[<< >>].owner[1], cmd.uidMappings)
                      /\ RootsOwn(t[<< >>].owner[2], cmd.gidMappings)
           Good(r, o) == /\ r = "ok"
                         /\ o[1] \in HostIDs(0, cmd.uidMappings)
                         /\ o[2] \in HostIDs(0, cmd.gidMappings)
<1>4. SUFFICES ASSUME calls'[x] = "image"
               PROVE  /\ parent' \notin {"run", "volume"}
                      /\ faults' = 0 /\ MappingsUsable /\ parent' = "returned" /\ Owns(tree') =>
                           Good(result', owner')
  <2>1. MappingsUsable' <=> MappingsUsable
    BY <1>3 DEF MappingsUsable, Usable, HostIDs, Caller
  <2>2. /\ HostIDs(0, cmd.uidMappings)' = HostIDs(0, cmd.uidMappings)
        /\ HostIDs(0, cmd.gidMappings)' = HostIDs(0, cmd.gidMappings)
        /\ Owns(tree)' <=> Owns(tree')
    BY <1>3 DEF HostIDs, RootsOwn
  <2> QED
    BY <1>2, <2>1, <2>2 DEF ImageWell
<1>5. CASE calls' # calls
  <2>1. GoToNextCall \/ NextCommand
    BY <1>5, CallsKept
  <2>2. CASE NextCommand
    BY <2>2 DEF NextCommand
  <2>3. CASE GoToNextCall
    <3>1. calls' = Append(calls, Following) /\ parent' # "returned" /\ parent' # "run"
      BY <2>3 DEF GoToNextCall, NextCall
    <3>2. calls \in Seq({"unpack", "cleanup", "image", "collect", "destroy-image"})
      BY DEF UInv, UnpackTypeOK
    <3>3. Following = "image"
      <4>1. calls'[Now'] = Following
        BY <3>1, <3>2 DEF Now
      <4> QED
        BY <1>2, <1>4, <4>1
    <3> QED
      BY <2>3, <3>1, <3>3 DEF GoToNextCall, NextCall
  <2> QED
    BY <2>1, <2>2, <2>3
<1>6. CASE calls' = calls
  <2>1. x = m /\ calls[m] = "image" /\ m = Now
    BY <1>1, <1>2, <1>4, <1>6 DEF Now
  <2>2. parent' \notin {"run", "volume"}
    <3>1. parent \notin {"run", "volume"}
      BY <1>1, <2>1 DEF ImageWell
    <3>4. parent' = "volume" => parent = "volume" \/ GoToNextCall
      BY StepCases, SetMapCases DEF UInv, RunInner, InnerIsDone, StartChild, MapUIDs, MapGIDs,
        Signal, Wait, NextCommand, Exit, BaseDirectoryMissing,
        DestroyDirectly, MakeImage, CreateVolume, VolumeFails, StartFails, KillParent, Returns,
        ReadPipe, Reexec, ChildEnds, KillChild, InnerFails, EnterRoot, UnpackEntry, EndOfStream,
        DestroyInside, unpackVars
    <3>2. parent' = "run" => parent = "run" \/ RunInner
      BY StepCases, SetMapCases DEF UInv, InnerIsDone, StartChild, MapUIDs, MapGIDs,
        Signal, Wait, GoToNextCall, NextCall, NextCommand, Exit, BaseDirectoryMissing,
        DestroyDirectly, MakeImage, CreateVolume, VolumeFails, StartFails, KillParent, Returns,
        ReadPipe, Reexec, ChildEnds, KillChild, InnerFails, EnterRoot, UnpackEntry, EndOfStream,
        DestroyInside, unpackVars
    <3>3. ~GoToNextCall
      <4>1. GoToNextCall => Now' = Now + 1
        BY AppendedCall DEF UInv
      <4>2. m \in Nat
        BY CallsKept, <1>1
      <4> QED
        BY <1>2, <2>1, <4>1, <4>2
    <3> QED
      BY <2>1, <3>1, <3>2, <3>3, <3>4 DEF RunInner
  <2>3. SUFFICES ASSUME faults' = 0, MappingsUsable, parent' = "returned", Owns(tree')
                 PROVE  Good(result', owner')
    BY <2>2
  <2>4. faults = 0 /\ ~VolumeFails /\ ~StartFails /\ ~KillParent
    BY <2>3, NothingFails
  <2>5. CASE parent = "returned"
    <3>1. tree' = tree /\ owner' = owner /\ result' = result
      <4>1. \A j \in CallNumbers : inner[j] \notin Working
        BY <2>4, <2>5, NobodyWorks
      <4>2. /\ ~RunInner /\ ~InnerIsDone /\ ~StartChild /\ ~MapUIDs /\ ~MapGIDs /\ ~Signal
            /\ ~Wait /\ ~GoToNextCall /\ ~NextCommand /\ ~Exit /\ ~BaseDirectoryMissing
            /\ ~DestroyDirectly /\ ~MakeImage /\ ~CreateVolume
        BY <2>3, <2>5 DEF CreateVolume, RunInner, InnerIsDone, StartChild, MapUIDs, MapGIDs,
          Signal, Wait, GoToNextCall, NextCall, NextCommand, Exit, BaseDirectoryMissing,
          DestroyDirectly, MakeImage
      <4>3. \A j \in CallNumbers :
              ~EnterRoot(j) /\ ~UnpackEntry(j) /\ ~EndOfStream(j) /\ ~DestroyInside(j)
        BY <4>1 DEF EnterRoot, UnpackEntry, EndOfStream, DestroyInside, Working
      <4>4. ~CommandStep
        BY <2>4, <4>2 DEF CommandStep, Begin, GoOn
      <4> QED
        BY <2>4, <4>3, <4>4 DEF UnpackNext, ProcessStep, InnerStep, ChildStep, NamespaceFault,
          ReadPipe, Reexec, ChildEnds, KillChild, InnerFails, treeVars, unpackVars
    <3> QED
      BY <1>1, <2>1, <2>3, <2>4, <2>5, <3>1 DEF ImageWell
  <2>6. CASE parent # "returned"
    <3>1. MakeImage
      <4>1. child[m] = "none"
        <5>1. CallOK(m)
          BY <1>1 DEF UInv, CallNumbers
        <5> QED
          BY <2>1, <5>1 DEF CallOK, ViaChild
      <4>2. parent \notin {"volume", "run", "mapUIDs", "mapGIDs", "signal"}
        BY <2>1, <2>4, <4>1 DEF Unharmed, ImageWell
      <4>3. ~InnerIsDone /\ ~MapUIDs /\ ~MapGIDs /\ ~Wait /\ ~BaseDirectoryMissing
            /\ ~DestroyDirectly /\ ~CreateVolume
        BY <2>1, <4>1, <4>2 DEF CreateVolume, InnerIsDone, MapUIDs, MapGIDs, Wait,
          BaseDirectoryMissing, BaseDirectoryFound, DestroyDirectly
      <4> QED
        BY <2>3, <2>4, <2>6, <4>3, StepCases DEF RunInner, StartChild,
        Signal, GoToNextCall, NextCall, NextCommand, Exit,
        ReadPipe, Reexec, ChildEnds, KillChild, InnerFails, EnterRoot, UnpackEntry, EndOfStream,
        DestroyInside, unpackVars
    <3>2. tree' = tree /\ cmd \in Commands
      BY <3>1 DEF MakeImage, UInv, UnpackTypeOK
    <3> QED
      BY <2>3, <3>1, <3>2, ImageIsMade
  <2> QED
    BY <2>5, <2>6
<1> QED
  BY <1>5, <1>6

\* With it, that an image is made.
WellInv == MInv /\ Unharmed /\ LayerWell /\ ImageWell

\* It holds before the first layer.
LEMMA WellInit ==
    ASSUME UnpackInit
    PROVE  WellInv
<1>1. Len(calls) = 1 /\ calls[1] = "unpack" /\ Now = 1 /\ 1 \in CallNumbers
  BY NamespaceAssumption DEF UnpackInit, NamespaceInit, CallNumbers, Now
<1>2. parent = "volume" /\ \A k \in CallNumbers : child[k] = "none" /\ inner[k] = "none"
  BY DEF UnpackInit, NamespaceInit
<1> QED
  BY <1>1, <1>2, MeantInit DEF WellInv, Unharmed, LayerWell, ImageWell

\* Nothing is lost where nothing changes.
LEMMA WellStutters ==
    ASSUME Unharmed, LayerWell, ImageWell, UNCHANGED unpackVars
    PROVE  Unharmed' /\ LayerWell' /\ ImageWell'
<1>1. /\ parent' = parent /\ calls' = calls /\ child' = child /\ inner' = inner
      /\ result' = result /\ cmd' = cmd /\ faults' = faults /\ tree' = tree /\ below' = below
      /\ writer' = writer /\ byte' = byte /\ owner' = owner
  BY DEF unpackVars, processVars, treeVars
<1>2. Now' = Now
  BY <1>1 DEF Now
<1>3. PICK x : x = Now /\ x = Now'
  BY <1>2
<1>4. /\ Layer(x)' = Layer(x)
      /\ LayerMapped(Layer(x))' <=> LayerMapped(Layer(x))
      /\ MappingsUsable' <=> MappingsUsable
      /\ HostIDs(0, cmd.uidMappings)' = HostIDs(0, cmd.uidMappings)
      /\ HostIDs(0, cmd.gidMappings)' = HostIDs(0, cmd.gidMappings)
  <2>1. Layer(x)' = Layer(x) /\ (LayerMapped(Layer(x))' <=> LayerMapped(Layer(x)))
    BY <1>1, SameMeaning DEF Layer
  <2>2. MappingsUsable' <=> MappingsUsable
    BY <1>1 DEF MappingsUsable, Usable, HostIDs, Caller
  <2>3. /\ HostIDs(0, cmd.uidMappings)' = HostIDs(0, cmd.uidMappings)
        /\ HostIDs(0, cmd.gidMappings)' = HostIDs(0, cmd.gidMappings)
    BY <1>1 DEF HostIDs
  <2> QED
    BY <2>1, <2>2, <2>3
<1>5. Unharmed'
  BY <1>1, <1>3 DEF Unharmed, CallNumbers
<1>6. LayerWell'
  <2>1. Caller' = Caller
    BY <1>1 DEF Caller
  <2> QED
    BY <1>1, <1>3, <1>4, <2>1 DEF LayerWell
<1>7. ImageWell'
  <2>1. /\ RootsOwn(tree[<< >>].owner[1], cmd.uidMappings)' <=>
             RootsOwn(tree[<< >>].owner[1], cmd.uidMappings)
        /\ RootsOwn(tree[<< >>].owner[2], cmd.gidMappings)' <=>
             RootsOwn(tree[<< >>].owner[2], cmd.gidMappings)
    BY <1>1 DEF RootsOwn, HostIDs
  <2> QED
    BY <1>1, <1>3, <1>4, <2>1 DEF ImageWell
<1> QED
  BY <1>5, <1>6, <1>7

(***************************************************************************)
(* Where newuidmap and newgidmap accept what the kernel would, and nothing *)
(* fails of itself, every regular layer whose ids are mapped is unpacked,  *)
(* and the image made: groot finds the base directory, the maps are set    *)
(* while the child waits, the process inside is root there and may chroot, *)
(* no entry fails, and who runs groot may give the image to whom root is   *)
(* mapped to.                                                              *)
(***************************************************************************)
THEOREM ImagesAreMade ==
    ASSUME \A s \in Mappings : KernelAccepts(s) => Accepts(s)
    PROVE  UnpackSpec => []ImageMade
<1>1. ASSUME WellInv, [UnpackNext]_unpackVars
      PROVE  WellInv'
  <2>1. CASE UnpackNext
    BY <1>1, <2>1, InvStep, ResultsStep, TreesStep, MeantStep, UnharmedStep, LayerWellStep,
      ImageWellStep DEF WellInv, MInv
  <2>2. CASE UNCHANGED unpackVars
    BY <1>1, <2>2, InvStep, MeantStutters, WellStutters DEF WellInv, MInv
  <2> QED
    BY <1>1, <2>1, <2>2
<1>2. WellInv => ImageMade
  BY DEF WellInv, LayerWell, ImageWell, MappingsUsable, ImageMade
<1> QED
  BY <1>1, <1>2, WellInit, PTL DEF UnpackSpec
=============================================================================
