--------------------------- MODULE GrootInvariant ---------------------------
(***************************************************************************)
(* The inductive invariant behind the safety properties of Groot: who      *)
(* holds which lock at which step, what a puller may rely on, what the     *)
(* cleaner knows of the volumes it is about to mark, and how far a create  *)
(* has come with its image.                                                *)
(***************************************************************************)
EXTENDS Groot

(***************************************************************************)
(* The global lock is held exactly during the steps it is meant for, in    *)
(* one mode at a time.                                                     *)
(***************************************************************************)
GlobalLockInv ==
    /\ \A p \in Procs : p \in shared <=> pc[p] \in SharedSteps
    /\ \A p \in Procs : exclusive = p <=> pc[p] \in ExclusiveSteps
    /\ exclusive # None => shared = {}

\* Steps at which the frame of layer idx has passed the lock.
LockedSteps == {"recheck", "createVolume", "unpack", "writeMeta", "moveVolume"}

\* There is a layer to lock and to unpack.
FrameInv == \A p \in Procs : pc[p] \in LockedSteps \cup {"lockLayer"} => idx[p] > 0

(***************************************************************************)
(* The frames above idx hold their layers' locks and their volumes do not  *)
(* exist; the frame at idx holds its lock once it is past it, and has seen *)
(* that its volume does not exist once it is past the second look; and the *)
(* process holds no other layer's lock.                                    *)
(***************************************************************************)
FramesOK(p) ==
    /\ pc[p] \in PullSteps =>
         \A j \in 1..Height(p) : j > idx[p] =>
             layerLock[Layer(p, j)] = p /\ Layer(p, j) \notin volumes
    /\ pc[p] \in LockedSteps => layerLock[Chain(p)] = p
    /\ pc[p] \in LockedSteps \ {"recheck"} => Chain(p) \notin volumes
    /\ \A c \in ChainIDs : layerLock[c] = p =>
         /\ pc[p] \in PullSteps
         /\ \E j \in 1..Height(p) :
              /\ c = Layer(p, j)
              /\ \/ j > idx[p]
                 \/ j = idx[p] /\ pc[p] \in LockedSteps \cup {"return"}

LayerLockInv == \A p \in Procs : FramesOK(p)

(***************************************************************************)
(* A frame that returned without an error leaves its layer's volume, the   *)
(* volumes LayersStay speaks of are there, and a temporary volume holds    *)
(* the layers its step says it does.                                       *)
(***************************************************************************)
BuildOK(p) ==
    /\ pc[p] = "return" /\ ok[p] /\ idx[p] > 0 => Chain(p) \in volumes
    /\ pc[p] = "createVolume" => ParentExists(p)
    /\ pc[p] \in {"unpack", "writeMeta", "moveVolume"} => Temp(p) \in volumes
    /\ pc[p] = "unpack" => content[Temp(p)] = Stack(cmd[p].base, idx[p] - 1)
    /\ pc[p] \in {"writeMeta", "moveVolume"} => content[Temp(p)] = Stack(cmd[p].base, idx[p])
    /\ pc[p] \in {"mkdir", "createImage", "ownership", "register"} /\ Height(p) > 0 =>
         Layer(p, Height(p)) \in volumes

VolumeInv == VolumesComplete /\ \A p \in Procs : BuildOK(p)

(***************************************************************************)
(* The cleaner's list of volumes to mark has none that an image it has     *)
(* dealt with depends on.                                                  *)
(***************************************************************************)
MarkOK(p) ==
    /\ pc[p] \in {"readDeps", "mark"} =>
         \A i \in images \cap depFiles : i \in unread[p] \/ unused[p] \cap deps[i] = {}
    /\ pc[p] = "mark" => unread[p] = {} /\ unused[p] \cap Preserved(p) = {}

MarkInv == \A p \in Procs : MarkOK(p)

\* The steps of each command.
DeleteSteps == {"findID", "delExists", "delRootfs", "delDir", "delStat", "deregister"}

CommandInv ==
    \A p \in Procs :
        /\ pc[p] \in SharedSteps \cup {"exists", "lockShared"} => cmd[p].op = "create"
        /\ pc[p] \in DeleteSteps => cmd[p].op = "delete"
        /\ pc[p] \in ExclusiveSteps \cup {"threshold", "lockExclusive", "listGarbage",
                                          "collect", "destroy"} => cmd[p].op # "delete"
        /\ pc[p] \in {"failRootfs", "failDir", "failAgain",
                      "undoExists", "undoRootfs", "undoDir"} => ~ok[p]

(***************************************************************************)
(* How far a create with an id of its own has come with its image.         *)
(***************************************************************************)
ImageOK(p) ==
    OwnID(p) =>
      /\ pc[p] = "createImage" => Id(p) \in images /\ rootfs[Id(p)] = {}
      /\ pc[p] \in {"ownership", "register"} =>
           /\ Height(p) > 0
           /\ Id(p) \in images \ torn
           /\ rootfs[Id(p)] = ChainSet(cmd[p].base)
      /\ pc[p] \in {"unlock", "exited"} /\ ok[p] /\ cmd[p].op = "create" =>
           /\ Height(p) > 0
           /\ Id(p) \in (images \cap depFiles) \ torn
           /\ rootfs[Id(p)] = ChainSet(cmd[p].base)
           /\ deps[Id(p)] = ChainSet(cmd[p].base)
           /\ Layer(p, Height(p)) \in volumes

\* Nothing is left of an image whose directory is gone.
NoRootfs == \A i \in ImageIDs \ images : rootfs[i] = {}

(***************************************************************************)
(* Files are missing only from a rootfs that is there, and somebody who    *)
(* has not removed it is to blame.                                         *)
(***************************************************************************)
TornOK(i) == rootfs[i] # {} /\ \E p \in Procs : RemovalUnfinished(p, i)

TornInv == \A i \in torn : TornOK(i)

\* What there is was taken from a whole base image.
RootfsOfBase ==
    \A i \in ImageIDs : rootfs[i] # {} => \E b \in BaseImages : rootfs[i] = ChainSet(b)

ImageInv == NoRootfs /\ TornInv /\ \A p \in Procs : ImageOK(p)

(***************************************************************************)
(* The inductive invariant.  It relates the locks, the steps of every      *)
(* process and the store; each safety property follows from it.            *)
(***************************************************************************)
IInv ==
    /\ TypeOK
    /\ FrameInv
    /\ CommandInv
    /\ GlobalLockInv
    /\ LayerLockInv
    /\ VolumeInv
    /\ MarkInv
    /\ ImageInv
=============================================================================
