---------------------------- MODULE GrootProofs -----------------------------
(***************************************************************************)
(* What every step keeps of the cleaner's list and of the images; with it  *)
(* the inductive invariant, and the safety properties that follow from it, *)
(* for every set of processes, base images and images.                     *)
(***************************************************************************)
EXTENDS GrootStepProofs

\* A step taken without the global lock in shared mode registers no
\* dependency and makes no image: delete only takes them away.
LEMMA RegistrationsLocked ==
    ASSUME TypeOK, NEW p \in Procs, Step(p) \/ Failure(p)
    PROVE  pc[p] \notin SharedSteps =>
             \A i \in images' \cap depFiles' : i \in images \cap depFiles /\ deps'[i] = deps[i]
<1>0. \/ UNCHANGED <<images, depFiles, deps>>
      \/ MakeImageDir(p) \/ Register(p) \/ Deregister(p) \/ RemoveImageDir(p)
  BY DEF CheckID, LockCreate, UnlockCreate, BuildLayer, LockLayer, Recheck, ReturnLayer,
    CreateTemporaryVolume, UnpackLayer, WriteVolumeMeta, MoveVolume, CreateImage,
    CreateImagePanics, SetOwnership, DestroyExists, DestroyRootfs, RemoveFiles, DestroyStat,
    CheckThreshold, LockStore, ListVolumes, ListImages, ReadDependencies, KeepPreserved,
    MarkUnused, UnlockStore, ListGarbage, RemoveMeta, DestroyVolume, CollectReturns, CallFails,
    PrepareVolumeFails, UnpackFails, DiskLimitFails, DestroyRootfsFails, RemoveImageDirFails,
    UnusedVolumesFails, MarkUnusedFails, DestroyVolumeFails, Crash, imageVars, Step, Failure,
    Pull, Clone, Clean, PullFault, CloneFault, CleanFault
<1>1. CASE UNCHANGED <<images, depFiles, deps>>
  BY <1>1
<1>2. CASE MakeImageDir(p)
  BY <1>2, CommandFields DEF MakeImageDir, Proceed, Goto, Error, Id, TypeOK, StoreTypeOK,
    SharedSteps, PullSteps, CloneSteps, volumeVars, imageVars, lockVars, gcVars
<1>3. CASE Register(p)
  BY <1>3, CommandFields DEF Register, Proceed, Goto, Id, TypeOK, StoreTypeOK, SharedSteps,
    PullSteps, CloneSteps, volumeVars, imageVars, lockVars, gcVars
<1>4. CASE Deregister(p)
  BY <1>4, CommandFields DEF Deregister, Proceed, Goto, Id, TypeOK, StoreTypeOK, SharedSteps,
    PullSteps, CloneSteps, volumeVars, imageVars, lockVars, gcVars
<1>5. CASE RemoveImageDir(p)
  BY <1>5, CommandFields DEF RemoveImageDir, Proceed, Goto, AfterDir, Id, TypeOK,
    StoreTypeOK, SharedSteps, PullSteps, CloneSteps, volumeVars, imageVars, lockVars, gcVars
<1> QED
  BY <1>0, <1>1, <1>2, <1>3, <1>4, <1>5

\* While q reads the dependencies and marks, nobody else can add to them:
\* Register and Mkdir need the lock that q holds exclusively.
LEMMA MarkOthers ==
    ASSUME GlobalLockInv, MarkInv, cmd' = cmd,
           NEW p \in Procs, NEW q \in Procs, q # p,
           pc'[q] = pc[q], unused'[q] = unused[q], unread'[q] = unread[q],
           pc[p] \notin SharedSteps =>
             \A i \in images' \cap depFiles' : i \in images \cap depFiles /\ deps'[i] = deps[i]
    PROVE  MarkOK(q)'
<1>1. MarkOK(q) /\ Preserved(q)' = Preserved(q)
  BY LayersKept DEF MarkInv
<1>2. pc[q] \in {"readDeps", "mark"} => pc[p] \notin SharedSteps
  BY NameAssumption DEF GlobalLockInv, ExclusiveSteps
<1> QED
  BY <1>1, <1>2 DEF MarkOK

\* UnusedVolumes takes away the dependencies of every image it has read, and
\* gives up, with nothing unused, on an image it cannot read.
LEMMA MarkOwn ==
    ASSUME TypeOK, MarkInv, cmd' = cmd, NEW p \in Procs, Step(p) \/ Failure(p)
    PROVE  MarkOK(p)'
<1>0. \/ pc'[p] \notin {"readDeps", "mark"}
      \/ ListImages(p) \/ ReadDependencies(p) \/ KeepPreserved(p) \/ MarkUnused(p)
      \/ UnusedVolumesFails(p) \/ MarkUnusedFails(p)
  BY DEF CheckID, LockCreate, UnlockCreate, BuildLayer, LockLayer, Recheck, ReturnLayer,
    CreateTemporaryVolume, UnpackLayer, WriteVolumeMeta, MoveVolume, MakeImageDir, CreateImage,
    CreateImagePanics, SetOwnership, Register, DestroyExists, DestroyRootfs, RemoveFiles,
    RemoveImageDir, DestroyStat, Deregister, CheckThreshold, LockStore, ListVolumes, UnlockStore,
    ListGarbage, RemoveMeta, DestroyVolume, CollectReturns, CallFails, PrepareVolumeFails,
    UnpackFails, DiskLimitFails, DestroyRootfsFails, RemoveImageDirFails, DestroyVolumeFails,
    Crash, Proceed, Goto, Error, Fault, Strike, LoggedFault, Id, LockGlobalShared,
    UnlockGlobalShared, LockKey, ParentExists, SnapshotTaken, DropLocks, AfterRootfs,
    AfterGivingUp, AfterDir, AfterClean, LockGlobalExclusive, UnlockGlobalExclusive, OnError,
    Ended, TypeOK, ProcessTypeOK, Step, Failure, Pull, Clone, Clean, PullFault, CloneFault,
    CleanFault
<1>1. CASE pc'[p] \notin {"readDeps", "mark"}
  BY <1>1 DEF MarkOK
<1>2. CASE ListImages(p)
  BY <1>2, LayersKept DEF ListImages, Proceed, Goto, MarkInv, MarkOK, TypeOK, ProcessTypeOK,
    volumeVars, imageVars, lockVars, gcVars
<1>3. CASE ReadDependencies(p)
  <2>1. pc[p] = "readDeps" /\ MarkOK(p) /\ UNCHANGED imageVars
    BY <1>3 DEF ReadDependencies, MarkInv
  <2>2. PICK i \in unread[p] :
          IF i \in depFiles
            THEN /\ unused' = [unused EXCEPT ![p] = @ \ deps[i]]
                 /\ unread' = [unread EXCEPT ![p] = @ \ {i}]
                 /\ pc' = [pc EXCEPT ![p] = "readDeps"]
            ELSE /\ unused' = [unused EXCEPT ![p] = {}]
                 /\ unread' = [unread EXCEPT ![p] = {}]
                 /\ pc' = [pc EXCEPT ![p] = "mark"]
    BY <1>3 DEF ReadDependencies, Proceed, Goto, RemoveDependencyFromOrphanList
  <2>3. CASE i \in depFiles
    <3>1. /\ pc'[p] = "readDeps" /\ unused'[p] = unused[p] \ deps[i]
          /\ unread'[p] = unread[p] \ {i}
      BY <2>2, <2>3 DEF TypeOK, ProcessTypeOK
    <3> QED
      BY <2>1, <3>1 DEF MarkOK, imageVars
  <2>4. CASE i \notin depFiles
    <3>1. unused'[p] = {} /\ unread'[p] = {}
      BY <2>2, <2>4 DEF TypeOK, ProcessTypeOK
    <3> QED
      BY <3>1 DEF MarkOK
  <2> QED
    BY <2>3, <2>4
<1>4. CASE KeepPreserved(p)
  BY <1>4, LayersKept DEF KeepPreserved, Proceed, Goto, RemoveDependencyFromOrphanList, Preserved,
    MarkInv, MarkOK, TypeOK, ProcessTypeOK, volumeVars, imageVars, lockVars, gcVars
<1>5. CASE MarkUnused(p)
  BY <1>5, LayersKept DEF MarkUnused, Proceed, Goto, MarkInv, MarkOK, TypeOK, ProcessTypeOK,
    volumeVars, imageVars, lockVars, gcVars
<1>6. CASE UnusedVolumesFails(p)
  BY <1>6, LayersKept DEF UnusedVolumesFails, LoggedFault, Strike, Goto, MarkInv, MarkOK, TypeOK,
    ProcessTypeOK, volumeVars, imageVars, lockVars, gcVars
<1>7. CASE MarkUnusedFails(p)
  BY <1>7, LayersKept DEF MarkUnusedFails, LoggedFault, Strike, Goto, MarkInv, MarkOK, TypeOK,
    ProcessTypeOK, volumeVars, imageVars, lockVars, gcVars
<1> QED
  BY <1>0, <1>1, <1>2, <1>3, <1>4, <1>5, <1>6, <1>7

\* At every step the cleaner's list is free of what registered images, and
\* the create it works for, depend on.
LEMMA MarkStep ==
    ASSUME TypeOK, GlobalLockInv, MarkInv, NEW p \in Procs, Step(p) \/ Failure(p)
    PROVE  MarkInv'
<1>1. cmd' = cmd /\ MarkOK(p)
  BY CommandKept DEF MarkInv
<1>2. MarkOK(p)'
  BY <1>1, MarkOwn
<1>3. \A q \in Procs : q # p => MarkOK(q)'
  BY <1>1, OthersKept, RegistrationsLocked, MarkOthers
<1> QED
  BY <1>2, <1>3 DEF MarkInv

\* A finished volume leaves the cache only by MarkUnused, as a member of the
\* cleaner's list: the DestroyVolume of a failed unpack finds none.
LEMMA VolumesLost ==
    ASSUME TypeOK, FrameInv, LayerLockInv, NEW p \in Procs, Step(p) \/ Failure(p)
    PROVE  \A c \in ChainIDs : c \in volumes /\ c \notin volumes' =>
             pc[p] = "mark" /\ c \in unused[p]
<1>0. \/ volumes' = volumes
      \/ CreateTemporaryVolume(p) \/ PrepareVolumeFails(p) \/ UnpackFails(p) \/ MoveVolume(p)
      \/ MarkUnused(p)
  BY DEF CheckID, LockCreate, UnlockCreate, BuildLayer, LockLayer, Recheck, ReturnLayer,
    UnpackLayer, WriteVolumeMeta, MakeImageDir, CreateImage, CreateImagePanics, SetOwnership,
    Register, DestroyExists, DestroyRootfs, RemoveFiles, RemoveImageDir, DestroyStat, Deregister,
    CheckThreshold, LockStore, ListVolumes, ListImages, ReadDependencies, KeepPreserved,
    UnlockStore, ListGarbage, RemoveMeta, DestroyVolume, CollectReturns, CallFails,
    DiskLimitFails, DestroyRootfsFails, RemoveImageDirFails, UnusedVolumesFails, MarkUnusedFails,
    DestroyVolumeFails, Crash, volumeVars, Step, Failure, Pull, Clone, Clean, PullFault,
    CloneFault, CleanFault
<1>1. CASE volumes' = volumes
  BY <1>1
<1>2. CASE CreateTemporaryVolume(p)
  BY <1>2, FrameNames, NameAssumption DEF CreateTemporaryVolume, Proceed, Goto, Error,
    ParentExists, TypeOK, LockedSteps, FramesOK, LayerLockInv, Temp, volumeVars, imageVars,
    lockVars, gcVars
<1>3. CASE PrepareVolumeFails(p)
  BY <1>3, FrameNames, NameAssumption DEF PrepareVolumeFails, Fault, Strike, Goto, ParentExists,
    TypeOK, LockedSteps, FramesOK, LayerLockInv, Temp, volumeVars, imageVars, lockVars, gcVars
<1>4. CASE UnpackFails(p)
  BY <1>4, FrameNames, NameAssumption DEF UnpackFails, Fault, Strike, Goto, TypeOK, LockedSteps,
    FramesOK, LayerLockInv, Temp, volumeVars, imageVars, lockVars, gcVars
<1>5. CASE MoveVolume(p)
  BY <1>5, FrameNames, NameAssumption DEF MoveVolume, Proceed, Goto, Error, TypeOK, LockedSteps,
    FramesOK, LayerLockInv, Temp, volumeVars, imageVars, lockVars, gcVars
<1>6. CASE MarkUnused(p)
  BY <1>6, FrameNames, NameAssumption DEF MarkUnused, Proceed, Goto, TypeOK, LockedSteps,
    FramesOK, LayerLockInv, Temp, volumeVars, imageVars, lockVars, gcVars
<1> QED
  BY <1>0, <1>1, <1>2, <1>3, <1>4, <1>5, <1>6

\* A command touches its own image id's directory and dependency file only,
\* and clean touches none; drax may take the rootfs of a longer id too.
LEMMA ImageFrame ==
    ASSUME TypeOK, CommandInv, NEW p \in Procs, Step(p) \/ Failure(p)
    PROVE  \A i \in ImageIDs :
             (i # Id(p) /\ i \notin Extensions[Id(p)]) \/ cmd[p].op = "clean" =>
             /\ i \in images' <=> i \in images
             /\ i \in depFiles' <=> i \in depFiles
             /\ rootfs'[i] = rootfs[i]
             /\ i \in torn' <=> i \in torn
             /\ deps'[i] = deps[i]
<1>0. \/ UNCHANGED imageVars
      \/ MakeImageDir(p) \/ CreateImage(p) \/ DiskLimitFails(p) \/ Register(p)
      \/ DestroyRootfs(p) \/ DestroyRootfsFails(p) \/ RemoveFiles(p) \/ RemoveImageDir(p)
      \/ RemoveImageDirFails(p) \/ Deregister(p)
  BY DEF CheckID, LockCreate, UnlockCreate, BuildLayer, LockLayer, Recheck, ReturnLayer,
    CreateTemporaryVolume, UnpackLayer, WriteVolumeMeta, MoveVolume, CreateImagePanics,
    SetOwnership, DestroyExists, DestroyStat, CheckThreshold, LockStore, ListVolumes, ListImages,
    ReadDependencies, KeepPreserved, MarkUnused, UnlockStore, ListGarbage, RemoveMeta,
    DestroyVolume, CollectReturns, CallFails, PrepareVolumeFails, UnpackFails,
    UnusedVolumesFails, MarkUnusedFails, DestroyVolumeFails, Crash, Step, Failure, Pull, Clone,
    Clean, PullFault, CloneFault, CleanFault
<1>1. CASE UNCHANGED imageVars
  BY <1>1 DEF imageVars
<1>2. CASE MakeImageDir(p)
  BY <1>2, CommandFields DEF MakeImageDir, Proceed, Goto, Error, Id, TypeOK, StoreTypeOK,
    CommandInv, SharedSteps, CloneSteps, DeleteSteps, volumeVars, imageVars, lockVars, gcVars
<1>3. CASE CreateImage(p)
  BY <1>3, CommandFields DEF CreateImage, Proceed, Goto, Error, SnapshotTaken, Id, TypeOK,
    StoreTypeOK, CommandInv, SharedSteps, CloneSteps, DeleteSteps, volumeVars, imageVars,
    lockVars, gcVars
<1>4. CASE DiskLimitFails(p)
  BY <1>4, CommandFields DEF DiskLimitFails, Fault, Strike, Goto, SnapshotTaken, Id, TypeOK,
    StoreTypeOK, CommandInv, SharedSteps, CloneSteps, DeleteSteps, volumeVars, imageVars,
    lockVars, gcVars
<1>5. CASE Register(p)
  BY <1>5, CommandFields DEF Register, Proceed, Goto, Id, TypeOK, StoreTypeOK, CommandInv,
    SharedSteps, CloneSteps, DeleteSteps, volumeVars, imageVars, lockVars, gcVars
<1>6. CASE DestroyRootfs(p)
  BY <1>6 DEF DestroyRootfs, Destroy, RootfsWithout, ListSubvolumes, AfterRootfs, Id, TypeOK,
    StoreTypeOK, CommandInv, SharedSteps, CloneSteps, DeleteSteps
<1>7. CASE RemoveImageDir(p)
  BY <1>7 DEF RemoveImageDir, Destroy, RootfsWithout, AfterDir, Id, TypeOK,
    StoreTypeOK, CommandInv, SharedSteps, CloneSteps, DeleteSteps
<1>8. CASE RemoveImageDirFails(p)
  BY <1>8 DEF RemoveImageDirFails, Destroy, RootfsWithout, AfterDir, Id, TypeOK, StoreTypeOK,
    CommandInv, SharedSteps, CloneSteps, DeleteSteps
<1>11. CASE RemoveFiles(p)
  BY <1>11 DEF RemoveFiles, AfterDir, Id, TypeOK, StoreTypeOK, CommandInv, SharedSteps,
    CloneSteps, DeleteSteps
<1>10. CASE DestroyRootfsFails(p)
  BY <1>10 DEF DestroyRootfsFails, Destroy, RootfsWithout, AfterRootfs, Id, TypeOK, StoreTypeOK,
    CommandInv, SharedSteps, CloneSteps, DeleteSteps
<1>9. CASE Deregister(p)
  BY <1>9, CommandFields DEF Deregister, Proceed, Goto, Id, TypeOK, StoreTypeOK, CommandInv,
    SharedSteps, CloneSteps, DeleteSteps, volumeVars, imageVars, lockVars, gcVars
<1> QED
  BY <1>0, <1>1, <1>2, <1>3, <1>4, <1>5, <1>6, <1>7, <1>8, <1>9, <1>10, <1>11

\* A rootfs is made in a directory that exists and goes when it goes.
LEMMA NoRootfsStep ==
    ASSUME TypeOK, NoRootfs, NEW p \in Procs, Step(p) \/ Failure(p)
    PROVE  NoRootfs'
<1>0. \/ UNCHANGED <<images, rootfs>>
      \/ MakeImageDir(p) \/ CreateImage(p) \/ DiskLimitFails(p) \/ DestroyRootfs(p)
      \/ DestroyRootfsFails(p) \/ RemoveImageDir(p) \/ RemoveImageDirFails(p)
  BY DEF CheckID, LockCreate, UnlockCreate, BuildLayer, LockLayer, Recheck, ReturnLayer,
    CreateTemporaryVolume, UnpackLayer, WriteVolumeMeta, MoveVolume, CreateImagePanics,
    SetOwnership, Register, DestroyExists, RemoveFiles, DestroyStat, Deregister, CheckThreshold,
    LockStore, ListVolumes, ListImages, ReadDependencies, KeepPreserved, MarkUnused, UnlockStore,
    ListGarbage, RemoveMeta, DestroyVolume, CollectReturns, CallFails, PrepareVolumeFails,
    UnpackFails, UnusedVolumesFails, MarkUnusedFails, DestroyVolumeFails, Crash, imageVars, Step,
    Failure, Pull, Clone, Clean, PullFault, CloneFault, CleanFault
<1>1. CASE UNCHANGED <<images, rootfs>>
  BY <1>1 DEF NoRootfs
<1>2. CASE MakeImageDir(p)
  BY <1>2, CommandFields DEF MakeImageDir, Proceed, Goto, Error, Id, TypeOK, StoreTypeOK,
    NoRootfs, volumeVars, imageVars, lockVars, gcVars
<1>3. CASE CreateImage(p)
  BY <1>3, CommandFields DEF CreateImage, Proceed, Goto, Error, SnapshotTaken, Id, TypeOK,
    StoreTypeOK, NoRootfs, volumeVars, imageVars, lockVars, gcVars
<1>4. CASE DiskLimitFails(p)
  BY <1>4, CommandFields DEF DiskLimitFails, Fault, Strike, Goto, SnapshotTaken, Id, TypeOK,
    StoreTypeOK, NoRootfs, volumeVars, imageVars, lockVars, gcVars
<1>5. CASE DestroyRootfs(p)
  BY <1>5 DEF DestroyRootfs, Destroy, RootfsWithout, TypeOK, StoreTypeOK, NoRootfs
<1>6. CASE RemoveImageDir(p)
  BY <1>6 DEF RemoveImageDir, Destroy, RootfsWithout, TypeOK, StoreTypeOK, NoRootfs
<1>7. CASE RemoveImageDirFails(p)
  BY <1>7 DEF RemoveImageDirFails, Destroy, RootfsWithout, TypeOK, StoreTypeOK, NoRootfs
<1>8. CASE DestroyRootfsFails(p)
  BY <1>8 DEF DestroyRootfsFails, Destroy, RootfsWithout, TypeOK, StoreTypeOK, NoRootfs
<1> QED
  BY <1>0, <1>1, <1>2, <1>3, <1>4, <1>5, <1>6, <1>7, <1>8

\* A snapshot of the top volume has all the layers of the base image.
LEMMA TopComplete ==
    ASSUME ProcessTypeOK, VolumesComplete, NEW p \in Procs, Height(p) > 0,
           Layer(p, Height(p)) \in volumes
    PROVE  content[Layer(p, Height(p))] = ChainSet(cmd[p].base)
<1>1. cmd[p].base \in BaseImages /\ Len(Layers[cmd[p].base]) \in 1..Len(Layers[cmd[p].base])
  BY CommandFields DEF Height
<1> QED
  BY <1>1 DEF VolumesComplete, ChainSet, Layer, Height

\* A create with an id of its own makes the directory, the rootfs and the
\* dependency file one after the other, and reports success only then.
LEMMA ImageOwn ==
    ASSUME TypeOK, CommandInv, VolumeInv, ImageInv, cmd' = cmd,
           NEW p \in Procs, Step(p) \/ Failure(p)
    PROVE  ImageOK(p)'
<1>0. \/ /\ pc'[p] \notin {"createImage", "ownership", "register"}
         /\ pc'[p] \in {"unlock", "exited"} => ~ok'[p] \/ cmd[p].op # "create"
      \/ MakeImageDir(p) \/ CreateImage(p) \/ SetOwnership(p) \/ Register(p) \/ UnlockCreate(p)
  BY DEF CheckID, LockCreate, BuildLayer, LockLayer, Recheck, ReturnLayer, CreateTemporaryVolume,
    UnpackLayer, WriteVolumeMeta, MoveVolume, CreateImagePanics, DestroyExists, DestroyRootfs,
    RemoveFiles, RemoveImageDir, DestroyStat, Deregister, CheckThreshold, LockStore, ListVolumes,
    ListImages, ReadDependencies, KeepPreserved, MarkUnused, UnlockStore, ListGarbage, RemoveMeta,
    DestroyVolume, CollectReturns, CallFails, PrepareVolumeFails, UnpackFails, DiskLimitFails,
    DestroyRootfsFails, RemoveImageDirFails, UnusedVolumesFails, MarkUnusedFails,
    DestroyVolumeFails, Crash, Proceed, Goto, Error, Fault, Strike, LoggedFault, Id,
    LockGlobalShared, LockKey, ParentExists, DropLocks, AfterRootfs, AfterGivingUp, AfterDir,
    AfterClean, LockGlobalExclusive, Preserved, UnlockGlobalExclusive, OnError, SnapshotTaken,
    Ended, CommandInv, DeleteSteps, TypeOK, ProcessTypeOK, Step, Failure, Pull, Clone, Clean,
    PullFault, CloneFault, CleanFault
<1>1. CASE /\ pc'[p] \notin {"createImage", "ownership", "register"}
           /\ pc'[p] \in {"unlock", "exited"} => ~ok'[p] \/ cmd[p].op # "create"
  BY <1>1 DEF ImageOK
<1>2. CASE MakeImageDir(p)
  BY <1>2, CommandFields, LayersKept, TopComplete DEF MakeImageDir, Proceed, Goto, Error, Id,
    ImageInv, ImageOK, NoRootfs, TornInv, TornOK, CommandInv, VolumeInv, BuildOK, TypeOK,
    StoreTypeOK, ProcessTypeOK, SharedSteps, CloneSteps, volumeVars, imageVars, lockVars, gcVars
<1>3. CASE CreateImage(p)
  BY <1>3, CommandFields, LayersKept, TopComplete DEF CreateImage, Proceed, Goto, Error,
    SnapshotTaken, Id, ImageInv, ImageOK, NoRootfs, TornInv, TornOK, CommandInv, VolumeInv,
    BuildOK, TypeOK, StoreTypeOK, ProcessTypeOK, SharedSteps, CloneSteps, volumeVars, imageVars,
    lockVars, gcVars
<1>4. CASE SetOwnership(p)
  BY <1>4, CommandFields, LayersKept, TopComplete DEF SetOwnership, Proceed, Goto, Error, Id,
    ImageInv, ImageOK, NoRootfs, TornInv, TornOK, CommandInv, VolumeInv, BuildOK, TypeOK,
    StoreTypeOK, ProcessTypeOK, SharedSteps, CloneSteps, volumeVars, imageVars, lockVars, gcVars
<1>5. CASE Register(p)
  BY <1>5, CommandFields, LayersKept, TopComplete DEF Register, Proceed, Goto, Id, ImageInv,
    ImageOK, NoRootfs, TornInv, TornOK, CommandInv, VolumeInv, BuildOK, TypeOK, StoreTypeOK,
    ProcessTypeOK, SharedSteps, CloneSteps, volumeVars, imageVars, lockVars, gcVars
<1>6. CASE UnlockCreate(p)
  BY <1>6, CommandFields, LayersKept, TopComplete DEF UnlockCreate, Proceed, Goto,
    UnlockGlobalShared, ImageInv, ImageOK, NoRootfs, TornInv, TornOK, CommandInv, VolumeInv,
    BuildOK, TypeOK, StoreTypeOK, ProcessTypeOK, SharedSteps, CloneSteps, volumeVars, imageVars,
    lockVars, gcVars
<1> QED
  BY <1>0, <1>1, <1>2, <1>3, <1>4, <1>5, <1>6

\* CreateImage puts a whole base image under rootfs, the other steps leave a
\* rootfs alone or remove it.
LEMMA WholeStep ==
    ASSUME TypeOK, VolumesComplete, RootfsOfBase, NEW p \in Procs, Step(p) \/ Failure(p)
    PROVE  RootfsOfBase'
<1>0. \/ rootfs' = rootfs
      \/ CreateImage(p) \/ DiskLimitFails(p) \/ DestroyRootfs(p) \/ DestroyRootfsFails(p)
      \/ RemoveImageDir(p) \/ RemoveImageDirFails(p)
  BY DEF CheckID, LockCreate, UnlockCreate, BuildLayer, LockLayer, Recheck, ReturnLayer,
    CreateTemporaryVolume, UnpackLayer, WriteVolumeMeta, MoveVolume, MakeImageDir,
    CreateImagePanics, SetOwnership, Register, DestroyExists, RemoveFiles, DestroyStat,
    Deregister, CheckThreshold, LockStore, ListVolumes, ListImages, ReadDependencies,
    KeepPreserved, MarkUnused, UnlockStore, ListGarbage, RemoveMeta, DestroyVolume,
    CollectReturns, CallFails, PrepareVolumeFails, UnpackFails, UnusedVolumesFails,
    MarkUnusedFails, DestroyVolumeFails, Crash, imageVars, Step, Failure, Pull, Clone, Clean,
    PullFault, CloneFault, CleanFault
<1>1. CASE rootfs' = rootfs
  BY <1>1 DEF RootfsOfBase, ChainSet, Stack
<1>2. CASE CreateImage(p) \/ DiskLimitFails(p)
  <2>1. \/ rootfs' = rootfs
        \/ /\ Height(p) > 0 /\ Layer(p, Height(p)) \in volumes
           /\ rootfs' = [rootfs EXCEPT ![Id(p)] = content[Layer(p, Height(p))]]
    BY <1>2 DEF CreateImage, DiskLimitFails, SnapshotTaken
  <2>2. CASE rootfs' = rootfs
    BY <2>2 DEF RootfsOfBase, ChainSet, Stack
  <2>3. CASE rootfs' = [rootfs EXCEPT ![Id(p)] = ChainSet(cmd[p].base)]
    BY <2>3, CommandFields DEF RootfsOfBase, ChainSet, Stack, TypeOK, StoreTypeOK
  <2> QED
    BY <2>1, <2>2, <2>3, TopComplete DEF TypeOK
<1>3. CASE DestroyRootfsFails(p)
  BY <1>3 DEF DestroyRootfsFails, Destroy, RootfsWithout, RootfsOfBase, ChainSet, Stack
<1>4. CASE DestroyRootfs(p)
  BY <1>4 DEF DestroyRootfs, Destroy, RootfsWithout, RootfsOfBase, ChainSet, Stack
<1>5. CASE RemoveImageDir(p)
  BY <1>5 DEF RemoveImageDir, Destroy, RootfsWithout, RootfsOfBase, ChainSet, Stack
<1>6. CASE RemoveImageDirFails(p)
  BY <1>6 DEF RemoveImageDirFails, Destroy, RootfsWithout, RootfsOfBase, ChainSet, Stack
<1> QED
  BY <1>0, <1>1, <1>2, <1>3, <1>4, <1>5, <1>6

\* Nobody else takes anything from the image of a create with an id of its
\* own, a marked volume least of all.
LEMMA ImageOthers ==
    ASSUME TypeOK, FrameInv, CommandInv, LayerLockInv, VolumeInv, MarkInv, ImageInv,
           NEW p \in Procs, Step(p) \/ Failure(p), NEW q \in Procs, q # p
    PROVE  ImageOK(q)'
<1>1. /\ cmd' = cmd /\ pc'[q] = pc[q] /\ ok'[q] = ok[q]
      /\ ImageOK(q) /\ Id(q) \in ImageIDs
  BY CommandKept, OthersKept, CommandFields DEF ImageInv, TypeOK
<1>2. /\ Height(q)' = Height(q) /\ Id(q)' = Id(q) /\ OwnID(q)' = OwnID(q)
      /\ Height(q) \in Nat
      /\ Layer(q, Height(q))' = Layer(q, Height(q))
      /\ ChainSet(cmd[q].base)' = ChainSet(cmd[q].base)
  BY <1>1, LayersKept, CommandFields DEF TypeOK, ChainSet, Stack
<1> SUFFICES ASSUME OwnID(q) PROVE ImageOK(q)'
  BY <1>2 DEF ImageOK
<1>3. /\ Id(q) \in images' <=> Id(q) \in images
      /\ Id(q) \in depFiles' <=> Id(q) \in depFiles
      /\ rootfs'[Id(q)] = rootfs[Id(q)]
      /\ Id(q) \in torn' <=> Id(q) \in torn
      /\ deps'[Id(q)] = deps[Id(q)]
  BY <1>1, ImageFrame DEF OwnID
<1>4. ASSUME pc[q] \in {"unlock", "exited"}, ok[q], cmd[q].op = "create"
      PROVE  Layer(q, Height(q)) \in volumes'
  <2>1. /\ Height(q) > 0 /\ Id(q) \in images \cap depFiles
        /\ deps[Id(q)] = ChainSet(cmd[q].base)
        /\ Layer(q, Height(q)) \in volumes
    BY <1>1, <1>4 DEF ImageOK
  <2>2. Layer(q, Height(q)) \in ChainIDs /\ Layer(q, Height(q)) \in ChainSet(cmd[q].base)
    BY <1>2, <2>1, CommandFields DEF TypeOK, ChainSet, Stack, Layer, Height
  <2>3. pc[p] = "mark" => Layer(q, Height(q)) \notin unused[p]
    BY <2>1, <2>2 DEF MarkInv, MarkOK
  <2> QED
    BY <2>1, <2>2, <2>3, VolumesLost
<1> QED
  BY <1>1, <1>2, <1>3, <1>4 DEF ImageOK

\* A create that holds the shared lock keeps it to its end, and a command that
\* has ended takes no step.
LEMMA SharedToTheEnd ==
    ASSUME TypeOK, NEW p \in Procs, Step(p) \/ Failure(p)
    PROVE  /\ pc[p] \notin {"exited", "crashed"}
           /\ pc[p] \in SharedSteps => pc'[p] \in SharedSteps \cup {"exited", "crashed"}
BY DEF CheckID, LockCreate, UnlockCreate, BuildLayer, LockLayer, Recheck, ReturnLayer,
  CreateTemporaryVolume, UnpackLayer, WriteVolumeMeta, MoveVolume, MakeImageDir, CreateImage,
  CreateImagePanics, SetOwnership, Register, DestroyExists, DestroyRootfs, RemoveFiles,
  RemoveImageDir, DestroyStat, Deregister, CheckThreshold, LockStore, ListVolumes, ListImages,
  ReadDependencies, KeepPreserved, MarkUnused, UnlockStore, ListGarbage, RemoveMeta,
  DestroyVolume, CollectReturns, CallFails, PrepareVolumeFails, UnpackFails, DiskLimitFails,
  DestroyRootfsFails, RemoveImageDirFails, UnusedVolumesFails, MarkUnusedFails,
  DestroyVolumeFails, Crash, Ended, Step, Failure, Pull, Clone, Clean, PullFault, CloneFault,
  CleanFault, Proceed, Goto, Error, Fault, Strike, LoggedFault, AfterRootfs, AfterGivingUp,
  AfterDir, OnError, TypeOK, ProcessTypeOK, SharedSteps, PullSteps, CloneSteps

\* A removal that was begun is not forgotten: what it leaves ends in an error,
\* or in death.
LEMMA UnfinishedKept ==
    ASSUME TypeOK, CommandInv, NoRootfs, NEW p \in Procs, Step(p) \/ Failure(p),
           NEW i \in torn, rootfs[i] # {}, i \in torn', NEW q \in Procs, RemovalUnfinished(q, i)
    PROVE  RemovalUnfinished(q, i)'
<1>1. /\ cmd' = cmd /\ Id(q)' = Id(q)
      /\ i \in ImageIDs /\ i \in images /\ Id(q) = i
  BY CommandKept, LayersKept DEF NoRootfs, TypeOK, StoreTypeOK, RemovalUnfinished
<1>2. CASE q # p
  BY <1>1, <1>2, OthersKept DEF RemovalUnfinished
<1>3. CASE q = p
  <2>1. CASE ~ok[p]
    <3>1. ~ok'[p]
      BY <2>1 DEF Step, Failure, Pull, Clone, Clean, PullFault, CloneFault, CleanFault, CheckID,
        LockCreate, UnlockCreate, BuildLayer, LockLayer, Recheck, ReturnLayer,
        CreateTemporaryVolume, UnpackLayer, WriteVolumeMeta, MoveVolume, MakeImageDir,
        CreateImage, CreateImagePanics, SetOwnership, Register, DestroyExists, DestroyRootfs,
        RemoveFiles, RemoveImageDir, DestroyStat, Deregister, CheckThreshold, LockStore,
        ListVolumes, ListImages, ReadDependencies, KeepPreserved, MarkUnused, UnlockStore,
        ListGarbage, RemoveMeta, DestroyVolume, CollectReturns, CallFails, PrepareVolumeFails,
        UnpackFails, DiskLimitFails, DestroyRootfsFails, RemoveImageDirFails, UnusedVolumesFails,
        MarkUnusedFails, DestroyVolumeFails, Crash, Proceed, Error, Fault, LoggedFault, TypeOK,
        ProcessTypeOK
    <3> QED
      BY <1>1, <1>3, <3>1 DEF RemovalUnfinished
  <2>2. CASE ok[p] /\ pc[p] \in DOMAIN AfterDir
    <3>1. pc[p] = "delDir"
      BY <2>2 DEF AfterDir, CommandInv, SharedSteps, CloneSteps, TypeOK
    <3>2. RemoveFiles(p) \/ RemoveImageDir(p) \/ RemoveImageDirFails(p) \/ Crash(p)
      BY <3>1 DEF Step, Failure, Pull, Clone, Clean, PullFault, CloneFault, CleanFault, CheckID,
        LockCreate, UnlockCreate, BuildLayer, LockLayer, Recheck, ReturnLayer,
        CreateTemporaryVolume, UnpackLayer, WriteVolumeMeta, MoveVolume, MakeImageDir,
        CreateImage, CreateImagePanics, SetOwnership, Register, DestroyExists, DestroyRootfs,
        DestroyStat, Deregister, CheckThreshold, LockStore, ListVolumes, ListImages,
        ReadDependencies, KeepPreserved, MarkUnused, UnlockStore, ListGarbage, RemoveMeta,
        DestroyVolume, CollectReturns, CallFails, PrepareVolumeFails, UnpackFails, DiskLimitFails,
        DestroyRootfsFails, UnusedVolumesFails, MarkUnusedFails, DestroyVolumeFails, AfterRootfs,
        OnError
    <3>3. ~RemoveImageDir(p)
      BY <1>1, <1>3 DEF RemoveImageDir, Destroy
    <3>4. pc'[p] \in {"delDir", "delStat", "crashed"}
      BY <3>1, <3>2, <3>3 DEF RemoveFiles, RemoveImageDirFails, Crash, Proceed, LoggedFault,
        Goto, AfterDir, TypeOK, ProcessTypeOK
    <3> QED
      BY <1>1, <1>3, <3>4 DEF RemovalUnfinished, AfterDir
  <2>3. CASE ok[p] /\ pc[p] = "delStat"
    <3>1. DestroyStat(p) \/ Crash(p)
      BY <2>3 DEF Step, Failure, Pull, Clone, Clean, PullFault, CloneFault, CleanFault, CheckID,
        LockCreate, UnlockCreate, BuildLayer, LockLayer, Recheck, ReturnLayer,
        CreateTemporaryVolume, UnpackLayer, WriteVolumeMeta, MoveVolume, MakeImageDir,
        CreateImage, CreateImagePanics, SetOwnership, Register, DestroyExists, DestroyRootfs,
        Deregister, CheckThreshold, LockStore, ListVolumes, ListImages, ReadDependencies,
        KeepPreserved, MarkUnused, UnlockStore, ListGarbage, RemoveMeta, DestroyVolume,
        CollectReturns, CallFails, PrepareVolumeFails, UnpackFails, DiskLimitFails,
        DestroyRootfsFails, UnusedVolumesFails, MarkUnusedFails, DestroyVolumeFails, RemoveFiles,
        RemoveImageDir, RemoveImageDirFails, AfterRootfs, AfterDir, OnError
    <3>2. ~ok'[p] \/ pc'[p] = "crashed"
      BY <1>1, <1>3, <3>1 DEF DestroyStat, Crash, Error, Goto, TypeOK, ProcessTypeOK
    <3> QED
      BY <1>1, <1>3, <3>2 DEF RemovalUnfinished
  <2>4. CASE ok[p] /\ pc[p] = "crashed"
    BY <1>3, <2>4, SharedToTheEnd
  <2> QED
    BY <1>3, <2>1, <2>2, <2>3, <2>4 DEF RemovalUnfinished
<1> QED
  BY <1>2, <1>3

\* Files go from the rootfs of an image whose directory is being removed, and
\* only from there.
LEMMA TornStep ==
    ASSUME TypeOK, CommandInv, NoRootfs, TornInv, NEW p \in Procs, Step(p) \/ Failure(p)
    PROVE  TornInv'
<1> SUFFICES ASSUME NEW i \in torn' PROVE TornOK(i)'
  BY DEF TornInv
<1>1. cmd' = cmd /\ Id(p) \in ImageIDs
  BY CommandKept, CommandFields DEF TypeOK
<1>2. CASE i \notin torn
  <2>1. RemoveFiles(p) /\ i = Id(p)
    <3>1. \/ torn' = torn \/ RemoveFiles(p)
          \/ DestroyRootfs(p) \/ DestroyRootfsFails(p)
          \/ RemoveImageDir(p) \/ RemoveImageDirFails(p)
      BY DEF Step, Failure, Pull, Clone, Clean, PullFault, CloneFault, CleanFault, CheckID,
      LockCreate, UnlockCreate, BuildLayer, LockLayer, Recheck, ReturnLayer,
      CreateTemporaryVolume, UnpackLayer, WriteVolumeMeta, MoveVolume, MakeImageDir, CreateImage,
      CreateImagePanics, SetOwnership, Register, DestroyExists, DestroyStat,
      Deregister, CheckThreshold, LockStore, ListVolumes, ListImages, ReadDependencies,
      KeepPreserved, MarkUnused, UnlockStore, ListGarbage, RemoveMeta, DestroyVolume,
      CollectReturns, CallFails, PrepareVolumeFails, UnpackFails, DiskLimitFails,
      UnusedVolumesFails, MarkUnusedFails, DestroyVolumeFails, Crash, imageVars
    <3>2. torn' \subseteq torn \/ RemoveFiles(p)
      BY <3>1 DEF DestroyRootfs, DestroyRootfsFails, RemoveImageDir, RemoveImageDirFails, Destroy
    <3> QED
      BY <1>2, <3>2 DEF RemoveFiles
  <2>2. pc'[p] \in DOMAIN AfterDir /\ cmd[p].op # "clean" /\ rootfs'[i] # {}
    BY <2>1 DEF RemoveFiles, Proceed, Goto, AfterDir, CommandInv, SharedSteps, CloneSteps,
      DeleteSteps, TypeOK, ProcessTypeOK
  <2> QED
    BY <1>1, <2>1, <2>2, LayersKept DEF TornOK, RemovalUnfinished
<1>3. CASE i \in torn
  <2>1. rootfs[i] # {} /\ \E q \in Procs : RemovalUnfinished(q, i)
    BY <1>3 DEF TornInv, TornOK
  <2>2. rootfs'[i] # {}
    <3>1. \/ rootfs' = rootfs
          \/ CreateImage(p) \/ DiskLimitFails(p) \/ DestroyRootfs(p) \/ DestroyRootfsFails(p)
          \/ RemoveImageDir(p) \/ RemoveImageDirFails(p)
      BY DEF Step, Failure, Pull, Clone, Clean, PullFault, CloneFault, CleanFault, CheckID,
        LockCreate, UnlockCreate, BuildLayer, LockLayer, Recheck, ReturnLayer,
        CreateTemporaryVolume, UnpackLayer, WriteVolumeMeta, MoveVolume, MakeImageDir,
        CreateImagePanics, SetOwnership, Register, DestroyExists, DestroyStat, Deregister,
        CheckThreshold, LockStore, ListVolumes, ListImages, ReadDependencies, KeepPreserved,
        MarkUnused, UnlockStore, ListGarbage, RemoveMeta, DestroyVolume, CollectReturns,
        CallFails, PrepareVolumeFails, UnpackFails, UnusedVolumesFails, MarkUnusedFails,
        DestroyVolumeFails, RemoveFiles, Crash, imageVars
    <3>2. CASE CreateImage(p) \/ DiskLimitFails(p)
      <4>1. \/ rootfs' = rootfs
            \/ rootfs[Id(p)] = {} /\ \E s : rootfs' = [rootfs EXCEPT ![Id(p)] = s]
        BY <3>2 DEF CreateImage, DiskLimitFails, SnapshotTaken
      <4> QED
        BY <1>3, <2>1, <4>1 DEF TypeOK, StoreTypeOK
    <3>3. CASE \/ DestroyRootfs(p) \/ DestroyRootfsFails(p)
               \/ RemoveImageDir(p) \/ RemoveImageDirFails(p)
      <4>1. \/ rootfs' = rootfs
            \/ \E is \in SUBSET ImageIDs : rootfs' = RootfsWithout(is) /\ torn' = torn \ is
        BY <1>1, <3>3, ExtensionsAssumption DEF DestroyRootfs, DestroyRootfsFails,
          RemoveImageDir, RemoveImageDirFails, Destroy, ListSubvolumes
      <4> QED
        BY <1>3, <2>1, <4>1 DEF RootfsWithout, TypeOK, StoreTypeOK
    <3> QED
      BY <2>1, <3>1, <3>2, <3>3
  <2>3. PICK q \in Procs : RemovalUnfinished(q, i)
    BY <2>1
  <2>4. RemovalUnfinished(q, i)'
    BY <1>3, <2>1, <2>3, UnfinishedKept
  <2> QED
    BY <2>2, <2>4 DEF TornOK
<1> QED
  BY <1>2, <1>3

\* How far each create has come with its image is kept by every step.
LEMMA ImageStep ==
    ASSUME TypeOK, FrameInv, CommandInv, LayerLockInv, VolumeInv, MarkInv, ImageInv,
           NEW p \in Procs, Step(p) \/ Failure(p)
    PROVE  ImageInv'
<1>1. NoRootfs'
  BY NoRootfsStep DEF ImageInv
<1>2. ImageOK(p)'
  BY CommandKept, ImageOwn
<1>3. \A q \in Procs : q # p => ImageOK(q)'
  BY ImageOthers
<1> QED
  BY <1>1, <1>2, <1>3, TornStep DEF ImageInv

\* In the store earlier commands left, finished volumes are complete.
LEMMA InitComplete ==
    ASSUME Init
    PROVE  VolumesComplete
<1> SUFFICES ASSUME NEW a \in BaseImages, NEW m \in 1..Len(Layers[a]), Layers[a][m] \in volumes
             PROVE  content[Layers[a][m]] = Stack(a, m)
  BY DEF VolumesComplete
<1>1. Layers[a][m] \in ChainIDs /\ Layers[a][m] \in VolumeNames
  BY LayersAssumption DEF VolumeNames
<1>2. content[Layers[a][m]] =
        {c \in ChainIDs : \E b \in Pulled : \E n \in 1..Len(Layers[b]) :
            Layers[b][n] = Layers[a][m] /\ c \in Stack(b, n)}
  BY <1>1 DEF Init
<1>3. PICK b \in Pulled : Layers[a][m] \in ChainSet(b)
  BY DEF Init
<1>4. PICK n \in 1..Len(Layers[b]) : Layers[a][m] = Layers[b][n]
  BY <1>3 DEF ChainSet, Stack
<1>5. \A d \in Pulled : \A k \in 1..Len(Layers[d]) :
        Layers[d][k] = Layers[a][m] => Stack(d, k) = Stack(a, m)
  <2> SUFFICES ASSUME NEW d \in Pulled, NEW k \in 1..Len(Layers[d]), Layers[d][k] = Layers[a][m]
               PROVE  Stack(d, k) = Stack(a, m)
    OBVIOUS
  <2>1. k = m /\ \A j \in 1..k : Layers[d][j] = Layers[a][j]
    BY ChainAssumption, StoreAssumption
  <2> QED
    BY <2>1 DEF Stack
<1>6. Stack(a, m) \in SUBSET ChainIDs
  BY StackType
<1> QED
  BY <1>2, <1>4, <1>5, <1>6

\* The inductive invariant holds of the store as it is found.
LEMMA InitInvariant ==
    ASSUME Init
    PROVE  IInv
<1>1. \A p \in Procs : /\ cmd[p] \in Commands[p]
                       /\ cmd[p].op \in {"create", "clean", "delete"}
                       /\ cmd[p].base \in BaseImages /\ Height(p) \in Nat
                       /\ pc[p] \in {"exists", "threshold", "findID"}
  <2> SUFFICES ASSUME NEW p \in Procs
               PROVE  /\ cmd[p] \in Commands[p]
                      /\ cmd[p].op \in {"create", "clean", "delete"}
                      /\ cmd[p].base \in BaseImages /\ Height(p) \in Nat
                      /\ pc[p] \in {"exists", "threshold", "findID"}
    OBVIOUS
  <2>1. cmd[p] \in Commands[p] /\ pc[p] = Entry[cmd[p].op]
    BY DEF Init
  <2>2. cmd[p].op \in {"create", "clean", "delete"} /\ cmd[p].base \in BaseImages
    BY <2>1, CommandsAssumption
  <2>3. pc[p] \in {"exists", "threshold", "findID"}
    BY <2>1, <2>2 DEF Entry
  <2>4. Height(p) \in Nat
    BY <2>2, LayersAssumption DEF Height
  <2> QED
    BY <2>1, <2>2, <2>3, <2>4
<1>2. DOMAIN cmd = Procs
  BY DEF Init
<1>3. StoreTypeOK
  <2>1. \A b \in BaseImages : ChainSet(b) \in SUBSET ChainIDs
    BY StackType
  <2>2. volumes \subseteq ChainIDs /\ ChainIDs \subseteq VolumeNames
    BY <2>1, StoreAssumption DEF Init, VolumeNames
  <2>3. rootfs \in [ImageIDs -> SUBSET ChainIDs]
    BY <2>1, StoreAssumption DEF Init
  <2>4. content \in [VolumeNames -> SUBSET ChainIDs]
    BY DEF Init
  <2> QED
    BY <2>2, <2>3, <2>4, StoreAssumption DEF Init, StoreTypeOK
<1>4. ProcessTypeOK
  <2>1. pc \in [Procs -> Steps]
    BY <1>1 DEF Init, Steps
  <2> QED
    BY <1>1, <1>2, <2>1, FaultAssumption DEF Init, ProcessTypeOK
<1>5. FrameInv /\ CommandInv /\ MarkInv
  BY <1>1 DEF Init, Entry, FrameInv, CommandInv, MarkInv, MarkOK, LockedSteps, SharedSteps,
    PullSteps, CloneSteps, ExclusiveSteps, DeleteSteps
<1>6. GlobalLockInv
  BY <1>1, NameAssumption DEF Init, GlobalLockInv, SharedSteps, PullSteps, CloneSteps,
    ExclusiveSteps
<1>7. LayerLockInv
  BY <1>1, NameAssumption DEF Init, LayerLockInv, FramesOK, LockedSteps, PullSteps
<1>8. \A p \in Procs : BuildOK(p)
  BY <1>1 DEF BuildOK
<1>9. ImageInv
  BY <1>1 DEF Init, ImageInv, NoRootfs, TornInv, ImageOK
<1> QED
  BY <1>3, <1>4, <1>5, <1>6, <1>7, <1>8, <1>9, InitComplete DEF IInv, TypeOK, VolumeInv

\* The inductive invariant is kept by every step of every process.
LEMMA NextInvariant ==
    ASSUME IInv, [Next]_vars
    PROVE  IInv'
<1>1. ASSUME NEW p \in Procs, Step(p) \/ Failure(p)
      PROVE  IInv'
  <2>1. TypeOK'
    BY <1>1, StoreTypeStep, ProcessTypeStep DEF IInv, TypeOK
  <2>2. FrameInv' /\ CommandInv' /\ GlobalLockInv'
    BY <1>1, FrameStep, CommandStep, GlobalLockStep DEF IInv
  <2>3. LayerLockInv' /\ VolumeInv'
    BY <1>1, LayerLockStep, VolumeStep DEF IInv
  <2>4. MarkInv' /\ ImageInv'
    BY <1>1, MarkStep, ImageStep DEF IInv
  <2> QED
    BY <2>1, <2>2, <2>3, <2>4 DEF IInv
<1>2. ASSUME UNCHANGED vars
      PROVE  IInv'
  <2> USE <1>2 DEF IInv, vars, volumeVars, imageVars, lockVars, gcVars
  <2>1. TypeOK'
    BY DEF TypeOK, StoreTypeOK, ProcessTypeOK, Height
  <2>2. FrameInv' /\ CommandInv' /\ GlobalLockInv'
    BY DEF FrameInv, CommandInv, GlobalLockInv
  <2>3. LayerLockInv'
    BY DEF LayerLockInv, FramesOK, Chain, Layer, Height
  <2>4. VolumeInv'
    BY DEF VolumeInv, VolumesComplete, BuildOK, ParentExists, Chain, Temp, Layer, Height, Stack
  <2>5. \A p \in Procs : Preserved(p)' = Preserved(p)
    BY DEF Preserved, ChainSet, Stack
  <2>6. MarkInv'
    BY <2>5 DEF MarkInv, MarkOK
  <2>7. \A p \in Procs : ChainSet(cmd[p].base)' = ChainSet(cmd[p].base)
    BY DEF ChainSet, Stack
  <2>8. \A p \in Procs : OwnID(p)' = OwnID(p)
    BY DEF OwnID, Id
  <2>9. \A p \in Procs : ImageOK(p)'
    BY <2>7, <2>8 DEF ImageInv, ImageOK, Id, Layer, Height
  <2>10. NoRootfs'
    BY DEF ImageInv, NoRootfs
  <2>11. TornInv'
    BY DEF ImageInv, TornInv, TornOK, RemovalUnfinished, Id
  <2> QED
    BY <2>1, <2>2, <2>3, <2>4, <2>6, <2>9, <2>10, <2>11 DEF ImageInv
<1> QED
  BY <1>1, <1>2 DEF Next, Finished

-----------------------------------------------------------------------------

\* The inductive invariant holds in every state, for any number of processes,
\* base images, images, failures and crashes.
THEOREM Invariant == Spec => []IInv
<1>1. Init => IInv
  BY InitInvariant
<1>2. IInv /\ [Next]_vars => IInv'
  BY NextInvariant
<1> QED
  BY <1>1, <1>2, PTL DEF Spec

\* Every variable has its type: no step of Create, Clean or Delete leaves the
\* store or a process in a state outside the model.
THEOREM TypesHold == Spec => []TypeOK
<1>1. IInv => TypeOK
  BY DEF IInv
<1> QED
  BY <1>1, Invariant, PTL

\* A volume called by its chain id is complete: buildLayer never shows a layer
\* that is half unpacked, or unpacked twice, under the name by which
\* volumeExists looks for it.
THEOREM VolumesAreComplete == Spec => []VolumesComplete
<1>1. IInv => VolumesComplete
  BY DEF IInv, VolumeInv
<1> QED
  BY <1>1, Invariant, PTL

\* The shared lock of Create protects the parent, the temporary and the top
\* volume from the MarkUnused of any clean.
THEOREM LayersDoStay == Spec => []LayersStay
<1>1. IInv => LayersStay
  BY DEF IInv, VolumeInv, BuildOK, LayersStay
<1> QED
  BY <1>1, Invariant, PTL

\* The layer lock and the second volumeExists of buildLayer keep everyone else
\* from making the same volume until it is renamed.
THEOREM BuildersOwnNames == Spec => []BuilderOwnsName
<1>1. IInv => BuilderOwnsName
  BY DEF IInv, LayerLockInv, FramesOK, LockedSteps, BuilderOwnsName
<1> QED
  BY <1>1, Invariant, PTL

\* Locking from the top layer down orders all waiting for layer locks by
\* height, whatever base images the creates share: no circle of waits.
THEOREM WaitsDoDescend == Spec => []WaitsDescend
<1>1. IInv => WaitsDescend
  <2> SUFFICES ASSUME IInv, NEW p \in Procs, NEW q \in Procs,
                      pc[p] = "lockLayer", pc[q] = "lockLayer", layerLock[Chain(p)] = q
               PROVE  idx[q] < idx[p]
    BY DEF WaitsDescend
  <2>1. Chain(p) \in ChainIDs /\ idx[p] \in 1..Height(p) /\ Height(q) \in Nat
    BY FrameNames, CommandFields DEF IInv, TypeOK
  <2>2. FramesOK(q)
    BY DEF IInv, LayerLockInv
  <2>3. PICK j \in 1..Height(q) : Chain(p) = Layer(q, j) /\ j > idx[q]
    BY <2>1, <2>2 DEF FramesOK, LockedSteps
  <2>4. idx[p] = j
    BY <2>1, <2>3, ChainUnique DEF Chain, IInv, TypeOK
  <2> QED
    BY <2>3, <2>4 DEF IInv, TypeOK, ProcessTypeOK
<1> QED
  BY <1>1, Invariant, PTL

\* An image whose Create returned without an error is whole and keeps its
\* volumes, if no other command names its id.
THEOREM CreatedImagesIntact == Spec => []CreatedImageIntact
<1>1. IInv => CreatedImageIntact
  BY DEF IInv, ImageInv, ImageOK, OwnID, CreatedImageIntact
<1> QED
  BY <1>1, Invariant, PTL

\* A rootfs is made of a whole base image or is not there, also when creates
\* and deletes of one id destroy each other's work; and files are missing from
\* it only while, or because, a command that has not ended well removes it.
THEOREM ImagesAreWhole == Spec => []ImagesWhole
<1>1. Init => RootfsOfBase
  BY StoreAssumption DEF Init, RootfsOfBase
<1>2. IInv /\ RootfsOfBase /\ [Next]_vars => RootfsOfBase'
  <2> SUFFICES ASSUME IInv, RootfsOfBase, [Next]_vars PROVE RootfsOfBase'
    OBVIOUS
  <2>1. ASSUME NEW p \in Procs, Step(p) \/ Failure(p) PROVE RootfsOfBase'
    BY <2>1, WholeStep DEF IInv, VolumeInv
  <2>2. ASSUME UNCHANGED vars PROVE RootfsOfBase'
    BY <2>2 DEF vars, imageVars, RootfsOfBase, ChainSet, Stack
  <2> QED
    BY <2>1, <2>2 DEF Next, Finished
<1>3. IInv /\ RootfsOfBase => ImagesWhole
  BY DEF IInv, ImageInv, TornInv, TornOK, RootfsOfBase, ImagesWhole
<1> QED
  BY <1>1, <1>2, <1>3, Invariant, PTL DEF Spec

\* MarkUnused takes no volume a registered image depends on, nor one of the
\* create it runs for, although delete changes both directories without a
\* lock while UnusedVolumes reads them.
THEOREM InUseVolumesAreKept == Spec => InUseVolumesKept
<1> DEFINE Kept == \A v \in volumes \cap ChainIDs : v \notin volumes' =>
                      /\ \A i \in images \cap depFiles : v \notin deps[i]
                      /\ \E p \in Procs : exclusive = p /\ v \notin Preserved(p)
<1>1. IInv /\ [Next]_vars => [Kept]_vars
  <2> SUFFICES ASSUME IInv, NEW p \in Procs, Step(p) \/ Failure(p),
                      NEW v \in volumes \cap ChainIDs, v \notin volumes'
               PROVE  /\ \A i \in images \cap depFiles : v \notin deps[i]
                      /\ exclusive = p /\ v \notin Preserved(p)
    BY DEF Next, Finished
  <2>1. pc[p] = "mark" /\ v \in unused[p]
    BY VolumesLost DEF IInv
  <2>2. exclusive = p
    BY <2>1 DEF IInv, GlobalLockInv, ExclusiveSteps
  <2> QED
    BY <2>1, <2>2 DEF IInv, MarkInv, MarkOK
<1> QED
  BY <1>1, Invariant, PTL DEF Spec, InUseVolumesKept

-----------------------------------------------------------------------------

(***************************************************************************)
(* A temporary volume belongs to a create that has taken the shared lock.  *)
(* It is called gc. only when that create is over, since the marking needs *)
(* the lock exclusively, and is never in the directory under both names:   *)
(* the rename of MarkUnused does take it away.                             *)
(***************************************************************************)
TempOK(t, q) ==
    /\ t \in volumes \cup gcVolumes => pc[q] \in SharedSteps \cup {"exited", "crashed"}
    /\ t \in gcVolumes => pc[q] \in {"exited", "crashed"} /\ t \notin volumes

TempInv == \A c \in ChainIDs : \A q \in Procs : TempOK(<<c, q>>, q)

\* Temporary volumes come into being by createTemporaryVolumeDirectory, and
\* become gc. volumes by MarkUnused.
LEMMA TempsChange ==
    ASSUME TypeOK, FrameInv, NEW p \in Procs, Step(p) \/ Failure(p),
           NEW c \in ChainIDs, NEW q \in Procs
    PROVE  /\ <<c, q>> \in volumes' \ volumes =>
                q = p /\ pc[p] \in PullSteps /\ pc'[p] \in PullSteps
           /\ <<c, q>> \in gcVolumes' \ gcVolumes =>
                pc[p] = "mark" /\ <<c, q>> \notin volumes' /\ <<c, q>> \in volumes
<1>0. <<c, q>> \notin ChainIDs
  BY NameAssumption
<1>1. \/ volumes' \subseteq volumes /\ gcVolumes' \subseteq gcVolumes
      \/ CreateTemporaryVolume(p) \/ PrepareVolumeFails(p) \/ MoveVolume(p) \/ MarkUnused(p)
  BY DEF CheckID, LockCreate, UnlockCreate, BuildLayer, LockLayer, Recheck, ReturnLayer,
    UnpackLayer, WriteVolumeMeta, MakeImageDir, CreateImage, CreateImagePanics, SetOwnership,
    Register, DestroyExists, DestroyRootfs, RemoveFiles, RemoveImageDir, DestroyStat, Deregister,
    CheckThreshold, LockStore, ListVolumes, ListImages, ReadDependencies, KeepPreserved,
    UnlockStore, ListGarbage, RemoveMeta, DestroyVolume, CollectReturns, CallFails, UnpackFails,
    DiskLimitFails, DestroyRootfsFails, RemoveImageDirFails, UnusedVolumesFails, MarkUnusedFails,
    DestroyVolumeFails, Crash, volumeVars, Step, Failure, Pull, Clone, Clean, PullFault,
    CloneFault, CleanFault
<1>2. CASE CreateTemporaryVolume(p) \/ PrepareVolumeFails(p)
  <2>1. /\ volumes' \subseteq volumes \cup {Temp(p)} /\ gcVolumes' = gcVolumes
        /\ pc[p] = "createVolume" /\ pc'[p] \in {"unpack", "return"}
    BY <1>2 DEF CreateTemporaryVolume, PrepareVolumeFails, Proceed, Error, Fault, Goto, TypeOK,
      ProcessTypeOK
  <2>2. <<c, q>> = Temp(p) => q = p
    BY DEF Temp
  <2> QED
    BY <2>1, <2>2 DEF PullSteps
<1>3. CASE MoveVolume(p)
  <2>1. Chain(p) \in ChainIDs
    BY <1>3, FrameNames DEF MoveVolume, LockedSteps, TypeOK
  <2>2. volumes' \subseteq volumes \cup {Chain(p)} /\ gcVolumes' = gcVolumes
    BY <1>3 DEF MoveVolume
  <2> QED
    BY <1>0, <2>1, <2>2
<1>4. CASE MarkUnused(p)
  BY <1>4 DEF MarkUnused
<1> QED
  BY <1>1, <1>2, <1>3, <1>4

\* Temporary volumes stay with the creates that made them.
LEMMA TempsHold == Spec => []TempInv
<1>1. Init => TempInv
  <2> SUFFICES ASSUME Init, NEW c \in ChainIDs, NEW q \in Procs PROVE TempOK(<<c, q>>, q)
    BY DEF TempInv
  <2>1. volumes \subseteq ChainIDs /\ gcVolumes = {}
    BY StackType, StoreAssumption DEF Init
  <2> QED
    BY <2>1, NameAssumption DEF TempOK
<1>2. IInv /\ TempInv /\ [Next]_vars => TempInv'
  <2> SUFFICES ASSUME IInv, TempInv, [Next]_vars, NEW c \in ChainIDs, NEW q \in Procs
               PROVE  TempOK(<<c, q>>, q)'
    BY DEF TempInv
  <2>0. TempOK(<<c, q>>, q)
    BY DEF TempInv
  <2>1. CASE UNCHANGED vars
    BY <2>0, <2>1 DEF TempOK, vars, volumeVars
  <2>2. ASSUME NEW p \in Procs, Step(p) \/ Failure(p) PROVE TempOK(<<c, q>>, q)'
    <3>1. q # p => pc'[q] = pc[q]
      BY <2>2, OthersKept DEF IInv
    <3>2. /\ pc[p] \notin {"exited", "crashed"}
          /\ pc[p] \in SharedSteps => pc'[p] \in SharedSteps \cup {"exited", "crashed"}
      BY <2>2, SharedToTheEnd DEF IInv
    <3>3. /\ <<c, q>> \in volumes' \ volumes =>
               q = p /\ pc[p] \in PullSteps /\ pc'[p] \in PullSteps
          /\ <<c, q>> \in gcVolumes' \ gcVolumes =>
               pc[p] = "mark" /\ <<c, q>> \notin volumes' /\ <<c, q>> \in volumes
      BY <2>2, TempsChange DEF IInv
    <3>4. pc[p] = "mark" => pc[q] \notin SharedSteps /\ "mark" \notin SharedSteps
      BY NameAssumption DEF IInv, GlobalLockInv, ExclusiveSteps, SharedSteps, PullSteps,
        CloneSteps
    <3>5. \A s \in PullSteps : s \in SharedSteps /\ s \notin {"exited", "crashed"}
      BY DEF SharedSteps, PullSteps
    <3>6. <<c, q>> \in volumes' \cup gcVolumes' => pc'[q] \in SharedSteps \cup {"exited", "crashed"}
      BY <2>0, <3>1, <3>2, <3>3, <3>5 DEF TempOK
    <3>7. <<c, q>> \in gcVolumes' => pc'[q] \in {"exited", "crashed"} /\ <<c, q>> \notin volumes'
      <4>1. CASE <<c, q>> \in gcVolumes
        BY <2>0, <3>1, <3>2, <3>3, <3>5, <4>1 DEF TempOK
      <4>2. CASE <<c, q>> \notin gcVolumes
        BY <2>0, <3>1, <3>2, <3>3, <3>4, <4>2 DEF TempOK
      <4> QED
        BY <4>1, <4>2
    <3> QED
      BY <3>6, <3>7 DEF TempOK
  <2> QED
    BY <2>1, <2>2 DEF Next, Finished
<1> QED
  BY <1>1, <1>2, Invariant, PTL DEF Spec

(***************************************************************************)
(* Every image is registered, and no delete has begun.  While a cleaner    *)
(* holds the lock, nothing makes that so that was not so before.           *)
(***************************************************************************)
AllRegistered ==
    /\ images \subseteq depFiles
    /\ \A q \in Procs : cmd[q].op = "delete" => pc[q] = "findID"

(***************************************************************************)
(* Then what has no chain id for a name stays on the cleaner's list until  *)
(* it has been marked, and no image ends the search.                       *)
(***************************************************************************)
LeftoverOK(p) ==
    AllRegistered =>
        /\ pc[p] = "readDeps" => unread[p] \subseteq images
        /\ pc[p] \in {"listImages", "readDeps", "mark"} => volumes \ ChainIDs \subseteq unused[p]

LeftoverInv == \A p \in Procs : LeftoverOK(p)

\* A step outside the shared lock leaves the images and their registrations
\* alone, unless it is a delete's.
LEMMA RegisteredKept ==
    ASSUME TypeOK, CommandInv, NEW p \in Procs, Step(p) \/ Failure(p),
           pc[p] \notin SharedSteps, AllRegistered'
    PROVE  AllRegistered /\ UNCHANGED <<images, depFiles>>
<1>1. cmd' = cmd /\ \A q \in Procs : q # p => pc'[q] = pc[q]
  BY CommandKept, OthersKept
<1>2. pc'[p] # "findID"
  BY DEF CheckID, LockCreate, UnlockCreate, BuildLayer, LockLayer, Recheck, ReturnLayer,
    CreateTemporaryVolume, UnpackLayer, WriteVolumeMeta, MoveVolume, MakeImageDir, CreateImage,
    CreateImagePanics, SetOwnership, Register, DestroyExists, DestroyRootfs, RemoveFiles,
    RemoveImageDir, DestroyStat, Deregister, CheckThreshold, LockStore, ListVolumes, ListImages,
    ReadDependencies, KeepPreserved, MarkUnused, UnlockStore, ListGarbage, RemoveMeta,
    DestroyVolume, CollectReturns, CallFails, PrepareVolumeFails, UnpackFails, DiskLimitFails,
    DestroyRootfsFails, RemoveImageDirFails, UnusedVolumesFails, MarkUnusedFails,
    DestroyVolumeFails, Crash, Step, Failure, Pull, Clone, Clean, PullFault, CloneFault,
    CleanFault, Proceed, Goto, Error, Fault, Strike, LoggedFault, AfterRootfs, AfterGivingUp,
    AfterDir, AfterClean, OnError, TypeOK, ProcessTypeOK
<1>3. cmd[p].op # "delete"
  BY <1>1, <1>2 DEF AllRegistered
<1>4. pc[p] \notin {"mkdir", "register", "deregister", "delDir", "undoDir", "failDir", "failAgain"}
  BY <1>3 DEF CommandInv, DeleteSteps, SharedSteps, CloneSteps
<1>5. UNCHANGED <<images, depFiles>>
  BY <1>4 DEF CheckID, LockCreate, UnlockCreate, BuildLayer, LockLayer, Recheck, ReturnLayer,
    CreateTemporaryVolume, UnpackLayer, WriteVolumeMeta, MoveVolume, MakeImageDir, CreateImage,
    CreateImagePanics, SetOwnership, Register, DestroyExists, DestroyRootfs, RemoveFiles,
    RemoveImageDir, DestroyStat, Deregister, CheckThreshold, LockStore, ListVolumes, ListImages,
    ReadDependencies, KeepPreserved, MarkUnused, UnlockStore, ListGarbage, RemoveMeta,
    DestroyVolume, CollectReturns, CallFails, PrepareVolumeFails, UnpackFails, DiskLimitFails,
    DestroyRootfsFails, RemoveImageDirFails, UnusedVolumesFails, MarkUnusedFails,
    DestroyVolumeFails, Crash, Step, Failure, Pull, Clone, Clean, PullFault, CloneFault,
    CleanFault, AfterDir, imageVars
<1> QED
  BY <1>1, <1>3, <1>5 DEF AllRegistered

\* Nobody else adds to volumes or takes from the list of a cleaner at work.
LEMMA LeftoverOthers ==
    ASSUME IInv, TypeOK', LeftoverInv, NEW p \in Procs, Step(p) \/ Failure(p),
           NEW q \in Procs, q # p
    PROVE  LeftoverOK(q)'
<1> SUFFICES ASSUME AllRegistered', pc[q] \in {"listImages", "readDeps", "mark"}
             PROVE  /\ pc[q] = "readDeps" => unread[q] \subseteq images'
                    /\ volumes' \ ChainIDs \subseteq unused[q]
  BY OthersKept DEF IInv, LeftoverOK
<1>1. pc[p] \notin SharedSteps
  BY NameAssumption DEF IInv, GlobalLockInv, ExclusiveSteps
<1>2. AllRegistered /\ UNCHANGED <<images, depFiles>>
  BY <1>1, RegisteredKept DEF IInv
<1>3. ASSUME NEW v \in volumes', v \notin ChainIDs PROVE v \in volumes
  <2>1. PICK c \in ChainIDs, r \in Procs : v = <<c, r>>
    BY <1>3 DEF TypeOK, StoreTypeOK, VolumeNames
  <2> QED
    BY <1>1, <1>3, <2>1, TempsChange DEF IInv, SharedSteps
<1> QED
  BY <1>2, <1>3 DEF LeftoverInv, LeftoverOK

\* The cleaner itself, when none of its calls under the lock fails.
LEMMA LeftoverOwn ==
    ASSUME IInv, TempInv, LeftoverInv, FaultPoints \cap ExclusiveSteps = {},
           NEW p \in Procs, Step(p) \/ Failure(p)
    PROVE  LeftoverOK(p)'
<1> SUFFICES ASSUME AllRegistered', pc'[p] \in {"listImages", "readDeps", "mark"}
             PROVE  /\ pc'[p] = "readDeps" => unread'[p] \subseteq images'
                    /\ volumes' \ ChainIDs \subseteq unused'[p]
  BY DEF LeftoverOK
<1>0. TypeOK /\ cmd[p].base \in BaseImages
  BY CommandFields DEF IInv, TypeOK
<1>1. ListVolumes(p) \/ ListImages(p) \/ ReadDependencies(p) \/ KeepPreserved(p) \/ MarkUnused(p)
  BY <1>0 DEF CheckID, LockCreate, UnlockCreate, BuildLayer, LockLayer, Recheck, ReturnLayer,
    CreateTemporaryVolume, UnpackLayer, WriteVolumeMeta, MoveVolume, MakeImageDir, CreateImage,
    CreateImagePanics, SetOwnership, Register, DestroyExists, DestroyRootfs, RemoveFiles,
    RemoveImageDir, DestroyStat, Deregister, CheckThreshold, LockStore, UnlockStore, ListGarbage,
    RemoveMeta, DestroyVolume, CollectReturns, CallFails, PrepareVolumeFails, UnpackFails,
    DiskLimitFails, DestroyRootfsFails, RemoveImageDirFails, UnusedVolumesFails, MarkUnusedFails,
    DestroyVolumeFails, Crash, Step, Failure, Pull, Clone, Clean, PullFault, CloneFault,
    CleanFault, Proceed, Goto, Error, Fault, Strike, LoggedFault, AfterRootfs, AfterGivingUp,
    AfterDir, AfterClean, OnError, TypeOK, ProcessTypeOK, ExclusiveSteps
<1>2. pc[p] \in ExclusiveSteps
  BY <1>1 DEF ListVolumes, ListImages, ReadDependencies, KeepPreserved, MarkUnused, ExclusiveSteps
<1>3. AllRegistered /\ UNCHANGED <<images, depFiles>>
  BY <1>2, RegisteredKept DEF IInv, ExclusiveSteps, SharedSteps, PullSteps, CloneSteps
<1>4. LeftoverOK(p)
  BY DEF LeftoverInv
<1>5. CASE ListVolumes(p)
  BY <1>0, <1>5 DEF ListVolumes, Proceed, Goto, volumeVars, TypeOK, ProcessTypeOK
<1>6. CASE ListImages(p)
  BY <1>0, <1>3, <1>4, <1>6 DEF ListImages, Proceed, Goto, volumeVars, imageVars, LeftoverOK,
    TypeOK, ProcessTypeOK
<1>7. CASE ReadDependencies(p)
  <2>1. PICK i \in unread[p] :
          /\ i \in depFiles =>
               /\ unused' = [unused EXCEPT ![p] = RemoveDependencyFromOrphanList(@, deps[i])]
               /\ unread' = [unread EXCEPT ![p] = @ \ {i}]
          /\ i \notin depFiles => unread' = [unread EXCEPT ![p] = {}]
    BY <1>7 DEF ReadDependencies
  <2>2. i \in images /\ i \in depFiles /\ i \in ImageIDs
    BY <1>0, <1>3, <1>4, <1>7, <2>1 DEF ReadDependencies, LeftoverOK, AllRegistered, TypeOK,
      ProcessTypeOK
  <2>3. deps[i] \subseteq ChainIDs
    BY <1>0, <2>2 DEF TypeOK, StoreTypeOK
  <2>4. volumes' = volumes /\ images' = images /\ pc[p] = "readDeps"
    BY <1>7 DEF ReadDependencies, volumeVars, imageVars
  <2>5. unused'[p] = unused[p] \ deps[i] /\ unread'[p] = unread[p] \ {i}
    BY <1>0, <2>1, <2>2 DEF RemoveDependencyFromOrphanList, TypeOK, ProcessTypeOK
  <2> QED
    BY <1>3, <1>4, <2>3, <2>4, <2>5 DEF LeftoverOK
<1>8. CASE KeepPreserved(p)
  <2>1. Preserved(p) \subseteq ChainIDs
    BY <1>0, StackType DEF Preserved
  <2>2. volumes' = volumes /\ pc[p] = "readDeps" /\ pc'[p] = "mark"
    BY <1>0, <1>8 DEF KeepPreserved, Proceed, Goto, volumeVars, TypeOK, ProcessTypeOK
  <2>3. unused'[p] = unused[p] \ Preserved(p)
    BY <1>0, <1>8 DEF KeepPreserved, RemoveDependencyFromOrphanList, TypeOK, ProcessTypeOK
  <2> QED
    BY <1>3, <1>4, <2>1, <2>2, <2>3 DEF LeftoverOK
<1>9. CASE MarkUnused(p)
  <2>1. PICK v \in unused[p] :
          /\ unused' = [unused EXCEPT ![p] = @ \ {v}]
          /\ IF v \in volumes /\ v \notin gcVolumes
               THEN volumes' = volumes \ {v}
               ELSE UNCHANGED volumes
    BY <1>9 DEF MarkUnused
  <2>2. unused'[p] = unused[p] \ {v} /\ pc[p] = "mark" /\ pc'[p] = "mark"
    BY <1>0, <1>9, <2>1 DEF MarkUnused, Proceed, Goto, TypeOK, ProcessTypeOK
  <2>3. volumes \ ChainIDs \subseteq unused[p]
    BY <1>3, <1>4, <2>2 DEF LeftoverOK
  <2>4. v \notin ChainIDs => v \notin volumes'
    <3> SUFFICES ASSUME v \notin ChainIDs PROVE v \notin volumes'
      OBVIOUS
    <3>1. PICK c \in ChainIDs, q \in Procs : v = <<c, q>>
      BY <1>0 DEF TypeOK, ProcessTypeOK, VolumeNames
    <3>2. v \in gcVolumes => v \notin volumes
      BY <3>1 DEF TempInv, TempOK
    <3> QED
      BY <2>1, <3>2
  <2>5. volumes' \subseteq volumes
    BY <2>1
  <2> QED
    BY <2>2, <2>3, <2>4, <2>5
<1> QED
  BY <1>1, <1>5, <1>6, <1>7, <1>8, <1>9

\* Where no call of UnusedVolumes and MarkUnused fails, a clean that finds
\* every image registered leaves no half unpacked volume: what creates that
\* failed or died have left can be told by its name, is on the list, and its
\* gc. name is free.
THEOREM LeftoversAreReclaimed ==
    ASSUME FaultPoints \cap ExclusiveSteps = {}
    PROVE  Spec => LeftoversReclaimed
<1> DEFINE Reclaims(p) ==
             /\ pc[p] = "mark" /\ pc'[p] = "listGarbage"
             /\ images \subseteq depFiles
             /\ \A q \in Procs : cmd[q].op = "delete" => pc[q] = "findID"
             => volumes' \subseteq ChainIDs
<1>1. Init => LeftoverInv
  <2> SUFFICES ASSUME Init, NEW p \in Procs
               PROVE  pc[p] \notin {"listImages", "readDeps", "mark"}
    BY DEF LeftoverInv, LeftoverOK
  <2>1. cmd[p].op \in {"create", "clean", "delete"}
    BY CommandsAssumption DEF Init
  <2> QED
    BY <2>1 DEF Init, Entry
<1>2. IInv /\ IInv' /\ TempInv /\ LeftoverInv /\ [Next]_vars => LeftoverInv'
  <2> SUFFICES ASSUME IInv, IInv', TempInv, LeftoverInv, [Next]_vars, NEW q \in Procs
               PROVE  LeftoverOK(q)'
    BY DEF LeftoverInv
  <2>1. CASE UNCHANGED vars
    BY <2>1 DEF LeftoverInv, LeftoverOK, AllRegistered, vars, volumeVars, imageVars, gcVars
  <2>2. ASSUME NEW p \in Procs, Step(p) \/ Failure(p) PROVE LeftoverOK(q)'
    BY <2>2, LeftoverOwn, LeftoverOthers DEF IInv
  <2> QED
    BY <2>1, <2>2 DEF Next, Finished
<1>3. IInv /\ LeftoverInv /\ [Next]_vars => [\A p \in Procs : Reclaims(p)]_vars
  <2> SUFFICES ASSUME IInv, LeftoverInv, NEW r \in Procs, Step(r) \/ Failure(r),
                      NEW p \in Procs, pc[p] = "mark", pc'[p] = "listGarbage", AllRegistered
               PROVE  volumes' \subseteq ChainIDs
    BY DEF Next, Finished, AllRegistered
  <2>1. r = p
    BY OthersKept DEF IInv
  <2>2. UnlockStore(p)
    BY <2>1 DEF CheckID, LockCreate, UnlockCreate, BuildLayer, LockLayer, Recheck, ReturnLayer,
      CreateTemporaryVolume, UnpackLayer, WriteVolumeMeta, MoveVolume, MakeImageDir, CreateImage,
      CreateImagePanics, SetOwnership, Register, DestroyExists, DestroyRootfs, RemoveFiles,
      RemoveImageDir, DestroyStat, Deregister, CheckThreshold, LockStore, ListVolumes, ListImages,
      ReadDependencies, KeepPreserved, MarkUnused, ListGarbage, RemoveMeta, DestroyVolume,
      CollectReturns, CallFails, PrepareVolumeFails, UnpackFails, DiskLimitFails,
      DestroyRootfsFails, RemoveImageDirFails, UnusedVolumesFails, MarkUnusedFails,
      DestroyVolumeFails, Crash, Step, Failure, Pull, Clone, Clean, PullFault, CloneFault,
      CleanFault, Proceed, Goto, Error, Fault, Strike, LoggedFault, AfterRootfs, AfterGivingUp,
      AfterDir, AfterClean, OnError, IInv, TypeOK, ProcessTypeOK
  <2>3. unused[p] = {} /\ volumes' = volumes
    BY <2>2 DEF UnlockStore, volumeVars
  <2>4. volumes \ ChainIDs \subseteq unused[p]
    BY DEF LeftoverInv, LeftoverOK
  <2> QED
    BY <2>3, <2>4
<1> QED
  BY <1>1, <1>2, <1>3, Invariant, TempsHold, PTL DEF Spec, LeftoversReclaimed
=============================================================================
