--------------------------- MODULE GrootStepProofs --------------------------
(***************************************************************************)
(* What every step keeps of the parts of the inductive invariant of Groot: *)
(* first the types, the steps a command may be at and the global lock,     *)
(* which need no other part, then the layer locks and the volumes, which   *)
(* buildLayer rests on.                                                    *)
(***************************************************************************)
EXTENDS GrootInvariant, TLAPS

\* A command line names an operation, an image id and a base image the store
\* knows, and the chain ids of that base image are its layers' names.
LEMMA CommandFields ==
    ASSUME ProcessTypeOK, NEW p \in Procs
    PROVE  /\ cmd[p].op \in {"create", "clean", "delete"}
           /\ Id(p) \in ImageIDs
           /\ cmd[p].base \in BaseImages
           /\ Layers[cmd[p].base] \in Seq(ChainIDs)
           /\ Height(p) \in Nat
           /\ \A i \in 1..Height(p) : Layer(p, i) \in ChainIDs
BY CommandsAssumption, LayersAssumption DEF ProcessTypeOK, Height, Layer, Id

\* The stacks of a base image are sets of chain ids.
LEMMA StackType ==
    ASSUME NEW b \in BaseImages
    PROVE  /\ Len(Layers[b]) \in Nat
           /\ \A n \in 0..Len(Layers[b]) : Stack(b, n) \in SUBSET ChainIDs
           /\ ChainSet(b) \in SUBSET ChainIDs
BY LayersAssumption DEF Stack, ChainSet

\* A frame of buildLayer that has a layer to lock or to unpack works on
\* names the volume directory can hold.
LEMMA FrameNames ==
    ASSUME ProcessTypeOK, FrameInv, NEW p \in Procs,
           pc[p] \in LockedSteps \cup {"lockLayer"}
    PROVE  /\ idx[p] \in 1..Height(p)
           /\ Chain(p) \in ChainIDs
           /\ Chain(p) \in VolumeNames
           /\ Temp(p) \in VolumeNames
           /\ idx[p] > 1 => Layer(p, idx[p] - 1) \in VolumeNames
<1>1. idx[p] \in 1..Height(p)
  BY CommandFields DEF ProcessTypeOK, FrameInv
<1>2. Chain(p) \in ChainIDs
  BY <1>1, CommandFields DEF Chain
<1>3. idx[p] > 1 => Layer(p, idx[p] - 1) \in ChainIDs
  BY <1>1, CommandFields
<1> QED
  BY <1>1, <1>2, <1>3 DEF Temp, VolumeNames

\* No step changes what a process was asked to do.
LEMMA CommandKept ==
    ASSUME NEW p \in Procs, Step(p) \/ Failure(p)
    PROVE  cmd' = cmd
BY DEF Step, Failure, Pull, Clone, Clean, PullFault, CloneFault, CleanFault, CheckID, LockCreate,
  UnlockCreate, BuildLayer, LockLayer, Recheck, ReturnLayer, CreateTemporaryVolume, UnpackLayer,
  WriteVolumeMeta, MoveVolume, MakeImageDir, CreateImage, CreateImagePanics, SetOwnership,
  Register, DestroyExists, DestroyRootfs, RemoveFiles, RemoveImageDir, DestroyStat, Deregister,
  CheckThreshold, LockStore, ListVolumes, ListImages, ReadDependencies, KeepPreserved, MarkUnused,
  UnlockStore, ListGarbage, RemoveMeta, DestroyVolume, CollectReturns, CallFails,
  PrepareVolumeFails, UnpackFails, DiskLimitFails, DestroyRootfsFails, RemoveImageDirFails,
  UnusedVolumesFails, MarkUnusedFails, DestroyVolumeFails, Crash

\* So its layers, its image id and the chain ids its clean preserves stay
\* the same.
LEMMA LayersKept ==
    ASSUME cmd' = cmd
    PROVE  \A q \in Procs :
             /\ Height(q)' = Height(q)
             /\ \A i \in Nat : Layer(q, i)' = Layer(q, i)
             /\ Id(q)' = Id(q)
             /\ Preserved(q)' = Preserved(q)
             /\ OwnID(q)' = OwnID(q)
BY DEF Height, Layer, Id, Preserved, OwnID

\* A step of one process leaves the place and the lists of every other as
\* they are: nothing but the store and its locks is shared.
LEMMA OthersKept ==
    ASSUME TypeOK, NEW p \in Procs, Step(p) \/ Failure(p), NEW q \in Procs, q # p
    PROVE  /\ pc'[q] = pc[q] /\ ok'[q] = ok[q] /\ idx'[q] = idx[q]
           /\ unused'[q] = unused[q] /\ unread'[q] = unread[q]
<1>1. pc'[q] = pc[q] /\ ok'[q] = ok[q] /\ idx'[q] = idx[q]
  BY DEF Step, Failure, Pull, Clone, Clean, PullFault, CloneFault, CleanFault, CheckID,
    LockCreate, UnlockCreate, BuildLayer, LockLayer, Recheck, ReturnLayer, CreateTemporaryVolume,
    UnpackLayer, WriteVolumeMeta, MoveVolume, MakeImageDir, CreateImage, CreateImagePanics,
    SetOwnership, Register, DestroyExists, DestroyRootfs, RemoveFiles, RemoveImageDir,
    DestroyStat, Deregister, CheckThreshold, LockStore, ListVolumes, ListImages, ReadDependencies,
    KeepPreserved, MarkUnused, UnlockStore, ListGarbage, RemoveMeta, DestroyVolume,
    CollectReturns, CallFails, PrepareVolumeFails, UnpackFails, DiskLimitFails,
    DestroyRootfsFails, RemoveImageDirFails, UnusedVolumesFails, MarkUnusedFails,
    DestroyVolumeFails, Crash, Proceed, Error, Fault, LoggedFault, Strike, Goto, TypeOK,
    ProcessTypeOK
<1>2. unused'[q] = unused[q] /\ unread'[q] = unread[q]
  BY DEF Step, Failure, Pull, Clone, Clean, PullFault, CloneFault, CleanFault, CheckID,
    LockCreate, UnlockCreate, BuildLayer, LockLayer, Recheck, ReturnLayer, CreateTemporaryVolume,
    UnpackLayer, WriteVolumeMeta, MoveVolume, MakeImageDir, CreateImage, CreateImagePanics,
    SetOwnership, Register, DestroyExists, DestroyRootfs, RemoveFiles, RemoveImageDir,
    DestroyStat, Deregister, CheckThreshold, LockStore, ListVolumes, ListImages, ReadDependencies,
    KeepPreserved, MarkUnused, UnlockStore, ListGarbage, RemoveMeta, DestroyVolume,
    CollectReturns, CallFails, PrepareVolumeFails, UnpackFails, DiskLimitFails,
    DestroyRootfsFails, RemoveImageDirFails, UnusedVolumesFails, MarkUnusedFails,
    DestroyVolumeFails, Crash, gcVars, TypeOK, ProcessTypeOK
<1> QED
  BY <1>1, <1>2

\* Every step of every command leaves directories and lock files of the
\* expected kind.
LEMMA StoreTypeStep ==
    ASSUME TypeOK, FrameInv, NEW p \in Procs, Step(p) \/ Failure(p)
    PROVE  StoreTypeOK'
<1>0. \/ UNCHANGED <<volumeVars, imageVars, lockVars>>
      \/ LockCreate(p) \/ UnlockCreate(p) \/ LockLayer(p) \/ ReturnLayer(p)
      \/ CreateTemporaryVolume(p) \/ PrepareVolumeFails(p) \/ UnpackLayer(p) \/ UnpackFails(p)
      \/ WriteVolumeMeta(p) \/ MoveVolume(p) \/ MakeImageDir(p) \/ CreateImage(p)
      \/ DiskLimitFails(p) \/ CreateImagePanics(p) \/ Register(p) \/ DestroyRootfs(p)
      \/ DestroyRootfsFails(p) \/ RemoveFiles(p) \/ RemoveImageDir(p) \/ RemoveImageDirFails(p)
      \/ Deregister(p) \/ LockStore(p)
      \/ MarkUnused(p) \/ UnlockStore(p) \/ RemoveMeta(p) \/ DestroyVolume(p) \/ Crash(p)
  BY DEF CheckID, BuildLayer, Recheck, SetOwnership, DestroyExists, DestroyStat, CheckThreshold,
    ListVolumes, ListImages, ReadDependencies, KeepPreserved, ListGarbage, CollectReturns,
    CallFails, UnusedVolumesFails, MarkUnusedFails, DestroyVolumeFails, Step,
    Failure, Pull, Clone, Clean, PullFault, CloneFault, CleanFault
<1>1. CASE UNCHANGED <<volumeVars, imageVars, lockVars>>
  BY <1>1 DEF volumeVars, imageVars, lockVars, TypeOK, StoreTypeOK
<1>2. CASE LockCreate(p)
  BY <1>2, CommandFields, FrameNames, NameAssumption DEF LockCreate, Proceed, Goto, Error,
    LockGlobalShared, TypeOK, StoreTypeOK, LockedSteps, volumeVars, imageVars, lockVars, gcVars
<1>3. CASE UnlockCreate(p)
  BY <1>3, CommandFields, FrameNames, NameAssumption DEF UnlockCreate, Proceed, Goto,
    UnlockGlobalShared, TypeOK, StoreTypeOK, LockedSteps, volumeVars, imageVars, lockVars, gcVars
<1>4. CASE LockLayer(p)
  BY <1>4, CommandFields, FrameNames, NameAssumption DEF LockLayer, Proceed, Goto, LockKey,
    TypeOK, StoreTypeOK, LockedSteps, volumeVars, imageVars, lockVars, gcVars
<1>5. CASE ReturnLayer(p)
  BY <1>5, CommandFields, FrameNames, NameAssumption DEF ReturnLayer, Proceed, Goto, TypeOK,
    StoreTypeOK, LockedSteps, volumeVars, imageVars, lockVars, gcVars
<1>6. CASE CreateTemporaryVolume(p)
  BY <1>6, CommandFields, FrameNames, NameAssumption DEF CreateTemporaryVolume, Proceed, Goto,
    Error, ParentExists, TypeOK, StoreTypeOK, LockedSteps, volumeVars, imageVars, lockVars, gcVars
<1>7. CASE PrepareVolumeFails(p)
  BY <1>7, CommandFields, FrameNames, NameAssumption DEF PrepareVolumeFails, Fault, Strike, Goto,
    ParentExists, TypeOK, StoreTypeOK, LockedSteps, volumeVars, imageVars, lockVars, gcVars
<1>8. CASE UnpackLayer(p)
  BY <1>8, CommandFields, FrameNames, NameAssumption DEF UnpackLayer, Proceed, Goto, Error,
    TypeOK, StoreTypeOK, LockedSteps, volumeVars, imageVars, lockVars, gcVars
<1>9. CASE UnpackFails(p)
  BY <1>9, CommandFields, FrameNames, NameAssumption DEF UnpackFails, Fault, Strike, Goto, TypeOK,
    StoreTypeOK, LockedSteps, volumeVars, imageVars, lockVars, gcVars
<1>10. CASE WriteVolumeMeta(p)
  BY <1>10, CommandFields, FrameNames, NameAssumption DEF WriteVolumeMeta, Proceed, Goto, TypeOK,
    StoreTypeOK, LockedSteps, volumeVars, imageVars, lockVars, gcVars
<1>11. CASE MoveVolume(p)
  BY <1>11, CommandFields, FrameNames, NameAssumption DEF MoveVolume, Proceed, Goto, Error,
    TypeOK, StoreTypeOK, LockedSteps, volumeVars, imageVars, lockVars, gcVars
<1>12. CASE MakeImageDir(p)
  BY <1>12, CommandFields, FrameNames, NameAssumption DEF MakeImageDir, Proceed, Goto, Error, Id,
    TypeOK, StoreTypeOK, LockedSteps, volumeVars, imageVars, lockVars, gcVars
<1>13. CASE CreateImage(p)
  BY <1>13, CommandFields, FrameNames, NameAssumption DEF CreateImage, Proceed, Goto, Error,
    SnapshotTaken, Id, TypeOK, StoreTypeOK, LockedSteps, volumeVars, imageVars, lockVars, gcVars
<1>14. CASE DiskLimitFails(p)
  BY <1>14, CommandFields, FrameNames, NameAssumption DEF DiskLimitFails, Fault, Strike, Goto,
    SnapshotTaken, Id, TypeOK, StoreTypeOK, LockedSteps, volumeVars, imageVars, lockVars, gcVars
<1>15. CASE CreateImagePanics(p)
  BY <1>15, CommandFields, FrameNames, NameAssumption DEF CreateImagePanics, Goto, DropLocks,
    TypeOK, StoreTypeOK, LockedSteps, volumeVars, imageVars, lockVars, gcVars
<1>16. CASE Register(p)
  BY <1>16, CommandFields, StackType DEF Register, Proceed, Goto, Id, TypeOK, StoreTypeOK,
    volumeVars, lockVars
<1>17. CASE DestroyRootfs(p)
  BY <1>17 DEF DestroyRootfs, Destroy, RootfsWithout, TypeOK, StoreTypeOK, volumeVars, lockVars
<1>18. CASE RemoveImageDir(p)
  BY <1>18 DEF RemoveImageDir, Destroy, RootfsWithout, TypeOK, StoreTypeOK,
    volumeVars, lockVars
<1>19. CASE RemoveImageDirFails(p)
  BY <1>19 DEF RemoveImageDirFails, Destroy, RootfsWithout, TypeOK, StoreTypeOK, volumeVars,
    lockVars
<1>28. CASE RemoveFiles(p)
  BY <1>28, CommandFields DEF RemoveFiles, TypeOK, StoreTypeOK, volumeVars, lockVars
<1>27. CASE DestroyRootfsFails(p)
  BY <1>27 DEF DestroyRootfsFails, Destroy, RootfsWithout, TypeOK, StoreTypeOK, volumeVars,
    lockVars
<1>20. CASE Deregister(p)
  BY <1>20, CommandFields, FrameNames, NameAssumption DEF Deregister, Proceed, Goto, Id, TypeOK,
    StoreTypeOK, LockedSteps, volumeVars, imageVars, lockVars, gcVars
<1>21. CASE LockStore(p)
  BY <1>21, CommandFields, FrameNames, NameAssumption DEF LockStore, Proceed, Goto,
    LockGlobalExclusive, TypeOK, StoreTypeOK, LockedSteps, volumeVars, imageVars, lockVars, gcVars
<1>22. CASE MarkUnused(p)
  BY <1>22, CommandFields, FrameNames, NameAssumption DEF MarkUnused, Proceed, Goto, TypeOK,
    StoreTypeOK, LockedSteps, volumeVars, imageVars, lockVars, gcVars
<1>23. CASE UnlockStore(p)
  BY <1>23, CommandFields, FrameNames, NameAssumption DEF UnlockStore, Proceed, Goto,
    UnlockGlobalExclusive, TypeOK, StoreTypeOK, LockedSteps, volumeVars, imageVars, lockVars,
    gcVars
<1>24. CASE RemoveMeta(p)
  BY <1>24, CommandFields, FrameNames, NameAssumption DEF RemoveMeta, Proceed, Goto, TypeOK,
    StoreTypeOK, LockedSteps, volumeVars, imageVars, lockVars, gcVars
<1>25. CASE DestroyVolume(p)
  BY <1>25, CommandFields, FrameNames, NameAssumption DEF DestroyVolume, Proceed, Goto, Error,
    TypeOK, StoreTypeOK, LockedSteps, volumeVars, imageVars, lockVars, gcVars
<1>26. CASE Crash(p)
  BY <1>26, CommandFields, FrameNames, NameAssumption DEF Crash, Goto, DropLocks, Ended, TypeOK,
    StoreTypeOK, LockedSteps, volumeVars, imageVars, lockVars, gcVars
<1> QED
  BY <1>0, <1>1, <1>2, <1>3, <1>4, <1>5, <1>6, <1>7, <1>8, <1>9, <1>10, <1>11, <1>12, <1>13,
    <1>14, <1>15, <1>16, <1>17, <1>18, <1>19, <1>20, <1>21, <1>22, <1>23, <1>24, <1>25, <1>26,
    <1>27, <1>28

\* Every step leaves a process at a step, and buildLayer inside its base
\* image.
LEMMA ProcessTypeStep ==
    ASSUME TypeOK, FrameInv, NEW p \in Procs, Step(p) \/ Failure(p)
    PROVE  ProcessTypeOK'
<1>1. cmd' = cmd /\ \A q \in Procs : Height(q)' = Height(q)
  BY CommandKept, LayersKept
<1>2. pc' \in [Procs -> Steps]
  BY DEF Step, Failure, Pull, Clone, Clean, PullFault, CloneFault, CleanFault, CheckID,
    LockCreate, UnlockCreate, BuildLayer, LockLayer, Recheck, ReturnLayer, CreateTemporaryVolume,
    UnpackLayer, WriteVolumeMeta, MoveVolume, MakeImageDir, CreateImage, CreateImagePanics,
    SetOwnership, Register, DestroyExists, DestroyRootfs, RemoveFiles, RemoveImageDir,
    DestroyStat, Deregister, CheckThreshold, LockStore, ListVolumes, ListImages, ReadDependencies,
    KeepPreserved, MarkUnused, UnlockStore, ListGarbage, RemoveMeta, DestroyVolume,
    CollectReturns, CallFails, PrepareVolumeFails, UnpackFails, DiskLimitFails,
    DestroyRootfsFails, RemoveImageDirFails, UnusedVolumesFails, MarkUnusedFails,
    DestroyVolumeFails, Crash, Proceed, Error, Fault, LoggedFault, Strike, Goto, AfterClean,
    AfterDir, AfterRootfs, AfterGivingUp, OnError, TypeOK, ProcessTypeOK, Steps, SharedSteps,
    PullSteps, CloneSteps, ExclusiveSteps
<1>3. ok' \in [Procs -> BOOLEAN]
  BY DEF Step, Failure, Pull, Clone, Clean, PullFault, CloneFault, CleanFault, CheckID,
    LockCreate, UnlockCreate, BuildLayer, LockLayer, Recheck, ReturnLayer, CreateTemporaryVolume,
    UnpackLayer, WriteVolumeMeta, MoveVolume, MakeImageDir, CreateImage, CreateImagePanics,
    SetOwnership, Register, DestroyExists, DestroyRootfs, RemoveFiles, RemoveImageDir,
    DestroyStat, Deregister, CheckThreshold, LockStore, ListVolumes, ListImages, ReadDependencies,
    KeepPreserved, MarkUnused, UnlockStore, ListGarbage, RemoveMeta, DestroyVolume,
    CollectReturns, CallFails, PrepareVolumeFails, UnpackFails, DiskLimitFails,
    DestroyRootfsFails, RemoveImageDirFails, UnusedVolumesFails, MarkUnusedFails,
    DestroyVolumeFails, Crash, Proceed, Error, Fault, LoggedFault, Strike, Goto, TypeOK,
    ProcessTypeOK
<1>4. faults' \in 0..MaxFaults
  BY FaultAssumption DEF Step, Failure, Pull, Clone, Clean, PullFault, CloneFault, CleanFault,
    CheckID, LockCreate, UnlockCreate, BuildLayer, LockLayer, Recheck, ReturnLayer,
    CreateTemporaryVolume, UnpackLayer, WriteVolumeMeta, MoveVolume, MakeImageDir, CreateImage,
    CreateImagePanics, SetOwnership, Register, DestroyExists, DestroyRootfs, RemoveFiles,
    RemoveImageDir, DestroyStat, Deregister, CheckThreshold, LockStore, ListVolumes, ListImages,
    ReadDependencies, KeepPreserved, MarkUnused, UnlockStore, ListGarbage, RemoveMeta,
    DestroyVolume, CollectReturns, CallFails, PrepareVolumeFails, UnpackFails, DiskLimitFails,
    DestroyRootfsFails, RemoveImageDirFails, UnusedVolumesFails, MarkUnusedFails,
    DestroyVolumeFails, Crash, Proceed, Error, Fault, LoggedFault, Strike, Goto, TypeOK,
    ProcessTypeOK
<1>5. /\ unused' \in [Procs -> SUBSET VolumeNames]
      /\ unread' \in [Procs -> SUBSET ImageIDs]
      /\ garbage' \in [Procs -> SUBSET VolumeNames]
      /\ victim' \in [Procs -> VolumeNames \cup {None}]
  BY DEF Step, Failure, Pull, Clone, Clean, PullFault, CloneFault, CleanFault, CheckID,
    LockCreate, UnlockCreate, BuildLayer, LockLayer, Recheck, ReturnLayer, CreateTemporaryVolume,
    UnpackLayer, WriteVolumeMeta, MoveVolume, MakeImageDir, CreateImage, CreateImagePanics,
    SetOwnership, Register, DestroyExists, DestroyRootfs, RemoveFiles, RemoveImageDir,
    DestroyStat, Deregister, CheckThreshold, LockStore, ListVolumes, ListImages, ReadDependencies,
    KeepPreserved, MarkUnused, UnlockStore, ListGarbage, RemoveMeta, DestroyVolume,
    CollectReturns, CallFails, PrepareVolumeFails, UnpackFails, DiskLimitFails,
    DestroyRootfsFails, RemoveImageDirFails, UnusedVolumesFails, MarkUnusedFails,
    DestroyVolumeFails, Crash, gcVars, RemoveDependencyFromOrphanList, Preserved, TypeOK,
    StoreTypeOK, ProcessTypeOK
<1>6. idx' \in [Procs -> Nat] /\ idx'[p] <= Height(p)
  <2>1. \/ idx' = idx \/ LockCreate(p) \/ Recheck(p) \/ ReturnLayer(p)
    BY DEF CheckID, UnlockCreate, BuildLayer, LockLayer, CreateTemporaryVolume, UnpackLayer,
      WriteVolumeMeta, MoveVolume, MakeImageDir, CreateImage, CreateImagePanics, SetOwnership,
      Register, DestroyExists, DestroyRootfs, RemoveFiles, RemoveImageDir, DestroyStat,
      Deregister, CheckThreshold, LockStore, ListVolumes, ListImages, ReadDependencies,
      KeepPreserved, MarkUnused, UnlockStore, ListGarbage, RemoveMeta, DestroyVolume,
      CollectReturns, CallFails, PrepareVolumeFails, UnpackFails, DiskLimitFails,
      DestroyRootfsFails, RemoveImageDirFails, UnusedVolumesFails, MarkUnusedFails,
      DestroyVolumeFails, Crash, Step, Failure, Pull, Clone, Clean, PullFault, CloneFault,
      CleanFault
  <2>2. Height(p) \in Nat /\ idx \in [Procs -> Nat] /\ idx[p] <= Height(p)
    BY CommandFields DEF TypeOK, ProcessTypeOK
  <2>3. CASE LockCreate(p)
    BY <2>2, <2>3 DEF LockCreate
  <2>4. CASE Recheck(p)
    <3>1. idx' = idx \/ (idx' = [idx EXCEPT ![p] = @ - 1] /\ idx[p] > 0)
      BY <2>4, FrameNames DEF Recheck, LockedSteps, TypeOK
    <3> QED
      BY <2>2, <3>1
  <2>5. CASE ReturnLayer(p)
    <3>1. idx' = idx \/ (idx' = [idx EXCEPT ![p] = @ + 1] /\ idx[p] # Height(p))
      BY <2>5 DEF ReturnLayer
    <3> QED
      BY <2>2, <3>1
  <2> QED
    BY <2>1, <2>2, <2>3, <2>4, <2>5
<1>7. \A q \in Procs : idx'[q] <= Height(q)'
  BY <1>1, <1>6, OthersKept DEF TypeOK, ProcessTypeOK
<1> QED
  BY <1>1, <1>2, <1>3, <1>4, <1>5, <1>6, <1>7 DEF TypeOK, ProcessTypeOK

\* buildLayer locks and unpacks only where there is a layer: it returns at
\* idx 0 before it locks.
LEMMA FrameStep ==
    ASSUME TypeOK, FrameInv, NEW p \in Procs, Step(p) \/ Failure(p)
    PROVE  FrameInv'
<1>0. \/ pc'[p] \notin LockedSteps \cup {"lockLayer"}
      \/ BuildLayer(p) \/ LockLayer(p) \/ ReturnLayer(p) \/ CreateTemporaryVolume(p)
      \/ UnpackLayer(p) \/ WriteVolumeMeta(p)
  BY DEF CheckID, LockCreate, UnlockCreate, Recheck, MoveVolume, MakeImageDir, CreateImage,
    CreateImagePanics, SetOwnership, Register, DestroyExists, DestroyRootfs, RemoveFiles,
    RemoveImageDir, DestroyStat, Deregister, CheckThreshold, LockStore, ListVolumes, ListImages,
    ReadDependencies, KeepPreserved, MarkUnused, UnlockStore, ListGarbage, RemoveMeta,
    DestroyVolume, CollectReturns, CallFails, PrepareVolumeFails, UnpackFails, DiskLimitFails,
    DestroyRootfsFails, RemoveImageDirFails, UnusedVolumesFails, MarkUnusedFails,
    DestroyVolumeFails, Crash, Proceed, Goto, Error, Fault, Strike, LoggedFault, Id,
    LockGlobalShared, UnlockGlobalShared, SnapshotTaken, DropLocks, AfterRootfs, AfterGivingUp,
    AfterDir, AfterClean, LockGlobalExclusive, Preserved, UnlockGlobalExclusive, OnError,
    ParentExists, Ended, TypeOK, ProcessTypeOK, LockedSteps, Step, Failure, Pull, Clone, Clean,
    PullFault, CloneFault, CleanFault
<1>1. CASE pc'[p] \notin LockedSteps \cup {"lockLayer"}
  BY <1>1, OthersKept DEF FrameInv
<1>2. CASE BuildLayer(p)
  BY <1>2, OthersKept DEF BuildLayer, Proceed, Goto, FrameInv, LockedSteps, TypeOK, ProcessTypeOK,
    volumeVars, imageVars, lockVars, gcVars
<1>3. CASE LockLayer(p)
  BY <1>3, OthersKept DEF LockLayer, Proceed, Goto, LockKey, FrameInv, LockedSteps, TypeOK,
    ProcessTypeOK, volumeVars, imageVars, lockVars, gcVars
<1>4. CASE ReturnLayer(p)
  BY <1>4, OthersKept DEF ReturnLayer, Proceed, Goto, FrameInv, LockedSteps, TypeOK,
    ProcessTypeOK, volumeVars, imageVars, lockVars, gcVars
<1>5. CASE CreateTemporaryVolume(p)
  BY <1>5, OthersKept DEF CreateTemporaryVolume, Proceed, Goto, Error, ParentExists, FrameInv,
    LockedSteps, TypeOK, ProcessTypeOK, volumeVars, imageVars, lockVars, gcVars
<1>6. CASE UnpackLayer(p)
  BY <1>6, OthersKept DEF UnpackLayer, Proceed, Goto, Error, FrameInv, LockedSteps, TypeOK,
    ProcessTypeOK, volumeVars, imageVars, lockVars, gcVars
<1>7. CASE WriteVolumeMeta(p)
  BY <1>7, OthersKept DEF WriteVolumeMeta, Proceed, Goto, FrameInv, LockedSteps, TypeOK,
    ProcessTypeOK, volumeVars, imageVars, lockVars, gcVars
<1> QED
  BY <1>0, <1>1, <1>2, <1>3, <1>4, <1>5, <1>6, <1>7

\* A command takes only its own steps, and a create that cleans up after
\* itself has an error to return.
LEMMA CommandStep ==
    ASSUME TypeOK, CommandInv, NEW p \in Procs, Step(p) \/ Failure(p)
    PROVE  CommandInv'
<1>1. cmd' = cmd
  BY CommandKept
<1>2. /\ pc'[p] \in SharedSteps \cup {"exists", "lockShared"} => cmd[p].op = "create"
      /\ pc'[p] \in DeleteSteps => cmd[p].op = "delete"
      /\ pc'[p] \in ExclusiveSteps \cup {"threshold", "lockExclusive", "listGarbage",
                                         "collect", "destroy"} => cmd[p].op # "delete"
  BY CommandFields DEF Step, Failure, Pull, Clone, Clean, PullFault, CloneFault, CleanFault,
    CheckID, LockCreate, UnlockCreate, BuildLayer, LockLayer, Recheck, ReturnLayer,
    CreateTemporaryVolume, UnpackLayer, WriteVolumeMeta, MoveVolume, MakeImageDir, CreateImage,
    CreateImagePanics, SetOwnership, Register, DestroyExists, DestroyRootfs, RemoveFiles,
    RemoveImageDir, DestroyStat, Deregister, CheckThreshold, LockStore, ListVolumes, ListImages,
    ReadDependencies, KeepPreserved, MarkUnused, UnlockStore, ListGarbage, RemoveMeta,
    DestroyVolume, CollectReturns, CallFails, PrepareVolumeFails, UnpackFails, DiskLimitFails,
    DestroyRootfsFails, RemoveImageDirFails, UnusedVolumesFails, MarkUnusedFails,
    DestroyVolumeFails, Crash, Proceed, Error, Fault, LoggedFault, Strike, Goto, AfterClean,
    AfterDir, AfterRootfs, AfterGivingUp, OnError, CommandInv, DeleteSteps, TypeOK, ProcessTypeOK,
    SharedSteps, PullSteps, CloneSteps, ExclusiveSteps
<1>3. pc'[p] \in {"failRootfs", "failDir", "failAgain", "undoExists", "undoRootfs", "undoDir"} =>
        ~ok'[p]
  BY DEF Step, Failure, Pull, Clone, Clean, PullFault, CloneFault, CleanFault, CheckID,
    LockCreate, UnlockCreate, BuildLayer, LockLayer, Recheck, ReturnLayer, CreateTemporaryVolume,
    UnpackLayer, WriteVolumeMeta, MoveVolume, MakeImageDir, CreateImage, CreateImagePanics,
    SetOwnership, Register, DestroyExists, DestroyRootfs, RemoveFiles, RemoveImageDir,
    DestroyStat, Deregister, CheckThreshold, LockStore, ListVolumes, ListImages, ReadDependencies,
    KeepPreserved, MarkUnused, UnlockStore, ListGarbage, RemoveMeta, DestroyVolume,
    CollectReturns, CallFails, PrepareVolumeFails, UnpackFails, DiskLimitFails,
    DestroyRootfsFails, RemoveImageDirFails, UnusedVolumesFails, MarkUnusedFails,
    DestroyVolumeFails, Crash, Proceed, Error, Fault, LoggedFault, Strike, Goto, AfterClean,
    AfterDir, AfterRootfs, AfterGivingUp, OnError, CommandInv, TypeOK, ProcessTypeOK
<1> QED
  BY <1>1, <1>2, <1>3, OthersKept DEF CommandInv

\* The global lock of store/locksmith is taken and given back exactly where
\* SharedSteps and ExclusiveSteps begin and end, on error paths and when the
\* holder dies too.
LEMMA GlobalLockStep ==
    ASSUME TypeOK, GlobalLockInv, NEW p \in Procs, Step(p) \/ Failure(p)
    PROVE  GlobalLockInv'
<1>0. \/ /\ UNCHANGED <<shared, exclusive>>
         /\ pc'[p] \in SharedSteps <=> pc[p] \in SharedSteps
         /\ pc'[p] \in ExclusiveSteps <=> pc[p] \in ExclusiveSteps
      \/ LockCreate(p) \/ UnlockCreate(p) \/ CreateImagePanics(p) \/ LockStore(p)
      \/ UnlockStore(p) \/ Crash(p)
  BY DEF CheckID, BuildLayer, LockLayer, Recheck, ReturnLayer, CreateTemporaryVolume, UnpackLayer,
    WriteVolumeMeta, MoveVolume, MakeImageDir, CreateImage, SetOwnership, Register, DestroyExists,
    DestroyRootfs, RemoveFiles, RemoveImageDir, DestroyStat, Deregister, CheckThreshold,
    ListVolumes, ListImages, ReadDependencies, KeepPreserved, MarkUnused, ListGarbage, RemoveMeta,
    DestroyVolume, CollectReturns, CallFails, PrepareVolumeFails, UnpackFails, DiskLimitFails,
    DestroyRootfsFails, RemoveImageDirFails, UnusedVolumesFails, MarkUnusedFails,
    DestroyVolumeFails, Proceed, Goto, Error, Fault, Strike, LoggedFault, Id, LockKey,
    ParentExists, SnapshotTaken, AfterRootfs, AfterGivingUp, AfterDir, AfterClean, Preserved,
    OnError, lockVars, TypeOK, ProcessTypeOK, SharedSteps, PullSteps, CloneSteps, ExclusiveSteps,
    Step, Failure, Pull, Clone, Clean, PullFault, CloneFault, CleanFault
<1>1. CASE /\ UNCHANGED <<shared, exclusive>>
           /\ pc'[p] \in SharedSteps <=> pc[p] \in SharedSteps
           /\ pc'[p] \in ExclusiveSteps <=> pc[p] \in ExclusiveSteps
  BY <1>1, OthersKept DEF GlobalLockInv
<1>2. CASE LockCreate(p)
  BY <1>2, OthersKept, NameAssumption DEF LockCreate, Proceed, Goto, Error, LockGlobalShared,
    GlobalLockInv, TypeOK, StoreTypeOK, ProcessTypeOK, SharedSteps, PullSteps, CloneSteps,
    ExclusiveSteps, volumeVars, imageVars, lockVars, gcVars
<1>3. CASE UnlockCreate(p)
  BY <1>3, OthersKept, NameAssumption DEF UnlockCreate, Proceed, Goto, UnlockGlobalShared,
    GlobalLockInv, TypeOK, StoreTypeOK, ProcessTypeOK, SharedSteps, PullSteps, CloneSteps,
    ExclusiveSteps, volumeVars, imageVars, lockVars, gcVars
<1>4. CASE CreateImagePanics(p)
  BY <1>4, OthersKept, NameAssumption DEF CreateImagePanics, Goto, DropLocks, GlobalLockInv,
    TypeOK, StoreTypeOK, ProcessTypeOK, SharedSteps, PullSteps, CloneSteps, ExclusiveSteps,
    volumeVars, imageVars, lockVars, gcVars
<1>5. CASE LockStore(p)
  BY <1>5, OthersKept, NameAssumption DEF LockStore, Proceed, Goto, LockGlobalExclusive,
    GlobalLockInv, TypeOK, StoreTypeOK, ProcessTypeOK, SharedSteps, PullSteps, CloneSteps,
    ExclusiveSteps, volumeVars, imageVars, lockVars, gcVars
<1>6. CASE UnlockStore(p)
  BY <1>6, OthersKept, NameAssumption DEF UnlockStore, Proceed, Goto, UnlockGlobalExclusive,
    GlobalLockInv, TypeOK, StoreTypeOK, ProcessTypeOK, SharedSteps, PullSteps, CloneSteps,
    ExclusiveSteps, volumeVars, imageVars, lockVars, gcVars
<1>7. CASE Crash(p)
  BY <1>7, OthersKept, NameAssumption DEF Crash, Goto, DropLocks, Ended, GlobalLockInv, TypeOK,
    StoreTypeOK, ProcessTypeOK, SharedSteps, PullSteps, CloneSteps, ExclusiveSteps, volumeVars,
    imageVars, lockVars, gcVars
<1> QED
  BY <1>0, <1>1, <1>2, <1>3, <1>4, <1>5, <1>6, <1>7

-----------------------------------------------------------------------------

\* Equal chain ids of two base images are at equal height and stand for the
\* same stack, chain ids being digests of what is below them.
LEMMA ChainUnique ==
    ASSUME ProcessTypeOK, NEW p \in Procs, NEW q \in Procs,
           NEW i \in 1..Height(p), NEW j \in 1..Height(q), Layer(p, i) = Layer(q, j)
    PROVE  i = j /\ Stack(cmd[p].base, i) = Stack(cmd[q].base, j)
<1> DEFINE a == cmd[p].base
           b == cmd[q].base
<1>1. a \in BaseImages /\ b \in BaseImages
  BY CommandFields
<1>2. i \in 1..Len(Layers[a]) /\ j \in 1..Len(Layers[b]) /\ Layers[a][i] = Layers[b][j]
  BY DEF Height, Layer
<1>3. i = j /\ \A k \in 1..i : Layers[a][k] = Layers[b][k]
  BY <1>1, <1>2, ChainAssumption
<1> QED
  BY <1>3 DEF Stack

\* A step of p keeps the frames of q if it touches no lock of q's and brings
\* a volume into being only where p holds the layer's lock.
LEMMA FramesOthers ==
    ASSUME TypeOK, FrameInv, LayerLockInv, cmd' = cmd,
           NEW p \in Procs, NEW q \in Procs, q # p,
           pc'[q] = pc[q], idx'[q] = idx[q],
           \A c \in ChainIDs : \/ layerLock'[c] = layerLock[c]
                               \/ layerLock[c] \in {p, None} /\ layerLock'[c] \in {p, None},
           \A c \in ChainIDs : c \in volumes' => c \in volumes \/ layerLock[c] = p
    PROVE  FramesOK(q)'
<1>1. FramesOK(q)
  BY DEF LayerLockInv
<1>2. /\ Height(q)' = Height(q)
      /\ \A j \in Nat : Layer(q, j)' = Layer(q, j)
      /\ Chain(q)' = Chain(q)
  BY DEF Height, Layer, Chain
<1>3. \A c \in ChainIDs : layerLock'[c] = q <=> layerLock[c] = q
  BY NameAssumption
<1>4. \A c \in ChainIDs : layerLock[c] = q /\ c \notin volumes => c \notin volumes'
  OBVIOUS
<1>5. \A j \in 1..Height(q) : Layer(q, j) \in ChainIDs
  BY CommandFields DEF TypeOK
<1>6. pc[q] \in LockedSteps => Chain(q) \in ChainIDs
  BY FrameNames DEF TypeOK
<1>7. Height(q) \in Nat
  BY CommandFields DEF TypeOK
<1> QED
  BY <1>1, <1>2, <1>3, <1>4, <1>5, <1>6, <1>7 DEF FramesOK

\* A process outside buildLayer has no frames and holds no layer lock.
LEMMA FramesOutside ==
    ASSUME LayerLockInv, NEW p \in Procs, pc[p] \notin PullSteps, pc'[p] \notin PullSteps,
           layerLock' = layerLock
    PROVE  FramesOK(p)'
BY DEF LayerLockInv, FramesOK, PullSteps, LockedSteps

\* What no step outside buildLayer does: touch a layer lock or the content of
\* a volume, or bring one into being.  Only MarkUnused takes volumes away.
LEMMA OutsidePull ==
    ASSUME TypeOK, NEW p \in Procs,
           \/ CheckID(p) \/ UnlockCreate(p) \/ (Clone(p) /\ ~CreateImagePanics(p))
           \/ Clean(p) \/ CloneFault(p) \/ CleanFault(p)
    PROVE  /\ pc[p] \notin PullSteps /\ pc'[p] \notin PullSteps
           /\ UNCHANGED <<layerLock, idx, content>>
           /\ volumes' \subseteq volumes
           /\ volumes' = volumes \/ (pc[p] = "mark" /\ pc'[p] = "mark")
           /\ pc'[p] # "mkdir"
           /\ pc'[p] \in {"createImage", "ownership", "register"} =>
                pc[p] \in {"mkdir", "createImage", "ownership"}
<1>1. /\ pc[p] \notin PullSteps /\ pc'[p] \notin PullSteps /\ pc'[p] # "mkdir"
      /\ pc'[p] \in {"createImage", "ownership", "register"} =>
           pc[p] \in {"mkdir", "createImage", "ownership"}
  BY DEF Clone, Clean, CloneFault, CleanFault, CheckID, UnlockCreate, MakeImageDir, CreateImage,
    SetOwnership, Register, DestroyExists, DestroyRootfs, RemoveFiles, RemoveImageDir,
    DestroyStat, Deregister, CheckThreshold, LockStore, ListVolumes, ListImages, ReadDependencies,
    KeepPreserved, MarkUnused, UnlockStore, ListGarbage, RemoveMeta, DestroyVolume,
    CollectReturns, DiskLimitFails, DestroyRootfsFails, RemoveImageDirFails, UnusedVolumesFails,
    MarkUnusedFails, DestroyVolumeFails, Proceed, Error, Fault, LoggedFault, Strike, Goto,
    AfterClean, AfterDir, AfterRootfs, AfterGivingUp, TypeOK, ProcessTypeOK, PullSteps
<1>2. UNCHANGED <<layerLock, idx, content>>
  BY DEF Clone, Clean, CloneFault, CleanFault, CheckID, UnlockCreate, MakeImageDir, CreateImage,
    SetOwnership, Register, DestroyExists, DestroyRootfs, RemoveFiles, RemoveImageDir,
    DestroyStat, Deregister, CheckThreshold, LockStore, ListVolumes, ListImages, ReadDependencies,
    KeepPreserved, MarkUnused, UnlockStore, ListGarbage, RemoveMeta, DestroyVolume,
    CollectReturns, DiskLimitFails, DestroyRootfsFails, RemoveImageDirFails, UnusedVolumesFails,
    MarkUnusedFails, DestroyVolumeFails, UnlockGlobalShared, LockGlobalExclusive,
    UnlockGlobalExclusive, lockVars, volumeVars
<1>3. \/ volumes' = volumes
      \/ volumes' \subseteq volumes /\ pc[p] = "mark" /\ pc'[p] = "mark"
  BY DEF Clone, Clean, CloneFault, CleanFault, CheckID, UnlockCreate, MakeImageDir, CreateImage,
    SetOwnership, Register, DestroyExists, DestroyRootfs, RemoveFiles, RemoveImageDir,
    DestroyStat, Deregister, CheckThreshold, LockStore, ListVolumes, ListImages, ReadDependencies,
    KeepPreserved, MarkUnused, UnlockStore, ListGarbage, RemoveMeta, DestroyVolume,
    CollectReturns, DiskLimitFails, DestroyRootfsFails, RemoveImageDirFails, UnusedVolumesFails,
    MarkUnusedFails, DestroyVolumeFails, Proceed, Goto, volumeVars, TypeOK, ProcessTypeOK
<1> QED
  BY <1>1, <1>2, <1>3

\* The recursion of buildLayer keeps its layer locks: every frame above the
\* current one holds its lock, sees its volume missing, and gives the lock
\* back when it returns, with an error or without.
LEMMA LayerLockStep ==
    ASSUME TypeOK, FrameInv, LayerLockInv, NEW p \in Procs, Step(p) \/ Failure(p)
    PROVE  LayerLockInv'
<1>0. cmd' = cmd /\ FramesOK(p)
  BY CommandKept DEF LayerLockInv
<1>a. /\ Height(p)' = Height(p) /\ Height(p) \in Nat
      /\ \A j \in Nat : Layer(p, j)' = Layer(p, j)
      /\ \A j \in 1..Height(p) : Layer(p, j) \in ChainIDs
      /\ Chain(p) = Layer(p, idx[p])
      /\ Chain(p)' = Layer(p, idx'[p])
      /\ idx[p] \in 0..Height(p)
  BY <1>0, CommandFields DEF Height, Layer, Chain, TypeOK, ProcessTypeOK
<1>o. CASE \/ CheckID(p) \/ UnlockCreate(p) \/ (Clone(p) /\ ~CreateImagePanics(p))
           \/ Clean(p) \/ CloneFault(p) \/ CleanFault(p)
  <2>1. /\ pc[p] \notin PullSteps /\ pc'[p] \notin PullSteps
        /\ \A q \in Procs \ {p} : pc'[q] = pc[q]
        /\ UNCHANGED <<layerLock, idx>>
        /\ volumes' \subseteq volumes
    BY <1>o, OutsidePull, OthersKept
  <2>2. FramesOK(p)'
    BY <2>1, FramesOutside
  <2>3. \A q \in Procs : q # p => FramesOK(q)'
    BY <1>0, <2>1, FramesOthers
  <2> QED
    BY <2>2, <2>3 DEF LayerLockInv
<1>1. CASE LockCreate(p)
  <2>1. FramesOK(p)'
    BY <1>0, <1>1, FrameNames, CommandFields, NameAssumption DEF LockCreate, LockGlobalShared,
      Proceed, Error, Goto, FramesOK, LockedSteps, PullSteps, Chain, Layer, Height, Temp, TypeOK,
      StoreTypeOK, ProcessTypeOK, volumeVars, lockVars
  <2>2. \A q \in Procs : q # p => FramesOK(q)'
    BY <1>0, <1>1, FramesOthers, FrameNames, NameAssumption DEF LockCreate, LockGlobalShared,
      Proceed, Error, Goto, Temp, TypeOK, StoreTypeOK, ProcessTypeOK, LockedSteps, FramesOK,
      volumeVars, lockVars
  <2> QED
    BY <2>1, <2>2 DEF LayerLockInv
<1>2. CASE BuildLayer(p)
  <2>1. FramesOK(p)'
    BY <1>0, <1>2, FrameNames, CommandFields, NameAssumption DEF BuildLayer, Proceed, Goto,
      FramesOK, LockedSteps, PullSteps, Chain, Layer, Height, Temp, TypeOK, StoreTypeOK,
      ProcessTypeOK, volumeVars, lockVars
  <2>2. \A q \in Procs : q # p => FramesOK(q)'
    BY <1>0, <1>2, FramesOthers, FrameNames, NameAssumption DEF BuildLayer, Proceed, Goto, Temp,
      TypeOK, StoreTypeOK, ProcessTypeOK, LockedSteps, FramesOK, volumeVars, lockVars
  <2> QED
    BY <2>1, <2>2 DEF LayerLockInv
<1>3. CASE LockLayer(p)
  <2>1. /\ pc[p] = "lockLayer" /\ pc'[p] = "recheck" /\ UNCHANGED <<idx, volumes>>
        /\ \A q \in Procs \ {p} : pc'[q] = pc[q]
        /\ layerLock' = [layerLock EXCEPT ![Chain(p)] = p] /\ layerLock[Chain(p)] = None
    BY <1>3 DEF LockLayer, LockKey, Proceed, Goto, volumeVars, TypeOK, ProcessTypeOK
  <2>2. Chain(p) \in ChainIDs /\ idx[p] \in 1..Height(p)
    BY <2>1, FrameNames DEF TypeOK
  <2>3. \A c \in ChainIDs : layerLock'[c] = IF c = Chain(p) THEN p ELSE layerLock[c]
    BY <2>1, <2>2 DEF TypeOK, StoreTypeOK
  <2>4. FramesOK(p)'
    BY <1>0, <1>a, <2>1, <2>2, <2>3 DEF FramesOK, LockedSteps, PullSteps
  <2>5. \A q \in Procs : q # p => FramesOK(q)'
    BY <1>0, <2>1, <2>3, FramesOthers
  <2> QED
    BY <2>4, <2>5 DEF LayerLockInv
<1>4. CASE Recheck(p)
  <2>1. /\ pc[p] = "recheck" /\ UNCHANGED <<layerLock, volumes>>
        /\ \A q \in Procs \ {p} : pc'[q] = pc[q] /\ idx'[q] = idx[q]
        /\ \/ Chain(p) \in volumes /\ pc'[p] = "return" /\ idx' = idx
           \/ Chain(p) \notin volumes /\ pc'[p] = "buildLayer" /\ idx'[p] = idx[p] - 1
    BY <1>4 DEF Recheck, Proceed, Goto, volumeVars, lockVars, TypeOK, ProcessTypeOK
  <2>2. idx[p] \in 1..Height(p) /\ layerLock[Chain(p)] = p
    BY <1>0, <2>1, FrameNames DEF TypeOK, FramesOK, LockedSteps
  <2>5. \A q \in Procs : q # p => FramesOK(q)'
    BY <1>0, <2>1, FramesOthers
  <2> SUFFICES FramesOK(p)'
    BY <2>5 DEF LayerLockInv
  <2>3. CASE idx' = idx /\ pc'[p] = "return"
    BY <1>0, <1>a, <2>1, <2>2, <2>3 DEF FramesOK, LockedSteps, PullSteps
  <2>4. CASE idx'[p] = idx[p] - 1 /\ pc'[p] = "buildLayer" /\ Chain(p) \notin volumes
    <3>1. \A j \in 1..Height(p) : j > idx'[p] <=> j = idx[p] \/ j > idx[p]
      BY <2>2, <2>4
    <3> QED
      BY <1>0, <1>a, <2>1, <2>2, <2>4, <3>1 DEF FramesOK, LockedSteps, PullSteps
  <2> QED
    BY <2>1, <2>3, <2>4
<1>5. CASE ReturnLayer(p)
  <2>1. /\ pc[p] = "return" /\ volumes' = volumes
        /\ \A q \in Procs \ {p} : pc'[q] = pc[q] /\ idx'[q] = idx[q]
        /\ \/ idx[p] = Height(p) /\ pc'[p] \in {"mkdir", "unlock"} /\ idx' = idx
           \/ /\ idx[p] # Height(p) /\ pc'[p] \in {"createVolume", "return"}
              /\ idx'[p] = idx[p] + 1
    BY <1>5 DEF ReturnLayer, Proceed, Goto, volumeVars, TypeOK, ProcessTypeOK
  <2>2. \A c \in ChainIDs : layerLock'[c] = IF idx[p] > 0 /\ c = Chain(p) /\ layerLock[c] = p
                                              THEN None ELSE layerLock[c]
    BY <1>5 DEF ReturnLayer
  <2>5. \A q \in Procs : q # p => FramesOK(q)'
    BY <1>0, <2>1, <2>2, FramesOthers
  <2> SUFFICES FramesOK(p)'
    BY <2>5 DEF LayerLockInv
  <2>3. CASE idx' = idx /\ pc'[p] \in {"mkdir", "unlock"} /\ idx[p] = Height(p)
    <3>1. \A c \in ChainIDs : layerLock[c] = p => c = Chain(p) /\ idx[p] > 0
      BY <1>0, <1>a, <2>3 DEF FramesOK
    <3>2. \A c \in ChainIDs : layerLock'[c] # p
      BY <2>2, <3>1, NameAssumption
    <3> QED
      BY <2>3, <3>2 DEF FramesOK, LockedSteps, PullSteps
  <2>4. CASE idx'[p] = idx[p] + 1 /\ pc'[p] \in {"createVolume", "return"} /\ idx[p] # Height(p)
    <3>1. \A j \in 1..Height(p) : j > idx[p] /\ idx[p] > 0 => Layer(p, j) # Chain(p)
      BY <1>a, ChainUnique DEF TypeOK
    <3>2. \A j \in 1..Height(p) : j > idx[p] =>
             layerLock'[Layer(p, j)] = p /\ Layer(p, j) \notin volumes
      BY <1>0, <1>a, <2>1, <2>2, <3>1 DEF FramesOK, PullSteps
    <3>3. \A c \in ChainIDs : layerLock'[c] = p =>
             \E j \in 1..Height(p) : c = Layer(p, j) /\ j > idx[p]
      BY <1>0, <1>a, <2>2, NameAssumption DEF FramesOK
    <3>4. idx'[p] \in 1..Height(p)
      BY <1>a, <2>4
    <3>5. \A j \in 1..Height(p) : j > idx[p] => j = idx'[p] \/ j > idx'[p]
      BY <1>a, <2>4
    <3> QED
      BY <1>a, <2>1, <2>4, <3>2, <3>3, <3>4, <3>5 DEF FramesOK, LockedSteps, PullSteps
  <2> QED
    BY <2>1, <2>3, <2>4
<1>6. CASE CreateTemporaryVolume(p)
  <2>1. FramesOK(p)'
    BY <1>0, <1>6, FrameNames, CommandFields, NameAssumption DEF CreateTemporaryVolume, Proceed,
      Error, Goto, FramesOK, LockedSteps, PullSteps, Chain, Layer, Height, Temp, TypeOK,
      StoreTypeOK, ProcessTypeOK, volumeVars, lockVars
  <2>2. \A q \in Procs : q # p => FramesOK(q)'
    BY <1>0, <1>6, FramesOthers, FrameNames, NameAssumption DEF CreateTemporaryVolume, Proceed,
      Error, Goto, Temp, TypeOK, StoreTypeOK, ProcessTypeOK, LockedSteps, FramesOK, volumeVars,
      lockVars
  <2> QED
    BY <2>1, <2>2 DEF LayerLockInv
<1>7. CASE UnpackLayer(p)
  <2>1. FramesOK(p)'
    BY <1>0, <1>7, FrameNames, CommandFields, NameAssumption DEF UnpackLayer, Proceed, Error,
      Goto, FramesOK, LockedSteps, PullSteps, Chain, Layer, Height, Temp, TypeOK, StoreTypeOK,
      ProcessTypeOK, volumeVars, lockVars
  <2>2. \A q \in Procs : q # p => FramesOK(q)'
    BY <1>0, <1>7, FramesOthers, FrameNames, NameAssumption DEF UnpackLayer, Proceed, Error, Goto,
      Temp, TypeOK, StoreTypeOK, ProcessTypeOK, LockedSteps, FramesOK, volumeVars, lockVars
  <2> QED
    BY <2>1, <2>2 DEF LayerLockInv
<1>8. CASE WriteVolumeMeta(p)
  <2>1. FramesOK(p)'
    BY <1>0, <1>8, FrameNames, CommandFields, NameAssumption DEF WriteVolumeMeta, Proceed, Goto,
      FramesOK, LockedSteps, PullSteps, Chain, Layer, Height, Temp, TypeOK, StoreTypeOK,
      ProcessTypeOK, volumeVars, lockVars
  <2>2. \A q \in Procs : q # p => FramesOK(q)'
    BY <1>0, <1>8, FramesOthers, FrameNames, NameAssumption DEF WriteVolumeMeta, Proceed, Goto,
      Temp, TypeOK, StoreTypeOK, ProcessTypeOK, LockedSteps, FramesOK, volumeVars, lockVars
  <2> QED
    BY <2>1, <2>2 DEF LayerLockInv
<1>9. CASE MoveVolume(p)
  <2>1. /\ pc[p] = "moveVolume" /\ pc'[p] = "return" /\ UNCHANGED <<idx, layerLock>>
        /\ \A q \in Procs \ {p} : pc'[q] = pc[q]
        /\ volumes' \subseteq volumes \cup {Chain(p)}
    BY <1>9 DEF MoveVolume, Proceed, Error, Goto, lockVars, TypeOK, ProcessTypeOK
  <2>2. layerLock[Chain(p)] = p /\ idx[p] \in 1..Height(p)
    BY <1>0, <2>1, FrameNames DEF FramesOK, LockedSteps, TypeOK
  <2>3. \A j \in 1..Height(p) : j > idx[p] => Layer(p, j) # Chain(p)
    BY <1>a, <2>2, ChainUnique DEF TypeOK
  <2>4. FramesOK(p)'
    BY <1>0, <1>a, <2>1, <2>2, <2>3 DEF FramesOK, LockedSteps, PullSteps
  <2>5. \A q \in Procs : q # p => FramesOK(q)'
    BY <1>0, <2>1, <2>2, FramesOthers
  <2> QED
    BY <2>4, <2>5 DEF LayerLockInv
<1>10. CASE PrepareVolumeFails(p)
  <2>1. FramesOK(p)'
    BY <1>0, <1>10, FrameNames, CommandFields, NameAssumption DEF PrepareVolumeFails, Fault,
      Strike, Goto, FramesOK, LockedSteps, PullSteps, Chain, Layer, Height, Temp, TypeOK,
      StoreTypeOK, ProcessTypeOK, volumeVars, lockVars
  <2>2. \A q \in Procs : q # p => FramesOK(q)'
    BY <1>0, <1>10, FramesOthers, FrameNames, NameAssumption DEF PrepareVolumeFails, Fault,
      Strike, Goto, Temp, TypeOK, StoreTypeOK, ProcessTypeOK, LockedSteps, FramesOK, volumeVars,
      lockVars
  <2> QED
    BY <2>1, <2>2 DEF LayerLockInv
<1>11. CASE UnpackFails(p)
  <2>1. FramesOK(p)'
    BY <1>0, <1>11, FrameNames, CommandFields, NameAssumption DEF UnpackFails, Fault, Strike,
      Goto, FramesOK, LockedSteps, PullSteps, Chain, Layer, Height, Temp, TypeOK, StoreTypeOK,
      ProcessTypeOK, volumeVars, lockVars
  <2>2. \A q \in Procs : q # p => FramesOK(q)'
    BY <1>0, <1>11, FramesOthers, FrameNames, NameAssumption DEF UnpackFails, Fault, Strike, Goto,
      Temp, TypeOK, StoreTypeOK, ProcessTypeOK, LockedSteps, FramesOK, volumeVars, lockVars
  <2> QED
    BY <2>1, <2>2 DEF LayerLockInv
<1>12. CASE CallFails(p)
  <2>1. FramesOK(p)'
    BY <1>0, <1>12, FrameNames, CommandFields, NameAssumption DEF CallFails, OnError, Fault,
      Strike, Goto, FramesOK, LockedSteps, PullSteps, Chain, Layer, Height, Temp, TypeOK,
      StoreTypeOK, ProcessTypeOK, volumeVars, lockVars
  <2>2. \A q \in Procs : q # p => FramesOK(q)'
    BY <1>0, <1>12, FramesOthers, FrameNames, NameAssumption DEF CallFails, OnError, Fault,
      Strike, Goto, Temp, TypeOK, StoreTypeOK, ProcessTypeOK, LockedSteps, FramesOK, volumeVars,
      lockVars
  <2> QED
    BY <2>1, <2>2 DEF LayerLockInv
<1>13. CASE CreateImagePanics(p)
  <2>1. FramesOK(p)'
    BY <1>0, <1>13, FrameNames, CommandFields, NameAssumption DEF CreateImagePanics, DropLocks,
      Goto, FramesOK, LockedSteps, PullSteps, Chain, Layer, Height, Temp, TypeOK, StoreTypeOK,
      ProcessTypeOK, volumeVars, lockVars
  <2>2. \A q \in Procs : q # p => FramesOK(q)'
    BY <1>0, <1>13, FramesOthers, FrameNames, NameAssumption DEF CreateImagePanics, DropLocks,
      Goto, Temp, TypeOK, StoreTypeOK, ProcessTypeOK, LockedSteps, FramesOK, volumeVars, lockVars
  <2> QED
    BY <2>1, <2>2 DEF LayerLockInv
<1>14. CASE Crash(p)
  <2>1. FramesOK(p)'
    BY <1>0, <1>14, FrameNames, CommandFields, NameAssumption DEF Crash, DropLocks, Goto,
      FramesOK, LockedSteps, PullSteps, Chain, Layer, Height, Temp, TypeOK, StoreTypeOK,
      ProcessTypeOK, volumeVars, lockVars
  <2>2. \A q \in Procs : q # p => FramesOK(q)'
    BY <1>0, <1>14, FramesOthers, FrameNames, NameAssumption DEF Crash, DropLocks, Goto, Temp,
      TypeOK, StoreTypeOK, ProcessTypeOK, LockedSteps, FramesOK, volumeVars, lockVars
  <2> QED
    BY <2>1, <2>2 DEF LayerLockInv
<1> QED
  BY <1>o, <1>1, <1>2, <1>3, <1>4, <1>5, <1>6, <1>7, <1>8, <1>9, <1>10, <1>11, <1>12, <1>13, <1>14
    DEF Step, Failure, Pull, PullFault

\* A step of p keeps what q relies on if, while q holds the global lock, p
\* takes away no volume but its own temporary ones.
LEMMA BuildOthers ==
    ASSUME TypeOK, FrameInv, VolumeInv, cmd' = cmd,
           NEW p \in Procs, NEW q \in Procs, q # p,
           pc'[q] = pc[q], ok'[q] = ok[q], idx'[q] = idx[q],
           pc[q] \in SharedSteps =>
             \A v \in volumes : \/ v \in volumes' /\ content'[v] = content[v]
                                \/ \E c \in ChainIDs : v = <<c, p>>
    PROVE  BuildOK(q)'
<1>1. BuildOK(q)
  BY DEF VolumeInv
<1>2. /\ Height(q)' = Height(q)
      /\ \A j \in Nat : Layer(q, j)' = Layer(q, j)
      /\ Chain(q)' = Chain(q) /\ Temp(q)' = Temp(q)
  BY DEF Height, Layer, Chain, Temp
<1>3. /\ \A j \in 1..Height(q) : Layer(q, j) \in ChainIDs
      /\ Height(q) \in Nat /\ idx[q] \in 0..Height(q)
  BY CommandFields DEF TypeOK, ProcessTypeOK
<1>4. \A c \in ChainIDs : pc[q] \in SharedSteps /\ c \in volumes => c \in volumes'
  BY NameAssumption
<1>5. \A c \in ChainIDs : pc[q] \in SharedSteps /\ <<c, q>> \in volumes =>
        <<c, q>> \in volumes' /\ content'[<<c, q>>] = content[<<c, q>>]
  OBVIOUS
<1>6. pc[q] \in LockedSteps => Chain(q) \in ChainIDs
  BY FrameNames DEF TypeOK
<1>7. pc[q] \in {"unpack", "writeMeta", "moveVolume"} =>
        /\ Temp(q) \in volumes => Temp(q) \in volumes' /\ content'[Temp(q)] = content[Temp(q)]
  BY <1>5, <1>6 DEF Temp, LockedSteps, SharedSteps, PullSteps
<1>8. ParentExists(q) /\ pc[q] = "createVolume" => ParentExists(q)'
  BY <1>2, <1>3, <1>4 DEF ParentExists, SharedSteps, PullSteps
<1>9. /\ pc[q] = "return" /\ idx[q] > 0 /\ Chain(q) \in volumes => Chain(q) \in volumes'
      /\ pc[q] \in CloneSteps /\ Height(q) > 0 /\ Layer(q, Height(q)) \in volumes =>
           Layer(q, Height(q)) \in volumes'
  BY <1>3, <1>4 DEF Chain, SharedSteps, PullSteps
<1> QED
  BY <1>1, <1>2, <1>3, <1>7, <1>8, <1>9 DEF BuildOK, CloneSteps, Stack

\* Finished volumes stay complete if none is new and none is written to.
LEMMA CompleteKept ==
    ASSUME VolumesComplete,
           \A c \in ChainIDs : c \in volumes' => c \in volumes /\ content'[c] = content[c]
    PROVE  VolumesComplete'
<1> SUFFICES ASSUME NEW b \in BaseImages, NEW n \in 1..Len(Layers[b]),
                    Layers[b][n] \in volumes'
             PROVE  content'[Layers[b][n]] = Stack(b, n)
  BY DEF VolumesComplete, Stack
<1>1. Layers[b][n] \in ChainIDs
  BY LayersAssumption
<1> QED
  BY <1>1 DEF VolumesComplete

\* A volume comes into being under its chain id by the rename of MoveVolume
\* only, with the parent's layers and its own in it; and no process loses a
\* volume it has made sure of.
LEMMA VolumeStep ==
    ASSUME TypeOK, FrameInv, GlobalLockInv, LayerLockInv, VolumeInv,
           NEW p \in Procs, Step(p) \/ Failure(p)
    PROVE  VolumeInv'
<1>0. cmd' = cmd /\ BuildOK(p) /\ FramesOK(p) /\ VolumesComplete
  BY CommandKept DEF VolumeInv, LayerLockInv
<1>a. /\ Height(p)' = Height(p) /\ Height(p) \in Nat
      /\ \A j \in Nat : Layer(p, j)' = Layer(p, j)
      /\ \A j \in 1..Height(p) : Layer(p, j) \in ChainIDs
      /\ Chain(p) = Layer(p, idx[p])
      /\ Chain(p)' = Layer(p, idx'[p])
      /\ Temp(p) = <<Chain(p), p>>
      /\ Temp(p)' = <<Layer(p, idx'[p]), p>>
      /\ idx[p] \in 0..Height(p)
  BY <1>0, CommandFields DEF Height, Layer, Chain, Temp, TypeOK, ProcessTypeOK
<1>b. \A c \in ChainIDs : <<c, p>> \notin ChainIDs
  BY NameAssumption
<1>o. CASE \/ CheckID(p) \/ UnlockCreate(p) \/ (Clone(p) /\ ~CreateImagePanics(p))
           \/ Clean(p) \/ CloneFault(p) \/ CleanFault(p)
  <2>1. /\ pc'[p] \notin PullSteps
        /\ \A q \in Procs \ {p} : pc'[q] = pc[q] /\ ok'[q] = ok[q]
        /\ UNCHANGED <<idx, content>>
        /\ volumes' \subseteq volumes
        /\ volumes' = volumes \/ (pc[p] = "mark" /\ pc'[p] = "mark")
        /\ pc'[p] # "mkdir"
        /\ pc'[p] \in {"createImage", "ownership", "register"} =>
             pc[p] \in {"mkdir", "createImage", "ownership"}
    BY <1>o, OutsidePull, OthersKept
  <2>2. BuildOK(p)'
    BY <1>0, <1>a, <2>1 DEF BuildOK, PullSteps
  <2>3. \A q \in Procs \ {p} : pc[q] \in SharedSteps => volumes' = volumes
    BY <2>1, NameAssumption DEF GlobalLockInv, ExclusiveSteps
  <2>4. \A q \in Procs : q # p => BuildOK(q)'
    BY <1>0, <2>1, <2>3, BuildOthers
  <2>5. VolumesComplete'
    BY <1>0, <2>1, CompleteKept
  <2> QED
    BY <2>2, <2>4, <2>5 DEF VolumeInv
<1>1. CASE LockCreate(p)
  <2>1. /\ UNCHANGED <<volumes, content>>
        /\ \A q \in Procs \ {p} : pc'[q] = pc[q] /\ ok'[q] = ok[q] /\ idx'[q] = idx[q]
    BY <1>1 DEF LockCreate, LockGlobalShared, Proceed, Error, Goto, volumeVars, TypeOK,
      ProcessTypeOK
  <2>2. BuildOK(p)'
    BY <1>0, <1>a, <1>1, <2>1 DEF LockCreate, LockGlobalShared, Proceed, Error, Goto, BuildOK,
      ParentExists, PullSteps, TypeOK, ProcessTypeOK
  <2>3. \A q \in Procs : q # p => BuildOK(q)'
    BY <1>0, <2>1, BuildOthers
  <2>4. VolumesComplete'
    BY <1>0, <2>1, CompleteKept
  <2> QED
    BY <2>2, <2>3, <2>4 DEF VolumeInv
<1>2. CASE BuildLayer(p)
  <2>1. /\ UNCHANGED <<volumes, content>>
        /\ \A q \in Procs \ {p} : pc'[q] = pc[q] /\ ok'[q] = ok[q] /\ idx'[q] = idx[q]
    BY <1>2 DEF BuildLayer, Proceed, Goto, volumeVars, TypeOK, ProcessTypeOK
  <2>2. BuildOK(p)'
    BY <1>0, <1>a, <1>2, <2>1 DEF BuildLayer, Proceed, Goto, BuildOK, ParentExists, PullSteps,
      TypeOK, ProcessTypeOK
  <2>3. \A q \in Procs : q # p => BuildOK(q)'
    BY <1>0, <2>1, BuildOthers
  <2>4. VolumesComplete'
    BY <1>0, <2>1, CompleteKept
  <2> QED
    BY <2>2, <2>3, <2>4 DEF VolumeInv
<1>3. CASE LockLayer(p)
  <2>1. /\ UNCHANGED <<volumes, content>>
        /\ \A q \in Procs \ {p} : pc'[q] = pc[q] /\ ok'[q] = ok[q] /\ idx'[q] = idx[q]
    BY <1>3 DEF LockLayer, LockKey, Proceed, Goto, volumeVars, TypeOK, ProcessTypeOK
  <2>2. BuildOK(p)'
    BY <1>0, <1>a, <1>3, <2>1 DEF LockLayer, LockKey, Proceed, Goto, BuildOK, ParentExists,
      PullSteps, TypeOK, ProcessTypeOK
  <2>3. \A q \in Procs : q # p => BuildOK(q)'
    BY <1>0, <2>1, BuildOthers
  <2>4. VolumesComplete'
    BY <1>0, <2>1, CompleteKept
  <2> QED
    BY <2>2, <2>3, <2>4 DEF VolumeInv
<1>4. CASE Recheck(p)
  <2>1. /\ UNCHANGED <<volumes, content>>
        /\ \A q \in Procs \ {p} : pc'[q] = pc[q] /\ ok'[q] = ok[q] /\ idx'[q] = idx[q]
    BY <1>4 DEF Recheck, Proceed, Goto, volumeVars, TypeOK, ProcessTypeOK
  <2>2. BuildOK(p)'
    BY <1>0, <1>a, <1>4, <2>1 DEF Recheck, Proceed, Goto, BuildOK, ParentExists, PullSteps,
      TypeOK, ProcessTypeOK
  <2>3. \A q \in Procs : q # p => BuildOK(q)'
    BY <1>0, <2>1, BuildOthers
  <2>4. VolumesComplete'
    BY <1>0, <2>1, CompleteKept
  <2> QED
    BY <2>2, <2>3, <2>4 DEF VolumeInv
<1>5. CASE WriteVolumeMeta(p)
  <2>1. /\ UNCHANGED <<volumes, content>>
        /\ \A q \in Procs \ {p} : pc'[q] = pc[q] /\ ok'[q] = ok[q] /\ idx'[q] = idx[q]
    BY <1>5 DEF WriteVolumeMeta, Proceed, Goto, volumeVars, TypeOK, ProcessTypeOK
  <2>2. BuildOK(p)'
    BY <1>0, <1>a, <1>5, <2>1 DEF WriteVolumeMeta, Proceed, Goto, BuildOK, ParentExists,
      PullSteps, TypeOK, ProcessTypeOK
  <2>3. \A q \in Procs : q # p => BuildOK(q)'
    BY <1>0, <2>1, BuildOthers
  <2>4. VolumesComplete'
    BY <1>0, <2>1, CompleteKept
  <2> QED
    BY <2>2, <2>3, <2>4 DEF VolumeInv
<1>6. CASE CallFails(p)
  <2>1. /\ UNCHANGED <<volumes, content>>
        /\ \A q \in Procs \ {p} : pc'[q] = pc[q] /\ ok'[q] = ok[q] /\ idx'[q] = idx[q]
    BY <1>6 DEF CallFails, OnError, Fault, Strike, Goto, volumeVars, TypeOK, ProcessTypeOK
  <2>2. BuildOK(p)'
    BY <1>0, <1>a, <1>6, <2>1 DEF CallFails, OnError, Fault, Strike, Goto, BuildOK, ParentExists,
      PullSteps, TypeOK, ProcessTypeOK
  <2>3. \A q \in Procs : q # p => BuildOK(q)'
    BY <1>0, <2>1, BuildOthers
  <2>4. VolumesComplete'
    BY <1>0, <2>1, CompleteKept
  <2> QED
    BY <2>2, <2>3, <2>4 DEF VolumeInv
<1>7. CASE CreateImagePanics(p)
  <2>1. /\ UNCHANGED <<volumes, content>>
        /\ \A q \in Procs \ {p} : pc'[q] = pc[q] /\ ok'[q] = ok[q] /\ idx'[q] = idx[q]
    BY <1>7 DEF CreateImagePanics, DropLocks, Goto, volumeVars, TypeOK, ProcessTypeOK
  <2>2. BuildOK(p)'
    BY <1>0, <1>a, <1>7, <2>1 DEF CreateImagePanics, DropLocks, Goto, BuildOK, ParentExists,
      PullSteps, TypeOK, ProcessTypeOK
  <2>3. \A q \in Procs : q # p => BuildOK(q)'
    BY <1>0, <2>1, BuildOthers
  <2>4. VolumesComplete'
    BY <1>0, <2>1, CompleteKept
  <2> QED
    BY <2>2, <2>3, <2>4 DEF VolumeInv
<1>8. CASE Crash(p)
  <2>1. /\ UNCHANGED <<volumes, content>>
        /\ \A q \in Procs \ {p} : pc'[q] = pc[q] /\ ok'[q] = ok[q] /\ idx'[q] = idx[q]
    BY <1>8 DEF Crash, DropLocks, Goto, volumeVars, TypeOK, ProcessTypeOK
  <2>2. BuildOK(p)'
    BY <1>0, <1>a, <1>8, <2>1 DEF Crash, DropLocks, Goto, BuildOK, ParentExists, PullSteps,
      TypeOK, ProcessTypeOK
  <2>3. \A q \in Procs : q # p => BuildOK(q)'
    BY <1>0, <2>1, BuildOthers
  <2>4. VolumesComplete'
    BY <1>0, <2>1, CompleteKept
  <2> QED
    BY <2>2, <2>3, <2>4 DEF VolumeInv
<1>9. CASE ReturnLayer(p)
  <2>1. /\ pc[p] = "return" /\ UNCHANGED <<volumes, content, ok>>
        /\ \A q \in Procs \ {p} : pc'[q] = pc[q] /\ idx'[q] = idx[q]
        /\ \/ idx[p] = Height(p) /\ pc'[p] \in {"mkdir", "unlock"} /\ idx' = idx
           \/ /\ idx[p] # Height(p) /\ pc'[p] \in {"createVolume", "return"}
              /\ idx'[p] = idx[p] + 1
        /\ pc'[p] \in {"mkdir", "createVolume"} <=> ok[p]
    BY <1>9 DEF ReturnLayer, Proceed, Goto, volumeVars, TypeOK, ProcessTypeOK
  <2>2. ok[p] /\ idx[p] > 0 => Layer(p, idx[p]) \in volumes
    BY <1>0, <1>a, <2>1 DEF BuildOK
  <2>3. BuildOK(p)'
    <3>1. CASE idx[p] = Height(p) /\ pc'[p] \in {"mkdir", "unlock"}
      BY <1>a, <2>1, <2>2, <3>1 DEF BuildOK
    <3>2. CASE pc'[p] = "createVolume" /\ idx'[p] = idx[p] + 1
      <4>1. ParentExists(p)'
        BY <1>a, <2>1, <2>2, <3>2 DEF ParentExists
      <4> QED
        BY <3>2, <4>1 DEF BuildOK
    <3>3. CASE pc'[p] = "return" /\ ~ok[p]
      BY <2>1, <3>3 DEF BuildOK
    <3> QED
      BY <2>1, <3>1, <3>2, <3>3
  <2>4. \A q \in Procs : q # p => BuildOK(q)'
    BY <1>0, <2>1, BuildOthers
  <2>5. VolumesComplete'
    BY <1>0, <2>1, CompleteKept
  <2> QED
    BY <2>3, <2>4, <2>5 DEF VolumeInv
<1>10. CASE CreateTemporaryVolume(p)
  <2>1. /\ pc[p] = "createVolume" /\ idx' = idx
        /\ \A q \in Procs \ {p} : pc'[q] = pc[q] /\ ok'[q] = ok[q]
        /\ Chain(p) \in ChainIDs /\ Temp(p) \in VolumeNames /\ idx[p] \in 1..Height(p)
    BY <1>10, FrameNames DEF CreateTemporaryVolume, Proceed, Error, Goto, TypeOK, ProcessTypeOK,
      LockedSteps
  <2>2. ParentExists(p)
    BY <1>0, <2>1 DEF BuildOK
  <2>3. /\ pc'[p] = "unpack"
        /\ volumes' = volumes \cup {Temp(p)}
        /\ content' = [content EXCEPT ![Temp(p)] =
                         IF idx[p] = 1 THEN {} ELSE content[Layer(p, idx[p] - 1)]]
    BY <1>10, <2>2 DEF CreateTemporaryVolume, Proceed, Goto, TypeOK, ProcessTypeOK
  <2>4. /\ content'[Temp(p)] = IF idx[p] = 1 THEN {} ELSE content[Layer(p, idx[p] - 1)]
        /\ \A v \in VolumeNames \ {Temp(p)} : content'[v] = content[v]
    BY <2>1, <2>3 DEF TypeOK, StoreTypeOK
  <2>5. content'[Temp(p)] = Stack(cmd[p].base, idx[p] - 1)
    <3>1. CASE idx[p] = 1
      BY <2>4, <3>1 DEF Stack
    <3>2. CASE idx[p] # 1
      <4>1. Layer(p, idx[p] - 1) \in volumes /\ idx[p] - 1 \in 1..Len(Layers[cmd[p].base])
        BY <1>a, <2>1, <2>2, <3>2 DEF ParentExists, Height
      <4>2. cmd[p].base \in BaseImages
        BY CommandFields DEF TypeOK
      <4>3. content[Layer(p, idx[p] - 1)] = Stack(cmd[p].base, idx[p] - 1)
        BY <1>0, <4>1, <4>2 DEF VolumesComplete, Layer
      <4> QED
        BY <2>4, <3>2, <4>3
    <3> QED
      BY <3>1, <3>2
  <2>6. BuildOK(p)'
    BY <1>0, <1>a, <2>1, <2>3, <2>5 DEF BuildOK
  <2>7. volumes \subseteq VolumeNames /\ ChainIDs \subseteq VolumeNames
    BY DEF TypeOK, StoreTypeOK, VolumeNames
  <2>8. \A q \in Procs : q # p => BuildOK(q)'
    BY <1>0, <1>a, <2>1, <2>3, <2>4, <2>7, BuildOthers
  <2>9. VolumesComplete'
    <3>1. \A c \in ChainIDs : c # Temp(p)
      BY <1>a, <1>b, <2>1
    <3> QED
      BY <1>0, <2>3, <2>4, <2>7, <3>1, CompleteKept
  <2> QED
    BY <2>6, <2>8, <2>9 DEF VolumeInv
<1>11. CASE UnpackLayer(p)
  <2>1. /\ pc[p] = "unpack" /\ UNCHANGED <<idx, volumes>>
        /\ \A q \in Procs \ {p} : pc'[q] = pc[q] /\ ok'[q] = ok[q]
        /\ Chain(p) \in ChainIDs /\ Temp(p) \in VolumeNames /\ idx[p] \in 1..Height(p)
    BY <1>11, FrameNames DEF UnpackLayer, Proceed, Error, Goto, TypeOK, ProcessTypeOK, LockedSteps
  <2>2. Temp(p) \in volumes /\ content[Temp(p)] = Stack(cmd[p].base, idx[p] - 1)
    BY <1>0, <2>1 DEF BuildOK
  <2>3. /\ pc'[p] = "writeMeta"
        /\ content' = [content EXCEPT ![Temp(p)] = @ \cup {Chain(p)}]
    BY <1>11, <2>2 DEF UnpackLayer, Proceed, Goto, TypeOK, ProcessTypeOK
  <2>4. /\ content'[Temp(p)] = content[Temp(p)] \cup {Chain(p)}
        /\ \A v \in VolumeNames \ {Temp(p)} : content'[v] = content[v]
    BY <2>1, <2>3 DEF TypeOK, StoreTypeOK
  <2>5. Stack(cmd[p].base, idx[p]) = Stack(cmd[p].base, idx[p] - 1) \cup {Chain(p)}
    <3>1. \A k \in Int : k \in 1..idx[p] <=> k \in 1..(idx[p] - 1) \/ k = idx[p]
      BY <2>1
    <3> QED
      BY <1>a, <2>1, <3>1 DEF Stack, Layer
  <2>6. BuildOK(p)'
    BY <1>0, <1>a, <2>1, <2>2, <2>3, <2>4, <2>5 DEF BuildOK
  <2>7. volumes \subseteq VolumeNames /\ ChainIDs \subseteq VolumeNames
    BY DEF TypeOK, StoreTypeOK, VolumeNames
  <2>8. \A q \in Procs : q # p => BuildOK(q)'
    BY <1>0, <1>a, <2>1, <2>3, <2>4, <2>7, BuildOthers
  <2>9. VolumesComplete'
    <3>1. \A c \in ChainIDs : c # Temp(p)
      BY <1>a, <1>b, <2>1
    <3> QED
      BY <1>0, <2>1, <2>4, <2>7, <3>1, CompleteKept
  <2> QED
    BY <2>6, <2>8, <2>9 DEF VolumeInv
<1>12. CASE MoveVolume(p)
  <2>1. /\ pc[p] = "moveVolume" /\ idx' = idx /\ pc'[p] = "return"
        /\ \A q \in Procs \ {p} : pc'[q] = pc[q] /\ ok'[q] = ok[q]
        /\ Chain(p) \in ChainIDs /\ Chain(p) \in VolumeNames /\ idx[p] \in 1..Height(p)
    BY <1>12, FrameNames DEF MoveVolume, Proceed, Error, Goto, TypeOK, ProcessTypeOK, LockedSteps
  <2>2. /\ Temp(p) \in volumes /\ Chain(p) \notin volumes
        /\ content[Temp(p)] = Stack(cmd[p].base, idx[p])
    BY <1>0, <2>1 DEF BuildOK, FramesOK, LockedSteps
  <2>3. /\ volumes' = (volumes \ {Temp(p)}) \cup {Chain(p)}
        /\ content' = [content EXCEPT ![Chain(p)] = content[Temp(p)]]
    BY <1>12, <2>2 DEF MoveVolume
  <2>4. /\ content'[Chain(p)] = Stack(cmd[p].base, idx[p])
        /\ \A v \in VolumeNames \ {Chain(p)} : content'[v] = content[v]
    BY <2>1, <2>2, <2>3 DEF TypeOK, StoreTypeOK
  <2>6. BuildOK(p)'
    BY <1>0, <1>a, <2>1, <2>3 DEF BuildOK
  <2>7. volumes \subseteq VolumeNames /\ ChainIDs \subseteq VolumeNames
    BY DEF TypeOK, StoreTypeOK, VolumeNames
  <2>8. \A q \in Procs : q # p => BuildOK(q)'
    <3>1. \A v \in volumes : \/ v \in volumes' /\ content'[v] = content[v]
                             \/ v = <<Chain(p), p>>
      BY <1>a, <2>2, <2>3, <2>4, <2>7
    <3> QED
      BY <1>0, <2>1, <3>1, BuildOthers
  <2>9. VolumesComplete'
    <3> SUFFICES ASSUME NEW b \in BaseImages, NEW n \in 1..Len(Layers[b]),
                        Layers[b][n] \in volumes'
                 PROVE  content'[Layers[b][n]] = Stack(b, n)
      BY DEF VolumesComplete, Stack
    <3>1. Layers[b][n] \in ChainIDs
      BY LayersAssumption
    <3>2. CASE Layers[b][n] = Chain(p)
      <4>1. /\ cmd[p].base \in BaseImages /\ idx[p] \in 1..Len(Layers[cmd[p].base])
            /\ Layers[cmd[p].base][idx[p]] = Layers[b][n]
        BY <1>a, <2>1, <3>2, CommandFields DEF Height, Layer, TypeOK
      <4>2. n = idx[p] /\ \A k \in 1..n : Layers[b][k] = Layers[cmd[p].base][k]
        BY <4>1, ChainAssumption
      <4>3. Stack(b, n) = Stack(cmd[p].base, idx[p])
        BY <4>2 DEF Stack
      <4> QED
        BY <2>4, <3>2, <4>3
    <3>3. CASE Layers[b][n] # Chain(p)
      <4>1. Layers[b][n] \in volumes /\ content'[Layers[b][n]] = content[Layers[b][n]]
        BY <2>3, <2>4, <2>7, <3>1, <3>3
      <4> QED
        BY <1>0, <4>1 DEF VolumesComplete
    <3> QED
      BY <3>2, <3>3
  <2> QED
    BY <2>6, <2>8, <2>9 DEF VolumeInv
<1>13. CASE PrepareVolumeFails(p)
  <2>1. /\ pc[p] = "createVolume" /\ pc'[p] = "return" /\ ~ok'[p] /\ UNCHANGED <<idx, content>>
        /\ \A q \in Procs \ {p} : pc'[q] = pc[q] /\ ok'[q] = ok[q]
        /\ volumes' = volumes \cup {Temp(p)}
    BY <1>13 DEF PrepareVolumeFails, Fault, Strike, Goto, TypeOK, ProcessTypeOK
  <2>2. Chain(p) \in ChainIDs
    BY <2>1, FrameNames DEF LockedSteps, TypeOK
  <2>3. BuildOK(p)'
    BY <2>1 DEF BuildOK
  <2>4. \A q \in Procs : q # p => BuildOK(q)'
    BY <1>0, <2>1, BuildOthers
  <2>5. VolumesComplete'
    BY <1>0, <1>a, <1>b, <2>1, <2>2, CompleteKept
  <2> QED
    BY <2>3, <2>4, <2>5 DEF VolumeInv
<1>14. CASE UnpackFails(p)
  <2>1. /\ pc[p] = "unpack" /\ pc'[p] = "return" /\ ~ok'[p] /\ UNCHANGED <<idx, content>>
        /\ \A q \in Procs \ {p} : pc'[q] = pc[q] /\ ok'[q] = ok[q]
        /\ volumes' = volumes \ {Chain(p)}
    BY <1>14 DEF UnpackFails, Fault, Strike, Goto, TypeOK, ProcessTypeOK
  <2>2. volumes' = volumes
    BY <1>0, <2>1 DEF FramesOK, LockedSteps
  <2>3. BuildOK(p)'
    BY <2>1 DEF BuildOK
  <2>4. \A q \in Procs : q # p => BuildOK(q)'
    BY <1>0, <2>1, <2>2, BuildOthers
  <2>5. VolumesComplete'
    BY <1>0, <2>1, <2>2, CompleteKept
  <2> QED
    BY <2>3, <2>4, <2>5 DEF VolumeInv
<1> QED
  BY <1>o, <1>1, <1>2, <1>3, <1>4, <1>5, <1>6, <1>7, <1>8, <1>9, <1>10, <1>11, <1>12, <1>13, <1>14
    DEF Step, Failure, Pull, PullFault
=============================================================================
