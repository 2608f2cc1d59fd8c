-------------------------- MODULE GrootCacheProofs --------------------------
(***************************************************************************)
(* Groot implements VolumeCache: the store as it is found is a state of    *)
(* the cache, and every step of a command is a step of the cache or leaves *)
(* what can be seen of it alone.                                           *)
(***************************************************************************)
EXTENDS GrootProofs, GrootRefinement

(***************************************************************************)
(* The invariants of the refinement.                                       *)
(***************************************************************************)

\* The parent of a volume that is being built stays: the builder holds the
\* global lock, and only a cleaner that holds it alone takes volumes.
LEMMA ParentsStayStep ==
    ASSUME IInv, ParentsStay, NEW p \in Procs, Step(p) \/ Failure(p)
    PROVE  ParentsStay'
<1> SUFFICES ASSUME NEW q \in Procs, pc'[q] \in {"unpack", "writeMeta", "moveVolume"}
             PROVE  ParentExists(q)'
  BY DEF ParentsStay
<1> USE DEF IInv
<1>1. cmd' = cmd /\ FrameInv'
  BY CommandKept, FrameStep
<1>2. /\ pc[q] \in {"createVolume", "unpack", "writeMeta", "moveVolume"}
      /\ idx'[q] = idx[q] /\ ParentExists(q)
  <2>1. CASE q # p
    BY <2>1, OthersKept DEF ParentsStay
  <2>2. CASE q = p /\ (CreateTemporaryVolume(p) \/ UnpackLayer(p) \/ WriteVolumeMeta(p))
    BY <2>2 DEF CreateTemporaryVolume, UnpackLayer, WriteVolumeMeta, ParentsStay, Proceed, Error,
      Goto, TypeOK, ProcessTypeOK
  <2>3. CASE q = p /\ ~(CreateTemporaryVolume(p) \/ UnpackLayer(p) \/ WriteVolumeMeta(p))
    <3>1. pc'[p] \notin {"unpack", "writeMeta", "moveVolume"}
      BY <2>3, OutsidePull DEF Step, Failure, Pull, PullFault, Clean, Clone, CloneFault,
        CleanFault, LockCreate, BuildLayer, LockLayer, Recheck, ReturnLayer, MoveVolume,
        PrepareVolumeFails, UnpackFails, CreateImagePanics, CallFails, OnError, Crash, Proceed,
        Error, Fault, Goto, TypeOK, ProcessTypeOK, PullSteps
    <3> QED
      BY <2>3, <3>1
  <2> QED
    BY <2>1, <2>2, <2>3
<1>3. idx[q] > 1 => Layer(q, idx[q] - 1) \in ChainIDs /\ Layer(q, idx[q] - 1) \in volumes
  BY <1>2, CommandFields, FrameNames DEF ParentExists, LockedSteps, TypeOK
<1>4. pc[p] # "mark"
  BY <1>2, NameAssumption DEF GlobalLockInv, SharedSteps, ExclusiveSteps, PullSteps
<1>5. idx[q] > 1 => Layer(q, idx[q] - 1) \in volumes'
  BY <1>3, <1>4, VolumesLost
<1> QED
  BY <1>1, <1>2, <1>5 DEF ParentExists, Layer

\* Dependency files are written whole.
LEMMA DepsWholeStep ==
    ASSUME IInv, DepsWhole, NEW p \in Procs, Step(p) \/ Failure(p)
    PROVE  DepsWhole'
<1>1. deps' = deps \/ Register(p) \/ Deregister(p)
  BY DEF Step, Failure, Pull, Clone, Clean, PullFault, CloneFault, CleanFault, CheckID,
    LockCreate, UnlockCreate, BuildLayer, LockLayer, Recheck, ReturnLayer, CreateTemporaryVolume,
    UnpackLayer, WriteVolumeMeta, MoveVolume, MakeImageDir, CreateImage, CreateImagePanics,
    SetOwnership, DestroyExists, DestroyRootfs, RemoveFiles, RemoveImageDir, DestroyStat,
    CheckThreshold, LockStore, ListVolumes, ListImages, ReadDependencies, KeepPreserved,
    MarkUnused, UnlockStore, ListGarbage, RemoveMeta, DestroyVolume, CollectReturns, CallFails,
    PrepareVolumeFails, UnpackFails, DiskLimitFails, DestroyRootfsFails, RemoveImageDirFails,
    UnusedVolumesFails, MarkUnusedFails, DestroyVolumeFails, Crash, imageVars
<1>2. cmd[p].base \in BaseImages /\ deps \in [ImageIDs -> SUBSET ChainIDs]
  BY CommandFields DEF IInv, TypeOK, StoreTypeOK
<1>3. \A b \in BaseImages : ChainSet(b)' = ChainSet(b)
  BY DEF ChainSet, Stack
<1>4. CASE deps' = deps
  BY <1>3, <1>4 DEF DepsWhole
<1>5. CASE Register(p)
  BY <1>2, <1>3, <1>5 DEF Register, DepsWhole
<1>6. CASE Deregister(p)
  BY <1>2, <1>3, <1>6 DEF Deregister, DepsWhole
<1> QED
  BY <1>1, <1>4, <1>5, <1>6

(***************************************************************************)
(* What a step leaves of the cache.                                        *)
(***************************************************************************)

\* The cache is seen through the finished volumes alone.
LEMMA CacheUnseen ==
    ASSUME \A c \in ChainIDs : /\ c \in volumes' <=> c \in volumes
                               /\ c \in volumes => content'[c] = content[c]
    PROVE  CacheSeen' = CacheSeen
BY DEF CacheSeen

\* A temporary volume is not a finished one.
LEMMA TempUnseen ==
    ASSUME ProcessTypeOK, FrameInv, NEW p \in Procs, pc[p] \in LockedSteps
    PROVE  Temp(p) \notin ChainIDs
BY FrameNames, NameAssumption DEF Temp

\* buildLayer up to the rename works on volumes nobody sees.
LEMMA BuildUnseen ==
    ASSUME IInv, NEW p \in Procs,
           \/ CreateTemporaryVolume(p) \/ PrepareVolumeFails(p)
           \/ UnpackLayer(p) \/ UnpackFails(p)
    PROVE  UNCHANGED <<CacheSeen, rootfs, torn, HoldsSeen>>
<1>1. pc[p] \in {"createVolume", "unpack"} /\ UNCHANGED imageVars
  BY DEF CreateTemporaryVolume, PrepareVolumeFails, UnpackLayer, UnpackFails
<1>2. Temp(p) \notin ChainIDs /\ Temp(p) \in VolumeNames /\ Chain(p) \notin volumes
  BY <1>1, TempUnseen, FrameNames DEF IInv, TypeOK, LockedSteps, LayerLockInv, FramesOK
<1>3. \/ content' = content
      \/ \E s : content' = [content EXCEPT ![Temp(p)] = s]
  BY DEF CreateTemporaryVolume, PrepareVolumeFails, UnpackLayer, UnpackFails
<1>4. \A c \in ChainIDs : content'[c] = content[c]
  BY <1>2, <1>3 DEF IInv, TypeOK, StoreTypeOK, VolumeNames
<1>5. \/ volumes' = volumes \/ volumes' = volumes \cup {Temp(p)}
      \/ volumes' = volumes \ {Chain(p)}
  BY DEF CreateTemporaryVolume, PrepareVolumeFails, UnpackLayer, UnpackFails
<1>6. CacheSeen' = CacheSeen
  BY <1>2, <1>4, <1>5, CacheUnseen
<1> QED
  BY <1>1, <1>6 DEF imageVars, HoldsSeen

\* The rename of moveVolume adds a complete volume above its parent's.
LEMMA MoveAdds ==
    ASSUME IInv, ParentsStay, NEW p \in Procs, MoveVolume(p)
    PROVE  [Cache!CacheNext]_<<CacheSeen, rootfs, torn, HoldsSeen>>
<1> DEFINE s == Layers[cmd[p].base]
           n == idx[p]
<1>1. pc[p] = "moveVolume" /\ UNCHANGED imageVars
  BY DEF MoveVolume
<1>2. /\ n \in 1..Height(p) /\ Chain(p) \in ChainIDs /\ Temp(p) \notin ChainIDs
      /\ Temp(p) \in volumes /\ Chain(p) \notin volumes
      /\ content[Temp(p)] = Stack(cmd[p].base, n)
      /\ ParentExists(p)
  BY <1>1, TempUnseen, FrameNames DEF IInv, TypeOK, LockedSteps, LayerLockInv, FramesOK,
    VolumeInv, BuildOK, ParentsStay
<1>3. /\ cmd[p].base \in BaseImages /\ s \in StacksSeen /\ Len(s) = Height(p)
      /\ Len(s) \in Nat /\ Chain(p) = s[n] /\ n \in 1..Len(s)
      /\ \A k \in 1..Len(s) : s[k] \in ChainIDs
  BY <1>2, CommandFields DEF IInv, TypeOK, StacksSeen, Height, Chain, Layer
<1>4. /\ volumes' = (volumes \ {Temp(p)}) \cup {Chain(p)}
      /\ content' = [content EXCEPT ![Chain(p)] = content[Temp(p)]]
  BY <1>2 DEF MoveVolume
<1>5. content'[Chain(p)] = Stack(cmd[p].base, n)
      /\ \A c \in ChainIDs \ {Chain(p)} : content'[c] = content[c]
  BY <1>2, <1>4 DEF IInv, TypeOK, StoreTypeOK, VolumeNames
<1>6. Cache!Volume(s, n) = [id |-> Chain(p), content |-> Stack(cmd[p].base, n)]
  BY <1>3 DEF Cache!Volume, Cache!Lower, Stack
<1>7. CacheSeen' = CacheSeen \cup {Cache!Volume(s, n)}
  <2> HIDE DEF s, n
  <2> QED
    BY <1>2, <1>4, <1>5, <1>6 DEF CacheSeen
<1>8. n > 1 => Cache!Volume(s, n - 1) \in CacheSeen
  <2> SUFFICES ASSUME n > 1 PROVE Cache!Volume(s, n - 1) \in CacheSeen
    OBVIOUS
  <2>1. n - 1 \in 1..Len(s) /\ s[n - 1] \in volumes /\ s[n - 1] \in ChainIDs
    BY <1>2, <1>3 DEF ParentExists, Layer
  <2>2. content[s[n - 1]] = Stack(cmd[p].base, n - 1)
    BY <1>3, <2>1 DEF IInv, VolumeInv, VolumesComplete
  <2>3. Cache!Volume(s, n - 1) = [id |-> s[n - 1], content |-> Stack(cmd[p].base, n - 1)]
    BY <2>1 DEF Cache!Volume, Cache!Lower, Stack
  <2> QED
    BY <2>1, <2>2, <2>3 DEF CacheSeen
<1>9. UNCHANGED <<rootfs, torn, HoldsSeen>>
  BY <1>1 DEF imageVars, HoldsSeen
<1> QED
  BY <1>3, <1>7, <1>8, <1>9 DEF Cache!CacheNext, Cache!Add

\* MarkUnused takes a volume nobody holds.
LEMMA MarkEvicts ==
    ASSUME IInv, NEW p \in Procs, MarkUnused(p)
    PROVE  [Cache!CacheNext]_<<CacheSeen, rootfs, torn, HoldsSeen>>
<1>1. PICK v \in unused[p] : \/ UNCHANGED <<volumes, gcVolumes>>
                             \/ v \in volumes /\ volumes' = volumes \ {v}
  BY DEF MarkUnused
<1>2. pc[p] = "mark" /\ content' = content /\ UNCHANGED imageVars
  BY DEF MarkUnused
<1>3. UNCHANGED <<rootfs, torn, HoldsSeen>>
  BY <1>2 DEF imageVars, HoldsSeen
<1>4. CASE volumes' = volumes \/ v \notin ChainIDs
  <2>1. CacheSeen' = CacheSeen
    BY <1>1, <1>2, <1>4, CacheUnseen
  <2> QED
    BY <1>3, <2>1
<1>5. CASE v \in volumes /\ v \in ChainIDs /\ volumes' = volumes \ {v}
  <2> DEFINE w == [id |-> v, content |-> content[v]]
  <2>1. w \in CacheSeen
    BY <1>5 DEF CacheSeen
  <2>2. CacheSeen' = CacheSeen \ {w}
    BY <1>2, <1>5 DEF CacheSeen
  <2>3. \A i \in ImageIDs : v \notin HoldsSeen[i]
    BY <1>2 DEF IInv, MarkInv, MarkOK, HoldsSeen
  <2>4. w.id = v
    OBVIOUS
  <2> QED
    BY <1>3, <2>1, <2>2, <2>3, <2>4 DEF Cache!CacheNext, Cache!Evict
<1> QED
  BY <1>1, <1>4, <1>5

\* The snapshot of CreateImage is whole, and taken where there was nothing.
LEMMA SnapshotSeen ==
    ASSUME IInv, NEW p \in Procs, CreateImage(p) \/ DiskLimitFails(p)
    PROVE  [Cache!CacheNext]_<<CacheSeen, rootfs, torn, HoldsSeen>>
<1> DEFINE s == Layers[cmd[p].base]
           top == Layer(p, Height(p))
<1>1. /\ UNCHANGED volumeVars /\ UNCHANGED <<images, torn, depFiles, deps>>
      /\ \/ rootfs' = rootfs
         \/ /\ Height(p) > 0 /\ top \in volumes /\ rootfs[Id(p)] = {}
            /\ rootfs' = [rootfs EXCEPT ![Id(p)] = content[top]]
  BY DEF CreateImage, DiskLimitFails, SnapshotTaken
<1>2. UNCHANGED <<CacheSeen, torn, HoldsSeen>>
  BY <1>1 DEF volumeVars, CacheSeen, HoldsSeen
<1>3. CASE rootfs' = rootfs
  BY <1>2, <1>3
<1>4. CASE /\ Height(p) > 0 /\ top \in volumes /\ rootfs[Id(p)] = {}
           /\ rootfs' = [rootfs EXCEPT ![Id(p)] = content[top]]
  <2>1. /\ Id(p) \in ImageIDs /\ s \in StacksSeen /\ s # << >> /\ Len(s) = Height(p)
        /\ top = s[Len(s)] /\ top \in ChainIDs
    BY <1>4, CommandFields DEF IInv, TypeOK, StacksSeen, Height, Layer
  <2>2. content[top] = ChainSet(cmd[p].base)
    BY <1>4, TopComplete DEF IInv, TypeOK, VolumeInv
  <2>3. Cache!Whole(s) = content[top]
    BY <2>2 DEF Cache!Whole, Cache!Lower, ChainSet, Stack
  <2>4. Cache!Volume(s, Len(s)) = [id |-> top, content |-> content[top]]
    BY <2>1, <2>3 DEF Cache!Volume, Cache!Whole
  <2>5. Cache!Volume(s, Len(s)) \in CacheSeen
    BY <1>4, <2>1, <2>4 DEF CacheSeen
  <2> HIDE DEF s, top
  <2> QED
    BY <1>2, <1>4, <2>1, <2>3, <2>5 DEF Cache!CacheNext, Cache!Snapshot
<1> QED
  BY <1>1, <1>3, <1>4

\* An image holds its base image when both its directory and its dependency
\* file are there, whichever comes last.
LEMMA HoldSeen ==
    ASSUME IInv, DepsWhole, NEW p \in Procs, MakeImageDir(p) \/ Register(p) \/ Deregister(p)
    PROVE  [Cache!CacheNext]_<<CacheSeen, rootfs, torn, HoldsSeen>>
<1>1. Id(p) \in ImageIDs /\ cmd[p].base \in BaseImages
  BY CommandFields DEF IInv, TypeOK
<1>2. UNCHANGED <<CacheSeen, rootfs, torn>>
  BY DEF MakeImageDir, Register, Deregister, volumeVars, CacheSeen
<1>3. \/ HoldsSeen' = HoldsSeen
      \/ HoldsSeen' = [HoldsSeen EXCEPT ![Id(p)] = {}]
      \/ \E b \in BaseImages : HoldsSeen' = [HoldsSeen EXCEPT ![Id(p)] = ChainSet(b)]
  <2> USE <1>1 DEF IInv, TypeOK, StoreTypeOK, HoldsSeen
  <2>1. CASE MakeImageDir(p)
    <3>1. deps' = deps /\ depFiles' = depFiles /\ images' \in {images, images \cup {Id(p)}}
      BY <2>1 DEF MakeImageDir
    <3>2. \/ HoldsSeen' = HoldsSeen
          \/ HoldsSeen' = [HoldsSeen EXCEPT ![Id(p)] = deps[Id(p)]]
      BY <3>1
    <3> QED
      BY <3>2 DEF DepsWhole
  <2>2. CASE Register(p)
    <3>1. /\ images' = images /\ depFiles' = depFiles \cup {Id(p)}
          /\ deps' = [deps EXCEPT ![Id(p)] = ChainSet(cmd[p].base)]
      BY <2>2 DEF Register
    <3>2. Id(p) \in images => HoldsSeen' = [HoldsSeen EXCEPT ![Id(p)] = ChainSet(cmd[p].base)]
      BY <3>1
    <3>3. Id(p) \notin images => HoldsSeen' = HoldsSeen
      BY <3>1
    <3> QED
      BY <3>2, <3>3
  <2>3. CASE Deregister(p)
    BY <2>3 DEF Deregister
  <2> QED
    BY <2>1, <2>2, <2>3
<1>4. ASSUME NEW b \in BaseImages, HoldsSeen' = [HoldsSeen EXCEPT ![Id(p)] = ChainSet(b)]
      PROVE  Cache!CacheNext
  <2>1. Layers[b] \in StacksSeen /\ Cache!Whole(Layers[b]) = ChainSet(b)
    BY DEF StacksSeen, Cache!Whole, Cache!Lower, ChainSet, Stack
  <2>2. Cache!Hold(Id(p), Layers[b])
    BY <1>2, <1>4, <2>1 DEF Cache!Hold
  <2> QED
    BY <1>1, <2>1, <2>2 DEF Cache!CacheNext
<1>5. ASSUME HoldsSeen' = [HoldsSeen EXCEPT ![Id(p)] = {}]
      PROVE  Cache!CacheNext
  BY <1>1, <1>2, <1>5 DEF Cache!CacheNext, Cache!Release
<1> QED
  BY <1>2, <1>3, <1>4, <1>5

\* Destroying takes away what is under a rootfs, some of its files first, or
\* the image altogether.
LEMMA DestroySeen ==
    ASSUME IInv, NEW p \in Procs,
           \/ DestroyRootfs(p) \/ DestroyRootfsFails(p) \/ RemoveFiles(p)
           \/ RemoveImageDir(p) \/ RemoveImageDirFails(p)
    PROVE  [Cache!CacheNext]_<<CacheSeen, rootfs, torn, HoldsSeen>>
<1>1. Id(p) \in ImageIDs /\ torn \subseteq ImageIDs
  BY CommandFields DEF IInv, TypeOK, StoreTypeOK
<1>2. CacheSeen' = CacheSeen /\ depFiles' = depFiles /\ deps' = deps
  BY DEF DestroyRootfs, DestroyRootfsFails, RemoveFiles, RemoveImageDir, RemoveImageDirFails,
    volumeVars, CacheSeen
<1>3. CASE RemoveImageDir(p)
  <2>1. /\ rootfs' = [rootfs EXCEPT ![Id(p)] = {}] /\ torn' = torn \ {Id(p)}
        /\ HoldsSeen' = [HoldsSeen EXCEPT ![Id(p)] = {}]
    BY <1>1, <1>2, <1>3 DEF RemoveImageDir, Destroy, RootfsWithout, HoldsSeen, IInv, TypeOK,
      StoreTypeOK
  <2> QED
    BY <1>1, <1>2, <2>1 DEF Cache!CacheNext, Cache!Remove
<1>4. CASE DestroyRootfs(p) \/ DestroyRootfsFails(p) \/ RemoveImageDirFails(p)
  <2>1. HoldsSeen' = HoldsSeen
    BY <1>2, <1>4 DEF DestroyRootfs, DestroyRootfsFails, RemoveImageDirFails, HoldsSeen
  <2>2. Extensions[Id(p)] \subseteq ImageIDs
    BY <1>1, ExtensionsAssumption
  <2>3. \/ UNCHANGED <<rootfs, torn>>
        \/ \E is \in SUBSET ImageIDs : rootfs' = RootfsWithout(is) /\ torn' = torn \ is
    BY <1>1, <1>4, <2>2 DEF DestroyRootfs, DestroyRootfsFails, RemoveImageDirFails, Destroy,
      ListSubvolumes
  <2> QED
    BY <1>2, <2>1, <2>3 DEF RootfsWithout, Cache!CacheNext, Cache!Lose
<1>5. CASE RemoveFiles(p)
  <2>1. /\ rootfs[Id(p)] # {} /\ torn' = torn \cup {Id(p)}
        /\ rootfs' = rootfs /\ HoldsSeen' = HoldsSeen
    BY <1>2, <1>5 DEF RemoveFiles, HoldsSeen
  <2> QED
    BY <1>1, <1>2, <2>1 DEF Cache!CacheNext, Cache!Tear
<1> QED
  BY <1>3, <1>4, <1>5

\* Every step of a command is a step of the cache, or none.
LEMMA StepSeen ==
    ASSUME IInv, ParentsStay, DepsWhole, NEW p \in Procs, Step(p) \/ Failure(p)
    PROVE  [Cache!CacheNext]_<<CacheSeen, rootfs, torn, HoldsSeen>>
<1>1. \/ UNCHANGED <<volumes, content, images, rootfs, torn, depFiles, deps>>
      \/ CreateTemporaryVolume(p) \/ PrepareVolumeFails(p) \/ UnpackLayer(p) \/ UnpackFails(p)
      \/ MoveVolume(p) \/ MarkUnused(p) \/ CreateImage(p) \/ DiskLimitFails(p)
      \/ MakeImageDir(p) \/ Register(p) \/ Deregister(p)
      \/ DestroyRootfs(p) \/ DestroyRootfsFails(p) \/ RemoveFiles(p)
      \/ RemoveImageDir(p) \/ RemoveImageDirFails(p)
  BY DEF Step, Failure, Pull, Clone, Clean, PullFault, CloneFault, CleanFault, CheckID,
    LockCreate, UnlockCreate, BuildLayer, LockLayer, Recheck, ReturnLayer, WriteVolumeMeta,
    CreateImagePanics, SetOwnership, DestroyExists, DestroyStat, CheckThreshold, LockStore,
    ListVolumes, ListImages, ReadDependencies, KeepPreserved, UnlockStore, ListGarbage,
    RemoveMeta, DestroyVolume, CollectReturns, CallFails, UnusedVolumesFails, MarkUnusedFails,
    DestroyVolumeFails, Crash, volumeVars, imageVars
<1>2. CASE UNCHANGED <<volumes, content, images, rootfs, torn, depFiles, deps>>
  BY <1>2 DEF CacheSeen, HoldsSeen
<1> QED
  BY <1>1, <1>2, BuildUnseen, MoveAdds, MarkEvicts, SnapshotSeen, HoldSeen, DestroySeen

\* The store as earlier commands left it is a cache with the base images that
\* were pulled.
LEMMA InitSeen ==
    ASSUME Init
    PROVE  Cache!CacheInit
<1> DEFINE pulled == {Layers[b] : b \in Pulled}
<1>1. Pulled \subseteq BaseImages /\ pulled \in SUBSET StacksSeen
  BY StoreAssumption DEF StacksSeen
<1>2. CacheSeen = UNION {{Cache!Volume(s, n) : n \in 1..Len(s)} : s \in pulled}
  <2>1. \A b \in BaseImages : \A n \in 1..Len(Layers[b]) :
          /\ Layers[b][n] \in ChainIDs
          /\ Cache!Volume(Layers[b], n) = [id |-> Layers[b][n], content |-> Stack(b, n)]
    BY LayersAssumption DEF Cache!Volume, Cache!Lower, Stack
  <2>2. \A b \in BaseImages : \A n \in 1..Len(Layers[b]) :
          Layers[b][n] \in volumes => content[Layers[b][n]] = Stack(b, n)
    BY InitComplete DEF VolumesComplete
  <2>3. \A c : c \in volumes <=> \E b \in Pulled : \E n \in 1..Len(Layers[b]) : c = Layers[b][n]
    BY DEF Init, ChainSet, Stack
  <2>4. ASSUME NEW v \in CacheSeen
        PROVE  \E s \in pulled : \E n \in 1..Len(s) : v = Cache!Volume(s, n)
    <3>1. PICK c \in volumes \cap ChainIDs : v = [id |-> c, content |-> content[c]]
      BY <2>4 DEF CacheSeen
    <3>2. PICK b \in Pulled : \E n \in 1..Len(Layers[b]) : c = Layers[b][n]
      BY <2>3, <3>1
    <3> QED
      BY <1>1, <2>1, <2>2, <3>1, <3>2
  <2>5. ASSUME NEW b \in Pulled, NEW n \in 1..Len(Layers[b])
        PROVE  Cache!Volume(Layers[b], n) \in CacheSeen
    BY <1>1, <2>1, <2>2, <2>3 DEF CacheSeen
  <2> QED
    BY <2>4, <2>5
<1>3. rootfs \in [ImageIDs -> {{}} \cup {Cache!Whole(s) : s \in pulled}]
  <2>1. \A b \in Pulled : ChainSet(b) = Cache!Whole(Layers[b])
    BY DEF ChainSet, Stack, Cache!Whole, Cache!Lower
  <2>2. \A i \in DOMAIN Installed : Installed[i] \in Pulled
    BY StoreAssumption
  <2> QED
    BY <2>1, <2>2 DEF Init
<1>4. HoldsSeen = rootfs /\ torn = {}
  BY DEF Init, HoldsSeen
<1> QED
  BY <1>1, <1>2, <1>3, <1>4 DEF Cache!CacheInit

(***************************************************************************)
(* create, clean and delete implement the abstract cache: whatever they do *)
(* at the same time, fail at or die of, others see volumes appear complete *)
(* and above their parent's, stay as they are while an image holds them,   *)
(* and images appear whole or not at all and lose their files only for     *)
(* good, on their way out.                                                 *)
(***************************************************************************)
THEOREM CommandsImplementCache == Spec => CacheImplemented
<1> DEFINE RInv == ParentsStay /\ DepsWhole
<1>1. Init => RInv
  <2> SUFFICES ASSUME Init PROVE RInv
    OBVIOUS
  <2>1. \A p \in Procs : cmd[p].op \in {"create", "clean", "delete"} /\ pc[p] = Entry[cmd[p].op]
    BY InitInvariant, CommandFields DEF Init, IInv, TypeOK
  <2>2. ParentsStay
    BY <2>1 DEF Entry, ParentsStay
  <2>3. DepsWhole
    BY StoreAssumption DEF Init, DepsWhole
  <2> QED
    BY <2>2, <2>3
<1>2. IInv /\ RInv /\ [Next]_vars => RInv'
  <2> SUFFICES ASSUME IInv, RInv, [Next]_vars PROVE RInv'
    OBVIOUS
  <2>1. ASSUME NEW p \in Procs, Step(p) \/ Failure(p) PROVE RInv'
    BY <2>1, ParentsStayStep, DepsWholeStep
  <2>2. ASSUME UNCHANGED vars PROVE RInv'
    BY <2>2 DEF vars, volumeVars, imageVars, ParentsStay, ParentExists, Layer, DepsWhole,
      ChainSet, Stack
  <2> QED
    BY <2>1, <2>2 DEF Next, Finished
<1>3. Init => Cache!CacheInit
  BY InitSeen
<1>4. IInv /\ RInv /\ [Next]_vars => [Cache!CacheNext]_<<CacheSeen, rootfs, torn, HoldsSeen>>
  <2> SUFFICES ASSUME IInv, RInv, [Next]_vars
               PROVE  [Cache!CacheNext]_<<CacheSeen, rootfs, torn, HoldsSeen>>
    OBVIOUS
  <2>1. ASSUME NEW p \in Procs, Step(p) \/ Failure(p)
        PROVE  [Cache!CacheNext]_<<CacheSeen, rootfs, torn, HoldsSeen>>
    BY <2>1, StepSeen
  <2>2. ASSUME UNCHANGED vars
        PROVE  UNCHANGED <<CacheSeen, rootfs, torn, HoldsSeen>>
    BY <2>2 DEF vars, volumeVars, imageVars, CacheSeen, HoldsSeen
  <2> QED
    BY <2>1, <2>2 DEF Next, Finished
<1> QED
  BY <1>1, <1>2, <1>3, <1>4, Invariant, PTL DEF Spec, CacheImplemented, Cache!CacheSpec,
    Cache!cacheVars
=============================================================================
