------------------------- MODULE StoreManagerProofs -------------------------
(***************************************************************************)
(* Proofs about the set-up of a store, for any processes, command lines,   *)
(* mappings, failures and reboots.                                         *)
(***************************************************************************)
EXTENDS StoreManager, TLAPS

(***************************************************************************)
(* Types                                                                   *)
(***************************************************************************)

\* Every step of init-store (manager.go InitStore and what it calls) keeps the
\* types.
LEMMA InitStoreTypes ==
    ASSUME StoreTypeOK, NEW p \in Procs, InitStore(p)
    PROVE  StoreTypeOK'
<1> USE DEF StoreTypeOK, Goto, Fail, Steps, InitSteps, Results
<1>1. tree[Top] \in Tree /\ Top \in {"host", "loop"}
  BY DEF Top
<1>2. CASE Validate(p)
  BY <1>2 DEF Validate
<1>3. CASE StatBacking(p) \/ WriteBacking(p) \/ Truncate(p)
  <2>1. backing' \in BackingFile
    BY <1>3 DEF StatBacking, WriteBacking, Truncate, BackingFile, Command
  <2>2. /\ UNCHANGED <<tree, mounted, open, cmd, folder, seen, mapping, faults>>
        /\ \E step \in {"writeBacking", "truncate", "makePath"} : Goto(p, step)
    BY <1>3 DEF StatBacking, WriteBacking, Truncate
  <2> QED
    BY <2>1, <2>2
<1>4. CASE MakePath(p)
  BY <1>1, <1>4 DEF MakePath, Tree
<1>5. CASE Remount(p)
  BY <1>5 DEF Remount
<1>6. CASE Format(p)
  <2>1. NewFileSystem \in Tree
    BY DEF NewFileSystem, NoTree, Tree
  <2>2. tree' \in [{"host", "loop"} -> Tree]
    BY <1>6, <2>1 DEF Format
  <2>3. open' \in [Procs -> {"host", "loop", None}]
    BY <1>6 DEF Format
  <2>4. backing' \in BackingFile
    BY <1>6 DEF Format, BackingFile
  <2> QED
    BY <1>6, <2>2, <2>3, <2>4 DEF Format
<1>7. CASE Mount(p)
  BY <1>7 DEF Mount
<1>8. CASE MakeMeta(p)
  <2>1. "meta" \in Folders
    BY DEF Folders, StoreFolders
  <2> QED
    BY <1>1, <1>8, <2>1 DEF MakeMeta, Tree
<1>9. CASE StatNamespace(p)
  BY <1>9 DEF StatNamespace
<1>10. CASE CreateNamespace(p)
  <2>1. tree' \in [{"host", "loop"} -> Tree]
    <3>1. [tree EXCEPT ![Top].namespace = Empty] \in [{"host", "loop"} -> Tree]
      BY <1>1 DEF Tree
    <3> QED
      BY <1>10, <3>1 DEF CreateNamespace
  <2>2. open' \in [Procs -> {"host", "loop", None}]
    BY <1>1, <1>10 DEF CreateNamespace
  <2>3. /\ UNCHANGED <<mounted, backing, cmd, folder, seen, mapping, faults>>
        /\ \E step \in {"failed", "writeNamespace"} : Goto(p, step)
    BY <1>10 DEF CreateNamespace
  <2> QED
    BY <2>1, <2>2, <2>3
<1>11. CASE WriteNamespace(p)
  <2>1. cmd[p].mapping \in Mappings
    BY DEF Command
  <2>2. tree' \in [{"host", "loop"} -> Tree]
    <3>1. CASE tree' = tree
      BY <3>1
    <3>2. CASE open[p] # None
      <4>1. tree' = [tree EXCEPT ![open[p]].namespace = cmd[p].mapping]
        BY <1>11, <3>2 DEF WriteNamespace
      <4>2. open[p] \in {"host", "loop"}
        BY <3>2
      <4>3. /\ tree[open[p]] \in Tree
            /\ cmd[p].mapping \in Mappings \cup {None, Empty}
        BY <2>1, <4>2
      <4>4. [tree[open[p]] EXCEPT !.namespace = cmd[p].mapping] \in Tree
        BY ONLY <4>3 DEF Tree
      <4> QED
        BY <4>1, <4>2, <4>4
    <3> QED
      BY <1>11, <3>1, <3>2 DEF WriteNamespace
  <2> QED
    BY <1>11, <2>2 DEF WriteNamespace
<1>12. CASE ValidateNamespace(p)
  BY <1>12 DEF ValidateNamespace
<1>13. CASE Configure(p)
  BY <1>13 DEF Configure, StoreFolders
<1>14. CASE MakeFolder(p)
  <2>1. StoreFolders[folder[p]] \in Folders
    BY DEF Folders
  <2> QED
    BY <1>1, <1>14, <2>1 DEF MakeFolder, Tree, StoreFolders
<1> QED
  BY <1>2, <1>3, <1>4, <1>5, <1>6, <1>7, <1>8, <1>9, <1>10, <1>11, <1>12, <1>13,
     <1>14 DEF InitStore

\* Every step of delete-store (manager.go DeleteStore) keeps the types.
LEMMA DeleteStoreTypes ==
    ASSUME StoreTypeOK, NEW p \in Procs, DeleteStore(p)
    PROVE  StoreTypeOK'
<1> USE DEF StoreTypeOK, Goto, Fail, Steps, DeleteSteps, Results
<1>1. tree[Top] \in Tree /\ Top \in {"host", "loop"}
  BY DEF Top
<1>2. CASE StatStore(p)
  BY <1>2 DEF StatStore
<1>3. CASE LockForDelete(p)
  BY <1>3 DEF LockForDelete
<1>4. CASE ListImages(p)
  BY <1>4 DEF ListImages, Images
<1>5. CASE DestroyImages(p)
  <2>1. CASE Goto(p, "listVolumes") /\ UNCHANGED <<tree, seen>>
    BY <1>5, <2>1 DEF DestroyImages
  <2>2. CASE ~(Goto(p, "listVolumes") /\ UNCHANGED <<tree, seen>>)
    <3>1. PICK i \in seen[p] :
            /\ tree' = [tree EXCEPT ![Top].images[i] = None]
            /\ seen' = [seen EXCEPT ![p] = @ \ {i}]
            /\ UNCHANGED pc \/ pc' = [pc EXCEPT ![p] = "failed"]
      BY <1>5, <2>2 DEF DestroyImages
    <3>2. i \in ImageIDs
      BY <1>5 DEF DestroyImages
    <3>3. tree' \in [{"host", "loop"} -> Tree]
      BY <1>1, <3>1, <3>2 DEF Tree
    <3>4. seen' \in [Procs -> SUBSET (ImageIDs \cup {"volume"})]
      BY <3>1
    <3> QED
      BY <1>5, <3>1, <3>3, <3>4 DEF DestroyImages
  <2> QED
    BY <2>1, <2>2
<1>6. CASE ListVolumes(p)
  BY <1>6 DEF ListVolumes
<1>7. CASE DestroyVolumes(p)
  <2>1. tree' \in [{"host", "loop"} -> Tree]
    <3>1. [tree EXCEPT ![Top].volume = None] \in [{"host", "loop"} -> Tree]
      BY <1>1 DEF Tree
    <3> QED
      BY <1>7, <3>1 DEF DestroyVolumes
  <2> QED
    BY <1>7, <2>1 DEF DestroyVolumes
<1>8. CASE RemoveEntry(p)
  <2>1. tree' \in [{"host", "loop"} -> Tree]
    <3>1. [tree EXCEPT ![Top].volume = None] \in [{"host", "loop"} -> Tree]
      BY <1>1 DEF Tree
    <3>2. [tree EXCEPT ![Top].namespace = None] \in [{"host", "loop"} -> Tree]
      BY <1>1 DEF Tree
    <3>3. \/ \E i \in ImageIDs : tree' = [tree EXCEPT ![Top].images[i] = None]
          \/ tree' = [tree EXCEPT ![Top].volume = None]
          \/ tree' = [tree EXCEPT ![Top].namespace = None]
          \/ \E f : tree' = [tree EXCEPT ![Top].dirs = @ \ {f}]
      BY <1>8, Zenon DEF RemoveEntry, Images
    <3>4. CASE \E i \in ImageIDs : tree' = [tree EXCEPT ![Top].images[i] = None]
      <4>1. PICK i \in ImageIDs : tree' = [tree EXCEPT ![Top].images[i] = None]
        BY <3>4
      <4> QED
        BY <1>1, <4>1 DEF Tree
    <3>5. CASE \E f : tree' = [tree EXCEPT ![Top].dirs = @ \ {f}]
      <4>1. PICK f : tree' = [tree EXCEPT ![Top].dirs = @ \ {f}]
        BY <3>5
      <4> QED
        BY <1>1, <4>1 DEF Tree
    <3> QED
      BY <3>1, <3>2, <3>3, <3>4, <3>5, Zenon
  <2> QED
    BY <1>8, <2>1 DEF RemoveEntry
<1>9. CASE RemovePath(p)
  <2>1. tree' \in [{"host", "loop"} -> Tree]
    <3>1. [tree EXCEPT !["host"].dirs = {}] \in [{"host", "loop"} -> Tree]
      <4>1. tree["host"] \in Tree
        OBVIOUS
      <4>2. {} \in SUBSET (Folders \cup {"path"})
        OBVIOUS
      <4>3. [tree["host"] EXCEPT !.dirs = {}] \in Tree
        BY <4>1, <4>2 DEF Tree
      <4> QED
        BY <4>3
    <3> QED
      BY <1>9, <3>1 DEF RemovePath
  <2> QED
    BY <1>9, <2>1 DEF RemovePath
<1>10. CASE RemoveAllFails(p)
  BY <1>10 DEF RemoveAllFails
<1> QED
  BY <1>2, <1>3, <1>4, <1>5, <1>6, <1>7, <1>8, <1>9, <1>10 DEF DeleteStore

\* Every step of create that depends on the set-up keeps the types.
LEMMA CreateImageTypes ==
    ASSUME StoreTypeOK, NEW p \in Procs, CreateImage(p)
    PROVE  StoreTypeOK'
<1> USE DEF StoreTypeOK, Goto, Fail, Steps, CreateSteps, Results
<1>1. tree[Top] \in Tree /\ Top \in {"host", "loop"} /\ cmd[p].id \in ImageIDs
  BY DEF Top, Command
<1>0. [tree EXCEPT ![Top].images[cmd[p].id] = None] \in [{"host", "loop"} -> Tree]
  BY <1>1 DEF Tree
<1>2. CASE CheckInitialized(p)
  BY <1>2 DEF CheckInitialized
<1>3. CASE ReadMappings(p)
  BY <1>3 DEF ReadMappings
<1>4. CASE LockForCreate(p)
  BY <1>4 DEF LockForCreate
<1>5. CASE Pull(p)
  <2>1. tree' \in [{"host", "loop"} -> Tree]
    <3>1. [tree EXCEPT ![Top].volume = IF @ = None THEN mapping[p] ELSE @]
            \in [{"host", "loop"} -> Tree]
      BY <1>1 DEF Tree
    <3> QED
      BY <1>5, <3>1 DEF Pull
  <2> QED
    BY <1>5, <2>1 DEF Pull
<1>6. CASE MakeImage(p)
  <2>1. tree' \in [{"host", "loop"} -> Tree]
    <3>1. [tree EXCEPT ![Top].images[cmd[p].id] = Bare] \in [{"host", "loop"} -> Tree]
      BY <1>1 DEF Tree
    <3> QED
      BY <1>6, <3>1, <1>0 DEF MakeImage
  <2> QED
    BY <1>6, <2>1 DEF MakeImage
<1>7. CASE Snapshot(p)
  BY <1>1, <1>7 DEF Snapshot, Tree, Store
<1>8. CASE Register(p)
  <2>1. tree' \in [{"host", "loop"} -> Tree]
    BY <1>0, <1>8 DEF Register
  <2> QED
    BY <1>8, <2>1 DEF Register
<1> QED
  BY <1>2, <1>3, <1>4, <1>5, <1>6, <1>7, <1>8 DEF CreateImage

\* The state keeps its types under all steps of the commands, and when commands
\* fail, die or the machine reboots.
THEOREM StoreTypesHold == Spec => []StoreTypeOK
<1>1. Init => StoreTypeOK
  <2> SUFFICES ASSUME Init PROVE StoreTypeOK
    OBVIOUS
  <2>1. NoTree \in Tree /\ \A m \in Mappings : ReadyTree(m) \in Tree
    BY DEF NoTree, ReadyTree, Tree
  <2>2. tree \in [{"host", "loop"} -> Tree]
    BY <2>1, ManagerAssumption DEF Init
  <2>3. cmd \in [Procs -> Command]
    BY ManagerAssumption DEF Init
  <2>4. backing = [holds |-> "absent", size |-> 0] /\ mounted \in BOOLEAN
    BY DEF Init
  <2>7. backing \in BackingFile
    BY <2>4 DEF BackingFile
  <2>8. open \in [Procs -> {"host", "loop", None}]
    BY DEF Init
  <2>5. /\ pc \in [Procs -> Steps \cup Results \cup {"idle"}]
        /\ folder \in [Procs -> 1..Len(StoreFolders)]
        /\ mapping \in [Procs -> Mappings \cup {None}]
        /\ faults \in 0..MaxFaults
    BY ManagerAssumption DEF Init, StoreFolders
  <2>6. /\ seen \in [Procs -> SUBSET (ImageIDs \cup {"volume"})]
        /\ \A p \in Procs : pc[p] = "destroyImages" => seen[p] \subseteq ImageIDs
    BY DEF Init
  <2> QED
    BY <2>2, <2>3, <2>4, <2>5, <2>6, <2>7, <2>8 DEF StoreTypeOK
<1>2. StoreTypeOK /\ [Next]_vars => StoreTypeOK'
  <2> SUFFICES ASSUME StoreTypeOK, [Next]_vars PROVE StoreTypeOK'
    OBVIOUS
  <2>1. ASSUME NEW p \in Procs, Start(p) PROVE StoreTypeOK'
    <3>1. cmd[p].op \in Operations
      BY DEF StoreTypeOK, Command
    <3>2. Entry[cmd[p].op] \in {"validate", "statStore", "checkInitialized"}
      BY <3>1 DEF Entry, Operations
    <3>3. {"validate", "statStore", "checkInitialized"} \subseteq Steps \ {"destroyImages"}
      BY DEF Steps, InitSteps, DeleteSteps, CreateSteps
    <3> QED
      BY <2>1, <3>2, <3>3 DEF StoreTypeOK, Start, Goto
  <2>2. ASSUME NEW p \in Procs, Abort(p) \/ IOError(p) PROVE StoreTypeOK'
    <3>1. UNCHANGED <<tree, mounted, backing, cmd, folder, seen, mapping>>
      BY <2>2 DEF Abort, IOError
    <3>2. /\ faults' \in 0..MaxFaults
          /\ open' = [open EXCEPT ![p] = None]
          /\ \E r \in {"aborted", "failed"} : pc' = [pc EXCEPT ![p] = r]
      BY <2>2, ManagerAssumption DEF StoreTypeOK, Abort, IOError, Goto, Fail
    <3> QED
      BY <3>1, <3>2 DEF StoreTypeOK, Results
  <2>3. CASE Reboot
    <3>1. pc' \in [Procs -> Steps \cup Results \cup {"idle"}]
      BY <2>3 DEF StoreTypeOK, Reboot, Results
    <3>2. mounted' \in BOOLEAN
      BY <2>3 DEF Reboot
    <3>3. \A p \in Procs : pc'[p] = "destroyImages" => seen'[p] \subseteq ImageIDs
      BY <2>3 DEF StoreTypeOK, Reboot
    <3> QED
      BY <2>3, <3>1, <3>2, <3>3, ManagerAssumption DEF StoreTypeOK, Reboot
  <2>4. CASE UNCHANGED vars
    BY <2>4 DEF StoreTypeOK, vars
  <2> QED
    BY <2>1, <2>2, <2>3, <2>4, InitStoreTypes, DeleteStoreTypes, CreateImageTypes
    DEF Next, Finished
<1> QED
  BY <1>1, <1>2, PTL DEF Spec

(***************************************************************************)
(* The store is on btrfs                                                   *)
(***************************************************************************)

\* Nothing that init-store does breaks MountInv: it gets past its mount only if
\* the path is valid, was remounted or has been mounted.
LEMMA InitStoreMounts ==
    ASSUME StoreTypeOK, MountInv, ~HostBtrfs, NEW p \in Procs, InitStore(p)
    PROVE  MountInv'
<1> SUFFICES /\ "images" \notin tree'["host"].dirs
             /\ \A q \in Procs : pc'[q] \in FilledSteps => mounted'
  BY DEF MountInv
<1> USE DEF MountInv, StoreTypeOK, Goto, Fail, FilledSteps
<1>1. tree["host"] \in Tree /\ tree["loop"] \in Tree
  OBVIOUS
<1>2. CASE Validate(p)
  BY <1>2 DEF Validate, ValidFileSystem
<1>3. CASE StatBacking(p) \/ WriteBacking(p) \/ Truncate(p)
  BY <1>3 DEF StatBacking, WriteBacking, Truncate
<1>4. CASE MakePath(p)
  BY <1>1, <1>4 DEF MakePath, Top, Tree
<1>5. CASE Remount(p)
  BY <1>5 DEF Remount
<1>6. CASE Format(p)
  BY <1>6 DEF Format
<1>7. CASE Mount(p)
  BY <1>7 DEF Mount
<1>8. CASE MakeMeta(p)
  BY <1>1, <1>8 DEF MakeMeta, Top, Tree
<1>9. CASE StatNamespace(p)
  BY <1>9 DEF StatNamespace
<1>10. CASE CreateNamespace(p)
  BY <1>1, <1>10 DEF CreateNamespace, Top, Tree
<1>11. CASE WriteNamespace(p)
  BY <1>1, <1>11 DEF WriteNamespace, Tree
<1>12. CASE ValidateNamespace(p)
  BY <1>12 DEF ValidateNamespace
<1>13. CASE Configure(p)
  BY <1>13 DEF Configure
<1>14. CASE MakeFolder(p)
  BY <1>1, <1>14 DEF MakeFolder, Top, Tree
<1> QED
  BY <1>2, <1>3, <1>4, <1>5, <1>6, <1>7, <1>8, <1>9, <1>10, <1>11, <1>12, <1>13,
     <1>14 DEF InitStore

\* Neither delete-store nor create makes a folder or touches the mount.
LEMMA OthersKeepMount ==
    ASSUME StoreTypeOK, NEW p \in Procs, DeleteStore(p) \/ CreateImage(p)
    PROVE  /\ \A t \in {"host", "loop"} : tree'[t].dirs \subseteq tree[t].dirs
           /\ mounted' = mounted
           /\ \A q \in Procs : pc'[q] = pc[q] \/ pc'[q] \notin InitSteps
<1> USE DEF StoreTypeOK, Goto, Fail, InitSteps
<1>1. Top \in {"host", "loop"} /\ \A t \in {"host", "loop"} : tree[t] \in Tree
  BY DEF Top
<1>2. CASE StatStore(p)
  BY <1>2 DEF StatStore
<1>3. CASE LockForDelete(p)
  BY <1>3 DEF LockForDelete
<1>4. CASE ListImages(p)
  BY <1>4 DEF ListImages
<1>5. CASE DestroyImages(p)
  <2>1. CASE UNCHANGED tree
    BY <1>5, <2>1 DEF DestroyImages
  <2>2. ASSUME NEW i \in seen[p], tree' = [tree EXCEPT ![Top].images[i] = None]
        PROVE  \A t \in {"host", "loop"} : tree'[t].dirs = tree[t].dirs
    BY <1>1, <2>2 DEF Tree
  <2>3. CASE \E i \in seen[p] : tree' = [tree EXCEPT ![Top].images[i] = None]
    <3>1. \A t \in {"host", "loop"} : tree'[t].dirs = tree[t].dirs
      BY <2>2, <2>3
    <3> QED
      BY <1>5, <3>1 DEF DestroyImages
  <2> QED
    BY <1>5, <2>1, <2>3 DEF DestroyImages
<1>6. CASE ListVolumes(p)
  BY <1>6 DEF ListVolumes
<1>7. CASE DestroyVolumes(p)
  <2>1. CASE UNCHANGED tree
    BY <1>7, <2>1 DEF DestroyVolumes
  <2>2. CASE tree' = [tree EXCEPT ![Top].volume = None]
    <3>1. \A t \in {"host", "loop"} : tree'[t].dirs = tree[t].dirs
      BY <1>1, <2>2 DEF Tree
    <3> QED
      BY <1>7, <3>1 DEF DestroyVolumes
  <2> QED
    BY <1>7, <2>1, <2>2 DEF DestroyVolumes
<1>8. CASE RemoveEntry(p)
  <2>1. mounted' = mounted /\ pc' = pc
    BY <1>8 DEF RemoveEntry
  <2>2. CASE \E i \in Images : tree' = [tree EXCEPT ![Top].images[i] = None]
    BY <1>1, <2>1, <2>2 DEF Tree
  <2>3. CASE tree' = [tree EXCEPT ![Top].volume = None]
    BY <1>1, <2>1, <2>3 DEF Tree
  <2>4. CASE tree' = [tree EXCEPT ![Top].namespace = None]
    BY <1>1, <2>1, <2>4 DEF Tree
  <2>5. CASE \E f \in Store.dirs \ {"path"} : tree' = [tree EXCEPT ![Top].dirs = @ \ {f}]
    BY <1>1, <2>1, <2>5 DEF Tree
  <2> QED
    BY <1>8, <2>2, <2>3, <2>4, <2>5, Zenon DEF RemoveEntry
<1>9. CASE RemovePath(p)
  BY <1>1, <1>9 DEF RemovePath, Tree
<1>10. CASE RemoveAllFails(p)
  BY <1>10 DEF RemoveAllFails
<1>11. CASE CheckInitialized(p)
  BY <1>11 DEF CheckInitialized
<1>12. CASE ReadMappings(p)
  BY <1>12 DEF ReadMappings
<1>13. CASE LockForCreate(p)
  BY <1>13 DEF LockForCreate
<1>14. CASE Pull(p)
  <2>1. CASE UNCHANGED tree
    BY <1>14, <2>1 DEF Pull
  <2>2. CASE tree' = [tree EXCEPT ![Top].volume = IF @ = None THEN mapping[p] ELSE @]
    <3>1. \A t \in {"host", "loop"} : tree'[t].dirs = tree[t].dirs
      BY <1>1, <2>2 DEF Tree
    <3> QED
      BY <1>14, <3>1 DEF Pull
  <2> QED
    BY <1>14, <2>1, <2>2 DEF Pull
<1>15. CASE MakeImage(p)
  <2>1. CASE tree' = [tree EXCEPT ![Top].images[cmd[p].id] = None]
    <3>1. \A t \in {"host", "loop"} : tree'[t].dirs = tree[t].dirs
      BY <1>1, <2>1 DEF Tree
    <3> QED
      BY <1>15, <3>1 DEF MakeImage
  <2>2. CASE tree' = [tree EXCEPT ![Top].images[cmd[p].id] = Bare]
    <3>1. \A t \in {"host", "loop"} : tree'[t].dirs = tree[t].dirs
      BY <1>1, <2>2 DEF Tree
    <3> QED
      BY <1>15, <3>1 DEF MakeImage
  <2> QED
    BY <1>15, <2>1, <2>2 DEF MakeImage
<1>16. CASE Snapshot(p)
  BY <1>1, <1>16 DEF Snapshot, Tree
<1>17. CASE Register(p)
  <2>1. CASE UNCHANGED tree
    BY <1>17, <2>1 DEF Register
  <2>2. CASE tree' = [tree EXCEPT ![Top].images[cmd[p].id] = None]
    <3>1. \A t \in {"host", "loop"} : tree'[t].dirs = tree[t].dirs
      BY <1>1, <2>2 DEF Tree
    <3> QED
      BY <1>17, <3>1 DEF Register
  <2> QED
    BY <1>17, <2>1, <2>2 DEF Register
<1> QED
  BY <1>2, <1>3, <1>4, <1>5, <1>6, <1>7, <1>8, <1>9, <1>10, <1>11, <1>12, <1>13,
     <1>14, <1>15, <1>16, <1>17 DEF DeleteStore, CreateImage

\* An init-store that makes folders on a host without btrfs finds the backing
\* file mounted, so the directory under the mount point stays without folders.
LEMMA MountsFirst == Spec => []MountInv
<1>1. Init => MountInv
  BY ManagerAssumption DEF Init, MountInv, NoTree, FilledSteps
<1>2. StoreTypeOK /\ StoreTypeOK' /\ MountInv /\ [Next]_vars => MountInv'
  <2> SUFFICES ASSUME StoreTypeOK, MountInv, [Next]_vars, ~HostBtrfs
               PROVE  MountInv'
    BY DEF MountInv
  <2> USE DEF MountInv, FilledSteps
  <2>1. ASSUME NEW p \in Procs, Start(p) PROVE MountInv'
    BY <2>1 DEF StoreTypeOK, Start, Goto, Entry, Command, Operations
  <2>2. ASSUME NEW p \in Procs, DeleteStore(p) \/ CreateImage(p) PROVE MountInv'
    <3>1. FilledSteps \subseteq InitSteps
      BY DEF InitSteps
    <3> QED
      BY <2>2, <3>1, OthersKeepMount
  <2>3. ASSUME NEW p \in Procs, Abort(p) \/ IOError(p) PROVE MountInv'
    BY <2>3 DEF StoreTypeOK, Abort, IOError, Goto, Fail
  <2>4. CASE Reboot
    BY <2>4 DEF StoreTypeOK, Reboot, Running, Steps, InitSteps
  <2>5. CASE UNCHANGED vars
    BY <2>5 DEF vars
  <2> QED
    BY <2>1, <2>2, <2>3, <2>4, <2>5, InitStoreMounts DEF Next, Finished
<1> QED
  BY <1>1, <1>2, StoreTypesHold, PTL DEF Spec

\* Every initialized store is on btrfs, for all command lines and overlaps: no
\* init-store makes folders under the mount point of a store that is not mounted.
THEOREM StoresAreBtrfs == Spec => []StoreIsBtrfs
<1>1. MountInv => StoreIsBtrfs
  BY DEF MountInv, StoreIsBtrfs, IsStoreInitialized, Store, Top, Folders,
      StoreFolders
<1> QED
  BY <1>1, MountsFirst, PTL

(***************************************************************************)
(* An initialized store has its mappings                                   *)
(***************************************************************************)

\* No step changes a command line.
LEMMA SameCommandLines ==
    ASSUME [Next]_vars
    PROVE  cmd' = cmd
BY DEF Next, Start, InitStore, Validate, StatBacking, WriteBacking, Truncate, MakePath, Remount,
  Format, Mount, MakeMeta, StatNamespace, CreateNamespace, WriteNamespace, ValidateNamespace,
  Configure, MakeFolder, DeleteStore, StatStore, LockForDelete, ListImages, DestroyImages,
  ListVolumes, DestroyVolumes, RemoveEntry, RemovePath, RemoveAllFails, CreateImage,
  CheckInitialized, ReadMappings, LockForCreate, Pull, MakeImage, Snapshot, Register, Abort,
  IOError, Reboot, Finished, vars

\* A process takes only the steps of the command it was started with.
LEMMA StepsAreOwn == Spec => []OwnSteps
<1>1. Init => OwnSteps
  BY DEF Init, OwnSteps, InitSteps, DeleteSteps, CreateSteps
<1>2. StoreTypeOK /\ OwnSteps /\ [Next]_vars => OwnSteps'
  <2> SUFFICES ASSUME StoreTypeOK, OwnSteps, [Next]_vars PROVE OwnSteps'
    OBVIOUS
  <2> USE DEF OwnSteps, StoreTypeOK, Goto, Fail, InitSteps, DeleteSteps, CreateSteps
  <2>1. ASSUME NEW p \in Procs, Start(p) PROVE OwnSteps'
    BY <2>1 DEF Start, Entry, Command, Operations
  <2>2. ASSUME NEW p \in Procs, InitStore(p) PROVE OwnSteps'
    BY <2>2 DEF InitStore, Validate, StatBacking, WriteBacking, Truncate, MakePath, Remount,
      Format, Mount, MakeMeta, StatNamespace, CreateNamespace, WriteNamespace, ValidateNamespace,
      Configure, MakeFolder
  <2>3. ASSUME NEW p \in Procs, DeleteStore(p) PROVE OwnSteps'
    BY <2>3 DEF DeleteStore, StatStore, LockForDelete, ListImages, DestroyImages,
        ListVolumes, DestroyVolumes, RemoveEntry, RemovePath, RemoveAllFails
  <2>4. ASSUME NEW p \in Procs, CreateImage(p) PROVE OwnSteps'
    BY <2>4 DEF CreateImage, CheckInitialized, ReadMappings, LockForCreate, Pull,
        MakeImage, Snapshot, Register
  <2>5. ASSUME NEW p \in Procs, Abort(p) \/ IOError(p) PROVE OwnSteps'
    BY <2>5 DEF Abort, IOError
  <2>6. CASE Reboot
    BY <2>6 DEF Reboot
  <2>7. CASE UNCHANGED vars
    BY <2>7 DEF vars
  <2> QED
    BY <2>1, <2>2, <2>3, <2>4, <2>5, <2>6, <2>7 DEF Next, Finished
<1> QED
  BY <1>1, <1>2, StoreTypesHold, PTL DEF Spec

\* create leaves the namespace file of either tree alone.
LEMMA CreateKeepsNamespace ==
    ASSUME StoreTypeOK, NEW p \in Procs, CreateImage(p)
    PROVE  /\ \A t \in {"host", "loop"} : tree'[t].namespace = tree[t].namespace
           /\ UNCHANGED <<open, cmd>>
<1> USE DEF StoreTypeOK, Goto, Fail
<1>1. Top \in {"host", "loop"} /\ \A t \in {"host", "loop"} : tree[t] \in Tree
  BY DEF Top
<1>2. UNCHANGED <<open, cmd>>
  BY DEF CreateImage, CheckInitialized, ReadMappings, LockForCreate, Pull, MakeImage,
      Snapshot, Register
<1>3. \/ UNCHANGED tree
      \/ \E v : tree' = [tree EXCEPT ![Top].volume = v]
      \/ \E i, r : tree' = [tree EXCEPT ![Top].images[i] = r]
  BY DEF CreateImage, CheckInitialized, ReadMappings, LockForCreate, Pull, MakeImage,
      Snapshot, Register
<1>4. CASE \E v : tree' = [tree EXCEPT ![Top].volume = v]
  BY <1>1, <1>2, <1>4 DEF Tree
<1>5. CASE \E i, r : tree' = [tree EXCEPT ![Top].images[i] = r]
  BY <1>1, <1>2, <1>5 DEF Tree
<1> QED
  BY <1>2, <1>3, <1>4, <1>5

\* The init-store that is running keeps SetupInv, since no other one does.
LEMMA InitStoreSetsUp ==
    ASSUME StoreTypeOK, SetupInv, NEW p \in Procs, InitStore(p),
           \A q \in Procs : cmd[q].op # "delete-store"
    PROVE  SetupInv'
<1> USE DEF StoreTypeOK, Goto, Fail, Store
<1>1. pc[p] \in InitSteps /\ \A q \in Procs \ {p} : pc'[q] = pc[q] /\ pc'[q] \notin InitSteps
  <2>1. pc[p] \in InitSteps /\ \A q \in Procs \ {p} : pc'[q] = pc[q]
    BY DEF InitStore, Validate, StatBacking, WriteBacking, Truncate, MakePath, Remount, Format,
      Mount, MakeMeta, StatNamespace, CreateNamespace, WriteNamespace, ValidateNamespace,
      Configure, MakeFolder, InitSteps
  <2> QED
    BY <2>1 DEF SetupInv
<1>2. Top \in {"host", "loop"} /\ \A t \in {"host", "loop"} : tree[t] \in Tree
  BY DEF Top
<1> DEFINE Named ==
      \A t \in {"host", "loop"} :
        tree[t].namespace \notin Mappings => "images" \notin tree[t].dirs
           Mine ==
      /\ pc[p] = "createNamespace" => Store.namespace = None
      /\ pc[p] = "writeNamespace" => open[p] = Top
      /\ pc[p] \in {"configure", "makeFolder"} => Store.namespace \in Mappings
<1>3. Named /\ Mine
  BY DEF SetupInv
<1> SUFFICES Named' /\ Mine'
  BY <1>1 DEF SetupInv, InitSteps
<1>4. CASE Validate(p)
  BY <1>3, <1>4 DEF Validate
<1>5. CASE StatBacking(p) \/ WriteBacking(p) \/ Truncate(p)
  BY <1>3, <1>5 DEF StatBacking, WriteBacking, Truncate
<1>6. CASE MakePath(p)
  BY <1>2, <1>3, <1>6 DEF MakePath, Tree
<1>7. CASE Remount(p)
  BY <1>3, <1>7 DEF Remount
<1>8. CASE Format(p)
  BY <1>2, <1>3, <1>8 DEF Format, NewFileSystem, NoTree
<1>9. CASE Mount(p)
  BY <1>3, <1>9 DEF Mount
<1>10. CASE MakeMeta(p)
  BY <1>2, <1>3, <1>10 DEF MakeMeta, Tree
<1>11. CASE StatNamespace(p)
  BY <1>3, <1>11 DEF StatNamespace, Top
<1>12. CASE CreateNamespace(p)
  <2>1. CASE UNCHANGED <<tree, open>>
    BY <1>3, <1>12, <2>1 DEF CreateNamespace, Top
  <2>2. CASE ~UNCHANGED <<tree, open>>
    <3>1. /\ tree' = [tree EXCEPT ![Top].namespace = Empty]
          /\ open' = [open EXCEPT ![p] = Top]
          /\ mounted' = mounted /\ pc'[p] = "writeNamespace"
          /\ pc[p] = "createNamespace"
      BY <1>12, <2>2 DEF CreateNamespace
    <3>2. /\ \A t \in {"host", "loop"} : tree'[t].dirs = tree[t].dirs
          /\ \A t \in {"host", "loop"} \ {Top} : tree'[t].namespace = tree[t].namespace
      BY <1>2, <3>1 DEF Tree
    <3>3. "images" \notin tree[Top].dirs
      BY <1>2, <1>3, <3>1, ManagerAssumption
    <3>4. Named'
      BY <1>3, <3>2, <3>3
    <3>5. Mine'
      BY <3>1 DEF Top
    <3> QED
      BY <3>4, <3>5
  <2> QED
    BY <2>1, <2>2
<1>13. CASE WriteNamespace(p)
  <2>1. open[p] = Top /\ Top # None
    <3>1. open[p] = Top
      BY <1>3, <1>13 DEF WriteNamespace
    <3> QED
      BY <1>2, <3>1, ManagerAssumption
  <2>2. /\ tree' = [tree EXCEPT ![Top].namespace = cmd[p].mapping]
        /\ mounted' = mounted /\ pc'[p] = "configure"
    BY <1>13, <2>1 DEF WriteNamespace
  <2>3. /\ \A t \in {"host", "loop"} : tree'[t].dirs = tree[t].dirs
        /\ \A t \in {"host", "loop"} \ {Top} : tree'[t].namespace = tree[t].namespace
        /\ tree'[Top].namespace \in Mappings
    BY <1>2, <2>2 DEF Tree, Command
  <2>4. Top' = Top
    BY <2>2 DEF Top
  <2> QED
    BY <1>3, <2>2, <2>3, <2>4
<1>14. CASE ValidateNamespace(p)
  BY <1>3, <1>14 DEF ValidateNamespace, Command, Top
<1>15. CASE Configure(p)
  BY <1>3, <1>15 DEF Configure, Top
<1>16. CASE MakeFolder(p)
  <2>1. CASE UNCHANGED tree
    BY <1>3, <1>16, <2>1 DEF MakeFolder, Top
  <2>2. CASE ~UNCHANGED tree
    <3>1. /\ tree' = [tree EXCEPT ![Top].dirs = @ \cup {StoreFolders[folder[p]]}]
          /\ mounted' = mounted /\ pc[p] = "makeFolder"
          /\ pc'[p] \in {"makeFolder", "done"}
      BY <1>16, <2>2 DEF MakeFolder
    <3>2. /\ \A t \in {"host", "loop"} : tree'[t].namespace = tree[t].namespace
          /\ \A t \in {"host", "loop"} \ {Top} : tree'[t].dirs = tree[t].dirs
      BY <1>2, <3>1 DEF Tree
    <3>3. tree[Top].namespace \in Mappings
      BY <1>3, <3>1
    <3>4. Top' = Top
      BY <3>1 DEF Top
    <3> QED
      BY <1>2, <1>3, <3>1, <3>2, <3>3, <3>4
  <2> QED
    BY <2>1, <2>2
<1> QED
  BY <1>4, <1>5, <1>6, <1>7, <1>8, <1>9, <1>10, <1>11, <1>12, <1>13, <1>14, <1>15,
     <1>16 DEF InitStore

\* Where init-stores do not overlap and nothing is deleted, a store that passes
\* IsStoreInitialized has mappings that can be read, wherever set-ups fail, die
\* or are cut short by a reboot.
THEOREM StoresAreUsable ==
    ASSUME {"init-store"} \notin Overlap
    PROVE  Spec => []UsableStore
<1>1. Init => SetupInv
  BY ManagerAssumption DEF Init, SetupInv, NoTree, ReadyTree, InitSteps
<1>2. StoreTypeOK /\ OwnSteps /\ SetupInv /\ [Next]_vars => SetupInv'
  <2> SUFFICES ASSUME StoreTypeOK, OwnSteps, SetupInv, [Next]_vars,
                      \A q \in Procs : cmd'[q].op # "delete-store"
               PROVE  SetupInv'
    BY DEF SetupInv
  <2>0. cmd' = cmd
    BY SameCommandLines
  <2>1. ASSUME NEW p \in Procs, Start(p) PROVE SetupInv'
    <3>1. pc'[p] \in {"validate", "statStore", "checkInitialized"}
      BY <2>1 DEF Start, Goto, Entry, StoreTypeOK, Command, Operations
    <3>2. \A q \in Procs \ {p} : pc'[q] = pc[q]
      BY <2>1 DEF Start, Goto, StoreTypeOK
    <3>3. ASSUME NEW q \in Procs \ {p}, pc[q] \in InitSteps, pc'[p] \in InitSteps
          PROVE  FALSE
      <4>1. cmd[p].op = "init-store"
        BY <2>1, <3>3 DEF Start, Goto, Entry, StoreTypeOK, Command, Operations,
            InitSteps
      <4>2. cmd[q].op = "init-store" /\ Running(q)
        BY <3>3 DEF OwnSteps, Running, Steps
      <4>3. {cmd[p].op, cmd[q].op} = {"init-store"}
        BY <4>1, <4>2
      <4> QED
        BY <2>1, <4>2, <4>3 DEF Start
    <3>4. UNCHANGED <<tree, mounted, open>>
      BY <2>1 DEF Start
    <3> QED
      BY <2>0, <3>1, <3>2, <3>3, <3>4 DEF SetupInv, Store, Top
  <2>2. ASSUME NEW p \in Procs, InitStore(p) PROVE SetupInv'
    BY <2>0, <2>2, InitStoreSetsUp
  <2>3. ASSUME NEW p \in Procs, DeleteStore(p) PROVE FALSE
    BY <2>0, <2>3 DEF OwnSteps, DeleteStore, StatStore, LockForDelete, ListImages,
        DestroyImages, ListVolumes, DestroyVolumes, RemoveEntry, RemovePath,
        RemoveAllFails, DeleteSteps
  <2>4. ASSUME NEW p \in Procs, CreateImage(p) PROVE SetupInv'
    <3>1. \A t \in {"host", "loop"} : tree'[t].dirs \subseteq tree[t].dirs
      BY <2>4, OthersKeepMount
    <3>2. mounted' = mounted /\ \A q \in Procs : pc'[q] = pc[q] \/ pc'[q] \notin InitSteps
      BY <2>4, OthersKeepMount
    <3>3. \A t \in {"host", "loop"} : tree'[t].namespace = tree[t].namespace
      BY <2>4, CreateKeepsNamespace
    <3>4. open' = open
      BY <2>4, CreateKeepsNamespace
    <3>5. Store'.namespace = Store.namespace /\ Top' = Top
      BY <3>2, <3>3 DEF Store, Top
    <3> QED
      BY <2>0, <3>1, <3>2, <3>3, <3>4, <3>5 DEF SetupInv, InitSteps
  <2>5. ASSUME NEW p \in Procs, Abort(p) \/ IOError(p) PROVE SetupInv'
    <3>1. /\ UNCHANGED <<tree, mounted>> /\ pc'[p] \in {"aborted", "failed"}
          /\ \A q \in Procs \ {p} : pc'[q] = pc[q] /\ open'[q] = open[q]
      BY <2>5 DEF StoreTypeOK, Abort, IOError, Goto, Fail
    <3> QED
      BY <2>0, <3>1 DEF SetupInv, Store, Top, InitSteps
  <2>6. CASE Reboot
    BY <2>0, <2>6 DEF SetupInv, StoreTypeOK, Reboot, Running, Steps, InitSteps
  <2>7. CASE UNCHANGED vars
    BY <2>7 DEF SetupInv, vars, Store, Top
  <2> QED
    BY <2>1, <2>2, <2>3, <2>4, <2>5, <2>6, <2>7 DEF Next, Finished
<1>3. SetupInv => UsableStore
  BY DEF SetupInv, UsableStore, IsStoreInitialized, Folders, StoreFolders
<1> QED
  BY <1>1, <1>2, <1>3, StoreTypesHold, StepsAreOwn, PTL DEF Spec

(***************************************************************************)
(* A deleted store                                                         *)
(***************************************************************************)

\* A folder is inside its parent, and files are inside their folders.
Shape(t) ==
    /\ \A f \in t.dirs : Parent(f) \in t.dirs
    /\ \A i \in ImageIDs : t.images[i] # None => "images" \in t.dirs
    /\ t.volume # None => "volumes" \in t.dirs
    /\ t.namespace # None => "meta" \in t.dirs

\* Without the path there is nothing, and nothing comes back.
GoneInv ==
    (\A p \in Procs : cmd[p].op # "init-store") =>
        /\ ~mounted /\ Shape(tree["host"])
        /\ (\E p \in Procs : cmd[p].op = "delete-store" /\ pc[p] = "done") =>
             "path" \notin tree["host"].dirs

\* What has a shape and no path is empty.
LEMMA NothingWithoutPath ==
    ASSUME NEW t \in Tree, Shape(t), "path" \notin t.dirs
    PROVE  t = NoTree
<1>1. t.dirs = {}
  BY DEF Shape, Parent
<1>2. t.volume = None /\ t.namespace = None /\ \A i \in ImageIDs : t.images[i] = None
  BY <1>1 DEF Shape
<1>3. t.images = [i \in ImageIDs |-> None]
  BY <1>2 DEF Tree
<1> QED
  BY <1>1, <1>2, <1>3 DEF Tree, NoTree

\* delete-store empties folders before it removes them, and the path last.
LEMMA DeleteKeepsShape ==
    ASSUME StoreTypeOK, ~mounted, Shape(tree["host"]), NEW p \in Procs, DeleteStore(p)
    PROVE  /\ ~mounted' /\ Shape(tree'["host"])
           /\ tree'["host"].dirs \subseteq tree["host"].dirs
           /\ \A q \in Procs : pc'[q] = "done" => pc[q] = "done" \/ "path" \notin tree'["host"].dirs
<1> USE DEF StoreTypeOK, Goto, Fail, Store, Top
<1>1. tree["host"] \in Tree
  OBVIOUS
<1>2. CASE StatStore(p)
  BY <1>2 DEF StatStore
<1>3. CASE LockForDelete(p)
  BY <1>3 DEF LockForDelete
<1>4. CASE ListImages(p)
  BY <1>4 DEF ListImages
<1>5. CASE DestroyImages(p)
  <2>1. CASE UNCHANGED tree
    BY <1>5, <2>1 DEF DestroyImages
  <2>2. CASE \E i \in seen[p] : tree' = [tree EXCEPT !["host"].images[i] = None]
    <3>1. Shape(tree'["host"]) /\ tree'["host"].dirs = tree["host"].dirs
      BY <1>1, <2>2 DEF Shape, Tree
    <3> QED
      BY <1>5, <3>1 DEF DestroyImages
  <2> QED
    BY <1>5, <2>1, <2>2 DEF DestroyImages
<1>6. CASE ListVolumes(p)
  BY <1>6 DEF ListVolumes
<1>7. CASE DestroyVolumes(p)
  <2>1. CASE UNCHANGED tree
    BY <1>7, <2>1 DEF DestroyVolumes
  <2>2. CASE tree' = [tree EXCEPT !["host"].volume = None]
    <3>1. Shape(tree'["host"]) /\ tree'["host"].dirs = tree["host"].dirs
      BY <1>1, <2>2 DEF Shape, Tree
    <3> QED
      BY <1>7, <3>1 DEF DestroyVolumes
  <2> QED
    BY <1>7, <2>1, <2>2 DEF DestroyVolumes
<1>8. CASE RemoveEntry(p)
  <2>1. mounted' = mounted /\ pc' = pc
    BY <1>8 DEF RemoveEntry
  <2>2. CASE \E i \in Images : tree' = [tree EXCEPT ![Top].images[i] = None]
    BY <1>1, <2>1, <2>2 DEF Shape, Tree, Images
  <2>3. CASE tree' = [tree EXCEPT ![Top].volume = None]
    BY <1>1, <2>1, <2>3 DEF Shape, Tree
  <2>4. CASE tree' = [tree EXCEPT ![Top].namespace = None]
    BY <1>1, <2>1, <2>4 DEF Shape, Tree
  <2>5. CASE \E f \in Store.dirs \ {"path"} :
               IsEmpty(f) /\ tree' = [tree EXCEPT ![Top].dirs = @ \ {f}]
    <3>1. PICK f \in tree["host"].dirs \ {"path"} :
            IsEmpty(f) /\ tree' = [tree EXCEPT !["host"].dirs = @ \ {f}]
      BY <2>5
    <3>2. /\ tree'["host"].dirs = tree["host"].dirs \ {f}
          /\ tree'["host"].images = tree["host"].images
          /\ tree'["host"].volume = tree["host"].volume
          /\ tree'["host"].namespace = tree["host"].namespace
      BY <1>1, <3>1 DEF Tree
    <3>3. /\ f = "images" => \A i \in ImageIDs : tree["host"].images[i] = None
          /\ f = "volumes" => tree["host"].volume = None
          /\ f = "meta" => tree["host"].namespace = None /\ "dependencies" \notin tree["host"].dirs
      BY <3>1 DEF IsEmpty, Images
    <3> QED
      BY <2>1, <3>1, <3>2, <3>3 DEF Shape, Parent
  <2> QED
    BY <1>8, <2>2, <2>3, <2>4, <2>5, Zenon DEF RemoveEntry
<1>9. CASE RemovePath(p)
  BY <1>1, <1>9 DEF RemovePath, Shape, Parent, Tree
<1>10. CASE RemoveAllFails(p)
  BY <1>10 DEF RemoveAllFails
<1> QED
  BY <1>2, <1>3, <1>4, <1>5, <1>6, <1>7, <1>8, <1>9, <1>10 DEF DeleteStore

\* create makes what it makes in folders that are there.
LEMMA CreateKeepsShape ==
    ASSUME StoreTypeOK, ~mounted, Shape(tree["host"]), NEW p \in Procs, CreateImage(p)
    PROVE  /\ ~mounted' /\ Shape(tree'["host"])
           /\ tree'["host"].dirs = tree["host"].dirs
           /\ \A q \in Procs \ {p} : pc'[q] = pc[q]
<1> USE DEF StoreTypeOK, Goto, Fail, Store, Top
<1>1. tree["host"] \in Tree /\ None # Bare /\ cmd[p].id \in ImageIDs
  BY ManagerAssumption DEF Command
<1>2. CASE CheckInitialized(p) \/ ReadMappings(p) \/ LockForCreate(p)
  BY <1>2 DEF CheckInitialized, ReadMappings, LockForCreate
<1>3. CASE Pull(p)
  <2>1. CASE UNCHANGED tree
    BY <1>3, <2>1 DEF Pull
  <2>2. CASE /\ "volumes" \in tree["host"].dirs
             /\ \E v : tree' = [tree EXCEPT !["host"].volume = v]
    <3>1. Shape(tree'["host"]) /\ tree'["host"].dirs = tree["host"].dirs
      BY <1>1, <2>2 DEF Shape, Tree
    <3> QED
      BY <1>3, <3>1 DEF Pull
  <2>3. \/ UNCHANGED tree
        \/ /\ "volumes" \in tree["host"].dirs
           /\ tree' = [tree EXCEPT !["host"].volume = IF @ = None THEN mapping[p] ELSE @]
    BY <1>3 DEF Pull
  <2> QED
    BY <2>1, <2>2, <2>3
<1>4. CASE MakeImage(p)
  <2>1. /\ ~mounted' /\ \A q \in Procs \ {p} : pc'[q] = pc[q]
        /\ \E r : /\ tree' = [tree EXCEPT !["host"].images[cmd[p].id] = r]
                  /\ r = None \/ "images" \in tree["host"].dirs
    BY <1>4 DEF MakeImage
  <2> QED
    BY <1>1, <2>1 DEF Shape, Tree
<1>5. CASE Snapshot(p)
  BY <1>1, <1>5 DEF Snapshot, Shape, Tree
<1>6. CASE Register(p)
  <2>1. CASE UNCHANGED tree
    BY <1>6, <2>1 DEF Register
  <2>2. CASE tree' = [tree EXCEPT !["host"].images[cmd[p].id] = None]
    <3>1. Shape(tree'["host"]) /\ tree'["host"].dirs = tree["host"].dirs
      BY <1>1, <2>2 DEF Shape, Tree
    <3> QED
      BY <1>6, <3>1 DEF Register
  <2> QED
    BY <1>6, <2>1, <2>2 DEF Register
<1> QED
  BY <1>2, <1>3, <1>4, <1>5, <1>6 DEF CreateImage

(***************************************************************************)
(* Where no init-store is run, a delete-store that reported success has    *)
(* removed everything, and no create that was under way beside it makes a  *)
(* folder, a volume or an image again: manager.go's DeleteStore removes    *)
(* the path last, and nothing but init-store makes folders.                *)
(***************************************************************************)
THEOREM DeletedStoresStayGone == Spec => []DeletedStoreStaysGone
<1>1. Init => GoneInv
  BY ManagerAssumption DEF Init, GoneInv, Shape, Parent, NoTree, ReadyTree, Folders, StoreFolders
<1>2. StoreTypeOK /\ OwnSteps /\ GoneInv /\ [Next]_vars => GoneInv'
  <2> SUFFICES ASSUME StoreTypeOK, OwnSteps, GoneInv, [Next]_vars,
                      \A q \in Procs : cmd'[q].op # "init-store"
               PROVE  GoneInv'
    BY DEF GoneInv
  <2>0. cmd' = cmd
    BY SameCommandLines
  <2>1. /\ ~mounted /\ Shape(tree["host"])
        /\ \A q \in Procs : cmd[q].op = "delete-store" /\ pc[q] = "done" =>
             "path" \notin tree["host"].dirs
    BY <2>0 DEF GoneInv
  <2>2. ASSUME NEW p \in Procs, Start(p) PROVE GoneInv'
    BY <2>0, <2>1, <2>2 DEF Start, Goto, Entry, StoreTypeOK, Command, Operations, GoneInv
  <2>3. ASSUME NEW p \in Procs, InitStore(p) PROVE FALSE
    BY <2>0, <2>3 DEF OwnSteps, InitStore, Validate, StatBacking, WriteBacking, Truncate,
      MakePath, Remount, Format, Mount, MakeMeta, StatNamespace, CreateNamespace, WriteNamespace,
      ValidateNamespace, Configure, MakeFolder, InitSteps
  <2>4. ASSUME NEW p \in Procs, DeleteStore(p) PROVE GoneInv'
    BY <2>0, <2>1, <2>4, DeleteKeepsShape DEF GoneInv
  <2>5. ASSUME NEW p \in Procs, CreateImage(p) PROVE GoneInv'
    <3>1. cmd[p].op # "delete-store"
      BY <2>5 DEF OwnSteps, CreateImage, CheckInitialized, ReadMappings, LockForCreate,
          Pull, MakeImage, Snapshot, Register, CreateSteps
    <3> QED
      BY <2>0, <2>1, <2>5, <3>1, CreateKeepsShape DEF GoneInv
  <2>6. ASSUME NEW p \in Procs, Abort(p) \/ IOError(p) PROVE GoneInv'
    BY <2>0, <2>1, <2>6 DEF GoneInv, StoreTypeOK, Abort, IOError, Goto, Fail
  <2>7. CASE Reboot
    BY <2>0, <2>1, <2>7 DEF GoneInv, StoreTypeOK, Reboot
  <2>8. CASE UNCHANGED vars
    BY <2>0, <2>1, <2>8 DEF GoneInv, vars
  <2> QED
    BY <2>2, <2>3, <2>4, <2>5, <2>6, <2>7, <2>8 DEF Next, Finished
<1>3. StoreTypeOK /\ GoneInv => DeletedStoreStaysGone
  BY NothingWithoutPath DEF StoreTypeOK, GoneInv, DeletedStoreStaysGone, Store, Top
<1> QED
  BY <1>1, <1>2, <1>3, StoreTypesHold, StepsAreOwn, PTL DEF Spec

(***************************************************************************)
(* A store in use is kept                                                  *)
(***************************************************************************)

\* Where the host has no btrfs, there are no images under the mount point.
HostBare == ~HostBtrfs => \A i \in ImageIDs : tree["host"].images[i] = None

\* init-store touches no image but those in a backing file it formats, which is
\* not mounted then, and takes nothing off the store path.
LEMMA InitStoreKeepsImages ==
    ASSUME StoreTypeOK, NEW p \in Procs, InitStore(p)
    PROVE  /\ tree'["host"].images = tree["host"].images
           /\ tree'["loop"].images = tree["loop"].images \/ (~mounted /\ ~mounted')
           /\ mounted => mounted'
<1> USE DEF StoreTypeOK
<1>1. Top \in {"host", "loop"} /\ \A t \in {"host", "loop"} : tree[t] \in Tree
  BY DEF Top
<1>2. CASE \/ Validate(p) \/ StatBacking(p) \/ WriteBacking(p) \/ Truncate(p)
           \/ Remount(p) \/ Mount(p) \/ StatNamespace(p)
           \/ ValidateNamespace(p) \/ Configure(p)
  BY <1>2 DEF Validate, StatBacking, WriteBacking, Truncate, Remount, Mount, StatNamespace,
    ValidateNamespace, Configure
<1>3. CASE MakePath(p)
  BY <1>1, <1>3 DEF MakePath, Tree
<1>4. CASE Format(p)
  BY <1>1, <1>4 DEF Format
<1>5. CASE MakeMeta(p)
  BY <1>1, <1>5 DEF MakeMeta, Tree
<1>6. CASE CreateNamespace(p)
  <2>1. /\ tree' = tree \/ tree' = [tree EXCEPT ![Top].namespace = Empty]
        /\ mounted' = mounted
    BY <1>6 DEF CreateNamespace
  <2>2. CASE tree' = [tree EXCEPT ![Top].namespace = Empty]
    <3>1. \A t \in {"host", "loop"} : tree'[t].images = tree[t].images
      BY <1>1, <2>2 DEF Tree
    <3> QED
      BY <2>1, <3>1
  <2> QED
    BY <2>1, <2>2
<1>7. CASE WriteNamespace(p)
  BY <1>1, <1>7 DEF WriteNamespace, Tree
<1>8. CASE MakeFolder(p)
  BY <1>1, <1>8 DEF MakeFolder, Tree
<1> QED
  BY <1>2, <1>3, <1>4, <1>5, <1>6, <1>7, <1>8 DEF InitStore

\* create touches no image but its own, and that only in the store on top; and
\* it makes none where there is no folder for images.
LEMMA CreateKeepsOthersImages ==
    ASSUME StoreTypeOK, NEW p \in Procs, CreateImage(p),
           NEW t \in {"host", "loop"}, NEW i \in ImageIDs,
           tree'[t].images[i] # tree[t].images[i]
    PROVE  /\ t = Top /\ i = cmd[p].id
           /\ "images" \notin tree[t].dirs => tree'[t].images[i] = None \/ tree[t].images[i] # None
<1> USE DEF StoreTypeOK, Store
<1>1. Top \in {"host", "loop"} /\ \A u \in {"host", "loop"} : tree[u] \in Tree
  BY DEF Top
<1>2. CASE \E v : tree' = [tree EXCEPT ![Top].volume = v]
  BY <1>1, <1>2 DEF Tree
<1>3. CASE \E r : /\ tree' = [tree EXCEPT ![Top].images[cmd[p].id] = r]
                 /\ \/ r = None
                    \/ "images" \in tree[Top].dirs
                    \/ tree[Top].images[cmd[p].id] # None
  BY <1>1, <1>3 DEF Tree
<1>4. \/ UNCHANGED tree
      \/ \E v : tree' = [tree EXCEPT ![Top].volume = v]
      \/ \E r : /\ tree' = [tree EXCEPT ![Top].images[cmd[p].id] = r]
               /\ \/ r = None
                  \/ "images" \in tree[Top].dirs
                  \/ tree[Top].images[cmd[p].id] # None
  <2>1. CASE CheckInitialized(p) \/ ReadMappings(p) \/ LockForCreate(p)
    BY <2>1 DEF CheckInitialized, ReadMappings, LockForCreate
  <2>2. CASE Pull(p)
    BY <2>2 DEF Pull
  <2>3. CASE MakeImage(p)
    BY <2>3 DEF MakeImage
  <2>4. CASE Snapshot(p)
    BY <2>4, ManagerAssumption DEF Snapshot
  <2>5. CASE Register(p)
    BY <2>5 DEF Register
  <2> QED
    BY <2>1, <2>2, <2>3, <2>4, <2>5 DEF CreateImage
<1> QED
  BY <1>2, <1>3, <1>4

\* delete-store makes no image.
LEMMA DeleteMakesNoImage ==
    ASSUME StoreTypeOK, NEW p \in Procs, DeleteStore(p),
           NEW t \in {"host", "loop"}, NEW i \in ImageIDs
    PROVE  tree'[t].images[i] \in {tree[t].images[i], None}
<1> USE DEF StoreTypeOK
<1>1. Top \in {"host", "loop"} /\ \A u \in {"host", "loop"} : tree[u] \in Tree
  BY DEF Top
<1>2. \/ UNCHANGED tree
      \/ \E j : tree' = [tree EXCEPT ![Top].images[j] = None]
      \/ tree' = [tree EXCEPT ![Top].volume = None]
      \/ tree' = [tree EXCEPT ![Top].namespace = None]
      \/ \E d : tree' = [tree EXCEPT ![Top].dirs = d]
      \/ tree' = [tree EXCEPT !["host"].dirs = {}]
  <2>1. CASE StatStore(p) \/ LockForDelete(p) \/ ListImages(p) \/ ListVolumes(p) \/ RemoveAllFails(p)
    BY <2>1 DEF StatStore, LockForDelete, ListImages, ListVolumes, RemoveAllFails
  <2>2. CASE DestroyImages(p)
    BY <2>2 DEF DestroyImages
  <2>3. CASE DestroyVolumes(p)
    BY <2>3 DEF DestroyVolumes
  <2>4. CASE RemoveEntry(p)
    <3>1. CASE \E f : tree' = [tree EXCEPT ![Top].dirs = @ \ {f}]
      <4>1. PICK f : tree' = [tree EXCEPT ![Top].dirs = @ \ {f}]
        BY <3>1
      <4>2. tree' = [tree EXCEPT ![Top].dirs = tree[Top].dirs \ {f}]
        BY <4>1, <1>1
      <4> QED
        BY <4>2
    <3>2. CASE \E j \in Images : tree' = [tree EXCEPT ![Top].images[j] = None]
      BY <3>2
    <3>3. CASE \E f \in Store.dirs \ {"path"} :
                 IsEmpty(f) /\ tree' = [tree EXCEPT ![Top].dirs = @ \ {f}]
      BY <3>1, <3>3, Zenon
    <3> QED
      BY <2>4, <3>2, <3>3, Zenon DEF RemoveEntry
  <2>5. CASE RemovePath(p)
    BY <2>5 DEF RemovePath
  <2> QED
    BY <2>1, <2>2, <2>3, <2>4, <2>5 DEF DeleteStore
<1>3. CASE \E j : tree' = [tree EXCEPT ![Top].images[j] = None]
  BY <1>1, <1>3 DEF Tree
<1>4. CASE tree' = [tree EXCEPT ![Top].volume = None]
  BY <1>1, <1>4 DEF Tree
<1>5. CASE tree' = [tree EXCEPT ![Top].namespace = None]
  BY <1>1, <1>5 DEF Tree
<1>6. CASE \E d : tree' = [tree EXCEPT ![Top].dirs = d]
  BY <1>1, <1>6 DEF Tree
<1>7. CASE tree' = [tree EXCEPT !["host"].dirs = {}]
  BY <1>1, <1>7 DEF Tree
<1> QED
  BY <1>2, <1>3, <1>4, <1>5, <1>6, <1>7

\* delete-store and create leave the mount and the backing file alone.
LEMMA OthersKeepFile ==
    ASSUME NEW p \in Procs, DeleteStore(p) \/ CreateImage(p)
    PROVE  UNCHANGED <<mounted, backing>>
BY DEF DeleteStore, StatStore, LockForDelete, ListImages, DestroyImages, ListVolumes,
  DestroyVolumes, RemoveEntry, RemovePath, RemoveAllFails, CreateImage,
  CheckInitialized, ReadMappings, LockForCreate, Pull, MakeImage, Snapshot, Register

\* Under a mount point there are never images, as there is no folder for them.
LEMMA HostStaysBare == Spec => []HostBare
<1>1. Init => HostBare
  BY ManagerAssumption DEF Init, HostBare, NoTree
<1>2. StoreTypeOK /\ MountInv /\ HostBare /\ [Next]_vars => HostBare'
  <2> SUFFICES ASSUME StoreTypeOK, MountInv, HostBare, [Next]_vars, ~HostBtrfs,
                      NEW i \in ImageIDs
               PROVE  tree'["host"].images[i] = None
    BY DEF HostBare
  <2>1. tree["host"].images[i] = None /\ "images" \notin tree["host"].dirs
    BY DEF HostBare, MountInv
  <2>2. ASSUME NEW p \in Procs, Start(p) \/ Abort(p) \/ IOError(p) PROVE UNCHANGED tree
    BY <2>2 DEF Start, Abort, IOError
  <2>3. CASE Reboot \/ UNCHANGED vars
    BY <2>1, <2>3 DEF Reboot, vars
  <2>4. ASSUME NEW p \in Procs, InitStore(p) PROVE tree'["host"].images[i] = None
    BY <2>1, <2>4, InitStoreKeepsImages
  <2>5. ASSUME NEW p \in Procs, DeleteStore(p) PROVE tree'["host"].images[i] = None
    BY <2>1, <2>5, DeleteMakesNoImage
  <2>6. ASSUME NEW p \in Procs, CreateImage(p) PROVE tree'["host"].images[i] = None
    BY <2>1, <2>6, CreateKeepsOthersImages
  <2> QED
    BY <2>1, <2>2, <2>3, <2>4, <2>5, <2>6 DEF Next, Finished
<1> QED
  BY <1>1, <1>2, StoreTypesHold, MountsFirst, PTL DEF Spec

\* However init-stores, delete-stores and creates overlap, no init-store takes an
\* image that create has reported away from a host without btrfs, but one that
\* found no backing file, or asks for a smaller one than another.
THEOREM LiveStoresAreKept == Spec => LiveStoreKept
<1> DEFINE Kept(p) ==
      /\ cmd[p].op = "create" /\ pc[p] = "done"
      /\ Store.images[cmd[p].id] \in Mappings
      => /\ (Store.images)'[cmd[p].id] # Store.images[cmd[p].id]
            => \/ \E q \in Procs : pc[q] \in DeleteSteps
               \/ mounted /\ ~mounted'
               \/ \E q \in Procs \ {p} : cmd[q].op = "create" /\ cmd[q].id = cmd[p].id
               \/ HostBtrfs /\ ~mounted /\ mounted'
         /\ mounted /\ ~Damaged /\ Damaged'
            => \E q \in Procs :
                  \/ pc[q] = "writeBacking"
                  \/ pc[q] = "truncate" /\ cmd[q].size < backing.size
<1>1. StoreTypeOK /\ OwnSteps /\ HostBare /\ [Next]_vars => \A p \in Procs : Kept(p)
  <2> SUFFICES ASSUME StoreTypeOK, OwnSteps, HostBare, [Next]_vars,
                      NEW p \in Procs, cmd[p].op = "create", pc[p] = "done",
                      Store.images[cmd[p].id] \in Mappings
               PROVE  Kept(p)
    OBVIOUS
  <2>1. ASSUME (Store.images)'[cmd[p].id] # Store.images[cmd[p].id], ~(mounted /\ ~mounted')
        PROVE  \/ \E q \in Procs : pc[q] \in DeleteSteps
               \/ \E q \in Procs \ {p} : cmd[q].op = "create" /\ cmd[q].id = cmd[p].id
               \/ HostBtrfs /\ ~mounted /\ mounted'
    <3>0. /\ cmd' = cmd /\ cmd[p].id \in ImageIDs /\ mounted \in BOOLEAN
          /\ tree["host"] \in Tree /\ tree["loop"] \in Tree
      BY SameCommandLines DEF StoreTypeOK, Command
    <3>1. ASSUME NEW q \in Procs, Start(q) \/ Abort(q) \/ IOError(q) PROVE UNCHANGED Store
      BY <3>1 DEF Start, Abort, IOError, Store, Top
    <3>2. CASE Reboot \/ UNCHANGED vars
      BY <2>1, <3>0, <3>2 DEF Reboot, vars, Store, Top
    <3>3. ASSUME NEW q \in Procs, InitStore(q) PROVE HostBtrfs /\ ~mounted /\ mounted'
      <4>1. /\ tree'["host"].images = tree["host"].images
            /\ tree'["loop"].images = tree["loop"].images \/ (~mounted /\ ~mounted')
            /\ mounted => mounted'
        BY <3>3, InitStoreKeepsImages
      <4>2. ~mounted /\ mounted'
        BY <2>1, <4>1 DEF Store, Top
      <4>3. tree["host"].images[cmd[p].id] # None
        BY <4>2, ManagerAssumption DEF Store, Top
      <4> QED
        BY <3>0, <4>2, <4>3 DEF HostBare
    <3>4. ASSUME NEW q \in Procs, DeleteStore(q) PROVE pc[q] \in DeleteSteps
      BY <3>4 DEF DeleteStore, StatStore, LockForDelete, ListImages, DestroyImages, ListVolumes,
          DestroyVolumes, RemoveEntry, RemovePath, RemoveAllFails, DeleteSteps
    <3>5. ASSUME NEW q \in Procs, CreateImage(q)
          PROVE  q # p /\ cmd[q].op = "create" /\ cmd[q].id = cmd[p].id
      <4>1. pc[q] \in CreateSteps
        BY <3>5 DEF CreateImage, CheckInitialized, ReadMappings, LockForCreate,
            Pull, MakeImage, Snapshot, Register, CreateSteps
      <4>2. q # p /\ cmd[q].op = "create"
        BY <4>1 DEF OwnSteps, CreateSteps
      <4>3. Top' = Top /\ Top \in {"host", "loop"}
        BY <3>5, OthersKeepMount DEF Top
      <4>4. tree'[Top].images[cmd[p].id] # tree[Top].images[cmd[p].id]
        BY <2>1, <3>0, <4>3 DEF Store
      <4> QED
        BY <3>0, <3>5, <4>2, <4>3, <4>4, CreateKeepsOthersImages
    <3> QED
      BY <2>1, <3>1, <3>2, <3>3, <3>4, <3>5 DEF Next, Finished
  <2>2. ASSUME mounted, ~Damaged, Damaged'
        PROVE  \E q \in Procs :
                  \/ pc[q] = "writeBacking"
                  \/ pc[q] = "truncate" /\ cmd[q].size < backing.size
    <3>1. backing'.holds = "damaged" /\ backing.holds # "damaged"
      BY <2>2 DEF Damaged
    <3>2. ASSUME NEW q \in Procs, InitStore(q)
          PROVE  \/ pc[q] = "writeBacking"
                 \/ pc[q] = "truncate" /\ cmd[q].size < backing.size
      <4>1. ~Format(q)
        BY <2>2, <3>1 DEF Format
      <4> QED
        BY <3>1, <3>2, <4>1 DEF InitStore, Validate, StatBacking, WriteBacking, Truncate,
            MakePath, Remount, Mount, MakeMeta, StatNamespace, CreateNamespace,
            WriteNamespace, ValidateNamespace, Configure, MakeFolder
    <3>3. ASSUME NEW q \in Procs, DeleteStore(q) \/ CreateImage(q) PROVE FALSE
      BY <3>1, <3>3, OthersKeepFile
    <3>4. ASSUME NEW q \in Procs, Start(q) \/ Abort(q) \/ IOError(q) PROVE FALSE
      BY <3>1, <3>4 DEF Start, Abort, IOError
    <3>5. ~Reboot /\ ~UNCHANGED vars
      BY <3>1 DEF Reboot, vars
    <3> QED
      BY <3>2, <3>3, <3>4, <3>5 DEF Next, Finished
  <2> QED
    BY <2>1, <2>2
<1> QED
  BY <1>1, StoreTypesHold, StepsAreOwn, HostStaysBare, PTL DEF Spec, LiveStoreKept

(***************************************************************************)
(* What is in a store carries its mappings, and init-store can be repeated *)
(***************************************************************************)

\* How the operator of a host runs the commands: one init-store at a time, and
\* a delete-store by itself.  Creates run beside each other and an init-store.
Orderly ==
    /\ {"init-store"} \notin Overlap
    /\ \A s \in Overlap : "delete-store" \notin s

\* Commands run beside each other only as the operator lets them.
OverlapInv ==
    \A p, q \in Procs :
        p # q /\ Running(p) /\ Running(q) => {cmd[p].op, cmd[q].op} \in Overlap

\* What is mounted has the mount point's directory, and so has a tree with
\* folders.
PathsInv ==
    /\ mounted => "path" \in tree["loop"].dirs
    /\ "images" \in tree["host"].dirs => "path" \in tree["host"].dirs

\* A tree without anything of another mapping than its own.
Carries(t) ==
    /\ t.volume \in {t.namespace, None}
    /\ \A i \in ImageIDs : t.images[i] \in {t.namespace, None, Bare}

\* The file of a mounted file system is as the file system left it.
FileInv == mounted => backing.holds = "formatted"

\* What an init-store that got as far as it has can rely on.
InitAsSeen(p) ==
    /\ pc[p] \in {"statBacking", "writeBacking", "truncate", "makePath", "remount",
                  "format", "mount"} =>
         ~mounted /\ "images" \notin tree["host"].dirs
    /\ pc[p] \in {"remount", "format", "mount"} => "path" \in tree["host"].dirs
    /\ pc[p] = "mount" => "path" \in tree["loop"].dirs /\ backing.holds = "formatted"
    /\ pc[p] \in FilledSteps \ {"makeMeta"} => {"path", "meta"} \subseteq Store.dirs
    /\ pc[p] = "createNamespace" => Store.namespace = None
    /\ pc[p] = "writeNamespace" => open[p] = Top /\ Store.namespace = Empty
    /\ pc[p] = "validateNamespace" => Store.namespace # None

\* What a create that has found the store initialized can rely on.
CreateAsSeen(p) ==
    /\ pc[p] \in CreateSteps \ {"checkInitialized"} =>
         "images" \in Store.dirs /\ Store.namespace # None
    /\ pc[p] \in {"lockStore", "pull"} =>
         mapping[p] \in Mappings /\ mapping[p] = Store.namespace

\* What a delete-store has destroyed, and what it still has on its list.
DeleteAsSeen(p) ==
    /\ pc[p] = "destroyImages" =>
         \A i \in ImageIDs : Store.images[i] # None => i \in seen[p]
    /\ pc[p] \in {"listVolumes", "destroyVolumes", "removeAll"} =>
         \A i \in ImageIDs : Store.images[i] = None
    /\ pc[p] = "destroyVolumes" /\ seen[p] = {} => Store.volume = None
    /\ pc[p] = "removeAll" => Store.volume = None

LifeInv ==
    /\ PathsInv /\ FileInv
    /\ Carries(tree["host"]) /\ Carries(tree["loop"])
    /\ \A p \in Procs : InitAsSeen(p) /\ CreateAsSeen(p) /\ DeleteAsSeen(p)

\* A command's step moves its own process, which is running.
LEMMA OwnMoves ==
    ASSUME StoreTypeOK, NEW p \in Procs
    PROVE  /\ InitStore(p) => pc[p] \in InitSteps /\ pc'[p] \in InitSteps \cup {"done", "failed"}
           /\ DeleteStore(p) =>
                pc[p] \in DeleteSteps /\ pc'[p] \in DeleteSteps \cup {"done", "failed"}
           /\ CreateImage(p) =>
                pc[p] \in CreateSteps /\ pc'[p] \in CreateSteps \cup {"done", "failed"}
           /\ InitStore(p) \/ DeleteStore(p) \/ CreateImage(p) =>
                \A q \in Procs \ {p} : pc'[q] = pc[q]
<1> USE DEF StoreTypeOK, Goto, Fail
<1>1. ASSUME InitStore(p)
      PROVE  /\ pc[p] \in InitSteps /\ pc'[p] \in InitSteps \cup {"done", "failed"}
             /\ \A q \in Procs \ {p} : pc'[q] = pc[q]
  BY <1>1 DEF InitStore, Validate, StatBacking, WriteBacking, Truncate, MakePath, Remount, Format,
    Mount, MakeMeta, StatNamespace, CreateNamespace, WriteNamespace, ValidateNamespace, Configure,
    MakeFolder, InitSteps
<1>2. ASSUME DeleteStore(p)
      PROVE  /\ pc[p] \in DeleteSteps /\ pc'[p] \in DeleteSteps \cup {"done", "failed"}
             /\ \A q \in Procs \ {p} : pc'[q] = pc[q]
  BY <1>2 DEF DeleteStore, StatStore, LockForDelete, ListImages, DestroyImages,
      ListVolumes, DestroyVolumes, RemoveEntry, RemovePath, RemoveAllFails, DeleteSteps
<1>3. ASSUME CreateImage(p)
      PROVE  /\ pc[p] \in CreateSteps /\ pc'[p] \in CreateSteps \cup {"done", "failed"}
             /\ \A q \in Procs \ {p} : pc'[q] = pc[q]
  BY <1>3 DEF CreateImage, CheckInitialized, ReadMappings, LockForCreate, Pull,
      MakeImage, Snapshot, Register, CreateSteps
<1> QED
  BY <1>1, <1>2, <1>3

\* Start looks at what is running; nothing else sets a process going.
LEMMA OverlapsAllowed == Spec => []OverlapInv
<1>1. Init => OverlapInv
  BY DEF Init, OverlapInv, Running, Steps, InitSteps, DeleteSteps, CreateSteps
<1>2. StoreTypeOK /\ OverlapInv /\ [Next]_vars => OverlapInv'
  <2> SUFFICES ASSUME StoreTypeOK, OverlapInv, [Next]_vars PROVE OverlapInv'
    OBVIOUS
  <2>0. cmd' = cmd
    BY SameCommandLines
  <2>1. ASSUME NEW p \in Procs, Start(p) PROVE OverlapInv'
    <3>1. \A q \in Procs :
            Running(q) => {cmd[p].op, cmd[q].op} \in Overlap /\ {cmd[q].op, cmd[p].op} \in Overlap
      <4> SUFFICES ASSUME NEW q \in Procs, Running(q)
                   PROVE  {cmd[p].op, cmd[q].op} \in Overlap /\ {cmd[q].op, cmd[p].op} \in Overlap
        OBVIOUS
      <4>1. {cmd[p].op, cmd[q].op} = {cmd[q].op, cmd[p].op}
        OBVIOUS
      <4> QED
        BY <2>1, <4>1 DEF Start
    <3>2. \A q \in Procs \ {p} : pc'[q] = pc[q]
      BY <2>1 DEF Start, Goto, StoreTypeOK
    <3> QED
      BY <2>0, <3>1, <3>2 DEF OverlapInv, Running
  <2>2. ASSUME NEW p \in Procs, InitStore(p) \/ DeleteStore(p) \/ CreateImage(p)
        PROVE  OverlapInv'
    <3>1. Running(p) /\ \A q \in Procs \ {p} : pc'[q] = pc[q]
      BY <2>2, OwnMoves DEF Running, Steps
    <3> QED
      BY <2>0, <3>1 DEF OverlapInv, Running
  <2>3. ASSUME NEW p \in Procs, Abort(p) \/ IOError(p) PROVE OverlapInv'
    <3>1. \A q \in Procs : Running(q)' => Running(q)
      BY <2>3 DEF Abort, IOError, Goto, Fail, StoreTypeOK, Running, Steps, InitSteps,
          DeleteSteps, CreateSteps
    <3> QED
      BY <2>0, <3>1 DEF OverlapInv
  <2>4. CASE Reboot
    <3>1. \A q \in Procs : Running(q)' => FALSE
      BY <2>4 DEF Reboot, StoreTypeOK, Running, Steps, InitSteps, DeleteSteps, CreateSteps
    <3> QED
      BY <3>1 DEF OverlapInv
  <2>5. CASE UNCHANGED vars
    BY <2>5 DEF OverlapInv, vars, Running
  <2> QED
    BY <2>1, <2>2, <2>3, <2>4, <2>5 DEF Next, Finished
<1> QED
  BY <1>1, <1>2, StoreTypesHold, PTL DEF Spec

\* Where commands are run in order, an init-store has no other one beside it and
\* no delete-store, and a delete-store is alone.
LEMMA AloneAtWork ==
    ASSUME Orderly, OwnSteps, OverlapInv, NEW p \in Procs, NEW q \in Procs \ {p}
    PROVE  /\ pc[p] \in InitSteps => pc[q] \notin InitSteps \cup DeleteSteps
           /\ pc[p] \in DeleteSteps => ~Running(q)
<1>1. Running(p) /\ Running(q) => {cmd[p].op, cmd[q].op} \in Overlap
  BY DEF OverlapInv
<1>2. ASSUME pc[p] \in DeleteSteps, Running(q) PROVE FALSE
  BY <1>1, <1>2 DEF Running, Steps, OwnSteps, Orderly
<1>3. ASSUME pc[p] \in InitSteps, pc[q] \in DeleteSteps PROVE FALSE
  BY <1>1, <1>3 DEF Running, Steps, OwnSteps, Orderly
<1>4. ASSUME pc[p] \in InitSteps, pc[q] \in InitSteps PROVE FALSE
  <2>1. {cmd[p].op, cmd[q].op} = {"init-store"}
    BY <1>4 DEF OwnSteps
  <2> QED
    BY <1>1, <1>4, <2>1 DEF Running, Steps, Orderly
<1> QED
  BY <1>2, <1>3, <1>4

(***************************************************************************)
(* What a change of one part of the store on top leaves as it is.          *)
(***************************************************************************)
LEMMA OneTreeChanges ==
    ASSUME StoreTypeOK, mounted' = mounted, NEW v,
           \/ tree' = [tree EXCEPT ![Top].dirs = v]
           \/ tree' = [tree EXCEPT ![Top].namespace = v]
           \/ tree' = [tree EXCEPT ![Top].volume = v]
           \/ \E i : tree' = [tree EXCEPT ![Top].images[i] = v]
    PROVE  /\ Top' = Top /\ Top \in {"host", "loop"}
           /\ \A t \in {"host", "loop"} \ {Top} : tree'[t] = tree[t]
<1>1. Top' = Top /\ Top \in {"host", "loop"}
  BY DEF Top
<1>2. CASE \E i : tree' = [tree EXCEPT ![Top].images[i] = v]
  BY <1>1, <1>2 DEF StoreTypeOK
<1> QED
  BY <1>1, <1>2 DEF StoreTypeOK

LEMMA DirsChange ==
    ASSUME StoreTypeOK, mounted' = mounted, NEW v, tree' = [tree EXCEPT ![Top].dirs = v]
    PROVE  /\ Store'.dirs = v /\ Store'.namespace = Store.namespace
           /\ Store'.volume = Store.volume /\ Store'.images = Store.images
<1>1. Top' = Top /\ Top \in {"host", "loop"} /\ tree[Top] \in Tree
  BY DEF Top, StoreTypeOK
<1> QED
  BY <1>1 DEF StoreTypeOK, Tree, Store

LEMMA NamespaceChanges ==
    ASSUME StoreTypeOK, mounted' = mounted, NEW v, tree' = [tree EXCEPT ![Top].namespace = v]
    PROVE  /\ Store'.namespace = v /\ Store'.dirs = Store.dirs
           /\ Store'.volume = Store.volume /\ Store'.images = Store.images
<1>1. Top' = Top /\ Top \in {"host", "loop"} /\ tree[Top] \in Tree
  BY DEF Top, StoreTypeOK
<1> QED
  BY <1>1 DEF StoreTypeOK, Tree, Store

LEMMA VolumeChanges ==
    ASSUME StoreTypeOK, mounted' = mounted, NEW v, tree' = [tree EXCEPT ![Top].volume = v]
    PROVE  /\ Store'.volume = v /\ Store'.dirs = Store.dirs
           /\ Store'.namespace = Store.namespace /\ Store'.images = Store.images
<1>1. Top' = Top /\ Top \in {"host", "loop"} /\ tree[Top] \in Tree
  BY DEF Top, StoreTypeOK
<1> QED
  BY <1>1 DEF StoreTypeOK, Tree, Store

LEMMA ImageChanges ==
    ASSUME StoreTypeOK, mounted' = mounted, NEW v, NEW i \in ImageIDs,
           tree' = [tree EXCEPT ![Top].images[i] = v]
    PROVE  /\ Store'.images = [Store.images EXCEPT ![i] = v]
           /\ Store'.dirs = Store.dirs /\ Store'.namespace = Store.namespace
           /\ Store'.volume = Store.volume
<1>1. Top' = Top /\ Top \in {"host", "loop"} /\ tree[Top] \in Tree
  BY DEF Top, StoreTypeOK
<1> QED
  BY <1>1 DEF StoreTypeOK, Tree, Store

\* What empties, cuts or formats the backing file has seen that it is not mounted.
LEMMA InitStoreKeepsFile ==
    ASSUME StoreTypeOK, FileInv, NEW p \in Procs, InitAsSeen(p), InitStore(p)
    PROVE  FileInv'
<1> USE DEF FileInv, InitAsSeen
<1>1. CASE UNCHANGED <<mounted, backing>>
  BY <1>1
<1>2. CASE WriteBacking(p) \/ Truncate(p)
  BY <1>2 DEF WriteBacking, Truncate
<1>3. CASE Format(p)
  BY <1>3 DEF Format
<1>4. CASE Mount(p)
  BY <1>4 DEF Mount
<1>5. \/ UNCHANGED <<mounted, backing>> \/ WriteBacking(p) \/ Truncate(p) \/ Format(p)
      \/ Mount(p)
  BY DEF InitStore, Validate, StatBacking, MakePath, Remount, MakeMeta, StatNamespace,
      CreateNamespace, WriteNamespace, ValidateNamespace, Configure, MakeFolder
<1> QED
  BY <1>1, <1>2, <1>3, <1>4, <1>5

\* Every step of init-store keeps LifeInv.
LEMMA InitStoreKeepsLife ==
    ASSUME StoreTypeOK, OwnSteps, OverlapInv, MountInv, LifeInv, Orderly,
           NEW p \in Procs, InitStore(p)
    PROVE  LifeInv'
<1>0. /\ pc[p] \in InitSteps /\ pc'[p] \in InitSteps \cup {"done", "failed"}
      /\ \A q \in Procs \ {p} : pc'[q] = pc[q]
      /\ \A q \in Procs \ {p} : pc[q] \notin InitSteps \cup DeleteSteps
  BY OwnMoves, AloneAtWork
<1>1. Top \in {"host", "loop"} /\ \A t \in {"host", "loop"} : tree[t] \in Tree
  BY DEF Top, StoreTypeOK
<1>2. /\ PathsInv /\ FileInv /\ Carries(tree["host"]) /\ Carries(tree["loop"])
      /\ InitAsSeen(p)
  BY DEF LifeInv
\* Creates that go on meanwhile find the namespace they have seen.
<1> DEFINE Past == \E q \in Procs : pc[q] \in CreateSteps \ {"checkInitialized"}
           Steady == Past => /\ "images" \in Store'.dirs /\ Store'.namespace # None
                             /\ Store.namespace \in Mappings =>
                                  Store'.namespace = Store.namespace
<1>3. Past => "images" \in Store.dirs /\ Store.namespace # None
  BY DEF LifeInv, CreateAsSeen
<1>4. UNCHANGED <<mapping, cmd, seen>>
  BY DEF InitStore, Validate, StatBacking, WriteBacking, Truncate, MakePath, Remount, Format,
    Mount, MakeMeta, StatNamespace, CreateNamespace, WriteNamespace, ValidateNamespace, Configure,
    MakeFolder
<1>5. ASSUME PathsInv', Carries(tree'["host"]), Carries(tree'["loop"]), InitAsSeen(p)', Steady
      PROVE  LifeInv'
  <2>1. CreateAsSeen(p)' /\ DeleteAsSeen(p)'
    BY <1>0 DEF CreateAsSeen, DeleteAsSeen, InitSteps, CreateSteps
  <2>2. ASSUME NEW q \in Procs \ {p} PROVE InitAsSeen(q)' /\ DeleteAsSeen(q)'
    BY <1>0 DEF InitAsSeen, DeleteAsSeen, InitSteps, DeleteSteps, FilledSteps
  <2>3. ASSUME NEW q \in Procs \ {p} PROVE CreateAsSeen(q)'
    <3>1. CreateAsSeen(q)
      BY DEF LifeInv
    <3>2. pc'[q] = pc[q] /\ mapping'[q] = mapping[q]
      BY <1>0, <1>4
    <3> QED
      BY <1>5, <3>1, <3>2 DEF CreateAsSeen, CreateSteps
  <2>4. FileInv'
    BY <1>2, InitStoreKeepsFile
  <2> QED
    BY <1>5, <2>1, <2>2, <2>3, <2>4 DEF LifeInv
<1> USE DEF Goto, Fail
<1>6. ASSUME UNCHANGED <<tree, mounted>>
      PROVE  /\ PathsInv' /\ Carries(tree'["host"]) /\ Carries(tree'["loop"])
             /\ Steady /\ Store' = Store /\ Top' = Top
  BY <1>2, <1>3, <1>6 DEF PathsInv, Store, Top
<1>7. CASE Validate(p)
  <2>1. UNCHANGED <<tree, mounted>> /\ pc'[p] \in {"makeMeta", "failed", "statBacking"}
    BY <1>7 DEF Validate, StoreTypeOK
  <2>2. CASE pc'[p] = "statBacking"
    <3>0. ~Damaged
      BY <1>2 DEF FileInv, Damaged
    <3>1. ~ValidFileSystem(cmd[p].size) /\ cmd[p].size > 0
      BY <1>7, <2>2, <3>0 DEF Validate, StoreTypeOK
    <3>2. ~mounted
      BY <1>2, <3>1 DEF ValidFileSystem, PathsInv, Store, Top
    <3>3. "images" \notin tree["host"].dirs
      BY <1>2, <3>1, <3>2 DEF ValidFileSystem, PathsInv, Store, Top, MountInv
    <3>4. InitAsSeen(p)'
      BY <2>1, <2>2, <3>2, <3>3 DEF InitAsSeen, FilledSteps
    <3> QED
      BY <1>5, <1>6, <2>1, <3>4
  <2>3. CASE pc'[p] \in {"makeMeta", "failed"}
    <3>1. InitAsSeen(p)'
      BY <2>3 DEF InitAsSeen, FilledSteps
    <3> QED
      BY <1>5, <1>6, <2>1, <3>1
  <2> QED
    BY <2>1, <2>2, <2>3
<1>8. CASE StatBacking(p) \/ WriteBacking(p) \/ Truncate(p)
  <2>1. /\ UNCHANGED <<tree, mounted>>
        /\ pc[p] \in {"statBacking", "writeBacking", "truncate"}
        /\ pc'[p] \in {"writeBacking", "truncate", "makePath"}
    BY <1>8 DEF StatBacking, WriteBacking, Truncate, StoreTypeOK
  <2>2. InitAsSeen(p)'
    BY <1>2, <2>1 DEF InitAsSeen, FilledSteps
  <2> QED
    BY <1>5, <1>6, <2>1, <2>2
<1>9. CASE MakePath(p)
  <2>1. /\ pc[p] = "makePath" /\ pc'[p] = "remount" /\ mounted' = mounted
        /\ tree' = [tree EXCEPT ![Top].dirs = Store.dirs \cup {"path"}]
    BY <1>9 DEF MakePath, StoreTypeOK, Store
  <2>2. ~mounted /\ "images" \notin tree["host"].dirs /\ Store = tree["host"] /\ Top = "host"
    BY <1>2, <2>1 DEF InitAsSeen, Store, Top
  <2>3. /\ Top' = Top /\ tree'["loop"] = tree["loop"] /\ Store' = tree'["host"]
        /\ Store'.dirs = Store.dirs \cup {"path"} /\ Store'.namespace = Store.namespace
        /\ Store'.volume = Store.volume /\ Store'.images = Store.images
    BY <2>1, <2>2, OneTreeChanges, DirsChange DEF Store
  <2>4. Carries(tree'["host"]) /\ Carries(tree'["loop"])
    BY <1>2, <2>2, <2>3 DEF Carries
  <2>5. PathsInv' /\ InitAsSeen(p)'
    BY <1>2, <2>1, <2>2, <2>3 DEF PathsInv, InitAsSeen, FilledSteps
  <2>6. Steady
    BY <1>3, <2>3
  <2> QED
    BY <1>5, <2>4, <2>5, <2>6
<1>10. CASE Remount(p)
  <2>1. /\ UNCHANGED <<tree, mounted>> /\ pc[p] = "remount"
        /\ ~mounted /\ pc'[p] = "format"
    BY <1>2, <1>10 DEF Remount, InitAsSeen, StoreTypeOK
  <2>2. InitAsSeen(p)'
    BY <1>2, <2>1 DEF InitAsSeen, FilledSteps
  <2> QED
    BY <1>5, <1>6, <2>1, <2>2
<1>11. CASE Format(p)
  <2>1. pc[p] = "format" /\ ~mounted
    BY <1>2, <1>11 DEF Format, InitAsSeen
  <2>2. /\ pc'[p] = "mount" /\ mounted' = mounted
        /\ tree' = [tree EXCEPT !["loop"] = NewFileSystem]
        /\ backing'.holds = "formatted"
    BY <1>11, <2>1 DEF Format, StoreTypeOK, BackingFile
  <2>3. /\ tree'["loop"] = NewFileSystem /\ tree'["host"] = tree["host"]
        /\ Store' = Store /\ Top' = "host" /\ Store = tree["host"]
    BY <2>1, <2>2 DEF StoreTypeOK, Store, Top
  <2>4. Carries(NewFileSystem) /\ "path" \in NewFileSystem.dirs
    BY DEF Carries, NewFileSystem, NoTree
  <2>5. PathsInv' /\ InitAsSeen(p)'
    BY <1>2, <2>1, <2>2, <2>3, <2>4 DEF PathsInv, InitAsSeen, FilledSteps
  <2> QED
    BY <1>2, <1>3, <1>5, <2>3, <2>4, <2>5
<1>12. CASE Mount(p)
  <2>1. pc[p] = "mount" /\ ~mounted /\ "images" \notin Store.dirs /\ "path" \in Store.dirs
    BY <1>2, <1>12 DEF Mount, InitAsSeen, Store, Top
  <2>2. pc'[p] = "makeMeta" /\ mounted' /\ UNCHANGED tree
    BY <1>2, <1>12, <2>1 DEF Mount, InitAsSeen, StoreTypeOK
  <2>3. ~Past
    BY <1>3, <2>1
  <2>4. PathsInv' /\ InitAsSeen(p)'
    BY <1>2, <2>1, <2>2 DEF PathsInv, InitAsSeen, FilledSteps
  <2> QED
    BY <1>2, <1>5, <2>2, <2>3, <2>4
<1>13. CASE MakeMeta(p)
  <2>1. /\ pc[p] = "makeMeta" /\ pc'[p] = "statNamespace" /\ mounted' = mounted
        /\ tree' = [tree EXCEPT ![Top].dirs = Store.dirs \cup {"path", "meta"}]
    BY <1>13 DEF MakeMeta, StoreTypeOK, Store
  <2>2. /\ Top' = Top /\ \A t \in {"host", "loop"} \ {Top} : tree'[t] = tree[t]
        /\ Store'.dirs = Store.dirs \cup {"path", "meta"}
        /\ Store'.namespace = Store.namespace
        /\ Store'.volume = Store.volume /\ Store'.images = Store.images
    BY <2>1, OneTreeChanges, DirsChange
  <2>3. Carries(tree'["host"]) /\ Carries(tree'["loop"])
    BY <1>1, <1>2, <2>2 DEF Carries, Store
  <2>4. PathsInv'
    BY <1>1, <1>2, <2>1, <2>2 DEF PathsInv, Store, Top
  <2>5. InitAsSeen(p)'
    BY <2>1, <2>2 DEF InitAsSeen, FilledSteps
  <2>6. Steady
    BY <1>3, <2>2
  <2> QED
    BY <1>5, <2>3, <2>4, <2>5, <2>6
<1>14. CASE StatNamespace(p)
  <2>1. /\ UNCHANGED <<tree, mounted>> /\ pc[p] = "statNamespace"
        /\ pc'[p] = (IF Store.namespace = None THEN "createNamespace" ELSE "validateNamespace")
    BY <1>14 DEF StatNamespace, StoreTypeOK
  <2>2. Store' = Store
    BY <1>6, <2>1
  <2>3. InitAsSeen(p)'
    BY <1>2, <2>1, <2>2 DEF InitAsSeen, FilledSteps
  <2> QED
    BY <1>5, <1>6, <2>1, <2>3
<1>15. CASE CreateNamespace(p)
  <2>1. /\ pc[p] = "createNamespace" /\ Store.namespace = None
        /\ {"path", "meta"} \subseteq Store.dirs
    BY <1>2, <1>15 DEF CreateNamespace, InitAsSeen, FilledSteps
  <2>2. /\ pc'[p] = "writeNamespace" /\ mounted' = mounted
        /\ tree' = [tree EXCEPT ![Top].namespace = Empty]
        /\ open'[p] = Top
    BY <1>15, <2>1 DEF CreateNamespace, StoreTypeOK
  <2>3. /\ Top' = Top /\ \A t \in {"host", "loop"} \ {Top} : tree'[t] = tree[t]
        /\ Store'.dirs = Store.dirs /\ Store'.namespace = Empty
        /\ Store'.volume = Store.volume /\ Store'.images = Store.images
    BY <2>2, OneTreeChanges, NamespaceChanges
  <2>4. Carries(tree'["host"]) /\ Carries(tree'["loop"])
    BY <1>1, <1>2, <2>1, <2>3 DEF Carries, Store
  <2>5. PathsInv'
    BY <1>1, <1>2, <2>2, <2>3 DEF PathsInv, Store, Top
  <2>6. InitAsSeen(p)'
    BY <2>1, <2>2, <2>3 DEF InitAsSeen, FilledSteps
  <2>7. Steady
    BY <1>3, <2>1
  <2> QED
    BY <1>5, <2>4, <2>5, <2>6, <2>7
<1>16. CASE WriteNamespace(p)
  <2>1. /\ pc[p] = "writeNamespace" /\ open[p] = Top /\ Store.namespace = Empty
        /\ {"path", "meta"} \subseteq Store.dirs
    BY <1>2, <1>16 DEF WriteNamespace, InitAsSeen, FilledSteps
  <2>2. /\ pc'[p] = "configure" /\ mounted' = mounted
        /\ tree' = [tree EXCEPT ![Top].namespace = cmd[p].mapping]
    BY <1>1, <1>16, <2>1, ManagerAssumption DEF WriteNamespace, StoreTypeOK
  <2>3. /\ Top' = Top /\ \A t \in {"host", "loop"} \ {Top} : tree'[t] = tree[t]
        /\ Store'.dirs = Store.dirs /\ Store'.namespace = cmd[p].mapping
        /\ Store'.volume = Store.volume /\ Store'.images = Store.images
    BY <2>2, OneTreeChanges, NamespaceChanges
  <2>4. /\ Store.volume = None /\ \A i \in ImageIDs : Store.images[i] \in {None, Bare}
        /\ cmd[p].mapping \in Mappings /\ None \notin Mappings /\ Empty \notin Mappings
    <3>1. Store \in Tree /\ Carries(Store)
      BY <1>1, <1>2 DEF Store
    <3>2. Empty \notin Mappings /\ None \notin Mappings
      BY ManagerAssumption
    <3>3. Store.volume = None
      BY <2>1, <3>1, <3>2, ManagerAssumption DEF Carries, Tree
    <3>4. ASSUME NEW i \in ImageIDs PROVE Store.images[i] \in {None, Bare}
      <4>1. Store.images[i] \in Mappings \cup {None, Bare}
        BY <3>1 DEF Tree
      <4>2. Store.images[i] \in {Empty, None, Bare}
        BY <2>1, <3>1 DEF Carries
      <4> QED
        BY <3>2, <4>1, <4>2
    <3> QED
      BY <3>2, <3>3, <3>4 DEF StoreTypeOK, Command
  <2>5. Carries(tree'["host"]) /\ Carries(tree'["loop"])
    BY <1>1, <1>2, <2>3, <2>4 DEF Carries, Store
  <2>6. PathsInv'
    BY <1>1, <1>2, <2>2, <2>3 DEF PathsInv, Store, Top
  <2>7. InitAsSeen(p)'
    BY <2>1, <2>2, <2>3 DEF InitAsSeen, FilledSteps
  <2>8. Steady
    BY <1>3, <2>1, <2>3, <2>4
  <2> QED
    BY <1>5, <2>5, <2>6, <2>7, <2>8
<1>17. CASE ValidateNamespace(p)
  <2>1. /\ UNCHANGED <<tree, mounted>> /\ pc[p] = "validateNamespace"
        /\ pc'[p] \in {"configure", "failed"}
    BY <1>17 DEF ValidateNamespace, StoreTypeOK
  <2>2. Store' = Store
    BY <1>6, <2>1
  <2>3. InitAsSeen(p)'
    BY <1>2, <2>1, <2>2 DEF InitAsSeen, FilledSteps
  <2> QED
    BY <1>5, <1>6, <2>1, <2>3
<1>18. CASE Configure(p)
  <2>1. /\ UNCHANGED <<tree, mounted>> /\ pc[p] = "configure"
        /\ pc'[p] \in {"makeFolder", "failed"}
    BY <1>18 DEF Configure, StoreTypeOK
  <2>2. Store' = Store
    BY <1>6, <2>1
  <2>3. InitAsSeen(p)'
    BY <1>2, <2>1, <2>2 DEF InitAsSeen, FilledSteps
  <2> QED
    BY <1>5, <1>6, <2>1, <2>3
<1>19. CASE MakeFolder(p)
  <2>1. pc[p] = "makeFolder" /\ {"path", "meta"} \subseteq Store.dirs
    BY <1>2, <1>19 DEF MakeFolder, InitAsSeen, FilledSteps
  <2>2. /\ pc'[p] \in {"makeFolder", "done"} /\ mounted' = mounted
        /\ tree' = [tree EXCEPT ![Top].dirs = Store.dirs \cup {StoreFolders[folder[p]]}]
    <3>1. Parent(StoreFolders[folder[p]]) \in Store.dirs
      BY <2>1 DEF Parent
    <3>2. /\ tree' = [tree EXCEPT ![Top].dirs = @ \cup {StoreFolders[folder[p]]}]
          /\ pc' = pc \/ pc' = [pc EXCEPT ![p] = "done"]
          /\ mounted' = mounted
      BY <1>19, <3>1 DEF MakeFolder
    <3>3. pc'[p] \in {"makeFolder", "done"}
      BY <2>1, <3>2 DEF StoreTypeOK
    <3> QED
      BY <3>2, <3>3 DEF Store
  <2>3. /\ Top' = Top /\ \A t \in {"host", "loop"} \ {Top} : tree'[t] = tree[t]
        /\ Store.dirs \subseteq Store'.dirs
        /\ Store'.namespace = Store.namespace
        /\ Store'.volume = Store.volume /\ Store'.images = Store.images
    <3> DEFINE d == Store.dirs \cup {StoreFolders[folder[p]]}
    <3>1. tree' = [tree EXCEPT ![Top].dirs = d] /\ mounted' = mounted /\ Store.dirs \subseteq d
      BY <2>2
    <3> HIDE DEF d
    <3> QED
      BY <3>1, OneTreeChanges, DirsChange
  <2>4. Carries(tree'["host"]) /\ Carries(tree'["loop"])
    BY <1>1, <1>2, <2>3 DEF Carries, Store
  <2>5. PathsInv'
    BY <1>1, <1>2, <2>1, <2>2, <2>3 DEF PathsInv, Store, Top
  <2>6. InitAsSeen(p)'
    BY <2>1, <2>2, <2>3 DEF InitAsSeen, FilledSteps
  <2>7. Steady
    BY <1>3, <2>3
  <2> QED
    BY <1>5, <2>4, <2>5, <2>6, <2>7
<1> QED
  BY <1>7, <1>8, <1>9, <1>10, <1>11, <1>12, <1>13, <1>14, <1>15, <1>16, <1>17, <1>18,
     <1>19 DEF InitStore

\* Every step of delete-store keeps LifeInv.
LEMMA DeleteStoreKeepsLife ==
    ASSUME StoreTypeOK, OwnSteps, OverlapInv, LifeInv, Orderly,
           NEW p \in Procs, DeleteStore(p)
    PROVE  LifeInv'
<1>0. /\ pc[p] \in DeleteSteps /\ pc'[p] \in DeleteSteps \cup {"done", "failed"}
      /\ \A q \in Procs \ {p} : pc'[q] = pc[q] /\ pc[q] \notin Steps
  BY OwnMoves, AloneAtWork DEF Running
<1>1. Top \in {"host", "loop"} /\ Store \in Tree
  BY DEF Top, Store, StoreTypeOK
<1>2. PathsInv /\ FileInv /\ Carries(tree["host"]) /\ Carries(tree["loop"]) /\ DeleteAsSeen(p)
  BY DEF LifeInv
<1>3. ASSUME PathsInv', Carries(tree'["host"]), Carries(tree'["loop"]), DeleteAsSeen(p)'
      PROVE  LifeInv'
  <2>1. CreateAsSeen(p)' /\ InitAsSeen(p)'
    BY <1>0 DEF CreateAsSeen, InitAsSeen, DeleteSteps, CreateSteps, FilledSteps
  <2>2. ASSUME NEW q \in Procs \ {p} PROVE InitAsSeen(q)' /\ DeleteAsSeen(q)' /\ CreateAsSeen(q)'
    BY <1>0 DEF InitAsSeen, DeleteAsSeen, CreateAsSeen, Steps, InitSteps, DeleteSteps,
        CreateSteps, FilledSteps
  <2> QED
    BY <1>2, <1>3, <2>1, <2>2, OthersKeepFile DEF LifeInv, FileInv
<1>4. ASSUME UNCHANGED <<tree, mounted>>
      PROVE  PathsInv' /\ Carries(tree'["host"]) /\ Carries(tree'["loop"]) /\ Store' = Store
  BY <1>2, <1>4 DEF PathsInv, Store, Top
<1>5. ASSUME mounted' = mounted,
             \A t \in {"host", "loop"} \ {Top} : tree'[t] = tree[t], Top' = Top,
             Store'.dirs = Store.dirs, Carries(Store')
      PROVE  PathsInv' /\ Carries(tree'["host"]) /\ Carries(tree'["loop"])
  BY <1>1, <1>2, <1>5 DEF PathsInv, Store, Top
<1> USE DEF Goto, Fail
<1>6. CASE \/ StatStore(p) \/ LockForDelete(p) \/ RemoveAllFails(p)
  <2>1. UNCHANGED <<tree, mounted>> /\ pc'[p] \in {"lock", "done", "listImages", "failed"}
    BY <1>6 DEF StatStore, LockForDelete, RemoveAllFails, StoreTypeOK
  <2>2. DeleteAsSeen(p)'
    BY <2>1 DEF DeleteAsSeen
  <2> QED
    BY <1>3, <1>4, <2>1, <2>2
<1>7. CASE ListImages(p)
  <2>1. UNCHANGED <<tree, mounted>> /\ pc'[p] \in {"destroyImages", "failed"} /\ seen'[p] = Images
    BY <1>7 DEF ListImages, StoreTypeOK
  <2>2. DeleteAsSeen(p)'
    BY <1>4, <2>1 DEF DeleteAsSeen, Images
  <2> QED
    BY <1>3, <1>4, <2>1, <2>2
<1>8. CASE DestroyImages(p)
  <2>0. pc[p] = "destroyImages" /\ \A i \in ImageIDs : Store.images[i] # None => i \in seen[p]
    BY <1>2, <1>8 DEF DestroyImages, DeleteAsSeen
  <2>1. CASE seen[p] = {} /\ Goto(p, "listVolumes") /\ UNCHANGED <<tree, seen>>
    <3>1. UNCHANGED <<tree, mounted>> /\ pc'[p] = "listVolumes"
      BY <1>8, <2>1 DEF DestroyImages, StoreTypeOK
    <3>2. DeleteAsSeen(p)'
      BY <1>4, <2>0, <2>1, <3>1 DEF DeleteAsSeen
    <3> QED
      BY <1>3, <1>4, <3>1, <3>2
  <2>2. CASE ~(seen[p] = {} /\ Goto(p, "listVolumes") /\ UNCHANGED <<tree, seen>>)
    <3>1. PICK i \in seen[p] :
            /\ tree' = [tree EXCEPT ![Top].images[i] = None]
            /\ seen' = [seen EXCEPT ![p] = @ \ {i}]
            /\ UNCHANGED pc \/ pc' = [pc EXCEPT ![p] = "failed"]
      BY <1>8, <2>2 DEF DestroyImages
    <3>2. i \in ImageIDs /\ mounted' = mounted /\ seen'[p] = seen[p] \ {i}
      BY <1>8, <3>1 DEF DestroyImages, StoreTypeOK
    <3>3. /\ Store'.images = [Store.images EXCEPT ![i] = None]
          /\ Store'.dirs = Store.dirs /\ Store'.namespace = Store.namespace
          /\ Store'.volume = Store.volume
      BY <3>1, <3>2, ImageChanges
    <3>4. \A j \in ImageIDs : Store'.images[j] = IF j = i THEN None ELSE Store.images[j]
      BY <1>1, <3>3 DEF Tree
    <3>5. Top' = Top /\ \A t \in {"host", "loop"} \ {Top} : tree'[t] = tree[t]
      BY <3>1, <3>2, OneTreeChanges
    <3>6. Carries(Store')
      BY <1>1, <1>2, <3>3, <3>4 DEF Carries, Store
    <3>7. pc'[p] \in {"destroyImages", "failed"}
      BY <2>0, <3>1 DEF StoreTypeOK
    <3>8. DeleteAsSeen(p)'
      BY <2>0, <3>2, <3>4, <3>7 DEF DeleteAsSeen
    <3> QED
      BY <1>3, <1>5, <3>2, <3>3, <3>5, <3>6, <3>8
  <2> QED
    BY <2>1, <2>2
<1>9. CASE ListVolumes(p)
  <2>1. /\ UNCHANGED <<tree, mounted>> /\ pc'[p] \in {"destroyVolumes", "failed"}
        /\ seen'[p] = (IF Store.volume = None THEN {} ELSE {"volume"}) /\ pc[p] = "listVolumes"
    BY <1>9 DEF ListVolumes, StoreTypeOK
  <2>2. DeleteAsSeen(p)'
    BY <1>2, <1>4, <2>1 DEF DeleteAsSeen
  <2> QED
    BY <1>3, <1>4, <2>1, <2>2
<1>10. CASE DestroyVolumes(p)
  <2>0. pc[p] = "destroyVolumes" /\ mounted' = mounted /\ seen'[p] = {}
    BY <1>10 DEF DestroyVolumes, StoreTypeOK
  <2>1. CASE seen[p] = {} /\ Goto(p, "removeAll") /\ UNCHANGED tree
    <3>1. pc'[p] = "removeAll"
      BY <2>1 DEF StoreTypeOK
    <3>2. DeleteAsSeen(p)'
      BY <1>2, <1>4, <2>0, <2>1, <3>1 DEF DeleteAsSeen
    <3> QED
      BY <1>3, <1>4, <2>0, <2>1, <3>2
  <2>2. CASE /\ tree' = [tree EXCEPT ![Top].volume = None]
             /\ UNCHANGED pc \/ pc' = [pc EXCEPT ![p] = "failed"]
    <3>1. /\ Store'.volume = None /\ Store'.dirs = Store.dirs
          /\ Store'.namespace = Store.namespace /\ Store'.images = Store.images
      BY <2>0, <2>2, VolumeChanges
    <3>2. Top' = Top /\ \A t \in {"host", "loop"} \ {Top} : tree'[t] = tree[t]
      BY <2>0, <2>2, OneTreeChanges
    <3>3. Carries(Store')
      BY <1>1, <1>2, <3>1 DEF Carries, Store
    <3>4. pc'[p] \in {"destroyVolumes", "failed"}
      BY <2>0, <2>2 DEF StoreTypeOK
    <3>5. DeleteAsSeen(p)'
      BY <1>2, <2>0, <3>1, <3>4 DEF DeleteAsSeen
    <3> QED
      BY <1>3, <1>5, <2>0, <3>1, <3>2, <3>3, <3>5
  <2> QED
    BY <1>10, <2>1, <2>2 DEF DestroyVolumes
<1>11. CASE RemoveEntry(p)
  <2>0. pc[p] = "removeAll" /\ mounted' = mounted /\ pc' = pc
    BY <1>11 DEF RemoveEntry
  <2>1. Store.volume = None /\ \A i \in ImageIDs : Store.images[i] = None
    BY <1>2, <2>0 DEF DeleteAsSeen
  <2>2. CASE tree' = [tree EXCEPT ![Top].namespace = None]
    <3>1. /\ Store'.volume = Store.volume /\ Store'.dirs = Store.dirs
          /\ Store'.images = Store.images
      BY <2>0, <2>2, NamespaceChanges
    <3>2. Top' = Top /\ \A t \in {"host", "loop"} \ {Top} : tree'[t] = tree[t]
      BY <2>0, <2>2, OneTreeChanges
    <3>3. Carries(Store')
      BY <2>1, <3>1 DEF Carries
    <3>4. DeleteAsSeen(p)'
      BY <2>0, <2>1, <3>1 DEF DeleteAsSeen
    <3> QED
      BY <1>3, <1>5, <2>0, <3>1, <3>2, <3>3, <3>4
  <2>3. CASE \E f \in Store.dirs \ {"path"} :
               IsEmpty(f) /\ tree' = [tree EXCEPT ![Top].dirs = @ \ {f}]
    <3>1. PICK f \in Store.dirs \ {"path"} : tree' = [tree EXCEPT ![Top].dirs = Store.dirs \ {f}]
      BY <2>3 DEF Store
    <3>2. /\ Store'.dirs = Store.dirs \ {f} /\ Store'.namespace = Store.namespace
          /\ Store'.volume = Store.volume /\ Store'.images = Store.images
      BY <2>0, <3>1, DirsChange
    <3>3. Top' = Top /\ \A t \in {"host", "loop"} \ {Top} : tree'[t] = tree[t]
      BY <2>0, <3>1, OneTreeChanges
    <3>4. Carries(tree'["host"]) /\ Carries(tree'["loop"])
      BY <1>1, <1>2, <3>2, <3>3 DEF Carries, Store
    <3>5. PathsInv'
      BY <1>1, <1>2, <2>0, <3>2, <3>3 DEF PathsInv, Store, Top
    <3>6. DeleteAsSeen(p)'
      BY <2>0, <2>1, <3>2 DEF DeleteAsSeen
    <3> QED
      BY <1>3, <3>4, <3>5, <3>6
  <2>4. \/ tree' = [tree EXCEPT ![Top].namespace = None]
        \/ \E f \in Store.dirs \ {"path"} :
             IsEmpty(f) /\ tree' = [tree EXCEPT ![Top].dirs = @ \ {f}]
    <3>1. Images = {} /\ ~(Store.volume # None)
      BY <2>1 DEF Images
    <3> QED
      BY <1>11, <3>1, Zenon DEF RemoveEntry
  <2> QED
    BY <2>2, <2>3, <2>4
<1>12. CASE RemovePath(p)
  <2>1. CASE mounted /\ Fail(p) /\ UNCHANGED tree
    <3>1. UNCHANGED <<tree, mounted>> /\ pc'[p] = "failed"
      BY <1>12, <2>1 DEF RemovePath, StoreTypeOK
    <3>2. DeleteAsSeen(p)'
      BY <3>1 DEF DeleteAsSeen
    <3> QED
      BY <1>3, <1>4, <3>1, <3>2
  <2>2. CASE ~mounted /\ tree' = [tree EXCEPT !["host"].dirs = {}] /\ Goto(p, "done")
    <3>1. pc'[p] = "done" /\ mounted' = mounted /\ Top = "host"
      BY <1>12, <2>2 DEF RemovePath, StoreTypeOK, Top
    <3>2. tree' = [tree EXCEPT ![Top].dirs = {}]
      BY <2>2, <3>1
    <3>3. /\ Store'.dirs = {} /\ Store'.namespace = Store.namespace
          /\ Store'.volume = Store.volume /\ Store'.images = Store.images
      BY <3>1, <3>2, DirsChange
    <3>4. Top' = Top /\ \A t \in {"host", "loop"} \ {Top} : tree'[t] = tree[t]
      BY <3>1, <3>2, OneTreeChanges
    <3>5. Carries(tree'["host"]) /\ Carries(tree'["loop"])
      BY <1>1, <1>2, <3>3, <3>4 DEF Carries, Store
    <3>6. PathsInv'
      BY <1>1, <1>2, <2>2, <3>1, <3>3, <3>4 DEF PathsInv, Store, Top
    <3>7. DeleteAsSeen(p)'
      BY <3>1 DEF DeleteAsSeen
    <3> QED
      BY <1>3, <3>5, <3>6, <3>7
  <2> QED
    BY <1>12, <2>1, <2>2 DEF RemovePath
<1> QED
  BY <1>6, <1>7, <1>8, <1>9, <1>10, <1>11, <1>12 DEF DeleteStore

\* Every step of create keeps LifeInv.
LEMMA CreateImageKeepsLife ==
    ASSUME StoreTypeOK, OwnSteps, OverlapInv, LifeInv, Orderly,
           NEW p \in Procs, CreateImage(p)
    PROVE  LifeInv'
<1>0. /\ pc[p] \in CreateSteps /\ pc'[p] \in CreateSteps \cup {"done", "failed"}
      /\ \A q \in Procs \ {p} : pc'[q] = pc[q] /\ pc[q] \notin DeleteSteps
  <2>1. \A q \in Procs \ {p} : pc[q] \in DeleteSteps => ~Running(p)
    BY AloneAtWork
  <2> QED
    BY <2>1, OwnMoves DEF Running, Steps
<1>1. Top \in {"host", "loop"} /\ Store \in Tree /\ cmd[p].id \in ImageIDs
  BY DEF Top, Store, StoreTypeOK, Command
<1>2. PathsInv /\ FileInv /\ Carries(tree["host"]) /\ Carries(tree["loop"]) /\ CreateAsSeen(p)
  BY DEF LifeInv
<1>3. UNCHANGED <<mounted, open, cmd, seen>>
  BY DEF CreateImage, CheckInitialized, ReadMappings, LockForCreate, Pull, MakeImage,
      Snapshot, Register
<1>4. \A q \in Procs \ {p} : mapping'[q] = mapping[q]
  BY DEF CreateImage, CheckInitialized, ReadMappings, LockForCreate, Pull, MakeImage,
      Snapshot, Register, StoreTypeOK
<1>5. ASSUME Top' = Top, \A t \in {"host", "loop"} \ {Top} : tree'[t] = tree[t],
             Store'.dirs = Store.dirs, Store'.namespace = Store.namespace,
             Carries(Store'), CreateAsSeen(p)'
      PROVE  LifeInv'
  <2>1. \A t \in {"host", "loop"} : tree'[t].dirs = tree[t].dirs /\ Carries(tree'[t])
    BY <1>1, <1>2, <1>5 DEF Store
  <2>2. PathsInv'
    BY <1>2, <1>3, <2>1 DEF PathsInv
  <2>3. InitAsSeen(p)' /\ DeleteAsSeen(p)'
    BY <1>0 DEF InitAsSeen, DeleteAsSeen, CreateSteps, FilledSteps
  <2>4. ASSUME NEW q \in Procs \ {p} PROVE InitAsSeen(q)' /\ CreateAsSeen(q)' /\ DeleteAsSeen(q)'
    <3>1. InitAsSeen(q) /\ CreateAsSeen(q) /\ pc'[q] = pc[q]
      BY <1>0 DEF LifeInv
    <3>2. InitAsSeen(q)'
      BY <1>3, <1>5, <2>1, <3>1, OthersKeepFile DEF InitAsSeen
    <3>3. CreateAsSeen(q)'
      BY <1>4, <1>5, <3>1 DEF CreateAsSeen
    <3>4. DeleteAsSeen(q)'
      BY <1>0 DEF DeleteAsSeen, DeleteSteps
    <3> QED
      BY <3>2, <3>3, <3>4
  <2> QED
    BY <1>2, <1>5, <2>1, <2>2, <2>3, <2>4, OthersKeepFile DEF LifeInv, FileInv
<1>6. ASSUME UNCHANGED tree
      PROVE  /\ Top' = Top /\ Store' = Store /\ Carries(Store')
             /\ \A t \in {"host", "loop"} \ {Top} : tree'[t] = tree[t]
  BY <1>1, <1>2, <1>3, <1>6 DEF Store, Top
<1>7. ASSUME NEW r \in {Bare, None, Store.volume}, tree' = [tree EXCEPT ![Top].images[cmd[p].id] = r]
      PROVE  /\ Top' = Top /\ Carries(Store')
             /\ \A t \in {"host", "loop"} \ {Top} : tree'[t] = tree[t]
             /\ Store'.dirs = Store.dirs /\ Store'.namespace = Store.namespace
             /\ Store'.volume = Store.volume
  <2>1. /\ Store'.images = [Store.images EXCEPT ![cmd[p].id] = r]
        /\ Store'.dirs = Store.dirs /\ Store'.namespace = Store.namespace
        /\ Store'.volume = Store.volume
    BY <1>1, <1>3, <1>7, ImageChanges
  <2>2. \A j \in ImageIDs : Store'.images[j] = IF j = cmd[p].id THEN r ELSE Store.images[j]
    BY <1>1, <2>1 DEF Tree
  <2>3. Carries(Store)
    BY <1>1, <1>2 DEF Store
  <2>4. Carries(Store')
    BY <2>1, <2>2, <2>3 DEF Carries
  <2>5. Top' = Top /\ \A t \in {"host", "loop"} \ {Top} : tree'[t] = tree[t]
    BY <1>3, <1>7, OneTreeChanges
  <2> QED
    BY <2>1, <2>4, <2>5
<1> USE DEF Goto, Fail
<1>8. CASE CheckInitialized(p)
  <2>1. UNCHANGED tree /\ pc'[p] = (IF IsStoreInitialized(Store) THEN "readMappings" ELSE "failed")
    BY <1>8 DEF CheckInitialized, StoreTypeOK
  <2>2. IsStoreInitialized(Store) => "images" \in Store.dirs /\ Store.namespace # None
    BY DEF IsStoreInitialized, Folders, StoreFolders
  <2>3. CreateAsSeen(p)'
    BY <1>6, <2>1, <2>2 DEF CreateAsSeen, CreateSteps
  <2> QED
    BY <1>5, <1>6, <2>1, <2>3
<1>9. CASE ReadMappings(p)
  <2>1. /\ UNCHANGED tree /\ pc[p] = "readMappings"
        /\ \/ /\ pc'[p] = "lockStore" /\ Store.namespace \in Mappings
              /\ mapping'[p] = Store.namespace
           \/ pc'[p] = "failed"
    BY <1>9 DEF ReadMappings, StoreTypeOK
  <2>2. "images" \in Store.dirs /\ Store.namespace # None
    BY <1>2, <2>1 DEF CreateAsSeen, CreateSteps
  <2>3. CreateAsSeen(p)'
    BY <1>6, <2>1, <2>2 DEF CreateAsSeen, CreateSteps
  <2> QED
    BY <1>5, <1>6, <2>1, <2>3
<1>10. CASE LockForCreate(p)
  <2>1. UNCHANGED <<tree, mapping>> /\ pc[p] = "lockStore" /\ pc'[p] \in {"pull", "failed"}
    BY <1>10 DEF LockForCreate, StoreTypeOK
  <2>2. CreateAsSeen(p)'
    BY <1>2, <1>6, <2>1 DEF CreateAsSeen, CreateSteps
  <2> QED
    BY <1>5, <1>6, <2>1, <2>2
<1>11. CASE Pull(p)
  <2>0. /\ pc[p] = "pull" /\ "images" \in Store.dirs /\ Store.namespace # None
        /\ mapping[p] = Store.namespace
    BY <1>2, <1>11 DEF Pull, CreateAsSeen, CreateSteps
  <2>1. CASE UNCHANGED tree /\ pc'[p] = "failed"
    <3>1. CreateAsSeen(p)'
      BY <2>1 DEF CreateAsSeen, CreateSteps
    <3> QED
      BY <1>5, <1>6, <2>1, <3>1
  <2>2. CASE /\ tree' = [tree EXCEPT ![Top].volume =
                           IF Store.volume = None THEN mapping[p] ELSE Store.volume]
             /\ pc'[p] = "makeImage"
    <3> DEFINE v == IF Store.volume = None THEN mapping[p] ELSE Store.volume
    <3>1. v = Store.namespace \/ v = Store.volume
      BY <2>0
    <3>2. tree' = [tree EXCEPT ![Top].volume = v]
      BY <2>2
    <3> HIDE DEF v
    <3>3. /\ Store'.volume = v /\ Store'.dirs = Store.dirs
          /\ Store'.namespace = Store.namespace /\ Store'.images = Store.images
      BY <1>3, <3>2, VolumeChanges
    <3>4. Top' = Top /\ \A t \in {"host", "loop"} \ {Top} : tree'[t] = tree[t]
      BY <1>3, <3>2, OneTreeChanges
    <3>5. Carries(Store')
      BY <1>1, <1>2, <3>1, <3>3 DEF Carries, Store
    <3>6. CreateAsSeen(p)'
      BY <2>0, <2>2, <3>3 DEF CreateAsSeen
    <3> QED
      BY <1>5, <3>3, <3>4, <3>5, <3>6
  <2>3. \/ UNCHANGED tree /\ pc' = [pc EXCEPT ![p] = "failed"]
        \/ /\ tree' = [tree EXCEPT ![Top].volume = IF @ = None THEN mapping[p] ELSE @]
           /\ pc' = [pc EXCEPT ![p] = "makeImage"]
    BY <1>11 DEF Pull
  <2> QED
    BY <2>1, <2>2, <2>3 DEF Store, StoreTypeOK
<1>12. CASE MakeImage(p)
  <2>0. pc[p] = "makeImage" /\ "images" \in Store.dirs /\ Store.namespace # None
    BY <1>2, <1>12 DEF MakeImage, CreateAsSeen, CreateSteps
  <2>1. /\ \E r \in {Bare, None} : tree' = [tree EXCEPT ![Top].images[cmd[p].id] = r]
        /\ pc'[p] \in {"snapshot", "failed"}
    BY <1>12 DEF MakeImage, StoreTypeOK
  <2>2. /\ Top' = Top /\ Carries(Store')
        /\ \A t \in {"host", "loop"} \ {Top} : tree'[t] = tree[t]
        /\ Store'.dirs = Store.dirs /\ Store'.namespace = Store.namespace
    BY <1>7, <2>1
  <2>3. CreateAsSeen(p)'
    BY <2>0, <2>1, <2>2 DEF CreateAsSeen
  <2> QED
    BY <1>5, <2>2, <2>3
<1>13. CASE Snapshot(p)
  <2>0. pc[p] = "snapshot" /\ "images" \in Store.dirs /\ Store.namespace # None
    BY <1>2, <1>13 DEF Snapshot, CreateAsSeen, CreateSteps
  <2>1. /\ \E r \in {Store.volume, None} : tree' = [tree EXCEPT ![Top].images[cmd[p].id] = r]
        /\ pc'[p] \in {"register", "failed"}
    BY <1>13 DEF Snapshot, StoreTypeOK
  <2>2. /\ Top' = Top /\ Carries(Store')
        /\ \A t \in {"host", "loop"} \ {Top} : tree'[t] = tree[t]
        /\ Store'.dirs = Store.dirs /\ Store'.namespace = Store.namespace
    BY <1>7, <2>1
  <2>3. CreateAsSeen(p)'
    BY <2>0, <2>1, <2>2 DEF CreateAsSeen
  <2> QED
    BY <1>5, <2>2, <2>3
<1>14. CASE Register(p)
  <2>1. pc'[p] \in {"done", "failed"}
    BY <1>14 DEF Register, StoreTypeOK
  <2>2. CreateAsSeen(p)'
    BY <2>1 DEF CreateAsSeen, CreateSteps
  <2>3. CASE UNCHANGED tree
    BY <1>5, <1>6, <2>2, <2>3
  <2>4. CASE tree' = [tree EXCEPT ![Top].images[cmd[p].id] = None]
    BY <1>5, <1>7, <2>2, <2>4
  <2> QED
    BY <1>14, <2>3, <2>4 DEF Register
<1> QED
  BY <1>8, <1>9, <1>10, <1>11, <1>12, <1>13, <1>14 DEF CreateImage

LEMMA LifeHolds ==
    ASSUME Orderly
    PROVE  Spec => []LifeInv
<1>1. Init => LifeInv
  <2> SUFFICES ASSUME Init PROVE LifeInv
    OBVIOUS
  <2>1. \A p \in Procs : InitAsSeen(p) /\ CreateAsSeen(p) /\ DeleteAsSeen(p)
    BY DEF Init, InitAsSeen, CreateAsSeen, DeleteAsSeen, CreateSteps, FilledSteps
  <2>2. \A t \in {"host", "loop"} : tree[t] = NoTree \/ \E m : tree[t] = ReadyTree(m)
    BY DEF Init
  <2>3. Carries(tree["host"]) /\ Carries(tree["loop"])
    <3>1. Carries(NoTree)
      BY DEF Carries, NoTree
    <3>2. \A m : Carries(ReadyTree(m))
      BY DEF Carries, NoTree, ReadyTree
    <3> QED
      BY <2>2, <3>1, <3>2
  <2>4. PathsInv
    BY <2>2 DEF Init, PathsInv, NoTree, ReadyTree
  <2>5. FileInv
    BY DEF Init, FileInv
  <2> QED
    BY <2>1, <2>3, <2>4, <2>5 DEF LifeInv
<1>2. StoreTypeOK /\ OwnSteps /\ OverlapInv /\ MountInv /\ LifeInv /\ [Next]_vars => LifeInv'
  <2> SUFFICES ASSUME StoreTypeOK, OwnSteps, OverlapInv, MountInv, LifeInv, [Next]_vars
               PROVE  LifeInv'
    OBVIOUS
  <2>1. ASSUME NEW p \in Procs, Start(p) PROVE LifeInv'
    <3>1. UNCHANGED <<tree, mounted, backing, open, mapping, seen, Store, Top>>
      BY <2>1 DEF Start, Store, Top
    <3>2. pc'[p] \in {"validate", "statStore", "checkInitialized"}
      BY <2>1 DEF Start, Goto, Entry, StoreTypeOK, Command, Operations
    <3>3. \A q \in Procs \ {p} : pc'[q] = pc[q]
      BY <2>1 DEF Start, Goto, StoreTypeOK
    <3>4. InitAsSeen(p)' /\ CreateAsSeen(p)' /\ DeleteAsSeen(p)'
      BY <3>2 DEF InitAsSeen, CreateAsSeen, DeleteAsSeen, CreateSteps, FilledSteps
    <3>5. ASSUME NEW q \in Procs \ {p} PROVE InitAsSeen(q)' /\ CreateAsSeen(q)' /\ DeleteAsSeen(q)'
      BY <3>1, <3>3 DEF LifeInv, InitAsSeen, CreateAsSeen, DeleteAsSeen
    <3> QED
      BY <3>1, <3>4, <3>5 DEF LifeInv, PathsInv, FileInv, Carries
  <2>2. ASSUME NEW p \in Procs, Abort(p) \/ IOError(p) PROVE LifeInv'
    <3>1. /\ UNCHANGED <<tree, mounted, backing, mapping, seen, Store, Top>>
          /\ \A q \in Procs \ {p} : pc'[q] = pc[q] /\ open'[q] = open[q]
          /\ pc'[p] \in {"aborted", "failed"}
      BY <2>2 DEF Abort, IOError, Goto, Fail, Store, Top, StoreTypeOK
    <3>2. InitAsSeen(p)' /\ CreateAsSeen(p)' /\ DeleteAsSeen(p)'
      BY <3>1 DEF InitAsSeen, CreateAsSeen, DeleteAsSeen, CreateSteps, FilledSteps
    <3>3. ASSUME NEW q \in Procs \ {p} PROVE InitAsSeen(q)' /\ CreateAsSeen(q)' /\ DeleteAsSeen(q)'
      BY <3>1 DEF LifeInv, InitAsSeen, CreateAsSeen, DeleteAsSeen
    <3> QED
      BY <3>1, <3>2, <3>3 DEF LifeInv, PathsInv, FileInv, Carries
  <2>3. CASE Reboot
    <3>1. UNCHANGED tree /\ ~mounted' /\ \A q \in Procs : pc'[q] \notin Steps
      BY <2>3 DEF Reboot, StoreTypeOK, Running, Steps, InitSteps, DeleteSteps, CreateSteps
    <3>2. \A q \in Procs : InitAsSeen(q)' /\ CreateAsSeen(q)' /\ DeleteAsSeen(q)'
      BY <3>1 DEF InitAsSeen, CreateAsSeen, DeleteAsSeen, Steps, InitSteps, DeleteSteps,
          CreateSteps, FilledSteps
    <3> QED
      BY <3>1, <3>2 DEF LifeInv, PathsInv, FileInv, Carries
  <2>4. CASE UNCHANGED vars
    BY <2>4 DEF vars, LifeInv, PathsInv, FileInv, Carries, InitAsSeen, CreateAsSeen, DeleteAsSeen,
        Store, Top
  <2> QED
    BY <2>1, <2>2, <2>3, <2>4, InitStoreKeepsLife, DeleteStoreKeepsLife, CreateImageKeepsLife
    DEF Next, Finished
<1> QED
  BY <1>1, <1>2, StoreTypesHold, StepsAreOwn, OverlapsAllowed, MountsFirst, PTL DEF Spec

\* Where commands are run in order, images and the cached volume carry the
\* mapping of the namespace file in either tree: create reads the file before it
\* locks, and what it has read stays there until it is done.
THEOREM MappingsAgree ==
    ASSUME Orderly
    PROVE  Spec => []MappingsMatch
<1>1. LifeInv => MappingsMatch
  BY DEF LifeInv, Carries, MappingsMatch
<1> QED
  BY <1>1, LifeHolds, PTL

\* Where commands are run in order, no init-store empties the backing file of a
\* mounted file system or cuts it short: manager.go's createAndMountFilesystem,
\* which does not look at the mount, is reached only when nothing is mounted.
THEOREM MountedFilesAreWhole ==
    ASSUME Orderly
    PROVE  Spec => []MountedFileWhole
<1>1. LifeInv => MountedFileWhole
  BY DEF LifeInv, FileInv, MountedFileWhole, Damaged
<1> QED
  BY <1>1, LifeHolds, PTL

\* Where commands are run in order, init-store does not fail of itself but for a
\* reason the operator is told of: what it has seen of the store still holds when
\* it relies on it, after whatever happened to earlier commands.
THEOREM InitStoresWork ==
    ASSUME Orderly
    PROVE  Spec => InitStoreWorks
<1> DEFINE Works(p) ==
      Running(p) /\ cmd[p].op = "init-store" /\ pc'[p] = "failed" =>
        \/ pc[p] = "validate" /\ cmd[p].size < MinStoreSize
        \/ Store.namespace \in (Mappings \cup {Empty}) \ {cmd[p].mapping}
<1>1. StoreTypeOK /\ OwnSteps /\ LifeInv /\ [Next]_vars => \A p \in Procs : Works(p)
  <2> SUFFICES ASSUME StoreTypeOK, OwnSteps, LifeInv, [Next]_vars, NEW p \in Procs,
                      Running(p), cmd[p].op = "init-store", pc'[p] = "failed"
               PROVE  \/ pc[p] = "validate" /\ cmd[p].size < MinStoreSize
                      \/ Store.namespace \in (Mappings \cup {Empty}) \ {cmd[p].mapping}
    OBVIOUS
  <2>1. pc[p] \in InitSteps
    BY DEF Running, Steps, OwnSteps
  <2>2. pc[p] # "failed" /\ pc[p] # "idle" /\ pc[p] \notin DeleteSteps \cup CreateSteps
    BY <2>1 DEF InitSteps, DeleteSteps, CreateSteps
  <2>3. InitStore(p)
    <3>1. ASSUME NEW q \in Procs, InitStore(q) \/ DeleteStore(q) \/ CreateImage(q)
          PROVE  q = p /\ InitStore(q)
      BY <2>2, <3>1, OwnMoves
    <3>2. ASSUME NEW q \in Procs, Start(q) PROVE FALSE
      BY <2>2, <3>2 DEF Start, Goto, Entry, StoreTypeOK, Command, Operations
    <3>3. ASSUME NEW q \in Procs, Abort(q) \/ IOError(q) PROVE FALSE
      <4>1. ~Damaged
        BY DEF LifeInv, FileInv, Damaged
      <4> QED
        BY <2>2, <3>3, <4>1 DEF Abort, IOError, Goto, StoreTypeOK
    <3>4. ~Reboot /\ ~UNCHANGED vars
      BY <2>2 DEF Reboot, vars, StoreTypeOK
    <3> QED
      BY <3>1, <3>2, <3>3, <3>4 DEF Next, Finished
  <2>4. InitAsSeen(p) /\ Store \in Tree
    BY DEF LifeInv, StoreTypeOK, Store, Top
  <2>5. cmd[p].size \in Int /\ MinStoreSize \in Nat \ {0}
    BY ManagerAssumption DEF StoreTypeOK, Command
  <2> USE DEF Goto, Fail
  <2>6. CASE Validate(p)
    <3>1. pc[p] = "validate" /\ ~(cmd[p].size > 0 /\ cmd[p].size >= MinStoreSize)
      BY <2>6 DEF Validate, StoreTypeOK
    <3> QED
      BY <2>5, <3>1
  <2>7. CASE \/ StatBacking(p) \/ WriteBacking(p) \/ Truncate(p) \/ MakePath(p)
             \/ Remount(p) \/ MakeMeta(p) \/ StatNamespace(p)
    BY <2>7 DEF StatBacking, WriteBacking, Truncate, MakePath, Remount, MakeMeta, StatNamespace,
      StoreTypeOK
  <2>8. CASE Format(p)
    BY <2>4, <2>8 DEF Format, InitAsSeen, StoreTypeOK
  <2>9. CASE Mount(p)
    BY <2>4, <2>9 DEF Mount, InitAsSeen, StoreTypeOK, Store, Top
  <2>10. CASE CreateNamespace(p)
    <3>1. pc[p] = "createNamespace" /\ "meta" \in Store.dirs
      BY <2>4, <2>10 DEF CreateNamespace, InitAsSeen, FilledSteps
    <3> QED
      BY <2>10, <3>1 DEF CreateNamespace, StoreTypeOK
  <2>11. CASE WriteNamespace(p)
    BY <2>11 DEF WriteNamespace, StoreTypeOK
  <2>12. CASE ValidateNamespace(p)
    <3>1. pc[p] = "validateNamespace" /\ Store.namespace # cmd[p].mapping
      BY <2>12 DEF ValidateNamespace, StoreTypeOK
    <3>2. Store.namespace # None /\ Store.namespace \in Mappings \cup {None, Empty}
      BY <2>4, <3>1 DEF InitAsSeen, Tree
    <3> QED
      BY <3>1, <3>2
  <2>13. CASE Configure(p)
    <3>1. pc[p] = "configure" /\ "path" \in Store.dirs
      BY <2>4, <2>13 DEF Configure, InitAsSeen, FilledSteps
    <3> QED
      BY <2>13, <3>1 DEF Configure, StoreTypeOK
  <2>14. CASE MakeFolder(p)
    <3>1. pc[p] = "makeFolder" /\ {"path", "meta"} \subseteq Store.dirs
      BY <2>4, <2>14 DEF MakeFolder, InitAsSeen, FilledSteps
    <3>2. Parent(StoreFolders[folder[p]]) \in Store.dirs
      BY <3>1 DEF Parent
    <3>3. pc' = pc \/ pc' = [pc EXCEPT ![p] = "done"]
      BY <2>14, <3>2 DEF MakeFolder
    <3> QED
      BY <2>2, <3>3 DEF StoreTypeOK
  <2> QED
    BY <2>3, <2>6, <2>7, <2>8, <2>9, <2>10, <2>11, <2>12, <2>13, <2>14 DEF InitStore
<1> QED
  BY <1>1, StoreTypesHold, StepsAreOwn, LifeHolds, PTL DEF Spec, InitStoreWorks
=============================================================================
