----------------------------- MODULE ImageCloner -----------------------------
(***************************************************************************)
(* store/image_cloner with the btrfs driver's CreateImage and DestroyImage *)
(* (images made with Mount set), and store/dependency_manager.             *)
(***************************************************************************)
EXTENDS Store

Id(p) == cmd[p].id

\* os.Mkdir(imagePath).  Any error, EEXIST too, runs the deferred clean-up.
MakeImageDir(p) ==
    /\ pc[p] = "mkdir"
    /\ IF Id(p) \in images
         THEN Error(p, "failRootfs") /\ UNCHANGED images
         ELSE Proceed(p, "createImage") /\ images' = images \cup {Id(p)}
    /\ UNCHANGED <<volumeVars, rootfs, nested, torn, depFiles, deps, lockVars, cmd, idx, gcVars>>

\* Mutant: the layers are copied into a rootfs that is there.
SnapshotMerged(p) ==
    /\ rootfs' = [rootfs EXCEPT ![Id(p)] = @ \cup content[Layer(p, Height(p))]]
    /\ UNCHANGED nested

\* CreateImage snapshots the top volume as images/<id>/rootfs.  A rootfs that
\* another create of this id has made is not replaced: btrfs puts the new
\* snapshot inside it.
SnapshotTaken(p) ==
    IF rootfs[Id(p)] = {}
      THEN /\ rootfs' = [rootfs EXCEPT ![Id(p)] = content[Layer(p, Height(p))]]
           /\ UNCHANGED nested
      ELSE /\ nested' = nested \cup {Id(p)}
           /\ UNCHANGED rootfs

CreateImage(p) ==
    /\ pc[p] = "createImage"
    /\ Height(p) > 0
    /\ IF Id(p) \in images /\ Layer(p, Height(p)) \in volumes
         THEN SnapshotTaken(p) /\ Proceed(p, "ownership")
         ELSE Error(p, "failRootfs") /\ UNCHANGED <<rootfs, nested>>
    /\ UNCHANGED <<volumeVars, images, torn, depFiles, deps, lockVars, cmd, idx, gcVars>>

\* The snapshot is taken, then chmod or the disk limit fails.
DiskLimitFails(p) ==
    /\ pc[p] = "createImage"
    /\ Height(p) > 0
    /\ Id(p) \in images
    /\ Layer(p, Height(p)) \in volumes
    /\ SnapshotTaken(p)
    /\ Fault(p, "failRootfs")
    /\ UNCHANGED <<volumeVars, images, torn, depFiles, deps, lockVars, cmd, idx, gcVars>>

\* CreateImage indexes BaseVolumeIDs at its length less one: a base image
\* without layers ends the process by a panic, with no error for the deferred
\* clean-up to see.
CreateImagePanics(p) ==
    /\ pc[p] = "createImage"
    /\ Height(p) = 0
    /\ Goto(p, "crashed")
    /\ DropLocks(p)
    /\ UNCHANGED <<volumeVars, imageVars, cmd, ok, idx, gcVars, faults>>

\* setOwnership and createVolumesSources.  Their errors do not reach the
\* deferred clean-up.  With the image gone they fail, unless the owner is root
\* and the base image declares no volumes.
SetOwnership(p) ==
    /\ pc[p] = "ownership"
    /\ \/ Proceed(p, "register")
       \/ Id(p) \notin images /\ Error(p, "unlock")
    /\ UNCHANGED <<volumeVars, imageVars, lockVars, cmd, idx, gcVars>>

\* dependencyManager.Register
Register(p) ==
    /\ pc[p] = "register"
    /\ depFiles' = depFiles \cup {Id(p)}
    /\ deps' = [deps EXCEPT ![Id(p)] = ChainSet(cmd[p].base)]
    /\ Proceed(p, "unlock")
    /\ UNCHANGED <<volumeVars, images, rootfs, nested, torn, lockVars, cmd, idx, gcVars>>

\* Destroy begins by looking for the image, for delete and for a create that
\* could not register its dependencies.  The delete command has looked before,
\* where an image that is not there is no error.
DestroyExists(p) ==
    /\ \/ /\ pc[p] = "findID"
          /\ Proceed(p, IF Id(p) \in images THEN "delExists" ELSE "exited")
       \/ /\ pc[p] = "delExists"
          /\ IF Id(p) \in images THEN Proceed(p, "delRootfs") ELSE Error(p, "exited")
       \/ /\ pc[p] = "undoExists"
          /\ Proceed(p, IF Id(p) \in images THEN "undoRootfs" ELSE "unlock")
    /\ UNCHANGED <<volumeVars, imageVars, lockVars, cmd, idx, gcVars>>

AfterRootfs == [delRootfs |-> "delDir", undoRootfs |-> "undoDir", failRootfs |-> "failDir"]

\* Where a DestroyImage that gives up before RemoveAll returns to.
AfterGivingUp == [delRootfs |-> "delStat", undoRootfs |-> "unlock", failRootfs |-> "failAgain"]

RootfsWithout(is) == [i \in ImageIDs |-> IF i \in is THEN {} ELSE rootfs[i]]

\* The subvolumes under rootfs, of the images in is.
Destroy(is) ==
    /\ rootfs' = RootfsWithout(is)
    /\ nested' = nested \ is
    /\ torn' = torn \ is

\* What drax lists for the path of image i: every subvolume whose path begins
\* with it, those of longer ids too.
ListSubvolumes(i) == {i} \cup Extensions[i]

\* DestroyImage deletes the subvolume under rootfs.  One that is not empty is
\* deleted with all that drax lists.
DestroyRootfs(p) ==
    /\ pc[p] \in DOMAIN AfterRootfs
    /\ Destroy(IF Id(p) \in nested THEN ListSubvolumes(Id(p)) ELSE {Id(p)})
    /\ Proceed(p, AfterRootfs[pc[p]])
    /\ UNCHANGED <<volumeVars, images, depFiles, deps, lockVars, cmd, idx, gcVars>>

\* It goes on if it cannot; but it gives up if the list, or one that is on it,
\* fails.  The list is in reverse order: the longer ids come first, the
\* subvolumes inside this rootfs next, this rootfs last.
DestroyRootfsFails(p) ==
    /\ pc[p] \in DOMAIN AfterRootfs
    /\ \/ LoggedFault(p, AfterRootfs[pc[p]]) /\ UNCHANGED <<rootfs, nested, torn>>
       \/ /\ Id(p) \in nested
          /\ LoggedFault(p, AfterGivingUp[pc[p]])
          /\ \/ \E done \in SUBSET Extensions[Id(p)] : Destroy(done)
             \/ /\ rootfs' = RootfsWithout(Extensions[Id(p)])
                /\ nested' = nested \ ListSubvolumes(Id(p))
                /\ torn' = torn \ Extensions[Id(p)]
    /\ UNCHANGED <<volumeVars, images, depFiles, deps, lockVars, cmd, idx, gcVars>>

AfterDir == [delDir |-> "delStat", undoDir |-> "unlock",
             failDir |-> "failAgain", failAgain |-> "unlock"]

\* Then it removes the image directory and all that is in it, one file after
\* the other: a rootfs that could not be deleted loses its files here.  The
\* clean-up of a failed Create calls RemoveAll a second time.
RemoveFiles(p) ==
    /\ pc[p] \in DOMAIN AfterDir
    /\ rootfs[Id(p)] # {}
    /\ torn' = torn \cup {Id(p)}
    /\ nested' \in {nested, nested \ {Id(p)}}
    /\ Proceed(p, pc[p])
    /\ UNCHANGED <<volumeVars, images, rootfs, depFiles, deps, lockVars, cmd, idx, gcVars>>

\* ... until the directory is gone too.
RemoveImageDir(p) ==
    /\ pc[p] \in DOMAIN AfterDir
    /\ images' = images \ {Id(p)}
    /\ Destroy({Id(p)})
    /\ Proceed(p, AfterDir[pc[p]])
    /\ UNCHANGED <<volumeVars, depFiles, deps, lockVars, cmd, idx, gcVars>>

\* RemoveAll stops half way: with the rootfs as far as its files are gone, or
\* with the rootfs gone and the directory not.
RemoveImageDirFails(p) ==
    /\ pc[p] \in DOMAIN AfterDir
    /\ Destroy({Id(p)}) \/ UNCHANGED <<rootfs, nested, torn>>
    /\ LoggedFault(p, AfterDir[pc[p]])
    /\ UNCHANGED <<volumeVars, images, depFiles, deps, lockVars, cmd, idx, gcVars>>

\* Destroy's last look: an image directory that is there is an error.
DestroyStat(p) ==
    /\ pc[p] = "delStat"
    /\ IF Id(p) \in images THEN Error(p, "exited") ELSE Proceed(p, "deregister")
    /\ UNCHANGED <<volumeVars, imageVars, lockVars, cmd, idx, gcVars>>

\* dependencyManager.Deregister, for which a missing file will do.
Deregister(p) ==
    /\ pc[p] = "deregister"
    /\ depFiles' = depFiles \ {Id(p)}
    /\ deps' = [deps EXCEPT ![Id(p)] = {}]
    /\ Proceed(p, "exited")
    /\ UNCHANGED <<volumeVars, images, rootfs, nested, torn, lockVars, cmd, idx, gcVars>>

Clone(p) ==
    \/ MakeImageDir(p) \/ CreateImage(p) \/ CreateImagePanics(p)
    \/ SetOwnership(p) \/ Register(p)
    \/ DestroyExists(p) \/ DestroyRootfs(p) \/ RemoveFiles(p) \/ RemoveImageDir(p)
    \/ DestroyStat(p) \/ Deregister(p)

CloneFault(p) == DiskLimitFails(p) \/ DestroyRootfsFails(p) \/ RemoveImageDirFails(p)
=============================================================================
