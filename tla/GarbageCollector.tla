-------------------------- MODULE GarbageCollector --------------------------
(***************************************************************************)
(* groot/cleaner.go and store/garbage_collector: with the global lock held *)
(* exclusively, find the volumes no image depends on and rename each X to  *)
(* gc.X; then, with no lock at all, destroy whatever is called gc.X.       *)
(* Errors of the first half are only logged.                               *)
(***************************************************************************)
EXTENDS Store

\* Where the command goes when Clean returns without an error: create calls
\* Clean before it takes the global lock.
AfterClean(p) == IF cmd[p].op = "create" THEN "lockShared" ELSE "exited"

\* chainIDsToPreserve: create keeps the layers of its own base image.
Preserved(p) == IF cmd[p].op = "create" THEN ChainSet(cmd[p].base) ELSE {}

\* The threshold: a negative one is an error, 0 always cleans, and with any
\* other the usage measured may or may not have reached it.
CheckThreshold(p) ==
    /\ pc[p] = "threshold"
    /\ \/ cmd[p].threshold < 0 /\ Error(p, "exited")
       \/ cmd[p].threshold > 0 /\ Proceed(p, AfterClean(p))
       \/ cmd[p].threshold >= 0 /\ Proceed(p, "lockExclusive")
    /\ UNCHANGED <<volumeVars, imageVars, lockVars, cmd, idx, gcVars>>

LockStore(p) ==
    /\ pc[p] = "lockExclusive"
    /\ LockGlobalExclusive(p)
    /\ Proceed(p, "listVolumes")
    /\ UNCHANGED <<volumeVars, imageVars, cmd, idx, gcVars>>

\* Mutant: the volumes that are still being unpacked are left out.
ListFinishedVolumes(p) ==
    /\ pc[p] = "listVolumes"
    /\ unused' = [unused EXCEPT ![p] = volumes \cap ChainIDs]
    /\ Proceed(p, "listImages")
    /\ UNCHANGED <<volumeVars, imageVars, lockVars, cmd, idx, unread, garbage, victim>>

\* UnusedVolumes starts from every volume that is not gc. yet, the incomplete
\* ones too ...
ListVolumes(p) ==
    /\ pc[p] = "listVolumes"
    /\ unused' = [unused EXCEPT ![p] = volumes]
    /\ Proceed(p, "listImages")
    /\ UNCHANGED <<volumeVars, imageVars, lockVars, cmd, idx, unread, garbage, victim>>

ListImages(p) ==
    /\ pc[p] = "listImages"
    /\ unread' = [unread EXCEPT ![p] = images]
    /\ Proceed(p, "readDeps")
    /\ UNCHANGED <<volumeVars, imageVars, lockVars, cmd, idx, unused, garbage, victim>>

\* Mutant: what is in use stays on the list.
KeepOrphanList(orphans, used) == orphans

RemoveDependencyFromOrphanList(orphans, used) == orphans \ used

\* ... and takes away what each image depends on.  An image without a
\* dependency file ends the search: nothing counts as unused.
ReadDependencies(p) ==
    /\ pc[p] = "readDeps"
    /\ \E i \in unread[p] :
        IF i \in depFiles
          THEN /\ unused' = [unused EXCEPT ![p] = RemoveDependencyFromOrphanList(@, deps[i])]
               /\ unread' = [unread EXCEPT ![p] = @ \ {i}]
               /\ Proceed(p, "readDeps")
          ELSE /\ unused' = [unused EXCEPT ![p] = {}]
               /\ unread' = [unread EXCEPT ![p] = {}]
               /\ Proceed(p, "mark")
    /\ UNCHANGED <<volumeVars, imageVars, lockVars, cmd, idx, garbage, victim>>

KeepPreserved(p) ==
    /\ pc[p] = "readDeps"
    /\ unread[p] = {}
    /\ unused' = [unused EXCEPT ![p] = RemoveDependencyFromOrphanList(@, Preserved(p))]
    /\ Proceed(p, "mark")
    /\ UNCHANGED <<volumeVars, imageVars, lockVars, cmd, idx, unread, garbage, victim>>

\* A directory or a dependency file cannot be read.
UnusedVolumesFails(p) ==
    /\ pc[p] \in {"listVolumes", "listImages", "readDeps"}
    /\ LoggedFault(p, "mark")
    /\ unused' = [unused EXCEPT ![p] = {}]
    /\ unread' = [unread EXCEPT ![p] = {}]
    /\ UNCHANGED <<volumeVars, imageVars, lockVars, cmd, idx, garbage, victim>>

\* MarkUnused: the rename does nothing, and is no error, if gc.<name> is left
\* from an earlier clean.
MarkUnused(p) ==
    /\ pc[p] = "mark"
    /\ \E v \in unused[p] :
        /\ unused' = [unused EXCEPT ![p] = @ \ {v}]
        /\ IF v \in volumes /\ v \notin gcVolumes
             THEN /\ volumes' = volumes \ {v}
                  /\ gcVolumes' = gcVolumes \cup {v}
             ELSE UNCHANGED <<volumes, gcVolumes>>
    /\ Proceed(p, "mark")
    /\ UNCHANGED <<content, metas, imageVars, lockVars, cmd, idx, unread, garbage, victim>>

MarkUnusedFails(p) ==
    /\ pc[p] = "mark"
    /\ \E v \in unused[p] : unused' = [unused EXCEPT ![p] = @ \ {v}]
    /\ LoggedFault(p, "mark")
    /\ UNCHANGED <<volumeVars, imageVars, lockVars, cmd, idx, unread, garbage, victim>>

UnlockStore(p) ==
    /\ pc[p] = "mark"
    /\ unused[p] = {}
    /\ UnlockGlobalExclusive(p)
    /\ Proceed(p, "listGarbage")
    /\ UNCHANGED <<volumeVars, imageVars, cmd, idx, gcVars>>

\* Collect
ListGarbage(p) ==
    /\ pc[p] = "listGarbage"
    /\ garbage' = [garbage EXCEPT ![p] = gcVolumes]
    /\ Proceed(p, "collect")
    /\ UNCHANGED <<volumeVars, imageVars, lockVars, cmd, idx, unused, unread, victim>>

\* DestroyVolume removes the size file first, and looks for it under the name
\* without gc. ...
RemoveMeta(p) ==
    /\ pc[p] = "collect"
    /\ \E v \in garbage[p] :
        /\ garbage' = [garbage EXCEPT ![p] = @ \ {v}]
        /\ victim' = [victim EXCEPT ![p] = v]
        /\ metas' = metas \ {v}
    /\ Proceed(p, "destroy")
    /\ UNCHANGED <<volumes, gcVolumes, content, imageVars, lockVars, cmd, idx, unused, unread>>

\* ... then the subvolume; one that another collector has destroyed is an
\* error.
DestroyVolume(p) ==
    /\ pc[p] = "destroy"
    /\ gcVolumes' = gcVolumes \ {victim[p]}
    /\ IF victim[p] \in gcVolumes THEN Proceed(p, "collect") ELSE Error(p, "collect")
    /\ victim' = [victim EXCEPT ![p] = None]
    /\ UNCHANGED <<volumes, content, metas, imageVars, lockVars, cmd, idx, unused, unread, garbage>>

DestroyVolumeFails(p) ==
    /\ pc[p] = "destroy"
    /\ victim' = [victim EXCEPT ![p] = None]
    /\ Fault(p, "collect")
    /\ UNCHANGED <<volumeVars, imageVars, lockVars, cmd, idx, unused, unread, garbage>>

CollectReturns(p) ==
    /\ pc[p] = "collect"
    /\ garbage[p] = {}
    /\ Proceed(p, IF ok[p] THEN AfterClean(p) ELSE "exited")
    /\ UNCHANGED <<volumeVars, imageVars, lockVars, cmd, idx, gcVars>>

Clean(p) ==
    \/ CheckThreshold(p) \/ LockStore(p) \/ ListVolumes(p) \/ ListImages(p)
    \/ ReadDependencies(p) \/ KeepPreserved(p) \/ MarkUnused(p) \/ UnlockStore(p)
    \/ ListGarbage(p) \/ RemoveMeta(p) \/ DestroyVolume(p) \/ CollectReturns(p)

CleanFault(p) == UnusedVolumesFails(p) \/ MarkUnusedFails(p) \/ DestroyVolumeFails(p)
=============================================================================
