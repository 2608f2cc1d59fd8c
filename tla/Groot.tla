-------------------------------- MODULE Groot --------------------------------
(***************************************************************************)
(* The commands create, clean and delete, run by any number of processes   *)
(* on one store.  create holds the global lock in shared mode while it     *)
(* pulls and clones, the first half of clean holds it exclusively, delete  *)
(* takes no lock.                                                          *)
(***************************************************************************)
EXTENDS BaseImagePuller, ImageCloner, GarbageCollector

Entry == [create |-> "exists", clean |-> "threshold", delete |-> "findID"]

(***************************************************************************)
(* A store as earlier commands left it: the base images Pulled are in the  *)
(* cache, each with its size files, and the images Installed are complete  *)
(* and registered; containers may have made subvolumes in them.            *)
(***************************************************************************)
Init ==
    /\ volumes = UNION {ChainSet(b) : b \in Pulled}
    /\ gcVolumes = {}
    /\ content = [v \in VolumeNames |->
                    {c \in ChainIDs : \E b \in Pulled : \E n \in 1..Len(Layers[b]) :
                        Layers[b][n] = v /\ c \in Stack(b, n)}]
    /\ metas = volumes
    /\ images = DOMAIN Installed
    /\ rootfs = [i \in ImageIDs |-> IF i \in images THEN ChainSet(Installed[i]) ELSE {}]
    /\ nested \in SUBSET images
    /\ torn = {}
    /\ depFiles = images
    /\ deps = rootfs
    /\ shared = {}
    /\ exclusive = None
    /\ layerLock = [c \in ChainIDs |-> None]
    /\ cmd \in [Procs -> UNION {Commands[p] : p \in Procs}]
    /\ \A p \in Procs : cmd[p] \in Commands[p]
    /\ pc = [p \in Procs |-> Entry[cmd[p].op]]
    /\ ok = [p \in Procs |-> TRUE]
    /\ idx = [p \in Procs |-> 0]
    /\ unused = [p \in Procs |-> {}]
    /\ unread = [p \in Procs |-> {}]
    /\ garbage = [p \in Procs |-> {}]
    /\ victim = [p \in Procs |-> None]
    /\ faults = 0

\* Create: refuse an id that is taken, fetch the manifest, clean if asked to.
CheckID(p) ==
    /\ pc[p] = "exists"
    /\ IF Id(p) \in images
         THEN Error(p, "exited")
         ELSE Proceed(p, IF cmd[p].cleanOnCreate THEN "threshold" ELSE "lockShared")
    /\ UNCHANGED <<volumeVars, imageVars, lockVars, cmd, idx, gcVars>>

\* Mutant: Pull starts at the number of layers, not one below it.
LockCreatePastEnd(p) ==
    /\ pc[p] = "lockShared"
    /\ LockGlobalShared(p)
    /\ Proceed(p, "buildLayer")
    /\ idx' = [idx EXCEPT ![p] = Height(p) + 1]
    /\ UNCHANGED <<volumeVars, imageVars, cmd, gcVars>>

\* Take the global lock; Pull then checks the quota and starts at the top.
LockCreate(p) ==
    /\ pc[p] = "lockShared"
    /\ LockGlobalShared(p)
    /\ IF QuotaExceeded(cmd[p]) THEN Error(p, "unlock") ELSE Proceed(p, "buildLayer")
    /\ idx' = [idx EXCEPT ![p] = Height(p)]
    /\ UNCHANGED <<volumeVars, imageVars, cmd, gcVars>>

\* The deferred Unlock of Create.
UnlockCreate(p) ==
    /\ pc[p] = "unlock"
    /\ UnlockGlobalShared(p)
    /\ Proceed(p, "exited")
    /\ UNCHANGED <<volumeVars, imageVars, cmd, idx, gcVars>>

(***************************************************************************)
(* Where a command goes on when a call fails and leaves the store as it    *)
(* was: it exits, returns through the layers it has locked, runs the       *)
(* clean-up of the image cloner, or only unlocks.                          *)
(***************************************************************************)
OnError ==
    [exists       |-> "exited",      \* Stat, FetchBaseImageInfo
     threshold    |-> "exited",      \* measuring the store
     lockExclusive|-> "exited",
     lockShared   |-> "exited",
     lockLayer    |-> "return",
     createVolume |-> "return",      \* the download, the snapshot
     writeMeta    |-> "return",      \* whiteouts, the size file
     moveVolume   |-> "return",
     mkdir        |-> "failRootfs",
     createImage  |-> "failRootfs",
     ownership    |-> "unlock",      \* chown, the volume sources: no clean-up
     register     |-> "undoExists",
     undoExists   |-> "unlock",      \* Stat; the image stays
     listGarbage  |-> "exited",
     delExists    |-> "exited",
     deregister   |-> "exited"]

\* Mutant: the error is lost on the way, as by a shadowed err.
CallFailsUnnoticed(p) ==
    /\ pc[p] \in DOMAIN OnError
    /\ LoggedFault(p, OnError[pc[p]])
    /\ UNCHANGED <<volumeVars, imageVars, lockVars, cmd, idx, gcVars>>

CallFails(p) ==
    /\ pc[p] \in DOMAIN OnError
    /\ Fault(p, OnError[pc[p]])
    /\ UNCHANGED <<volumeVars, imageVars, lockVars, cmd, idx, gcVars>>

\* The process is killed, or the machine stops; the store stays as it is.
Crash(p) ==
    /\ ~Ended(p)
    /\ "crash" \in FaultPoints
    /\ faults < MaxFaults
    /\ faults' = faults + 1
    /\ Goto(p, "crashed")
    /\ DropLocks(p)
    /\ UNCHANGED <<volumeVars, imageVars, cmd, ok, idx, gcVars>>

\* What p does by itself, and what the environment does to it.
Step(p) == CheckID(p) \/ LockCreate(p) \/ UnlockCreate(p) \/ Pull(p) \/ Clone(p) \/ Clean(p)

Failure(p) == CallFails(p) \/ PullFault(p) \/ CloneFault(p) \/ CleanFault(p) \/ Crash(p)

Finished == (\A p \in Procs : Ended(p)) /\ UNCHANGED vars

Next == (\E p \in Procs : Step(p) \/ Failure(p)) \/ Finished

Spec == Init /\ [][Next]_vars

\* A process that can take a step is run sooner or later, and the kernel wakes
\* the waiters of a lock that is free.  Failures are never owed.
FairSpec == Spec /\ \A p \in Procs : WF_vars(Step(p))
-----------------------------------------------------------------------------
(* Safety *)

(***************************************************************************)
(* A volume that carries a chain id holds exactly the stack of layers that *)
(* chain id stands for.  buildLayer takes any volume of that name for the  *)
(* finished layer, so no unpacking that failed, died half way or ran in    *)
(* two processes at once may ever be seen under it.                        *)
(***************************************************************************)
VolumesComplete ==
    \A b \in BaseImages : \A n \in 1..Len(Layers[b]) :
        Layers[b][n] \in volumes => content[Layers[b][n]] = Stack(b, n)

(***************************************************************************)
(* While create holds the global lock in shared mode it loses nothing it   *)
(* has made sure of: the parent's volume is there when CreateVolume takes  *)
(* its snapshot, the temporary volume until it is renamed, and the top     *)
(* volume from the end of Pull to the end of Create.  No clean of another  *)
(* process may mark them in between.                                       *)
(***************************************************************************)
LayersStay ==
    \A p \in Procs :
        /\ pc[p] = "createVolume" => ParentExists(p)
        /\ pc[p] \in {"unpack", "writeMeta", "moveVolume"} => Temp(p) \in volumes
        /\ pc[p] \in {"mkdir", "createImage", "ownership", "register"} /\ Height(p) > 0 =>
             Layer(p, Height(p)) \in volumes

(***************************************************************************)
(* From the second volumeExists to the rename nobody else brings a volume  *)
(* of the same chain id into being, though a build of the parent and a     *)
(* download lie in between.  So the rename is never the one whose EEXIST   *)
(* MoveVolume swallows, and the DestroyVolume(chainID) of a failed unpack  *)
(* never hits a volume another process made.                               *)
(***************************************************************************)
BuilderOwnsName ==
    \A p \in Procs :
        pc[p] \in {"createVolume", "unpack", "writeMeta", "moveVolume"} => Chain(p) \notin volumes

(***************************************************************************)
(* Creates wait for each other's layer locks while they hold others.  A    *)
(* create that waits for a layer, with the lock in the hands of one that   *)
(* waits too, finds that one strictly lower in the stack: waiting cannot   *)
(* close a circle.                                                         *)
(***************************************************************************)
WaitsDescend ==
    \A p, q \in Procs :
        pc[p] = "lockLayer" /\ pc[q] = "lockLayer" /\ layerLock[Chain(p)] = q => idx[q] < idx[p]

\* No other command names p's image, or an id that p's begins with.
OwnID(p) ==
    \A q \in Procs \ {p} :
        cmd[q].op = "clean" \/ (Id(q) # Id(p) /\ Id(p) \notin Extensions[Id(q)])

(***************************************************************************)
(* A create that returned success, for an id of its own, has left an image *)
(* that stays whole: directory, rootfs with every file of all the layers   *)
(* of its base image, dependency file, and the top volume in the cache,    *)
(* whatever the other processes do, fail at or die of.                     *)
(***************************************************************************)
CreatedImageIntact ==
    \A p \in Procs :
        pc[p] = "exited" /\ ok[p] /\ cmd[p].op = "create" /\ OwnID(p) =>
            /\ Id(p) \in images \cap depFiles
            /\ rootfs[Id(p)] = ChainSet(cmd[p].base) /\ Id(p) \notin torn
            /\ deps[Id(p)] = ChainSet(cmd[p].base)
            /\ Layer(p, Height(p)) \in volumes

\* p began to remove image i and has not done it: it is at it, has died, or
\* has an error to return.
RemovalUnfinished(p, i) ==
    /\ cmd[p].op # "clean" /\ Id(p) = i
    /\ pc[p] \in DOMAIN AfterDir \cup {"delStat", "crashed"} \/ ~ok[p]

(***************************************************************************)
(* What is under an image's rootfs is the whole of some base image: not    *)
(* even creates and deletes of one id that destroy each other's work leave *)
(* a rootfs with layers missing.  A rootfs that is there with files gone,  *)
(* as os.RemoveAll leaves it when it fails or dies half way, is what a     *)
(* command that has not ended well was to remove: no command that reports  *)
(* success leaves one.                                                     *)
(***************************************************************************)
ImagesWhole ==
    \A i \in ImageIDs : rootfs[i] # {} =>
        /\ \E b \in BaseImages : rootfs[i] = ChainSet(b)
        /\ i \in torn => \E p \in Procs : RemovalUnfinished(p, i)

(***************************************************************************)
(* A finished volume leaves the cache only while no image lists it in its  *)
(* dependency file, and a clean made by create never takes one of the      *)
(* layers that create is about to use.  delete changes images and          *)
(* dependency files while the cleaner reads them, without a lock.          *)
(***************************************************************************)
InUseVolumesKept ==
    [][\A v \in volumes \cap ChainIDs : v \notin volumes' =>
          /\ \A i \in images \cap depFiles : v \notin deps[i]
          /\ \E p \in Procs : exclusive = p /\ v \notin Preserved(p)]_vars

(***************************************************************************)
(* What creates that failed or died left half unpacked does not outlive    *)
(* the next clean that meets no failure of its own and finds every image   *)
(* registered, no image having been deleted meanwhile: when it gives the   *)
(* lock back no incomplete volume is left.                                 *)
(***************************************************************************)
LeftoversReclaimed ==
    [][\A p \in Procs :
          /\ pc[p] = "mark" /\ pc'[p] = "listGarbage"
          /\ images \subseteq depFiles
          /\ \A q \in Procs : cmd[q].op = "delete" => pc[q] = "findID"
          => volumes' \subseteq ChainIDs]_vars

-----------------------------------------------------------------------------
(* Liveness *)

(***************************************************************************)
(* Every command comes to an end: no process waits for ever on the global  *)
(* lock or on a layer, whichever others fail or die with locks in hand.    *)
(***************************************************************************)
AllEnd == <>(\A p \in Procs : Ended(p))

-----------------------------------------------------------------------------
(* What the tests say *)

(***************************************************************************)
(* A create for an id that exists only returns an error                    *)
(* (groot/creator_test.go, "when the id already exists"): so, where        *)
(* nothing is deleted, an image that a create has reported stays.          *)
(***************************************************************************)
ReportedImageStays ==
    \A p \in Procs : pc[p] = "exited" /\ ok[p] /\ cmd[p].op = "create" => Id(p) \in images

(***************************************************************************)
(* Concurrent creates, each cleaning first, all succeed when nothing fails *)
(* (integration/create_concurrency_test.go, "can create multiple rootfses  *)
(* of the same image concurrently").                                       *)
(***************************************************************************)
ConcurrentCreatesSucceed == \A p \in Procs : ok[p]

(***************************************************************************)
(* drax lists the subvolumes inside the path it is given                   *)
(* (store/filesystems/btrfs/drax/commands/list.go, "List btrfs subvolumes  *)
(* inside the path"): so destroying an image leaves the rootfs of an image *)
(* no other command names.                                                 *)
(***************************************************************************)
OtherRootfsStay ==
    \A p \in Procs :
        /\ pc[p] = "exited" /\ ok[p] /\ cmd[p].op = "create"
        /\ \A q \in Procs \ {p} : Id(q) # Id(p)
        => rootfs[Id(p)] # {}
=============================================================================
