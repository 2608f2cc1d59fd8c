-------------------------------- MODULE Store --------------------------------
(***************************************************************************)
(* The on-disk store that every groot command works on, and the processes  *)
(* that share it.                                                          *)
(*                                                                         *)
(* A process is one invocation of the command line tool (create, clean or  *)
(* delete): it starts, takes its steps, and exits or dies.  Nothing is     *)
(* shared between processes but the store's directories and the advisory   *)
(* locks (flock) of store/locksmith, which the kernel drops when their     *)
(* holder dies.                                                            *)
(***************************************************************************)
EXTENDS Integers, Sequences

CONSTANTS
    Procs,        \* invocations of the tool
    ChainIDs,     \* names of layer stacks; a volume is named by one
    ImageIDs,     \* ids given to create and delete
    Extensions,   \* [ImageIDs -> SUBSET ImageIDs]: the longer ids it is a prefix of
    BaseImages,   \* base images a registry (or a tar file) offers
    Layers,       \* [BaseImages -> Seq(ChainIDs)]: chain ids, lowest layer first
    BaseSize,     \* [BaseImages -> Int]: sum of the sizes the manifest states
    Commands,     \* [Procs -> SUBSET Command]: what each process may be asked
    Pulled,       \* base images earlier commands left in the volume cache
    Installed,    \* [subset of ImageIDs -> Pulled]: images earlier creates made
    FaultPoints,  \* steps at which the environment may make a call fail
    MaxFaults,    \* bound on failures and crashes in one behaviour
    None          \* no process, no volume

(***************************************************************************)
(* A command line.  A create names an image id and a base image; the       *)
(* fields a command does not use are ignored.  Only the sign of threshold  *)
(* matters to the cleaner.                                                 *)
(***************************************************************************)
Command ==
    [op : {"create", "clean", "delete"}, id : ImageIDs, base : BaseImages,
     cleanOnCreate : BOOLEAN, threshold : Int,
     diskLimit : Int, excludeBase : BOOLEAN]

(***************************************************************************)
(* A volume is called by its chain id once it is finished; until then by   *)
(* "<chain id>-incomplete-<time>-<random>".  A process unpacks a chain id  *)
(* at most once, so the pair <<chain id, process>> is as unique as that.   *)
(***************************************************************************)
VolumeNames == ChainIDs \cup (ChainIDs \X Procs)

ASSUME LayersAssumption == Layers \in [BaseImages -> Seq(ChainIDs)]

(***************************************************************************)
(* A chain id is a digest of the whole stack under it: equal chain ids are *)
(* at equal height and have the same chain ids below them.                 *)
(***************************************************************************)
ASSUME ChainAssumption ==
    \A a, b \in BaseImages :
        \A i \in 1..Len(Layers[a]), j \in 1..Len(Layers[b]) :
            Layers[a][i] = Layers[b][j] =>
                i = j /\ \A k \in 1..i : Layers[a][k] = Layers[b][k]

ASSUME ExtensionsAssumption == Extensions \in [ImageIDs -> SUBSET ImageIDs]

ASSUME SizeAssumption == BaseSize \in [BaseImages -> Int]

ASSUME CommandsAssumption ==
    /\ DOMAIN Commands = Procs
    /\ \A p \in Procs : \A c \in Commands[p] :
        /\ c.op \in {"create", "clean", "delete"}
        /\ c.id \in ImageIDs
        /\ c.base \in BaseImages

ASSUME StoreAssumption ==
    /\ Pulled \subseteq BaseImages
    /\ DOMAIN Installed \subseteq ImageIDs
    /\ \A i \in DOMAIN Installed :
        Installed[i] \in Pulled /\ Len(Layers[Installed[i]]) > 0

ASSUME NameAssumption ==
    /\ None \notin Procs
    /\ None \notin VolumeNames
    /\ ChainIDs \cap (ChainIDs \X Procs) = {}

ASSUME FaultAssumption == MaxFaults \in Nat

VARIABLES
    \* volumes/ and meta/volume-*
    volumes,      \* names of the volumes, the gc. ones left out
    gcVolumes,    \* names whose gc.<name> is in volumes/
    content,      \* [VolumeNames -> SUBSET ChainIDs]: layers a volume holds
    metas,        \* chain ids whose size file is written
    \* images/ and meta/dependencies/
    images,       \* ids with an image directory
    rootfs,       \* [ImageIDs -> SUBSET ChainIDs]: layers under rootfs, {} if none
    nested,       \* ids whose rootfs has subvolumes inside
    torn,         \* ids whose rootfs has lost files of its layers
    depFiles,     \* ids with a dependency file
    deps,         \* [ImageIDs -> SUBSET ChainIDs]: the chain ids it lists
    \* locks/
    shared,       \* holders of the global lock in shared mode
    exclusive,    \* holder of the global lock in exclusive mode
    layerLock,    \* [ChainIDs -> holder of that layer's lock]
    \* the processes
    cmd,          \* their command lines
    pc,           \* the step each takes next
    ok,           \* FALSE once a command has an error to return
    idx,          \* the layer buildLayer is at, 0 below the lowest
    unused,       \* the cleaner's volumes still to be marked
    unread,       \* images whose dependencies the cleaner has not read
    garbage,      \* gc. volumes the collector has not come to
    victim,       \* the gc. volume it is destroying
    faults        \* failures so far

volumeVars == <<volumes, gcVolumes, content, metas>>
imageVars  == <<images, rootfs, nested, torn, depFiles, deps>>
lockVars   == <<shared, exclusive, layerLock>>
gcVars     == <<unused, unread, garbage, victim>>
vars       == <<volumeVars, imageVars, lockVars, cmd, pc, ok, idx, gcVars, faults>>

-----------------------------------------------------------------------------
(* Base images and layers *)

\* The first n chain ids of a base image.
Stack(b, n) == {Layers[b][k] : k \in 1..n}

\* chainIDs(baseImageInfo.LayerInfos)
ChainSet(b) == Stack(b, Len(Layers[b]))

\* The chain id of layer i of the base image p was asked for.
Layer(p, i) == Layers[cmd[p].base][i]

Height(p) == Len(Layers[cmd[p].base])

-----------------------------------------------------------------------------
(* The steps of a process.  Each comes before one call that reads or       *)
(* changes the store; the names are those of the calls.                    *)

PullSteps ==
    {"buildLayer", "lockLayer", "recheck", "createVolume", "unpack",
     "writeMeta", "moveVolume", "return"}

CloneSteps ==
    {"mkdir", "createImage", "ownership", "register",
     "failRootfs", "failDir", "failAgain",
     "undoExists", "undoRootfs", "undoDir"}

\* The steps create takes with the global lock in shared mode.
SharedSteps == PullSteps \cup CloneSteps \cup {"unlock"}

\* The steps the cleaner takes with the global lock in exclusive mode.
ExclusiveSteps == {"listVolumes", "listImages", "readDeps", "mark"}

Steps ==
    SharedSteps \cup ExclusiveSteps \cup
    {"exists", "lockShared", "threshold", "lockExclusive",
     "listGarbage", "collect", "destroy",
     "findID", "delExists", "delRootfs", "delDir", "delStat", "deregister",
     "exited", "crashed"}

Ended(p) == pc[p] \in {"exited", "crashed"}

Goto(p, step) == pc' = [pc EXCEPT ![p] = step]

\* A call returned without an error.
Proceed(p, step) == Goto(p, step) /\ UNCHANGED <<ok, faults>>

\* A call returned an error the state of the store explains.
Error(p, step) ==
    /\ Goto(p, step)
    /\ ok' = [ok EXCEPT ![p] = FALSE]
    /\ UNCHANGED faults

\* The environment makes the next call of p fail: I/O errors, a full disk,
\* a registry that does not answer, a binary that is missing.
Strike(p) ==
    /\ pc[p] \in FaultPoints
    /\ faults < MaxFaults
    /\ faults' = faults + 1

\* A failure the command returns as its error ...
Fault(p, step) ==
    /\ Strike(p)
    /\ Goto(p, step)
    /\ ok' = [ok EXCEPT ![p] = FALSE]

\* ... and one it only writes to the log.
LoggedFault(p, step) == Strike(p) /\ Goto(p, step) /\ UNCHANGED ok

-----------------------------------------------------------------------------
(* store/locksmith: flock on a file of locks/ *)

\* Mutant: a shared lock does not wait for an exclusive one.
LockGlobalUnasked(p) ==
    /\ shared' = shared \cup {p}
    /\ UNCHANGED <<exclusive, layerLock>>

LockGlobalShared(p) ==
    /\ exclusive = None
    /\ shared' = shared \cup {p}
    /\ UNCHANGED <<exclusive, layerLock>>

UnlockGlobalShared(p) ==
    /\ shared' = shared \ {p}
    /\ UNCHANGED <<exclusive, layerLock>>

\* Mutant: an exclusive lock does not wait for shared ones.
LockGlobalTooEarly(p) ==
    /\ exclusive = None
    /\ exclusive' = p
    /\ UNCHANGED <<shared, layerLock>>

LockGlobalExclusive(p) ==
    /\ exclusive = None
    /\ shared = {}
    /\ exclusive' = p
    /\ UNCHANGED <<shared, layerLock>>

\* Mutant: the lock file is never unlocked.
LockGlobalKept(p) == UNCHANGED <<shared, exclusive, layerLock>>

UnlockGlobalExclusive(p) ==
    /\ exclusive' = None
    /\ UNCHANGED <<shared, layerLock>>

\* Mutant: a layer that is locked is locked again.
LockKeyAnyway(p, c) ==
    /\ layerLock' = [layerLock EXCEPT ![c] = p]
    /\ UNCHANGED <<shared, exclusive>>

LockKey(p, c) ==
    /\ layerLock[c] = None
    /\ layerLock' = [layerLock EXCEPT ![c] = p]
    /\ UNCHANGED <<shared, exclusive>>

\* The kernel closes the files of a process that dies.
DropLocks(p) ==
    /\ shared' = shared \ {p}
    /\ exclusive' = IF exclusive = p THEN None ELSE exclusive
    /\ layerLock' = [c \in ChainIDs |-> IF layerLock[c] = p THEN None ELSE layerLock[c]]

-----------------------------------------------------------------------------

\* The disk and the locks.
StoreTypeOK ==
    /\ volumes \subseteq VolumeNames
    /\ gcVolumes \subseteq VolumeNames
    /\ content \in [VolumeNames -> SUBSET ChainIDs]
    /\ metas \subseteq ChainIDs
    /\ images \subseteq ImageIDs
    /\ rootfs \in [ImageIDs -> SUBSET ChainIDs]
    /\ nested \subseteq ImageIDs
    /\ torn \subseteq ImageIDs
    /\ depFiles \subseteq ImageIDs
    /\ deps \in [ImageIDs -> SUBSET ChainIDs]
    /\ shared \subseteq Procs
    /\ exclusive \in Procs \cup {None}
    /\ layerLock \in [ChainIDs -> Procs \cup {None}]

\* The processes.
ProcessTypeOK ==
    /\ DOMAIN cmd = Procs
    /\ \A p \in Procs : cmd[p] \in Commands[p]
    /\ pc \in [Procs -> Steps]
    /\ ok \in [Procs -> BOOLEAN]
    /\ idx \in [Procs -> Nat]
    /\ \A p \in Procs : idx[p] <= Height(p)
    /\ unused \in [Procs -> SUBSET VolumeNames]
    /\ unread \in [Procs -> SUBSET ImageIDs]
    /\ garbage \in [Procs -> SUBSET VolumeNames]
    /\ victim \in [Procs -> VolumeNames \cup {None}]
    /\ faults \in 0..MaxFaults

\* Every variable has its type.
TypeOK == StoreTypeOK /\ ProcessTypeOK
=============================================================================
