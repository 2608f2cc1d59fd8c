---------------------------- MODULE StoreManager ----------------------------
(***************************************************************************)
(* Setting up, using and removing a store: init-store, delete-store, and   *)
(* as much of create as depends on them.                                   *)
(*                                                                         *)
(* The store path is a directory of the host's file system, or, for a      *)
(* store with a size, the mount point of a file system kept in a backing   *)
(* file beside it.  What commands see at the store path is whichever of    *)
(* the two trees is on top.  No lock guards the set-up; delete-store and   *)
(* create both hold the global lock in shared mode, so neither waits for   *)
(* the other and the lock shows only in that its file must be there.       *)
(***************************************************************************)
EXTENDS Integers, Sequences

CONSTANTS
    Procs,        \* invocations of the tool
    Mappings,     \* normal forms of the uid and gid mappings of a store
    ImageIDs,     \* ids given to create
    Commands,     \* [Procs -> SUBSET Command]
    Overlap,      \* {{a, b}, ...}: operations that may run at the same time
    HostBtrfs,    \* the host's file system at the store path is btrfs
    Preset,       \* mapping of a store set up on the host before, or None
    MinStoreSize, \* least size of a backing file
    AbortPoints,  \* steps at which a command may fail or die; "reboot"
    MaxFaults,    \* bound on failures, deaths and reboots in one behaviour
    None,         \* nothing there
    Empty,        \* a namespace file with nothing in it
    Bare          \* an image directory without a rootfs

Operations == {"init-store", "delete-store", "create"}
Command ==
    [op : Operations, mapping : Mappings, size : Int, id : ImageIDs]

(***************************************************************************)
(* The folders of a store in the order in which they are made, and the     *)
(* folder each is in.  "path" is the store path itself.                    *)
(***************************************************************************)
StoreFolders ==
    <<"images", "volumes", "meta", "locks", "tmp", "dependencies">>
Folders == {StoreFolders[k] : k \in 1..Len(StoreFolders)}
Parent(f) == IF f = "dependencies" THEN "meta" ELSE "path"

ASSUME ManagerAssumption ==
    /\ DOMAIN Commands = Procs
    /\ \A p \in Procs : Commands[p] \subseteq Command
    /\ HostBtrfs \in BOOLEAN
    /\ Preset \in Mappings \cup {None}
    /\ Preset # None => HostBtrfs
    /\ MinStoreSize \in Nat \ {0}
    /\ MaxFaults \in Nat
    /\ {None, Empty, Bare} \cap Mappings = {}
    /\ None # Empty /\ None # Bare /\ None \notin {"host", "loop"}

VARIABLES
    tree,       \* the trees under the store path: the host's and the mounted one
    mounted,    \* the backing file is mounted at the store path
    backing,    \* the backing file: what it holds, and its size
    open,       \* the tree in which a process has its new namespace file open
    pc,         \* next call of each process that touches the store
    cmd,        \* its command line
    folder,     \* init-store: index of the next folder
    seen,       \* delete-store: what it has listed and not destroyed yet
    mapping,    \* create: the mapping it has read
    faults      \* failures, deaths and reboots so far

vars == <<tree, mounted, backing, open, pc, cmd, folder, seen, mapping, faults>>

(***************************************************************************)
(* A tree: its folders, the namespace file, the mapping under which its    *)
(* cached volume was unpacked, and for each image the mapping of its       *)
(* rootfs.  One volume is enough to be cached under a mapping and reused.  *)
(***************************************************************************)
Tree ==
    [dirs : SUBSET (Folders \cup {"path"}),
     namespace : Mappings \cup {None, Empty},
     volume : Mappings \cup {None},
     images : [ImageIDs -> Mappings \cup {None, Bare}]]

NoTree ==
    [dirs |-> {}, namespace |-> None, volume |-> None,
     images |-> [i \in ImageIDs |-> None]]
NewFileSystem == [NoTree EXCEPT !.dirs = {"path"}]
ReadyTree(m) ==
    [NoTree EXCEPT !.dirs = Folders \cup {"path"}, !.namespace = m]

(***************************************************************************)
(* The backing file holds nothing, a file system, or a file system that    *)
(* has lost part of what was written while it was mounted or cut short.    *)
(***************************************************************************)
BackingFile ==
    [holds : {"absent", "blank", "formatted", "damaged"}, size : Int]

Top == IF mounted THEN "loop" ELSE "host"
Store == tree[Top]

\* What is read from or written to the mounted file system may fail then, or
\* work on what the kernel has in memory.
Damaged == mounted /\ backing.holds = "damaged"

InitSteps ==
    {"validate", "statBacking", "writeBacking", "truncate", "makePath",
     "remount", "format", "mount", "makeMeta", "statNamespace",
     "createNamespace", "writeNamespace", "validateNamespace", "configure",
     "makeFolder"}
SetupSteps ==
    {"validate", "statBacking", "writeBacking", "truncate", "remount", "format",
     "mount"}
DeleteSteps ==
    {"statStore", "lock", "listImages", "destroyImages", "listVolumes",
     "destroyVolumes", "removeAll"}
CreateSteps ==
    {"checkInitialized", "readMappings", "lockStore", "pull", "makeImage",
     "snapshot", "register"}
Steps == InitSteps \cup DeleteSteps \cup CreateSteps
Results == {"done", "failed", "aborted"}
Entry ==
    [op \in Operations |->
        CASE op = "init-store" -> "validate"
          [] op = "delete-store" -> "statStore"
          [] op = "create" -> "checkInitialized"]

Running(p) == pc[p] \in Steps

(***************************************************************************)
(* How a step ends: with the next call, or with the command's exit.        *)
(***************************************************************************)
Goto(p, step) == pc' = [pc EXCEPT ![p] = step]
Fail(p) == Goto(p, "failed")

\* IsStoreInitialized
IsStoreInitialized(t) == Folders \subseteq t.dirs /\ t.namespace # None

Init ==
    /\ tree = [t \in {"host", "loop"} |->
                 IF t = "host" /\ Preset # None THEN ReadyTree(Preset) ELSE NoTree]
    /\ mounted = FALSE
    /\ backing = [holds |-> "absent", size |-> 0]
    /\ open = [p \in Procs |-> None]
    /\ pc = [p \in Procs |-> "idle"]
    /\ cmd \in [Procs -> UNION {Commands[p] : p \in Procs}]
    /\ \A p \in Procs : cmd[p] \in Commands[p]
    /\ folder = [p \in Procs |-> 1]
    /\ seen = [p \in Procs |-> {}]
    /\ mapping = [p \in Procs |-> None]
    /\ faults = 0

\* A command starts, if the operator lets it run beside those that are running.
Start(p) ==
    /\ pc[p] = "idle"
    /\ \A q \in Procs : Running(q) => {cmd[p].op, cmd[q].op} \in Overlap
    /\ Goto(p, Entry[cmd[p].op])
    /\ UNCHANGED <<tree, mounted, backing, open, cmd, folder, seen, mapping, faults>>

-----------------------------------------------------------------------------
(***************************************************************************)
(* init-store                                                              *)
(***************************************************************************)

\* ValidateFileSystem of the path that InitStore picks.
ValidFileSystem(size) ==
    IF "path" \in Store.dirs THEN mounted \/ HostBtrfs
                             ELSE size <= 0 /\ HostBtrfs

\* Mutant: without a size, a file system that is not btrfs is let through.
ValidateUnchecked(p) ==
    /\ pc[p] = "validate"
    /\ Goto(p, IF ValidFileSystem(cmd[p].size) \/ cmd[p].size <= 0 THEN "makeMeta"
               ELSE IF cmd[p].size >= MinStoreSize THEN "statBacking"
               ELSE "failed")
    /\ UNCHANGED <<tree, mounted, backing, open, cmd, folder, seen, mapping, faults>>

\* Mutant: with a size, a valid file system is not enough.
ValidateForSize(p) ==
    /\ pc[p] = "validate"
    /\ Goto(p, IF cmd[p].size >= MinStoreSize THEN "statBacking"
               ELSE IF ValidFileSystem(cmd[p].size) THEN "makeMeta"
               ELSE "failed")
    /\ UNCHANGED <<tree, mounted, backing, open, cmd, folder, seen, mapping, faults>>

Validate(p) ==
    /\ pc[p] = "validate"
    /\ \/ ValidFileSystem(cmd[p].size) /\ Goto(p, "makeMeta")
       \/ /\ ~ValidFileSystem(cmd[p].size) \/ Damaged
          /\ IF cmd[p].size > 0 /\ cmd[p].size >= MinStoreSize
             THEN Goto(p, "statBacking")
             ELSE Fail(p)
    /\ UNCHANGED <<tree, mounted, backing, open, cmd, folder, seen, mapping, faults>>

\* createAndMountFilesystem: is there a backing file?
StatBacking(p) ==
    /\ pc[p] = "statBacking"
    /\ Goto(p, IF backing.holds = "absent" THEN "writeBacking" ELSE "truncate")
    /\ UNCHANGED <<tree, mounted, backing, open, cmd, folder, seen, mapping, faults>>

\* createAndMountFilesystem: ioutil.WriteFile makes the file, and empties one
\* that has been made since Stat, mounted or not.
WriteBacking(p) ==
    /\ pc[p] = "writeBacking"
    /\ backing' = [holds |-> IF mounted THEN "damaged" ELSE "blank", size |-> 0]
    /\ Goto(p, "truncate")
    /\ UNCHANGED <<tree, mounted, open, cmd, folder, seen, mapping, faults>>

\* createAndMountFilesystem: os.Truncate to the size asked for cuts a file
\* system short that was made for a larger one.
Truncate(p) ==
    /\ pc[p] = "truncate"
    /\ backing' = [holds |-> IF backing.holds = "formatted" /\ cmd[p].size < backing.size
                             THEN "damaged" ELSE backing.holds,
                   size |-> cmd[p].size]
    /\ Goto(p, "makePath")
    /\ UNCHANGED <<tree, mounted, open, cmd, folder, seen, mapping, faults>>

MakePath(p) ==
    /\ pc[p] = "makePath"
    /\ tree' = [tree EXCEPT ![Top].dirs = @ \cup {"path"}]
    /\ Goto(p, "remount")
    /\ UNCHANGED <<mounted, backing, open, cmd, folder, seen, mapping, faults>>

\* InitFilesystem: a remount works only where something is mounted.
Remount(p) ==
    /\ pc[p] = "remount"
    /\ \/ mounted /\ Goto(p, "makeMeta")
       \/ (~mounted \/ Damaged) /\ Goto(p, "format")
    /\ UNCHANGED <<tree, mounted, backing, open, cmd, folder, seen, mapping, faults>>

\* Mutant: the file is emptied and formatted whether it is mounted or not.
FormatInUse(p) ==
    /\ pc[p] = "format"
    /\ backing' = [backing EXCEPT !.holds = "formatted"]
    /\ tree' = [tree EXCEPT !["loop"] = NewFileSystem]
    /\ open' = [q \in Procs |-> IF open[q] = "loop" THEN None ELSE open[q]]
    /\ Goto(p, "mount")
    /\ UNCHANGED <<mounted, cmd, folder, seen, mapping, faults>>

\* formatFilesystem: mkfs -f replaces whatever the file holds, and refuses one
\* that is mounted.
Format(p) ==
    /\ pc[p] = "format"
    /\ \/ mounted /\ Fail(p) /\ UNCHANGED <<tree, backing, open>>
       \/ /\ ~mounted
          /\ backing' = [backing EXCEPT !.holds = "formatted"]
          /\ tree' = [tree EXCEPT !["loop"] = NewFileSystem]
          /\ open' = [q \in Procs |-> IF open[q] = "loop" THEN None ELSE open[q]]
          /\ Goto(p, "mount")
    /\ UNCHANGED <<mounted, cmd, folder, seen, mapping, faults>>

\* mountFilesystem: needs a directory and a file system, and one file system is
\* not mounted twice on the same directory.
Mount(p) ==
    /\ pc[p] = "mount"
    /\ \/ /\ ~mounted /\ "path" \in Store.dirs
          /\ backing.holds \in {"formatted", "damaged"}
          /\ mounted' = TRUE
          /\ Goto(p, "makeMeta")
       \/ /\ mounted \/ "path" \notin Store.dirs \/ backing.holds # "formatted"
          /\ Fail(p)
          /\ UNCHANGED mounted
    /\ UNCHANGED <<tree, backing, open, cmd, folder, seen, mapping, faults>>

MakeMeta(p) ==
    /\ pc[p] = "makeMeta"
    /\ tree' = [tree EXCEPT ![Top].dirs = @ \cup {"path", "meta"}]
    /\ Goto(p, "statNamespace")
    /\ UNCHANGED <<mounted, backing, open, cmd, folder, seen, mapping, faults>>

\* ApplyMappings
StatNamespace(p) ==
    /\ pc[p] = "statNamespace"
    /\ Goto(p, IF Store.namespace = None THEN "createNamespace"
                                         ELSE "validateNamespace")
    /\ UNCHANGED <<tree, mounted, backing, open, cmd, folder, seen, mapping, faults>>

\* write: os.Create empties a file that has appeared meanwhile.
CreateNamespace(p) ==
    /\ pc[p] = "createNamespace"
    /\ \/ "meta" \notin Store.dirs /\ Fail(p) /\ UNCHANGED <<tree, open>>
       \/ /\ "meta" \in Store.dirs
          /\ tree' = [tree EXCEPT ![Top].namespace = Empty]
          /\ open' = [open EXCEPT ![p] = Top]
          /\ Goto(p, "writeNamespace")
    /\ UNCHANGED <<mounted, backing, cmd, folder, seen, mapping, faults>>

\* write: the encoder writes to the open file, which may have been removed.
WriteNamespace(p) ==
    /\ pc[p] = "writeNamespace"
    /\ tree' = IF open[p] = None THEN tree
               ELSE [tree EXCEPT ![open[p]].namespace = cmd[p].mapping]
    /\ open' = [open EXCEPT ![p] = None]
    /\ Goto(p, "configure")
    /\ UNCHANGED <<mounted, backing, cmd, folder, seen, mapping, faults>>

\* Mutant: a file without mappings in it has none that could differ.
ValidateIfWritten(p) ==
    /\ pc[p] = "validateNamespace"
    /\ Goto(p, IF Store.namespace \in {cmd[p].mapping, Empty} THEN "configure"
               ELSE "failed")
    /\ UNCHANGED <<tree, mounted, backing, open, cmd, folder, seen, mapping, faults>>

\* Mutant: mappings that differ are put in the place of the configured ones.
ValidateAndAdopt(p) ==
    /\ pc[p] = "validateNamespace"
    /\ tree' = [tree EXCEPT ![Top].namespace = cmd[p].mapping]
    /\ Goto(p, "configure")
    /\ UNCHANGED <<mounted, backing, open, cmd, folder, seen, mapping, faults>>

\* validateNamespace: a file that cannot be decoded is an error too.
ValidateNamespace(p) ==
    /\ pc[p] = "validateNamespace"
    /\ Goto(p, IF Store.namespace = cmd[p].mapping THEN "configure" ELSE "failed")
    /\ UNCHANGED <<tree, mounted, backing, open, cmd, folder, seen, mapping, faults>>

\* Chown and chmod of the store path, which must be there.
Configure(p) ==
    /\ pc[p] = "configure"
    /\ folder' = [folder EXCEPT ![p] = 1]
    /\ Goto(p, IF "path" \in Store.dirs THEN "makeFolder" ELSE "failed")
    /\ UNCHANGED <<tree, mounted, backing, open, cmd, seen, mapping, faults>>

\* Mutant: the loop over the folders runs one too far.
MakeFolderPastEnd(p) ==
    /\ pc[p] = "makeFolder"
    /\ tree' = [tree EXCEPT ![Top].dirs = @ \cup {StoreFolders[folder[p]]}]
    /\ folder' = [folder EXCEPT ![p] = @ + 1]
    /\ IF folder[p] <= Len(StoreFolders) THEN UNCHANGED pc ELSE Goto(p, "done")
    /\ UNCHANGED <<mounted, backing, open, cmd, seen, mapping, faults>>

\* Mutant: a folder that is there already is an error.
MakeFolderAnew(p) ==
    LET f == StoreFolders[folder[p]] IN
    /\ pc[p] = "makeFolder"
    /\ tree' = [tree EXCEPT ![Top].dirs = @ \cup {f}]
    /\ IF f \in Store.dirs \ {"meta"} THEN Fail(p) /\ UNCHANGED folder
       ELSE IF folder[p] < Len(StoreFolders)
       THEN folder' = [folder EXCEPT ![p] = @ + 1] /\ UNCHANGED pc
       ELSE Goto(p, "done") /\ UNCHANGED folder
    /\ UNCHANGED <<mounted, backing, open, cmd, seen, mapping, faults>>

\* createInternalDirectory: a folder that is there already is as good.
MakeFolder(p) ==
    LET f == StoreFolders[folder[p]] IN
    /\ pc[p] = "makeFolder"
    /\ \/ Parent(f) \notin Store.dirs /\ Fail(p) /\ UNCHANGED <<tree, folder>>
       \/ /\ Parent(f) \in Store.dirs
          /\ tree' = [tree EXCEPT ![Top].dirs = @ \cup {f}]
          /\ IF folder[p] < Len(StoreFolders)
             THEN folder' = [folder EXCEPT ![p] = @ + 1] /\ UNCHANGED pc
             ELSE Goto(p, "done") /\ UNCHANGED folder
    /\ UNCHANGED <<mounted, backing, open, cmd, seen, mapping, faults>>

InitStore(p) ==
    \/ Validate(p) \/ StatBacking(p) \/ WriteBacking(p) \/ Truncate(p)
    \/ MakePath(p) \/ Remount(p) \/ Format(p) \/ Mount(p) \/ MakeMeta(p)
    \/ StatNamespace(p) \/ CreateNamespace(p) \/ WriteNamespace(p)
    \/ ValidateNamespace(p) \/ Configure(p) \/ MakeFolder(p)

-----------------------------------------------------------------------------
(***************************************************************************)
(* delete-store                                                            *)
(***************************************************************************)

\* Nothing to delete is a success.
StatStore(p) ==
    /\ pc[p] = "statStore"
    /\ Goto(p, IF "path" \in Store.dirs THEN "lock" ELSE "done")
    /\ UNCHANGED <<tree, mounted, backing, open, cmd, folder, seen, mapping, faults>>

\* Lock of the shared locksmith: opening the lock file needs its folder.
LockForDelete(p) ==
    /\ pc[p] = "lock"
    /\ Goto(p, IF "locks" \in Store.dirs THEN "listImages" ELSE "failed")
    /\ UNCHANGED <<tree, mounted, backing, open, cmd, folder, seen, mapping, faults>>

Images == {i \in ImageIDs : Store.images[i] # None}

ListImages(p) ==
    /\ pc[p] = "listImages"
    /\ seen' = [seen EXCEPT ![p] = Images]
    /\ Goto(p, IF "images" \in Store.dirs THEN "destroyImages" ELSE "failed")
    /\ UNCHANGED <<tree, mounted, backing, open, cmd, folder, mapping, faults>>

\* DestroyImage removes what there is of an image, and fails if it had no rootfs.
DestroyImages(p) ==
    /\ pc[p] = "destroyImages"
    /\ \/ seen[p] = {} /\ Goto(p, "listVolumes") /\ UNCHANGED <<tree, seen>>
       \/ \E i \in seen[p] :
            /\ tree' = [tree EXCEPT ![Top].images[i] = None]
            /\ seen' = [seen EXCEPT ![p] = @ \ {i}]
            /\ IF Store.images[i] \in Mappings THEN UNCHANGED pc ELSE Fail(p)
    /\ UNCHANGED <<mounted, backing, open, cmd, folder, mapping, faults>>

ListVolumes(p) ==
    /\ pc[p] = "listVolumes"
    /\ seen' = [seen EXCEPT ![p] = IF Store.volume = None THEN {} ELSE {"volume"}]
    /\ Goto(p, IF "volumes" \in Store.dirs THEN "destroyVolumes" ELSE "failed")
    /\ UNCHANGED <<tree, mounted, backing, open, cmd, folder, mapping, faults>>

DestroyVolumes(p) ==
    /\ pc[p] = "destroyVolumes"
    /\ seen' = [seen EXCEPT ![p] = {}]
    /\ \/ seen[p] = {} /\ Goto(p, "removeAll") /\ UNCHANGED tree
       \/ /\ seen[p] # {}
          /\ tree' = [tree EXCEPT ![Top].volume = None]
          /\ IF Store.volume = None THEN Fail(p) ELSE UNCHANGED pc
    /\ UNCHANGED <<mounted, backing, open, cmd, folder, mapping, faults>>

IsEmpty(f) ==
    CASE f = "images" -> Images = {}
      [] f = "volumes" -> Store.volume = None
      [] f = "meta" -> Store.namespace = None /\ "dependencies" \notin Store.dirs
      [] OTHER -> TRUE

\* os.RemoveAll, entry by entry.  What is in it is removed before a folder is.
RemoveEntry(p) ==
    /\ pc[p] = "removeAll"
    /\ \/ \E i \in Images :
            tree' = [tree EXCEPT ![Top].images[i] = None] /\ UNCHANGED open
       \/ /\ Store.volume # None
          /\ tree' = [tree EXCEPT ![Top].volume = None]
          /\ UNCHANGED open
       \/ /\ Store.namespace # None
          /\ tree' = [tree EXCEPT ![Top].namespace = None]
          /\ open' = [q \in Procs |-> IF open[q] = Top THEN None ELSE open[q]]
       \/ \E f \in Store.dirs \ {"path"} :
            /\ IsEmpty(f)
            /\ tree' = [tree EXCEPT ![Top].dirs = @ \ {f}]
            /\ UNCHANGED open
    /\ UNCHANGED <<mounted, backing, pc, cmd, folder, seen, mapping, faults>>

\* os.RemoveAll: the store path itself.  A mount point cannot be removed.
RemovePath(p) ==
    /\ pc[p] = "removeAll"
    /\ Store.dirs \subseteq {"path"}
    /\ \/ mounted /\ Fail(p) /\ UNCHANGED tree
       \/ /\ ~mounted
          /\ tree' = [tree EXCEPT !["host"].dirs = {}]
          /\ Goto(p, "done")
    /\ UNCHANGED <<mounted, backing, open, cmd, folder, seen, mapping, faults>>

\* Mutant: an error of os.RemoveAll is logged and dropped, as DestroyImage does.
RemoveAllLogs(p) ==
    /\ pc[p] = "removeAll"
    /\ Images # {} \/ Store.volume # None
       \/ (Store.dirs # {} /\ \E q \in Procs \ {p} : Running(q))
    /\ Goto(p, "done")
    /\ UNCHANGED <<tree, mounted, backing, open, cmd, folder, seen, mapping, faults>>

\* os.RemoveAll gives up: a subvolume cannot be removed like a directory on
\* every kernel, and a directory may have been filled again by another process.
RemoveAllFails(p) ==
    /\ pc[p] = "removeAll"
    /\ Images # {} \/ Store.volume # None
       \/ (Store.dirs # {} /\ \E q \in Procs \ {p} : Running(q))
    /\ Fail(p)
    /\ UNCHANGED <<tree, mounted, backing, open, cmd, folder, seen, mapping, faults>>

DeleteStore(p) ==
    \/ StatStore(p) \/ LockForDelete(p) \/ ListImages(p) \/ DestroyImages(p)
    \/ ListVolumes(p) \/ DestroyVolumes(p) \/ RemoveEntry(p) \/ RemovePath(p)
    \/ RemoveAllFails(p)

-----------------------------------------------------------------------------
(***************************************************************************)
(* create, as far as it depends on the set-up.  Module Groot has the rest. *)
(***************************************************************************)

CheckInitialized(p) ==
    /\ pc[p] = "checkInitialized"
    /\ Goto(p, IF IsStoreInitialized(Store) THEN "readMappings" ELSE "failed")
    /\ UNCHANGED <<tree, mounted, backing, open, cmd, folder, seen, mapping, faults>>

\* Read
ReadMappings(p) ==
    /\ pc[p] = "readMappings"
    /\ \/ /\ Store.namespace \in Mappings
          /\ mapping' = [mapping EXCEPT ![p] = Store.namespace]
          /\ Goto(p, "lockStore")
       \/ Store.namespace \notin Mappings /\ Fail(p) /\ UNCHANGED mapping
    /\ UNCHANGED <<tree, mounted, backing, open, cmd, folder, seen, faults>>

\* An id that is taken is refused before the lock.
LockForCreate(p) ==
    /\ pc[p] = "lockStore"
    /\ Goto(p, IF "locks" \in Store.dirs /\ Store.images[cmd[p].id] = None
               THEN "pull" ELSE "failed")
    /\ UNCHANGED <<tree, mounted, backing, open, cmd, folder, seen, mapping, faults>>

\* Pull: a cached volume is used as it is.
Pull(p) ==
    /\ pc[p] = "pull"
    /\ \/ "volumes" \notin Store.dirs /\ Fail(p) /\ UNCHANGED tree
       \/ /\ "volumes" \in Store.dirs
          /\ tree' = [tree EXCEPT ![Top].volume = IF @ = None THEN mapping[p] ELSE @]
          /\ Goto(p, "makeImage")
    /\ UNCHANGED <<mounted, backing, open, cmd, folder, seen, mapping, faults>>

\* A directory that cannot be made is cleaned up after, whoever made it.
MakeImage(p) ==
    /\ pc[p] = "makeImage"
    /\ \/ /\ "images" \in Store.dirs /\ Store.images[cmd[p].id] = None
          /\ tree' = [tree EXCEPT ![Top].images[cmd[p].id] = Bare]
          /\ Goto(p, "snapshot")
       \/ /\ "images" \notin Store.dirs \/ Store.images[cmd[p].id] # None
          /\ tree' = [tree EXCEPT ![Top].images[cmd[p].id] = None]
          /\ Fail(p)
    /\ UNCHANGED <<mounted, backing, open, cmd, folder, seen, mapping, faults>>

\* The snapshot of the volume; without it, the directory is removed again.
Snapshot(p) ==
    /\ pc[p] = "snapshot"
    /\ LET whole == Store.volume # None /\ Store.images[cmd[p].id] = Bare IN
       /\ tree' = [tree EXCEPT ![Top].images[cmd[p].id] =
                     IF whole THEN Store.volume ELSE None]
       /\ Goto(p, IF whole THEN "register" ELSE "failed")
    /\ UNCHANGED <<mounted, backing, open, cmd, folder, seen, mapping, faults>>

\* An image whose dependencies cannot be written down is destroyed again.
Register(p) ==
    /\ pc[p] = "register"
    /\ \/ "dependencies" \in Store.dirs /\ Goto(p, "done") /\ UNCHANGED tree
       \/ /\ "dependencies" \notin Store.dirs
          /\ tree' = [tree EXCEPT ![Top].images[cmd[p].id] = None]
          /\ Fail(p)
    /\ UNCHANGED <<mounted, backing, open, cmd, folder, seen, mapping, faults>>

CreateImage(p) ==
    \/ CheckInitialized(p) \/ ReadMappings(p) \/ LockForCreate(p)
    \/ Pull(p) \/ MakeImage(p) \/ Snapshot(p) \/ Register(p)

-----------------------------------------------------------------------------
(***************************************************************************)
(* Failures: a command returns an error or dies before it has made its     *)
(* next call; the machine goes down and comes up with nothing mounted.     *)
(***************************************************************************)
Abort(p) ==
    /\ Running(p) /\ pc[p] \in AbortPoints
    /\ faults < MaxFaults
    /\ faults' = faults + 1
    /\ open' = [open EXCEPT ![p] = None]
    /\ Goto(p, "aborted")
    /\ UNCHANGED <<tree, mounted, backing, cmd, folder, seen, mapping>>

\* A command's next call in a damaged file system fails.  What validate and
\* remount make of that is in those actions; the other steps of the set-up are
\* outside the file system.
IOError(p) ==
    /\ Damaged
    /\ Running(p) /\ pc[p] \notin SetupSteps
    /\ Fail(p)
    /\ open' = [open EXCEPT ![p] = None]
    /\ UNCHANGED <<tree, mounted, backing, cmd, folder, seen, mapping, faults>>

Reboot ==
    /\ "reboot" \in AbortPoints
    /\ faults < MaxFaults
    /\ faults' = faults + 1
    /\ mounted' = FALSE
    /\ open' = [p \in Procs |-> None]
    /\ pc' = [p \in Procs |-> IF Running(p) THEN "aborted" ELSE pc[p]]
    /\ UNCHANGED <<tree, backing, cmd, folder, seen, mapping>>

Finished == (\A p \in Procs : pc[p] \in Results) /\ UNCHANGED vars

Next ==
    \/ \E p \in Procs :
        \/ Start(p) \/ InitStore(p) \/ DeleteStore(p) \/ CreateImage(p)
        \/ Abort(p) \/ IOError(p)
    \/ Reboot
    \/ Finished

Spec == Init /\ [][Next]_vars

-----------------------------------------------------------------------------
(***************************************************************************)
(* Properties                                                              *)
(***************************************************************************)

\* The state has its types.
StoreTypeOK ==
    /\ tree \in [{"host", "loop"} -> Tree]
    /\ mounted \in BOOLEAN
    /\ backing \in BackingFile
    /\ open \in [Procs -> {"host", "loop", None}]
    /\ pc \in [Procs -> Steps \cup Results \cup {"idle"}]
    /\ cmd \in [Procs -> Command]
    /\ folder \in [Procs -> 1..Len(StoreFolders)]
    /\ seen \in [Procs -> SUBSET (ImageIDs \cup {"volume"})]
    /\ \A p \in Procs : pc[p] = "destroyImages" => seen[p] \subseteq ImageIDs
    /\ mapping \in [Procs -> Mappings \cup {None}]
    /\ faults \in 0..MaxFaults

\* A store that passes IsStoreInitialized has a namespace file that can be
\* read, wherever set-ups were cut short: the folders are made after the file
\* has been written, and a file that was not written is never accepted.  A
\* delete-store cut short may leave all the folders and not the file; then this
\* fails while the next init-store is writing.
UsableStore ==
    (\A p \in Procs : cmd[p].op # "delete-store") =>
        \A t \in {"host", "loop"} :
            IsStoreInitialized(tree[t]) => tree[t].namespace \in Mappings

\* A store that passes IsStoreInitialized is on btrfs, which all later commands
\* take for granted: a set-up that could not mount its backing file does not
\* go on in the directory under the mount point.
StoreIsBtrfs == IsStoreInitialized(Store) => mounted \/ HostBtrfs

\* All images, and the cached volume they are made from, carry the mapping in
\* the store's namespace file, although create reads the file once, before it
\* takes any lock, and init-store may be run again at any time.
MappingsMatch ==
    \A t \in {"host", "loop"} :
        tree[t].namespace \in Mappings =>
            /\ tree[t].volume \in {tree[t].namespace, None}
            /\ \A i \in ImageIDs :
                tree[t].images[i] \in {tree[t].namespace, None, Bare}

\* init-store can be run again after whatever happened to earlier ones: it fails
\* of itself only where the file system is not btrfs and no sufficient size was
\* given, or where the store has another mapping, or where an earlier one died
\* between creating the namespace file and writing it.
InitStoreWorks ==
    [][\A p \in Procs :
        Running(p) /\ cmd[p].op = "init-store" /\ pc'[p] = "failed" =>
            \/ pc[p] = "validate" /\ cmd[p].size < MinStoreSize
            \/ Store.namespace \in (Mappings \cup {Empty}) \ {cmd[p].mapping}]_vars

\* An image that create has reported and that can be reached is not lost to
\* overlapping init-stores on a host without btrfs, but to one that went for the
\* backing file before it was there, and empties it now, or asks for a smaller
\* one: remount and mkfs look at the mount, WriteFile and Truncate do not.  Only
\* a delete-store takes the image away, a reboot puts it out of reach, or a create
\* that was given the same id cleans up after itself.  On a host with btrfs, an
\* init-store that had looked before there was a store path can still mount its
\* own file system over the store.
LiveStoreKept ==
    [][\A p \in Procs :
        /\ cmd[p].op = "create" /\ pc[p] = "done"
        /\ Store.images[cmd[p].id] \in Mappings
        => /\ (Store.images)'[cmd[p].id] # Store.images[cmd[p].id]
              => \/ \E q \in Procs : pc[q] \in DeleteSteps
                 \/ mounted /\ ~mounted'
                 \/ \E q \in Procs \ {p} : cmd[q].op = "create" /\ cmd[q].id = cmd[p].id
                 \/ HostBtrfs /\ ~mounted /\ mounted'
           /\ mounted /\ ~Damaged /\ Damaged'
              => \E q \in Procs :
                    \/ pc[q] = "writeBacking"
                    \/ pc[q] = "truncate" /\ cmd[q].size < backing.size]_vars

\* Where init-stores are run one at a time, none of them empties the file of a
\* mounted file system or cuts it short, whatever sizes they are given and
\* whatever happened to earlier ones: only what is not mounted fails validation.
MountedFileWhole == ~Damaged

\* Where no init-store is run, a delete-store that ended well leaves nothing at
\* the store path, then and later: the creates beside it make nothing anew.
DeletedStoreStaysGone ==
    (\A p \in Procs : cmd[p].op # "init-store") =>
        \A p \in Procs :
            cmd[p].op = "delete-store" /\ pc[p] = "done" => Store = NoTree

\* init-store does not format a file system that holds an initialized store.
\* (store/manager/manager_linux_test.go:375, of a store that is already
\* initialized: "doesn't try to recreate/mount the backing store")
InitKeepsStore ==
    [][\A p \in Procs :
        pc[p] = "format" /\ pc'[p] = "mount" =>
            ~IsStoreInitialized(tree["loop"])]_vars

-----------------------------------------------------------------------------
(***************************************************************************)
(* What the proofs of StoreIsBtrfs and UsableStore rest on                 *)
(***************************************************************************)

\* The steps of init-store that come after the store path has been validated
\* or mounted.
FilledSteps ==
    {"makeMeta", "statNamespace", "createNamespace", "writeNamespace",
     "validateNamespace", "configure", "makeFolder"}

\* Where the host has no btrfs, an init-store that is past its mount finds the
\* backing file mounted, so no folder is ever made in the host's directory.
MountInv ==
    ~HostBtrfs =>
        /\ "images" \notin tree["host"].dirs
        /\ \A p \in Procs : pc[p] \in FilledSteps => mounted

\* A process takes the steps of its own command.
OwnSteps ==
    \A p \in Procs :
        /\ pc[p] \in InitSteps => cmd[p].op = "init-store"
        /\ pc[p] \in DeleteSteps => cmd[p].op = "delete-store"
        /\ pc[p] \in CreateSteps => cmd[p].op = "create"

\* How far the init-store that is running has come with the namespace file.
\* It is the only one, and nobody deletes, so what it has seen stays.
SetupInv ==
    (\A p \in Procs : cmd[p].op # "delete-store") =>
        /\ \A p, q \in Procs : pc[p] \in InitSteps /\ pc[q] \in InitSteps => p = q
        /\ \A t \in {"host", "loop"} :
            tree[t].namespace \notin Mappings => "images" \notin tree[t].dirs
        /\ \A p \in Procs :
            /\ pc[p] = "createNamespace" => Store.namespace = None
            /\ pc[p] = "writeNamespace" => open[p] = Top
            /\ pc[p] \in {"configure", "makeFolder"} => Store.namespace \in Mappings
=============================================================================
