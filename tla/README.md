# A verification of groot-btrfs

groot-btrfs makes root filesystems for containers. `create` pulls the layers of
a base image into btrfs volumes and snapshots the top one as
`images/<id>/rootfs`; `delete` removes an image; `clean` destroys the volumes no
image depends on. Each is one run of a command line tool. Many of them run at
once on one store directory, and they share nothing but its files and the
advisory locks in it. That sharing is what this project is about: what may a
command rely on while others run, fail, or die half way?

## 1. The system

| Component | State it keeps | Operations | Correct when |
|---|---|---|---|
| `groot/creator.go` | none (drives the others) | `Create`: check the id, fetch the manifest, clean if asked, lock (shared), pull, clone, register, undo | an image it reports is whole and stays so |
| `groot/cleaner.go`, `store/garbage_collector` | `gc.*` volumes | `Clean`: threshold, lock (exclusive), `UnusedVolumes`, `MarkUnused`, unlock, `Collect` | nothing in use is marked; leftovers are reclaimed |
| `groot/deleter.go`, `commands/idfinder` | none | `FindID`, `Destroy`, `Deregister`, with no lock | other images are untouched |
| `base_image_puller` | `volumes/`, temporary volumes | `Pull`, the recursion of `buildLayer`, a download goroutine per layer | a volume under a chain id is complete; builders do not collide or deadlock |
| `store/image_cloner` | `images/<id>` | `Create` with deferred clean-up, `Destroy`, `Exists` | a rootfs is whole or absent, unless a removal of it failed or died |
| `store/dependency_manager` | `meta/dependencies/*.json` | `Register`, `Deregister`, `Dependencies` | lists what the image was made from |
| `store/locksmith` | `locks/*.lock` | shared and exclusive `flock` | exclusive excludes all, dropped on exit |
| `store/filesystems/btrfs` | subvolumes, `meta/volume-*` | `CreateVolume`, `MoveVolume`, `WriteVolumeMeta`, `DestroyVolume`, `CreateImage`, `DestroyImage` | destroys only what it was asked to |
| `drax` (setuid helper) | none | `list`, `limit`, `destroy`, `stats` | lists what is inside the path |
| `store/manager`, `groot/store_namespacer.go` | store directories, the backing file and its mount, `namespace.json` | `InitStore`, `DeleteStore`, `ApplyMappings`, `Read` | a store is initialised once and survives crashes |
| `fetcher/layer_fetcher` | temporary blob files | manifest, chain ids, blobs with retries and checksums | verified blobs only, no leaks |
| `fetcher/tar_fetcher` | none | `BaseImageInfo`, `StreamBlob` of a tar file | a file that was replaced is not taken from the cache |
| `unpacker` | a child in a user namespace and a pipe; the volume's files and its owner | `Unpack`, the entries of a layer, `MapUIDs`, `MapGIDs`, `translateID` | the files and owners the image means, whoever unpacks |
| `filesystems/namespaced` | a child for each call | `DestroyVolume`, `DestroyImage` in a user namespace, the rest passed on | no child works unmapped or is left behind |
| `commands`, `commands/config`, `main.go` | config file, flags | building and checking the config, exit codes, run counters | what was asked for is done, what is reported happened |
| `groot/lister.go`, `statser.go`, `generate_metadata.go` | size files | `list`, `stats`, `generate-volume-size-metadata` | a volume has a size once it has its name, and keeps it |
| `metrics` | none | run counters, durations, sizes | - |

How they interact: `create` holds the global lock in shared mode from the pull
to the registration, and inside it one exclusive lock per layer that it builds,
nested down the stack. The first half of `clean` holds the global lock
exclusively; the second half, which destroys the marked volumes, holds nothing.
`delete` holds nothing at all. `create` with clean-on-create runs all of `clean`
before it takes its own lock. A create that is not run by root unpacks in a child,
and that child in a further process, ordered by one byte on a pipe.

What is hard: the check of the id is made long before the directory is; the
cleaner reads images and dependency files while `delete` removes them; a process
may die between any two calls; errors of the cleaner are logged and swallowed; a
rename onto an existing name counts as success; clean-up code destroys by name; three
processes share one unpacking and any of them may be killed; ids are translated by
groot in one case and by the kernel in the other.
`PROJECT.json` lists each hazard at its line.

## 2. The modules

| Module | Models |
|---|---|
| `Store` | the store's state, the processes, the locks, failures |
| `BaseImagePuller` | `base_image_puller.go` with the driver calls it makes |
| `ImageCloner` | `image_cloner.go`, `CreateImage`, `DestroyImage`, the dependency files, `delete` |
| `GarbageCollector` | `cleaner.go`, `gc.go`, `DestroyVolume` |
| `Groot` | `Create`, the composition, `Init`, `Next`, `Spec`, `FairSpec` and the properties |
| `GrootInvariant` | the inductive invariant `IInv` |
| `VolumeCache` | the abstract specification: what the store promises to who looks at it |
| `GrootRefinement` | the mapping of `Groot` to `VolumeCache`, `CacheImplemented` |
| `GrootStepProofs`, `GrootProofs`, `GrootCacheProofs` | the proofs |
| `MCGroot` | small stores and command lines for TLC |
| `StoreManager` | `init-store`, `delete-store`, and as much of `create` as depends on them: `manager.go`, `store_namespacer.go`, the driver's `InitFilesystem`, `filesystems.go` |
| `StoreManagerProofs`, `MCStoreManager` | its proofs; small command lines |
| `LayerSource` | one pull from a registry or a layout: `layer_source.go`, `layer_fetcher.go`, `blob_reader.go`, the download goroutines of `base_image_puller.go` |
| `LayerSourceProofs`, `MCLayerSource` | its proofs; base images and faults |
| `IDMapping` | mappings: `readSubIDMapping`, `translateID`, `translateRootID`, `parseOwner`, and what the kernel makes of the same mappings |
| `TarUnpacker` | `unpacker/tar.go`: what each entry does to a tree of files; what a layer means |
| `UserNamespace` | `ns_id_mapper_unpacker.go`, `id_mapper.go`, `filesystems/namespaced`: groot, the child, the process inside |
| `Unpacker` | the last three composed: an image unpacked layer by layer, made, destroyed |
| `TarUnpackerProofs` | what unpacking the entries makes of a tree of files, for every layer |
| `UnpackerProofs`, `MCUnpacker` | the proofs of `Unpacker`; small images, users and mappings |
| `Config` | `commands/config/builder.go` and `main.go`: file, flags, defaults, validation |
| `TarFetcher` | `tar_fetcher.go` |
| `ImageDriver` | images of both layouts in `btrfs/driver.go`, and drax |
| `Session` | a user's commands one after the other, with the last three composed |
| `SessionProofs`, `MCSession` | its proofs; config files and command lines |

The five families answer different questions and share no state. `Groot` takes a
store that has been set up, and looks at what the commands do inside it.
`StoreManager` looks at how a store comes to be and ceases to be, with the cache
reduced to one volume and the image to the mapping its files were unpacked under.
`LayerSource` looks inside one pull, at what `Groot` takes for a download that
succeeds or fails. `Unpacker` looks inside what `Groot` takes for an unpacking that
succeeds or fails. `Session` gives up concurrency and looks at data instead: at
options, layouts, limits, content and exit codes.

Every process has a program counter `pc[p]` whose values are named after the
next call that touches the store, so two processes interleave between any two
such calls. One action is one call with all it changes and with the code's
continuation, error paths included. `ok[p]` becomes FALSE when the command has an
error to return. The recursion of `buildLayer` is the single number `idx[p]`:
every frame above it waits, with its layer's lock in hand, for the frame at
`idx[p]`; `ReturnLayer` is the return of a frame with its deferred `Unlock`.

Data is abstracted to what the properties tell apart. A volume is the set of
layers it holds (`content`), a rootfs likewise; in `torn` are the ids whose rootfs has
lost files of its layers, as `os.RemoveAll` takes them one by one (`RemoveFiles`) and
may be cut off. A chain id stands for its stack
(`ChainAssumption`: equal chain ids have equal stacks under them, which is what
hashing the parent's chain id gives). A temporary name is a pair of chain id and
process, since a process unpacks a chain id at most once. A dependency file is in
`depFiles` when it is there and can be decoded. `nested` are the images whose
rootfs has subvolumes inside, made by containers or by a second snapshot into the
same rootfs; `Extensions` says which ids are longer than, and begin with, an id,
because drax compares path prefixes.

Failures. `FaultPoints` are the steps at which a call may fail, `MaxFaults` how
often in one behaviour; "crash" lets a process die anywhere, and its locks go with
it. `CallFails` is a call that fails and leaves the store alone (`OnError` says
where the command goes on); calls that fail half way have actions of their own:
`PrepareVolumeFails`, `UnpackFails`, `DiskLimitFails`, `DestroyRootfsFails`,
`RemoveImageDirFails`, `UnusedVolumesFails`, `MarkUnusedFails`,
`DestroyVolumeFails`. `CreateImagePanics` is no injected failure: a base image
without layers makes the code index a slice at -1.

In `StoreManager` the store path shows one of two trees, the host's directory or,
once `mounted`, the file system in the backing file. `backing` is that file: its size,
and whether it is absent, blank, formatted, or "damaged", that is, emptied while it was
mounted or made shorter than its file system. `StatBacking`, `WriteBacking` and
`Truncate` are separate steps, and look at the file, not at the mount. What a mounted
file system does once its file is damaged is the kernel's affair: any call may
fail (`IOError`), or work on what is in memory. A tree has its folders, its namespace
file, its cached volume and its images. `open[p]` is the tree in which a process has
created and not yet written `namespace.json`: the file is written to by descriptor, so
what is written may go to a file that is no longer reached by its name. `Overlap` says which
operations the operator lets run at once, because nothing in the code keeps two of
them apart: `delete-store` and `create` both take the global lock shared, and
`init-store` takes none. `AbortPoints` and `MaxFaults` bound the steps before which
a command may fail or die, and reboots, after which nothing is mounted.

In `LayerSource` the process has one main thread, `main`, and a goroutine for each
layer it downloads, `dl[l]`. `idx` is the running frame of `buildLayer`; on the way
down (`"buildLayer"`) each frame without a volume starts its download, on the way up
(`"receive"`, `"unpack"`) each takes the result from its channel `chan[l]`, which is
`"stream"` or the step that failed. A blob is "good" (what the manifest's digest
stands for), "bad", or "garbage" that is no gzip stream; `diffID[l]` is the content
the diff id stands for, which may be wrong in the image's configuration, and is
computed from an unchecked download for schema 1. `file[l]` is the temporary file.
`faults` counts what has gone wrong, `struck` says at which steps.

In `Unpacker` a command makes `calls` one after the other: `unpack` for each layer,
`cleanup` after one that failed, `image`, and what destroys the volume in the end. A
layer begins with its volume (`CreateVolume`): empty or a snapshot of the one below, given
to the id that root is mapped to, which groot does on the host. Where that is refused
(`MayOwn`: a user needs to own what is copied) nothing is unpacked and nothing cleaned up.
`parent` is the step of groot in the call under way; `child[k]` and `inner[k]` are the
two processes of call k, which may outlive it. `writer[k]` says whether the write end
of its pipe is open, `byte[k]` whether the byte has been written, `maps[k]` which maps
are set. A pipe that nobody has open for writing any more reads as its end: that is how
a child learns that groot has failed or died. `tree` maps paths to nodes; names that
share an `ino` are hard links of one file. `below` is the tree the new
volume starts as. `Regular` describes the layers for which a layer's meaning is
meant (no path through a symbolic link, no marker for its own entries, ...); the others
are run through as well, and have to end.

In `Session` one command runs at a time, and `pc` is the next call that it makes. The
store is `volumes` with the content of each, `gc`, `metas` (size files, "whole" or
"torn"), `images` with their layout, limit and content, and `deps`. The tar file has a
version for content and for time, and may be replaced between any two calls. A call
that fails or is killed half way leaves what it had done: `HalfDone` is what may be left
of an image (`PartContent` is a rootfs with files missing), `GenerateSome` what a
`generate-volume-size-metadata` leaves that was stopped in its loop; a failed `Unpack`
takes the chain id's size file, a failed `WriteVolumeMeta` leaves it torn (`CreateFails`).
`blamed` are the calls of the command that the environment has made fail; `begun` is
what the command started from.

`VolumeCache` has no processes, no locks and no failures: a `cache` of volumes that are
complete, the `rootfs` and the `holds` of each image. A volume is added above one that
is there, evicted when no image holds it, an image is a snapshot of a whole base
image, and a rootfs that is `torn`, once it has begun to lose files, is so until it goes. `GrootRefinement` maps finished volumes with their content to `cache`, and the
dependency files of the images that exist to `holds`; temporary and `gc.` volumes are
not seen, nor are stale dependency files.

## 3. What TLC checks

The runs of the first table use module `MCGroot`: base images busybox `<A, B>`, alpine `<A, C>`
(sharing the lowest layer) and scratch (no layers); ids foo, bar and foobar, of
which foo is a prefix of foobar; three processes with a choice of command lines each.

| Run | Checks | Setting |
|---|---|---|
| `pull` | `TypeOK`, `VolumesComplete`, `LayersStay`, `BuilderOwnsName`, `WaitsDescend`; `AllEnd` under `FairSpec` | creates of both base images into an empty store, one of which may clean first, and a clean, a delete or a third create; 1 failure or death anywhere |
| `recovery` | `CreatedImageIntact`, `ImagesWhole`, `IInv`, `InUseVolumesKept`, `LeftoversReclaimed`, `CacheImplemented` | a store with an image; its delete, creates of another id, up to two of them the same, with and without a clean, and cleans or a delete of that id; 2 failures or deaths, but no failure of a clean's search and marking |

About 350,000 and 850,000 distinct states. Two base images with one shared and one
private layer give every case of layer contention (wait for the top, for a shared
parent, for both); three commands are needed for a builder, one that waits, and one
that finds the volume or cleans; one failure reaches every error path, and two a
failure of the clean-up that follows a failure. `recovery` leaves out failures of the
cleaner under its lock, for which `LeftoversReclaimed` does not hold (their errors
are logged and swallowed); `pull` has them. The processes are not symmetric, since
their command lines differ, so no symmetry is used.

Fairness: weak fairness of `Step(p)` for each process, that is, a process that
can move does move, and a waiter is woken when its lock is free. The operating
system's scheduler and `flock` give this. Processes are finitely many and each
takes finitely many steps, so a lock that becomes free again and again is free
for good in the end, and weak fairness is enough. Failures and crashes are never
owed. `Finished` is the system at rest, so deadlock checking stays on: the only
states without another step are those in which every command has ended.

The runs of `MCStoreManager` have two mappings, two ids, and sizes below, at and
above the least size of a backing file:

| Run | Checks | Setting |
|---|---|---|
| `store_life` | `StoreTypeOK`, `UsableStore`, `StoreIsBtrfs`, `MappingsMatch`, `MountedFileWhole`, `InitStoreWorks` | sized and unsized set-ups one at a time, with the same or another mapping, creates beside them, a removal, 2 failures or reboots |
| `store_setup` | `LiveStoreKept` | three set-ups, or two and a removal, and a create, all at once, 1 reboot |
| `store_removal` | `DeletedStoreStaysGone` | two removals and a create at once on a store set up before, 1 failure |

They reach every disjunct, in about 260,000, 3,800,000 and 150,000 states. Two set-ups
are needed for one to find what another left, a third for two to overlap while a
store is in use; two faults cover a set-up that is cut short after a reboot. In
`store_setup` the overlap is the question, and a command that waits for ever does to the
others what one that fails or dies would do; the theorem has every failure. These
are safety properties, and no fairness is assumed.

The run `fetch` of `MCLayerSource` checks `FetchTypeOK`, `VerifiedOnly`,
`RetriesSuffice`, `LeftFiles` and, under `FairSpec`, `PullEnds`: two layers, one of
them not compressed, images of schema 1 and 2, with and without checksums, the code's
three attempts and up to four failures or wrong answers, in about 530,000 states. Two
layers are what it takes for a failing parent to abandon a download; the fourth
failure comes after a request has failed for good. Fairness is of the main thread and
of each goroutine: the runtime schedules both, and a request ends with an answer or
an error.

The run `unpack` of `MCUnpacker` checks `UnpackTypeOK`, `WorksMapped`,
`QuietAfterReturn`, `LayerAsMeant`, `ImageMade` and, under `FairUnpackSpec`,
`ProcessesEnd`, in about 65,000 states: twelve images of two layers, unpacked by root and
by a user, without mappings, with those `init-store` makes of one or two lines of
`/etc/subuid`, with one map only, and with a range that starts elsewhere; then the image,
and a collection or destruction of the volume; 2 failures or kills of groot or any
child. Two layers are what whiteouts need; nine of the images hold a layer that is
not regular or not mapped (a marker after what it hides, a path or a marker through a link,
a change of kind, an id outside the mappings, a base directory that is not there, with
entries and without, an opaque directory that is hidden already, a hard link whose target
is only below the base directory). `Regular` says of a layer that its meaning does not
depend on such accidents: directories come before what is in them, markers before what
they do not hide, a path is entered once and keeps its kind, no path leads through a
symbolic link. Four calls (`MaxCalls`) are
one for each layer, the image and the destruction. No path leads through more than two
links (`MaxLinks`). Two faults are needed to kill a child and then groot, or to fail a
call and then its clean-up. Fairness is of groot's command and of the two processes of
each call: the kernel schedules them all, and none waits for anything but another.

The run `session` of `MCSession` checks `SessionTypeOK`, `CreatedFromBase`,
`AskedOptions`, `FailedCreateCleansUp`, `DeleteDeletes`, `ReportedRight` and
`SizesKept`, in about 860,000 states: three commands out of fifteen command
lines, under three config files (one of them refused), two ids, two versions of the tar
file, a drax that works and one that lost its setuid bit, and one call that fails or
kills its command. Three commands are a create, what happens to its image or its volume
(a delete, a clean, another create), and a last one that meets what is left. These are
safety properties of one command after the other, and no fairness is assumed.

Four runs show where the code departs from what a test or a text of the repository
says of it:

* `same_id_lost`: two creates of one id pass the check; the loser's `Mkdir` fails,
  and its deferred clean-up destroys the image that the winner has reported
  (`image_cloner.go:80`).
* `clean_on_create`: two creates that clean first collect the same `gc.` volume;
  the second one's error fails its create (`gc.go:105`). The concurrency test
  expects all to succeed.
* `prefix_delete`: drax lists by path prefix, so deleting `foo` when it has nested
  subvolumes destroys the rootfs of `foobar` (`drax/lister/btrfs.go:85`).
* `reformatted`: after a reboot the backing file is there but not mounted; running
  `init-store` again formats it with `mkfs -f`, and the images in it are lost
  (`driver.go:53`).

Other behaviour worth knowing, which the models have but no run is devoted to:

* A failed unpacking destroys the volume named by the chain id, not the temporary one
  (`base_image_puller.go:272`); `recovery` shows that a later clean gets rid of it.
* `Collect` removes the size file of a volume pulled again since it was marked
  (`driver.go:243`); `SizesKept` says that nothing else takes one. A size file that
  `generate-volume-size-metadata` leaves torn counts as there ever after
  (`generate_metadata.go:47`).
* A removal of an image that fails or dies half way leaves a rootfs with files missing
  under its id (`driver.go:281`); `ImagesWhole` says that its command never ends well.
* An `init-store` that found no backing file empties the one that another has made,
  formatted and mounted meanwhile, and one with a smaller size cuts it short
  (`manager.go:213`); `LiveStoreKept` names these as the only cases, and `MountedFileWhole`
  says that `init-store`s one after the other do neither.
* The owner that an entry gives the root directory in a lower layer is taken back when
  the next layer's volume is made (`base_image_puller.go:246`); a user who is not root
  cannot do that for an id other than his own, and such an image fails there.
* An `init-store` that dies between creating and writing `namespace.json` leaves a file
  on which every later one fails (`store_namespacer.go:74`, the last case of
  `InitStoreWorks`); two overlapping `init-store`s with different mappings both succeed
  (`store_namespacer.go:37`).
* `delete-store` empties a store with a size and then fails on its mount point
  (`manager.go:198`).
* On a host with btrfs, an `init-store` with a size mounts its own file system over a
  store in the host's directory when that one was made after it had looked
  (the last case of `LiveStoreKept`).
* A failure to make a temporary file panics (`layer_source.go:106`).
* An image made without a mount whose rootfs directory has gone, because a delete was
  cut off there, can never be deleted (`driver.go:258`), and a create without a mount
  never succeeds with a limit (`driver.go:427`).
* `delete` takes any path below `images` for an image: `delete <id>/rootfs` removes
  the rootfs and leaves the image (`idfinder.go`).
* `clean` of a store that is not there counts a failed run and exits with 0
  (`clean.go:58`).
* Two lines of one user in `/etc/subuid` become ranges that overlap, and nothing can be
  unpacked by that user (`helpers.go:103`); for a range that starts elsewhere than at 1,
  or of one id, root and the kernel disagree on owners (`tar.go:351`, `tar.go:356`).
* When a child is killed the process it started goes on writing into the volume after
  the call has returned (`QuietAfterReturn` names this as the only case).
* Nobody waits for the child of a mapping that failed (`ns_id_mapper_unpacker.go:134`);
  in `filesystems/namespaced` its pipe stays open too, and the child until groot ends.

## 4. What is proved

**The commands.** For any sets of processes, ids, chain ids and base images, any command
lines, and any number of failures and crashes (theorems of `GrootProofs`): `Invariant`
(`Spec => []IInv`) and, from it, `TypesHold`, `VolumesAreComplete`,
`LayersDoStay`, `BuildersOwnNames`, `WaitsDoDescend`, `CreatedImagesIntact`,
`ImagesAreWhole` and the action property `InUseVolumesAreKept`.

The assumptions are those of `Store`: the shape of the constants, that equal chain
ids have equal stacks, that installed images are of pulled base images, that
temporary names differ from chain ids.

None of the properties is inductive. `IInv` adds what they rest on:

* `GlobalLockInv`: a process holds the global lock exactly during the steps meant
  for it. So no create is past its lock while a cleaner marks.
* `CommandInv`, `FrameInv`: a command takes only its own steps, a clean-up has an
  error behind it, and there is a layer wherever one is locked.
* `LayerLockInv`: all frames above `idx` hold their locks and their volumes do not
  exist; the frame at `idx` holds its own once past it; a process holds no other.
  Two builders of one layer would both hold its lock. This gives
  `BuilderOwnsName`, and, as equal chain ids are at equal height, `WaitsDescend`.
* `VolumeInv`: `VolumesComplete` and, per step, what the temporary volume holds and
  which volumes are there. It needs `LayerLockInv` (nobody else renames onto the
  name) and `GlobalLockInv` (nobody marks meanwhile).
* `MarkInv`: the cleaner's list is free of what every registered image it has dealt
  with depends on. Registrations need the shared lock, so they cannot happen while
  it reads; deletes can, and only remove images.
* `ImageInv`: how far a create with an id of its own has come with its image. That
  the top volume then stays in the cache uses `MarkInv`.

`GrootStepProofs` proves what steps keep of the types, locks and volumes, `GrootProofs`
the rest and the theorems. Each lemma about a step first sets aside the actions that
leave its part alone, then has one case for each of the others. `ImagesWhole` says two
things of a rootfs that is there. That it was taken from a whole base image
(`RootfsOfBase`) is not part of `IInv`, and rests on `VolumesComplete`. That somebody is to
blame for the files it has lost is `TornInv`, a part of `ImageInv`: `RemoveAll` takes them
in the hands of a command that has begun to remove the image, and that command can only
come to the end of it, go on to an error, or die (`UnfinishedKept`).

`LeftoversAreReclaimed` is the action property `LeftoversReclaimed`, for `FaultPoints` without
the steps under the exclusive lock, as in `recovery` (with them it is false). `TempInv`: a
temporary volume belongs to a create past its lock, becomes a `gc.` volume only when that
create is over, and never has both names, so that the rename does take it away.
`LeftoverInv`: while the cleaner works, whatever has no chain id for a name is on its list,
as registering and deleting images are out of the way.

**The refinement.** `CommandsImplementCache` in `GrootCacheProofs`: `Spec => CacheImplemented`,
that is, `Groot` implements `VolumeCache`, for the same constants and failures. It uses
`IInv` and two more invariants: `ParentsStay` (the parent of a volume under construction
is in the cache, as the builder holds the shared lock and only a holder of the exclusive
one marks), so that the rename is a step `Add`; and `DepsWhole` (a dependency file, a
stale one too, lists a whole base image), so that what appears with an image is a `Hold`.
`MarkInv` makes each marked volume an `Evict`: nobody holds it. A destruction by drax may
take several rootfs at once, which is `Lose`; what `RemoveAll` takes from a rootfs that is
there is a `Tear`; all other steps leave what is seen alone.

**The store's life.** `StoreManagerProofs` proves of `StoreManager`, for any processes,
command lines, mappings, sizes and any number of failures and reboots:

* `StoreTypesHold` (`StoreTypeOK`).
* `StoresAreBtrfs` (`StoreIsBtrfs`), whichever operations overlap. It rests on
  `MountInv`: where the host is not btrfs, an `init-store` past its validation finds
  the backing file mounted (a reboot ends the process along with the mount), so it
  makes no folder in the directory underneath.
* `StoresAreUsable` (`UsableStore`), for `init-store`s that do not overlap. It rests
  on `OwnSteps` (a process takes the steps of its own command) and `SetupInv`: while
  one `init-store` runs alone, what it has seen of the namespace file stays so, its
  open file is in the tree on top, and `images`, the first folder it makes, is not
  there before a mapping has been written.
* `DeletedStoresStayGone` (`DeletedStoreStaysGone`), for `delete-store`s and creates that
  overlap at will. It rests on `GoneInv`: once one has ended well, nothing is mounted and
  there is no path, and `NothingWithoutPath`: what a create or another `delete-store` does
  then finds no directory to work in.
* `MappingsAgree` (`MappingsMatch`) and `InitStoresWork` (`InitStoreWorks`), where the
  commands are `Orderly`: `init-store`s do not overlap and a `delete-store` runs by itself,
  with creates beside each other and beside a set-up. Where set-ups overlap both are false.
  They rest on `LifeInv`: either tree carries one mapping (`Carries`), and for each
  command, how far it has got tells what it may still rely on (`InitAsSeen`,
  `CreateAsSeen`, `DeleteAsSeen`); a create's mapping is that of the tree on top until it
  ends, as a mount comes only where no folder has been made.
* `LiveStoresAreKept` (`LiveStoreKept`), whichever operations overlap, from `MountInv`: an
  `init-store` past its validation does not format what is mounted, and only the two
  steps that do not look at the mount can damage its file.
* `MountedFilesAreWhole` (`MountedFileWhole`), where the commands are `Orderly`. `FileInv`,
  that what is mounted is formatted, is part of `LifeInv`: an `init-store` comes to the
  backing file only past a validation that found nothing mounted, and nobody mounts while
  it is there (`InitAsSeen`).

**A pull.** `LayerSourceProofs` proves of `LayerSource`, for any number of layers, attempts
and failures and any base images: `FetchTypesHold` (`FetchTypeOK`), `OnlyVerified`
(`VerifiedOnly`), `FilesLeft` (`LeftFiles`) and `RetriesDoSuffice` (`RetriesSuffice`).
The first three follow from `FetchInv`, which adds
`DownloadInv` (a download has sent exactly when it has ended, and which steps and
errors have a file), `CheckInv` (what has passed a check is what the check was for;
diff ids do not change any more once downloads start) and `FrameInv` (no download
before the frames go down, all settled below the frame on the way up). Without
`FrameInv` nothing says that a finished pull has taken every stream it started. The
last one adds `DiffInv` (every download finds a diff id to compare with) and `RetryInv`:
as long as nothing but requests has failed, every counter of attempts is covered by the
failures so far, whatever was downloaded is good, and so the only error a download can
send is that of a request repeated as often as it may be.

**Unpacking.** `UnpackerProofs` proves of `Unpacker`, for any images, mappings and
failures: `UnpackTypesHold` (`UnpackTypeOK`, with the bound on calls), `WorkIsMapped`
(`WorksMapped`), `QuietWhenReturned` (`QuietAfterReturn`), `LayersAsMeant`
(`LayerAsMeant`) and `ImagesAreMade` (`ImageMade`). The first three hold whatever `unpack`
makes of an entry. Their invariant `UInv` has `MapsInOrder` (groot sets one map after the
other), `NotBegun` (nothing has happened in calls to come) and, for every call begun,
`CallOK`: the byte comes after all maps; the child passes the pipe only after the byte,
and the process inside starts only after that; a process inside that works has a child
that waits for it or was killed; and groot returns only when the child has ended, or
before the byte, after which the child can only read the end of the pipe.

That a layer is unpacked to what it means has four parts.

* *One entry* (`TarUnpackerProofs`). `Tree` is what a volume's files always are: every path
  is in a directory, names of one file agree, a directory has one name. Each operation of
  `tar.go` leaves a `Tree` whatever the entry is (`UnpackStays`). `Follows` says that the
  files after `n` entries are those of the layer's meaning after `n` entries: the paths of
  `Origin`, with what the entry of each path says, or the untouched file of the layers
  below (`Agrees`), every path having been entered once (`Once`). `EntryFollows` takes a
  regular entry from `n` to `n + 1`, and shows that it does not fail; so no induction over
  the layer is needed, the steps of the process are one.
* *The owners*. `Translated`: where the mappings are usual, an id is in one range at most,
  and `translateID`, with its `id - 1` and its search by size, gives the host id that the
  kernel gives; `OwnersKnown` has it for an entry, by root and in a namespace.
* *The volume*. The chown of a new volume leaves a `Tree` with the same files
  (`OwnedTree`), so the layer is unpacked above `below`, the parent's files in a directory
  of root's.
* *The processes*. `ResultsMean`: groot reports success only when the process inside got
  to the end, and calls before this one have all ended so; then no process of another
  call works on the volume (`OthersIdle`). `TreesMade`: files have come in the order of
  layers and entries, so that a new one is new. `MeantSoFar`: the volume is the one
  below until the process begins, and follows the layer up to `pos` while it works. When
  groot is killed the stream ends early and the process inside reports success for half a
  layer; nobody is left to believe it.

`ImagesAreMade` adds `Unharmed` (while nothing has failed of itself the child waits with
its pipe open until the maps are set, and fails only after its process has), `LayerWell`
and `ImageWell` (a regular layer does not fail, and its volume is only refused to a user
whose root directory an entry has given to another id; an image whose root directory is
root's is made and is root's), and `RootIsOwner` on `parseOwner`. It has one hypothesis:
newuidmap and newgidmap accept a mapping of the store that the kernel would accept, which for a user
is a matter of `/etc/subuid`. In the run they are the kernel (`Accepts <- KernelAccepts`).
The assumptions are `NamespaceAssumption` and `ImageAssumption`, which give commands,
layers and mappings the shape that the program's have; a whiteout names something.

**A session.** `SessionProofs` proves of `Session`, for any config files, base images,
quotas, versions of the tar file, number of commands, failures and kills:
`SessionTypes` (`SessionTypeOK`), `ImagesComeFromBase` (`CreatedFromBase`),
`OptionsAreKept` (`AskedOptions`), `FailedCreatesCleanUp` (`FailedCreateCleansUp`),
`DeleteWorks` (`DeleteDeletes`), `ReportsAreRight` (`ReportedRight`) and `SizesAreKept`
(`SizesKept`). `SessionAssumption` asks that the command lines and config files have the
shape of the program's options. The invariants:

* `StepInv`: a command takes the steps of its own, under the configuration that the file
  and its line make.
* `VolumeInv`: a volume named by the path and a time of the tar file holds the file as
  it was then or later (`RightContent`), and the chain id that a create works with is that
  of its base image at some time since it began (`ChainFits`). The file is looked at before
  it is opened, so a replacement in between gives a newer content under an older name, which
  a later create by that name never finds, as times do not go back.
* `ImagesInv`, `MadeInv`: the shape of images, and how much of what was asked for an
  image has after each call of its create. `AskedOptions` also needs that a config is
  built as the flags say, which `CreateTakesOptions` and `BeforeKeepsOptions` show setter by
  setter.
* `DeleteInv`, `CleanUpInv`: when nothing of the command has failed, every call finds what
  the one before left, and so the image that it began with (`BegunInv`) is gone, or none
  was left over.
* `OutcomeInv`, `ReportInv`: exit codes and counters; a delete drops the dependency file only
  when the image has gone.
* `SizeInv`: a create that unpacks does it for a chain id that has no volume, so its
  `DestroyVolume` after a failure and its torn size file take no volume's size; and a size
  has been written whole before the rename, over whatever was there.

**Only model-checked.** Liveness under fairness is out of the prover's reach: `AllEnd`,
`PullEnds`, `ProcessesEnd`. Every safety property of the passing runs has a theorem. What
the four violating runs show is about the code, and TLC's alone.

## 5. What is left out

* Containers that make subvolumes during a run of `Groot`; images may have them from the
  start there, and get them between commands in `Session`.
* `Stat` failing for another reason than absence in `volumeExists` and in the last
  look of `Destroy`, which the code takes for absence.
* Which files a removal that was cut off has taken: `torn` and `PartContent` say that some
  have gone.
* In `Groot`: images made without a mount (`Session` has them) and the measuring of the
  store after `Create` and `Clean`, an error of which changes the exit code only
  (`Session` has it as `Usage`).
* In `StoreManager`: owners and permissions (`findStoreOwner`, `chown`, `chmod`); the
  text of the mappings, so two writers never leave a mixture of two files; the text
  of mount options. That `mkfs` refuses a mounted file and that one file is not
  mounted twice on one directory is assumed of the external tools. The `Stat`s of
  `IsStoreInitialized` are one step.
* In `LayerSource`: connections, sizes, and the process being killed, which leaves
  the temporary files that are there. The store's failures are `BaseImagePuller`'s.
* In `Unpacker`: modes of files; names that contain `.wh.` elsewhere than at the start of
  their last part; `HandleOpaqueWhiteouts`, which does nothing here, since nothing fills its list; that a
  garbage collection may close the pipe of a mapping that failed before groot ends.
* In `Session`: concurrency (that is `Groot`), base images of several layers, log levels.
* Durations and sizes in `metrics`, which nothing reads; the wording of messages; the
  parsing of btrfs's output in drax, but for the comparison of prefixes; the fakes made
  for tests.

## 6. Plan

Done: the commands on one store with their inductive invariant and its proof (`Groot`);
`VolumeCache` and the proof that `Groot` implements it; the store's set-up and removal
(`StoreManager`); the pull (`LayerSource`); mappings, layers and user namespaces
(`IDMapping`, `TarUnpacker`, `UserNamespace`, `Unpacker`); configuration, both layouts of an
image and the tar fetcher (`Config`, `ImageDriver`, `TarFetcher`, `Session`).

All of them have their types and safety properties proved.

Left, in this order:

1. What `Regular` leaves out, where the code still has one meaning: a path entered twice, or
   with another kind than below.
2. Abstract specifications for `StoreManager` (a store is there or not, with one mapping) and
   for `LayerSource` (every layer's stream is handed over once, or the pull fails), and the
   proofs that they are implemented.
