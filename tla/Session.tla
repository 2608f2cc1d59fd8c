------------------------------- MODULE Session -------------------------------
(***************************************************************************)
(* A user's session with the tool: commands one after the other on one     *)
(* store, with a config file, flags, and base images that are a tar file   *)
(* (rewritten now and then) or come from a registry.  How concurrent       *)
(* commands share the store is the subject of Groot; here a command goes   *)
(* from the command line to its exit code and its counters, and the        *)
(* content, the layout and the limit of an image are those it was given.   *)
(***************************************************************************)
EXTENDS Config, TarFetcher, ImageDriver, Sequences, Functions

CONSTANTS
    ConfigFiles,   \* config files the session may have
    CommandLines,  \* commands the user gives: [op, id, arg, base, flags]
    ImageIDs,      \* ids of images
    StorePath,     \* where a store has been initialised
    Drax,          \* [paths of drax binaries -> [suid : BOOLEAN]]
    Root,          \* is the user root?
    Registry,      \* host of a registry with a certificate nobody knows
    BaseSize,      \* size of the base image it has, by its manifest
    MaxCommands,   \* commands in a session
    MaxWrites,     \* versions of the tar file
    MaxFaults      \* calls that fail, and kills, in a session

Operations == {"create", "clean", "delete", "stats", "list", "generate"}

\* A flag that is given has a value of its type; an empty list cannot be given.
IsCommandLine(c) ==
    /\ c.op \in Operations /\ c.id \in ImageIDs
    /\ c.arg \in {"image", "rootfs"} /\ c.base \in {"tar", "registry"}
    /\ \A name \in DOMAIN c.flags \cap {"limit", "threshold"} : c.flags[name] \in Int
    /\ \A name \in DOMAIN c.flags \cap {"exclude", "skipValidation"} :
          c.flags[name] \in BOOLEAN
    /\ IsSet(c.flags, "registries") =>
          c.flags["registries"] \in (SUBSET STRING) \ {{}}

ASSUME SessionAssumption ==
    /\ ConfigFiles \subseteq Config
    /\ CommandLines # {} /\ \A c \in CommandLines : IsCommandLine(c)
    /\ MaxCommands \in Nat /\ MaxWrites \in Nat \ {0} /\ MaxFaults \in Nat
    /\ BaseSize \in Nat \cup {-1}   \* -1: the manifest does not tell

VARIABLES
    tar,       \* the tar file: [kind, mtime, content]
    volumes,   \* [names in volumes/ -> content], the gc. ones left out
    gc,        \* names whose gc.<name> is in volumes/
    metas,     \* [names with a size file -> "whole" or "torn"]
    images,    \* [ImageIDs -> image directory]
    deps,      \* [ids with a dependency file -> chain id]
    file,      \* the config file
    cmd,       \* the command that runs or ran last
    cfg,       \* what it works with
    pc,        \* the call it makes next
    caller,    \* who called DestroyImage: "clone", "register", "delete" or none yet
    chain,     \* the chain id of the base image
    opened,    \* content of the tar file when it was opened
    exit,      \* exit code
    counted,   \* run counter: "success", "fail" or "none"
    begun,     \* tar file and image when the command began
    blamed,    \* calls of this command that failed
    commands, faults

diskVars == <<tar, volumes, gc, metas, images, deps>>
localVars == <<file, cmd, cfg, caller, chain, opened, begun, blamed, commands, faults>>
vars == <<diskVars, localVars, pc, exit, counted>>

TarPath == "base.tar"
RegistryChain == <<Registry, 0>>
RegistryContent == -1
NoChain == << >>

\* <chain id>-incomplete-<time>-<random>: one for each command.
Temp == <<chain[1], chain[2], commands>>

\* f with v at x, whether it had something there or not.
Put(f, x, v) == [y \in DOMAIN f \cup {x} |-> IF y = x THEN v ELSE f[y]]

image == images[cmd.id]
SetImage(i) == images' = [images EXCEPT ![cmd.id] = i]
Running == pc \notin {"exited", "killed"}
DraxAnswers == DraxRuns(Drax, cfg.draxBin, Root)

\* Another call, or the end with this exit code and counter.
Goto(step) == pc' = step /\ UNCHANGED <<exit, counted>>
Return(code, count) == pc' = "exited" /\ exit' = code /\ counted' = count

\* newExitError counts the run as failed, whatever the code.  list and
\* generate-volume-size-metadata return errors without it.
Counts(op) == op \notin {"list", "generate"}
Fail == Return(1, IF Counts(cmd.op) THEN "fail" ELSE "none")
Succeed == Return(0, IF Counts(cmd.op) THEN "success" ELSE "none")

\* What a call on the image leaves of it when it fails, or is killed, half way.
HalfDone ==
    CASE pc = "snapshot"     -> {image} \cup (IF cfg.withoutMount THEN {MadeRootfs} ELSE {})
      [] pc = "subvolume"    -> SubvolumeKept(image, DraxAnswers)
      [] pc = "removeDir"    -> PartlyRemoved(image)
      [] pc = "removeInside" -> RootfsPartlyRemoved(image)
      [] OTHER               -> {image}

\* The environment makes the next call fail.
Strike ==
    /\ faults < MaxFaults
    /\ faults' = faults + 1
    /\ blamed' = blamed \cup {pc}
    /\ UNCHANGED <<file, cmd, cfg, caller, chain, opened, begun, commands>>

\* A store with nothing in it, or with what a clean that was killed has marked.
Init ==
    /\ tar = [kind |-> "file", mtime |-> 1, content |-> 1]
    /\ gc \in SUBSET {BaseImageInfo(TarPath, tar)}
    /\ volumes = << >> /\ metas = [v \in gc |-> "whole"] /\ deps = << >>
    /\ images = [i \in ImageIDs |-> NoImage]
    /\ file \in ConfigFiles
    /\ cmd = CHOOSE c \in CommandLines : TRUE
    /\ cfg = file
    /\ pc = "exited" /\ caller = "none"
    /\ chain = NoChain /\ opened = NoContent
    /\ exit = 0 /\ counted = "none"
    /\ begun = [tar |-> tar, image |-> NoImage]
    /\ blamed = {} /\ commands = 0 /\ faults = 0

\* The process starts: main.go's Before, then the command's own options.
Start ==
    /\ ~Running
    /\ commands < MaxCommands
    /\ cmd' \in CommandLines
    /\ commands' = commands + 1
    /\ begun' = [tar |-> tar, image |-> images[cmd'.id]]
    /\ blamed' = {}
    /\ cfg' = CommandConfig(file, cmd'.op, cmd'.flags)
    /\ IF ~Valid(Before(file, cmd'.flags)) THEN Return(1, "none")
       ELSE IF ~Accepted(file, cmd'.op, cmd'.flags)
         THEN Return(1, IF Counts(cmd'.op) THEN "fail" ELSE "none")
       ELSE Goto(cmd'.op)
    /\ caller' = "none" /\ chain' = NoChain /\ opened' = NoContent
    /\ UNCHANGED <<diskVars, file, faults>>

HasStore == cfg.store = StorePath
-----------------------------------------------------------------------------
(* create *)

\* createFetcher and what it says of the base image.  A registry with an
\* unknown certificate has to be among the insecure ones.
skipTLSValidation(host) == host \in cfg.registries
InfoFetched == IF cmd.base = "tar" THEN HasInfo(tar) ELSE skipTLSValidation(Registry)
ChainOf == IF cmd.base = "tar" THEN BaseImageInfo(TarPath, tar) ELSE RegistryChain
layersSize == IF cmd.base = "tar" THEN 0 ELSE BaseSize

\* Up to the locks: the store is there, the id is free, the base image is known.
CreateBegins ==
    /\ pc = "create"
    /\ chain' = ChainOf
    /\ IF HasStore /\ ~image.dir /\ InfoFetched
         THEN Goto(IF cfg.withClean THEN "threshold" ELSE "quota")
         ELSE Fail
    /\ UNCHANGED <<diskVars, file, cmd, cfg, caller, opened, begun, blamed, commands, faults>>

\* Pull: a layer whose volume is there is done.
quotaExceeded == ~cfg.exclude /\ cfg.limit # 0 /\ layersSize > cfg.limit
Quota ==
    /\ pc = "quota"
    /\ IF quotaExceeded THEN Fail
       ELSE Goto(IF chain \in DOMAIN volumes THEN "mkdir" ELSE "stream")
    /\ UNCHANGED <<diskVars, localVars>>

\* StreamBlob, then the temporary volume.
Stream ==
    /\ pc = "stream"
    /\ IF cmd.base = "tar" => CanStream(tar)
         THEN /\ opened' = IF cmd.base = "tar" THEN tar.content ELSE RegistryContent
              /\ volumes' = Put(volumes, Temp, NoContent)
              /\ Goto("unpack")
         ELSE Fail /\ UNCHANGED <<opened, volumes>>
    /\ UNCHANGED <<tar, gc, metas, images, deps, file, cmd, cfg, caller, chain, begun, blamed,
                   commands, faults>>

\* A file rewritten in place after it was opened is read as it is now.
Unpack ==
    /\ pc = "unpack"
    /\ \E c \in {opened, tar.content} :
        /\ c = opened \/ (cmd.base = "tar" /\ tar.kind = "file")
        /\ volumes' = [volumes EXCEPT ![Temp] = c]
    /\ Goto("meta")
    /\ UNCHANGED <<tar, gc, metas, images, deps, localVars>>

\* Mutant: a size file that is there is left alone.
WriteMissingMeta ==
    /\ pc = "meta"
    /\ metas' = IF chain \in DOMAIN metas THEN metas ELSE Put(metas, chain, "whole")
    /\ Goto("move")
    /\ UNCHANGED <<tar, volumes, gc, images, deps, localVars>>

\* VolumeMetaFilePath takes gc. off a name; for the others it is the name.
WriteMeta ==
    /\ pc = "meta"
    /\ metas' = Put(metas, chain, "whole")
    /\ Goto("move")
    /\ UNCHANGED <<tar, volumes, gc, images, deps, localVars>>

MoveVolume ==
    /\ pc = "move"
    /\ volumes' = [v \in (DOMAIN volumes \ {Temp}) \cup {chain} |->
                     IF v = chain THEN volumes[Temp] ELSE volumes[v]]
    /\ Goto("mkdir")
    /\ UNCHANGED <<tar, gc, metas, images, deps, localVars>>

\* The image directory; without a mount, also the empty rootfs.
MakeImageDir ==
    /\ pc = "mkdir"
    /\ SetImage(MadeDir)
    /\ Goto("snapshot")
    /\ UNCHANGED <<tar, volumes, gc, metas, deps, localVars>>

CreateImage ==
    /\ pc = "snapshot"
    /\ SetImage(IF cfg.withoutMount THEN SnapshotBeside(volumes[chain])
                                    ELSE SnapshotRootfs(volumes[chain]))
    /\ Goto("limit")
    /\ UNCHANGED <<tar, volumes, gc, metas, deps, localVars>>

\* The error of a failed Create in the image cloner.
CleanUp(who) == caller' = who /\ Goto("rootfsDir")

\* Mutant: the error is a shadow that the deferred clean-up does not see.
ApplyDiskLimitShadowed ==
    /\ pc = "limit"
    /\ IF cfg.limit = 0 THEN Goto("ownership") /\ UNCHANGED images
       ELSE IF DraxAnswers /\ LimitApplies(image)
         THEN SetImage(Limited(image, cfg.limit, cfg.exclude)) /\ Goto("ownership")
         ELSE Fail /\ UNCHANGED images
    /\ UNCHANGED <<tar, volumes, gc, metas, deps, localVars>>

\* applyDiskLimit: always on <image>/rootfs, so never without a mount.
ApplyDiskLimit ==
    /\ pc = "limit"
    /\ IF cfg.limit = 0 THEN Goto("ownership") /\ UNCHANGED <<images, caller>>
       ELSE IF DraxAnswers /\ LimitApplies(image)
         THEN /\ SetImage(Limited(image, cfg.limit, cfg.exclude))
              /\ Goto("ownership")
              /\ UNCHANGED caller
         ELSE CleanUp("clone") /\ UNCHANGED images
    /\ UNCHANGED <<tar, volumes, gc, metas, deps, file, cmd, cfg, chain, opened, begun, blamed,
                   commands, faults>>

SetOwnership ==
    /\ pc = "ownership"
    /\ Goto("register")
    /\ UNCHANGED <<diskVars, localVars>>

\* Mutant: the name of the temporary volume is registered.
RegisterTemp ==
    /\ pc = "register"
    /\ deps' = Put(deps, cmd.id, Temp)
    /\ Goto("usage")
    /\ UNCHANGED <<tar, volumes, gc, metas, images, localVars>>

Register ==
    /\ pc = "register"
    /\ deps' = Put(deps, cmd.id, chain)
    /\ Goto("usage")
    /\ UNCHANGED <<tar, volumes, gc, metas, images, localVars>>

\* The last call of create and of a clean: the usage of the store.
Usage ==
    /\ pc = "usage"
    /\ Succeed
    /\ UNCHANGED <<diskVars, localVars>>

\* A call of create fails.  After a failed Unpack DestroyVolume is called with
\* the chain id: there is no such volume yet, but its size file goes.  A size
\* file that could not be written may be torn.
CreateFails ==
    /\ Strike
    /\ pc \in {"create", "threshold", "quota", "stream", "unpack", "meta", "move", "ownership",
               "usage"}
    /\ \/ UNCHANGED metas
       \/ pc = "unpack" /\ metas' = Restrict(metas, DOMAIN metas \ {chain})
       \/ pc = "meta" /\ metas' = Put(metas, chain, "torn")
    /\ Fail
    /\ UNCHANGED <<tar, volumes, gc, images, deps>>

\* What the image cloner sees through its deferred function is cleaned up.
CloneFails ==
    /\ pc \in {"mkdir", "snapshot", "limit", "register"}
    /\ faults < MaxFaults /\ faults' = faults + 1 /\ blamed' = blamed \cup {pc}
    /\ \E i \in HalfDone : SetImage(i)
    /\ CleanUp(IF pc = "register" THEN "register" ELSE "clone")
    /\ UNCHANGED <<tar, volumes, gc, metas, deps, file, cmd, cfg, chain, opened, begun,
                   commands>>
-----------------------------------------------------------------------------
(* clean, and create with clean: the cleaner and the garbage collector *)

CleanBegins ==
    /\ pc = "clean"
    /\ IF HasStore THEN Goto("threshold") ELSE Return(0, "fail")
    /\ UNCHANGED <<diskVars, localVars>>

AfterClean == IF cmd.op = "create" THEN Goto("quota") ELSE Goto("usage")

\* A store may be used less than a positive threshold.
Threshold ==
    /\ pc = "threshold"
    /\ \/ Goto("mark")
       \/ /\ cfg.threshold > 0
          /\ IF cmd.op = "create" THEN Goto("quota") ELSE Return(0, "none")
    /\ UNCHANGED <<diskVars, localVars>>

\* UnusedVolumes gives up at an image without a dependency file.
Holders == {i \in ImageIDs : images[i].dir}
Used == {deps[i] : i \in Holders} \cup (IF cmd.op = "create" THEN {chain} ELSE {})
UnusedVolumes == IF Holders \subseteq DOMAIN deps THEN DOMAIN volumes \ Used ELSE {}

\* MarkUnused.  A name whose gc.<name> is there stays.  Errors are logged.
Mark(done) ==
    /\ volumes' = Restrict(volumes, DOMAIN volumes \ (done \ gc))
    /\ gc' = gc \cup done

MarkUnused ==
    /\ pc = "mark"
    /\ Mark(UnusedVolumes)
    /\ Goto("collect")
    /\ UNCHANGED <<tar, metas, images, deps, localVars>>

\* collectVolumes.  DestroyVolume removes the size file of the name without
\* gc. before the volume.
Collect ==
    /\ pc = "collect"
    /\ metas' = Restrict(metas, DOMAIN metas \ gc)
    /\ gc' = {}
    /\ AfterClean
    /\ UNCHANGED <<tar, volumes, images, deps, localVars>>

\* Some of it fails: the rest is done, and only Collect returns the error.
CleanFails ==
    /\ Strike
    /\ \/ /\ pc = "mark"
          /\ \E done \in SUBSET UnusedVolumes : Mark(done)
          /\ Goto("collect")
          /\ UNCHANGED metas
       \/ /\ pc = "collect"
          /\ metas' = Restrict(metas, DOMAIN metas \ gc)
          /\ gc' \in SUBSET gc \ {{}}
          /\ Fail
          /\ UNCHANGED volumes
    /\ UNCHANGED <<tar, images, deps>>
-----------------------------------------------------------------------------
(* delete, and the destruction of images *)

\* idfinder.FindID, which finds whatever exists under images/: the image, or
\* a path inside it.
FindID ==
    /\ HasStore
    /\ \/ cmd.arg = "image" /\ image.dir
       \/ cmd.arg = "rootfs" /\ image.rootfs # "none"

\* Nothing to delete is no error.  For a path inside an image DestroyImage
\* finds no subvolume under it and removes what is there.
DeleteBegins ==
    /\ pc = "delete"
    /\ caller' = "delete"
    /\ IF FindID THEN Goto(IF cmd.arg = "image" THEN "rootfsDir" ELSE "removeInside")
       ELSE Return(0, "none")
    /\ UNCHANGED <<diskVars, file, cmd, cfg, chain, opened, begun, blamed, commands, faults>>

RemoveInside ==
    /\ pc = "removeInside"
    /\ SetImage([(IF image.rootfs = "subvolume" THEN WithoutSubvolumes(image) ELSE image)
                    EXCEPT !.rootfs = "none"])
    /\ Succeed
    /\ UNCHANGED <<tar, volumes, gc, metas, deps, localVars>>

\* Where DestroyImage returns to when it gives up before RemoveAll: only the
\* clean-up of the image cloner goes on to remove the directory.
GiveUp == IF caller = "clone" THEN Goto("removeDir") ELSE Fail

RemoveRootfsDir ==
    /\ pc = "rootfsDir"
    /\ IF RootfsDirGoes(image)
         THEN SetImage(WithoutRootfsDir(image)) /\ Goto("subvolume")
         ELSE GiveUp /\ UNCHANGED images
    /\ UNCHANGED <<tar, volumes, gc, metas, deps, localVars>>

\* Mutant: no second try after "Directory not empty".
DestroySubvolumeOnce ==
    /\ pc = "subvolume"
    /\ IF image.nested
         THEN GiveUp /\ UNCHANGED images
         ELSE SetImage(WithoutSubvolumes(image)) /\ Goto("removeDir")
    /\ UNCHANGED <<tar, volumes, gc, metas, deps, localVars>>

\* Subvolumes inside are an error that drax list helps out of; any other is
\* kept until RemoveAll is done.
listSubvolumes == DraxAnswers

DestroySubvolume ==
    /\ pc = "subvolume"
    /\ IF image.nested /\ ~listSubvolumes
         THEN GiveUp /\ UNCHANGED images
         ELSE SetImage(WithoutSubvolumes(image)) /\ Goto("removeDir")
    /\ UNCHANGED <<tar, volumes, gc, metas, deps, localVars>>

\* Mutant: Destroy takes DestroyImage's word for it.
DestroyUnchecked(gone) == IF caller = "delete" THEN Goto("deregister") ELSE Fail

AfterRemoval(gone) ==
    IF caller = "delete" /\ gone THEN Goto("deregister") ELSE Fail

RemoveDir ==
    /\ pc = "removeDir"
    /\ SetImage(NoImage)
    /\ AfterRemoval(TRUE)
    /\ UNCHANGED <<tar, volumes, gc, metas, deps, localVars>>

\* Deregister, for which a missing file will do.
Deregister ==
    /\ pc = "deregister"
    /\ deps' = Restrict(deps, DOMAIN deps \ {cmd.id})
    /\ Succeed
    /\ UNCHANGED <<tar, volumes, gc, metas, images, localVars>>

\* A failure of one of these calls.
DestroyFails ==
    /\ Strike
    /\ \/ pc = "rootfsDir" /\ image.snapshot /\ GiveUp
       \/ pc = "subvolume" /\ (GiveUp \/ Goto("removeDir"))
       \/ pc = "removeDir" /\ AfterRemoval(FALSE)
       \/ pc \in {"deregister", "removeInside"} /\ Fail
    /\ \E i \in HalfDone : SetImage(i)
    /\ UNCHANGED <<tar, volumes, gc, metas, deps>>
-----------------------------------------------------------------------------
(* stats, list and generate-volume-size-metadata *)

\* drax is asked for <path>/rootfs, which only an image has.
FetchStats == DraxAnswers /\ StatsApply(image)
StatsFetched == cmd.arg = "image" /\ image.dir /\ FetchStats

Stats ==
    /\ pc = "stats"
    /\ IF FindID /\ StatsFetched THEN Succeed ELSE Fail
    /\ UNCHANGED <<diskVars, localVars>>

List ==
    /\ pc = "list"
    /\ IF HasStore THEN Succeed ELSE Fail
    /\ UNCHANGED <<diskVars, localVars>>

\* Every volume, gc. or not, whose size file is missing gets one.  A torn file
\* is not missing.
Unsized == (DOMAIN volumes \cup gc) \ DOMAIN metas
WithSizes(names) ==
    [v \in names \cup DOMAIN metas |-> IF v \in names THEN "whole" ELSE metas[v]]

Generate ==
    /\ pc = "generate"
    /\ IF HasStore THEN metas' = WithSizes(Unsized) /\ Succeed ELSE Fail /\ UNCHANGED metas
    /\ UNCHANGED <<tar, volumes, gc, images, deps, localVars>>

\* It stops part of the way: some have one, and the last one may be torn.
GenerateSome ==
    /\ pc = "generate" /\ HasStore
    /\ \E names \in SUBSET Unsized :
        \/ metas' = WithSizes(names)
        \/ \E v \in Unsized \ names : metas' = Put(WithSizes(names), v, "torn")

QueryFails ==
    /\ Strike
    /\ pc \in {"stats", "list", "generate"}
    /\ UNCHANGED metas \/ GenerateSome
    /\ Fail
    /\ UNCHANGED <<tar, volumes, gc, images, deps>>
-----------------------------------------------------------------------------
(* The environment *)

\* The process is killed between two calls, or while it writes a size file, or
\* part of the way through a loop or a removal.
Kill ==
    /\ Running
    /\ Strike
    /\ \E i \in HalfDone : SetImage(i)
    /\ \/ UNCHANGED <<volumes, gc, metas>>
       \/ pc = "meta" /\ metas' = Put(metas, chain, "torn") /\ UNCHANGED <<volumes, gc>>
       \/ pc = "mark" /\ (\E done \in SUBSET UnusedVolumes : Mark(done)) /\ UNCHANGED metas
       \/ /\ pc = "collect"
          /\ \E done \in SUBSET gc :
                metas' = Restrict(metas, DOMAIN metas \ done) /\ gc' = gc \ done
          /\ UNCHANGED volumes
       \/ GenerateSome /\ UNCHANGED <<volumes, gc>>
    /\ pc' = "killed"
    /\ UNCHANGED <<tar, deps, exit, counted>>

\* Somebody replaces the tar file.  Its time moves on.
ReplaceTar ==
    /\ tar.mtime < MaxWrites
    /\ tar' \in [kind : {"file", "dir", "none"}, mtime : {tar.mtime + 1},
                  content : {tar.mtime + 1}]
    /\ UNCHANGED <<volumes, gc, metas, images, deps, localVars, pc, exit, counted>>

\* A container makes a subvolume in its file system.  (While a command runs on
\* another image it might as well have done so before.)
Nest ==
    /\ ~Running
    /\ \E i \in ImageIDs :
        /\ HasSubvolume(images[i]) /\ ~images[i].nested
        /\ images' = [images EXCEPT ![i].nested = TRUE]
    /\ UNCHANGED <<tar, volumes, gc, metas, deps, localVars, pc, exit, counted>>

Create ==
    \/ CreateBegins \/ Quota \/ Stream \/ Unpack \/ WriteMeta \/ MoveVolume \/ MakeImageDir
    \/ CreateImage \/ ApplyDiskLimit \/ SetOwnership \/ Register \/ Usage
Clean == CleanBegins \/ Threshold \/ MarkUnused \/ Collect
Delete ==
    \/ DeleteBegins \/ RemoveInside \/ RemoveRootfsDir \/ DestroySubvolume \/ RemoveDir
    \/ Deregister
Query == Stats \/ List \/ Generate
Failure == CreateFails \/ CloneFails \/ CleanFails \/ DestroyFails \/ QueryFails \/ Kill

Finished == ~Running /\ commands = MaxCommands /\ UNCHANGED vars

Next ==
    \/ Start \/ Create \/ Clean \/ Delete \/ Query
    \/ Failure \/ ReplaceTar \/ Nest \/ Finished

SessionSpec == Init /\ [][Next]_vars
-----------------------------------------------------------------------------
(* Properties *)

Done(op, code) == pc = "exited" /\ commands > 0 /\ cmd.op = op /\ exit = code

Names == ({TarPath} \X (1..MaxWrites)) \cup {RegistryChain}
TempNames == {<<c[1], c[2], n>> : c \in Names, n \in 1..MaxCommands}

\* Every variable has its type: volumes are finished or temporary ones, and
\* dependency files name finished ones.
SessionTypeOK ==
    /\ tar \in [kind : {"file", "dir", "none"}, mtime : 1..MaxWrites, content : 1..MaxWrites]
    /\ DOMAIN volumes \cup gc \cup DOMAIN metas \subseteq Names \cup TempNames
    /\ DOMAIN deps \subseteq ImageIDs
    /\ \A i \in DOMAIN deps : deps[i] \in Names
    /\ \A i \in ImageIDs : images[i].rootfs \in {"none", "plain", "subvolume"}
    /\ exit \in {0, 1} /\ counted \in {"none", "success", "fail"}
    /\ commands \in 0..MaxCommands /\ faults \in 0..MaxFaults

(***************************************************************************)
(* An image that create reports holds its base image, and its dependency   *)
(* file names a volume with that content.  A tar file that was not         *)
(* replaced meanwhile is the one that is there now, however often it was   *)
(* replaced before and whatever the cache was left with.                   *)
(***************************************************************************)
CreatedFromBase ==
    Done("create", 0) =>
        /\ cmd.id \in DOMAIN deps
        /\ deps[cmd.id] \in DOMAIN volumes
        /\ image.content = volumes[deps[cmd.id]]
        /\ cmd.base = "registry" => image.content = RegistryContent
        /\ cmd.base = "tar" /\ begun.tar = tar => image.content = tar.content

Asked(name) == IF IsSet(cmd.flags, name) THEN cmd.flags[name] ELSE file[name]

(***************************************************************************)
(* The image has the limit and the layout its user asked for, by the flags *)
(* or else by the config file; it is no larger than an inclusive limit,    *)
(* as far as the manifest tells, and comes from an insecure registry only  *)
(* if that was listed.                                                     *)
(***************************************************************************)
AskedOptions ==
    Done("create", 0) =>
        /\ image.limit = Asked("limit")
        /\ image.limit # 0 => image.exclusive = Asked("exclude")
        /\ image.snapshot <=> IsSet(cmd.flags, "without-mount")
                                \/ (file.withoutMount /\ ~IsSet(cmd.flags, "with-mount"))
        /\ cmd.base = "registry" =>
            /\ Registry \in Asked("registries")
            /\ Asked("limit") = 0 \/ Asked("exclude") \/ BaseSize <= Asked("limit")

(***************************************************************************)
(* A create that fails leaves images as they were: the one of that id if   *)
(* there was one, none otherwise.  Left out are a failed chown and a       *)
(* failed measurement, after which the image stays, and a clean-up that    *)
(* meets a failure of its own.                                             *)
(***************************************************************************)
FailedCreateCleansUp ==
    /\ Done("create", 1)
    /\ blamed \cap {"ownership", "usage", "rootfsDir", "subvolume", "removeDir"} = {}
    => [image EXCEPT !.nested = FALSE] = [begun.image EXCEPT !.nested = FALSE]

(***************************************************************************)
(* Delete of an image works whenever no call fails: the image goes with    *)
(* its dependency file, mounted or not and whatever a container left       *)
(* inside.  Left out are the image that an earlier delete has taken the    *)
(* rootfs directory from (no delete removes it again) and the one with     *)
(* subvolumes inside where drax cannot run.                                *)
(***************************************************************************)
DeleteDeletes ==
    /\ pc = "exited" /\ commands > 0 /\ cmd.op = "delete" /\ cmd.arg = "image"
    /\ Valid(file) /\ HasStore /\ blamed = {} /\ begun.image.dir
    /\ RootfsDirGoes(begun.image)
    /\ begun.image.nested => DraxAnswers
    => exit = 0 /\ image = NoImage /\ cmd.id \notin DOMAIN deps

(***************************************************************************)
(* What the exit code and the counters tell is what happened.  Delete of   *)
(* an image reports success only if no directory of that id is left,       *)
(* although it drops the errors of DestroyImage; a run counted as failed   *)
(* has exit code 1, but for the clean of a store that is not there; and    *)
(* no run counted as success has another.                                  *)
(***************************************************************************)
ReportedRight ==
    pc = "exited" /\ commands > 0 =>
        /\ cmd.op = "delete" /\ cmd.arg = "image" /\ exit = 0 /\ HasStore => ~image.dir
        /\ counted = "fail" => exit = 1 \/ (cmd.op = "clean" /\ ~HasStore)
        /\ counted = "success" => exit = 0

Sized(v) == v \in DOMAIN metas /\ metas[v] = "whole"

(***************************************************************************)
(* No volume gets its final name without a size that can be read, whatever *)
(* a create that failed or was killed has left at its size file, and none  *)
(* loses it later.  Left out is the collector, which takes the size file   *)
(* of a volume that was pulled again while a marked one of its chain id    *)
(* was still there.                                                        *)
(***************************************************************************)
SizesKept ==
    [][\A v \in DOMAIN volumes' \cap Names :
        \/ Sized(v)'
        \/ v \in DOMAIN volumes /\ ~Sized(v)
        \/ pc = "collect" /\ v \in gc]_vars
=============================================================================
