------------------------------ MODULE Unpacker ------------------------------
(***************************************************************************)
(* The layers of a base image unpacked one above the other, by root or     *)
(* through a user namespace, and the volume destroyed: UserNamespace says  *)
(* which process may work when, TarUnpacker what its work does.  The       *)
(* volume of a layer starts as a snapshot of the one below, given to the   *)
(* id that root is mapped to.                                              *)
(***************************************************************************)
EXTENDS UserNamespace, TarUnpacker

CONSTANT User   \* the ids <<uid, gid>> of the user who is not root

ASSUME ImageAssumption ==
    /\ Layers \subseteq [base : Seq(STRING), entries : Seq(Entries)]
    /\ Mappings \subseteq Seq(IDMappingSpec)
    /\ User \in Nat \X Nat

VARIABLES
    below,      \* the files the layer is unpacked above
    tree,       \* the files of the volume
    pos,        \* the entries unpacked so far of the current layer
    owner       \* the owner of the image's rootfs, << >> before it is made

treeVars == <<below, tree, pos, owner>>
unpackVars == <<cmd, parent, calls, result, processVars, faults, treeVars>>

\* An UnpackSpec names the layer's base directory and its entries.
Layer(k) == cmd.image[k]

Caller == IF cmd.root THEN <<0, 0>> ELSE User

UnpackInit ==
    /\ NamespaceInit
    /\ below = EmptyTree(Caller) /\ tree = EmptyTree(Caller)
    /\ pos = 0 /\ owner = << >>

\* The owner of volumes and images: root of the store's mappings.
Owner == <<parseOwner(Caller[1], cmd.uidMappings), parseOwner(Caller[2], cmd.gidMappings)>>

\* Only root or the owner of a volume may take a snapshot of it, and only root
\* may give that to somebody else.  Nothing is given to 0.
MayOwn == cmd.root \/ (tree[<< >>].owner[1] = Caller[1] /\ Owner \in {Caller, <<0, 0>>})

NewOwner == IF Owner = <<0, 0>> THEN tree[<< >>].owner ELSE Owner

Owned == [tree EXCEPT ![<< >>] = [@ EXCEPT !.owner = NewOwner]]

\* createTemporaryVolumeDirectory: an empty volume or a snapshot of the parent's,
\* and its owner, whatever owner an entry for the root directory gave the parent's.
CreateVolume ==
    /\ parent = "volume"
    /\ IF MayOwn
         THEN tree' = Owned /\ below' = Owned /\ parent' = "ready" /\ UNCHANGED result
         ELSE Returns("refused") /\ UNCHANGED <<tree, below>>
    /\ UNCHANGED <<cmd, calls, processVars, faults, pos, owner>>

\* The call begins, after a look for the base directory of the layer.
BaseDirectoryFound == calls[Now] = "unpack" => ensureBaseDirectoryExists(tree, Layer(Now).base)

Begin == BaseDirectoryFound /\ (RunInner \/ StartChild) /\ UNCHANGED treeVars

BaseDirectoryMissing ==
    /\ parent = "ready"
    /\ ~BaseDirectoryFound
    /\ Returns("refused")
    /\ UNCHANGED <<cmd, calls, processVars, faults, treeVars>>

\* What destroying does: the clean-up after a failed unpack names the layer's
\* chain id, under which there is no volume yet.
Destroyed(op, t) == IF op = "cleanup" THEN Failed(t) ELSE Done(EmptyTree(Caller))

\* The driver called without a namespace.
DestroyDirectly ==
    /\ parent = "ready"
    /\ calls[Now] \notin {"unpack", "image"} /\ ~ViaChild(calls[Now])
    /\ LET d == Destroyed(calls[Now], tree)
       IN  tree' = d.tree /\ Returns(IF d.ok THEN "ok" ELSE "error")
    /\ UNCHANGED <<cmd, calls, processVars, faults, below, pos, owner>>

\* CreateImage: a snapshot too, which gets its owner after a chmod.
MakeImage ==
    /\ parent = "ready" /\ calls[Now] = "image"
    /\ IF MayOwn THEN owner' = NewOwner /\ Returns("ok") ELSE Returns("error") /\ UNCHANGED owner
    /\ UNCHANGED <<cmd, calls, processVars, faults, below, tree, pos>>

InnerState(k, s) == inner' = [inner EXCEPT ![k] = s]

\* Executed after the maps were set the process is root where 0 is mapped; any
\* other cannot chroot.
Privileged(k) == cmd.root \/ ("uid" \in maps[k] /\ KernelIDs(0, cmd.uidMappings) # {})

EnterRoot(k) ==
    /\ inner[k] = "begin" /\ calls[k] = "unpack"
    /\ pos' = 0
    /\ InnerState(k, IF Privileged(k) THEN "work" ELSE "failed")
    /\ UNCHANGED <<cmd, parent, calls, result, child, writer, byte, maps, faults, below, tree,
                   owner>>

\* The owner that chown gives on the host, as a set with at most one element:
\* root translates the ids, in a namespace the kernel does.
OwnersSet(k, e) ==
    IF cmd.root
      THEN {<<translateID(e.uid, cmd.uidMappings), translateID(e.gid, cmd.gidMappings)>>}
      ELSE KernelIDs(e.uid, IF "uid" \in maps[k] THEN cmd.uidMappings ELSE << >>)
           \X KernelIDs(e.gid, IF "gid" \in maps[k] THEN cmd.gidMappings ELSE << >>)

Unpacked(k) ==
    LET e == Layer(k).entries[pos + 1]
    IN  unpack(tree, Layer(k).base, <<k, pos + 1>>, e, OwnersSet(k, e))

UnpackEntry(k) ==
    /\ inner[k] = "work"
    /\ pos < Len(Layer(k).entries)
    /\ tree' = Unpacked(k).tree
    /\ pos' = pos + 1
    /\ InnerState(k, IF Unpacked(k).ok THEN "work" ELSE "failed")
    /\ UNCHANGED <<cmd, parent, calls, result, child, writer, byte, maps, faults, below, owner>>

\* The end of the stream, which may come early when groot has been killed.
EndOfStream(k) ==
    /\ inner[k] = "work"
    /\ pos = Len(Layer(k).entries) \/ parent = "killed"
    /\ InnerState(k, "ok")
    /\ UNCHANGED <<cmd, parent, calls, result, child, writer, byte, maps, faults, treeVars>>

\* destroy-volume and destroy-image in the namespace.
DestroyInside(k) ==
    /\ inner[k] = "begin" /\ calls[k] # "unpack"
    /\ LET d == Destroyed(calls[k], tree)
       IN  tree' = d.tree /\ InnerState(k, IF d.ok THEN "ok" ELSE "failed")
    /\ UNCHANGED <<cmd, parent, calls, result, child, writer, byte, maps, faults, below, pos,
                   owner>>

InnerStep(k) == EnterRoot(k) \/ UnpackEntry(k) \/ EndOfStream(k) \/ DestroyInside(k)

\* What has been unpacked is below the next layer.
GoToNextCall == NextCall /\ below' = tree /\ UNCHANGED <<tree, pos, owner>>

GoOn == MapUIDs \/ MapGIDs \/ Signal \/ Wait \/ InnerIsDone \/ NextCommand \/ Exit

CommandStep ==
    \/ CreateVolume \/ Begin \/ BaseDirectoryMissing \/ DestroyDirectly \/ MakeImage
    \/ GoToNextCall
    \/ GoOn /\ UNCHANGED treeVars

ProcessStep(k) == InnerStep(k) \/ (ChildStep(k) /\ UNCHANGED treeVars)

AllGone ==
    /\ parent \in {"exited", "killed"}
    /\ \A k \in CallNumbers : child[k] \notin Alive /\ inner[k] \notin Working

UnpackNext ==
    \/ CommandStep
    \/ \E k \in CallNumbers : ProcessStep(k)
    \/ NamespaceFault /\ UNCHANGED treeVars
    \/ AllGone /\ UNCHANGED unpackVars

UnpackSpec == UnpackInit /\ [][UnpackNext]_unpackVars

\* Every process is run again and again; failures are never owed.
FairUnpackSpec ==
    /\ UnpackSpec
    /\ WF_unpackVars(CommandStep)
    /\ \A k \in CallNumbers : WF_unpackVars(ProcessStep(k))
-----------------------------------------------------------------------------
UnpackTypeOK ==
    /\ cmd \in Commands
    /\ parent \in {"volume", "ready", "run", "mapUIDs", "mapGIDs", "signal", "wait", "returned",
                   "exited", "killed"}
    /\ calls \in Seq({"unpack", "cleanup", "image", "collect", "destroy-image"})
    /\ Len(calls) \in CallNumbers
    /\ result \in {"none", "ok", "error", "refused"}
    /\ child \in [CallNumbers -> Alive \cup {"none", "ok", "failed", "killed"}]
    /\ inner \in [CallNumbers -> Working \cup {"none", "ok", "failed"}]
    /\ writer \in [CallNumbers -> BOOLEAN]
    /\ byte \in [CallNumbers -> BOOLEAN]
    /\ maps \in [CallNumbers -> SUBSET {"uid", "gid"}]
    /\ faults \in 0..MaxFaults
    /\ pos \in Nat

(***************************************************************************)
(* No process touches the volume before the maps its call sets are in      *)
(* place: the files would belong to nobody, or to the user alone.  Neither *)
(* a mapping that fails half way nor a groot that dies between two of them *)
(* lets the child go on.                                                   *)
(***************************************************************************)
WorksMapped ==
    \A k \in 1..Len(calls) :
        inner[k] \in Working /\ ViaChild(calls[k]) => maps[k] = Wanted(calls[k])

\* A process of call k works, or will without anything more from groot.
Pending(k) ==
    inner[k] \in Working \/ child[k] = "exec" \/ (child[k] = "read" /\ byte[k])

(***************************************************************************)
(* Once a call has returned, with whatever result, no process it started   *)
(* works on the volume any more or will do so: groot gives its locks back  *)
(* and destroys volumes relying on it.  Only when groot or the child       *)
(* itself is killed does the process below go on.                          *)
(***************************************************************************)
QuietAfterReturn ==
    \A k \in 1..Len(calls) :
        (k < Len(calls) \/ parent \in {"returned", "exited"}) /\ Pending(k)
            => child[k] = "killed"

\* The ids outside that an id of an image means: root without mappings takes
\* it as it is.
HostIDs(id, mappings) == IF cmd.root /\ mappings = << >> THEN {id} ELSE KernelIDs(id, mappings)

EntryOwner(e) == <<CHOOSE u \in HostIDs(e.uid, cmd.uidMappings) : TRUE,
                   CHOOSE g \in HostIDs(e.gid, cmd.gidMappings) : TRUE>>

EntryOwners(layer) == [k \in 1..Len(layer.entries) |-> EntryOwner(layer.entries[k])]

\* Root alone at 0 and every range from 1 on, as readSubIDMapping has it.
UsualMappings(mappings) ==
    /\ mappings # << >> => KernelAccepts(mappings)
    /\ \A k \in 1..Len(mappings) :
         mappings[k].NamespaceID = IF mappings[k].Size = 1 THEN 0 ELSE 1

\* The mappings are usual ones, and have every id that the layer's files and
\* directories belong to.
LayerMapped(layer) ==
    /\ UsualMappings(cmd.uidMappings) /\ UsualMappings(cmd.gidMappings)
    /\ \A k \in 1..Len(layer.entries) :
         LET e == layer.entries[k]
         IN  Creates(e) /\ e.type # "link" =>
                 /\ HostIDs(e.uid, cmd.uidMappings) # {}
                 /\ HostIDs(e.gid, cmd.gidMappings) # {}

(***************************************************************************)
(* A call that reports success has unpacked the layer as the image means   *)
(* it: what entries, whiteouts and opaque directories make of the files    *)
(* the volume started with, with owners that are the same whether root     *)
(* translated the ids or the kernel did, and nothing lost when a process   *)
(* of the chain failed.  Of the parent's files the volume has all but one  *)
(* owner: its root directory is root's again, whatever an entry for it in  *)
(* a lower layer said, until this layer has an entry for it.               *)
(***************************************************************************)
LayerAsMeant ==
    /\ parent = "returned" /\ result = "ok" /\ calls[Now] = "unpack"
    /\ Regular(below, Layer(Now)) /\ LayerMapped(Layer(Now))
    => Describe(tree) = Overlay(Describe(below), Layer(Now), Len(Layer(Now).entries),
                                EntryOwners(Layer(Now)))

\* What an image can be made with: root is mapped, for a user to himself.
Usable(mappings, own) ==
    /\ UsualMappings(mappings)
    /\ IF cmd.root THEN HostIDs(0, mappings) # {} ELSE HostIDs(0, mappings) = {own}

\* The root directory of the volume is root's in the image, or was left as
\* root made it.
RootsOwn(id, mappings) == id \in HostIDs(0, mappings) \/ (cmd.root /\ id = 0)

(***************************************************************************)
(* Nothing but a failure, a mapping that is not usual, a layer that is not *)
(* regular, or a root directory that is not the user's own keeps an image  *)
(* from being made: every layer is unpacked, by root whatever a lower      *)
(* layer did to the root directory, by a user if it is still his, and a    *)
(* rootfs whose root directory is root's in the image belongs to the id    *)
(* that root is mapped to.                                                 *)
(***************************************************************************)
ImageMade ==
    /\ parent = "returned" /\ faults = 0
    /\ Usable(cmd.uidMappings, Caller[1]) /\ Usable(cmd.gidMappings, Caller[2])
    => /\ /\ calls[Now] = "unpack"
          /\ cmd.root \/ below[<< >>].owner[1] = Caller[1]
          /\ Regular(below, Layer(Now)) /\ LayerMapped(Layer(Now))
          => result = "ok"
       /\ /\ calls[Now] = "image"
          /\ RootsOwn(tree[<< >>].owner[1], cmd.uidMappings)
          /\ RootsOwn(tree[<< >>].owner[2], cmd.gidMappings)
          => /\ result = "ok"
             /\ owner[1] \in HostIDs(0, cmd.uidMappings)
             /\ owner[2] \in HostIDs(0, cmd.gidMappings)

(***************************************************************************)
(* Every process comes to an end: no child waits for ever on a pipe nobody *)
(* writes to, and groot does not wait for a child that waits for it.       *)
(***************************************************************************)
ProcessesEnd == <>AllGone
=============================================================================
