---------------------------- MODULE ImageDriver ----------------------------
(***************************************************************************)
(* The image half of filesystems/btrfs/driver.go, and the setuid program   *)
(* drax it calls.  An image's directory has a rootfs, which is a subvolume *)
(* or, for an image made without a mount, an empty directory beside the    *)
(* subvolume snapshot.  Containers may make further subvolumes inside.     *)
(***************************************************************************)
EXTENDS Integers

\* An image directory.  With no content there is no subvolume; limit 0 is no
\* limit.
Image(dir, rootfs, snapshot, content) ==
    [dir |-> dir, rootfs |-> rootfs, snapshot |-> snapshot, content |-> content,
     nested |-> FALSE, limit |-> 0, exclusive |-> FALSE]

NoContent == 0
PartContent == -2   \* some files of the base image are gone
NoImage == Image(FALSE, "none", FALSE, NoContent)
MadeDir == Image(TRUE, "none", FALSE, NoContent)

\* CreateImage, up to the limit.
SnapshotRootfs(content) == Image(TRUE, "subvolume", FALSE, content)
MadeRootfs == Image(TRUE, "plain", FALSE, NoContent)
SnapshotBeside(content) == Image(TRUE, "plain", TRUE, content)

\* runDrax: drax has to be found, and to be setuid unless root calls it.
DraxRuns(drax, draxBin, root) == draxBin \in DOMAIN drax /\ (drax[draxBin].suid \/ root)

\* drax limit and drax stats want a subvolume at <image>/rootfs.
LimitApplies(image) == image.rootfs = "subvolume"
StatsApply(image) == image.rootfs = "subvolume"

\* argsForLimit: the limit is on what is shared and exclusive, or, with -e, on
\* what is exclusive.
Limited(image, limit, exclusive) == [image EXCEPT !.limit = limit, !.exclusive = exclusive]

\* DestroyImage takes away the empty rootfs first, which has to be there.
RootfsDirGoes(image) == image.snapshot => image.rootfs = "plain"
WithoutRootfsDir(image) == IF image.snapshot THEN [image EXCEPT !.rootfs = "none"] ELSE image

\* drax destroy: the limit goes with its quota group.
WithoutLimit(image) == [image EXCEPT !.limit = 0, !.exclusive = FALSE]

\* destroyBtrfsVolume of what the container saw.  A subvolume with others
\* inside cannot be deleted: then all that drax list finds are, innermost
\* first, if drax runs.
HasSubvolume(image) == image.snapshot \/ image.rootfs = "subvolume"
WithoutSubvolumes(image) ==
    [WithoutLimit(image) EXCEPT
        !.snapshot = FALSE, !.nested = FALSE, !.content = NoContent,
        !.rootfs = IF @ = "subvolume" THEN "none" ELSE @]

\* What destroyBtrfsVolume leaves when it fails or is cut off: the limit goes
\* first, and the subvolumes inside before the one around them.
SubvolumeKept(image, draxRuns) ==
    {image} \cup (IF draxRuns
                    THEN {WithoutLimit(image), [WithoutLimit(image) EXCEPT !.nested = FALSE]}
                    ELSE {})

\* What os.RemoveAll leaves then: it takes the files of a subvolume one by one.
PartsOf(image) ==
    {[image EXCEPT !.content = PartContent, !.nested = n] : n \in {FALSE, image.nested}}

RootfsPartlyRemoved(image) ==
    {image} \cup (IF image.rootfs = "subvolume" THEN PartsOf(image) ELSE {})

PartlyRemoved(image) ==
    {image}
    \cup (IF image.dir THEN {MadeDir, WithoutRootfsDir(image), WithoutSubvolumes(image)} ELSE {})
    \cup (IF HasSubvolume(image)
            THEN PartsOf(image) \cup PartsOf(WithoutRootfsDir(image)) ELSE {})
=============================================================================
