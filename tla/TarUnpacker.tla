---------------------------- MODULE TarUnpacker ----------------------------
(***************************************************************************)
(* unpacker/tar.go: what the entries of a layer's tar file do to the tree  *)
(* of files in its volume.  A tree maps the paths that exist, sequences of *)
(* names with the root << >>, to nodes; names of one file, made by hard    *)
(* links, share its ino.  Every operation gives the tree it leaves and     *)
(* whether it succeeded.                                                   *)
(***************************************************************************)
EXTENDS IDMapping, SequencesExt

CONSTANT MaxLinks        \* symbolic links followed in one path

ASSUME LinksAssumption == MaxLinks \in Nat

EntryTypes == {"reg", "dir", "symlink", "link", "whiteout", "opaque", "device"}

\* The content of a file and the target of a link are both data.  A whiteout
\* names something.
Entries ==
    {e \in [name : Seq(STRING), type : EntryTypes, data : Seq(STRING), uid : Nat, gid : Nat] :
        e.type = "whiteout" => e.name # << >>}

Node(kind, ino, data, owner, mtime) ==
    [kind |-> kind, ino |-> ino, data |-> data, owner |-> owner, mtime |-> mtime]

\* A new volume: its root directory belongs to who made it.
EmptyTree(owner) == [p \in {<< >>} |-> Node("dir", <<0, 0>>, << >>, owner, "now")]

Done(t) == [ok |-> TRUE, tree |-> t]
Failed(t) == [ok |-> FALSE, tree |-> t]

(* Path resolution, which the kernel does inside the chroot. *)

IsDir(t, p) == p \in DOMAIN t /\ t[p].kind = "dir"

\* Replace the first symbolic link on the way to p by what it points to.
Expand(t, p) ==
    LET links == {k \in 1..Len(p) : /\ SubSeq(p, 1, k) \in DOMAIN t
                                    /\ t[SubSeq(p, 1, k)].kind = "symlink"}
    IN  IF links = {} THEN p
        ELSE t[SubSeq(p, 1, Min(links))].data \o SubSeq(p, Min(links) + 1, Len(p))

Resolve(t, p) ==
    LET Followed[n \in 0..MaxLinks] == IF n = 0 THEN p ELSE Expand(t, Followed[n - 1])
    IN  Followed[MaxLinks]

\* What stat finds: a link that is left means that there were too many.
Found(t, q) == q \in DOMAIN t /\ t[q].kind # "symlink"

\* As Resolve, but a link in the last place is not followed.
Place(t, p) == IF p = << >> THEN p ELSE Resolve(t, Front(p)) \o <<Last(p)>>

Below(t, p) == {q \in DOMAIN t : Len(q) > Len(p) /\ SubSeq(q, 1, Len(p)) = p}

Without(t, gone) == [p \in DOMAIN t \ gone |-> t[p]]

\* The parent of what is made or removed gets a new time.
Stamp(t, p) == IF p = << >> THEN t ELSE [t EXCEPT ![Front(p)].mtime = "now"]

Make(t, p, node) == [q \in DOMAIN t \cup {p} |-> IF q = p THEN node ELSE Stamp(t, p)[q]]

\* A change of the file at p, seen under all its names.
Change(t, p, node) == [q \in DOMAIN t |-> IF t[q].ino = t[p].ino THEN node ELSE t[q]]

(* The operations of the unpacker. *)

\* chown (an id the namespace does not map is an error), then chmod, then
\* changeModTime: the last, so that the time stays the tar file's.
setAttributes(t, p, owners) ==
    IF owners = {} THEN Failed(t)
    ELSE Done(Change(t, p, [t[p] EXCEPT !.owner = CHOOSE o \in owners : TRUE,
                                        !.mtime = "tar"]))

cleanWhiteoutDir(t, p) ==
    LET q == Resolve(t, p)
    IN  IF IsDir(t, q) THEN Done(Without(t, Below(t, q))) ELSE Failed(t)

\* RemoveAll: nothing to remove is no error.
removeWhiteout(t, p) ==
    LET q == Place(t, p)
    IN  IF q \in DOMAIN t THEN Done(Without(Stamp(t, q), Below(t, q) \cup {q})) ELSE Done(t)

\* Stat follows links, and whatever it finds is taken for the directory.
createDirectory(t, p, ino, owners) ==
    LET q == Resolve(t, p)
        r == Place(t, p)
    IN  IF Found(t, q) THEN setAttributes(t, q, owners)
        ELSE IF r \in DOMAIN t \/ ~IsDir(t, Front(r)) THEN Failed(t)
        ELSE setAttributes(Make(t, r, Node("dir", ino, << >>, <<0, 0>>, "now")), r, owners)

\* What is at the path is removed, unless it is a directory with entries or
\* the root.
createSymlink(t, p, ino, target, owners) ==
    LET q == Place(t, p)
    IN  IF q = << >> \/ Below(t, q) # {} \/ ~IsDir(t, Front(q)) THEN Failed(t)
        ELSE setAttributes(
                Make(Without(t, {q}), q, Node("symlink", ino, target, <<0, 0>>, "now")), q, owners)

\* The target is looked up as it stands in the tar file; an existing name is
\* an error.
createLink(t, p, target) ==
    LET q == Place(t, p)
        from == Place(t, target)
    IN  IF from \notin DOMAIN t \/ IsDir(t, from) \/ q \in DOMAIN t \/ ~IsDir(t, Front(q))
          THEN Failed(t)
          ELSE Done(Make(t, q, t[from]))

\* An existing file is emptied and written in place, under all its names and
\* through links; a directory cannot be, nor what has too many links.
createRegularFile(t, p, ino, data, owners) ==
    LET q == Resolve(t, p)
    IN  IF (q \in DOMAIN t /\ t[q].kind # "file") \/ ~IsDir(t, Front(q)) THEN Failed(t)
        ELSE IF q \in DOMAIN t
          THEN setAttributes(Change(t, q, [t[q] EXCEPT !.data = data]), q, owners)
          ELSE setAttributes(Make(t, q, Node("file", ino, data, <<0, 0>>, "now")), q, owners)

\* Block and character devices are ignored.
handleEntry(t, p, ino, e, owners) ==
    CASE e.type = "device"  -> Done(t)
      [] e.type = "link"    -> createLink(t, p, e.data)
      [] e.type = "symlink" -> createSymlink(t, p, ino, e.data, owners)
      [] e.type = "dir"     -> createDirectory(t, p, ino, owners)
      [] e.type = "reg"     -> createRegularFile(t, p, ino, e.data, owners)

\* One turn of unpack's loop.  The marker of an opaque directory and the
\* whiteouts of single files come before the types.
unpack(t, base, ino, e, owners) ==
    CASE e.type = "opaque"   -> cleanWhiteoutDir(t, base \o e.name)
      [] e.type = "whiteout" -> removeWhiteout(t, base \o e.name)
      [] OTHER               -> handleEntry(t, base \o e.name, ino, e, owners)

\* Every directory down to the base directory of a layer has to be in the
\* volume already, which is a snapshot of the parent's.
ensureBaseDirectoryExists(t, base) ==
    \A k \in 1..Len(base) : Found(t, Resolve(t, SubSeq(base, 1, k)))
-----------------------------------------------------------------------------
(***************************************************************************)
(* What an image's layers mean: an upper layer's entries replace the lower *)
(* ones of the same path, a whiteout hides a lower path and what is below  *)
(* it, an opaque directory hides all of its lower entries.  A tree is      *)
(* described by the kind, data, owner and time at each path.               *)
(***************************************************************************)
Creates(e) == e.type \in {"reg", "dir", "symlink", "link"}

Full(layer, k) == layer.base \o layer.entries[k].name

\* The first n entries hide a path of the layers below.
Hides(layer, n, p) ==
    \E k \in 1..n :
        \/ layer.entries[k].type = "whiteout" /\ IsPrefix(Full(layer, k), p)
        \/ layer.entries[k].type = "opaque" /\ IsStrictPrefix(Full(layer, k), p)

\* The entries for a path among the first n.
Made(layer, n, p) == {k \in 1..n : Creates(layer.entries[k]) /\ Full(layer, k) = p}

\* The paths there are after n entries, and where each comes from: the number
\* of its entry, or 0 for the layers below, whose paths are given.
Origin(paths, layer, n) ==
    LET made == {p \in {Full(layer, k) : k \in 1..n} : Made(layer, n, p) # {}}
    IN  [p \in made \cup {p \in paths : ~Hides(layer, n, p)} |->
            IF p \in made THEN Max(Made(layer, n, p)) ELSE 0]

\* A hard link is the file that the last entry of its target's path made.
Source(layer, k) ==
    LET e == layer.entries[k]
    IN  IF e.type = "link" THEN Max(Made(layer, k - 1, e.data)) ELSE k

KindOf(e) == IF e.type \in {"reg", "link"} THEN "file" ELSE e.type

\* The time of a directory changes with every entry made in it.
Described(kind, data, owner, mtime) ==
    [kind |-> kind, data |-> data, owner |-> owner,
     mtime |-> IF kind = "dir" THEN "any" ELSE mtime]

Describe(t) == [p \in DOMAIN t |-> Described(t[p].kind, t[p].data, t[p].owner, t[p].mtime)]

\* The owners are what the ids of the entries stand for on the host.
Entered(layer, k, owners) ==
    LET s == Source(layer, k)
        e == layer.entries[s]
    IN  Described(KindOf(e), IF e.type = "dir" THEN << >> ELSE e.data, owners[s], "tar")

\* The tree after n entries of the layer, lower describing the layers below.
Overlay(lower, layer, n, owners) ==
    LET from == Origin(DOMAIN lower, layer, n)
    IN  [p \in DOMAIN from |->
            IF from[p] = 0 THEN lower[p] ELSE Entered(layer, from[p], owners)]

(***************************************************************************)
(* The layers for which that meaning is meant: directories come before     *)
(* what is in them, markers before what they do not hide, a path is        *)
(* entered once and never with another kind than the lower layers gave it, *)
(* no path leads through a symbolic link, no file with several names is    *)
(* written to, and a hard link names a file of the same layer.             *)
(***************************************************************************)
RegularEntry(t, layer, k) ==
    LET e == layer.entries[k]
        p == Full(layer, k)
        from == Origin(DOMAIN t, layer, k - 1)
        earlier == {q \in DOMAIN from : from[q] # 0}
        Kind(q) == IF from[q] = 0 THEN t[q].kind ELSE KindOf(layer.entries[from[q]])
        Directory(q) == q \in DOMAIN from /\ Kind(q) = "dir"
        above == {SubSeq(p, 1, n) : n \in 0..(Len(p) - 1)}
    IN  /\ e.type = "whiteout" =>
             /\ \A q \in above \cap DOMAIN from : Kind(q) # "symlink"
             /\ \A q \in earlier : ~IsPrefix(p, q)
        /\ e.type = "opaque" =>
             /\ \A q \in above \cup {p} : Directory(q)
             /\ \A q \in earlier : ~IsStrictPrefix(p, q)
        /\ Creates(e) =>
             /\ \A q \in above : Directory(q)
             /\ p \notin earlier /\ (p = << >> => e.type = "dir")
             /\ p \in DOMAIN from => e.type # "link" /\ Kind(p) = KindOf(e)
             /\ p \in DOMAIN from /\ e.type = "reg" =>
                  \A q \in DOMAIN from \ {p} : from[q] = 0 => t[q].ino # t[p].ino
             /\ e.type = "link" =>
                  e.data \in earlier /\ layer.entries[from[e.data]].type = "reg"

Regular(t, layer) ==
    /\ \A n \in 0..Len(layer.base) : IsDir(t, SubSeq(layer.base, 1, n))
    /\ \A k \in 1..Len(layer.entries) : RegularEntry(t, layer, k)
=============================================================================
