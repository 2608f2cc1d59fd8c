--------------------------- MODULE GrootRefinement ---------------------------
(***************************************************************************)
(* Groot implements VolumeCache.                                           *)
(***************************************************************************)
EXTENDS GrootInvariant

\* What an outsider sees of the store: finished volumes with their content,
\* and what the images that are there list in a dependency file.
CacheSeen == {[id |-> c, content |-> content[c]] : c \in volumes \cap ChainIDs}
HoldsSeen == [i \in ImageIDs |-> IF i \in images \cap depFiles THEN deps[i] ELSE {}]
StacksSeen == {Layers[b] : b \in BaseImages}

Cache == INSTANCE VolumeCache
            WITH Stacks <- StacksSeen, cache <- CacheSeen, holds <- HoldsSeen

(***************************************************************************)
(* The commands implement the abstract cache: to everybody else a build    *)
(* with its locks and temporary volumes is one step that adds a complete   *)
(* volume above its parent's, marking is one step that takes a volume      *)
(* nobody holds, and an image appears whole and loses its files only while *)
(* it is being removed, never to be whole again.                           *)
(***************************************************************************)
CacheImplemented == Cache!CacheSpec

(***************************************************************************)
(* What the refinement needs beside IInv: the parent of a volume that is   *)
(* being built stays, and what a dependency file lists, a stale one too,   *)
(* is the whole of some base image.                                        *)
(***************************************************************************)
ParentsStay ==
    \A p \in Procs : pc[p] \in {"unpack", "writeMeta", "moveVolume"} => ParentExists(p)

DepsWhole == \A i \in ImageIDs : deps[i] = {} \/ \E b \in BaseImages : deps[i] = ChainSet(b)
=============================================================================
