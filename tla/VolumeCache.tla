----------------------------- MODULE VolumeCache -----------------------------
(***************************************************************************)
(* What the store promises, whoever works on it: a cache of volumes that   *)
(* are complete and never change while they can be seen, from which images *)
(* are taken whole, and which keeps what images hold.  There are no        *)
(* processes, locks, temporary volumes or failures here; Groot is shown to *)
(* implement this.                                                         *)
(***************************************************************************)
EXTENDS Integers, Sequences

CONSTANTS
    ImageIDs,   \* ids of images
    Stacks      \* sequences of chain ids, lowest first: what base images are

VARIABLES
    cache,      \* the volumes that can be seen, see Volume
    rootfs,     \* [ImageIDs -> the chain ids under the image's rootfs]
    torn,       \* ids whose rootfs has lost files, for good
    holds       \* [ImageIDs -> the chain ids the image is registered for]

cacheVars == <<cache, rootfs, torn, holds>>

\* The first n chain ids of a stack, and the volume they are.
Lower(s, n) == {s[k] : k \in 1..n}
Volume(s, n) == [id |-> s[n], content |-> Lower(s, n)]
Whole(s) == Lower(s, Len(s))

CacheInit ==
    \E pulled \in SUBSET Stacks :
        /\ cache = UNION {{Volume(s, n) : n \in 1..Len(s)} : s \in pulled}
        /\ rootfs \in [ImageIDs -> {{}} \cup {Whole(s) : s \in pulled}]
        /\ torn = {}
        /\ holds = rootfs

\* A layer is added above one that is there.
Add(s, n) ==
    /\ n > 1 => Volume(s, n - 1) \in cache
    /\ cache' = cache \cup {Volume(s, n)}
    /\ UNCHANGED <<rootfs, torn, holds>>

\* Only what no image holds is taken.
Evict(v) ==
    /\ \A i \in ImageIDs : v.id \notin holds[i]
    /\ cache' = cache \ {v}
    /\ UNCHANGED <<rootfs, torn, holds>>

\* A rootfs is the whole of a base image that is there at that moment.
Snapshot(i, s) ==
    /\ rootfs[i] = {} /\ s # << >>
    /\ Volume(s, Len(s)) \in cache
    /\ rootfs' = [rootfs EXCEPT ![i] = Whole(s)]
    /\ UNCHANGED <<cache, torn, holds>>

\* An image holds one base image at a time.
Hold(i, s) ==
    /\ holds' = [holds EXCEPT ![i] = Whole(s)]
    /\ UNCHANGED <<cache, rootfs, torn>>

\* The files of a rootfs go one by one; what has lost some is not made whole
\* again.
Tear(i) ==
    /\ rootfs[i] # {}
    /\ torn' = torn \cup {i}
    /\ UNCHANGED <<cache, rootfs, holds>>

\* Several can lose their rootfs at once.
Lose(gone) ==
    /\ rootfs' = [i \in ImageIDs |-> IF i \in gone THEN {} ELSE rootfs[i]]
    /\ torn' = torn \ gone
    /\ UNCHANGED <<cache, holds>>

Release(i) ==
    /\ holds' = [holds EXCEPT ![i] = {}]
    /\ UNCHANGED <<cache, rootfs, torn>>

Remove(i) ==
    /\ rootfs' = [rootfs EXCEPT ![i] = {}]
    /\ torn' = torn \ {i}
    /\ holds' = [holds EXCEPT ![i] = {}]
    /\ UNCHANGED cache

CacheNext ==
    \/ \E s \in Stacks : \E n \in 1..Len(s) : Add(s, n)
    \/ \E v \in cache : Evict(v)
    \/ \E i \in ImageIDs, s \in Stacks : Snapshot(i, s) \/ Hold(i, s)
    \/ \E gone \in SUBSET ImageIDs : Lose(gone)
    \/ \E i \in ImageIDs : Tear(i) \/ Release(i) \/ Remove(i)

CacheSpec == CacheInit /\ [][CacheNext]_cacheVars
=============================================================================
