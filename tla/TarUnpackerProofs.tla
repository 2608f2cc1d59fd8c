------------------------- MODULE TarUnpackerProofs --------------------------
(***************************************************************************)
(* What unpack makes of a layer, for every tree of files and every layer.  *)
(* An operation always leaves a tree; where the layer is regular it does   *)
(* what the entry means, and the files that have come of the entries so    *)
(* far are those of the layer's meaning, entry by entry.                   *)
(***************************************************************************)
EXTENDS TarUnpacker, TLAPS, WellFoundedInduction, SequenceTheorems

\* Numbers and paths.

\* Numbers have a least one.
LEMMA Least ==
    ASSUME NEW S \in SUBSET Nat, S # {}
    PROVE  \E x \in S : \A y \in S : x <= y
<1>1. \E x \in S : \A y \in S : <<y, x>> \notin OpToRel(<, Nat)
  BY WFMin, NatLessThanWellFounded
<1>2. PICK x \in S : \A y \in S : <<y, x>> \notin OpToRel(<, Nat)
  BY <1>1
<1>3. ASSUME NEW y \in S
      PROVE  x <= y
  <2>1. ~(y < x)
    <3>1. <<y, x>> \in Nat \X Nat /\ <<y, x>>[1] = y /\ <<y, x>>[2] = x
      OBVIOUS
    <3> QED
      BY <1>2, <3>1 DEF OpToRel
  <2> QED
    BY <2>1
<1> QED
  BY <1>3

\* What paths are in the model.
Paths == Seq(STRING)

\* A prefix of a path, and its own prefixes.
LEMMA PrefixOf ==
    ASSUME NEW p \in Paths, NEW n \in 0..Len(p)
    PROVE  /\ SubSeq(p, 1, n) \in Paths /\ Len(SubSeq(p, 1, n)) = n
           /\ SubSeq(p, 1, 0) = << >> /\ SubSeq(p, 1, Len(p)) = p
           /\ \A m \in 0..n : SubSeq(SubSeq(p, 1, n), 1, m) = SubSeq(p, 1, m)
<1>1. SubSeq(p, 1, n) \in Paths /\ Len(SubSeq(p, 1, n)) = n
  BY SubSeqProperties DEF Paths
<1>2. SubSeq(p, 1, 0) = << >> /\ SubSeq(p, 1, Len(p)) = p
  BY DEF Paths
<1>3. ASSUME NEW m \in 0..n
      PROVE  SubSeq(SubSeq(p, 1, n), 1, m) = SubSeq(p, 1, m)
  BY <1>1 DEF Paths
<1> QED
  BY <1>1, <1>2, <1>3

\* A path but the root is its parent's path with a name.
LEMMA FrontOf ==
    ASSUME NEW p \in Paths, p # << >>
    PROVE  /\ Front(p) \in Paths /\ Len(Front(p)) = Len(p) - 1 /\ Len(p) \in Nat \ {0}
           /\ Front(p) = SubSeq(p, 1, Len(p) - 1)
           /\ Last(p) \in STRING /\ p = Front(p) \o <<Last(p)>>
           /\ \A n \in 0..(Len(p)-1) : SubSeq(Front(p), 1, n) = SubSeq(p, 1, n)
<1>1. Len(p) \in Nat \ {0}
  BY EmptySeq DEF Paths
<1>2. Front(p) \in Paths /\ Len(Front(p)) = Len(p) - 1
  <2>1. Len(p) - 1 \in 0..Len(p)
    BY <1>1
  <2>2. SubSeq(p, 1, Len(p) - 1) \in Paths /\ Len(SubSeq(p, 1, Len(p) - 1)) = Len(p) - 1
    BY ONLY <2>1, PrefixOf
  <2> QED
    BY <2>2 DEF Front
<1>3. p = Front(p) \o <<Last(p)>> /\ Last(p) \in STRING
  <2>1. Last(p) \in STRING /\ \A i \in 1..(Len(p) - 1) : Front(p)[i] = p[i]
    BY <1>1 DEF Paths, Front, Last
  <2> DEFINE q == Front(p) \o <<Last(p)>>
  <2>2. <<Last(p)>> \in Paths /\ Len(<<Last(p)>>) = 1 /\ <<Last(p)>>[1] = Last(p)
    BY <2>1 DEF Paths
  <2>3. /\ q \in Paths /\ Len(q) = Len(p)
        /\ \A i \in 1..Len(q) : q[i] = IF i <= Len(p) - 1 THEN Front(p)[i] ELSE Last(p)
    BY <1>1, <1>2, <2>1, <2>2, ConcatProperties DEF Paths
  <2>4. \A i \in 1..Len(p) : p[i] = q[i]
    BY <1>1, <2>1, <2>3 DEF Last
  <2> HIDE DEF q
  <2>5. p = q
    BY <2>3, <2>4, SeqEqual DEF Paths
  <2> QED
    BY <2>1, <2>5 DEF q
<1>4. ASSUME NEW n \in 0..(Len(p)-1)
      PROVE  SubSeq(Front(p), 1, n) = SubSeq(p, 1, n)
  BY <1>1, <1>2 DEF Paths, Front
<1> QED
  BY <1>1, <1>2, <1>3, <1>4 DEF Front

\* The function that Resolve computes is there.
LEMMA ResolveFollows ==
    ASSUME NEW t, NEW p
    PROVE  \E f : /\ f = [n \in 0..MaxLinks |-> IF n = 0 THEN p ELSE Expand(t, f[n - 1])]
                  /\ Resolve(t, p) = f[MaxLinks]
<1> DEFINE Good(n, g) == g = [m \in 0..n |-> IF m = 0 THEN p ELSE Expand(t, g[m - 1])]
           S == {n \in 0..MaxLinks : ~\E g : Good(n, g)}
           f == CHOOSE f : f = [n \in 0..MaxLinks |-> IF n = 0 THEN p ELSE Expand(t, f[n - 1])]
<1>1. S = {}
  <2> SUFFICES ASSUME S # {} PROVE FALSE
    OBVIOUS
  <2>1. PICK n \in S : \A y \in S : n <= y
    <3>1. S \in SUBSET Nat
      BY LinksAssumption
    <3> HIDE DEF S
    <3> QED
      BY <3>1, Least
  <2>2. CASE n = 0
    <3>1. Good(0, [m \in 0..0 |-> p])
      OBVIOUS
    <3> QED
      BY <2>1, <2>2, <3>1
  <2>3. CASE n # 0
    <3>1. n - 1 \in 0..MaxLinks /\ n - 1 \notin S /\ n \in Nat
      BY <2>1, <2>3, LinksAssumption
    <3>2. PICK g : Good(n - 1, g)
      BY <3>1
    <3> DEFINE h == [m \in 0..n |-> IF m = n THEN Expand(t, g[n - 1]) ELSE g[m]]
    <3>3. Good(n, h)
      BY <2>3, <3>1, <3>2
    <3> QED
      BY <2>1, <3>3
  <2> QED
    BY <2>2, <2>3
<1>2. Good(MaxLinks, f)
  BY <1>1, LinksAssumption
<1>3. Resolve(t, p) = f[MaxLinks]
  BY DEF Resolve
<1> QED
  BY <1>2, <1>3

-----------------------------------------------------------------------------

\* The files of a volume form a tree, and where paths lead in it.

\* The files of a volume, whoever has made them.
Nodes == [kind : {"dir", "file", "symlink"}, ino : Nat \X Nat, data : Paths,
          owner : Int \X Int, mtime : {"now", "tar"}]

\* What the files of a volume are: every path but the root is in a directory,
\* names of one file agree on its kind, and a directory has one name and no
\* content.
Tree(t) ==
    /\ DOMAIN t \subseteq Paths /\ t \in [DOMAIN t -> Nodes]
    /\ IsDir(t, << >>)
    /\ \A p \in DOMAIN t : \A n \in 0..(Len(p) - 1) : IsDir(t, SubSeq(p, 1, n))
    /\ \A p, q \in DOMAIN t :
         t[p].ino = t[q].ino => t[p].kind = t[q].kind /\ (t[p].kind = "dir" => p = q)
    /\ \A p \in DOMAIN t : t[p].kind = "dir" => t[p].data = << >>

\* No prefix of a path is a symbolic link.
NoLink(t, p) ==
    \A n \in 1..Len(p) :
        SubSeq(p, 1, n) \in DOMAIN t => t[SubSeq(p, 1, n)].kind # "symlink"

\* What a path is after a link in it has been followed is a path.
LEMMA ExpandIsPath ==
    ASSUME NEW t, Tree(t), NEW p \in Paths
    PROVE  /\ Expand(t, p) \in Paths
           /\ NoLink(t, p) => Expand(t, p) = p
<1> DEFINE links == {k \in 1..Len(p) : /\ SubSeq(p, 1, k) \in DOMAIN t
                                       /\ t[SubSeq(p, 1, k)].kind = "symlink"}
<1>1. Len(p) \in Nat
  BY LenProperties DEF Paths
<1>2. CASE links = {}
  BY <1>2 DEF Expand
<1>3. CASE links # {}
  <2>1. links \in SUBSET Nat
    BY <1>1
  <2>2. \E x \in links : \A y \in links : x <= y
    <3> HIDE DEF links
    <3> QED
      BY <1>3, <2>1, Least
  <2>3. Min(links) \in links
    <3> HIDE DEF links
    <3> QED
      BY <2>2 DEF Min
  <2> DEFINE k == Min(links)
  <2>4. k \in 1..Len(p) /\ SubSeq(p, 1, k) \in DOMAIN t
    BY <2>3
  <2> HIDE DEF k
  <2>5. t[SubSeq(p, 1, k)].data \in Paths
    BY <2>4 DEF Tree, Nodes
  <2>6. SubSeq(p, k + 1, Len(p)) \in Paths
    BY <1>1, <2>4, SubSeqProperties DEF Paths
  <2>7. t[SubSeq(p, 1, k)].data \o SubSeq(p, k + 1, Len(p)) \in Paths
    BY <2>5, <2>6, ConcatProperties DEF Paths
  <2>8. ~NoLink(t, p)
    BY <1>3 DEF NoLink
  <2>9. Expand(t, p) = t[SubSeq(p, 1, k)].data \o SubSeq(p, k + 1, Len(p))
    BY <1>3 DEF Expand, k
  <2> QED
    BY <2>7, <2>8, <2>9
<1>4. links = {} \/ ~NoLink(t, p)
  BY DEF NoLink
<1> QED
  BY <1>2, <1>3, <1>4

\* Where a path leads is a path, and itself if no link is on it.
LEMMA ResolveIsPath ==
    ASSUME NEW t, Tree(t), NEW p \in Paths
    PROVE  /\ Resolve(t, p) \in Paths
           /\ NoLink(t, p) => Resolve(t, p) = p
<1>1. PICK f : /\ f = [n \in 0..MaxLinks |-> IF n = 0 THEN p ELSE Expand(t, f[n - 1])]
               /\ Resolve(t, p) = f[MaxLinks]
  BY ResolveFollows
<1> DEFINE Wrong == {n \in 0..MaxLinks : ~(f[n] \in Paths /\ (NoLink(t, p) => f[n] = p))}
<1>2. SUFFICES ASSUME Wrong # {} PROVE FALSE
  <2>1. MaxLinks \in 0..MaxLinks
    BY LinksAssumption
  <2>2. Wrong = {} => f[MaxLinks] \in Paths /\ (NoLink(t, p) => f[MaxLinks] = p)
    BY <2>1
  <2> QED
    BY <1>1, <2>2
<1>3. Wrong \in SUBSET Nat
  BY LinksAssumption
<1>4. PICK n \in Wrong : \A y \in Wrong : n <= y
  <2> HIDE DEF Wrong
  <2> QED
    BY <1>2, <1>3, Least
<1>5. CASE n = 0
  BY <1>1, <1>4, <1>5, LinksAssumption
<1>6. CASE n # 0
  <2>1. n - 1 \in 0..MaxLinks /\ n \in 0..MaxLinks /\ n - 1 \notin Wrong
    BY <1>4, <1>6, LinksAssumption
  <2>2. f[n - 1] \in Paths /\ (NoLink(t, p) => f[n - 1] = p) /\ f[n] = Expand(t, f[n - 1])
    BY <1>1, <1>6, <2>1
  <2>3. f[n] \in Paths /\ (NoLink(t, p) => f[n] = p)
    BY <2>2, ExpandIsPath
  <2> QED
    BY <1>4, <2>3
<1> QED
  BY <1>5, <1>6

\* Where an entry is placed is a path, its own if no link is above it.
LEMMA PlaceIsPath ==
    ASSUME NEW t, Tree(t), NEW p \in Paths
    PROVE  /\ Place(t, p) \in Paths
           /\ p # << >> => Place(t, p) # << >>
           /\ p # << >> /\ NoLink(t, Front(p)) => Place(t, p) = p
<1>1. CASE p = << >>
  BY <1>1 DEF Place, Paths
<1>2. CASE p # << >>
  <2>1. Front(p) \in Paths /\ Last(p) \in STRING /\ p = Front(p) \o <<Last(p)>>
    BY <1>2, FrontOf
  <2> DEFINE r == Resolve(t, Front(p))
  <2>2. r \in Paths /\ (NoLink(t, Front(p)) => r = Front(p))
    BY <2>1, ResolveIsPath
  <2>3. <<Last(p)>> \in Paths /\ Len(<<Last(p)>>) = 1
    BY <2>1 DEF Paths
  <2> HIDE DEF r
  <2>4. r \o <<Last(p)>> \in Paths /\ Len(r \o <<Last(p)>>) = Len(r) + 1 /\ Len(r) \in Nat
    BY <2>2, <2>3, ConcatProperties, LenProperties DEF Paths
  <2>5. r \o <<Last(p)>> # << >>
    BY <2>4, EmptySeq
  <2>6. Place(t, p) = r \o <<Last(p)>>
    BY <1>2 DEF Place, r
  <2> QED
    BY <1>2, <2>1, <2>2, <2>4, <2>5, <2>6
<1> QED
  BY <1>1, <1>2

\* What is told of a node.
Desc(node) == Described(node.kind, node.data, node.owner, node.mtime)

\* Paths have the same nodes in both trees, or at least the same files with
\* the same description.
Same(s, t, paths) == \A q \in paths : s[q] = t[q]
Kept(s, t, paths) == \A q \in paths : s[q].ino = t[q].ino /\ Desc(s[q]) = Desc(t[q])

\* The paths of a tree.
HasPaths(t, paths) == DOMAIN t = paths

\* The files of a tree.
Inos(t) == {t[p].ino : p \in DOMAIN t}

\* Above every path of a tree, and above one whose parent is a directory,
\* there are directories only.
LEMMA DirsAbove ==
    ASSUME NEW t, Tree(t), NEW p \in Paths, p # << >>, p \in DOMAIN t \/ IsDir(t, Front(p))
    PROVE  /\ IsDir(t, Front(p))
           /\ \A n \in 0..(Len(p) - 1) : IsDir(t, SubSeq(p, 1, n))
<1>1. /\ Front(p) \in Paths /\ Len(Front(p)) = Len(p) - 1 /\ Len(p) \in Nat \ {0}
      /\ Front(p) = SubSeq(p, 1, Len(p) - 1)
      /\ \A n \in 0..(Len(p)-1) : SubSeq(Front(p), 1, n) = SubSeq(p, 1, n)
  BY FrontOf
<1>2. CASE p \in DOMAIN t
  <2>1. \A n \in 0..(Len(p) - 1) : IsDir(t, SubSeq(p, 1, n))
    BY <1>2 DEF Tree
  <2> QED
    BY <1>1, <2>1
<1>3. CASE IsDir(t, Front(p))
  <2>1. Front(p) \in DOMAIN t
    BY <1>3 DEF IsDir
  <2>2. \A n \in 0..(Len(Front(p)) - 1) : IsDir(t, SubSeq(Front(p), 1, n))
    BY <2>1 DEF Tree
  <2>3. ASSUME NEW n \in 0..(Len(p) - 1)
        PROVE  IsDir(t, SubSeq(p, 1, n))
    <3>1. CASE n = Len(p) - 1
      BY <1>1, <1>3, <3>1
    <3>2. CASE n # Len(p) - 1
      <4>1. n \in 0..(Len(Front(p)) - 1)
        BY <1>1, <3>2
      <4>2. IsDir(t, SubSeq(Front(p), 1, n))
        BY <2>2, <4>1
      <4> QED
        BY <1>1, <4>2
    <3> QED
      BY <3>1, <3>2
  <2> QED
    BY <1>3, <2>3
<1> QED
  BY <1>2, <1>3

\* A path with directories above it leads through no link.
LEMMA NoLinkBelowDirs ==
    ASSUME NEW t, Tree(t), NEW p \in Paths,
           \A n \in 0..(Len(p) - 1) : IsDir(t, SubSeq(p, 1, n))
    PROVE  /\ p # << >> => NoLink(t, Front(p))
           /\ p \notin DOMAIN t \/ t[p].kind # "symlink" => NoLink(t, p)
<1>0. Len(p) \in Nat
  BY LenProperties DEF Paths
<1>1. Len(p) \in Nat /\ SubSeq(p, 1, Len(p)) = p
  BY <1>0, PrefixOf
<1>2. \A n \in 0..(Len(p) - 1) : t[SubSeq(p, 1, n)].kind # "symlink"
  BY DEF IsDir
<1>3. ASSUME p # << >>
      PROVE  NoLink(t, Front(p))
  <2>1. /\ Len(Front(p)) = Len(p) - 1
        /\ \A n \in 0..(Len(p)-1) : SubSeq(Front(p), 1, n) = SubSeq(p, 1, n)
    BY <1>3, FrontOf
  <2>2. ASSUME NEW n \in 1..Len(Front(p))
        PROVE  t[SubSeq(Front(p), 1, n)].kind # "symlink"
    <3>1. n \in 0..(Len(p) - 1)
      BY <1>1, <2>1
    <3> QED
      BY <1>2, <2>1, <3>1
  <2> QED
    BY <2>2 DEF NoLink
<1>4. ASSUME p \notin DOMAIN t \/ t[p].kind # "symlink"
      PROVE  NoLink(t, p)
  <2>1. ASSUME NEW n \in 1..Len(p), SubSeq(p, 1, n) \in DOMAIN t
        PROVE  t[SubSeq(p, 1, n)].kind # "symlink"
    <3>1. CASE n = Len(p)
      <4>1. SubSeq(p, 1, n) = p
        BY <1>1, <3>1
      <4> QED
        BY <1>4, <2>1, <4>1
    <3>2. CASE n # Len(p)
      <4>1. n \in 0..(Len(p) - 1)
        BY ONLY <1>0, <3>2, n \in 1..Len(p)
      <4> QED
        BY <1>2, <4>1
    <3> QED
      BY <3>1, <3>2
  <2> QED
    BY <2>1 DEF NoLink
<1> QED
  BY <1>3, <1>4

-----------------------------------------------------------------------------

\* The changes that the operations are made of: each leaves a tree, and all but
\* what it changes as it was.

\* A directory that is stamped stays the directory it was.
LEMMA StampTree ==
    ASSUME NEW t, Tree(t), NEW p \in Paths, p # << >> => IsDir(t, Front(p))
    PROVE  /\ Tree(Stamp(t, p)) /\ DOMAIN Stamp(t, p) = DOMAIN t
           /\ \A q \in DOMAIN t : /\ Stamp(t, p)[q] \in Nodes
                                  /\ Stamp(t, p)[q].ino = t[q].ino
                                  /\ Stamp(t, p)[q].kind = t[q].kind
                                  /\ Desc(Stamp(t, p)[q]) = Desc(t[q])
<1>1. CASE p = << >>
  BY <1>1 DEF Stamp, Tree
<1>2. CASE p # << >>
  <2> DEFINE s == Stamp(t, p)
             r == Front(p)
  <2>1. r \in DOMAIN t /\ t[r].kind = "dir" /\ t[r] \in Nodes
    BY <1>2 DEF IsDir, Tree
  <2>2. s = [t EXCEPT ![r] = [t[r] EXCEPT !.mtime = "now"]]
    BY <1>2 DEF Stamp
  <2>3. DOMAIN s = DOMAIN t /\ \A q \in DOMAIN t \ {r} : s[q] = t[q]
    BY <2>2 DEF Tree
  <2>4. s[r] = [t[r] EXCEPT !.mtime = "now"]
    BY <2>1, <2>2 DEF Tree
  <2>5. /\ s[r] \in Nodes /\ s[r].ino = t[r].ino /\ s[r].kind = t[r].kind
        /\ s[r].data = t[r].data /\ s[r].owner = t[r].owner
    BY <2>1, <2>4 DEF Nodes
  <2>6. Desc(s[r]) = Desc(t[r])
    BY <2>1, <2>5 DEF Desc, Described
  <2>7. \A q \in DOMAIN t : /\ s[q] \in Nodes /\ s[q].ino = t[q].ino /\ s[q].kind = t[q].kind
                            /\ s[q].data = t[q].data /\ Desc(s[q]) = Desc(t[q])
    BY <2>3, <2>5, <2>6 DEF Tree
  <2>8. s \in [DOMAIN s -> Nodes]
    BY <2>2, <2>3, <2>7 DEF Tree
  <2> HIDE DEF s
  <2>9. Tree(s)
    BY <2>3, <2>7, <2>8 DEF Tree, IsDir
  <2> QED
    BY <2>3, <2>7, <2>9 DEF s
<1> QED
  BY <1>1, <1>2

\* Taking paths away, with all that is below them, leaves a tree.
LEMMA WithoutTree ==
    ASSUME NEW t, Tree(t), NEW gone, << >> \notin gone,
           \A p \in DOMAIN t \ gone : \A n \in 0..(Len(p) - 1) : SubSeq(p, 1, n) \notin gone
    PROVE  /\ Tree(Without(t, gone)) /\ DOMAIN Without(t, gone) = DOMAIN t \ gone
           /\ Same(Without(t, gone), t, DOMAIN t \ gone)
<1> DEFINE s == Without(t, gone)
<1>1. DOMAIN s = DOMAIN t \ gone /\ \A q \in DOMAIN t \ gone : s[q] = t[q]
  BY DEF Without
<1>2. s \in [DOMAIN s -> Nodes] /\ DOMAIN s \subseteq Paths
  BY <1>1 DEF Tree, Without
<1> HIDE DEF s
<1>3. Tree(s)
  BY <1>1, <1>2 DEF Tree, IsDir
<1> QED
  BY <1>1, <1>3 DEF s, Same

\* A node that a tree takes: a new file, or another name of one that is none
\* of its directories.
Fits(t, node) ==
    \/ /\ \A q \in DOMAIN t : t[q].ino # node.ino
       /\ node.kind = "dir" => node.data = << >>
    \/ \E q \in DOMAIN t : node = t[q] /\ t[q].kind # "dir"

\* Making a node at a path whose parent is a directory leaves a tree.
LEMMA MakeTree ==
    ASSUME NEW t, Tree(t), NEW p \in Paths, p # << >>, p \notin DOMAIN t, IsDir(t, Front(p)),
           NEW node \in Nodes, Fits(t, node)
    PROVE  /\ Tree(Make(t, p, node)) /\ HasPaths(Make(t, p, node), DOMAIN t \cup {p})
           /\ Make(t, p, node)[p] = node
           /\ Kept(Make(t, p, node), t, DOMAIN t)
<1> DEFINE s == Stamp(t, p)
           m == Make(t, p, node)
<1>1. /\ Tree(s) /\ DOMAIN s = DOMAIN t
      /\ \A q \in DOMAIN t : /\ s[q] \in Nodes /\ s[q].ino = t[q].ino
                             /\ s[q].kind = t[q].kind /\ Desc(s[q]) = Desc(t[q])
  BY StampTree
<1>2. m = [q \in DOMAIN t \cup {p} |-> IF q = p THEN node ELSE s[q]]
  BY DEF Make
<1> HIDE DEF m, s
<1>3. /\ DOMAIN m = DOMAIN t \cup {p} /\ m[p] = node
      /\ \A q \in DOMAIN t : m[q] = s[q]
  BY <1>2
<1>4. DOMAIN m \subseteq Paths /\ m \in [DOMAIN m -> Nodes]
  BY <1>1, <1>2 DEF Tree
<1>5. IsDir(m, << >>)
  BY <1>1, <1>3 DEF Tree, IsDir
<1>6. \A q \in DOMAIN m : \A n \in 0..(Len(q) - 1) : IsDir(m, SubSeq(q, 1, n))
  <2>1. \A q \in DOMAIN m : \A n \in 0..(Len(q) - 1) : IsDir(t, SubSeq(q, 1, n))
    BY <1>3, DirsAbove DEF Tree
  <2> QED
    BY <1>1, <1>3, <2>1 DEF IsDir
<1>7. \A q, r \in DOMAIN m :
        m[q].ino = m[r].ino => m[q].kind = m[r].kind /\ (m[q].kind = "dir" => q = r)
  BY <1>1, <1>3 DEF Tree, Fits
<1>8. \A q \in DOMAIN m : m[q].kind = "dir" => m[q].data = << >>
  BY <1>1, <1>3 DEF Tree, Fits
<1>9. Tree(m)
  BY <1>4, <1>5, <1>6, <1>7, <1>8 DEF Tree
<1> QED
  BY <1>1, <1>3, <1>9 DEF m, Kept, HasPaths

\* Changing what is told of a file, its kind aside, leaves a tree.
LEMMA ChangeTree ==
    ASSUME NEW t, Tree(t), NEW p \in DOMAIN t, NEW node \in Nodes,
           node.ino = t[p].ino, node.kind = t[p].kind, node.kind = "dir" => node.data = << >>
    PROVE  /\ Tree(Change(t, p, node)) /\ DOMAIN Change(t, p, node) = DOMAIN t
           /\ Change(t, p, node)[p] = node
           /\ \A q \in DOMAIN t : /\ Change(t, p, node)[q].ino = t[q].ino
                                  /\ Change(t, p, node)[q].kind = t[q].kind
                                  /\ t[q].ino # t[p].ino => Change(t, p, node)[q] = t[q]
<1> DEFINE m == Change(t, p, node)
<1>1. m = [q \in DOMAIN t |-> IF t[q].ino = t[p].ino THEN node ELSE t[q]]
  BY DEF Change
<1> HIDE DEF m
<1>2. /\ DOMAIN m = DOMAIN t /\ m[p] = node
      /\ \A q \in DOMAIN t : /\ t[q].ino # t[p].ino => m[q] = t[q]
                             /\ t[q].ino = t[p].ino => m[q] = node
  BY <1>1
<1>3. m \in [DOMAIN m -> Nodes] /\ DOMAIN m \subseteq Paths
  BY <1>1 DEF Tree
<1>4. \A q \in DOMAIN t : m[q].ino = t[q].ino /\ m[q].kind = t[q].kind
  BY <1>2 DEF Tree
<1>5. Tree(m)
  BY <1>2, <1>3, <1>4 DEF Tree, IsDir
<1> QED
  BY <1>2, <1>4, <1>5 DEF m

\* What is below a path has all that is below it.
LEMMA BelowClosed ==
    ASSUME NEW t, Tree(t), NEW p \in Paths, NEW gone,
           gone = Below(t, p) \/ gone = Below(t, p) \cup {p},
           NEW q \in DOMAIN t \ gone, NEW n \in 0..(Len(q) - 1)
    PROVE  SubSeq(q, 1, n) \notin gone
<1> DEFINE r == SubSeq(q, 1, n)
<1>0. q \in Paths /\ Len(q) \in Nat /\ Len(p) \in Nat
  BY LenProperties DEF Tree, Paths
<1>1. n \in 0..Len(q)
  BY <1>0
<1>2. Len(r) = n /\ \A m \in 0..n : SubSeq(r, 1, m) = SubSeq(q, 1, m)
  BY <1>0, <1>1, PrefixOf
<1>3. SubSeq(p, 1, Len(p)) = p
  BY <1>0, PrefixOf
<1>4. SUFFICES ASSUME r \in gone PROVE FALSE
  OBVIOUS
<1>5. Len(p) <= n /\ SubSeq(r, 1, Len(p)) = p
  <2>1. CASE r \in Below(t, p)
    <3>1. Len(r) > Len(p) /\ SubSeq(r, 1, Len(p)) = p
      <4> HIDE DEF r
      <4> QED
        BY <2>1 DEF Below
    <3> QED
      BY <1>0, <1>2, <3>1
  <2>2. CASE r = p
    <3> HIDE DEF r
    <3> QED
      BY <1>0, <1>2, <1>3, <2>2
  <2> QED
    BY <1>4, <2>1, <2>2
<1>6. Len(q) > Len(p)
  BY <1>0, <1>5
<1>7. SubSeq(q, 1, Len(p)) = p
  <2>1. Len(p) \in 0..n
    BY <1>0, <1>5
  <2> HIDE DEF r
  <2> QED
    BY <1>2, <1>5, <2>1
<1> QED
  BY <1>6, <1>7 DEF Below

\* Removing all that is below a path, or the path as well unless it is the
\* root, leaves a tree.
LEMMA RemoveTree ==
    ASSUME NEW t, Tree(t), NEW p \in Paths, NEW gone,
           gone = Below(t, p) \/ (gone = Below(t, p) \cup {p} /\ p # << >>)
    PROVE  /\ Tree(Without(t, gone)) /\ DOMAIN Without(t, gone) = DOMAIN t \ gone
           /\ Same(Without(t, gone), t, DOMAIN t \ gone)
           /\ Inos(Without(t, gone)) \subseteq Inos(t)
<1>1. << >> \notin gone
  BY LenProperties, EmptySeq DEF Below, Paths
<1>2. \A q \in DOMAIN t \ gone : \A n \in 0..(Len(q) - 1) : SubSeq(q, 1, n) \notin gone
  BY BelowClosed
<1>3. /\ Tree(Without(t, gone)) /\ DOMAIN Without(t, gone) = DOMAIN t \ gone
      /\ Same(Without(t, gone), t, DOMAIN t \ gone)
  BY <1>1, <1>2, WithoutTree
<1> QED
  BY <1>3 DEF Inos, Same

\* The paths of one tree are names of the same files in the other.
SameInos(s, t) == \A q \in DOMAIN t : s[q].ino = t[q].ino

\* The owner that setAttributes gives.
Chosen(owners) == CHOOSE o \in owners : TRUE

\* Giving attributes changes what is told of one file.
LEMMA AttributesTree ==
    ASSUME NEW t, Tree(t), NEW p \in DOMAIN t, NEW owners \in SUBSET (Int \X Int),
           NEW r, r = setAttributes(t, p, owners)
    PROVE  /\ Tree(r.tree) /\ HasPaths(r.tree, DOMAIN t)
           /\ SameInos(r.tree, t)
           /\ Same(r.tree, t, {q \in DOMAIN t : t[q].ino # t[p].ino})
           /\ owners # {} =>
                /\ r.ok
                /\ Desc(r.tree[p]) = Described(t[p].kind, t[p].data, Chosen(owners), "tar")
<1>1. CASE owners = {}
  <2>1. r.tree = t
    BY <1>1 DEF setAttributes, Failed
  <2> QED
    BY <1>1, <2>1 DEF Same, SameInos, HasPaths
<1>2. CASE owners # {}
  <2> DEFINE o == Chosen(owners)
             node == [t[p] EXCEPT !.owner = o, !.mtime = "tar"]
  <2>1. o \in owners /\ o \in Int \X Int
    BY <1>2 DEF Chosen
  <2>2. r.ok /\ r.tree = Change(t, p, node)
    BY <1>2 DEF setAttributes, Done, Chosen
  <2> HIDE DEF o
  <2>3. t[p] \in Nodes /\ (t[p].kind = "dir" => t[p].data = << >>)
    BY DEF Tree
  <2>4. /\ node \in Nodes /\ node.ino = t[p].ino /\ node.kind = t[p].kind
        /\ node.data = t[p].data /\ node.owner = o /\ node.mtime = "tar"
    BY <2>1, <2>3 DEF Nodes
  <2> HIDE DEF node
  <2>5. /\ Tree(r.tree) /\ DOMAIN r.tree = DOMAIN t /\ r.tree[p] = node
        /\ \A q \in DOMAIN t : /\ r.tree[q].ino = t[q].ino /\ r.tree[q].kind = t[q].kind
                               /\ t[q].ino # t[p].ino => r.tree[q] = t[q]
    BY <2>2, <2>3, <2>4, ChangeTree
  <2>6. Desc(r.tree[p]) = Described(t[p].kind, t[p].data, o, "tar")
    BY <2>4, <2>5 DEF Desc
  <2> QED
    BY <2>1, <2>2, <2>5, <2>6 DEF o, Same, SameInos, HasPaths
<1> QED
  BY <1>1, <1>2

\* An opaque marker empties its directory.
LEMMA WhiteoutDir ==
    ASSUME NEW t, Tree(t), NEW p \in Paths, NEW r, r = cleanWhiteoutDir(t, p)
    PROVE  /\ Tree(r.tree) /\ Inos(r.tree) \subseteq Inos(t)
           /\ (\A n \in 0..(Len(p) - 1) : IsDir(t, SubSeq(p, 1, n))) /\ IsDir(t, p) =>
                /\ r.ok
                /\ DOMAIN r.tree = DOMAIN t \ Below(t, p)
                /\ Kept(r.tree, t, DOMAIN r.tree)
<1> DEFINE q == Resolve(t, p)
<1>1. /\ q \in Paths
      /\ (\A n \in 0..(Len(p) - 1) : IsDir(t, SubSeq(p, 1, n))) /\ IsDir(t, p) => q = p
  BY ResolveIsPath, NoLinkBelowDirs DEF IsDir
<1>2. r = IF IsDir(t, q) THEN Done(Without(t, Below(t, q))) ELSE Failed(t)
  BY DEF cleanWhiteoutDir
<1> HIDE DEF q
<1>3. CASE IsDir(t, q)
  <2>1. r.ok /\ r.tree = Without(t, Below(t, q))
    BY <1>2, <1>3 DEF Done
  <2> DEFINE gone == Below(t, q)
  <2>2. gone = Below(t, q) /\ r.tree = Without(t, gone)
    BY <2>1
  <2> HIDE DEF gone
  <2>3. /\ Tree(Without(t, gone)) /\ DOMAIN Without(t, gone) = DOMAIN t \ gone
        /\ Same(Without(t, gone), t, DOMAIN t \ gone)
        /\ Inos(Without(t, gone)) \subseteq Inos(t)
    <3>1. q \in Paths /\ gone = Below(t, q)
      BY <1>1, <2>2
    <3> QED
      BY <3>1, RemoveTree
  <2>4. Kept(r.tree, t, DOMAIN r.tree)
    BY <2>2, <2>3 DEF Kept, Same
  <2> QED
    BY <1>1, <2>1, <2>2, <2>3, <2>4
<1>4. CASE ~IsDir(t, q)
  <2>1. r.tree = t
    BY <1>2, <1>4 DEF Failed
  <2> QED
    BY <1>1, <1>4, <2>1
<1> QED
  BY <1>3, <1>4

\* A whiteout removes what it names.
LEMMA WhiteoutFile ==
    ASSUME NEW t, Tree(t), NEW p \in Paths, p # << >>, NEW r, r = removeWhiteout(t, p)
    PROVE  /\ Tree(r.tree) /\ Inos(r.tree) \subseteq Inos(t) /\ r.ok
           /\ NoLink(t, Front(p)) =>
                /\ DOMAIN r.tree = DOMAIN t \ (Below(t, p) \cup {p})
                /\ Kept(r.tree, t, DOMAIN r.tree)
<1> DEFINE q == Place(t, p)
<1>1. q \in Paths /\ q # << >> /\ (NoLink(t, Front(p)) => q = p)
  BY PlaceIsPath
<1>2. r = IF q \in DOMAIN t THEN Done(Without(Stamp(t, q), Below(t, q) \cup {q})) ELSE Done(t)
  BY DEF removeWhiteout
<1> HIDE DEF q
<1>3. CASE q \in DOMAIN t
  <2> DEFINE s == Stamp(t, q)
  <2>1. r.ok /\ r.tree = Without(s, Below(t, q) \cup {q})
    BY <1>2, <1>3 DEF Done
  <2>2. IsDir(t, Front(q))
    BY <1>1, <1>3, DirsAbove
  <2>3. /\ Tree(s) /\ DOMAIN s = DOMAIN t
        /\ \A x \in DOMAIN t : s[x].ino = t[x].ino /\ Desc(s[x]) = Desc(t[x])
    BY <1>1, <2>2, StampTree
  <2> HIDE DEF s
  <2>4. Below(s, q) = Below(t, q) /\ Inos(s) = Inos(t)
    BY <2>3 DEF Below, Inos
  <2> DEFINE gone == Below(s, q) \cup {q}
  <2>5. gone = Below(s, q) \cup {q} /\ r.tree = Without(s, gone)
    BY <2>1, <2>4
  <2> HIDE DEF gone
  <2>6. /\ Tree(Without(s, gone)) /\ DOMAIN Without(s, gone) = DOMAIN s \ gone
        /\ Same(Without(s, gone), s, DOMAIN s \ gone)
        /\ Inos(Without(s, gone)) \subseteq Inos(s)
    <3>1. q \in Paths /\ q # << >> /\ gone = Below(s, q) \cup {q} /\ Tree(s)
      BY <1>1, <2>3, <2>5
    <3> QED
      BY <3>1, RemoveTree
  <2>7. Kept(r.tree, t, DOMAIN r.tree)
    BY <2>3, <2>5, <2>6 DEF Kept, Same
  <2> QED
    BY <1>1, <2>1, <2>3, <2>4, <2>5, <2>6, <2>7
<1>4. CASE q \notin DOMAIN t
  <2>1. r.ok /\ r.tree = t
    BY <1>2, <1>4 DEF Done
  <2>2. Below(t, q) = {}
    <3> SUFFICES ASSUME NEW x \in DOMAIN t, Len(x) > Len(q), SubSeq(x, 1, Len(q)) = q
                 PROVE  FALSE
      BY DEF Below
    <3>1. Len(q) \in Nat /\ Len(x) \in Nat
      BY <1>1, LenProperties DEF Tree, Paths
    <3>2. Len(q) \in 0..(Len(x) - 1)
      BY <3>1
    <3> QED
      BY <1>4, <3>2 DEF Tree, IsDir
  <2> QED
    BY <1>1, <1>4, <2>1, <2>2 DEF Kept
<1> QED
  BY <1>3, <1>4

-----------------------------------------------------------------------------

\* The operations.

\* All that is above a path is a directory.
UnderDirs(t, p) == \A n \in 0..(Len(p) - 1) : IsDir(t, SubSeq(p, 1, n))

\* What an entry has made at its path, in a file of its own or in the one that
\* was there; all the rest is kept.
Placed(r, t, p, ino, node) ==
    /\ r.ok /\ HasPaths(r.tree, DOMAIN t \cup {p}) /\ Kept(r.tree, t, DOMAIN t \ {p})
    /\ Desc(r.tree[p]) = node
    /\ r.tree[p].ino = ino \/ (p \in DOMAIN t /\ r.tree[p].ino = t[p].ino)

\* Whatever is done, the tree is one and has no files but its own and one more.
StaysTree(r, t, ino) == Tree(r.tree) /\ Inos(r.tree) \subseteq Inos(t) \cup {ino}

\* An entry below directories is placed at its own path.
LEMMA PlaceBelowDirs ==
    ASSUME NEW t, Tree(t), NEW p \in Paths, UnderDirs(t, p)
    PROVE  /\ Place(t, p) = p
           /\ p \notin DOMAIN t \/ t[p].kind # "symlink" => Resolve(t, p) = p
           /\ p # << >> => IsDir(t, Front(p))
<1>1. /\ p # << >> => NoLink(t, Front(p))
      /\ p \notin DOMAIN t \/ t[p].kind # "symlink" => NoLink(t, p)
  BY NoLinkBelowDirs DEF UnderDirs
<1>2. Place(t, p) = p
  BY <1>1, PlaceIsPath DEF Place
<1>3. p \notin DOMAIN t \/ t[p].kind # "symlink" => Resolve(t, p) = p
  BY <1>1, ResolveIsPath
<1>4. ASSUME p # << >>
      PROVE  IsDir(t, Front(p))
  <2>1. Len(p) \in Nat \ {0} /\ Front(p) = SubSeq(p, 1, Len(p) - 1)
    BY <1>4, FrontOf
  <2>2. Len(p) - 1 \in 0..(Len(p) - 1)
    BY <2>1
  <2> QED
    BY <2>1, <2>2 DEF UnderDirs
<1> QED
  BY <1>2, <1>3, <1>4

\* An operation that changes nothing.
LEMMA UnchangedTree ==
    ASSUME NEW t, Tree(t), NEW r, r.tree = t, NEW ino
    PROVE  StaysTree(r, t, ino)
BY DEF StaysTree

\* Giving attributes leaves a tree with the files it had.
LEMMA AttributesStay ==
    ASSUME NEW t, Tree(t), NEW p \in DOMAIN t, NEW owners \in SUBSET (Int \X Int), NEW ino,
           NEW r, r = setAttributes(t, p, owners)
    PROVE  /\ StaysTree(r, t, ino)
           /\ owners # {} /\ (\A q \in DOMAIN t \ {p} : t[q].ino # t[p].ino) =>
                Placed(r, t, p, ino, Described(t[p].kind, t[p].data, Chosen(owners), "tar"))
<1>1. /\ Tree(r.tree) /\ HasPaths(r.tree, DOMAIN t)
      /\ SameInos(r.tree, t)
      /\ Same(r.tree, t, {q \in DOMAIN t : t[q].ino # t[p].ino})
      /\ owners # {} =>
           /\ r.ok
           /\ Desc(r.tree[p]) = Described(t[p].kind, t[p].data, Chosen(owners), "tar")
  BY AttributesTree
<1>2. StaysTree(r, t, ino)
  BY <1>1 DEF StaysTree, Inos, SameInos, HasPaths
<1>3. ASSUME \A q \in DOMAIN t \ {p} : t[q].ino # t[p].ino
      PROVE  /\ HasPaths(r.tree, DOMAIN t \cup {p}) /\ Kept(r.tree, t, DOMAIN t \ {p})
             /\ r.tree[p].ino = t[p].ino
  BY <1>1, <1>3 DEF HasPaths, Kept, Same, SameInos
<1> QED
  BY <1>1, <1>2, <1>3 DEF Placed

\* A new file, directory or link that gets its attributes.
LEMMA MadeNode ==
    ASSUME NEW t, Tree(t), NEW p \in Paths, p # << >>, p \notin DOMAIN t, IsDir(t, Front(p)),
           NEW kind \in {"dir", "file", "symlink"}, NEW ino \in Nat \X Nat, ino \notin Inos(t),
           NEW data \in Paths, kind = "dir" => data = << >>,
           NEW owners \in SUBSET (Int \X Int),
           NEW r, r = setAttributes(Make(t, p, Node(kind, ino, data, <<0, 0>>, "now")), p, owners)
    PROVE  /\ StaysTree(r, t, ino)
           /\ owners # {} => Placed(r, t, p, ino, Described(kind, data, Chosen(owners), "tar"))
<1> DEFINE node == Node(kind, ino, data, <<0, 0>>, "now")
           m == Make(t, p, node)
<1>1. /\ node \in Nodes /\ node.ino = ino /\ node.kind = kind /\ node.data = data
  BY DEF Node, Nodes
<1>2. r = setAttributes(m, p, owners)
  OBVIOUS
<1> HIDE DEF node
<1>3. /\ node.kind = "dir" => node.data = << >>
      /\ \A q \in DOMAIN t : t[q].ino # node.ino
  BY <1>1 DEF Inos
<1>4. /\ Tree(m) /\ HasPaths(m, DOMAIN t \cup {p}) /\ m[p] = node
      /\ Kept(m, t, DOMAIN t)
  <2>1. Fits(t, node)
    BY <1>3 DEF Fits
  <2> QED
    BY <1>1, <2>1, MakeTree
<1>5. p \in DOMAIN m
  BY <1>4 DEF HasPaths
<1> HIDE DEF m
<1>6. /\ Tree(r.tree) /\ HasPaths(r.tree, DOMAIN m)
      /\ SameInos(r.tree, m) /\ Same(r.tree, m, {q \in DOMAIN m : m[q].ino # m[p].ino})
      /\ owners # {} =>
           r.ok /\ Desc(r.tree[p]) = Described(m[p].kind, m[p].data, Chosen(owners), "tar")
  BY <1>2, <1>4, <1>5, AttributesTree
<1>7. Kept(r.tree, t, DOMAIN t \ {p})
  BY <1>1, <1>3, <1>4, <1>6 DEF Kept, Same, SameInos, HasPaths
<1>8. Inos(r.tree) \subseteq Inos(t) \cup {ino} /\ r.tree[p].ino = ino
  BY <1>1, <1>4, <1>6 DEF Inos, SameInos, Kept, HasPaths
<1> QED
  BY <1>1, <1>4, <1>6, <1>7, <1>8 DEF HasPaths, StaysTree, Placed

\* A directory entry, made or found.
LEMMA DirectoryMade ==
    ASSUME NEW t, Tree(t), NEW p \in Paths, NEW ino \in Nat \X Nat, ino \notin Inos(t),
           NEW owners \in SUBSET (Int \X Int), NEW r, r = createDirectory(t, p, ino, owners)
    PROVE  /\ StaysTree(r, t, ino)
           /\ UnderDirs(t, p) /\ (p \in DOMAIN t => t[p].kind = "dir") /\ owners # {} =>
                Placed(r, t, p, ino, Described("dir", << >>, Chosen(owners), "tar"))
<1> DEFINE q == Resolve(t, p)
           x == Place(t, p)
<1>1. q \in Paths /\ x \in Paths
  BY ResolveIsPath, PlaceIsPath
<1>2. UnderDirs(t, p) /\ (p \in DOMAIN t => t[p].kind = "dir") => q = p /\ x = p
  BY PlaceBelowDirs
<1>3. /\ Found(t, q) => r = setAttributes(t, q, owners)
      /\ ~Found(t, q) /\ (x \in DOMAIN t \/ ~IsDir(t, Front(x))) => r = Failed(t)
      /\ ~Found(t, q) /\ x \notin DOMAIN t /\ IsDir(t, Front(x)) =>
           r = setAttributes(Make(t, x, Node("dir", ino, << >>, <<0, 0>>, "now")), x, owners)
  BY DEF createDirectory
<1>4. << >> \in DOMAIN t /\ << >> \in Paths
  BY DEF Tree, IsDir
<1> HIDE DEF q, x
<1>5. CASE Found(t, q)
  <2>1. r = setAttributes(t, q, owners) /\ q \in DOMAIN t
    BY <1>3, <1>5 DEF Found
  <2>2. /\ StaysTree(r, t, ino)
        /\ owners # {} /\ (\A y \in DOMAIN t \ {q} : t[y].ino # t[q].ino) =>
             Placed(r, t, q, ino, Described(t[q].kind, t[q].data, Chosen(owners), "tar"))
    BY <2>1, AttributesStay
  <2>3. t[q].kind = "dir" => t[q].data = << >> /\ \A y \in DOMAIN t \ {q} : t[y].ino # t[q].ino
    BY <2>1 DEF Tree
  <2> QED
    BY <1>2, <2>1, <2>2, <2>3
<1>6. CASE ~Found(t, q) /\ x \notin DOMAIN t /\ IsDir(t, Front(x))
  <2>1. r = setAttributes(Make(t, x, Node("dir", ino, << >>, <<0, 0>>, "now")), x, owners)
    BY <1>3, <1>6
  <2>2. x # << >>
    BY <1>4, <1>6
  <2>3. /\ StaysTree(r, t, ino)
        /\ owners # {} => Placed(r, t, x, ino, Described("dir", << >>, Chosen(owners), "tar"))
    BY <1>1, <1>4, <1>6, <2>1, <2>2, MadeNode
  <2> QED
    BY <1>2, <2>3
<1>7. CASE ~Found(t, q) /\ (x \in DOMAIN t \/ ~IsDir(t, Front(x)))
  <2>1. r.tree = t
    BY <1>3, <1>7 DEF Failed
  <2>2. StaysTree(r, t, ino)
    BY <2>1, UnchangedTree
  <2>3. ~(UnderDirs(t, p) /\ (p \in DOMAIN t => t[p].kind = "dir"))
    BY <1>2, <1>4, <1>7, PlaceBelowDirs DEF Found
  <2> QED
    BY <2>2, <2>3
<1> QED
  BY <1>5, <1>6, <1>7

\* A symbolic link, new or in the place of another.
LEMMA SymlinkMade ==
    ASSUME NEW t, Tree(t), NEW p \in Paths, NEW ino \in Nat \X Nat, ino \notin Inos(t),
           NEW target \in Paths, NEW owners \in SUBSET (Int \X Int),
           NEW r, r = createSymlink(t, p, ino, target, owners)
    PROVE  /\ StaysTree(r, t, ino)
           /\ /\ UnderDirs(t, p) /\ p # << >> /\ owners # {}
              /\ p \in DOMAIN t => t[p].kind = "symlink"
              => /\ Placed(r, t, p, ino, Described("symlink", target, Chosen(owners), "tar"))
                 /\ r.tree[p].ino = ino
<1> DEFINE q == Place(t, p)
           u == Without(t, {q})
<1>1. q \in Paths
  BY PlaceIsPath
<1>2. UnderDirs(t, p) => q = p
  BY PlaceBelowDirs
<1>3. IF q = << >> \/ Below(t, q) # {} \/ ~IsDir(t, Front(q))
        THEN r = Failed(t)
        ELSE r = setAttributes(Make(u, q, Node("symlink", ino, target, <<0, 0>>, "now")), q, owners)
  BY DEF createSymlink
<1> HIDE DEF q
<1>4. CASE q = << >> \/ Below(t, q) # {} \/ ~IsDir(t, Front(q))
  <2>1. r.tree = t
    BY <1>3, <1>4 DEF Failed
  <2>2. StaysTree(r, t, ino)
    BY <2>1, UnchangedTree
  <2>3. ASSUME UnderDirs(t, p), p # << >>, p \in DOMAIN t => t[p].kind = "symlink"
        PROVE  FALSE
    <3>1. q = p /\ IsDir(t, Front(p))
      BY <1>2, <2>3, PlaceBelowDirs
    <3>2. PICK x \in DOMAIN t : Len(x) > Len(p) /\ SubSeq(x, 1, Len(p)) = p
      BY <1>4, <2>3, <3>1 DEF Below
    <3>3. Len(p) \in 0..(Len(x) - 1)
      <4>1. x \in Paths
        BY DEF Tree
      <4>2. Len(x) \in Nat /\ Len(p) \in Nat
        BY <4>1, LenProperties DEF Paths
      <4> QED
        BY <3>2, <4>2
    <3>4. IsDir(t, p)
      BY <3>2, <3>3 DEF Tree
    <3> QED
      BY <2>3, <3>4 DEF IsDir
  <2> QED
    BY <2>2, <2>3
<1>5. CASE ~(q = << >> \/ Below(t, q) # {} \/ ~IsDir(t, Front(q)))
  <2>1. r = setAttributes(Make(u, q, Node("symlink", ino, target, <<0, 0>>, "now")), q, owners)
    BY <1>3, <1>5
  <2> DEFINE gone == Below(t, q) \cup {q}
  <2>2. gone = Below(t, q) \cup {q} /\ gone = {q} /\ u = Without(t, gone)
    BY <1>5
  <2> HIDE DEF gone, u
  <2>3. /\ Tree(Without(t, gone)) /\ DOMAIN Without(t, gone) = DOMAIN t \ gone
        /\ Same(Without(t, gone), t, DOMAIN t \ gone)
        /\ Inos(Without(t, gone)) \subseteq Inos(t)
    BY <1>1, <1>5, <2>2, RemoveTree
  <2>4. /\ Tree(u) /\ DOMAIN u = DOMAIN t \ {q} /\ Same(u, t, DOMAIN u)
        /\ Inos(u) \subseteq Inos(t)
    BY <2>2, <2>3
  <2>5. IsDir(u, Front(q))
    <3>1. Front(q) # q
      <4>1. Len(Front(q)) = Len(q) - 1 /\ Len(q) \in Nat
        BY <1>1, <1>5, FrontOf
      <4> QED
        BY <4>1
    <3> QED
      BY <1>5, <2>4, <3>1 DEF IsDir, Same
  <2>6. q \notin DOMAIN u /\ ino \notin Inos(u) /\ q # << >>
    BY <1>5, <2>4
  <2>7. /\ StaysTree(r, u, ino)
        /\ owners # {} => Placed(r, u, q, ino, Described("symlink", target, Chosen(owners), "tar"))
    BY <1>1, <2>1, <2>4, <2>5, <2>6, MadeNode
  <2>8. StaysTree(r, t, ino)
    BY <2>4, <2>7 DEF StaysTree
  <2>9. ASSUME owners # {}
        PROVE  /\ Placed(r, t, q, ino, Described("symlink", target, Chosen(owners), "tar"))
               /\ r.tree[q].ino = ino
    <3>1. Placed(r, u, q, ino, Described("symlink", target, Chosen(owners), "tar"))
      BY <2>7, <2>9
    <3>2. HasPaths(r.tree, DOMAIN t \cup {q})
      BY <2>4, <3>1 DEF Placed, HasPaths
    <3>3. Kept(r.tree, t, DOMAIN t \ {q})
      BY <2>4, <3>1 DEF Placed, Kept, Same
    <3> QED
      BY <2>6, <3>1, <3>2, <3>3 DEF Placed
  <2> QED
    BY <1>2, <2>8, <2>9
<1> QED
  BY <1>4, <1>5

\* A regular file, written to a new file or to the one found.
LEMMA FileMade ==
    ASSUME NEW t, Tree(t), NEW p \in Paths, NEW ino \in Nat \X Nat, ino \notin Inos(t),
           NEW data \in Paths, NEW owners \in SUBSET (Int \X Int),
           NEW r, r = createRegularFile(t, p, ino, data, owners)
    PROVE  /\ StaysTree(r, t, ino)
           /\ /\ UnderDirs(t, p) /\ p # << >> /\ owners # {}
              /\ p \in DOMAIN t => /\ t[p].kind = "file"
                                   /\ \A q \in DOMAIN t \ {p} : t[q].ino # t[p].ino
              => Placed(r, t, p, ino, Described("file", data, Chosen(owners), "tar"))
<1> DEFINE q == Resolve(t, p)
           Loop == q \in DOMAIN t /\ t[q].kind # "file"
<1>1. q \in Paths
  BY ResolveIsPath
<1>2. UnderDirs(t, p) /\ (p \in DOMAIN t => t[p].kind = "file") => q = p
  BY PlaceBelowDirs
<1>3. /\ Loop \/ ~IsDir(t, Front(q)) => r = Failed(t)
      /\ ~Loop /\ IsDir(t, Front(q)) /\ q \in DOMAIN t =>
           r = setAttributes(Change(t, q, [t[q] EXCEPT !.data = data]), q, owners)
      /\ ~Loop /\ IsDir(t, Front(q)) /\ q \notin DOMAIN t =>
           r = setAttributes(Make(t, q, Node("file", ino, data, <<0, 0>>, "now")), q, owners)
  BY DEF createRegularFile
<1>4. << >> \in DOMAIN t
  BY DEF Tree, IsDir
<1> HIDE DEF q
<1>5. CASE Loop \/ ~IsDir(t, Front(q))
  <2>1. r.tree = t
    BY <1>3, <1>5 DEF Failed
  <2>2. StaysTree(r, t, ino)
    BY <2>1, UnchangedTree
  <2>3. ~(UnderDirs(t, p) /\ p # << >> /\ (p \in DOMAIN t => t[p].kind = "file"))
    BY <1>2, <1>5, PlaceBelowDirs
  <2> QED
    BY <2>2, <2>3
<1>6. CASE ~Loop /\ IsDir(t, Front(q)) /\ q \in DOMAIN t
  <2> DEFINE node == [t[q] EXCEPT !.data = data]
             u == Change(t, q, node)
  <2>1. r = setAttributes(u, q, owners)
    BY <1>3, <1>6
  <2>2. t[q] \in Nodes /\ t[q].kind = "file"
    BY <1>6 DEF Tree
  <2>3. node \in Nodes /\ node.ino = t[q].ino /\ node.kind = "file" /\ node.data = data
    BY <2>2 DEF Nodes
  <2> HIDE DEF node
  <2>4. /\ Tree(u) /\ DOMAIN u = DOMAIN t /\ u[q] = node
        /\ \A x \in DOMAIN t : u[x].ino = t[x].ino /\ (t[x].ino # t[q].ino => u[x] = t[x])
    BY <1>6, <2>2, <2>3, ChangeTree
  <2> HIDE DEF u
  <2>5. q \in DOMAIN u /\ Inos(u) = Inos(t)
    BY <1>6, <2>4 DEF Inos
  <2>6. /\ StaysTree(r, u, ino)
        /\ owners # {} /\ (\A y \in DOMAIN u \ {q} : u[y].ino # u[q].ino) =>
             Placed(r, u, q, ino, Described(u[q].kind, u[q].data, Chosen(owners), "tar"))
    BY <2>1, <2>4, <2>5, AttributesStay
  <2>7. StaysTree(r, t, ino)
    BY <2>5, <2>6 DEF StaysTree
  <2>8. ASSUME owners # {}, \A y \in DOMAIN t \ {q} : t[y].ino # t[q].ino
        PROVE  Placed(r, t, q, ino, Described("file", data, Chosen(owners), "tar"))
    <3>1. \A y \in DOMAIN u \ {q} : u[y].ino # u[q].ino
      BY <1>6, <2>4, <2>8
    <3>2. Placed(r, u, q, ino, Described("file", data, Chosen(owners), "tar"))
      BY <2>3, <2>4, <2>6, <2>8, <3>1
    <3>3. HasPaths(r.tree, DOMAIN t \cup {q})
      BY <2>4, <3>2 DEF Placed, HasPaths
    <3>4. Kept(r.tree, t, DOMAIN t \ {q})
      BY <2>4, <2>8, <3>2 DEF Placed, Kept
    <3> QED
      BY <1>6, <2>4, <3>2, <3>3, <3>4 DEF Placed
  <2> QED
    BY <1>2, <1>6, <2>7, <2>8
<1>7. CASE ~Loop /\ IsDir(t, Front(q)) /\ q \notin DOMAIN t
  <2>1. r = setAttributes(Make(t, q, Node("file", ino, data, <<0, 0>>, "now")), q, owners)
    BY <1>3, <1>7
  <2>2. /\ StaysTree(r, t, ino)
        /\ owners # {} => Placed(r, t, q, ino, Described("file", data, Chosen(owners), "tar"))
    BY <1>1, <1>4, <1>7, <2>1, MadeNode
  <2> QED
    BY <1>2, <2>2
<1> QED
  BY <1>5, <1>6, <1>7

\* A second name for the file at target.
Linked(r, t, p, target) ==
    /\ r.ok /\ HasPaths(r.tree, DOMAIN t \cup {p})
    /\ Kept(r.tree, t, DOMAIN t) /\ r.tree[p] = t[target]

\* A hard link.
LEMMA LinkMade ==
    ASSUME NEW t, Tree(t), NEW p \in Paths, NEW ino, NEW target \in Paths,
           NEW r, r = createLink(t, p, target)
    PROVE  /\ StaysTree(r, t, ino)
           /\ /\ UnderDirs(t, p) /\ p # << >> /\ p \notin DOMAIN t
              /\ target \in DOMAIN t /\ t[target].kind # "dir"
              => Linked(r, t, p, target)
<1> DEFINE q == Place(t, p)
           from == Place(t, target)
           Bad == from \notin DOMAIN t \/ IsDir(t, from) \/ q \in DOMAIN t \/ ~IsDir(t, Front(q))
<1>1. q \in Paths
  BY PlaceIsPath
<1>2. (UnderDirs(t, p) => q = p) /\ (target \in DOMAIN t => from = target)
  <2>1. target \in DOMAIN t => UnderDirs(t, target)
    BY DEF Tree, UnderDirs
  <2> QED
    BY <2>1, PlaceBelowDirs
<1>3. (Bad => r = Failed(t)) /\ (~Bad => r = Done(Make(t, q, t[from])))
  BY DEF createLink
<1>4. << >> \in DOMAIN t
  BY DEF Tree, IsDir
<1> HIDE DEF q, from
<1>5. CASE Bad
  <2>1. r.tree = t
    BY <1>3, <1>5 DEF Failed
  <2>2. StaysTree(r, t, ino)
    BY <2>1, UnchangedTree
  <2> QED
    BY <1>2, <1>5, <2>2, PlaceBelowDirs DEF IsDir
<1>6. CASE ~Bad
  <2> DEFINE node == t[from]
  <2>1. r.ok /\ r.tree = Make(t, q, node)
    BY <1>3, <1>6 DEF Done
  <2>2. node \in Nodes /\ Fits(t, node)
    BY <1>6 DEF Tree, Fits, IsDir
  <2>3. from \in DOMAIN t /\ node = t[from]
    BY <1>6
  <2> HIDE DEF node
  <2>4. /\ Tree(r.tree) /\ HasPaths(r.tree, DOMAIN t \cup {q})
        /\ r.tree[q] = node /\ Kept(r.tree, t, DOMAIN t)
    BY <1>1, <1>4, <1>6, <2>1, <2>2, MakeTree
  <2>5. StaysTree(r, t, ino)
    BY <2>3, <2>4 DEF StaysTree, HasPaths, Kept, Inos
  <2>6. Linked(r, t, q, from)
    BY <2>1, <2>3, <2>4 DEF Linked
  <2> QED
    BY <1>2, <2>5, <2>6
<1> QED
  BY <1>5, <1>6

-----------------------------------------------------------------------------

\* Entries and where the paths of a layer come from.

\* What a layer is.
LayerType == [base : Paths, entries : Seq(Entries)]

\* The fields of an entry, and the path it is for.
LEMMA EntryOf ==
    ASSUME NEW layer \in LayerType, NEW k \in 1..Len(layer.entries),
           NEW e, e = layer.entries[k]
    PROVE  /\ e \in Entries /\ e.type \in EntryTypes
           /\ e.data \in Paths /\ e.name \in Paths /\ e.uid \in Nat /\ e.gid \in Nat
           /\ layer.base \in Paths /\ Full(layer, k) \in Paths
           /\ Full(layer, k) = layer.base \o e.name
           /\ e.type = "whiteout" => Full(layer, k) # << >>
<1>1. e \in Entries /\ layer.base \in Paths
  BY DEF LayerType
<1>2. /\ e.type \in EntryTypes /\ e.data \in Paths /\ e.name \in Paths
      /\ e.uid \in Nat /\ e.gid \in Nat /\ (e.type = "whiteout" => e.name # << >>)
  BY <1>1 DEF Entries, Paths
<1>3. Full(layer, k) = layer.base \o e.name
  BY DEF Full
<1>4. /\ layer.base \o e.name \in Paths
      /\ Len(layer.base \o e.name) = Len(layer.base) + Len(e.name)
  BY <1>1, <1>2, ConcatProperties DEF Paths
<1>5. e.name # << >> => layer.base \o e.name # << >>
  <2>1. Len(e.name) \in Nat /\ Len(layer.base) \in Nat /\ (e.name # << >> => Len(e.name) # 0)
    BY <1>1, <1>2, EmptySeq, LenProperties DEF Paths
  <2>2. Len(<< >>) = 0
    OBVIOUS
  <2> QED
    BY <1>4, <2>1, <2>2
<1> QED
  BY <1>1, <1>2, <1>3, <1>4, <1>5

\* Whatever an entry is, unpacking it leaves a tree.
LEMMA UnpackStays ==
    ASSUME NEW t, Tree(t), NEW layer \in LayerType, NEW k \in 1..Len(layer.entries),
           NEW ino \in Nat \X Nat, ino \notin Inos(t), NEW owners \in SUBSET (Int \X Int),
           NEW r, r = unpack(t, layer.base, ino, layer.entries[k], owners)
    PROVE  StaysTree(r, t, ino)
<1> DEFINE e == layer.entries[k]
           p == Full(layer, k)
<1>1. /\ e.type \in EntryTypes /\ e.data \in Paths /\ p \in Paths
      /\ p = layer.base \o e.name /\ (e.type = "whiteout" => p # << >>)
  BY EntryOf
<1>2. r = CASE e.type = "opaque"   -> cleanWhiteoutDir(t, p)
            [] e.type = "whiteout" -> removeWhiteout(t, p)
            [] OTHER               -> handleEntry(t, p, ino, e, owners)
  BY <1>1 DEF unpack
<1> HIDE DEF p, e
<1>3. CASE e.type = "opaque"
  <2>1. r = cleanWhiteoutDir(t, p)
    BY <1>2, <1>3
  <2> QED
    BY <1>1, <2>1, WhiteoutDir DEF StaysTree
<1>4. CASE e.type = "whiteout"
  <2>1. r = removeWhiteout(t, p)
    BY <1>2, <1>4
  <2> QED
    BY <1>1, <1>4, <2>1, WhiteoutFile DEF StaysTree
<1>5. CASE e.type = "device"
  <2>1. r = handleEntry(t, p, ino, e, owners)
    BY <1>2, <1>5
  <2>2. r.tree = t
    BY <1>5, <2>1 DEF handleEntry, Done
  <2> QED
    BY <2>2, UnchangedTree
<1>6. CASE e.type \in {"reg", "dir", "symlink", "link"}
  <2>1. r = handleEntry(t, p, ino, e, owners)
    BY <1>2, <1>6
  <2>2. /\ e.type = "reg" => r = createRegularFile(t, p, ino, e.data, owners)
        /\ e.type = "dir" => r = createDirectory(t, p, ino, owners)
        /\ e.type = "symlink" => r = createSymlink(t, p, ino, e.data, owners)
        /\ e.type = "link" => r = createLink(t, p, e.data)
    BY <2>1 DEF handleEntry
  <2>3. CASE e.type = "reg"
    BY <1>1, <2>2, <2>3, FileMade
  <2>4. CASE e.type = "dir"
    BY <1>1, <2>2, <2>4, DirectoryMade
  <2>5. CASE e.type = "symlink"
    BY <1>1, <2>2, <2>5, SymlinkMade
  <2>6. CASE e.type = "link"
    BY <1>1, <2>2, <2>6, LinkMade
  <2> QED
    BY <1>6, <2>3, <2>4, <2>5, <2>6
<1> QED
  BY <1>1, <1>3, <1>4, <1>5, <1>6 DEF EntryTypes

\* No path is entered twice.
Once(layer, n) ==
    \A j, k \in 1..n :
        /\ Creates(layer.entries[j]) /\ Creates(layer.entries[k])
        /\ Full(layer, j) = Full(layer, k)
        => j = k

\* Then the entry of a path is the one there is for it.
LEMMA OriginOf ==
    ASSUME NEW layer, NEW n \in Nat, Once(layer, n), NEW paths, NEW p
    PROVE  /\ p \in DOMAIN Origin(paths, layer, n) <=>
                Made(layer, n, p) # {} \/ (p \in paths /\ ~Hides(layer, n, p))
           /\ Made(layer, n, p) = {} /\ p \in DOMAIN Origin(paths, layer, n) =>
                Origin(paths, layer, n)[p] = 0
           /\ \A k \in Made(layer, n, p) : /\ Made(layer, n, p) = {k} /\ k \in 1..n
                                           /\ Origin(paths, layer, n)[p] = k
<1> DEFINE made == {q \in {Full(layer, k) : k \in 1..n} : Made(layer, n, q) # {}}
           f == Origin(paths, layer, n)
<1>1. p \in made <=> Made(layer, n, p) # {}
  BY DEF Made
<1>2. f = [q \in made \cup {q \in paths : ~Hides(layer, n, q)} |->
             IF q \in made THEN Max(Made(layer, n, q)) ELSE 0]
  BY DEF Origin
<1> HIDE DEF made, f
<1>3. ASSUME NEW k \in Made(layer, n, p)
      PROVE  Made(layer, n, p) = {k} /\ k \in 1..n /\ f[p] = k
  <2>1. k \in 1..n /\ Made(layer, n, p) = {k}
    BY DEF Made, Once
  <2>2. Max({k}) = k
    BY <2>1 DEF Max
  <2> QED
    BY <1>1, <1>2, <2>1, <2>2
<1> QED
  BY <1>1, <1>2, <1>3 DEF f

\* The paths and their origins after entry k for p, and after a marker that
\* hides some of them.
Extends(g, f, p, k) ==
    HasPaths(g, DOMAIN f \cup {p}) /\ g[p] = k /\ Same(g, f, DOMAIN f \ {p})

Drops(g, f, gone) == HasPaths(g, DOMAIN f \ gone) /\ Same(g, f, DOMAIN f \ gone)

\* An entry that makes something takes its path.
LEMMA OriginCreates ==
    ASSUME NEW layer, NEW n \in Nat, Once(layer, n), NEW paths,
           Creates(layer.entries[n + 1]), NEW p, p = Full(layer, n + 1),
           NEW f, f = Origin(paths, layer, n), NEW g, g = Origin(paths, layer, n + 1),
           ~(p \in DOMAIN f /\ f[p] # 0)
    PROVE  Once(layer, n + 1) /\ Extends(g, f, p, n + 1)
<1>1. Made(layer, n, p) = {}
  BY OriginOf
<1>2. 1..(n + 1) = 1..n \cup {n + 1}
  OBVIOUS
<1>3. Once(layer, n + 1)
  BY <1>1, <1>2 DEF Once, Made
<1>4. Made(layer, n + 1, p) = {n + 1}
  BY <1>1, <1>2 DEF Made
<1>5. ASSUME NEW q, q # p
      PROVE  Made(layer, n + 1, q) = Made(layer, n, q)
  BY <1>2, <1>5 DEF Made
<1>6. ASSUME NEW q
      PROVE  Hides(layer, n + 1, q) <=> Hides(layer, n, q)
  BY <1>2 DEF Hides, Creates
<1>7. p \in DOMAIN g /\ g[p] = n + 1
  BY <1>3, <1>4, OriginOf
<1>8. ASSUME NEW q, q # p
      PROVE  /\ q \in DOMAIN g <=> q \in DOMAIN f
             /\ q \in DOMAIN f => g[q] = f[q]
  <2>1. /\ q \in DOMAIN g <=> q \in DOMAIN f
    BY <1>3, <1>5, <1>6, <1>8, OriginOf
  <2>2. CASE Made(layer, n, q) = {}
    BY <1>3, <1>5, <1>8, <2>1, <2>2, OriginOf
  <2>3. CASE Made(layer, n, q) # {}
    <3>1. PICK k \in Made(layer, n, q) : TRUE
      BY <2>3
    <3>2. f[q] = k /\ g[q] = k
      BY <1>3, <1>5, <1>8, <3>1, OriginOf
    <3> QED
      BY <2>1, <3>2
  <2> QED
    BY <2>2, <2>3
<1> QED
  BY <1>3, <1>7, <1>8 DEF HasPaths, Same, Extends

\* One that makes nothing only takes from the paths of the layers below what
\* it hides.
LEMMA OriginHides ==
    ASSUME NEW layer, NEW n \in Nat, Once(layer, n), NEW paths,
           NEW e, e = layer.entries[n + 1], ~Creates(e), NEW p, p = Full(layer, n + 1),
           NEW f, f = Origin(paths, layer, n), NEW g, g = Origin(paths, layer, n + 1),
           NEW gone, gone = {q \in DOMAIN f : \/ e.type = "whiteout" /\ IsPrefix(p, q)
                                              \/ e.type = "opaque" /\ IsStrictPrefix(p, q)},
           \A q \in gone : f[q] = 0
    PROVE  Once(layer, n + 1) /\ Drops(g, f, gone)
<1>2. 1..(n + 1) = 1..n \cup {n + 1}
  OBVIOUS
<1>3. Once(layer, n + 1)
  BY <1>2 DEF Once
<1>5. ASSUME NEW q
      PROVE  Made(layer, n + 1, q) = Made(layer, n, q)
  BY <1>2 DEF Made
<1> DEFINE Hidden(q) == \/ e.type = "whiteout" /\ IsPrefix(p, q)
                        \/ e.type = "opaque" /\ IsStrictPrefix(p, q)
<1>6. ASSUME NEW q
      PROVE  Hides(layer, n + 1, q) <=> Hides(layer, n, q) \/ Hidden(q)
  BY <1>2 DEF Hides
<1>7. ASSUME NEW k, NEW q, k \in Made(layer, n, q)
      PROVE  k # 0
  BY <1>7 DEF Made
<1>8. gone = {q \in DOMAIN f : Hidden(q)}
  OBVIOUS
<1> HIDE DEF Hidden
<1>9. ASSUME NEW q
      PROVE  /\ q \in DOMAIN g <=> q \in DOMAIN f \ gone
             /\ q \in DOMAIN g => g[q] = f[q]
  <2>2. CASE Made(layer, n, q) = {}
    <3>1. q \in DOMAIN g <=> q \in DOMAIN f \ gone
      BY <1>3, <1>5, <1>6, <1>8, <2>2, OriginOf
    <3> QED
      BY <1>3, <1>5, <2>2, <3>1, OriginOf
  <2>3. CASE Made(layer, n, q) # {}
    <3>1. PICK k \in Made(layer, n, q) : TRUE
      BY <2>3
    <3>2. f[q] = k /\ g[q] = k /\ q \in DOMAIN f /\ q \in DOMAIN g
      BY <1>3, <1>5, <3>1, OriginOf
    <3>3. k # 0
      BY <1>7, <3>1
    <3> QED
      BY <3>2, <3>3
  <2> QED
    BY <2>2, <2>3
<1> QED
  BY <1>3, <1>9 DEF HasPaths, Same, Drops

\* Below the layer there is nothing but the paths given.
LEMMA OriginZero ==
    ASSUME NEW layer, NEW paths
    PROVE  /\ Once(layer, 0) /\ HasPaths(Origin(paths, layer, 0), paths)
           /\ \A p \in paths : Origin(paths, layer, 0)[p] = 0
<1>1. Once(layer, 0)
  BY DEF Once
<1>2. \A p : Made(layer, 0, p) = {} /\ ~Hides(layer, 0, p)
  BY DEF Made, Hides
<1>3. ASSUME NEW p
      PROVE  /\ p \in DOMAIN Origin(paths, layer, 0) <=> p \in paths
             /\ p \in paths => Origin(paths, layer, 0)[p] = 0
  <2>1. 0 \in Nat /\ Made(layer, 0, p) = {} /\ ~Hides(layer, 0, p)
    BY <1>2
  <2> QED
    BY <1>1, <2>1, OriginOf
<1> QED
  BY <1>1, <1>3 DEF HasPaths

(***************************************************************************)
(* A tree is what the entries have made of the one below, f giving for     *)
(* each path where it comes from: 0 for what is as it was, in the same     *)
(* file, and else an entry, in a file that has no name that is as it was.  *)
(***************************************************************************)
Agrees(t, b, layer, f, owners) ==
    /\ HasPaths(t, DOMAIN f)
    /\ \A q \in DOMAIN f :
         IF f[q] = 0
           THEN /\ q \in DOMAIN b /\ t[q].kind = b[q].kind
                /\ Desc(t[q]) = Desc(b[q]) /\ t[q].ino = b[q].ino
           ELSE /\ t[q].kind = KindOf(layer.entries[f[q]])
                /\ Desc(t[q]) = Entered(layer, f[q], owners)
    /\ \A q, x \in DOMAIN f : f[q] = 0 /\ f[x] # 0 => t[q].ino # t[x].ino

\* Nodes of which the same is told are of one kind.
LEMMA DescKind ==
    ASSUME NEW s, NEW t, Desc(s) = Desc(t)
    PROVE  s.kind = t.kind
BY DEF Desc, Described

\* s has at p what entry k makes, and else what t has.
Adds(s, t, f, p, layer, k, owners) ==
    /\ HasPaths(s, DOMAIN t \cup {p}) /\ Kept(s, t, DOMAIN t \ {p})
    /\ Desc(s[p]) = Entered(layer, k, owners) /\ s[p].kind = KindOf(layer.entries[k])
    /\ \A q \in DOMAIN f \ {p} : f[q] = 0 => t[q].ino # s[p].ino

\* An entry that makes a file keeps the agreement.
LEMMA AgreesMade ==
    ASSUME NEW t, NEW b, NEW layer, NEW f, NEW owners, Agrees(t, b, layer, f, owners),
           NEW p, NEW k, k # 0, NEW g, Extends(g, f, p, k),
           NEW s, Adds(s, t, f, p, layer, k, owners)
    PROVE  Agrees(s, b, layer, g, owners)
<1> USE DEF Adds, Extends
<1>1. HasPaths(s, DOMAIN g)
  BY DEF HasPaths, Agrees
<1>2. ASSUME NEW q \in DOMAIN g, q # p
      PROVE  /\ q \in DOMAIN f /\ g[q] = f[q] /\ s[q].ino = t[q].ino
             /\ Desc(s[q]) = Desc(t[q]) /\ s[q].kind = t[q].kind
  <2>1. q \in DOMAIN f /\ q \in DOMAIN t
    BY <1>2 DEF HasPaths, Agrees
  <2>2. g[q] = f[q] /\ s[q].ino = t[q].ino /\ Desc(s[q]) = Desc(t[q])
    BY <1>2, <2>1 DEF Same, Kept
  <2> QED
    BY <2>1, <2>2, DescKind
<1>3. ASSUME NEW q \in DOMAIN g
      PROVE  IF g[q] = 0
               THEN /\ q \in DOMAIN b /\ s[q].kind = b[q].kind
                    /\ Desc(s[q]) = Desc(b[q]) /\ s[q].ino = b[q].ino
               ELSE /\ s[q].kind = KindOf(layer.entries[g[q]])
                    /\ Desc(s[q]) = Entered(layer, g[q], owners)
  <2>1. CASE q = p
    BY <2>1
  <2>2. CASE q # p
    BY <1>2, <2>2 DEF Agrees
  <2> QED
    BY <2>1, <2>2
<1>4. ASSUME NEW q \in DOMAIN g, NEW x \in DOMAIN g, g[q] = 0, g[x] # 0
      PROVE  s[q].ino # s[x].ino
  <2>1. q # p
    BY <1>4
  <2>2. q \in DOMAIN f /\ f[q] = 0 /\ s[q].ino = t[q].ino
    BY <1>2, <1>4, <2>1
  <2>3. CASE x = p
    BY <2>1, <2>2, <2>3
  <2>4. CASE x # p
    BY <1>2, <1>4, <2>2, <2>4 DEF Agrees
  <2> QED
    BY <2>3, <2>4
<1> QED
  BY <1>1, <1>3, <1>4 DEF Agrees

\* So does a marker that removes what it hides.
LEMMA AgreesGone ==
    ASSUME NEW t, NEW b, NEW layer, NEW f, NEW owners, Agrees(t, b, layer, f, owners),
           NEW gone, NEW g, Drops(g, f, gone),
           NEW s, HasPaths(s, DOMAIN t \ gone), Kept(s, t, DOMAIN t \ gone)
    PROVE  Agrees(s, b, layer, g, owners)
<1> USE DEF Drops
<1>1. HasPaths(s, DOMAIN g)
  BY DEF HasPaths, Agrees
<1>2. ASSUME NEW q \in DOMAIN g
      PROVE  /\ q \in DOMAIN f /\ g[q] = f[q] /\ s[q].ino = t[q].ino
             /\ Desc(s[q]) = Desc(t[q]) /\ s[q].kind = t[q].kind
  <2>1. q \in DOMAIN f \ gone /\ q \in DOMAIN t \ gone
    BY <1>2 DEF HasPaths, Agrees
  <2>2. g[q] = f[q] /\ s[q].ino = t[q].ino /\ Desc(s[q]) = Desc(t[q])
    BY <1>2, <2>1 DEF Same, Kept
  <2> QED
    BY <2>1, <2>2, DescKind
<1> QED
  BY <1>1, <1>2 DEF Agrees

-----------------------------------------------------------------------------

\* The entries of a regular layer.

\* What it is for an entry to be regular, said of the tree it is unpacked in.
LEMMA RegularOf ==
    ASSUME NEW t, Tree(t), NEW b, NEW layer, NEW n \in Nat, NEW owners,
           NEW f, f = Origin(DOMAIN b, layer, n), Agrees(t, b, layer, f, owners),
           RegularEntry(b, layer, n + 1),
           NEW e, e = layer.entries[n + 1], NEW p \in Paths, p = Full(layer, n + 1)
    PROVE  /\ e.type = "whiteout" /\ p # << >> =>
                /\ NoLink(t, Front(p))
                /\ \A q \in DOMAIN f : f[q] # 0 => ~IsPrefix(p, q)
           /\ e.type = "opaque" =>
                /\ UnderDirs(t, p) /\ IsDir(t, p)
                /\ \A q \in DOMAIN f : f[q] # 0 => ~IsStrictPrefix(p, q)
           /\ Creates(e) =>
                /\ UnderDirs(t, p) /\ ~(p \in DOMAIN f /\ f[p] # 0)
                /\ p = << >> => e.type = "dir"
                /\ p \in DOMAIN t => e.type # "link" /\ t[p].kind = KindOf(e)
                /\ p \in DOMAIN t /\ e.type = "reg" =>
                     \A q \in DOMAIN t \ {p} : t[q].ino # t[p].ino
                /\ e.type = "link" =>
                     /\ e.data \in DOMAIN f /\ f[e.data] # 0
                     /\ layer.entries[f[e.data]].type = "reg"
<1> DEFINE Kind(q) == IF f[q] = 0 THEN b[q].kind ELSE KindOf(layer.entries[f[q]])
           above == {SubSeq(p, 1, m) : m \in 0..(Len(p) - 1)}
           earlier == {q \in DOMAIN f : f[q] # 0}
<1>1. (n + 1) - 1 = n
  OBVIOUS
<1>2. DOMAIN t = DOMAIN f /\ \A q \in DOMAIN f : Kind(q) = t[q].kind
  BY DEF Agrees, HasPaths
<1>3. /\ e.type = "whiteout" =>
           /\ \A q \in above \cap DOMAIN f : Kind(q) # "symlink"
           /\ \A q \in earlier : ~IsPrefix(p, q)
      /\ e.type = "opaque" =>
           /\ \A q \in above \cup {p} : q \in DOMAIN f /\ Kind(q) = "dir"
           /\ \A q \in earlier : ~IsStrictPrefix(p, q)
      /\ Creates(e) =>
           /\ \A q \in above : q \in DOMAIN f /\ Kind(q) = "dir"
           /\ p \notin earlier /\ (p = << >> => e.type = "dir")
           /\ p \in DOMAIN f => e.type # "link" /\ Kind(p) = KindOf(e)
           /\ p \in DOMAIN f /\ e.type = "reg" =>
                \A q \in DOMAIN f \ {p} : f[q] = 0 => b[q].ino # b[p].ino
           /\ e.type = "link" => e.data \in earlier /\ layer.entries[f[e.data]].type = "reg"
  BY <1>1 DEF RegularEntry
<1> HIDE DEF Kind
<1>4. ASSUME \A q \in above : q \in DOMAIN f /\ Kind(q) = "dir"
      PROVE  UnderDirs(t, p)
  BY <1>2, <1>4 DEF UnderDirs, IsDir
<1>5. ASSUME p # << >>, \A q \in above \cap DOMAIN f : Kind(q) # "symlink"
      PROVE  NoLink(t, Front(p))
  <2>1. /\ Len(Front(p)) = Len(p) - 1 /\ Len(p) \in Nat
        /\ \A m \in 0..(Len(p)-1) : SubSeq(Front(p), 1, m) = SubSeq(p, 1, m)
    BY <1>5, FrontOf
  <2>2. ASSUME NEW m \in 1..Len(Front(p)), SubSeq(Front(p), 1, m) \in DOMAIN t
        PROVE  t[SubSeq(Front(p), 1, m)].kind # "symlink"
    <3>1. m \in 0..(Len(p) - 1)
      BY <2>1
    <3>2. SubSeq(Front(p), 1, m) \in above \cap DOMAIN f
      BY <1>2, <2>1, <2>2, <3>1
    <3> QED
      BY <1>2, <1>5, <3>2
  <2> QED
    BY <2>2 DEF NoLink
<1>6. ASSUME p \in DOMAIN f, p \notin earlier,
             \A q \in DOMAIN f \ {p} : f[q] = 0 => b[q].ino # b[p].ino
      PROVE  \A q \in DOMAIN t \ {p} : t[q].ino # t[p].ino
  BY <1>2, <1>6 DEF Agrees
<1>7. e.type = "opaque" => IsDir(t, p)
  BY <1>2, <1>3 DEF IsDir
<1> HIDE DEF above
<1> QED
  BY <1>2, <1>3, <1>4, <1>5, <1>6, <1>7

\* What is removed is what a marker hides.
LEMMA BelowIsHidden ==
    ASSUME NEW t, Tree(t), NEW p \in Paths
    PROVE  /\ Below(t, p) = {q \in DOMAIN t : IsStrictPrefix(p, q)}
           /\ DOMAIN t \ (Below(t, p) \cup {p}) = DOMAIN t \ {q \in DOMAIN t : IsPrefix(p, q)}
<1>1. Len(p) \in Nat /\ SubSeq(p, 1, Len(p)) = p
  BY PrefixOf, LenProperties DEF Paths
<1>2. ASSUME NEW q \in DOMAIN t
      PROVE  /\ IsPrefix(p, q) <=> (q \in Below(t, p) \/ q = p)
             /\ IsStrictPrefix(p, q) <=> q \in Below(t, p)
  <2>1. q \in Paths /\ Len(q) \in Nat /\ SubSeq(q, 1, Len(q)) = q
    BY PrefixOf, LenProperties DEF Paths, Tree
  <2>2. IsPrefix(p, q) <=> Len(p) <= Len(q) /\ p = SubSeq(q, 1, Len(p))
    BY <1>1 DEF IsPrefix
  <2>3. Len(p) = Len(q) /\ p = SubSeq(q, 1, Len(p)) => p = q
    BY <2>1
  <2>4. q \in Below(t, p) <=> Len(q) > Len(p) /\ p = SubSeq(q, 1, Len(p))
    BY DEF Below
  <2>5. IsStrictPrefix(p, q) <=> IsPrefix(p, q) /\ p # q
    BY DEF IsStrictPrefix
  <2>6. IsPrefix(p, q) <=> (q \in Below(t, p) \/ q = p)
    <3>1. CASE q = p
      BY <1>1, <2>2, <3>1
    <3>2. CASE q # p
      <4>1. Len(p) \in Nat /\ Len(q) \in Nat
        BY <1>1, <2>1
      <4>2. Len(p) <= Len(q) /\ p = SubSeq(q, 1, Len(p)) => Len(q) > Len(p)
        BY <2>3, <3>2, <4>1
      <4>3. Len(q) > Len(p) => Len(p) <= Len(q)
        BY <4>1
      <4> QED
        BY <2>2, <2>4, <3>2, <4>2, <4>3
    <3> QED
      BY <3>1, <3>2
  <2>7. IsStrictPrefix(p, q) <=> q \in Below(t, p)
    BY <2>1, <2>4, <2>5, <2>6
  <2> QED
    BY <2>6, <2>7
<1> QED
  BY <1>2 DEF Below

\* What is told of a node has its kind.
LEMMA KindOfDesc ==
    ASSUME NEW s, NEW kind, NEW data, NEW own, NEW mtime,
           Desc(s) = Described(kind, data, own, mtime)
    PROVE  s.kind = kind
BY DEF Desc, Described

\* There is no choice among one owner.
LEMMA ChosenOne ==
    ASSUME NEW x
    PROVE  Chosen({x}) = x /\ {x} # {}
BY DEF Chosen

\* A regular entry of the layer makes of the tree what it means.
Follows(t, b, layer, n, owners) ==
    Once(layer, n) /\ Agrees(t, b, layer, Origin(DOMAIN b, layer, n), owners)

\* An entry is unpacked, and to what it means.
EntryWorks(r, b, layer, n, owners) == r.ok /\ Follows(r.tree, b, layer, n, owners)

\* A regular file, directory or symbolic link of a regular layer.
LEMMA MadeWorks ==
    ASSUME NEW t, Tree(t), NEW b, NEW layer \in LayerType, NEW n \in Nat,
           n + 1 \in 1..Len(layer.entries), NEW owners,
           NEW f, f = Origin(DOMAIN b, layer, n), Agrees(t, b, layer, f, owners),
           NEW g, g = Origin(DOMAIN b, layer, n + 1),
           Once(layer, n), RegularEntry(b, layer, n + 1),
           NEW e, e = layer.entries[n + 1], e.type \in {"reg", "dir", "symlink"},
           NEW ino \in Nat \X Nat, ino \notin Inos(t),
           owners[n + 1] \in Int \X Int,
           NEW r, r = unpack(t, layer.base, ino, e, {owners[n + 1]})
    PROVE  EntryWorks(r, b, layer, n + 1, owners)
<1> DEFINE p == Full(layer, n + 1)
           own == owners[n + 1]
           data == IF e.type = "dir" THEN << >> ELSE e.data
<1>1. /\ e.data \in Paths /\ p \in Paths /\ p = layer.base \o e.name
      /\ p = Full(layer, n + 1)
  BY EntryOf
<1>2. Creates(e) /\ Creates(layer.entries[n + 1])
  BY DEF Creates
<1> HIDE DEF p
<1>3. /\ UnderDirs(t, p) /\ ~(p \in DOMAIN f /\ f[p] # 0)
      /\ p = << >> => e.type = "dir"
      /\ p \in DOMAIN t => t[p].kind = KindOf(e)
      /\ p \in DOMAIN t /\ e.type = "reg" => \A q \in DOMAIN t \ {p} : t[q].ino # t[p].ino
  BY <1>1, <1>2, RegularOf
<1>4. Once(layer, n + 1) /\ Extends(g, f, p, n + 1)
  BY <1>1, <1>2, <1>3, OriginCreates
<1>5. {own} \in SUBSET (Int \X Int) /\ {own} # {} /\ Chosen({own}) = own
  BY ChosenOne
<1>6. Entered(layer, n + 1, owners) = Described(KindOf(e), data, own, "tar")
  BY DEF Entered, Source
<1>7. r = handleEntry(t, p, ino, e, {own})
  BY <1>1 DEF unpack
<1> HIDE DEF own
<1>8. /\ e.type = "reg" => r = createRegularFile(t, p, ino, e.data, {own})
      /\ e.type = "dir" => r = createDirectory(t, p, ino, {own})
      /\ e.type = "symlink" => r = createSymlink(t, p, ino, e.data, {own})
  BY <1>7 DEF handleEntry
<1>9. /\ Placed(r, t, p, ino, Described(KindOf(e), data, own, "tar"))
      /\ e.type = "symlink" => r.tree[p].ino = ino
  <2>1. CASE e.type = "reg"
    <3>1. p # << >> /\ KindOf(e) = "file" /\ data = e.data
      BY <1>3, <2>1 DEF KindOf
    <3>2. r = createRegularFile(t, p, ino, e.data, {own})
      BY <1>8, <2>1
    <3>3. Placed(r, t, p, ino, Described("file", e.data, Chosen({own}), "tar"))
      BY <1>1, <1>3, <1>5, <2>1, <3>1, <3>2, FileMade
    <3> QED
      BY <1>5, <2>1, <3>1, <3>3
  <2>2. CASE e.type = "dir"
    <3>1. KindOf(e) = "dir" /\ data = << >>
      BY <2>2 DEF KindOf
    <3>2. r = createDirectory(t, p, ino, {own})
      BY <1>8, <2>2
    <3>3. Placed(r, t, p, ino, Described("dir", << >>, Chosen({own}), "tar"))
      BY <1>1, <1>3, <1>5, <3>1, <3>2, DirectoryMade
    <3> QED
      BY <1>5, <2>2, <3>1, <3>3
  <2>3. CASE e.type = "symlink"
    <3>1. p # << >> /\ KindOf(e) = "symlink" /\ data = e.data
      BY <1>3, <2>3 DEF KindOf
    <3>2. r = createSymlink(t, p, ino, e.data, {own})
      BY <1>8, <2>3
    <3>3. /\ Placed(r, t, p, ino, Described("symlink", e.data, Chosen({own}), "tar"))
          /\ r.tree[p].ino = ino
      <4>1. p \in DOMAIN t => t[p].kind = "symlink"
        BY <1>3, <3>1
      <4>2. p \in Paths /\ e.data \in Paths /\ {own} \in SUBSET (Int \X Int) /\ {own} # {}
        BY <1>1, <1>5
      <4>3. UnderDirs(t, p) /\ p # << >>
        BY <1>3, <3>1
      <4> DEFINE target == e.data
                 os == {own}
      <4>4. target \in Paths /\ os \in SUBSET (Int \X Int) /\ os # {}
            /\ r = createSymlink(t, p, ino, target, os)
        BY <3>2, <4>2
      <4> HIDE DEF target, os
      <4>5. /\ Placed(r, t, p, ino, Described("symlink", target, Chosen(os), "tar"))
            /\ r.tree[p].ino = ino
        BY <4>1, <4>2, <4>3, <4>4, SymlinkMade
      <4> QED
        BY <4>5 DEF target, os
    <3> QED
      BY <1>5, <3>1, <3>3
  <2> QED
    BY <2>1, <2>2, <2>3
<1> HIDE DEF data
<1>10. /\ r.ok /\ HasPaths(r.tree, DOMAIN t \cup {p}) /\ Kept(r.tree, t, DOMAIN t \ {p})
       /\ Desc(r.tree[p]) = Entered(layer, n + 1, owners)
       /\ r.tree[p].ino = ino \/ (p \in DOMAIN t /\ r.tree[p].ino = t[p].ino)
  BY <1>6, <1>9 DEF Placed
<1>11. r.tree[p].kind = KindOf(layer.entries[n + 1])
  BY <1>6, <1>10, KindOfDesc
<1>12. DOMAIN t = DOMAIN f
  BY DEF Agrees, HasPaths
<1>13. \A q \in DOMAIN f \ {p} : t[q].ino # r.tree[p].ino
  <2>1. CASE r.tree[p].ino = ino
    BY <1>12, <2>1 DEF Inos
  <2>2. CASE r.tree[p].ino # ino
    <3>1. p \in DOMAIN t /\ r.tree[p].ino = t[p].ino /\ e.type \in {"reg", "dir"}
      BY <1>9, <1>10, <2>2
    <3>2. CASE e.type = "reg"
      BY <1>3, <1>12, <3>1, <3>2
    <3>3. CASE e.type = "dir"
      <4>1. t[p].kind = "dir"
        BY <1>3, <3>1, <3>3 DEF KindOf
      <4> QED
        BY <1>12, <3>1, <4>1 DEF Tree
    <3> QED
      BY <3>1, <3>2, <3>3
  <2> QED
    BY <2>1, <2>2
<1>14. Agrees(r.tree, b, layer, g, owners)
  <2> DEFINE k == n + 1
             s == r.tree
  <2>1. Adds(s, t, f, p, layer, k, owners)
    BY <1>10, <1>11, <1>13 DEF Adds
  <2>2. k # 0 /\ Extends(g, f, p, k)
    BY <1>4
  <2> HIDE DEF k, s
  <2>3. Agrees(s, b, layer, g, owners)
    BY ONLY Agrees(t, b, layer, f, owners), <2>1, <2>2, AgreesMade
  <2> QED
    BY <2>3 DEF s
<1> QED
  BY <1>4, <1>10, <1>14 DEF EntryWorks, Follows

\* A hard link of a regular layer.
LEMMA LinkWorks ==
    ASSUME NEW t, Tree(t), NEW b, NEW layer \in LayerType, NEW n \in Nat,
           n + 1 \in 1..Len(layer.entries), NEW owners,
           NEW f, f = Origin(DOMAIN b, layer, n), Agrees(t, b, layer, f, owners),
           NEW g, g = Origin(DOMAIN b, layer, n + 1),
           Once(layer, n), RegularEntry(b, layer, n + 1),
           NEW e, e = layer.entries[n + 1], e.type = "link",
           NEW ino, NEW os, NEW r, r = unpack(t, layer.base, ino, e, os)
    PROVE  EntryWorks(r, b, layer, n + 1, owners)
<1> DEFINE p == Full(layer, n + 1)
           to == e.data
           m == f[to]
<1>1. /\ to \in Paths /\ p \in Paths /\ p = layer.base \o e.name
      /\ p = Full(layer, n + 1)
  BY EntryOf
<1>2. Creates(e) /\ Creates(layer.entries[n + 1])
  BY DEF Creates
<1> HIDE DEF p
<1>3. /\ UnderDirs(t, p) /\ ~(p \in DOMAIN f /\ f[p] # 0)
      /\ p # << >> /\ p \notin DOMAIN t
      /\ to \in DOMAIN f /\ m # 0 /\ layer.entries[m].type = "reg"
  BY <1>1, <1>2, RegularOf
<1>4. Once(layer, n + 1) /\ Extends(g, f, p, n + 1)
  BY <1>1, <1>2, <1>3, OriginCreates
<1>5. r = createLink(t, p, to)
  BY <1>1 DEF unpack, handleEntry
<1> HIDE DEF to
<1>6. DOMAIN t = DOMAIN f
  BY DEF Agrees, HasPaths
<1>7. t[to].kind = "file" /\ Desc(t[to]) = Entered(layer, m, owners)
  BY <1>3 DEF Agrees, KindOf
<1>8. Entered(layer, n + 1, owners) = Entered(layer, m, owners)
  <2>1. PICK k \in Made(layer, n, to) : TRUE
    BY <1>3, OriginOf
  <2>2. Made(layer, n, to) = {k} /\ k \in 1..n /\ m = k
    BY <2>1, OriginOf
  <2>3. Max({k}) = k
    BY <2>2 DEF Max
  <2>4. Source(layer, n + 1) = m
    <3>1. (n + 1) - 1 = n
      OBVIOUS
    <3> QED
      BY <2>2, <2>3, <3>1 DEF Source, to
  <2>5. Source(layer, m) = m
    BY <1>3 DEF Source
  <2> QED
    BY <2>4, <2>5 DEF Entered
<1>9. /\ r.ok /\ HasPaths(r.tree, DOMAIN t \cup {p})
      /\ Kept(r.tree, t, DOMAIN t) /\ r.tree[p] = t[to]
  <2>1. p \in Paths /\ to \in Paths /\ UnderDirs(t, p) /\ p # << >> /\ p \notin DOMAIN t
    BY <1>1, <1>3
  <2>2. to \in DOMAIN t /\ t[to].kind # "dir"
    BY <1>3, <1>6, <1>7
  <2>3. StaysTree(r, t, ino) /\ Linked(r, t, p, to)
    BY <1>5, <2>1, <2>2, LinkMade
  <2> QED
    BY <2>3 DEF Linked
<1>10. Agrees(r.tree, b, layer, g, owners)
  <2> DEFINE k == n + 1
             s == r.tree
  <2>1. Adds(s, t, f, p, layer, k, owners)
    <3>1. s[p].kind = KindOf(layer.entries[k]) /\ Desc(s[p]) = Entered(layer, k, owners)
      BY <1>7, <1>8, <1>9 DEF KindOf
    <3>2. \A q \in DOMAIN f \ {p} : f[q] = 0 => t[q].ino # s[p].ino
      BY <1>3, <1>9 DEF Agrees
    <3>3. Kept(s, t, DOMAIN t \ {p})
      BY <1>9 DEF Kept
    <3> QED
      BY <1>9, <3>1, <3>2, <3>3 DEF Adds
  <2>2. k # 0 /\ Extends(g, f, p, k)
    BY <1>4
  <2> HIDE DEF k, s
  <2>3. Agrees(s, b, layer, g, owners)
    BY ONLY Agrees(t, b, layer, f, owners), <2>1, <2>2, AgreesMade
  <2> QED
    BY <2>3 DEF s
<1> QED
  BY <1>4, <1>9, <1>10 DEF EntryWorks, Follows

\* A whiteout, an opaque marker, and an entry that makes nothing.
LEMMA MarkerWorks ==
    ASSUME NEW t, Tree(t), NEW b, NEW layer \in LayerType, NEW n \in Nat,
           n + 1 \in 1..Len(layer.entries), NEW owners,
           NEW f, f = Origin(DOMAIN b, layer, n), Agrees(t, b, layer, f, owners),
           NEW g, g = Origin(DOMAIN b, layer, n + 1),
           Once(layer, n), RegularEntry(b, layer, n + 1),
           NEW e, e = layer.entries[n + 1], e.type \in {"whiteout", "opaque", "device"},
           NEW ino, NEW os, NEW r, r = unpack(t, layer.base, ino, e, os)
    PROVE  EntryWorks(r, b, layer, n + 1, owners)
<1> DEFINE p == Full(layer, n + 1)
           gone == {q \in DOMAIN f : \/ e.type = "whiteout" /\ IsPrefix(p, q)
                                     \/ e.type = "opaque" /\ IsStrictPrefix(p, q)}
<1>1. /\ p \in Paths /\ p = layer.base \o e.name /\ p = Full(layer, n + 1)
      /\ e.type = "whiteout" => p # << >>
  BY EntryOf
<1>2. ~Creates(e)
  BY DEF Creates
<1>6. DOMAIN t = DOMAIN f
  BY DEF Agrees, HasPaths
<1> HIDE DEF p
<1>3. /\ e.type = "whiteout" =>
           NoLink(t, Front(p)) /\ \A q \in DOMAIN f : f[q] # 0 => ~IsPrefix(p, q)
      /\ e.type = "opaque" =>
           /\ UnderDirs(t, p) /\ IsDir(t, p)
           /\ \A q \in DOMAIN f : f[q] # 0 => ~IsStrictPrefix(p, q)
  BY <1>1, RegularOf
<1>4. \A q \in gone : f[q] = 0
  BY <1>3
<1>5. Once(layer, n + 1) /\ Drops(g, f, gone)
  <2>1. gone = {q \in DOMAIN f : \/ e.type = "whiteout" /\ IsPrefix(p, q)
                                 \/ e.type = "opaque" /\ IsStrictPrefix(p, q)}
    OBVIOUS
  <2> HIDE DEF gone
  <2> QED
    BY <1>1, <1>2, <1>4, <2>1, OriginHides
<1>7. r.ok /\ HasPaths(r.tree, DOMAIN t \ gone) /\ Kept(r.tree, t, DOMAIN t \ gone)
  <2>1. CASE e.type = "whiteout"
    <3>1. r = removeWhiteout(t, p)
      BY <1>1, <2>1 DEF unpack
    <3>2. /\ r.ok /\ DOMAIN r.tree = DOMAIN t \ (Below(t, p) \cup {p})
          /\ Kept(r.tree, t, DOMAIN r.tree)
      BY <1>1, <1>3, <2>1, <3>1, WhiteoutFile
    <3>3. gone = {q \in DOMAIN t : IsPrefix(p, q)}
      BY <1>6, <2>1
    <3>4. DOMAIN r.tree = DOMAIN t \ gone
      BY <1>1, <3>2, <3>3, BelowIsHidden
    <3> QED
      BY <3>2, <3>4 DEF HasPaths
  <2>2. CASE e.type = "opaque"
    <3>1. r = cleanWhiteoutDir(t, p)
      BY <1>1, <2>2 DEF unpack
    <3>2. /\ r.ok /\ DOMAIN r.tree = DOMAIN t \ Below(t, p) /\ Kept(r.tree, t, DOMAIN r.tree)
      BY <1>1, <1>3, <2>2, <3>1, WhiteoutDir DEF UnderDirs
    <3>3. gone = {q \in DOMAIN t : IsStrictPrefix(p, q)}
      BY <1>6, <2>2
    <3>4. DOMAIN r.tree = DOMAIN t \ gone
      BY <1>1, <3>2, <3>3, BelowIsHidden
    <3> QED
      BY <3>2, <3>4 DEF HasPaths
  <2>3. CASE e.type = "device"
    <3>1. r.ok /\ r.tree = t
      BY <2>3 DEF unpack, handleEntry, Done
    <3>2. DOMAIN t \ gone = DOMAIN t
      BY <2>3
    <3> HIDE DEF gone
    <3> QED
      BY <3>1, <3>2 DEF HasPaths, Kept
  <2> QED
    BY <2>1, <2>2, <2>3
<1> HIDE DEF gone
<1>8. Agrees(r.tree, b, layer, g, owners)
  <2> DEFINE s == r.tree
  <2>1. HasPaths(s, DOMAIN t \ gone) /\ Kept(s, t, DOMAIN t \ gone)
    BY <1>7
  <2> HIDE DEF s
  <2>2. Agrees(s, b, layer, g, owners)
    BY ONLY Agrees(t, b, layer, f, owners), <1>5, <2>1, AgreesGone
  <2> QED
    BY <2>2 DEF s
<1> QED
  BY <1>5, <1>7, <1>8 DEF EntryWorks, Follows

\* Every entry of a regular layer.
LEMMA EntryFollows ==
    ASSUME NEW t, Tree(t), NEW b, NEW layer \in LayerType, NEW n \in Nat,
           n + 1 \in 1..Len(layer.entries), NEW owners, Follows(t, b, layer, n, owners),
           RegularEntry(b, layer, n + 1),
           NEW e, e = layer.entries[n + 1],
           NEW ino \in Nat \X Nat, ino \notin Inos(t), NEW os,
           Creates(e) /\ e.type # "link" =>
               os = {owners[n + 1]} /\ owners[n + 1] \in Int \X Int,
           NEW r, r = unpack(t, layer.base, ino, e, os)
    PROVE  EntryWorks(r, b, layer, n + 1, owners)
<1> DEFINE f == Origin(DOMAIN b, layer, n)
           g == Origin(DOMAIN b, layer, n + 1)
<1>1. Once(layer, n) /\ Agrees(t, b, layer, f, owners)
  BY DEF Follows
<1>2. f = Origin(DOMAIN b, layer, n) /\ g = Origin(DOMAIN b, layer, n + 1)
  OBVIOUS
<1>3. e.type \in EntryTypes
  BY EntryOf
<1> HIDE DEF f, g
<1>4. CASE e.type \in {"reg", "dir", "symlink"}
  <2>1. owners[n + 1] \in Int \X Int /\ r = unpack(t, layer.base, ino, e, {owners[n + 1]})
    BY <1>4 DEF Creates
  <2> QED
    BY <1>1, <1>2, <1>4, <2>1, MadeWorks
<1>5. CASE e.type = "link"
  BY <1>1, <1>2, <1>5, LinkWorks
<1>6. CASE e.type \in {"whiteout", "opaque", "device"}
  BY <1>1, <1>2, <1>6, MarkerWorks
<1> QED
  BY <1>3, <1>4, <1>5, <1>6 DEF EntryTypes

\* Before the first entry the tree is the one below.
LEMMA FollowsStart ==
    ASSUME NEW b, NEW layer, NEW owners
    PROVE  Follows(b, b, layer, 0, owners)
<1> DEFINE f == Origin(DOMAIN b, layer, 0)
<1>1. Once(layer, 0) /\ HasPaths(f, DOMAIN b) /\ \A p \in DOMAIN b : f[p] = 0
  BY OriginZero
<1> HIDE DEF f
<1>2. Agrees(b, b, layer, f, owners)
  BY <1>1 DEF Agrees, HasPaths
<1> QED
  BY <1>1, <1>2 DEF Follows, f

\* What follows all entries is what the layer means.
LEMMA FollowsEnd ==
    ASSUME NEW t, NEW b, NEW layer, NEW n, NEW owners, Follows(t, b, layer, n, owners)
    PROVE  Describe(t) = Overlay(Describe(b), layer, n, owners)
<1> DEFINE f == Origin(DOMAIN b, layer, n)
<1>1. Agrees(t, b, layer, f, owners)
  BY DEF Follows
<1>2. DOMAIN Describe(b) = DOMAIN b
  BY DEF Describe
<1>3. Overlay(Describe(b), layer, n, owners)
        = [p \in DOMAIN f |-> IF f[p] = 0 THEN Describe(b)[p] ELSE Entered(layer, f[p], owners)]
  BY <1>2 DEF Overlay
<1> HIDE DEF f
<1>4. Describe(t) = [p \in DOMAIN f |-> Desc(t[p])]
  BY <1>1 DEF Describe, Desc, Agrees, HasPaths
<1>5. ASSUME NEW p \in DOMAIN f
      PROVE  Desc(t[p]) = IF f[p] = 0 THEN Describe(b)[p] ELSE Entered(layer, f[p], owners)
  BY <1>1 DEF Agrees, Describe, Desc
<1> QED
  BY <1>3, <1>4, <1>5
=============================================================================
