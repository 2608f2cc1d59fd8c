----------------------------- MODULE IDMapping -----------------------------
(***************************************************************************)
(* Id mappings: how a store gets them, how the unpacker that runs as root  *)
(* applies them itself, and how the kernel applies them inside a user      *)
(* namespace.                                                              *)
(***************************************************************************)
EXTENDS Integers, Sequences, FiniteSetsExt

IDMappingSpec == [HostID : Nat, NamespaceID : Nat, Size : Nat]

Mapping(host, ns, size) == [HostID |-> host, NamespaceID |-> ns, Size |-> size]

\* The mappings of a store that init-store gives to a user: the user's own id
\* for root, and from 1 on each range <<start, size>> that /etc/subuid lists.
readSubIDMapping(id, ranges) ==
    <<Mapping(id, 0, 1)>> \o [k \in 1..Len(ranges) |-> Mapping(ranges[k][1], 1, ranges[k][2])]

Within(id, m) == id >= m.NamespaceID /\ id < m.NamespaceID + m.Size

\* Root is the first mapping of a single id, whatever id that is.
translateRootID(mappings) ==
    LET single == {k \in 1..Len(mappings) : mappings[k].Size = 1}
    IN  IF single = {} THEN 0 ELSE mappings[Min(single)].HostID

\* Mutant: the range is taken to start at 0.
translateFromZero(id, mappings) ==
    LET hits == {k \in 1..Len(mappings) : mappings[k].Size # 1 /\ Within(id, mappings[k])}
    IN  IF id = 0 THEN translateRootID(mappings)
        ELSE IF hits = {} THEN id ELSE mappings[Min(hits)].HostID + id

\* An id in no range stays as it is.
translateID(id, mappings) ==
    LET hits == {k \in 1..Len(mappings) : mappings[k].Size # 1 /\ Within(id, mappings[k])}
    IN  IF id = 0 THEN translateRootID(mappings)
        ELSE IF hits = {} THEN id ELSE mappings[Min(hits)].HostID + id - 1

\* Mutant: only the id that groot runs with counts.
parseOwnerUnmapped(own, mappings) == own

\* The owner of an image: root of the store's mappings, or who runs groot.
parseOwner(own, mappings) ==
    LET roots == {k \in 1..Len(mappings) : mappings[k].Size = 1 /\ mappings[k].NamespaceID = 0}
    IN  IF roots = {} THEN own ELSE mappings[Min(roots)].HostID

\* newuidmap and newgidmap, given the mappings as arguments: the kernel wants
\* one range at least, and no two that overlap.
Disjoint(a, b, size1, size2) == a + size1 <= b \/ b + size2 <= a

KernelAccepts(mappings) ==
    /\ mappings # << >>
    /\ \A j, k \in 1..Len(mappings) : j # k =>
        /\ Disjoint(mappings[j].NamespaceID, mappings[k].NamespaceID,
                    mappings[j].Size, mappings[k].Size)
        /\ Disjoint(mappings[j].HostID, mappings[k].HostID, mappings[j].Size, mappings[k].Size)

\* The ids outside that an id of the namespace stands for: one or none.
KernelIDs(id, mappings) ==
    {mappings[k].HostID + id - mappings[k].NamespaceID :
        k \in {k \in 1..Len(mappings) : Within(id, mappings[k])}}
=============================================================================
