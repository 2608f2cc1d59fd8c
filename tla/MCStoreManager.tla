--------------------------- MODULE MCStoreManager ---------------------------
(***************************************************************************)
(* Small stores and command lines for TLC.  Sizes are in units of 100 MB,  *)
(* so that 2 is the least size of a backing file.                          *)
(***************************************************************************)
EXTENDS StoreManager, TLC

CONSTANTS p1, p2, p3, p4, m1, m2, foo, bar

InitWith(m, size) == [op |-> "init-store", mapping |-> m, size |-> size, id |-> foo]
CreateOf(i) == [op |-> "create", mapping |-> m1, size |-> 0, id |-> i]
DeleteTheStore == [op |-> "delete-store", mapping |-> m1, size |-> 0, id |-> foo]

AllAborts == Steps \cup {"reboot"}
RebootOnly == {"reboot"}

\* One init-store or delete-store at a time; creates run beside each other and
\* beside an init-store.
OrderlyOverlap == {{"create"}, {"create", "init-store"}}
\* Creates and delete-stores at will.
UsersOverlap == {{"create"}, {"delete-store"}, {"create", "delete-store"}}
\* Everything at will.
AnyOverlap == {{a, b} : a, b \in Operations}

\* Set-up, use and removal of a store.
LifeCommands ==
    p1 :> {InitWith(m1, 2)} @@
    p2 :> {InitWith(m1, 0), InitWith(m1, 1), InitWith(m2, 3)} @@
    p3 :> {CreateOf(foo)} @@
    p4 :> {CreateOf(bar), DeleteTheStore}

\* Overlapping set-ups of one store, or a set-up and a removal.
SetupCommands ==
    p1 :> {InitWith(m1, 2)} @@
    p2 :> {InitWith(m1, 2), DeleteTheStore} @@
    p3 :> {InitWith(m2, 3)} @@
    p4 :> {CreateOf(foo)}

\* A store in use is deleted.
RemovalCommands ==
    p1 :> {DeleteTheStore} @@
    p2 :> {DeleteTheStore} @@
    p3 :> {CreateOf(foo)}

\* Set-up, an image, set-up again.
AgainCommands ==
    p1 :> {InitWith(m1, 2)} @@ p2 :> {InitWith(m1, 2)} @@ p3 :> {CreateOf(foo)}
=============================================================================
