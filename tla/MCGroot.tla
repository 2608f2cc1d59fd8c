------------------------------- MODULE MCGroot -------------------------------
(***************************************************************************)
(* Small stores for TLC.  busybox and alpine share their lowest layer,     *)
(* scratch has no layers.                                                  *)
(***************************************************************************)
EXTENDS GrootRefinement, TLC

CONSTANTS p1, p2, p3, p4, A, B, C, foo, bar, foobar, busybox, alpine, scratch

MCLayers == busybox :> <<A, B>> @@ alpine :> <<A, C>> @@ scratch :> << >>
MCExtensions == foo :> {foobar} @@ bar :> {} @@ foobar :> {}
MCSize == busybox :> 2 @@ alpine :> 2 @@ scratch :> 0

Create(i, b) ==
    [op |-> "create", id |-> i, base |-> b, cleanOnCreate |-> FALSE,
     threshold |-> 0, diskLimit |-> 0, excludeBase |-> FALSE]
CreateAfterClean(i, b, t) ==
    [Create(i, b) EXCEPT !.cleanOnCreate = TRUE, !.threshold = t]
CreateLimited(i, b, limit, exclude) ==
    [Create(i, b) EXCEPT !.diskLimit = limit, !.excludeBase = exclude]
CleanFrom(t) == [Create(foo, busybox) EXCEPT !.op = "clean", !.threshold = t]
Delete(i) == [Create(i, busybox) EXCEPT !.op = "delete"]

AllFaults == Steps \cup {"crash"}
NoMarkingFaults == AllFaults \ ExclusiveSteps
NoFaults == {}
NoImages == << >>
FooInstalled == foo :> busybox

\* Creates that wait for each other's layers, a clean between them, a delete.
PullCommands ==
    p1 :> {Create(foo, busybox)} @@
    p2 :> {CreateAfterClean(bar, alpine, 0), Create(bar, busybox)} @@
    p3 :> {CleanFrom(0), Delete(foo), Create(foobar, alpine),
           CreateLimited(foobar, busybox, 1, FALSE)}

\* An image is deleted while others clean and create; creates that may fail or
\* die anywhere, what is run after them, and commands that name the same image.
RecoveryCommands ==
    p1 :> {Delete(foo), Create(bar, busybox), Create(bar, scratch)} @@
    p2 :> {CreateAfterClean(bar, alpine, 0), CreateAfterClean(bar, busybox, 1),
           CreateLimited(bar, alpine, 1, TRUE)} @@
    p3 :> {CleanFrom(0), CleanFrom(-1), Delete(bar)}

\* Creates that clean first, while the cache holds volumes no image uses.
CleanOnCreateCommands ==
    p1 :> {CreateAfterClean(foo, alpine, 0)} @@
    p2 :> {CreateAfterClean(bar, alpine, 0)}

\* One create for each of two processes, with the same id.
TwinCommands == p1 :> {Create(foo, busybox)} @@ p2 :> {Create(foo, busybox)}

\* The id that is deleted is a prefix of the one that is created.
PrefixCommands == p1 :> {Delete(foo)} @@ p2 :> {Create(foobar, alpine)}
=============================================================================
