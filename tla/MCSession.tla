------------------------------ MODULE MCSession ------------------------------
(***************************************************************************)
(* A session of a few commands for TLC: one user who is not root, one      *)
(* drax that works and one that lost its setuid bit.                       *)
(***************************************************************************)
EXTENDS Session, TLC

CONSTANTS foo, bar

Store == "/store"
MCDrax == ("drax" :> [suid |-> TRUE]) @@ ("/old/drax" :> [suid |-> FALSE])

BaseFile == [Empty EXCEPT !.store = Store]

MCConfigFiles ==
    {[BaseFile EXCEPT !.limit = 3, !.withClean = TRUE],
     [BaseFile EXCEPT !.withoutMount = TRUE, !.registries = {"registry"}, !.threshold = 1],
     [BaseFile EXCEPT !.limit = -1]}

CommandLine(op, i, flags) ==
    [op |-> op, id |-> i, arg |-> "image", base |-> "tar", flags |-> flags]
From(base, line) == [line EXCEPT !.base = base]
NoFlags == << >>

MCCommandLines ==
    {CommandLine("create", foo, NoFlags),
     CommandLine("create", bar, ("limit" :> 1) @@ ("exclude" :> TRUE)
                                  @@ ("without-clean" :> TRUE)),
     CommandLine("create", bar, ("limit" :> 0) @@ ("without-mount" :> TRUE)
                                  @@ ("with-clean" :> TRUE)),
     CommandLine("create", bar, ("with-clean" :> TRUE) @@ ("without-clean" :> TRUE)),
     From("registry", CommandLine("create", bar, ("limit" :> 1) @@ ("with-mount" :> TRUE)
                                  @@ ("registries" :> {"registry"}))),
     From("registry", CommandLine("create", bar, ("with-mount" :> TRUE))),
     CommandLine("clean", foo, NoFlags),
     CommandLine("clean", foo, ("threshold" :> -1)),
     CommandLine("clean", foo, ("store" :> "/nowhere")),
     CommandLine("delete", bar, NoFlags),
     CommandLine("delete", bar, ("draxBin" :> "/old/drax")),
     [CommandLine("delete", foo, NoFlags) EXCEPT !.arg = "rootfs"],
     CommandLine("stats", bar, NoFlags),
     CommandLine("list", foo, NoFlags),
     CommandLine("generate", foo, NoFlags)}
=============================================================================
