--------------------------- MODULE UserNamespace ---------------------------
(***************************************************************************)
(* unpacker/ns_id_mapper_unpacker.go, unpacker/id_mapper.go and            *)
(* filesystems/namespaced: work that needs the ids of a store is done by a *)
(* process in a user namespace.  groot starts a child there, has newuidmap *)
(* and newgidmap set the child's maps, and only then writes the byte the   *)
(* child waits for on a pipe.  The child executes the program once more,   *)
(* now as root of the namespace, and that process, here called inner, does *)
(* the work.  A create makes several such calls one after the other, then  *)
(* the image, and once its process has ended another one may destroy the   *)
(* volume; children of earlier calls may still be there.                   *)
(***************************************************************************)
EXTENDS Integers, Sequences, FiniteSets

CONSTANTS
    Commands,       \* the commands to run, see Command
    Layers,         \* the layers of an image, see Unpacker
    Mappings,       \* the id mappings of the stores
    Accepts(_),     \* mappings that newuidmap and newgidmap accept
    MaxCalls,       \* bound on the calls a command makes
    MaxFaults       \* bound on the number of failures

ASSUME NamespaceAssumption ==
    /\ MaxCalls \in Nat \ {0} /\ MaxFaults \in Nat
    /\ \A c \in Commands :
         /\ c.image \in Seq(Layers) /\ Len(c.image) \in 1..(MaxCalls - 2)
         /\ c.root \in BOOLEAN
         /\ c.uidMappings \in Mappings /\ c.gidMappings \in Mappings
         /\ c.last \in {"collect", "destroy-image", "none"}
    /\ << >> \in Mappings

VARIABLES
    cmd,            \* the command
    parent,         \* the step of groot itself
    calls,          \* the calls made, the last one being under way
    result,         \* how the last call went
    child, inner,   \* for each call the states of the two processes
    writer, byte,   \* is the write end of its pipe open, has the byte been written
    maps,           \* the maps set in its namespace
    faults

processVars == <<child, inner, writer, byte, maps>>

CallNumbers == 1..MaxCalls
Now == Len(calls)

HasMappings == cmd.uidMappings # << >> \/ cmd.gidMappings # << >>

\* create unpacks through a namespace unless it runs as root, and the driver
\* destroys through one if there are mappings as well; it makes images itself.
ViaChild(op) == ~cmd.root /\ (op = "unpack" \/ (op # "image" /\ HasMappings))

\* The maps a call sets: unpack leaves out an empty one, the driver does not.
Wanted(op) ==
    IF op = "unpack"
      THEN {m \in {"uid", "gid"} :
              (IF m = "uid" THEN cmd.uidMappings ELSE cmd.gidMappings) # << >>}
      ELSE {"uid", "gid"}

Alive == {"read", "exec", "wait"}
Working == {"begin", "work"}

NamespaceInit ==
    /\ cmd \in Commands
    /\ parent = "volume"
    /\ calls = <<"unpack">>
    /\ result = "none"
    /\ child = [k \in CallNumbers |-> "none"]
    /\ inner = [k \in CallNumbers |-> "none"]
    /\ writer = [k \in CallNumbers |-> FALSE]
    /\ byte = [k \in CallNumbers |-> FALSE]
    /\ maps = [k \in CallNumbers |-> {}]
    /\ faults = 0

Returns(r) == parent' = "returned" /\ result' = r

\* TarUnpacker.Unpack of a create that runs as root: the process that unpacks
\* is started at once.
RunInner ==
    /\ parent = "ready"
    /\ calls[Now] = "unpack" /\ ~ViaChild("unpack")
    /\ parent' = "run"
    /\ inner' = [inner EXCEPT ![Now] = "begin"]
    /\ UNCHANGED <<cmd, calls, result, child, writer, byte, maps, faults>>

InnerIsDone ==
    /\ parent = "run"
    /\ inner[Now] \in {"ok", "failed"}
    /\ Returns(IF inner[Now] = "ok" THEN "ok" ELSE "error")
    /\ UNCHANGED <<cmd, calls, processVars, faults>>

\* Otherwise the child is started, with the read end of a new pipe.
StartChild ==
    /\ parent = "ready"
    /\ ViaChild(calls[Now])
    /\ parent' = "mapUIDs"
    /\ child' = [child EXCEPT ![Now] = "read"]
    /\ writer' = [writer EXCEPT ![Now] = TRUE]
    /\ UNCHANGED <<cmd, calls, result, inner, byte, maps, faults>>

\* Mutant: the child is waited for in any case.
MappingFailsThenWait ==
    /\ parent' = "wait"
    /\ UNCHANGED <<result, writer, byte, maps>>

\* A failed mapping: unpack closes the pipe, the driver does not; neither
\* waits for the child.
MappingFails ==
    /\ Returns("error")
    /\ writer' = [writer EXCEPT ![Now] = calls[Now] # "unpack"]
    /\ UNCHANGED <<byte, maps>>

\* newuidmap or newgidmap.  Both fail when the child is gone.
SetMap(m, mappings, next) ==
    \/ /\ m \notin Wanted(calls[Now])
       /\ parent' = next
       /\ UNCHANGED <<result, writer, byte, maps>>
    \/ /\ m \in Wanted(calls[Now])
       /\ Accepts(mappings) /\ child[Now] \in Alive
       /\ maps' = [maps EXCEPT ![Now] = @ \cup {m}]
       /\ parent' = next
       /\ UNCHANGED <<result, writer, byte>>
    \/ /\ m \in Wanted(calls[Now])
       /\ ~(Accepts(mappings) /\ child[Now] \in Alive)
       /\ MappingFails

MapUIDs ==
    /\ parent = "mapUIDs"
    /\ SetMap("uid", cmd.uidMappings, "mapGIDs")
    /\ UNCHANGED <<cmd, calls, child, inner, faults>>

MapGIDs ==
    /\ parent = "mapGIDs"
    /\ SetMap("gid", cmd.gidMappings, "signal")
    /\ UNCHANGED <<cmd, calls, child, inner, faults>>

\* The write does not fail: groot holds the read end as well.
Signal ==
    /\ parent = "signal"
    /\ byte' = [byte EXCEPT ![Now] = TRUE]
    /\ parent' = "wait"
    /\ UNCHANGED <<cmd, calls, result, child, inner, writer, maps, faults>>

Wait ==
    /\ parent = "wait"
    /\ child[Now] \in {"ok", "failed", "killed"}
    /\ Returns(IF child[Now] = "ok" THEN "ok" ELSE "error")
    /\ UNCHANGED <<cmd, calls, processVars, faults>>

\* Mutant: a clean-up that failed is tried again.
FollowingRetry ==
    CASE result = "error" -> "cleanup"
      [] calls[Now] = "unpack" /\ result = "ok" ->
            IF Now < Len(cmd.image) THEN "unpack" ELSE "image"
      [] OTHER -> "none"

\* What follows a call: the next layer, after a failed Unpack the DestroyVolume
\* of unpackLayerToTemporaryDirectory, after the last layer the image.  Nothing
\* follows when the volume or its base directory was refused.
Following ==
    CASE calls[Now] = "unpack" /\ result = "error" -> "cleanup"
      [] calls[Now] = "unpack" /\ result = "ok" ->
            IF Now < Len(cmd.image) THEN "unpack" ELSE "image"
      [] OTHER -> "none"

\* A layer begins with its volume.
NextCall ==
    /\ parent = "returned"
    /\ Following # "none"
    /\ calls' = Append(calls, Following)
    /\ parent' = IF Following = "unpack" THEN "volume" ELSE "ready"
    /\ UNCHANGED <<cmd, result, processVars, faults>>

InCreate == calls[Now] \in {"unpack", "cleanup", "image"}

\* The process ends, and with it its ends of the pipes.  The next one, if any,
\* destroys the volume: a clean does, or a user of the driver's DestroyImage,
\* which no command is.
NextCommand ==
    /\ parent = "returned"
    /\ Following = "none" /\ InCreate /\ cmd.last # "none"
    /\ calls' = Append(calls, cmd.last)
    /\ parent' = "ready"
    /\ writer' = [k \in CallNumbers |-> FALSE]
    /\ UNCHANGED <<cmd, result, child, inner, byte, maps, faults>>

Exit ==
    /\ parent = "returned"
    /\ Following = "none" /\ (InCreate => cmd.last = "none")
    /\ parent' = "exited"
    /\ writer' = [k \in CallNumbers |-> FALSE]
    /\ UNCHANGED <<cmd, calls, result, child, inner, byte, maps, faults>>

\* Mutant: the error of Read is not looked at.
ReadAnything(k) ==
    /\ child[k] = "read"
    /\ byte[k] \/ ~writer[k]
    /\ child' = [child EXCEPT ![k] = "exec"]
    /\ UNCHANGED <<cmd, parent, calls, result, inner, writer, byte, maps, faults>>

\* The child reads the byte, or the end of the pipe.
ReadPipe(k) ==
    /\ child[k] = "read"
    /\ \/ byte[k] /\ child' = [child EXCEPT ![k] = "exec"]
       \/ ~byte[k] /\ ~writer[k] /\ child' = [child EXCEPT ![k] = "failed"]
    /\ UNCHANGED <<cmd, parent, calls, result, inner, writer, byte, maps, faults>>

\* Mutant: the second process is started and not waited for.
ReexecAsync(k) ==
    /\ child[k] = "exec"
    /\ child' = [child EXCEPT ![k] = "ok"]
    /\ inner' = [inner EXCEPT ![k] = "begin"]
    /\ UNCHANGED <<cmd, parent, calls, result, writer, byte, maps, faults>>

Reexec(k) ==
    /\ child[k] = "exec"
    /\ child' = [child EXCEPT ![k] = "wait"]
    /\ inner' = [inner EXCEPT ![k] = "begin"]
    /\ UNCHANGED <<cmd, parent, calls, result, writer, byte, maps, faults>>

ChildEnds(k) ==
    /\ child[k] = "wait"
    /\ inner[k] \in {"ok", "failed"}
    /\ child' = [child EXCEPT ![k] = inner[k]]
    /\ UNCHANGED <<cmd, parent, calls, result, inner, writer, byte, maps, faults>>

(* Failures *)

Fault == faults < MaxFaults /\ faults' = faults + 1

VolumeFails ==
    /\ parent = "volume"
    /\ Fault
    /\ Returns("refused")
    /\ UNCHANGED <<cmd, calls, processVars>>

StartFails ==
    /\ parent = "ready"
    /\ Fault
    /\ Returns("error")
    /\ UNCHANGED <<cmd, calls, processVars>>

KillParent ==
    /\ parent \notin {"exited", "killed"}
    /\ Fault
    /\ parent' = "killed"
    /\ writer' = [k \in CallNumbers |-> FALSE]
    /\ UNCHANGED <<cmd, calls, result, child, inner, byte, maps>>

KillChild(k) ==
    /\ child[k] \in Alive
    /\ Fault
    /\ child' = [child EXCEPT ![k] = "killed"]
    /\ UNCHANGED <<cmd, parent, calls, result, inner, writer, byte, maps>>

\* Killed, or failing of itself.
InnerFails(k) ==
    /\ inner[k] \in Working
    /\ Fault
    /\ inner' = [inner EXCEPT ![k] = "failed"]
    /\ UNCHANGED <<cmd, parent, calls, result, child, writer, byte, maps>>

ChildStep(k) == ReadPipe(k) \/ Reexec(k) \/ ChildEnds(k)
NamespaceFault ==
    \/ VolumeFails \/ StartFails \/ KillParent
    \/ \E k \in CallNumbers : KillChild(k) \/ InnerFails(k)
=============================================================================
