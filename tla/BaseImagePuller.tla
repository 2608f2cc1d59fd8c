--------------------------- MODULE BaseImagePuller ---------------------------
(***************************************************************************)
(* base_image_puller: turns the layers of a base image into volumes.       *)
(*                                                                         *)
(* buildLayer works down from the top layer.  A layer whose volume is not  *)
(* there is locked, looked for again, and its parent is built first, with  *)
(* the lock still held; the layer is then unpacked over a snapshot of its  *)
(* parent in a volume with a temporary name, which is renamed to the chain *)
(* id when it is complete.  idx is the layer the recursion is at, and every *)
(* frame above it waits with its layer locked.                             *)
(*                                                                         *)
(* downloadLayer runs in a goroutine that touches nothing of the store; a  *)
(* failed download shows as a failed createVolume step, where its result   *)
(* is taken from the channel.                                              *)
(***************************************************************************)
EXTENDS Store

\* layerInfo.ChainID and the temporary volume it is unpacked in.
Chain(p) == Layer(p, idx[p])

\* Mutant: the layer is unpacked under its final name.
TempIsChain(p) == Chain(p)

Temp(p) == <<Chain(p), p>>

\* quotaExceeded
QuotaExceeded(c) ==
    /\ ~c.excludeBase
    /\ c.diskLimit # 0
    /\ BaseSize[c.base] > c.diskLimit

\* buildLayer up to the lock: nothing below the lowest layer, nothing to do
\* for a layer that is there.
BuildLayer(p) ==
    /\ pc[p] = "buildLayer"
    /\ Proceed(p, IF idx[p] = 0 \/ Chain(p) \in volumes THEN "return" ELSE "lockLayer")
    /\ UNCHANGED <<volumeVars, imageVars, lockVars, cmd, idx, gcVars>>

\* Mutant: the lock is that of the lowest layer.
LockBase(p) ==
    /\ pc[p] = "lockLayer"
    /\ LockKey(p, Layer(p, 1))
    /\ Proceed(p, "recheck")
    /\ UNCHANGED <<volumeVars, imageVars, cmd, idx, gcVars>>

\* p.locksmith.Lock(layerInfo.ChainID)
LockLayer(p) ==
    /\ pc[p] = "lockLayer"
    /\ LockKey(p, Chain(p))
    /\ Proceed(p, "recheck")
    /\ UNCHANGED <<volumeVars, imageVars, cmd, idx, gcVars>>

\* The second volumeExists, then the recursive call for the parent.
Recheck(p) ==
    /\ pc[p] = "recheck"
    /\ IF Chain(p) \in volumes
         THEN Proceed(p, "return") /\ UNCHANGED idx
         ELSE Proceed(p, "buildLayer") /\ idx' = [idx EXCEPT ![p] = @ - 1]
    /\ UNCHANGED <<volumeVars, imageVars, lockVars, cmd, gcVars>>

\* buildLayer returns to the frame of the layer above, which unpacks its own
\* layer or passes the error on; from the top frame, Pull returns to Create.
\* The deferred Unlock runs if this frame locked its layer.
ReturnLayer(p) ==
    /\ pc[p] = "return"
    /\ layerLock' = [c \in ChainIDs |->
                       IF idx[p] > 0 /\ c = Chain(p) /\ layerLock[c] = p
                         THEN None ELSE layerLock[c]]
    /\ IF idx[p] = Height(p)
         THEN /\ Proceed(p, IF ok[p] THEN "mkdir" ELSE "unlock")
              /\ UNCHANGED idx
         ELSE /\ Proceed(p, IF ok[p] THEN "createVolume" ELSE "return")
              /\ idx' = [idx EXCEPT ![p] = @ + 1]
    /\ UNCHANGED <<volumeVars, imageVars, shared, exclusive, cmd, gcVars>>

ParentExists(p) == idx[p] > 1 => Layer(p, idx[p] - 1) \in volumes

\* createTemporaryVolumeDirectory: a new subvolume, or a snapshot of the
\* parent's, which fails if the parent's is not there.
CreateTemporaryVolume(p) ==
    /\ pc[p] = "createVolume"
    /\ IF ParentExists(p)
         THEN /\ volumes' = volumes \cup {Temp(p)}
              /\ content' = [content EXCEPT ![Temp(p)] =
                               IF idx[p] = 1 THEN {} ELSE content[Layer(p, idx[p] - 1)]]
              /\ Proceed(p, "unpack")
         ELSE Error(p, "return") /\ UNCHANGED <<volumes, content>>
    /\ UNCHANGED <<gcVolumes, metas, imageVars, lockVars, cmd, idx, gcVars>>

\* The volume is made, then chown or ensureBaseDirectoryExists fails: the
\* temporary volume is left where it is.
PrepareVolumeFails(p) ==
    /\ pc[p] = "createVolume"
    /\ ParentExists(p)
    /\ volumes' = volumes \cup {Temp(p)}
    /\ Fault(p, "return")
    /\ UNCHANGED <<gcVolumes, content, metas, imageVars, lockVars, cmd, idx, gcVars>>

\* unpackLayerToTemporaryDirectory
UnpackLayer(p) ==
    /\ pc[p] = "unpack"
    /\ IF Temp(p) \in volumes
         THEN /\ content' = [content EXCEPT ![Temp(p)] = @ \cup {Chain(p)}]
              /\ Proceed(p, "writeMeta")
         ELSE Error(p, "return") /\ UNCHANGED content
    /\ UNCHANGED <<volumes, gcVolumes, metas, imageVars, lockVars, cmd, idx, gcVars>>

\* When the unpacker fails, the volume named by the chain id is destroyed,
\* its size file first; the temporary volume is left where it is.
UnpackFails(p) ==
    /\ pc[p] = "unpack"
    /\ Fault(p, "return")
    /\ metas' = metas \ {Chain(p)}
    /\ volumes' = volumes \ {Chain(p)}
    /\ UNCHANGED <<gcVolumes, content, imageVars, lockVars, cmd, idx, gcVars>>

\* finalizeVolume: the size file ...
WriteVolumeMeta(p) ==
    /\ pc[p] = "writeMeta"
    /\ metas' = metas \cup {Chain(p)}
    /\ Proceed(p, "moveVolume")
    /\ UNCHANGED <<volumes, gcVolumes, content, imageVars, lockVars, cmd, idx, gcVars>>

\* ... and the rename, where a target that exists is taken for success.
MoveVolume(p) ==
    /\ pc[p] = "moveVolume"
    /\ IF Temp(p) \in volumes THEN Proceed(p, "return") ELSE Error(p, "return")
    /\ IF Temp(p) \in volumes /\ Chain(p) \notin volumes
         THEN /\ volumes' = (volumes \ {Temp(p)}) \cup {Chain(p)}
              /\ content' = [content EXCEPT ![Chain(p)] = content[Temp(p)]]
         ELSE UNCHANGED <<volumes, content>>
    /\ UNCHANGED <<gcVolumes, metas, imageVars, lockVars, cmd, idx, gcVars>>

Pull(p) ==
    \/ BuildLayer(p) \/ LockLayer(p) \/ Recheck(p) \/ ReturnLayer(p)
    \/ CreateTemporaryVolume(p) \/ UnpackLayer(p)
    \/ WriteVolumeMeta(p) \/ MoveVolume(p)

PullFault(p) == PrepareVolumeFails(p) \/ UnpackFails(p)
=============================================================================
