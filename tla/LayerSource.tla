----------------------------- MODULE LayerSource -----------------------------
(***************************************************************************)
(* One pull of a base image from a registry or an OCI layout: the manifest *)
(* with its retries and the conversion of schema 1, then the recursion of  *)
(* buildLayer, which starts a download goroutine for each layer it does    *)
(* not find on its way down and takes their results on its way up.         *)
(*                                                                         *)
(* Layers are numbered from the bottom.  idx is the frame of buildLayer    *)
(* that is running; those above it wait.  What goes on in the store, and   *)
(* the layer locks, is the matter of module BaseImagePuller; here other    *)
(* processes only make layers appear that this pull has not locked.        *)
(***************************************************************************)
EXTENDS Integers

CONSTANTS
    NumLayers,          \* layers of the base image
    Images,             \* kinds of base images, subset of Image
    MAX_DOCKER_RETRIES, \* requests made before giving up
    FaultPoints,        \* steps that may go wrong
    MaxFaults,          \* bound on what goes wrong in one behaviour
    None                \* nothing yet

Layers == 1..NumLayers

(***************************************************************************)
(* What a blob holds: what the manifest's digest stands for, something     *)
(* else, or something that is not even a gzip stream.                      *)
(***************************************************************************)
Contents == {"good", "bad", "garbage"}

(***************************************************************************)
(* A base image: its manifest is of schema 1, which has no diff ids; the   *)
(* layers whose media type is empty or names gzip; whether checksums are   *)
(* compared, which they are not for oci with skipOCIChecksumValidation.    *)
(***************************************************************************)
Image == [schemaV1 : BOOLEAN, gzipped : SUBSET Layers, validated : BOOLEAN]

MainSteps ==
    {"reference", "image", "convert", "v1Blob", "config", "ociConfig",
     "buildLayer", "receive", "unpack"}
DownloadSteps ==
    {"source", "request", "tempFile", "gunzip", "copy", "checkBlob",
     "checkDiff", "openFile"}
Results == {"done", "failed", "panicked"}

ASSUME SourceAssumption ==
    /\ NumLayers \in Nat
    /\ Images \subseteq Image
    /\ \A i \in Images : i.schemaV1 => i.gzipped = Layers
    /\ MAX_DOCKER_RETRIES \in Nat \ {0}
    /\ MaxFaults \in Nat
    /\ None \notin Contents \cup DownloadSteps \cup {"stream"}

VARIABLES
    image,    \* the base image that is pulled
    main,     \* next step of the pull itself
    idx,      \* its layer
    tries,    \* its requests that failed, of those it is repeating
    diffID,   \* content that the diff id of each layer stands for
    present,  \* layers whose volumes are in the store
    unpacked, \* what this pull has unpacked into each, or None
    dl,       \* next step of the download of each layer
    attempt,  \* its requests that failed
    blob,     \* what it has been given
    file,     \* its temporary file is there
    chan,     \* its channel: "stream", or the step that failed, or None
    exited,   \* the process has ended, and the goroutines with it
    faults,   \* how often something has gone wrong
    struck    \* the steps at which it has

mainVars == <<image, main, idx, tries, diffID, unpacked>>
dlVars == <<dl, attempt, blob, chan>>
faultVars == <<faults, struck>>
vars == <<image, main, idx, tries, diffID, present, unpacked, dl, attempt, blob,
          file, chan, exited, faults, struck>>

Init ==
    /\ image \in Images
    /\ main = "reference"
    /\ idx = 1
    /\ tries = 0
    /\ diffID \in [Layers -> {"good", "bad", None}]
    /\ \A l \in Layers : diffID[l] = None <=> image.schemaV1
    /\ present \in SUBSET Layers
    /\ unpacked = [l \in Layers |-> None]
    /\ dl = [l \in Layers |-> "idle"]
    /\ attempt = [l \in Layers |-> 0]
    /\ blob = [l \in Layers |-> None]
    /\ file = [l \in Layers |-> FALSE]
    /\ chan = [l \in Layers |-> None]
    /\ exited = FALSE
    /\ faults = 0
    /\ struck = {}

\* Something goes wrong at a step, or it does not.
Fault(step) ==
    /\ step \in FaultPoints /\ faults < MaxFaults
    /\ faults' = faults + 1
    /\ struck' = struck \cup {step}
NoFault == UNCHANGED faultVars

-----------------------------------------------------------------------------
(***************************************************************************)
(* The manifest                                                            *)
(***************************************************************************)
Goto(step) == main' = step

\* Mutant: one request too many.
AgainOnceMore(step) ==
    IF tries + 1 <= MAX_DOCKER_RETRIES
    THEN tries' = tries + 1 /\ Goto(step)
    ELSE tries' = 0 /\ Goto("failed")

\* A request that is repeated: the counter starts anew with the next request.
Again(step) ==
    IF tries + 1 < MAX_DOCKER_RETRIES
    THEN tries' = tries + 1 /\ Goto(step)
    ELSE tries' = 0 /\ Goto("failed")

Reference ==
    /\ main = "reference"
    /\ \/ NoFault /\ Goto("image")
       \/ Fault("reference") /\ Goto("failed")
    /\ UNCHANGED <<image, idx, tries, diffID, unpacked, present, dlVars, file, exited>>

\* getImageWithRetries
GetImage ==
    /\ main = "image"
    /\ \/ NoFault /\ tries' = 0 /\ Goto("convert")
       \/ Fault("image") /\ Again("image")
    /\ UNCHANGED <<image, idx, diffID, unpacked, present, dlVars, file, exited>>

\* convertImage: only a manifest of schema 1 is converted, for which it opens the
\* image's source.
ConvertImage ==
    /\ main = "convert"
    /\ \/ NoFault /\ Goto(IF image.schemaV1 /\ NumLayers > 0 THEN "v1Blob" ELSE "config")
       \/ Fault("convert") /\ Goto("failed")
    /\ UNCHANGED <<image, idx, tries, diffID, unpacked, present, dlVars, file, exited>>

\* v1DiffID: the diff id is that of whatever has been downloaded; no digest is
\* compared.
V1DiffID ==
    /\ main = "v1Blob"
    /\ \/ /\ \/ NoFault /\ diffID' = [diffID EXCEPT ![idx] = "good"]
             \/ Fault("content") /\ diffID' = [diffID EXCEPT ![idx] = "bad"]
          /\ tries' = 0
          /\ IF idx < NumLayers THEN idx' = idx + 1 /\ UNCHANGED main
                                ELSE UNCHANGED idx /\ Goto("config")
       \/ Fault("request") /\ Again("v1Blob") /\ UNCHANGED <<idx, diffID>>
       \/ Fault("gunzip") /\ Goto("failed") /\ UNCHANGED <<idx, tries, diffID>>
    /\ UNCHANGED <<image, unpacked, present, dlVars, file, exited>>

\* Manifest: the configuration is fetched with retries.
GetConfig ==
    /\ main = "config"
    /\ \/ NoFault /\ tries' = 0 /\ Goto("ociConfig")
       \/ Fault("config") /\ Again("config")
    /\ UNCHANGED <<image, idx, diffID, unpacked, present, dlVars, file, exited>>

\* BaseImageInfo, then Pull, which starts at the top layer.
OCIConfig ==
    /\ main = "ociConfig"
    /\ \/ NoFault /\ Goto("buildLayer")
       \/ Fault("ociConfig") /\ Goto("failed")
    /\ idx' = NumLayers
    /\ UNCHANGED <<image, tries, diffID, unpacked, present, dlVars, file, exited>>

-----------------------------------------------------------------------------
(***************************************************************************)
(* buildLayer                                                              *)
(***************************************************************************)

\* The frame at idx returns without an error.
Return ==
    IF idx < NumLayers THEN idx' = idx + 1 /\ Goto("receive")
                       ELSE UNCHANGED idx /\ Goto("done")

\* Without a volume: lock the layer, start its download, go on with the layer
\* below.
BuildLayer ==
    /\ main = "buildLayer"
    /\ \/ (idx = 0 \/ idx \in present) /\ NoFault /\ Return /\ UNCHANGED dl
       \/ /\ idx > 0 /\ idx \notin present
          /\ NoFault
          /\ dl' = [dl EXCEPT ![idx] = "source"]
          /\ idx' = idx - 1
          /\ UNCHANGED main
       \/ /\ idx > 0 /\ idx \notin present
          /\ Fault("buildLayer")
          /\ Goto("failed")
          /\ UNCHANGED <<idx, dl>>
    /\ UNCHANGED <<image, tries, diffID, unpacked, present, attempt, blob, file, chan,
                   exited>>

\* The layer below is there: take the result of the download.
Receive ==
    /\ main = "receive"
    /\ chan[idx] # None
    /\ Goto(IF chan[idx] = "stream" THEN "unpack" ELSE "failed")
    /\ UNCHANGED <<image, idx, tries, diffID, unpacked, present, dlVars, file, exited, faultVars>>

\* Mutant: the stream is closed at the end of a frame that succeeds.
UnpackThenClose ==
    /\ main = "unpack"
    /\ \/ /\ NoFault
          /\ file' = [file EXCEPT ![idx] = FALSE]
          /\ unpacked' = [unpacked EXCEPT ![idx] = blob[idx]]
          /\ present' = present \cup {idx}
          /\ Return
       \/ Fault("unpack") /\ Goto("failed") /\ UNCHANGED <<idx, unpacked, present, file>>
    /\ UNCHANGED <<image, tries, diffID, dlVars, exited>>

\* unpackLayer, with the deferred Close, which removes the file in either case.
UnpackLayer ==
    /\ main = "unpack"
    /\ file' = [file EXCEPT ![idx] = FALSE]
    /\ \/ /\ NoFault
          /\ unpacked' = [unpacked EXCEPT ![idx] = blob[idx]]
          /\ present' = present \cup {idx}
          /\ Return
       \/ Fault("unpack") /\ Goto("failed") /\ UNCHANGED <<idx, unpacked, present>>
    /\ UNCHANGED <<image, tries, diffID, dlVars, exited>>

\* The command is over; whatever still downloads is cut off.
Exit ==
    /\ main \in {"done", "failed"} /\ ~exited
    /\ exited' = TRUE
    /\ UNCHANGED <<mainVars, present, dlVars, file, faultVars>>

Pull ==
    \/ Reference \/ GetImage \/ ConvertImage \/ V1DiffID \/ GetConfig \/ OCIConfig
    \/ BuildLayer \/ Receive \/ UnpackLayer \/ Exit

-----------------------------------------------------------------------------
(***************************************************************************)
(* downloadLayer, StreamBlob and Blob                                      *)
(***************************************************************************)
Advance(l, step) == dl' = [dl EXCEPT ![l] = step]

\* The download returns and sends on its channel, which has room for one.
Send(l, result) ==
    /\ chan' = [chan EXCEPT ![l] = result]
    /\ Advance(l, "ended")

\* imageSource, which is not repeated.
OpenSource(l) ==
    /\ dl[l] = "source"
    /\ \/ NoFault /\ Advance(l, "request") /\ UNCHANGED chan
       \/ Fault("source") /\ Send(l, "source")
    /\ UNCHANGED <<mainVars, present, attempt, blob, file, exited>>

\* Mutant: the bound counts repetitions and not requests, and one too few.
GetBlobTwice(l) ==
    /\ dl[l] = "request"
    /\ \/ /\ \/ NoFault /\ blob' = [blob EXCEPT ![l] = "good"]
             \/ \E c \in {"bad", "garbage"} :
                  Fault("content") /\ blob' = [blob EXCEPT ![l] = c]
          /\ Advance(l, "tempFile")
          /\ UNCHANGED <<attempt, chan>>
       \/ /\ Fault("request")
          /\ attempt' = [attempt EXCEPT ![l] = @ + 1]
          /\ IF attempt[l] + 2 < MAX_DOCKER_RETRIES
             THEN UNCHANGED <<dl, chan>>
             ELSE Send(l, "request")
          /\ UNCHANGED blob
    /\ UNCHANGED <<mainVars, present, file, exited>>

\* getBlobWithRetries
GetBlob(l) ==
    /\ dl[l] = "request"
    /\ \/ /\ \/ NoFault /\ blob' = [blob EXCEPT ![l] = "good"]
             \/ \E c \in {"bad", "garbage"} :
                  Fault("content") /\ blob' = [blob EXCEPT ![l] = c]
          /\ Advance(l, "tempFile")
          /\ UNCHANGED <<attempt, chan>>
       \/ /\ Fault("request")
          /\ attempt' = [attempt EXCEPT ![l] = @ + 1]
          /\ IF attempt[l] + 1 < MAX_DOCKER_RETRIES
             THEN UNCHANGED <<dl, chan>>
             ELSE Send(l, "request")
          /\ UNCHANGED blob
    /\ UNCHANGED <<mainVars, present, file, exited>>

\* The error of TempFile is looked at after the gzip reader has been made, which
\* has overwritten it by then.
TempFile(l) ==
    /\ dl[l] = "tempFile"
    /\ \/ NoFault /\ file' = [file EXCEPT ![l] = TRUE]
       \/ Fault("tempFile") /\ UNCHANGED file
    /\ \/ l \in image.gzipped /\ Advance(l, "gunzip") /\ UNCHANGED chan
       \/ l \notin image.gzipped /\ file'[l] /\ Advance(l, "copy") /\ UNCHANGED chan
       \/ l \notin image.gzipped /\ ~file'[l] /\ Send(l, "tempFile")
    /\ UNCHANGED <<mainVars, present, attempt, blob, exited>>

\* An error returns before the clean-up has been deferred: the file stays.
Gunzip(l) ==
    /\ dl[l] = "gunzip"
    /\ \/ blob[l] = "garbage" /\ NoFault /\ Send(l, "gunzip")
       \/ Fault("gunzip") /\ Send(l, "gunzip")
       \/ blob[l] # "garbage" /\ NoFault /\ Advance(l, "copy") /\ UNCHANGED chan
    /\ UNCHANGED <<mainVars, present, attempt, blob, file, exited>>

\* An error from here on removes the file.
Reject(l) ==
    /\ file' = [file EXCEPT ![l] = FALSE]
    /\ Send(l, dl[l])

\* Copy into the file; a transfer that breaks off is not repeated.
Copy(l) ==
    /\ dl[l] = "copy" /\ file[l]
    /\ \/ NoFault /\ Advance(l, "checkBlob") /\ UNCHANGED <<file, chan>>
       \/ Fault("copy") /\ Reject(l)
    /\ UNCHANGED <<mainVars, present, attempt, blob, exited>>

\* Without a file the copy fails, and the clean-up asks a nil file for its name:
\* the panic ends the process.
CopyPanics(l) ==
    /\ dl[l] = "copy" /\ ~file[l]
    /\ main' = "panicked"
    /\ exited' = TRUE
    /\ UNCHANGED <<image, idx, tries, diffID, unpacked, present, dlVars, file, faultVars>>

\* Mutant: the blob is not compared with its digest.
CheckBlobUnread(l) ==
    /\ dl[l] = "checkBlob"
    /\ Advance(l, "checkDiff")
    /\ UNCHANGED <<mainVars, present, attempt, blob, chan, file, exited, faultVars>>

\* checkCheckSum of the blob against the digest in the manifest.
CheckBlob(l) ==
    /\ dl[l] = "checkBlob"
    /\ \/ /\ ~image.validated \/ blob[l] = "good"
          /\ Advance(l, "checkDiff") /\ UNCHANGED <<file, chan>>
       \/ image.validated /\ blob[l] # "good" /\ Reject(l)
    /\ UNCHANGED <<mainVars, present, attempt, blob, exited, faultVars>>

\* Mutant: what does not match its diff id is downloaded again.
CheckDiffAgain(l) ==
    /\ dl[l] = "checkDiff"
    /\ IF ~image.validated \/ blob[l] = diffID[l]
       THEN Advance(l, "openFile") /\ UNCHANGED file
       ELSE Advance(l, "request") /\ file' = [file EXCEPT ![l] = FALSE]
    /\ UNCHANGED <<mainVars, present, attempt, blob, chan, exited, faultVars>>

\* checkCheckSum of what was in it against the diff id.
CheckDiff(l) ==
    /\ dl[l] = "checkDiff"
    /\ \/ /\ ~image.validated \/ blob[l] = diffID[l]
          /\ Advance(l, "openFile") /\ UNCHANGED <<file, chan>>
       \/ image.validated /\ blob[l] # diffID[l] /\ Reject(l)
    /\ UNCHANGED <<mainVars, present, attempt, blob, exited, faultVars>>

\* NewBlobReader: the file stays if it cannot be opened.
OpenFile(l) ==
    /\ dl[l] = "openFile"
    /\ \/ NoFault /\ Send(l, "stream")
       \/ Fault("openFile") /\ Send(l, "openFile")
    /\ UNCHANGED <<mainVars, present, attempt, blob, file, exited>>

Download(l) ==
    /\ ~exited
    /\ \/ OpenSource(l) \/ GetBlob(l) \/ TempFile(l) \/ Gunzip(l) \/ Copy(l)
       \/ CopyPanics(l) \/ CheckBlob(l) \/ CheckDiff(l) \/ OpenFile(l)

-----------------------------------------------------------------------------
\* Another process builds a layer that this one has not locked, bottom up.
RivalBuilds ==
    /\ \E l \in Layers \ present :
        /\ dl[l] = "idle"
        /\ l = 1 \/ l - 1 \in present
        /\ present' = present \cup {l}
    /\ UNCHANGED <<mainVars, dlVars, file, exited, faultVars>>

Finished == exited /\ UNCHANGED vars

Next ==
    \/ ~exited /\ Pull
    \/ \E l \in Layers : Download(l)
    \/ RivalBuilds
    \/ Finished

Spec == Init /\ [][Next]_vars

\* The runtime schedules every goroutine that can run, the main one included;
\* requests come to an end, with an answer or an error.
FairSpec ==
    /\ Spec
    /\ WF_vars(~exited /\ Pull)
    /\ \A l \in Layers : WF_vars(Download(l))

-----------------------------------------------------------------------------
(***************************************************************************)
(* Properties                                                              *)
(***************************************************************************)

MainTypeOK ==
    /\ image \in Images
    /\ main \in MainSteps \cup Results
    /\ idx \in 0..NumLayers \cup {1}
    /\ main \in {"reference", "image", "convert"} => idx = 1
    /\ main \in {"v1Blob", "receive", "unpack"} => idx \in Layers
    /\ main = "buildLayer" => idx <= NumLayers
    /\ tries \in 0..(MAX_DOCKER_RETRIES - 1)
    /\ diffID \in [Layers -> {"good", "bad", None}]
    /\ present \subseteq Layers
    /\ unpacked \in [Layers -> Contents \cup {None}]
    /\ exited \in BOOLEAN

DownloadTypeOK ==
    /\ dl \in [Layers -> DownloadSteps \cup {"idle", "ended"}]
    /\ attempt \in [Layers -> 0..MAX_DOCKER_RETRIES]
    /\ \A l \in Layers :
        dl[l] \in {"idle", "source", "request"} => attempt[l] < MAX_DOCKER_RETRIES
    /\ blob \in [Layers -> Contents \cup {None}]
    /\ file \in [Layers -> BOOLEAN]
    /\ chan \in [Layers -> DownloadSteps \cup {"stream", None}]

\* The state has its types; the frames of buildLayer stay inside the image, and
\* no request is made more often than it may be.
FetchTypeOK ==
    /\ MainTypeOK
    /\ DownloadTypeOK
    /\ faults \in 0..MaxFaults
    /\ struck \subseteq FaultPoints

\* Only what the manifest's digest and the layer's diff id both stand for is
\* unpacked, also where the diff ids were computed from an earlier download that
\* nobody checked.
VerifiedOnly ==
    image.validated =>
        \A l \in Layers :
            unpacked[l] # None => unpacked[l] = "good" /\ diffID[l] = "good"

\* Two failures of requests do not fail the pull of an image whose diff ids are
\* right, wherever they fall: each layer's download, each diff id, the image and
\* the configuration have three tries of their own.
RetriesSuffice ==
    /\ main = "failed"
    /\ struck \subseteq {"image", "request", "config"}
    /\ \A l \in Layers : diffID[l] # "bad"
    => faults >= MAX_DOCKER_RETRIES

\* A pull that succeeded leaves no temporary file, and one that failed only those
\* that were downloaded for layers above the one that failed, which nobody takes
\* from their channels, or that Blob and StreamBlob leave behind.
LeftFiles ==
    \A l \in Layers :
        /\ main = "done" => ~file[l]
        /\ main = "failed" /\ file[l] /\ dl[l] = "ended" =>
            \/ l > idx /\ chan[l] = "stream"
            \/ chan[l] \in {"gunzip", "openFile"}

\* Every pull comes to an end: each frame waits for a channel to which the
\* download sends whatever happens.
PullEnds == <>exited

-----------------------------------------------------------------------------
(***************************************************************************)
(* What the proofs of VerifiedOnly and LeftFiles rest on                   *)
(***************************************************************************)
ManifestSteps == {"reference", "image", "convert", "v1Blob", "config", "ociConfig"}

\* A download has sent exactly when it has ended, and has its file only between
\* making it and then; only two of its errors leave it.
DownloadInv ==
    \A l \in Layers :
        /\ chan[l] # None <=> dl[l] = "ended"
        /\ dl[l] \in {"idle", "source", "request", "tempFile"} => ~file[l]
        /\ chan[l] \notin {None, "stream", "gunzip", "openFile"} => ~file[l]
        /\ dl[l] = "idle" => unpacked[l] = None

\* What has passed a check is what the check was for.
CheckInv ==
    image.validated =>
        \A l \in Layers :
            /\ dl[l] = "checkDiff" => blob[l] = "good"
            /\ dl[l] = "openFile" \/ chan[l] = "stream"
                => blob[l] = "good" /\ diffID[l] = "good"

\* Nothing is left of a layer: it was never downloaded, or has been unpacked.
Settled(l) == dl[l] = "idle" \/ (dl[l] = "ended" /\ ~file[l])

\* How far the frames have come: downloads start on the way down, so none before
\* it, and are settled below the frame on the way up.
FrameInv ==
    /\ main \in ManifestSteps => \A l \in Layers : dl[l] = "idle"
    /\ main = "buildLayer" => \A l \in Layers : l <= idx => dl[l] = "idle"
    /\ main \in {"receive", "unpack"} => \A l \in Layers : l < idx => Settled(l)
    /\ main = "unpack" => chan[idx] = "stream"
    /\ main = "done" => \A l \in Layers : Settled(l)
    /\ main = "failed" =>
        \A l \in Layers :
            l <= idx => Settled(l) \/ chan[l] \in {"gunzip", "openFile"}

FetchInv == FetchTypeOK /\ DownloadInv /\ CheckInv /\ FrameInv /\ VerifiedOnly
=============================================================================
