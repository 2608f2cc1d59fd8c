-------------------------- MODULE LayerSourceProofs --------------------------
(***************************************************************************)
(* Proofs about LayerSource: its types, that only verified layers are      *)
(* unpacked, which temporary files a pull may leave, and which failures    *)
(* its retries make up for, for any number of layers, any base images and  *)
(* any failures.                                                           *)
(***************************************************************************)
EXTENDS LayerSource, TLAPS

(***************************************************************************)
(* The initial states satisfy the invariant.                               *)
(***************************************************************************)
LEMMA FetchInit == Init => FetchInv
<1>. SUFFICES ASSUME Init PROVE FetchInv
    OBVIOUS
<1>1. MainTypeOK
    <2>1. unpacked \in [Layers -> Contents \cup {None}]
        BY DEF Init
    <2>2. tries \in 0..(MAX_DOCKER_RETRIES - 1)
        BY SourceAssumption DEF Init
    <2>3. QED
        BY <2>1, <2>2 DEF Init, MainTypeOK, MainSteps
<1>2. DownloadTypeOK
    BY SourceAssumption DEF Init, DownloadTypeOK, DownloadSteps, Contents
<1>3. faults \in 0..MaxFaults /\ struck \subseteq FaultPoints
    BY SourceAssumption DEF Init
<1>4. DownloadInv /\ CheckInv /\ FrameInv /\ VerifiedOnly
    BY SourceAssumption DEF Init, DownloadInv, CheckInv, FrameInv, VerifiedOnly,
        ManifestSteps
<1>5. QED
    BY <1>1, <1>2, <1>3, <1>4 DEF FetchInv, FetchTypeOK

(***************************************************************************)
(* Every step keeps the types of the pull itself.                          *)
(***************************************************************************)
LEMMA MainTypeStep ==
    ASSUME FetchTypeOK, [Next]_vars
    PROVE  MainTypeOK'
<1>. USE SourceAssumption DEF Layers
<1>1. CASE UNCHANGED <<mainVars, present, exited>>
    BY <1>1 DEF mainVars, FetchTypeOK, MainTypeOK
<1>2. CASE Reference
    BY <1>2 DEF Reference, Goto, FetchTypeOK, MainTypeOK, MainSteps, Results
<1>3. CASE GetImage
    BY <1>3 DEF GetImage, Goto, Again, FetchTypeOK, MainTypeOK, MainSteps,
        Results
<1>4. CASE ConvertImage
    BY <1>4 DEF ConvertImage, Goto, FetchTypeOK, MainTypeOK, MainSteps,
        Results
<1>5. CASE V1DiffID
    <2>1. /\ main' \in {"v1Blob", "config", "failed"}
          /\ idx' \in Layers
          /\ tries' \in 0..(MAX_DOCKER_RETRIES - 1)
        BY <1>5 DEF V1DiffID, Goto, Again, FetchTypeOK, MainTypeOK
    <2>2. diffID' \in [Layers -> {"good", "bad", None}]
        BY <1>5 DEF V1DiffID, FetchTypeOK, MainTypeOK
    <2>3. QED
        BY <1>5, <2>1, <2>2 DEF V1DiffID, FetchTypeOK, MainTypeOK, MainSteps,
            Results
<1>6. CASE GetConfig
    BY <1>6 DEF GetConfig, Goto, Again, FetchTypeOK, MainTypeOK, MainSteps,
        Results
<1>7. CASE OCIConfig
    BY <1>7 DEF OCIConfig, Goto, FetchTypeOK, MainTypeOK, MainSteps, Results
<1>8. CASE BuildLayer
    BY <1>8 DEF BuildLayer, Goto, Return, FetchTypeOK, MainTypeOK, MainSteps,
        Results
<1>9. CASE Receive
    BY <1>9 DEF Receive, Goto, FetchTypeOK, MainTypeOK, MainSteps, Results
<1>10. CASE UnpackLayer
    <2>1. idx \in Layers /\ blob[idx] \in Contents \cup {None}
        BY <1>10 DEF UnpackLayer, FetchTypeOK, MainTypeOK, DownloadTypeOK
    <2>2. unpacked' \in [Layers -> Contents \cup {None}] /\ present' \subseteq Layers
        BY <1>10, <2>1 DEF UnpackLayer, FetchTypeOK, MainTypeOK
    <2>3. QED
        BY <1>10, <2>1, <2>2 DEF UnpackLayer, Goto, Return, FetchTypeOK,
            MainTypeOK, MainSteps, Results
<1>11. CASE Exit
    BY <1>11 DEF Exit, mainVars, FetchTypeOK, MainTypeOK, MainSteps, Results
<1>12. ASSUME NEW l \in Layers, CopyPanics(l)
       PROVE  MainTypeOK'
    BY <1>12 DEF CopyPanics, FetchTypeOK, MainTypeOK, MainSteps, Results
<1>13. CASE RivalBuilds
    BY <1>13 DEF RivalBuilds, mainVars, FetchTypeOK, MainTypeOK, MainSteps,
        Results
<1>14. QED
    BY <1>1, <1>2, <1>3, <1>4, <1>5, <1>6, <1>7, <1>8, <1>9, <1>10, <1>11,
        <1>12, <1>13 DEF Next, Pull, Download, Finished, vars, mainVars,
        dlVars, OpenSource, GetBlob, TempFile, Gunzip, Copy, CheckBlob,
        CheckDiff, OpenFile

(***************************************************************************)
(* Every step keeps the types of the downloads.                            *)
(***************************************************************************)
LEMMA DownloadTypeStep ==
    ASSUME FetchTypeOK, FrameInv, [Next]_vars
    PROVE  DownloadTypeOK'
<1>. USE SourceAssumption DEF Layers
<1>1. CASE UNCHANGED <<dlVars, file>>
    BY <1>1 DEF dlVars, FetchTypeOK, DownloadTypeOK
<1>2. CASE BuildLayer
    <2>1. idx \in Layers => dl[idx] = "idle" /\ attempt[idx] < MAX_DOCKER_RETRIES
        BY <1>2 DEF BuildLayer, FrameInv, FetchTypeOK, MainTypeOK,
            DownloadTypeOK
    <2>2. QED
        BY <1>2, <2>1 DEF BuildLayer, FetchTypeOK, MainTypeOK, DownloadTypeOK,
            DownloadSteps
<1>3. CASE UnpackLayer
    BY <1>3 DEF UnpackLayer, dlVars, FetchTypeOK, DownloadTypeOK
<1>4. ASSUME NEW l \in Layers, OpenSource(l)
       PROVE  DownloadTypeOK'
    <2>1. dl' \in [Layers -> DownloadSteps \cup {"idle", "ended"}]
        BY <1>4 DEF OpenSource, Advance, Send, Reject, FetchTypeOK,
            DownloadTypeOK, DownloadSteps
    <2>2. chan' \in [Layers -> DownloadSteps \cup {"stream", None}]
        BY <1>4 DEF OpenSource, Advance, Send, Reject, FetchTypeOK,
            DownloadTypeOK, DownloadSteps
    <2>3. file' \in [Layers -> BOOLEAN] /\ blob' \in [Layers -> Contents \cup {None}]
        BY <1>4 DEF OpenSource, Reject, FetchTypeOK, DownloadTypeOK, Contents
    <2>4. /\ attempt' \in [Layers -> 0..MAX_DOCKER_RETRIES]
          /\ \A k \in Layers :
                dl'[k] \in {"idle", "source", "request"} => attempt'[k] < MAX_DOCKER_RETRIES
        BY <1>4 DEF OpenSource, Advance, Send, Reject, FetchTypeOK,
            DownloadTypeOK
    <2>5. QED
        BY <2>1, <2>2, <2>3, <2>4 DEF DownloadTypeOK
<1>5. ASSUME NEW l \in Layers, GetBlob(l)
       PROVE  DownloadTypeOK'
    <2>1. dl' \in [Layers -> DownloadSteps \cup {"idle", "ended"}]
        BY <1>5 DEF GetBlob, Advance, Send, Reject, FetchTypeOK,
            DownloadTypeOK, DownloadSteps
    <2>2. chan' \in [Layers -> DownloadSteps \cup {"stream", None}]
        BY <1>5 DEF GetBlob, Advance, Send, Reject, FetchTypeOK,
            DownloadTypeOK, DownloadSteps
    <2>3. file' \in [Layers -> BOOLEAN] /\ blob' \in [Layers -> Contents \cup {None}]
        BY <1>5 DEF GetBlob, Reject, FetchTypeOK, DownloadTypeOK, Contents
    <2>4. /\ attempt' \in [Layers -> 0..MAX_DOCKER_RETRIES]
          /\ \A k \in Layers :
                dl'[k] \in {"idle", "source", "request"} => attempt'[k] < MAX_DOCKER_RETRIES
        <3>1. dl[l] = "request" /\ attempt[l] < MAX_DOCKER_RETRIES
            BY <1>5 DEF GetBlob, FetchTypeOK, DownloadTypeOK
        <3>2. CASE UNCHANGED attempt /\ Advance(l, "tempFile")
            BY <3>1, <3>2 DEF Advance, FetchTypeOK, DownloadTypeOK
        <3>3. CASE /\ attempt' = [attempt EXCEPT ![l] = @ + 1]
                   /\ \/ attempt[l] + 1 < MAX_DOCKER_RETRIES /\ UNCHANGED dl
                      \/ Advance(l, "ended")
            BY <3>1, <3>3 DEF Advance, FetchTypeOK, DownloadTypeOK
        <3>4. QED
            BY <1>5, <3>2, <3>3 DEF GetBlob, Send
    <2>5. QED
        BY <2>1, <2>2, <2>3, <2>4 DEF DownloadTypeOK
<1>6. ASSUME NEW l \in Layers, TempFile(l)
       PROVE  DownloadTypeOK'
    <2>1. dl' \in [Layers -> DownloadSteps \cup {"idle", "ended"}]
        BY <1>6 DEF TempFile, Advance, Send, Reject, FetchTypeOK,
            DownloadTypeOK, DownloadSteps
    <2>2. chan' \in [Layers -> DownloadSteps \cup {"stream", None}]
        BY <1>6 DEF TempFile, Advance, Send, Reject, FetchTypeOK,
            DownloadTypeOK, DownloadSteps
    <2>3. file' \in [Layers -> BOOLEAN] /\ blob' \in [Layers -> Contents \cup {None}]
        BY <1>6 DEF TempFile, Reject, FetchTypeOK, DownloadTypeOK, Contents
    <2>4. /\ attempt' \in [Layers -> 0..MAX_DOCKER_RETRIES]
          /\ \A k \in Layers :
                dl'[k] \in {"idle", "source", "request"} => attempt'[k] < MAX_DOCKER_RETRIES
        BY <1>6 DEF TempFile, Advance, Send, Reject, FetchTypeOK,
            DownloadTypeOK
    <2>5. QED
        BY <2>1, <2>2, <2>3, <2>4 DEF DownloadTypeOK
<1>7. ASSUME NEW l \in Layers, Gunzip(l)
       PROVE  DownloadTypeOK'
    <2>1. dl' \in [Layers -> DownloadSteps \cup {"idle", "ended"}]
        BY <1>7 DEF Gunzip, Advance, Send, Reject, FetchTypeOK,
            DownloadTypeOK,
            DownloadSteps
    <2>2. chan' \in [Layers -> DownloadSteps \cup {"stream", None}]
        BY <1>7 DEF Gunzip, Advance, Send, Reject, FetchTypeOK,
            DownloadTypeOK,
            DownloadSteps
    <2>3. file' \in [Layers -> BOOLEAN] /\ blob' \in [Layers -> Contents \cup {None}]
        BY <1>7 DEF Gunzip, Reject, FetchTypeOK, DownloadTypeOK, Contents
    <2>4. /\ attempt' \in [Layers -> 0..MAX_DOCKER_RETRIES]
          /\ \A k \in Layers :
                dl'[k] \in {"idle", "source", "request"} => attempt'[k] < MAX_DOCKER_RETRIES
        BY <1>7 DEF Gunzip, Advance, Send, Reject, FetchTypeOK, DownloadTypeOK
    <2>5. QED
        BY <2>1, <2>2, <2>3, <2>4 DEF DownloadTypeOK
<1>8. ASSUME NEW l \in Layers, Copy(l)
       PROVE  DownloadTypeOK'
    <2>1. dl' \in [Layers -> DownloadSteps \cup {"idle", "ended"}]
        BY <1>8 DEF Copy, Advance, Send, Reject, FetchTypeOK, DownloadTypeOK,
            DownloadSteps
    <2>2. chan' \in [Layers -> DownloadSteps \cup {"stream", None}]
        BY <1>8 DEF Copy, Advance, Send, Reject, FetchTypeOK, DownloadTypeOK,
            DownloadSteps
    <2>3. file' \in [Layers -> BOOLEAN] /\ blob' \in [Layers -> Contents \cup {None}]
        BY <1>8 DEF Copy, Reject, FetchTypeOK, DownloadTypeOK, Contents
    <2>4. /\ attempt' \in [Layers -> 0..MAX_DOCKER_RETRIES]
          /\ \A k \in Layers :
                dl'[k] \in {"idle", "source", "request"} => attempt'[k] < MAX_DOCKER_RETRIES
        BY <1>8 DEF Copy, Advance, Send, Reject, FetchTypeOK, DownloadTypeOK
    <2>5. QED
        BY <2>1, <2>2, <2>3, <2>4 DEF DownloadTypeOK
<1>9. ASSUME NEW l \in Layers, CheckBlob(l)
       PROVE  DownloadTypeOK'
    <2>1. dl' \in [Layers -> DownloadSteps \cup {"idle", "ended"}]
        BY <1>9 DEF CheckBlob, Advance, Send, Reject, FetchTypeOK,
            DownloadTypeOK, DownloadSteps
    <2>2. chan' \in [Layers -> DownloadSteps \cup {"stream", None}]
        BY <1>9 DEF CheckBlob, Advance, Send, Reject, FetchTypeOK,
            DownloadTypeOK, DownloadSteps
    <2>3. file' \in [Layers -> BOOLEAN] /\ blob' \in [Layers -> Contents \cup {None}]
        BY <1>9 DEF CheckBlob, Reject, FetchTypeOK, DownloadTypeOK, Contents
    <2>4. /\ attempt' \in [Layers -> 0..MAX_DOCKER_RETRIES]
          /\ \A k \in Layers :
                dl'[k] \in {"idle", "source", "request"} => attempt'[k] < MAX_DOCKER_RETRIES
        BY <1>9 DEF CheckBlob, Advance, Send, Reject, FetchTypeOK,
            DownloadTypeOK
    <2>5. QED
        BY <2>1, <2>2, <2>3, <2>4 DEF DownloadTypeOK
<1>10. ASSUME NEW l \in Layers, CheckDiff(l)
       PROVE  DownloadTypeOK'
    <2>1. dl' \in [Layers -> DownloadSteps \cup {"idle", "ended"}]
        BY <1>10 DEF CheckDiff, Advance, Send, Reject, FetchTypeOK,
            DownloadTypeOK, DownloadSteps
    <2>2. chan' \in [Layers -> DownloadSteps \cup {"stream", None}]
        BY <1>10 DEF CheckDiff, Advance, Send, Reject, FetchTypeOK,
            DownloadTypeOK, DownloadSteps
    <2>3. file' \in [Layers -> BOOLEAN] /\ blob' \in [Layers -> Contents \cup {None}]
        BY <1>10 DEF CheckDiff, Reject, FetchTypeOK, DownloadTypeOK, Contents
    <2>4. /\ attempt' \in [Layers -> 0..MAX_DOCKER_RETRIES]
          /\ \A k \in Layers :
                dl'[k] \in {"idle", "source", "request"} => attempt'[k] < MAX_DOCKER_RETRIES
        BY <1>10 DEF CheckDiff, Advance, Send, Reject, FetchTypeOK,
            DownloadTypeOK
    <2>5. QED
        BY <2>1, <2>2, <2>3, <2>4 DEF DownloadTypeOK
<1>11. ASSUME NEW l \in Layers, OpenFile(l)
       PROVE  DownloadTypeOK'
    <2>1. dl' \in [Layers -> DownloadSteps \cup {"idle", "ended"}]
        BY <1>11 DEF OpenFile, Advance, Send, Reject, FetchTypeOK,
            DownloadTypeOK, DownloadSteps
    <2>2. chan' \in [Layers -> DownloadSteps \cup {"stream", None}]
        BY <1>11 DEF OpenFile, Advance, Send, Reject, FetchTypeOK,
            DownloadTypeOK, DownloadSteps
    <2>3. file' \in [Layers -> BOOLEAN] /\ blob' \in [Layers -> Contents \cup {None}]
        BY <1>11 DEF OpenFile, Reject, FetchTypeOK, DownloadTypeOK, Contents
    <2>4. /\ attempt' \in [Layers -> 0..MAX_DOCKER_RETRIES]
          /\ \A k \in Layers :
                dl'[k] \in {"idle", "source", "request"} => attempt'[k] < MAX_DOCKER_RETRIES
        BY <1>11 DEF OpenFile, Advance, Send, Reject, FetchTypeOK,
            DownloadTypeOK
    <2>5. QED
        BY <2>1, <2>2, <2>3, <2>4 DEF DownloadTypeOK
<1>12. QED
    BY <1>1, <1>2, <1>3, <1>4, <1>5, <1>6, <1>7, <1>8, <1>9, <1>10, <1>11 DEF
        Next, Pull, Download, Finished, vars, mainVars, dlVars, Reference,
        GetImage, ConvertImage, V1DiffID, GetConfig, OCIConfig, Receive, Exit,
        CopyPanics, RivalBuilds

(***************************************************************************)
(* Every step keeps count of what goes wrong.                              *)
(***************************************************************************)
LEMMA FaultTypeStep ==
    ASSUME FetchTypeOK, [Next]_vars
    PROVE  faults' \in 0..MaxFaults /\ struck' \subseteq FaultPoints
<1>1. CASE UNCHANGED faultVars
    BY <1>1 DEF faultVars, FetchTypeOK
<1>2. ASSUME NEW step, Fault(step)
      PROVE  faults' \in 0..MaxFaults /\ struck' \subseteq FaultPoints
    BY <1>2, SourceAssumption DEF Fault, FetchTypeOK
<1>3. CASE ~exited /\ Pull
    BY <1>1, <1>2, <1>3 DEF Pull, NoFault, Reference, GetImage, ConvertImage,
        V1DiffID, GetConfig, OCIConfig, BuildLayer, Receive, UnpackLayer, Exit
<1>4. ASSUME NEW l \in Layers, Download(l)
      PROVE  faults' \in 0..MaxFaults /\ struck' \subseteq FaultPoints
    BY <1>1, <1>2, <1>4 DEF Download, NoFault, OpenSource, GetBlob, TempFile,
        Gunzip, Copy, CopyPanics, CheckBlob, CheckDiff, OpenFile
<1>5. QED
    BY <1>1, <1>3, <1>4 DEF Next, RivalBuilds, Finished, vars, faultVars

(***************************************************************************)
(* Every step keeps the channel and the file of each download in order.    *)
(***************************************************************************)
LEMMA DownloadStep ==
    ASSUME FetchTypeOK, DownloadInv, FrameInv, [Next]_vars
    PROVE  DownloadInv'
<1>. USE SourceAssumption DEF Layers
<1>1. CASE UNCHANGED <<dl, chan, file, unpacked>>
    BY <1>1 DEF DownloadInv
<1>2. CASE BuildLayer
    BY <1>2 DEF BuildLayer, DownloadInv, FrameInv, FetchTypeOK, MainTypeOK,
        DownloadTypeOK
<1>3. CASE UnpackLayer
    BY <1>3 DEF UnpackLayer, dlVars, DownloadInv, FrameInv, FetchTypeOK,
        MainTypeOK, DownloadTypeOK
<1>4. ASSUME NEW l \in Layers, OpenSource(l)
       PROVE  DownloadInv'
    <2>1. ~file[l] /\ chan[l] = None /\ dl[l] = "source"
        BY <1>4 DEF OpenSource, DownloadInv
    <2>2. UNCHANGED <<file, unpacked>>
        BY <1>4 DEF OpenSource, mainVars
    <2>3. CASE Advance(l, "request") /\ UNCHANGED chan
        BY <2>1, <2>2, <2>3 DEF Advance, DownloadInv, FetchTypeOK,
            DownloadTypeOK
    <2>4. CASE Send(l, "source")
        BY <2>1, <2>2, <2>4 DEF Send, Advance, DownloadInv, FetchTypeOK,
            DownloadTypeOK
    <2>5. QED
        BY <1>4, <2>3, <2>4 DEF OpenSource
<1>5. ASSUME NEW l \in Layers, GetBlob(l)
       PROVE  DownloadInv'
    BY <1>5 DEF GetBlob, Advance, Send, mainVars, DownloadInv, FetchTypeOK,
        DownloadTypeOK, DownloadSteps
<1>6. ASSUME NEW l \in Layers, TempFile(l)
       PROVE  DownloadInv'
    <2>1. ~file[l] /\ chan[l] = None /\ dl[l] = "tempFile"
        BY <1>6 DEF TempFile, DownloadInv
    <2>2. /\ UNCHANGED unpacked
          /\ file' \in {file, [file EXCEPT ![l] = TRUE]}
        BY <1>6 DEF TempFile, mainVars
    <2>3. CASE \E step \in {"gunzip", "copy"} : Advance(l, step) /\ UNCHANGED chan
        BY <2>1, <2>2, <2>3 DEF Advance, DownloadInv, FetchTypeOK, DownloadTypeOK
    <2>4. CASE Send(l, "tempFile") /\ file' = file
        BY <2>1, <2>2, <2>4 DEF Send, Advance, DownloadInv, FetchTypeOK, DownloadTypeOK
    <2>5. ~file'[l] => file' = file
        BY <2>1, <2>2 DEF FetchTypeOK, DownloadTypeOK
    <2>6. QED
        BY <1>6, <2>3, <2>4, <2>5 DEF TempFile
<1>7. ASSUME NEW l \in Layers, Gunzip(l)
       PROVE  DownloadInv'
    BY <1>7 DEF Gunzip, Advance, Send, mainVars, DownloadInv, FetchTypeOK,
        DownloadTypeOK, DownloadSteps
<1>8. ASSUME NEW l \in Layers, Copy(l)
       PROVE  DownloadInv'
    BY <1>8 DEF Copy, Advance, Send, Reject, mainVars, DownloadInv,
        FetchTypeOK, DownloadTypeOK, DownloadSteps
<1>9. ASSUME NEW l \in Layers, CheckBlob(l)
       PROVE  DownloadInv'
    BY <1>9 DEF CheckBlob, Advance, Send, Reject, mainVars, DownloadInv,
        FetchTypeOK, DownloadTypeOK, DownloadSteps
<1>10. ASSUME NEW l \in Layers, CheckDiff(l)
       PROVE  DownloadInv'
    BY <1>10 DEF CheckDiff, Advance, Send, Reject, mainVars, DownloadInv,
        FetchTypeOK, DownloadTypeOK, DownloadSteps
<1>11. ASSUME NEW l \in Layers, OpenFile(l)
       PROVE  DownloadInv'
    BY <1>11 DEF OpenFile, Advance, Send, mainVars, DownloadInv, FetchTypeOK,
        DownloadTypeOK, DownloadSteps
<1>12. QED
    BY <1>1, <1>2, <1>3, <1>4, <1>5, <1>6, <1>7, <1>8, <1>9, <1>10, <1>11 DEF
        Next, Pull, Download, Finished, vars, mainVars, dlVars, Reference,
        GetImage, ConvertImage, V1DiffID, GetConfig, OCIConfig, Receive, Exit,
        CopyPanics, RivalBuilds

(***************************************************************************)
(* Every step keeps what the checks have established.                      *)
(***************************************************************************)
LEMMA CheckStep ==
    ASSUME FetchTypeOK, DownloadInv, FrameInv, CheckInv, [Next]_vars
    PROVE  CheckInv'
<1>. USE SourceAssumption DEF Layers
<1>1. CASE UNCHANGED <<image, dl, blob, chan, diffID>>
    BY <1>1 DEF CheckInv
<1>2. CASE V1DiffID
    BY <1>2 DEF V1DiffID, dlVars, CheckInv, DownloadInv, FrameInv,
        ManifestSteps, FetchTypeOK, MainTypeOK
<1>3. CASE BuildLayer
    BY <1>3 DEF BuildLayer, CheckInv, FetchTypeOK, MainTypeOK, DownloadTypeOK
<1>4. ASSUME NEW l \in Layers, OpenSource(l)
       PROVE  CheckInv'
    BY <1>4 DEF OpenSource, Advance, Send, mainVars, CheckInv, DownloadInv,
        FetchTypeOK, DownloadTypeOK, DownloadSteps
<1>5. ASSUME NEW l \in Layers, GetBlob(l)
       PROVE  CheckInv'
    BY <1>5 DEF GetBlob, Advance, Send, mainVars, CheckInv, DownloadInv,
        FetchTypeOK, DownloadTypeOK, DownloadSteps
<1>6. ASSUME NEW l \in Layers, TempFile(l)
       PROVE  CheckInv'
    BY <1>6 DEF TempFile, Advance, Send, mainVars, CheckInv, DownloadInv,
        FetchTypeOK, DownloadTypeOK, DownloadSteps
<1>7. ASSUME NEW l \in Layers, Gunzip(l)
       PROVE  CheckInv'
    BY <1>7 DEF Gunzip, Advance, Send, mainVars, CheckInv, DownloadInv,
        FetchTypeOK, DownloadTypeOK, DownloadSteps
<1>8. ASSUME NEW l \in Layers, Copy(l)
       PROVE  CheckInv'
    BY <1>8 DEF Copy, Advance, Send, Reject, mainVars, CheckInv, DownloadInv,
        FetchTypeOK, DownloadTypeOK, DownloadSteps
<1>9. ASSUME NEW l \in Layers, CheckBlob(l)
       PROVE  CheckInv'
    BY <1>9 DEF CheckBlob, Advance, Send, Reject, mainVars, CheckInv,
        DownloadInv, FetchTypeOK, DownloadTypeOK, DownloadSteps
<1>10. ASSUME NEW l \in Layers, CheckDiff(l)
       PROVE  CheckInv'
    BY <1>10 DEF CheckDiff, Advance, Send, Reject, mainVars, CheckInv,
        DownloadInv, FetchTypeOK, DownloadTypeOK, DownloadSteps
<1>11. ASSUME NEW l \in Layers, OpenFile(l)
       PROVE  CheckInv'
    BY <1>11 DEF OpenFile, Advance, Send, mainVars, CheckInv, DownloadInv,
        FetchTypeOK, DownloadTypeOK, DownloadSteps
<1>12. QED
    BY <1>1, <1>2, <1>3, <1>4, <1>5, <1>6, <1>7, <1>8, <1>9, <1>10, <1>11 DEF
        Next, Pull, Download, Finished, vars, mainVars, dlVars, Reference,
        GetImage, ConvertImage, GetConfig, OCIConfig, Receive, UnpackLayer,
        Exit, CopyPanics, RivalBuilds

(***************************************************************************)
(* A download changes only its own file and channel, and only before it    *)
(* has ended.                                                              *)
(***************************************************************************)
LEMMA OwnDownload ==
    ASSUME FetchTypeOK, NEW l \in Layers,
           \/ OpenSource(l) \/ GetBlob(l) \/ TempFile(l) \/ Gunzip(l) \/ Copy(l)
           \/ CheckBlob(l) \/ CheckDiff(l) \/ OpenFile(l)
    PROVE  /\ dl[l] \notin {"idle", "ended"}
           /\ \A k \in Layers \ {l} :
                dl'[k] = dl[k] /\ file'[k] = file[k] /\ chan'[k] = chan[k]
           /\ UNCHANGED mainVars
<1>1. CASE OpenSource(l)
    BY <1>1 DEF OpenSource, Advance, Send, Reject, FetchTypeOK, DownloadTypeOK
<1>2. CASE GetBlob(l)
    BY <1>2 DEF GetBlob, Advance, Send, Reject, FetchTypeOK, DownloadTypeOK
<1>3. CASE TempFile(l)
    BY <1>3 DEF TempFile, Advance, Send, Reject, FetchTypeOK, DownloadTypeOK
<1>4. CASE Gunzip(l)
    BY <1>4 DEF Gunzip, Advance, Send, Reject, FetchTypeOK, DownloadTypeOK
<1>5. CASE Copy(l)
    BY <1>5 DEF Copy, Advance, Send, Reject, FetchTypeOK, DownloadTypeOK
<1>6. CASE CheckBlob(l)
    BY <1>6 DEF CheckBlob, Advance, Send, Reject, FetchTypeOK, DownloadTypeOK
<1>7. CASE CheckDiff(l)
    BY <1>7 DEF CheckDiff, Advance, Send, Reject, FetchTypeOK, DownloadTypeOK
<1>8. CASE OpenFile(l)
    BY <1>8 DEF OpenFile, Advance, Send, Reject, FetchTypeOK, DownloadTypeOK
<1>9. QED
    BY <1>1, <1>2, <1>3, <1>4, <1>5, <1>6, <1>7, <1>8

(***************************************************************************)
(* So it disturbs no frame: a download that runs is not settled.           *)
(***************************************************************************)
LEMMA DownloadKeepsFrames ==
    ASSUME FetchTypeOK, DownloadInv, FrameInv, NEW l \in Layers,
           \/ OpenSource(l) \/ GetBlob(l) \/ TempFile(l) \/ Gunzip(l) \/ Copy(l)
           \/ CheckBlob(l) \/ CheckDiff(l) \/ OpenFile(l)
    PROVE  FrameInv'
<1>1. /\ dl[l] \notin {"idle", "ended"}
      /\ \A k \in Layers \ {l} :
            dl'[k] = dl[k] /\ file'[k] = file[k] /\ chan'[k] = chan[k]
      /\ main' = main /\ idx' = idx
    BY OwnDownload DEF mainVars
<1>2. ~Settled(l) /\ chan[l] = None
    BY <1>1 DEF Settled, DownloadInv
<1>3. \A k \in Layers \ {l} : Settled(k) => Settled(k)'
    BY <1>1 DEF Settled
<1>4. main = "unpack" => idx # l /\ idx \in Layers
    BY <1>2, SourceAssumption DEF FrameInv, FetchTypeOK, MainTypeOK
<1>5. main = "failed" => ~(l <= idx)
    BY <1>2, SourceAssumption DEF FrameInv, DownloadSteps
<1>6. QED
    BY <1>1, <1>2, <1>3, <1>4, <1>5 DEF FrameInv

(***************************************************************************)
(* Every step keeps the downloads of the layers below the frame settled.   *)
(***************************************************************************)
LEMMA FrameStep ==
    ASSUME FetchTypeOK, DownloadInv, FrameInv, [Next]_vars
    PROVE  FrameInv'
<1>. USE SourceAssumption DEF Layers
<1>1. CASE UNCHANGED <<main, idx, dl, file, chan>>
    BY <1>1 DEF FrameInv, Settled
<1>2. CASE Reference
    BY <1>2 DEF Reference, Goto, dlVars, FrameInv, Settled, ManifestSteps,
        FetchTypeOK, MainTypeOK
<1>3. CASE GetImage
    BY <1>3 DEF GetImage, Goto, Again, dlVars, FrameInv, Settled,
        ManifestSteps, FetchTypeOK, MainTypeOK
<1>4. CASE ConvertImage
    BY <1>4 DEF ConvertImage, Goto, dlVars, FrameInv, Settled, ManifestSteps,
        FetchTypeOK, MainTypeOK
<1>5. CASE V1DiffID
    BY <1>5 DEF V1DiffID, Goto, Again, dlVars, FrameInv, Settled,
        ManifestSteps, FetchTypeOK, MainTypeOK
<1>6. CASE GetConfig
    BY <1>6 DEF GetConfig, Goto, Again, dlVars, FrameInv, Settled,
        ManifestSteps, FetchTypeOK, MainTypeOK
<1>7. CASE OCIConfig
    BY <1>7 DEF OCIConfig, Goto, dlVars, FrameInv, Settled, ManifestSteps,
        FetchTypeOK, MainTypeOK
<1>8. CASE BuildLayer
    BY <1>8 DEF BuildLayer, Goto, Return, FrameInv, Settled, ManifestSteps,
        FetchTypeOK, MainTypeOK, DownloadTypeOK
<1>9. CASE Receive
    BY <1>9 DEF Receive, Goto, dlVars, FrameInv, DownloadInv, Settled,
        ManifestSteps, FetchTypeOK, MainTypeOK, DownloadTypeOK, DownloadSteps
<1>10. CASE UnpackLayer
    BY <1>10 DEF UnpackLayer, Goto, Return, dlVars, FrameInv, DownloadInv,
        Settled, ManifestSteps, FetchTypeOK, MainTypeOK, DownloadTypeOK
<1>11. ASSUME NEW l \in Layers, CopyPanics(l)
       PROVE  FrameInv'
    BY <1>11 DEF CopyPanics, FrameInv, ManifestSteps
<1>12. ASSUME NEW l \in Layers,
              \/ OpenSource(l) \/ GetBlob(l) \/ TempFile(l) \/ Gunzip(l) \/ Copy(l)
              \/ CheckBlob(l) \/ CheckDiff(l) \/ OpenFile(l)
       PROVE  FrameInv'
    BY <1>12, DownloadKeepsFrames
<1>13. QED
    BY <1>1, <1>2, <1>3, <1>4, <1>5, <1>6, <1>7, <1>8, <1>9, <1>10, <1>11,
        <1>12 DEF Next, Pull, Download, Finished, vars, mainVars, dlVars,
        Exit, RivalBuilds

(***************************************************************************)
(* Every step keeps what has been unpacked verified.                       *)
(***************************************************************************)
LEMMA VerifiedStep ==
    ASSUME FetchTypeOK, DownloadInv, FrameInv, CheckInv, VerifiedOnly, [Next]_vars
    PROVE  VerifiedOnly'
<1>. USE SourceAssumption DEF Layers
<1>1. CASE UNCHANGED <<image, unpacked, diffID>>
    BY <1>1 DEF VerifiedOnly
<1>2. CASE V1DiffID
    BY <1>2 DEF V1DiffID, VerifiedOnly, DownloadInv, FrameInv, ManifestSteps,
        FetchTypeOK, MainTypeOK
<1>3. CASE UnpackLayer
    BY <1>3 DEF UnpackLayer, VerifiedOnly, CheckInv, FrameInv, FetchTypeOK,
        MainTypeOK
<1>4. QED
    BY <1>1, <1>2, <1>3 DEF Next, Pull, Download, Finished, vars, mainVars,
        dlVars, Reference, GetImage, ConvertImage, GetConfig, OCIConfig,
        BuildLayer, Receive, Exit, OpenSource, GetBlob, TempFile, Gunzip,
        Copy, CopyPanics, CheckBlob, CheckDiff, OpenFile, RivalBuilds

(***************************************************************************)
(* The invariant of a pull.                                                *)
(***************************************************************************)
THEOREM FetchInvariant == Spec => []FetchInv
<1>1. FetchInv /\ [Next]_vars => FetchInv'
    BY MainTypeStep, DownloadTypeStep, FaultTypeStep, DownloadStep, CheckStep,
        FrameStep, VerifiedStep DEF FetchInv, FetchTypeOK
<1>2. QED
    BY FetchInit, <1>1, PTL DEF Spec

(***************************************************************************)
(* The state has its types.                                                *)
(***************************************************************************)
THEOREM FetchTypesHold == Spec => []FetchTypeOK
<1>1. FetchInv => FetchTypeOK
    BY DEF FetchInv
<1>2. QED
    BY FetchInvariant, <1>1, PTL

(***************************************************************************)
(* Whatever the registry delivers, and in whichever order, only layers     *)
(* that match both digests are unpacked.                                   *)
(***************************************************************************)
THEOREM OnlyVerified == Spec => []VerifiedOnly
<1>1. FetchInv => VerifiedOnly
    BY DEF FetchInv
<1>2. QED
    BY FetchInvariant, <1>1, PTL

(***************************************************************************)
(* A pull that succeeded leaves no temporary file; one that failed leaves  *)
(* those of the layers above the failed one, and of two errors.            *)
(***************************************************************************)
THEOREM FilesLeft == Spec => []LeftFiles
<1>1. FetchInv => LeftFiles
    BY SourceAssumption DEF FetchInv, LeftFiles, DownloadInv, FrameInv, Settled,
        Layers, FetchTypeOK, MainTypeOK, DownloadTypeOK, Contents, MainSteps,
        DownloadSteps, Results, Image
<1>2. QED
    BY FetchInvariant, <1>1, PTL

(***************************************************************************)
(* What RetriesSuffice rests on: every download finds a diff id, and as    *)
(* long as only repeated requests have failed, each counter is covered by  *)
(* failures, what is downloaded is good, and an error is a used-up retry.  *)
(***************************************************************************)
DiffInv ==
    /\ ~image.schemaV1 => \A l \in Layers : diffID[l] # None
    /\ main = "v1Blob" => \A l \in Layers : l < idx => diffID[l] # None
    /\ main \in {"config", "ociConfig", "buildLayer"} => \A l \in Layers : diffID[l] # None
    /\ \A l \in Layers : dl[l] # "idle" => diffID[l] # None

OnlyRetried == struck \subseteq {"image", "request", "config"}
NoBadDiff == \A l \in Layers : diffID[l] # "bad"

DownloadRetryInv(l) ==
    /\ attempt[l] <= faults
    /\ dl[l] \in DownloadSteps \ {"source", "request"} => blob[l] = "good"
    /\ NoBadDiff => chan[l] \in {None, "stream", "request"}
    /\ NoBadDiff /\ chan[l] = "request" => MAX_DOCKER_RETRIES <= faults

MainRetryInv ==
    /\ tries <= faults
    /\ NoBadDiff /\ main = "failed" => MAX_DOCKER_RETRIES <= faults

RetryInv ==
    OnlyRetried => MainRetryInv /\ \A l \in Layers : DownloadRetryInv(l)

\* Diff ids are there before the first download starts.
LEMMA DiffStep ==
    ASSUME FetchInv, DiffInv, [Next]_vars
    PROVE  DiffInv'
<1>. USE SourceAssumption DEF Layers
<1>1. CASE UNCHANGED <<image, main, idx, diffID, dl>>
    BY <1>1 DEF DiffInv
<1>2. CASE ConvertImage
    BY <1>2 DEF ConvertImage, Goto, dlVars, DiffInv, FetchInv, FetchTypeOK, MainTypeOK
<1>3. CASE V1DiffID
    <2>1. image' = image /\ dl' = dl /\ main' \in {"v1Blob", "config", "failed"}
        BY <1>3 DEF V1DiffID, Goto, Again, dlVars
    <2>2. \A l \in Layers : diffID[l] # None => diffID'[l] # None
        BY <1>3 DEF V1DiffID, FetchInv, FetchTypeOK, MainTypeOK, Contents
    <2>3. \A l \in Layers : l < idx => diffID[l] # None
        BY <1>3 DEF V1DiffID, DiffInv
    <2>4. idx \in Layers
        BY <1>3 DEF V1DiffID, FetchInv, FetchTypeOK, MainTypeOK
    <2>5. \/ idx' = idx /\ main' # "config"
          \/ /\ diffID'[idx] # None
             /\ \/ idx' = idx + 1 /\ main' = "v1Blob"
                \/ idx = NumLayers /\ main' = "config"
        BY <1>3, <2>4 DEF V1DiffID, Goto, Again, FetchInv, FetchTypeOK, MainTypeOK, Contents
    <2>6. main' = "v1Blob" => \A l \in Layers : l < idx' => diffID'[l] # None
        BY <2>2, <2>3, <2>4, <2>5
    <2>7. main' = "config" => \A l \in Layers : diffID'[l] # None
        BY <2>2, <2>3, <2>4, <2>5
    <2>8. QED
        BY <2>1, <2>2, <2>6, <2>7 DEF DiffInv
<1>4. CASE BuildLayer
    BY <1>4 DEF BuildLayer, Goto, Return, DiffInv, FetchInv, FetchTypeOK, MainTypeOK,
        DownloadTypeOK
<1>5. CASE Reference \/ GetImage \/ GetConfig \/ OCIConfig
    BY <1>5 DEF Reference, GetImage, GetConfig, OCIConfig, Goto, Again, dlVars, DiffInv,
        FetchInv, FetchTypeOK, MainTypeOK
<1>6. CASE Receive \/ UnpackLayer
    BY <1>6 DEF Receive, UnpackLayer, Goto, Return, dlVars, DiffInv, FetchInv,
        FetchTypeOK, MainTypeOK
<1>7. ASSUME NEW k \in Layers, Download(k)
      PROVE  DiffInv'
    <2>1. image' = image /\ idx' = idx /\ diffID' = diffID /\ main' \in {main, "panicked"}
        BY <1>7 DEF Download, OpenSource, GetBlob, TempFile, Gunzip, Copy, CopyPanics,
            CheckBlob, CheckDiff, OpenFile, mainVars
    <2>2. \A l \in Layers : dl'[l] # "idle" => dl[l] # "idle"
        BY <1>7 DEF Download, OpenSource, GetBlob, TempFile, Gunzip, Copy, CopyPanics,
            CheckBlob, CheckDiff, OpenFile, Advance, Send, Reject, dlVars, FetchInv,
            FetchTypeOK, DownloadTypeOK
    <2>3. QED
        BY <2>1, <2>2 DEF DiffInv
<1>8. QED
    BY <1>1, <1>2, <1>3, <1>4, <1>5, <1>6, <1>7 DEF Next, Pull, Exit, RivalBuilds,
        Finished, vars, mainVars, dlVars

\* What went wrong before stays on record.
LEMMA StruckGrows ==
    ASSUME FetchInv, [Next]_vars, OnlyRetried'
    PROVE  OnlyRetried /\ faults \in Nat /\ faults' \in Nat /\ faults <= faults'
<1>1. CASE UNCHANGED faultVars
    BY <1>1, SourceAssumption DEF faultVars, OnlyRetried, FetchInv, FetchTypeOK
<1>2. ASSUME NEW step, Fault(step)
      PROVE  OnlyRetried /\ faults \in Nat /\ faults' \in Nat /\ faults <= faults'
    BY <1>2, SourceAssumption DEF Fault, OnlyRetried, FetchInv, FetchTypeOK
<1>3. QED
    BY <1>1, <1>2 DEF Next, Pull, Download, Finished, vars, NoFault, faultVars,
        Reference, GetImage, ConvertImage, V1DiffID, GetConfig, OCIConfig, BuildLayer, Receive,
        UnpackLayer, Exit, RivalBuilds, OpenSource, GetBlob, TempFile, Gunzip, Copy, CopyPanics,
        CheckBlob, CheckDiff, OpenFile

\* Every step keeps the counters of the pull itself covered.
LEMMA MainRetryStep ==
    ASSUME FetchInv, DiffInv, RetryInv, [Next]_vars, OnlyRetried'
    PROVE  MainRetryInv'
<1>. USE SourceAssumption DEF Layers
<1>1. /\ OnlyRetried /\ MainRetryInv /\ \A l \in Layers : DownloadRetryInv(l)
      /\ faults \in Nat /\ faults' \in Nat /\ faults <= faults' /\ tries \in Nat
    BY StruckGrows DEF RetryInv, FetchInv, FetchTypeOK, MainTypeOK
<1>2. CASE tries' = tries /\ diffID' = diffID /\ (main' = "failed" => main = "failed")
    BY <1>1, <1>2 DEF MainRetryInv, NoBadDiff
<1>3. CASE \/ Reference \/ ConvertImage \/ OCIConfig \/ BuildLayer \/ UnpackLayer
           \/ Exit \/ RivalBuilds
    BY <1>1, <1>2, <1>3 DEF Reference, ConvertImage, OCIConfig, BuildLayer, UnpackLayer, Exit,
        RivalBuilds, mainVars, Goto, Return, Fault, OnlyRetried
<1>4. CASE GetImage \/ GetConfig
    BY <1>1, <1>4 DEF GetImage, GetConfig, Goto, Again, Fault, NoFault, faultVars, MainRetryInv,
        NoBadDiff, FetchInv, FetchTypeOK, MainTypeOK
<1>5. CASE V1DiffID
    <2>1. /\ tries' <= faults'
          /\ main' = "failed" => MAX_DOCKER_RETRIES <= faults'
        BY <1>1, <1>5 DEF V1DiffID, Goto, Again, Fault, NoFault, faultVars, OnlyRetried,
            MainRetryInv, FetchInv, FetchTypeOK, MainTypeOK
    <2>2. QED
        BY <2>1 DEF MainRetryInv
<1>6. CASE Receive
    <2>1. idx \in Layers /\ chan[idx] # None /\ tries' = tries /\ diffID' = diffID
        BY <1>6 DEF Receive, FetchInv, FetchTypeOK, MainTypeOK
    <2>2. main' = "failed" => chan[idx] # "stream"
        BY <1>6 DEF Receive, Goto
    <2>3. QED
        BY <1>1, <2>1, <2>2 DEF MainRetryInv, DownloadRetryInv, NoBadDiff
<1>7. ASSUME NEW k \in Layers, Download(k)
      PROVE  MainRetryInv'
    BY <1>1, <1>2, <1>7 DEF Download, OpenSource, GetBlob, TempFile, Gunzip, Copy, CopyPanics,
        CheckBlob, CheckDiff, OpenFile, mainVars
<1>8. QED
    BY <1>2, <1>3, <1>4, <1>5, <1>6, <1>7 DEF Next, Pull, Finished, vars

\* Every step keeps the requests of each download covered.
LEMMA DownloadRetryStep ==
    ASSUME FetchInv, DiffInv, RetryInv, [Next]_vars, OnlyRetried', NEW l \in Layers
    PROVE  DownloadRetryInv(l)'
<1>. USE SourceAssumption DEF Layers
<1>1. /\ OnlyRetried /\ DownloadRetryInv(l)
      /\ faults \in Nat /\ faults' \in Nat /\ faults <= faults' /\ attempt[l] \in Nat
    BY StruckGrows DEF RetryInv, FetchInv, FetchTypeOK, DownloadTypeOK
<1>2. CASE /\ attempt'[l] = attempt[l] /\ blob'[l] = blob[l] /\ chan'[l] = chan[l]
           /\ dl'[l] \in {dl[l], "source"} /\ diffID' = diffID
    BY <1>1, <1>2 DEF DownloadRetryInv, NoBadDiff
<1>3. CASE V1DiffID
    <2>1. dl[l] = "idle" /\ chan[l] = None /\ UNCHANGED dlVars
        BY <1>3 DEF V1DiffID, FetchInv, FrameInv, ManifestSteps, DownloadInv
    <2>2. QED
        BY <1>1, <2>1 DEF dlVars, DownloadRetryInv, DownloadSteps
<1>4. CASE \E k \in Layers : Download(k)
    <2>1. PICK k \in Layers : Download(k)
        BY <1>4
    <2>2. diffID' = diffID
        BY <2>1 DEF Download, OpenSource, GetBlob, TempFile, Gunzip, Copy, CopyPanics,
            CheckBlob, CheckDiff, OpenFile, mainVars
    <2>3. CASE k # l
        BY <1>2, <2>1, <2>2, <2>3 DEF Download, OpenSource, GetBlob, TempFile, Gunzip, Copy,
            CopyPanics, CheckBlob, CheckDiff, OpenFile, Advance, Send, Reject, dlVars,
            FetchInv, FetchTypeOK, DownloadTypeOK
    <2>4. CASE k = l /\ GetBlob(l)
        BY <1>1, <2>2, <2>4 DEF GetBlob, Advance, Send, Fault, NoFault, faultVars, OnlyRetried,
            DownloadRetryInv, NoBadDiff, DownloadSteps, FetchInv, FetchTypeOK, DownloadTypeOK,
            DownloadInv
    <2>5. CASE k = l /\ CheckDiff(l)
        <3>1. diffID[l] \in {"good", "bad"} /\ blob[l] = "good"
            BY <1>1, <2>5 DEF CheckDiff, DiffInv, DownloadRetryInv, DownloadSteps, FetchInv,
                FetchTypeOK, MainTypeOK
        <3>2. NoBadDiff => diffID[l] = "good"
            BY <3>1 DEF NoBadDiff
        <3>3. QED
            BY <1>1, <2>2, <2>5, <3>1, <3>2 DEF CheckDiff, Advance, Reject, Send,
                DownloadRetryInv, NoBadDiff, DownloadSteps, faultVars, FetchInv, FetchTypeOK,
                DownloadTypeOK
    <2>6. CASE k = l /\ (OpenSource(l) \/ TempFile(l) \/ OpenFile(l))
        BY <1>1, <2>2, <2>6 DEF OpenSource, TempFile, OpenFile, Advance, Send, Fault, NoFault,
            faultVars, OnlyRetried, DownloadRetryInv, NoBadDiff, DownloadSteps, FetchInv,
            FetchTypeOK, DownloadTypeOK, DownloadInv
    <2>7. CASE k = l /\ (Gunzip(l) \/ Copy(l) \/ CopyPanics(l) \/ CheckBlob(l))
        BY <1>1, <2>2, <2>7 DEF Gunzip, Copy, CopyPanics, CheckBlob, Advance, Reject, Send, Fault,
            NoFault, faultVars, OnlyRetried, DownloadRetryInv, NoBadDiff, DownloadSteps, dlVars,
            FetchInv, FetchTypeOK, DownloadTypeOK, DownloadInv
    <2>8. QED
        BY <2>1, <2>3, <2>4, <2>5, <2>6, <2>7 DEF Download
<1>5. CASE BuildLayer
    BY <1>2, <1>5 DEF BuildLayer, FetchInv, FetchTypeOK, DownloadTypeOK
<1>6. QED
    BY <1>2, <1>3, <1>4, <1>5 DEF Next, Pull, Finished, vars, dlVars, mainVars, Reference,
        GetImage, ConvertImage, GetConfig, OCIConfig, Receive, UnpackLayer, Exit, RivalBuilds

(***************************************************************************)
(* A pull of an image whose diff ids are right that fails after nothing    *)
(* but failed requests has met as many failures as one request may: each   *)
(* counter counts failures, and no other step fails by itself.             *)
(***************************************************************************)
THEOREM RetriesDoSuffice == Spec => []RetriesSuffice
<1>1. Init => DiffInv /\ RetryInv
    BY SourceAssumption DEF Init, DiffInv, RetryInv, MainRetryInv, DownloadRetryInv,
        DownloadSteps, Image, Layers
<1>2. FetchInv /\ FetchInv' /\ DiffInv /\ RetryInv /\ [Next]_vars => DiffInv' /\ RetryInv'
    BY DiffStep, MainRetryStep, DownloadRetryStep, StruckGrows DEF RetryInv, Layers
<1>3. RetryInv => RetriesSuffice
    BY DEF RetryInv, RetriesSuffice, OnlyRetried, MainRetryInv, NoBadDiff
<1>4. QED
    BY FetchInvariant, <1>1, <1>2, <1>3, PTL DEF Spec
=============================================================================
