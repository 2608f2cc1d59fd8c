SPECIFICATION FairSpec
CONSTANTS
    None = None
    NumLayers = 2
    Images <- MCImages
    MAX_DOCKER_RETRIES = 3
    FaultPoints <- AllFaults
    MaxFaults = 4
INVARIANTS
    FetchTypeOK
    VerifiedOnly
    RetriesSuffice
    LeftFiles
PROPERTIES
    PullEnds
