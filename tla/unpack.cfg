SPECIFICATION FairUnpackSpec
CONSTANTS
    Commands <- MCCommands
    Layers <- MCLayers
    Mappings <- MCMappings
    Accepts <- KernelAccepts
    MaxCalls = 4
    User <- MCUser
    MaxFaults = 2
    MaxLinks = 2
INVARIANTS
    UnpackTypeOK
    WorksMapped
    QuietAfterReturn
    LayerAsMeant
    ImageMade
PROPERTY ProcessesEnd
