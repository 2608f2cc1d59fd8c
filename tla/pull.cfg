SPECIFICATION FairSpec
CONSTANTS
    p1 = p1
    p2 = p2
    p3 = p3
    p4 = p4
    A = A
    B = B
    C = C
    foo = foo
    bar = bar
    foobar = foobar
    busybox = busybox
    alpine = alpine
    scratch = scratch
    None = None
    Procs = {p1, p2, p3}
    ChainIDs = {A, B, C}
    ImageIDs = {foo, bar, foobar}
    Extensions <- MCExtensions
    BaseImages = {busybox, alpine, scratch}
    Layers <- MCLayers
    BaseSize <- MCSize
    Commands <- PullCommands
    Pulled = {}
    Installed <- NoImages
    FaultPoints <- AllFaults
    MaxFaults = 1
INVARIANTS
    TypeOK
    VolumesComplete
    LayersStay
    BuilderOwnsName
    WaitsDescend
PROPERTY AllEnd
