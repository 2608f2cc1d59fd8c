SPECIFICATION Spec
CONSTANTS
    p1 = p1
    p2 = p2
    p3 = p3
    p4 = p4
    m1 = m1
    m2 = m2
    foo = foo
    bar = bar
    None = None
    Empty = Empty
    Bare = Bare
    Procs = {p1, p2, p3}
    Mappings = {m1, m2}
    ImageIDs = {foo, bar}
    Commands <- RemovalCommands
    Overlap <- UsersOverlap
    HostBtrfs = TRUE
    Preset = m1
    MinStoreSize = 2
    AbortPoints <- AllAborts
    MaxFaults = 1
INVARIANTS
    DeletedStoreStaysGone
