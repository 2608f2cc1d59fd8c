CONSTANTS
    foo = foo
    bar = bar
    ImageIDs = {foo, bar}
    ConfigFiles <- MCConfigFiles
    CommandLines <- MCCommandLines
    StorePath <- Store
    Drax <- MCDrax
    Root = FALSE
    Registry = "registry"
    BaseSize = 2
    MaxCommands = 3
    MaxWrites = 2
    MaxFaults = 1
SPECIFICATION SessionSpec
INVARIANTS
    SessionTypeOK
    CreatedFromBase
    AskedOptions
    FailedCreateCleansUp
    DeleteDeletes
    ReportedRight
PROPERTY SizesKept
