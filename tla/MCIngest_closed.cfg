\* One client, one pane that may be closed, one filter.
CONSTANTS
    TargetIDs = {a}
    Clients = {c1}
    Keys = {"k", "m"}
    Values = {"short", "long"}
    SizeOf <- Sizes
    ValueMaxBytes = 2
    StoreMaxBytes = 2
    Bodies <- AllBodies
    FilterChainMax = 1
    ScrollbackCap = 2
    Behaviours = {"one", "blank"}
    MaxLines = 3
    MaxPipelines = 1
    MaxFilters = 1
SPECIFICATION Spec
INVARIANTS NoOrphanCommand
CHECK_DEADLOCK FALSE
