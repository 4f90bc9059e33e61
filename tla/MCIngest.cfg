\* Two clients, one pane that may be closed and split again, one filter stage
\* and two filters that compete for it.
CONSTANTS
    TargetIDs = {a}
    Clients = {c1, c2}
    Keys = {"k", "m"}
    Values = {"short", "long"}
    SizeOf <- Sizes
    ValueMaxBytes = 2
    StoreMaxBytes = 2
    Bodies <- AllBodies
    FilterChainMax = 1
    ScrollbackCap = 2
    Behaviours = {"one", "blank"}
    MaxLines = 3
    MaxPipelines = 2
    MaxFilters = 2
SPECIFICATION FairSpec
INVARIANTS TotalIsSum OwnAnswer PosterOrder ScrollbackMatchesShown RefusedCommandsEnd
PROPERTIES PostsEnd
CHECK_DEADLOCK FALSE
