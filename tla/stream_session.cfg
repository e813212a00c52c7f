SPECIFICATION FairSpec
CONSTANTS
    Surfaces <- AllSurfaces
    MaxChunks = 4
    ToolIds = {0, 1}
INVARIANTS SettledBeforeEnd FailureTold BlocksWellFormed EndsUnlessMixed
PROPERTY SlotsReturn
