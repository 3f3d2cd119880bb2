SPECIFICATION LifeSpec
CONSTANTS
    Collections = {c1}
    Handles = {h1}
    Workers = {w1}
    Edits = {e1}
    MaxTasks = 1
    MaxDepth = 2
    BusyDepth = 0
    NULL = NULL
CHECK_DEADLOCK FALSE
INVARIANT JoinedMeansIndexed
