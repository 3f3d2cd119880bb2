SPECIFICATION FairLifeSpec
CONSTANTS
    Collections = {c1, c2}
    Handles = {h1, h2}
    Workers = {w1, w2}
    Edits = {e1}
    MaxTasks = 2
    MaxDepth = 2
    BusyDepth = 0
    NULL = NULL
CHECK_DEADLOCK FALSE
INVARIANT NothingRunsAfterJoin
PROPERTY StopLeadsToJoin
INVARIANT EditsInConfigHaveTheirIndexingTask
PROPERTY CoveredWritesSurviveACrash
