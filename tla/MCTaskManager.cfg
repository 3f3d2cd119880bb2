SPECIFICATION FairSpec
CONSTANTS
    Collections = {c1}
    Handles = {h1}
    Workers = {w1, w2}
    Edits = {e1}
    MaxDepth = 2
    BusyDepth = 0
    MaxTasks = 3
    NULL = NULL
CHECK_DEADLOCK FALSE
INVARIANT TypeOK
INVARIANT CheckpointOrdering
INVARIANT FollowOnBeforeCompletion
INVARIANT IndexerOwnsItsCollection
PROPERTY EveryAdmittedTaskSettles
PROPERTY WritesAreSerial
