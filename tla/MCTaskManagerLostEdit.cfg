SPECIFICATION Spec
CONSTANTS
    Collections = {c1}
    Handles = {h1}
    Workers = {w1, w2}
    Edits = {e1, e2}
    MaxDepth = 2
    BusyDepth = 0
    MaxTasks = 2
    NULL = NULL
CHECK_DEADLOCK FALSE
INVARIANT ConfigKeepsEveryEdit
