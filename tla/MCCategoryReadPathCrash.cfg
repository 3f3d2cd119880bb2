SPECIFICATION CatSpec
CONSTANTS
    Collections = {c1}
    Handles = {h1, h2}
    Workers = {w1}
    Writer = writer
    MaxRequests = 1
    MaxCommits = 1
    MaxDepth = 1
    BusyDepth = 0
    NULL = NULL
    Hierarchies = {Foo}
    CategoryIds = {child, parent}
    MaxLinks = 1
CHECK_DEADLOCK FALSE
INVARIANT TaskErrorsLeaveServerRunning
