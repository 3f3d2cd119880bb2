SPECIFICATION CatSpec
CONSTANTS
    Collections = {c1}
    Handles = {h1, h2, h3}
    Workers = {w1, w2}
    Writer = writer
    MaxRequests = 2
    MaxCommits = 1
    MaxDepth = 1
    BusyDepth = 0
    NULL = NULL
    Hierarchies = {Foo}
    CategoryIds = {child, parent, grand}
    MaxLinks = 1
SYMMETRY Symmetry
CHECK_DEADLOCK FALSE
INVARIANT CatTypeOK
INVARIANT ResultSetOnce
INVARIANT AnswersAgreeWithCommits
