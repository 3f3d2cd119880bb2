SPECIFICATION Spec
CONSTANTS
    Collections = {c1, c2}
    Handles = {h1, h2, h3}
    Threads = {t1, t2}
    max_cached_readers_per_collection = 1
    MaxHeld = 2
    MaxCommits = 1
    NULL = NULL
SYMMETRY Symmetry
INVARIANT TypeOK
INVARIANT HandleHasOneOwner
INVARIANT ReadonlyCacheBound
INVARIANT WriterSlotFreeWhileLent
PROPERTY BorrowedAtLatestCommit
PROPERTY LendingSpec
