SPECIFICATION CarelessSpec
CONSTANTS
    Collections = {c1}
    Handles = {h1, h2}
    Threads = {t1, t2}
    max_cached_readers_per_collection = 1
    MaxHeld = 1
    MaxCommits = 0
    NULL = NULL
INVARIANT HandleHasOneOwner
