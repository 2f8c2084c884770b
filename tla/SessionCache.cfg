\* Two threads, two session IDs, room for one session in the cache.
SPECIFICATION FairSpec
CONSTANTS
    Thread = {t1, t2}
    Session = {c1, c2, c3}
    Id = {a, b}
    None = None
    CacheSize = 1
INVARIANTS
    RefsExact
    ListMatchesTable
    CacheBounded
PROPERTIES
    LockReleased
