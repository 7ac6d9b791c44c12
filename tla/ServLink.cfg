SPECIFICATION LinkFairSpec

CONSTANTS
    Slots = {s1, s2}
    SyncFailures = TRUE

INVARIANTS
    Backoff

PROPERTIES
    Retried
    Recovers
