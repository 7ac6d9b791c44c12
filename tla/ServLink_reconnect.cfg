SPECIFICATION LinkFairSpec
CONSTANTS
    Slots = {s1}
    SyncFailures = TRUE
PROPERTY WillReconnect
