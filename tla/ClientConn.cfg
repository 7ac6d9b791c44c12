SPECIFICATION Spec
CONSTANTS
    Accounts = {a1, a2}
    Handles = {h1, h2, h3}
    None = None
    MAX_RECONNECT_CNT = 8
    CONNECT_TICKS = 3
    TIMEOUT_TICKS = 2
    MaxInits = 2
INVARIANTS
    AccountsLead
    StateAgrees
    HangsOnlyConnecting
    RetriesInTime
PROPERTIES
    Reconnects
