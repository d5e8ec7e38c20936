\* Two sessions over a limit of one, closed by clients, eviction, expiry and destroy.
CONSTANTS
    Sessions = {s1, s2}
    MaxSessions = 1
    Ttl = 1
    MaxCalls = 2
    MaxTime = 2
SPECIFICATION SessionSpec
INVARIANTS ConnectionsAccounted RegisteredIsUsable
PROPERTIES ExpiredIsRemoved DestroyEnds
CHECK_DEADLOCK FALSE
