\* Two sessions over a limit of one, and a rate limit of two calls per window.
CONSTANTS
    Transports = {t1, t2}
    MaxSessions = 1
    IdleTtl = 1
    LegacySse = TRUE
    MaxTime = 4
    MaxRequests = 2
    Window = 2
    BlockOnLimit = TRUE
    MaxCalls = 4
SPECIFICATION HttpSpec
INVARIANTS SessionsMatchTransports WindowIsBounded PromiseIsKept
PROPERTIES ActiveIsKept AbandonedIsCollected
CHECK_DEADLOCK FALSE
