\* One session with two tunnels, closed while two clients close the tunnels too.
CONSTANTS
    Sessions = {s1}
    MaxSessions = 1
    Ttl = 0
    MaxCalls = 1
    MaxTime = 1
    Tunnels = {t1, t2}
    NoTunnel = NoTunnel
    Owners = {s1}
    Closers <- MCClosers
    NoOwner = NoOwner
    Users = {u1, u2}
SPECIFICATION ServerSpec
INVARIANTS OpenHandleIsRegistered TunnelGauge SnapshotIsClosed
PROPERTIES CloseReturns
CHECK_DEADLOCK FALSE
