\* Policy changes only through the MCP tool, no crash: the full set of promises.
CONSTANTS
    Agents = {a1, a2}
    Keys = {k1, k2}
    NoKey = NoKey
    Conns = {c1, c2}
    NoConn = NoConn
    Actions = {}
    NoAgent = NoAgent
    Patches = {}
    ActionTimeout = 1
    Grace = 1
    TokenTtl = 1
    MayCrash = FALSE
    Pipelined = FALSE
    MaxVersion = 2
    MaxTime = 1
SPECIFICATION Spec
SYMMETRY Symmetry
INVARIANTS StatusTracksConnection
PROPERTIES RevokedIsFinal EnrollmentIsDurable
CHECK_DEADLOCK FALSE
