\* Policy changes by tool and by PATCH while a run of the agent is connected.
CONSTANTS
    Agents = {a1}
    Keys = {k1}
    NoKey = NoKey
    Conns = {c1, c2}
    NoConn = NoConn
    Actions = {}
    NoAgent = NoAgent
    Patches = {p1}
    ActionTimeout = 1
    Grace = 1
    TokenTtl = 0
    MayCrash = FALSE
    Pipelined = FALSE
    MaxVersion = 2
    MaxTime = 0
    SeenLimit = 1
SPECIFICATION SystemSpec
INVARIANTS PolicyInStep
PROPERTIES PolicyArrives
CHECK_DEADLOCK FALSE
