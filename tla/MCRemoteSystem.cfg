\* One host, two runs of its agent, one action; the control plane may crash and restart.
CONSTANTS
    Agents = {a1}
    Keys = {k1}
    NoKey = NoKey
    Conns = {c1, c2}
    NoConn = NoConn
    Actions = {x1}
    NoAgent = NoAgent
    Patches = {}
    ActionTimeout = 1
    Grace = 1
    TokenTtl = 0
    MayCrash = TRUE
    Pipelined = FALSE
    MaxVersion = 2
    MaxTime = 2
    SeenLimit = 1
SPECIFICATION SystemSpec
PROPERTIES CallsAreHonest
SYMMETRY Symmetry
CHECK_DEADLOCK FALSE
