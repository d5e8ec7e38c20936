\* A revocation between the two halves of a REST policy update.
CONSTANTS
    Agents = {a1}
    Keys = {k1}
    NoKey = NoKey
    Conns = {c1, c2}
    NoConn = NoConn
    Actions = {}
    NoAgent = NoAgent
    Patches = {p1}
    ActionTimeout = 1
    Grace = 1
    TokenTtl = 1
    MayCrash = FALSE
    Pipelined = FALSE
    MaxVersion = 2
    MaxTime = 2
SPECIFICATION Spec

PROPERTIES RevokedIsFinal
CHECK_DEADLOCK FALSE
