\* REST policy updates in flight, crashes, shutdowns and an action to be settled.
CONSTANTS
    Agents = {a1}
    Keys = {k1}
    NoKey = NoKey
    Conns = {c1, c2}
    NoConn = NoConn
    Actions = {x1}
    NoAgent = NoAgent
    Patches = {p1}
    ActionTimeout = 1
    Grace = 1
    TokenTtl = 1
    MayCrash = TRUE
    Pipelined = FALSE
    MaxVersion = 2
    MaxTime = 2
SPECIFICATION Spec
INVARIANTS TypeOK PendingIsSent LiveConnectionIsOpen
PROPERTIES SettledIsFinal AnswersOnce
CHECK_DEADLOCK FALSE
