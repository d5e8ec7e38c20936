\* Two calls of any kind, another user of the host and a session that may end.
CONSTANTS
    NoFile = NoFile
    Folder = Folder
    Lines <- MCLines
    d1 = d1
    e1 = e1
    f1 = f1
    g1 = g1
    l1 = l1
    Calls = {c1, c2}
    Requests <- MCRequests
    Mixes <- MCMixes
    Dirs = {d1, e1}
    Files = {f1, g1}
    ParentOf <- MCParentOf
    Initially <- MCInitially
    Protected = {g1}
    Denied = {}
    LocalFiles = {l1}
    Edits <- MCEdits
    MaxFileSize = 2
    Stamps = {0, 1}
    MaxEdits = 1
    HostKinds <- MCHostKinds
    Chunks <- MCChunks
    MaxOutputBytes = 2
    MaxStreamChunks = 1
    MaxSent = 2
SPECIFICATION CommandsSpec
SYMMETRY Symmetry
INVARIANTS TornHasAWriter OkLeavesNoTemp StreamIsHonest PresentWasSeen
PROPERTIES AnswerIsTrue
CHECK_DEADLOCK FALSE
