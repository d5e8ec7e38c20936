SPECIFICATION Spec
CONSTANTS
    Unset = Unset
    Unreadable = Unreadable
    Empty = Empty
    Nul = Nul
    RequestUrl = "http://localhost/mcp"
    Loopback = {"127.0.0.1"}
    PublicUrls = {"https://ssh.example/mcp"}
    Secret <- MCSecret
    Matches <- MCMatches
    Dangerous = {"rm"}
    Pieces <- MCPieces
    Cwd <- MCCwd
    Home <- MCHome
    RealPaths <- MCRealPaths
    MaxPort = 8
    Files <- MCFiles
    Wildcards <- MCWildcards
    CacheTtl = 1
    Bracketed <- MCBracketed
    HostGlobs <- MCHostGlobs
    Calls = {c1, c2}
    Environments <- MCEnvironments
    Requests <- MCRequests
    Answers <- MCAnswers
    Keys = {"k1", "k2"}
    KnownHosts <- MCKnownHosts
    AgentSocket = TRUE
    Operations <- MCOperations
    MaxTime = 3
INVARIANTS ServedIsAuthenticated ResolutionIsRecent ConnectedKeyIsTrusted OperationsStayInside
SYMMETRY Symmetry
