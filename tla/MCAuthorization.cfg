\* Two clients, each with a verifier of its own or another's, and logins of three accounts;
\* two requests in flight, two agents.
CONSTANTS
    Clients = {c1, c2}
    Uris = {safe, unsafe}
    SafeUris = {safe}
    Verifiers = {v1, v2}
    Txns = {t1, t2}
    Callbacks = {b1, b2}
    GitHubUsers = {u1, u2, u3}
    Logins = {u1, u2}
    AllowAll = FALSE
    Codes = {k1, k2}
    Agents = {a1, a2}
    Aliases = {a1, web}
    Requests = {q1, q2}
    Nonces = {n1}
    MaxClients = 2
    CodeTtl = 1
    TokenTtl = 1
    NonceTtl = 2
    MaxVersion = 3
    MaxFrames = 2
    MaxTime = 3
    MaxTimeout = 100
    MaxOutput = 1000
    Pieces <- MCPieces
    UnsafeNames = {}
    Stamp <- MCStamp
    AskedScopes <- MCAskedScopes
    PolicyPatches <- MCPolicyPatches
    Targets <- MCTargets
    Profiles = {"operations", "other"}
    NoUser = NoUser
    None = None
SPECIFICATION MCSpec
INVARIANTS LoginIsSpentOnce GrantIsWhatWasAsked PatchWritesItsAgent ActionsStayInside
PROPERTIES HelloOncePerLifetime OnlyTheOwnerWrites
SYMMETRY Symmetry
CHECK_DEADLOCK FALSE
