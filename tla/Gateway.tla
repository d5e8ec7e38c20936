------------------------------ MODULE Gateway ------------------------------
(***************************************************************************)
(* The way of a tool call through the HTTP server, from configuration to   *)
(* an operation on a host: the startup check, authentication, the tool     *)
(* profile, the ssh config, connector credentials, the policy, the SSH     *)
(* credentials and the host key.  src/server-http.ts, src/tools/           *)
(* registry.ts, connector.provider.ts and session.provider.ts,             *)
(* src/connector-credentials.ts and openSession of src/session.ts.         *)
(*                                                                         *)
(* A call runs to its next await; calls interleave there.  Its stages are  *)
(* the awaits: reading (the ssh config), credentials (the credential       *)
(* command), auth (key files), connecting, open.  A call that is refused   *)
(* before its first await changes nothing and is not a step.  The server   *)
(* does not host the remote control plane, which has its own modules.      *)
(***************************************************************************)
EXTENDS HttpAccess, PolicyEngine, SshConfig, HostKeys, FiniteSets

CONSTANTS
    Calls,           \* tool calls in flight
    Environments,    \* environments the server may be started with
    Requests,        \* requests: [origin, token, tool, alias, params]
    Answers,         \* answers of the credential command; Unset: it failed
    Keys,            \* host keys servers present
    KnownHosts,      \* contents of known_hosts
    AgentSocket,     \* SSH_AUTH_SOCK is set
    Home,            \* the place where the host's SFTP server takes relative paths from
    Operations,      \* operations of an open session: [tool, ...]
    MaxTime          \* bound: last instant

ASSUME GatewayAssumption ==
    /\ "parsed" \notin Calls /\ Unset \notin Calls
    /\ CacheTtl \in Nat /\ MaxTime \in Nat /\ MaxPort \in Nat
    /\ Unset \notin {"enforce", "parsed"} /\ \A r \in Requests : r.alias # Unset
    /\ \A a \in Answers : a # Unset => a.hostKeyPolicy \in {"strict", "accept-new"}
    /\ KnownHosts \subseteq Seq(UNION {Entries(lines) : lines \in KnownHosts})

PathSettings ==
    {"pathAllowPrefixes", "pathDenyPrefixes", "localPathAllowPrefixes", "localPathDenyPrefixes"}

\* The tools of an open session, by what they name.
CommandTools == {"proc_exec", "proc_sudo"}
TransferTools == {"file_upload", "file_download"}
PathTools == {"ensure_lines_in_file", "fs_read", "fs_write", "fs_rmrf", "fs_rename"} \cup TransferTools

\* A session's policy mode is one of the schema's words, with openSession's default, and
\* paths are sequences of segments.
ASSUME OperationsAssumption ==
    /\ \A r \in Requests : r.tool = "ssh_open_session" =>
          "policyMode" \in DOMAIN r.params /\ r.params.policyMode \in {"enforce", "explain"}
    /\ \A env \in Environments :
          /\ \A k \in PathSettings \cap DOMAIN env : env[k] = Unset \/ env[k] \subseteq Seq(STRING)
          /\ Env(env, "policyFile") \in {Unset, Unreadable} \/
             \A k \in PathSettings \cap DOMAIN env.policyFile : env.policyFile[k] \subseteq Seq(STRING)
    /\ \A o \in Operations :
          /\ o.tool \in CommandTools \cup PathTools \cup {"tunnel_local_forward"}
          /\ o.tool \in PathTools => o.path \in Seq(STRING)
          /\ o.tool = "fs_rename" => o.to \in Seq(STRING)
          /\ o.tool \in TransferTools => o.local \in Seq(STRING)
    /\ \A place \in DOMAIN RealPaths : RealPaths[place] \in Seq(STRING)
    /\ \A segment \in DOMAIN Pieces : Pieces[segment] \in Seq(STRING)
    /\ Home \in Seq(STRING) /\ Cwd \in Seq(STRING)

VARIABLES
    config,        \* the loaded configuration; Unset until the server has started
    call,          \* the calls in flight
    pins,          \* acceptedHostKeys, from hosts to keys
    knownHosts,    \* the known_hosts file
    now

gatewayVars == <<config, call, pins, knownHosts>>
vars == <<gatewayVars, configVars, now>>

\* A call for request r at a stage: when it began to read the ssh config, what it found
\* there, the parameters of its session, the key it is connected to, the listed hosts.
In(stage, r) == [stage |-> stage, request |-> r, start |-> Unset, looked |-> Unset,
                 params |-> Unset, key |-> Unset, listed |-> {}]

Idle == In("idle", Unset)

Init ==
    /\ config = Unset
    /\ call = [c \in Calls |-> Idle]
    /\ pins = [h \in {} |-> Unset]
    /\ knownHosts \in KnownHosts
    /\ now = 0
    /\ ConfigInit

Stage(c) == call[c].stage

\* Call c goes on as the record r.
Continue(c, r) == call' = [call EXCEPT ![c] = r]

\* The call is answered with an error.
Failed(c) == In("failed", call[c].request)

-----------------------------------------------------------------------------
\* createContainer and the checks before listen.
Start(env) ==
    /\ config = Unset
    /\ PolicyFileLoads(env)
    /\ ValidateHttpStartupConfig(LoadConfig(env))
    /\ config' = LoadConfig(env)
    /\ UNCHANGED <<call, pins, knownHosts, configVars, now>>

-----------------------------------------------------------------------------
\* The policy context of ssh.open: an alias stands for its host.
OpenContext(p) ==
    [NoContext EXCEPT !.action = "ssh.open", !.host = Either(p.policyHost, p.host),
                      !.username = p.username, !.mode = p.policyMode]

\* openSession up to its first await: the policy, the explanation that connects to
\* nothing, root login.  The stage it leaves the call in.
OpenSession(p) ==
    IF ~AssertAllowed(config.policy, OpenContext(p)) THEN "failed"
    ELSE IF p.policyMode = "explain" THEN "done"
    ELSE IF p.username = "root" /\ ~config.allowRootLogin THEN "failed"
    ELSE "auth"

\* The call once it is in openSession with params p.
InSession(r, p) ==
    [In(OpenSession(p), r) EXCEPT
        !.params = [p EXCEPT !.hostKeyPolicy =
            ResolveHostKeyPolicy(p.hostKeyPolicy, p.strictHostKeyChecking, config.hostKeyPolicy)]]

\* resolveAgentCredentials and resolveCommandCredentials: what the command does not say
\* comes from the ssh config; a session without a user name is refused.  a is the
\* command's answer, or Agent.
Agent == [host |-> Unset, username |-> Unset, auth |-> "agent", secret |-> Unset,
          hostKeyPolicy |-> "strict", expected |-> Unset]

CredentialParams(r, resolved, a) ==
    [host |-> Either(a.host, resolved.host), policyHost |-> r.alias,
     username |-> Either(a.username, Either(resolved.user, config.connector.defaultUsername)),
     auth |-> a.auth, secret |-> a.secret, hostKeyPolicy |-> a.hostKeyPolicy,
     strictHostKeyChecking |-> Unset, expected |-> a.expected, policyMode |-> "enforce"]

\* The end of resolveConnectorCredentials and openSession after it.
WithCredentials(r, resolved, a) ==
    LET p == CredentialParams(r, resolved, a)
    IN IF p.username = Unset THEN In("failed", r) ELSE InSession(r, p)

\* resolveSSHHost has the parser: ssh_resolve_host answers; ssh_host_inspect goes on
\* to its credentials.
Resolved(r) == ResolveHost(hosts', r.alias)

\* Another call is still reading the file into the published parser.
Overtaken == globalParser' \in Calls

\* listHosts: the configured aliases the policy names.
ListHosts(entries) == {h \in GetAllHosts(entries) : MatchesPolicyValue(h, config.policy.allowedHosts)}

\* What the call does once getSSHConfigParser, which it called at start, has returned.
AfterParser(c, r, start) ==
    LET looked == [resolved |-> Resolved(r), from |-> start, overtaken |-> Overtaken]
    IN Continue(c,
        CASE r.tool = "ssh_hosts_list" -> [In("done", r) EXCEPT !.listed = ListHosts(hosts')]
          [] r.tool = "ssh_resolve_host" -> [In("done", r) EXCEPT !.looked = looked]
          [] OTHER -> [IF config.connector.credentialProvider = "agent"
                       THEN WithCredentials(r, looked.resolved, Agent)
                       ELSE In("credentials", r) EXCEPT !.looked = looked])

\* resolveConnectorCredentials does not refuse at once.
CanInspect ==
    \/ config.connector.credentialProvider = "agent"
    \/ config.connector.credentialProvider = "command" /\ config.connector.credentialCommand # Unset

\* getSSHConfigParser: the cached parser, or a new one and the await of its read.
LookUp(c, r) ==
    IF CacheIsFresh(now)
    THEN UNCHANGED configVars /\ AfterParser(c, r, now)
    ELSE /\ PublishParser(c)
         /\ Continue(c, [In("reading", r) EXCEPT !.start = now])

\* A request: rejectIfUnauthorized, the registry's dispatch and the tool up to its
\* first await.
Admit(c, r) ==
    /\ config # Unset /\ Stage(c) = "idle"
    /\ Authorized(config, r)
    /\ IsToolAllowedForProfile(r.tool, config.connector.toolProfile)
    /\ \/ /\ r.tool = "ssh_open_session"
          /\ Continue(c, InSession(r, r.params))
          /\ UNCHANGED configVars
       \/ /\ r.tool \in {"ssh_resolve_host", "ssh_hosts_list"}
          /\ LookUp(c, r)
       \/ /\ r.tool = "ssh_host_inspect"
          /\ CanInspect
          /\ LookUp(c, r)
    /\ UNCHANGED <<config, pins, knownHosts, now>>

\* The ssh config has been read into the parser of this call; the call goes on with
\* the published one.
ReadConfig(c) ==
    /\ Stage(c) = "reading"
    /\ ParserRead(c, call[c].start)
    /\ AfterParser(c, call[c].request, call[c].start)
    /\ UNCHANGED <<config, pins, knownHosts, now>>

\* runCredentialCommand settles: an answer its schema accepts (a key needs its path),
\* or failure: exit code, timeout, too much output, no JSON.
CredentialCommand(c, a) ==
    /\ Stage(c) = "credentials"
    /\ Continue(c, IF a = Unset \/ (a.auth = "key" /\ a.secret # "path")
                   THEN Failed(c)
                   ELSE WithCredentials(call[c].request, call[c].looked.resolved, a))
    /\ UNCHANGED <<config, pins, knownHosts, configVars, now>>

-----------------------------------------------------------------------------
\* buildAuthConfig, with the key files it could read.
BuildAuth(c, readable) ==
    /\ Stage(c) = "auth"
    /\ Continue(c, IF BuildAuthConfig(call[c].params, readable, AgentSocket) = "none" THEN Failed(c)
                   ELSE [In("connecting", call[c].request) EXCEPT !.params = call[c].params])
    /\ UNCHANGED <<config, pins, knownHosts, configVars, now>>

\* connectConfig.hostVerifier accepts the key the server presents.
HostVerifier(p, key) ==
    IF p.expected # Unset THEN key = p.expected
    ELSE CASE p.hostKeyPolicy = "insecure" -> TRUE
           [] p.hostKeyPolicy = "accept-new" -> VerifyAcceptNewHostKey(pins, p.host, key)
           [] OTHER -> VerifyKnownHostKey(knownHosts, p.host, key)

\* ssh.connect: the server presents its key, then authentication may still fail.  A
\* first-seen key is pinned before authentication.
Connect(c, key, accepted) ==
    LET p == call[c].params
    IN /\ Stage(c) = "connecting"
       /\ pins' = IF p.expected = Unset /\ p.hostKeyPolicy = "accept-new" /\ HostVerifier(p, key)
                  THEN [h \in DOMAIN pins \cup {p.host} |-> IF h = p.host THEN key ELSE pins[h]]
                  ELSE pins
       /\ IF HostVerifier(p, key) /\ accepted
          THEN Continue(c, [In("open", call[c].request) EXCEPT !.params = p, !.key = key])
          ELSE Continue(c, Failed(c))
       /\ UNCHANGED <<config, knownHosts, configVars, now>>

-----------------------------------------------------------------------------
\* resolveLocalReadPath and resolveLocalWritePath: a file to read must exist, one to write
\* needs its directory.
LocalResolves(o) ==
    LET absolute == PathResolve(o.local)
    IN /\ o.local # <<"">> /\ ~HasNul(o.local)
       /\ o.tool = "file_upload" => absolute \in DOMAIN RealPaths
       /\ o.tool = "file_download" => Parent(absolute) \in DOMAIN RealPaths

\* The canonical paths they return: of the file, and of the directory it is written to.
LocalTarget(path) ==
    LET absolute == PathResolve(path)
    IN Rooted(IF absolute \in DOMAIN RealPaths THEN RealPaths[absolute]
              ELSE Append(RealPaths[Parent(absolute)], Last(absolute)))
LocalDirectory(path) == Rooted(RealPaths[Parent(PathResolve(path))])

\* The contexts the tools of processes, files, transfers and tunnels assert.
Contexts(o) ==
    CASE o.tool = "proc_exec" ->
            {[NoContext EXCEPT !.action = "proc.exec", !.command = o.command]}
      [] o.tool = "proc_sudo" ->
            {[NoContext EXCEPT !.action = "proc.sudo", !.command = o.command, !.rawSudo = TRUE]}
      [] o.tool = "ensure_lines_in_file" ->
            {[NoContext EXCEPT !.action = "ensure.lines", !.command = o.command,
                               !.path = o.path, !.destructive = o.destructive]}
      [] o.tool = "fs_read" -> {[NoContext EXCEPT !.action = "fs.read", !.path = o.path]}
      [] o.tool = "fs_write" -> {[NoContext EXCEPT !.action = "fs.write", !.path = o.path]}
      [] o.tool = "fs_rmrf" ->
            {[NoContext EXCEPT !.action = "fs.remove", !.path = o.path, !.destructive = TRUE]}
      [] o.tool = "fs_rename" ->
            {[NoContext EXCEPT !.action = "fs.rename", !.path = o.path, !.secondaryPath = o.to]}
      [] o.tool = "file_upload" ->
            {[NoContext EXCEPT !.action = "transfer.upload", !.path = o.path],
             [NoContext EXCEPT !.action = "transfer.local.read", !.path = LocalTarget(o.local)]}
      [] o.tool = "file_download" ->
            {[NoContext EXCEPT !.action = "transfer.download", !.path = o.path],
             [NoContext EXCEPT
                !.action = IF PathResolve(o.local) \in DOMAIN RealPaths
                           THEN "transfer.local.overwrite" ELSE "transfer.local.create",
                !.path = LocalTarget(o.local), !.secondaryPath = LocalDirectory(o.local)]}
      [] o.tool = "tunnel_local_forward" ->
            {[NoContext EXCEPT !.action = "tunnel.local", !.host = o.remoteHost,
                !.localBindHost = o.bind, !.remoteHost = o.remoteHost,
                !.localPort = o.port, !.remotePort = o.port]}

\* A tool call on the session call c opened, whose mode is always enforce, passes all its
\* checks.  What it then does is in RemoteCommands, RemoteFiles and TunnelManager.
MayOperate(c, o) ==
    /\ Stage(c) = "open" /\ call[c].request.tool = "ssh_open_session"
    /\ IsToolAllowedForProfile(o.tool, config.connector.toolProfile)
    /\ o.tool \in TransferTools => LocalResolves(o)
    /\ \A x \in Contexts(o) :
          AssertAllowed(config.policy, [x EXCEPT !.mode = call[c].params.policyMode])

\* ssh_close_session, the end of an inspection, or the answer of a call: the slot is
\* free for the next call.
Answer(c) ==
    /\ Stage(c) \in {"open", "done", "failed"}
    /\ Continue(c, Idle)
    /\ UNCHANGED <<config, pins, knownHosts, configVars, now>>

\* External: the ssh config is edited.
Edit(f) ==
    /\ EditFile(f, now)
    /\ UNCHANGED <<gatewayVars, now>>

Tick ==
    /\ now < MaxTime
    /\ now' = now + 1
    /\ UNCHANGED <<gatewayVars, configVars>>

Next ==
    \/ \E env \in Environments : Start(env)
    \/ \E c \in Calls :
          \/ \E r \in Requests : Admit(c, r)
          \/ ReadConfig(c)
          \/ \E a \in Answers : CredentialCommand(c, a)
          \/ \E readable \in SUBSET {"path", "default"} : BuildAuth(c, readable)
          \/ \E key \in Keys, accepted \in BOOLEAN : Connect(c, key, accepted)
          \/ Answer(c)
    \/ \E f \in Files : Edit(f)
    \/ Tick

Spec == Init /\ [][Next]_vars

-----------------------------------------------------------------------------
\* A token that proves its bearer, whichever way the server is set up to look at it.
Proven(token) ==
    \/ token = Secret /\ Secret # Empty
    \/ /\ token # Unset /\ "iss" \in DOMAIN token
       /\ token.signed /\ token.current /\ token.iss = config.auth.oauthIssuer
       /\ config.auth.oauthRequiredScopes \subseteq token.scopes

\* A server bound to an address others can reach (validateHttpStartupConfig) never has a
\* call in progress whose sender was not authenticated or came from a foreign origin, that
\* uses a tool outside the connector profile, or that opens a session for an alias the
\* allow list does not name: settings from four places, checked once at startup, and the
\* checks of each request add up to this.
ServedIsAuthenticated ==
    \A c \in Calls :
        (Stage(c) # "idle" /\ config.http.host \notin Loopback) =>
            LET r == call[c].request
            IN /\ Proven(r.token)
               /\ r.origin = Unset \/ r.origin \in config.http.allowedOrigins
               /\ r.tool \in ConnectorTools
               /\ Stage(c) \in {"auth", "connecting", "open"} =>
                     /\ config.policy.allowedHosts # {}
                     /\ MatchesPolicyValue(call[c].params.policyHost, config.policy.allowedHosts)
                     /\ call[c].params.hostKeyPolicy # "insecure"

\* The contents of the ssh config, with the last instant each was on disk.
OnDisk == versions \cup {<<file, now>>}

\* resolveSSHHost answers from the ssh config as it was on disk at some instant of the
\* CONFIG_CACHE_TTL_MS before the lookup began, or later, however reads and edits
\* interleave; only a call that another call's refresh overtook may get the unparsed
\* parser (getSSHConfigParser returns the published one, not its own).
ResolutionIsRecent ==
    \A c \in Calls :
        LET l == call[c].looked
        IN (l # Unset /\ ~l.overtaken) =>
              \E v \in OnDisk :
                  /\ v[2] >= l.from - CacheTtl
                  /\ l.resolved = ResolveHost(ParseContent(v[1]), call[c].request.alias)

\* A key listed for the host by a line above which no line revokes the host's keys.
Listed(host, key) ==
    \E i \in 1..Len(knownHosts) :
        /\ knownHosts[i].key = key /\ knownHosts[i].marker \notin {"malformed", "@revoked"}
        /\ KnownHostPatternMatches(knownHosts[i].hosts, host)
        /\ \A j \in 1..(i - 1) :
              knownHosts[j].marker = "@revoked" => ~KnownHostPatternMatches(knownHosts[j].hosts, host)

\* Every open connection is to a key its own host-key rule vouches for: the expected
\* fingerprint, a line of known_hosts, and under accept-new the key every other accept-new
\* connection of the process to that host has, whatever was tried and failed in between.
ConnectedKeyIsTrusted ==
    \A c \in Calls :
        Stage(c) = "open" =>
            LET p == call[c].params
            IN IF p.expected # Unset THEN call[c].key = p.expected
               ELSE CASE p.hostKeyPolicy = "insecure" -> TRUE
                      [] p.hostKeyPolicy = "accept-new" ->
                            p.host \in DOMAIN pins /\ call[c].key = pins[p.host]
                      [] OTHER -> Listed(p.host, call[c].key)

\* External: where the host arrives, which takes a relative path from the login directory
\* and a backslash for a character of a name.
Walk(path) == Follow(Absolute(path, Home))

\* External: where a path of this machine is in the end, its symbolic links resolved.
Reached(path) ==
    LET place == Follow(Absolute(path, Cwd))
    IN IF place \in DOMAIN RealPaths THEN RealPaths[place] ELSE place

\* The directory a remote prefix of the policy is about: the one it names from the root,
\* with either separator.
Directory(prefix) == Follow(Absolute(Slashed(prefix, Pieces), <<>>))

\* The host and the policy read a path the same way: it has no backslash, and begins at the
\* root unless the login directory is the root.
ReadAlike(path) == SlashesOnly(path, Pieces) /\ (IsAbsolute(path) \/ Home = <<>>)

\* An operation an open session lets through, followed to the places it names, never leaves
\* the policy.  On this machine: only under the local prefixes, however the path and the
\* prefixes are spelled and wherever symbolic links lead.  On the host, for the paths host
\* and policy read alike: nowhere under a denied prefix, with a destructive operation only
\* under an allowed one unless the policy waives them, whatever "." and ".." and empty
\* segments the path and the prefixes contain.
OperationsStayInside ==
    \A c \in Calls, o \in Operations :
        MayOperate(c, o) => \A x \in Contexts(o) : \A path \in PathsOf(x) :
            LET p == config.policy
            IN IF x.action \in LocalTransferActions
               THEN /\ \E a \in p.localPathAllowPrefixes : Under(Reached(path), Reached(a))
                    /\ \A d \in p.localPathDenyPrefixes : ~Under(Reached(path), Reached(d))
               ELSE ReadAlike(path) =>
                    /\ \A d \in p.pathDenyPrefixes : ~Under(Walk(path), Directory(d))
                    /\ (x.destructive /\ ~p.allowDestructiveFs) =>
                          \E a \in AllowPrefixes(p) : Under(Walk(path), Directory(a))
=============================================================================
