# A TLA+ model of mcp-ssh-tool

mcp-ssh-tool is an MCP server that gives a language model SSH access to hosts,
in two ways: it keeps a pool of SSH sessions itself, or, as a *remote control
plane*, it dispatches signed actions to agents that run on the managed hosts
and connect back over WebSockets. This directory holds TLA+ modules of both,
TLC configurations that check them on small instances, and TLAPS proofs, for instances
of any size, of everything the runs check that is not liveness.

Paths below are relative to the repository (`src/remote/...` is
`src/src/remote/...` in `PROJECT.json`, which counts from one level up).

## 1. Inventory

### Remote part

**Control plane** (`src/remote/control-plane.ts`, class `RemoteControlPlane`).
State: the SQLite tables `agents`, `agent_enrollment_tokens`, `actions` (plus
OAuth and audit tables), and in memory `agentConnections` (agent id to live
WebSocket), `pendingActions` (action id to promise and timer) and
the nonce windows (`agentHelloNonces`, and `seenNonces` of a connection). Operations: create an enrollment token,
enroll, accept a socket, `agent.hello`, `action.result`, dispatch an action with
its timeout, change a policy (MCP tool or REST `PATCH`), revoke, close.
Interaction: HTTP and MCP calls from users, frames from agents, timers, and
close callbacks of sockets, all on one event loop: a handler is atomic up to its
next `await`. Hard: the PATCH handlers read the row *before* awaiting the body
and write it back after; close handlers run inside other handlers (reconnect,
revocation, shutdown); a crash keeps rows that describe lost memory; results,
timers and shutdown race for one promise. Correct means: an action is answered
once and finally; every action is answered; revocation is permanent; a key is
bound once; `status` is the connection state; the socket used for dispatch is
open.

**Store** (`src/remote/store.ts`). The tables, written synchronously. Whole-row
updates (`updateAgent`) are what makes stale records dangerous.

**WebSocket endpoint** (`src/remote/websocket.ts`). State: buffer, closed flag,
handlers. Closing runs the close handlers once; frames already buffered are
still handed over after a close; sending on a closed socket does nothing.

**Agent** (`src/remote/agent-cli.ts`, `agent-executor.ts`). State: the config
file with the policy, the policy in memory, `seenActions` (action id to
deadline). Operations: enroll, run (connect and say hello), take a policy
update, check and execute an action, send its result. Hard: requests that are
repeated, late or overtaken; the boundary of the deadline; a control plane that
reconnects. Correct means: an action runs at most once and never after its
deadline; what is reported completed was executed; policy changes arrive.

**Policy, scopes, schemas, crypto, configuration** (`src/remote/policy.ts`,
`scopes.ts`, `schemas.ts`, `crypto.ts`, `config.ts`, `util.ts`,
`mcp-tools.ts`). Pure functions and static data.

### SSH part

**Session pool** (`src/session.ts`, class `SessionManager`). State: a Map from
id to session (connection, `expiresAt`, `lastUsed`), close listeners, the
cleanup timer. Operations: open (evicting the least recently used session at
the limit), close, get, cleanup, destroy. Hard: open and close await in the
middle, so evictions, expiry, clients and destroy overlap; the entry stays in
the Map while listeners run, for up to 5 seconds. Correct means: no connection
is lost track of, none is handed out disposed, expired ones go, destroy ends.

**Tunnels** (`src/tunnel.ts`, class `TunnelManager`). State: Maps of tunnels and
handles. Operations: create local and remote forwards, close, close all of a
session. Hard: creation and closing await; closes overlap and fail. Correct
means: an open port can always be closed by id and the gauge is exact.

**Container and session tools** (`src/container.ts`,
`src/tools/session.provider.ts`). The close listener that closes a session's
tunnels, and the session gauge.

**Metrics** (`src/metrics.ts`): gauges and counters.

### Calls on a host

**Files, transfers, ensure tools** (`src/fs-tools.ts`, `transfer.ts`,
`ensure.ts`, `detect.ts`). State: the file system of the managed host, the
session and whether it has SFTP. Operations: write (temporary file and rename),
read, mkdir, remove, rename, upload, download, `ensureLinesInFile`, `applyPatch`.
Hard: every call awaits several times; the session may end and other users may
edit in between; fallbacks stage files named by the millisecond. Correct means:
a success is true when it is reported, and an interrupted call leaves no half
written target.

**Commands** (`src/process.ts`, `streaming.ts`, `shell.ts`, `safety.ts`).
State: remote processes, bounded output. Operations: exec, sudo, streaming,
`ensurePackage`, `ensureService`. Hard: a local timeout answers the call and
leaves the process running; output is cut by bytes and by chunks. Correct means:
dropped output is marked, and "already present" was seen on the host.

### The way to a host

**HTTP server** (`src/server-http.ts`, `render-http.ts`, `http-security.ts`,
`auth.ts`, `oauth.ts`). State: the map of MCP sessions with last-seen times.
Operations: startup check, admission (origin, bearer token or JWT), open a
streamable or SSE session, hand a request to it, idle cleanup, close, shutdown.
Hard: the limit is checked before an await and the session stored after it;
settings from environment and policy file combine. Correct means: the map and the
open transports agree, sessions in use stay and abandoned ones go, and an exposed
listener serves only authenticated callers.

**Rate limiter** (`src/rate-limiter.ts`, used by `src/mcp.ts`): a sliding-window
log. Correct means: no window holds more than the limit, and who waits until the
promised time is let through.

**Configuration, ssh config, credentials, host keys, policy engine**
(`src/config.ts`, `ssh-config.ts`, `connector-credentials.ts`,
`connector-profile.ts`, the opening part of `session.ts`, `policy.ts`,
`tools/registry.ts`, `tools/connector.provider.ts`). State: the settings, one
cached parser of the ssh config, pinned host keys. Hard: lookups race for the
parser across its read; the same path or host is spelled in several ways. Correct
means: an alias is resolved from a recent file, a connection has a key its rule
vouches for, and no operation leaves the policy's directories.

### The rest

Retry (`src/retry.ts`, which no other source file uses), MCP wiring and prompts,
logging, telemetry, audit, errors. `PROJECT.json` lists each component with its
status, and under `hazards` the lines where the code is hard to test.

## 2. Modules

| module | models | uses |
| --- | --- | --- |
| `ActionOutcome` | abstract: what a caller of a remote tool is promised | |
| `RemoteCall` | abstract: that promise, and that it is true of the host | extends `ActionOutcome` |
| `ControlPlane` | control plane, store and server end of the sockets | implements `ActionOutcome` |
| `JsMap` | a JavaScript Map or array as the sequence of its entries, an object as a record | |
| `RemoteAgent` | one agent host: config file, runs, replay memory, executor gate | extends `JsMap` |
| `AgentDelivery` | the agent against a network that repeats, delays and reorders | extends `RemoteAgent` |
| `RemoteSystem` | control plane and agents joined by sockets | extends `ControlPlane`, instantiates `RemoteAgent`, implements `RemoteCall` |
| `RemoteScopes` | scopes, capabilities, tools | |
| `HostPaths` | paths as texts, how they are normalised and where they lead | extends `JsMap` |
| `RemotePolicy` | agent policies and the executor's checks | extends `RemoteScopes`, `HostPaths` |
| `Authorization` | OAuth server, tokens, requests in flight, agents' rows and their own copies of the policy, hello nonces | extends `RemotePolicy` |
| `SessionManager` | the session pool | extends `JsMap` |
| `TunnelManager` | tunnels and their gauge | extends `JsMap` |
| `SshServer` | sessions, tunnels, close listener, session gauge | extends `SessionManager`, `TunnelManager` |
| `RemoteFiles` | file, transfer and file-editing tools on one host | extends `JsMap` |
| `RemoteCommands` | commands, streams, packages and services beside them | extends `RemoteFiles` |
| `RateLimiter` | the sliding-window log | extends `JsMap` |
| `HttpServer` | HTTP sessions, idle timeout, shutdown, rate-limited calls | extends `RateLimiter` |
| `Settings` | configuration from environment, policy file and defaults | extends `JsMap` |
| `HttpAccess` | startup check, authentication, tool profiles | extends `Settings` |
| `PolicyEngine` | `evaluate` | extends `Settings`, `HostPaths` |
| `SshConfig` | parsing and the cached parser | extends `Settings` |
| `HostKeys` | host-key and credential choice | extends `Settings`, `JsMap` |
| `Gateway` | a tool call from configuration to an operation | extends `HttpAccess`, `PolicyEngine`, `SshConfig`, `HostKeys` |
| `X_proofs` | TLAPS proofs about module `X`: `JsMap`, `RemoteSystem` (with those about `ControlPlane`), `AgentDelivery`, `Authorization`, `SshServer`, `HttpServer`, `RemoteCommands` (with those about `RemoteFiles`), `Gateway` | extends `X` |
| `MC*` | instances for TLC | |

### How they correspond to the code

An action is the code between two awaits. A request the code refuses without
changing anything but the audit log is not a step.

*ControlPlane.* `agents`, `tokens`, `actions` are the tables and survive
`Crash`; `agentConnections`, `pendingActions`, `patches` are memory and do not.
A policy is its version and one bit, whether it enables the capability that the
dispatched tool needs. `conns` is the `closed` flag of a socket ("closed": by
us; "gone": nothing more arrives), `closeHandlers` the agents whose close
handler hangs on it. The operators `Detached`, `DetachedConnections`,
`DetachedAgents` and `Closed` are what closing a socket does, handlers included;
`AgentHello`, `RejectedHello`, `RevokeAgent`, `SocketClosed` and `Shutdown`
call them in the order the code does. `PatchResolve` and `PatchApply` are the two
halves of the REST update around `await readJson`; the MCP tool does both in one
step. `ActionResult` settles a pending action with `error` if signature, agent,
connection or nonce are wrong. `Shutdown` follows `close()`: promises are
rejected, sockets closed, and the database is closed before the rejected
promises' continuations can write their records. Constants switch on what an
instance is about: `MayCrash`, `Patches` (requests that may be in flight) and
`Pipelined`, whether a peer sends a valid hello behind a frame that already made
the server close the socket. `HelloDeliverable` lets such a hello through when
`Pipelined` is true, as `drainFrames` does.

*RemoteAgent.* A run opens one socket, so runs are named by connections.
`Acceptable` is the list of checks before `rememberAction` (agent, seen,
deadline, version equal or one ahead); `Remember` is `rememberAction` with its
pruning and its limit; `StartAction` includes the executor's policy gate, which
answers with an error at once. Signatures are abstracted: frames that do not
verify are ignored.

*RemoteSystem.* TCP in both directions: in order, at most once, lost with the
socket. Both ends read one clock. Enrollment may lose its response.

*SessionManager.* `opens[s]` is the program counter of the `openSession` call
that created the id; `closes[s]` the close calls in progress for it.
`evictOldestSession`, `cleanupExpiredSessions`, `getSession` on an expired entry
and `destroy` all start such calls. `FinishClose` is everything after the
listeners, with dispose throwing or not. The clock is read where `openSession`
reads it, before connecting.

*TunnelManager.* `handles[t]` distinguishes a local server that drains from one
that is closed, because Node answers a second `server.close()` with an error
while a remote forward can be taken back by whichever call comes first; a
failing close leaves the entry, as the code does.

*SshServer.* A close call that starts also starts `closeSessionTunnels` on a
snapshot. `RaceDecided` is the race of `notifySessionClose`: the close call goes
on when the listener has ended or the timer fired; the listener goes on by
itself.

*ActionOutcome, RemoteCall.* `CallerView` in `ControlPlane` is what the caller of
an action knows: `waiting` while its promise is pending, the record's status
once it is settled, `lost` when crash or shutdown took the promise. The
refinement mapping is `answer <- CallerView` and, in `RemoteSystem`,
`runs <- executions`.

*HostPaths.* A path is its text, split at `/`; a place is the names from the root down
to it. `PosixNormalize` is Node's `posix.normalize`, which edits the text; `Follow` is the
kernel, which goes from place to place; the two are defined apart, and that they agree is
proved (section 4). A segment may hold backslashes: `Slashed` replaces them by `/`, as both
policies do before they normalise (`policy.ts:154`, `remote/policy.ts:86`), while `Follow`
takes them for characters of a name, as a POSIX host does. `Pieces` gives the few segments
with a backslash what becomes of them.

*RemotePolicy, Authorization.* `handleGitHubCallback` is two actions around its fetches. A
request with a token is in flight between two actions, since the token is checked before the
body is awaited (`handleMcp`, `handleApi`): `Authenticate` puts it into `requests`,
`CreateAgent`, `UpdateOwned`, `RevokeOwned` and `CallRemoteTool` answer it, with whatever has
become of token and tables in between; `PatchArrives` also resolves the agent and keeps the
row it read, which `PatchApplies` writes back. An agent is resolved as `resolveAgent` does:
by id if that id is the user's own, else by alias; an alias may be spelled like an id. (The
REST revocation reads no body; it awaits only the verification of its token, and is two
actions all the same.) `owned` is the row, `held` the agent's own copy of the policy, in
its configuration file and executor, `frames` what is under way to it; `CallRemoteTool` sends
an action after the control plane's gates, and `Accepts` and `ExecuteAllowed` are the gates
the agent asks when it reads it, with its own copy. An agent has one run and one socket here;
old sockets, deadlines and results are in `ControlPlane` and `AgentDelivery`. `asked` and
`stored` are history: what a login was started with, and every policy a row has had. `Hello`
keeps the two windows of the code apart: the timestamp's and the nonce's. Alias uniqueness
is the unique index of the `agents` table.

*RemoteFiles, RemoteCommands.* Each await of a call is a step; `call[c].pc` names
the await. A file is the sequence of its lines, a torn file the empty sequence;
an output chunk is the sequence of the byte widths of its characters, which is
what `appendBounded` looks at. `sftp` and `replaces` are what the server offers
(SFTP at all; rename over an existing file). `FilesAssumption` says that the names of
temporary files are apart from those of other files, that another user's edits are whole
files, and that a request has the fields its tool's schema asks for. `SessionEnds` may come at any step and
makes every later one fail; `OtherUserEdits` and `OtherUserInstalls` are
other users of the host. A process lives on after its call has been answered.

*RateLimiter, HttpServer.* A streamable session is opened in two steps
(`OpenStream` checks the limit, `StreamInitialized` is the callback of the
transport), an SSE session in one. The transports of the SDK are external: one
that fails to close stays `unclosed`. `touched` is history: the last request of a
client.

*Settings to Gateway.* An environment is a function from the settings it gives to
their values. A call's stages are its awaits: reading the ssh config, running the
credential command, reading key files, connecting, open. `MayOperate` asks a transfer
first to resolve its local path (`LocalResolves`), as `transfer.ts` does. `globalParser` is the
call whose parser is published: a call returns from `ReadConfig` with whatever
parser is published then, as `getSSHConfigParser` does. `Contexts` are the policy
contexts each tool passes to `assertAllowed`; `Walk` is where the host arrives when it
follows a path, a relative one from the login directory `Home`, and `Reached` the real path
on this machine. Regular expressions,
wildcard matches, real paths and signatures are constants.

## 3. Runs

| run | instance | shows |
| --- | --- | --- |
| `control_plane` | 1 agent, 2 sockets, 1 action, 1 PATCH, crash | `TypeOK`, `PendingIsSent`, `LiveConnectionIsOpen`, `SettledIsFinal`; `AnswersOnce`: the refinement of `ActionOutcome`, its liveness included |
| `control_plane_tool` | 2 agents, 2 keys, 2 sockets, no PATCH, no crash | `StatusTracksConnection`, `RevokedIsFinal`, `EnrollmentIsDurable` |
| `control_plane_unrevoke` | one PATCH in flight | violates `RevokedIsFinal` |
| `remote_system` | 1 host, 2 runs, 1 action, crash | `CallsAreHonest`: the refinement of `RemoteCall` |
| `remote_policy` | 1 host, 2 runs, tool and PATCH | `PolicyInStep`, `PolicyArrives` |
| `agent_delivery` | 1 run, 2 actions, 3 signed frames | `NoRepeatBeforeDeadline` |
| `sessions` | 2 sessions, limit 1, 2 close calls each | `ConnectionsAccounted`, `RegisteredIsUsable`, `ExpiredIsRemoved`, `DestroyEnds` |
| `server` | 1 session, 2 tunnels, 2 clients | `OpenHandleIsRegistered`, `TunnelGauge`, `SnapshotIsClosed`, `CloseReturns` |
| `host_calls` | 2 calls, 2 files in 2 directories, 1 edit, 2 kinds of host | `TornHasAWriter`, `OkLeavesNoTemp`, `StreamIsHonest`, `PresentWasSeen`, `AnswerIsTrue` |
| `oauth` | 2 logins of 2 clients with 2 verifiers and 3 accounts, 2 callbacks; then 2 requests in flight, and 2 agents or 1 with a socket | `LoginIsSpentOnce`, `GrantIsWhatWasAsked`, `PatchWritesItsAgent`, `ActionsStayInside`, `HelloOncePerLifetime`, `OnlyTheOwnerWrites` |
| `http` | 2 transports, limit 1, 2 requests per window | `SessionsMatchTransports`, `ActiveIsKept`, `AbandonedIsCollected`, `WindowIsBounded`, `PromiseIsKept` |
| `gateway` | 2 calls, several environments, files, keys | `ServedIsAuthenticated`, `ResolutionIsRecent`, `ConnectedKeyIsTrusted`, `OperationsStayInside` |

The largest runs are `host_calls` (1.7 million distinct states), `gateway`
(832 529) and `control_plane` (630 652); `oauth` has 263 619.

Every module with variables also has a type invariant (`SystemTypeOK`,
`SessionTypeOK`, `ServerTypeOK`, `CommandsTypeOK`, `AuthTypeOK`, `HttpTypeOK`).
They hold in these instances and are kept out of the configurations, where the
other properties already read every variable; adding the name to an `INVARIANTS`
line checks it.

**Bounds.** Every bound is a constant. Two sockets are enough for a reconnect
(old and new) and for two agents on shared sockets; one action suffices for the
races of result, timer and shutdown because actions share no state except the
map; `MaxTime` leaves room for the longest timeout and the grace period, so
timers fire; `MaxVersion` 2 allows one policy change, which is what a stale PATCH
needs to collide with. In `agent_delivery` two actions are needed because one
action's arrival prunes the other's entry, three frames because a policy change
may come between; `MaxStarts` ends a behaviour after an action has started
twice. `SeenLimit` is never reached there. Two sessions over a limit of one force an
eviction while another open is in progress; two close calls per session let
eviction, expiry, client and destroy overlap (a call that would be a third waits,
which is the effect of `MaxCalls`). In `server` one listener and two clients
close two tunnels; overlapping close calls of one session are in `sessions`.

In `host_calls` two calls are all that interferes pairwise; `Mixes` restricts
which requests are made together (file calls beside file calls, streams beside
commands, package and service calls beside each other), since the other pairs
share nothing; two time stamps let two calls stage in the same millisecond or in
different ones; output limits of two bytes and one chunk are reached. In `oauth`
a code and a token live for 1, a nonce for 2 and the clock runs to 3, so each of
them expires in some behaviour and is used at its boundary in another; two
transactions and two callbacks let callbacks repeat a state and overlap; two clients and two
verifiers, each of which every code is presented with, make a token for the wrong one
possible. Its specification `MCSpec` is `AuthSpec` without the steps that leave `Bounded`, so
it checks a part of `AuthSpec` and nothing beyond it. A hello comes beside one login at most,
which shares the cleanup with it. Requests are made once two logins have ended (`LoggedIn`).
Two administrators (`TwoUsers`) have two agents that nobody enrolls: every request may be answered
after its token has expired, two requests are a PATCH and whatever overtakes it, and the names
they may use are the ids of both agents, an alias and an alias spelled like an id. One user who
has logged in as administrator and for nothing in particular (`OneUser`) has one agent, which
enrolls, connects, loses its socket and connects again: `MaxVersion` 3 lets the agent be two
versions behind, and two frames put an action behind or before an update. In
`http` one session is the limit and two transports exceed it; the idle time of 1
and the window of 2 both pass before the clock ends at 4, and `RoomForTimeout`
stops new activity when an idle timeout would no longer fit. In `gateway` a
cache lifetime of 1 and a clock to 3 let an entry be fresh, at its boundary and
stale, and a read last longer than the lifetime; the environments range over loopback and exposed listeners, bearer
and OAuth, the credential providers and host-key rules; the operations over dot
segments, a way above the root, a trailing slash, a relative path, a backslash and a name
that only begins like a denied one.
Symmetry is used only in runs without liveness. The systems may stop (ids,
sockets and time run out), so deadlock is checked only in `gateway`, where a
call can always be answered and its slot reused.

**Fairness.** `ControlPlane`: the clock, the timers of pending actions and the
restart of the process; nothing is assumed of peers. `RemoteSystem`: in addition
both event loops read their sockets. `SessionManager`: the cleanup interval
fires, and a close call ends, because `notifySessionClose` gives its listeners
5 seconds. `SshServer` does not assume the latter of the listener but only that
the timer of the race fires: `CloseReturns` holds although a local tunnel with a
connected client may drain forever. `HttpServer`: the clock, the
cleanup interval and the end of shutdown (its awaits settle, or a second signal
exits); no client is assumed to do anything.

**Mutants.** Each property is paired in `PROJECT.json` with a mutated definition
(a dropped guard, a missing delete, a comparison turned round) under which TLC
finds it violated. The mutated forms stand beside the originals, marked
"Mutant".

### Disagreements found

The first is a run of its own. The statements 2 to 6 are definitions in the
modules (`StatusTracksConnection` with `MayCrash`, `AtMostOnceExecution`,
`AtMostMaxSessions`, `SessionGaugeIsExact`, `EnsureAnswerIsTrue`): adding the
name to the configuration of `control_plane`, `agent_delivery`, `sessions`,
`server` or `host_calls` makes TLC print the counterexample.

1. `PATCH /api/agents/:id` undoes a revocation that happens while its body is
   read, since the whole row read before is written back
   (`control-plane.ts:797`; `docs/AGENT_INSTALL.md:74`). The same write can undo
   an enrollment.
2. After a crash, `list_agents` reports agents online that have no connection,
   until they reconnect (`control-plane.ts:258`; `mcp-tools.ts:29`).
3. At the millisecond of its deadline a repeated request is executed again:
   `rememberAction` drops an entry at `expiresAt <= now`, the deadline check
   passes at `deadline >= now` (`agent-cli.ts:171`; `docs/ARCHITECTURE.md:83`).
4. `maxSessions` can be exceeded by concurrent opens, and while an evicted
   session is being closed (`session.ts:199`; `docs/configuration.md:13`). The
   HTTP session limit is exceeded in the same way (`server-http.ts:155`).
5. The session gauge counts evicted and expired sessions forever
   (`session.provider.ts:226`; `metrics.ts:208`).
6. `ensure_lines_in_file` may report success for lines that are not as asked:
   `pathExists` takes every failed stat for a missing file (`fs-tools.ts:724`),
   and a missing file counts as one without the lines (`ensure.ts:553`); two
   calls of the same millisecond also share a staged file (`ensure.ts:511`).

Met while translating, and visible in the definitions; the properties are
stated so that they hold beside them:

- `hostKeyPolicy` of `ssh_open_session` defaults to `strict` in its schema
  (`types.ts:242`), so `SSH_MCP_HOST_KEY_POLICY` (`docs/configuration.md:29`) and
  `strictHostKeyChecking` do not reach it.
- Sessions are opened with policy mode `enforce`, so `SSH_MCP_POLICY_MODE=explain`
  (`docs/configuration.md:45`) does not reach their tools; `allowRootLogin` of
  the policy file is ignored (`config.ts:310`; `docs/configuration.md:68`).
- `getSSHConfigParser` publishes its parser before reading and returns the
  published one after: an overtaken call gets an empty parser
  (`ssh-config.ts:253`), and one whose own read takes longer than the cache's
  lifetime may answer from what another call parsed meanwhile, which is then older
  than that lifetime. `ResolutionIsRecent` therefore counts from the instant the
  lookup began. Options under `Host a b` go to the last pattern only
  (`ssh-config.ts:119`).
- `verifyKnownHostKey` goes on past a line of the host that has another key, and refuses at
  a revoked line whatever its key (`session.ts:619`); accept-new pins a key before the
  connection is authenticated; a credential command may answer accept-new although
  the startup check demanded strict.
- Both policies take a backslash for a separator (`policy.ts:154`, `remote/policy.ts:86`) and
  pass the path on as it was given; a POSIX host takes it for a character of a name. The
  policy reads a relative remote path from the root, the host from the login directory
  (`policy.ts:155`); an agent's policy keeps it relative. `OperationsStayInside` and
  `ActionsStayInside` are therefore about the paths both read alike (`ReadAlike`;
  `SlashesOnly` and `IsAbsolute`), and the others are only in the models. Local prefixes are
  resolved once, at start.
- A token is checked before the body of its request is awaited, so that a row may be written
  after the token has expired (`control-plane.ts:705`, `control-plane.ts:773`);
  `OnlyTheOwnerWrites` asks for a token that lived when it was presented.
- The startup check of the HTTP server is skipped when the remote control plane
  is enabled, which has its own authentication.
- A denied prefix that is the root itself denies an agent's actions on the root only
  (`remote/policy.ts:94`); `ActionsStayInside` says so.
- `ensure_lines_in_file` compares lines with those of the empty text, one empty line, for a
  missing file: it creates nothing when only empty lines are asked for, and a file all of
  whose lines are removed keeps an empty one (`ensure.ts:563`, `ensure.ts:574`).
- `safety.ts:136` says of its check that it "NEVER blocks"; `policy.ts:391`
  denies by it.

## 4. Proofs

Everything below holds for arbitrary sets of agents, sockets, actions, sessions,
tunnels, transports, calls, files, paths and keys, and for arbitrary limits, lifetimes
and bounds. The modules' `ASSUME`s say no more than that numbers are naturals,
that "no" values are outside the sets they stand beside, and what the code's own
types fix (a credential command answers `strict` or `accept-new`,
`connector-credentials.ts:16`; asked scopes are scopes); TLC evaluates each of
them in the runs.

| module | theorem | assumes | establishes |
| --- | --- | --- | --- |
| `RemoteSystem_proofs` | `TypeCorrect` | | `TypeOK` |
| | `PendingInvariant` | | `PendingIsSent` |
| | `SettledFinal` | | `SettledIsFinal` |
| | `LiveConnectionInvariant` | `~Pipelined` | `LiveConnectionIsOpen` |
| | `RevocationIsFinal` | `Patches = {}` | `RevokedIsFinal` |
| | `EnrollmentDurable` | `Patches = {}` | `EnrollmentIsDurable` |
| | `StatusInvariant` | `Patches = {}`, `~MayCrash`, `~Pipelined` | `StatusTracksConnection` |
| | `AnswersRefine` | | refines the safety part of `ActionOutcome` |
| | `SystemTypeCorrect`, `CallInvariant` | | the invariants of a call under way |
| | `CallsRefine` | `Grace > 0` | `CallsAreHonest`: refines `RemoteCall` |
| | `PolicyInvariant`, `PoliciesInStep` | `~Pipelined` | `PolicyInStep` |
| `AgentDelivery_proofs` | `DeliveryInvariant` | `FewActions` | the replay memory keeps what it must |
| | `NeverRepeated` | `FewActions`, one run | `NoRepeatBeforeDeadline` |
| `Authorization_proofs` | `AuthorizationInvariant`, `AuthTypeCorrect` | | the invariants of logins, grants, requests, agents, nonces |
| | `LoginsAreSpentOnce` | | `LoginIsSpentOnce` |
| | `GrantsAreWhatWasAsked` | | `GrantIsWhatWasAsked` |
| | `AliasesAreUnambiguous` | | `AliasIsKey` |
| | `PatchesWriteTheirAgent` | | `PatchWritesItsAgent` |
| | `OwnersWrite` | | `OnlyTheOwnerWrites` |
| | `HellosOncePerLifetime` | | `HelloOncePerLifetime` |
| | `ActionsStayInsideTheirPolicy` | | `ActionsStayInside` |
| `SshServer_proofs` | `PoolInvariant`, `TunnelInvariant`, `ServerInvariant`, `ServerTypeCorrect` | | the invariants of pool, tunnels and both |
| | `ConnectionsAreAccounted` | | `ConnectionsAccounted` |
| | `RegisteredAreUsable` | | `RegisteredIsUsable` |
| | `OpenHandlesAreRegistered` | | `OpenHandleIsRegistered` |
| | `TunnelGaugeIsExact` | | `TunnelGauge` |
| | `SnapshotsAreClosed` | | `SnapshotIsClosed` |
| | `ServerImplementsPool`, `ServerImplementsTunnels` | | the server refines its two parts |
| `HttpServer_proofs` | `LimiterInvariant`, `HttpInvariant` | | the invariants of limiter and session map |
| | `WindowsAreBounded` | | `WindowIsBounded` |
| | `PromisesAreKept` | | `PromiseIsKept` |
| | `SessionsAgree` | | `SessionsMatchTransports` |
| | `ActiveAreKept` | | `ActiveIsKept` |
| `Gateway_proofs` | `ServedAreAuthenticated` | | `ServedIsAuthenticated` |
| | `ResolutionsAreRecent` | | `ResolutionIsRecent` |
| | `ConnectedKeysAreTrusted` | | `ConnectedKeyIsTrusted` |
| | `OperationsStayInsideThePolicy` | | `OperationsStayInside` |
| `RemoteCommands_proofs` | `CommandsInvariant`, `CommandsAreTyped` | | the invariants of the calls on a host |
| | `TornFilesHaveAWriter` | | `TornHasAWriter` |
| | `SuccessLeavesNoTemp` | | `OkLeavesNoTemp` |
| | `StreamsAreHonest` | | `StreamIsHonest` |
| | `PresentPackageWasSeen` | | `PresentWasSeen` |
| | `AnswersAreTrue` | | `AnswerIsTrue` |

The hypotheses are the mechanisms that break the properties. Disagreements 1
and 2 are the same statements with `Patches` or `MayCrash` switched on; with
pipelined hellos a closed socket can be registered as live; without a grace period
(2000 ms in `dispatchAction`) a caller may be told of a timeout at the instant the
agent still accepts; `FewActions` says that there are no more action ids than
`SeenLimit`, since a memory that is cut forgets; and the memory is one per run, so
that a second run may repeat what the first one did.

### Arguments

*Maps (`JsMap_proofs`).* A JavaScript Map is a sequence, and filtering it a
recursive function. `NatInduct` is induction over the naturals stated of a set
(from the library's well-foundedness of `<`), and with it `KeptEntries`,
`KeptPlaces`, `WithoutEntries` and `WithoutLength` say for sequences of any length
what a filter keeps, where it came from, and that deleting a key removes one entry.
Sessions, tunnels, the rate limiter's log, the replay memory and known_hosts rest
on these lemmas. `Solves` is a recursive definition over the first numbers as a
relation between values; `StepsExist` gives it a solution and `FollowsSteps` makes it
the only one, which is how every other recursive function here (walks along a path,
bytes of a text, what a stream wrote, the levels of a tree) gets its value.

*Paths.* The code normalises a text, or keeps a prefix of its own; the host goes from place
to place. `NormalizeFollows` (in `JsMap_proofs`) says that the normal form of an absolute
path of any length names the place the host arrives at (by the steps of both, `PathLeads` and
`LeadsStep`), `SlashedIsPath` that a path without
backslashes is read as it is written. From them `CoversIsWithin` and its counterpart in
`Gateway_proofs` turn the comparison of texts into one of places: a prefix that matches at a
segment boundary is a directory above. For relative paths and backslashes the step from one
to the other fails, which is why both properties leave them out. Local paths go through
`LocalResolves` first: the place compared is the real one, or a name in a real directory.

*Control plane.* `TypeOK` is inductive by itself; one lemma per operator that closes
a socket, sends a frame or writes a row carries it. `ActionSteps`
reduces every step to one of four effects on records and promises (none, insert
one, settle one, forget all), from which `PendingIsSent` is inductive and
`SettledIsFinal` follows: a record is settled only by way of a promise, and a
promise has an unsettled record. `ConnectionSteps` does the same for sockets and
the map; `LiveConnectionIsOpen` is inductive because each closing of a socket
also runs its handlers, which needs both of its halves. `RowSteps` covers rows
and tokens. `EnrollmentDurable` needs the strengthening `KeyMatchesStatus` (no
key while the token is unspent; an online row has a key); `StatusInvariant` uses
`OnlineIsLive`, its form without `running`, together with
`LiveConnectionIsOpen`. `AnswersRefine` is the step simulation under
`answer <- CallerView`: the four effects are `Ask`, `Reply`, `LoseAll` and stuttering.

*Control plane and agents.* `CallInv` adds to `PendingIsSent` what is on the wire:
an action not dispatched is nowhere (`UnsentIsNowhere`); there is one request per
action, no host has started it while the request is under way, and its record is
open or timed out no earlier than deadline and grace (`RequestInStep`); what is
being executed or reported done was started once (`StartedIsCounted`). The
agent's deadline check and the grace period then make `CallsRefine` a step
simulation. For policies the invariant is about the future: `LiveWillHold` says
what a live run will hold when it has read the frames on its socket, and each
step that writes the row also sends, each that reads moves the head;
`RunInStep` (one hello per run, frames of one agent only) keeps sockets apart.

*Agent.* `Memory` says that the replay memory holds each id once, with the
deadline of its request (there is one per id, `SignedOnce`); a Map with distinct
keys is no longer than the set of ids, so it is not cut; hence what was started is
remembered or its deadline has come (`StartedIsRemembered`), and the deadline check
has taken over.

*Authorization.* `TxnInOnePlace` is `LoginIsSpentOnce` without cardinalities: a
login is a transaction, a callback or a code, never two of them, also between the
two halves of `handleGitHubCallback`. `LoginIsRegistered` says that a login carries what it
was started with through all three, `GrantsInStep` ties a grant to its spent code. For the
requests the invariant is `AccessInv`: aliases are unique per user (`AliasIsKey`, the index);
a request came with a token while it lived, and a PATCH holds a row of its user's agent that
its address still names (`RequestInStep`); an agent holds, and has been sent, only
policies its row has had, and calls of its owner under a version that allowed them
(`AgentInStep`, `Sent`). That an address keeps its meaning needs `Named`: an alias does not
lose to an id, because a new id is no alias in use and an id never changes hands. Rows and `stored` only grow
(`RowsStay`, `SentStays`), so what was true of a frame when it was sent is true when it is
read. `NonceInStep` says that a nonce stays in the window for its lifetime from the last
hello it was accepted with.

*Sessions, tunnels, server.* `SessionsInStep` ties entry, connection and the
open and close calls of an id together; `TunnelsInStep` does it for handles and
calls. The server's steps are shown to be steps of each part
(`ServerStepOfPool`, `ServerStepOfTunnels`), so the parts' invariants carry over;
`SnapshotCovered` adds that every tunnel of a running listener's snapshot is
closed, still to do, or being closed by its own call.

*HTTP server.* The limiter's log is a suffix of all requests counted, the part cut
off is older than a window and the history is ordered; so the request
`maxRequests` back is either in the log, where there was no room, or a window old.
`PromiseFromOldest` ties a refusal to the oldest entry. For the session map,
`SessionsMatchTransports` is inductive with `HttpTypeOK` and `SeenIsTouched`, which
makes the idle check speak of the client's last request.

*Gateway.* `AccessInv` carries the startup check, the admission and what the policy
let through along each stage of a call. `LookupInv` follows the shared parser: a
read in progress began in the past (`ReadingIsLate`), and the published entries
were on disk since every refresh still under way began (`ParsedWasOnDisk`). The
latter is why an overtaken call is not served older data than the cache allows.
`KeyInv` gives every open connection the rule that vouches for it: a pin is never
changed, and a key that is accepted stands in a line for the host that no revoked line comes
before (`VerifiedIsListed`, from `KeptPlaces`).

*Calls on a host.* `CallOk` says for each `pc` which tool is waiting there and what its
record holds: `WriteAt` what a write is about to put where, `TreeAt` the directories and
jobs to do, `TransferAt`, `CommandAt`. `HostInv` adds the file system: `TempsOk` gives
each temporary file of `writeFile` to one call, which is between writing and renaming
it, is unlinking it, or has failed; `StagesOk` says that a staged file holds what its
call computed unless another call stages there too; `NoTears` that without uploads only
temporary files are torn; `SavedOk` that a finished download's temporary file can only be
another download's. None of them is inductive without the others: that a rename puts
a whole file in place is `TempsOk`, that a move does is `StagesOk`, and both need the
names to be apart (`NamesApart`). `Step(c, n)` says what one step of a call may do to
files, `n` being its record afterwards, with the promise if `n` answers success. One
lemma per action shows that the action is such a step, and `StepKeepsHost` that each such
step keeps `HostInv`, for the other calls too. `AnswersAreTrue` is then the promise
in `Step`.

*Commands.* `ProcsOk` says that a call has at most one streaming process, so that no
callback comes after its command has been answered; `StreamsOk` distinguishes a stream
that may still get chunks (its chunks are all it was sent, within the limit) from one
that has been answered (the mark of its end added). After a timeout the first case goes
on with a call that is done. `BytesOfBoth`, `FittingFits` and `BoundedAppend` say that
what is kept of a chunk fits and is the whole chunk unless marked; `WrittenMore` that
a chunk goes to its own output. `SeenBy` ties the answer of `ensurePackage` to an ended
process of the same call, and an ended process stays as it is.

### Only model-checked

Liveness, which is outside the prover's reach: the liveness part of `AnswersOnce`,
`PolicyArrives`, `ExpiredIsRemoved`, `DestroyEnds`, `CloseReturns`,
`AbandonedIsCollected`. Every invariant and action property of the passing runs is
proved. What the proofs take from TLC is that
the constants' assumptions hold in the instances and that the properties can fail (the
mutants).

## 5. Not modelled, and why

- The audit table and log, logging, telemetry, monotone counters: they record and
  nothing reads them back.
- The WebSocket frame parser, zod schemas, quoting, regular expressions and
  glob matching: text processing, taken as verdicts or constant relations.
- Bytes forwarded by tunnels, process spawning and output cutting in the agent's
  executor, detection of the operating system (one answer).
- Cryptography: a signature, a hash or a JWT either verifies or not.
- Symbolic links on the managed host: the code does not resolve them, and the
  policies are about names.
- `retry.ts` is used by no other source file; programmatic configuration
  overrides only by tests.

Behaviours that are visible in the models and held by no property, because no
document promises otherwise: a policy changed while the agent is offline is not
sent at the next hello, so its actions are dropped once it is two versions
behind; after `close()` the records of rejected actions stay `sent`; a replay
memory cut to its 10 000 entries forgets the oldest.

## 6. State of the work

Done: control plane, agent and their composition; authorization and remote
policies; sessions, tunnels and their composition; calls on a host; HTTP sessions
and the rate limiter; the gateway from configuration to operation; the abstract
specifications and their refinements; the proofs of section 4, which now cover every
safety property the runs check.

What could come next: an abstract specification of a host call (a file is written
whole or not at all) that `RemoteFiles` refines; the operations of `Gateway` joined with
`RemoteCommands`, so that a call is followed from its HTTP request to the file it
changes; the audit table, if a property is ever to speak of it.
