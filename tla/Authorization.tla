---------------------------- MODULE Authorization ----------------------------
(***************************************************************************)
(* Who may do what at the remote control plane: the OAuth authorization    *)
(* server of src/remote/control-plane.ts (registration, authorize, GitHub  *)
(* callback, token), the access tokens of src/remote/crypto.ts, their      *)
(* scopes, the requests made with them, the agents' owners, aliases and    *)
(* policies with the copies the agents keep, and the freshness check of an *)
(* agent's hello.  Tables are those of src/remote/store.ts.                *)
(*                                                                         *)
(* A handler runs from one await to the next.  The token endpoint and the  *)
(* registration await their body first; the GitHub callback awaits two     *)
(* fetches, so it is two actions, and two callbacks may carry the same     *)
(* state.  A request with a token is authenticated when it arrives and     *)
(* answered after its body, so it is in flight between two actions.        *)
(* Hashes, signatures and random ids are perfect: a code is its row, a     *)
(* challenge its verifier.  Requests the handlers refuse change nothing.   *)
(*                                                                         *)
(* An agent has one run at a time and one socket to the control plane;     *)
(* old sockets, results and restarts are in ControlPlane and AgentDelivery.*)
(***************************************************************************)
EXTENDS Integers, FiniteSets, RemotePolicy

CONSTANTS
    None,           \* no entry, no row
    Clients,        \* client ids that may register
    Uris,           \* redirect URIs of requests
    SafeUris,       \* https:, or http: on localhost
    Verifiers,      \* PKCE code verifiers
    Txns,           \* authorize transaction ids, each used once
    Callbacks,      \* requests to /oauth/callback/github
    GitHubUsers,    \* GitHub accounts
    NoUser,         \* the user payload has no id
    Logins,         \* AUTH_ALLOWED_GITHUB_LOGINS or _IDS: accounts they name
    AllowAll,       \* AUTH_ALLOW_ALL_USERS
    Codes,          \* authorization codes, each issued once
    AskedScopes,    \* scope parameters of authorize requests, as sets
    Agents,         \* agent ids
    Aliases,        \* agent aliases; one may be spelled like an agent id
    Profiles,       \* requested_profile of enrollment requests
    PolicyPatches,  \* policies update_agent_policy is called with
    Targets,        \* what a remote tool is pointed at: [kind, path or name]
    Requests,       \* requests with a token that are in flight at once
    Nonces,         \* nonces of agent hellos
    Stamp,          \* the timestamp of the hello a nonce was made for, by its
                    \* agent's clock; every delivery of it carries the same
    MaxClients,     \* maxOAuthClients
    CodeTtl,        \* authCodeTtlSeconds, also of a transaction
    TokenTtl,       \* accessTokenTtlSeconds
    NonceTtl,       \* AGENT_NONCE_TTL_MS, and the greatest age of a hello
    MaxVersion,     \* bound: greatest version of a policy
    MaxFrames,      \* bound: frames on the way to an agent
    MaxTime         \* bound: last instant

ASSUME AuthorizationAssumption ==
    /\ SafeUris \subseteq Uris /\ NoUser \notin GitHubUsers
    /\ Logins \subseteq GitHubUsers /\ AllowAll \in BOOLEAN
    /\ AskedScopes \subseteq SUBSET RemoteScopes
    /\ Stamp \in [Nonces -> Int]
    /\ MaxClients \in Nat /\ CodeTtl \in Nat /\ TokenTtl \in Nat /\ NonceTtl \in Nat
    /\ MaxVersion \in Nat /\ MaxFrames \in Nat

\* Paths are sequences of segments, those the agents' owners write in a patch too.
ASSUME PathsAssumption ==
    /\ \A s \in DOMAIN Pieces : Pieces[s] \in Seq(STRING)
    /\ \A patch \in PolicyPatches : \A k \in {"allowPaths", "denyPaths"} \cap DOMAIN patch :
          patch[k] \subseteq Seq(STRING)
    /\ \A target \in Targets : target.kind = "path" => target.path \in Seq(STRING)

VARIABLES
    clients,       \* table oauth_clients: redirect URIs of a registered client
    transactions,  \* authorizeTransactions (in memory)
    asked,         \* what each transaction was started with
    callbacks,     \* callbacks between the transaction's removal and the code
    users,         \* table users
    codes,         \* table oauth_authorization_codes
    grants,        \* access tokens handed out
    requests,      \* requests in flight: authenticated, their bodies not yet read
    owned,         \* table agents: owner, alias, policy and whether revoked
    stored,        \* every policy an agent's row has had, with its version
    held,          \* the policy in each agent's configuration file and executor
    online,        \* agents with an entry in agentConnections
    frames,        \* what is on the way to each agent on its socket
    helloNonces,   \* agentHelloNonces of one agent: when each is forgotten
    greeted,       \* when a hello with the nonce was last accepted, per nonce
    now

oauthVars == <<clients, transactions, asked, callbacks, users, codes, grants>>
agentVars == <<owned, stored, held, online, frames>>
helloVars == <<helloNonces, greeted>>
authVars == <<oauthVars, requests, agentVars, helloVars, now>>

Known == GitHubUsers \cup {NoUser}
Pending == [client: Clients, uri: Uris, challenge: Verifiers,
            scope: SUBSET RemoteScopes, expiresAt: Nat, txn: Txns]
Code == [client: Clients, user: Known, uri: Uris, challenge: Verifiers,
         scope: SUBSET RemoteScopes, expiresAt: Nat, used: BOOLEAN, txn: Txns]
Grant == [code: Codes, user: Known, client: Clients, uri: Uris, verifier: Verifiers,
          scopes: SUBSET RemoteScopes, issuedAt: Nat, expiresAt: Nat]
Policies == {CreateAgentPolicy(p) : p \in {"read-only", "operations", "full-admin"}}
            \cup {UpdatedPolicy(p) : p \in PolicyPatches}
Copy == [policy: Policies, version: Nat]
Row == [owner: Known, alias: Aliases, revoked: BOOLEAN, copy: Copy]
Names == Aliases \cup Agents
Reading == [stage: {"body"}, token: Grant, since: Nat]
Patching == [stage: {"patch"}, token: Grant, since: Nat, name: Names, agent: Agents, row: Row]
PolicyUpdate == [type: {"policy.update"}, copy: Copy]
ActionRequest == [type: {"action.request"}, user: Known, tool: HostTools, version: Nat]

\* What stands for a missing row, entry, request, copy or time is none.
ASSUME NoneAssumption ==
    None \notin Pending \cup Code \cup Row \cup Copy \cup Reading \cup Patching \cup Int

AuthInit ==
    /\ clients = [c \in Clients |-> {}]
    /\ transactions = [t \in Txns |-> None]
    /\ asked = [t \in Txns |-> None]
    /\ callbacks = [b \in Callbacks |-> None]
    /\ users = {}
    /\ codes = [k \in Codes |-> None]
    /\ grants = {}
    /\ requests = [q \in Requests |-> None]
    /\ owned = [a \in Agents |-> None]
    /\ stored = [a \in Agents |-> {}]
    /\ held = [a \in Agents |-> None]
    /\ online = {}
    /\ frames = [a \in Agents |-> <<>>]
    /\ helloNonces = [n \in Nonces |-> None]
    /\ greeted = [n \in Nonces |-> None]
    /\ now = 0

-----------------------------------------------------------------------------
\* countOAuthClients.
Registered == {c \in Clients : clients[c] # {}}

\* handleRegister: at least one redirect URI, all of them safe, within the limit.
\* A client id is random, so a client registers once.
Register(c, uris) ==
    /\ clients[c] = {}
    /\ uris # {} /\ uris \subseteq SafeUris
    /\ Cardinality(Registered) < MaxClients
    /\ clients' = [clients EXCEPT ![c] = uris]
    /\ UNCHANGED <<transactions, asked, callbacks, users, codes, grants>>
    /\ UNCHANGED <<requests, agentVars, helloVars, now>>

\* validateAuthorizeParams: the checks that depend on the client.
MayAuthorize(c, uri) == uri \in clients[c] /\ uri \in SafeUris

\* handleAuthorize: the transaction waits for GitHub's redirect.  Its id is random.
Authorize(t, c, uri, v, scope) ==
    LET p == [client |-> c, uri |-> uri, challenge |-> v, scope |-> scope,
              expiresAt |-> now + CodeTtl, txn |-> t]
    IN /\ asked[t] = None
       /\ MayAuthorize(c, uri)
       /\ transactions' = [transactions EXCEPT ![t] = p]
       /\ asked' = [asked EXCEPT ![t] = p]
       /\ UNCHANGED <<clients, callbacks, users, codes, grants>>
       /\ UNCHANGED <<requests, agentVars, helloVars, now>>

\* Mutant: the transaction is left for the cleanup.
CallbackArrivesKeeping(b, t) ==
    /\ callbacks[b] = None
    /\ transactions[t] # None /\ transactions[t].expiresAt >= now
    /\ callbacks' = [callbacks EXCEPT ![b] = transactions[t]]
    /\ UNCHANGED <<clients, transactions, asked, users, codes, grants>>
    /\ UNCHANGED <<requests, agentVars, helloVars, now>>

\* handleGitHubCallback up to the fetch: the transaction is taken out of the map
\* whether or not it is used, and an expired one is refused.
CallbackArrives(b, t) ==
    /\ callbacks[b] = None
    /\ transactions[t] # None
    /\ transactions' = [transactions EXCEPT ![t] = None]
    /\ callbacks' = IF transactions[t].expiresAt >= now
                    THEN [callbacks EXCEPT ![b] = transactions[t]] ELSE callbacks
    /\ UNCHANGED <<clients, asked, users, codes, grants>>
    /\ UNCHANGED <<requests, agentVars, helloVars, now>>

\* isGitHubUserAllowed.
IsGitHubUserAllowed(u) == AllowAll \/ u \in Logins

\* issueAuthorizationCode for what the transaction asked for.
IssueAuthorizationCode(p, u) ==
    [client |-> p.client, user |-> u, uri |-> p.uri, challenge |-> p.challenge,
     scope |-> p.scope, expiresAt |-> now + CodeTtl, used |-> FALSE, txn |-> p.txn]

\* upsertGitHubUser; the rows of users are keyed by the GitHub id.
UpsertGitHubUser(u) == users \cup {u}

\* The rest of the callback once GitHub has answered: fetchGitHubUser does not
\* look at the HTTP status, so an error payload is a user without an id.
\* upsertGitHubUser and issueAuthorizationCode.
CallbackEnds(b, u, k) ==
    LET p == callbacks[b]
    IN /\ p # None
       /\ callbacks' = [callbacks EXCEPT ![b] = None]
       /\ IF IsGitHubUserAllowed(u)
          THEN /\ codes[k] = None
               /\ users' = UpsertGitHubUser(u)
               /\ codes' = [codes EXCEPT ![k] = IssueAuthorizationCode(p, u)]
          ELSE UNCHANGED <<users, codes>>
       /\ UNCHANGED <<clients, transactions, asked, grants>>
       /\ UNCHANGED <<requests, agentVars, helloVars, now>>

\* The fetch fails, or GitHub gives no access token.
CallbackFails(b) ==
    /\ callbacks[b] # None
    /\ callbacks' = [callbacks EXCEPT ![b] = None]
    /\ UNCHANGED <<clients, transactions, asked, users, codes, grants>>
    /\ UNCHANGED <<requests, agentVars, helloVars, now>>

\* Mutant: the code is not tied to its client.
RedeemableByAnyone(k, c, uri, v) ==
    /\ codes[k] # None /\ clients[c] # {} /\ codes[k].uri = uri
    /\ ~codes[k].used /\ codes[k].expiresAt >= now
    /\ v = codes[k].challenge

\* The checks of handleToken.
Redeemable(k, c, uri, v) ==
    /\ codes[k] # None /\ codes[k].client = c /\ codes[k].uri = uri
    /\ ~codes[k].used /\ codes[k].expiresAt >= now
    /\ v = codes[k].challenge

\* handleToken after the body is read: check, mark used, sign.  userFromId cannot
\* fail, rows of users are never deleted.
Redeem(k, c, uri, v) ==
    /\ clients[c] # {}
    /\ Redeemable(k, c, uri, v)
    /\ codes[k].user \in users
    /\ codes' = [codes EXCEPT ![k].used = TRUE]
    /\ grants' = grants \cup {[code |-> k, user |-> codes[k].user, client |-> c, uri |-> uri,
                               verifier |-> v, scopes |-> ScopeList(codes[k].scope),
                               issuedAt |-> now, expiresAt |-> now + TokenTtl]}
    /\ UNCHANGED <<clients, transactions, asked, callbacks, users>>
    /\ UNCHANGED <<requests, agentVars, helloVars, now>>

\* cleanupEphemeralState, every minute and at every hello: transactions, then
\* nonces, whose time has come.
CleanedTransactions ==
    [t \in Txns |-> IF transactions[t] # None /\ transactions[t].expiresAt <= now
                    THEN None ELSE transactions[t]]
CleanedNonces ==
    [n \in Nonces |-> IF helloNonces[n] # None /\ helloNonces[n] <= now
                      THEN None ELSE helloNonces[n]]
CleanupEphemeralState ==
    /\ transactions' = CleanedTransactions
    /\ helloNonces' = CleanedNonces
    /\ UNCHANGED <<clients, asked, callbacks, users, codes, grants>>
    /\ UNCHANGED <<requests, agentVars, greeted, now>>

-----------------------------------------------------------------------------
\* verifyRemoteAccessToken and authenticate: an unexpired token of ours is its
\* user and the capabilities of its scopes.
Live(g) == g \in grants /\ now < g.expiresAt
Has(g, capability) == capability \in CapabilitiesFromScopes(g.scopes)

\* getAgentByAlias.
ByAlias(u, name) == {a \in Agents : owned[a] # None /\ owned[a].owner = u /\ owned[a].alias = name}

\* Mutant: the agent of an id is not asked for its owner.
ResolveAnyId(u, name) ==
    IF name \in Agents /\ owned[name] # None THEN {name} ELSE ByAlias(u, name)

\* resolveAgent: an id of the user's own agent, else an alias.
ResolveAgent(u, name) ==
    IF name \in Agents /\ owned[name] # None /\ owned[name].owner = u
    THEN {name} ELSE ByAlias(u, name)

\* handleMcp and handleApi: the token is checked, then the body is awaited.
Authenticate(q, g) ==
    /\ requests[q] = None
    /\ Live(g)
    /\ requests' = [requests EXCEPT ![q] = [stage |-> "body", token |-> g, since |-> now]]
    /\ UNCHANGED <<oauthVars, agentVars, helloVars, now>>

\* PATCH /api/agents/:id and /policy: the agent is looked up too before the body is awaited.
PatchArrives(q, g, name) ==
    /\ requests[q] = None
    /\ Live(g)
    /\ \E a \in ResolveAgent(g.user, name) :
          requests' = [requests EXCEPT ![q] =
              [stage |-> "patch", token |-> g, since |-> now, name |-> name,
               agent |-> a, row |-> owned[a]]]
    /\ UNCHANGED <<oauthVars, agentVars, helloVars, now>>

\* The request is answered, refused or broken off, with nothing written.
EndRequest(q) ==
    /\ requests[q] # None
    /\ requests' = [requests EXCEPT ![q] = None]
    /\ UNCHANGED <<oauthVars, agentVars, helloVars, now>>

\* A request whose body has come, and the scope it needs.
Answers(q, stage, capability) ==
    /\ requests[q] # None /\ requests[q].stage = stage
    /\ Has(requests[q].token, capability)
    /\ requests' = [requests EXCEPT ![q] = None]

\* insertAgent of the row, or updateAgent, which overwrites all columns but the owner's; the
\* row it is given has the same owner.
WriteRow(a, row) ==
    /\ owned' = [owned EXCEPT ![a] = row]
    /\ stored' = [stored EXCEPT ![a] = @ \cup {row.copy}]

\* connection.sendJson of the agent's live connection, if it has one.
SendIfOnline(a, frame) ==
    IF a \in online
    THEN Len(frames[a]) < MaxFrames /\ frames' = [frames EXCEPT ![a] = Append(@, frame)]
    ELSE UNCHANGED frames

\* Mutant: the index does not cover the owner's revoked agents.
AliasFreeOfLive(u, alias) == \A a \in ByAlias(u, alias) : owned[a].revoked

\* UNIQUE(user_id, alias) of table agents: it counts revoked rows too.
AliasFree(u, alias) == ByAlias(u, alias) = {}

\* The new id is random: no agent has it as its alias.
NewId(a) == owned[a] = None /\ \A b \in Agents : owned[b] # None => owned[b].alias # a

\* createEnrollmentToken.  Its own check lets the alias of a revoked agent pass,
\* but then the insert fails on the index.  An unknown profile is read-only.
CreateAgent(q, a, alias, profile) ==
    LET u == requests[q].token.user
    IN /\ Answers(q, "body", "agents.admin")
       /\ NewId(a) /\ alias # a
       /\ \A b \in ByAlias(u, alias) : owned[b].revoked
       /\ AliasFree(u, alias)
       /\ WriteRow(a, [owner |-> u, alias |-> alias, revoked |-> FALSE,
                       copy |-> [policy |-> CreateAgentPolicy(
                                     IF profile \in {"operations", "full-admin"}
                                     THEN profile ELSE "read-only"),
                                 version |-> 1]])
       /\ UNCHANGED <<oauthVars, held, online, frames, helloVars, now>>

\* revokeAgent, from the MCP tool or POST /api/agents/:id/revoke: the connection is
\* closed, what was sent on it may still be read.
RevokeOwned(q, name) ==
    /\ Answers(q, "body", "agents.admin")
    /\ \E a \in ResolveAgent(requests[q].token.user, name) :
          /\ WriteRow(a, [owned[a] EXCEPT !.revoked = TRUE])
          /\ online' = online \ {a}
    /\ UNCHANGED <<oauthVars, held, frames, helloVars, now>>

\* updateAgentPolicy over the row it was called with: the patch replaces the policy, of a
\* revoked agent too, and a live agent is sent the new one.
UpdateAgentPolicy(a, row, patch) ==
    LET copy == [policy |-> UpdatedPolicy(patch), version |-> row.copy.version + 1]
    IN /\ row.copy.version < MaxVersion
       /\ WriteRow(a, [row EXCEPT !.copy = copy])
       /\ SendIfOnline(a, [type |-> "policy.update", copy |-> copy])

\* update_agent_policy, which looks the agent up after its body is read.
UpdateOwned(q, name, patch) ==
    /\ Answers(q, "body", "agents.admin")
    /\ \E a \in ResolveAgent(requests[q].token.user, name) : UpdateAgentPolicy(a, owned[a], patch)
    /\ UNCHANGED <<oauthVars, held, online, helloVars, now>>

\* The rest of the PATCH, with the row it read before the await.
PatchApplies(q, patch) ==
    /\ Answers(q, "patch", "agents.admin")
    /\ UpdateAgentPolicy(requests[q].agent, requests[q].row, patch)
    /\ UNCHANGED <<oauthVars, held, online, helloVars, now>>

\* callRemoteTool for a tool that runs on a host, and dispatchAction up to the envelope it
\* sends.  What is awaited then is the result.
CallRemoteTool(q, name, tool) ==
    /\ Answers(q, "body", CapabilityOf(tool))
    /\ \E a \in ResolveAgent(requests[q].token.user, name) \cap online :
          /\ owned[a].copy.policy.capabilities[CapabilityOf(tool)]
          /\ ~owned[a].revoked
          /\ SendIfOnline(a, [type |-> "action.request", user |-> requests[q].token.user,
                              tool |-> tool, version |-> owned[a].copy.version])
    /\ UNCHANGED <<oauthVars, owned, stored, held, online, helloVars, now>>

-----------------------------------------------------------------------------
\* handleAgentEnroll and the agent's enroll, once per agent: it keeps the policy of the row.
Enroll(a) ==
    /\ owned[a] # None /\ ~owned[a].revoked
    /\ held[a] = None
    /\ held' = [held EXCEPT ![a] = owned[a].copy]
    /\ UNCHANGED <<oauthVars, requests, owned, stored, online, frames, helloVars, now>>

\* A new run of the agent: its hello is accepted (handleAgentHello) and its socket is empty.
\* The policy is the one in its configuration file.
Connect(a) ==
    /\ held[a] # None /\ ~owned[a].revoked
    /\ online' = online \cup {a}
    /\ frames' = [frames EXCEPT ![a] = <<>>]
    /\ UNCHANGED <<oauthVars, requests, owned, stored, held, helloVars, now>>

\* The control plane's end of the socket closes (connection.onClose).
ConnectionLost(a) ==
    /\ a \in online
    /\ online' = online \ {a}
    /\ UNCHANGED <<oauthVars, requests, owned, stored, held, frames, helloVars, now>>

\* The agent's version check (runAgent): its own version, or the next one.
Accepts(a, frame) == frame.version \in {held[a].version, held[a].version + 1}

\* ws.onmessage of the agent: an update becomes its policy and is saved, an accepted action
\* goes to the executor, another is dropped.
AgentReads(a) ==
    /\ frames[a] # <<>>
    /\ frames' = [frames EXCEPT ![a] = Tail(@)]
    /\ held' = IF Head(frames[a]).type = "policy.update"
               THEN [held EXCEPT ![a] = Head(frames[a]).copy] ELSE held
    /\ UNCHANGED <<oauthVars, requests, owned, stored, online, helloVars, now>>

-----------------------------------------------------------------------------
\* The age check of handleAgentHello: clocks of agents run ahead or behind.
Fresh(timestamp) == timestamp - now <= NonceTtl /\ now - timestamp <= NonceTtl

\* Mutant: a hello is remembered by its own timestamp.
HelloByTimestamp(n) ==
    /\ Fresh(Stamp[n])
    /\ CleanedNonces[n] = None
    /\ transactions' = CleanedTransactions
    /\ helloNonces' = [CleanedNonces EXCEPT ![n] = Stamp[n] + NonceTtl]
    /\ greeted' = [greeted EXCEPT ![n] = now]
    /\ UNCHANGED <<clients, asked, callbacks, users, codes, grants>>
    /\ UNCHANGED <<requests, agentVars, now>>

\* handleAgentHello, the part about freshness: clean up, refuse a nonce that is
\* still remembered, remember this one.
Hello(n) ==
    /\ Fresh(Stamp[n])
    /\ CleanedNonces[n] = None
    /\ transactions' = CleanedTransactions
    /\ helloNonces' = [CleanedNonces EXCEPT ![n] = now + NonceTtl]
    /\ greeted' = [greeted EXCEPT ![n] = now]
    /\ UNCHANGED <<clients, asked, callbacks, users, codes, grants>>
    /\ UNCHANGED <<requests, agentVars, now>>

AuthTick ==
    /\ now < MaxTime
    /\ now' = now + 1
    /\ UNCHANGED <<oauthVars, requests, agentVars, helloVars>>

AuthNext ==
    \/ \E c \in Clients, uris \in SUBSET Uris : Register(c, uris)
    \/ \E t \in Txns, c \in Clients, uri \in Uris, v \in Verifiers, scope \in AskedScopes :
          Authorize(t, c, uri, v, scope)
    \/ \E b \in Callbacks, t \in Txns : CallbackArrives(b, t)
    \/ \E b \in Callbacks, u \in Known, k \in Codes : CallbackEnds(b, u, k)
    \/ \E b \in Callbacks : CallbackFails(b)
    \/ \E k \in Codes, c \in Clients, uri \in Uris, v \in Verifiers : Redeem(k, c, uri, v)
    \/ CleanupEphemeralState
    \/ \E q \in Requests, g \in grants : Authenticate(q, g)
    \/ \E q \in Requests, g \in grants, name \in Names : PatchArrives(q, g, name)
    \/ \E q \in Requests, a \in Agents, alias \in Aliases, profile \in Profiles :
          CreateAgent(q, a, alias, profile)
    \/ \E q \in Requests, name \in Names : RevokeOwned(q, name)
    \/ \E q \in Requests, name \in Names, patch \in PolicyPatches : UpdateOwned(q, name, patch)
    \/ \E q \in Requests, patch \in PolicyPatches : PatchApplies(q, patch)
    \/ \E q \in Requests, name \in Names, tool \in HostTools : CallRemoteTool(q, name, tool)
    \/ \E q \in Requests : EndRequest(q)
    \/ \E a \in Agents : Enroll(a) \/ Connect(a) \/ ConnectionLost(a) \/ AgentReads(a)
    \/ \E n \in Nonces : Hello(n)
    \/ AuthTick

\* One run of the process; what happens to its tables and memory across runs is
\* in ControlPlane.
AuthSpec == AuthInit /\ [][AuthNext]_authVars

-----------------------------------------------------------------------------
\* Types of the tables and maps.
AuthTypeOK ==
    /\ clients \in [Clients -> SUBSET SafeUris]
    /\ transactions \in [Txns -> Pending \cup {None}]
    /\ asked \in [Txns -> Pending \cup {None}]
    /\ callbacks \in [Callbacks -> Pending \cup {None}]
    /\ users \subseteq Known
    /\ codes \in [Codes -> Code \cup {None}]
    /\ grants \subseteq Grant
    /\ requests \in [Requests -> Reading \cup Patching \cup {None}]
    /\ owned \in [Agents -> Row \cup {None}]
    /\ stored \in [Agents -> SUBSET Copy]
    /\ held \in [Agents -> Copy \cup {None}]
    /\ online \subseteq Agents
    /\ frames \in [Agents -> Seq(PolicyUpdate \cup ActionRequest)]
    /\ helloNonces \in [Nonces -> Nat \cup {None}]
    /\ greeted \in [Nonces -> Nat \cup {None}]
    /\ now \in Nat

\* One visit to /oauth/authorize yields at most one code, and a code one access token while
\* it lives, however many callbacks carry the state, however they interleave with the
\* fetches from GitHub, and however often the code is presented.
LoginIsSpentOnce ==
    /\ \A t \in Txns :
          Cardinality({k \in Codes : codes[k] # None /\ codes[k].txn = t})
          + Cardinality({b \in Callbacks : callbacks[b] # None /\ callbacks[b].txn = t})
          + (IF transactions[t] # None THEN 1 ELSE 0) <= 1
    /\ \A g, h \in grants :
          /\ g.code = h.code => g = h
          /\ g.issuedAt <= codes[g.code].expiresAt

\* A token goes to the client, the redirect URI and the holder of the verifier that the
\* visit to /oauth/authorize named, although logins of several clients overlap and all of
\* them present each other's codes (handleToken); it names a user the configuration allows,
\* and opens no tool beyond the scopes that visit asked for (or the read scopes, when none
\* were).
GrantIsWhatWasAsked ==
    \A g \in grants :
        LET a == asked[codes[g.code].txn]
            scopes == IF a.scope = {} THEN DefaultScopes ELSE a.scope
        IN /\ g.client = a.client /\ g.uri = a.uri /\ g.verifier = a.challenge
           /\ a.uri \in clients[a.client]
           /\ g.user \in users /\ (AllowAll \/ g.user \in Logins)
           /\ ListedTools(CapabilitiesFromScopes(g.scopes)) \subseteq
              {tool \in RemoteTools :
                  \E s \in scopes : CapabilityOf(tool) \in ScopeCapabilities(s)}

\* Who writes an agent's row: only a request that presented a token of the agent's owner
\* with agents:admin while the token lived, whatever name it used for the agent (ids of other
\* users' agents, and aliases spelled like ids, included), and however long its body took:
\* the row may be written after the token has expired.
OnlyTheOwnerWrites ==
    [][\A a \in Agents : owned'[a] # owned[a] =>
          \E q \in Requests :
              /\ requests[q] # None /\ requests'[q] = None
              /\ LET g == requests[q].token
                 IN /\ g \in grants /\ "agents:admin" \in g.scopes
                    /\ requests[q].since \in g.issuedAt..(g.expiresAt - 1)
                    /\ g.user = owned'[a].owner
                    /\ owned[a] # None => owned[a].owner = g.user]_authVars

\* No two agents of a user have the same alias, revoked ones included.
AliasIsKey ==
    \A u \in Known, alias \in Aliases :
        \A a, b \in ByAlias(u, alias) : a = b

\* A PATCH that waits for its body writes the agent its address still names when the body
\* comes, and that name stands for no other agent: what other requests create, revoke and
\* update in between, and aliases spelled like ids, do not redirect it (handleApi,
\* resolveAgent).
PatchWritesItsAgent ==
    \A q \in Requests : requests[q] # None /\ requests[q].stage = "patch" =>
        ResolveAgent(requests[q].token.user, requests[q].name) = {requests[q].agent}

\* A hello that is delivered again is not accepted again for a whole nonce
\* lifetime after the last time, wherever its agent's clock stands.
HelloOncePerLifetime ==
    [][\A n \in Nonces :
          greeted[n] # None /\ greeted'[n] # greeted[n]
              => greeted'[n] >= greeted[n] + NonceTtl]_authVars

\* A place a prefix opens or closes: itself and what lies under it; the root only itself.
Within(place, prefix) ==
    LET directory == Follow(Slashed(prefix, Pieces))
    IN /\ IsAbsolute(Slashed(prefix, Pieces))
       /\ \/ place = directory
          \/ directory # <<>> /\ Under(place, directory)

\* An action that an agent takes off its socket and runs, past the control plane's gates when
\* it was sent and the agent's own when it is read: the caller owns the agent, a token of the
\* caller names the tool, the owner's policy of the version in the envelope had it switched
\* on, the policy the agent acts by is one the owner has given it, though updates, stale
\* PATCHes and reconnects come between, and the path of a file tool leads, followed one
\* segment at a time, under an allowed prefix and under no denied one.  This is for absolute
\* paths without a backslash: the others the policy and a POSIX host read differently.
ActionsStayInside ==
    \A a \in Agents : frames[a] # <<>> /\ Head(frames[a]).type = "action.request" =>
        LET f == Head(frames[a])
            policy == held[a].policy
        IN \A target \in Targets :
              Accepts(a, f) /\ ExecuteAllowed(policy, f.tool, target) =>
                 /\ owned[a].owner = f.user
                 /\ \E g \in grants, s \in RemoteScopes :
                       g.user = f.user /\ s \in g.scopes /\ CapabilityOf(f.tool) \in ScopeCapabilities(s)
                 /\ \E c \in stored[a] :
                       c.version = f.version /\ c.policy.capabilities[CapabilityOf(f.tool)]
                 /\ held[a] \in stored[a]
                 /\ (/\ f.tool \in FileTools /\ target.kind = "path"
                     /\ IsAbsolute(target.path) /\ SlashesOnly(target.path, Pieces)) =>
                       /\ \E p \in policy.allowPaths : Within(Follow(target.path), p)
                       /\ \A p \in policy.denyPaths : ~Within(Follow(target.path), p)
=============================================================================
