------------------------ MODULE Authorization_proofs ------------------------
(***************************************************************************)
(* Proofs about who may do what at the remote control plane: logins, codes *)
(* and tokens, the requests in flight, owners, aliases and policies of     *)
(* agents, nonces of hellos, for any number of each and any lifetimes.     *)
(***************************************************************************)
EXTENDS Authorization, FiniteSetTheorems, JsMap_proofs

-----------------------------------------------------------------------------
(* Scopes, capabilities and tools. *)

\* A tool is opened by one capability.
LEMMA ToolNeedsOne ==
    ASSUME NEW c \in RemoteCapabilities, NEW tool \in ToolsOf(c)
    PROVE  CapabilityOf(tool) = c
<1>1. \A d \in RemoteCapabilities : tool \in ToolsOf(d) => d = c
  BY DEF RemoteCapabilities, ToolsOf
<1>2. QED BY <1>1 DEF CapabilityOf

\* SCOPE_CAPABILITY_MAP names capabilities only.
LEMMA ScopeIsCapabilities ==
    ASSUME NEW s
    PROVE  ScopeCapabilities(s) \subseteq RemoteCapabilities
BY DEF ScopeCapabilities, RemoteCapabilities

\* What the capabilities of a set of scopes list is what those scopes name.
LEMMA ListedAreNamed ==
    ASSUME NEW scopes, NEW tool \in ListedTools(CapabilitiesFromScopes(scopes))
    PROVE  tool \in RemoteTools /\ \E s \in scopes : CapabilityOf(tool) \in ScopeCapabilities(s)
<1>1. PICK c \in CapabilitiesFromScopes(scopes) : tool \in ToolsOf(c)
  BY DEF ListedTools
<1>2. PICK s \in scopes : c \in ScopeCapabilities(s)
  BY <1>1 DEF CapabilitiesFromScopes
<1>3. c \in RemoteCapabilities
  BY <1>2, ScopeIsCapabilities
<1>4. CapabilityOf(tool) = c
  BY <1>1, <1>3, ToolNeedsOne
<1>5. QED BY <1>1, <1>2, <1>3, <1>4 DEF RemoteTools

\* Only agents:admin gives the capability that writes agents.
LEMMA AdminScope ==
    ASSUME NEW g, Has(g, "agents.admin")
    PROVE  "agents:admin" \in g.scopes
<1>1. PICK s \in g.scopes : "agents.admin" \in ScopeCapabilities(s)
  BY DEF Has, CapabilitiesFromScopes
<1>2. s = "agents:admin"
  BY <1>1 DEF ScopeCapabilities
<1>3. QED BY <1>1, <1>2

\* A set whose members are all the same has at most one.
LEMMA AtMostOne ==
    ASSUME NEW S, \A x, y \in S : x = y
    PROVE  /\ Cardinality(S) \in {0, 1}
           /\ S = {} => Cardinality(S) = 0
<1>1. CASE S = {}
  BY <1>1, FS_EmptySet
<1>2. CASE S # {}
  <2>1. PICK x : S = {x}
    BY <1>2
  <2>2. QED BY <2>1, <1>2, FS_Singleton
<1>3. QED BY <1>1, <1>2

-----------------------------------------------------------------------------
(* The inductive invariant. *)

\* A visit to /oauth/authorize is in one place: waiting, at GitHub, or a code.
TxnInOnePlace ==
    /\ \A t \in Txns : transactions[t] # None => transactions[t].txn = t
    /\ \A b, d \in Callbacks :
          callbacks[b] # None /\ callbacks[d] # None /\ callbacks[b].txn = callbacks[d].txn => b = d
    /\ \A k, l \in Codes :
          codes[k] # None /\ codes[l] # None /\ codes[k].txn = codes[l].txn => k = l
    /\ \A k \in Codes, b \in Callbacks :
          codes[k] # None /\ callbacks[b] # None => codes[k].txn # callbacks[b].txn
    /\ \A b \in Callbacks : callbacks[b] # None => transactions[callbacks[b].txn] = None
    /\ \A k \in Codes : codes[k] # None => transactions[codes[k].txn] = None

\* It is a visit that was made, and each of them carries what it was started with: a
\* redirect URI of its client, a code an allowed user.
WasAsked(login) == asked[login.txn] # None /\ login.client = asked[login.txn].client
                   /\ login.uri = asked[login.txn].uri /\ login.challenge = asked[login.txn].challenge
                   /\ login.scope = asked[login.txn].scope
LoginIsRegistered ==
    /\ \A t \in Txns : asked[t] # None => asked[t].uri \in clients[asked[t].client]
    /\ \A t \in Txns : transactions[t] # None => WasAsked(transactions[t])
    /\ \A b \in Callbacks : callbacks[b] # None => WasAsked(callbacks[b])
    /\ \A k \in Codes : codes[k] # None => WasAsked(codes[k])
    /\ \A k \in Codes : codes[k] # None => IsGitHubUserAllowed(codes[k].user)

\* A token is the one its code was spent on.
GrantMatchesCode(g) ==
    /\ codes[g.code] # None /\ codes[g.code].used
    /\ g.client = codes[g.code].client /\ g.uri = codes[g.code].uri
    /\ g.verifier = codes[g.code].challenge
    /\ g.user = codes[g.code].user /\ g.user \in users
    /\ g.scopes = ScopeList(codes[g.code].scope)
    /\ g.issuedAt <= codes[g.code].expiresAt /\ g.issuedAt <= now
GrantsInStep ==
    /\ \A g \in grants : GrantMatchesCode(g)
    /\ \A g, h \in grants : g.code = h.code => g = h

\* The name is the id of the user's agent a, or its alias and no id of another of them.
Named(u, name, a) ==
    \/ name = a
    \/ /\ owned[a].alias = name
       /\ name \in Agents => owned[name] = None \/ owned[name].owner # u

\* A request in flight came with a token while it lived; the row a PATCH read belongs to the
\* agent it named.
RequestInStep(r) ==
    /\ r.token \in grants /\ r.since \in r.token.issuedAt..(r.token.expiresAt - 1)
    /\ r.stage = "patch" =>
          /\ owned[r.agent] # None /\ owned[r.agent].owner = r.token.user
          /\ Named(r.token.user, r.name, r.agent)
          /\ r.row.owner = r.token.user /\ r.row.alias = owned[r.agent].alias
          /\ r.row.copy \in stored[r.agent]
RequestsInStep == \A q \in Requests : requests[q] # None => RequestInStep(requests[q])

\* What was sent to an agent: a policy its row has had, or a call of its owner's, under a
\* scope for the tool, that the policy of its version had switched on.
Sent(a) ==
    {f \in PolicyUpdate \cup ActionRequest :
        IF f.type = "policy.update" THEN f.copy \in stored[a]
        ELSE /\ owned[a].owner = f.user
             /\ \E g \in grants, s \in RemoteScopes :
                   g.user = f.user /\ s \in g.scopes /\ CapabilityOf(f.tool) \in ScopeCapabilities(s)
             /\ \E c \in stored[a] : c.version = f.version /\ c.policy.capabilities[CapabilityOf(f.tool)]}

\* The row and the agent's own copy are policies the row has had; only an enrolled agent has
\* a socket.
AgentInStep(a) ==
    /\ owned[a] # None => owned[a].copy \in stored[a]
    /\ held[a] # None => owned[a] # None /\ held[a] \in stored[a]
    /\ a \in online \/ frames[a] # <<>> => held[a] # None
    /\ frames[a] \in Seq(Sent(a))
AgentsInStep == \A a \in Agents : AgentInStep(a)

AccessInv == AliasIsKey /\ RequestsInStep /\ AgentsInStep

\* A nonce is remembered for its lifetime after the hello it came with, and then forgotten.
NonceInStep ==
    \A n \in Nonces : greeted[n] # None =>
        /\ greeted[n] <= now
        /\ \/ helloNonces[n] = greeted[n] + NonceTtl
           \/ helloNonces[n] = None /\ greeted[n] + NonceTtl <= now

AuthInv ==
    /\ AuthTypeOK /\ TxnInOnePlace /\ LoginIsRegistered /\ GrantsInStep
    /\ AccessInv /\ NonceInStep

LEMMA AuthInitInv == AuthInit => AuthInv
<1> SUFFICES ASSUME AuthInit PROVE AuthInv
  OBVIOUS
<1>1. AuthTypeOK
  BY AuthorizationAssumption DEF AuthInit, AuthTypeOK
<1>2. TxnInOnePlace /\ LoginIsRegistered
  BY DEF AuthInit, TxnInOnePlace, LoginIsRegistered
<1>3. GrantsInStep /\ NonceInStep
  BY DEF AuthInit, GrantsInStep, NonceInStep
<1>4. AccessInv
  BY DEF AuthInit, AccessInv, AliasIsKey, ByAlias, RequestsInStep, AgentsInStep, AgentInStep
<1>5. QED BY <1>1, <1>2, <1>3, <1>4 DEF AuthInv

-----------------------------------------------------------------------------
(* The steps of a login. *)

\* A step that keeps the requests and the agents, and every token.
LEMMA AccessUntouched ==
    ASSUME AuthInv, UNCHANGED <<requests, agentVars>>, grants \subseteq grants'
    PROVE  AccessInv'
<1>1. UNCHANGED <<requests, owned, stored, held, online, frames>>
  BY DEF agentVars
<1>2. AliasIsKey'
  BY <1>1 DEF AuthInv, AccessInv, AliasIsKey, ByAlias
<1>3. RequestsInStep'
  BY <1>1 DEF AuthInv, AccessInv, RequestsInStep, RequestInStep, Named
<1>4. \A a \in Agents : Sent(a) \subseteq Sent(a)'
  BY <1>1 DEF Sent
<1>5. AgentsInStep'
  BY <1>1, <1>4 DEF AuthInv, AccessInv, AgentsInStep, AgentInStep
<1>6. QED BY <1>2, <1>3, <1>5 DEF AccessInv

\* A step of the OAuth endpoints that keeps the agents' side.
LEMMA AgentsUntouched ==
    ASSUME AuthInv, UNCHANGED <<requests, agentVars, helloVars, now>>, grants \subseteq grants'
    PROVE  AccessInv' /\ NonceInStep'
<1>1. UNCHANGED <<helloNonces, greeted, now>>
  BY DEF helloVars
<1>2. NonceInStep'
  BY <1>1 DEF AuthInv, NonceInStep
<1>3. QED BY <1>2, AccessUntouched

LEMMA RegisterInv ==
    ASSUME AuthInv, NEW c \in Clients, NEW uris \in SUBSET Uris, Register(c, uris)
    PROVE  AuthInv'
<1>1. AccessInv' /\ NonceInStep'
  BY AgentsUntouched DEF Register
<1>2. AuthTypeOK'
  BY DEF AuthInv, AuthTypeOK, Register, agentVars, helloVars
<1>3. TxnInOnePlace'
  BY DEF AuthInv, TxnInOnePlace, Register
<1>4. \A d \in Clients : clients'[d] = clients[d] \/ clients[d] = {}
  BY DEF AuthInv, AuthTypeOK, Register
<1>5. LoginIsRegistered'
  <2>1. \A t \in Txns : asked[t] # None => asked[t] \in Pending
    BY DEF AuthInv, AuthTypeOK
  <2>2. QED BY <1>4, <2>1
         DEF AuthInv, LoginIsRegistered, WasAsked, Register, Pending, IsGitHubUserAllowed
<1>6. GrantsInStep'
  BY DEF AuthInv, GrantsInStep, GrantMatchesCode, Register
<1>7. QED BY <1>1, <1>2, <1>3, <1>5, <1>6 DEF AuthInv

LEMMA AuthorizeInv ==
    ASSUME AuthInv, NEW t \in Txns, NEW c \in Clients, NEW uri \in Uris, NEW v \in Verifiers,
           NEW scope \in AskedScopes, Authorize(t, c, uri, v, scope)
    PROVE  AuthInv'
<1>1. AccessInv' /\ NonceInStep'
  BY AgentsUntouched DEF Authorize
<1>2. PICK p : p = [client |-> c, uri |-> uri, challenge |-> v, scope |-> scope,
                    expiresAt |-> now + CodeTtl, txn |-> t]
  OBVIOUS
<1>3. p \in Pending /\ p # None /\ p.txn = t /\ p.uri = uri /\ p.client = c
  BY <1>2, AuthorizationAssumption, NoneAssumption DEF AuthInv, AuthTypeOK, Pending
<1>4. transactions' = [transactions EXCEPT ![t] = p] /\ asked' = [asked EXCEPT ![t] = p]
  BY <1>2 DEF Authorize
<1>5. /\ UNCHANGED <<clients, callbacks, users, codes, grants, requests, agentVars, helloVars, now>>
      /\ uri \in clients[c] /\ asked[t] = None
  BY DEF Authorize, MayAuthorize
<1>6. AuthTypeOK'
  BY <1>3, <1>4, <1>5 DEF AuthInv, AuthTypeOK, agentVars, helloVars
<1>7. /\ \A x \in Txns : transactions'[x] = IF x = t THEN p ELSE transactions[x]
      /\ \A x \in Txns : asked'[x] = IF x = t THEN p ELSE asked[x]
  <2>1. transactions \in [Txns -> Pending \cup {None}] /\ asked \in [Txns -> Pending \cup {None}]
    BY DEF AuthInv, AuthTypeOK
  <2>2. QED BY ONLY <1>4, <2>1
<1>8. /\ \A b \in Callbacks : callbacks[b] # None => callbacks[b].txn \in Txns /\ callbacks[b].txn # t
      /\ \A k \in Codes : codes[k] # None => codes[k].txn \in Txns /\ codes[k].txn # t
  BY <1>5 DEF AuthInv, AuthTypeOK, LoginIsRegistered, WasAsked, Pending, Code
<1>9. TxnInOnePlace'
  <2>1. TxnInOnePlace /\ UNCHANGED <<callbacks, codes>>
    BY <1>5 DEF AuthInv
  <2>2. QED BY ONLY <1>3, <1>7, <1>8, <2>1 DEF TxnInOnePlace
<1>10. LoginIsRegistered'
  <2>1. \A x \in Txns : transactions[x] # None => transactions[x].txn = x
    BY DEF AuthInv, TxnInOnePlace
  <2>2. LoginIsRegistered /\ UNCHANGED <<clients, callbacks, codes>> /\ uri \in clients[c]
    BY <1>5 DEF AuthInv
  <2>3. /\ \A x \in Txns : asked'[x] # None => asked'[x].uri \in clients'[asked'[x].client]
        /\ \A k \in Codes : codes'[k] # None => IsGitHubUserAllowed(codes'[k].user)
    BY ONLY <1>3, <1>7, <2>2 DEF LoginIsRegistered, IsGitHubUserAllowed
  <2>4. /\ \A x \in Txns : transactions'[x] # None => WasAsked(transactions[x])'
        /\ \A b \in Callbacks : callbacks'[b] # None => WasAsked(callbacks[b])'
        /\ \A k \in Codes : codes'[k] # None => WasAsked(codes[k])'
    BY ONLY <1>3, <1>7, <1>8, <2>1, <2>2 DEF LoginIsRegistered, WasAsked
  <2>5. QED BY <2>3, <2>4 DEF LoginIsRegistered, IsGitHubUserAllowed
<1>11. GrantsInStep'
  BY <1>5 DEF AuthInv, GrantsInStep, GrantMatchesCode
<1>12. QED BY <1>1, <1>6, <1>9, <1>10, <1>11 DEF AuthInv

\* Entries of authorizeTransactions go, nothing else moves.
LEMMA TransactionsGo ==
    ASSUME AuthInv, NEW gone, gone \subseteq Txns,
           transactions' = [t \in Txns |-> IF t \in gone THEN None ELSE transactions[t]],
           UNCHANGED <<clients, asked, callbacks, users, codes, grants, now>>
    PROVE  /\ TxnInOnePlace' /\ LoginIsRegistered' /\ GrantsInStep'
           /\ transactions' \in [Txns -> Pending \cup {None}]
<1>1. transactions' \in [Txns -> Pending \cup {None}]
  BY DEF AuthInv, AuthTypeOK
<1>2. \A t \in Txns : transactions'[t] \in {None, transactions[t]}
  OBVIOUS
<1>3. \A b \in Callbacks : callbacks[b] # None => callbacks[b].txn \in Txns
  BY DEF AuthInv, AuthTypeOK, Pending
<1>4. \A k \in Codes : codes[k] # None => codes[k].txn \in Txns
  BY DEF AuthInv, AuthTypeOK, Code
<1>5. TxnInOnePlace'
  BY <1>2, <1>3, <1>4 DEF AuthInv, TxnInOnePlace
<1>6. LoginIsRegistered'
  BY <1>2 DEF AuthInv, LoginIsRegistered, WasAsked, IsGitHubUserAllowed
<1>7. GrantsInStep'
  BY DEF AuthInv, GrantsInStep, GrantMatchesCode
<1>8. QED BY <1>1, <1>5, <1>6, <1>7

LEMMA CallbackArrivesInv ==
    ASSUME AuthInv, NEW b \in Callbacks, NEW t \in Txns, CallbackArrives(b, t)
    PROVE  AuthInv'
<1>1. AccessInv' /\ NonceInStep'
  BY AgentsUntouched DEF CallbackArrives
<1>2. /\ transactions[t] # None
      /\ transactions' = [transactions EXCEPT ![t] = None]
      /\ UNCHANGED <<clients, asked, users, codes, grants, requests, agentVars, helloVars, now>>
  BY DEF CallbackArrives
<1>3. transactions[t] \in Pending /\ transactions[t].txn = t /\ WasAsked(transactions[t])
  BY <1>2 DEF AuthInv, AuthTypeOK, TxnInOnePlace, LoginIsRegistered
<1>4. \A x \in Txns : transactions'[x] = IF x = t THEN None ELSE transactions[x]
  BY <1>2 DEF AuthInv, AuthTypeOK
<1>5. \A d \in Callbacks : callbacks'[d] = callbacks[d] \/ (d = b /\ callbacks'[d] = transactions[t])
  <2>1. \/ callbacks' = callbacks
        \/ callbacks' = [callbacks EXCEPT ![b] = transactions[t]]
    BY DEF CallbackArrives
  <2>2. \A d \in Callbacks : [callbacks EXCEPT ![b] = transactions[t]][d]
                             = IF d = b THEN transactions[t] ELSE callbacks[d]
    BY DEF AuthInv, AuthTypeOK
  <2>3. CASE callbacks' = callbacks
    BY <2>3
  <2>4. CASE callbacks' = [callbacks EXCEPT ![b] = transactions[t]]
    BY <2>2, <2>4
  <2>5. QED BY <2>1, <2>3, <2>4
<1>6. AuthTypeOK'
  <2>1. callbacks' \in [Callbacks -> Pending \cup {None}]
    BY <1>3 DEF AuthInv, AuthTypeOK, CallbackArrives
  <2>2. transactions' \in [Txns -> Pending \cup {None}]
    BY <1>2 DEF AuthInv, AuthTypeOK
  <2>3. QED BY <2>1, <2>2, <1>2 DEF AuthInv, AuthTypeOK, agentVars, helloVars
<1>7. TxnInOnePlace'
  <2>1. \A d \in Callbacks : callbacks[d] # None => callbacks[d].txn \in Txns /\ callbacks[d].txn # t
    BY <1>2 DEF AuthInv, AuthTypeOK, TxnInOnePlace, Pending
  <2>2. \A k \in Codes : codes[k] # None => codes[k].txn \in Txns /\ codes[k].txn # t
    BY <1>2 DEF AuthInv, AuthTypeOK, TxnInOnePlace, Code
  <2>3. QED BY <1>2, <1>3, <1>4, <1>5, <2>1, <2>2 DEF AuthInv, TxnInOnePlace
<1>8. LoginIsRegistered'
  BY <1>2, <1>3, <1>4, <1>5 DEF AuthInv, LoginIsRegistered, WasAsked, IsGitHubUserAllowed
<1>9. GrantsInStep'
  BY <1>2 DEF AuthInv, GrantsInStep, GrantMatchesCode
<1>10. QED BY <1>1, <1>6, <1>7, <1>8, <1>9 DEF AuthInv

LEMMA CallbackEndsInv ==
    ASSUME AuthInv, NEW b \in Callbacks,
           \/ \E u \in Known, k \in Codes : CallbackEnds(b, u, k)
           \/ CallbackFails(b)
    PROVE  AuthInv'
<1>1. /\ callbacks[b] # None
      /\ callbacks' = [callbacks EXCEPT ![b] = None]
      /\ UNCHANGED <<clients, transactions, asked, grants, requests, agentVars, helloVars, now>>
  BY DEF CallbackEnds, CallbackFails
<1>2. AccessInv' /\ NonceInStep'
  BY <1>1, AgentsUntouched
<1>3. \A d \in Callbacks : callbacks'[d] = IF d = b THEN None ELSE callbacks[d]
  BY <1>1 DEF AuthInv, AuthTypeOK
<1>4. callbacks' \in [Callbacks -> Pending \cup {None}]
  BY <1>1 DEF AuthInv, AuthTypeOK
<1>5. CASE UNCHANGED <<users, codes>>
  <2>1. AuthTypeOK'
    BY <1>1, <1>4, <1>5 DEF AuthInv, AuthTypeOK, agentVars, helloVars
  <2>2. TxnInOnePlace'
    BY <1>1, <1>3, <1>5 DEF AuthInv, TxnInOnePlace
  <2>3. LoginIsRegistered'
    BY <1>1, <1>3, <1>5 DEF AuthInv, LoginIsRegistered, WasAsked, IsGitHubUserAllowed
  <2>4. GrantsInStep'
    BY <1>1, <1>5 DEF AuthInv, GrantsInStep, GrantMatchesCode
  <2>5. QED BY <1>2, <2>1, <2>2, <2>3, <2>4 DEF AuthInv
<1>6. ASSUME NEW u \in Known, NEW k \in Codes, IsGitHubUserAllowed(u), codes[k] = None,
             users' = users \cup {u},
             codes' = [codes EXCEPT ![k] = IssueAuthorizationCode(callbacks[b], u)]
      PROVE  AuthInv'
  <2>1. PICK p : p = callbacks[b]
    OBVIOUS
  <2>2. PICK r : r = IssueAuthorizationCode(p, u)
    OBVIOUS
  <2>3. p \in Pending /\ p # None
    BY <1>1, <2>1 DEF AuthInv, AuthTypeOK
  <2>4. /\ r \in Code /\ r.txn = p.txn /\ r.uri = p.uri /\ r.client = p.client /\ r.user = u
        /\ r.challenge = p.challenge /\ r.scope = p.scope
    BY <2>2, <2>3, AuthorizationAssumption
       DEF IssueAuthorizationCode, AuthInv, AuthTypeOK, Pending, Code
  <2>5. \A l \in Codes : codes'[l] = IF l = k THEN r ELSE codes[l]
    BY <1>6, <2>1, <2>2 DEF AuthInv, AuthTypeOK
  <2>6. AuthTypeOK'
    <3>1. codes' \in [Codes -> Code \cup {None}]
      BY <1>6, <2>1, <2>2, <2>4 DEF AuthInv, AuthTypeOK
    <3>2. users' \subseteq Known
      BY <1>6 DEF AuthInv, AuthTypeOK
    <3>3. QED BY <1>1, <1>4, <3>1, <3>2 DEF AuthInv, AuthTypeOK, agentVars, helloVars
  <2>7. TxnInOnePlace'
    <3>1. transactions[p.txn] = None
      BY <2>1, <2>3 DEF AuthInv, TxnInOnePlace
    <3>2. \A l \in Codes : codes[l] # None => codes[l].txn # p.txn
      BY <2>1, <2>3 DEF AuthInv, TxnInOnePlace
    <3>3. \A d \in Callbacks : callbacks[d] # None /\ d # b => callbacks[d].txn # p.txn
      BY <2>1, <2>3 DEF AuthInv, TxnInOnePlace
    <3>4. QED BY <1>1, <1>3, <2>4, <2>5, <3>1, <3>2, <3>3 DEF AuthInv, TxnInOnePlace
  <2>8. LoginIsRegistered'
    <3>1. WasAsked(p)
      BY <2>1, <2>3 DEF AuthInv, LoginIsRegistered
    <3>2. QED BY <1>1, <1>3, <1>6, <2>4, <2>5, <3>1
           DEF AuthInv, LoginIsRegistered, WasAsked, IsGitHubUserAllowed
  <2>9. GrantsInStep'
    <3>1. \A g \in grants : g.code \in Codes /\ g.code # k
      BY <1>6 DEF AuthInv, AuthTypeOK, Grant, GrantsInStep, GrantMatchesCode
    <3>2. QED BY <1>1, <1>6, <2>5, <3>1 DEF AuthInv, GrantsInStep, GrantMatchesCode
  <2>10. QED BY <1>2, <2>6, <2>7, <2>8, <2>9 DEF AuthInv
<1>7. QED BY <1>5, <1>6 DEF CallbackEnds, CallbackFails, UpsertGitHubUser

LEMMA RedeemInv ==
    ASSUME AuthInv, NEW k \in Codes, NEW c \in Clients, NEW uri \in Uris, NEW v \in Verifiers,
           Redeem(k, c, uri, v)
    PROVE  AuthInv'
<1>1. AccessInv' /\ NonceInStep'
  BY AgentsUntouched DEF Redeem
<1>2. PICK r : r = codes[k]
  OBVIOUS
<1>3. /\ r # None /\ r.client = c /\ r.uri = uri /\ ~r.used /\ r.expiresAt >= now
      /\ r.user \in users
      /\ codes' = [codes EXCEPT ![k].used = TRUE]
      /\ v = r.challenge
      /\ UNCHANGED <<clients, transactions, asked, callbacks, users, requests, agentVars, helloVars, now>>
  BY <1>2 DEF Redeem, Redeemable
<1>4. r \in Code
  BY <1>2, <1>3 DEF AuthInv, AuthTypeOK
<1>5. PICK q : q = [r EXCEPT !.used = TRUE]
  OBVIOUS
<1>6. /\ q \in Code /\ q # None /\ q.used
      /\ q.client = r.client /\ q.uri = r.uri /\ q.txn = r.txn /\ q.user = r.user
      /\ q.scope = r.scope /\ q.expiresAt = r.expiresAt /\ q.challenge = r.challenge
  BY <1>4, <1>5, NoneAssumption DEF Code
<1>7. \A l \in Codes : codes'[l] = IF l = k THEN q ELSE codes[l]
  BY <1>2, <1>3, <1>5 DEF AuthInv, AuthTypeOK
<1>8. PICK n : n = [code |-> k, user |-> r.user, client |-> c, uri |-> uri,
                    verifier |-> v, scopes |-> ScopeList(r.scope), issuedAt |-> now, expiresAt |-> now + TokenTtl]
  OBVIOUS
<1>9. grants' = grants \cup {n}
  BY <1>2, <1>8 DEF Redeem
<1>10. /\ n.code = k /\ n.user = r.user /\ n.client = c /\ n.uri = uri /\ n.verifier = v
       /\ n.scopes = ScopeList(r.scope) /\ n.issuedAt = now
  BY <1>8
<1>11. AuthTypeOK'
  <2>1. codes' \in [Codes -> Code \cup {None}]
    BY <1>2, <1>3, <1>5, <1>6 DEF AuthInv, AuthTypeOK
  <2>2. ScopeList(r.scope) \subseteq RemoteScopes
    BY <1>4 DEF Code, ScopeList, DefaultScopes, RemoteScopes
  <2>3. n \in Grant
    BY <1>4, <1>8, <2>2, AuthorizationAssumption DEF AuthInv, AuthTypeOK, Grant, Code
  <2>4. QED BY <1>3, <1>9, <2>1, <2>3 DEF AuthInv, AuthTypeOK, agentVars, helloVars
<1>12. TxnInOnePlace'
  BY <1>2, <1>3, <1>6, <1>7 DEF AuthInv, TxnInOnePlace
<1>13. LoginIsRegistered'
  BY <1>2, <1>3, <1>6, <1>7 DEF AuthInv, LoginIsRegistered, WasAsked, IsGitHubUserAllowed
<1>14. GrantsInStep'
  <2>1. \A g \in grants : g.code \in Codes /\ g.code # k
    BY <1>2, <1>3 DEF AuthInv, AuthTypeOK, Grant, GrantsInStep, GrantMatchesCode
  <2>2. \A g \in grants : GrantMatchesCode(g)'
    BY <1>3, <1>7, <2>1 DEF AuthInv, GrantsInStep, GrantMatchesCode
  <2>3. now <= r.expiresAt /\ now <= now
    BY <1>3, <1>4 DEF Code, AuthInv, AuthTypeOK
  <2>4. GrantMatchesCode(n)'
    BY <1>3, <1>6, <1>7, <1>10, <2>3 DEF GrantMatchesCode
  <2>5. QED BY <1>9, <1>10, <2>1, <2>2, <2>4 DEF AuthInv, GrantsInStep
<1>15. QED BY <1>1, <1>11, <1>12, <1>13, <1>14 DEF AuthInv

-----------------------------------------------------------------------------
(* Hellos and the clock. *)

\* cleanupEphemeralState forgets a nonce only after its lifetime.
LEMMA CleanedInStep ==
    ASSUME AuthInv
    PROVE  /\ CleanedNonces \in [Nonces -> Nat \cup {None}]
           /\ \A n \in Nonces : greeted[n] # None =>
                 /\ greeted[n] \in Nat /\ greeted[n] <= now
                 /\ \/ CleanedNonces[n] = greeted[n] + NonceTtl
                    \/ CleanedNonces[n] = None /\ greeted[n] + NonceTtl <= now
<1>1. CleanedNonces \in [Nonces -> Nat \cup {None}]
  BY DEF AuthInv, AuthTypeOK, CleanedNonces
<1>2. ASSUME NEW n \in Nonces, greeted[n] # None
      PROVE  /\ greeted[n] \in Nat /\ greeted[n] <= now
             /\ \/ CleanedNonces[n] = greeted[n] + NonceTtl
                \/ CleanedNonces[n] = None /\ greeted[n] + NonceTtl <= now
  <2>1. greeted[n] \in Nat /\ greeted[n] <= now
    BY <1>2 DEF AuthInv, AuthTypeOK, NonceInStep
  <2>2. CleanedNonces[n] = IF helloNonces[n] # None /\ helloNonces[n] <= now
                           THEN None ELSE helloNonces[n]
    BY DEF CleanedNonces
  <2>3. \/ helloNonces[n] = greeted[n] + NonceTtl
        \/ helloNonces[n] = None /\ greeted[n] + NonceTtl <= now
    BY <1>2 DEF AuthInv, NonceInStep
  <2>4. QED BY <2>1, <2>2, <2>3
<1>3. QED BY <1>1, <1>2

LEMMA HelloInv ==
    ASSUME AuthInv, CleanupEphemeralState \/ \E n \in Nonces : Hello(n)
    PROVE  AuthInv'
<1>1. PICK gone : gone = {t \in Txns : transactions[t] # None /\ transactions[t].expiresAt <= now}
  OBVIOUS
<1>2. /\ gone \subseteq Txns
      /\ transactions' = [t \in Txns |-> IF t \in gone THEN None ELSE transactions[t]]
  BY <1>1 DEF CleanupEphemeralState, Hello, CleanedTransactions
<1>3. UNCHANGED <<clients, asked, callbacks, users, codes, grants, requests, agentVars, now>>
  BY DEF CleanupEphemeralState, Hello
<1>4. /\ TxnInOnePlace' /\ LoginIsRegistered' /\ GrantsInStep'
      /\ transactions' \in [Txns -> Pending \cup {None}]
  BY <1>1, <1>2, <1>3, TransactionsGo
<1>5. AccessInv'
  BY <1>3, AccessUntouched
<1>6. PICK cleaned : cleaned = CleanedNonces
  OBVIOUS
<1>7. /\ cleaned \in [Nonces -> Nat \cup {None}]
      /\ \A n \in Nonces : greeted[n] # None =>
            /\ greeted[n] \in Nat /\ greeted[n] <= now
            /\ \/ cleaned[n] = greeted[n] + NonceTtl
               \/ cleaned[n] = None /\ greeted[n] + NonceTtl <= now
  BY <1>6, CleanedInStep
<1>8. now \in Nat /\ greeted \in [Nonces -> Nat \cup {None}]
  BY DEF AuthInv, AuthTypeOK
<1>9. /\ NonceInStep'
      /\ helloNonces' \in [Nonces -> Nat \cup {None}] /\ greeted' \in [Nonces -> Nat \cup {None}]
  <2>1. CASE CleanupEphemeralState
    BY <1>3, <1>6, <1>7, <1>8, <2>1 DEF CleanupEphemeralState, NonceInStep
  <2>2. ASSUME NEW n \in Nonces, Hello(n)
        PROVE  /\ NonceInStep'
               /\ helloNonces' \in [Nonces -> Nat \cup {None}] /\ greeted' \in [Nonces -> Nat \cup {None}]
    <3>1. helloNonces' = [cleaned EXCEPT ![n] = now + NonceTtl] /\ greeted' = [greeted EXCEPT ![n] = now]
      BY <2>2, <1>6 DEF Hello
    <3>2. now + NonceTtl \in Nat
      BY <1>8, AuthorizationAssumption
    <3>3. \A m \in Nonces : /\ helloNonces'[m] = IF m = n THEN now + NonceTtl ELSE cleaned[m]
                            /\ greeted'[m] = IF m = n THEN now ELSE greeted[m]
      BY <1>7, <1>8, <3>1
    <3>4. helloNonces' \in [Nonces -> Nat \cup {None}] /\ greeted' \in [Nonces -> Nat \cup {None}]
      BY <1>7, <1>8, <3>1, <3>2
    <3>5. ASSUME NEW m \in Nonces, greeted'[m] # None
          PROVE  /\ greeted'[m] <= now
                 /\ \/ helloNonces'[m] = greeted'[m] + NonceTtl
                    \/ helloNonces'[m] = None /\ greeted'[m] + NonceTtl <= now
      <4>1. CASE m = n
        BY <1>8, <3>3, <4>1
      <4>2. CASE m # n
        BY <1>7, <3>3, <3>5, <4>2
      <4>3. QED BY <4>1, <4>2
    <3>6. NonceInStep'
      BY <1>3, <3>5 DEF NonceInStep
    <3>7. QED BY <3>4, <3>6
  <2>3. QED BY <2>1, <2>2
<1>10. AuthTypeOK'
  BY <1>3, <1>4, <1>9 DEF AuthInv, AuthTypeOK, agentVars
<1>11. QED BY <1>4, <1>5, <1>9, <1>10 DEF AuthInv

LEMMA AuthTickInv ==
    ASSUME AuthInv, AuthTick
    PROVE  AuthInv'
<1>1. /\ UNCHANGED <<clients, transactions, asked, callbacks, users, codes, grants>>
      /\ UNCHANGED <<requests, owned, stored, held, online, frames, helloNonces, greeted>>
      /\ now' = now + 1 /\ now \in Nat
  BY DEF AuthTick, oauthVars, agentVars, helloVars, AuthInv, AuthTypeOK
<1>2. AuthTypeOK'
  BY <1>1 DEF AuthInv, AuthTypeOK
<1>3. TxnInOnePlace' /\ LoginIsRegistered'
  BY <1>1 DEF AuthInv, TxnInOnePlace, LoginIsRegistered, WasAsked, IsGitHubUserAllowed
<1>4. GrantsInStep' /\ AccessInv'
  <2>1. \A g \in grants : g.issuedAt \in Nat
    BY DEF AuthInv, AuthTypeOK, Grant
  <2>2. GrantsInStep'
    BY <1>1, <2>1 DEF AuthInv, GrantsInStep, GrantMatchesCode
  <2>3. QED BY <1>1, <2>2, AccessUntouched DEF agentVars
<1>5. NonceInStep'
  <2> SUFFICES ASSUME NEW n \in Nonces, greeted[n] # None
               PROVE  /\ greeted[n] <= now + 1
                      /\ \/ helloNonces[n] = greeted[n] + NonceTtl
                         \/ helloNonces[n] = None /\ greeted[n] + NonceTtl <= now + 1
    BY <1>1 DEF NonceInStep
  <2>1. greeted[n] \in Nat
    BY DEF AuthInv, AuthTypeOK
  <2>2. /\ greeted[n] <= now
        /\ \/ helloNonces[n] = greeted[n] + NonceTtl
           \/ helloNonces[n] = None /\ greeted[n] + NonceTtl <= now
    BY DEF AuthInv, NonceInStep
  <2>3. QED BY <1>1, <2>1, <2>2, AuthorizationAssumption
<1>6. QED BY <1>2, <1>3, <1>4, <1>5 DEF AuthInv

-----------------------------------------------------------------------------
(* The rows of agents. *)

-----------------------------------------------------------------------------
(* Requests in flight and the agents. *)

\* The id or alias of a request names an agent of its user.
LEMMA ResolvedIsOwned ==
    ASSUME NEW u, NEW name, NEW a \in ResolveAgent(u, name)
    PROVE  a \in Agents /\ owned[a] # None /\ owned[a].owner = u /\ Named(u, name, a)
BY DEF ResolveAgent, ByAlias, Named

\* A name that means one agent is resolved to it alone.
LEMMA NamedIsResolved ==
    ASSUME AuthInv, NEW u \in Known, NEW name \in Names, NEW a \in Agents,
           owned[a] # None, owned[a].owner = u, Named(u, name, a)
    PROVE  ResolveAgent(u, name) = {a}
<1>1. CASE name = a
  BY <1>1 DEF ResolveAgent
<1>2. CASE name # a
  <2>1. owned[a].alias = name /\ (name \in Agents => owned[name] = None \/ owned[name].owner # u)
    BY <1>2 DEF Named
  <2>2. owned[a].alias \in Aliases
    BY DEF AuthInv, AuthTypeOK, Row
  <2>3. ResolveAgent(u, name) = ByAlias(u, name) /\ a \in ByAlias(u, name)
    BY <2>1 DEF ResolveAgent, ByAlias
  <2>4. \A b \in ByAlias(u, name) : b = a
    BY <2>1, <2>2, <2>3 DEF AuthInv, AccessInv, AliasIsKey
  <2>5. QED BY <2>3, <2>4
<1>3. QED BY <1>1, <1>2

\* The types of the tables and maps of requests and agents.
AccessTypeOK ==
    /\ requests \in [Requests -> Reading \cup Patching \cup {None}]
    /\ owned \in [Agents -> Row \cup {None}]
    /\ stored \in [Agents -> SUBSET Copy]
    /\ held \in [Agents -> Copy \cup {None}]
    /\ online \subseteq Agents
    /\ frames \in [Agents -> Seq(PolicyUpdate \cup ActionRequest)]

\* A step that touches neither logins nor hellos.
LEMMA AccessStep ==
    ASSUME AuthInv, UNCHANGED <<oauthVars, helloVars, now>>, AccessTypeOK', AccessInv'
    PROVE  AuthInv'
<1>1. UNCHANGED <<clients, transactions, asked, callbacks, users, codes, grants, helloNonces, greeted, now>>
  BY DEF oauthVars, helloVars
<1>2. AuthTypeOK'
  BY <1>1 DEF AuthInv, AuthTypeOK, AccessTypeOK
<1>3. TxnInOnePlace' /\ LoginIsRegistered'
  BY <1>1 DEF AuthInv, TxnInOnePlace, LoginIsRegistered, WasAsked, IsGitHubUserAllowed
<1>4. GrantsInStep' /\ NonceInStep'
  BY <1>1 DEF AuthInv, GrantsInStep, GrantMatchesCode, NonceInStep
<1>5. QED BY <1>2, <1>3, <1>4 DEF AuthInv

\* Rows keep their owner and alias, a new one has an id that is no alias, and what a row
\* holds was stored.
RowsGrow ==
    /\ grants' = grants
    /\ \A a \in Agents : /\ stored[a] \subseteq stored'[a]
                         /\ owned'[a] # None => owned'[a].copy \in stored'[a]
                         /\ owned[a] # None => /\ owned'[a] # None
                                               /\ owned'[a].owner = owned[a].owner
                                               /\ owned'[a].alias = owned[a].alias
                         /\ owned[a] = None /\ owned'[a] # None =>
                               \A b \in Agents : owned[b] # None => owned[b].alias # a

\* A step that leaves the rows alone.
LEMMA RowsStay ==
    ASSUME AuthInv, UNCHANGED <<owned, stored, grants>>
    PROVE  RowsGrow /\ AliasIsKey'
BY DEF AuthInv, AccessInv, AgentsInStep, AgentInStep, RowsGrow, AliasIsKey, ByAlias

\* What was sent stays what it was,
LEMMA SentStays ==
    ASSUME RowsGrow, NEW a \in Agents, owned[a] # None
    PROVE  Sent(a) \subseteq Sent(a)'
BY DEF RowsGrow, Sent

\* and so does a request.
LEMMA RequestStays ==
    ASSUME AuthInv, RowsGrow, NEW r \in Reading \cup Patching, RequestInStep(r)
    PROVE  RequestInStep(r)'
<1>1. grants' = grants
  BY DEF RowsGrow
<1>2. CASE r.stage # "patch"
  BY <1>1, <1>2 DEF RequestInStep
<1>3. CASE r.stage = "patch"
  <2>1. r.agent \in Agents /\ r.name \in Names
    BY <1>3 DEF Reading, Patching
  <2>2. PICK a \in Agents : a = r.agent
    BY <2>1
  <2>3. /\ owned[a] # None /\ owned[a].owner = r.token.user /\ r.row.owner = r.token.user
        /\ r.row.alias = owned[a].alias /\ r.row.copy \in stored[a]
        /\ Named(r.token.user, r.name, a)
    BY <1>3, <2>2 DEF RequestInStep
  <2>4. /\ owned'[a] # None /\ owned'[a].owner = owned[a].owner /\ owned'[a].alias = owned[a].alias
        /\ stored[a] \subseteq stored'[a]
    BY <2>3 DEF RowsGrow
  <2>5. Named(r.token.user, r.name, a)'
    <3>1. CASE r.name = a
      BY <3>1 DEF Named
    <3>2. CASE r.name # a
      <4>1. owned[a].alias = r.name
        BY <2>3, <3>2 DEF Named
      <4>2. ASSUME r.name \in Agents
            PROVE  owned'[r.name] = None \/ owned'[r.name].owner # r.token.user
        <5>1. owned[r.name] = None \/ owned[r.name].owner # r.token.user
          BY <2>3, <3>2, <4>2 DEF Named
        <5>2. CASE owned[r.name] = None
          BY <2>3, <4>1, <4>2, <5>2 DEF RowsGrow
        <5>3. CASE owned[r.name] # None
          BY <4>2, <5>1, <5>3 DEF RowsGrow
        <5>4. QED BY <5>2, <5>3
      <4>3. QED BY <2>4, <4>1, <4>2 DEF Named
    <3>3. QED BY <3>1, <3>2
  <2>6. QED BY <1>1, <2>2, <2>3, <2>4, <2>5 DEF RequestInStep
<1>4. QED BY <1>2, <1>3

\* An agent's side of the invariant when its socket gets at most one frame more.
LEMMA AgentStays ==
    ASSUME AuthInv, RowsGrow, NEW a \in Agents,
           held'[a] = held[a], a \in online' => a \in online,
           \/ frames'[a] = frames[a]
           \/ \E f \in Sent(a)' : a \in online /\ frames'[a] = Append(frames[a], f)
    PROVE  AgentInStep(a)'
<1>1. AgentInStep(a)
  BY DEF AuthInv, AccessInv, AgentsInStep
<1>2. owned'[a] # None => owned'[a].copy \in stored'[a]
  BY DEF RowsGrow
<1>3. held'[a] # None => owned'[a] # None /\ held'[a] \in stored'[a]
  BY <1>1 DEF AgentInStep, RowsGrow
<1>4. a \in online' \/ frames'[a] # <<>> => held'[a] # None
  BY <1>1 DEF AgentInStep
<1>5. frames'[a] \in Seq(Sent(a)')
  <2>1. CASE held[a] = None
    <3>1. frames[a] = <<>> /\ a \notin online
      BY <1>1, <2>1 DEF AgentInStep
    <3>2. frames'[a] = <<>>
      BY <3>1
    <3>3. <<>> \in Seq(Sent(a)')
      OBVIOUS
    <3>4. QED BY <3>2, <3>3
  <2>2. CASE held[a] # None
    <3>1. Sent(a) \subseteq Sent(a)'
      BY <1>1, <2>2, SentStays DEF AgentInStep
    <3>2. frames[a] \in Seq(Sent(a))
      BY <1>1 DEF AgentInStep
    <3>3. frames[a] \in Seq(Sent(a)')
      BY <3>1, <3>2
    <3>4. QED BY <3>3
  <2>3. QED BY <2>1, <2>2
<1>6. QED BY <1>2, <1>3, <1>4, <1>5 DEF AgentInStep

\* A step that writes a row of table agents.
RowStep ==
    \/ \E q \in Requests, a \in Agents, alias \in Aliases, profile \in Profiles :
          CreateAgent(q, a, alias, profile)
    \/ \E q \in Requests, name \in Names : RevokeOwned(q, name)
    \/ \E q \in Requests, name \in Names, patch \in PolicyPatches : UpdateOwned(q, name, patch)
    \/ \E q \in Requests, patch \in PolicyPatches : PatchApplies(q, patch)

\* It ends a request for administration and writes one row, of the request's user, and
\* neither the owner nor the alias of a row that is there.
RowWritten(q, a, r) ==
    /\ requests[q] # None /\ Has(requests[q].token, "agents.admin")
    /\ requests' = [requests EXCEPT ![q] = None]
    /\ WriteRow(a, r)
    /\ r.owner = requests[q].token.user
    /\ \/ owned[a] = None /\ NewId(a) /\ ByAlias(r.owner, r.alias) = {}
       \/ owned[a] # None /\ owned[a].owner = r.owner /\ owned[a].alias = r.alias
    /\ held' = held /\ online' \subseteq online
    /\ \/ frames' = frames
       \/ \E f \in PolicyUpdate :
             /\ f.copy = r.copy /\ a \in online
             /\ frames' = [frames EXCEPT ![a] = Append(@, f)]

\* What a request in flight is.
LEMMA InFlight ==
    ASSUME AuthInv, NEW q \in Requests, requests[q] # None
    PROVE  /\ requests[q] \in Reading \cup Patching /\ RequestInStep(requests[q])
           /\ requests[q].token \in grants /\ requests[q].token.user \in Known
<1>1. requests[q] \in Reading \cup Patching /\ RequestInStep(requests[q])
  BY DEF AuthInv, AuthTypeOK, AccessInv, RequestsInStep
<1>2. requests[q].token \in grants
  BY <1>1 DEF RequestInStep
<1>3. requests[q].token \in Grant
  BY <1>2 DEF AuthInv, AuthTypeOK
<1>4. requests[q].token.user \in Known
  BY <1>3 DEF Grant
<1>5. QED BY <1>1, <1>2, <1>4

\* updateAgentPolicy keeps the owner and the alias of the row it was called with.
LEMMA UpdateWrites ==
    ASSUME NEW a \in Agents, NEW row \in Row, NEW patch \in PolicyPatches,
           UpdateAgentPolicy(a, row, patch)
    PROVE  \E r \in Row :
              /\ r.owner = row.owner /\ r.alias = row.alias /\ WriteRow(a, r)
              /\ \/ frames' = frames
                 \/ \E f \in PolicyUpdate :
                       /\ f.copy = r.copy /\ a \in online
                       /\ frames' = [frames EXCEPT ![a] = Append(@, f)]
<1>1. PICK copy : copy = [policy |-> UpdatedPolicy(patch), version |-> row.copy.version + 1]
  OBVIOUS
<1>2. PICK policy \in Policies : policy = UpdatedPolicy(patch)
  BY DEF Policies
<1>3. row.copy \in Copy
  BY DEF Row
<1>4. row.copy.version + 1 \in Nat
  BY <1>3 DEF Copy
<1>5. copy \in Copy
  BY ONLY <1>1, <1>2, <1>4 DEF Copy
<1>6. PICK r : r = [row EXCEPT !.copy = copy]
  OBVIOUS
<1>7. r \in Row /\ r.owner = row.owner /\ r.alias = row.alias /\ r.copy = copy
  BY ONLY <1>5, <1>6, row \in Row DEF Row
<1>8. WriteRow(a, r) /\ SendIfOnline(a, [type |-> "policy.update", copy |-> copy])
  BY <1>1, <1>6 DEF UpdateAgentPolicy
<1>9. PICK f : f = [type |-> "policy.update", copy |-> copy]
  OBVIOUS
<1>10. f \in PolicyUpdate /\ f.copy = copy
  BY <1>5, <1>9 DEF PolicyUpdate
<1>11. frames' = frames \/ (a \in online /\ frames' = [frames EXCEPT ![a] = Append(@, f)])
  BY <1>8, <1>9 DEF SendIfOnline
<1>12. QED BY <1>7, <1>8, <1>10, <1>11

LEMMA RowStepWrites ==
    ASSUME AuthInv, RowStep
    PROVE  /\ UNCHANGED <<oauthVars, helloVars, now>>
           /\ \E q \in Requests, a \in Agents, r \in Row : RowWritten(q, a, r)
<1>1. UNCHANGED <<oauthVars, helloVars, now>>
  BY DEF RowStep, CreateAgent, RevokeOwned, UpdateOwned, PatchApplies
<1>2. ASSUME NEW q \in Requests, NEW a \in Agents, NEW alias \in Aliases, NEW profile \in Profiles,
             CreateAgent(q, a, alias, profile)
      PROVE  \E r \in Row : RowWritten(q, a, r)
  <2>1. PICK u \in Known : u = requests[q].token.user
    BY <1>2, InFlight DEF CreateAgent, Answers
  <2>2. PICK prof : prof = IF profile \in {"operations", "full-admin"} THEN profile ELSE "read-only"
    OBVIOUS
  <2>3. PICK policy \in Policies : policy = CreateAgentPolicy(prof)
    BY <2>2 DEF Policies
  <2>4. PICK r : r = [owner |-> u, alias |-> alias, revoked |-> FALSE,
                      copy |-> [policy |-> policy, version |-> 1]]
    OBVIOUS
  <2>5. r \in Row /\ r.owner = u /\ r.alias = alias
    BY ONLY <2>4, u \in Known, alias \in Aliases, policy \in Policies DEF Row, Copy
  <2>6. WriteRow(a, r) /\ NewId(a) /\ ByAlias(u, alias) = {}
    BY <1>2, <2>1, <2>2, <2>3, <2>4 DEF CreateAgent, AliasFree
  <2>7. QED BY <1>2, <2>1, <2>5, <2>6 DEF CreateAgent, Answers, RowWritten, NewId
<1>3. ASSUME NEW q \in Requests, NEW name \in Names, RevokeOwned(q, name)
      PROVE  \E a \in Agents, r \in Row : RowWritten(q, a, r)
  <2>1. PICK a \in ResolveAgent(requests[q].token.user, name) :
             WriteRow(a, [owned[a] EXCEPT !.revoked = TRUE]) /\ online' = online \ {a}
    BY <1>3 DEF RevokeOwned
  <2>2. a \in Agents /\ owned[a] # None /\ owned[a].owner = requests[q].token.user
    BY <2>1, ResolvedIsOwned
  <2>3. owned[a] \in Row
    BY <2>2 DEF AuthInv, AuthTypeOK
  <2>4. PICK r : r = [owned[a] EXCEPT !.revoked = TRUE]
    OBVIOUS
  <2>5. r \in Row /\ r.owner = owned[a].owner /\ r.alias = owned[a].alias
    BY <2>3, <2>4 DEF Row
  <2>6. WriteRow(a, r)
    BY <2>1, <2>4
  <2>7. QED BY <1>3, <2>1, <2>2, <2>5, <2>6 DEF RevokeOwned, Answers, RowWritten
<1>4. ASSUME NEW q \in Requests, NEW name \in Names, NEW patch \in PolicyPatches, UpdateOwned(q, name, patch)
      PROVE  \E a \in Agents, r \in Row : RowWritten(q, a, r)
  <2>1. PICK a \in ResolveAgent(requests[q].token.user, name) : UpdateAgentPolicy(a, owned[a], patch)
    BY <1>4 DEF UpdateOwned
  <2>2. a \in Agents /\ owned[a] # None /\ owned[a].owner = requests[q].token.user
    BY <2>1, ResolvedIsOwned
  <2>3. PICK row \in Row : row = owned[a]
    BY <2>2 DEF AuthInv, AuthTypeOK
  <2>4. PICK r \in Row :
             /\ r.owner = row.owner /\ r.alias = row.alias /\ WriteRow(a, r)
             /\ \/ frames' = frames
                \/ \E f \in PolicyUpdate :
                      /\ f.copy = r.copy /\ a \in online
                      /\ frames' = [frames EXCEPT ![a] = Append(@, f)]
    BY <2>1, <2>2, <2>3, UpdateWrites
  <2>5. QED BY <1>4, <2>2, <2>3, <2>4 DEF UpdateOwned, Answers, RowWritten
<1>5. ASSUME NEW q \in Requests, NEW patch \in PolicyPatches, PatchApplies(q, patch)
      PROVE  \E a \in Agents, r \in Row : RowWritten(q, a, r)
  <2>1. /\ requests[q] # None /\ requests[q].stage = "patch"
        /\ UpdateAgentPolicy(requests[q].agent, requests[q].row, patch)
    BY <1>5 DEF PatchApplies, Answers
  <2>2. requests[q] \in Patching /\ RequestInStep(requests[q])
    BY <2>1, InFlight DEF Reading
  <2>3. PICK a \in Agents, row \in Row : a = requests[q].agent /\ row = requests[q].row
    BY <2>2 DEF Patching
  <2>4. /\ owned[a] # None /\ owned[a].owner = row.owner /\ owned[a].alias = row.alias
        /\ row.owner = requests[q].token.user
    BY <2>1, <2>2, <2>3 DEF RequestInStep
  <2>5. PICK r \in Row :
             /\ r.owner = row.owner /\ r.alias = row.alias /\ WriteRow(a, r)
             /\ \/ frames' = frames
                \/ \E f \in PolicyUpdate :
                      /\ f.copy = r.copy /\ a \in online
                      /\ frames' = [frames EXCEPT ![a] = Append(@, f)]
    BY <2>1, <2>3, UpdateWrites
  <2>6. QED BY <1>5, <2>4, <2>5 DEF PatchApplies, Answers, RowWritten
<1>6. \E q \in Requests, a \in Agents, r \in Row : RowWritten(q, a, r)
  BY <1>2, <1>3, <1>4, <1>5 DEF RowStep
<1>7. QED BY <1>1, <1>6

LEMMA RowStepInv ==
    ASSUME AuthInv, RowStep
    PROVE  AuthInv'
<1>1. UNCHANGED <<oauthVars, helloVars, now>> /\ grants' = grants
  BY RowStepWrites DEF oauthVars
<1>2. PICK q \in Requests, a \in Agents, r \in Row : RowWritten(q, a, r)
  BY RowStepWrites
<1>3. AccessTypeOK /\ grants \subseteq Grant /\ r.copy \in Copy
  BY DEF AuthInv, AuthTypeOK, AccessTypeOK, Row
<1>4. /\ \A b \in Agents : owned'[b] = IF b = a THEN r ELSE owned[b]
      /\ \A b \in Agents : stored'[b] = IF b = a THEN stored[a] \cup {r.copy} ELSE stored[b]
  BY <1>2, <1>3 DEF RowWritten, WriteRow, AccessTypeOK
<1>5. r # None
  BY NoneAssumption
<1>6. \/ owned[a] = None /\ NewId(a) /\ ByAlias(r.owner, r.alias) = {}
      \/ owned[a] # None /\ owned[a].owner = r.owner /\ owned[a].alias = r.alias
  BY <1>2 DEF RowWritten
<1>7. RowsGrow
  <2>1. \A b \in Agents : owned[b] # None => owned[b].copy \in stored[b]
    BY DEF AuthInv, AccessInv, AgentsInStep, AgentInStep
  <2>2. QED BY <1>1, <1>4, <1>5, <1>6, <2>1 DEF RowsGrow, NewId
<1>8. AccessTypeOK'
  <2>1. owned' \in [Agents -> Row \cup {None}] /\ stored' \in [Agents -> SUBSET Copy]
    BY <1>2, <1>3 DEF RowWritten, WriteRow, AccessTypeOK
  <2>2. frames' \in [Agents -> Seq(PolicyUpdate \cup ActionRequest)]
    <3>1. CASE frames' = frames
      BY <1>3, <3>1 DEF AccessTypeOK
    <3>2. CASE frames' # frames
      <4>1. PICK f \in PolicyUpdate : frames' = [frames EXCEPT ![a] = Append(@, f)]
        BY <1>2, <3>2 DEF RowWritten
      <4>2. f \in PolicyUpdate \cup ActionRequest
        OBVIOUS
      <4>3. QED BY ONLY <1>3, <4>1, <4>2, a \in Agents DEF AccessTypeOK
    <3>3. QED BY <3>1, <3>2
  <2>3. QED BY <1>2, <1>3, <2>1, <2>2 DEF RowWritten, AccessTypeOK
<1>9. AliasIsKey'
  <2>1. AliasIsKey
    BY DEF AuthInv, AccessInv
  <2>2. \A b \in Agents : b # a /\ owned[b] # None => owned[b].owner # r.owner \/ owned[b].alias # r.alias
    <3>1. CASE owned[a] = None
      BY <1>6, <3>1 DEF ByAlias
    <3>2. CASE owned[a] # None
      <4>1. r.owner \in Known /\ r.alias \in Aliases
        BY DEF Row
      <4>2. QED BY <1>6, <2>1, <3>2, <4>1 DEF AliasIsKey, ByAlias
    <3>3. QED BY <3>1, <3>2
  <2>3. QED BY <1>4, <2>1, <2>2 DEF AliasIsKey, ByAlias
<1>10. RequestsInStep'
  <2> SUFFICES ASSUME NEW p \in Requests, requests'[p] # None
               PROVE  RequestInStep(requests[p])'
    BY DEF RequestsInStep
  <2>1. requests'[p] = requests[p] /\ requests[p] # None
    BY <1>2, <1>3 DEF RowWritten, AccessTypeOK
  <2>2. PICK x \in Reading \cup Patching : x = requests[p] /\ RequestInStep(x)
    BY <2>1, InFlight
  <2>3. RequestInStep(x)'
    BY <1>7, <2>2, RequestStays
  <2>4. QED BY <2>1, <2>2, <2>3 DEF RequestInStep, Named
<1>11. AgentsInStep'
  <2> SUFFICES ASSUME NEW b \in Agents PROVE AgentInStep(b)'
    BY DEF AgentsInStep
  <2>1. held'[b] = held[b] /\ (b \in online' => b \in online)
    BY <1>2 DEF RowWritten
  <2>2. CASE frames'[b] = frames[b]
    BY <1>7, <2>1, <2>2, AgentStays
  <2>3. CASE frames'[b] # frames[b]
    <3>1. PICK f \in PolicyUpdate :
               f.copy = r.copy /\ a \in online /\ frames' = [frames EXCEPT ![a] = Append(@, f)]
      BY <1>2, <2>3 DEF RowWritten
    <3>2. b = a /\ frames'[b] = Append(frames[b], f)
      BY <1>3, <2>3, <3>1 DEF AccessTypeOK
    <3>3. f \in Sent(b)'
      BY <1>4, <3>1, <3>2 DEF Sent, PolicyUpdate
    <3>4. QED BY <1>7, <2>1, <3>1, <3>2, <3>3, AgentStays
  <2>4. QED BY <2>2, <2>3
<1>12. QED BY <1>1, <1>8, <1>9, <1>10, <1>11, AccessStep DEF AccessInv

\* A step of a request or an agent that leaves the rows alone.
OtherStep ==
    \/ \E q \in Requests, g \in grants : Authenticate(q, g)
    \/ \E q \in Requests, g \in grants, name \in Names : PatchArrives(q, g, name)
    \/ \E q \in Requests, name \in Names, tool \in HostTools : CallRemoteTool(q, name, tool)
    \/ \E q \in Requests : EndRequest(q)
    \/ \E a \in Agents : Enroll(a) \/ Connect(a) \/ ConnectionLost(a) \/ AgentReads(a)

\* A request starts as it should, or ends, and the others wait.
LEMMA RequestsMove ==
    ASSUME AuthInv, UNCHANGED <<owned, stored, grants>>,
           \/ requests' = requests
           \/ \E q \in Requests : requests' = [requests EXCEPT ![q] = None]
           \/ \E q \in Requests, r \in Reading \cup Patching :
                 RequestInStep(r) /\ requests' = [requests EXCEPT ![q] = r]
    PROVE  RequestsInStep' /\ requests' \in [Requests -> Reading \cup Patching \cup {None}]
<1>1. requests \in [Requests -> Reading \cup Patching \cup {None}] /\ RowsGrow
  BY RowsStay DEF AuthInv, AuthTypeOK
<1>2. /\ requests' \in [Requests -> Reading \cup Patching \cup {None}]
      /\ \A p \in Requests : requests'[p] # None =>
            requests'[p] = requests[p] \/ \E r \in Reading \cup Patching : RequestInStep(r) /\ requests'[p] = r
  BY <1>1
<1>3. ASSUME NEW p \in Requests, requests'[p] # None
      PROVE  RequestInStep(requests[p])'
  <2>1. PICK x \in Reading \cup Patching : x = requests'[p] /\ RequestInStep(x)
    <3>1. CASE requests'[p] = requests[p]
      BY <1>3, <3>1, InFlight
    <3>2. CASE requests'[p] # requests[p]
      BY <1>2, <1>3, <3>2
    <3>3. QED BY <3>1, <3>2
  <2>2. RequestInStep(x)'
    BY <1>1, <2>1, RequestStays
  <2>3. QED BY <2>1, <2>2 DEF RequestInStep, Named
<1>4. QED BY <1>2, <1>3 DEF RequestsInStep

\* Requests that come and go.
LEMMA RequestStepInv ==
    ASSUME AuthInv,
           \/ \E q \in Requests, g \in grants : Authenticate(q, g)
           \/ \E q \in Requests, g \in grants, name \in Names : PatchArrives(q, g, name)
           \/ \E q \in Requests : EndRequest(q)
    PROVE  AuthInv'
<1>1. UNCHANGED <<oauthVars, owned, stored, held, online, frames, helloVars, now>> /\ grants' = grants
  BY DEF Authenticate, PatchArrives, EndRequest, agentVars, oauthVars
<1>2. now \in Nat /\ \A g \in grants : g \in Grant
  BY DEF AuthInv, AuthTypeOK
<1>3. ASSUME NEW g \in grants, Live(g)
      PROVE  g \in Grant /\ now \in g.issuedAt..(g.expiresAt - 1)
  <2>1. g \in Grant /\ g.issuedAt \in Nat /\ g.expiresAt \in Nat
    BY <1>2 DEF Grant
  <2>2. g.issuedAt <= now
    BY DEF AuthInv, GrantsInStep, GrantMatchesCode
  <2>3. QED BY <1>2, <1>3, <2>1, <2>2 DEF Live
<1>4. ASSUME NEW q \in Requests, NEW g \in grants, Authenticate(q, g)
      PROVE  \E r \in Reading : RequestInStep(r) /\ requests' = [requests EXCEPT ![q] = r]
  <2>1. PICK r : r = [stage |-> "body", token |-> g, since |-> now]
    OBVIOUS
  <2>2. g \in Grant /\ now \in g.issuedAt..(g.expiresAt - 1)
    BY <1>3, <1>4 DEF Authenticate
  <2>3. r \in Reading
    BY <1>2, <2>1, <2>2 DEF Reading
  <2>4. r.stage = "body" /\ r.token = g /\ r.since = now
    BY <2>1
  <2>5. RequestInStep(r)
    BY <2>2, <2>4 DEF RequestInStep
  <2>6. QED BY <1>4, <2>1, <2>3, <2>5 DEF Authenticate
<1>5. ASSUME NEW q \in Requests, NEW g \in grants, NEW name \in Names, PatchArrives(q, g, name)
      PROVE  \E r \in Patching : RequestInStep(r) /\ requests' = [requests EXCEPT ![q] = r]
  <2>1. PICK a \in ResolveAgent(g.user, name) :
             requests' = [requests EXCEPT ![q] =
                [stage |-> "patch", token |-> g, since |-> now, name |-> name,
                 agent |-> a, row |-> owned[a]]]
    BY <1>5 DEF PatchArrives
  <2>2. a \in Agents /\ owned[a] # None /\ owned[a].owner = g.user /\ Named(g.user, name, a)
    BY <2>1, ResolvedIsOwned
  <2>3. PICK row \in Row : row = owned[a]
    BY <2>2 DEF AuthInv, AuthTypeOK
  <2>4. row.copy \in stored[a]
    BY <2>2, <2>3 DEF AuthInv, AccessInv, AgentsInStep, AgentInStep
  <2>5. PICK r : r = [stage |-> "patch", token |-> g, since |-> now, name |-> name,
                      agent |-> a, row |-> row]
    OBVIOUS
  <2>6. g \in Grant /\ now \in g.issuedAt..(g.expiresAt - 1)
    BY <1>3, <1>5 DEF PatchArrives
  <2>7. r \in Patching
    BY <1>2, <2>2, <2>5, <2>6 DEF Patching
  <2>8. r.token = g /\ r.since = now /\ r.name = name /\ r.agent = a /\ r.row = row
    BY <2>5
  <2>9. RequestInStep(r)
    BY <2>2, <2>3, <2>4, <2>6, <2>8 DEF RequestInStep
  <2>10. QED BY <2>1, <2>3, <2>5, <2>7, <2>9
<1>6. /\ RequestsInStep' /\ requests' \in [Requests -> Reading \cup Patching \cup {None}]
  <2>1. \/ \E q \in Requests : requests' = [requests EXCEPT ![q] = None]
        \/ \E q \in Requests, r \in Reading \cup Patching :
              RequestInStep(r) /\ requests' = [requests EXCEPT ![q] = r]
    BY <1>4, <1>5 DEF EndRequest
  <2>2. QED BY <1>1, <2>1, RequestsMove
<1>7. AccessTypeOK'
  BY <1>1, <1>6 DEF AuthInv, AuthTypeOK, AccessTypeOK
<1>8. RowsGrow /\ AliasIsKey'
  BY <1>1, RowsStay
<1>9. ASSUME NEW a \in Agents PROVE AgentInStep(a)'
  BY <1>1, <1>8, AgentStays
<1>10. QED BY <1>1, <1>6, <1>7, <1>8, <1>9, AccessStep DEF AccessInv, AgentsInStep

\* A call that is sent.
LEMMA CallRemoteToolInv ==
    ASSUME AuthInv, NEW q \in Requests, NEW name \in Names, NEW tool \in HostTools,
           CallRemoteTool(q, name, tool)
    PROVE  AuthInv'
<1>1. /\ UNCHANGED <<oauthVars, owned, stored, held, online, helloVars, now>> /\ grants' = grants
      /\ requests[q] # None /\ requests' = [requests EXCEPT ![q] = None]
      /\ Has(requests[q].token, CapabilityOf(tool))
  BY DEF CallRemoteTool, Answers, oauthVars
<1>2. PICK u \in Known, g \in grants : g = requests[q].token /\ u = g.user
  BY <1>1, InFlight
<1>3. PICK a \in ResolveAgent(u, name) \cap online :
           /\ owned[a].copy.policy.capabilities[CapabilityOf(tool)]
           /\ SendIfOnline(a, [type |-> "action.request", user |-> u,
                               tool |-> tool, version |-> owned[a].copy.version])
  BY <1>2 DEF CallRemoteTool
<1>4. a \in Agents /\ owned[a] # None /\ owned[a].owner = u /\ a \in online
  BY <1>3, ResolvedIsOwned
<1>5. PICK c : c = owned[a].copy
  OBVIOUS
<1>6. c \in Copy /\ c \in stored[a]
  BY <1>4, <1>5 DEF AuthInv, AuthTypeOK, AccessInv, AgentsInStep, AgentInStep, Row
<1>7. PICK f : f = [type |-> "action.request", user |-> u, tool |-> tool, version |-> c.version]
  OBVIOUS
<1>8. f \in ActionRequest /\ f.type = "action.request" /\ f.user = u /\ f.tool = tool /\ f.version = c.version
  BY <1>6, <1>7 DEF ActionRequest, Copy
<1>9. \E s \in RemoteScopes : s \in g.scopes /\ CapabilityOf(tool) \in ScopeCapabilities(s)
  <2>1. g.scopes \subseteq RemoteScopes
    BY DEF AuthInv, AuthTypeOK, Grant
  <2>2. QED BY <1>1, <1>2, <2>1 DEF Has, CapabilitiesFromScopes
<1>10. f \in Sent(a)
  BY <1>2, <1>3, <1>4, <1>5, <1>6, <1>8, <1>9 DEF Sent
<1>11. frames' = [frames EXCEPT ![a] = Append(@, f)]
  BY <1>3, <1>4, <1>5, <1>7 DEF SendIfOnline
<1>12. RequestsInStep' /\ requests' \in [Requests -> Reading \cup Patching \cup {None}]
  BY <1>1, RequestsMove
<1>13. RowsGrow /\ AliasIsKey'
  BY <1>1, RowsStay
<1>14. frames \in [Agents -> Seq(PolicyUpdate \cup ActionRequest)]
  BY DEF AuthInv, AuthTypeOK
<1>15. AccessTypeOK'
  <2>1. frames' \in [Agents -> Seq(PolicyUpdate \cup ActionRequest)]
    BY ONLY <1>4, <1>8, <1>11, <1>14
  <2>2. QED BY <1>1, <1>12, <2>1 DEF AuthInv, AuthTypeOK, AccessTypeOK
<1>16. ASSUME NEW b \in Agents PROVE AgentInStep(b)'
  <2>1. f \in Sent(a)'
    BY <1>4, <1>10, <1>13, SentStays
  <2>2. frames'[b] = IF b = a THEN Append(frames[a], f) ELSE frames[b]
    BY ONLY <1>11, <1>14, b \in Agents
  <2>3. CASE b = a
    <3>1. \E e \in Sent(b)' : b \in online /\ frames'[b] = Append(frames[b], e)
      BY <1>4, <2>1, <2>2, <2>3
    <3>2. QED BY <1>1, <1>13, <3>1, AgentStays
  <2>4. CASE b # a
    BY <1>1, <1>13, <2>2, <2>4, AgentStays
  <2>5. QED BY <2>3, <2>4
<1>17. QED BY <1>1, <1>12, <1>13, <1>15, <1>16, AccessStep DEF AccessInv, AgentsInStep

\* What the agents do.
LEMMA AgentRunInv ==
    ASSUME AuthInv, NEW a \in Agents, Enroll(a) \/ Connect(a) \/ ConnectionLost(a) \/ AgentReads(a)
    PROVE  AuthInv'
<1>1. UNCHANGED <<oauthVars, requests, owned, stored, helloVars, now>> /\ grants' = grants
  BY DEF Enroll, Connect, ConnectionLost, AgentReads, oauthVars
<1>2. /\ requests \in [Requests -> Reading \cup Patching \cup {None}]
      /\ owned \in [Agents -> Row \cup {None}] /\ stored \in [Agents -> SUBSET Copy]
      /\ held \in [Agents -> Copy \cup {None}] /\ online \subseteq Agents
      /\ frames \in [Agents -> Seq(PolicyUpdate \cup ActionRequest)]
      /\ AgentsInStep
  BY DEF AuthInv, AuthTypeOK, AccessInv
<1>3. AgentInStep(a) /\ \A b \in Agents : Sent(b)' = Sent(b)
  BY <1>1, <1>2 DEF AgentsInStep, Sent
<1>4. RequestsInStep'
  BY <1>1, RequestsMove
<1>5. RowsGrow /\ AliasIsKey'
  BY <1>1, RowsStay
<1>6. /\ \A b \in Agents : b # a => /\ held'[b] = held[b] /\ frames'[b] = frames[b]
                                    /\ b \in online' => b \in online
      /\ held' \in [Agents -> Copy \cup {None}] /\ online' \subseteq Agents
      /\ frames' \in [Agents -> Seq(PolicyUpdate \cup ActionRequest)]
      /\ AgentInStep(a)'
  <2>1. CASE Enroll(a)
    <3>1. /\ owned[a] # None /\ held[a] = None /\ UNCHANGED <<online, frames>>
          /\ held' = [held EXCEPT ![a] = owned[a].copy]
      BY <2>1 DEF Enroll
    <3>2. owned[a].copy \in Copy /\ owned[a].copy \in stored[a]
      BY <1>2, <1>3, <3>1 DEF Row, AgentInStep
    <3>3. /\ held' \in [Agents -> Copy \cup {None}] /\ held'[a] = owned[a].copy /\ held'[a] # None
          /\ \A b \in Agents : b # a => held'[b] = held[b]
      BY <1>2, <3>1, <3>2, NoneAssumption
    <3>4. AgentInStep(a)'
      BY <1>1, <1>3, <3>1, <3>2, <3>3 DEF AgentInStep
    <3>5. QED BY <1>2, <3>1, <3>3, <3>4
  <2>2. CASE Connect(a)
    <3>1. /\ held[a] # None /\ held' = held /\ online' = online \cup {a}
          /\ frames' = [frames EXCEPT ![a] = <<>>]
      BY <2>2 DEF Connect
    <3>2. <<>> \in Seq(PolicyUpdate \cup ActionRequest) /\ <<>> \in Seq(Sent(a))
      OBVIOUS
    <3>3. /\ frames' \in [Agents -> Seq(PolicyUpdate \cup ActionRequest)] /\ frames'[a] = <<>>
          /\ \A b \in Agents : b # a => frames'[b] = frames[b]
      BY <1>2, <3>1, <3>2
    <3>4. AgentInStep(a)'
      BY <1>1, <1>3, <3>1, <3>2, <3>3 DEF AgentInStep
    <3>5. QED BY <1>2, <3>1, <3>3, <3>4
  <2>3. CASE ConnectionLost(a)
    <3>1. UNCHANGED <<held, frames>> /\ online' = online \ {a}
      BY <2>3 DEF ConnectionLost
    <3>2. AgentInStep(a)'
      BY <1>1, <1>3, <3>1 DEF AgentInStep
    <3>3. QED BY <1>2, <3>1, <3>2
  <2>4. CASE AgentReads(a)
    <3>1. /\ frames[a] # <<>> /\ online' = online /\ frames' = [frames EXCEPT ![a] = Tail(@)]
          /\ \/ held' = held
             \/ /\ Head(frames[a]).type = "policy.update"
                /\ held' = [held EXCEPT ![a] = Head(frames[a]).copy]
      BY <2>4 DEF AgentReads
    <3>2. /\ frames[a] \in Seq(Sent(a)) /\ held[a] # None /\ owned[a] # None /\ held[a] \in stored[a]
          /\ owned[a].copy \in stored[a]
      BY <1>3, <3>1 DEF AgentInStep
    <3>3. Head(frames[a]) \in Sent(a) /\ Tail(frames[a]) \in Seq(Sent(a))
      BY <3>1, <3>2
    <3>4. Tail(frames[a]) \in Seq(PolicyUpdate \cup ActionRequest)
      BY <1>2, <3>1
    <3>5. Head(frames[a]).type = "policy.update" =>
             Head(frames[a]).copy \in stored[a] /\ Head(frames[a]).copy \in Copy
      BY <1>2, <3>3 DEF Sent
    <3>6. /\ held' \in [Agents -> Copy \cup {None}] /\ held'[a] # None /\ held'[a] \in stored[a]
          /\ \A b \in Agents : b # a => held'[b] = held[b]
      BY <1>2, <3>1, <3>2, <3>5, NoneAssumption
    <3>7. /\ frames' \in [Agents -> Seq(PolicyUpdate \cup ActionRequest)] /\ frames'[a] = Tail(frames[a])
          /\ \A b \in Agents : b # a => frames'[b] = frames[b]
      BY ONLY <1>2, <3>1, <3>4, a \in Agents
    <3>8. AgentInStep(a)'
      BY <1>1, <1>3, <3>2, <3>3, <3>6, <3>7 DEF AgentInStep
    <3>9. QED BY <1>2, <3>1, <3>6, <3>7, <3>8
  <2>5. QED BY <2>1, <2>2, <2>3, <2>4
<1>7. AccessTypeOK'
  BY <1>1, <1>2, <1>6 DEF AccessTypeOK
<1>8. ASSUME NEW b \in Agents PROVE AgentInStep(b)'
  <2>1. CASE b = a
    BY <1>6, <2>1
  <2>2. CASE b # a
    BY <1>5, <1>6, <2>2, AgentStays
  <2>3. QED BY <2>1, <2>2
<1>9. QED BY <1>1, <1>4, <1>5, <1>7, <1>8, AccessStep DEF AccessInv, AgentsInStep

-----------------------------------------------------------------------------
(* Every step, and the theorems. *)

\* A step that changes nothing.
LEMMA AuthStutterInv ==
    ASSUME AuthInv, UNCHANGED authVars
    PROVE  AuthInv'
<1>1. /\ UNCHANGED <<clients, transactions, asked, callbacks, users, codes, grants>>
      /\ UNCHANGED <<requests, owned, stored, held, online, frames, helloNonces, greeted, now>>
  BY DEF authVars, oauthVars, agentVars, helloVars
<1>2. AuthTypeOK' /\ TxnInOnePlace' /\ LoginIsRegistered'
  BY <1>1 DEF AuthInv, AuthTypeOK, TxnInOnePlace, LoginIsRegistered, WasAsked, IsGitHubUserAllowed
<1>3. GrantsInStep' /\ NonceInStep'
  BY <1>1 DEF AuthInv, GrantsInStep, GrantMatchesCode, NonceInStep
<1>4. AccessInv'
  BY <1>1, AccessUntouched DEF agentVars
<1>5. QED BY <1>2, <1>3, <1>4 DEF AuthInv

LEMMA AuthStepInv == AuthInv /\ [AuthNext]_authVars => AuthInv'
<1> SUFFICES ASSUME AuthInv, [AuthNext]_authVars PROVE AuthInv'
  OBVIOUS
<1>1. CASE RowStep \/ OtherStep
  BY <1>1, RowStepInv, RequestStepInv, CallRemoteToolInv, AgentRunInv DEF OtherStep
<1>2. QED BY <1>1, RegisterInv, AuthorizeInv, CallbackArrivesInv, CallbackEndsInv, RedeemInv, HelloInv,
             AuthTickInv, AuthStutterInv DEF AuthNext, RowStep, OtherStep

\* The tables and maps of the authorization server stay in step: each login is in one
\* place, each token matches the code it was issued for, aliases are unique per user, requests
\* in flight and agents hold rows and policies that were stored, and a nonce is remembered for
\* its lifetime.
THEOREM AuthorizationInvariant == AuthSpec => []AuthInv
BY AuthInitInv, AuthStepInv, PTL DEF AuthSpec

\* The tables and maps keep their types.
THEOREM AuthTypeCorrect == AuthSpec => []AuthTypeOK
<1>1. AuthInv => AuthTypeOK
  BY DEF AuthInv
<1>2. QED BY <1>1, AuthorizationInvariant, PTL

\* One visit to /oauth/authorize yields at most one code and a code one token, however many
\* callbacks carry the state and however often the code is presented.
THEOREM LoginsAreSpentOnce == AuthSpec => []LoginIsSpentOnce
<1>1. ASSUME AuthInv PROVE LoginIsSpentOnce
  <2>1. ASSUME NEW t \in Txns
        PROVE  Cardinality({k \in Codes : codes[k] # None /\ codes[k].txn = t})
               + Cardinality({b \in Callbacks : callbacks[b] # None /\ callbacks[b].txn = t})
               + (IF transactions[t] # None THEN 1 ELSE 0) <= 1
    <3>1. PICK K : K = {k \in Codes : codes[k] # None /\ codes[k].txn = t}
      OBVIOUS
    <3>2. PICK B : B = {b \in Callbacks : callbacks[b] # None /\ callbacks[b].txn = t}
      OBVIOUS
    <3>3. \A x, y \in K : x = y
      BY <1>1, <3>1 DEF AuthInv, TxnInOnePlace
    <3>4. \A x, y \in B : x = y
      BY <1>1, <3>2 DEF AuthInv, TxnInOnePlace
    <3>5. K = {} \/ B = {}
      BY <1>1, <3>1, <3>2 DEF AuthInv, TxnInOnePlace
    <3>6. transactions[t] # None => K = {} /\ B = {}
      BY <1>1, <3>1, <3>2 DEF AuthInv, TxnInOnePlace
    <3>7. Cardinality(K) \in {0, 1} /\ (K = {} => Cardinality(K) = 0)
      BY <3>3, AtMostOne
    <3>8. Cardinality(B) \in {0, 1} /\ (B = {} => Cardinality(B) = 0)
      BY <3>4, AtMostOne
    <3>9. Cardinality(K) + Cardinality(B) + (IF transactions[t] # None THEN 1 ELSE 0) <= 1
      BY <3>5, <3>6, <3>7, <3>8
    <3>10. QED BY <3>1, <3>2, <3>9
  <2>2. \A g, h \in grants : (g.code = h.code => g = h) /\ g.issuedAt <= codes[g.code].expiresAt
    BY <1>1 DEF AuthInv, GrantsInStep, GrantMatchesCode
  <2>3. QED BY <2>1, <2>2 DEF LoginIsSpentOnce
<1>2. QED BY <1>1, AuthorizationInvariant, PTL

\* A token goes to the client, the URI and the holder of the verifier its login was started
\* with, names a user who is allowed in, and opens no tool beyond the scopes that were asked
\* for, for any number of clients, verifiers and overlapping logins (handleToken).
THEOREM GrantsAreWhatWasAsked == AuthSpec => []GrantIsWhatWasAsked
<1>1. ASSUME AuthInv PROVE GrantIsWhatWasAsked
  <2> SUFFICES ASSUME NEW g \in grants
               PROVE  LET a == asked[codes[g.code].txn]
                          scopes == IF a.scope = {} THEN DefaultScopes ELSE a.scope
                      IN /\ g.client = a.client /\ g.uri = a.uri /\ g.verifier = a.challenge
                         /\ a.uri \in clients[a.client]
                         /\ g.user \in users /\ (AllowAll \/ g.user \in Logins)
                         /\ ListedTools(CapabilitiesFromScopes(g.scopes)) \subseteq
                            {tool \in RemoteTools :
                                \E s \in scopes : CapabilityOf(tool) \in ScopeCapabilities(s)}
    BY DEF GrantIsWhatWasAsked
  <2>1. PICK k : k = codes[g.code]
    OBVIOUS
  <2>2. /\ k # None /\ g.client = k.client /\ g.uri = k.uri /\ g.verifier = k.challenge
        /\ g.user = k.user /\ g.user \in users /\ g.scopes = ScopeList(k.scope)
    BY <1>1, <2>1 DEF AuthInv, GrantsInStep, GrantMatchesCode
  <2>3. g.code \in Codes
    BY <1>1 DEF AuthInv, AuthTypeOK, Grant
  <2>4. k.txn \in Txns /\ WasAsked(k) /\ (AllowAll \/ g.user \in Logins)
    BY <1>1, <2>1, <2>2, <2>3 DEF AuthInv, AuthTypeOK, Code, LoginIsRegistered, IsGitHubUserAllowed
  <2>5. PICK a : a = asked[k.txn]
    OBVIOUS
  <2>6. /\ k.client = a.client /\ k.uri = a.uri /\ k.challenge = a.challenge /\ k.scope = a.scope
        /\ a.uri \in clients[a.client]
    BY <1>1, <2>4, <2>5 DEF AuthInv, LoginIsRegistered, WasAsked
  <2>7. g.scopes = IF a.scope = {} THEN DefaultScopes ELSE a.scope
    BY <2>2, <2>6 DEF ScopeList
  <2>8. ListedTools(CapabilitiesFromScopes(g.scopes)) \subseteq
        {tool \in RemoteTools : \E s \in g.scopes : CapabilityOf(tool) \in ScopeCapabilities(s)}
    BY ListedAreNamed
  <2>9. QED BY <2>1, <2>2, <2>4, <2>5, <2>6, <2>7, <2>8
<1>2. QED BY <1>1, AuthorizationInvariant, PTL

\* A user's alias never stands for two agents.
THEOREM AliasesAreUnambiguous == AuthSpec => []AliasIsKey
<1>1. AuthInv => AliasIsKey
  BY DEF AuthInv, AccessInv
<1>2. QED BY <1>1, AuthorizationInvariant, PTL

\* The address of a PATCH that waits for its body stands for the agent it will write and for
\* no other, whatever other requests create, revoke and update in between.
THEOREM PatchesWriteTheirAgent == AuthSpec => []PatchWritesItsAgent
<1>1. ASSUME AuthInv PROVE PatchWritesItsAgent
  <2> SUFFICES ASSUME NEW q \in Requests, requests[q] # None, requests[q].stage = "patch"
               PROVE  ResolveAgent(requests[q].token.user, requests[q].name) = {requests[q].agent}
    BY DEF PatchWritesItsAgent
  <2>1. /\ requests[q] \in Patching /\ RequestInStep(requests[q]) /\ requests[q].token.user \in Known
    BY <1>1, InFlight DEF Reading
  <2>2. PICK u \in Known, name \in Names, a \in Agents :
             u = requests[q].token.user /\ name = requests[q].name /\ a = requests[q].agent
    BY <2>1 DEF Patching
  <2>3. owned[a] # None /\ owned[a].owner = u /\ Named(u, name, a)
    BY <2>1, <2>2 DEF RequestInStep
  <2>4. ResolveAgent(u, name) = {a}
    BY <1>1, <2>3, NamedIsResolved
  <2>5. QED BY <2>2, <2>4
<1>2. QED BY <1>1, AuthorizationInvariant, PTL

\* An agent's row is only written by a request that presented, while it lived, a token of the
\* agent's owner with agents:admin, for any number of requests in flight and any delay of
\* their bodies.
THEOREM OwnersWrite == AuthSpec => OnlyTheOwnerWrites
<1> DEFINE Written == \A a \in Agents : owned'[a] # owned[a] =>
                         \E q \in Requests :
                             /\ requests[q] # None /\ requests'[q] = None
                             /\ LET g == requests[q].token
                                IN /\ g \in grants /\ "agents:admin" \in g.scopes
                                   /\ requests[q].since \in g.issuedAt..(g.expiresAt - 1)
                                   /\ g.user = owned'[a].owner
                                   /\ owned[a] # None => owned[a].owner = g.user
<1>1. ASSUME AuthInv, [AuthNext]_authVars PROVE [Written]_authVars
  <2>1. CASE owned' = owned
    BY <2>1
  <2>2. CASE RowStep
    <3>1. PICK q \in Requests, a \in Agents, r \in Row : RowWritten(q, a, r)
      BY <1>1, <2>2, RowStepWrites
    <3>2. /\ requests[q] # None /\ Has(requests[q].token, "agents.admin")
          /\ requests' = [requests EXCEPT ![q] = None] /\ owned' = [owned EXCEPT ![a] = r]
          /\ r.owner = requests[q].token.user
          /\ owned[a] # None => owned[a].owner = r.owner
      BY <3>1 DEF RowWritten, WriteRow
    <3>3. PICK g \in grants : g = requests[q].token /\ requests[q].since \in g.issuedAt..(g.expiresAt - 1)
      BY <1>1, <3>2, InFlight DEF RequestInStep
    <3>4. "agents:admin" \in g.scopes
      BY <3>2, <3>3, AdminScope
    <3>5. /\ \A b \in Agents : owned'[b] = IF b = a THEN r ELSE owned[b]
          /\ requests'[q] = None
      BY <1>1, <3>2 DEF AuthInv, AuthTypeOK
    <3>6. QED BY <3>2, <3>3, <3>4, <3>5
  <2>3. QED BY <1>1, <2>1, <2>2
         DEF AuthNext, RowStep, Register, Authorize, CallbackArrives, CallbackEnds, CallbackFails,
             Redeem, CleanupEphemeralState, Authenticate, PatchArrives, CallRemoteTool, EndRequest,
             Enroll, Connect, ConnectionLost, AgentReads, Hello, AuthTick, authVars, agentVars
<1>2. AuthSpec => [][Written]_authVars
  <2> HIDE DEF Written
  <2>1. QED BY <1>1, AuthorizationInvariant, PTL DEF AuthSpec
<1>3. QED BY <1>2 DEF OnlyTheOwnerWrites

\* A hello that is delivered again is refused for a whole nonce lifetime.
THEOREM HellosOncePerLifetime == AuthSpec => HelloOncePerLifetime
<1> DEFINE Later == \A n \in Nonces :
                       greeted[n] # None /\ greeted'[n] # greeted[n]
                           => greeted'[n] >= greeted[n] + NonceTtl
<1>1. ASSUME AuthInv, [AuthNext]_authVars PROVE [Later]_authVars
  <2>1. CASE greeted' = greeted
    BY <2>1
  <2>2. ASSUME NEW m \in Nonces, Hello(m) PROVE Later
    <3> SUFFICES ASSUME NEW n \in Nonces, greeted[n] # None, greeted'[n] # greeted[n]
                 PROVE  greeted'[n] >= greeted[n] + NonceTtl
      OBVIOUS
    <3>1. greeted' = [greeted EXCEPT ![m] = now] /\ CleanedNonces[m] = None
      BY <2>2 DEF Hello
    <3>2. n = m /\ greeted'[n] = now
      BY <1>1, <3>1 DEF AuthInv, AuthTypeOK
    <3>3. /\ greeted[n] \in Nat
          /\ \/ CleanedNonces[n] = greeted[n] + NonceTtl
             \/ CleanedNonces[n] = None /\ greeted[n] + NonceTtl <= now
      BY <1>1, CleanedInStep
    <3>4. greeted[n] + NonceTtl \in Int /\ None \notin Int /\ now \in Nat
      BY <1>1, <3>3, NoneAssumption, AuthorizationAssumption DEF AuthInv, AuthTypeOK
    <3>5. greeted[n] + NonceTtl <= now
      BY <3>1, <3>2, <3>3, <3>4
    <3>6. QED BY <3>2, <3>4, <3>5
  <2>3. QED BY <1>1, <2>1, <2>2
         DEF AuthNext, Register, Authorize, CallbackArrives, CallbackEnds, CallbackFails,
             Redeem, CleanupEphemeralState, AuthTick, Authenticate, PatchArrives, CreateAgent,
             RevokeOwned, UpdateOwned, PatchApplies, CallRemoteTool, EndRequest, Enroll, Connect,
             ConnectionLost, AgentReads, authVars, helloVars
<1>2. AuthSpec => [][Later]_authVars
  <2> HIDE DEF Later
  <2>1. QED BY <1>1, AuthorizationInvariant, PTL DEF AuthSpec
<1>3. QED BY <1>2 DEF HelloOncePerLifetime

-----------------------------------------------------------------------------
(* Paths and policies. *)

\* The texts of segments; the provers do not know that those of createAgentPolicy are texts.
Segments == STRING \cup {"", "tmp", "var", "etc", "boot", "dev", "proc", "sys"}

LEMMA SegmentsAreTexts == Seq(STRING) \subseteq Seq(Segments)
<1>1. STRING \subseteq Segments
  BY Zenon DEF Segments
<1>2. \A S, T : S \subseteq T => Seq(S) \subseteq Seq(T)
  OBVIOUS
<1>3. QED BY <1>1, <1>2, Zenon

\* Every policy a row can hold names its prefixes by their segments.
LEMMA PolicyPaths ==
    ASSUME NEW policy \in Policies
    PROVE  policy.allowPaths \subseteq Seq(Segments) /\ policy.denyPaths \subseteq Seq(Segments)
<1> DEFINE Fields == {"allowPaths", "denyPaths"}
<1>1. ASSUME NEW p
      PROVE  \A k \in Fields : k \in DOMAIN CreateAgentPolicy(p) /\ CreateAgentPolicy(p)[k] \subseteq Seq(Segments)
  <2>1. PICK e \in Segments : e = ""
    BY Zenon DEF Segments
  <2>2. /\ "allowPaths" \in DOMAIN CreateAgentPolicy(p)
        /\ CreateAgentPolicy(p).allowPaths = ScratchPaths
    BY DEF CreateAgentPolicy
  <2>3. /\ "denyPaths" \in DOMAIN CreateAgentPolicy(p)
        /\ CreateAgentPolicy(p).denyPaths = SystemPaths
    BY DEF CreateAgentPolicy
  <2>4. {"tmp", "var", "etc", "boot", "dev", "proc", "sys"} \subseteq Segments
    BY DEF Segments
  <2>5. <<e, "tmp">> \in Seq(Segments) /\ <<e, "var", "tmp">> \in Seq(Segments)
    BY ONLY <2>4, e \in Segments
  <2>6. /\ <<e, e>> \in Seq(Segments) /\ <<e, "etc">> \in Seq(Segments) /\ <<e, "boot">> \in Seq(Segments)
        /\ <<e, "dev">> \in Seq(Segments) /\ <<e, "proc">> \in Seq(Segments) /\ <<e, "sys">> \in Seq(Segments)
    BY ONLY <2>4, e \in Segments
  <2>7. ScratchPaths = {<<e, "tmp">>, <<e, "var", "tmp">>}
    BY <2>1, Zenon DEF ScratchPaths
  <2>8. SystemPaths = {<<e, e>>, <<e, "etc">>, <<e, "boot">>, <<e, "dev">>, <<e, "proc">>, <<e, "sys">>}
    BY <2>1, Zenon DEF SystemPaths
  <2>9. QED BY <2>2, <2>3, <2>5, <2>6, <2>7, <2>8
<1>2. ASSUME NEW patch \in PolicyPatches
      PROVE  \A k \in Fields : UpdatedPolicy(patch)[k] \subseteq Seq(Segments)
  <2>1. PICK given : given = Spread(patch, [profile |-> "custom", capabilities |-> <<>>])
    OBVIOUS
  <2>2. PICK base : base = CreateAgentPolicy(given.profile)
    OBVIOUS
  <2>3. \A k \in Fields : k \in DOMAIN base /\ base[k] \subseteq Seq(Segments)
    BY <1>1, <2>2
  <2>4. \A k \in Fields : k \in DOMAIN given => given[k] \subseteq Seq(Segments)
    BY <2>1, PathsAssumption, SegmentsAreTexts DEF Spread
  <2>5. PICK merged : merged = Spread(given, base)
    OBVIOUS
  <2>6. \A k \in Fields : k \in DOMAIN merged /\ merged[k] \subseteq Seq(Segments)
    BY <2>3, <2>4, <2>5 DEF Spread
  <2>7. PICK v : MergeCustomPolicy(patch) = [merged EXCEPT !.capabilities = v]
    BY <2>1, <2>2, <2>5 DEF MergeCustomPolicy
  <2>8. PICK m : m = MergeCustomPolicy(patch)
    OBVIOUS
  <2>9. \A k \in Fields : k \in DOMAIN m /\ m[k] = merged[k]
    BY ONLY <2>6, <2>7, <2>8
  <2>10. PICK t, o : UpdatedPolicy(patch) = [m EXCEPT !.maxActionTimeoutSeconds = t, !.maxOutputBytes = o]
    BY ONLY <2>8 DEF UpdatedPolicy
  <2>11. \A k \in Fields : UpdatedPolicy(patch)[k] = m[k]
    BY ONLY <2>9, <2>10
  <2>12. QED BY <2>6, <2>9, <2>11
<1>3. \A k \in Fields : policy[k] \subseteq Seq(Segments)
  BY <1>1, <1>2 DEF Policies
<1>4. QED BY <1>3

\* So the agent compares the place itself with its prefixes: a prefix covers a path from the
\* root if the place it leads to is within the prefix.
LEMMA CoversIsWithin ==
    ASSUME NEW place \in Seq(Segments), NEW prefix \in Seq(Segments)
    PROVE  Covers(prefix, [from |-> "/", names |-> place]) <=> Within(place, prefix)
<1>1. PICK p \in Seq(Segments) : p = Slashed(prefix, Pieces)
  BY PathsAssumption, SegmentsAreTexts, SlashedIsPath
<1>2. NormalizePolicyPath(prefix) = PosixNormalize(p)
  BY <1>1 DEF NormalizePolicyPath
<1>3. CASE IsAbsolute(p)
  <2>1. PICK d \in Seq(Segments) : d = Follow(p) /\ PosixNormalize(p) = [from |-> "/", names |-> d]
    BY <1>3, NormalizeFollows
  <2>2. Covers(prefix, [from |-> "/", names |-> place]) <=> d = place \/ (d # <<>> /\ Under(place, d))
    BY <1>2, <2>1 DEF Covers
  <2>3. Within(place, prefix) <=> place = d \/ (d # <<>> /\ Under(place, d))
    BY <1>1, <1>3, <2>1 DEF Within
  <2>4. QED BY <2>2, <2>3
<1>4. CASE ~IsAbsolute(p)
  <2>1. PosixNormalize(p).from = "."
    BY <1>4 DEF PosixNormalize
  <2>2. ~Covers(prefix, [from |-> "/", names |-> place])
    BY <1>2, <2>1 DEF Covers
  <2>3. ~Within(place, prefix)
    BY <1>1, <1>4 DEF Within
  <2>4. QED BY <2>2, <2>3
<1>5. QED BY <1>3, <1>4

\* The gate of the executor keeps absolute paths without a backslash within the policy.
LEMMA GateKeepsPaths ==
    ASSUME NEW policy \in Policies, NEW tool, NEW target \in Targets,
           ExecuteAllowed(policy, tool, target), tool \in FileTools, target.kind = "path",
           IsAbsolute(target.path), SlashesOnly(target.path, Pieces)
    PROVE  /\ \E p \in policy.allowPaths : Within(Follow(target.path), p)
           /\ \A p \in policy.denyPaths : ~Within(Follow(target.path), p)
<1>1. PICK path \in Seq(Segments) : path = target.path
  BY PathsAssumption, SegmentsAreTexts
<1>2. Slashed(path, Pieces) = path
  BY <1>1, PathsAssumption, SegmentsAreTexts, SlashedIsPath
<1>3. PICK place \in Seq(Segments) : place = Follow(path) /\ PosixNormalize(path) = [from |-> "/", names |-> place]
  BY <1>1, NormalizeFollows
<1>4. NormalizePolicyPath(path) = [from |-> "/", names |-> place]
  BY <1>2, <1>3 DEF NormalizePolicyPath
<1>5. IsPathAllowed(policy, path)
  BY <1>1 DEF ExecuteAllowed
<1>6. /\ \A d \in policy.denyPaths : ~Covers(d, [from |-> "/", names |-> place])
      /\ \E p \in policy.allowPaths : Covers(p, [from |-> "/", names |-> place])
  BY <1>4, <1>5 DEF IsPathAllowed
<1>7. policy.allowPaths \subseteq Seq(Segments) /\ policy.denyPaths \subseteq Seq(Segments)
  BY PolicyPaths
<1>8. /\ \A d \in policy.denyPaths : ~Within(place, d)
      /\ \E p \in policy.allowPaths : Within(place, p)
  BY <1>6, <1>7, CoversIsWithin
<1>9. QED BY <1>1, <1>3, <1>8

\* An action an agent takes off its socket and runs is its owner's, under a token that names
\* the tool, by a policy the owner gave the agent, and an absolute path without a backslash
\* ends where that policy leads, for any path, prefixes, patches, stale PATCHes, reconnects
\* and order of requests.
THEOREM ActionsStayInsideTheirPolicy == AuthSpec => []ActionsStayInside
<1>1. ASSUME AuthInv PROVE ActionsStayInside
  <2> SUFFICES ASSUME NEW a \in Agents, frames[a] # <<>>, Head(frames[a]).type = "action.request",
                      NEW target \in Targets,
                      ExecuteAllowed(held[a].policy, Head(frames[a]).tool, target)
               PROVE  LET f == Head(frames[a])
                          policy == held[a].policy
                      IN /\ owned[a].owner = f.user
                         /\ \E g \in grants, s \in RemoteScopes :
                               g.user = f.user /\ s \in g.scopes /\ CapabilityOf(f.tool) \in ScopeCapabilities(s)
                         /\ \E c \in stored[a] :
                               c.version = f.version /\ c.policy.capabilities[CapabilityOf(f.tool)]
                         /\ held[a] \in stored[a]
                         /\ (/\ f.tool \in FileTools /\ target.kind = "path"
                             /\ IsAbsolute(target.path) /\ SlashesOnly(target.path, Pieces)) =>
                               /\ \E p \in policy.allowPaths : Within(Follow(target.path), p)
                               /\ \A p \in policy.denyPaths : ~Within(Follow(target.path), p)
    BY DEF ActionsStayInside
  <2>1. AgentInStep(a)
    BY <1>1 DEF AuthInv, AccessInv, AgentsInStep
  <2>2. frames[a] \in Seq(Sent(a)) /\ held[a] # None /\ held[a] \in stored[a]
    BY <2>1 DEF AgentInStep
  <2>3. PICK f \in Sent(a) : f = Head(frames[a])
    BY <2>2
  <2>4. /\ owned[a].owner = f.user
        /\ \E g \in grants, s \in RemoteScopes :
              g.user = f.user /\ s \in g.scopes /\ CapabilityOf(f.tool) \in ScopeCapabilities(s)
        /\ \E c \in stored[a] : c.version = f.version /\ c.policy.capabilities[CapabilityOf(f.tool)]
    BY <2>3 DEF Sent
  <2>5. held[a] \in Copy
    BY <1>1, <2>2 DEF AuthInv, AuthTypeOK
  <2>6. PICK policy \in Policies : policy = held[a].policy
    BY <2>5 DEF Copy
  <2>7. (/\ f.tool \in FileTools /\ target.kind = "path"
         /\ IsAbsolute(target.path) /\ SlashesOnly(target.path, Pieces)) =>
            /\ \E p \in policy.allowPaths : Within(Follow(target.path), p)
            /\ \A p \in policy.denyPaths : ~Within(Follow(target.path), p)
    BY <2>3, <2>6, GateKeepsPaths
  <2>8. QED BY <2>2, <2>3, <2>4, <2>6, <2>7
<1>2. QED BY <1>1, AuthorizationInvariant, PTL

=============================================================================
