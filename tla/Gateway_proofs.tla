--------------------------- MODULE Gateway_proofs ---------------------------
(***************************************************************************)
(* Proofs about the way of a tool call to a host, for any environments,    *)
(* requests, credential answers, ssh configs, known_hosts files, calls in  *)
(* flight and cache lifetime.                                              *)
(***************************************************************************)
EXTENDS Gateway, JsMap_proofs

-----------------------------------------------------------------------------
(* How a step changes the table of calls. *)

\* Every call has a record.
CallTable == call = [c \in Calls |-> call[c]]

\* A step that goes on with call c as n leaves the other calls alone.
LEMMA ContinueOne ==
    ASSUME CallTable, NEW c \in Calls, NEW n, Continue(c, n)
    PROVE  CallTable' /\ call'[c] = n /\ \A d \in Calls \ {c} : call'[d] = call[d]
BY DEF CallTable, Continue

\* The params of a call in openSession: the host-key rule is settled.
Settled(p) ==
    [p EXCEPT !.hostKeyPolicy =
        ResolveHostKeyPolicy(p.hostKeyPolicy, p.strictHostKeyChecking, config.hostKeyPolicy)]

LEMMA SessionRecord ==
    ASSUME NEW r, NEW p
    PROVE  InSession(r, p) = [stage |-> OpenSession(p), request |-> r, start |-> Unset,
                              looked |-> Unset, params |-> Settled(p), key |-> Unset,
                              listed |-> {}]
<1>1. InSession(r, p) = [In(OpenSession(p), r) EXCEPT !.params = Settled(p)]
  BY DEF InSession, Settled
<1>2. QED BY <1>1 DEF In

-----------------------------------------------------------------------------
(* Who is served. *)

InSessionStages == {"auth", "connecting", "open"}

\* A session opened from connector credentials is for the alias of the request, which
\* the policy let through, and under a host-key rule nobody can switch off.
Vetted(n) ==
    /\ n.params.policyHost = n.request.alias
    /\ config.policy.allowedHosts # {} =>
          MatchesPolicyValue(n.params.policyHost, config.policy.allowedHosts)
    /\ n.params.hostKeyPolicy \in {"strict", "accept-new", config.hostKeyPolicy}

\* What holds of a call n in flight from its admission to its answer.
Admitted(n) ==
    n.stage # "idle" =>
        /\ config # Unset
        /\ n.request \in Requests
        /\ Authorized(config, n.request)
        /\ IsToolAllowedForProfile(n.request.tool, config.connector.toolProfile)
        /\ n.stage = "reading" => n.request.tool # "ssh_open_session"
        /\ n.stage = "credentials" => n.request.tool # "ssh_open_session"
        /\ n.stage \in InSessionStages =>
              IF n.request.tool = "ssh_open_session" THEN n.params.policyMode = "enforce" ELSE Vetted(n)

\* The configuration is one that an environment and its policy file give.
Loaded == \E env \in Environments : PolicyFileLoads(env) /\ config = LoadConfig(env)

AccessInv ==
    /\ CallTable
    /\ config # Unset => ValidateHttpStartupConfig(config) /\ Loaded
    /\ \A c \in Calls : Admitted(call[c])

\* openSession with connector credentials goes on only for an alias the policy allows.
LEMMA CredentialsAreVetted ==
    ASSUME NEW r \in Requests, NEW resolved, NEW a,
           a.hostKeyPolicy \in {"strict", "accept-new"}
    PROVE  LET n == WithCredentials(r, resolved, a)
           IN /\ n.request = r
              /\ n.stage \in {"failed", "done", "auth"}
              /\ n.stage = "auth" => Vetted(n)
<1> DEFINE p == CredentialParams(r, resolved, a)
           n == WithCredentials(r, resolved, a)
<1>1. /\ p.policyHost = r.alias /\ p.policyMode = "enforce" /\ r.alias # Unset
      /\ p.hostKeyPolicy = a.hostKeyPolicy /\ p.strictHostKeyChecking = Unset
  BY GatewayAssumption DEF CredentialParams
<1>2. OpenSession(p) \in {"failed", "done", "auth"}
  BY DEF OpenSession
<1>3. CASE p.username = Unset
  <2>1. n = In("failed", r)
    BY <1>3 DEF WithCredentials
  <2>2. QED BY <2>1 DEF In
<1>4. CASE p.username # Unset
  <2>1. n = InSession(r, p)
    BY <1>4 DEF WithCredentials
  <2>2. n.request = r /\ n.stage = OpenSession(p)
    BY <2>1, SessionRecord
  <2>3. ASSUME OpenSession(p) = "auth" PROVE Vetted(n)
    <3>1. AssertAllowed(config.policy, OpenContext(p))
      BY <2>3 DEF OpenSession
    <3>2. OpenContext(p).mode = "enforce" /\ OpenContext(p).host = r.alias
      BY <1>1 DEF OpenContext, NoContext, Either
    <3>3. ~HostDenied(config.policy, OpenContext(p))
      BY <3>1, <3>2, GatewayAssumption DEF AssertAllowed, Evaluate, Either
    <3>4. config.policy.allowedHosts # {} => MatchesPolicyValue(r.alias, config.policy.allowedHosts)
      BY <3>2, <3>3, <1>1 DEF HostDenied
    <3>5. n.params = Settled(p)
      BY <2>1, SessionRecord
    <3>6. n.params.policyHost = r.alias
      BY <3>5 DEF CredentialParams, Settled
    <3>7. n.params.hostKeyPolicy
            = ResolveHostKeyPolicy(p.hostKeyPolicy, p.strictHostKeyChecking, config.hostKeyPolicy)
      BY <3>5 DEF CredentialParams, Settled
    <3>8. ResolveHostKeyPolicy(p.hostKeyPolicy, p.strictHostKeyChecking, config.hostKeyPolicy)
            \in {"strict", "accept-new", config.hostKeyPolicy}
      BY <1>1 DEF ResolveHostKeyPolicy
    <3>9. QED BY <2>2, <3>4, <3>6, <3>7, <3>8 DEF Vetted
  <2>4. QED BY <2>2, <2>3, <1>2
<1>5. QED BY <1>3, <1>4

\* The shape of that call.
LEMMA CredentialRecord ==
    ASSUME NEW r, NEW resolved, NEW a
    PROVE  \E st, ps : WithCredentials(r, resolved, a)
                = [stage |-> st, request |-> r, start |-> Unset, looked |-> Unset,
                   params |-> ps, key |-> Unset, listed |-> {}]
<1> DEFINE p == CredentialParams(r, resolved, a)
<1>1. CASE p.username = Unset
  <2>1. WithCredentials(r, resolved, a) = In("failed", r)
    BY <1>1 DEF WithCredentials
  <2>2. QED BY <2>1 DEF In
<1>2. CASE p.username # Unset
  <2>1. WithCredentials(r, resolved, a) = InSession(r, p)
    BY <1>2 DEF WithCredentials
  <2>2. QED BY <2>1, SessionRecord
<1>3. QED BY <1>1, <1>2

\* What a lookup has found.
Finding(r, start) == [resolved |-> Resolved(r), from |-> start, overtaken |-> Overtaken]

\* Call c for request r goes on as n once it has got its parser.
Got(c, r, start, n) ==
    /\ Continue(c, n)
    /\ n.request = r
    /\ n.stage \in {"done", "failed", "auth", "credentials"}
    /\ n.stage = "auth" => Vetted(n)
    /\ n.looked \in {Unset, Finding(r, start)}

\* A call that has got its parser keeps its request, remembers what it found if it looked
\* an alias up, and is in a session only with credentials the policy let through.
LEMMA ParserGot ==
    ASSUME NEW c \in Calls, NEW r \in Requests, NEW start, AfterParser(c, r, start)
    PROVE  \E n : Got(c, r, start, n)
<1> DEFINE looked == Finding(r, start)
           w == WithCredentials(r, Resolved(r), Agent)
           n == CASE r.tool = "ssh_hosts_list" -> [In("done", r) EXCEPT !.listed = ListHosts(hosts')]
                  [] r.tool = "ssh_resolve_host" -> [In("done", r) EXCEPT !.looked = looked]
                  [] OTHER -> [IF config.connector.credentialProvider = "agent" THEN w
                               ELSE In("credentials", r) EXCEPT !.looked = looked]
<1>1. Continue(c, n)
  BY DEF AfterParser, Finding
<1>2. Agent.hostKeyPolicy \in {"strict", "accept-new"}
  BY DEF Agent
<1>3. /\ w.request = r
      /\ w.stage \in {"failed", "done", "auth"}
      /\ w.stage = "auth" => Vetted(w)
  BY <1>2, CredentialsAreVetted
<1>4. PICK st, ps : w = [stage |-> st, request |-> r, start |-> Unset, looked |-> Unset,
                         params |-> ps, key |-> Unset, listed |-> {}]
  BY CredentialRecord
<1>5. n.request = r /\ n.stage \in {"done", "failed", "auth", "credentials"}
  <2> HIDE DEF w, looked
  <2> QED BY <1>3, <1>4 DEF In
<1>6. n.looked \in {Unset, looked}
  <2> HIDE DEF w, looked
  <2> QED BY <1>4 DEF In
<1>7. ASSUME n.stage = "auth" PROVE Vetted(n)
  <2>1. n = [w EXCEPT !.looked = looked]
    <3> HIDE DEF w, looked
    <3> QED BY <1>7 DEF In
  <2>2. n.stage = w.stage /\ n.params = w.params /\ n.request = w.request
    <3> HIDE DEF n, w, looked
    <3> QED BY <2>1, <1>4
  <2>3. Vetted(w)
    BY <2>2, <1>3, <1>7
  <2> HIDE DEF n, w, looked
  <2>4. QED BY <2>2, <2>3 DEF Vetted
<1> HIDE DEF n
<1>8. Got(c, r, start, n)
  BY <1>1, <1>5, <1>6, <1>7 DEF Got
<1>9. QED BY <1>8

\* A call that goes on as one that may be in flight keeps AccessInv.
LEMMA AccessOne ==
    ASSUME AccessInv, UNCHANGED config, NEW c \in Calls, NEW n, Continue(c, n), Admitted(n)
    PROVE  AccessInv'
<1>1. CallTable' /\ call'[c] = n /\ \A d \in Calls \ {c} : call'[d] = call[d]
  BY ContinueOne DEF AccessInv
<1>2. \A d \in Calls : Admitted(call'[d])
  BY <1>1 DEF AccessInv
<1>3. \A d \in Calls : Admitted(call[d])'
  BY <1>2 DEF Admitted, Vetted
<1>4. (config # Unset => ValidateHttpStartupConfig(config) /\ Loaded)'
  BY DEF AccessInv, Loaded
<1>5. QED BY <1>1, <1>3, <1>4 DEF AccessInv

LEMMA AccessInit == Init => AccessInv
BY DEF Init, AccessInv, CallTable, Admitted, Idle, In

LEMMA AccessStep == AccessInv /\ [Next]_vars => AccessInv'
<1> SUFFICES ASSUME AccessInv, [Next]_vars PROVE AccessInv'
  OBVIOUS
<1>0. /\ CallTable
      /\ \A c \in Calls : Admitted(call[c])
  BY DEF AccessInv
<1>1. ASSUME NEW env \in Environments, Start(env) PROVE AccessInv'
  <2>1. /\ config = Unset /\ call' = call
        /\ ValidateHttpStartupConfig(LoadConfig(env)) /\ config' = LoadConfig(env)
    BY <1>1 DEF Start
  <2>2. \A c \in Calls : call[c].stage = "idle"
    BY <1>0, <2>1 DEF Admitted
  <2>3. \A c \in Calls : Admitted(call[c])'
    BY <2>1, <2>2 DEF Admitted
  <2>4. (config # Unset => ValidateHttpStartupConfig(config) /\ Loaded)'
    BY <1>1, <2>1 DEF Loaded, Start
  <2>5. CallTable'
    BY <1>0, <2>1 DEF CallTable
  <2>6. QED BY <2>3, <2>4, <2>5 DEF AccessInv
<1>2. ASSUME NEW c \in Calls, NEW r \in Requests, Admit(c, r) PROVE AccessInv'
  <2>1. /\ config # Unset /\ UNCHANGED config
        /\ Authorized(config, r)
        /\ IsToolAllowedForProfile(r.tool, config.connector.toolProfile)
    BY <1>2 DEF Admit
  <2>2. CASE r.tool = "ssh_open_session" /\ Continue(c, InSession(r, r.params))
    <3> DEFINE n == InSession(r, r.params)
    <3>1. n.request = r /\ n.stage = OpenSession(r.params)
      BY SessionRecord
    <3>2. OpenSession(r.params) \in {"failed", "done", "auth"}
      BY DEF OpenSession
    <3>a. OpenSession(r.params) = "auth" => n.params.policyMode = "enforce"
      <4>1. PICK p : p = r.params
        OBVIOUS
      <4>2. "policyMode" \in DOMAIN p /\ p.policyMode \in {"enforce", "explain"}
        BY <2>2, <4>1, OperationsAssumption
      <4>3. n.params = Settled(p)
        BY <4>1, SessionRecord
      <4>4. Settled(p).policyMode = p.policyMode
        BY <4>2 DEF Settled
      <4>5. OpenSession(p) = "auth" => p.policyMode # "explain"
        BY DEF OpenSession
      <4>6. QED BY <4>1, <4>2, <4>3, <4>4, <4>5
    <3> HIDE DEF n
    <3>3. Admitted(n)
      BY <2>1, <2>2, <3>1, <3>2, <3>a DEF Admitted, InSessionStages
    <3>4. Continue(c, n)
      BY <2>2 DEF n
    <3>5. QED BY <2>1, <3>3, <3>4, AccessOne
  <2>3. CASE r.tool # "ssh_open_session" /\ LookUp(c, r)
    <3>1. CASE AfterParser(c, r, now)
      <4>1. PICK t : t = now
        OBVIOUS
      <4>2. AfterParser(c, r, t)
        BY <3>1, <4>1 DEF AfterParser
      <4>3. PICK n : Got(c, r, t, n)
        BY <4>2, ParserGot
      <4>4. /\ Continue(c, n)
            /\ n.request = r
            /\ n.stage \in {"done", "failed", "auth", "credentials"}
            /\ n.stage = "auth" => Vetted(n)
        BY <4>3 DEF Got
      <4>5. Admitted(n)
        BY <2>1, <2>3, <4>4 DEF Admitted, InSessionStages
      <4>6. QED BY <2>1, <4>4, <4>5, AccessOne
    <3>2. CASE Continue(c, [In("reading", r) EXCEPT !.start = now])
      <4> DEFINE n == [In("reading", r) EXCEPT !.start = now]
      <4>1. n.request = r /\ n.stage = "reading"
        BY DEF In
      <4> HIDE DEF n
      <4>2. Admitted(n)
        BY <2>1, <2>3, <4>1 DEF Admitted, InSessionStages
      <4>3. Continue(c, n)
        BY <3>2 DEF n
      <4>4. QED BY <2>1, <4>2, <4>3, AccessOne
    <3>3. QED BY <2>3, <3>1, <3>2 DEF LookUp
  <2>4. QED BY <1>2, <2>2, <2>3 DEF Admit
<1>3. ASSUME NEW c \in Calls, ReadConfig(c) PROVE AccessInv'
  <2>a. PICK r, t : r = call[c].request /\ t = call[c].start
    OBVIOUS
  <2>1. call[c].stage = "reading" /\ AfterParser(c, r, t) /\ UNCHANGED config
    BY <1>3, <2>a DEF ReadConfig, Stage, AfterParser
  <2>2. /\ config # Unset /\ r \in Requests /\ Authorized(config, r)
        /\ IsToolAllowedForProfile(r.tool, config.connector.toolProfile)
        /\ r.tool # "ssh_open_session"
    BY <1>0, <2>1, <2>a DEF Admitted
  <2>b. PICK n : Got(c, r, t, n)
    BY <2>1, <2>2, ParserGot
  <2>3. /\ Continue(c, n)
        /\ n.request = r
        /\ n.stage \in {"done", "failed", "auth", "credentials"}
        /\ n.stage = "auth" => Vetted(n)
    BY <2>b DEF Got
  <2>4. Admitted(n)
    BY <2>2, <2>3 DEF Admitted, InSessionStages
  <2>5. QED BY <2>1, <2>3, <2>4, AccessOne
<1>4. ASSUME NEW c \in Calls, NEW a \in Answers, CredentialCommand(c, a) PROVE AccessInv'
  <2> DEFINE r == call[c].request
             w == WithCredentials(r, call[c].looked.resolved, a)
  <2>1. call[c].stage = "credentials" /\ UNCHANGED config
    BY <1>4 DEF CredentialCommand, Stage
  <2>2. /\ config # Unset /\ r \in Requests /\ Authorized(config, r)
        /\ IsToolAllowedForProfile(r.tool, config.connector.toolProfile)
        /\ r.tool # "ssh_open_session"
    BY <1>0, <2>1 DEF Admitted
  <2>3. CASE Continue(c, Failed(c))
    <3>1. Admitted(Failed(c))
      BY <2>2 DEF Admitted, Failed, In, InSessionStages
    <3>2. QED BY <2>1, <2>3, <3>1, AccessOne
  <2>4. CASE a # Unset /\ Continue(c, w)
    <3>1. a.hostKeyPolicy \in {"strict", "accept-new"}
      BY <2>4, GatewayAssumption
    <3>2. /\ w.request = r
          /\ w.stage \in {"failed", "done", "auth"}
          /\ w.stage = "auth" => Vetted(w)
      BY <2>2, <3>1, CredentialsAreVetted
    <3> HIDE DEF w
    <3>3. Admitted(w)
      BY <2>2, <3>2 DEF Admitted, InSessionStages
    <3>4. QED BY <2>1, <2>4, <3>3, AccessOne
  <2>5. QED BY <1>4, <2>3, <2>4 DEF CredentialCommand
<1>5. ASSUME NEW c \in Calls, UNCHANGED config, Stage(c) \in {"auth", "connecting"},
             NEW n, Continue(c, n),
             n = Failed(c) \/ /\ n.stage \in InSessionStages
                              /\ n.request = call[c].request /\ n.params = call[c].params
      PROVE  AccessInv'
  <2>1. /\ config # Unset /\ call[c].request \in Requests /\ Authorized(config, call[c].request)
        /\ IsToolAllowedForProfile(call[c].request.tool, config.connector.toolProfile)
        /\ IF call[c].request.tool = "ssh_open_session" THEN call[c].params.policyMode = "enforce"
           ELSE Vetted(call[c])
    BY <1>0, <1>5 DEF Admitted, Stage, InSessionStages
  <2>2. CASE n = Failed(c)
    BY <1>5, <2>1, <2>2, AccessOne DEF Admitted, Failed, In, InSessionStages
  <2>3. CASE /\ n.stage \in InSessionStages
             /\ n.request = call[c].request /\ n.params = call[c].params
    <3>1. Vetted(call[c]) => Vetted(n)
      BY <2>3 DEF Vetted
    <3>2. Admitted(n)
      BY <2>1, <2>3, <3>1 DEF Admitted, InSessionStages
    <3>3. QED BY <1>5, <3>2, AccessOne
  <2>4. QED BY <1>5, <2>2, <2>3
<1>6. ASSUME NEW c \in Calls, NEW readable, BuildAuth(c, readable) PROVE AccessInv'
  <2> DEFINE n == [In("connecting", call[c].request) EXCEPT !.params = call[c].params]
  <2>1. n.stage \in InSessionStages /\ n.request = call[c].request /\ n.params = call[c].params
    BY DEF In, InSessionStages
  <2>2. Continue(c, Failed(c)) \/ Continue(c, n)
    BY <1>6 DEF BuildAuth
  <2>3. UNCHANGED config /\ Stage(c) \in {"auth", "connecting"}
    BY <1>6 DEF BuildAuth
  <2> HIDE DEF n
  <2>4. QED BY <1>5, <2>1, <2>2, <2>3
<1>7. ASSUME NEW c \in Calls, NEW key, NEW accepted, Connect(c, key, accepted) PROVE AccessInv'
  <2> DEFINE n == [In("open", call[c].request) EXCEPT !.params = call[c].params, !.key = key]
  <2>1. n.stage \in InSessionStages /\ n.request = call[c].request /\ n.params = call[c].params
    BY DEF In, InSessionStages
  <2>2. Continue(c, Failed(c)) \/ Continue(c, n)
    BY <1>7 DEF Connect
  <2>3. UNCHANGED config /\ Stage(c) \in {"auth", "connecting"}
    BY <1>7 DEF Connect
  <2> HIDE DEF n
  <2>4. QED BY <1>5, <2>1, <2>2, <2>3
<1>8. ASSUME NEW c \in Calls, Answer(c) PROVE AccessInv'
  <2>1. Continue(c, Idle) /\ UNCHANGED config
    BY <1>8 DEF Answer
  <2>2. Admitted(Idle)
    BY DEF Admitted, Idle, In
  <2>3. QED BY <2>1, <2>2, AccessOne
<1>9. ASSUME UNCHANGED <<config, call>> PROVE AccessInv'
  <2>1. \A c \in Calls : Admitted(call[c])'
    BY <1>0, <1>9 DEF Admitted, Vetted
  <2>2. QED BY <1>9, <2>1 DEF AccessInv, CallTable, Loaded
<1>10. QED
  BY <1>1, <1>2, <1>3, <1>4, <1>6, <1>7, <1>8, <1>9
     DEF Next, vars, gatewayVars, Edit, Tick

LEMMA AccessInvariant == Spec => []AccessInv
BY AccessInit, AccessStep, PTL DEF Spec

LEMMA AccessMeans == AccessInv => ServedIsAuthenticated
<1> SUFFICES ASSUME AccessInv, NEW c \in Calls, Stage(c) # "idle", config.http.host \notin Loopback
             PROVE  LET r == call[c].request
                    IN /\ Proven(r.token)
                       /\ r.origin = Unset \/ r.origin \in config.http.allowedOrigins
                       /\ r.tool \in ConnectorTools
                       /\ Stage(c) \in {"auth", "connecting", "open"} =>
                             /\ config.policy.allowedHosts # {}
                             /\ MatchesPolicyValue(call[c].params.policyHost, config.policy.allowedHosts)
                             /\ call[c].params.hostKeyPolicy # "insecure"
  BY DEF ServedIsAuthenticated
<1> DEFINE r == call[c].request
<1>1. Admitted(call[c]) /\ call[c].stage # "idle"
  BY DEF AccessInv, Stage
<1>2. ValidateHttpStartupConfig(config) /\ Authorized(config, r)
      /\ IsToolAllowedForProfile(r.tool, config.connector.toolProfile)
  BY <1>1 DEF AccessInv, Admitted
<1>3. /\ BearerToken(config) # Unset \/ config.auth.mode = "oauth"
      /\ BearerToken(config) # Empty
      /\ config.http.allowedOrigins # {}
      /\ config.connector.toolProfile # "full"
      /\ config.policy.allowedHosts # {}
      /\ config.hostKeyPolicy = "strict"
  BY <1>2 DEF ValidateHttpStartupConfig
<1>4. Proven(r.token)
  <2>1. CASE config.auth.mode = "oauth"
    <3>1. PICK audience : IsOAuthAuthorizationValid(r.token, config.auth, audience)
      BY <1>2, <2>1 DEF Authorized
    <3>2. /\ r.token # Unset /\ "iss" \in DOMAIN r.token
          /\ r.token.signed /\ r.token.current
          /\ r.token.iss = config.auth.oauthIssuer
          /\ config.auth.oauthRequiredScopes \subseteq r.token.scopes
      BY <3>1 DEF IsOAuthAuthorizationValid
    <3>3. QED BY <3>2 DEF Proven
  <2>2. CASE config.auth.mode # "oauth"
    <3>1. BearerToken(config) # Unset
      BY <1>3, <2>2
    <3>2. BearerToken(config) = Secret
      BY <3>1 DEF BearerToken
    <3>3. IsBearerAuthorizationValid(r.token, BearerToken(config))
      BY <1>2, <2>2, <3>1 DEF Authorized
    <3>4. QED BY <1>3, <3>2, <3>3 DEF IsBearerAuthorizationValid, Proven
  <2>3. QED BY <2>1, <2>2
<1>5. r.origin = Unset \/ r.origin \in config.http.allowedOrigins
  BY <1>2, <1>3 DEF Authorized, IsOriginAllowed
<1>6. r.tool \in ConnectorTools
  BY <1>2, <1>3 DEF IsToolAllowedForProfile
<1>7. ASSUME Stage(c) \in {"auth", "connecting", "open"}
      PROVE  /\ MatchesPolicyValue(call[c].params.policyHost, config.policy.allowedHosts)
             /\ call[c].params.hostKeyPolicy # "insecure"
  <2>1. r.tool # "ssh_open_session"
    BY <1>6 DEF ConnectorTools
  <2>2. Vetted(call[c])
    BY <1>1, <1>7, <2>1 DEF Admitted, Stage, InSessionStages
  <2>3. QED BY <2>2, <1>3 DEF Vetted
<1>8. QED BY <1>3, <1>4, <1>5, <1>6, <1>7

\* ServedIsAuthenticated for every set of environments, requests, credential answers and
\* calls: a server others can reach serves only proven senders, from its own origins, with
\* tools of the connector profile, and opens sessions only for aliases on the allow list
\* (validateHttpStartupConfig, rejectIfUnauthorized, openSession).
THEOREM ServedAreAuthenticated == Spec => []ServedIsAuthenticated
BY AccessInvariant, AccessMeans, PTL

-----------------------------------------------------------------------------
(* The cached parser of the ssh config. *)

ConfigTypes ==
    /\ now \in Nat /\ parsedAt \in Nat
    /\ \A v \in versions : v[2] \in Nat /\ v[2] <= now
    /\ globalParser \in Calls \cup {"parsed", Unset}

\* A read in progress began in the past, with a parser published.
ReadingIsLate ==
    \A c \in Calls :
        call[c].stage = "reading" =>
            call[c].start \in Nat /\ call[c].start <= now /\ globalParser # Unset

\* The parsed entries are those of a content that was on disk since the last refresh to
\* end began, and since every refresh still under way began.
ParsedWasOnDisk ==
    globalParser = "parsed" =>
        \E v \in OnDisk :
            /\ hosts = ParseContent(v[1])
            /\ v[2] >= parsedAt
            /\ \A c \in Calls : call[c].stage = "reading" => v[2] >= call[c].start

\* What a call has found, with the type of its time.
Recent(n) ==
    n.looked # Unset =>
        /\ n.looked.from \in Nat
        /\ ~n.looked.overtaken =>
              \E v \in OnDisk :
                  /\ v[2] >= n.looked.from - CacheTtl
                  /\ n.looked.resolved = ResolveHost(ParseContent(v[1]), n.request.alias)

LookupInv ==
    /\ ConfigTypes
    /\ ReadingIsLate
    /\ ParsedWasOnDisk
    /\ \A c \in Calls : Recent(call[c])

\* No content is forgotten, and its last instant on disk never moves back.
Grows == \A v \in OnDisk : \E w \in OnDisk' : w[1] = v[1] /\ w[2] >= v[2]

LEMMA OnDiskGrows ==
    ASSUME ConfigTypes,
           \/ UNCHANGED <<file, versions, now>>
           \/ Tick
           \/ \E f \in Files : Edit(f)
    PROVE  Grows
<1>1. /\ now \in Nat
      /\ \A v \in versions : v[2] \in Nat /\ v[2] <= now
  BY DEF ConfigTypes
<1>2. CASE UNCHANGED <<file, versions, now>>
  BY <1>1, <1>2 DEF Grows, OnDisk
<1>3. CASE Tick
  <2>1. UNCHANGED <<file, versions>> /\ now' = now + 1
    BY <1>3 DEF Tick, configVars
  <2>2. \A v \in versions : v \in OnDisk' /\ v[2] >= v[2]
    BY <1>1, <2>1 DEF OnDisk
  <2>3. <<file, now + 1>> \in OnDisk'
    BY <2>1 DEF OnDisk
  <2>4. QED BY <1>1, <2>2, <2>3 DEF Grows, OnDisk
<1>4. ASSUME NEW f \in Files, Edit(f) PROVE Grows
  <2>1. /\ versions' = {v \in versions : v[1] # file} \cup {<<file, now>>}
        /\ now' = now
    BY <1>4 DEF Edit, EditFile
  <2>2. <<file, now>> \in OnDisk' /\ \A v \in versions : v[1] # file => v \in OnDisk'
    BY <2>1 DEF OnDisk
  <2>3. QED BY <1>1, <2>2 DEF Grows, OnDisk
<1>5. QED BY <1>2, <1>3, <1>4

\* What was found recently stays so.
LEMMA RecentKept ==
    ASSUME Grows, NEW n, Recent(n), \A v \in OnDisk : v[2] \in Nat, \A v \in OnDisk' : v[2] \in Nat
    PROVE  Recent(n)'
<1> SUFFICES ASSUME n.looked # Unset, ~n.looked.overtaken
             PROVE  \E v \in OnDisk' :
                        /\ v[2] >= n.looked.from - CacheTtl
                        /\ n.looked.resolved = ResolveHost(ParseContent(v[1]), n.request.alias)
  BY DEF Recent
<1>1. PICK v \in OnDisk : /\ v[2] >= n.looked.from - CacheTtl
                          /\ n.looked.resolved = ResolveHost(ParseContent(v[1]), n.request.alias)
  BY DEF Recent
<1>2. PICK w \in OnDisk' : w[1] = v[1] /\ w[2] >= v[2]
  BY DEF Grows
<1>3. n.looked.from \in Nat /\ CacheTtl \in Nat
  BY GatewayAssumption DEF Recent
<1>4. w[2] >= n.looked.from - CacheTtl
  BY <1>1, <1>2, <1>3
<1>5. QED BY <1>1, <1>2, <1>4

\* A step that begins no read and leaves the parser alone keeps what was parsed.
LEMMA ParsedKept ==
    ASSUME LookupInv, ConfigTypes', Grows, UNCHANGED <<globalParser, hosts>>,
           parsedAt' = parsedAt \/ \E c \in Calls : call[c].stage = "reading" /\ parsedAt' = call[c].start,
           \A c \in Calls : call'[c].stage = "reading" =>
               call[c].stage = "reading" /\ call'[c].start = call[c].start
    PROVE  ParsedWasOnDisk'
<1> SUFFICES ASSUME globalParser = "parsed" PROVE ParsedWasOnDisk'
  BY DEF ParsedWasOnDisk
<1>1. PICK v \in OnDisk :
        /\ hosts = ParseContent(v[1])
        /\ v[2] >= parsedAt
        /\ \A c \in Calls : call[c].stage = "reading" => v[2] >= call[c].start
  BY DEF LookupInv, ParsedWasOnDisk
<1>2. PICK w \in OnDisk' : w[1] = v[1] /\ w[2] >= v[2]
  BY DEF Grows
<1>3. v[2] \in Nat /\ w[2] \in Nat
  BY DEF LookupInv, ConfigTypes, OnDisk
<1>4. w[2] >= parsedAt'
  BY <1>1, <1>2, <1>3 DEF LookupInv, ConfigTypes, ReadingIsLate
<1>5. \A c \in Calls : call'[c].stage = "reading" => w[2] >= call'[c].start
  BY <1>1, <1>2, <1>3 DEF LookupInv, ReadingIsLate
<1>6. QED BY <1>1, <1>2, <1>4, <1>5 DEF ParsedWasOnDisk

LEMMA LookupInit == Init => LookupInv
<1> SUFFICES ASSUME Init PROVE LookupInv
  OBVIOUS
<1>1. ConfigTypes
  BY DEF Init, ConfigInit, ConfigTypes
<1>2. \A c \in Calls : call[c].stage = "idle" /\ call[c].looked = Unset
  BY DEF Init, Idle, In
<1>3. ReadingIsLate /\ \A c \in Calls : Recent(call[c])
  BY <1>2 DEF ReadingIsLate, Recent
<1>4. ParsedWasOnDisk
  <2>1. globalParser = Unset /\ hosts = <<>> /\ parsedAt = 0
    BY DEF Init, ConfigInit
  <2>2. QED BY <2>1, GatewayAssumption DEF ParsedWasOnDisk
<1>5. QED BY <1>1, <1>3, <1>4 DEF LookupInv

LEMMA LookupStep == AccessInv /\ LookupInv /\ [Next]_vars => LookupInv'
<1> SUFFICES ASSUME AccessInv, LookupInv, [Next]_vars PROVE LookupInv'
  OBVIOUS
<1>0. /\ CallTable /\ ConfigTypes /\ ReadingIsLate /\ ParsedWasOnDisk
      /\ \A c \in Calls : Recent(call[c])
      /\ \A v \in OnDisk : v[2] \in Nat
  BY DEF AccessInv, LookupInv, ConfigTypes, OnDisk
\* Steps outside the lookups: the call that goes on has found nothing.
<1>1. ASSUME UNCHANGED <<configVars, now>>, NEW c \in Calls, NEW n, Continue(c, n),
             n.stage # "reading", n.looked = Unset
      PROVE  LookupInv'
  <2>1. call'[c] = n /\ \A d \in Calls \ {c} : call'[d] = call[d]
    BY <1>0, <1>1, ContinueOne
  <2>2. UNCHANGED <<file, globalParser, hosts, parsedAt, versions, now>>
    BY <1>1 DEF configVars
  <2>3. ConfigTypes' /\ Grows
    BY <1>0, <2>2, OnDiskGrows DEF ConfigTypes
  <2>4. ReadingIsLate'
    BY <1>0, <1>1, <2>1, <2>2 DEF ReadingIsLate
  <2>5. ParsedWasOnDisk'
    BY <1>0, <1>1, <2>1, <2>2, <2>3, ParsedKept DEF LookupInv
  <2>6. OnDisk' = OnDisk
    BY <2>2 DEF OnDisk
  <2>7. \A d \in Calls : Recent(call[d])'
    BY <1>0, <1>1, <2>1, <2>6 DEF Recent
  <2>8. QED BY <2>3, <2>4, <2>5, <2>7 DEF LookupInv
\* Steps that leave every call alone.
<1>2. ASSUME UNCHANGED <<call, globalParser, hosts, parsedAt>>, ConfigTypes', Grows, now' >= now
      PROVE  LookupInv'
  <2>1. ReadingIsLate'
    BY <1>0, <1>2 DEF ReadingIsLate, ConfigTypes
  <2>2. ParsedWasOnDisk'
    BY <1>0, <1>2, ParsedKept DEF LookupInv
  <2>3. \A v \in OnDisk' : v[2] \in Nat
    BY <1>2 DEF ConfigTypes, OnDisk
  <2>4. ASSUME NEW d \in Calls PROVE Recent(call[d])'
    <3>1. PICK n : n = call[d]
      OBVIOUS
    <3>2. Recent(n)
      BY <1>0, <3>1
    <3>3. Recent(n)'
      BY <1>0, <1>2, <2>3, <3>2, RecentKept
    <3>4. QED BY <1>2, <3>1, <3>3 DEF Recent
  <2>5. QED BY <1>2, <2>1, <2>2, <2>4 DEF LookupInv
\* A lookup ends: what it has found is in the parser, whose content was on disk.
<1>3. ASSUME UNCHANGED <<file, versions, now>>, NEW c \in Calls, NEW r \in Requests, NEW t \in Nat, NEW n,
             Got(c, r, t, n), ConfigTypes', globalParser' # Unset, ParsedWasOnDisk',
             ~Overtaken => \E v \in OnDisk : hosts' = ParseContent(v[1]) /\ v[2] >= t - CacheTtl
      PROVE  LookupInv'
  <2>1. Continue(c, n) /\ n.request = r /\ n.stage # "reading" /\ n.looked \in {Unset, Finding(r, t)}
    BY <1>3 DEF Got
  <2>2. call'[c] = n /\ \A d \in Calls \ {c} : call'[d] = call[d]
    BY <1>0, <2>1, ContinueOne
  <2>3. ReadingIsLate'
    BY <1>0, <1>3, <2>1, <2>2 DEF ReadingIsLate
  <2>4. OnDisk' = OnDisk
    BY <1>3 DEF OnDisk
  <2>5. Recent(n)
    <3>1. CASE n.looked = Unset
      BY <3>1 DEF Recent
    <3>2. CASE n.looked = Finding(r, t)
      <4>1. n.looked.from = t /\ n.looked.resolved = ResolveHost(hosts', r.alias)
        BY <3>2 DEF Finding, Resolved
      <4>2. ~n.looked.overtaken => ~Overtaken
        <5>1. PICK o : o = Overtaken
          OBVIOUS
        <5>2. Finding(r, t) = [resolved |-> Resolved(r), from |-> t, overtaken |-> o]
          BY <5>1, Zenon DEF Finding
        <5>3. n.looked.overtaken = o
          BY <3>2, <5>2
        <5>4. CASE Overtaken
          <6>1. o = TRUE
            BY <5>1, <5>4 DEF Overtaken
          <6>2. QED BY <5>3, <6>1
        <5>5. QED BY <5>4
      <4>3. QED BY <1>3, <2>1, <4>1, <4>2 DEF Recent
    <3>3. QED BY <2>1, <3>1, <3>2
  <2>6. \A d \in Calls : Recent(call'[d])
    BY <1>0, <2>2, <2>5
  <2>7. \A d \in Calls : Recent(call[d])'
    BY <2>4, <2>6 DEF Recent
  <2>8. QED BY <1>3, <2>3, <2>7 DEF LookupInv
<1>4. ASSUME NEW env \in Environments, Start(env) PROVE LookupInv'
  <2>1. UNCHANGED <<call, file, globalParser, hosts, parsedAt, versions, now>>
    BY <1>4 DEF Start, configVars
  <2>2. ConfigTypes' /\ Grows /\ now' >= now
    BY <1>0, <2>1, OnDiskGrows DEF ConfigTypes
  <2>3. QED BY <1>2, <2>1, <2>2
<1>5. ASSUME NEW c \in Calls, NEW r \in Requests, Admit(c, r) PROVE LookupInv'
  <2>1. UNCHANGED now /\ Stage(c) = "idle"
    BY <1>5 DEF Admit
  <2>2. CASE Continue(c, InSession(r, r.params)) /\ UNCHANGED configVars
    <3> DEFINE n == InSession(r, r.params)
    <3>1. n.looked = Unset /\ n.stage = OpenSession(r.params)
      BY SessionRecord
    <3>2. OpenSession(r.params) # "reading"
      BY DEF OpenSession
    <3>3. Continue(c, n)
      BY <2>2
    <3> HIDE DEF n
    <3>4. QED BY <1>1, <2>1, <2>2, <3>1, <3>2, <3>3
  <2>3. CASE CacheIsFresh(now) /\ UNCHANGED configVars /\ AfterParser(c, r, now)
    <3>1. UNCHANGED <<file, globalParser, hosts, parsedAt, versions, now>>
      BY <2>1, <2>3 DEF configVars
    <3>2. PICK t : t = now
      OBVIOUS
    <3>3. AfterParser(c, r, t)
      BY <2>3, <3>2 DEF AfterParser
    <3>4. PICK n : Got(c, r, t, n)
      BY <3>3, ParserGot
    <3>5. t \in Nat /\ CacheTtl \in Nat /\ parsedAt \in Nat
      BY <1>0, <3>2, GatewayAssumption DEF ConfigTypes
    <3>6. ConfigTypes' /\ globalParser' # Unset /\ Grows
      BY <1>0, <2>3, <3>1, OnDiskGrows DEF ConfigTypes, CacheIsFresh
    <3>7. Continue(c, n) /\ n.stage # "reading"
      BY <3>4 DEF Got
    <3>8. \A d \in Calls : call'[d].stage = "reading" =>
             call[d].stage = "reading" /\ call'[d].start = call[d].start
      BY <1>0, <3>7, ContinueOne
    <3>9. ParsedWasOnDisk'
      BY <3>1, <3>6, <3>8, ParsedKept
    <3>10. ASSUME ~Overtaken
           PROVE  \E v \in OnDisk : hosts' = ParseContent(v[1]) /\ v[2] >= t - CacheTtl
      <4>1. globalParser = "parsed"
        BY <1>0, <3>1, <3>6, <3>10 DEF Overtaken, ConfigTypes
      <4>2. PICK v \in OnDisk : hosts = ParseContent(v[1]) /\ v[2] >= parsedAt
        BY <1>0, <4>1 DEF ParsedWasOnDisk
      <4>3. v[2] >= t - CacheTtl
        BY <1>0, <2>3, <3>2, <3>5, <4>2 DEF CacheIsFresh
      <4>4. QED BY <3>1, <4>2, <4>3
    <3>11. QED BY <1>3, <3>1, <3>4, <3>5, <3>6, <3>9, <3>10
  <2>4. CASE PublishParser(c) /\ Continue(c, [In("reading", r) EXCEPT !.start = now])
    <3> DEFINE n == [In("reading", r) EXCEPT !.start = now]
    <3>1. n.stage = "reading" /\ n.start = now /\ n.looked = Unset
      BY DEF In
    <3>2. call'[c] = n /\ \A d \in Calls \ {c} : call'[d] = call[d]
      <4>1. PICK k : k = n
        OBVIOUS
      <4>2. Continue(c, k)
        BY <2>4, <4>1 DEF Continue
      <4>3. QED BY <1>0, <4>1, <4>2, ContinueOne
    <3> HIDE DEF n
    <3>3. globalParser' = c /\ UNCHANGED <<file, parsedAt, versions, now>>
      BY <2>1, <2>4 DEF PublishParser
    <3>4. ConfigTypes'
      BY <1>0, <3>3 DEF ConfigTypes
    <3>5. ReadingIsLate'
      BY <1>0, <3>1, <3>2, <3>3, GatewayAssumption DEF ReadingIsLate, ConfigTypes
    <3>6. ParsedWasOnDisk'
      BY <3>3, GatewayAssumption DEF ParsedWasOnDisk
    <3>7. OnDisk' = OnDisk
      BY <3>3 DEF OnDisk
    <3>8. \A d \in Calls : Recent(call[d])'
      BY <1>0, <3>1, <3>2, <3>7 DEF Recent
    <3>9. QED BY <3>4, <3>5, <3>6, <3>8 DEF LookupInv
  <2>5. QED BY <1>5, <2>2, <2>3, <2>4 DEF Admit, LookUp
<1>6. ASSUME NEW c \in Calls, ReadConfig(c) PROVE LookupInv'
  <2>1. PICK r, t : r = call[c].request /\ t = call[c].start
    OBVIOUS
  <2>2. /\ call[c].stage = "reading" /\ AfterParser(c, r, t) /\ UNCHANGED now
        /\ ParserRead(c, t)
    BY <1>6, <2>1 DEF ReadConfig, Stage, AfterParser, ParserRead
  <2>3. r \in Requests /\ t \in Nat /\ t <= now /\ globalParser # Unset
    BY <1>0, <2>1, <2>2 DEF AccessInv, Admitted, ReadingIsLate
  <2>4. PICK n : Got(c, r, t, n)
    BY <2>2, <2>3, ParserGot
  <2>5. parsedAt' = t /\ UNCHANGED <<file, versions, now>>
    BY <2>2 DEF ParserRead
  <2>6. CacheTtl \in Nat /\ now \in Nat
    BY <1>0, GatewayAssumption DEF ConfigTypes
  <2>7. Continue(c, n) /\ n.stage # "reading"
    BY <2>4 DEF Got
  <2>8. \A d \in Calls : call'[d].stage = "reading" =>
           call[d].stage = "reading" /\ call'[d].start = call[d].start
    BY <1>0, <2>7, ContinueOne
  <2>9. CASE globalParser = c
    <3>1. globalParser' = "parsed" /\ hosts' = ParseContent(file)
      BY <2>2, <2>9 DEF ParserRead
    <3>2. ConfigTypes' /\ globalParser' # Unset
      BY <1>0, <2>3, <2>5, <3>1, GatewayAssumption DEF ConfigTypes
    <3>3. <<file, now>> \in OnDisk /\ <<file, now>> \in OnDisk'
      BY <2>5 DEF OnDisk
    <3>4. \A d \in Calls : call'[d].stage = "reading" => now >= call'[d].start
      BY <1>0, <2>6, <2>8 DEF ReadingIsLate
    <3>5. ParsedWasOnDisk'
      <4> DEFINE v == <<file, now>>
      <4>1. v[1] = file /\ v[2] = now
        OBVIOUS
      <4>2. v[2] >= parsedAt' /\ hosts' = ParseContent(v[1])
        BY <2>3, <2>5, <2>6, <3>1, <4>1
      <4>3. v \in OnDisk'
        BY <3>3
      <4> HIDE DEF v
      <4>4. QED BY <3>4, <4>1, <4>2, <4>3 DEF ParsedWasOnDisk
    <3>6. \E v \in OnDisk : hosts' = ParseContent(v[1]) /\ v[2] >= t - CacheTtl
      BY <2>3, <2>6, <3>1, <3>3
    <3>7. QED BY <1>3, <2>3, <2>4, <2>5, <3>2, <3>5, <3>6
  <2>10. CASE globalParser # c
    <3>1. UNCHANGED <<globalParser, hosts>>
      BY <2>2, <2>10 DEF ParserRead
    <3>2. ConfigTypes' /\ globalParser' # Unset /\ Grows
      BY <1>0, <2>3, <2>5, <3>1, OnDiskGrows DEF ConfigTypes
    <3>3. ParsedWasOnDisk'
      BY <2>1, <2>2, <2>5, <2>8, <3>1, <3>2, ParsedKept
    <3>4. ASSUME ~Overtaken
          PROVE  \E v \in OnDisk : hosts' = ParseContent(v[1]) /\ v[2] >= t - CacheTtl
      <4>1. globalParser = "parsed"
        BY <1>0, <2>3, <3>1, <3>4 DEF Overtaken, ConfigTypes
      <4>2. PICK v \in OnDisk : hosts = ParseContent(v[1]) /\ v[2] >= t
        BY <1>0, <2>1, <2>2, <4>1 DEF ParsedWasOnDisk
      <4>3. v[2] >= t - CacheTtl
        BY <1>0, <2>3, <2>6, <4>2
      <4>4. QED BY <3>1, <4>2, <4>3
    <3>5. QED BY <1>3, <2>3, <2>4, <2>5, <3>2, <3>3, <3>4
  <2>11. QED BY <2>9, <2>10
<1>7. ASSUME NEW c \in Calls, NEW a \in Answers, CredentialCommand(c, a) PROVE LookupInv'
  <2> DEFINE w == WithCredentials(call[c].request, call[c].looked.resolved, a)
  <2>1. UNCHANGED <<configVars, now>> /\ call[c].stage = "credentials"
    BY <1>7 DEF CredentialCommand, Stage
  <2>2. CASE Continue(c, Failed(c))
    BY <1>1, <2>1, <2>2 DEF Failed, In
  <2>3. CASE a # Unset /\ Continue(c, w)
    <3>1. w.looked = Unset
      BY CredentialRecord
    <3>2. w.stage # "reading"
      <4>1. a.hostKeyPolicy \in {"strict", "accept-new"} /\ call[c].request \in Requests
        BY <1>0, <2>1, <2>3, GatewayAssumption DEF AccessInv, Admitted
      <4>2. QED BY <4>1, CredentialsAreVetted
    <3> HIDE DEF w
    <3>3. QED BY <1>1, <2>1, <2>3, <3>1, <3>2
  <2>4. QED BY <1>7, <2>2, <2>3 DEF CredentialCommand
<1>8. ASSUME NEW c \in Calls, NEW readable, BuildAuth(c, readable) PROVE LookupInv'
  <2> DEFINE n == [In("connecting", call[c].request) EXCEPT !.params = call[c].params]
  <2>1. n.stage # "reading" /\ n.looked = Unset
    BY DEF In
  <2>2. Failed(c).stage # "reading" /\ Failed(c).looked = Unset
    BY DEF Failed, In
  <2>3. UNCHANGED <<configVars, now>> /\ (Continue(c, Failed(c)) \/ Continue(c, n))
    BY <1>8 DEF BuildAuth
  <2> HIDE DEF n
  <2>4. QED BY <1>1, <2>1, <2>2, <2>3
<1>9. ASSUME NEW c \in Calls, NEW key, NEW accepted, Connect(c, key, accepted) PROVE LookupInv'
  <2> DEFINE n == [In("open", call[c].request) EXCEPT !.params = call[c].params, !.key = key]
  <2>1. n.stage # "reading" /\ n.looked = Unset
    BY DEF In
  <2>2. Failed(c).stage # "reading" /\ Failed(c).looked = Unset
    BY DEF Failed, In
  <2>3. UNCHANGED <<configVars, now>> /\ (Continue(c, Failed(c)) \/ Continue(c, n))
    BY <1>9 DEF Connect
  <2> HIDE DEF n
  <2>4. QED BY <1>1, <2>1, <2>2, <2>3
<1>10. ASSUME NEW c \in Calls, Answer(c) PROVE LookupInv'
  <2>1. UNCHANGED <<configVars, now>> /\ Continue(c, Idle)
    BY <1>10 DEF Answer
  <2>2. Idle.stage # "reading" /\ Idle.looked = Unset
    BY DEF Idle, In
  <2>3. QED BY <1>1, <2>1, <2>2
<1>11. ASSUME NEW f \in Files, Edit(f) PROVE LookupInv'
  <2>1. /\ UNCHANGED <<call, globalParser, hosts, parsedAt, now>>
        /\ versions' = {v \in versions : v[1] # file} \cup {<<file, now>>}
    BY <1>11 DEF Edit, EditFile, gatewayVars
  <2>2. ConfigTypes' /\ now' >= now
    BY <1>0, <2>1 DEF ConfigTypes
  <2>3. Grows
    BY <1>0, <1>11, OnDiskGrows
  <2>4. QED BY <1>2, <2>1, <2>2, <2>3
<1>12. CASE Tick
  <2>1. UNCHANGED <<call, globalParser, hosts, parsedAt, versions>> /\ now' = now + 1
    BY <1>12 DEF Tick, gatewayVars, configVars
  <2>2. ConfigTypes' /\ now' >= now
    BY <1>0, <2>1 DEF ConfigTypes
  <2>3. Grows
    BY <1>0, <1>12, OnDiskGrows
  <2>4. QED BY <1>2, <2>1, <2>2, <2>3
<1>13. CASE UNCHANGED vars
  <2>1. UNCHANGED <<call, file, globalParser, hosts, parsedAt, versions, now>>
    BY <1>13 DEF vars, gatewayVars, configVars
  <2>2. ConfigTypes' /\ Grows /\ now' >= now
    BY <1>0, <2>1, OnDiskGrows DEF ConfigTypes
  <2>3. QED BY <1>2, <2>1, <2>2
<1>14. QED
  BY <1>4, <1>5, <1>6, <1>7, <1>8, <1>9, <1>10, <1>11, <1>12, <1>13 DEF Next

LEMMA LookupInvariant == Spec => []LookupInv
BY AccessInvariant, LookupInit, LookupStep, PTL DEF Spec

\* ResolutionIsRecent for every cache lifetime, any number of lookups and any edits of the
\* file: however long reads take and in whichever order they end, getSSHConfigParser
\* returns no entries older than the cache lifetime before the call.
THEOREM ResolutionsAreRecent == Spec => []ResolutionIsRecent
<1>1. LookupInv => ResolutionIsRecent
  BY DEF LookupInv, Recent, ResolutionIsRecent
<1>2. QED BY <1>1, LookupInvariant, PTL

-----------------------------------------------------------------------------
(* Host keys. *)

\* What known_hosts lets through is listed, by a line above which nothing revokes the host.
LEMMA VerifiedIsListed ==
    ASSUME knownHosts \in KnownHosts, NEW host, NEW key, VerifyKnownHostKey(knownHosts, host, key)
    PROVE  Listed(host, key)
<1> DEFINE S == {l \in Entries(knownHosts) : l.marker # "malformed" /\ KnownHostPatternMatches(l.hosts, host)}
           k == Kept(knownHosts, S)
<1>1. PICK K : knownHosts \in Seq(K)
  BY GatewayAssumption
<1> HIDE DEF S
<1>2. PICK lines, T : lines = knownHosts /\ T = S
  OBVIOUS
<1>3. k = Kept(lines, T) /\ lines \in Seq(K)
  BY <1>1, <1>2
<1>4. PICK place \in [1..Len(k) -> 1..Len(knownHosts)] :
           /\ \A i \in 1..Len(k) : k[i] = knownHosts[place[i]]
           /\ \A i, j \in 1..Len(k) : i < j => place[i] < place[j]
           /\ \A p \in 1..Len(knownHosts) : knownHosts[p] \in S <=> \E i \in 1..Len(k) : place[i] = p
  <2>1. \E place \in [1..Len(Kept(lines, T)) -> 1..Len(lines)] :
           /\ \A i \in 1..Len(Kept(lines, T)) : Kept(lines, T)[i] = lines[place[i]]
           /\ \A i, j \in 1..Len(Kept(lines, T)) : i < j => place[i] < place[j]
           /\ \A p \in 1..Len(lines) : lines[p] \in T <=> \E i \in 1..Len(Kept(lines, T)) : place[i] = p
    BY <1>3, KeptPlaces
  <2> HIDE DEF k
  <2>2. k = Kept(lines, T) /\ knownHosts = lines /\ S = T
    BY <1>2, <1>3
  <2>3. PICK place \in [1..Len(Kept(lines, T)) -> 1..Len(lines)] :
           /\ \A i \in 1..Len(Kept(lines, T)) : Kept(lines, T)[i] = lines[place[i]]
           /\ \A i, j \in 1..Len(Kept(lines, T)) : i < j => place[i] < place[j]
           /\ \A p \in 1..Len(lines) : lines[p] \in T <=> \E i \in 1..Len(Kept(lines, T)) : place[i] = p
    BY <2>1
  <2>4. place \in [1..Len(k) -> 1..Len(knownHosts)]
    BY ONLY <2>2, <2>3
  <2>5. \A i \in 1..Len(k) : k[i] = knownHosts[place[i]]
    BY ONLY <2>2, <2>3
  <2>6. \A i, j \in 1..Len(k) : i < j => place[i] < place[j]
    BY ONLY <2>2, <2>3
  <2>7. \A p \in 1..Len(knownHosts) : knownHosts[p] \in S <=> \E i \in 1..Len(k) : place[i] = p
    BY ONLY <2>2, <2>3
  <2>8. QED BY ONLY <2>4, <2>5, <2>6, <2>7
<1>5. Len(k) \in Nat /\ Len(knownHosts) \in Nat
  <2>1. k \in Seq(K)
    BY <1>3, KeptPlaces
  <2>2. QED BY <1>1, <2>1
<1>6. PICK i \in 1..Len(k) : k[i].key = key /\ \A j \in 1..i : k[j].marker # "@revoked"
  BY DEF VerifyKnownHostKey, LinesFor, S
<1> USE DEF S
<1> HIDE DEF k
<1>7. /\ place[i] \in 1..Len(knownHosts)
      /\ knownHosts[place[i]] = k[i] /\ knownHosts[place[i]] \in S
  BY <1>4, <1>6
<1>8. k[i].marker # "@revoked"
  BY <1>5, <1>6
<1>9. ASSUME NEW j \in 1..(place[i] - 1), knownHosts[j].marker = "@revoked",
             KnownHostPatternMatches(knownHosts[j].hosts, host)
      PROVE  FALSE
  <2>1. j \in 1..Len(knownHosts) /\ j < place[i]
    BY <1>5, <1>7
  <2>2. knownHosts[j] \in S
    BY <1>9, <2>1 DEF Entries
  <2>3. PICK m \in 1..Len(k) : place[m] = j
    BY <1>4, <2>1, <2>2
  <2>4. m \in 1..i
    <3>1. ~(i < m) /\ i # m
      BY <1>4, <1>5, <1>7, <2>1, <2>3
    <3>2. QED BY <1>5, <3>1
  <2>5. k[m] = knownHosts[j]
    BY <1>4, <2>3
  <2>6. QED BY <1>6, <1>9, <2>4, <2>5
<1>10. QED BY <1>6, <1>7, <1>8, <1>9 DEF Listed

\* The rule that vouches for the key of an open call n.
Vouched(n) ==
    n.stage = "open" =>
        IF n.params.expected # Unset THEN n.key = n.params.expected
        ELSE CASE n.params.hostKeyPolicy = "insecure" -> TRUE
               [] n.params.hostKeyPolicy = "accept-new" ->
                     n.params.host \in DOMAIN pins /\ n.key = pins[n.params.host]
               [] OTHER -> Listed(n.params.host, n.key)

KeyInv ==
    /\ knownHosts \in KnownHosts
    /\ \A c \in Calls : Vouched(call[c])

LEMMA KeyInit == Init => KeyInv
BY DEF Init, KeyInv, Vouched, Idle, In

LEMMA KeyStep == AccessInv /\ KeyInv /\ [Next]_vars => KeyInv'
<1> SUFFICES ASSUME AccessInv, KeyInv, [Next]_vars PROVE KeyInv'
  OBVIOUS
<1>0. CallTable /\ knownHosts \in KnownHosts /\ \A c \in Calls : Vouched(call[c])
  BY DEF AccessInv, KeyInv
\* A key that is vouched for stays so: pins are only added.
<1>1. ASSUME UNCHANGED knownHosts, \A h \in DOMAIN pins : h \in DOMAIN pins' /\ pins'[h] = pins[h],
             NEW n, Vouched(n)
      PROVE  Vouched(n)'
  <2>1. \A h, key : Listed(h, key)' <=> Listed(h, key)
    BY <1>1 DEF Listed
  <2>2. QED BY <1>1, <2>1 DEF Vouched
\* A step that opens nothing.
<1>2. ASSUME UNCHANGED <<pins, knownHosts>>, NEW c \in Calls, NEW n, Continue(c, n), n.stage # "open"
      PROVE  KeyInv'
  <2>1. call'[c] = n /\ \A d \in Calls \ {c} : call'[d] = call[d]
    BY <1>0, <1>2, ContinueOne
  <2>2. \A d \in Calls : Vouched(call'[d])
    BY <1>0, <1>2, <2>1 DEF Vouched
  <2>3. ASSUME NEW d \in Calls PROVE Vouched(call[d])'
    <3>1. PICK m : m = call'[d]
      OBVIOUS
    <3>2. Vouched(m)'
      BY <1>1, <1>2, <2>2, <3>1
    <3>3. QED BY <3>1, <3>2 DEF Vouched
  <2>4. QED BY <1>0, <1>2, <2>3 DEF KeyInv
<1>3. ASSUME UNCHANGED <<call, pins, knownHosts>> PROVE KeyInv'
  <2>1. ASSUME NEW d \in Calls PROVE Vouched(call[d])'
    <3>1. PICK m : m = call[d]
      OBVIOUS
    <3>2. Vouched(m)'
      BY <1>0, <1>1, <1>3, <3>1
    <3>3. QED BY <1>3, <3>1, <3>2 DEF Vouched
  <2>2. QED BY <1>0, <1>3, <2>1 DEF KeyInv
<1>4. ASSUME NEW c \in Calls, NEW r \in Requests, Admit(c, r) PROVE KeyInv'
  <2>1. UNCHANGED <<pins, knownHosts>>
    BY <1>4 DEF Admit
  <2>2. CASE Continue(c, InSession(r, r.params))
    <3>1. InSession(r, r.params).stage # "open"
      BY SessionRecord DEF OpenSession
    <3>2. QED BY <1>2, <2>1, <2>2, <3>1
  <2>3. CASE AfterParser(c, r, now)
    <3>1. PICK t : t = now
      OBVIOUS
    <3>2. AfterParser(c, r, t)
      BY <2>3, <3>1 DEF AfterParser
    <3>3. PICK n : Got(c, r, t, n)
      BY <3>2, ParserGot
    <3>4. Continue(c, n) /\ n.stage # "open"
      BY <3>3 DEF Got
    <3>5. QED BY <1>2, <2>1, <3>4
  <2>4. CASE Continue(c, [In("reading", r) EXCEPT !.start = now])
    <3>1. [In("reading", r) EXCEPT !.start = now].stage # "open"
      BY DEF In
    <3>2. QED BY <1>2, <2>1, <2>4, <3>1
  <2>5. QED BY <1>4, <2>2, <2>3, <2>4 DEF Admit, LookUp
<1>5. ASSUME NEW c \in Calls, ReadConfig(c) PROVE KeyInv'
  <2>1. PICK r, t : r = call[c].request /\ t = call[c].start
    OBVIOUS
  <2>2. AfterParser(c, r, t) /\ call[c].stage = "reading" /\ UNCHANGED <<pins, knownHosts>>
    BY <1>5, <2>1 DEF ReadConfig, Stage, AfterParser
  <2>3. r \in Requests
    BY <2>1, <2>2 DEF AccessInv, Admitted
  <2>4. PICK n : Got(c, r, t, n)
    BY <2>2, <2>3, ParserGot
  <2>5. Continue(c, n) /\ n.stage # "open"
    BY <2>4 DEF Got
  <2>6. QED BY <1>2, <2>2, <2>5
<1>6. ASSUME NEW c \in Calls, NEW a \in Answers, CredentialCommand(c, a) PROVE KeyInv'
  <2> DEFINE w == WithCredentials(call[c].request, call[c].looked.resolved, a)
  <2>1. UNCHANGED <<pins, knownHosts>> /\ call[c].stage = "credentials"
    BY <1>6 DEF CredentialCommand, Stage
  <2>2. CASE Continue(c, Failed(c))
    BY <1>2, <2>1, <2>2 DEF Failed, In
  <2>3. CASE a # Unset /\ Continue(c, w)
    <3>1. a.hostKeyPolicy \in {"strict", "accept-new"} /\ call[c].request \in Requests
      BY <2>1, <2>3, GatewayAssumption DEF AccessInv, Admitted
    <3>2. w.stage # "open"
      BY <3>1, CredentialsAreVetted
    <3> HIDE DEF w
    <3>3. QED BY <1>2, <2>1, <2>3, <3>2
  <2>4. QED BY <1>6, <2>2, <2>3 DEF CredentialCommand
<1>7. ASSUME NEW c \in Calls, NEW readable, BuildAuth(c, readable) PROVE KeyInv'
  <2> DEFINE n == [In("connecting", call[c].request) EXCEPT !.params = call[c].params]
  <2>1. n.stage # "open" /\ Failed(c).stage # "open"
    BY DEF Failed, In
  <2>2. UNCHANGED <<pins, knownHosts>> /\ (Continue(c, Failed(c)) \/ Continue(c, n))
    BY <1>7 DEF BuildAuth
  <2> HIDE DEF n
  <2>3. QED BY <1>2, <2>1, <2>2
<1>8. ASSUME NEW c \in Calls, NEW key \in Keys, NEW accepted \in BOOLEAN, Connect(c, key, accepted)
      PROVE  KeyInv'
  <2>1. PICK p, r : p = call[c].params /\ r = call[c].request
    OBVIOUS
  <2> DEFINE Pins == p.expected = Unset /\ p.hostKeyPolicy = "accept-new" /\ HostVerifier(p, key)
             n == [In("open", r) EXCEPT !.params = p, !.key = key]
  <2>2. /\ UNCHANGED knownHosts
        /\ pins' = IF Pins
                   THEN [h \in DOMAIN pins \cup {p.host} |-> IF h = p.host THEN key ELSE pins[h]]
                   ELSE pins
        /\ \/ HostVerifier(p, key) /\ Continue(c, n)
           \/ Continue(c, Failed(c))
    BY <1>8, <2>1 DEF Connect
  <2>3. \A h \in DOMAIN pins : h \in DOMAIN pins' /\ pins'[h] = pins[h]
    <3>1. CASE Pins
      <4>1. p.host \in DOMAIN pins => pins[p.host] = key
        BY <3>1 DEF HostVerifier, VerifyAcceptNewHostKey
      <4>2. QED BY <2>2, <3>1, <4>1
    <3>2. CASE ~Pins
      BY <2>2, <3>2
    <3>3. QED BY <3>1, <3>2
  <2>4. ASSUME NEW m, Continue(c, m), Vouched(m)' PROVE KeyInv'
    <3>1. call'[c] = m /\ \A d \in Calls \ {c} : call'[d] = call[d]
      BY <1>0, <2>4, ContinueOne
    <3>2. ASSUME NEW d \in Calls PROVE Vouched(call[d])'
      <4>1. CASE d = c
        BY <2>4, <3>1, <4>1 DEF Vouched
      <4>2. CASE d # c
        <5>1. PICK k : k = call[d]
          OBVIOUS
        <5>2. Vouched(k)'
          BY <1>0, <1>1, <2>2, <2>3, <5>1
        <5>3. call'[d] = k
          BY <3>1, <4>2, <5>1
        <5>4. QED BY <5>2, <5>3 DEF Vouched
      <4>3. QED BY <4>1, <4>2
    <3>3. QED BY <1>0, <2>2, <3>2 DEF KeyInv
  <2>5. CASE Continue(c, Failed(c))
    <3>1. PICK m : m = Failed(c)
      OBVIOUS
    <3>2. Continue(c, m) /\ m.stage = "failed"
      BY <2>5, <3>1 DEF Failed, In
    <3>3. Vouched(m)'
      BY <3>2 DEF Vouched
    <3>4. QED BY <2>4, <3>2, <3>3
  <2>6. CASE HostVerifier(p, key) /\ Continue(c, n)
    <3>1. n.params = p /\ n.key = key
      BY DEF In
    <3>2. CASE p.expected # Unset
      <4>1. key = p.expected
        BY <2>6, <3>2 DEF HostVerifier
      <4>2. QED BY <2>4, <2>6, <3>1, <3>2, <4>1 DEF Vouched
    <3>3. CASE p.expected = Unset /\ p.hostKeyPolicy = "insecure"
      BY <2>4, <2>6, <3>1, <3>3 DEF Vouched
    <3>4. CASE p.expected = Unset /\ p.hostKeyPolicy = "accept-new"
      <4>1. p.host \in DOMAIN pins' /\ pins'[p.host] = key
        BY <2>2, <2>6, <3>4
      <4>2. QED BY <2>4, <2>6, <3>1, <3>4, <4>1 DEF Vouched
    <3>5. CASE p.expected = Unset /\ p.hostKeyPolicy \notin {"insecure", "accept-new"}
      <4>1. VerifyKnownHostKey(knownHosts, p.host, key)
        BY <2>6, <3>5 DEF HostVerifier
      <4>2. Listed(p.host, key)
        BY <1>0, <4>1, VerifiedIsListed
      <4>3. Listed(p.host, key)'
        BY <2>2, <4>2 DEF Listed
      <4>4. QED BY <2>4, <2>6, <3>1, <3>5, <4>3 DEF Vouched
    <3>6. QED BY <3>2, <3>3, <3>4, <3>5
  <2>7. QED BY <2>2, <2>5, <2>6
<1>9. ASSUME NEW c \in Calls, Answer(c) PROVE KeyInv'
  <2>1. UNCHANGED <<pins, knownHosts>> /\ Continue(c, Idle)
    BY <1>9 DEF Answer
  <2>2. Idle.stage # "open"
    BY DEF Idle, In
  <2>3. QED BY <1>2, <2>1, <2>2
<1>10. ASSUME NEW env \in Environments, Start(env) PROVE KeyInv'
  BY <1>3, <1>10 DEF Start
<1>11. CASE Tick \/ (\E f \in Files : Edit(f)) \/ UNCHANGED vars
  BY <1>3, <1>11 DEF Tick, Edit, gatewayVars, vars
<1>12. QED
  BY <1>4, <1>5, <1>6, <1>7, <1>8, <1>9, <1>10, <1>11 DEF Next

LEMMA KeyInvariant == Spec => []KeyInv
BY AccessInvariant, KeyInit, KeyStep, PTL DEF Spec

\* ConnectedKeyIsTrusted for every known_hosts file, any keys the hosts present, any order
\* of successful and failed connections: the key of an open session is the expected one, a
\* listed one with no revocation above it, or the one key pinned for the host
\* (connectConfig.hostVerifier).
THEOREM ConnectedKeysAreTrusted == Spec => []ConnectedKeyIsTrusted
<1>1. KeyInv => ConnectedKeyIsTrusted
  BY DEF KeyInv, Vouched, ConnectedKeyIsTrusted, Stage
<1>2. QED BY <1>1, KeyInvariant, PTL

-----------------------------------------------------------------------------
(* Paths and prefixes. *)

\* The texts of segments; the provers do not know that those of DEFAULT_CONFIG are texts.
Segments ==
    STRING \cup {"", "tmp", "var", "home", "Users", "etc", "sudoers", "shadow", "passwd", "boot", "dev", "proc"}

LEMMA SegmentsAreTexts == Seq(STRING) \subseteq Seq(Segments)
<1>1. STRING \subseteq Segments
  BY Zenon DEF Segments
<1>2. \A S, T : S \subseteq T => Seq(S) \subseteq Seq(T)
  OBVIOUS
<1>3. QED BY <1>1, <1>2, Zenon

\* Places and pieces are made of segments.
LEMMA PlacesAreSegments ==
    /\ <<>> \in Seq(Segments) /\ Home \in Seq(Segments) /\ Cwd \in Seq(Segments)
    /\ \A s \in DOMAIN Pieces : Pieces[s] \in Seq(Segments)
    /\ \A place \in DOMAIN RealPaths : RealPaths[place] \in Seq(Segments)
<1>1. <<>> \in Seq(Segments)
  OBVIOUS
<1>2. QED BY <1>1, OperationsAssumption, SegmentsAreTexts

\* A path taken from a place is a path from the root, and its normal form is the place it
\* leads to.
LEMMA AbsoluteIsFollowed ==
    ASSUME NEW path \in Seq(Segments), NEW start \in Seq(Segments)
    PROVE  /\ PosixNormalize(Absolute(path, start)).names = Follow(Absolute(path, start))
           /\ Follow(Absolute(path, start)) \in Seq(Segments)
           /\ Rooted(start) \in Seq(Segments)
<1>1. PICK e \in Segments : e = ""
  BY Zenon DEF Segments
<1>2. /\ Rooted(start) \in Seq(Segments)
      /\ Absolute(path, start) \in Seq(Segments) /\ IsAbsolute(Absolute(path, start))
  BY <1>1, AbsoluteBegins, Zenon
<1>3. PICK p \in Seq(Segments) : p = Absolute(path, start) /\ IsAbsolute(p)
  BY <1>2
<1>4. PosixNormalize(p) = [from |-> "/", names |-> Follow(p)] /\ Follow(p) \in Seq(Segments)
  BY <1>3, NormalizeFollows
<1>5. QED BY <1>2, <1>3, <1>4

\* So the policy compares the place itself with its prefixes: on the host for the paths the
\* host and the policy read alike,
LEMMA RemoteNormalizedIsWalked ==
    ASSUME NEW path \in Seq(Segments)
    PROVE  /\ NormalizeRemotePosixPath(path) = Directory(path)
           /\ Directory(path) \in Seq(Segments)
           /\ ReadAlike(path) => Walk(path) = Directory(path)
<1>1. PICK slashed \in Seq(Segments) : slashed = Slashed(path, Pieces)
  BY PlacesAreSegments, SlashedIsPath
<1>2. /\ NormalizeRemotePosixPath(path) = Directory(path)
      /\ Directory(path) \in Seq(Segments)
  BY <1>1, PlacesAreSegments, AbsoluteIsFollowed DEF NormalizeRemotePosixPath, Directory
<1>3. ASSUME ReadAlike(path) PROVE Walk(path) = Directory(path)
  <2>1. slashed = path
    BY <1>1, <1>3, PlacesAreSegments, SlashedIsPath DEF ReadAlike
  <2>2. Absolute(path, Home) = Absolute(path, <<>>)
    BY <1>3 DEF ReadAlike, Absolute
  <2>3. QED BY <1>1, <2>1, <2>2 DEF Walk, Directory
<1>4. QED BY <1>2, <1>3

\* and, with symbolic links resolved, on this machine.
LEMMA LocalNormalizedIsReached ==
    ASSUME NEW path \in Seq(Segments)
    PROVE  /\ NormalizeLocalPolicyPath(path) = Reached(path)
           /\ Reached(path) \in Seq(Segments) /\ PathResolve(path) \in Seq(Segments)
<1>1. PICK place \in Seq(Segments) : place = Follow(Absolute(path, Cwd)) /\ place = PathResolve(path)
  BY PlacesAreSegments, AbsoluteIsFollowed DEF PathResolve
<1>2. QED BY <1>1, PlacesAreSegments DEF NormalizeLocalPolicyPath, Reached

\* isPathUnder ends its match at a segment.
LEMMA UnderIsInside ==
    ASSUME NEW path \in Seq(Segments), NEW prefix \in Seq(Segments)
    PROVE  IsPathUnder(path, prefix) <=> Under(path, prefix)
<1>1. Len(path) \in Nat /\ Len(prefix) \in Nat /\ SubSeq(prefix, 1, Len(prefix)) = prefix
  OBVIOUS
<1>2. \A n \in 0..Len(path) : Len(SubSeq(path, 1, n)) = n
  OBVIOUS
<1>3. SubSeq(path, 1, 0) = <<>> /\ 0 \in 0..Len(path)
  OBVIOUS
<1>4. ASSUME Under(path, prefix) PROVE IsPathUnder(path, prefix)
  <2>1. PICK n \in 0..Len(path) : SubSeq(path, 1, n) = prefix
    BY <1>4 DEF Under
  <2>2. n = Len(prefix) /\ n <= Len(path)
    BY <2>1, <1>1, <1>2
  <2>3. QED BY <2>1, <2>2, <1>1 DEF IsPathUnder, IsPrefix
<1>5. ASSUME IsPathUnder(path, prefix) PROVE Under(path, prefix)
  <2>1. CASE prefix = <<>>
    BY <2>1, <1>3 DEF Under
  <2>2. CASE IsPrefix(prefix, path)
    <3>1. Len(prefix) \in 0..Len(path) /\ SubSeq(path, 1, Len(prefix)) = prefix
      BY <2>2, <1>1 DEF IsPrefix
    <3>2. QED BY <3>1 DEF Under
  <2>3. QED BY <1>5, <2>1, <2>2 DEF IsPathUnder
<1>6. QED BY <1>4, <1>5

-----------------------------------------------------------------------------
(* What the policy of a session and its operations name. *)

\* The defaults are paths.
LEMMA DefaultPrefixes == \A k \in PathSettings : k \in DOMAIN DefaultPolicy /\ DefaultPolicy[k] \subseteq Seq(Segments)
<1>1. PICK e \in Segments : e = ""
  BY DEF Segments
<1>2. /\ DefaultPolicy.pathAllowPrefixes = {<<e, "tmp">>, <<e, "var", "tmp">>, <<e, "home">>, <<e, "Users">>}
      /\ DefaultPolicy.pathDenyPrefixes =
            {<<e, "etc", "sudoers">>, <<e, "etc", "shadow">>, <<e, "etc", "passwd">>,
             <<e, "boot">>, <<e, "dev">>, <<e, "proc">>}
      /\ DefaultPolicy.localPathAllowPrefixes = {<<e, "tmp">>}
      /\ DefaultPolicy.localPathDenyPrefixes = {}
      /\ PathSettings \subseteq DOMAIN DefaultPolicy
  BY <1>1 DEF DefaultPolicy, PathSettings
<1>3. {"tmp", "var", "home", "Users", "etc", "sudoers", "shadow", "passwd", "boot", "dev", "proc"} \subseteq Segments
  BY DEF Segments
<1> HIDE DEF Segments
<1>4. /\ <<e, "tmp">> \in Seq(Segments) /\ <<e, "var", "tmp">> \in Seq(Segments)
      /\ <<e, "home">> \in Seq(Segments) /\ <<e, "Users">> \in Seq(Segments)
  BY ONLY <1>3, e \in Segments
<1>5. /\ <<e, "etc", "sudoers">> \in Seq(Segments) /\ <<e, "etc", "shadow">> \in Seq(Segments)
      /\ <<e, "etc", "passwd">> \in Seq(Segments) /\ <<e, "boot">> \in Seq(Segments)
      /\ <<e, "dev">> \in Seq(Segments) /\ <<e, "proc">> \in Seq(Segments)
  BY ONLY <1>3, e \in Segments
<1>6. QED BY <1>2, <1>4, <1>5 DEF PathSettings

\* So are the prefixes of a loaded policy, from the environment, the file or the defaults.
LEMMA LoadedPrefixes ==
    ASSUME NEW env \in Environments, PolicyFileLoads(env)
    PROVE  \A k \in PathSettings : LoadPolicy(env)[k] \subseteq Seq(Segments)
<1> SUFFICES ASSUME NEW k \in PathSettings PROVE LoadPolicy(env)[k] \subseteq Seq(Segments)
  OBVIOUS
<1>1. k \in DOMAIN DefaultPolicy /\ DefaultPolicy[k] \subseteq Seq(Segments)
  BY DefaultPrefixes
<1>2. PICK below : below = FilePolicy(env)
  OBVIOUS
<1>3. below[k] \subseteq Seq(Segments)
  <2>1. CASE Env(env, "policyFile") = Unset
    BY <2>1, <1>1, <1>2 DEF FilePolicy
  <2>2. CASE Env(env, "policyFile") # Unset
    <3>1. PICK given : given = env.policyFile
      OBVIOUS
    <3>2. Env(env, "policyFile") = given /\ given # Unset /\ given # Unreadable
      BY <2>2, <3>1 DEF Env, PolicyFileLoads
    <3>3. k \in DOMAIN given => given[k] \subseteq Seq(Segments)
      BY <3>1, <3>2, OperationsAssumption, SegmentsAreTexts
    <3>4. below = Spread(given, DefaultPolicy)
      BY <1>2, <2>2, <3>1 DEF FilePolicy
    <3>5. QED BY <1>1, <3>3, <3>4 DEF Spread
  <2>3. QED BY <2>1, <2>2
<1>4. LoadPolicy(env)[k] = ParseList(Env(env, k), below[k])
  <2>1. k \notin PolicyBooleans /\ k # "mode" /\ k # "allowRootLogin"
    BY DEF PathSettings, PolicyBooleans
  <2> HIDE DEF PathSettings
  <2>2. QED BY <1>1, <1>2, <2>1 DEF LoadPolicy
<1>5. Env(env, k) = Unset \/ Env(env, k) \subseteq Seq(Segments)
  BY OperationsAssumption, SegmentsAreTexts DEF Env
<1>6. QED BY <1>3, <1>4, <1>5 DEF ParseList

\* A context of an operation has the fields of every context, and names paths.
LEMMA ContextPaths ==
    ASSUME NEW o \in Operations, o.tool \in TransferTools => LocalResolves(o), NEW x \in Contexts(o)
    PROVE  /\ DOMAIN x = DOMAIN NoContext
           /\ \A path \in PathsOf(x) : path \in Seq(Segments)
<1> DEFINE Good(y) == /\ DOMAIN y = DOMAIN NoContext
                      /\ y.path \in Seq(Segments) \cup {Unset}
                      /\ y.secondaryPath \in Seq(Segments) \cup {Unset}
<1>1. o.tool \in CommandTools \cup PathTools \cup {"tunnel_local_forward"}
  BY OperationsAssumption
<1>2. o.tool \in PathTools => o.path \in Seq(Segments)
  BY OperationsAssumption, SegmentsAreTexts
<1>3. o.tool = "fs_rename" => o.to \in Seq(Segments)
  BY OperationsAssumption, SegmentsAreTexts
<1>4. ASSUME NEW a, NEW b, NEW c, NEW d, NEW e
      PROVE  Good([NoContext EXCEPT !.action = a, !.command = b, !.rawSudo = c,
                                    !.destructive = d]) /\ NoContext.path = Unset
  BY DEF NoContext
<1>5. ASSUME o.tool \in TransferTools
      PROVE  /\ o.local \in Seq(Segments)
             /\ LocalTarget(o.local) \in Seq(Segments)
             /\ o.tool = "file_download" => LocalDirectory(o.local) \in Seq(Segments)
  <2>1. o.local \in Seq(Segments) /\ LocalResolves(o)
    BY <1>5, OperationsAssumption, SegmentsAreTexts
  <2>2. PICK absolute \in Seq(Segments) : absolute = PathResolve(o.local)
    BY <2>1, LocalNormalizedIsReached
  <2>3. \A r \in Seq(Segments) : Rooted(r) \in Seq(Segments)
    BY AbsoluteIsFollowed
  <2>4. CASE absolute \in DOMAIN RealPaths
    BY <2>1, <2>2, <2>3, <2>4, PlacesAreSegments DEF LocalTarget, LocalResolves, LocalDirectory
  <2>5. CASE absolute \notin DOMAIN RealPaths
    <3>1. o.tool = "file_download" /\ Parent(absolute) \in DOMAIN RealPaths
      BY <1>5, <2>1, <2>2, <2>5 DEF LocalResolves, TransferTools
    <3>2. absolute # <<>>
      BY <3>1, <2>5 DEF Parent
    <3>3. Last(absolute) \in Segments
      BY <3>2 DEF Last
    <3>4. PICK r \in Seq(Segments) : r = RealPaths[Parent(absolute)]
      BY <3>1, PlacesAreSegments
    <3>5. Append(r, Last(absolute)) \in Seq(Segments)
      BY <3>3
    <3>6. QED BY <2>1, <2>2, <2>3, <2>5, <3>4, <3>5 DEF LocalTarget, LocalDirectory
  <2>6. QED BY <2>4, <2>5
<1>6. Good(x)
  <2>1. CASE o.tool \in {"proc_exec", "proc_sudo", "tunnel_local_forward"}
    BY <2>1 DEF Contexts, NoContext
  <2>2. CASE o.tool \in {"ensure_lines_in_file", "fs_read", "fs_write", "fs_rmrf"}
    <3>1. PICK p \in Seq(Segments) : p = o.path
      BY <2>2, <1>2 DEF PathTools
    <3>2. QED BY <2>2, <3>1 DEF Contexts, NoContext
  <2>3. CASE o.tool = "fs_rename"
    <3>1. PICK p \in Seq(Segments), q \in Seq(Segments) : p = o.path /\ q = o.to
      BY <2>3, <1>2, <1>3 DEF PathTools
    <3>2. QED BY <2>3, <3>1 DEF Contexts, NoContext
  <2>4. CASE o.tool = "file_upload"
    <3>1. PICK p \in Seq(Segments), q \in Seq(Segments) : p = o.path /\ q = LocalTarget(o.local)
      BY <2>4, <1>2, <1>5 DEF PathTools, TransferTools
    <3>2. QED BY <2>4, <3>1 DEF Contexts, NoContext
  <2>5. CASE o.tool = "file_download"
    <3>1. PICK p \in Seq(Segments), q \in Seq(Segments), r \in Seq(Segments) :
             p = o.path /\ q = LocalTarget(o.local)
             /\ r = LocalDirectory(o.local)
      BY <2>5, <1>2, <1>5 DEF PathTools, TransferTools
    <3>2. PICK a : a = IF PathResolve(o.local) \in DOMAIN RealPaths
                       THEN "transfer.local.overwrite" ELSE "transfer.local.create"
      OBVIOUS
    <3>3. x \in {[NoContext EXCEPT !.action = "transfer.download", !.path = p],
                 [NoContext EXCEPT !.action = a, !.path = q, !.secondaryPath = r]}
      BY <2>5, <3>1, <3>2 DEF Contexts
    <3>4. QED BY <3>3, <3>1 DEF NoContext
  <2>6. QED BY <1>1, <2>1, <2>2, <2>3, <2>4, <2>5 DEF CommandTools, PathTools, TransferTools
<1>7. QED BY <1>6 DEF PathsOf

\* What an operation that is let through names lies where the policy of the configuration
\* leads, for any policy, environment, operations and symbolic links: on this machine however
\* the path is spelled, on the host for the paths the host and the policy read alike
\* (PolicyEngine.evaluate, the contexts of the tools, openSession's policy mode).
THEOREM OperationsStayInsideThePolicy == Spec => []OperationsStayInside
<1>1. AccessInv => OperationsStayInside
  <2> SUFFICES ASSUME AccessInv, NEW c \in Calls, NEW o \in Operations, MayOperate(c, o),
                      NEW x \in Contexts(o), NEW path \in PathsOf(x)
               PROVE  LET p == config.policy
                      IN IF x.action \in LocalTransferActions
                         THEN /\ \E a \in p.localPathAllowPrefixes : Under(Reached(path), Reached(a))
                              /\ \A d \in p.localPathDenyPrefixes : ~Under(Reached(path), Reached(d))
                         ELSE ReadAlike(path) =>
                              /\ \A d \in p.pathDenyPrefixes : ~Under(Walk(path), Directory(d))
                              /\ (x.destructive /\ ~p.allowDestructiveFs) =>
                                    \E a \in AllowPrefixes(p) : Under(Walk(path), Directory(a))
    BY DEF OperationsStayInside
  <2>1. /\ call[c].stage = "open" /\ call[c].request.tool = "ssh_open_session"
        /\ o.tool \in TransferTools => LocalResolves(o)
        /\ AssertAllowed(config.policy, [x EXCEPT !.mode = call[c].params.policyMode])
    BY DEF MayOperate, Stage
  <2>2. config # Unset /\ call[c].params.policyMode = "enforce"
    BY <2>1 DEF AccessInv, Admitted, InSessionStages
  <2>3. PICK env \in Environments : PolicyFileLoads(env) /\ config = LoadConfig(env)
    BY <2>2 DEF AccessInv, Loaded
  <2>4. PICK p : p = config.policy
    OBVIOUS
  <2>5. \A k \in PathSettings : p[k] \subseteq Seq(Segments)
    <3>1. p = LoadPolicy(env)
      BY <2>3, <2>4 DEF LoadConfig
    <3>2. QED BY <2>3, <3>1, LoadedPrefixes
  <2>6. DOMAIN x = DOMAIN NoContext /\ path \in Seq(Segments)
    BY <2>1, ContextPaths
  <2>7. PICK y : y = [x EXCEPT !.mode = "enforce"]
    OBVIOUS
  <2>8. /\ y.mode = "enforce" /\ y.action = x.action /\ y.destructive = x.destructive
        /\ y.path = x.path /\ y.secondaryPath = x.secondaryPath
    BY <2>6, <2>7 DEF NoContext
  <2>9. Evaluate(p, y).allowed
    <3>1. AssertAllowed(p, y)
      BY <2>1, <2>2, <2>4, <2>7
    <3>2. Evaluate(p, y).mode = Either("enforce", p.mode)
      BY <2>8 DEF Evaluate
    <3>3. Either("enforce", p.mode) = "enforce"
      BY GatewayAssumption DEF Either
    <3>4. QED BY <3>1, <3>2, <3>3 DEF AssertAllowed
  <2>10. path \in PathsOf(y)
    BY <2>8 DEF PathsOf
  <2>11. CASE x.action \in LocalTransferActions
    <3>1. ~LocalPathDenied(p, path)
      BY <2>8, <2>9, <2>10, <2>11 DEF Evaluate
    <3>2. PICK l \in Seq(Segments) : l = Reached(path) /\ l = NormalizeLocalPolicyPath(path)
      BY <2>6, LocalNormalizedIsReached
    <3>3. /\ \A d \in p.localPathDenyPrefixes : ~IsPathUnder(l, NormalizeLocalPolicyPath(d))
          /\ \E a \in p.localPathAllowPrefixes : IsPathUnder(l, NormalizeLocalPolicyPath(a))
      BY <3>1, <3>2 DEF LocalPathDenied
    <3>4. /\ p.localPathDenyPrefixes \subseteq Seq(Segments)
          /\ p.localPathAllowPrefixes \subseteq Seq(Segments)
      BY <2>5 DEF PathSettings
    <3>5. ASSUME NEW d \in p.localPathDenyPrefixes PROVE ~Under(l, Reached(d))
      BY <3>3, <3>4, LocalNormalizedIsReached, UnderIsInside
    <3>6. \E a \in p.localPathAllowPrefixes : Under(l, Reached(a))
      BY <3>3, <3>4, LocalNormalizedIsReached, UnderIsInside
    <3>7. QED BY <2>4, <2>11, <3>2, <3>5, <3>6
  <2>12. ASSUME x.action \notin LocalTransferActions, ReadAlike(path)
         PROVE  /\ \A d \in p.pathDenyPrefixes : ~Under(Walk(path), Directory(d))
                /\ (x.destructive /\ ~p.allowDestructiveFs) =>
                      \E a \in AllowPrefixes(p) : Under(Walk(path), Directory(a))
    <3>1. ~RemotePathDenied(p, y, path)
      BY <2>8, <2>9, <2>10, <2>12 DEF Evaluate
    <3>2. PICK l \in Seq(Segments) : l = Walk(path) /\ l = NormalizeRemotePosixPath(path)
      BY <2>6, <2>12, RemoteNormalizedIsWalked
    <3>3. /\ \A d \in p.pathDenyPrefixes : ~IsPathUnder(l, NormalizeRemotePosixPath(d))
          /\ x.destructive /\ ~p.allowDestructiveFs =>
                \E a \in AllowPrefixes(p) : IsPathUnder(l, NormalizeRemotePosixPath(a))
      BY <3>1, <3>2, <2>8 DEF RemotePathDenied
    <3>4. p.pathDenyPrefixes \subseteq Seq(Segments) /\ AllowPrefixes(p) \subseteq Seq(Segments)
      BY <2>5, DefaultPrefixes DEF PathSettings, AllowPrefixes
    <3>5. ASSUME NEW d \in p.pathDenyPrefixes PROVE ~Under(l, Directory(d))
      BY <3>3, <3>4, RemoteNormalizedIsWalked, UnderIsInside
    <3>6. ASSUME x.destructive, ~p.allowDestructiveFs
          PROVE  \E a \in AllowPrefixes(p) : Under(l, Directory(a))
      BY <3>3, <3>4, <3>6, RemoteNormalizedIsWalked, UnderIsInside
    <3>7. QED BY <3>2, <3>5, <3>6
  <2>13. QED BY <2>4, <2>11, <2>12
<1>2. QED BY <1>1, AccessInvariant, PTL

=============================================================================
