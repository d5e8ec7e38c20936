----------------------------- MODULE HttpAccess -----------------------------
(***************************************************************************)
(* Who reaches the tools over HTTP: the startup check and the origin rule  *)
(* of src/http-security.ts, the bearer check of src/auth.ts, the OAuth     *)
(* check of src/oauth.ts and the tool profiles of src/connector-profile.ts *)
(* as src/server-http.ts and src/tools/registry.ts apply them.             *)
(*                                                                         *)
(* A request is a record [origin, token, tool, ...].  Its token is Unset,  *)
(* a bearer text, or the claims of a JWT: [signed, kid, alg, current, iss, *)
(* aud, scopes].  jose verifies signatures and times (external).           *)
(***************************************************************************)
EXTENDS Settings

CONSTANTS
    Loopback,      \* texts isLoopbackHost accepts
    PublicUrls,    \* HTTPS URLs of hosts that are not loopback
    Secret,        \* content of the bearer token file, trimmed: [text |-> ...]
    Empty,         \* an empty text
    RequestUrl     \* the MCP URL as the Host header of a request spells it

\* REMOTE_CONNECTOR_TOOLS.
ConnectorTools ==
    {"connector_status", "ssh_hosts_list", "ssh_policy_explain", "ssh_host_inspect",
     "ssh_mutation_plan"}

-----------------------------------------------------------------------------
\* bearerToken of server-http.ts.
BearerToken(cfg) == IF cfg.http.bearerTokenFile = Unset THEN Unset ELSE Secret

\* Mutant: being bound to another address is enough, the origins count as a check.
StartsWithOrigins(cfg) ==
    /\ BearerToken(cfg) # Empty
    /\ \/ cfg.http.host \in Loopback
       \/ /\ cfg.http.allowedOrigins # {}
          /\ cfg.http.publicUrl \in PublicUrls
          /\ cfg.connector.toolProfile # "full"
          /\ cfg.policy.allowedHosts # {}
          /\ cfg.hostKeyPolicy = "strict"

\* validateHttpStartupConfig does not throw.
ValidateHttpStartupConfig(cfg) ==
    /\ BearerToken(cfg) # Empty
    /\ \/ cfg.http.host \in Loopback
       \/ /\ \/ BearerToken(cfg) # Unset
             \/ /\ cfg.auth.mode = "oauth"
                /\ cfg.auth.oauthIssuer # Unset /\ cfg.auth.oauthJwksUrl # Unset
          /\ cfg.http.allowedOrigins # {}
          /\ cfg.http.publicUrl \in PublicUrls
          /\ cfg.connector.toolProfile # "full"
          /\ cfg.policy.allowedHosts # {}
          /\ cfg.hostKeyPolicy = "strict"

\* isOriginAllowed.
IsOriginAllowed(origin, allowedOrigins) ==
    origin = Unset \/ allowedOrigins = {} \/ origin \in allowedOrigins

\* isBearerAuthorizationValid; a token is compared by its text.
IsBearerAuthorizationValid(token, expected) == token # Unset /\ expected # Empty /\ token = expected

\* verifyOAuthAuthorization with jwtVerify, and validateClaims.  jose checks the
\* signature with a key of the JWKS and the times; only RS256 with a kid is accepted.
IsOAuthAuthorizationValid(token, auth, audience) ==
    /\ auth.oauthIssuer # Unset /\ auth.oauthJwksUrl # Unset
    /\ token # Unset /\ "iss" \in DOMAIN token
    /\ token.signed /\ token.current /\ token.kid /\ token.alg = "RS256"
    /\ token.iss = auth.oauthIssuer
    /\ audience \in token.aud
    /\ auth.oauthRequiredScopes \subseteq token.scopes

\* rejectIfUnauthorized lets the request through.  In OAuth mode the bearer token of
\* the file is not looked at.
Authorized(cfg, r) ==
    /\ IsOriginAllowed(r.origin, cfg.http.allowedOrigins)
    /\ IF cfg.auth.mode = "oauth"
       THEN IsOAuthAuthorizationValid(r.token, cfg.auth,
                Either(cfg.auth.oauthAudience, Either(cfg.http.publicUrl, RequestUrl)))
       ELSE BearerToken(cfg) # Unset => IsBearerAuthorizationValid(r.token, BearerToken(cfg))

\* isToolAllowedForProfile, in the registry's dispatch.
IsToolAllowedForProfile(tool, profile) == profile = "full" \/ tool \in ConnectorTools
=============================================================================
