------------------------------ MODULE Settings ------------------------------
(***************************************************************************)
(* The server's configuration, as src/config.ts computes it from the       *)
(* environment, the policy file and the defaults.                          *)
(*                                                                         *)
(* An environment is a function from the settings it gives to their        *)
(* values; a setting is named after the field it sets.  A boolean is       *)
(* TRUE for the words parseBoolean knows and FALSE for any other text; a   *)
(* list is a set, {} when blank.  Programmatic overrides are only passed   *)
(* by tests.  Sizes and timeouts of other modules are their constants.     *)
(***************************************************************************)
EXTENDS JsMap, TLC

CONSTANTS
    Unset,       \* the variable is not in the environment; no value
    Unreadable   \* a policy file that cannot be read or parsed

ToolProfiles == {"full", "remote-safe", "chatgpt", "claude", "remote-readonly", "remote-broker"}
HostKeyPolicies == {"strict", "accept-new", "insecure"}
CredentialProviders == {"none", "agent", "command"}
AuthModes == {"bearer", "oauth"}

\* DEFAULT_CONFIG.policy.  Paths are texts split at "/", see HostPaths.
DefaultPolicy ==
    [mode |-> "enforce",
     allowRootLogin |-> FALSE,
     allowRawSudo |-> FALSE,
     allowDestructiveCommands |-> FALSE,
     allowDestructiveFs |-> FALSE,
     allowedHosts |-> {},
     commandAllow |-> {},
     commandDeny |-> {},
     pathAllowPrefixes |-> {<<"", "tmp">>, <<"", "var", "tmp">>, <<"", "home">>, <<"", "Users">>},
     pathDenyPrefixes |-> {<<"", "etc", "sudoers">>, <<"", "etc", "shadow">>, <<"", "etc", "passwd">>,
                           <<"", "boot">>, <<"", "dev">>, <<"", "proc">>},
     localPathAllowPrefixes |-> {<<"", "tmp">>},
     localPathDenyPrefixes |-> {},
     tunnelAllowBindHosts |-> {"127.0.0.1", "localhost", "::1"},
     tunnelDenyBindHosts |-> {"0.0.0.0", "::"},
     tunnelAllowRemoteHosts |-> {},
     tunnelDenyRemoteHosts |-> {},
     tunnelAllowPorts |-> {},
     tunnelDenyPorts |-> {}]

\* The rest of DEFAULT_CONFIG that the environment can change.
DefaultSettings ==
    [hostKeyPolicy |-> "strict", allowRootLogin |-> FALSE,
     host |-> "127.0.0.1", allowedOrigins |-> {"http://127.0.0.1", "http://localhost"},
     toolProfile |-> "full", credentialProvider |-> "none",
     authMode |-> "bearer", oauthRequiredScopes |-> {"mcp-ssh-tool.read"}]

PolicyBooleans == {"allowRawSudo", "allowDestructiveCommands", "allowDestructiveFs"}

-----------------------------------------------------------------------------
\* process.env[k].
Env(env, k) == IF k \in DOMAIN env THEN env[k] ELSE Unset

\* a ?? b.
Either(a, b) == IF a # Unset THEN a ELSE b

\* parseBoolean.
ParseBoolean(v, fallback) == Either(v, fallback)

\* parseList(v).length ? parseList(v) : fallback.
ParseList(v, fallback) == IF v \in {Unset, {}} THEN fallback ELSE v

\* parseHostKeyPolicy, parseCredentialProvider, parseAuthMode and parseToolProfile:
\* a text that is not one of the words is ignored.
ParseWord(v, words, fallback) == IF v \in words THEN v ELSE fallback

-----------------------------------------------------------------------------
\* config.security: the deprecated booleans give way to the policy by name.
LoadHostKeyPolicy(env) ==
    LET strict == Either(Env(env, "STRICT_HOST_KEY_CHECKING"), Env(env, "strictHostKey"))
        legacy == IF ParseBoolean(strict, TRUE) THEN "strict" ELSE "insecure"
    IN ParseWord(Env(env, "hostKeyPolicy"), HostKeyPolicies,
                 IF strict = Unset THEN DefaultSettings.hostKeyPolicy ELSE legacy)

\* config.security.allowRootLogin.
LoadRootLogin(env) == ParseBoolean(Env(env, "allowRootLogin"), DefaultSettings.allowRootLogin)

\* loadPolicyFile: a file named but unreadable stops the start.
PolicyFileLoads(env) == Env(env, "policyFile") # Unreadable

\* loadPolicyFile: what the file gives, with the defaults under it.
FilePolicy(env) ==
    IF Env(env, "policyFile") = Unset THEN DefaultPolicy ELSE Spread(env["policyFile"], DefaultPolicy)

\* config.policy: the environment over the file over the defaults.  The mode can only
\* be turned to explain; the file's allowRootLogin is replaced by the security setting.
LoadPolicy(env) ==
    LET below == FilePolicy(env)
    IN [k \in DOMAIN DefaultPolicy |->
          CASE k = "mode" -> IF Env(env, k) = "explain" THEN "explain" ELSE below[k]
            [] k = "allowRootLogin" -> LoadRootLogin(env)
            [] k \in PolicyBooleans -> ParseBoolean(Env(env, k), below[k])
            [] OTHER -> ParseList(Env(env, k), below[k])]

\* config.http.  An empty text for the token file or the URL is no value.
LoadHttp(env) ==
    [host |-> Either(Env(env, "host"), DefaultSettings.host),
     allowedOrigins |-> ParseList(Env(env, "allowedOrigins"), DefaultSettings.allowedOrigins),
     bearerTokenFile |-> Env(env, "bearerTokenFile"),
     publicUrl |-> Env(env, "publicUrl")]

\* config.connector.
LoadConnector(env) ==
    [toolProfile |-> ParseWord(Either(Env(env, "toolProfile"), Env(env, "connectorProfile")),
                               ToolProfiles, DefaultSettings.toolProfile),
     credentialProvider |-> ParseWord(Env(env, "credentialProvider"), CredentialProviders,
                                      DefaultSettings.credentialProvider),
     credentialCommand |-> Env(env, "credentialCommand"),
     defaultUsername |-> Env(env, "defaultUsername")]

\* config.auth.
LoadAuth(env) ==
    [mode |-> ParseWord(Env(env, "authMode"), AuthModes, DefaultSettings.authMode),
     oauthIssuer |-> Env(env, "oauthIssuer"),
     oauthAudience |-> Either(Env(env, "oauthAudience"), Env(env, "oauthResource")),
     oauthJwksUrl |-> Env(env, "oauthJwksUrl"),
     oauthRequiredScopes |-> ParseList(Env(env, "oauthRequiredScopes"),
                                       DefaultSettings.oauthRequiredScopes)]

\* loadConfig, when the policy file loads.
LoadConfig(env) ==
    [hostKeyPolicy |-> LoadHostKeyPolicy(env), allowRootLogin |-> LoadRootLogin(env),
     policy |-> LoadPolicy(env), http |-> LoadHttp(env),
     connector |-> LoadConnector(env), auth |-> LoadAuth(env)]
=============================================================================
