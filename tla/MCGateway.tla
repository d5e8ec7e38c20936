----------------------------- MODULE MCGateway -----------------------------
EXTENDS Gateway

MCSecret == [text |-> "s3cret"]

\* A token of the issuer, one without the scope, and one of another audience.
Jwt == [signed |-> TRUE, current |-> TRUE, kid |-> TRUE, alg |-> "RS256", iss |-> "issuer",
        aud |-> {"https://ssh.example/mcp"}, scopes |-> {"mcp-ssh-tool.read"}]
Unscoped == [Jwt EXCEPT !.scopes = {}]

Exposed == [host |-> "0.0.0.0", allowedOrigins |-> {"https://app.example"},
            publicUrl |-> "https://ssh.example/mcp", toolProfile |-> "remote-safe",
            allowedHosts |-> {"web", "^db"}, defaultUsername |-> "deploy"]

MCEnvironments ==
    { \* local, all defaults, with a policy file that also asks for root
     [policyFile |-> [allowRootLogin |-> TRUE, pathAllowPrefixes |-> {<<"", "srv">>, <<"tmp", "..", "opt", "">>},
                      localPathDenyPrefixes |-> {<<"", "tmp", "keys">>}]],
     \* local, destructive operations and tunnels opened up, explain mode, unknown words
     [mode |-> "explain", allowDestructiveFs |-> TRUE, allowRawSudo |-> TRUE,
      strictHostKey |-> FALSE, hostKeyPolicy |-> "accept-new", toolProfile |-> "everything",
      tunnelAllowPorts |-> {<<2, 3>>, <<9, 1>>}, commandAllow |-> {"^u"}],
     \* reachable, with a token file and the agent
     [bearerTokenFile |-> "token", credentialProvider |-> "agent"] @@ Exposed,
     \* reachable, with OAuth and the credential command
     [authMode |-> "oauth", oauthIssuer |-> "issuer", oauthJwksUrl |-> "jwks",
      credentialProvider |-> "command", credentialCommand |-> "broker"] @@ Exposed,
     \* reachable without authentication
     [credentialProvider |-> "agent"] @@ Exposed,
     [policyFile |-> Unreadable]}

Plain == [host |-> "h1", policyHost |-> Unset, username |-> "deploy", auth |-> "auto",
          secret |-> Unset, hostKeyPolicy |-> "strict", strictHostKeyChecking |-> Unset,
          expected |-> Unset, policyMode |-> "enforce"]

Open(p) == [origin |-> Unset, token |-> Unset, tool |-> "ssh_open_session", alias |-> "h1", params |-> p]
Ask(tool, alias, origin, token) ==
    [origin |-> origin, token |-> token, tool |-> tool, alias |-> alias, params |-> Unset]

MCRequests ==
    {Open([Plain EXCEPT !.auth = "password", !.secret = "password"]),
     Open([Plain EXCEPT !.hostKeyPolicy = "accept-new"]),
     Open([Plain EXCEPT !.policyMode = "explain"]),
     Open([Plain EXCEPT !.username = "root"]),
     Ask("ssh_resolve_host", "web", Unset, Unset),
     Ask("ssh_host_inspect", "web", Unset, MCSecret),
     Ask("ssh_host_inspect", "web", "https://app.example", Unset),
     Ask("ssh_host_inspect", "db1", "https://app.example", Jwt),
     Ask("ssh_host_inspect", "web", Unset, Unscoped),
     Ask("ssh_host_inspect", "mail", Unset, Jwt),
     Ask("ssh_hosts_list", "web", Unset, MCSecret)}

Block(patterns, hostName, user) == [patterns |-> patterns, hostName |-> hostName, user |-> user]
MCFiles == {<<Block(<<"web", "db1">>, "h1", Unset)>>,
            <<Block(<<"web">>, "h2", "ops"), Block(<<"db*">>, "h1", Unset)>>}

MCAnswers ==
    {Unset, [Agent EXCEPT !.host = "h2", !.hostKeyPolicy = "accept-new"],
     [Agent EXCEPT !.auth = "key", !.secret = "path", !.expected = "k2"],
     [Agent EXCEPT !.auth = "key"]}

Line(marker, names, key) == [marker |-> marker, hosts |-> names, key |-> key]
MCKnownHosts ==
    {<<Line("malformed", {"h1"}, "k2"), Line("none", {"h1", "h*"}, "k1"), Line("@revoked", {"[h1]:22"}, "k1"),
       Line("none", {"h1"}, "k2")>>}

\* Paths with ".", ".." and empty segments, relative ones, and one with a backslash.
MCOperations ==
    {[tool |-> "proc_exec", command |-> "uptime"],
     [tool |-> "proc_sudo", command |-> "uptime"],
     [tool |-> "proc_exec", command |-> "rm"],
     [tool |-> "ensure_lines_in_file", command |-> "uptime", path |-> <<"", "srv", "a">>, destructive |-> TRUE],
     [tool |-> "fs_read", path |-> <<"", "etc", "..", "etc", "shadow", "">>],
     [tool |-> "fs_read", path |-> <<"", "etc", "shadow2">>],
     [tool |-> "fs_read", path |-> <<"notes", "a">>],
     [tool |-> "fs_write", path |-> <<"", "..", "proc", ".", "x">>],
     [tool |-> "fs_rmrf", path |-> <<"", "srv", "..", "usr">>],
     [tool |-> "fs_rmrf", path |-> <<"", "opt", "a", "..">>],
     [tool |-> "fs_rmrf", path |-> <<"", "srv", "a\\b">>],
     [tool |-> "fs_rename", path |-> <<"", "srv", "a">>, to |-> <<"", "boot", "a">>],
     [tool |-> "file_upload", path |-> <<"", "srv", "a">>, local |-> <<"", "tmp", "link">>],
     [tool |-> "file_download", path |-> <<"", "srv", "a">>, local |-> <<"..", "tmp", "new">>],
     [tool |-> "tunnel_local_forward", bind |-> "localhost", remoteHost |-> "h2", port |-> 3]}

Symmetry == Permutations(Calls)

MCMatches == {<<"^db", "db1">>, <<"^u", "uptime">>}
MCRealPaths == (<<"tmp">> :> <<"tmp">>) @@ (<<"tmp", "link">> :> <<"tmp", "keys", "id">>)
MCPieces == "a\\b" :> <<"a", "b">>
MCHome == <<"home", "deploy">>
MCCwd == <<"app">>
MCWildcards == {<<"db*", "db1">>}
MCBracketed == [h1 |-> "[h1]:22", h2 |-> "[h2]:22", web |-> "[web]:22", db1 |-> "[db1]:22"]
MCHostGlobs == {<<"h*", "h1">>, <<"h*", "h2">>}
=============================================================================
