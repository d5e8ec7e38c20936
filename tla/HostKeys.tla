------------------------------ MODULE HostKeys ------------------------------
(***************************************************************************)
(* Which host keys and credentials src/session.ts connects with.  A line   *)
(* of known_hosts is [marker, hosts, key], hosts a set of patterns; lines  *)
(* parseKnownHostLine does not understand have the marker "malformed".     *)
(* Fingerprints stand for keys; a hashed pattern for the name it hashes.   *)
(***************************************************************************)
EXTENDS Settings, JsMap

CONSTANTS
    Bracketed,     \* the spelling [host]:port of each host
    HostGlobs      \* pairs of a known_hosts pattern with * or ? and a host

\* knownHostPatternMatches and hashedKnownHostPatternMatches: wildcards are only
\* tried on the bare name.
KnownHostPatternMatches(patterns, host) ==
    \E p \in patterns : p \in {host, Bracketed[host]} \/ <<p, host>> \in HostGlobs

\* parseKnownHostLine: the lines it understands and that name the host.
LinesFor(lines, host) ==
    Kept(lines, {l \in Entries(lines) : l.marker # "malformed" /\ KnownHostPatternMatches(l.hosts, host)})

\* verifyKnownHostKey: a line of the host with another key is passed over.  Of the rest the
\* first decides: a revoked one refuses, whatever its key, one that lists this key accepts.
VerifyKnownHostKey(lines, host, key) ==
    LET mine == LinesFor(lines, host)
    IN \E i \in 1..Len(mine) :
          /\ mine[i].key = key
          /\ \A j \in 1..i : mine[j].marker # "@revoked"

\* Mutant: a host that presents another key is pinned again.
RepinHostKey(pins, host, key) == TRUE

\* verifyAcceptNewHostKey: the first key seen is kept for the process.
VerifyAcceptNewHostKey(pins, host, key) == host \in DOMAIN pins => pins[host] = key

\* resolveHostKeyPolicy.
ResolveHostKeyPolicy(named, strict, configured) ==
    IF named # Unset THEN named
    ELSE IF strict = Unset THEN configured
    ELSE IF strict THEN "strict" ELSE "insecure"

\* loadPrivateKeyFromPath, or discoverPrivateKeys: the named key file, or one in a
\* standard place, could be read.
BuildKeyAuth(p, readable) ==
    p.secret = "inline" \/ (IF p.secret = "path" THEN "path" ELSE "default") \in readable

\* buildAuthConfig, buildAgentAuth and buildAutoAuth: the method it settles on, or
\* "none" when it throws.
BuildAuthConfig(p, readable, agentSocket) ==
    LET key == IF BuildKeyAuth(p, readable) THEN "key" ELSE "none"
        agent == IF agentSocket THEN "agent" ELSE "none"
    IN CASE p.auth = "password" -> IF p.secret = "password" THEN "password" ELSE "none"
         [] p.auth = "key" -> key
         [] p.auth = "agent" -> agent
         [] OTHER -> IF p.secret = "password" THEN "password"
                     ELSE IF key = "key" THEN "key" ELSE agent
=============================================================================
