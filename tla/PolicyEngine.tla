---------------------------- MODULE PolicyEngine ----------------------------
(***************************************************************************)
(* The policy engine of src/policy.ts: what a policy decides about one     *)
(* operation.  A policy is a record of Settings!DefaultPolicy's fields, a  *)
(* context a record of the fields of NoContext, Unset where the tool gives *)
(* none.                                                                   *)
(*                                                                         *)
(* Paths are those of HostPaths; what a regular expression matches, and    *)
(* which commands the patterns of src/safety.ts match, are parameters.     *)
(***************************************************************************)
EXTENDS Settings, HostPaths, SequencesExt

CONSTANTS
    Matches,       \* pairs of a pattern and a value its regular expression finds
    Dangerous,     \* commands that match one of DANGEROUS_PATTERNS
    Pieces,        \* segments with a backslash, to what "/" in its place makes of them
    Cwd,           \* the place of this process's working directory
    RealPaths,     \* places of this machine that exist, to what realpath makes of them
    Nul,           \* a segment with a NUL byte
    MaxPort        \* 65535

LocalTransferActions ==
    {"transfer.local.read", "transfer.local.create", "transfer.local.overwrite"}
TunnelActions == {"tunnel.local", "tunnel.remote"}

NoContext ==
    [action |-> Unset, host |-> Unset, username |-> Unset, command |-> Unset,
     path |-> Unset, secondaryPath |-> Unset, localBindHost |-> Unset, localPort |-> Unset,
     remoteHost |-> Unset, remotePort |-> Unset, mode |-> Unset, rawSudo |-> FALSE,
     destructive |-> FALSE]

-----------------------------------------------------------------------------
\* matchesAny; a pattern that does not compile matches nothing.
MatchesAny(value, patterns) == \E p \in patterns : <<p, value>> \in Matches

\* matchesPolicyValue, and the host check of evaluate.
MatchesPolicyValue(value, policies) == value \in policies \/ MatchesAny(value, policies)

\* parsePortRange: a range the wrong way round or beyond the last port is no range.
ParsePortRange(r) == IF r[1] <= r[2] /\ r[2] <= MaxPort THEN r[1]..r[2] ELSE {}

\* matchesPortPolicy.
MatchesPortPolicy(port, policies) == \E r \in policies : port \in ParsePortRange(r)

\* Mutant: the path is compared as it is spelled.
AsSpelled(path) == SelectSeq(path, LAMBDA s : s \notin {"", "."})

\* normalizeRemotePosixPath: backslashes count as separators, and a relative path begins
\* at the root.
NormalizeRemotePosixPath(path) == PosixNormalize(Absolute(Slashed(path, Pieces), <<>>)).names

\* External: path.resolve.
PathResolve(path) == PosixNormalize(Absolute(path, Cwd)).names

\* normalizeLocalPolicyPath: resolved, and canonical when it exists.
NormalizeLocalPolicyPath(path) ==
    LET absolute == PathResolve(path)
    IN IF absolute \in DOMAIN RealPaths THEN RealPaths[absolute] ELSE absolute

\* isPathUnder: everything is under the root, else the match ends at a segment.
IsPathUnder(path, prefix) == prefix = <<>> \/ IsPrefix(prefix, path)

\* The paths of a context.
PathsOf(c) == {c.path, c.secondaryPath} \ {Unset}

HasNul(path) == \E i \in 1..Len(path) : path[i] = Nul

-----------------------------------------------------------------------------
\* The host is not one of allowedHosts.
HostDenied(p, c) ==
    /\ c.host # Unset /\ p.allowedHosts # {}
    /\ ~MatchesPolicyValue(c.host, p.allowedHosts)

\* One end of a tunnel against its deny and allow lists.
EndDenied(value, deny, allow) ==
    /\ value # Unset
    /\ MatchesPolicyValue(value, deny) \/ (allow # {} /\ ~MatchesPolicyValue(value, allow))

\* The bind host, the remote host and the ports of a tunnel.
TunnelDenied(p, c) ==
    /\ c.action \in TunnelActions
    /\ \/ EndDenied(c.localBindHost, p.tunnelDenyBindHosts, p.tunnelAllowBindHosts)
       \/ EndDenied(c.remoteHost, p.tunnelDenyRemoteHosts, p.tunnelAllowRemoteHosts)
       \/ \E port \in {c.localPort, c.remotePort} \ {Unset} :
             \/ MatchesPortPolicy(port, p.tunnelDenyPorts)
             \/ p.tunnelAllowPorts # {} /\ ~MatchesPortPolicy(port, p.tunnelAllowPorts)

\* Root login and raw sudo.
PrivilegeDenied(p, c) ==
    \/ c.username = "root" /\ ~p.allowRootLogin
    \/ c.rawSudo /\ ~p.allowRawSudo

\* checkCommandSafety.
Safe(command) == command \notin Dangerous

\* commandDeny, commandAllow, and the safety check.
CommandDenied(p, c) ==
    /\ c.command # Unset
    /\ \/ MatchesAny(c.command, p.commandDeny)
       \/ p.commandAllow # {} /\ ~MatchesAny(c.command, p.commandAllow)
       \/ ~Safe(c.command) /\ ~p.allowDestructiveCommands

\* The paths of a local transfer: without allowed prefixes nothing is allowed.
LocalPathDenied(p, path) ==
    \/ HasNul(path)
    \/ LET normalized == NormalizeLocalPolicyPath(path)
       IN \/ \E d \in p.localPathDenyPrefixes : IsPathUnder(normalized, NormalizeLocalPolicyPath(d))
          \/ \A a \in p.localPathAllowPrefixes :
                ~IsPathUnder(normalized, NormalizeLocalPolicyPath(a))

\* DEFAULT_ALLOWED_MUTATION_PREFIXES stand in for an empty pathAllowPrefixes.
AllowPrefixes(p) ==
    IF p.pathAllowPrefixes = {} THEN DefaultPolicy.pathAllowPrefixes ELSE p.pathAllowPrefixes

\* The paths on the host: the allowed prefixes only bind destructive operations.
RemotePathDenied(p, c, path) ==
    \/ HasNul(path)
    \/ LET normalized == NormalizeRemotePosixPath(path)
       IN \/ \E d \in p.pathDenyPrefixes : IsPathUnder(normalized, NormalizeRemotePosixPath(d))
          \/ /\ c.destructive \/ c.action = "fs.remove"
             /\ ~p.allowDestructiveFs
             /\ \A a \in AllowPrefixes(p) : ~IsPathUnder(normalized, NormalizeRemotePosixPath(a))

\* evaluate.
Evaluate(p, c) ==
    [mode |-> Either(c.mode, p.mode),
     allowed |->
        /\ ~HostDenied(p, c)
        /\ ~TunnelDenied(p, c)
        /\ ~PrivilegeDenied(p, c)
        /\ ~CommandDenied(p, c)
        /\ IF c.action \in LocalTransferActions
           THEN \A path \in PathsOf(c) : ~LocalPathDenied(p, path)
           ELSE \A path \in PathsOf(c) : ~RemotePathDenied(p, c, path)]

\* assertAllowed does not throw.
AssertAllowed(p, c) == LET d == Evaluate(p, c) IN d.allowed \/ d.mode # "enforce"
=============================================================================
