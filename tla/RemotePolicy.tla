---------------------------- MODULE RemotePolicy ----------------------------
(***************************************************************************)
(* The policy of a remote agent: how src/remote/policy.ts makes one from a *)
(* profile or a patch, and what the gates of src/remote/agent-executor.ts  *)
(* let through on the host.                                                *)
(*                                                                         *)
(* Paths are those of HostPaths; a service or container is a name.  A      *)
(* patch is a record of the fields it gives.                               *)
(***************************************************************************)
EXTENDS RemoteScopes, HostPaths

CONSTANTS
    MaxTimeout,      \* maxActionTimeoutSeconds of the control plane
    MaxOutput,       \* maxOutputBytes of the control plane
    Pieces,          \* segments with a backslash, to what "/" in its place makes of them
    UnsafeNames      \* names assertSafeIdentifier refuses

ReadCapabilities == {"hosts.read", "agents.read", "system.read", "logs.read", "audit.read"}

\* The capabilities a profile switches on; "custom" none.
ProfileCapabilities(profile) ==
    CASE profile = "read-only"  -> ReadCapabilities
      [] profile = "operations" -> ReadCapabilities \cup {"service.manage", "docker.manage", "files.read"}
      [] profile = "full-admin" -> RemoteCapabilities
      [] OTHER                  -> {}

\* The prefixes every new policy allows and denies.
ScratchPaths == {<<"", "tmp">>, <<"", "var", "tmp">>}
SystemPaths ==
    {<<"", "">>, <<"", "etc">>, <<"", "boot">>, <<"", "dev">>, <<"", "proc">>, <<"", "sys">>}

\* createAgentPolicy.
CreateAgentPolicy(profile) ==
    [profile |-> profile,
     capabilities |-> [c \in RemoteCapabilities |-> c \in ProfileCapabilities(profile)],
     allowPaths |-> ScratchPaths,
     denyPaths |-> SystemPaths,
     allowServices |-> IF profile = "full-admin" THEN {"*"} ELSE {},
     allowContainers |-> IF profile = "full-admin" THEN {"*"} ELSE {},
     maxOutputBytes |-> 200000,
     maxActionTimeoutSeconds |-> 120]

\* mergeCustomPolicy: over the patch's own profile, not over the policy in force.
MergeCustomPolicy(patch) ==
    LET given == Spread(patch, [profile |-> "custom", capabilities |-> <<>>])
        base  == CreateAgentPolicy(given.profile)
    IN [Spread(given, base) EXCEPT !.capabilities = Spread(given.capabilities, base.capabilities)]

\* The smaller of two limits.
Least(m, n) == IF m < n THEN m ELSE n

\* The policy updateAgentPolicy stores: the patch, clamped to the control plane's limits.
UpdatedPolicy(patch) ==
    [MergeCustomPolicy(patch) EXCEPT !.maxActionTimeoutSeconds = Least(@, MaxTimeout),
                                     !.maxOutputBytes = Least(@, MaxOutput)]

-----------------------------------------------------------------------------
\* Mutant: the path is compared as it is spelled.
AsWritten(path) ==
    [from |-> IF IsAbsolute(path) THEN "/" ELSE ".", names |-> SelectSeq(path, LAMBDA s : s \notin {"", "."})]

\* normalizePolicyPath: backslashes count as separators; a relative path stays relative.
NormalizePolicyPath(path) == PosixNormalize(Slashed(path, Pieces))

\* A prefix covers itself and what lies under it; "/" and "." only themselves.
Covers(prefix, path) ==
    LET p == NormalizePolicyPath(prefix)
    IN \/ p = path
       \/ p.from = path.from /\ p.names # <<>> /\ Under(path.names, p.names)

\* isPathAllowed.
IsPathAllowed(policy, path) ==
    LET normalized == NormalizePolicyPath(path)
    IN /\ \A d \in policy.denyPaths : ~Covers(d, normalized)
       /\ \E a \in policy.allowPaths : Covers(a, normalized)

\* isServiceAllowed, isContainerAllowed.
IsServiceAllowed(policy, name) == {"*", name} \cap policy.allowServices # {}
IsContainerAllowed(policy, name) == {"*", name} \cap policy.allowContainers # {}

\* assertSafeIdentifier.
IsSafeIdentifier(name) == name \notin UnsafeNames

\* The tools an agent runs, by the kind of target they take.
FileTools == {"tail_logs", "file_read", "file_write"}
ContainerTools == {"docker_logs", "docker_restart"}
HostTools == FileTools \cup ContainerTools
             \cup {"get_system_status", "restart_service", "docker_ps", "run_shell", "run_shell_as_root"}

\* executeAllowed up to the spawned process or the file: the capability, then what the
\* tool asks of its target.  A log target without a separator is a unit name.
ExecuteAllowed(policy, tool, target) ==
    /\ policy.capabilities[CapabilityOf(tool)]
    /\ tool \in FileTools /\ target.kind = "path" => IsPathAllowed(policy, target.path)
    /\ tool \in FileTools /\ target.kind = "name" => tool = "tail_logs" /\ IsSafeIdentifier(target.name)
    /\ tool = "restart_service" =>
          /\ target.kind = "name"
          /\ IsServiceAllowed(policy, target.name) /\ IsSafeIdentifier(target.name)
    /\ tool \in ContainerTools =>
          /\ target.kind = "name"
          /\ IsContainerAllowed(policy, target.name) /\ IsSafeIdentifier(target.name)
=============================================================================
