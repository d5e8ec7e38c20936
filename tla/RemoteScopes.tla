---------------------------- MODULE RemoteScopes ----------------------------
(***************************************************************************)
(* Scopes, capabilities and tools of the remote control plane: the tables  *)
(* of src/remote/types.ts and what src/remote/scopes.ts computes from      *)
(* them.                                                                   *)
(***************************************************************************)

RemoteScopes ==
    {"hosts:read", "agents:read", "agents:admin", "status:read", "logs:read",
     "service:manage", "docker:manage", "files:read", "files:write",
     "shell:exec", "sudo:exec"}

RemoteCapabilities ==
    {"hosts.read", "agents.read", "agents.admin", "system.read", "logs.read",
     "service.manage", "docker.manage", "files.read", "files.write",
     "shell.exec", "sudo.exec", "agent.admin", "audit.read"}

\* SCOPE_CAPABILITY_MAP.
ScopeCapabilities(s) ==
    CASE s = "hosts:read"     -> {"hosts.read"}
      [] s = "agents:read"    -> {"agents.read"}
      [] s = "agents:admin"   -> {"agents.admin", "agent.admin", "audit.read"}
      [] s = "status:read"    -> {"system.read"}
      [] s = "logs:read"      -> {"logs.read"}
      [] s = "service:manage" -> {"service.manage"}
      [] s = "docker:manage"  -> {"docker.manage"}
      [] s = "files:read"     -> {"files.read"}
      [] s = "files:write"    -> {"files.write"}
      [] s = "shell:exec"     -> {"shell.exec"}
      [] s = "sudo:exec"      -> {"sudo.exec"}
      [] OTHER                -> {}

\* TOOL_CAPABILITY_MAP, turned round: the tools a capability opens.
ToolsOf(capability) ==
    CASE capability = "hosts.read"     -> {"list_hosts"}
      [] capability = "agents.read"    -> {"list_agents"}
      [] capability = "agents.admin"   -> {"create_enrollment_token", "get_agent_install_command",
                                           "update_agent_policy", "revoke_agent"}
      [] capability = "system.read"    -> {"get_system_status"}
      [] capability = "logs.read"      -> {"tail_logs"}
      [] capability = "service.manage" -> {"restart_service"}
      [] capability = "docker.manage"  -> {"docker_ps", "docker_logs", "docker_restart"}
      [] capability = "files.read"     -> {"file_read"}
      [] capability = "files.write"    -> {"file_write"}
      [] capability = "shell.exec"     -> {"run_shell"}
      [] capability = "sudo.exec"      -> {"run_shell_as_root"}
      [] capability = "audit.read"     -> {"get_audit_events"}
      [] OTHER                         -> {}

RemoteTools == UNION {ToolsOf(c) : c \in RemoteCapabilities}

\* TOOL_CAPABILITY_MAP[tool]: every tool needs exactly one capability.
CapabilityOf(tool) == CHOOSE c \in RemoteCapabilities : tool \in ToolsOf(c)

\* capabilitiesFromScopes.
CapabilitiesFromScopes(scopes) == UNION {ScopeCapabilities(s) : s \in scopes}

\* The scopes of a request that asks for none.
DefaultScopes == {"hosts:read", "agents:read", "status:read", "logs:read"}

\* scopeList of a supported scope parameter (an unsupported one is refused).
ScopeList(scope) == IF scope = {} THEN DefaultScopes ELSE scope

\* listRemoteToolDescriptors.
ListedTools(capabilities) == UNION {ToolsOf(c) : c \in capabilities}
=============================================================================
