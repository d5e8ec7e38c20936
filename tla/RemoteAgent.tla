----------------------------- MODULE RemoteAgent -----------------------------
(***************************************************************************)
(* The agent on a managed host: `mcp-ssh-agent run` in                     *)
(* src/remote/agent-cli.ts with the policy gate of                         *)
(* src/remote/agent-executor.ts.  A run of the agent opens exactly one     *)
(* WebSocket and ends when it closes, so a process is named by its         *)
(* connection.  Processes of one host share the config file; the set of    *)
(* seen action ids is lost with the process.                               *)
(*                                                                         *)
(* Frames that do not verify, are not JSON or are of another type are      *)
(* ignored by the code and are not steps.  RemoteSystem joins the agent to *)
(* the control plane; AgentDelivery runs it against an unreliable network. *)
(***************************************************************************)
EXTENDS Integers, FiniteSets, Sequences, JsMap

CONSTANTS
    Agents,     \* agent ids
    NoAgent,    \* a process that was not started
    Conns,      \* connections, i.e. runs of the agent
    Actions,    \* action ids
    SeenLimit,  \* the 10_000 entries seenActions is cut to
    MaxVersion, \* bound: highest policy version
    MaxTime     \* bound: last instant

ASSUME RemoteAgentAssumption ==
    /\ SeenLimit \in Nat \ {0} /\ MaxVersion \in Nat /\ MaxTime \in Nat
    /\ NoAgent \notin Agents

VARIABLES
    config,      \* config file of a host: the policy it enrolled with or was sent
    procs,       \* runs of the agent: phase, agent id, policy in memory
    seenActions, \* per run, the Map action id -> deadline in insertion order
    executing,   \* per run, actions whose execution was started and not finished
    executions,  \* history: how often an action's execution was started
    up,          \* frames a run has sent, not yet read by the control plane
    now

agentVars == <<config, procs, seenActions, executing, executions, up>>

Policy == [version: Nat, allow: BOOLEAN]
NotEnrolled == [version |-> 0, allow |-> FALSE]
NoProc == [phase |-> "idle", agent |-> NoAgent, policy |-> NotEnrolled]

Hello(a) == [type |-> "agent.hello", agent |-> a]
Result(x, a, ok) == [type |-> "action.result", action |-> x, agent |-> a, ok |-> ok]
UpFrame == [type: {"agent.hello"}, agent: Agents]
           \cup [type: {"action.result"}, action: Actions, agent: Agents, ok: BOOLEAN]

AgentInit ==
    /\ config = [a \in Agents |-> NotEnrolled]
    /\ procs = [c \in Conns |-> NoProc]
    /\ seenActions = [c \in Conns |-> <<>>]
    /\ executing = [c \in Conns |-> {}]
    /\ executions = [x \in Actions |-> 0]
    /\ up = [c \in Conns |-> <<>>]

-----------------------------------------------------------------------------
\* enroll: the policy of the enrollment response is saved.
SaveEnrollment(a, policy) ==
    /\ config' = [config EXCEPT ![a] = policy]
    /\ UNCHANGED <<procs, seenActions, executing, executions, up>>

\* runAgent and onopen: load the config, connect, send one hello.
RunAgent(c, a) ==
    /\ config[a] # NotEnrolled
    /\ procs[c].phase = "idle"
    /\ procs' = [procs EXCEPT ![c] = [phase |-> "running", agent |-> a, policy |-> config[a]]]
    /\ up' = [up EXCEPT ![c] = Append(@, Hello(a))]
    /\ UNCHANGED <<config, seenActions, executing, executions>>

\* Mutant: the policy in memory is left as it is.
ApplyPolicyToFile(c, f) ==
    /\ procs[c].phase = "running"
    /\ f.type = "policy.update" /\ f.agent = procs[c].agent
    /\ config' = [config EXCEPT ![f.agent] = [version |-> f.version, allow |-> f.allow]]
    /\ UNCHANGED <<procs, seenActions, executing, executions, up>>

\* policy.update: adopt the policy in memory and in the file, whatever its version.
ApplyPolicyUpdate(c, f) ==
    LET policy == [version |-> f.version, allow |-> f.allow]
    IN /\ procs[c].phase = "running"
       /\ f.type = "policy.update"
       /\ f.agent = procs[c].agent
       /\ procs' = [procs EXCEPT ![c].policy = policy]
       /\ config' = [config EXCEPT ![f.agent] = policy]
       /\ UNCHANGED <<seenActions, executing, executions, up>>

\* Entries of seenActions.
SeenEntry == [action: Actions, deadline: Nat]

\* seenActions.has
Seen(c, x) == \E i \in 1..Len(seenActions[c]) : seenActions[c][i].action = x

\* Mutant: the comparison is turned round.
RememberExpired(seen, f) ==
    Append(Kept(seen, {e \in SeenEntry : e.deadline <= now}),
           [action |-> f.action, deadline |-> f.deadline])

\* rememberAction: drop entries whose deadline has come, add this one, and cut
\* the map to SeenLimit from its oldest end.
Remember(seen, f) ==
    LET kept  == Kept(seen, {e \in SeenEntry : e.deadline > now})
        added == Append(kept, [action |-> f.action, deadline |-> f.deadline])
    IN SubSeq(added, Len(added) - (IF Len(added) > SeenLimit THEN SeenLimit ELSE Len(added)) + 1,
              Len(added))

\* Mutant: no deadline check.
AcceptableLate(c, f) ==
    /\ f.agent = procs[c].agent
    /\ ~Seen(c, f.action)
    /\ f.version \in {procs[c].policy.version, procs[c].policy.version + 1}

\* The checks in front of rememberAction.
Acceptable(c, f) ==
    /\ f.agent = procs[c].agent
    /\ ~Seen(c, f.action)
    /\ f.deadline >= now
    /\ f.version \in {procs[c].policy.version, procs[c].policy.version + 1}

\* action.request accepted: remembered, and either started or, when the local
\* policy does not enable the capability, answered with an error.
StartAction(c, f) ==
    /\ procs[c].phase = "running"
    /\ f.type = "action.request"
    /\ Acceptable(c, f)
    /\ seenActions' = [seenActions EXCEPT ![c] = Remember(@, f)]
    /\ \/ /\ procs[c].policy.allow
          /\ executing' = [executing EXCEPT ![c] = @ \cup {f.action}]
          /\ executions' = [executions EXCEPT ![f.action] = @ + 1]
          /\ UNCHANGED up
       \/ /\ ~procs[c].policy.allow
          /\ up' = [up EXCEPT ![c] = Append(@, Result(f.action, f.agent, FALSE))]
          /\ UNCHANGED <<executing, executions>>
    /\ UNCHANGED <<config, procs>>

\* Every other frame is dropped without an answer.
DropFrame(c, f) ==
    /\ procs[c].phase = "running"
    /\ \/ f.agent # procs[c].agent
       \/ f.type = "action.request" /\ ~Acceptable(c, f)
    /\ UNCHANGED agentVars

\* executor.execute returns and the signed result is sent.
FinishAction(c, x, ok) ==
    /\ procs[c].phase = "running"
    /\ x \in executing[c]
    /\ executing' = [executing EXCEPT ![c] = @ \ {x}]
    /\ up' = [up EXCEPT ![c] = Append(@, Result(x, procs[c].agent, ok))]
    /\ UNCHANGED <<config, procs, seenActions, executions>>

\* onclose, onerror or a crash: the run ends, results still owed are lost.
AgentEnds(c) ==
    /\ procs[c].phase = "running"
    /\ procs' = [procs EXCEPT ![c].phase = "ended"]
    /\ executing' = [executing EXCEPT ![c] = {}]
    /\ seenActions' = [seenActions EXCEPT ![c] = <<>>]
    /\ UNCHANGED <<config, executions, up>>

-----------------------------------------------------------------------------
\* Types of the agent's file, memory and outgoing frames.
AgentTypeOK ==
    /\ config \in [Agents -> Policy]
    /\ procs \in [Conns -> [phase: {"idle", "running", "ended"},
                            agent: Agents \cup {NoAgent}, policy: Policy]]
    /\ \A c \in Conns : procs[c].phase = "running" => procs[c].agent \in Agents
    /\ seenActions \in [Conns -> Seq(SeenEntry)]
    /\ executing \in [Conns -> SUBSET Actions]
    /\ executions \in [Actions -> Nat]
    /\ up \in [Conns -> Seq(UpFrame)]
=============================================================================
