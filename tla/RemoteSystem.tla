---------------------------- MODULE RemoteSystem ----------------------------
(***************************************************************************)
(* The control plane and the agents it drives, joined by their sockets:    *)
(* `down` carries what the control plane sends, `up` what a run of the     *)
(* agent sends.  A socket is TCP: frames arrive once and in order, and     *)
(* those still under way when an end goes away are lost.  Both ends read   *)
(* the same clock.                                                         *)
(***************************************************************************)
EXTENDS ControlPlane

CONSTANT SeenLimit   \* the entries seenActions is cut to

ASSUME SystemAssumption == SeenLimit \in Nat \ {0}

VARIABLES config, procs, seenActions, executing, executions, up,
          synced  \* history: the run's policy was the stored one when its hello was accepted

Host == INSTANCE RemoteAgent

hostVars == <<config, procs, seenActions, executing, executions, up>>
systemVars == <<vars, hostVars, synced>>

SystemInit ==
    /\ Init
    /\ Host!AgentInit
    /\ synced = [c \in Conns |-> FALSE]

StoredPolicy(a) == [version |-> agents[a].version, allow |-> agents[a].allow]

-----------------------------------------------------------------------------
\* Everything the control plane does by itself; enrollment is joint.
PlaneStep ==
    /\ ServerStep
    /\ UNCHANGED <<hostVars, synced>>

\* mcp-ssh-agent enroll: the token is spent and the policy comes back in the
\* response, unless the response is lost.
Enroll(a, key) ==
    /\ AgentEnroll(a, key)
    /\ Host!SaveEnrollment(a, StoredPolicy(a)) \/ UNCHANGED hostVars
    /\ UNCHANGED synced

\* mcp-ssh-agent run against an accepted socket.
StartRun(c, a) ==
    /\ conns[c] = "open"
    /\ Host!RunAgent(c, a)
    /\ UNCHANGED <<vars, synced>>

\* The run reads its next frame.
AgentReads(c) ==
    /\ down[c] # <<>>
    /\ LET f == Head(down[c])
       IN Host!ApplyPolicyUpdate(c, f) \/ Host!StartAction(c, f) \/ Host!DropFrame(c, f)
    /\ down' = [down EXCEPT ![c] = Tail(@)]
    /\ UNCHANGED <<running, storeVars, liveVars, pendingActions, patches, now, synced>>

AgentFinishes(c, x, ok) == Host!FinishAction(c, x, ok) /\ UNCHANGED <<vars, synced>>

\* The run ends by itself, or because the control plane's end is closed.
AgentStops(c) == Host!AgentEnds(c) /\ UNCHANGED <<vars, synced>>

\* handleAgentMessage: the control plane reads the next frame of a socket.
PlaneReads(c) ==
    /\ up[c] # <<>>
    /\ LET f == Head(up[c])
       IN \/ /\ f.type = "agent.hello"
             /\ AgentHello(c, f.agent)
             /\ synced' = [synced EXCEPT ![c] = procs[c].policy = StoredPolicy(f.agent)]
          \/ /\ f.type = "agent.hello"
             /\ RejectedHello(c, f.agent, TRUE)
             /\ UNCHANGED synced
          \/ /\ f.type = "action.result"
             /\ ActionResult(c, f.action, f.agent, TRUE, f.ok)
             /\ UNCHANGED synced
          \/ /\ f.type = "action.result"
             /\ running /\ Deliverable(c) /\ f.action \notin pendingActions
             /\ UNCHANGED <<vars, synced>>
    /\ up' = [up EXCEPT ![c] = Tail(@)]
    /\ UNCHANGED <<config, procs, seenActions, executing, executions>>

SystemNext ==
    \/ PlaneStep
    \/ \E a \in Agents, key \in Keys : Enroll(a, key)
    \/ \E c \in Conns, a \in Agents : StartRun(c, a)
    \/ \E c \in Conns : AgentReads(c) \/ AgentStops(c) \/ PlaneReads(c)
    \/ \E c \in Conns, x \in Actions, ok \in BOOLEAN : AgentFinishes(c, x, ok)

\* Event loops run: time passes, timers fire, sockets are read.
SystemFairness ==
    /\ WF_systemVars(Tick /\ UNCHANGED <<hostVars, synced>>)
    /\ \A x \in Actions : WF_systemVars(ActionTimedOut(x) /\ UNCHANGED <<hostVars, synced>>)
    /\ \A c \in Conns : WF_systemVars(AgentReads(c)) /\ WF_systemVars(PlaneReads(c))

SystemSpec == SystemInit /\ [][SystemNext]_systemVars /\ SystemFairness

-----------------------------------------------------------------------------
\* Types of both ends.
SystemTypeOK == TypeOK /\ Host!AgentTypeOK /\ synced \in [Conns -> BOOLEAN]

Call == INSTANCE RemoteCall WITH answer <- CallerView, runs <- executions

\* Both ends together implement RemoteCall.  A result counts only from the agent the action
\* was sent to over the connection it lives on, so what is reported completed ran, once;
\* and the agent's deadline check and the control plane's grace period together keep an
\* action from starting after its caller was told of a timeout or an error, however long
\* its frame was under way.
CallsAreHonest == Call!CallSafety

\* The policy a run will hold once it has read the frames on its way.
Updates(c) == {i \in 1..Len(down[c]) : down[c][i].type = "policy.update"}
IsLast(i, S) == i \in S /\ \A j \in S : j <= i
ArrivingPolicy(c) ==
    IF Updates(c) = {} THEN procs[c].policy
    ELSE LET f == down[c][CHOOSE i \in Updates(c) : IsLast(i, Updates(c))]
         IN [version |-> f.version, allow |-> f.allow]

\* A live run that started from the stored policy stays in step with the store:
\* whatever mixture of tool calls and PATCH requests changed the row, the last
\* update on the wire is the row.
PolicyInStep ==
    \A a \in Agents :
        LET c == agentConnections[a]
        IN (c # NoConn /\ synced[c] /\ procs[c].phase = "running")
              => ArrivingPolicy(c) = StoredPolicy(a)

\* The policy an administrator sets reaches such a run, or the run goes away.
PolicyArrives ==
    \A a \in Agents, c \in Conns :
        (agentConnections[a] = c /\ synced[c])
            ~> \/ agentConnections[a] # c
               \/ procs[c].phase # "running"
               \/ procs[c].policy = StoredPolicy(a)
=============================================================================
