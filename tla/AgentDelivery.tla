---------------------------- MODULE AgentDelivery ----------------------------
(***************************************************************************)
(* The agent against a network that may deliver every frame the control    *)
(* plane ever signed for it, late, out of order and any number of times:   *)
(* what seenActions, the deadline and the policy version alone guarantee.  *)
(***************************************************************************)
EXTENDS RemoteAgent

CONSTANTS
    MaxFrames, \* bound: frames signed, and frames sent back and not yet read
    MaxStarts  \* bound: starts of one action after which the network falls silent

VARIABLE issued   \* frames signed by the control plane so far

deliveryVars == <<agentVars, issued, now>>

\* dispatchAction / updateAgentPolicy as the agent can observe them.
Request(x, a, v, d) == [type |-> "action.request", action |-> x, agent |-> a,
                        version |-> v, deadline |-> d]
Update(a, v, allow) == [type |-> "policy.update", agent |-> a, version |-> v, allow |-> allow]

DeliveryInit ==
    /\ AgentInit
    /\ issued = {}
    /\ now = 0

\* The control plane signs one request per action id.
IssueRequest(x, a, v, d) ==
    /\ Cardinality(issued) < MaxFrames
    /\ \A f \in issued : f.type = "action.request" => f.action # x
    /\ issued' = issued \cup {Request(x, a, v, d)}
    /\ UNCHANGED <<agentVars, now>>

IssueUpdate(a, v, allow) ==
    /\ Cardinality(issued) < MaxFrames
    /\ issued' = issued \cup {Update(a, v, allow)}
    /\ UNCHANGED <<agentVars, now>>

Deliver(c, f) ==
    /\ Len(up[c]) < MaxFrames
    /\ \A x \in Actions : executions[x] < MaxStarts
    /\ ApplyPolicyUpdate(c, f) \/ StartAction(c, f) \/ DropFrame(c, f)
    /\ UNCHANGED <<issued, now>>

Enrolled(a) ==
    /\ config[a] = NotEnrolled
    /\ SaveEnrollment(a, [version |-> 1, allow |-> TRUE])
    /\ UNCHANGED <<issued, now>>

Tick ==
    /\ now < MaxTime
    /\ now' = now + 1
    /\ UNCHANGED <<agentVars, issued>>

DeliveryNext ==
    \/ \E x \in Actions, a \in Agents, v \in 1..MaxVersion, d \in now..MaxTime :
          IssueRequest(x, a, v, d)
    \/ \E a \in Agents, v \in 1..MaxVersion, allow \in BOOLEAN : IssueUpdate(a, v, allow)
    \/ \E c \in Conns, f \in issued : Deliver(c, f)
    \/ \E a \in Agents : Enrolled(a)
    \/ \E c \in Conns, a \in Agents : RunAgent(c, a) /\ UNCHANGED <<issued, now>>
    \/ \E c \in Conns : AgentEnds(c) /\ UNCHANGED <<issued, now>>
    \/ \E c \in Conns, x \in Actions, ok \in BOOLEAN :
          FinishAction(c, x, ok) /\ UNCHANGED <<issued, now>>
    \/ Tick

DeliverySpec == DeliveryInit /\ [][DeliveryNext]_deliveryVars

-----------------------------------------------------------------------------
\* A run never starts an action twice before the instant of its deadline, nor
\* at all after it, however often the request is delivered: an entry leaves
\* seenActions only when the deadline check has taken over (SeenLimit is not
\* reached here).
NoRepeatBeforeDeadline ==
    [][\A f \in issued : f.type = "action.request" =>
         (executions'[f.action] > executions[f.action]
            => /\ now <= f.deadline
               /\ \/ executions[f.action] = 0
                  \/ now = f.deadline)]_deliveryVars

\* "The agent rejects ... replayed ... actions": no action starts twice.
AtMostOnceExecution ==
    \A x \in Actions : executions[x] <= 1

\* A run that is executing an action remembers it until the deadline, while
\* other actions come in and old entries are dropped, so that a second copy
\* cannot race the first.
ExecutingIsRemembered ==
    \A c \in Conns : \A x \in executing[c] :
        \/ Seen(c, x)
        \/ \E f \in issued : f.type = "action.request" /\ f.action = x /\ f.deadline <= now
=============================================================================
