------------------------- MODULE RemoteSystem_proofs -------------------------
(***************************************************************************)
(* Proofs about the control plane, alone and with its agents, for any      *)
(* number of hosts, sockets, actions and requests and any bounds: a tool   *)
(* call is answered truthfully, a policy change reaches a connected agent. *)
(***************************************************************************)
EXTENDS RemoteSystem, JsMap_proofs, SequenceTheorems

-----------------------------------------------------------------------------
(* The control plane alone. *)

\* Closing a socket keeps the type of the socket states (MinimalWebSocketConnection.close).
LEMMA ClosedType ==
    ASSUME TypeOK, NEW c
    PROVE  Closed(c) \in [Conns -> ConnState]
BY DEF TypeOK, Closed, ConnState

\* The close handlers keep the type of agentConnections.
LEMMA DetachedConnectionsType ==
    ASSUME TypeOK, NEW c
    PROVE  DetachedConnections(c) \in [Agents -> Conns \cup {NoConn}]
BY DEF TypeOK, DetachedConnections

\* The close handlers write agent records.
LEMMA DetachedAgentsType ==
    ASSUME NEW c, NEW table \in [Agents -> Agent]
    PROVE  DetachedAgents(c, table) \in [Agents -> Agent]
BY DEF DetachedAgents, Agent, Status

\* sendJson puts frames on the wire and nothing else.
LEMMA SentType ==
    ASSUME TypeOK, NEW c, NEW f \in Frame
    PROVE  Sent(c, f) \in [Conns -> Seq(Frame)]
<1>1. ASSUME c \in Conns PROVE Append(down[c], f) \in Seq(Frame)
  BY <1>1 DEF TypeOK
<1>2. QED BY <1>1 DEF TypeOK, Sent

\* A row with another status is an agent record.
LEMMA WithStatus ==
    ASSUME NEW r \in Agent, NEW st \in Status
    PROVE  [r EXCEPT !.status = st] \in Agent
BY DEF Agent

\* So is a row with another status and key, as enrollment writes it.
LEMMA WithKey ==
    ASSUME NEW r \in Agent, NEW st \in Status, NEW key \in Keys
    PROVE  [r EXCEPT !.status = st, !.publicKey = key] \in Agent
BY Zenon DEF Agent

\* Writing the record r back with its next version, and telling the live agent.
LEMMA UpdateType ==
    ASSUME TypeOK, NEW a \in Agents, NEW r \in Agent, NEW allow \in BOOLEAN,
           UpdateAgentPolicy(a, r, allow)
    PROVE  agents' \in [Agents -> Agent] /\ down' \in [Conns -> Seq(Frame)]
<1> DEFINE u == [r EXCEPT !.version = r.version + 1, !.allow = allow]
<1>v. r.version + 1 \in Nat
  BY DEF Agent
<1>1. u \in Agent
  BY <1>v, Zenon DEF Agent
<1>2. PolicyUpdate(a, u) \in Frame
  BY <1>1 DEF PolicyUpdate, Frame, Agent
<1>3. agents' \in [Agents -> Agent]
  BY <1>1 DEF UpdateAgentPolicy, TypeOK
<1>4. down' = Sent(agentConnections[a], PolicyUpdate(a, u))
  BY DEF UpdateAgentPolicy
<1>5. QED BY <1>2, <1>3, <1>4, SentType

\* A settled action keeps its record's type.
LEMMA SettleType ==
    ASSUME TypeOK, NEW x \in Actions, NEW st \in Settled, Settle(x, st)
    PROVE  actions' \in [Actions -> Action] /\ pendingActions' \subseteq Actions
BY DEF TypeOK, Settle, Settled, Action

\* A process that goes away leaves well-typed memory behind.
LEMMA ForgetType ==
    ASSUME TypeOK, ForgetMemory
    PROVE  /\ running' \in BOOLEAN
           /\ tokens' \in [Agents -> Token]
           /\ actions' \in [Actions -> Action]
           /\ agentConnections' \in [Agents -> Conns \cup {NoConn}]
           /\ pendingActions' \subseteq Actions
           /\ patches' \in [Patches -> Patch]
           /\ \A p \in Patches : patches'[p].phase = "reading" => patches'[p].agent \in Agents
           /\ conns' \in [Conns -> ConnState]
           /\ closeHandlers' \in [Conns -> SUBSET Agents]
           /\ down' \in [Conns -> Seq(Frame)]
           /\ now' \in Nat
BY DEF TypeOK, ForgetMemory, Patch, ConnState

\* The tables, maps, requests and frames start with their types,
LEMMA TypeInit == Init => TypeOK
<1>1. NoRecord \in Agent
  BY DEF NoRecord, Agent, Status
<1>2. QED BY <1>1 DEF Init, TypeOK, Token, Action, Patch, ConnState

\* and no handler, timer, crash or restart breaks them.
LEMMA TypeStep == TypeOK /\ [Next]_vars => TypeOK'
<1> SUFFICES ASSUME TypeOK, [Next]_vars PROVE TypeOK'
  OBVIOUS
<1>1. ASSUME NEW a \in Agents, NEW allow \in BOOLEAN,
            CreateEnrollmentToken(a, allow)
     PROVE  TypeOK'
  <2>1. [status |-> "pending", publicKey |-> NoKey, version |-> 1, allow |-> allow] \in Agent
    BY DEF Agent, Status
  <2>2. now + TokenTtl \in Nat
    BY ControlPlaneAssumption DEF TypeOK
  <2>3. agents' \in [Agents -> Agent] /\ tokens' \in [Agents -> Token]
    BY <1>1, <2>1, <2>2 DEF CreateEnrollmentToken, TypeOK, Token
  <2>4. QED BY <1>1, <2>3 DEF CreateEnrollmentToken, TypeOK, liveVars
<1>2. ASSUME NEW a \in Agents, NEW allow \in BOOLEAN,
            UpdatePolicyTool(a, allow)
     PROVE  TypeOK'
  <2>1. agents[a] \in Agent
    BY DEF TypeOK
  <2>2. agents' \in [Agents -> Agent] /\ down' \in [Conns -> Seq(Frame)]
    BY <1>2, <2>1, UpdateType DEF UpdatePolicyTool
  <2>3. QED BY <1>2, <2>2 DEF UpdatePolicyTool, TypeOK, liveVars
<1>3. ASSUME NEW a \in Agents,
            RevokeAgent(a)
     PROVE  TypeOK'
  <2>1. [agents EXCEPT ![a].status = "revoked"] \in [Agents -> Agent]
    BY DEF TypeOK, Agent, Status
  <2>2. agents' \in [Agents -> Agent]
    BY <1>3, <2>1, DetachedAgentsType DEF RevokeAgent
  <2>3. /\ conns' \in [Conns -> ConnState]
        /\ agentConnections' \in [Agents -> Conns \cup {NoConn}]
    BY <1>3, ClosedType, DetachedConnectionsType DEF RevokeAgent
  <2>4. QED BY <1>3, <2>2, <2>3 DEF RevokeAgent, TypeOK
<1>4. ASSUME NEW p \in Patches, NEW a \in Agents,
            PatchResolve(p, a)
     PROVE  TypeOK'
  <2>1. patches' \in [Patches -> Patch]
    BY <1>4 DEF PatchResolve, TypeOK, Patch
  <2>2. QED BY <1>4, <2>1 DEF PatchResolve, TypeOK, storeVars, liveVars
<1>5. ASSUME NEW p \in Patches, NEW allow \in BOOLEAN,
            PatchApply(p, allow)
     PROVE  TypeOK'
  <2>1. patches[p].agent \in Agents /\ patches[p].snap \in Agent
    BY <1>5 DEF PatchApply, TypeOK, Patch
  <2>2. agents' \in [Agents -> Agent] /\ down' \in [Conns -> Seq(Frame)]
    BY <1>5, <2>1, UpdateType DEF PatchApply
  <2>3. /\ patches' \in [Patches -> Patch]
        /\ \A q \in Patches : patches'[q].phase = "reading" => patches'[q].agent \in Agents
    BY <1>5 DEF PatchApply, TypeOK, Patch
  <2>4. QED BY <1>5, <2>2, <2>3 DEF PatchApply, TypeOK, liveVars
<1>6. ASSUME NEW p \in Patches,
            PatchAbort(p)
     PROVE  TypeOK'
  <2>1. /\ patches' \in [Patches -> Patch]
        /\ \A q \in Patches : patches'[q].phase = "reading" => patches'[q].agent \in Agents
    BY <1>6 DEF PatchAbort, TypeOK, Patch
  <2>2. QED BY <1>6, <2>1 DEF PatchAbort, TypeOK, storeVars, liveVars
<1>7. ASSUME NEW x \in Actions, NEW a \in Agents, NEW t \in 0..ActionTimeout,
            DispatchAction(x, a, t)
     PROVE  TypeOK'
  <2>1. now + t \in Nat /\ agents[a].version \in Nat
    BY ControlPlaneAssumption DEF TypeOK, Agent
  <2>2. ActionRequest(x, a, agents[a].version, now + t) \in Frame
    BY <2>1 DEF ActionRequest, Frame
  <2>3. down' \in [Conns -> Seq(Frame)]
    BY <1>7, <2>2, SentType DEF DispatchAction
  <2>4. actions' \in [Actions -> Action]
    BY <1>7, <2>1 DEF DispatchAction, TypeOK, Action
  <2>5. QED BY <1>7, <2>3, <2>4 DEF DispatchAction, TypeOK, liveVars
<1>8. ASSUME NEW x \in Actions,
            ActionTimedOut(x)
     PROVE  TypeOK'
  <2>1. actions' \in [Actions -> Action] /\ pendingActions' \subseteq Actions
    BY <1>8, SettleType DEF ActionTimedOut, Settled
  <2>2. QED BY <1>8, <2>1 DEF ActionTimedOut, TypeOK, liveVars
<1>9. ASSUME NEW c \in Conns,
            AcceptConnection(c)
     PROVE  TypeOK'
  BY <1>9 DEF AcceptConnection, TypeOK, ConnState, storeVars
<1>10. ASSUME NEW c \in Conns,
            SocketClosed(c)
     PROVE  TypeOK'
  <2>1. agents' \in [Agents -> Agent]
    BY <1>10, DetachedAgentsType DEF SocketClosed, CloseConnection, TypeOK
  <2>2. /\ conns' \in [Conns -> ConnState]
        /\ agentConnections' \in [Agents -> Conns \cup {NoConn}]
    BY <1>10, DetachedConnectionsType DEF SocketClosed, CloseConnection, TypeOK, ConnState
  <2>3. QED BY <1>10, <2>1, <2>2 DEF SocketClosed, CloseConnection, TypeOK
<1>11. CASE Crash
  BY <1>11, ForgetType DEF Crash, TypeOK
<1>12. CASE Shutdown
  <2>1. agents' \in [Agents -> Agent]
    BY <1>12 DEF Shutdown, TypeOK, Agent, Status
  <2>2. QED BY <1>12, <2>1, ForgetType DEF Shutdown, TypeOK
<1>13. CASE Restart
  BY <1>13 DEF Restart, TypeOK, storeVars, liveVars
<1>14. CASE Tick
  BY <1>14 DEF Tick, TypeOK, storeVars, liveVars
<1>15. ASSUME NEW a \in Agents, NEW key \in Keys,
            AgentEnroll(a, key)
     PROVE  TypeOK'
  <2>k. [agents[a] EXCEPT !.status = "offline", !.publicKey = key] \in Agent
    BY WithKey DEF TypeOK, Status
  <2>1. agents' \in [Agents -> Agent]
    BY <1>15, <2>k DEF AgentEnroll, TypeOK
  <2>2. tokens' \in [Agents -> Token]
    BY <1>15 DEF AgentEnroll, TypeOK, Token
  <2>3. QED BY <1>15, <2>1, <2>2 DEF AgentEnroll, TypeOK, liveVars
<1>16. ASSUME NEW c \in Conns, NEW a \in Agents, NEW valid \in BOOLEAN,
            RejectedHello(c, a, valid)
     PROVE  TypeOK'
  <2>1. agents' \in [Agents -> Agent]
    BY <1>16, DetachedAgentsType DEF RejectedHello, CloseConnection, TypeOK
  <2>2. /\ conns' \in [Conns -> ConnState]
        /\ agentConnections' \in [Agents -> Conns \cup {NoConn}]
    BY <1>16, DetachedConnectionsType DEF RejectedHello, CloseConnection, TypeOK, ConnState
  <2>3. QED BY <1>16, <2>1, <2>2 DEF RejectedHello, CloseConnection, TypeOK
<1>17. ASSUME NEW c \in Conns, NEW a \in Agents,
            AgentHello(c, a)
     PROVE  TypeOK'
  <2> DEFINE old == agentConnections[a]
  <2>1. DetachedAgents(old, agents) \in [Agents -> Agent]
    BY DetachedAgentsType DEF TypeOK
  <2>2. [agents[a] EXCEPT !.status = "online"] \in Agent
    BY WithStatus DEF TypeOK, Status
  <2>3. agents' \in [Agents -> Agent]
    BY <1>17, <2>1, <2>2 DEF AgentHello
  <2>4. /\ conns' \in [Conns -> ConnState]
        /\ agentConnections' \in [Agents -> Conns \cup {NoConn}]
        /\ closeHandlers' \in [Conns -> SUBSET Agents]
    BY <1>17, ClosedType, DetachedConnectionsType DEF AgentHello, TypeOK
  <2>5. QED BY <1>17, <2>3, <2>4 DEF AgentHello, TypeOK
<1>18. ASSUME NEW c \in Conns, NEW x \in Actions, NEW a \in Agents,
            NEW authentic \in BOOLEAN, NEW ok \in BOOLEAN,
            ActionResult(c, x, a, authentic, ok)
     PROVE  TypeOK'
  <2>1. PICK st \in Settled : Settle(x, st)
    BY <1>18 DEF ActionResult, Settled
  <2>2. actions' \in [Actions -> Action] /\ pendingActions' \subseteq Actions
    BY <2>1, SettleType
  <2>3. QED BY <1>18, <2>2 DEF ActionResult, TypeOK, liveVars
<1>u. CASE UNCHANGED vars
  BY <1>u DEF vars, TypeOK
<1>q. QED
  BY <1>1, <1>2, <1>3, <1>4, <1>5, <1>6, <1>7, <1>8, <1>9,
     <1>10, <1>11, <1>12, <1>13, <1>14, <1>15, <1>16, <1>17, <1>18, <1>u
  DEF Next, ServerStep

\* The tables, maps, requests and frames of the control plane always have their
\* types: no handler, timer, crash or restart breaks them (TypeOK).
THEOREM TypeCorrect == Spec => []TypeOK
BY TypeInit, TypeStep, PTL DEF Spec

-----------------------------------------------------------------------------
\* What a step may do to the action records and the unsettled promises: leave
\* them alone, insert a record that did not exist, settle a pending one, or
\* forget the promises.
LEMMA ActionSteps ==
    ASSUME [Next]_vars
    PROVE  \/ actions' = actions /\ pendingActions' = pendingActions
           \/ \E x \in Actions, a \in Agents, t \in 0..ActionTimeout : DispatchAction(x, a, t)
           \/ \E x \in pendingActions, st \in Settled : Settle(x, st)
           \/ actions' = actions /\ pendingActions' = {}
<1>1. ASSUME NEW x \in Actions, ActionTimedOut(x)
      PROVE  \E st \in Settled : x \in pendingActions /\ Settle(x, st)
  BY <1>1 DEF ActionTimedOut, Settled
<1>2. ASSUME NEW c \in Conns, NEW x \in Actions, NEW a \in Agents,
             NEW authentic \in BOOLEAN, NEW ok \in BOOLEAN, ActionResult(c, x, a, authentic, ok)
      PROVE  \E st \in Settled : x \in pendingActions /\ Settle(x, st)
  BY <1>2 DEF ActionResult, Settled
<1>3. ASSUME Crash \/ Shutdown PROVE actions' = actions /\ pendingActions' = {}
  BY <1>3 DEF Crash, Shutdown, ForgetMemory
<1>4. ASSUME \/ \E a \in Agents, allow \in BOOLEAN :
                   CreateEnrollmentToken(a, allow) \/ UpdatePolicyTool(a, allow)
             \/ \E a \in Agents : RevokeAgent(a)
             \/ \E p \in Patches, a \in Agents : PatchResolve(p, a)
             \/ \E p \in Patches, allow \in BOOLEAN : PatchApply(p, allow)
             \/ \E p \in Patches : PatchAbort(p)
             \/ \E c \in Conns : AcceptConnection(c) \/ SocketClosed(c)
             \/ Restart \/ Tick
             \/ \E a \in Agents, key \in Keys : AgentEnroll(a, key)
             \/ \E c \in Conns, a \in Agents, valid \in BOOLEAN : RejectedHello(c, a, valid)
             \/ \E c \in Conns, a \in Agents : AgentHello(c, a)
             \/ UNCHANGED vars
      PROVE  actions' = actions /\ pendingActions' = pendingActions
  BY <1>4 DEF CreateEnrollmentToken, UpdatePolicyTool, RevokeAgent, PatchResolve, PatchApply,
              PatchAbort, AcceptConnection, SocketClosed, CloseConnection, Restart, Tick,
              AgentEnroll, RejectedHello, AgentHello, storeVars, vars
<1>5. QED BY <1>1, <1>2, <1>3, <1>4 DEF Next, ServerStep

\* No promise is unsettled at the start,
LEMMA PendingInit == Init => PendingIsSent
BY DEF Init, PendingIsSent

\* and a step settles, inserts or forgets a promise with its record.
LEMMA PendingStep == TypeOK /\ PendingIsSent /\ [Next]_vars => PendingIsSent'
<1> SUFFICES ASSUME TypeOK, PendingIsSent, [Next]_vars PROVE PendingIsSent'
  OBVIOUS
<1>1. ASSUME NEW x \in Actions, NEW a \in Agents, NEW t \in 0..ActionTimeout,
             DispatchAction(x, a, t)
      PROVE  PendingIsSent'
  BY <1>1 DEF TypeOK, PendingIsSent, DispatchAction
<1>2. ASSUME NEW x \in pendingActions, NEW st \in Settled, Settle(x, st)
      PROVE  PendingIsSent'
  BY <1>2 DEF TypeOK, PendingIsSent, Settle
<1>3. ASSUME actions' = actions, pendingActions' \in {pendingActions, {}}
      PROVE  PendingIsSent'
  BY <1>3 DEF PendingIsSent
<1>4. QED BY <1>1, <1>2, <1>3, ActionSteps

\* A promise is unsettled only while its record is: result, timer and rejection
\* never settle one action twice (PendingIsSent), for any number of actions.
THEOREM PendingInvariant == Spec => []PendingIsSent
BY PendingInit, PendingStep, TypeCorrect, PTL DEF Spec

\* A settled record is never written again (SettledIsFinal): late results,
\* repeated results and timers find no promise to settle, and an action id is
\* dispatched once.
THEOREM SettledFinal == Spec => SettledIsFinal
<1> DEFINE Final == \A x \in Actions : actions[x].status \in Settled => actions'[x] = actions[x]
<1>1. TypeOK /\ PendingIsSent /\ [Next]_vars => [Final]_vars
  <2> SUFFICES ASSUME TypeOK, PendingIsSent, [Next]_vars, NEW x \in Actions,
                      actions[x].status \in Settled
               PROVE  actions'[x] = actions[x]
    OBVIOUS
  <2>1. ASSUME NEW y \in Actions, NEW a \in Agents, NEW t \in 0..ActionTimeout,
               DispatchAction(y, a, t)
        PROVE  actions'[x] = actions[x]
    BY <2>1 DEF TypeOK, DispatchAction, Settled
  <2>2. ASSUME NEW y \in pendingActions, NEW st \in Settled, Settle(y, st)
        PROVE  actions'[x] = actions[x]
    BY <2>2 DEF TypeOK, PendingIsSent, Settle, Settled
  <2>3. QED BY <2>1, <2>2, ActionSteps
<1>2. QED BY <1>1, TypeCorrect, PendingInvariant, PTL DEF Spec, SettledIsFinal

\* No call has been made at the start,
LEMMA OutcomeInit == Init => Outcome!OutcomeInit
BY DEF Init, Outcome!OutcomeInit, CallerView

\* and every step asks, replies, loses or leaves what callers were told alone.
LEMMA OutcomeStep == TypeOK /\ PendingIsSent /\ [Next]_vars => [Outcome!OutcomeNext]_CallerView
<1> SUFFICES ASSUME TypeOK, PendingIsSent, [Next]_vars
             PROVE  [Outcome!OutcomeNext]_CallerView
  OBVIOUS
<1>1. ASSUME NEW x \in Actions, NEW a \in Agents, NEW t \in 0..ActionTimeout,
             DispatchAction(x, a, t)
      PROVE  Outcome!Ask(x)
  <2>1. CallerView[x] = "none"
    BY <1>1 DEF DispatchAction, CallerView
  <2>2. ASSUME NEW y \in Actions
        PROVE  CallerView'[y] = IF y = x THEN "waiting" ELSE CallerView[y]
    BY <1>1 DEF DispatchAction, CallerView, TypeOK
  <2>3. CallerView' = [CallerView EXCEPT ![x] = "waiting"]
    BY <2>2 DEF CallerView
  <2>4. QED BY <2>1, <2>3 DEF Outcome!Ask
<1>2. ASSUME NEW x \in pendingActions, NEW st \in Settled, Settle(x, st)
      PROVE  Outcome!Reply(x, st)
  <2>1. x \in Actions /\ CallerView[x] = "waiting"
    BY DEF CallerView, TypeOK, PendingIsSent
  <2>2. ASSUME NEW y \in Actions
        PROVE  CallerView'[y] = IF y = x THEN st ELSE CallerView[y]
    BY <1>2 DEF Settle, Settled, CallerView, TypeOK, Action
  <2>3. CallerView' = [CallerView EXCEPT ![x] = st]
    BY <2>2 DEF CallerView
  <2>4. QED BY <2>1, <2>3 DEF Outcome!Reply
<1>3. CASE actions' = actions /\ pendingActions' = {}
  <2>1. ASSUME NEW y \in Actions
        PROVE  CallerView'[y] = IF CallerView[y] = "waiting" THEN "lost" ELSE CallerView[y]
    BY <1>3 DEF CallerView, TypeOK, Action, Settled
  <2>2. CallerView' = [y \in Actions |-> IF CallerView[y] = "waiting" THEN "lost" ELSE CallerView[y]]
    BY <2>1 DEF CallerView
  <2>3. QED BY <2>2 DEF Outcome!OutcomeNext, Outcome!LoseAll
<1>4. CASE actions' = actions /\ pendingActions' = pendingActions
  BY <1>4 DEF CallerView
<1>5. pendingActions \subseteq Actions /\ Settled = Outcome!Outcomes
  BY DEF TypeOK, Settled, Outcome!Outcomes
<1>6. QED BY <1>1, <1>2, <1>3, <1>4, <1>5, ActionSteps DEF Outcome!OutcomeNext

\* The control plane implements the safety part of ActionOutcome: a dispatch asks, a
\* settlement replies to one waiting caller, the end of the process loses those that wait,
\* and every other step leaves what callers were told alone.  The mapping needs
\* PendingIsSent: without it a settlement could answer a caller that has its answer.
THEOREM AnswersRefine == Spec => Outcome!OutcomeSafety
BY OutcomeInit, OutcomeStep, TypeCorrect, PendingInvariant, PTL DEF Spec, Outcome!OutcomeSafety

-----------------------------------------------------------------------------
\* What a step may do to the sockets and to the map of live connections.
LEMMA ConnectionSteps ==
    ASSUME [Next]_vars
    PROVE  \/ UNCHANGED liveVars
           \/ \E c \in Conns : AcceptConnection(c)
           \/ \E c \in Conns, st \in {"closed", "gone"} : CloseConnection(c, st)
           \/ \E c \in Conns, a \in Agents : AgentHello(c, a)
           \/ \E a \in Agents : RevokeAgent(a)
           \/ ForgetMemory
<1>1. ASSUME \/ \E c \in Conns : SocketClosed(c)
             \/ \E c \in Conns, a \in Agents, valid \in BOOLEAN : RejectedHello(c, a, valid)
      PROVE  \E c \in Conns, st \in {"closed", "gone"} : CloseConnection(c, st)
  BY <1>1 DEF SocketClosed, RejectedHello
<1>2. ASSUME Crash \/ Shutdown PROVE ForgetMemory
  BY <1>2 DEF Crash, Shutdown
<1>3. ASSUME \/ \E a \in Agents, allow \in BOOLEAN :
                   CreateEnrollmentToken(a, allow) \/ UpdatePolicyTool(a, allow)
             \/ \E p \in Patches, a \in Agents : PatchResolve(p, a)
             \/ \E p \in Patches, allow \in BOOLEAN : PatchApply(p, allow)
             \/ \E p \in Patches : PatchAbort(p)
             \/ \E x \in Actions, a \in Agents, t \in 0..ActionTimeout : DispatchAction(x, a, t)
             \/ \E x \in Actions : ActionTimedOut(x)
             \/ Restart \/ Tick
             \/ \E a \in Agents, key \in Keys : AgentEnroll(a, key)
             \/ \E c \in Conns, x \in Actions, a \in Agents, authentic, ok \in BOOLEAN :
                   ActionResult(c, x, a, authentic, ok)
             \/ UNCHANGED vars
      PROVE  UNCHANGED liveVars
  BY <1>3 DEF CreateEnrollmentToken, UpdatePolicyTool, PatchResolve, PatchApply, PatchAbort,
              DispatchAction, ActionTimedOut, Restart, Tick, AgentEnroll, ActionResult,
              liveVars, vars
<1>4. QED BY <1>1, <1>2, <1>3 DEF Next, ServerStep

\* No agent is connected at the start,
LEMMA LiveInit ==
    ASSUME ~Pipelined
    PROVE  Init => LiveConnectionIsOpen
BY DEF Init, LiveConnectionIsOpen

\* and a step that closes a socket, or takes it away, forgets the agents on it.
LEMMA LiveStep ==
    ASSUME ~Pipelined
    PROVE  TypeOK /\ LiveConnectionIsOpen /\ [Next]_vars => LiveConnectionIsOpen'
<1> SUFFICES ASSUME TypeOK, LiveConnectionIsOpen, [Next]_vars, NEW b \in Agents,
                    agentConnections'[b] # NoConn
             PROVE  /\ conns'[agentConnections'[b]] = "open"
                    /\ b \in closeHandlers'[agentConnections'[b]]
  BY DEF LiveConnectionIsOpen
<1> DEFINE Goal == /\ conns'[agentConnections'[b]] = "open"
                   /\ b \in closeHandlers'[agentConnections'[b]]
<1>1. CASE UNCHANGED liveVars
  BY <1>1 DEF LiveConnectionIsOpen, liveVars
<1>2. ASSUME NEW c \in Conns, AcceptConnection(c) PROVE Goal
  BY <1>2 DEF AcceptConnection, LiveConnectionIsOpen, TypeOK
<1>3. ASSUME NEW c \in Conns, NEW st \in {"closed", "gone"}, CloseConnection(c, st) PROVE Goal
  BY <1>3 DEF CloseConnection, DetachedConnections, Detached, LiveConnectionIsOpen, TypeOK
<1>4. ASSUME NEW c \in Conns, NEW a \in Agents, AgentHello(c, a) PROVE Goal
  <2>1. conns[c] = "open" /\ agentConnections[a] # c
    BY <1>4 DEF AgentHello, HelloDeliverable
  <2>2. CASE b = a
    BY <1>4, <2>1, <2>2 DEF AgentHello, DetachedConnections, Closed, TypeOK
  <2>3. CASE b # a
    BY <1>4, <2>1, <2>3
    DEF AgentHello, DetachedConnections, Detached, Closed, LiveConnectionIsOpen, TypeOK
  <2>4. QED BY <2>2, <2>3
<1>5. ASSUME NEW a \in Agents, RevokeAgent(a) PROVE Goal
  BY <1>5 DEF RevokeAgent, DetachedConnections, Detached, Closed, LiveConnectionIsOpen, TypeOK
<1>6. CASE ForgetMemory
  BY <1>6 DEF ForgetMemory
<1>7. QED BY <1>1, <1>2, <1>3, <1>4, <1>5, <1>6, ConnectionSteps

\* If peers do not pipeline a hello behind a frame that made the server close,
\* the connection an action would be sent on is open and reports its closing
\* (LiveConnectionIsOpen), through any number of reconnects and revocations and
\* with agents sharing a socket.
THEOREM LiveConnectionInvariant ==
    ASSUME ~Pipelined
    PROVE  Spec => []LiveConnectionIsOpen
BY LiveInit, LiveStep, TypeCorrect, PTL DEF Spec

-----------------------------------------------------------------------------
\* Without PATCH requests in flight, what a step may do to the agents table, the
\* tokens and the map of live connections.
LEMMA RowSteps ==
    ASSUME Patches = {}, [Next]_vars
    PROVE  \/ UNCHANGED <<agents, tokens, agentConnections>>
           \/ \E a \in Agents, allow \in BOOLEAN : CreateEnrollmentToken(a, allow)
           \/ \E a \in Agents, key \in Keys : AgentEnroll(a, key)
           \/ \E c \in Conns, st \in {"closed", "gone"} : CloseConnection(c, st)
           \/ \E c \in Conns, a \in Agents : AgentHello(c, a)
           \/ \E a \in Agents, allow \in BOOLEAN : UpdatePolicyTool(a, allow)
           \/ \E a \in Agents : RevokeAgent(a)
           \/ Crash \/ Shutdown
<1>1. ASSUME \/ \E c \in Conns : SocketClosed(c)
             \/ \E c \in Conns, a \in Agents, valid \in BOOLEAN : RejectedHello(c, a, valid)
      PROVE  \E c \in Conns, st \in {"closed", "gone"} : CloseConnection(c, st)
  BY <1>1 DEF SocketClosed, RejectedHello
<1>2. ASSUME \/ \E x \in Actions, a \in Agents, t \in 0..ActionTimeout : DispatchAction(x, a, t)
             \/ \E x \in Actions : ActionTimedOut(x)
             \/ \E c \in Conns : AcceptConnection(c)
             \/ Restart \/ Tick
             \/ \E c \in Conns, x \in Actions, a \in Agents, authentic, ok \in BOOLEAN :
                   ActionResult(c, x, a, authentic, ok)
             \/ UNCHANGED vars
      PROVE  UNCHANGED <<agents, tokens, agentConnections>>
  BY <1>2 DEF DispatchAction, ActionTimedOut, AcceptConnection, Restart, Tick, ActionResult,
              storeVars, liveVars, vars
<1>3. QED BY <1>1, <1>2 DEF Next, ServerStep

\* Policy changes of the MCP tool keep status and key of the row.
LEMMA PolicyToolKeeps ==
    ASSUME TypeOK, NEW a \in Agents, NEW allow \in BOOLEAN, UpdatePolicyTool(a, allow),
           NEW b \in Agents
    PROVE  /\ agents'[b].status = agents[b].status
           /\ agents'[b].publicKey = agents[b].publicKey
BY DEF TypeOK, Agent, UpdatePolicyTool, UpdateAgentPolicy

\* A close handler may mark a row offline, unless it is revoked, and keeps its key.
LEMMA DetachedKeeps ==
    ASSUME NEW c, NEW table \in [Agents -> Agent], NEW b \in Agents
    PROVE  /\ DetachedAgents(c, table)[b].status \in {table[b].status, "offline"}
           /\ DetachedAgents(c, table)[b].publicKey = table[b].publicKey
<1>1. table[b] \in Agent
  OBVIOUS
<1>2. \/ DetachedAgents(c, table)[b] = table[b]
      \/ DetachedAgents(c, table)[b] = [table[b] EXCEPT !.status = "offline"]
  BY DEF DetachedAgents
<1>3. QED BY <1>1, <1>2 DEF Agent

\* So do a crash and a shutdown, which may mark a row offline.
LEMMA EndKeeps ==
    ASSUME TypeOK, Crash \/ Shutdown, NEW b \in Agents
    PROVE  /\ agents'[b].status \in {agents[b].status, "offline"}
           /\ agents'[b].publicKey = agents[b].publicKey
           /\ tokens' = tokens
<1>1. agents[b] \in Agent
  BY DEF TypeOK
<1>2. agents'[b] = agents[b] \/ agents'[b] = [agents[b] EXCEPT !.status = "offline"]
  BY DEF Crash, Shutdown
<1>3. tokens' = tokens
  BY DEF Crash, Shutdown, ForgetMemory
<1>4. QED BY <1>1, <1>2, <1>3 DEF Agent

\* Without PATCH requests in flight revocation is permanent (RevokedIsFinal):
\* hellos, closing sockets, policy changes, enrollment, crashes and shutdowns
\* leave a revoked row revoked.
THEOREM RevocationIsFinal ==
    ASSUME Patches = {}
    PROVE  Spec => RevokedIsFinal
<1> DEFINE Final == \A a \in Agents : agents[a].status = "revoked" => agents'[a].status = "revoked"
<1>1. TypeOK /\ [Next]_vars => [Final]_vars
  <2> SUFFICES ASSUME TypeOK, [Next]_vars, NEW b \in Agents, agents[b].status = "revoked"
               PROVE  agents'[b].status = "revoked"
    OBVIOUS
  <2> DEFINE Goal == agents'[b].status = "revoked"
  <2>1. ASSUME NEW a \in Agents, NEW allow \in BOOLEAN, CreateEnrollmentToken(a, allow) PROVE Goal
    BY <2>1 DEF CreateEnrollmentToken, TypeOK
  <2>2. ASSUME NEW a \in Agents, NEW key \in Keys, AgentEnroll(a, key) PROVE Goal
    BY <2>2 DEF AgentEnroll, TypeOK
  <2>3. ASSUME NEW c \in Conns, NEW st \in {"closed", "gone"}, CloseConnection(c, st) PROVE Goal
    BY <2>3 DEF CloseConnection, DetachedAgents, TypeOK
  <2>4. ASSUME NEW c \in Conns, NEW a \in Agents, AgentHello(c, a) PROVE Goal
    BY <2>4 DEF AgentHello, IsEnrolled, DetachedAgents, TypeOK
  <2>5. ASSUME NEW a \in Agents, NEW allow \in BOOLEAN, UpdatePolicyTool(a, allow) PROVE Goal
    BY <2>5, PolicyToolKeeps
  <2>6. ASSUME NEW a \in Agents, RevokeAgent(a) PROVE Goal
    BY <2>6 DEF RevokeAgent, DetachedAgents, TypeOK, Agent
  <2>7. CASE Crash \/ Shutdown
    BY <2>7 DEF Crash, Shutdown, TypeOK
  <2>8. QED BY <2>1, <2>2, <2>3, <2>4, <2>5, <2>6, <2>7, RowSteps
<1>2. QED BY <1>1, TypeCorrect, PTL DEF Spec, RevokedIsFinal

-----------------------------------------------------------------------------
\* The strengthening behind the next two theorems: a row has no key while its
\* token is unspent or it does not exist, and an online row has one.
KeyMatchesStatus ==
    \A a \in Agents :
        /\ tokens[a].state = "fresh" \/ agents[a].status = "none" => agents[a].publicKey = NoKey
        /\ agents[a].status = "online" => agents[a].publicKey # NoKey

\* Enrollment and its token keep KeyMatchesStatus invariant.
LEMMA KeyInvariant ==
    ASSUME Patches = {}
    PROVE  Spec => []KeyMatchesStatus
<1>1. Init => KeyMatchesStatus
  BY DEF Init, KeyMatchesStatus, NoRecord
<1>2. TypeOK /\ KeyMatchesStatus /\ [Next]_vars => KeyMatchesStatus'
  <2> SUFFICES ASSUME TypeOK, KeyMatchesStatus, [Next]_vars PROVE KeyMatchesStatus'
    OBVIOUS
  <2>1. ASSUME NEW a \in Agents, NEW allow \in BOOLEAN, CreateEnrollmentToken(a, allow)
        PROVE  KeyMatchesStatus'
    BY <2>1 DEF CreateEnrollmentToken, TypeOK, KeyMatchesStatus
  <2>2. ASSUME NEW a \in Agents, NEW key \in Keys, AgentEnroll(a, key) PROVE KeyMatchesStatus'
    BY <2>2, ControlPlaneAssumption DEF AgentEnroll, TypeOK, Agent, Token, KeyMatchesStatus
  <2>3. ASSUME NEW c \in Conns, NEW st \in {"closed", "gone"}, CloseConnection(c, st)
        PROVE  KeyMatchesStatus'
    <3>1. agents' = DetachedAgents(c, agents) /\ tokens' = tokens /\ agents \in [Agents -> Agent]
      BY <2>3 DEF CloseConnection, TypeOK
    <3>2. QED BY <3>1, DetachedKeeps DEF KeyMatchesStatus
  <2>4. ASSUME NEW c \in Conns, NEW a \in Agents, AgentHello(c, a) PROVE KeyMatchesStatus'
    <3> DEFINE table == DetachedAgents(agentConnections[a], agents)
    <3>1. tokens' = tokens
      BY <2>4 DEF AgentHello
    <3>2. agents' = [table EXCEPT ![a] = [agents[a] EXCEPT !.status = "online"]]
      BY <2>4 DEF AgentHello
    <3>3. table \in [Agents -> Agent] /\ agents \in [Agents -> Agent]
      BY DetachedAgentsType DEF TypeOK
    <3>4. agents[a].publicKey # NoKey
      BY <2>4 DEF AgentHello, IsEnrolled
    <3>5. agents'[a].status = "online" /\ agents'[a].publicKey = agents[a].publicKey
      <4>1. agents'[a] = [agents[a] EXCEPT !.status = "online"] /\ agents[a] \in Agent
        BY <3>2, <3>3
      <4>2. QED BY <4>1 DEF Agent
    <3>6. ASSUME NEW b \in Agents, b # a
          PROVE  /\ agents'[b].status \in {agents[b].status, "offline"}
                 /\ agents'[b].publicKey = agents[b].publicKey
      <4>1. agents'[b] = table[b]
        BY <3>2, <3>3, <3>6
      <4>2. QED BY <4>1, <3>3, DetachedKeeps
    <3>7. QED BY <3>1, <3>4, <3>5, <3>6 DEF KeyMatchesStatus
  <2>5. ASSUME NEW a \in Agents, NEW allow \in BOOLEAN, UpdatePolicyTool(a, allow)
        PROVE  KeyMatchesStatus'
    <3>1. tokens' = tokens
      BY <2>5 DEF UpdatePolicyTool
    <3>2. QED BY <2>5, <3>1, PolicyToolKeeps DEF KeyMatchesStatus
  <2>6. ASSUME NEW a \in Agents, RevokeAgent(a) PROVE KeyMatchesStatus'
    <3> DEFINE table == [agents EXCEPT ![a].status = "revoked"]
    <3>1. agents' = DetachedAgents(agentConnections[a], table) /\ tokens' = tokens
      BY <2>6 DEF RevokeAgent
    <3>2. table \in [Agents -> Agent]
      BY DEF TypeOK, Agent, Status
    <3>3. ASSUME NEW b \in Agents
          PROVE  /\ table[b].publicKey = agents[b].publicKey
                 /\ table[b].status \in {agents[b].status, "revoked"}
      BY DEF TypeOK, Agent
    <3> HIDE DEF table
    <3>4. ASSUME NEW b \in Agents
          PROVE  /\ agents'[b].publicKey = agents[b].publicKey
                 /\ agents'[b].status \in {agents[b].status, "revoked", "offline"}
      BY <3>1, <3>2, <3>3, DetachedKeeps
    <3>5. QED BY <3>1, <3>4 DEF KeyMatchesStatus
  <2>7. CASE Crash \/ Shutdown
    BY <2>7, EndKeeps DEF KeyMatchesStatus
  <2>8. CASE UNCHANGED <<agents, tokens>>
    BY <2>8 DEF KeyMatchesStatus
  <2>9. QED BY <2>1, <2>2, <2>3, <2>4, <2>5, <2>6, <2>7, <2>8, RowSteps
<1>3. QED BY <1>1, <1>2, TypeCorrect, PTL DEF Spec

\* Without PATCH requests in flight an agent keeps the key it enrolled with
\* (EnrollmentIsDurable): its token cannot be spent again, by another key either.
THEOREM EnrollmentDurable ==
    ASSUME Patches = {}
    PROVE  Spec => EnrollmentIsDurable
<1> DEFINE Durable == \A a \in Agents : agents[a].publicKey # NoKey
                                          => agents'[a].publicKey = agents[a].publicKey
<1>1. TypeOK /\ KeyMatchesStatus /\ [Next]_vars => [Durable]_vars
  <2> SUFFICES ASSUME TypeOK, KeyMatchesStatus, [Next]_vars, NEW b \in Agents,
                      agents[b].publicKey # NoKey
               PROVE  agents'[b].publicKey = agents[b].publicKey
    OBVIOUS
  <2> DEFINE Goal == agents'[b].publicKey = agents[b].publicKey
  <2>1. ASSUME NEW a \in Agents, NEW allow \in BOOLEAN, CreateEnrollmentToken(a, allow) PROVE Goal
    BY <2>1 DEF CreateEnrollmentToken, TypeOK, KeyMatchesStatus
  <2>2. ASSUME NEW a \in Agents, NEW key \in Keys, AgentEnroll(a, key) PROVE Goal
    BY <2>2 DEF AgentEnroll, TokenUsable, TypeOK, KeyMatchesStatus
  <2>3. ASSUME NEW c \in Conns, NEW st \in {"closed", "gone"}, CloseConnection(c, st) PROVE Goal
    BY <2>3 DEF CloseConnection, DetachedAgents, TypeOK, Agent
  <2>4. ASSUME NEW c \in Conns, NEW a \in Agents, AgentHello(c, a) PROVE Goal
    BY <2>4 DEF AgentHello, DetachedAgents, TypeOK, Agent
  <2>5. ASSUME NEW a \in Agents, NEW allow \in BOOLEAN, UpdatePolicyTool(a, allow) PROVE Goal
    BY <2>5, PolicyToolKeeps
  <2>6. ASSUME NEW a \in Agents, RevokeAgent(a) PROVE Goal
    BY <2>6 DEF RevokeAgent, DetachedAgents, TypeOK, Agent
  <2>7. CASE Crash \/ Shutdown
    BY <2>7, EndKeeps
  <2>8. QED BY <2>1, <2>2, <2>3, <2>4, <2>5, <2>6, <2>7, RowSteps
<1>2. QED BY <1>1, TypeCorrect, KeyInvariant, PTL DEF Spec, EnrollmentIsDurable

\* The status agrees with the map of live connections, whether or not the
\* process is up: the inductive form of StatusTracksConnection.
OnlineIsLive == \A a \in Agents : agents[a].status = "online" <=> agentConnections[a] # NoConn

\* Without crashes, PATCH requests in flight and pipelined hellos, a row says
\* online exactly while its agent has a live connection (StatusTracksConnection).
THEOREM StatusInvariant ==
    ASSUME Patches = {}, ~MayCrash, ~Pipelined
    PROVE  Spec => []StatusTracksConnection
<1>1. Init => OnlineIsLive
  BY DEF Init, OnlineIsLive, NoRecord
<1>2. TypeOK /\ KeyMatchesStatus /\ LiveConnectionIsOpen /\ OnlineIsLive /\ [Next]_vars
         => OnlineIsLive'
  <2> SUFFICES ASSUME TypeOK, KeyMatchesStatus, LiveConnectionIsOpen, OnlineIsLive, [Next]_vars,
                      NEW b \in Agents
               PROVE  agents'[b].status = "online" <=> agentConnections'[b] # NoConn
    BY DEF OnlineIsLive
  <2> DEFINE Goal == agents'[b].status = "online" <=> agentConnections'[b] # NoConn
  <2> USE DEF OnlineIsLive, TypeOK
  <2>1. ASSUME NEW a \in Agents, NEW allow \in BOOLEAN, CreateEnrollmentToken(a, allow) PROVE Goal
    BY <2>1 DEF CreateEnrollmentToken, liveVars
  <2>2. ASSUME NEW a \in Agents, NEW key \in Keys, AgentEnroll(a, key) PROVE Goal
    BY <2>2 DEF AgentEnroll, TokenUsable, KeyMatchesStatus, Agent, liveVars
  <2>3. ASSUME NEW c \in Conns, NEW st \in {"closed", "gone"}, CloseConnection(c, st) PROVE Goal
    BY <2>3 DEF CloseConnection, DetachedAgents, DetachedConnections, Agent
  <2>4. ASSUME NEW c \in Conns, NEW a \in Agents, AgentHello(c, a) PROVE Goal
    <3>1. CASE b = a
      BY <2>4, <3>1, ControlPlaneAssumption DEF AgentHello, DetachedAgents, DetachedConnections, Agent
    <3>2. CASE b # a
      BY <2>4, <3>2 DEF AgentHello, DetachedAgents, DetachedConnections, Agent
    <3>3. QED BY <3>1, <3>2
  <2>5. ASSUME NEW a \in Agents, NEW allow \in BOOLEAN, UpdatePolicyTool(a, allow) PROVE Goal
    <3>1. agentConnections' = agentConnections
      BY <2>5 DEF UpdatePolicyTool, liveVars
    <3>2. QED BY <2>5, <3>1, PolicyToolKeeps
  <2>6. ASSUME NEW a \in Agents, RevokeAgent(a) PROVE Goal
    <3>1. CASE b = a
      BY <2>6, <3>1 DEF RevokeAgent, DetachedAgents, DetachedConnections, Agent
    <3>2. CASE b # a
      BY <2>6, <3>2 DEF RevokeAgent, DetachedAgents, DetachedConnections, Agent
    <3>3. QED BY <3>1, <3>2
  <2>7. ~Crash /\ ~Shutdown
    BY DEF Crash, Shutdown
  <2>8. CASE UNCHANGED <<agents, tokens, agentConnections>>
    BY <2>8
  <2>9. QED BY <2>1, <2>2, <2>3, <2>4, <2>5, <2>6, <2>7, <2>8, RowSteps
<1>3. OnlineIsLive => StatusTracksConnection
  BY DEF OnlineIsLive, StatusTracksConnection
<1>4. QED BY <1>1, <1>2, <1>3, TypeCorrect, KeyInvariant, LiveConnectionInvariant, PTL DEF Spec

-----------------------------------------------------------------------------
(* Steps of the whole system, as seen from its two ends. *)

\* What a step does to the host's side, everything but the frames to the agent.
LEMMA SystemSteps ==
    ASSUME [SystemNext]_systemVars
    PROVE  \/ UNCHANGED systemVars
           \/ PlaneStep
           \/ \E a \in Agents, key \in Keys : Enroll(a, key)
           \/ \E c \in Conns, a \in Agents : StartRun(c, a)
           \/ \E c \in Conns : AgentReads(c)
           \/ \E c \in Conns : AgentStops(c)
           \/ \E c \in Conns : PlaneReads(c)
           \/ \E c \in Conns, x \in Actions, ok \in BOOLEAN : AgentFinishes(c, x, ok)
BY DEF SystemNext

\* The frame a socket delivers next, and what is left.
LEMMA NextFrame ==
    ASSUME NEW K, NEW q \in Seq(K), q # <<>>
    PROVE  /\ Head(q) \in K /\ Head(q) = q[1] /\ 1 \in 1..Len(q)
           /\ Tail(q) \in Seq(K) /\ Len(Tail(q)) = Len(q) - 1
           /\ \A i \in 1..Len(Tail(q)) : i + 1 \in 1..Len(q) /\ Tail(q)[i] = q[i + 1]
BY HeadTailProperties

\* The frame a socket takes last.
LEMMA LastFrame ==
    ASSUME NEW K, NEW q \in Seq(K), NEW f \in K
    PROVE  /\ Append(q, f) \in Seq(K) /\ Len(Append(q, f)) = Len(q) + 1
           /\ Append(q, f)[Len(q) + 1] = f
           /\ \A i \in 1..Len(q) : i \in 1..(Len(q) + 1) /\ Append(q, f)[i] = q[i]
           /\ \A i \in 1..(Len(q) + 1) : i \in 1..Len(q) \/ i = Len(q) + 1
BY AppendProperties

\* A frame the control plane reads is a hello or a result of an agent.
LEMMA UpFrames ==
    ASSUME NEW f \in Host!UpFrame
    PROVE  /\ f.agent \in Agents
           /\ f.type = "action.result" => f.action \in Actions /\ f.ok \in BOOLEAN
BY DEF Host!UpFrame

\* A frame the control plane reads is a step of its own.
LEMMA PlaneReadIsNext ==
    ASSUME SystemTypeOK, NEW c \in Conns, PlaneReads(c)
    PROVE  [Next]_vars
<1>1. PICK f : f = Head(up[c])
  OBVIOUS
<1>2. up[c] \in Seq(Host!UpFrame) /\ up[c] # <<>>
  BY DEF PlaneReads, SystemTypeOK, Host!AgentTypeOK
<1>3. f \in Host!UpFrame
  BY <1>1, <1>2, NextFrame
<1>4. f.agent \in Agents /\ (f.type = "action.result" => f.action \in Actions /\ f.ok \in BOOLEAN)
  BY <1>3, UpFrames
<1>5. \/ AgentHello(c, f.agent)
      \/ RejectedHello(c, f.agent, TRUE)
      \/ f.type = "action.result" /\ ActionResult(c, f.action, f.agent, TRUE, f.ok)
      \/ UNCHANGED vars
  BY <1>1 DEF PlaneReads
<1>6. QED BY <1>4, <1>5 DEF Next

\* Every step but the reading of a frame by an agent is a step of the control plane or
\* leaves it alone.
LEMMA PlaneSide ==
    ASSUME SystemTypeOK, [SystemNext]_systemVars
    PROVE  [Next]_vars \/ \E c \in Conns : AgentReads(c)
<1>1. ASSUME NEW c \in Conns, PlaneReads(c) PROVE [Next]_vars
  BY <1>1, PlaneReadIsNext
<1>2. ASSUME NEW a \in Agents, NEW key \in Keys, Enroll(a, key) PROVE [Next]_vars
  BY <1>2 DEF Enroll, Next
<1>3. PlaneStep => [Next]_vars
  BY DEF PlaneStep, Next
<1>4. \/ UNCHANGED systemVars
      \/ \E c \in Conns, a \in Agents : StartRun(c, a)
      \/ \E c \in Conns : AgentStops(c)
      \/ \E c \in Conns, x \in Actions, ok \in BOOLEAN : AgentFinishes(c, x, ok)
      => UNCHANGED vars
  BY DEF systemVars, StartRun, AgentStops, AgentFinishes
<1>5. QED BY <1>1, <1>2, <1>3, <1>4, SystemSteps

-----------------------------------------------------------------------------
(* Types of both ends. *)

\* rememberAction keeps the map a map of action ids to deadlines.
LEMMA RememberType ==
    ASSUME NEW seen \in Seq(Host!SeenEntry), NEW f, f.action \in Actions, f.deadline \in Nat
    PROVE  Host!Remember(seen, f) \in Seq(Host!SeenEntry)
<1>1. PICK S : S = {e \in Host!SeenEntry : e.deadline > now}
  OBVIOUS
<1>2. Host!Kept(seen, S) = Kept(seen, S)
  BY DEF Host!Kept, Kept
<1>3. Kept(seen, S) \in Seq(Host!SeenEntry)
  BY KeptEntries
<1>4. PICK e : e = [action |-> f.action, deadline |-> f.deadline]
  OBVIOUS
<1>5. e \in Host!SeenEntry
  BY <1>4 DEF Host!SeenEntry
<1>6. PICK added : added = Append(Kept(seen, S), e)
  OBVIOUS
<1>7. added \in Seq(Host!SeenEntry) /\ Len(added) \in Nat
  BY <1>3, <1>5, <1>6, LastFrame
<1>8. PICK from : from = Len(added) - (IF Len(added) > SeenLimit THEN SeenLimit ELSE Len(added)) + 1
  OBVIOUS
<1>9. Host!Remember(seen, f) = SubSeq(added, from, Len(added))
  BY <1>1, <1>2, <1>4, <1>6, <1>8 DEF Host!Remember
<1>10. from \in 1..(Len(added) + 1)
  <2>1. SeenLimit \in Nat
    BY SystemAssumption
  <2>2. CASE Len(added) > SeenLimit
    BY <1>7, <1>8, <2>1, <2>2
  <2>3. CASE ~(Len(added) > SeenLimit)
    BY <1>7, <1>8, <2>3
  <2>4. QED BY <2>2, <2>3
<1>11. QED BY <1>7, <1>9, <1>10, SubSeqProperties

\* A request carries an action id and a deadline.
LEMMA RequestFields ==
    ASSUME NEW f \in Frame
    PROVE  /\ f.agent \in Agents
           /\ f.version \in Nat
           /\ f.type \in {"action.request", "policy.update"}
           /\ f.type = "action.request" => f.action \in Actions /\ f.deadline \in Nat
           /\ f.type = "policy.update" => f.allow \in BOOLEAN
BY DEF Frame

\* A step of a run that leaves its frames well formed.
LEMMA AgentSideType ==
    ASSUME SystemTypeOK, NEW c \in Conns, NEW f \in Frame,
           Host!ApplyPolicyUpdate(c, f) \/ Host!StartAction(c, f) \/ Host!DropFrame(c, f)
    PROVE  Host!AgentTypeOK'
<1> USE DEF SystemTypeOK
<1>1. CASE Host!DropFrame(c, f)
  BY <1>1 DEF Host!DropFrame, Host!agentVars, Host!AgentTypeOK
<1>2. CASE Host!ApplyPolicyUpdate(c, f)
  <2>1. PICK p : p = [version |-> f.version, allow |-> f.allow]
    OBVIOUS
  <2>2. p \in Host!Policy /\ f.agent \in Agents
    BY <1>2, <2>1, RequestFields DEF Host!ApplyPolicyUpdate, Host!Policy
  <2>3. procs' = [procs EXCEPT ![c].policy = p] /\ config' = [config EXCEPT ![f.agent] = p]
    BY <1>2, <2>1 DEF Host!ApplyPolicyUpdate
  <2>4. UNCHANGED <<seenActions, executing, executions, up>>
    BY <1>2 DEF Host!ApplyPolicyUpdate
  <2>5. procs' \in [Conns -> [phase: {"idle", "running", "ended"},
                              agent: Agents \cup {NoAgent}, policy: Host!Policy]]
         /\ \A d \in Conns : procs'[d].phase = "running" => procs'[d].agent \in Agents
    BY <2>2, <2>3 DEF Host!AgentTypeOK
  <2>6. config' \in [Agents -> Host!Policy]
    BY <2>2, <2>3 DEF Host!AgentTypeOK
  <2>7. QED BY <2>4, <2>5, <2>6 DEF Host!AgentTypeOK
<1>3. CASE Host!StartAction(c, f)
  <2>1. f.action \in Actions /\ f.deadline \in Nat /\ f.agent \in Agents
    BY <1>3, RequestFields DEF Host!StartAction
  <2>2. seenActions' = [seenActions EXCEPT ![c] = Host!Remember(seenActions[c], f)]
    BY <1>3 DEF Host!StartAction
  <2>3. Host!Remember(seenActions[c], f) \in Seq(Host!SeenEntry)
    BY <2>1, RememberType DEF Host!AgentTypeOK
  <2>4. seenActions' \in [Conns -> Seq(Host!SeenEntry)]
    BY <2>2, <2>3 DEF Host!AgentTypeOK
  <2>5. PICK r : r = Host!Result(f.action, f.agent, FALSE)
    OBVIOUS
  <2>6. r \in Host!UpFrame
    BY <2>1, <2>5 DEF Host!Result, Host!UpFrame
  <2>7. Append(up[c], r) \in Seq(Host!UpFrame)
    BY <2>6, LastFrame DEF Host!AgentTypeOK
  <2>8. UNCHANGED <<config, procs>>
    BY <1>3 DEF Host!StartAction
  <2>9. \/ /\ executing' = [executing EXCEPT ![c] = @ \cup {f.action}]
           /\ executions' = [executions EXCEPT ![f.action] = @ + 1]
           /\ up' = up
        \/ /\ up' = [up EXCEPT ![c] = Append(up[c], r)]
           /\ UNCHANGED <<executing, executions>>
    BY <1>3, <2>5 DEF Host!StartAction
  <2>10. up' \in [Conns -> Seq(Host!UpFrame)]
    BY <2>7, <2>9 DEF Host!AgentTypeOK
  <2>11. executing' \in [Conns -> SUBSET Actions] /\ executions' \in [Actions -> Nat]
    <3>1. /\ [executing EXCEPT ![c] = @ \cup {f.action}] \in [Conns -> SUBSET Actions]
          /\ [executions EXCEPT ![f.action] = @ + 1] \in [Actions -> Nat]
      BY <2>1 DEF Host!AgentTypeOK
    <3>2. QED BY <2>9, <3>1 DEF Host!AgentTypeOK
  <2>12. QED BY <2>4, <2>8, <2>10, <2>11 DEF Host!AgentTypeOK
<1>4. QED BY <1>1, <1>2, <1>3

\* The host's side keeps its types.
LEMMA HostTypeStep ==
    ASSUME SystemTypeOK, [SystemNext]_systemVars
    PROVE  Host!AgentTypeOK' /\ synced' \in [Conns -> BOOLEAN]
<1> DEFINE Goal == Host!AgentTypeOK' /\ synced' \in [Conns -> BOOLEAN]
<1>1. UNCHANGED <<hostVars, synced>> => Goal
  BY DEF SystemTypeOK, hostVars, Host!AgentTypeOK
<1>2. ASSUME NEW a \in Agents, NEW key \in Keys, Enroll(a, key) PROVE Goal
  <2>1. CASE UNCHANGED hostVars
    BY <1>1, <1>2, <2>1 DEF Enroll
  <2>2. CASE Host!SaveEnrollment(a, StoredPolicy(a))
    <3>1. StoredPolicy(a) \in Host!Policy
      BY DEF StoredPolicy, Host!Policy, SystemTypeOK, TypeOK, Agent
    <3>2. config' \in [Agents -> Host!Policy]
      BY <2>2, <3>1 DEF Host!SaveEnrollment, SystemTypeOK, Host!AgentTypeOK
    <3>3. QED BY <1>2, <2>2, <3>2 DEF Enroll, Host!SaveEnrollment, SystemTypeOK, Host!AgentTypeOK
  <2>3. QED BY <1>2, <2>1, <2>2 DEF Enroll
<1>3. ASSUME NEW c \in Conns, NEW a \in Agents, StartRun(c, a) PROVE Goal
  <2>1. PICK p : p = [phase |-> "running", agent |-> a, policy |-> config[a]]
    OBVIOUS
  <2>2. procs' = [procs EXCEPT ![c] = p] /\ up' = [up EXCEPT ![c] = Append(up[c], Host!Hello(a))]
        /\ UNCHANGED <<config, seenActions, executing, executions, synced>>
    BY <1>3, <2>1 DEF StartRun, Host!RunAgent
  <2>3. Host!Hello(a) \in Host!UpFrame
    BY DEF Host!Hello, Host!UpFrame
  <2>4. Append(up[c], Host!Hello(a)) \in Seq(Host!UpFrame)
    BY <2>3, LastFrame DEF SystemTypeOK, Host!AgentTypeOK
  <2>5. up' \in [Conns -> Seq(Host!UpFrame)]
    BY <2>2, <2>4 DEF SystemTypeOK, Host!AgentTypeOK
  <2>6. p \in [phase: {"idle", "running", "ended"}, agent: Agents \cup {NoAgent}, policy: Host!Policy]
    BY <2>1 DEF SystemTypeOK, Host!AgentTypeOK
  <2>7. /\ procs' \in [Conns -> [phase: {"idle", "running", "ended"},
                               agent: Agents \cup {NoAgent}, policy: Host!Policy]]
        /\ \A d \in Conns : procs'[d] = IF d = c THEN p ELSE procs[d]
    BY <2>2, <2>6 DEF SystemTypeOK, Host!AgentTypeOK
  <2>8. \A d \in Conns : procs'[d].phase = "running" => procs'[d].agent \in Agents
    BY <2>1, <2>7 DEF SystemTypeOK, Host!AgentTypeOK
  <2>9. QED BY <2>2, <2>5, <2>7, <2>8 DEF SystemTypeOK, Host!AgentTypeOK
<1>4. ASSUME NEW c \in Conns, AgentReads(c) PROVE Goal
  <2>1. down[c] \in Seq(Frame) /\ down[c] # <<>>
    BY <1>4 DEF AgentReads, SystemTypeOK, TypeOK
  <2>2. Head(down[c]) \in Frame
    BY <2>1, NextFrame
  <2>3. PICK f \in Frame : Host!ApplyPolicyUpdate(c, f) \/ Host!StartAction(c, f) \/ Host!DropFrame(c, f)
    BY <1>4, <2>2 DEF AgentReads
  <2>4. Host!AgentTypeOK'
    BY <2>3, AgentSideType
  <2>5. QED BY <1>4, <2>4 DEF AgentReads, SystemTypeOK
<1>5. ASSUME NEW c \in Conns, AgentStops(c) PROVE Goal
  <2>1. /\ procs' = [procs EXCEPT ![c].phase = "ended"]
        /\ executing' = [executing EXCEPT ![c] = {}] /\ seenActions' = [seenActions EXCEPT ![c] = <<>>]
        /\ UNCHANGED <<config, executions, up, synced>>
    BY <1>5 DEF AgentStops, Host!AgentEnds
  <2>2. <<>> \in Seq(Host!SeenEntry)
    OBVIOUS
  <2>3. seenActions' \in [Conns -> Seq(Host!SeenEntry)]
    BY <2>1, <2>2 DEF SystemTypeOK, Host!AgentTypeOK
  <2>4. /\ procs' \in [Conns -> [phase: {"idle", "running", "ended"},
                                agent: Agents \cup {NoAgent}, policy: Host!Policy]]
        /\ \A d \in Conns : d # c => procs'[d] = procs[d]
        /\ procs'[c].phase = "ended"
    BY <2>1 DEF SystemTypeOK, Host!AgentTypeOK
  <2>5. \A d \in Conns : procs'[d].phase = "running" => procs'[d].agent \in Agents
    BY <2>4 DEF SystemTypeOK, Host!AgentTypeOK
  <2>6. executing' \in [Conns -> SUBSET Actions]
    BY <2>1 DEF SystemTypeOK, Host!AgentTypeOK
  <2>7. QED BY <2>1, <2>3, <2>4, <2>5, <2>6 DEF SystemTypeOK, Host!AgentTypeOK
<1>6. ASSUME NEW c \in Conns, PlaneReads(c) PROVE Goal
  <2>1. up[c] \in Seq(Host!UpFrame) /\ up[c] # <<>>
    BY <1>6 DEF PlaneReads, SystemTypeOK, Host!AgentTypeOK
  <2>2. Tail(up[c]) \in Seq(Host!UpFrame)
    BY <2>1, NextFrame
  <2>3. up' = [up EXCEPT ![c] = Tail(up[c])] /\ UNCHANGED <<config, procs, seenActions, executing, executions>>
    BY <1>6 DEF PlaneReads
  <2>4. synced' = synced \/ synced' = [synced EXCEPT ![c] = procs[c].policy = StoredPolicy(Head(up[c]).agent)]
    BY <1>6 DEF PlaneReads
  <2>5. synced' \in [Conns -> BOOLEAN]
    BY <2>4, Zenon DEF SystemTypeOK
  <2>6. QED BY <2>2, <2>3, <2>5 DEF SystemTypeOK, Host!AgentTypeOK
<1>7. ASSUME NEW c \in Conns, NEW x \in Actions, NEW ok \in BOOLEAN, AgentFinishes(c, x, ok) PROVE Goal
  <2>1. PICK r : r = Host!Result(x, procs[c].agent, ok)
    OBVIOUS
  <2>2. /\ procs[c].phase = "running" /\ x \in executing[c]
        /\ executing' = [executing EXCEPT ![c] = @ \ {x}]
        /\ up' = [up EXCEPT ![c] = Append(up[c], r)]
        /\ UNCHANGED <<config, procs, seenActions, executions, synced>>
    BY <1>7, <2>1 DEF AgentFinishes, Host!FinishAction
  <2>3. procs[c].agent \in Agents
    BY <2>2 DEF SystemTypeOK, Host!AgentTypeOK
  <2>4. r \in Host!UpFrame
    BY <2>1, <2>3 DEF Host!Result, Host!UpFrame
  <2>5. Append(up[c], r) \in Seq(Host!UpFrame)
    BY <2>4, LastFrame DEF SystemTypeOK, Host!AgentTypeOK
  <2>6. up' \in [Conns -> Seq(Host!UpFrame)]
    BY <2>2, <2>5 DEF SystemTypeOK, Host!AgentTypeOK
  <2>7. QED BY <2>2, <2>6 DEF SystemTypeOK, Host!AgentTypeOK
<1>8. UNCHANGED systemVars \/ PlaneStep => UNCHANGED <<hostVars, synced>>
  BY DEF systemVars, PlaneStep
<1>9. QED BY <1>1, <1>2, <1>3, <1>4, <1>5, <1>6, <1>7, <1>8, SystemSteps

\* Both ends keep their types.
LEMMA SystemTypeStep == SystemTypeOK /\ [SystemNext]_systemVars => SystemTypeOK'
<1> SUFFICES ASSUME SystemTypeOK, [SystemNext]_systemVars PROVE SystemTypeOK'
  OBVIOUS
<1>1. CASE [Next]_vars
  BY <1>1, TypeStep, HostTypeStep DEF SystemTypeOK
<1>2. ASSUME NEW c \in Conns, AgentReads(c) PROVE TypeOK'
  <2>1. down[c] \in Seq(Frame) /\ down[c] # <<>>
    BY <1>2 DEF AgentReads, SystemTypeOK, TypeOK
  <2>2. Tail(down[c]) \in Seq(Frame)
    BY <2>1, NextFrame
  <2>3. down' = [down EXCEPT ![c] = Tail(down[c])]
        /\ UNCHANGED <<running, storeVars, liveVars, pendingActions, patches, now>>
    BY <1>2 DEF AgentReads
  <2>4. QED BY <2>2, <2>3 DEF SystemTypeOK, TypeOK, storeVars, liveVars
<1>3. QED BY <1>1, <1>2, PlaneSide, HostTypeStep DEF SystemTypeOK

LEMMA SystemTypeInit == SystemInit => SystemTypeOK
<1> SUFFICES ASSUME SystemInit PROVE SystemTypeOK
  OBVIOUS
<1>1. TypeOK
  BY TypeInit DEF SystemInit
<1>2. Host!NotEnrolled \in Host!Policy
  BY DEF Host!NotEnrolled, Host!Policy
<1>3. Host!AgentTypeOK /\ synced \in [Conns -> BOOLEAN]
  BY <1>2 DEF SystemInit, Host!AgentInit, Host!AgentTypeOK, Host!NoProc
<1>4. QED BY <1>1, <1>3 DEF SystemTypeOK

\* The tables of the control plane, the memory and file of the agents and the frames between
\* them always have their types.
THEOREM SystemTypeCorrect == SystemSpec => []SystemTypeOK
BY SystemTypeInit, SystemTypeStep, PTL DEF SystemSpec

\* What a step of the control plane puts on the wire.
LEMMA DownSteps ==
    ASSUME TypeOK, [Next]_vars
    PROVE  \/ down' = down
           \/ \E c \in Conns, a \in Agents, r \in Agent :
                 /\ agentConnections[a] = c /\ agents' = [agents EXCEPT ![a] = r]
                 /\ down' = [down EXCEPT ![c] = Append(down[c], PolicyUpdate(a, r))]
           \/ \E x \in Actions, a \in Agents, t \in 0..ActionTimeout : DispatchAction(x, a, t)
<1> DEFINE Told == \E c \in Conns, a \in Agents, r \in Agent :
                      /\ agentConnections[a] = c /\ agents' = [agents EXCEPT ![a] = r]
                      /\ down' = [down EXCEPT ![c] = Append(down[c], PolicyUpdate(a, r))]
<1>1. ASSUME NEW a \in Agents, NEW r \in Agent, NEW allow \in BOOLEAN, UpdateAgentPolicy(a, r, allow)
      PROVE  down' = down \/ Told
  <2>1. PICK u : u = [r EXCEPT !.version = r.version + 1, !.allow = allow]
    OBVIOUS
  <2>2. u \in Agent
    <3>1. r.version + 1 \in Nat
      BY DEF Agent
    <3>2. QED BY <2>1, <3>1 DEF Agent
  <2>3. agents' = [agents EXCEPT ![a] = u] /\ down' = Sent(agentConnections[a], PolicyUpdate(a, u))
    BY <1>1, <2>1 DEF UpdateAgentPolicy
  <2>4. QED BY <2>2, <2>3 DEF Sent
<1>2. ASSUME NEW a \in Agents, NEW allow \in BOOLEAN, UpdatePolicyTool(a, allow)
      PROVE  down' = down \/ Told
  <2>1. agents[a] \in Agent
    BY DEF TypeOK
  <2>2. QED BY <1>1, <1>2, <2>1 DEF UpdatePolicyTool
<1>3. ASSUME NEW p \in Patches, NEW allow \in BOOLEAN, PatchApply(p, allow)
      PROVE  down' = down \/ Told
  <2>1. patches[p].snap \in Agent /\ patches[p].agent \in Agents
    BY <1>3 DEF TypeOK, Patch, PatchApply
  <2>2. QED BY <1>1, <1>3, <2>1 DEF PatchApply
<1>4. QED BY <1>2, <1>3
       DEF Next, ServerStep, CreateEnrollmentToken, RevokeAgent, PatchResolve, PatchAbort, AcceptConnection,
           SocketClosed, CloseConnection, Restart, Tick, Crash, Shutdown, ForgetMemory, ActionTimedOut,
           AgentEnroll, RejectedHello, AgentHello, ActionResult, vars

-----------------------------------------------------------------------------
(* Calls are answered truthfully: the inductive invariant. *)

\* The i-th frame on its way to run c asks for action x; the i-th frame on its way from
\* run c tells how x went.
Asks(c, i, x) ==
    i \in 1..Len(down[c]) /\ down[c][i].type = "action.request" /\ down[c][i].action = x
Tells(c, i, x) ==
    i \in 1..Len(up[c]) /\ up[c][i].type = "action.result" /\ up[c][i].action = x

\* No host knows of x.
NotStarted(x) ==
    /\ executions[x] = 0
    /\ \A c \in Conns : x \notin executing[c]
    /\ \A c \in Conns, i \in Nat : ~Tells(c, i, x)

\* The caller of x waits, is lost, or has been told of a timeout that the deadline of the
\* request covers.
Open(x, deadline) ==
    /\ actions[x].status \in {"sent", "timeout"}
    /\ deadline = actions[x].deadline
    /\ actions[x].status = "timeout" => now >= deadline + Grace

\* An action that was not dispatched is nowhere.
UnsentIsNowhere ==
    \A x \in Actions : actions[x].status = "none" =>
        NotStarted(x) /\ \A c \in Conns, i \in Nat : ~Asks(c, i, x)

\* There is one request for an action, no host has started it while it is under way, and
\* its caller has not been given another answer.
RequestInStep ==
    /\ \A c, d \in Conns, i, j \in Nat, x \in Actions :
          Asks(c, i, x) /\ Asks(d, j, x) => c = d /\ i = j
    /\ \A c \in Conns, i \in Nat, x \in Actions :
          Asks(c, i, x) => NotStarted(x) /\ Open(x, down[c][i].deadline)

\* What a host executes, or says it has done, was started once.
StartedIsCounted ==
    /\ \A c \in Conns : \A x \in executing[c] : executions[x] = 1
    /\ \A c \in Conns, i \in Nat, x \in Actions : Tells(c, i, x) /\ up[c][i].ok => executions[x] = 1

CallInv == SystemTypeOK /\ PendingIsSent /\ UnsentIsNowhere /\ RequestInStep /\ StartedIsCounted

\* A step after which nothing new is asked, told or started.
LEMMA QuietStep ==
    ASSUME CallInv,
           NEW k \in [Conns -> Nat], NEW m \in [Conns -> Nat],
           \A c \in Conns, i \in Nat, x \in Actions :
               Asks(c, i, x)' => Asks(c, i + k[c], x) /\ down'[c][i] = down[c][i + k[c]],
           \A c \in Conns, i \in Nat, x \in Actions :
               Tells(c, i, x)' => Tells(c, i + m[c], x) /\ up'[c][i] = up[c][i + m[c]],
           executions' = executions,
           \A c \in Conns : executing'[c] \subseteq executing[c],
           \A x \in Actions : actions'[x].status = "none" => actions[x].status = "none",
           \A c \in Conns, i \in Nat, x \in Actions, e \in Nat :
               Asks(c, i, x) /\ down[c][i].deadline = e => Open(x, e)'
    PROVE  UnsentIsNowhere' /\ RequestInStep' /\ StartedIsCounted'
<1>1. ASSUME NEW x \in Actions, NotStarted(x) PROVE NotStarted(x)'
  <2>1. \A c \in Conns, i \in Nat : i + m[c] \in Nat
    OBVIOUS
  <2>2. QED BY <1>1, <2>1 DEF NotStarted
<1>2. \A c \in Conns, i \in Nat : i + k[c] \in Nat /\ i + m[c] \in Nat
  OBVIOUS
<1>3. UnsentIsNowhere'
  BY <1>1, <1>2 DEF CallInv, UnsentIsNowhere
<1>4. RequestInStep'
  <2>1. ASSUME NEW c \in Conns, NEW d \in Conns, NEW i \in Nat, NEW j \in Nat, NEW x \in Actions,
               Asks(c, i, x)', Asks(d, j, x)'
        PROVE  c = d /\ i = j
    <3>1. Asks(c, i + k[c], x) /\ Asks(d, j + k[d], x)
      BY <2>1
    <3>2. c = d /\ i + k[c] = j + k[d]
      BY <1>2, <3>1 DEF CallInv, RequestInStep
    <3>3. QED BY <3>2
  <2>2. ASSUME NEW c \in Conns, NEW i \in Nat, NEW x \in Actions, Asks(c, i, x)'
        PROVE  NotStarted(x)' /\ Open(x, down[c][i].deadline)'
    <3>1. PICK j \in Nat : Asks(c, j, x) /\ down'[c][i] = down[c][j]
      BY <1>2, <2>2
    <3>2. PICK e \in Nat : down[c][j].deadline = e
      <4>1. down[c] \in Seq(Frame) /\ j \in 1..Len(down[c]) /\ down[c][j].type = "action.request"
        BY <3>1 DEF CallInv, SystemTypeOK, TypeOK, Asks
      <4>2. down[c][j] \in Frame
        BY <4>1
      <4>3. QED BY <4>1, <4>2, RequestFields
    <3>3. Open(x, e)'
      BY <3>1, <3>2
    <3>4. NotStarted(x)'
      BY <1>1, <3>1 DEF CallInv, RequestInStep
    <3>5. QED BY <3>1, <3>2, <3>3, <3>4 DEF Open
  <2>3. QED BY <2>1, <2>2 DEF RequestInStep
<1>5. StartedIsCounted'
  BY <1>2 DEF CallInv, StartedIsCounted
<1>6. QED BY <1>3, <1>4, <1>5

\* A frame that asks for nothing changes no question; one that is read takes the others forward.
LEMMA AppendAsksNothing ==
    ASSUME TypeOK, NEW d \in Conns, NEW f \in Frame, f.type # "action.request",
           down' = [down EXCEPT ![d] = Append(down[d], f)],
           NEW k \in [Conns -> Nat], \A c \in Conns : k[c] = 0
    PROVE  \A c \in Conns, i \in Nat, x \in Actions :
               Asks(c, i, x)' => Asks(c, i + k[c], x) /\ down'[c][i] = down[c][i + k[c]]
<1>0. \A c \in Conns, i \in Nat : i + k[c] = i
  OBVIOUS
<1> SUFFICES ASSUME NEW c \in Conns, NEW i \in Nat, NEW x \in Actions, Asks(c, i, x)'
             PROVE  Asks(c, i, x) /\ down'[c][i] = down[c][i]
  BY <1>0
<1>1. CASE c # d
  <2>1. down'[c] = down[c]
    BY <1>1 DEF TypeOK
  <2>2. QED BY <2>1 DEF Asks
<1>2. CASE c = d
  <2>1. down'[c] = Append(down[c], f) /\ down[c] \in Seq(Frame)
    BY <1>2 DEF TypeOK
  <2>2. i \in 1..(Len(down[c]) + 1) /\ i # Len(down[c]) + 1
    BY <2>1, LastFrame DEF Asks
  <2>3. i \in 1..Len(down[c]) /\ Append(down[c], f)[i] = down[c][i]
    BY <2>1, <2>2, LastFrame
  <2>4. QED BY <2>1, <2>3 DEF Asks
<1>3. QED BY <1>1, <1>2

LEMMA AppendTellsNothing ==
    ASSUME Host!AgentTypeOK, NEW d \in Conns, NEW f \in Host!UpFrame, f.type # "action.result",
           up' = [up EXCEPT ![d] = Append(up[d], f)],
           NEW m \in [Conns -> Nat], \A c \in Conns : m[c] = 0
    PROVE  \A c \in Conns, i \in Nat, x \in Actions :
               Tells(c, i, x)' => Tells(c, i + m[c], x) /\ up'[c][i] = up[c][i + m[c]]
<1>0. \A c \in Conns, i \in Nat : i + m[c] = i
  OBVIOUS
<1> SUFFICES ASSUME NEW c \in Conns, NEW i \in Nat, NEW x \in Actions, Tells(c, i, x)'
             PROVE  Tells(c, i, x) /\ up'[c][i] = up[c][i]
  BY <1>0
<1>1. CASE c # d
  <2>1. up'[c] = up[c]
    BY <1>1 DEF Host!AgentTypeOK
  <2>2. QED BY <2>1 DEF Tells
<1>2. CASE c = d
  <2>1. up'[c] = Append(up[c], f) /\ up[c] \in Seq(Host!UpFrame)
    BY <1>2 DEF Host!AgentTypeOK
  <2>2. i \in 1..(Len(up[c]) + 1) /\ i # Len(up[c]) + 1
    BY <2>1, LastFrame DEF Tells
  <2>3. i \in 1..Len(up[c]) /\ Append(up[c], f)[i] = up[c][i]
    BY <2>1, <2>2, LastFrame
  <2>4. QED BY <2>1, <2>3 DEF Tells
<1>3. QED BY <1>1, <1>2

LEMMA TailAsks ==
    ASSUME TypeOK, NEW d \in Conns, down[d] # <<>>, down' = [down EXCEPT ![d] = Tail(down[d])],
           NEW k \in [Conns -> Nat], \A c \in Conns : k[c] = IF c = d THEN 1 ELSE 0
    PROVE  \A c \in Conns, i \in Nat, x \in Actions :
               Asks(c, i, x)' => Asks(c, i + k[c], x) /\ down'[c][i] = down[c][i + k[c]]
<1> SUFFICES ASSUME NEW c \in Conns, NEW i \in Nat, NEW x \in Actions, Asks(c, i, x)'
             PROVE  Asks(c, i + k[c], x) /\ down'[c][i] = down[c][i + k[c]]
  OBVIOUS
<1>1. CASE c # d
  <2>1. down'[c] = down[c] /\ k[c] = 0
    BY <1>1 DEF TypeOK
  <2>2. QED BY <2>1 DEF Asks
<1>2. CASE c = d
  <2>1. down'[c] = Tail(down[c]) /\ down[c] \in Seq(Frame) /\ k[c] = 1
    BY <1>2 DEF TypeOK
  <2>2. i + 1 \in 1..Len(down[c]) /\ Tail(down[c])[i] = down[c][i + 1]
    BY <1>2, <2>1, NextFrame DEF Asks
  <2>3. QED BY <2>1, <2>2 DEF Asks
<1>3. QED BY <1>1, <1>2

LEMMA TailTells ==
    ASSUME Host!AgentTypeOK, NEW d \in Conns, up[d] # <<>>, up' = [up EXCEPT ![d] = Tail(up[d])],
           NEW m \in [Conns -> Nat], \A c \in Conns : m[c] = IF c = d THEN 1 ELSE 0
    PROVE  \A c \in Conns, i \in Nat, x \in Actions :
               Tells(c, i, x)' => Tells(c, i + m[c], x) /\ up'[c][i] = up[c][i + m[c]]
<1> SUFFICES ASSUME NEW c \in Conns, NEW i \in Nat, NEW x \in Actions, Tells(c, i, x)'
             PROVE  Tells(c, i + m[c], x) /\ up'[c][i] = up[c][i + m[c]]
  OBVIOUS
<1>1. CASE c # d
  <2>1. up'[c] = up[c] /\ m[c] = 0
    BY <1>1 DEF Host!AgentTypeOK
  <2>2. QED BY <2>1 DEF Tells
<1>2. CASE c = d
  <2>1. up'[c] = Tail(up[c]) /\ up[c] \in Seq(Host!UpFrame) /\ m[c] = 1
    BY <1>2 DEF Host!AgentTypeOK
  <2>2. i + 1 \in 1..Len(up[c]) /\ Tail(up[c])[i] = up[c][i + 1]
    BY <1>2, <2>1, NextFrame DEF Tells
  <2>3. QED BY <2>1, <2>2 DEF Tells
<1>3. QED BY <1>1, <1>2

\* Time passes, no record changes: a request that was open stays open.
LEMMA StillOpen ==
    ASSUME CallInv, actions' = actions, now' \in Nat, now <= now'
    PROVE  \A c \in Conns, i \in Nat, x \in Actions, e \in Nat :
               Asks(c, i, x) /\ down[c][i].deadline = e => Open(x, e)'
<1> SUFFICES ASSUME NEW c \in Conns, NEW i \in Nat, NEW x \in Actions, NEW e \in Nat,
                    Asks(c, i, x), down[c][i].deadline = e
             PROVE  Open(x, e)'
  OBVIOUS
<1>1. Open(x, e)
  BY DEF CallInv, RequestInStep
<1>2. now \in Nat /\ Grace \in Nat
  BY ControlPlaneAssumption DEF CallInv, SystemTypeOK, TypeOK
<1>3. QED BY <1>1, <1>2 DEF Open

\* The clock never goes back.
LEMMA ClockSteps ==
    ASSUME TypeOK, [Next]_vars
    PROVE  now' \in Nat /\ now <= now'
<1>1. now' = now \/ now' = now + 1
  BY DEF Next, ServerStep, CreateEnrollmentToken, UpdatePolicyTool, RevokeAgent, PatchResolve,
         PatchApply, PatchAbort, DispatchAction, ActionTimedOut, AcceptConnection, SocketClosed,
         CloseConnection, Restart, Tick, Crash, Shutdown, ForgetMemory, AgentEnroll, RejectedHello,
         AgentHello, ActionResult, vars
<1>2. now \in Nat
  BY DEF TypeOK
<1>3. QED BY <1>1, <1>2

\* A step of the control plane that neither dispatches nor settles, while no host moves.
LEMMA IdlePlane ==
    ASSUME CallInv, [Next]_vars, actions' = actions,
           down' = down \/ \E c \in Conns, f \in Frame :
                              /\ f.type = "policy.update"
                              /\ down' = [down EXCEPT ![c] = Append(down[c], f)],
           executions' = executions, \A c \in Conns : executing'[c] \subseteq executing[c],
           NEW m \in [Conns -> Nat],
           \A c \in Conns, i \in Nat, x \in Actions :
               Tells(c, i, x)' => Tells(c, i + m[c], x) /\ up'[c][i] = up[c][i + m[c]]
    PROVE  UnsentIsNowhere' /\ RequestInStep' /\ StartedIsCounted'
<1>1. TypeOK
  BY DEF CallInv, SystemTypeOK
<1>2. PICK k : k = [c \in Conns |-> 0]
  OBVIOUS
<1>3. k \in [Conns -> Nat] /\ \A c \in Conns : k[c] = 0
  BY <1>2
<1>4. \A c \in Conns, i \in Nat, x \in Actions :
          Asks(c, i, x)' => Asks(c, i + k[c], x) /\ down'[c][i] = down[c][i + k[c]]
  <2>1. CASE down' = down
    <3>1. \A c \in Conns, i \in Nat : i + k[c] = i
      BY <1>2
    <3>2. QED BY <2>1, <3>1 DEF Asks
  <2>2. ASSUME NEW c \in Conns, NEW f \in Frame, f.type = "policy.update",
               down' = [down EXCEPT ![c] = Append(down[c], f)]
        PROVE  \A b \in Conns, i \in Nat, x \in Actions :
                  Asks(b, i, x)' => Asks(b, i + k[b], x) /\ down'[b][i] = down[b][i + k[b]]
    <3>1. f.type # "action.request"
      BY <2>2
    <3>2. QED BY <1>1, <1>3, <2>2, <3>1, AppendAsksNothing
  <2>3. QED BY <2>1, <2>2
<1>5. \A c \in Conns, i \in Nat, x \in Actions, e \in Nat :
          Asks(c, i, x) /\ down[c][i].deadline = e => Open(x, e)'
  BY <1>1, ClockSteps, StillOpen
<1>6. \A x \in Actions : actions'[x].status = "none" => actions[x].status = "none"
  OBVIOUS
<1>7. QED BY <1>3, <1>4, <1>5, <1>6, QuietStep

\* A record is settled of which no request is under way, or whose time is over.
LEMMA SettleKeeps ==
    ASSUME CallInv, NEW y \in pendingActions, NEW st \in Settled, Settle(y, st),
           now' = now, down' = down,
           executions' = executions, executing' = executing,
           NEW m \in [Conns -> Nat],
           \A c \in Conns, i \in Nat, x \in Actions :
               Tells(c, i, x)' => Tells(c, i + m[c], x) /\ up'[c][i] = up[c][i + m[c]],
           \/ st = "timeout" /\ now >= actions[y].deadline + Grace
           \/ \A c \in Conns, i \in Nat : ~Asks(c, i, y)
    PROVE  UnsentIsNowhere' /\ RequestInStep' /\ StartedIsCounted'
<1>1. y \in Actions /\ actions \in [Actions -> Action] /\ now \in Nat /\ Grace \in Nat
  BY ControlPlaneAssumption DEF CallInv, SystemTypeOK, TypeOK
<1>2. actions' = [actions EXCEPT ![y].status = st]
  BY DEF Settle
<1>3. \A x \in Actions : x # y => actions'[x] = actions[x]
  BY <1>1, <1>2
<1>4. actions'[y].status = st /\ actions'[y].deadline = actions[y].deadline
  BY <1>1, <1>2 DEF Action
<1>5. PICK k : k = [c \in Conns |-> 0]
  OBVIOUS
<1>6. k \in [Conns -> Nat] /\ \A c \in Conns, i \in Nat : i + k[c] = i
  BY <1>5
<1>7. \A c \in Conns, i \in Nat, x \in Actions :
          Asks(c, i, x)' => Asks(c, i + k[c], x) /\ down'[c][i] = down[c][i + k[c]]
  BY <1>6 DEF Asks
<1>8. ASSUME NEW c \in Conns, NEW i \in Nat, NEW x \in Actions, NEW e \in Nat,
             Asks(c, i, x), down[c][i].deadline = e
      PROVE  Open(x, e)'
  <2>1. Open(x, e)
    BY <1>8 DEF CallInv, RequestInStep
  <2>2. CASE x # y
    BY <1>3, <2>1, <2>2 DEF Open
  <2>3. CASE x = y
    <3>1. st = "timeout" /\ now >= actions[y].deadline + Grace
      BY <1>8, <2>3
    <3>2. QED BY <1>4, <2>1, <2>3, <3>1 DEF Open
  <2>4. QED BY <2>2, <2>3
<1>9. \A x \in Actions : actions'[x].status = "none" => actions[x].status = "none"
  BY <1>3, <1>4 DEF Settled
<1>10. \A c \in Conns : executing'[c] \subseteq executing[c]
  OBVIOUS
<1>11. QED BY <1>6, <1>7, <1>8, <1>9, <1>10, QuietStep

\* A dispatched action has one request on the wire, or none if its socket has just closed.
LEMMA DispatchKeeps ==
    ASSUME CallInv, NEW y \in Actions, NEW a \in Agents, NEW t \in 0..ActionTimeout,
           DispatchAction(y, a, t), UNCHANGED <<executing, executions, up>>
    PROVE  UnsentIsNowhere' /\ RequestInStep' /\ StartedIsCounted'
<1>1. actions \in [Actions -> Action] /\ now \in Nat /\ Grace \in Nat /\ t \in Nat
      /\ down \in [Conns -> Seq(Frame)] /\ agents[a] \in Agent
  BY ControlPlaneAssumption DEF CallInv, SystemTypeOK, TypeOK
<1>2. PICK d : d = agentConnections[a]
  OBVIOUS
<1>3. PICK f : f = ActionRequest(y, a, agents[a].version, now + t)
  OBVIOUS
<1>4. /\ actions[y].status = "none" /\ now' = now
      /\ actions' = [actions EXCEPT ![y] = [status |-> "sent", agent |-> a, deadline |-> now + t]]
      /\ down' = Sent(d, f)
  BY <1>2, <1>3 DEF DispatchAction
<1>5. f \in Frame /\ f.type = "action.request" /\ f.action = y /\ f.deadline = now + t
  BY <1>1, <1>3 DEF ActionRequest, Frame, Agent
<1>6. NotStarted(y) /\ \A c \in Conns, i \in Nat : ~Asks(c, i, y)
  BY <1>4 DEF CallInv, UnsentIsNowhere
<1>7. \A x \in Actions : NotStarted(x) => NotStarted(x)'
  BY DEF NotStarted, Tells
<1>8. /\ \A x \in Actions : x # y => actions'[x] = actions[x]
      /\ actions'[y].status = "sent" /\ actions'[y].deadline = now + t
  BY <1>1, <1>4
<1>9. ASSUME NEW c \in Conns, NEW i \in Nat, NEW x \in Actions, Asks(c, i, x)'
      PROVE  \/ x # y /\ Asks(c, i, x) /\ down'[c][i] = down[c][i]
             \/ /\ x = y /\ c = d /\ i = Len(down[d]) + 1 /\ down'[c][i] = f
  <2>1. CASE down'[c] = down[c]
    BY <1>6, <1>9, <2>1 DEF Asks
  <2>2. CASE down'[c] # down[c]
    <3>1. c = d /\ down'[c] = Append(down[c], f) /\ down[c] \in Seq(Frame)
      BY <1>1, <1>4, <2>2 DEF Sent
    <3>2. i \in 1..(Len(down[c]) + 1)
      BY <1>5, <1>9, <3>1, LastFrame DEF Asks
    <3>3. CASE i = Len(down[c]) + 1
      BY <1>5, <1>9, <3>1, <3>3, LastFrame DEF Asks
    <3>4. CASE i # Len(down[c]) + 1
      <4>1. i \in 1..Len(down[c]) /\ Append(down[c], f)[i] = down[c][i]
        BY <1>5, <3>1, <3>2, <3>4, LastFrame
      <4>2. Asks(c, i, x) /\ down'[c][i] = down[c][i]
        BY <1>9, <3>1, <4>1 DEF Asks
      <4>3. QED BY <1>6, <4>2
    <3>5. QED BY <3>3, <3>4
  <2>3. QED BY <2>1, <2>2
<1>10. UnsentIsNowhere'
  BY <1>7, <1>8, <1>9 DEF CallInv, UnsentIsNowhere
<1>11. RequestInStep'
  <2>1. \A b, c \in Conns, i, j \in Nat, x \in Actions : Asks(b, i, x)' /\ Asks(c, j, x)' => b = c /\ i = j
    BY <1>9 DEF CallInv, RequestInStep
  <2>2. ASSUME NEW c \in Conns, NEW i \in Nat, NEW x \in Actions, Asks(c, i, x)'
        PROVE  NotStarted(x)' /\ Open(x, down[c][i].deadline)'
    <3>1. CASE x # y /\ Asks(c, i, x) /\ down'[c][i] = down[c][i]
      <4>1. NotStarted(x) /\ Open(x, down[c][i].deadline)
        BY <3>1 DEF CallInv, RequestInStep
      <4>2. QED BY <1>4, <1>7, <1>8, <3>1, <4>1 DEF Open
    <3>2. CASE x = y /\ down'[c][i] = f
      BY <1>5, <1>6, <1>7, <1>8, <3>2 DEF Open
    <3>3. QED BY <1>9, <2>2, <3>1, <3>2
  <2>3. QED BY <2>1, <2>2 DEF RequestInStep
<1>12. StartedIsCounted'
  BY DEF CallInv, StartedIsCounted, Tells
<1>13. QED BY <1>10, <1>11, <1>12

\* A run reads a frame: if it is a request that the run starts or refuses, that was the only
\* request for its action.
LEMMA ReadKeeps ==
    ASSUME CallInv, NEW d \in Conns, AgentReads(d)
    PROVE  /\ UnsentIsNowhere' /\ RequestInStep' /\ StartedIsCounted'
           /\ actions' = actions /\ pendingActions' = pendingActions
           /\ \/ executions' = executions
              \/ \E x \in Actions : /\ executions[x] = 0
                                    /\ executions' = [executions EXCEPT ![x] = 1]
                                    /\ actions[x].status \in {"sent", "timeout"}
                                    /\ Grace > 0 => actions[x].status = "sent"
<1>1. TypeOK /\ Host!AgentTypeOK
  BY DEF CallInv, SystemTypeOK
<1>2. /\ down[d] # <<>> /\ down' = [down EXCEPT ![d] = Tail(down[d])]
      /\ actions' = actions /\ pendingActions' = pendingActions /\ now' = now
  BY DEF AgentReads, storeVars
<1>3. now' \in Nat /\ now <= now' /\ now \in Nat
  BY <1>1, <1>2 DEF TypeOK
<1>4. PICK k : k = [c \in Conns |-> IF c = d THEN 1 ELSE 0]
  OBVIOUS
<1>5. k \in [Conns -> Nat] /\ k[d] = 1 /\ \A c \in Conns : k[c] = IF c = d THEN 1 ELSE 0
  BY <1>4
<1>6. \A c \in Conns, i \in Nat, x \in Actions :
          Asks(c, i, x)' => Asks(c, i + k[c], x) /\ down'[c][i] = down[c][i + k[c]]
  BY <1>1, <1>2, <1>5, TailAsks
<1>7. \A c \in Conns, i \in Nat, x \in Actions, e \in Nat :
          Asks(c, i, x) /\ down[c][i].deadline = e => Open(x, e)'
  BY <1>2, <1>3, StillOpen
<1>8. PICK m : m = [c \in Conns |-> 0]
  OBVIOUS
<1>9. m \in [Conns -> Nat] /\ \A c \in Conns, i \in Nat : i + m[c] = i
  BY <1>8
<1>10. \A x \in Actions : actions'[x].status = "none" => actions[x].status = "none"
  BY <1>2
<1>11. PICK f : f = Head(down[d])
  OBVIOUS
<1>12. f \in Frame /\ f = down[d][1] /\ 1 \in 1..Len(down[d])
  BY <1>1, <1>2, <1>11, NextFrame DEF TypeOK
<1>13. CASE Host!ApplyPolicyUpdate(d, f) \/ Host!DropFrame(d, f)
  <2>1. UNCHANGED <<executing, executions, up>>
    BY <1>13 DEF Host!ApplyPolicyUpdate, Host!DropFrame, Host!agentVars
  <2>2. \A c \in Conns, i \in Nat, x \in Actions :
            Tells(c, i, x)' => Tells(c, i + m[c], x) /\ up'[c][i] = up[c][i + m[c]]
    BY <1>9, <2>1 DEF Tells
  <2>3. \A c \in Conns : executing'[c] \subseteq executing[c]
    BY <2>1
  <2>4. UnsentIsNowhere' /\ RequestInStep' /\ StartedIsCounted'
    <3>1. k \in [Conns -> Nat] /\ m \in [Conns -> Nat] /\ executions' = executions
      BY <1>5, <1>9, <2>1
    <3>2. QED BY <1>6, <1>7, <1>10, <2>2, <2>3, <3>1, QuietStep
  <2>5. QED BY <1>2, <2>1, <2>4
<1>14. CASE Host!StartAction(d, f)
  <2>1. PICK y : y = f.action
    OBVIOUS
  <2>2. f.type = "action.request" /\ y \in Actions /\ f.deadline \in Nat /\ f.agent \in Agents
    BY <1>12, <1>14, <2>1, RequestFields DEF Host!StartAction
  <2>3. Asks(d, 1, y)
    BY <1>12, <2>1, <2>2 DEF Asks
  <2>4. NotStarted(y) /\ Open(y, f.deadline)
    BY <1>12, <2>2, <2>3 DEF CallInv, RequestInStep
  <2>5. \A c \in Conns, i \in Nat : Asks(c, i, y) => c = d /\ i = 1
    BY <2>2, <2>3 DEF CallInv, RequestInStep
  <2>6. \A c \in Conns, i \in Nat : ~Asks(c, i, y)'
    <3> SUFFICES ASSUME NEW c \in Conns, NEW i \in Nat, Asks(c, i, y)'
                 PROVE  FALSE
      OBVIOUS
    <3>1. Asks(c, i + k[c], y) /\ i + k[c] \in Nat
      BY <1>5, <1>6, <2>2
    <3>2. c = d /\ i + 1 = 1
      BY <1>5, <2>5, <3>1
    <3>3. i \in 1..Len(down'[c])
      BY DEF Asks
    <3>4. QED BY <3>2, <3>3
  <2>7. actions[y].status \in {"sent", "timeout"} /\ (Grace > 0 => actions[y].status = "sent")
    <3>1. f.deadline >= now
      BY <1>14 DEF Host!StartAction, Host!Acceptable
    <3>2. Grace \in Nat
      BY ControlPlaneAssumption
    <3>3. QED BY <1>3, <2>2, <2>4, <3>1, <3>2 DEF Open
  <2>8. ASSUME \A x \in Actions : x # y /\ NotStarted(x) => NotStarted(x)'
        PROVE  UnsentIsNowhere' /\ RequestInStep'
    <3>1. \A c \in Conns, i \in Nat : i + k[c] \in Nat
      BY <1>5
    <3>2. UnsentIsNowhere'
      BY <1>2, <1>6, <2>7, <2>8, <3>1 DEF CallInv, UnsentIsNowhere
    <3>3. ASSUME NEW b \in Conns, NEW c \in Conns, NEW i \in Nat, NEW j \in Nat, NEW x \in Actions,
                 Asks(b, i, x)', Asks(c, j, x)'
          PROVE  b = c /\ i = j
      <4>1. Asks(b, i + k[b], x) /\ Asks(c, j + k[c], x)
        BY <1>6, <3>3
      <4>2. b = c /\ i + k[b] = j + k[c]
        BY <3>1, <4>1 DEF CallInv, RequestInStep
      <4>3. QED BY <1>5, <4>2
    <3>4. ASSUME NEW c \in Conns, NEW i \in Nat, NEW x \in Actions, Asks(c, i, x)'
          PROVE  NotStarted(x)' /\ Open(x, down[c][i].deadline)'
      <4>1. x # y
        BY <2>6, <3>4
      <4>2. PICK j \in Nat : Asks(c, j, x) /\ down'[c][i] = down[c][j]
        BY <1>6, <3>1, <3>4
      <4>3. NotStarted(x) /\ Open(x, down[c][j].deadline)
        BY <4>2 DEF CallInv, RequestInStep
      <4>4. QED BY <1>2, <2>8, <4>1, <4>2, <4>3 DEF Open
    <3>5. QED BY <3>2, <3>3, <3>4 DEF RequestInStep
  <2>9. CASE /\ executing' = [executing EXCEPT ![d] = @ \cup {y}]
             /\ executions' = [executions EXCEPT ![y] = @ + 1]
             /\ up' = up
    <3>1. executions \in [Actions -> Nat] /\ executing \in [Conns -> SUBSET Actions]
      BY <1>1 DEF Host!AgentTypeOK
    <3>2. executions[y] = 0 /\ executions' = [executions EXCEPT ![y] = 1]
      BY <2>2, <2>4, <2>9, <3>1 DEF NotStarted
    <3>3. \A x \in Actions : executions'[x] = IF x = y THEN 1 ELSE executions[x]
      BY <3>1, <3>2
    <3>4. \A c \in Conns : executing'[c] \subseteq executing[c] \cup {y}
      BY <2>9, <3>1
    <3>5. \A x \in Actions : x # y /\ NotStarted(x) => NotStarted(x)'
      BY <2>9, <3>3, <3>4 DEF NotStarted, Tells
    <3>6. \A c \in Conns : \A x \in executing'[c] : executions'[x] = 1
      <4> SUFFICES ASSUME NEW c \in Conns, NEW x \in executing'[c]
                   PROVE  executions'[x] = 1
        OBVIOUS
      <4>1. x \in executing[c] \/ x = y
        BY <3>4
      <4>2. x \in Actions
        BY <2>2, <3>1, <4>1
      <4>3. x \in executing[c] => executions[x] = 1
        BY DEF CallInv, StartedIsCounted
      <4>4. QED BY <3>3, <4>1, <4>2, <4>3
    <3>7. StartedIsCounted'
      BY <2>9, <3>3, <3>6 DEF CallInv, StartedIsCounted, Tells
    <3>8. QED BY <1>2, <2>2, <2>7, <2>8, <3>2, <3>5, <3>7
  <2>10. CASE /\ up' = [up EXCEPT ![d] = Append(@, Host!Result(y, f.agent, FALSE))]
              /\ UNCHANGED <<executing, executions>>
    <3>1. PICK r : r = Host!Result(y, f.agent, FALSE)
      OBVIOUS
    <3>2. r \in Host!UpFrame /\ r.type = "action.result" /\ r.action = y /\ ~r.ok
      BY <2>2, <3>1 DEF Host!UpFrame, Host!Result
    <3>3. ASSUME NEW c \in Conns, NEW i \in Nat, NEW x \in Actions, Tells(c, i, x)'
          PROVE  \/ Tells(c, i, x) /\ up'[c][i] = up[c][i]
                 \/ x = y /\ up'[c][i] = r
      <4>1. CASE c # d
        <5>1. up'[c] = up[c]
          BY <1>1, <2>10, <4>1 DEF Host!AgentTypeOK
        <5>2. QED BY <3>3, <5>1 DEF Tells
      <4>2. CASE c = d
        <5>1. up'[c] = Append(up[c], r) /\ up[c] \in Seq(Host!UpFrame)
          BY <1>1, <2>10, <3>1, <4>2 DEF Host!AgentTypeOK
        <5>2. i \in 1..(Len(up[c]) + 1)
          BY <3>2, <3>3, <5>1, LastFrame DEF Tells
        <5>3. CASE i = Len(up[c]) + 1
          BY <3>2, <3>3, <5>1, <5>3, LastFrame DEF Tells
        <5>4. CASE i # Len(up[c]) + 1
          <6>1. i \in 1..Len(up[c]) /\ Append(up[c], r)[i] = up[c][i]
            BY <3>2, <5>1, <5>2, <5>4, LastFrame
          <6>2. QED BY <3>3, <5>1, <6>1 DEF Tells
        <5>5. QED BY <5>3, <5>4
      <4>3. QED BY <4>1, <4>2
    <3>4. \A x \in Actions : x # y /\ NotStarted(x) => NotStarted(x)'
      BY <2>10, <3>3 DEF NotStarted
    <3>5. StartedIsCounted'
      BY <2>10, <3>2, <3>3 DEF CallInv, StartedIsCounted
    <3>6. QED BY <1>2, <2>8, <2>10, <3>4, <3>5
  <2>11. QED BY <1>14, <2>1, <2>9, <2>10 DEF Host!StartAction
<1>15. QED BY <1>11, <1>13, <1>14 DEF AgentReads

\* A run sends the result of what it executes.
LEMMA FinishKeeps ==
    ASSUME CallInv, NEW d \in Conns, NEW y \in Actions, NEW ok \in BOOLEAN, AgentFinishes(d, y, ok)
    PROVE  UnsentIsNowhere' /\ RequestInStep' /\ StartedIsCounted'
<1>1. Host!AgentTypeOK /\ TypeOK
  BY DEF CallInv, SystemTypeOK
<1>2. PICK r : r = Host!Result(y, procs[d].agent, ok)
  OBVIOUS
<1>3. /\ procs[d].phase = "running" /\ y \in executing[d]
      /\ executing' = [executing EXCEPT ![d] = @ \ {y}]
      /\ up' = [up EXCEPT ![d] = Append(up[d], r)]
      /\ executions' = executions /\ UNCHANGED vars
  BY <1>2 DEF AgentFinishes, Host!FinishAction
<1>4. r \in Host!UpFrame /\ r.type = "action.result" /\ r.action = y
  BY <1>1, <1>2, <1>3 DEF Host!UpFrame, Host!Result, Host!AgentTypeOK
<1>5. ASSUME NEW c \in Conns, NEW i \in Nat, NEW x \in Actions, Tells(c, i, x)'
      PROVE  \/ Tells(c, i, x) /\ up'[c][i] = up[c][i]
             \/ x = y
  <2>1. CASE c # d
    <3>1. up'[c] = up[c]
      BY <1>1, <1>3, <2>1 DEF Host!AgentTypeOK
    <3>2. QED BY <1>5, <3>1 DEF Tells
  <2>2. CASE c = d
    <3>1. up'[c] = Append(up[c], r) /\ up[c] \in Seq(Host!UpFrame)
      BY <1>1, <1>3, <2>2 DEF Host!AgentTypeOK
    <3>2. i \in 1..(Len(up[c]) + 1)
      BY <1>4, <1>5, <3>1, LastFrame DEF Tells
    <3>3. CASE i = Len(up[c]) + 1
      BY <1>4, <1>5, <3>1, <3>3, LastFrame DEF Tells
    <3>4. CASE i # Len(up[c]) + 1
      <4>1. i \in 1..Len(up[c]) /\ Append(up[c], r)[i] = up[c][i]
        BY <1>4, <3>1, <3>2, <3>4, LastFrame
      <4>2. QED BY <1>5, <3>1, <4>1 DEF Tells
    <3>5. QED BY <3>3, <3>4
  <2>3. QED BY <2>1, <2>2
<1>6. executions[y] = 1
  BY <1>3 DEF CallInv, StartedIsCounted
<1>7. \A c \in Conns : executing'[c] \subseteq executing[c]
  BY <1>1, <1>3 DEF Host!AgentTypeOK
<1>8. \A x \in Actions : NotStarted(x) => NotStarted(x)'
  BY <1>3, <1>5, <1>6, <1>7 DEF NotStarted
<1>9. UnsentIsNowhere'
  BY <1>3, <1>8 DEF CallInv, UnsentIsNowhere, Asks, vars
<1>10. RequestInStep'
  BY <1>3, <1>8 DEF CallInv, RequestInStep, Asks, Open, vars
<1>11. StartedIsCounted'
  BY <1>3, <1>5, <1>6, <1>7 DEF CallInv, StartedIsCounted
<1>12. QED BY <1>9, <1>10, <1>11

\* The control plane reads a frame.  A result settles an action of which no request is left,
\* and what it completes was started.
LEMMA PlaneReadKeeps ==
    ASSUME CallInv, NEW d \in Conns, PlaneReads(d)
    PROVE  /\ UnsentIsNowhere' /\ RequestInStep' /\ StartedIsCounted'
           /\ executions' = executions
           /\ \A x \in Actions :
                 actions'[x].status = "completed" /\ actions[x].status = "sent" => executions[x] = 1
<1>1. TypeOK /\ Host!AgentTypeOK /\ SystemTypeOK
  BY DEF CallInv, SystemTypeOK
<1>2. /\ up[d] # <<>> /\ up' = [up EXCEPT ![d] = Tail(up[d])]
      /\ executing' = executing /\ executions' = executions
  BY DEF PlaneReads
<1>3. PICK m : m = [c \in Conns |-> IF c = d THEN 1 ELSE 0]
  OBVIOUS
<1>4. m \in [Conns -> Nat] /\ \A c \in Conns : m[c] = IF c = d THEN 1 ELSE 0
  BY <1>3
<1>5. \A c \in Conns, i \in Nat, x \in Actions :
          Tells(c, i, x)' => Tells(c, i + m[c], x) /\ up'[c][i] = up[c][i + m[c]]
  BY <1>1, <1>2, <1>4, TailTells
<1>6. m \in [Conns -> Nat]
  BY <1>4
<1>7. PICK f : f = Head(up[d])
  OBVIOUS
<1>8. f \in Host!UpFrame /\ f = up[d][1] /\ 1 \in 1..Len(up[d])
  BY <1>1, <1>2, <1>7, NextFrame DEF Host!AgentTypeOK
<1>9. f.agent \in Agents /\ (f.type = "action.result" => f.action \in Actions /\ f.ok \in BOOLEAN)
  BY <1>8, UpFrames
<1>10. CASE AgentHello(d, f.agent) \/ RejectedHello(d, f.agent, TRUE) \/ UNCHANGED vars
  <2>1. actions' = actions /\ down' = down
    BY <1>10 DEF AgentHello, RejectedHello, CloseConnection, vars
  <2>2. [Next]_vars
    BY <1>9, <1>10 DEF Next
  <2>3. \A c \in Conns : executing'[c] \subseteq executing[c]
    BY <1>2
  <2>4. UnsentIsNowhere' /\ RequestInStep' /\ StartedIsCounted'
    BY <1>2, <1>5, <1>6, <2>1, <2>2, <2>3, IdlePlane
  <2>5. QED BY <1>2, <2>1, <2>4
<1>11. CASE f.type = "action.result" /\ ActionResult(d, f.action, f.agent, TRUE, f.ok)
  <2>1. PICK y \in Actions : y = f.action
    BY <1>9, <1>11
  <2>2. y \in pendingActions /\ now' = now /\ down' = down
    BY <1>11, <2>1 DEF ActionResult
  <2>3. PICK st \in Settled : Settle(y, st) /\ (st = "completed" => f.ok)
    BY <1>11, <2>1 DEF ActionResult, Settled
  <2>4. Tells(d, 1, y)
    BY <1>8, <1>11, <2>1 DEF Tells
  <2>5. \A c \in Conns, i \in Nat : ~Asks(c, i, y)
    BY <2>4 DEF CallInv, RequestInStep, NotStarted
  <2>6. UnsentIsNowhere' /\ RequestInStep' /\ StartedIsCounted'
    BY <1>2, <1>5, <1>6, <2>2, <2>3, <2>5, SettleKeeps
  <2>7. ASSUME NEW x \in Actions, actions'[x].status = "completed", actions[x].status = "sent"
        PROVE  executions[x] = 1
    <3>1. x = y /\ st = "completed"
      BY <1>1, <2>1, <2>3, <2>7 DEF Settle, TypeOK, Action
    <3>2. up[d][1].ok
      BY <1>8, <2>3, <3>1
    <3>3. QED BY <2>4, <3>1, <3>2 DEF CallInv, StartedIsCounted
  <2>8. QED BY <1>2, <2>6, <2>7
<1>12. QED BY <1>7, <1>10, <1>11 DEF PlaneReads

\* Nothing but the result of an agent completes an action.
LEMMA ServerNeverCompletes ==
    ASSUME TypeOK, ServerStep \/ (\E a \in Agents, key \in Keys : AgentEnroll(a, key)) \/ UNCHANGED vars
    PROVE  \/ actions' = actions /\ \/ down' = down
                                    \/ \E c \in Conns, f \in Frame :
                                          /\ f.type = "policy.update"
                                          /\ down' = [down EXCEPT ![c] = Append(down[c], f)]
           \/ \E x \in Actions, a \in Agents, t \in 0..ActionTimeout : DispatchAction(x, a, t)
           \/ \E x \in Actions : ActionTimedOut(x)
<1>1. [Next]_vars
  BY DEF Next
<1>2. \/ actions' = actions
      \/ \E x \in Actions, a \in Agents, t \in 0..ActionTimeout : DispatchAction(x, a, t)
      \/ \E x \in Actions : ActionTimedOut(x)
  BY DEF ServerStep, CreateEnrollmentToken, UpdatePolicyTool, RevokeAgent, PatchResolve, PatchApply,
         PatchAbort, AcceptConnection, SocketClosed, CloseConnection, Restart, Tick, Crash, Shutdown,
         ForgetMemory, AgentEnroll, storeVars, vars
<1>3. ASSUME NEW c \in Conns, NEW a \in Agents, NEW r \in Agent,
             down' = [down EXCEPT ![c] = Append(down[c], PolicyUpdate(a, r))]
      PROVE  \E e \in Conns, f \in Frame : /\ f.type = "policy.update"
                                           /\ down' = [down EXCEPT ![e] = Append(down[e], f)]
  <2>1. PolicyUpdate(a, r) \in Frame /\ PolicyUpdate(a, r).type = "policy.update"
    BY DEF PolicyUpdate, Frame, Agent
  <2>2. QED BY <1>3, <2>1
<1>4. \/ down' = down
      \/ \E c \in Conns, f \in Frame : /\ f.type = "policy.update"
                                       /\ down' = [down EXCEPT ![c] = Append(down[c], f)]
      \/ \E x \in Actions, a \in Agents, t \in 0..ActionTimeout : DispatchAction(x, a, t)
  BY <1>1, <1>3, DownSteps
<1>5. QED BY <1>2, <1>4

\* What a step does to the invariant, to the counts of starts, and to what callers are told.
LEMMA CallStep ==
    ASSUME CallInv, [SystemNext]_systemVars
    PROVE  /\ UnsentIsNowhere' /\ RequestInStep' /\ StartedIsCounted'
           /\ \/ /\ [Next]_vars /\ executions' = executions
                 /\ \A x \in Actions : actions'[x].status = "completed" /\ actions[x].status = "sent"
                                          => executions[x] = 1
              \/ /\ actions' = actions /\ pendingActions' = pendingActions
                 /\ \/ executions' = executions
                    \/ \E x \in Actions : /\ executions[x] = 0
                                          /\ executions' = [executions EXCEPT ![x] = 1]
                                          /\ actions[x].status \in {"sent", "timeout"}
                                          /\ Grace > 0 => actions[x].status = "sent"
<1> DEFINE Kept3 == UnsentIsNowhere' /\ RequestInStep' /\ StartedIsCounted'
           Quiet == /\ [Next]_vars /\ executions' = executions
                    /\ \A x \in Actions : actions'[x].status = "completed" /\ actions[x].status = "sent"
                                             => executions[x] = 1
<1>1. TypeOK /\ Host!AgentTypeOK /\ SystemTypeOK /\ actions \in [Actions -> Action]
  BY DEF CallInv, SystemTypeOK, TypeOK
<1>2. PICK m : m = [c \in Conns |-> 0]
  OBVIOUS
<1>3. m \in [Conns -> Nat] /\ \A c \in Conns : m[c] = 0
  BY <1>2
<1>4. \A c \in Conns, i \in Nat : i + m[c] = i
  BY <1>3
<1>5. up' = up => \A c \in Conns, i \in Nat, x \in Actions :
                     Tells(c, i, x)' => Tells(c, i + m[c], x) /\ up'[c][i] = up[c][i + m[c]]
  BY <1>4 DEF Tells
<1>6. m \in [Conns -> Nat]
  BY <1>3
<1>7. ASSUME ServerStep \/ (\E a \in Agents, key \in Keys : AgentEnroll(a, key)) \/ UNCHANGED vars,
             UNCHANGED <<executing, executions, up>>
      PROVE  Kept3 /\ Quiet
  <2>1. [Next]_vars
    BY <1>7 DEF Next
  <2>2. \A c \in Conns : executing'[c] \subseteq executing[c]
    BY <1>7
  <2>3. ASSUME actions' = actions,
               down' = down \/ \E c \in Conns, f \in Frame :
                                  /\ f.type = "policy.update"
                                  /\ down' = [down EXCEPT ![c] = Append(down[c], f)]
        PROVE  Kept3 /\ Quiet
    <3>1. Kept3
      BY <1>5, <1>6, <1>7, <2>1, <2>2, <2>3, IdlePlane
    <3>2. QED BY <1>7, <2>1, <2>3, <3>1
  <2>4. ASSUME NEW x \in Actions, NEW a \in Agents, NEW t \in 0..ActionTimeout, DispatchAction(x, a, t)
        PROVE  Kept3 /\ Quiet
    <3>1. Kept3
      BY <1>7, <2>4, DispatchKeeps
    <3>2. \A y \in Actions : actions'[y].status = "completed" => actions[y].status = "completed"
      BY <1>1, <2>4 DEF DispatchAction
    <3>3. QED BY <1>7, <2>1, <3>1, <3>2
  <2>5. ASSUME NEW x \in Actions, ActionTimedOut(x)
        PROVE  Kept3 /\ Quiet
    <3>1. /\ x \in pendingActions /\ Settle(x, "timeout") /\ now' = now /\ down' = down
          /\ now >= actions[x].deadline + Grace
      BY <2>5 DEF ActionTimedOut
    <3>2. "timeout" \in Settled
      BY DEF Settled
    <3>3. Kept3
      BY <1>5, <1>6, <1>7, <3>1, <3>2, SettleKeeps
    <3>4. \A y \in Actions : actions'[y].status = "completed" => actions[y].status = "completed"
      BY <1>1, <3>1 DEF Settle
    <3>5. QED BY <1>7, <2>1, <3>3, <3>4
  <2>6. QED BY <1>1, <1>7, <2>3, <2>4, <2>5, ServerNeverCompletes
<1>8. ASSUME NEW c \in Conns, NEW a \in Agents, StartRun(c, a) PROVE Kept3 /\ Quiet
  <2>1. /\ up' = [up EXCEPT ![c] = Append(up[c], Host!Hello(a))]
        /\ executing' = executing /\ executions' = executions /\ UNCHANGED vars
    BY <1>8 DEF StartRun, Host!RunAgent
  <2>2. Host!Hello(a) \in Host!UpFrame /\ Host!Hello(a).type # "action.result"
    BY DEF Host!Hello, Host!UpFrame
  <2>3. \A b \in Conns, i \in Nat, x \in Actions :
            Tells(b, i, x)' => Tells(b, i + m[b], x) /\ up'[b][i] = up[b][i + m[b]]
    BY <1>1, <1>3, <2>1, <2>2, AppendTellsNothing
  <2>4. \A b \in Conns : executing'[b] \subseteq executing[b]
    BY <2>1
  <2>5. actions' = actions /\ down' = down
    BY <2>1 DEF vars
  <2>6. Kept3
    BY <1>6, <2>1, <2>3, <2>4, <2>5, IdlePlane
  <2>7. QED BY <2>1, <2>5, <2>6
<1>9. ASSUME NEW c \in Conns, AgentStops(c) PROVE Kept3 /\ Quiet
  <2>1. /\ executing' = [executing EXCEPT ![c] = {}]
        /\ up' = up /\ executions' = executions /\ UNCHANGED vars
    BY <1>9 DEF AgentStops, Host!AgentEnds
  <2>2. \A b \in Conns : executing'[b] \subseteq executing[b]
    BY <1>1, <2>1 DEF Host!AgentTypeOK
  <2>3. actions' = actions /\ down' = down
    BY <2>1 DEF vars
  <2>4. Kept3
    BY <1>5, <1>6, <2>1, <2>2, <2>3, IdlePlane
  <2>5. QED BY <2>1, <2>3, <2>4
<1>10. ASSUME NEW c \in Conns, PlaneReads(c) PROVE Kept3 /\ Quiet
  <2>1. [Next]_vars
    BY <1>1, <1>10, PlaneReadIsNext
  <2>2. QED BY <1>10, <2>1, PlaneReadKeeps
<1>11. ASSUME NEW c \in Conns, NEW x \in Actions, NEW ok \in BOOLEAN, AgentFinishes(c, x, ok)
       PROVE  Kept3 /\ Quiet
  <2>1. executions' = executions /\ UNCHANGED vars
    BY <1>11 DEF AgentFinishes, Host!FinishAction
  <2>2. actions' = actions
    BY <2>1 DEF vars
  <2>3. QED BY <1>11, <2>1, <2>2, FinishKeeps
<1>12. UNCHANGED systemVars \/ PlaneStep => Kept3 /\ Quiet
  BY <1>7 DEF systemVars, hostVars, PlaneStep
<1>13. ASSUME NEW a \in Agents, NEW key \in Keys, Enroll(a, key) PROVE Kept3 /\ Quiet
  <2>1. AgentEnroll(a, key) /\ UNCHANGED <<executing, executions, up>>
    BY <1>13 DEF Enroll, Host!SaveEnrollment, hostVars
  <2>2. QED BY <1>7, <2>1
<1>14. ASSUME NEW c \in Conns, AgentReads(c)
       PROVE  /\ Kept3
              /\ actions' = actions /\ pendingActions' = pendingActions
              /\ \/ executions' = executions
                 \/ \E x \in Actions : /\ executions[x] = 0
                                       /\ executions' = [executions EXCEPT ![x] = 1]
                                       /\ actions[x].status \in {"sent", "timeout"}
                                       /\ Grace > 0 => actions[x].status = "sent"
  BY <1>14, ReadKeeps
<1>15. QED BY <1>8, <1>9, <1>10, <1>11, <1>12, <1>13, <1>14, SystemSteps

LEMMA CallInvInit == SystemInit => CallInv
<1> SUFFICES ASSUME SystemInit PROVE CallInv
  OBVIOUS
<1>1. SystemTypeOK /\ PendingIsSent
  BY SystemTypeInit, PendingInit DEF SystemInit
<1>2. \A c \in Conns : down[c] = <<>> /\ up[c] = <<>> /\ executing[c] = {}
  BY DEF SystemInit, Init, Host!AgentInit
<1>3. \A c \in Conns, i \in Nat, x \in Actions : ~Asks(c, i, x) /\ ~Tells(c, i, x)
  BY <1>2 DEF Asks, Tells
<1>4. \A x \in Actions : executions[x] = 0
  BY DEF SystemInit, Host!AgentInit
<1>5. QED BY <1>1, <1>2, <1>3, <1>4
       DEF CallInv, UnsentIsNowhere, RequestInStep, StartedIsCounted, NotStarted

LEMMA CallInvStep == CallInv /\ [SystemNext]_systemVars => CallInv'
<1> SUFFICES ASSUME CallInv, [SystemNext]_systemVars PROVE CallInv'
  OBVIOUS
<1>1. UnsentIsNowhere' /\ RequestInStep' /\ StartedIsCounted'
  BY CallStep
<1>2. SystemTypeOK'
  BY SystemTypeStep DEF CallInv
<1>3. PendingIsSent'
  <2>1. [Next]_vars \/ (actions' = actions /\ pendingActions' = pendingActions)
    BY CallStep
  <2>2. QED BY <2>1, PendingStep DEF CallInv, SystemTypeOK, PendingIsSent
<1>4. QED BY <1>1, <1>2, <1>3 DEF CallInv

\* The records of the control plane, the requests and results on the wire and what the hosts
\* have started stay in step, through crashes, reconnects, revocations and lost frames.
THEOREM CallInvariant == SystemSpec => []CallInv
BY CallInvInit, CallInvStep, PTL DEF SystemSpec

\* Control plane and agents together implement RemoteCall, if the control plane waits at all
\* beyond the deadline it gives the agent (2000 ms in dispatchAction): no action runs twice,
\* none starts after its caller was told of a timeout or an error, and what is reported
\* completed ran.
THEOREM CallsRefine ==
    ASSUME Grace > 0
    PROVE  SystemSpec => CallsAreHonest
<1>1. SystemInit => Call!CallInit
  BY OutcomeInit DEF SystemInit, Host!AgentInit, Call!CallInit, Call!OutcomeInit, Outcome!OutcomeInit
<1>2. CallInv /\ [SystemNext]_systemVars => [Call!CallNext]_(Call!callVars)
  <2> SUFFICES ASSUME CallInv, [SystemNext]_systemVars
               PROVE  [Call!CallNext]_(Call!callVars)
    OBVIOUS
  <2>1. TypeOK /\ PendingIsSent
    BY DEF CallInv, SystemTypeOK
  <2>2. ASSUME NEW x \in Actions, executions[x] = 0, executions' = [executions EXCEPT ![x] = 1],
               actions[x].status = "sent", actions' = actions, pendingActions' = pendingActions
        PROVE  Call!StartOnHost(x)
    <3>1. CallerView[x] \in {"waiting", "lost"}
      BY <2>2 DEF CallerView
    <3>2. CallerView' = CallerView
      BY <2>2 DEF CallerView
    <3>3. QED BY <2>2, <3>1, <3>2 DEF Call!StartOnHost
  <2>3. ASSUME [Next]_vars, executions' = executions,
               \A x \in Actions : actions'[x].status = "completed" /\ actions[x].status = "sent"
                                     => executions[x] = 1
        PROVE  [Call!CallNext]_(Call!callVars)
    <3>1. CASE CallerView' = CallerView
      BY <2>3, <3>1 DEF Call!callVars
    <3>2. ASSUME NEW x \in Actions, Outcome!Ask(x) PROVE Call!CallNext
      BY <2>3, <3>2 DEF Outcome!Ask, Call!Ask, Call!CallNext
    <3>3. CASE Outcome!LoseAll
      BY <2>3, <3>3 DEF Outcome!LoseAll, Call!LoseAll, Call!CallNext
    <3>4. ASSUME NEW x \in Actions, NEW o \in Outcome!Outcomes, Outcome!Reply(x, o)
          PROVE  Call!CallNext
      <4>1. CallerView[x] = "waiting" /\ CallerView' = [CallerView EXCEPT ![x] = o]
        BY <3>4 DEF Outcome!Reply
      <4>2. CallerView'[x] = o
        BY <4>1 DEF CallerView
      <4>3. actions[x].status = "sent"
        BY <2>1, <4>1 DEF CallerView, TypeOK, Action, Settled
      <4>4. o = "completed" => actions'[x].status = "completed"
        BY <4>2 DEF CallerView
      <4>5. o = "completed" => executions[x] = 1
        BY <2>3, <4>3, <4>4
      <4>6. o \in Call!Outcomes
        BY DEF Outcome!Outcomes, Call!Outcomes
      <4>7. Call!HonestReply(x, o)
        BY <2>3, <4>1, <4>5 DEF Call!HonestReply, Call!Reply
      <4>8. QED BY <4>6, <4>7 DEF Call!CallNext
    <3>5. [Outcome!OutcomeNext]_CallerView
      BY <2>1, <2>3, OutcomeStep
    <3>6. QED BY <3>1, <3>2, <3>3, <3>4, <3>5 DEF Outcome!OutcomeNext
  <2>4. actions' = actions /\ pendingActions' = pendingActions => CallerView' = CallerView
    BY DEF CallerView
  <2>5. QED BY <2>2, <2>3, <2>4, CallStep DEF Call!CallNext, Call!callVars
<1>3. QED BY <1>1, <1>2, CallInvariant, PTL DEF SystemSpec, CallsAreHonest, Call!CallSafety

-----------------------------------------------------------------------------
(* A policy change reaches a connected agent: the inductive invariant. *)

Hellos(c) == {i \in 1..Len(up[c]) : up[c][i].type = "agent.hello"}

\* A run sends one hello, under the id it was started with, before anything is sent to it;
\* policies sent to it are its own agent's.
RunOf(c) ==
    /\ procs[c].phase = "idle" => up[c] = <<>>
    /\ (procs[c].phase = "idle" \/ Hellos(c) # {})
          => Updates(c) = {} /\ \A a \in Agents : agentConnections[a] # c
    /\ \A i \in 1..Len(up[c]) : up[c][i].agent = procs[c].agent
    /\ \A i, j \in Hellos(c) : i = j
    /\ \A i \in Updates(c) : down[c][i].agent = procs[c].agent
RunInStep == \A c \in Conns : RunOf(c)

\* The live connection of an agent is a run of that agent, which has a row.
LiveIsItsRun ==
    \A a \in Agents : agentConnections[a] # NoConn =>
        procs[agentConnections[a]].agent = a /\ agents[a].status # "none"

\* A PATCH request holds a row that exists.
SnapshotExists ==
    \A p \in Patches : patches[p].phase = "reading" => patches[p].snap.status # "none"

\* A run holds policy p once it has read the frames on their way.
Carried(f) == [version |-> f.version, allow |-> f.allow]
WillHold(c, p) ==
    \/ Updates(c) = {} /\ procs[c].policy = p
    \/ \E i \in Updates(c) : IsLast(i, Updates(c)) /\ Carried(down[c][i]) = p

LiveWillHold ==
    \A a \in Agents, c \in Conns :
        agentConnections[a] = c /\ synced[c] /\ procs[c].phase = "running" => WillHold(c, StoredPolicy(a))

PolicyInv ==
    /\ SystemTypeOK /\ LiveConnectionIsOpen
    /\ RunInStep /\ LiveIsItsRun /\ SnapshotExists /\ LiveWillHold

\* The row of agent a is written with policy changes, and a live agent told.
PolicyWritten(a, r) ==
    /\ agents' = [agents EXCEPT ![a] = r] /\ r.status # "none"
    /\ down' = Sent(agentConnections[a], PolicyUpdate(a, r))
    /\ UNCHANGED <<agentConnections, conns>>

\* Rows that are there stay, with their policies.
RowsKept ==
    \A b \in Agents : agents[b].status # "none" =>
        agents'[b].status # "none" /\ StoredPolicy(b)' = StoredPolicy(b)

\* What a step of the control plane may do to rows and wire.
LEMMA PolicySteps ==
    ASSUME TypeOK, SnapshotExists, [Next]_vars
    PROVE  \/ \E a \in Agents, r \in Agent : PolicyWritten(a, r)
           \/ RowsKept /\ \/ down' = down
                          \/ \E x \in Actions, a \in Agents, t \in 0..ActionTimeout : DispatchAction(x, a, t)
<1>1. ASSUME NEW a \in Agents, NEW r \in Agent, NEW allow \in BOOLEAN, r.status # "none",
             UpdateAgentPolicy(a, r, allow), UNCHANGED liveVars
      PROVE  \E u \in Agent : PolicyWritten(a, u)
  <2>1. PICK u : u = [r EXCEPT !.version = r.version + 1, !.allow = allow]
    OBVIOUS
  <2>2. r.version + 1 \in Nat
    BY DEF Agent
  <2>3. u \in Agent /\ u.status # "none"
    BY <1>1, <2>1, <2>2 DEF Agent
  <2>4. QED BY <1>1, <2>1, <2>3 DEF UpdateAgentPolicy, PolicyWritten, liveVars
<1>2. ASSUME NEW a \in Agents, NEW allow \in BOOLEAN, UpdatePolicyTool(a, allow)
      PROVE  \E u \in Agent : PolicyWritten(a, u)
  <2>1. agents[a] \in Agent
    BY DEF TypeOK
  <2>2. QED BY <1>1, <1>2, <2>1 DEF UpdatePolicyTool
<1>3. ASSUME NEW p \in Patches, NEW allow \in BOOLEAN, PatchApply(p, allow)
      PROVE  \E a \in Agents, u \in Agent : PolicyWritten(a, u)
  <2>1. patches[p].snap \in Agent /\ patches[p].agent \in Agents /\ patches[p].snap.status # "none"
    BY <1>3 DEF TypeOK, Patch, PatchApply, SnapshotExists
  <2>2. QED BY <1>1, <1>3, <2>1 DEF PatchApply
<1>4. agents \in [Agents -> Agent]
  BY DEF TypeOK
<1>5. agents' = agents => RowsKept
  BY DEF RowsKept, StoredPolicy
<1>6. ASSUME NEW a \in Agents, NEW allow \in BOOLEAN, CreateEnrollmentToken(a, allow)
      PROVE  RowsKept /\ down' = down
  BY <1>4, <1>6 DEF CreateEnrollmentToken, RowsKept, StoredPolicy
<1>7. ASSUME NEW a \in Agents, NEW key \in Keys, AgentEnroll(a, key)
      PROVE  RowsKept /\ down' = down
  <2>1. PICK r : r = [agents[a] EXCEPT !.status = "offline", !.publicKey = key]
    OBVIOUS
  <2>2. r.status = "offline" /\ r.version = agents[a].version /\ r.allow = agents[a].allow
    BY <1>4, <2>1 DEF Agent
  <2>3. agents' = [agents EXCEPT ![a] = r] /\ down' = down
    BY <1>7, <2>1 DEF AgentEnroll
  <2>4. QED BY <1>4, <2>2, <2>3 DEF RowsKept, StoredPolicy
<1>8. ASSUME NEW c, NEW b \in Agents, NEW table \in [Agents -> Agent],
             table[b].status # "none", table[b].version = agents[b].version, table[b].allow = agents[b].allow,
             agents'[b] = DetachedAgents(c, table)[b]
      PROVE  agents'[b].status # "none" /\ StoredPolicy(b)' = StoredPolicy(b)
  <2>1. \/ agents'[b] = table[b]
        \/ agents'[b] = [table[b] EXCEPT !.status = "offline"]
    BY <1>8 DEF DetachedAgents
  <2>2. agents'[b].status # "none" /\ agents'[b].version = table[b].version /\ agents'[b].allow = table[b].allow
    BY <1>8, <2>1 DEF Agent
  <2>3. QED BY <1>8, <2>2 DEF StoredPolicy
<1>9. ASSUME NEW c \in Conns, SocketClosed(c) \/ \E a \in Agents, valid \in BOOLEAN : RejectedHello(c, a, valid)
      PROVE  RowsKept /\ down' = down
  <2>1. agents' = DetachedAgents(c, agents) /\ down' = down
    BY <1>9 DEF SocketClosed, RejectedHello, CloseConnection
  <2>2. QED BY <1>4, <1>8, <2>1 DEF RowsKept
<1>10. ASSUME NEW c \in Conns, NEW a \in Agents, AgentHello(c, a)
       PROVE  RowsKept /\ down' = down
  <2>1. PICK old : old = agentConnections[a]
    OBVIOUS
  <2>2. PICK r : r = [agents[a] EXCEPT !.status = "online"]
    OBVIOUS
  <2>3. r.status = "online" /\ r.version = agents[a].version /\ r.allow = agents[a].allow
    BY <1>4, <2>2 DEF Agent
  <2>4. agents' = [DetachedAgents(old, agents) EXCEPT ![a] = r] /\ down' = down
    BY <1>10, <2>1, <2>2 DEF AgentHello
  <2>5. \A b \in Agents : agents'[b] = IF b = a THEN r ELSE DetachedAgents(old, agents)[b]
    BY <2>4 DEF DetachedAgents
  <2>6. ASSUME NEW b \in Agents, agents[b].status # "none"
        PROVE  agents'[b].status # "none" /\ StoredPolicy(b)' = StoredPolicy(b)
    <3>1. CASE b = a
      BY <2>3, <2>5, <3>1 DEF StoredPolicy
    <3>2. CASE b # a
      BY <1>4, <1>8, <2>5, <2>6, <3>2
    <3>3. QED BY <3>1, <3>2
  <2>7. QED BY <2>4, <2>6 DEF RowsKept
<1>11. ASSUME NEW a \in Agents, RevokeAgent(a)
       PROVE  RowsKept /\ down' = down
  <2>1. PICK table : table = [agents EXCEPT ![a].status = "revoked"]
    OBVIOUS
  <2>2. table \in [Agents -> Agent]
    BY <1>4, <2>1 DEF Agent, Status
  <2>3. \A b \in Agents : /\ table[b].version = agents[b].version /\ table[b].allow = agents[b].allow
                          /\ agents[b].status # "none" => table[b].status # "none"
    BY <1>4, <2>1 DEF Agent
  <2>4. agents' = DetachedAgents(agentConnections[a], table) /\ down' = down
    BY <1>11, <2>1 DEF RevokeAgent
  <2>5. QED BY <1>8, <2>2, <2>3, <2>4 DEF RowsKept
<1>12. Shutdown => RowsKept /\ down' = down
  <2> SUFFICES ASSUME Shutdown PROVE RowsKept /\ down' = down
    OBVIOUS
  <2>1. \A b \in Agents : agents'[b] = agents[b] \/ agents'[b] = [agents[b] EXCEPT !.status = "offline"]
    BY DEF Shutdown
  <2>2. ASSUME NEW b \in Agents, agents[b].status # "none"
        PROVE  agents'[b].status # "none" /\ StoredPolicy(b)' = StoredPolicy(b)
    <3>1. agents'[b].status # "none" /\ agents'[b].version = agents[b].version /\ agents'[b].allow = agents[b].allow
      BY <1>4, <2>1, <2>2 DEF Agent
    <3>2. QED BY <3>1 DEF StoredPolicy
  <2>3. QED BY <2>2 DEF RowsKept, Shutdown, ForgetMemory
<1>13. \/ \E p \in Patches, a \in Agents : PatchResolve(p, a)
       \/ \E p \in Patches : PatchAbort(p)
       \/ \E x \in Actions : ActionTimedOut(x)
       \/ \E c \in Conns : AcceptConnection(c)
       \/ Crash \/ Restart \/ Tick \/ UNCHANGED vars
       \/ \E c \in Conns, x \in Actions, a \in Agents, authentic, ok \in BOOLEAN :
             ActionResult(c, x, a, authentic, ok)
       => agents' = agents /\ down' = down
  BY DEF PatchResolve, PatchAbort, ActionTimedOut, AcceptConnection, Crash, ForgetMemory, Restart, Tick,
         ActionResult, storeVars, vars
<1>14. (\E x \in Actions, a \in Agents, t \in 0..ActionTimeout : DispatchAction(x, a, t)) => agents' = agents
  BY DEF DispatchAction
<1>15. QED BY <1>2, <1>3, <1>5, <1>6, <1>7, <1>9, <1>10, <1>11, <1>12, <1>13, <1>14 DEF Next, ServerStep

\* A row a PATCH request has resolved existed.
LEMMA SnapshotStep ==
    ASSUME TypeOK, SnapshotExists, [Next]_vars
    PROVE  SnapshotExists'
<1>1. \/ patches' = patches
      \/ \E p \in Patches, a \in Agents : PatchResolve(p, a)
      \/ \E p \in Patches : patches' = [patches EXCEPT ![p].phase = "done"]
      \/ ForgetMemory
  BY DEF Next, ServerStep, CreateEnrollmentToken, UpdatePolicyTool, RevokeAgent,
         PatchApply, PatchAbort, DispatchAction, ActionTimedOut, AcceptConnection, SocketClosed,
         CloseConnection, Restart, Tick, Crash, Shutdown, AgentEnroll, RejectedHello,
         AgentHello, ActionResult, vars
<1>2. ASSUME NEW p \in Patches, NEW a \in Agents, PatchResolve(p, a) PROVE SnapshotExists'
  <2>1. agents[a].status # "none"
        /\ patches' = [patches EXCEPT ![p] = [phase |-> "reading", agent |-> a, snap |-> agents[a]]]
    BY <1>2 DEF PatchResolve
  <2>2. QED BY <2>1 DEF TypeOK, SnapshotExists
<1>3. ASSUME NEW p \in Patches, patches' = [patches EXCEPT ![p].phase = "done"] PROVE SnapshotExists'
  BY <1>3 DEF TypeOK, SnapshotExists, Patch
<1>4. ForgetMemory => SnapshotExists'
  BY DEF ForgetMemory, TypeOK, SnapshotExists, Patch
<1>5. QED BY <1>1, <1>2, <1>3, <1>4 DEF SnapshotExists

\* No policy is added to or taken from the frames to run c.
SameUpdates(c) == Updates(c)' = Updates(c) /\ \A i \in Updates(c) : down'[c][i] = down[c][i]

\* A frame that carries no policy.
LEMMA OtherFrame ==
    ASSUME TypeOK, NEW d, NEW f \in Frame, f.type # "policy.update",
           down' = Sent(d, f), NEW c \in Conns
    PROVE  SameUpdates(c)
<1>1. down[c] \in Seq(Frame)
  BY DEF TypeOK
<1>2. CASE down'[c] = down[c]
  BY <1>2 DEF SameUpdates, Updates
<1>3. CASE down'[c] # down[c]
  <2>1. down'[c] = Append(down[c], f)
    BY <1>3 DEF Sent, TypeOK
  <2>2. \A i \in 1..Len(down[c]) : i \in 1..(Len(down[c]) + 1) /\ down'[c][i] = down[c][i]
    BY <1>1, <2>1, LastFrame
  <2>3. \A i \in 1..Len(down'[c]) : i \in 1..Len(down[c]) \/ down'[c][i] = f
    BY <1>1, <2>1, LastFrame
  <2>4. Len(down'[c]) = Len(down[c]) + 1
    BY <1>1, <2>1, LastFrame
  <2>5. QED BY <2>2, <2>3, <2>4 DEF SameUpdates, Updates
<1>4. QED BY <1>2, <1>3

\* A policy written while the agent is connected is the last one on its way.
LEMMA PolicyFrame ==
    ASSUME TypeOK, NEW d \in Conns, conns[d] = "open", NEW f \in Frame, f.type = "policy.update",
           down' = Sent(d, f)
    PROVE  /\ \A c \in Conns : c # d => SameUpdates(c)
           /\ \E n \in Updates(d)' : /\ IsLast(n, Updates(d)') /\ down'[d][n] = f
                                     /\ \A i \in Updates(d)' :
                                           i = n \/ (i \in Updates(d) /\ down'[d][i] = down[d][i])
<1>1. down[d] \in Seq(Frame) /\ down' = [down EXCEPT ![d] = Append(down[d], f)]
  BY DEF TypeOK, Sent
<1>2. \A c \in Conns : c # d => down'[c] = down[c]
  BY <1>1 DEF TypeOK
<1>3. down'[d] = Append(down[d], f)
  BY <1>1 DEF TypeOK
<1>4. PICK n : n = Len(down[d]) + 1
  OBVIOUS
<1>5. Len(down'[d]) = n /\ down'[d][n] = f /\ Len(down[d]) \in Nat
      /\ \A i \in 1..n : i = n \/ (i \in 1..Len(down[d]) /\ down'[d][i] = down[d][i])
  BY <1>1, <1>3, <1>4, LastFrame
<1>6. n \in Updates(d)'
  BY <1>4, <1>5 DEF Updates
<1>7. \A i \in Updates(d)' : i <= n /\ (i = n \/ (i \in Updates(d) /\ down'[d][i] = down[d][i]))
  BY <1>4, <1>5 DEF Updates
<1>8. QED BY <1>2, <1>5, <1>6, <1>7 DEF SameUpdates, Updates, IsLast

\* What a step of the control plane does to the policies on their way.
LEMMA PlaneWire ==
    ASSUME PolicyInv, [Next]_vars, NEW c \in Conns
    PROVE  \/ /\ SameUpdates(c)
              /\ \A a \in Agents : agentConnections[a] = c =>
                    agents'[a].status # "none" /\ StoredPolicy(a)' = StoredPolicy(a)
           \/ \E a \in Agents, n \in Updates(c)' :
                 /\ agentConnections[a] = c /\ agents'[a].status # "none"
                 /\ IsLast(n, Updates(c)') /\ Carried(down'[c][n]) = StoredPolicy(a)'
                 /\ down'[c][n].agent = a
                 /\ \A i \in Updates(c)' : i = n \/ (i \in Updates(c) /\ down'[c][i] = down[c][i])
                 /\ \A b \in Agents : agentConnections[b] = c => b = a
<1>1. TypeOK /\ SnapshotExists /\ agents \in [Agents -> Agent] /\ NoConn \notin Conns
  BY ControlPlaneAssumption DEF PolicyInv, SystemTypeOK, TypeOK
<1>2. \A a, b \in Agents : agentConnections[a] = c /\ agentConnections[b] = c => a = b
  BY <1>1 DEF PolicyInv, LiveIsItsRun
<1>3. \A a \in Agents : agentConnections[a] = c => agents[a].status # "none"
  BY <1>1 DEF PolicyInv, LiveIsItsRun
<1>4. ASSUME NEW a \in Agents, NEW r \in Agent, PolicyWritten(a, r)
      PROVE  \/ /\ SameUpdates(c)
                /\ \A b \in Agents : agentConnections[b] = c =>
                      agents'[b].status # "none" /\ StoredPolicy(b)' = StoredPolicy(b)
             \/ \E n \in Updates(c)' :
                   /\ agentConnections[a] = c /\ agents'[a].status # "none"
                   /\ IsLast(n, Updates(c)') /\ Carried(down'[c][n]) = StoredPolicy(a)'
                   /\ down'[c][n].agent = a
                   /\ \A i \in Updates(c)' : i = n \/ (i \in Updates(c) /\ down'[c][i] = down[c][i])
  <2>1. PICK f : f = PolicyUpdate(a, r)
    OBVIOUS
  <2>2. f \in Frame /\ f.type = "policy.update" /\ f.agent = a
        /\ f.version = r.version /\ f.allow = r.allow
    BY <2>1 DEF PolicyUpdate, Frame, Agent
  <2>3. agents' = [agents EXCEPT ![a] = r] /\ r.status # "none" /\ down' = Sent(agentConnections[a], f)
    BY <1>4, <2>1 DEF PolicyWritten
  <2>4. agents'[a] = r /\ \A b \in Agents : b # a => agents'[b] = agents[b]
    BY <1>1, <2>3
  <2>5. CASE agentConnections[a] = c
    <3>1. conns[c] = "open"
      BY <1>1, <2>5 DEF PolicyInv, LiveConnectionIsOpen
    <3>2. PICK n \in Updates(c)' :
             /\ IsLast(n, Updates(c)') /\ down'[c][n] = f
             /\ \A i \in Updates(c)' : i = n \/ (i \in Updates(c) /\ down'[c][i] = down[c][i])
      BY <1>1, <2>2, <2>3, <2>5, <3>1, PolicyFrame
    <3>3. Carried(down'[c][n]) = StoredPolicy(a)'
      BY <2>2, <2>4, <3>2 DEF Carried, StoredPolicy
    <3>4. QED BY <2>2, <2>3, <2>4, <2>5, <3>2, <3>3
  <2>6. CASE agentConnections[a] # c
    <3>1. SameUpdates(c)
      <4>1. down'[c] = down[c]
        BY <1>1, <2>3, <2>6 DEF Sent, TypeOK
      <4>2. QED BY <4>1 DEF SameUpdates, Updates
    <3>2. \A b \in Agents : agentConnections[b] = c =>
              agents'[b].status # "none" /\ StoredPolicy(b)' = StoredPolicy(b)
      BY <1>3, <2>4, <2>6 DEF StoredPolicy
    <3>3. QED BY <3>1, <3>2
  <2>7. QED BY <2>5, <2>6
<1>5. ASSUME RowsKept,
             \/ down' = down
             \/ \E x \in Actions, a \in Agents, t \in 0..ActionTimeout : DispatchAction(x, a, t)
      PROVE  /\ SameUpdates(c)
             /\ \A a \in Agents : agentConnections[a] = c =>
                   agents'[a].status # "none" /\ StoredPolicy(a)' = StoredPolicy(a)
  <2>1. CASE down' = down
    BY <1>3, <1>5, <2>1 DEF RowsKept, SameUpdates, Updates
  <2>2. ASSUME NEW x \in Actions, NEW a \in Agents, NEW t \in 0..ActionTimeout, DispatchAction(x, a, t)
        PROVE  SameUpdates(c)
    <3>1. PICK f : f = ActionRequest(x, a, agents[a].version, now + t)
      OBVIOUS
    <3>2. agents[a].version \in Nat /\ now + t \in Nat
      BY <1>1, ControlPlaneAssumption DEF TypeOK, Agent
    <3>3. f \in Frame /\ f.type = "action.request"
      BY <3>1, <3>2 DEF ActionRequest, Frame
    <3>4. f.type # "policy.update"
      BY <3>3
    <3>5. down' = Sent(agentConnections[a], f)
      BY <2>2, <3>1 DEF DispatchAction
    <3>6. QED BY <1>1, <3>3, <3>4, <3>5, OtherFrame
  <2>3. QED BY <1>3, <1>5, <2>1, <2>2 DEF RowsKept
<1>6. QED BY <1>1, <1>2, <1>4, <1>5, PolicySteps

\* A step of the control plane: a connected run will still hold what is stored.
LEMMA PlaneHolds ==
    ASSUME PolicyInv, [Next]_vars, procs' = procs, NEW c \in Conns, NEW a \in Agents,
           agentConnections[a] = c, WillHold(c, StoredPolicy(a))
    PROVE  WillHold(c, StoredPolicy(a))' /\ agents'[a].status # "none"
<1>1. CASE SameUpdates(c) /\ agents'[a].status # "none" /\ StoredPolicy(a)' = StoredPolicy(a)
  <2>1. PICK p : p = StoredPolicy(a)
    OBVIOUS
  <2>2. WillHold(c, p)'
    BY <1>1, <2>1 DEF SameUpdates, WillHold
  <2>3. QED BY <1>1, <2>1, <2>2 DEF WillHold
<1>2. CASE \E n \in Updates(c)' : /\ IsLast(n, Updates(c)') /\ Carried(down'[c][n]) = StoredPolicy(a)'
                                  /\ agents'[a].status # "none"
  BY <1>2 DEF WillHold
<1>3. QED BY <1>1, <1>2, PlaneWire

\* A step of the control plane: nothing is sent to a run that no agent is live on, and only
\* its own agent's policies to one that is.
LEMMA PlaneRun ==
    ASSUME PolicyInv, [Next]_vars, procs' = procs, NEW c \in Conns
    PROVE  /\ (Updates(c) = {} /\ \A a \in Agents : agentConnections[a] # c) => Updates(c)' = {}
           /\ \A i \in Updates(c)' : down'[c][i].agent = procs'[c].agent
<1>1. \A i \in Updates(c) : down[c][i].agent = procs[c].agent
  BY DEF PolicyInv, RunInStep, RunOf
<1>2. CASE SameUpdates(c)
  BY <1>1, <1>2 DEF SameUpdates
<1>3. ASSUME NEW a \in Agents, NEW n \in Updates(c)', agentConnections[a] = c, down'[c][n].agent = a,
             \A i \in Updates(c)' : i = n \/ (i \in Updates(c) /\ down'[c][i] = down[c][i])
      PROVE  \A i \in Updates(c)' : down'[c][i].agent = procs'[c].agent
  <2>1. procs[c].agent = a
    BY <1>3, ControlPlaneAssumption DEF PolicyInv, LiveIsItsRun
  <2>2. QED BY <1>1, <1>3, <2>1
<1>4. QED BY <1>2, <1>3, PlaneWire

\* A step that connects nobody.
NobodyConnects == \A b \in Agents : agentConnections'[b] \in {NoConn, agentConnections[b]}

\* Only an accepted hello connects an agent,
LEMMA OnlyHelloConnects ==
    ASSUME TypeOK,
           \/ ServerStep \/ UNCHANGED vars
           \/ \E a \in Agents, key \in Keys : AgentEnroll(a, key)
           \/ \E c \in Conns, a \in Agents : RejectedHello(c, a, TRUE)
           \/ \E c \in Conns, x \in Actions, a \in Agents, ok \in BOOLEAN : ActionResult(c, x, a, TRUE, ok)
    PROVE  NobodyConnects
<1>1. agentConnections' = agentConnections => NobodyConnects
  BY DEF NobodyConnects
<1>2. ASSUME NEW c \in Conns, SocketClosed(c) \/ \E a \in Agents : RejectedHello(c, a, TRUE)
      PROVE  NobodyConnects
  BY <1>2 DEF SocketClosed, RejectedHello, CloseConnection, DetachedConnections, NobodyConnects
<1>3. ASSUME NEW a \in Agents, RevokeAgent(a) PROVE NobodyConnects
  BY <1>3 DEF RevokeAgent, DetachedConnections, NobodyConnects
<1>4. Crash \/ Shutdown => NobodyConnects
  BY DEF Crash, Shutdown, ForgetMemory, NobodyConnects
<1>5. ASSUME \/ \E a \in Agents, allow \in BOOLEAN :
                   CreateEnrollmentToken(a, allow) \/ UpdatePolicyTool(a, allow)
             \/ \E p \in Patches, a \in Agents : PatchResolve(p, a)
             \/ \E p \in Patches, allow \in BOOLEAN : PatchApply(p, allow)
             \/ \E p \in Patches : PatchAbort(p)
             \/ \E x \in Actions, a \in Agents, t \in 0..ActionTimeout : DispatchAction(x, a, t)
             \/ \E x \in Actions : ActionTimedOut(x)
             \/ \E c \in Conns : AcceptConnection(c)
             \/ Restart \/ Tick
      PROVE  agentConnections' = agentConnections
  BY <1>5 DEF CreateEnrollmentToken, UpdatePolicyTool, PatchResolve, PatchApply, PatchAbort,
              DispatchAction, ActionTimedOut, AcceptConnection, Restart, Tick, liveVars
<1>6. ASSUME \/ UNCHANGED vars
             \/ \E a \in Agents, key \in Keys : AgentEnroll(a, key)
             \/ \E c \in Conns, x \in Actions, a \in Agents, ok \in BOOLEAN : ActionResult(c, x, a, TRUE, ok)
      PROVE  agentConnections' = agentConnections
  BY <1>6 DEF AgentEnroll, ActionResult, liveVars, vars
<1>7. QED BY <1>1, <1>2, <1>3, <1>4, <1>5, <1>6 DEF ServerStep

\* and only the one that said it; its row keeps its policy.
LEMMA HelloConnects ==
    ASSUME TypeOK, NEW c \in Conns, NEW a \in Agents, AgentHello(c, a)
    PROVE  /\ agentConnections'[a] = c
           /\ \A b \in Agents : b # a => agentConnections'[b] \in {NoConn, agentConnections[b]}
           /\ agents'[a].status # "none" /\ StoredPolicy(a)' = StoredPolicy(a) /\ down' = down
<1>1. PICK old : old = agentConnections[a]
  OBVIOUS
<1>2. PICK r : r = [agents[a] EXCEPT !.status = "online"]
  OBVIOUS
<1>3. agents[a] \in Agent
  BY DEF TypeOK
<1>4. r.status = "online" /\ r.version = agents[a].version /\ r.allow = agents[a].allow
  BY <1>2, <1>3 DEF Agent
<1>5. agents' = [DetachedAgents(old, agents) EXCEPT ![a] = r] /\ down' = down
      /\ agentConnections' = [DetachedConnections(old) EXCEPT ![a] = c]
  BY <1>1, <1>2 DEF AgentHello
<1>6. agents'[a] = r
  BY <1>5 DEF DetachedAgents
<1>7. agentConnections'[a] = c
      /\ \A b \in Agents : b # a => agentConnections'[b] \in {NoConn, agentConnections[b]}
  BY <1>5 DEF DetachedConnections
<1>8. QED BY <1>4, <1>5, <1>6, <1>7 DEF StoredPolicy

\* A step of the control plane, which may read a frame of run d.
LEMMA RunStays ==
    ASSUME PolicyInv, [Next]_vars, procs' = procs, NEW d \in Conns,
           \A b \in Agents : agentConnections'[b] = d =>
               agentConnections[b] = d \/ (Hellos(d)' = {} /\ procs[d].phase # "idle"),
           up'[d] = up[d] \/ (up[d] # <<>> /\ up'[d] = Tail(up[d]))
    PROVE  RunOf(d)'
<1>1. RunOf(d) /\ up[d] \in Seq(Host!UpFrame)
  BY DEF PolicyInv, RunInStep, SystemTypeOK, Host!AgentTypeOK
<1>2. PICK k \in Nat : \A i \in 1..Len(up'[d]) : i + k \in 1..Len(up[d]) /\ up'[d][i] = up[d][i + k]
  <2>1. CASE up'[d] = up[d]
    <3>1. Len(up[d]) \in Nat
      BY <1>1
    <3>2. \A i \in 1..Len(up'[d]) : i + 0 \in 1..Len(up[d]) /\ up'[d][i] = up[d][i + 0]
      BY <2>1, <3>1
    <3>3. QED BY <3>2
  <2>2. CASE up[d] # <<>> /\ up'[d] = Tail(up[d])
    <3>1. \A i \in 1..Len(up'[d]) : i + 1 \in 1..Len(up[d]) /\ up'[d][i] = up[d][i + 1]
      BY <1>1, <2>2, NextFrame
    <3>2. QED BY <3>1
  <2>3. QED BY <2>1, <2>2
<1>3. \A i \in Hellos(d)' : i \in Int /\ i + k \in Hellos(d)
  <2>1. SUFFICES ASSUME NEW i \in Hellos(d)' PROVE i \in Int /\ i + k \in Hellos(d)
    OBVIOUS
  <2>2. i \in 1..Len(up'[d]) /\ up'[d][i].type = "agent.hello"
    BY <2>1 DEF Hellos
  <2>3. i + k \in 1..Len(up[d]) /\ up[d][i + k].type = "agent.hello"
    BY <1>2, <2>2
  <2>4. QED BY <2>2, <2>3 DEF Hellos
<1>4. \A i, j \in Hellos(d)' : i = j
  <2>1. SUFFICES ASSUME NEW i \in Hellos(d)', NEW j \in Hellos(d)' PROVE i = j
    OBVIOUS
  <2>2. i \in Int /\ j \in Int /\ i + k \in Hellos(d) /\ j + k \in Hellos(d)
    BY <1>3
  <2>3. i + k = j + k
    BY <1>1, <2>2 DEF RunOf
  <2>4. QED BY <2>2, <2>3
<1>5. \A i \in 1..Len(up'[d]) : up'[d][i].agent = procs'[d].agent
  BY <1>1, <1>2 DEF RunOf
<1>6. procs'[d].phase = "idle" => up'[d] = <<>>
  BY <1>1 DEF RunOf
<1>7. (procs'[d].phase = "idle" \/ Hellos(d)' # {})
          => Updates(d)' = {} /\ \A a \in Agents : agentConnections'[a] # d
  <2>1. SUFFICES ASSUME procs[d].phase = "idle" \/ Hellos(d)' # {}
                 PROVE  Updates(d)' = {} /\ \A a \in Agents : agentConnections'[a] # d
    OBVIOUS
  <2>2. procs[d].phase = "idle" \/ Hellos(d) # {}
    BY <1>3, <2>1
  <2>3. Updates(d) = {} /\ \A a \in Agents : agentConnections[a] # d
    BY <1>1, <2>2 DEF RunOf
  <2>4. QED BY <2>1, <2>3, PlaneRun
<1>8. \A i \in Updates(d)' : down'[d][i].agent = procs'[d].agent
  BY PlaneRun
<1>9. QED BY <1>4, <1>5, <1>6, <1>7, <1>8 DEF RunOf

\* The agent that stays connected through a step of the control plane.
LEMMA StaysConnected ==
    ASSUME PolicyInv, [Next]_vars, procs' = procs, NEW a \in Agents,
           agentConnections[a] \in Conns
    PROVE  procs'[agentConnections[a]].agent = a /\ agents'[a].status # "none"
<1>1. PICK c \in Conns : c = agentConnections[a]
  OBVIOUS
<1>2. procs[c].agent = a
  BY <1>1, ControlPlaneAssumption DEF PolicyInv, LiveIsItsRun
<1>3. agents'[a].status # "none"
  BY <1>1, PlaneWire
<1>4. QED BY <1>1, <1>2, <1>3

\* The control plane moves by itself, or reads a frame that connects nobody.
LEMMA QuietPolicyStep ==
    ASSUME PolicyInv, [Next]_vars, NobodyConnects, UNCHANGED <<procs, synced>>,
           \A d \in Conns : up'[d] = up[d] \/ (up[d] # <<>> /\ up'[d] = Tail(up[d]))
    PROVE  RunInStep' /\ LiveIsItsRun' /\ LiveWillHold'
<1>1. NoConn \notin Conns /\ agentConnections \in [Agents -> Conns \cup {NoConn}]
  BY ControlPlaneAssumption DEF PolicyInv, SystemTypeOK, TypeOK
<1>2. ASSUME NEW d \in Conns PROVE RunOf(d)'
  BY <1>1, RunStays DEF NobodyConnects
<1>3. LiveIsItsRun'
  <2>1. ASSUME NEW a \in Agents, agentConnections'[a] # NoConn
        PROVE  procs'[agentConnections'[a]].agent = a /\ agents'[a].status # "none"
    <3>1. agentConnections'[a] = agentConnections[a] /\ agentConnections[a] \in Conns
      BY <1>1, <2>1 DEF NobodyConnects
    <3>2. QED BY <3>1, StaysConnected
  <2>2. QED BY <2>1 DEF LiveIsItsRun
<1>4. LiveWillHold'
  <2>1. ASSUME NEW a \in Agents, NEW c \in Conns, agentConnections'[a] = c, synced'[c],
               procs'[c].phase = "running"
        PROVE  WillHold(c, StoredPolicy(a))'
    <3>1. agentConnections[a] = c
      BY <1>1, <2>1 DEF NobodyConnects
    <3>2. synced[c] /\ procs[c].phase = "running"
      BY <2>1
    <3>3. WillHold(c, StoredPolicy(a))
      BY <3>1, <3>2 DEF PolicyInv, LiveWillHold
    <3>4. QED BY <3>1, <3>3, PlaneHolds
  <2>2. QED BY <2>1 DEF LiveWillHold
<1>5. QED BY <1>2, <1>3, <1>4 DEF RunInStep

\* The control plane accepts the hello of a run.
LEMMA HelloPolicyStep ==
    ASSUME PolicyInv, [Next]_vars, NEW c \in Conns, NEW a \in Agents, AgentHello(c, a), procs' = procs,
           up[c] # <<>>, up[c][1].type = "agent.hello", up[c][1].agent = a,
           up' = [up EXCEPT ![c] = Tail(up[c])],
           synced' = [synced EXCEPT ![c] = procs[c].policy = StoredPolicy(a)]
    PROVE  RunInStep' /\ LiveIsItsRun' /\ LiveWillHold'
<1>1. /\ NoConn \notin Conns /\ agentConnections \in [Agents -> Conns \cup {NoConn}]
      /\ up \in [Conns -> Seq(Host!UpFrame)] /\ TypeOK /\ synced \in [Conns -> BOOLEAN]
  BY ControlPlaneAssumption DEF PolicyInv, SystemTypeOK, TypeOK, Host!AgentTypeOK
<1>2. RunOf(c)
  BY DEF PolicyInv, RunInStep
<1>3. /\ 1 \in 1..Len(up[c]) /\ up'[c] = Tail(up[c])
      /\ \A i \in 1..Len(up'[c]) : i + 1 \in 1..Len(up[c]) /\ up'[c][i] = up[c][i + 1]
      /\ \A d \in Conns : d # c => up'[d] = up[d]
  <2>1. up[c] \in Seq(Host!UpFrame) /\ up'[c] = Tail(up[c]) /\ \A d \in Conns : d # c => up'[d] = up[d]
    BY <1>1
  <2>2. PICK q \in Seq(Host!UpFrame) : q = up[c] /\ q # <<>>
    BY <2>1
  <2>3. 1 \in 1..Len(q) /\ \A i \in 1..Len(Tail(q)) : i + 1 \in 1..Len(q) /\ Tail(q)[i] = q[i + 1]
    BY <2>2, NextFrame
  <2>4. QED BY <2>1, <2>2, <2>3
<1>4. 1 \in Hellos(c)
  BY <1>3 DEF Hellos
<1>5. Hellos(c)' = {}
  <2>1. SUFFICES ASSUME NEW i \in Hellos(c)' PROVE FALSE
    OBVIOUS
  <2>2. i \in 1..Len(up'[c]) /\ up'[c][i].type = "agent.hello"
    BY DEF Hellos
  <2>3. i + 1 \in Hellos(c)
    BY <1>3, <2>2 DEF Hellos
  <2>4. i + 1 = 1
    BY <1>2, <1>4, <2>3 DEF RunOf
  <2>5. QED BY <2>2, <2>4
<1>6. procs[c].phase # "idle" /\ procs[c].agent = a /\ Updates(c) = {} /\ \A b \in Agents : agentConnections[b] # c
  BY <1>2, <1>3, <1>4 DEF RunOf
<1>7. /\ agentConnections'[a] = c
      /\ \A b \in Agents : b # a => agentConnections'[b] \in {NoConn, agentConnections[b]}
      /\ agents'[a].status # "none" /\ StoredPolicy(a)' = StoredPolicy(a) /\ down' = down
  BY <1>1, HelloConnects
<1>8. ASSUME NEW d \in Conns PROVE RunOf(d)'
  <2>1. \A b \in Agents : agentConnections'[b] = d =>
            agentConnections[b] = d \/ (Hellos(d)' = {} /\ procs[d].phase # "idle")
    BY <1>1, <1>5, <1>6, <1>7
  <2>2. up'[d] = up[d] \/ (up[d] # <<>> /\ up'[d] = Tail(up[d]))
    BY <1>3
  <2>3. QED BY <2>1, <2>2, RunStays
<1>9. LiveIsItsRun'
  <2>1. ASSUME NEW b \in Agents, agentConnections'[b] # NoConn
        PROVE  procs'[agentConnections'[b]].agent = b /\ agents'[b].status # "none"
    <3>1. CASE b = a
      BY <1>6, <1>7, <3>1
    <3>2. CASE b # a
      <4>1. agentConnections'[b] = agentConnections[b] /\ agentConnections[b] \in Conns
        BY <1>1, <1>7, <2>1, <3>2
      <4>2. QED BY <4>1, StaysConnected
    <3>3. QED BY <3>1, <3>2
  <2>2. QED BY <2>1 DEF LiveIsItsRun
<1>10. (synced'[c] => procs[c].policy = StoredPolicy(a)) /\ \A d \in Conns : d # c => synced'[d] = synced[d]
  BY <1>1, Zenon
<1>11. LiveWillHold'
  <2>1. ASSUME NEW b \in Agents, NEW d \in Conns, agentConnections'[b] = d, synced'[d],
               procs'[d].phase = "running"
        PROVE  WillHold(d, StoredPolicy(b))'
    <3>1. CASE b = a
      <4>1. d = c
        BY <1>7, <2>1, <3>1
      <4>2. Updates(c)' = {}
        BY <1>6, <1>7 DEF Updates
      <4>3. procs'[c].policy = StoredPolicy(a)'
        BY <1>7, <1>10, <2>1, <4>1
      <4>4. QED BY <3>1, <4>1, <4>2, <4>3 DEF WillHold
    <3>2. CASE b # a
      <4>1. agentConnections[b] = d
        BY <1>1, <1>7, <2>1, <3>2
      <4>2. d # c
        BY <1>6, <4>1
      <4>3. synced[d] /\ procs[d].phase = "running"
        BY <1>10, <2>1, <4>2
      <4>4. WillHold(d, StoredPolicy(b))
        BY <4>1, <4>3 DEF PolicyInv, LiveWillHold
      <4>5. QED BY <4>1, <4>4, PlaneHolds
    <3>3. QED BY <3>1, <3>2
  <2>2. QED BY <2>1 DEF LiveWillHold
<1>12. QED BY <1>8, <1>9, <1>11 DEF RunInStep

\* What a run sends besides its hello is a result, under its own id.
LEMMA ResultSent ==
    ASSUME SystemTypeOK, NEW c \in Conns, RunOf(c), procs[c].phase = "running",
           procs'[c].phase = "running", procs'[c].agent = procs[c].agent,
           UNCHANGED agentConnections,
           Updates(c) = {} => Updates(c)' = {},
           \A i \in Updates(c)' : down'[c][i].agent = procs'[c].agent,
           NEW r \in Host!UpFrame, r.type # "agent.hello", r.agent = procs[c].agent,
           up'[c] = up[c] \/ up'[c] = Append(up[c], r)
    PROVE  RunOf(c)'
<1>1. up[c] \in Seq(Host!UpFrame)
  BY DEF SystemTypeOK, Host!AgentTypeOK
<1>2. \A i \in 1..Len(up'[c]) : (i \in 1..Len(up[c]) /\ up'[c][i] = up[c][i]) \/ up'[c][i] = r
  <2>1. CASE up'[c] = up[c]
    BY <2>1
  <2>2. CASE up'[c] = Append(up[c], r)
    BY <1>1, <2>2, LastFrame
  <2>3. QED BY <2>1, <2>2
<1>3. \A i \in Hellos(c)' : i \in Hellos(c)
  BY <1>2 DEF Hellos
<1>4. \A i \in 1..Len(up'[c]) : up'[c][i].agent = procs'[c].agent
  BY <1>2 DEF RunOf
<1>5. QED BY <1>3, <1>4 DEF RunOf

\* Nothing changes for the other runs.
LEMMA OtherRun ==
    ASSUME NEW d \in Conns, RunOf(d), procs'[d] = procs[d], up'[d] = up[d], down'[d] = down[d],
           UNCHANGED agentConnections
    PROVE  RunOf(d)'
BY DEF RunOf, Hellos, Updates

\* A run starts and says hello.
LEMMA StartPolicyStep ==
    ASSUME PolicyInv, NEW c \in Conns, NEW a \in Agents, StartRun(c, a)
    PROVE  RunInStep' /\ LiveIsItsRun' /\ LiveWillHold'
<1>1. /\ NoConn \notin Conns /\ agentConnections \in [Agents -> Conns \cup {NoConn}]
      /\ up \in [Conns -> Seq(Host!UpFrame)] /\ RunOf(c)
      /\ procs \in [Conns -> [phase: {"idle", "running", "ended"},
                             agent: Agents \cup {NoAgent}, policy: Host!Policy]]
  BY ControlPlaneAssumption DEF PolicyInv, SystemTypeOK, TypeOK, Host!AgentTypeOK, RunInStep
<1>2. PICK p : p = [phase |-> "running", agent |-> a, policy |-> config[a]]
  OBVIOUS
<1>3. PICK h : h = Host!Hello(a)
  OBVIOUS
<1>4. /\ procs[c].phase = "idle" /\ procs' = [procs EXCEPT ![c] = p]
      /\ up' = [up EXCEPT ![c] = Append(up[c], h)]
      /\ UNCHANGED <<agentConnections, agents, down, synced>>
  BY <1>2, <1>3 DEF StartRun, Host!RunAgent, vars
<1>5. up[c] = <<>> /\ Updates(c) = {} /\ \A b \in Agents : agentConnections[b] # c
  BY <1>1, <1>4 DEF RunOf
<1>6. h \in Host!UpFrame /\ h.agent = a
  BY <1>3 DEF Host!Hello, Host!UpFrame
<1>7. up'[c] = Append(up[c], h) /\ procs'[c] = p
      /\ \A d \in Conns : d # c => up'[d] = up[d] /\ procs'[d] = procs[d]
  BY <1>1, <1>4
<1>8. up'[c] = <<h>>
  BY <1>5, <1>6, <1>7
<1>9. \A i \in 1..Len(up'[c]) : i = 1 /\ up'[c][i] = h
  BY <1>8
<1>10. RunOf(c)'
  <2>1. procs'[c].phase = "running" /\ procs'[c].agent = a
    BY <1>2, <1>7
  <2>2. \A i, j \in Hellos(c)' : i = j
    BY <1>9 DEF Hellos
  <2>3. \A i \in 1..Len(up'[c]) : up'[c][i].agent = procs'[c].agent
    BY <1>6, <1>9, <2>1
  <2>4. Updates(c)' = {} /\ \A b \in Agents : agentConnections'[b] # c
    BY <1>4, <1>5 DEF Updates
  <2>5. QED BY <2>1, <2>2, <2>3, <2>4 DEF RunOf
<1>11. ASSUME NEW d \in Conns PROVE RunOf(d)'
  <2>1. CASE d = c
    BY <1>10, <2>1
  <2>2. CASE d # c
    BY <1>4, <1>7, <2>2, OtherRun DEF PolicyInv, RunInStep
  <2>3. QED BY <2>1, <2>2
<1>12. LiveIsItsRun'
  <2>1. \A b \in Agents : agentConnections[b] # NoConn => procs'[agentConnections[b]] = procs[agentConnections[b]]
    BY <1>1, <1>5, <1>7
  <2>2. QED BY <1>4, <2>1 DEF PolicyInv, LiveIsItsRun
<1>13. LiveWillHold'
  <2>1. ASSUME NEW b \in Agents, NEW d \in Conns, agentConnections'[b] = d, synced'[d],
               procs'[d].phase = "running"
        PROVE  WillHold(d, StoredPolicy(b))'
    <3>1. d # c /\ agentConnections[b] = d /\ synced[d]
      BY <1>4, <1>5, <2>1
    <3>2. procs'[d] = procs[d]
      BY <1>7, <3>1
    <3>3. WillHold(d, StoredPolicy(b))
      BY <2>1, <3>1, <3>2 DEF PolicyInv, LiveWillHold
    <3>4. QED BY <1>4, <3>2, <3>3 DEF WillHold, Updates, StoredPolicy
  <2>2. QED BY <2>1 DEF LiveWillHold
<1>14. QED BY <1>11, <1>12, <1>13 DEF RunInStep

\* A run's agent id, and what is live, survive what a run does after its hello.
LEMMA RunActs ==
    ASSUME PolicyInv, UNCHANGED <<agentConnections, agents, synced>>,
           \A d \in Conns : procs'[d].agent = procs[d].agent,
           \A d \in Conns : procs'[d].phase = "running" => procs[d].phase = "running",
           \A d \in Conns : \A q : WillHold(d, q) => WillHold(d, q)'
    PROVE  LiveIsItsRun' /\ LiveWillHold'
<1>1. agentConnections \in [Agents -> Conns \cup {NoConn}]
  BY DEF PolicyInv, SystemTypeOK, TypeOK
<1>2. LiveIsItsRun'
  BY <1>1 DEF PolicyInv, LiveIsItsRun
<1>3. LiveWillHold'
  <2>1. ASSUME NEW b \in Agents, NEW d \in Conns, agentConnections'[b] = d, synced'[d],
               procs'[d].phase = "running"
        PROVE  WillHold(d, StoredPolicy(b))'
    <3>1. PICK q : q = StoredPolicy(b)
      OBVIOUS
    <3>2. q = StoredPolicy(b)'
      BY <3>1 DEF StoredPolicy
    <3>3. WillHold(d, q)
      BY <2>1, <3>1 DEF PolicyInv, LiveWillHold
    <3>4. WillHold(d, q)'
      BY <3>3
    <3>5. QED BY <3>2, <3>4 DEF WillHold
  <2>2. QED BY <2>1 DEF LiveWillHold
<1>4. QED BY <1>2, <1>3

\* A run finishes an action.
LEMMA FinishPolicyStep ==
    ASSUME PolicyInv, NEW c \in Conns, NEW x \in Actions, NEW ok \in BOOLEAN, AgentFinishes(c, x, ok)
    PROVE  RunInStep' /\ LiveIsItsRun' /\ LiveWillHold'
<1>1. PICK r : r = Host!Result(x, procs[c].agent, ok)
  OBVIOUS
<1>2. /\ procs[c].phase = "running" /\ up' = [up EXCEPT ![c] = Append(up[c], r)]
      /\ UNCHANGED <<agentConnections, agents, down, synced, procs>>
  BY <1>1 DEF AgentFinishes, Host!FinishAction, vars
<1>3. SystemTypeOK /\ RunOf(c) /\ up \in [Conns -> Seq(Host!UpFrame)] /\ procs[c].agent \in Agents
  BY <1>2 DEF PolicyInv, RunInStep, SystemTypeOK, Host!AgentTypeOK
<1>4. r \in Host!UpFrame /\ r.type # "agent.hello" /\ r.agent = procs[c].agent
  BY <1>1, <1>3 DEF Host!Result, Host!UpFrame
<1>5. up'[c] = Append(up[c], r) /\ \A d \in Conns : d # c => up'[d] = up[d]
  BY <1>2, <1>3
<1>6. RunOf(c)'
  <2>1. Updates(c)' = Updates(c)
    BY <1>2 DEF Updates
  <2>2. \A i \in Updates(c)' : down'[c][i].agent = procs'[c].agent
    BY <1>2, <1>3, <2>1 DEF RunOf
  <2>3. QED BY <1>2, <1>3, <1>4, <1>5, <2>1, <2>2, ResultSent
<1>7. ASSUME NEW d \in Conns PROVE RunOf(d)'
  <2>1. CASE d = c
    BY <1>6, <2>1
  <2>2. CASE d # c
    BY <1>2, <1>5, <2>2, OtherRun DEF PolicyInv, RunInStep
  <2>3. QED BY <2>1, <2>2
<1>8. \A d \in Conns : \A q : WillHold(d, q) => WillHold(d, q)'
  BY <1>2 DEF WillHold, Updates
<1>9. LiveIsItsRun' /\ LiveWillHold'
  BY <1>2, <1>8, RunActs
<1>10. QED BY <1>7, <1>9 DEF RunInStep

\* A run ends.
LEMMA StopPolicyStep ==
    ASSUME PolicyInv, NEW c \in Conns, AgentStops(c)
    PROVE  RunInStep' /\ LiveIsItsRun' /\ LiveWillHold'
<1>1. /\ procs[c].phase = "running" /\ procs' = [procs EXCEPT ![c].phase = "ended"]
      /\ UNCHANGED <<agentConnections, agents, down, synced, up>>
  BY DEF AgentStops, Host!AgentEnds, vars
<1>2. procs \in [Conns -> [phase: {"idle", "running", "ended"},
                          agent: Agents \cup {NoAgent}, policy: Host!Policy]]
  BY DEF PolicyInv, SystemTypeOK, Host!AgentTypeOK
<1>3. /\ procs'[c].phase = "ended" /\ procs'[c].agent = procs[c].agent /\ procs'[c].policy = procs[c].policy
      /\ \A d \in Conns : d # c => procs'[d] = procs[d]
  BY <1>1, <1>2
<1>4. RunOf(c)'
  <2>1. RunOf(c) /\ Hellos(c)' = Hellos(c) /\ Updates(c)' = Updates(c)
    BY <1>1 DEF PolicyInv, RunInStep, Hellos, Updates
  <2>2. QED BY <1>1, <1>3, <2>1 DEF RunOf
<1>5. ASSUME NEW d \in Conns PROVE RunOf(d)'
  <2>1. CASE d = c
    BY <1>4, <2>1
  <2>2. CASE d # c
    BY <1>1, <1>3, <2>2, OtherRun DEF PolicyInv, RunInStep
  <2>3. QED BY <2>1, <2>2
<1>6. \A d \in Conns : procs'[d].policy = procs[d].policy
  BY <1>3
<1>7. \A d \in Conns : \A q : WillHold(d, q) => WillHold(d, q)'
  BY <1>1, <1>6 DEF WillHold, Updates
<1>8. LiveIsItsRun' /\ LiveWillHold'
  BY <1>1, <1>3, <1>7, RunActs
<1>9. QED BY <1>5, <1>8 DEF RunInStep

\* The policies on the way once a frame has been read.
LEMMA ReadUpdates ==
    ASSUME TypeOK, NEW c \in Conns, down[c] # <<>>, down' = [down EXCEPT ![c] = Tail(down[c])]
    PROVE  /\ \A i \in Updates(c)' : i + 1 \in Updates(c) /\ down'[c][i] = down[c][i + 1] /\ i \in Nat
           /\ \A i \in Updates(c) : i \in Nat \ {0} /\ (i # 1 => i - 1 \in Updates(c)')
           /\ 1 \in Updates(c) <=> down[c][1].type = "policy.update"
           /\ \A d \in Conns : d # c => down'[d] = down[d]
<1>1. down[c] \in Seq(Frame) /\ down'[c] = Tail(down[c]) /\ \A d \in Conns : d # c => down'[d] = down[d]
  BY DEF TypeOK
<1>2. PICK q \in Seq(Frame) : q = down[c] /\ q # <<>>
  BY <1>1
<1>3. PICK t : t = Tail(q)
  OBVIOUS
<1>4. /\ 1 \in 1..Len(q) /\ Len(q) \in Nat /\ Len(t) = Len(q) - 1
      /\ \A i \in 1..Len(t) : i + 1 \in 1..Len(q) /\ t[i] = q[i + 1]
  BY <1>2, <1>3, NextFrame
<1>5. /\ Updates(c) = {i \in 1..Len(q) : q[i].type = "policy.update"}
      /\ Updates(c)' = {i \in 1..Len(t) : t[i].type = "policy.update"}
      /\ down'[c] = t
  BY <1>1, <1>2, <1>3 DEF Updates
<1>6. \A i \in Updates(c)' : i + 1 \in Updates(c) /\ down'[c][i] = down[c][i + 1] /\ i \in Nat
  BY <1>2, <1>4, <1>5
<1>7. \A i \in Updates(c) : i \in Nat \ {0} /\ (i # 1 => i - 1 \in Updates(c)')
  <2>1. SUFFICES ASSUME NEW i \in Updates(c) PROVE i \in Nat \ {0} /\ (i # 1 => i - 1 \in Updates(c)')
    OBVIOUS
  <2>2. i \in 1..Len(q) /\ q[i].type = "policy.update"
    BY <1>5, <2>1
  <2>3. i # 1 => i - 1 \in 1..Len(t) /\ (i - 1) + 1 = i
    BY <1>4, <2>2
  <2>4. i # 1 => t[i - 1] = q[i]
    BY <1>4, <2>3
  <2>5. QED BY <1>5, <2>2, <2>3, <2>4
<1>8. QED BY <1>1, <1>2, <1>4, <1>5, <1>6, <1>7

\* A run reads a frame: a policy is adopted, and what it will hold in the end stays the same.
LEMMA ReadPolicyStep ==
    ASSUME PolicyInv, NEW c \in Conns, AgentReads(c)
    PROVE  RunInStep' /\ LiveIsItsRun' /\ LiveWillHold'
<1>1. /\ TypeOK /\ SystemTypeOK /\ RunOf(c) /\ down[c] \in Seq(Frame) /\ down[c] # <<>>
      /\ up \in [Conns -> Seq(Host!UpFrame)]
      /\ procs \in [Conns -> [phase: {"idle", "running", "ended"},
                             agent: Agents \cup {NoAgent}, policy: Host!Policy]]
  BY DEF PolicyInv, RunInStep, SystemTypeOK, TypeOK, Host!AgentTypeOK, AgentReads
<1>2. PICK f : f = down[c][1]
  OBVIOUS
<1>3. f \in Frame /\ f = Head(down[c])
  BY <1>1, <1>2, NextFrame
<1>4. /\ Host!ApplyPolicyUpdate(c, f) \/ Host!StartAction(c, f) \/ Host!DropFrame(c, f)
      /\ down' = [down EXCEPT ![c] = Tail(down[c])]
      /\ UNCHANGED <<agentConnections, agents, synced>>
  BY <1>3 DEF AgentReads, storeVars, liveVars
<1>5. /\ \A i \in Updates(c)' : i + 1 \in Updates(c) /\ down'[c][i] = down[c][i + 1] /\ i \in Nat
      /\ \A i \in Updates(c) : i \in Nat \ {0} /\ (i # 1 => i - 1 \in Updates(c)')
      /\ 1 \in Updates(c) <=> f.type = "policy.update"
      /\ \A d \in Conns : d # c => down'[d] = down[d]
  BY <1>1, <1>2, <1>4, ReadUpdates
<1>6. f.type = "policy.update" => Host!ApplyPolicyUpdate(c, f)
  <2>1. f.type = "policy.update" => f.agent = procs[c].agent
    BY <1>1, <1>2, <1>5 DEF RunOf
  <2>2. QED BY <1>4, <2>1 DEF Host!StartAction, Host!DropFrame
<1>7. f.type # "policy.update" => procs' = procs
  BY <1>4 DEF Host!ApplyPolicyUpdate, Host!StartAction, Host!DropFrame, Host!agentVars
<1>8. f.type = "policy.update" => procs' = [procs EXCEPT ![c].policy = Carried(f)]
  BY <1>6 DEF Host!ApplyPolicyUpdate, Carried
<1>9. /\ \A d \in Conns : procs'[d].agent = procs[d].agent /\ procs'[d].phase = procs[d].phase
      /\ \A d \in Conns : d # c => procs'[d] = procs[d]
      /\ f.type = "policy.update" => procs'[c].policy = Carried(f)
  <2>1. CASE f.type = "policy.update"
    <3>1. PICK q : q = Carried(f)
      OBVIOUS
    <3>2. procs' = [procs EXCEPT ![c] = [procs[c] EXCEPT !.policy = q]]
      BY <1>8, <2>1, <3>1
    <3>3. procs'[c] = [procs[c] EXCEPT !.policy = q] /\ \A d \in Conns : d # c => procs'[d] = procs[d]
      BY <1>1, <3>2
    <3>4. procs'[c].agent = procs[c].agent /\ procs'[c].phase = procs[c].phase /\ procs'[c].policy = q
      BY <1>1, <3>3
    <3>5. QED BY <3>1, <3>3, <3>4
  <2>2. CASE f.type # "policy.update"
    BY <1>7, <2>2
  <2>3. QED BY <2>1, <2>2
<1>10. procs[c].phase = "running"
  BY <1>4 DEF Host!ApplyPolicyUpdate, Host!StartAction, Host!DropFrame
<1>11. \A d \in Conns : procs[d].phase = "running" <=> procs'[d].phase = "running"
  BY <1>9
<1>12. \A i \in Updates(c)' : down'[c][i].agent = procs'[c].agent
  BY <1>1, <1>5, <1>9 DEF RunOf
<1>13. Updates(c) = {} => Updates(c)' = {}
  BY <1>5
<1>14. RunOf(c)' /\ \A d \in Conns : d # c => up'[d] = up[d]
  <2>1. CASE up' = up
    <3>1. Hellos(c)' = Hellos(c)
      BY <2>1 DEF Hellos
    <3>2. QED BY <1>1, <1>4, <1>9, <1>12, <1>13, <2>1, <3>1 DEF RunOf
  <2>2. CASE Host!StartAction(c, f) /\ up' # up
    <3>1. PICK r : r = Host!Result(f.action, f.agent, FALSE)
      OBVIOUS
    <3>2. f.agent = procs[c].agent /\ f.type = "action.request"
          /\ up' = [up EXCEPT ![c] = Append(up[c], r)]
      BY <2>2, <3>1 DEF Host!StartAction, Host!Acceptable
    <3>3. r \in Host!UpFrame /\ r.type # "agent.hello" /\ r.agent = procs[c].agent
      BY <1>3, <3>1, <3>2, RequestFields DEF Host!Result, Host!UpFrame
    <3>4. up'[c] = Append(up[c], r) /\ \A d \in Conns : d # c => up'[d] = up[d]
      BY <1>1, <3>2
    <3>5. RunOf(c)'
      BY <1>1, <1>4, <1>9, <1>10, <1>12, <1>13, <3>3, <3>4, ResultSent
    <3>6. QED BY <3>4, <3>5
  <2>3. QED BY <1>4, <2>1, <2>2 DEF Host!ApplyPolicyUpdate, Host!DropFrame, Host!agentVars
<1>15. ASSUME NEW d \in Conns PROVE RunOf(d)'
  <2>1. CASE d = c
    BY <1>14, <2>1
  <2>2. CASE d # c
    BY <1>4, <1>5, <1>9, <1>14, <2>2, OtherRun DEF PolicyInv, RunInStep
  <2>3. QED BY <2>1, <2>2
<1>16. ASSUME NEW q, WillHold(c, q) PROVE WillHold(c, q)'
  <2>1. CASE Updates(c) = {}
    <3>1. procs' = procs /\ procs[c].policy = q
      BY <1>5, <1>7, <1>16, <2>1 DEF WillHold
    <3>2. QED BY <1>13, <2>1, <3>1 DEF WillHold
  <2>2. CASE Updates(c) # {}
    <3>1. PICK n \in Updates(c) : IsLast(n, Updates(c)) /\ Carried(down[c][n]) = q
      BY <1>16, <2>2 DEF WillHold
    <3>2. n \in Nat \ {0} /\ \A i \in Updates(c) : i <= n /\ i \in Nat
      BY <1>5, <3>1 DEF IsLast
    <3>3. CASE n = 1
      <4>1. Updates(c)' = {}
        <5>1. SUFFICES ASSUME NEW i \in Updates(c)' PROVE FALSE
          OBVIOUS
        <5>2. i + 1 \in Updates(c) /\ i \in Nat /\ i + 1 <= 1
          BY <1>5, <3>2, <3>3
        <5>3. i = 0
          BY <5>2
        <5>4. i \in 1..Len(down'[c])
          BY <5>1 DEF Updates
        <5>5. QED BY <5>3, <5>4
      <4>2. procs'[c].policy = q
        BY <1>2, <1>5, <1>9, <3>1, <3>3
      <4>3. QED BY <4>1, <4>2 DEF WillHold
    <3>4. CASE n # 1
      <4>1. PICK m : m = n - 1
        OBVIOUS
      <4>2. m \in Updates(c)' /\ m + 1 = n /\ m \in Nat
        BY <1>5, <3>1, <3>2, <3>4, <4>1
      <4>3. down'[c][m] = down[c][n]
        BY <1>5, <4>2
      <4>4. \A i \in Updates(c)' : i <= m
        <5>1. SUFFICES ASSUME NEW i \in Updates(c)' PROVE i <= m
          OBVIOUS
        <5>2. i + 1 \in Updates(c) /\ i \in Nat
          BY <1>5
        <5>3. i + 1 <= n
          BY <3>2, <5>2
        <5>4. QED BY <3>2, <4>2, <5>2, <5>3
      <4>5. PICK S : S = Updates(c)'
        OBVIOUS
      <4>6. IsLast(m, S)
        BY <4>2, <4>4, <4>5 DEF IsLast
      <4>7. Carried(down'[c][m]) = q
        BY <3>1, <4>3
      <4>8. m \in S /\ IsLast(m, S) /\ Carried(down'[c][m]) = q
        BY <4>2, <4>5, <4>6, <4>7
      <4>9. QED BY <4>5, <4>8 DEF WillHold, IsLast, Carried
    <3>5. QED BY <3>3, <3>4
  <2>3. QED BY <2>1, <2>2
<1>17. \A d \in Conns : \A q : WillHold(d, q) => WillHold(d, q)'
  <2>1. SUFFICES ASSUME NEW d \in Conns, NEW q, WillHold(d, q) PROVE WillHold(d, q)'
    OBVIOUS
  <2>2. CASE d = c
    BY <1>16, <2>1, <2>2
  <2>3. CASE d # c
    <3>1. down'[d] = down[d] /\ procs'[d] = procs[d]
      BY <1>5, <1>9, <2>3
    <3>2. Updates(d)' = Updates(d)
      BY <3>1 DEF Updates
    <3>3. QED BY <2>1, <3>1, <3>2 DEF WillHold
  <2>4. QED BY <2>2, <2>3
<1>18. LiveIsItsRun' /\ LiveWillHold'
  BY <1>4, <1>9, <1>17, RunActs
<1>19. QED BY <1>15, <1>18 DEF RunInStep

\* Every step of both ends keeps the invariant.
LEMMA PolicyStep ==
    ASSUME ~Pipelined
    PROVE  PolicyInv /\ [SystemNext]_systemVars => PolicyInv'
<1> SUFFICES ASSUME PolicyInv, [SystemNext]_systemVars PROVE PolicyInv'
  OBVIOUS
<1> DEFINE Goal == RunInStep' /\ LiveIsItsRun' /\ LiveWillHold'
<1>1. SystemTypeOK /\ TypeOK
  BY DEF PolicyInv, SystemTypeOK
<1>2. SystemTypeOK'
  BY <1>1, SystemTypeStep
<1>3. SnapshotExists' /\ LiveConnectionIsOpen'
  <2>1. CASE [Next]_vars
    BY <1>1, <2>1, SnapshotStep, LiveStep DEF PolicyInv
  <2>2. ASSUME NEW c \in Conns, AgentReads(c) PROVE SnapshotExists' /\ LiveConnectionIsOpen'
    BY <2>2 DEF AgentReads, PolicyInv, SnapshotExists, LiveConnectionIsOpen, liveVars
  <2>3. QED BY <1>1, <2>1, <2>2, PlaneSide
<1>4. ASSUME \/ PlaneStep \/ UNCHANGED systemVars
             \/ \E a \in Agents, key \in Keys : Enroll(a, key)
      PROVE  Goal
  <2>1. /\ [Next]_vars /\ UNCHANGED <<procs, synced, up>>
        /\ \/ ServerStep \/ UNCHANGED vars
           \/ \E a \in Agents, key \in Keys : AgentEnroll(a, key)
    <3>1. PlaneStep => ServerStep /\ UNCHANGED <<procs, synced, up>>
      BY DEF PlaneStep, hostVars
    <3>2. UNCHANGED systemVars => UNCHANGED vars /\ UNCHANGED <<procs, synced, up>>
      BY DEF systemVars, hostVars
    <3>3. ASSUME NEW a \in Agents, NEW key \in Keys, Enroll(a, key)
          PROVE  AgentEnroll(a, key) /\ UNCHANGED <<procs, synced, up>>
      BY <3>3 DEF Enroll, Host!SaveEnrollment, hostVars
    <3>4. QED BY <1>4, <3>1, <3>2, <3>3 DEF Next
  <2>2. NobodyConnects
    BY <1>1, <2>1, OnlyHelloConnects
  <2>3. QED BY <2>1, <2>2, QuietPolicyStep
<1>5. ASSUME NEW c \in Conns, PlaneReads(c) PROVE Goal
  <2>1. /\ up[c] \in Seq(Host!UpFrame) /\ up[c] # <<>> /\ up \in [Conns -> Seq(Host!UpFrame)]
        /\ up' = [up EXCEPT ![c] = Tail(up[c])] /\ procs' = procs
    BY <1>1, <1>5 DEF PlaneReads, SystemTypeOK, Host!AgentTypeOK
  <2>2. PICK f : f = up[c][1]
    OBVIOUS
  <2>3. f \in Host!UpFrame /\ f = Head(up[c])
    BY <2>1, <2>2, NextFrame
  <2>4. [Next]_vars
    BY <1>1, <1>5, PlaneReadIsNext
  <2>5. \A d \in Conns : up'[d] = up[d] \/ (up[d] # <<>> /\ up'[d] = Tail(up[d]))
    BY <2>1
  <2>6. \/ /\ f.type = "agent.hello" /\ AgentHello(c, f.agent)
           /\ synced' = [synced EXCEPT ![c] = procs[c].policy = StoredPolicy(f.agent)]
        \/ /\ UNCHANGED synced
           /\ \/ RejectedHello(c, f.agent, TRUE) \/ UNCHANGED vars
              \/ f.type = "action.result" /\ ActionResult(c, f.action, f.agent, TRUE, f.ok)
    BY <1>5, <2>3 DEF PlaneReads
  <2>7. f.agent \in Agents /\ (f.type = "action.result" => f.action \in Actions /\ f.ok \in BOOLEAN)
    BY <2>3, UpFrames
  <2>8. CASE /\ f.type = "agent.hello" /\ AgentHello(c, f.agent)
             /\ synced' = [synced EXCEPT ![c] = procs[c].policy = StoredPolicy(f.agent)]
    <3>1. PICK a \in Agents : a = f.agent
      BY <2>7
    <3>2. synced' = [synced EXCEPT ![c] = procs[c].policy = StoredPolicy(a)]
      BY <2>8, <3>1, Zenon
    <3>3. AgentHello(c, a) /\ up[c][1].type = "agent.hello" /\ up[c][1].agent = a
      BY <2>2, <2>8, <3>1
    <3>4. QED BY <2>1, <2>4, <3>2, <3>3, HelloPolicyStep
  <2>9. CASE /\ UNCHANGED synced
             /\ \/ RejectedHello(c, f.agent, TRUE) \/ UNCHANGED vars
                \/ f.type = "action.result" /\ ActionResult(c, f.action, f.agent, TRUE, f.ok)
    <3>1. NobodyConnects
      BY <1>1, <2>7, <2>9, OnlyHelloConnects
    <3>2. QED BY <2>1, <2>4, <2>5, <2>9, <3>1, QuietPolicyStep
  <2>10. QED BY <2>6, <2>8, <2>9
<1>6. Goal
  BY <1>4, <1>5, SystemSteps, StartPolicyStep, ReadPolicyStep, StopPolicyStep, FinishPolicyStep
<1>7. QED BY <1>2, <1>3, <1>6 DEF PolicyInv

LEMMA PolicyInit ==
    ASSUME ~Pipelined
    PROVE  SystemInit => PolicyInv
<1> SUFFICES ASSUME SystemInit PROVE PolicyInv
  OBVIOUS
<1>1. SystemTypeOK /\ LiveConnectionIsOpen
  BY SystemTypeInit, LiveInit DEF SystemInit
<1>2. \A c \in Conns : up[c] = <<>> /\ down[c] = <<>> /\ procs[c].phase = "idle"
  BY DEF SystemInit, Init, Host!AgentInit, Host!NoProc
<1>3. \A a \in Agents : agentConnections[a] = NoConn
  BY DEF SystemInit, Init
<1>4. RunInStep
  <2>1. SUFFICES ASSUME NEW c \in Conns PROVE RunOf(c)
    BY DEF RunInStep
  <2>2. Hellos(c) = {} /\ Updates(c) = {}
    BY <1>2 DEF Hellos, Updates
  <2>3. QED BY <1>2, <1>3, <2>2, ControlPlaneAssumption DEF RunOf
<1>5. LiveIsItsRun /\ LiveWillHold
  BY <1>2, <1>3, ControlPlaneAssumption DEF LiveIsItsRun, LiveWillHold
<1>6. SnapshotExists
  BY DEF SystemInit, Init, SnapshotExists
<1>7. QED BY <1>1, <1>4, <1>5, <1>6 DEF PolicyInv

\* The frames and connections of a run agree with its agent's row: one hello first, then
\* only that agent's policies, the last of them the stored one (PolicyInv).
THEOREM PolicyInvariant ==
    ASSUME ~Pipelined
    PROVE  SystemSpec => []PolicyInv
BY PolicyInit, PolicyStep, PTL DEF SystemSpec

\* A connected run that started from the stored policy stays in step with the store
\* (PolicyInStep), however tool calls, PATCH requests, reconnects, revocations, crashes and
\* frames under way interleave.
THEOREM PoliciesInStep ==
    ASSUME ~Pipelined
    PROVE  SystemSpec => []PolicyInStep
<1>1. PolicyInv => PolicyInStep
  <2>1. SUFFICES ASSUME PolicyInv, NEW a \in Agents, NEW c, c = agentConnections[a],
                        c # NoConn, synced[c], procs[c].phase = "running"
                 PROVE  ArrivingPolicy(c) = StoredPolicy(a)
    BY DEF PolicyInStep
  <2>2. c \in Conns
    BY <2>1 DEF PolicyInv, SystemTypeOK, TypeOK
  <2>3. WillHold(c, StoredPolicy(a))
    BY <2>1, <2>2 DEF PolicyInv, LiveWillHold
  <2>4. CASE Updates(c) = {}
    BY <2>3, <2>4 DEF WillHold, ArrivingPolicy
  <2>5. CASE Updates(c) # {}
    <3>1. PICK n \in Updates(c) : IsLast(n, Updates(c)) /\ Carried(down[c][n]) = StoredPolicy(a)
      BY <2>3, <2>5 DEF WillHold
    <3>2. PICK m : m = CHOOSE i \in Updates(c) : IsLast(i, Updates(c))
      OBVIOUS
    <3>3. m \in Updates(c) /\ IsLast(m, Updates(c))
      BY <3>1, <3>2
    <3>4. m \in Int /\ n \in Int /\ m <= n /\ n <= m
      <4>1. m <= n /\ n <= m
        BY <3>1, <3>3 DEF IsLast
      <4>2. QED BY <3>1, <3>3, <4>1 DEF Updates
    <3>5. m = n
      BY <3>4
    <3>6. QED BY <2>5, <3>1, <3>2, <3>5 DEF ArrivingPolicy, Carried
  <2>6. QED BY <2>4, <2>5
<1>2. QED BY <1>1, PolicyInvariant, PTL

=============================================================================
