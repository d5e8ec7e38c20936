---------------------------- MODULE ControlPlane ----------------------------
(***************************************************************************)
(* The remote-agent control plane, src/remote/control-plane.ts with the    *)
(* SQLite store it writes through (src/remote/store.ts) and the server end *)
(* of its WebSockets (src/remote/websocket.ts).                            *)
(*                                                                         *)
(* The process is single threaded, so a handler runs without interruption  *)
(* up to its next await.  Agent hello, action result, revocation,          *)
(* enrollment and the MCP policy update contain no await after their       *)
(* inputs are read and are one action each.  The REST policy update reads  *)
(* the agent record, awaits the request body, and then writes the record   *)
(* back: it is two actions (PatchResolve, PatchApply).                     *)
(*                                                                         *)
(* Abstractions: a policy is its version and whether it enables the        *)
(* capability of the dispatched tool; agents belong to one user with       *)
(* agents:admin; rejected requests that change nothing but the audit log   *)
(* are not steps; nonces are fresh; frames the agent ignores               *)
(* (agent.ready, error) are not put on the wire.                           *)
(***************************************************************************)
EXTENDS Integers, FiniteSets, Sequences

CONSTANTS
    Agents,        \* agent ids that may be created
    Keys,          \* Ed25519 public keys agents enroll with
    NoKey,         \* publicKey is undefined
    Conns,         \* WebSocket connections; each is accepted at most once
    NoConn,        \* no entry in agentConnections
    Actions,       \* action ids; each is dispatched at most once
    NoAgent,       \* agentId of an action that was not dispatched
    Patches,       \* PATCH /api/agents/:id[/policy] requests in flight
    ActionTimeout, \* maxActionTimeoutSeconds
    Grace,         \* the 2000 ms added to the control plane's own timer
    TokenTtl,      \* enrollmentTokenTtlSeconds
    MayCrash,      \* whether the process may crash or be shut down
    Pipelined,     \* whether a peer sends a hello behind a frame that made us close
    MaxVersion,    \* bound: highest policy version
    MaxTime        \* bound: last instant

ASSUME ControlPlaneAssumption ==
    /\ ActionTimeout \in Nat /\ Grace \in Nat /\ TokenTtl \in Nat
    /\ MaxVersion \in Nat /\ MaxTime \in Nat
    /\ MayCrash \in BOOLEAN /\ Pipelined \in BOOLEAN
    /\ NoConn \notin Conns /\ NoAgent \notin Agents /\ NoKey \notin Keys

VARIABLES
    running,          \* the control-plane process is up
    agents,           \* table agents: Agents -> record
    tokens,           \* table agent_enrollment_tokens, one per agent
    actions,          \* table actions
    agentConnections, \* live connection of an agent (in memory)
    pendingActions,   \* dispatched actions whose promise is unsettled (in memory)
    patches,          \* PATCH requests between resolveAgent and the body
    conns,            \* server end of each socket: idle, open, closed by us, gone
    closeHandlers,    \* agents whose onClose handler is registered on a socket
    down,             \* frames written to a socket, not yet read by the agent
    now

storeVars == <<agents, tokens, actions>>
liveVars  == <<agentConnections, conns, closeHandlers>>
vars == <<running, agents, tokens, actions, agentConnections, pendingActions,
          patches, conns, closeHandlers, down, now>>

-----------------------------------------------------------------------------
Status == {"none", "pending", "offline", "online", "revoked"}
Agent  == [status: Status, publicKey: Keys \cup {NoKey}, version: Nat, allow: BOOLEAN]
Token  == [state: {"none", "fresh", "used"}, expiresAt: Nat]
ConnState == {"idle", "open", "closed", "gone"}
Settled == {"completed", "error", "timeout"}
Action == [status: {"none", "sent"} \cup Settled, agent: Agents \cup {NoAgent},
           deadline: Nat]
Patch  == [phase: {"idle", "reading", "done"}, agent: Agents \cup {NoAgent}, snap: Agent]

PolicyUpdate(a, r)   == [type |-> "policy.update", agent |-> a,
                         version |-> r.version, allow |-> r.allow]
ActionRequest(x, a, v, d) == [type |-> "action.request", action |-> x, agent |-> a,
                              version |-> v, deadline |-> d]
Frame == [type: {"policy.update"}, agent: Agents, version: Nat, allow: BOOLEAN]
         \cup [type: {"action.request"}, action: Actions, agent: Agents,
               version: Nat, deadline: Nat]

NoRecord == [status |-> "none", publicKey |-> NoKey, version |-> 0, allow |-> FALSE]

Init ==
    /\ running = TRUE
    /\ agents = [a \in Agents |-> NoRecord]
    /\ tokens = [a \in Agents |-> [state |-> "none", expiresAt |-> 0]]
    /\ actions = [x \in Actions |-> [status |-> "none", agent |-> NoAgent, deadline |-> 0]]
    /\ agentConnections = [a \in Agents |-> NoConn]
    /\ pendingActions = {}
    /\ patches = [p \in Patches |-> [phase |-> "idle", agent |-> NoAgent, snap |-> NoRecord]]
    /\ conns = [c \in Conns |-> "idle"]
    /\ closeHandlers = [c \in Conns |-> {}]
    /\ down = [c \in Conns |-> <<>>]
    /\ now = 0

-----------------------------------------------------------------------------
\* MinimalWebSocketConnection.close / handleClose: the first of them marks the
\* socket closed and runs the close handlers; later ones do nothing.  A handler
\* only acts if its agent's live connection is still this socket.
Detached(c) ==
    IF c \in Conns /\ conns[c] = "open" THEN {a \in closeHandlers[c] : agentConnections[a] = c} ELSE {}

\* Mutants of the next operators: a close handler that forgets to delete the
\* entry, and one that forgets to mark the row.
DetachedKeepsEntry(c) == agentConnections
DetachedUnmarked(c, table) == table

\* agentConnections after c has been closed.
DetachedConnections(c) ==
    [a \in Agents |-> IF a \in Detached(c) THEN NoConn ELSE agentConnections[a]]

\* close() on the entry of agentConnections, if there is one and it is open.
Closed(c) ==
    [d \in Conns |-> IF d = c /\ conns[d] = "open" THEN "closed" ELSE conns[d]]

\* The agents table after c has been closed: offline, unless revoked meanwhile.
DetachedAgents(c, table) ==
    [a \in Agents |->
        IF a \in Detached(c) /\ table[a].status # "revoked"
        THEN [table[a] EXCEPT !.status = "offline"] ELSE table[a]]

\* sendJson: a closed socket swallows the frame.
Sent(c, frame) ==
    IF c \in Conns /\ conns[c] = "open"
    THEN [down EXCEPT ![c] = Append(@, frame)] ELSE down

-----------------------------------------------------------------------------
\* createEnrollmentToken: a pending agent and its one token.
CreateEnrollmentToken(a, allow) ==
    /\ running
    /\ agents[a].status = "none"
    /\ agents' = [agents EXCEPT ![a] = [status |-> "pending", publicKey |-> NoKey,
                                        version |-> 1, allow |-> allow]]
    /\ tokens' = [tokens EXCEPT ![a] = [state |-> "fresh", expiresAt |-> now + TokenTtl]]
    /\ UNCHANGED <<running, actions, liveVars, pendingActions, patches, down, now>>

\* Mutant: a used token passes.
TokenUnexpired(a) == tokens[a].state # "none" /\ tokens[a].expiresAt >= now

TokenUsable(a) == tokens[a].state = "fresh" /\ tokens[a].expiresAt >= now

\* handleAgentEnroll after the body was read: check the token, mark it used,
\* bind the public key.
AgentEnroll(a, key) ==
    /\ running
    /\ TokenUsable(a)
    /\ agents[a].status # "revoked"
    /\ tokens' = [tokens EXCEPT ![a].state = "used"]
    /\ agents' = [agents EXCEPT ![a] = [@ EXCEPT !.status = "offline", !.publicKey = key]]
    /\ UNCHANGED <<running, actions, liveVars, pendingActions, patches, down, now>>

\* handleUpgrade: a socket is accepted.
AcceptConnection(c) ==
    /\ running
    /\ conns[c] = "idle"
    /\ conns' = [conns EXCEPT ![c] = "open"]
    /\ UNCHANGED <<running, storeVars, agentConnections, closeHandlers, pendingActions,
                   patches, down, now>>

\* drainFrames hands over frames without looking at the closed flag, so frames
\* of a socket we closed still arrive until its other end is gone.
Deliverable(c) == conns[c] \in {"open", "closed"}
HelloDeliverable(c) == conns[c] = "open" \/ (Pipelined /\ conns[c] = "closed")

\* The close flag is set and the handlers run, if c was open.
CloseConnection(c, state) ==
    /\ agentConnections' = DetachedConnections(c)
    /\ agents' = DetachedAgents(c, agents)
    /\ conns' = [conns EXCEPT ![c] = state]
    /\ UNCHANGED <<running, tokens, actions, closeHandlers, pendingActions, patches, down, now>>

\* handleClose: the socket ended, failed or was closed by the peer.
SocketClosed(c) == running /\ Deliverable(c) /\ CloseConnection(c, "gone")

\* Mutant: a revoked agent passes.
HasKey(a) == agents[a].publicKey # NoKey

\* The first check of handleAgentHello.
IsEnrolled(a) ==
    agents[a].status \notin {"none", "revoked"} /\ agents[a].publicKey # NoKey

\* handleAgentMessage for a frame that makes the server close the socket: a hello
\* of an unknown or revoked agent or one without a key, one that is not valid (bad
\* signature, stale timestamp, seen nonce; frames of unknown type are no better),
\* or a second hello on the connection that is already live for the agent.
RejectedHello(c, a, valid) ==
    /\ running /\ HelloDeliverable(c)
    /\ \/ ~IsEnrolled(a)
       \/ ~valid
       \/ agentConnections[a] = c
    /\ CloseConnection(c, "closed")

\* handleAgentHello accepted: the previous connection is closed first (its
\* handler detaches the agents it carries), then this one is registered, the
\* record read at the start is written back as online, and a close handler added.
AgentHello(c, a) ==
    LET old == agentConnections[a]
    IN /\ running /\ HelloDeliverable(c)
       /\ IsEnrolled(a)
       /\ old # c
       /\ agentConnections' = [DetachedConnections(old) EXCEPT ![a] = c]
       /\ agents' = [DetachedAgents(old, agents) EXCEPT
                        ![a] = [agents[a] EXCEPT !.status = "online"]]
       /\ conns' = Closed(old)
       /\ closeHandlers' = [closeHandlers EXCEPT ![c] = @ \cup {a}]
       /\ UNCHANGED <<running, tokens, actions, pendingActions, patches, down, now>>

-----------------------------------------------------------------------------
\* Mutant: the live agent is not told.
UpdatePolicySilently(a, r, allow) ==
    /\ r.version < MaxVersion
    /\ agents' = [agents EXCEPT ![a] = [r EXCEPT !.version = r.version + 1, !.allow = allow]]
    /\ UNCHANGED down

\* updateAgentPolicy on the record r the caller holds: the whole row is written
\* back with the next version, and a live agent is told.
UpdateAgentPolicy(a, r, allow) ==
    LET updated == [r EXCEPT !.version = r.version + 1, !.allow = allow]
    IN /\ r.version < MaxVersion
       /\ agents' = [agents EXCEPT ![a] = updated]
       /\ down' = Sent(agentConnections[a], PolicyUpdate(a, updated))

\* MCP tool update_agent_policy: resolve and write in one segment.
UpdatePolicyTool(a, allow) ==
    /\ running
    /\ agents[a].status # "none"
    /\ UpdateAgentPolicy(a, agents[a], allow)
    /\ UNCHANGED <<running, tokens, actions, liveVars, pendingActions, patches, now>>

\* PATCH /api/agents/:id: the record is resolved before the body is awaited...
PatchResolve(p, a) ==
    /\ running
    /\ patches[p].phase = "idle"
    /\ agents[a].status # "none"
    /\ patches' = [patches EXCEPT ![p] = [phase |-> "reading", agent |-> a, snap |-> agents[a]]]
    /\ UNCHANGED <<running, storeVars, liveVars, pendingActions, down, now>>

\* ...and written back, as it was then, once the body has arrived.
PatchApply(p, allow) ==
    /\ running
    /\ patches[p].phase = "reading"
    /\ UpdateAgentPolicy(patches[p].agent, patches[p].snap, allow)
    /\ patches' = [patches EXCEPT ![p].phase = "done"]
    /\ UNCHANGED <<running, tokens, actions, liveVars, pendingActions, now>>

\* The body never arrives or is not a JSON object.
PatchAbort(p) ==
    /\ running
    /\ patches[p].phase = "reading"
    /\ patches' = [patches EXCEPT ![p].phase = "done"]
    /\ UNCHANGED <<running, storeVars, liveVars, pendingActions, down, now>>

\* revokeAgent: the row first, then the socket, so that the close handler sees
\* the revoked row; pending actions are left to their timers.
RevokeAgent(a) ==
    LET c == agentConnections[a]
        table == [agents EXCEPT ![a].status = "revoked"]
    IN /\ running
       /\ agents[a].status # "none"
       /\ agents' = DetachedAgents(c, table)
       /\ conns' = Closed(c)
       /\ agentConnections' = [DetachedConnections(c) EXCEPT ![a] = NoConn]
       /\ UNCHANGED <<running, tokens, actions, closeHandlers, pendingActions, patches, down, now>>

-----------------------------------------------------------------------------
\* callRemoteTool / dispatchAction up to the await: gate on the stored policy,
\* the status and a live connection, insert the record, arm the timer, send.
\* The bound keeps the timer's firing time inside MaxTime.
DispatchAction(x, a, timeout) ==
    /\ running
    /\ actions[x].status = "none"
    /\ agents[a].allow /\ agents[a].status # "revoked"
    /\ agentConnections[a] # NoConn
    /\ now + timeout + Grace <= MaxTime
    /\ actions' = [actions EXCEPT ![x] = [status |-> "sent", agent |-> a,
                                          deadline |-> now + timeout]]
    /\ pendingActions' = pendingActions \cup {x}
    /\ down' = Sent(agentConnections[a],
                    ActionRequest(x, a, agents[a].version, now + timeout))
    /\ UNCHANGED <<running, agents, tokens, liveVars, patches, now>>

\* Mutants: the entry of pendingActions is not deleted; the agent's own word for
\* success is stored.
SettleKeepsPending(x, status) ==
    /\ UNCHANGED pendingActions
    /\ actions' = [actions EXCEPT ![x].status = status]
SettleRawStatus(x, status) ==
    /\ pendingActions' = pendingActions \ {x}
    /\ actions' = [actions EXCEPT ![x].status = IF status = "completed" THEN "ok" ELSE status]

\* The promise of x settles: handler and continuation run without a gap.
Settle(x, status) ==
    /\ pendingActions' = pendingActions \ {x}
    /\ actions' = [actions EXCEPT ![x].status = status]

\* handleActionResult for a pending action: a bad signature, another agent's
\* action, a connection that is not the agent's live one or a seen nonce reject
\* the promise; otherwise the agent's own status is recorded.  A result for an
\* action that is not pending is ignored.
ActionResult(c, x, a, authentic, ok) ==
    /\ running /\ Deliverable(c)
    /\ x \in pendingActions
    /\ Settle(x, IF /\ authentic /\ agents[a].publicKey # NoKey
                    /\ actions[x].agent = a /\ agentConnections[a] = c
                    /\ ok
                 THEN "completed" ELSE "error")
    /\ UNCHANGED <<running, agents, tokens, liveVars, patches, down, now>>

\* Mutants: the timer survives the answer; the timer is dropped with the socket.
TimerNotCleared(x) ==
    /\ running
    /\ actions[x].status # "none"
    /\ now >= actions[x].deadline + Grace
    /\ Settle(x, "timeout")
    /\ UNCHANGED <<running, agents, tokens, liveVars, patches, down, now>>
TimerDroppedOnClose(x) ==
    /\ running
    /\ x \in pendingActions /\ agentConnections[actions[x].agent] # NoConn
    /\ now >= actions[x].deadline + Grace
    /\ Settle(x, "timeout")
    /\ UNCHANGED <<running, agents, tokens, liveVars, patches, down, now>>

\* The control plane's own timer.
ActionTimedOut(x) ==
    /\ running
    /\ x \in pendingActions
    /\ now >= actions[x].deadline + Grace
    /\ Settle(x, "timeout")
    /\ UNCHANGED <<running, agents, tokens, liveVars, patches, down, now>>

-----------------------------------------------------------------------------
\* Process memory is gone; sockets die with it.
ForgetMemory ==
    /\ running' = FALSE
    /\ agentConnections' = [a \in Agents |-> NoConn]
    /\ pendingActions' = {}
    /\ patches' = [p \in Patches |-> IF patches[p].phase = "reading"
                                     THEN [patches[p] EXCEPT !.phase = "done"] ELSE patches[p]]
    /\ conns' = [c \in Conns |-> IF conns[c] = "idle" THEN "idle" ELSE "gone"]
    /\ closeHandlers' = [c \in Conns |-> {}]
    /\ UNCHANGED <<tokens, actions, down, now>>

\* The process dies: the store keeps what was written.
Crash == running /\ MayCrash /\ ForgetMemory /\ UNCHANGED agents

\* close(): pending promises are rejected, live sockets closed (their handlers
\* write offline), then the database is closed - before the rejected promises'
\* continuations run, so their records stay as they are.
Shutdown ==
    /\ running /\ MayCrash
    /\ ForgetMemory
    /\ agents' = [a \in Agents |->
                    IF /\ a \in Detached(agentConnections[a])
                       /\ agents[a].status # "revoked"
                    THEN [agents[a] EXCEPT !.status = "offline"] ELSE agents[a]]

\* constructor: the store is reopened; no row is touched.
Restart ==
    /\ ~running
    /\ running' = TRUE
    /\ UNCHANGED <<storeVars, liveVars, pendingActions, patches, down, now>>

\* Time passes.
Tick ==
    /\ now < MaxTime
    /\ now' = now + 1
    /\ UNCHANGED <<running, storeVars, liveVars, pendingActions, patches, down>>

-----------------------------------------------------------------------------
\* What the control plane does whoever sits at the other end of its sockets.
ServerStep ==
    \/ \E a \in Agents, allow \in BOOLEAN :
          CreateEnrollmentToken(a, allow) \/ UpdatePolicyTool(a, allow)
    \/ \E a \in Agents : RevokeAgent(a)
    \/ \E p \in Patches, a \in Agents : PatchResolve(p, a)
    \/ \E p \in Patches, allow \in BOOLEAN : PatchApply(p, allow)
    \/ \E p \in Patches : PatchAbort(p)
    \/ \E x \in Actions, a \in Agents, t \in 0..ActionTimeout : DispatchAction(x, a, t)
    \/ \E x \in Actions : ActionTimedOut(x)
    \/ \E c \in Conns : AcceptConnection(c) \/ SocketClosed(c)
    \/ Crash \/ Shutdown \/ Restart
    \/ Tick

\* The component on its own: requests and frames arrive from peers that may
\* send anything.
Next ==
    \/ ServerStep
    \/ \E a \in Agents, key \in Keys : AgentEnroll(a, key)
    \/ \E c \in Conns, a \in Agents, valid \in BOOLEAN : RejectedHello(c, a, valid)
    \/ \E c \in Conns, a \in Agents : AgentHello(c, a)
    \/ \E c \in Conns, x \in Actions, a \in Agents, authentic, ok \in BOOLEAN :
          ActionResult(c, x, a, authentic, ok)

\* The event loop keeps running timers while the process is up.
Fairness ==
    /\ WF_vars(Tick)
    /\ WF_vars(Restart)
    /\ \A x \in Actions : WF_vars(ActionTimedOut(x))

Spec == Init /\ [][Next]_vars /\ Fairness

-----------------------------------------------------------------------------
\* Types of the tables, the in-memory maps and the frames on the wire.
TypeOK ==
    /\ running \in BOOLEAN
    /\ agents \in [Agents -> Agent]
    /\ tokens \in [Agents -> Token]
    /\ actions \in [Actions -> Action]
    /\ agentConnections \in [Agents -> Conns \cup {NoConn}]
    /\ pendingActions \subseteq Actions
    /\ patches \in [Patches -> Patch]
    /\ \A p \in Patches : patches[p].phase = "reading" => patches[p].agent \in Agents
    /\ conns \in [Conns -> ConnState]
    /\ closeHandlers \in [Conns -> SUBSET Agents]
    /\ down \in [Conns -> Seq(Frame)]
    /\ now \in Nat

\* An action whose promise is unsettled has an unsettled record: a result, a
\* timer and a rejected result can never each settle the same action, whatever
\* order they come in (pendingActions is the only guard between them).
PendingIsSent ==
    \A x \in pendingActions : actions[x].status = "sent"

\* A settled action record is never written again: a late or repeated result
\* cannot turn a timeout into a completion, nor a timer undo a completion.
SettledIsFinal ==
    [][\A x \in Actions : actions[x].status \in Settled => actions'[x] = actions[x]]_vars

\* The connection dispatchAction would send on is open and will report its own
\* closing.  Reconnects close the old socket from inside handleAgentHello, and
\* its close handler runs before the new one is registered.
LiveConnectionIsOpen ==
    \A a \in Agents :
        agentConnections[a] # NoConn =>
            /\ conns[agentConnections[a]] = "open"
            /\ a \in closeHandlers[agentConnections[a]]

\* The status list_agents reports is the connection state: online exactly while
\* a live connection is registered.  Reconnects, revocations and sockets closing
\* in any order keep the table and the map in step.
StatusTracksConnection ==
    running => \A a \in Agents : agents[a].status = "online" <=> agentConnections[a] # NoConn

\* Revocation is permanent: no later handler writes another status over it.
RevokedIsFinal ==
    [][\A a \in Agents : agents[a].status = "revoked" => agents'[a].status = "revoked"]_vars

\* An enrolled agent keeps the key it enrolled with: its token works once, and
\* no other write of the row drops or replaces the key.
EnrollmentIsDurable ==
    [][\A a \in Agents :
        agents[a].publicKey # NoKey => agents'[a].publicKey = agents[a].publicKey]_vars

\* What the caller of each tool call has been told: an action that is recorded as sent
\* and no longer pending is one whose process went away.
CallerView ==
    [x \in Actions |-> IF actions[x].status # "sent" THEN actions[x].status
                       ELSE IF x \in pendingActions THEN "waiting" ELSE "lost"]

Outcome == INSTANCE ActionOutcome WITH answer <- CallerView

\* The control plane implements ActionOutcome: result, rejected result, timer, shutdown and
\* crash, in any order, answer each dispatched action once and for good, and every
\* dispatched action is answered, also when its agent is revoked or gone.
AnswersOnce == Outcome!OutcomeSpec
=============================================================================
