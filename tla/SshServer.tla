------------------------------ MODULE SshServer ------------------------------
(***************************************************************************)
(* The session pool and the tunnels joined as createContainer in           *)
(* src/container.ts joins them: the close listener of a session closes its *)
(* tunnels one after the other, and tunnels look up their session.  The    *)
(* session tools of src/tools/session.provider.ts keep the session gauge.  *)
(* notifySessionClose races the listener against a timer; a listener that  *)
(* lost the race goes on in the background.                                *)
(***************************************************************************)
EXTENDS SessionManager, TunnelManager

CONSTANT Users    \* clients that close tunnels themselves

Runs == Sessions \X Slots

\* Tunnels run over sessions; clients and close listeners close them.
ASSUME ServerAssumption ==
    Owners = Sessions /\ Closers = Users \cup Runs /\ Users \cap Runs = {}

VARIABLES
    listeners,     \* closeSessionTunnels run of each closeSession call, with the
                   \* tunnels its session had at the start (history)
    sessionGauge   \* metrics.sessions.active

serverVars == <<sessionVars, now, tunnelVars, listeners, sessionGauge>>

Idle == [phase |-> "idle", todo |-> <<>>, snapshot |-> {}]

ServerInit ==
    /\ SessionInit
    /\ TunnelInit
    /\ listeners = [r \in Runs |-> Idle]
    /\ sessionGauge = 0

OpenTunnels(s) == {t \in Tunnels : Registered(t) /\ tunnelInfo[t].session = s}

-----------------------------------------------------------------------------
\* Each close call started by this step starts its listener, which takes a
\* snapshot of the session's tunnels.
StartListeners ==
    listeners' = [r \in Runs |->
        LET list == ListTunnels(r[1])
        IN IF closes[r[1]][r[2]] = "idle" /\ closes'[r[1]][r[2]] # "idle"
           THEN [phase |-> "running", todo |-> list, snapshot |-> OpenTunnels(r[1])]
           ELSE listeners[r]]

\* Steps of the session manager that start close calls, or none.
SessionStep ==
    /\ \/ \E s \in Sessions, ttl \in 0..Ttl : OpenSession(s, ttl)
       \/ \E s \in Sessions : \/ ConnectFails(s) \/ Connected(s) \/ CloseSession(s)
                              \/ GetSession(s) \/ GetExpiredSession(s)
       \/ CleanupExpiredSessions \/ Destroy \/ DestroyReturns \/ SessionTick
    /\ StartListeners
    /\ UNCHANGED <<tunnelVars, sessionGauge>>

\* openSession returns to the ssh_open_session tool, which counts it.
SessionOpened(s) ==
    /\ RegisterSession(s)
    /\ sessionGauge' = sessionGauge + 1
    /\ UNCHANGED <<tunnelVars, listeners>>

\* Mutant: no timeout.
ListenerEnded(r) == listeners[r].phase \in {"done", "threw"}

\* The race of notifySessionClose is over at any time: the timer may fire while
\* the listener is still running.
RaceDecided(r) == listeners[r].phase \in {"running", "done", "threw"}

\* recordSessionClosed
GaugeDown == IF sessionGauge > 0 THEN sessionGauge - 1 ELSE 0

\* The listener ran out of tunnels or threw, or its 5 seconds are over: the
\* close call goes on.  The ssh_close_session tool counts the calls it made.
SessionClosed(s, k, disposed) ==
    /\ RaceDecided(<<s, k>>)
    /\ FinishClose(s, k, disposed)
    /\ sessionGauge' = IF closes[s][k] = "user" THEN GaugeDown ELSE sessionGauge
    /\ UNCHANGED <<tunnelVars, listeners>>

-----------------------------------------------------------------------------
\* tunnel_local_forward and tunnel_remote_forward on a live session.
OpenTunnel(t, s, type) ==
    /\ GetSession(s)
    /\ CreateTunnel(t, s, type)
    /\ UNCHANGED <<listeners, sessionGauge>>

\* listen succeeds whatever became of the session; forwardIn needs its connection.
TunnelOpened(t) ==
    /\ tunnelInfo[t].type = "remote" => ssh[tunnelInfo[t].session] # "disposed"
    /\ TunnelListening(t)
    /\ UNCHANGED <<sessionVars, now, listeners, sessionGauge>>

OpenTunnelFails(t) ==
    /\ CreateFails(t)
    /\ UNCHANGED <<sessionVars, now, listeners, sessionGauge>>

\* tunnel_close
UserClosesTunnel(u, t) ==
    /\ CloseTunnel(u, t)
    /\ UNCHANGED <<sessionVars, now, listeners, sessionGauge>>

UserCallEnds(u) ==
    /\ TunnelClosed(u) \/ TunnelCloseFails(u)
    /\ UNCHANGED <<sessionVars, now, listeners, sessionGauge>>

\* closeSessionTunnels takes the next tunnel of its snapshot; one that is gone
\* already is skipped.
ListenerNext(r) ==
    LET t == Head(listeners[r].todo)
    IN /\ listeners[r].phase = "running" /\ calls[r] = NoCall
       /\ listeners[r].todo # <<>>
       /\ listeners' = [listeners EXCEPT ![r].todo = Tail(@)]
       /\ IF Registered(t) THEN CloseTunnel(r, t) ELSE UNCHANGED tunnelVars
       /\ UNCHANGED <<sessionVars, now, sessionGauge>>

\* Mutant: the loop swallows errors.
ListenerSwallows(r) ==
    /\ TunnelClosed(r) \/ TunnelCloseFails(r)
    /\ UNCHANGED <<listeners, sessionVars, now, sessionGauge>>

\* The await of closeTunnel in the loop: an error ends the loop.
ListenerCallEnds(r) ==
    /\ \/ TunnelClosed(r) /\ UNCHANGED listeners
       \/ TunnelCloseFails(r) /\ listeners' = [listeners EXCEPT ![r].phase = "threw"]
    /\ UNCHANGED <<sessionVars, now, sessionGauge>>

ListenerDone(r) ==
    /\ listeners[r].phase = "running" /\ calls[r] = NoCall
    /\ listeners[r].todo = <<>>
    /\ listeners' = [listeners EXCEPT ![r].phase = "done"]
    /\ UNCHANGED <<sessionVars, now, tunnelVars, sessionGauge>>

-----------------------------------------------------------------------------
ServerNext ==
    \/ SessionStep
    \/ \E s \in Sessions : SessionOpened(s)
    \/ \E s \in Sessions, k \in Slots, disposed \in BOOLEAN : SessionClosed(s, k, disposed)
    \/ \E t \in Tunnels, s \in Sessions, type \in Types : OpenTunnel(t, s, type)
    \/ \E t \in Tunnels : TunnelOpened(t) \/ OpenTunnelFails(t)
    \/ \E u \in Users, t \in Tunnels : UserClosesTunnel(u, t)
    \/ \E u \in Users : UserCallEnds(u)
    \/ \E r \in Runs : ListenerNext(r) \/ ListenerCallEnds(r) \/ ListenerDone(r)

\* The timer of notifySessionClose fires.  Nothing is assumed of the tunnels: a
\* local server drains only when its clients let go.
ServerFairness ==
    \A s \in Sessions, k \in Slots :
        WF_serverVars(\E disposed \in BOOLEAN : SessionClosed(s, k, disposed))

ServerSpec == ServerInit /\ [][ServerNext]_serverVars /\ ServerFairness

-----------------------------------------------------------------------------
\* Types of both managers, the listeners and the gauge.
ServerTypeOK ==
    /\ SessionTypeOK /\ TunnelTypeOK
    /\ listeners \in [Runs -> [phase: {"idle", "running", "done", "threw"},
                               todo: Seq(Tunnels), snapshot: SUBSET Tunnels]]
    /\ sessionGauge \in Nat

\* A listener that did not throw has closed every tunnel the session had when
\* the close began, also those a client or another close call was closing.
SnapshotIsClosed ==
    \A r \in Runs : listeners[r].phase = "done" =>
        \A t \in listeners[r].snapshot : ~Registered(t)

\* Closing a session ends even if its tunnels never drain: a close call that is
\* waiting for its listener comes back.
CloseReturns ==
    \A s \in Sessions, k \in Slots : (closes[s][k] # "idle") ~> (closes[s][k] = "idle")

\* "Current active sessions": while the server is up and no open or close is in
\* progress the session gauge is the size of the pool.
SessionGaugeIsExact ==
    (/\ manager = "up"
     /\ \A s \in Sessions : opens[s] \notin {"connecting", "connected"}
     /\ \A r \in Runs : closes[r[1]][r[2]] = "idle")
        => sessionGauge = Len(sessions)
=============================================================================
