----------------------------- MODULE HttpServer -----------------------------
(***************************************************************************)
(* The HTTP server of src/server-http.ts: the map of MCP sessions, the     *)
(* limit on them, their idle timeout, and shutdown.  Tool calls that reach *)
(* a session pass the rate limiter.                                        *)
(*                                                                         *)
(* Handlers run to their next await.  A streamable session is opened in    *)
(* two segments: the limit is checked, then the server connects its        *)
(* transport (an await), and the transport itself reports the session      *)
(* while it handles the initialize request.  A legacy SSE session is       *)
(* registered before its transport connects.  Requests refused by          *)
(* rejectIfUnauthorized or for their method or path change nothing and     *)
(* are not steps.  A transport is external: it calls onclose when closed.  *)
(***************************************************************************)
EXTENDS RateLimiter, FiniteSets

CONSTANTS
    Transports,   \* transports; each is created at most once
    MaxSessions,  \* http.maxSessions
    IdleTtl,      \* http.sessionIdleTtlMs
    LegacySse,    \* http.enableLegacySse
    MaxTime       \* bound: last instant

ASSUME HttpServerAssumption ==
    MaxSessions \in Nat /\ IdleTtl \in Nat /\ LegacySse \in BOOLEAN /\ MaxTime \in Nat

VARIABLES
    transports,    \* kind and state of each transport
    sessions,      \* the map sessions: registered transports
    lastSeenAt,    \* HttpSession.lastSeenAt
    touched,       \* history: when a request of the client last reached the session
    phase          \* running, closing (shutdown begun), cleared, exited

httpVars == <<transports, sessions, lastSeenAt, touched, phase>>
allHttpVars == <<httpVars, limiterVars, now>>

TransportState == {"none", "connecting", "open", "stranded", "refused", "closed", "expired", "unclosed"}

HttpInit ==
    /\ transports = [t \in Transports |-> [kind |-> "none", state |-> "none"]]
    /\ sessions = {}
    /\ lastSeenAt = [t \in Transports |-> 0]
    /\ touched = [t \in Transports |-> 0]
    /\ phase = "running"
    /\ now = 0
    /\ LimiterInit

Alive == phase # "exited"

\* A session seen now can still time out within MaxTime.
RoomForTimeout == now + IdleTtl < MaxTime

-----------------------------------------------------------------------------
\* isHttpSessionExpired.
IsHttpSessionExpired(t) == now - lastSeenAt[t] > IdleTtl

\* Mutant: SSE sessions are left to their streams.
ExpiredStreams == {t \in sessions : IsHttpSessionExpired(t) /\ transports[t].kind = "stream"}

\* cleanupExpiredHttpSessions: the sessions it closes.
Expired == {t \in sessions : IsHttpSessionExpired(t)}

\* closeHttpSession for each of a set: out of the map first, then transport.close,
\* whose failure is only logged.
TimedOut(gone, failing) ==
    [t \in Transports |->
        IF t \in gone
        THEN [transports[t] EXCEPT !.state = IF t \in failing THEN "unclosed" ELSE "expired"]
        ELSE transports[t]]

\* canOpenHttpSession, after its cleanup.
CanOpenHttpSession == Cardinality(sessions \ Expired) < MaxSessions

\* cleanupExpiredHttpSessions.
CleanupExpired(failing) ==
    /\ sessions' = sessions \ Expired
    /\ transports' = TimedOut(Expired, failing)

\* The interval, until shutdown clears it.
CleanupInterval(failing) ==
    /\ phase = "running"
    /\ Expired # {}
    /\ CleanupExpired(failing)
    /\ UNCHANGED <<lastSeenAt, touched, phase, limiterVars, now>>

\* POST /mcp with initialize and no session: cleanup, limit, new transport; up to
\* the await of server.connect.  At the limit the answer is 503.
OpenStream(t) ==
    /\ Alive
    /\ transports[t].state = "none"
    /\ sessions' = sessions \ Expired
    /\ transports' = IF CanOpenHttpSession
                     THEN [TimedOut(Expired, {}) EXCEPT ![t] = [kind |-> "stream", state |-> "connecting"]]
                     ELSE TimedOut(Expired, {})
    /\ UNCHANGED <<lastSeenAt, touched, phase, limiterVars, now>>

\* transport.handleRequest of the initialize request: onsessioninitialized puts
\* the session into the map...
StreamInitialized(t) ==
    /\ Alive /\ RoomForTimeout
    /\ transports[t].state = "connecting"
    /\ transports' = [transports EXCEPT ![t].state = "open"]
    /\ sessions' = sessions \cup {t}
    /\ lastSeenAt' = [lastSeenAt EXCEPT ![t] = now]
    /\ touched' = [touched EXCEPT ![t] = now]
    /\ UNCHANGED <<phase, limiterVars, now>>

\* ...or the transport refuses the request (headers, protocol version) and is
\* never registered.
StreamRefused(t) ==
    /\ Alive
    /\ transports[t].state = "connecting"
    /\ transports' = [transports EXCEPT ![t].state = "refused"]
    /\ UNCHANGED <<sessions, lastSeenAt, touched, phase, limiterVars, now>>

\* GET /sse: registered before the transport connects.  A client that went away
\* while it was being authorised never produces the close event.
OpenSse(t, gone) ==
    /\ Alive /\ LegacySse /\ RoomForTimeout
    /\ transports[t].state = "none"
    /\ IF CanOpenHttpSession
       THEN /\ transports' = [TimedOut(Expired, {}) EXCEPT
                                 ![t] = [kind |-> "sse", state |-> IF gone THEN "stranded" ELSE "open"]]
            /\ sessions' = (sessions \ Expired) \cup {t}
            /\ lastSeenAt' = [lastSeenAt EXCEPT ![t] = now]
            /\ touched' = [touched EXCEPT ![t] = now]
       ELSE /\ transports' = TimedOut(Expired, {})
            /\ sessions' = sessions \ Expired
            /\ UNCHANGED <<lastSeenAt, touched>>
    /\ UNCHANGED <<phase, limiterVars, now>>

\* Mutant: the time of the request is not noted.
SeenOnce(t) == UNCHANGED lastSeenAt

\* getHttpSession on a session that has not expired.
Seen(t) == lastSeenAt' = [lastSeenAt EXCEPT ![t] = now]

\* A POST or GET on a session (streamable requests clean up first, legacy messages
\* only look at their own session).  It may carry a tool call, which the rate
\* limiter lets through or refuses.
UseSession(t, call) ==
    /\ Alive /\ RoomForTimeout
    /\ t \in sessions \ Expired
    /\ Seen(t)
    /\ touched' = [touched EXCEPT ![t] = now]
    /\ IF transports[t].kind = "stream"
       THEN CleanupExpired({}) ELSE UNCHANGED <<sessions, transports>>
    /\ IF call THEN \E allowed \in BOOLEAN : Check(allowed) ELSE UNCHANGED limiterVars
    /\ UNCHANGED <<phase, now>>

\* A request for an expired session: a legacy message closes that one and gets a
\* 404, a streamable request closes all that have expired and gets a 400.
RequestTooLate(t, failing) ==
    /\ Alive
    /\ t \in Expired
    /\ IF transports[t].kind = "sse"
       THEN sessions' = sessions \ {t} /\ transports' = TimedOut({t}, failing)
       ELSE CleanupExpired(failing)
    /\ UNCHANGED <<lastSeenAt, touched, phase, limiterVars, now>>

\* Mutant: onclose is not installed.
OnCloseIgnored(t) == UNCHANGED sessions

\* transport.onclose: removeHttpSession.
OnClose(t) == sessions' = sessions \ {t}

\* DELETE /mcp, or the SSE response stream closing: the transport closes itself
\* and reports it.
ClientCloses(t) ==
    /\ Alive
    /\ t \in sessions /\ transports[t].state = "open"
    /\ transports[t].kind = "stream" => ~IsHttpSessionExpired(t)
    /\ transports' = [transports EXCEPT ![t].state = "closed"]
    /\ OnClose(t)
    /\ UNCHANGED <<lastSeenAt, touched, phase, limiterVars, now>>

-----------------------------------------------------------------------------
\* shutdown up to the await: the registered transports are closed (each onclose
\* removes its entry; a failure is logged)...
ShutdownBegins(failing) ==
    /\ phase = "running"
    /\ phase' = "closing"
    /\ transports' = [t \in Transports |->
          IF t \in sessions \ failing THEN [transports[t] EXCEPT !.state = "closed"] ELSE transports[t]]
    /\ sessions' = sessions \cap failing
    /\ UNCHANGED <<lastSeenAt, touched, limiterVars, now>>

\* ...then the map is cleared and the rate limiter destroyed...
ShutdownClears ==
    /\ phase = "closing"
    /\ phase' = "cleared"
    /\ sessions' = {}
    /\ DestroyLimiter
    /\ UNCHANGED <<transports, lastSeenAt, touched, now>>

\* ...and the process exits once the SSH sessions are closed, or at once on a
\* second signal.
Exit ==
    /\ phase \in {"closing", "cleared"}
    /\ phase' = "exited"
    /\ UNCHANGED <<transports, sessions, lastSeenAt, touched, limiterVars, now>>

\* The limiter's own interval.
Prune ==
    /\ phase \in {"running", "closing"}
    /\ PruneExpiredLogs
    /\ UNCHANGED <<httpVars, now>>

HttpTick ==
    /\ now < MaxTime
    /\ now' = now + 1
    /\ UNCHANGED <<httpVars, limiterVars>>

HttpNext ==
    \/ \E failing \in SUBSET Transports : CleanupInterval(failing) \/ ShutdownBegins(failing)
    \/ \E t \in Transports : OpenStream(t) \/ StreamInitialized(t) \/ StreamRefused(t)
    \/ \E t \in Transports, gone \in BOOLEAN : OpenSse(t, gone)
    \/ \E t \in Transports, call \in BOOLEAN : UseSession(t, call)
    \/ \E t \in Transports, failing \in SUBSET Transports : RequestTooLate(t, failing)
    \/ \E t \in Transports : ClientCloses(t)
    \/ ShutdownClears \/ Exit \/ Prune \/ HttpTick

\* Timers run while the process does; shutdown's awaits settle.
HttpSpec ==
    /\ HttpInit /\ [][HttpNext]_allHttpVars
    /\ WF_allHttpVars(HttpTick)
    /\ WF_allHttpVars(\E failing \in SUBSET Transports : CleanupInterval(failing))
    /\ WF_allHttpVars(Exit)

-----------------------------------------------------------------------------
\* Types of the map and of the transports.
HttpTypeOK ==
    /\ transports \in [Transports -> [kind: {"none", "stream", "sse"}, state: TransportState]]
    /\ sessions \subseteq Transports
    /\ lastSeenAt \in [Transports -> Nat] /\ touched \in [Transports -> Nat]
    /\ phase \in {"running", "closing", "cleared", "exited"}
    /\ log \in Seq(Nat) /\ passed \in Seq(Nat) /\ promised \in Nat /\ now \in Nat

\* Until shutdown, the map and the transports agree whatever closes a session (the
\* client, the idle timeout, a late message): a request is never handed to a
\* closed transport, and no transport that was initialised stays open outside the
\* map, where nothing would ever close it.
SessionsMatchTransports ==
    phase = "running" =>
        \A t \in Transports : t \in sessions <=> transports[t].state \in {"open", "stranded"}

\* A session whose client sent a request within the idle time is not timed out,
\* whichever of the places that look for idle sessions runs.
ActiveIsKept ==
    [][\A t \in sessions :
          (transports'[t] # transports[t] /\ transports'[t].state \in {"expired", "unclosed"})
              => now - touched[t] > IdleTtl]_allHttpVars

\* An abandoned session is collected, also one whose client left before its
\* stream was set up, and one whose transport fails to close.
AbandonedIsCollected ==
    \A t \in Transports : (t \in sessions) ~> (t \notin sessions \/ phase = "exited")
=============================================================================
