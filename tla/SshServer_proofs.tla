-------------------------- MODULE SshServer_proofs --------------------------
(***************************************************************************)
(* Proofs about the session pool, the tunnels and the server that joins    *)
(* them, for any sets of sessions, tunnels and clients, any pool size and  *)
(* any number of overlapping close calls.                                  *)
(***************************************************************************)
EXTENDS SshServer, JsMap_proofs

-----------------------------------------------------------------------------
(* The session pool. *)

\* What ties a session's entry, its connection and its calls together: only an
\* openSession that has returned leaves an entry or can be closed.
SessionsInStep ==
    /\ NoRepeats(sessions)
    /\ \A s \in Sessions :
         /\ InMap(s) => opens[s] = "returned"
         /\ opens[s] \in {"unused", "connecting", "failed"} => ssh[s] = "none"
         /\ opens[s] = "connected" => ssh[s] = "connected"
         /\ \A k \in Slots : closes[s][k] # "idle" => opens[s] = "returned"

SessionInv == SessionTypeOK /\ SessionsInStep /\ ConnectionsAccounted /\ RegisteredIsUsable

\* A step that starts close calls adds them for the sessions it names and touches
\* no other call (closeSession).
LEMMA StartClosesEffect ==
    ASSUME SessionTypeOK, NEW S, NEW caller \in Callers, StartCloses(S, caller)
    PROVE  /\ closes' \in [Sessions -> [Slots -> {"idle"} \cup Callers]]
           /\ \A s \in Sessions, k \in Slots :
                closes'[s][k] # "idle" => closes[s][k] # "idle" \/ s \in S
           /\ \A s \in Sessions, k \in Slots :
                closes[s][k] # "idle" => closes'[s][k] # "idle"
<1>0. closes \in [Sessions -> [Slots -> {"idle"} \cup Callers]] /\ "idle" \notin Callers
  BY DEF SessionTypeOK, Callers
<1>1. ASSUME NEW s \in Sessions
      PROVE  closes'[s] = IF s \in S THEN [closes[s] EXCEPT ![FreeSlot(s)] = caller] ELSE closes[s]
  BY DEF StartCloses
<1>2. ASSUME NEW s \in Sessions
      PROVE  closes'[s] \in [Slots -> {"idle"} \cup Callers]
  BY <1>0, <1>1
<1>3. closes' \in [Sessions -> [Slots -> {"idle"} \cup Callers]]
  BY <1>2 DEF StartCloses
<1>4. ASSUME NEW s \in Sessions, NEW k \in Slots
      PROVE  /\ closes'[s][k] # "idle" => closes[s][k] # "idle" \/ s \in S
             /\ closes[s][k] # "idle" => closes'[s][k] # "idle"
  BY <1>0, <1>1
<1>5. QED BY <1>3, <1>4

\* Starting close calls for sessions of the Map keeps the invariant of the pool,
\* whatever bookkeeping goes with it.
LEMMA StartClosesInv ==
    ASSUME SessionInv, NEW S, \A s \in S : InMap(s),
           StartCloses(S, "internal") \/ StartCloses(S, "user"),
           UNCHANGED <<sessions, info, opens, ssh, undisposed, now>>,
           manager' \in {"up", "closing", "destroyed"}, awaited' \subseteq Sessions \X Slots
    PROVE  SessionInv'
<1>1. /\ closes' \in [Sessions -> [Slots -> {"idle"} \cup Callers]]
      /\ \A s \in Sessions, k \in Slots :
           closes'[s][k] # "idle" => closes[s][k] # "idle" \/ s \in S
  BY StartClosesEffect DEF SessionInv, Callers
<1>2. SessionTypeOK'
  BY <1>1 DEF SessionInv, SessionTypeOK
<1>3. SessionsInStep'
  BY <1>1 DEF SessionInv, SessionsInStep, InMap, MapHas
<1>4. (ConnectionsAccounted /\ RegisteredIsUsable)'
  BY DEF SessionInv, ConnectionsAccounted, RegisteredIsUsable, InMap, MapHas
<1>5. QED BY <1>2, <1>3, <1>4 DEF SessionInv

\* The evicted session is one of the Map (evictOldestSession).
LEMMA OldestInMap ==
    ASSUME NEW s \in Oldest
    PROVE  InMap(s)
BY DEF Oldest, InMap, MapHas, Entries

\* The pool starts in its invariant.
LEMMA SessionInitInv == SessionInit => SessionInv
<1> SUFFICES ASSUME SessionInit PROVE SessionInv
  OBVIOUS
<1>1. sessions = <<>> /\ Entries(sessions) = {} /\ NoRepeats(sessions)
  BY DEF SessionInit, Entries, NoRepeats
<1>2. SessionTypeOK
  BY <1>1 DEF SessionInit, SessionTypeOK
<1>3. QED BY <1>1, <1>2 DEF SessionInit, SessionInv, SessionsInStep, ConnectionsAccounted,
                            RegisteredIsUsable, InMap, MapHas

\* Every operation of the pool keeps its invariant.
LEMMA SessionStepInv ==
    ASSUME SessionInv, [SessionNext]_<<sessionVars, now>>
    PROVE  SessionInv'
<1> USE DEF SessionInv
<1>1. ASSUME NEW s \in Sessions, NEW ttl \in 0..Ttl, OpenSession(s, ttl)
      PROVE  SessionInv'
  <2> DEFINE S == IF Len(sessions) >= MaxSessions THEN Oldest ELSE {}
  <2>1. StartCloses(S, "internal")
    BY <1>1 DEF OpenSession
  <2>2. \A x \in S : InMap(x)
    BY OldestInMap
  <2>3. /\ closes' \in [Sessions -> [Slots -> {"idle"} \cup Callers]]
        /\ \A x \in Sessions, k \in Slots :
             closes'[x][k] # "idle" => closes[x][k] # "idle" \/ x \in S
    BY <2>1, StartClosesEffect DEF Callers
  <2> HIDE DEF S
  <2>4. Expiry(ttl) \in Nat
    BY SessionAssumption DEF Expiry, SessionTypeOK
  <2>5. SessionTypeOK'
    BY <1>1, <2>3, <2>4 DEF OpenSession, SessionTypeOK
  <2>6. SessionsInStep'
    BY <1>1, <2>2, <2>3 DEF OpenSession, SessionsInStep, SessionTypeOK, InMap, MapHas
  <2>7. (ConnectionsAccounted /\ RegisteredIsUsable)'
    BY <1>1 DEF OpenSession, SessionsInStep, SessionTypeOK, ConnectionsAccounted,
                RegisteredIsUsable, InMap, MapHas
  <2>8. QED BY <2>5, <2>6, <2>7
<1>2. ASSUME NEW s \in Sessions, ConnectFails(s) \/ Connected(s)
      PROVE  SessionInv'
  <2>1. SessionTypeOK'
    BY <1>2 DEF ConnectFails, Connected, SessionTypeOK
  <2>2. SessionsInStep'
    BY <1>2 DEF ConnectFails, Connected, SessionsInStep, SessionTypeOK, InMap, MapHas
  <2>3. ASSUME NEW x \in Sessions, ssh'[x] = "connected"
        PROVE  opens'[x] = "connected" \/ InMap(x) \/ x \in undisposed
    <3>1. CASE x = s
      BY <1>2, <2>3, <3>1 DEF ConnectFails, Connected, SessionsInStep, SessionTypeOK
    <3>2. CASE x # s
      BY <1>2, <2>3, <3>2 DEF ConnectFails, Connected, SessionTypeOK, ConnectionsAccounted
    <3>3. QED BY <3>1, <3>2
  <2>4. ConnectionsAccounted'
    BY <1>2, <2>3 DEF ConnectFails, Connected, ConnectionsAccounted, InMap, MapHas
  <2>5. RegisteredIsUsable'
    BY <1>2 DEF ConnectFails, Connected, SessionTypeOK, RegisteredIsUsable, InMap, MapHas
  <2>6. QED BY <2>1, <2>2, <2>4, <2>5
<1>3. ASSUME NEW s \in Sessions, RegisterSession(s)
      PROVE  SessionInv'
  <2>1. /\ sessions' \in Seq(Sessions)
        /\ Entries(sessions') = Entries(sessions) \cup {s}
        /\ NoRepeats(sessions')
    BY <1>3, AppendEntries DEF RegisterSession, SessionTypeOK, SessionsInStep, InMap
  <2>2. SessionTypeOK'
    BY <1>3, <2>1 DEF RegisterSession, SessionTypeOK
  <2>3. SessionsInStep'
    BY <1>3, <2>1 DEF RegisterSession, SessionsInStep, SessionTypeOK, InMap, MapHas
  <2>4. (ConnectionsAccounted /\ RegisteredIsUsable)'
    BY <1>3, <2>1 DEF RegisterSession, SessionsInStep, SessionTypeOK, ConnectionsAccounted,
                      RegisteredIsUsable, InMap, MapHas
  <2>5. QED BY <2>2, <2>3, <2>4
<1>4. ASSUME NEW s \in Sessions, CloseSession(s) \/ GetExpiredSession(s)
      PROVE  SessionInv'
  <2>1. (\A x \in {s} : InMap(x)) /\ (StartCloses({s}, "internal") \/ StartCloses({s}, "user"))
    BY <1>4 DEF CloseSession, GetExpiredSession
  <2>2. /\ UNCHANGED <<sessions, info, opens, ssh, undisposed, now>>
        /\ manager' \in {"up", "closing", "destroyed"} /\ awaited' \subseteq Sessions \X Slots
    BY <1>4 DEF CloseSession, GetExpiredSession, SessionTypeOK
  <2>3. QED BY <2>1, <2>2, StartClosesInv
<1>5. ASSUME NEW s \in Sessions, GetSession(s)
      PROVE  SessionInv'
  <2>1. SessionTypeOK'
    BY <1>5 DEF GetSession, SessionTypeOK
  <2>2. (SessionsInStep /\ ConnectionsAccounted /\ RegisteredIsUsable)'
    BY <1>5 DEF GetSession, SessionsInStep, ConnectionsAccounted, RegisteredIsUsable, InMap, MapHas
  <2>3. QED BY <2>1, <2>2
<1>6. ASSUME NEW s \in Sessions, NEW k \in Slots, NEW disposed \in BOOLEAN,
             FinishClose(s, k, disposed)
      PROVE  SessionInv'
  <2>1. /\ sessions' \in Seq(Sessions)
        /\ Entries(sessions') = Entries(sessions) \ {s}
        /\ NoRepeats(sessions')
    BY <1>6, WithoutEntries DEF FinishClose, Deleted, SessionTypeOK, SessionsInStep
  <2>2. SessionTypeOK'
    BY <1>6, <2>1 DEF FinishClose, Disposed, SessionTypeOK
  <2>3. opens[s] = "returned"
    BY <1>6 DEF FinishClose, SessionsInStep, Callers
  <2>4. SessionsInStep'
    BY <1>6, <2>1, <2>3 DEF FinishClose, Disposed, SessionsInStep, SessionTypeOK, InMap, MapHas
  <2>5. ConnectionsAccounted'
    BY <1>6, <2>1 DEF FinishClose, Disposed, SessionTypeOK, ConnectionsAccounted, InMap, MapHas
  <2>6. RegisteredIsUsable'
    BY <1>6, <2>1 DEF FinishClose, Disposed, SessionTypeOK, RegisteredIsUsable, InMap, MapHas
  <2>7. QED BY <2>2, <2>4, <2>5, <2>6
<1>7. ASSUME CleanupExpiredSessions
      PROVE  SessionInv'
  <2>1. (\A x \in Expired : InMap(x)) /\ StartCloses(Expired, "internal")
    BY <1>7 DEF CleanupExpiredSessions, Expired
  <2>2. /\ UNCHANGED <<sessions, info, opens, ssh, undisposed, now>>
        /\ manager' \in {"up", "closing", "destroyed"} /\ awaited' \subseteq Sessions \X Slots
    BY <1>7 DEF CleanupExpiredSessions, SessionTypeOK
  <2>3. QED BY <2>1, <2>2, StartClosesInv
<1>8. ASSUME Destroy
      PROVE  SessionInv'
  <2> DEFINE all == {s \in Sessions : InMap(s)}
  <2>1. StartCloses(all, "internal")
    BY <1>8 DEF Destroy
  <2>2. \A s \in all : FreeSlot(s) \in Slots
    BY <2>1 DEF StartCloses, FreeSlot
  <2>3. awaited' \subseteq Sessions \X Slots
    BY <1>8, <2>2 DEF Destroy
  <2>4. QED BY <1>8, <2>1, <2>3, StartClosesInv DEF Destroy
<1>9. CASE DestroyReturns \/ SessionTick \/ UNCHANGED <<sessionVars, now>>
  <2>1. SessionTypeOK'
    BY <1>9 DEF DestroyReturns, SessionTick, sessionVars, SessionTypeOK
  <2>2. (SessionsInStep /\ ConnectionsAccounted /\ RegisteredIsUsable)'
    BY <1>9 DEF DestroyReturns, SessionTick, sessionVars, SessionsInStep, ConnectionsAccounted,
                RegisteredIsUsable, InMap, MapHas
  <2>3. QED BY <2>1, <2>2
<1>10. QED
  BY <1>1, <1>2, <1>3, <1>4, <1>5, <1>6, <1>7, <1>8, <1>9 DEF SessionNext

\* The session pool keeps its invariant however its operations overlap.
THEOREM PoolInvariant == SessionSpec => []SessionInv
<1>1. SessionInv /\ [SessionNext]_<<sessionVars, now>> => SessionInv'
  BY SessionStepInv
<1>2. QED BY <1>1, SessionInitInv, PTL DEF SessionSpec
\* No connection is lost track of (ConnectionsAccounted): evictions, expiry, the
\* timer, destroy and clients may close one session any number of times at once.
THEOREM ConnectionsAreAccounted == SessionSpec => []ConnectionsAccounted
<1>1. SessionInv => ConnectionsAccounted
  BY DEF SessionInv
<1>2. QED BY <1>1, PoolInvariant, PTL

\* getSession only ever finds live connections (RegisteredIsUsable).
THEOREM RegisteredAreUsable == SessionSpec => []RegisteredIsUsable
<1>1. SessionInv => RegisteredIsUsable
  BY DEF SessionInv
<1>2. QED BY <1>1, PoolInvariant, PTL

-----------------------------------------------------------------------------
(* The tunnels. *)

\* What ties a tunnel's entry, its handle and the closeTunnel calls together: an
\* entry is there exactly as long as the handle is not closed, and a draining
\* server has one call that will close it.
TunnelsInStep ==
    \A t \in Tunnels :
        /\ Registered(t) <=> handles[t] \in {"open", "draining"}
        /\ handles[t] = "none" <=> tunnelInfo[t].phase # "created"
        /\ tunnelInfo[t].type = "remote" => handles[t] # "draining"

\* The call whose handle.close() the local server answers when it has drained.
Drains(c, t) == calls[c].tunnel = t /\ calls[c].first /\ tunnelInfo[t].type = "local"

CallsInStep ==
    \A c \in Closers, t \in Tunnels : calls[c].tunnel = t =>
        /\ tunnelInfo[t].phase = "created"
        /\ Drains(c, t) => handles[t] = "draining"

OneCallDrains ==
    \A t \in Tunnels : \A c \in Closers : \A d \in Closers :
        Drains(c, t) /\ Drains(d, t) => c = d

HandlesInStep == NoRepeats(tunnels) /\ TunnelsInStep /\ CallsInStep /\ OneCallDrains

TunnelInv == TunnelTypeOK /\ HandlesInStep /\ TunnelGauge

\* Without calls there is nothing to say of them.
LEMMA TunnelInitInv == TunnelInit => TunnelInv
<1> SUFFICES ASSUME TunnelInit PROVE TunnelInv
  OBVIOUS
<1>1. tunnels = <<>> /\ Entries(tunnels) = {} /\ NoRepeats(tunnels) /\ Len(tunnels) = 0
  BY DEF TunnelInit, Entries, NoRepeats
<1>2. TunnelTypeOK
  BY <1>1 DEF TunnelInit, TunnelTypeOK, NoCall, Types
<1>3. \A c \in Closers : calls[c].tunnel \notin Tunnels
  BY TunnelAssumption DEF TunnelInit, NoCall
<1>4. TunnelsInStep
  BY <1>1 DEF TunnelInit, TunnelsInStep, Registered, MapHas
<1>5. CallsInStep
  BY <1>3 DEF CallsInStep
<1>6. OneCallDrains
  BY <1>3 DEF OneCallDrains, Drains
<1>7. HandlesInStep
  BY <1>1, <1>4, <1>5, <1>6 DEF HandlesInStep
<1>8. QED BY <1>1, <1>2, <1>7 DEF TunnelInit, TunnelInv, TunnelGauge

\* Every operation on tunnels keeps the invariant.
LEMMA TunnelStepInv ==
    ASSUME TunnelInv, [TunnelNext]_tunnelVars
    PROVE  TunnelInv'
<1> USE DEF TunnelInv, HandlesInStep
<1>0. UNCHANGED tunnels => (\A t : Registered(t)' <=> Registered(t))
  BY DEF Registered, MapHas
<1>1. ASSUME NEW t \in Tunnels, NEW s \in Owners, NEW type \in Types, CreateTunnel(t, s, type)
      PROVE  TunnelInv'
  <2>1. TunnelTypeOK'
    BY <1>1 DEF CreateTunnel, TunnelTypeOK
  <2>2. tunnelInfo'[t].phase = "creating" /\ \A u \in Tunnels : u # t => tunnelInfo'[u] = tunnelInfo[u]
    BY <1>1 DEF CreateTunnel, TunnelTypeOK
  <2>3. handles[t] = "none" /\ ~Registered(t)
    BY <1>1 DEF CreateTunnel, TunnelsInStep
  <2>4. \A c \in Closers : calls[c].tunnel # t
    BY <1>1 DEF CreateTunnel, CallsInStep
  <2>5. HandlesInStep'
    BY <1>0, <1>1, <2>2, <2>3, <2>4 DEF CreateTunnel, TunnelsInStep, CallsInStep, OneCallDrains, Drains
  <2>6. QED BY <1>1, <2>1, <2>5 DEF CreateTunnel, TunnelGauge
<1>2. ASSUME NEW t \in Tunnels, CreateFails(t)
      PROVE  TunnelInv'
  <2>1. TunnelTypeOK'
    BY <1>2 DEF CreateFails, TunnelTypeOK
  <2>2. tunnelInfo'[t].phase = "failed" /\ \A u \in Tunnels : u # t => tunnelInfo'[u] = tunnelInfo[u]
    BY <1>2 DEF CreateFails, TunnelTypeOK
  <2>3. handles[t] = "none" /\ ~Registered(t)
    BY <1>2 DEF CreateFails, TunnelsInStep
  <2>4. \A c \in Closers : calls[c].tunnel # t
    BY <1>2 DEF CreateFails, CallsInStep
  <2>5. HandlesInStep'
    BY <1>0, <1>2, <2>2, <2>3, <2>4 DEF CreateFails, TunnelsInStep, CallsInStep, OneCallDrains, Drains
  <2>6. QED BY <1>2, <2>1, <2>5 DEF CreateFails, TunnelGauge
<1>3. ASSUME NEW t \in Tunnels, TunnelListening(t)
      PROVE  TunnelInv'
  <2>1. handles[t] = "none" /\ ~Registered(t)
    BY <1>3 DEF TunnelListening, TunnelsInStep
  <2>2. /\ tunnels' \in Seq(Tunnels) /\ Len(tunnels') = Len(tunnels) + 1
        /\ Entries(tunnels') = Entries(tunnels) \cup {t}
        /\ NoRepeats(tunnels')
    BY <1>3, <2>1, AppendEntries DEF TunnelListening, TunnelTypeOK, Registered
  <2>3. TunnelTypeOK'
    BY <1>3, <2>2 DEF TunnelListening, RecordOpened, TunnelTypeOK
  <2>4. \A c \in Closers : calls[c].tunnel # t
    BY <1>3 DEF TunnelListening, CallsInStep
  <2>5. /\ tunnelInfo'[t].phase = "created" /\ handles'[t] = "open" /\ Registered(t)'
        /\ \A u \in Tunnels : u # t => /\ tunnelInfo'[u] = tunnelInfo[u] /\ handles'[u] = handles[u]
                                       /\ Registered(u)' <=> Registered(u)
    BY <1>3, <2>2 DEF TunnelListening, TunnelTypeOK, Registered, MapHas
  <2>6. HandlesInStep'
    BY <1>3, <2>2, <2>4, <2>5 DEF TunnelListening, TunnelsInStep, CallsInStep, OneCallDrains, Drains
  <2>7. QED BY <1>3, <2>2, <2>3, <2>6 DEF TunnelListening, RecordOpened, TunnelGauge
<1>4. ASSUME NEW c \in Closers, NEW t \in Tunnels, CloseTunnel(c, t)
      PROVE  TunnelInv'
  <2>1. TunnelTypeOK'
    BY <1>4 DEF CloseTunnel, TunnelTypeOK
  <2>2. /\ calls'[c].tunnel = t /\ calls'[c].first = (handles[t] = "open")
        /\ \A d \in Closers : d # c => calls'[d] = calls[d]
    BY <1>4 DEF CloseTunnel, TunnelTypeOK
  <2>3. /\ handles[t] \in {"open", "draining"} /\ tunnelInfo[t].phase = "created"
        /\ handles'[t] = (IF tunnelInfo[t].type = "local" THEN "draining" ELSE handles[t])
        /\ \A u \in Tunnels : u # t => handles'[u] = handles[u]
    BY <1>4 DEF CloseTunnel, TunnelTypeOK, TunnelsInStep
  <2>4. TunnelsInStep'
    BY <1>0, <1>4, <2>3 DEF CloseTunnel, TunnelsInStep
  <2>5. CallsInStep'
    BY <1>4, <2>2, <2>3 DEF CloseTunnel, CallsInStep, Drains
  <2>6. OneCallDrains'
    <3>1. \A f \in Closers, u \in Tunnels : f # c => (Drains(f, u)' <=> Drains(f, u))
      BY <1>4, <2>2 DEF CloseTunnel, Drains
    <3>2. \A u \in Tunnels : Drains(c, u)' => u = t /\ handles[t] = "open"
      BY <2>2 DEF Drains
    <3>3. \A f \in Closers : Drains(f, t) => handles[t] = "draining"
      BY DEF CallsInStep, Drains
    <3>4. QED BY <3>1, <3>2, <3>3 DEF OneCallDrains
  <2>7. QED BY <1>4, <2>1, <2>4, <2>5, <2>6 DEF CloseTunnel, TunnelGauge
<1>5. ASSUME NEW c \in Closers, TunnelClosed(c)
      PROVE  TunnelInv'
  <2>0. PICK t \in Tunnels : t = calls[c].tunnel
    BY <1>5 DEF TunnelClosed
  <2>1. t \in Tunnels /\ handles[t] \in {"open", "draining"} /\ Registered(t)
    BY <1>5, <2>0 DEF TunnelClosed, HandleCloses, TunnelTypeOK, Types, TunnelsInStep, CallsInStep,
                        Drains
  <2>2. /\ tunnels' \in Seq(Tunnels) /\ Len(tunnels') = Len(tunnels) - 1
        /\ Entries(tunnels') = Entries(tunnels) \ {t}
        /\ NoRepeats(tunnels')
    BY <1>5, <2>0, <2>1, WithoutEntries, WithoutLength
       DEF TunnelClosed, TunnelTypeOK, Registered
  <2>3. active' \in Nat /\ active' = Len(tunnels')
    BY <1>5, <2>2 DEF TunnelClosed, RecordClosed, TunnelGauge, TunnelTypeOK
  <2>4. TunnelTypeOK'
    BY <1>5, <2>2, <2>3 DEF TunnelClosed, TunnelTypeOK, NoCall
  <2>5. /\ calls'[c].tunnel \notin Tunnels /\ \A d \in Closers : d # c => calls'[d] = calls[d]
        /\ handles'[t] = "closed" /\ \A u \in Tunnels : u # t => handles'[u] = handles[u]
        /\ UNCHANGED tunnelInfo
    BY <1>5, <2>0, TunnelAssumption DEF TunnelClosed, TunnelTypeOK, NoCall
  <2>6. ~Registered(t)' /\ \A u \in Tunnels : u # t => (Registered(u)' <=> Registered(u))
    BY <2>2 DEF Registered, MapHas
  <2>7. tunnelInfo[t].type = "local" => calls[c].first
    BY <1>5, <2>0 DEF TunnelClosed, HandleCloses
  <2>8. /\ \A d \in Closers : ~Drains(d, t)'
        /\ \A d \in Closers, u \in Tunnels : Drains(d, u)' => Drains(d, u)
    BY <2>0, <2>5, <2>7 DEF OneCallDrains, Drains
  <2>9. TunnelsInStep'
    BY <2>1, <2>5, <2>6 DEF TunnelsInStep
  <2>10. CallsInStep'
    BY <2>5, <2>8 DEF CallsInStep
  <2>11. OneCallDrains'
    BY <2>8 DEF OneCallDrains
  <2>12. QED BY <2>2, <2>3, <2>4, <2>9, <2>10, <2>11 DEF TunnelGauge
<1>6. ASSUME NEW c \in Closers, TunnelCloseFails(c)
      PROVE  TunnelInv'
  <2>1. TunnelTypeOK'
    BY <1>6 DEF TunnelCloseFails, TunnelTypeOK, NoCall
  <2>2. calls'[c].tunnel \notin Tunnels /\ \A d \in Closers : d # c => calls'[d] = calls[d]
    BY <1>6, TunnelAssumption DEF TunnelCloseFails, TunnelTypeOK, NoCall
  <2>3. TunnelsInStep'
    BY <1>0, <1>6 DEF TunnelCloseFails, TunnelsInStep
  <2>4. CallsInStep' /\ OneCallDrains'
    BY <1>6, <2>2 DEF TunnelCloseFails, CallsInStep, OneCallDrains, Drains
  <2>5. QED BY <1>6, <2>1, <2>3, <2>4 DEF TunnelCloseFails, TunnelGauge
<1>7. CASE UNCHANGED tunnelVars
  <2>1. TunnelTypeOK' /\ TunnelsInStep' /\ CallsInStep' /\ TunnelGauge'
    BY <1>0, <1>7 DEF tunnelVars, TunnelTypeOK, TunnelsInStep, CallsInStep, Drains, TunnelGauge
  <2>2. OneCallDrains'
    BY <1>7 DEF tunnelVars, OneCallDrains, Drains
  <2>3. QED BY <1>7, <2>1, <2>2 DEF tunnelVars
<1>8. QED BY <1>1, <1>2, <1>3, <1>4, <1>5, <1>6, <1>7 DEF TunnelNext

\* The tunnels keep their invariant however their calls overlap.
THEOREM TunnelInvariant == TunnelSpec => []TunnelInv
<1>1. TunnelInv /\ [TunnelNext]_tunnelVars => TunnelInv'
  BY TunnelStepInv
<1>2. QED BY <1>1, TunnelInitInv, PTL DEF TunnelSpec

-----------------------------------------------------------------------------
(* The server: the parts keep working as they do alone. *)

\* Every step of the server is a step of the session pool or leaves it alone.
LEMMA ServerStepOfPool ==
    ASSUME [ServerNext]_serverVars
    PROVE  [SessionNext]_<<sessionVars, now>>
<1>1. CASE SessionStep
  BY <1>1 DEF SessionStep, SessionNext
<1>2. CASE \E s \in Sessions : SessionOpened(s)
  BY <1>2 DEF SessionOpened, SessionNext
<1>3. CASE \E s \in Sessions, k \in Slots, disposed \in BOOLEAN : SessionClosed(s, k, disposed)
  BY <1>3 DEF SessionClosed, SessionNext
<1>4. CASE \E t \in Tunnels, s \in Sessions, type \in Types : OpenTunnel(t, s, type)
  BY <1>4 DEF OpenTunnel, SessionNext
<1>5. CASE \E t \in Tunnels : TunnelOpened(t) \/ OpenTunnelFails(t)
  BY <1>5 DEF TunnelOpened, OpenTunnelFails
<1>6. CASE \/ \E u \in Users, t \in Tunnels : UserClosesTunnel(u, t)
           \/ \E u \in Users : UserCallEnds(u)
  BY <1>6 DEF UserClosesTunnel, UserCallEnds
<1>7. CASE \E r \in Runs : ListenerNext(r) \/ ListenerCallEnds(r) \/ ListenerDone(r)
  BY <1>7 DEF ListenerNext, ListenerCallEnds, ListenerDone
<1>8. CASE UNCHANGED serverVars
  BY <1>8 DEF serverVars
<1>9. QED BY <1>1, <1>2, <1>3, <1>4, <1>5, <1>6, <1>7, <1>8 DEF ServerNext

\* The listeners close tunnels of their own snapshot.
ListenersTyped ==
    listeners \in [Runs -> [phase: {"idle", "running", "done", "threw"},
                            todo: Seq(Tunnels), snapshot: SUBSET Tunnels]]

\* Every step of the server is a step of the tunnels or leaves them alone.
LEMMA ServerStepOfTunnels ==
    ASSUME ListenersTyped, [ServerNext]_serverVars
    PROVE  [TunnelNext]_tunnelVars
<1>1. CASE SessionStep
  BY <1>1 DEF SessionStep
<1>2. CASE \E s \in Sessions : SessionOpened(s)
  BY <1>2 DEF SessionOpened
<1>3. CASE \E s \in Sessions, k \in Slots, disposed \in BOOLEAN : SessionClosed(s, k, disposed)
  BY <1>3 DEF SessionClosed
<1>4. CASE \E t \in Tunnels, s \in Sessions, type \in Types : OpenTunnel(t, s, type)
  BY <1>4, ServerAssumption DEF OpenTunnel, TunnelNext
<1>5. CASE \E t \in Tunnels : TunnelOpened(t) \/ OpenTunnelFails(t)
  BY <1>5 DEF TunnelOpened, OpenTunnelFails, TunnelNext
<1>6. CASE \/ \E u \in Users, t \in Tunnels : UserClosesTunnel(u, t)
           \/ \E u \in Users : UserCallEnds(u)
  BY <1>6, ServerAssumption DEF UserClosesTunnel, UserCallEnds, TunnelNext
<1>7. ASSUME NEW r \in Runs, ListenerNext(r)
      PROVE  [TunnelNext]_tunnelVars
  <2>1. r \in Closers /\ listeners[r].todo \in Seq(Tunnels) /\ listeners[r].todo # <<>>
    BY <1>7, ServerAssumption DEF ListenersTyped, ListenerNext
  <2>2. Head(listeners[r].todo) \in Tunnels
    BY <2>1
  <2>3. QED BY <1>7, <2>1, <2>2 DEF ListenerNext, TunnelNext
<1>8. ASSUME NEW r \in Runs, ListenerCallEnds(r) \/ ListenerDone(r)
      PROVE  [TunnelNext]_tunnelVars
  BY <1>8, ServerAssumption DEF ListenerCallEnds, ListenerDone, TunnelNext
<1>9. CASE UNCHANGED serverVars
  BY <1>9 DEF serverVars
<1>10. QED BY <1>1, <1>2, <1>3, <1>4, <1>5, <1>6, <1>7, <1>8, <1>9 DEF ServerNext

\* What ties a close call, its listener and the calls of the listener together.  A
\* slot is never used twice: once a close call has returned its session is gone
\* from the Map for good.
RunsInStep ==
    \A s \in Sessions, k \in Slots :
        LET l == listeners[<<s, k>>]
        IN /\ l.phase = "idle" => calls[<<s, k>>] = NoCall
           /\ l.phase # "idle" => /\ opens[s] = "returned"
                                  /\ closes[s][k] = "idle" => ~InMap(s)
           /\ l.phase = "done" => l.todo = <<>> /\ calls[<<s, k>>] = NoCall

\* While a listener has not thrown, each tunnel of its snapshot is closed, still to
\* be taken from the list or being closed.
SnapshotCovered(r) ==
    listeners[r].phase \in {"running", "done"} =>
        \A t \in listeners[r].snapshot :
            /\ handles[t] # "none"
            /\ Registered(t) => t \in Entries(listeners[r].todo) \/ calls[r].tunnel = t

SnapshotInStep == \A r \in Runs : SnapshotCovered(r)

ServerInv ==
    /\ SessionInv /\ TunnelInv
    /\ ListenersTyped /\ sessionGauge \in Nat
    /\ RunsInStep /\ SnapshotInStep

\* The list a close listener works through is the session's tunnels (listTunnels).
LEMMA ListTunnelsEntries ==
    ASSUME TunnelTypeOK, NEW s
    PROVE  ListTunnels(s) \in Seq(Tunnels) /\ Entries(ListTunnels(s)) = OpenTunnels(s)
<1> DEFINE S == {t \in Tunnels : tunnelInfo[t].session = s}
<1>1. tunnels \in Seq(Tunnels) /\ Entries(tunnels) \subseteq Tunnels
  BY DEF TunnelTypeOK, Entries
<1>2. ListTunnels(s) \in Seq(Tunnels) /\ Entries(ListTunnels(s)) = Entries(tunnels) \cap S
  BY <1>1, KeptEntries DEF ListTunnels
<1>3. QED BY <1>1, <1>2 DEF OpenTunnels, Registered, MapHas

\* Of a list, taking the first entry leaves the others.
LEMMA TailEntries ==
    ASSUME NEW K, NEW seq \in Seq(K), seq # <<>>
    PROVE  /\ Head(seq) \in K /\ Tail(seq) \in Seq(K)
           /\ Entries(seq) = {Head(seq)} \cup Entries(Tail(seq))
<1>1. Len(seq) \in Nat \ {0} /\ Tail(seq) \in Seq(K) /\ Len(Tail(seq)) = Len(seq) - 1
  OBVIOUS
<1>2. \A i \in 1..Len(Tail(seq)) : Tail(seq)[i] = seq[i + 1] /\ i + 1 \in 1..Len(seq)
  BY <1>1
<1>3. \A i \in 1..Len(seq) : i = 1 \/ (i - 1 \in 1..Len(Tail(seq)) /\ seq[i] = Tail(seq)[i - 1])
  BY <1>1
<1>4. Head(seq) = seq[1] /\ 1 \in 1..Len(seq) /\ Head(seq) \in K
  BY <1>1
<1>5. Entries(seq) \subseteq {Head(seq)} \cup Entries(Tail(seq))
  BY <1>3, <1>4 DEF Entries
<1>6. {Head(seq)} \cup Entries(Tail(seq)) \subseteq Entries(seq)
  BY <1>2, <1>4 DEF Entries
<1>7. QED BY <1>1, <1>4, <1>5, <1>6

\* A tunnel that was opened is never opened again: a step leaves its handle closed
\* and its entry gone if they are.
LEMMA TunnelStepForward ==
    ASSUME TunnelInv, [TunnelNext]_tunnelVars, NEW t \in Tunnels, handles[t] # "none"
    PROVE  handles'[t] # "none" /\ (Registered(t)' => Registered(t))
<1>0. TunnelInv'
  BY TunnelStepInv
<1>1. Registered(t) <=> handles[t] \in {"open", "draining"}
  BY DEF TunnelInv, HandlesInStep, TunnelsInStep
<1>2. Registered(t)' <=> handles'[t] \in {"open", "draining"}
  BY <1>0 DEF TunnelInv, HandlesInStep, TunnelsInStep
<1>3. handles'[t] = handles[t] \/ (handles'[t] = "draining" /\ Registered(t)) \/ handles'[t] = "closed"
  <2> handles \in [Tunnels -> {"none", "open", "draining", "closed"}]
    BY DEF TunnelInv, TunnelTypeOK
  <2>1. ASSUME NEW u \in Tunnels, NEW s \in Owners, NEW type \in Types, CreateTunnel(u, s, type)
        PROVE  handles'[t] = handles[t]
    BY <2>1 DEF CreateTunnel
  <2>2. ASSUME NEW u \in Tunnels, CreateFails(u)
        PROVE  handles'[t] = handles[t]
    BY <2>2 DEF CreateFails
  <2>3. ASSUME NEW u \in Tunnels, TunnelListening(u)
        PROVE  handles'[t] = handles[t]
    <3>1. u # t
      BY <2>3 DEF TunnelListening, TunnelInv, HandlesInStep, TunnelsInStep
    <3>2. QED BY <2>3, <3>1 DEF TunnelListening
  <2>4. ASSUME NEW c \in Closers, NEW u \in Tunnels, CloseTunnel(c, u)
        PROVE  handles'[t] = handles[t] \/ (handles'[t] = "draining" /\ Registered(t))
    BY <2>4 DEF CloseTunnel
  <2>5. ASSUME NEW c \in Closers, TunnelClosed(c)
        PROVE  handles'[t] = handles[t] \/ handles'[t] = "closed"
    BY <2>5 DEF TunnelClosed
  <2>6. ASSUME NEW c \in Closers, TunnelCloseFails(c)
        PROVE  handles'[t] = handles[t]
    BY <2>6 DEF TunnelCloseFails
  <2>7. CASE UNCHANGED tunnelVars
    BY <2>7 DEF tunnelVars
  <2>8. QED BY <2>1, <2>2, <2>3, <2>4, <2>5, <2>6, <2>7 DEF TunnelNext
<1>4. QED BY <1>1, <1>2, <1>3

\* What the steps that can start close calls do to the pool.
LEMMA SessionStepEffect ==
    ASSUME SessionInv, SessionStep
    PROVE  /\ sessions' = sessions
           /\ \A s \in Sessions : opens[s] = "returned" => opens'[s] = "returned"
           /\ \A s \in Sessions, k \in Slots :
                /\ closes[s][k] # "idle" => closes'[s][k] # "idle"
                /\ closes[s][k] = "idle" /\ closes'[s][k] # "idle" => InMap(s)
<1> DEFINE Starts(S) == StartCloses(S, "internal") \/ StartCloses(S, "user")
<1>1. ASSUME NEW S, \A s \in S : InMap(s), Starts(S)
      PROVE  \A s \in Sessions, k \in Slots :
                /\ closes[s][k] # "idle" => closes'[s][k] # "idle"
                /\ closes[s][k] = "idle" /\ closes'[s][k] # "idle" => InMap(s)
  BY <1>1, StartClosesEffect DEF SessionInv, Callers
<1> HIDE DEF Starts
<1>2. ASSUME NEW s \in Sessions, NEW ttl \in 0..Ttl, OpenSession(s, ttl)
      PROVE  /\ sessions' = sessions
             /\ \A x \in Sessions : opens[x] = "returned" => opens'[x] = "returned"
             /\ \E S : (\A x \in S : InMap(x)) /\ Starts(S)
  BY <1>2, OldestInMap DEF OpenSession, SessionInv, SessionTypeOK, Starts
<1>3. ASSUME NEW s \in Sessions, CloseSession(s) \/ GetExpiredSession(s)
      PROVE  /\ sessions' = sessions /\ opens' = opens
             /\ \E S : (\A x \in S : InMap(x)) /\ Starts(S)
  <2>1. (\A x \in {s} : InMap(x)) /\ Starts({s})
    BY <1>3 DEF CloseSession, GetExpiredSession, Starts
  <2>2. sessions' = sessions /\ opens' = opens
    BY <1>3 DEF CloseSession, GetExpiredSession
  <2>3. QED BY <2>1, <2>2
<1>4. ASSUME CleanupExpiredSessions
      PROVE  /\ sessions' = sessions /\ opens' = opens
             /\ \E S : (\A x \in S : InMap(x)) /\ Starts(S)
  <2>1. (\A x \in Expired : InMap(x)) /\ Starts(Expired)
    BY <1>4 DEF CleanupExpiredSessions, Expired, Starts
  <2>2. QED BY <1>4, <2>1 DEF CleanupExpiredSessions
<1>5. ASSUME Destroy
      PROVE  /\ sessions' = sessions /\ opens' = opens
             /\ \E S : (\A x \in S : InMap(x)) /\ Starts(S)
  <2> DEFINE all == {s \in Sessions : InMap(s)}
  <2>1. (\A x \in all : InMap(x)) /\ Starts(all)
    BY <1>5 DEF Destroy, Starts
  <2>2. QED BY <1>5, <2>1 DEF Destroy
<1>6. ASSUME NEW s \in Sessions, ConnectFails(s) \/ Connected(s) \/ GetSession(s)
      PROVE  /\ sessions' = sessions /\ closes' = closes
             /\ \A x \in Sessions : opens[x] = "returned" => opens'[x] = "returned"
  BY <1>6 DEF ConnectFails, Connected, GetSession, SessionInv, SessionTypeOK
<1>7. ASSUME DestroyReturns \/ SessionTick
      PROVE  sessions' = sessions /\ closes' = closes /\ opens' = opens
  BY <1>7 DEF DestroyReturns, SessionTick, sessionVars
<1>8. CASE \/ \E s \in Sessions, ttl \in 0..Ttl : OpenSession(s, ttl)
           \/ \E s \in Sessions : CloseSession(s) \/ GetExpiredSession(s)
           \/ CleanupExpiredSessions \/ Destroy
  <2>1. /\ sessions' = sessions
        /\ \A s \in Sessions : opens[s] = "returned" => opens'[s] = "returned"
        /\ \E S : (\A s \in S : InMap(s)) /\ Starts(S)
    BY <1>2, <1>3, <1>4, <1>5, <1>8
  <2>2. QED BY <1>1, <2>1
<1>9. CASE \/ \E s \in Sessions : ConnectFails(s) \/ Connected(s) \/ GetSession(s)
           \/ DestroyReturns \/ SessionTick
  BY <1>6, <1>7, <1>9
<1>10. QED BY <1>8, <1>9 DEF SessionStep

\* A step that touches neither a listener nor its call keeps its snapshot covered,
\* whatever happens to the tunnels.
LEMMA OtherStepsInStep ==
    ASSUME ServerInv, [TunnelNext]_tunnelVars,
           NEW r \in Runs, listeners'[r] = listeners[r], calls'[r] = calls[r]
    PROVE  SnapshotCovered(r)'
<1> SUFFICES ASSUME listeners[r].phase \in {"running", "done"}, NEW t \in listeners[r].snapshot
             PROVE  /\ handles'[t] # "none"
                    /\ Registered(t)' => t \in Entries(listeners[r].todo) \/ calls[r].tunnel = t
  BY DEF SnapshotCovered
<1>1. t \in Tunnels
  BY DEF ServerInv, ListenersTyped
<1>2. /\ handles[t] # "none"
      /\ Registered(t) => t \in Entries(listeners[r].todo) \/ calls[r].tunnel = t
  BY DEF ServerInv, SnapshotInStep, SnapshotCovered
<1>3. QED BY <1>1, <1>2, TunnelStepForward DEF ServerInv

\* A step that changes the pool only as far as sessions leave it, and neither
\* listeners nor their calls, keeps the calls in step.
LEMMA OtherStepsRuns ==
    ASSUME ServerInv, UNCHANGED <<listeners, opens, closes>>,
           \A r \in Runs : calls'[r] = calls[r],
           Entries(sessions') \subseteq Entries(sessions)
    PROVE  RunsInStep'
<1>1. \A s \in Sessions : InMap(s)' => InMap(s)
  BY DEF InMap, MapHas
<1>2. \A s \in Sessions, k \in Slots : <<s, k>> \in Runs
  BY DEF Runs
<1>3. QED BY <1>1, <1>2 DEF ServerInv, RunsInStep

\* The server starts in its invariant.
LEMMA ServerInitInv == ServerInit => ServerInv
<1> SUFFICES ASSUME ServerInit PROVE ServerInv
  OBVIOUS
<1>1. SessionInv /\ TunnelInv
  BY SessionInitInv, TunnelInitInv DEF ServerInit
<1>2. \A r \in Runs : listeners[r] = Idle /\ calls[r] = NoCall
  BY ServerAssumption DEF ServerInit, TunnelInit
<1>3. ListenersTyped /\ sessionGauge \in Nat
  BY DEF ServerInit, ListenersTyped, Idle
<1>4. \A s \in Sessions, k \in Slots : <<s, k>> \in Runs
  BY DEF Runs
<1>5. RunsInStep
  <2>1. \A r \in Runs : listeners[r].phase = "idle" /\ calls[r] = NoCall
    BY <1>2 DEF Idle
  <2>2. \A s \in Sessions, k \in Slots :
          listeners[<<s, k>>].phase = "idle" /\ calls[<<s, k>>] = NoCall
    BY <1>4, <2>1
  <2>3. QED BY <2>2 DEF RunsInStep
<1>6. SnapshotInStep
  BY <1>2 DEF SnapshotInStep, SnapshotCovered, Idle
<1>7. QED BY <1>1, <1>3, <1>5, <1>6 DEF ServerInv

\* Every step of the server keeps its invariant.
LEMMA ServerStepInv ==
    ASSUME ServerInv, [ServerNext]_serverVars
    PROVE  ServerInv'
<1>1. SessionInv' /\ TunnelInv' /\ [TunnelNext]_tunnelVars
  BY ServerStepOfPool, ServerStepOfTunnels, SessionStepInv, TunnelStepInv DEF ServerInv
<1>2. \A s \in Sessions, k \in Slots : <<s, k>> \in Runs
  BY DEF Runs
<1>3. Runs \subseteq Closers /\ \A u \in Users : u \notin Runs
  BY ServerAssumption
<1>4. calls \in [Closers -> [tunnel: Tunnels \cup {NoTunnel}, first: BOOLEAN]]
  BY DEF ServerInv, TunnelInv, TunnelTypeOK
<1> SUFFICES ListenersTyped' /\ sessionGauge' \in Nat /\ RunsInStep' /\ SnapshotInStep'
  BY <1>1 DEF ServerInv
<1>5. CASE SessionStep
  <2>1. /\ sessions' = sessions
        /\ \A s \in Sessions : opens[s] = "returned" => opens'[s] = "returned"
        /\ \A s \in Sessions, k \in Slots :
             /\ closes[s][k] # "idle" => closes'[s][k] # "idle"
             /\ closes[s][k] = "idle" /\ closes'[s][k] # "idle" => InMap(s)
    BY <1>5, SessionStepEffect DEF ServerInv
  <2>2. UNCHANGED <<tunnelVars, sessionGauge>> /\ StartListeners
    BY <1>5 DEF SessionStep
  <2> DEFINE New(s) == [phase |-> "running", todo |-> ListTunnels(s), snapshot |-> OpenTunnels(s)]
             Starts(s, k) == closes[s][k] = "idle" /\ closes'[s][k] # "idle"
  <2>3. ASSUME NEW s \in Sessions, NEW k \in Slots
        PROVE  listeners'[<<s, k>>] = IF Starts(s, k) THEN New(s) ELSE listeners[<<s, k>>]
    BY <1>2, <2>2 DEF StartListeners
  <2>4. ASSUME NEW s \in Sessions
        PROVE  /\ New(s) \in [phase: {"idle", "running", "done", "threw"},
                              todo: Seq(Tunnels), snapshot: SUBSET Tunnels]
               /\ Entries(ListTunnels(s)) = OpenTunnels(s)
    BY ListTunnelsEntries DEF ServerInv, TunnelInv, OpenTunnels
  <2>5. \A t : Registered(t)' <=> Registered(t)
    BY <2>2 DEF tunnelVars, Registered, MapHas
  <2>6. ASSUME NEW s \in Sessions, NEW t \in OpenTunnels(s)
        PROVE  handles[t] # "none"
    BY DEF OpenTunnels, ServerInv, TunnelInv, HandlesInStep, TunnelsInStep
  <2>n. \A s : /\ New(s).phase = "running"
               /\ New(s).todo = ListTunnels(s) /\ New(s).snapshot = OpenTunnels(s)
    OBVIOUS
  <2> HIDE DEF Starts, New
  <2>7. ListenersTyped'
    <3>1. ASSUME NEW r \in Runs
          PROVE  listeners'[r] \in [phase: {"idle", "running", "done", "threw"},
                                    todo: Seq(Tunnels), snapshot: SUBSET Tunnels]
      <4>1. PICK s \in Sessions, k \in Slots : r = <<s, k>>
        BY DEF Runs
      <4>2. listeners[r] \in [phase: {"idle", "running", "done", "threw"},
                              todo: Seq(Tunnels), snapshot: SUBSET Tunnels]
        BY DEF ServerInv, ListenersTyped
      <4>3. QED BY <2>3, <2>4, <4>1, <4>2
    <3>2. QED BY <2>2, <3>1 DEF StartListeners, ListenersTyped
  <2>8. RunsInStep'
    <3> SUFFICES ASSUME NEW s \in Sessions, NEW k \in Slots
                 PROVE  LET l == listeners'[<<s, k>>]
                        IN /\ l.phase = "idle" => calls'[<<s, k>>] = NoCall
                           /\ l.phase # "idle" => /\ opens'[s] = "returned"
                                                  /\ closes'[s][k] = "idle" => ~InMap(s)'
                           /\ l.phase = "done" => l.todo = <<>> /\ calls'[<<s, k>>] = NoCall
      BY DEF RunsInStep
    <3>1. calls' = calls /\ (InMap(s)' <=> InMap(s))
      BY <2>1, <2>2 DEF tunnelVars, InMap, MapHas
    <3>2. CASE Starts(s, k)
      <4>1. InMap(s) /\ opens'[s] = "returned" /\ closes'[s][k] # "idle"
        BY <2>1, <3>2 DEF Starts, ServerInv, SessionInv, SessionsInStep
      <4>2. listeners'[<<s, k>>].phase = "running"
        BY <2>3, <2>n, <3>2
      <4>3. QED BY <4>1, <4>2
    <3>3. CASE ~Starts(s, k)
      <4>1. listeners'[<<s, k>>] = listeners[<<s, k>>]
        BY <2>3, <3>3
      <4>2. closes'[s][k] = "idle" => closes[s][k] = "idle"
        BY <2>1
      <4>3. QED BY <2>1, <3>1, <4>1, <4>2 DEF ServerInv, RunsInStep
    <3>4. QED BY <3>2, <3>3
  <2>9. SnapshotInStep'
    <3> SUFFICES ASSUME NEW r \in Runs, listeners'[r].phase \in {"running", "done"},
                        NEW t \in listeners'[r].snapshot
                 PROVE  /\ handles'[t] # "none"
                        /\ Registered(t)' => t \in Entries(listeners'[r].todo) \/ calls'[r].tunnel = t
      BY DEF SnapshotInStep, SnapshotCovered
    <3>1. PICK s \in Sessions, k \in Slots : r = <<s, k>>
      BY DEF Runs
    <3>2. handles' = handles /\ calls' = calls
      BY <2>2 DEF tunnelVars
    <3>3. CASE Starts(s, k)
      <4>1. listeners'[r].todo = ListTunnels(s) /\ listeners'[r].snapshot = OpenTunnels(s)
        BY <2>3, <2>n, <3>1, <3>3
      <4>2. QED BY <2>4, <2>6, <3>2, <4>1
    <3>4. CASE ~Starts(s, k)
      <4>1. listeners'[r] = listeners[r]
        BY <2>3, <3>1, <3>4
      <4>2. QED BY <2>5, <3>2, <4>1 DEF ServerInv, SnapshotInStep, SnapshotCovered
    <3>5. QED BY <3>3, <3>4
  <2>10. QED BY <2>2, <2>7, <2>8, <2>9 DEF ServerInv
<1>6. ASSUME NEW s \in Sessions, SessionOpened(s)
      PROVE  ListenersTyped' /\ sessionGauge' \in Nat /\ RunsInStep' /\ SnapshotInStep'
  <2>1. /\ UNCHANGED <<tunnelVars, listeners>> /\ calls' = calls /\ sessionGauge' \in Nat
        /\ opens[s] = "connected" /\ closes' = closes
        /\ opens' = [opens EXCEPT ![s] = "returned"]
    BY <1>6 DEF SessionOpened, RegisterSession, tunnelVars, ServerInv
  <2>2. \A x \in Sessions : x # s => (InMap(x)' <=> InMap(x))
    BY <1>6, AppendEntries
       DEF SessionOpened, RegisterSession, ServerInv, SessionInv, SessionTypeOK, InMap, MapHas
  <2>3. \A k \in Slots : listeners[<<s, k>>].phase = "idle"
    BY <2>1 DEF ServerInv, RunsInStep
  <2>4. opens \in [Sessions -> {"unused", "connecting", "connected", "returned", "failed"}]
    BY DEF ServerInv, SessionInv, SessionTypeOK
  <2>5. RunsInStep'
    BY <2>1, <2>2, <2>3, <2>4 DEF ServerInv, RunsInStep
  <2>6. QED BY <1>1, <2>1, <2>5, OtherStepsInStep DEF ServerInv, ListenersTyped, SnapshotInStep
<1>7. ASSUME NEW s \in Sessions, NEW k \in Slots, NEW disposed \in BOOLEAN,
             SessionClosed(s, k, disposed)
      PROVE  ListenersTyped' /\ sessionGauge' \in Nat /\ RunsInStep' /\ SnapshotInStep'
  <2>1. /\ UNCHANGED <<tunnelVars, listeners>> /\ calls' = calls /\ opens' = opens
        /\ closes' = [closes EXCEPT ![s][k] = "idle"]
    BY <1>7 DEF SessionClosed, FinishClose, tunnelVars
  <2>2. sessionGauge' \in Nat
    BY <1>7 DEF SessionClosed, GaugeDown, ServerInv
  <2>3. ~InMap(s)' /\ \A x \in Sessions : InMap(x)' => InMap(x)
    BY <1>7, WithoutEntries DEF SessionClosed, FinishClose, Deleted, ServerInv, SessionInv,
                                SessionTypeOK, InMap, MapHas
  <2>4. \A x \in Sessions, j \in Slots : x # s => closes'[x][j] = closes[x][j]
    BY <2>1 DEF ServerInv, SessionInv, SessionTypeOK
  <2>5. RunsInStep'
    <3>1. ASSUME NEW j \in Slots
          PROVE  LET l == listeners[<<s, j>>]
                 IN /\ l.phase = "idle" => calls[<<s, j>>] = NoCall
                    /\ l.phase # "idle" => opens[s] = "returned"
                    /\ l.phase = "done" => l.todo = <<>> /\ calls[<<s, j>>] = NoCall
      BY DEF ServerInv, RunsInStep
    <3>2. ASSUME NEW x \in Sessions, NEW j \in Slots, x # s
          PROVE  LET l == listeners[<<x, j>>]
                 IN /\ l.phase = "idle" => calls[<<x, j>>] = NoCall
                    /\ l.phase # "idle" => /\ opens[x] = "returned"
                                           /\ closes'[x][j] = "idle" => ~InMap(x)'
                    /\ l.phase = "done" => l.todo = <<>> /\ calls[<<x, j>>] = NoCall
      BY <2>3, <2>4, <3>2 DEF ServerInv, RunsInStep
    <3>3. QED BY <2>1, <2>3, <3>1, <3>2 DEF RunsInStep
  <2>6. QED BY <1>1, <2>1, <2>2, <2>5, OtherStepsInStep DEF ServerInv, ListenersTyped, SnapshotInStep
<1>8. ASSUME \/ \E t \in Tunnels, s \in Sessions, type \in Types : OpenTunnel(t, s, type)
             \/ \E t \in Tunnels : TunnelOpened(t) \/ OpenTunnelFails(t)
             \/ \E u \in Users, t \in Tunnels : UserClosesTunnel(u, t)
             \/ \E u \in Users : UserCallEnds(u)
             \/ UNCHANGED serverVars
      PROVE  ListenersTyped' /\ sessionGauge' \in Nat /\ RunsInStep' /\ SnapshotInStep'
  <2>1. UNCHANGED <<listeners, sessionGauge, sessions, opens, closes>>
    BY <1>8 DEF OpenTunnel, GetSession, TunnelOpened, OpenTunnelFails, UserClosesTunnel,
                UserCallEnds, sessionVars, serverVars
  <2>2. \A r \in Runs : calls'[r] = calls[r]
    BY <1>3, <1>4, <1>8
       DEF OpenTunnel, CreateTunnel, TunnelOpened, TunnelListening, OpenTunnelFails, CreateFails,
           UserClosesTunnel, CloseTunnel, UserCallEnds, TunnelClosed, TunnelCloseFails,
           serverVars, tunnelVars
  <2>3. RunsInStep' /\ SnapshotInStep'
    BY <1>1, <2>1, <2>2, OtherStepsInStep, OtherStepsRuns DEF SnapshotInStep
  <2>4. QED BY <2>1, <2>3 DEF ServerInv, ListenersTyped
<1>9. ASSUME NEW r \in Runs, ListenerNext(r) \/ ListenerCallEnds(r) \/ ListenerDone(r)
      PROVE  ListenersTyped' /\ sessionGauge' \in Nat /\ RunsInStep' /\ SnapshotInStep'
  <2>1. UNCHANGED <<sessionGauge, sessions, opens, closes>>
    BY <1>9 DEF ListenerNext, ListenerCallEnds, ListenerDone, sessionVars
  <2>2. \A q \in Runs : q # r => listeners'[q] = listeners[q] /\ calls'[q] = calls[q]
    <3>1. \A q \in Runs : q # r => listeners'[q] = listeners[q]
      BY <1>9 DEF ListenerNext, ListenerCallEnds, ListenerDone, ServerInv, ListenersTyped
    <3>2. CASE ListenerNext(r)
      BY <1>3, <1>4, <3>1, <3>2 DEF ListenerNext, CloseTunnel, tunnelVars
    <3>3. CASE ListenerCallEnds(r) \/ ListenerDone(r)
      BY <1>3, <1>4, <3>1, <3>3
         DEF ListenerCallEnds, TunnelClosed, TunnelCloseFails, ListenerDone, tunnelVars
    <3>4. QED BY <1>9, <3>2, <3>3
  <2>3. PICK s \in Sessions, k \in Slots : r = <<s, k>>
    BY DEF Runs
  <2> DEFINE l == listeners[r]
             m == listeners'[r]
             Type == [phase: {"idle", "running", "done", "threw"},
                      todo: Seq(Tunnels), snapshot: SUBSET Tunnels]
  <2>4. l \in Type /\ listeners \in [Runs -> Type]
    BY DEF ServerInv, ListenersTyped
  <2>5. /\ m \in Type /\ m.phase # "idle" /\ l.phase # "idle"
        /\ m.phase = "done" => m.todo = <<>> /\ calls'[r] = NoCall
        /\ SnapshotCovered(r)'
    <3>1. CASE ListenerNext(r)
      <4> DEFINE t == Head(l.todo)
      <4>1. /\ l.phase = "running" /\ calls[r] = NoCall /\ l.todo # <<>>
            /\ m = [l EXCEPT !.todo = Tail(@)]
        BY <2>4, <3>1 DEF ListenerNext
      <4>2. t \in Tunnels /\ Tail(l.todo) \in Seq(Tunnels)
            /\ Entries(l.todo) = {t} \cup Entries(Tail(l.todo))
        BY <2>4, <4>1, TailEntries
      <4>3. m \in Type /\ m.phase = "running" /\ m.snapshot = l.snapshot /\ m.todo = Tail(l.todo)
        BY <2>4, <4>1, <4>2
      <4>4. Registered(t) => calls'[r].tunnel = t
        BY <1>3, <1>4, <3>1 DEF ListenerNext, CloseTunnel
      <4>5. ASSUME NEW u \in l.snapshot
            PROVE  /\ handles'[u] # "none"
                   /\ Registered(u)' => u \in Entries(m.todo) \/ calls'[r].tunnel = u
        <5>1. u \in Tunnels
          BY <2>4
        <5>2. /\ handles[u] # "none"
              /\ Registered(u) => u \in Entries(l.todo)
          BY <4>1, <5>1, TunnelAssumption DEF ServerInv, SnapshotInStep, SnapshotCovered, NoCall
        <5>3. handles'[u] # "none" /\ (Registered(u)' => Registered(u))
          BY <1>1, <5>1, <5>2, TunnelStepForward DEF ServerInv
        <5>4. QED BY <4>2, <4>3, <4>4, <5>2, <5>3
      <4>6. QED BY <4>1, <4>3, <4>5 DEF SnapshotCovered
    <3>2. CASE ListenerCallEnds(r)
      <4>1. calls[r].tunnel \in Tunnels /\ calls[r] # NoCall
        BY <3>2, TunnelAssumption DEF ListenerCallEnds, TunnelClosed, TunnelCloseFails, NoCall
      <4>2. l.phase \in {"running", "threw"}
        BY <2>3, <2>4, <4>1 DEF ServerInv, RunsInStep
      <4>3. CASE TunnelClosed(r) /\ UNCHANGED listeners
        <5>1. PICK t \in Tunnels : t = calls[r].tunnel
          BY <4>1
        <5>2. handles'[t] = "closed"
          BY <4>3, <5>1 DEF TunnelClosed, ServerInv, TunnelInv, TunnelTypeOK
        <5>3. ~Registered(t)'
          BY <1>1, <5>2 DEF TunnelInv, HandlesInStep, TunnelsInStep
        <5>4. ASSUME NEW u \in l.snapshot, l.phase = "running"
              PROVE  handles'[u] # "none" /\ (Registered(u)' => u \in Entries(l.todo))
          <6>1. u \in Tunnels
            BY <2>4
          <6>2. /\ handles[u] # "none"
                /\ Registered(u) => u \in Entries(l.todo) \/ u = t
            BY <5>1, <5>4 DEF ServerInv, SnapshotInStep, SnapshotCovered
          <6>3. handles'[u] # "none" /\ (Registered(u)' => Registered(u))
            BY <1>1, <6>1, <6>2, TunnelStepForward DEF ServerInv
          <6>4. QED BY <5>3, <6>2, <6>3
        <5>5. QED BY <2>4, <4>2, <4>3, <5>4 DEF SnapshotCovered
      <4>4. CASE TunnelCloseFails(r) /\ listeners' = [listeners EXCEPT ![r].phase = "threw"]
        <5>1. m = [l EXCEPT !.phase = "threw"]
          BY <2>4, <4>4
        <5>2. m \in Type /\ m.phase = "threw"
          BY <2>4, <5>1
        <5>3. QED BY <4>2, <5>2 DEF SnapshotCovered
      <4>5. QED BY <3>2, <4>3, <4>4 DEF ListenerCallEnds
    <3>3. CASE ListenerDone(r)
      <4>1. /\ l.phase = "running" /\ calls[r] = NoCall /\ l.todo = <<>>
            /\ m = [l EXCEPT !.phase = "done"] /\ UNCHANGED tunnelVars
        BY <2>4, <3>3 DEF ListenerDone
      <4>2. m \in Type /\ m.phase = "done" /\ m.todo = l.todo /\ m.snapshot = l.snapshot
        BY <2>4, <4>1
      <4>3. ASSUME NEW u \in l.snapshot
            PROVE  handles'[u] # "none" /\ (Registered(u)' => u \in Entries(l.todo) \/ calls[r].tunnel = u)
        BY <4>1 DEF ServerInv, SnapshotInStep, SnapshotCovered, tunnelVars, Registered, MapHas
      <4>4. QED BY <4>1, <4>2, <4>3 DEF SnapshotCovered, tunnelVars
    <3>4. QED BY <1>9, <3>1, <3>2, <3>3
  <2>6. listeners' = [listeners EXCEPT ![r] = m]
    BY <1>9, <2>4 DEF ListenerNext, ListenerCallEnds, ListenerDone
  <2> HIDE DEF l, m
  <2>7. ListenersTyped'
    BY <2>4, <2>5, <2>6 DEF ListenersTyped
  <2>8. SnapshotInStep'
    BY <1>1, <2>2, <2>5, OtherStepsInStep DEF SnapshotInStep
  <2>9. RunsInStep'
    <3> SUFFICES ASSUME NEW x \in Sessions, NEW j \in Slots
                 PROVE  LET n == listeners'[<<x, j>>]
                        IN /\ n.phase = "idle" => calls'[<<x, j>>] = NoCall
                           /\ n.phase # "idle" => /\ opens[x] = "returned"
                                                  /\ closes[x][j] = "idle" => ~InMap(x)
                           /\ n.phase = "done" => n.todo = <<>> /\ calls'[<<x, j>>] = NoCall
      BY <2>1 DEF RunsInStep, InMap, MapHas
    <3>1. CASE <<x, j>> = r
      BY <2>5, <3>1 DEF l, m, ServerInv, RunsInStep
    <3>2. CASE <<x, j>> # r
      BY <1>2, <2>2, <3>2 DEF ServerInv, RunsInStep
    <3>3. QED BY <3>1, <3>2
  <2>10. QED BY <2>1, <2>7, <2>8, <2>9 DEF ServerInv
<1>10. QED BY <1>5, <1>6, <1>7, <1>8, <1>9 DEF ServerNext

\* The server keeps its invariant: sessions, tunnels and close listeners stay in
\* step however requests, timers, listeners and failures interleave.
THEOREM ServerInvariant == ServerSpec => []ServerInv
<1>1. ServerInv /\ [ServerNext]_serverVars => ServerInv'
  BY ServerStepInv
<1>2. QED BY <1>1, ServerInitInv, PTL DEF ServerSpec

\* Types of the whole server (ServerTypeOK).
THEOREM ServerTypeCorrect == ServerSpec => []ServerTypeOK
<1>1. ServerInv => ServerTypeOK
  BY DEF ServerInv, SessionInv, TunnelInv, ListenersTyped, ServerTypeOK
<1>2. QED BY <1>1, ServerInvariant, PTL

\* A handle that is not closed has its entry (OpenHandleIsRegistered), whatever
\* close calls of clients and listeners overlap or fail.
THEOREM OpenHandlesAreRegistered == ServerSpec => []OpenHandleIsRegistered
<1>1. ServerInv => OpenHandleIsRegistered
  BY DEF ServerInv, TunnelInv, HandlesInStep, TunnelsInStep, OpenHandleIsRegistered
<1>2. QED BY <1>1, ServerInvariant, PTL

\* The tunnel gauge counts the entries of the Map (TunnelGauge): of overlapping
\* closes of one tunnel exactly one is counted.
THEOREM TunnelGaugeIsExact == ServerSpec => []TunnelGauge
<1>1. ServerInv => TunnelGauge
  BY DEF ServerInv, TunnelInv
<1>2. QED BY <1>1, ServerInvariant, PTL

\* A listener that ran to its end has closed every tunnel the session had when the
\* close began (SnapshotIsClosed).
THEOREM SnapshotsAreClosed == ServerSpec => []SnapshotIsClosed
<1>1. ASSUME ServerInv, NEW r \in Runs, listeners[r].phase = "done",
             NEW t \in listeners[r].snapshot
      PROVE  ~Registered(t)
  <2>1. PICK s \in Sessions, k \in Slots : r = <<s, k>>
    BY DEF Runs
  <2>2. listeners[r].todo = <<>> /\ calls[r] = NoCall
    BY <1>1, <2>1 DEF ServerInv, RunsInStep
  <2>3. t \in Tunnels
    BY <1>1 DEF ServerInv, ListenersTyped
  <2>4. t \notin Entries(listeners[r].todo) /\ calls[r].tunnel # t
    BY <2>2, <2>3, TunnelAssumption DEF Entries, NoCall
  <2>5. QED BY <1>1, <2>4 DEF ServerInv, SnapshotInStep, SnapshotCovered
<1>2. ServerInv => SnapshotIsClosed
  BY <1>1 DEF SnapshotIsClosed
<1>3. QED BY <1>2, ServerInvariant, PTL

\* Inside the server the session pool still does what it does alone, up to the
\* fairness of its own specification.
THEOREM ServerImplementsPool ==
    ServerSpec => SessionInit /\ [][SessionNext]_<<sessionVars, now>>
<1>1. ServerInit => SessionInit
  BY DEF ServerInit
<1>2. [ServerNext]_serverVars => [SessionNext]_<<sessionVars, now>>
  BY ServerStepOfPool
<1>3. QED BY <1>1, <1>2, PTL DEF ServerSpec

\* And so do the tunnels: the server implements TunnelSpec.
THEOREM ServerImplementsTunnels == ServerSpec => TunnelSpec
<1>1. ServerInit => TunnelInit
  BY DEF ServerInit
<1>2. ServerInv /\ [ServerNext]_serverVars => [TunnelNext]_tunnelVars
  BY ServerStepOfTunnels DEF ServerInv
<1>3. QED BY <1>1, <1>2, ServerInvariant, PTL DEF ServerSpec, TunnelSpec
=============================================================================
