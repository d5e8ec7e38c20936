--------------------------- MODULE SessionManager ---------------------------
(***************************************************************************)
(* The SSH session pool, class SessionManager of src/session.ts: a Map of  *)
(* sessions with a size limit (LRU eviction), a time to live and a cleanup *)
(* timer.  openSession and closeSession await in the middle, so any number *)
(* of them are in progress at once; everything between two awaits is one   *)
(* action.                                                                 *)
(*                                                                         *)
(* A session is named by its id, which openSession generates: an id is     *)
(* opened at most once.  reconnectSession is closeSession followed by      *)
(* openSession on a new id and needs no action of its own.  Calls that     *)
(* only return an answer (explain mode, policy denial, unknown id) change  *)
(* nothing and are not steps.  The close listeners are external here: a    *)
(* close call may wait for them as long as it likes.  SshServer adds the   *)
(* real listener.                                                          *)
(***************************************************************************)
EXTENDS JsMap, FiniteSets

CONSTANTS
    Sessions,    \* session ids
    MaxSessions, \* maxSessions
    Ttl,         \* bound: longest time to live a caller asks for
    MaxCalls,    \* bound: closeSession calls in progress for one session
    MaxTime      \* bound: last instant

ASSUME SessionAssumption ==
    /\ MaxSessions \in Nat \ {0} /\ Ttl \in Nat /\ MaxCalls \in Nat \ {0} /\ MaxTime \in Nat

VARIABLES
    sessions,  \* keys of the Map, in insertion order
    info,      \* expiresAt and lastUsed of a session
    opens,     \* the openSession call of an id
    ssh,       \* its SSH connection
    closes,    \* closeSession calls in progress: who made them
    undisposed,\* history: sessions whose dispose threw
    manager,   \* whether destroy was called, and has returned
    awaited,   \* the close calls destroy waits for
    now

sessionVars == <<sessions, info, opens, ssh, closes, undisposed, manager, awaited>>

Slots == 1..MaxCalls
Callers == {"user", "internal"}
InMap(s) == MapHas(sessions, s)

SessionInit ==
    /\ sessions = <<>>
    /\ info = [s \in Sessions |-> [expiresAt |-> 0, lastUsed |-> 0]]
    /\ opens = [s \in Sessions |-> "unused"]
    /\ ssh = [s \in Sessions |-> "none"]
    /\ closes = [s \in Sessions |-> [k \in Slots |-> "idle"]]
    /\ undisposed = {}
    /\ manager = "up"
    /\ awaited = {}
    /\ now = 0

-----------------------------------------------------------------------------
FreeSlot(s) == CHOOSE k \in Slots : closes[s][k] = "idle"

\* closeSession up to its await, called for each session of S (all in the Map).
StartCloses(S, caller) ==
    /\ \A s \in S : \E k \in Slots : closes[s][k] = "idle"
    /\ closes' = [s \in Sessions |->
                    IF s \in S THEN [closes[s] EXCEPT ![FreeSlot(s)] = caller] ELSE closes[s]]

\* evictOldestSession: the first session in Map order with the smallest lastUsed,
\* provided that it was not used at this very instant.
Oldest ==
    {sessions[i] : i \in {j \in 1..Len(sessions) :
        /\ info[sessions[j]].lastUsed < now
        /\ \A l \in 1..Len(sessions) :
             /\ info[sessions[j]].lastUsed <= info[sessions[l]].lastUsed
             /\ l < j => info[sessions[j]].lastUsed < info[sessions[l]].lastUsed}}

Expiry(ttl) == now + ttl

\* openSession up to the first await.  The clock is read here; the victim of the
\* eviction stays in the Map until its close call is done.
OpenSession(s, ttl) ==
    /\ opens[s] = "unused"
    /\ opens' = [opens EXCEPT ![s] = "connecting"]
    /\ info' = [info EXCEPT ![s] = [expiresAt |-> Expiry(ttl), lastUsed |-> now]]
    /\ StartCloses(IF Len(sessions) >= MaxSessions THEN Oldest ELSE {}, "internal")
    /\ UNCHANGED <<sessions, ssh, undisposed, manager, awaited, now>>

\* Authentication, the connection or the host key fails.
ConnectFails(s) ==
    /\ opens[s] = "connecting"
    /\ opens' = [opens EXCEPT ![s] = "failed"]
    /\ UNCHANGED <<sessions, info, ssh, closes, undisposed, manager, awaited, now>>

\* ssh.connect resolves; the SFTP channel is requested next.
Connected(s) ==
    /\ opens[s] = "connecting"
    /\ opens' = [opens EXCEPT ![s] = "connected"]
    /\ ssh' = [ssh EXCEPT ![s] = "connected"]
    /\ UNCHANGED <<sessions, info, closes, undisposed, manager, awaited, now>>

\* requestSFTP resolves or is refused: the session enters the Map either way.
RegisterSession(s) ==
    /\ opens[s] = "connected"
    /\ opens' = [opens EXCEPT ![s] = "returned"]
    /\ sessions' = Append(sessions, s)
    /\ UNCHANGED <<info, ssh, closes, undisposed, manager, awaited, now>>

-----------------------------------------------------------------------------
\* closeSession asked for by a client, for a session in the Map.
CloseSession(s) ==
    /\ InMap(s)
    /\ StartCloses({s}, "user")
    /\ UNCHANGED <<sessions, info, opens, ssh, undisposed, manager, awaited, now>>

\* Mutants: the connection is not disposed of; the entry is not deleted.
ConnectionKept(s, disposed) == ssh
EntryKept(s) == sessions

\* sftp.end and ssh.dispose, which may throw; sessions.delete.
Disposed(s, disposed) == IF disposed THEN [ssh EXCEPT ![s] = "disposed"] ELSE ssh
Deleted(s) == Without(sessions, s)

\* The rest of closeSession once the listeners settled or timed out: dispose of
\* the connection, swallowing what it throws, and delete the Map entry.
FinishClose(s, k, disposed) ==
    /\ closes[s][k] \in Callers
    /\ closes' = [closes EXCEPT ![s][k] = "idle"]
    /\ ssh' = Disposed(s, disposed)
    /\ undisposed' = IF disposed THEN undisposed ELSE undisposed \cup {s}
    /\ sessions' = Deleted(s)
    /\ awaited' = awaited \ {<<s, k>>}
    /\ UNCHANGED <<info, opens, manager, now>>

\* getSession on a live session: it becomes the most recently used one.
GetSession(s) ==
    /\ InMap(s)
    /\ now <= info[s].expiresAt
    /\ info' = [info EXCEPT ![s].lastUsed = now]
    /\ UNCHANGED <<sessions, opens, ssh, closes, undisposed, manager, awaited, now>>

\* getSession on an expired session closes it and returns nothing.
GetExpiredSession(s) ==
    /\ InMap(s)
    /\ now > info[s].expiresAt
    /\ StartCloses({s}, "internal")
    /\ UNCHANGED <<sessions, info, opens, ssh, undisposed, manager, awaited, now>>

Expired == {s \in Sessions : InMap(s) /\ now > info[s].expiresAt}

\* Mutant: the timer only looks at a pool over its limit.
CleanupWhenOverfull ==
    /\ manager = "up"
    /\ Len(sessions) > MaxSessions
    /\ StartCloses(Expired, "internal")
    /\ UNCHANGED <<sessions, info, opens, ssh, undisposed, manager, awaited, now>>

\* cleanupExpiredSessions, run by the interval timer until destroy clears it.
CleanupExpiredSessions ==
    /\ manager = "up"
    /\ Expired # {}
    /\ StartCloses(Expired, "internal")
    /\ UNCHANGED <<sessions, info, opens, ssh, undisposed, manager, awaited, now>>

\* destroy: stop the timer and close every session of the Map...
Destroy ==
    LET all == {s \in Sessions : InMap(s)}
    IN /\ manager = "up"
       /\ manager' = "closing"
       /\ StartCloses(all, "internal")
       /\ awaited' = {<<s, FreeSlot(s)>> : s \in all}
       /\ UNCHANGED <<sessions, info, opens, ssh, undisposed, now>>

\* Mutant: wait for the Map to be empty.
DestroyAwaitsEmptyMap ==
    /\ manager = "closing"
    /\ awaited = {} /\ sessions = <<>>
    /\ manager' = "destroyed"
    /\ UNCHANGED <<sessions, info, opens, ssh, closes, undisposed, awaited, now>>

\* ...and return when those calls have.
DestroyReturns ==
    /\ manager = "closing"
    /\ awaited = {}
    /\ manager' = "destroyed"
    /\ UNCHANGED <<sessions, info, opens, ssh, closes, undisposed, awaited, now>>

SessionTick ==
    /\ now < MaxTime
    /\ now' = now + 1
    /\ UNCHANGED sessionVars

-----------------------------------------------------------------------------
SessionNext ==
    \/ \E s \in Sessions, ttl \in 0..Ttl : OpenSession(s, ttl)
    \/ \E s \in Sessions : ConnectFails(s) \/ Connected(s) \/ RegisterSession(s)
    \/ \E s \in Sessions : CloseSession(s) \/ GetSession(s) \/ GetExpiredSession(s)
    \/ \E s \in Sessions, k \in Slots, disposed \in BOOLEAN : FinishClose(s, k, disposed)
    \/ CleanupExpiredSessions \/ Destroy \/ DestroyReturns
    \/ SessionTick

\* The timer fires, and every close call ends: notifySessionClose gives its
\* listeners 5 seconds.
SessionFairness ==
    /\ WF_<<sessionVars, now>>(CleanupExpiredSessions)
    /\ \A s \in Sessions, k \in Slots :
         WF_<<sessionVars, now>>(\E disposed \in BOOLEAN : FinishClose(s, k, disposed))
    /\ WF_<<sessionVars, now>>(DestroyReturns)

SessionSpec == SessionInit /\ [][SessionNext]_<<sessionVars, now>> /\ SessionFairness

-----------------------------------------------------------------------------
\* Types of the Map, the sessions and the calls in progress.
SessionTypeOK ==
    /\ sessions \in Seq(Sessions)
    /\ info \in [Sessions -> [expiresAt: Nat, lastUsed: Nat]]
    /\ opens \in [Sessions -> {"unused", "connecting", "connected", "returned", "failed"}]
    /\ ssh \in [Sessions -> {"none", "connected", "disposed"}]
    /\ closes \in [Sessions -> [Slots -> {"idle"} \cup Callers]]
    /\ undisposed \subseteq Sessions
    /\ manager \in {"up", "closing", "destroyed"}
    /\ awaited \subseteq Sessions \X Slots
    /\ now \in Nat

\* No SSH connection is lost track of: an open one belongs to an openSession in
\* progress or to an entry of the Map, where getSession, the cleanup timer and
\* destroy find it - unless disposing of it threw.  Evictions, expiry and
\* several close calls for one session may overlap in any way.
ConnectionsAccounted ==
    \A s \in Sessions : ssh[s] = "connected" => opens[s] = "connected" \/ InMap(s) \/ s \in undisposed

\* getSession never hands out a disposed connection: although closeSession
\* awaits the listeners with the entry still in the Map, disposing and deleting
\* happen together.
RegisteredIsUsable ==
    \A s \in Sessions : InMap(s) => ssh[s] = "connected"

\* An expired session leaves the Map, used or not, whatever else is going on.
ExpiredIsRemoved ==
    \A s \in Sessions : (s \in Expired /\ manager = "up") ~> ~InMap(s)

\* destroy returns.
DestroyEnds == (manager = "closing") ~> (manager = "destroyed")

\* "Max in-memory sessions": the Map never holds more than maxSessions.
AtMostMaxSessions == Len(sessions) <= MaxSessions
=============================================================================
