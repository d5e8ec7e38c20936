---------------------------- MODULE TunnelManager ----------------------------
(***************************************************************************)
(* Port forwarding, class TunnelManager of src/tunnel.ts with the tunnel   *)
(* gauge of src/metrics.ts.  A tunnel is created by an await (listen, or   *)
(* forwardIn) and registered after it; closeTunnel awaits the handle       *)
(* before it removes the entry.  Calls overlap freely.                     *)
(*                                                                         *)
(* Explain mode, policy denials and unknown ids change nothing and are not *)
(* steps; a forwarded byte stream is not modelled.  SshServer joins the    *)
(* tunnels to the sessions they run over.                                  *)
(***************************************************************************)
EXTENDS JsMap, FiniteSets

CONSTANTS
    Tunnels,  \* tunnel ids
    Owners,   \* session ids
    NoOwner,  \* session of a tunnel that was not created
    Closers,  \* callers of closeTunnel; each has one call in progress at a time
    NoTunnel  \* a caller without a call

ASSUME TunnelAssumption == NoTunnel \notin Tunnels /\ NoOwner \notin Owners

VARIABLES
    tunnels,    \* keys of the Map, in insertion order
    tunnelInfo, \* session, type and creation state of a tunnel
    handles,    \* its listening socket or remote forward
    calls,      \* closeTunnel calls awaiting their handle
    active      \* metrics.tunnels.active

tunnelVars == <<tunnels, tunnelInfo, handles, calls, active>>

Types == {"local", "remote"}
NoCall == [tunnel |-> NoTunnel, first |-> FALSE]
Registered(t) == MapHas(tunnels, t)

TunnelInit ==
    /\ tunnels = <<>>
    /\ tunnelInfo = [t \in Tunnels |-> [session |-> NoOwner, type |-> "local", phase |-> "unused"]]
    /\ handles = [t \in Tunnels |-> "none"]
    /\ calls = [c \in Closers |-> NoCall]
    /\ active = 0

-----------------------------------------------------------------------------
\* createLocalTunnel / createRemoteTunnel up to the await; the caller has looked
\* up the session.
CreateTunnel(t, s, type) ==
    /\ tunnelInfo[t].phase = "unused"
    /\ tunnelInfo' = [tunnelInfo EXCEPT ![t] = [session |-> s, type |-> type, phase |-> "creating"]]
    /\ UNCHANGED <<tunnels, handles, calls, active>>

\* The port is taken, or the SSH server refuses the forward.
CreateFails(t) ==
    /\ tunnelInfo[t].phase = "creating"
    /\ tunnelInfo' = [tunnelInfo EXCEPT ![t].phase = "failed"]
    /\ UNCHANGED <<tunnels, handles, calls, active>>

\* recordTunnelOpened and recordTunnelClosed
RecordOpened == active + 1
RecordClosed == IF active > 0 THEN active - 1 ELSE 0

\* After the await: the tunnel is registered and counted.  The session is not
\* looked at again.
TunnelListening(t) ==
    /\ tunnelInfo[t].phase = "creating"
    /\ tunnelInfo' = [tunnelInfo EXCEPT ![t].phase = "created"]
    /\ tunnels' = Append(tunnels, t)
    /\ handles' = [handles EXCEPT ![t] = "open"]
    /\ active' = RecordOpened
    /\ UNCHANGED calls

\* closeTunnel up to the await of handle.close().  A local server stops listening
\* at the first close and drains; later closes of it are answered with an error.
CloseTunnel(c, t) ==
    /\ calls[c] = NoCall
    /\ Registered(t)
    /\ calls' = [calls EXCEPT ![c] = [tunnel |-> t, first |-> handles[t] = "open"]]
    /\ handles' = [handles EXCEPT ![t] = IF tunnelInfo[t].type = "local" /\ @ = "open"
                                         THEN "draining" ELSE @]
    /\ UNCHANGED <<tunnels, tunnelInfo, active>>

\* Which close of a handle can succeed: the one that drains the local server, or
\* one that finds the remote forward in place.
HandleCloses(c) ==
    LET t == calls[c].tunnel
    IN IF tunnelInfo[t].type = "local" THEN calls[c].first ELSE handles[t] = "open"

\* handle.close() resolves: entry and handle are dropped, the close is counted.
TunnelClosed(c) ==
    LET t == calls[c].tunnel
    IN /\ t \in Tunnels
       /\ HandleCloses(c)
       /\ handles' = [handles EXCEPT ![t] = "closed"]
       /\ tunnels' = Without(tunnels, t)
       /\ active' = RecordClosed
       /\ calls' = [calls EXCEPT ![c] = NoCall]
       /\ UNCHANGED tunnelInfo

\* Mutants: the entry is dropped, or the close counted, in a finally block.
FailedCloseForgets(c) ==
    LET t == calls[c].tunnel
    IN /\ t \in Tunnels
       /\ tunnelInfo[t].type = "local" => ~calls[c].first /\ handles[t] = "closed"
       /\ tunnels' = Without(tunnels, t)
       /\ active' = RecordClosed
       /\ calls' = [calls EXCEPT ![c] = NoCall]
       /\ UNCHANGED <<tunnelInfo, handles>>
FailedCloseCounts(c) ==
    LET t == calls[c].tunnel
    IN /\ t \in Tunnels
       /\ tunnelInfo[t].type = "local" => ~calls[c].first /\ handles[t] = "closed"
       /\ active' = RecordClosed
       /\ calls' = [calls EXCEPT ![c] = NoCall]
       /\ UNCHANGED <<tunnels, tunnelInfo, handles>>

\* handle.close() rejects and closeTunnel throws: a server closed twice, once it
\* is closed, or a forward the peer does not take back.  The entry stays.
TunnelCloseFails(c) ==
    LET t == calls[c].tunnel
    IN /\ t \in Tunnels
       /\ tunnelInfo[t].type = "local" => ~calls[c].first /\ handles[t] = "closed"
       /\ calls' = [calls EXCEPT ![c] = NoCall]
       /\ UNCHANGED <<tunnels, tunnelInfo, handles, active>>

\* listTunnels(sessionId)
ListTunnels(s) == Kept(tunnels, {t \in Tunnels : tunnelInfo[t].session = s})

-----------------------------------------------------------------------------
\* The component on its own: sessions come and go unseen.
TunnelNext ==
    \/ \E t \in Tunnels, s \in Owners, type \in Types : CreateTunnel(t, s, type)
    \/ \E t \in Tunnels : CreateFails(t) \/ TunnelListening(t)
    \/ \E c \in Closers, t \in Tunnels : CloseTunnel(c, t)
    \/ \E c \in Closers : TunnelClosed(c) \/ TunnelCloseFails(c)

TunnelSpec == TunnelInit /\ [][TunnelNext]_tunnelVars

-----------------------------------------------------------------------------
\* Types of the Map, the handles, the calls in progress and the gauge.
TunnelTypeOK ==
    /\ tunnels \in Seq(Tunnels)
    /\ tunnelInfo \in [Tunnels -> [session: Owners \cup {NoOwner}, type: Types,
                                   phase: {"unused", "creating", "created", "failed"}]]
    /\ handles \in [Tunnels -> {"none", "open", "draining", "closed"}]
    /\ calls \in [Closers -> [tunnel: Tunnels \cup {NoTunnel}, first: BOOLEAN]]
    /\ active \in Nat

\* A listening port can always be closed through its id: whatever close calls
\* overlap or fail, a handle that is not closed has its entry in the Map.
OpenHandleIsRegistered ==
    \A t \in Tunnels : handles[t] \in {"open", "draining"} => Registered(t)

\* The gauge "Active SSH tunnels" counts the entries of the Map: overlapping
\* closes of one tunnel are counted once.
TunnelGauge == active = Len(tunnels)
=============================================================================
