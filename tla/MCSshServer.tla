----------------------------- MODULE MCSshServer -----------------------------
(***************************************************************************)
(* Small instances of SshServer for TLC.                                   *)
(***************************************************************************)
EXTENDS SshServer, TLC

\* Callers of closeTunnel.
MCClosers == Users \cup (Sessions \X (1..MaxCalls))

\* Sessions, tunnels and clients are opaque.
Symmetry == Permutations(Sessions) \cup Permutations(Tunnels) \cup Permutations(Users)

=============================================================================
