--------------------------- MODULE MCRemoteSystem ---------------------------
(***************************************************************************)
(* A small instance of RemoteSystem for TLC.                               *)
(***************************************************************************)
EXTENDS RemoteSystem, TLC

\* Sockets are opaque; the liveness run does without symmetry.
Symmetry == Permutations(Conns)

=============================================================================
