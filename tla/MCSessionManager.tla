-------------------------- MODULE MCSessionManager --------------------------
(***************************************************************************)
(* Small instances of SessionManager for TLC.                              *)
(***************************************************************************)
EXTENDS SessionManager, TLC

\* Session ids are opaque.
Symmetry == Permutations(Sessions)

=============================================================================
