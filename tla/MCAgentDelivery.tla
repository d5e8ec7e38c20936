--------------------------- MODULE MCAgentDelivery ---------------------------
(***************************************************************************)
(* Small instances of AgentDelivery for TLC; the .cfg files give the sizes. *)
(***************************************************************************)
EXTENDS AgentDelivery, TLC

\* Action ids are opaque.
Symmetry == Permutations(Actions)
=============================================================================
