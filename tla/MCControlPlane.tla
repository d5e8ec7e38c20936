--------------------------- MODULE MCControlPlane ---------------------------
(***************************************************************************)
(* Small instances of ControlPlane for TLC.  The .cfg files choose the sets *)
(* of agents, connections, actions and PATCH requests.                      *)
(***************************************************************************)
EXTENDS ControlPlane, TLC

\* Ids, sockets and keys are opaque: the code only compares them.
Symmetry == Permutations(Conns) \cup Permutations(Keys) \cup Permutations(Actions)
            \cup Permutations(Agents)

=============================================================================
