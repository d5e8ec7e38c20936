---------------------------- MODULE ActionOutcome ----------------------------
(***************************************************************************)
(* What the control plane promises the caller of a remote tool: a call is  *)
(* answered once, with one of three outcomes, and the answer stands; only  *)
(* the end of the process takes the answer away, from every caller that    *)
(* is waiting at that moment.  Every call ends.  ControlPlane implements   *)
(* this specification.                                                     *)
(***************************************************************************)
CONSTANT Actions

VARIABLE answer

Outcomes == {"completed", "error", "timeout"}

OutcomeInit == answer = [x \in Actions |-> "none"]

\* The tool is called.
Ask(x) == answer[x] = "none" /\ answer' = [answer EXCEPT ![x] = "waiting"]

\* The caller is told how it went.
Reply(x, outcome) == answer[x] = "waiting" /\ answer' = [answer EXCEPT ![x] = outcome]

\* The process goes away with every call that is waiting.
LoseAll == answer' = [x \in Actions |-> IF answer[x] = "waiting" THEN "lost" ELSE answer[x]]

OutcomeNext ==
    \/ \E x \in Actions : Ask(x) \/ \E outcome \in Outcomes : Reply(x, outcome)
    \/ LoseAll

\* Every call ends.
EveryCallEnds == \A x \in Actions : (answer[x] = "waiting") ~> (answer[x] # "waiting")

OutcomeSafety == OutcomeInit /\ [][OutcomeNext]_answer

OutcomeSpec == OutcomeSafety /\ EveryCallEnds
=============================================================================
