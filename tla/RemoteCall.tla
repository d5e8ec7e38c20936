----------------------------- MODULE RemoteCall -----------------------------
(***************************************************************************)
(* What control plane and agents together promise about a remote tool: the *)
(* answer of ActionOutcome, and that it is true of the host.  An action    *)
(* runs at most once; it does not start once its caller has been answered; *)
(* and it is reported completed only if it ran.  When the process was lost *)
(* the caller does not know, and the action may still start.  RemoteSystem *)
(* implements this specification.                                          *)
(***************************************************************************)
EXTENDS ActionOutcome, Naturals

VARIABLE runs   \* how often the action was started on its host

callVars == <<answer, runs>>

CallInit == OutcomeInit /\ runs = [x \in Actions |-> 0]

\* The host starts the action.
StartOnHost(x) ==
    /\ answer[x] \in {"waiting", "lost"}
    /\ runs[x] = 0
    /\ runs' = [runs EXCEPT ![x] = 1]
    /\ UNCHANGED answer

\* An answer that is true of the host.
HonestReply(x, outcome) ==
    /\ outcome = "completed" => runs[x] = 1
    /\ Reply(x, outcome)
    /\ UNCHANGED runs

CallNext ==
    \/ \E x \in Actions :
          \/ Ask(x) /\ UNCHANGED runs
          \/ StartOnHost(x)
          \/ \E outcome \in Outcomes : HonestReply(x, outcome)
    \/ LoseAll /\ UNCHANGED runs

CallSafety == CallInit /\ [][CallNext]_callVars
=============================================================================
