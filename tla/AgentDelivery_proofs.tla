------------------------ MODULE AgentDelivery_proofs ------------------------
(***************************************************************************)
(* Proofs about an agent on an unreliable network, for any number of       *)
(* frames, instants and policy versions: what the Map of seen action ids   *)
(* and the deadline keep from being started again.  They need what         *)
(* rememberAction itself needs: the Map is not cut at its limit, which is  *)
(* so while there are no more action ids than SeenLimit.                   *)
(***************************************************************************)
EXTENDS AgentDelivery, JsMap_proofs, SequenceTheorems, FiniteSetTheorems, TLAPS

\* The Map is not cut: no more actions than it holds.
FewActions == IsFiniteSet(Actions) /\ Cardinality(Actions) <= SeenLimit

\* A Map has an action id once.
Distinct(seen) == \A i, j \in 1..Len(seen) : seen[i].action = seen[j].action => i = j

-----------------------------------------------------------------------------
(* rememberAction. *)

\* A Map of action ids has no more entries than there are ids.
LEMMA DistinctIsShort ==
    ASSUME IsFiniteSet(Actions), NEW seen \in Seq(SeenEntry), Distinct(seen)
    PROVE  Len(seen) <= Cardinality(Actions)
<1>1. PICK n \in Nat : n = Len(seen)
  OBVIOUS
<1>2. PICK g : g = [i \in 1..n |-> seen[i].action]
  OBVIOUS
<1>3. \A i \in 1..n : seen[i] \in SeenEntry
  BY <1>1
<1>4. g \in [1..n -> Actions]
  BY <1>2, <1>3 DEF SeenEntry
<1>5. \A i, j \in 1..n : g[i] = g[j] => i = j
  BY <1>1, <1>2 DEF Distinct
<1>6. g \in Injection(1..n, Actions)
  BY <1>4, <1>5 DEF Injection, IsInjective
<1>7. Cardinality(1..n) <= Cardinality(Actions)
  BY <1>6, FS_Injection
<1>8. Cardinality(1..n) = n
  BY FS_Interval
<1>9. QED BY <1>1, <1>7, <1>8

\* Dropping entries whose deadline has come keeps the others, each once.
LEMMA DropExpired ==
    ASSUME NEW seen \in Seq(SeenEntry), Distinct(seen), NEW S
    PROVE  /\ Kept(seen, S) \in Seq(SeenEntry) /\ Distinct(Kept(seen, S))
           /\ \A i \in 1..Len(Kept(seen, S)) : \E j \in 1..Len(seen) : Kept(seen, S)[i] = seen[j]
           /\ \A j \in 1..Len(seen) : seen[j] \in S =>
                 \E i \in 1..Len(Kept(seen, S)) : Kept(seen, S)[i] = seen[j]
<1>1. PICK k : k = Kept(seen, S)
  OBVIOUS
<1>2. k \in Seq(SeenEntry) /\ Len(k) \in Nat
  BY <1>1, KeptPlaces
<1>3. PICK place \in [1..Len(k) -> 1..Len(seen)] :
        /\ \A i \in 1..Len(k) : k[i] = seen[place[i]]
        /\ \A i, j \in 1..Len(k) : i < j => place[i] < place[j]
        /\ \A p \in 1..Len(seen) : seen[p] \in S <=> \E i \in 1..Len(k) : place[i] = p
  BY <1>1, KeptPlaces
<1>4. \A i \in 1..Len(k) : place[i] \in 1..Len(seen) /\ place[i] \in Int
  BY <1>3
<1>5. Distinct(k)
  <2>1. SUFFICES ASSUME NEW i \in 1..Len(k), NEW j \in 1..Len(k), k[i].action = k[j].action PROVE i = j
    BY DEF Distinct
  <2>2. place[i] = place[j]
    BY <1>3, <1>4, <2>1 DEF Distinct
  <2>3. ~(i < j) /\ ~(j < i)
    BY <1>3, <1>4, <2>2
  <2>4. QED BY <1>2, <2>3
<1>6. \A i \in 1..Len(k) : \E j \in 1..Len(seen) : k[i] = seen[j]
  BY <1>3, <1>4
<1>7. \A j \in 1..Len(seen) : seen[j] \in S => \E i \in 1..Len(k) : k[i] = seen[j]
  BY <1>3
<1>8. QED BY <1>1, <1>2, <1>5, <1>6, <1>7

\* rememberAction adds the id and drops only ids whose deadline has come.
LEMMA Remembered ==
    ASSUME FewActions, now \in Nat,
           NEW seen \in Seq(SeenEntry), Distinct(seen), NEW f, NEW e \in SeenEntry,
           e = [action |-> f.action, deadline |-> f.deadline],
           \A i \in 1..Len(seen) : seen[i].action # f.action
    PROVE  /\ Remember(seen, f) \in Seq(SeenEntry) /\ Distinct(Remember(seen, f))
           /\ \A i \in 1..Len(Remember(seen, f)) :
                 Remember(seen, f)[i] = e \/ \E j \in 1..Len(seen) : Remember(seen, f)[i] = seen[j]
           /\ \E i \in 1..Len(Remember(seen, f)) : Remember(seen, f)[i] = e
           /\ \A j \in 1..Len(seen) : seen[j].deadline > now =>
                 \E i \in 1..Len(Remember(seen, f)) : Remember(seen, f)[i] = seen[j]
<1>1. PICK S : S = {d \in SeenEntry : d.deadline > now}
  OBVIOUS
<1>2. PICK k : k = Kept(seen, S)
  OBVIOUS
<1>3. /\ k \in Seq(SeenEntry) /\ Distinct(k)
      /\ \A i \in 1..Len(k) : \E j \in 1..Len(seen) : k[i] = seen[j]
      /\ \A j \in 1..Len(seen) : seen[j] \in S => \E i \in 1..Len(k) : k[i] = seen[j]
  BY <1>2, DropExpired
<1>4. PICK t : t = Append(k, e)
  OBVIOUS
<1>5. /\ t \in Seq(SeenEntry) /\ Len(t) = Len(k) + 1 /\ Len(k) \in Nat /\ t[Len(k) + 1] = e
      /\ \A i \in 1..Len(k) : i \in 1..Len(t) /\ t[i] = k[i]
      /\ \A i \in 1..Len(t) : i \in 1..Len(k) \/ i = Len(k) + 1
  BY <1>3, <1>4, AppendProperties
<1>6. e.action = f.action
  OBVIOUS
<1>7. \A i \in 1..Len(k) : k[i].action # e.action
  BY <1>3, <1>6
<1>8. Distinct(t)
  <2>1. SUFFICES ASSUME NEW i \in 1..Len(t), NEW j \in 1..Len(t), t[i].action = t[j].action PROVE i = j
    BY DEF Distinct
  <2>2. CASE i \in 1..Len(k) /\ j \in 1..Len(k)
    BY <1>3, <1>5, <2>1, <2>2 DEF Distinct
  <2>3. CASE i \in 1..Len(k) /\ j = Len(k) + 1
    BY <1>5, <1>7, <2>1, <2>3
  <2>4. CASE j \in 1..Len(k) /\ i = Len(k) + 1
    BY <1>5, <1>7, <2>1, <2>4
  <2>5. QED BY <1>5, <2>2, <2>3, <2>4
<1>9. Len(t) <= SeenLimit /\ Len(t) \in Nat /\ SeenLimit \in Nat
  <2>1. Len(t) <= Cardinality(Actions) /\ Cardinality(Actions) <= SeenLimit
    BY <1>5, <1>8, DistinctIsShort DEF FewActions
  <2>2. Cardinality(Actions) \in Nat
    BY FS_CardinalityType DEF FewActions
  <2>3. QED BY <1>5, <2>1, <2>2, RemoteAgentAssumption
<1>10. Remember(seen, f) = SubSeq(t, 1, Len(t))
  <2>1. Remember(seen, f) =
           SubSeq(t, Len(t) - (IF Len(t) > SeenLimit THEN SeenLimit ELSE Len(t)) + 1, Len(t))
    BY <1>1, <1>2, <1>4 DEF Remember
  <2>2. Len(t) - (IF Len(t) > SeenLimit THEN SeenLimit ELSE Len(t)) + 1 = 1
    BY <1>9
  <2>3. QED BY <2>1, <2>2
<1>11. Remember(seen, f) = t
  BY <1>5, <1>9, <1>10, SubSeqFull
<1>12. \E i \in 1..Len(t) : t[i] = e
  BY <1>5
<1>13. ASSUME NEW i \in 1..Len(t) PROVE t[i] = e \/ \E j \in 1..Len(seen) : t[i] = seen[j]
  <2>1. CASE i \in 1..Len(k)
    <3>1. PICK j \in 1..Len(seen) : k[i] = seen[j]
      BY <1>3, <2>1
    <3>2. QED BY <1>5, <2>1, <3>1
  <2>2. CASE i = Len(k) + 1
    BY <1>5, <2>2
  <2>3. QED BY <1>5, <2>1, <2>2
<1>14. ASSUME NEW j \in 1..Len(seen), seen[j].deadline > now PROVE \E i \in 1..Len(t) : t[i] = seen[j]
  <2>1. seen[j] \in S
    BY <1>1, <1>14
  <2>2. PICK i \in 1..Len(k) : k[i] = seen[j]
    BY <1>3, <2>1
  <2>3. QED BY <1>5, <2>2
<1>15. QED BY <1>5, <1>8, <1>11, <1>12, <1>13, <1>14

-----------------------------------------------------------------------------
(* The inductive invariant. *)

\* Frames the control plane signs.
Signed == [type: {"action.request"}, action: Actions, agent: Agents, version: Nat, deadline: Nat]
          \cup [type: {"policy.update"}, agent: Agents, version: Nat, allow: BOOLEAN]

DeliveryTypeOK == AgentTypeOK /\ now \in Nat /\ issued \subseteq Signed

Asks(f, x) == f.type = "action.request" /\ f.action = x

\* One request per action id.
SignedOnce ==
    \A f, g \in issued : f.type = "action.request" /\ Asks(g, f.action) => f = g

\* The deadline of x has come.
Expired(x) == \E f \in issued : Asks(f, x) /\ f.deadline <= now

\* The Map of a run holds ids of requests with their deadlines, each once; a run that is
\* not there holds and executes nothing.
MemoryOf(c) ==
    /\ Distinct(seenActions[c])
    /\ \A i \in 1..Len(seenActions[c]) : \E f \in issued :
          Asks(f, seenActions[c][i].action) /\ f.deadline = seenActions[c][i].deadline
    /\ procs[c].phase # "running" => seenActions[c] = <<>> /\ executing[c] = {}

Memory == \A c \in Conns : MemoryOf(c)

DeliveryInv == DeliveryTypeOK /\ SignedOnce /\ Memory /\ ExecutingIsRemembered

\* With one run: what was started is remembered, or its deadline has come.
StartedIsRemembered ==
    \A c \in Conns, x \in Actions : executions[x] > 0 =>
        \/ procs[c].phase = "ended"
        \/ procs[c].phase = "running" /\ (Seen(c, x) \/ Expired(x))

-----------------------------------------------------------------------------
(* Steps. *)

\* A step that leaves what runs remember alone.
Forgetful ==
    /\ UNCHANGED <<seenActions, executions>>
    /\ issued \subseteq issued' /\ now' \in Nat /\ now <= now'
    /\ \A c \in Conns : executing'[c] \subseteq executing[c]
    /\ \A c \in Conns :
          procs'[c].phase = procs[c].phase \/ (procs[c].phase = "idle" /\ procs'[c].phase = "running")

LEMMA Frames ==
    ASSUME NEW f \in Signed
    PROVE  /\ f.agent \in Agents /\ f.version \in Nat /\ f.type \in {"action.request", "policy.update"}
           /\ f.type = "action.request" => f.action \in Actions /\ f.deadline \in Nat
           /\ f.type = "policy.update" => f.allow \in BOOLEAN
BY DEF Signed

LEMMA DeliverySteps ==
    ASSUME DeliveryTypeOK, [DeliveryNext]_deliveryVars
    PROVE  \/ Forgetful
           \/ /\ UNCHANGED <<issued, now>>
              /\ \/ \E c \in Conns, f \in issued : StartAction(c, f)
                 \/ \E c \in Conns : AgentEnds(c)
<1>1. now \in Nat /\ procs \in [Conns -> [phase: {"idle", "running", "ended"},
                            agent: Agents \cup {NoAgent}, policy: Policy]]
      /\ executing \in [Conns -> SUBSET Actions]
  BY DEF DeliveryTypeOK, AgentTypeOK
<1>2. UNCHANGED agentVars /\ issued \subseteq issued' /\ now' = now => Forgetful
  BY <1>1 DEF Forgetful, agentVars
<1>3. \/ \E x \in Actions, a \in Agents, v \in 1..MaxVersion, d \in now..MaxTime : IssueRequest(x, a, v, d)
      \/ \E a \in Agents, v \in 1..MaxVersion, allow \in BOOLEAN : IssueUpdate(a, v, allow)
      \/ UNCHANGED deliveryVars
      => UNCHANGED agentVars /\ issued \subseteq issued' /\ now' = now
  BY DEF IssueRequest, IssueUpdate, deliveryVars
<1>4. ASSUME NEW c \in Conns, NEW f, Deliver(c, f)
      PROVE  UNCHANGED <<issued, now>> /\ (StartAction(c, f) \/ Forgetful)
  <2>1. UNCHANGED <<issued, now>>
    BY <1>4 DEF Deliver
  <2>2. CASE DropFrame(c, f)
    BY <1>2, <2>1, <2>2 DEF DropFrame
  <2>3. CASE ApplyPolicyUpdate(c, f)
    <3>1. PICK p : p = [version |-> f.version, allow |-> f.allow]
      OBVIOUS
    <3>2. procs' = [procs EXCEPT ![c].policy = p] /\ UNCHANGED <<seenActions, executing, executions>>
      BY <2>3, <3>1 DEF ApplyPolicyUpdate
    <3>3. \A d \in Conns : procs'[d].phase = procs[d].phase
      BY <1>1, <3>2
    <3>4. QED BY <1>1, <2>1, <3>2, <3>3 DEF Forgetful
  <2>4. QED BY <1>4, <2>1, <2>2, <2>3 DEF Deliver
<1>5. ASSUME NEW a \in Agents, Enrolled(a) PROVE Forgetful
  BY <1>1, <1>5 DEF Enrolled, SaveEnrollment, Forgetful
<1>6. ASSUME NEW c \in Conns, NEW a \in Agents, RunAgent(c, a), UNCHANGED <<issued, now>> PROVE Forgetful
  <2>1. PICK p : p = [phase |-> "running", agent |-> a, policy |-> config[a]]
    OBVIOUS
  <2>2. procs' = [procs EXCEPT ![c] = p] /\ procs[c].phase = "idle"
        /\ UNCHANGED <<seenActions, executing, executions>>
    BY <1>6, <2>1 DEF RunAgent
  <2>3. \A d \in Conns : procs'[d].phase = procs[d].phase
                         \/ (procs[d].phase = "idle" /\ procs'[d].phase = "running")
    BY <1>1, <2>1, <2>2
  <2>4. QED BY <1>1, <1>6, <2>2, <2>3 DEF Forgetful
<1>7. ASSUME NEW c \in Conns, NEW x \in Actions, NEW ok \in BOOLEAN, FinishAction(c, x, ok),
             UNCHANGED <<issued, now>>
      PROVE  Forgetful
  <2>1. executing' = [executing EXCEPT ![c] = executing[c] \ {x}] /\ UNCHANGED <<procs, seenActions, executions>>
    BY <1>7 DEF FinishAction
  <2>2. \A d \in Conns : executing'[d] \subseteq executing[d]
    BY <1>1, <2>1
  <2>3. QED BY <1>1, <1>7, <2>1, <2>2 DEF Forgetful
<1>8. Tick => Forgetful
  BY <1>1 DEF Tick, agentVars, Forgetful
<1>9. QED BY <1>2, <1>3, <1>4, <1>5, <1>6, <1>7, <1>8 DEF DeliveryNext

-----------------------------------------------------------------------------
(* Types. *)

\* rememberAction keeps the type of the Map, cut or not.
LEMMA RememberType ==
    ASSUME NEW seen \in Seq(SeenEntry), NEW f, f.action \in Actions, f.deadline \in Nat
    PROVE  Remember(seen, f) \in Seq(SeenEntry)
<1>1. PICK k : k = Kept(seen, {d \in SeenEntry : d.deadline > now})
  OBVIOUS
<1>2. k \in Seq(SeenEntry)
  BY <1>1, KeptPlaces
<1>3. PICK t : t = Append(k, [action |-> f.action, deadline |-> f.deadline])
  OBVIOUS
<1>4. t \in Seq(SeenEntry) /\ Len(t) \in Nat
  BY <1>2, <1>3, AppendProperties DEF SeenEntry
<1>5. PICK from : from = Len(t) - (IF Len(t) > SeenLimit THEN SeenLimit ELSE Len(t)) + 1
  OBVIOUS
<1>6. from \in 1..(Len(t) + 1)
  <2>1. CASE Len(t) > SeenLimit
    <3>1. SeenLimit \in Nat
      BY RemoteAgentAssumption
    <3>2. QED BY <1>4, <1>5, <2>1, <3>1
  <2>2. CASE ~(Len(t) > SeenLimit)
    BY <1>4, <1>5, <2>2
  <2>3. QED BY <2>1, <2>2
<1>7. Remember(seen, f) = SubSeq(t, from, Len(t))
  BY <1>1, <1>3, <1>5 DEF Remember
<1>8. QED BY <1>4, <1>6, <1>7, SubSeqProperties

\* Whatever is delivered, in whatever order, the agent's file and memory keep their types.
LEMMA DeliveryTypeStep ==
    ASSUME DeliveryTypeOK, [DeliveryNext]_deliveryVars
    PROVE  DeliveryTypeOK'
<1> USE DEF DeliveryTypeOK
<1>1. UNCHANGED agentVars => AgentTypeOK'
  BY DEF AgentTypeOK, agentVars
<1>2. CASE UNCHANGED deliveryVars
  BY <1>1, <1>2 DEF deliveryVars
<1>3. ASSUME NEW x \in Actions, NEW a \in Agents, NEW v \in 1..MaxVersion, NEW d \in now..MaxTime,
             IssueRequest(x, a, v, d)
      PROVE  DeliveryTypeOK'
  <2>1. d \in Nat /\ v \in Nat
    BY RemoteAgentAssumption
  <2>2. Request(x, a, v, d) \in Signed
    BY <2>1 DEF Request, Signed
  <2>3. QED BY <1>1, <1>3, <2>2 DEF IssueRequest
<1>4. ASSUME NEW a \in Agents, NEW v \in 1..MaxVersion, NEW allow \in BOOLEAN, IssueUpdate(a, v, allow)
      PROVE  DeliveryTypeOK'
  <2>1. Update(a, v, allow) \in Signed
    BY RemoteAgentAssumption DEF Update, Signed
  <2>2. QED BY <1>1, <1>4, <2>1 DEF IssueUpdate
<1>5. ASSUME NEW a \in Agents, Enrolled(a) PROVE DeliveryTypeOK'
  <2>1. [version |-> 1, allow |-> TRUE] \in Policy
    BY DEF Policy
  <2>2. QED BY <1>5, <2>1 DEF Enrolled, SaveEnrollment, AgentTypeOK
<1>6. ASSUME NEW c \in Conns, NEW a \in Agents, RunAgent(c, a), UNCHANGED <<issued, now>>
      PROVE  DeliveryTypeOK'
  <2>1. PICK p : p = [phase |-> "running", agent |-> a, policy |-> config[a]]
    OBVIOUS
  <2>2. procs' = [procs EXCEPT ![c] = p] /\ up' = [up EXCEPT ![c] = Append(up[c], Hello(a))]
        /\ UNCHANGED <<config, seenActions, executing, executions>>
    BY <1>6, <2>1 DEF RunAgent
  <2>3. Append(up[c], Hello(a)) \in Seq(UpFrame)
    BY AppendProperties DEF Hello, UpFrame, AgentTypeOK
  <2>4. p \in [phase: {"idle", "running", "ended"}, agent: Agents \cup {NoAgent}, policy: Policy]
    BY <2>1 DEF AgentTypeOK
  <2>5. procs' \in [Conns -> [phase: {"idle", "running", "ended"}, agent: Agents \cup {NoAgent}, policy: Policy]]
        /\ \A d \in Conns : procs'[d] = IF d = c THEN p ELSE procs[d]
    BY <2>2, <2>4 DEF AgentTypeOK
  <2>6. \A d \in Conns : procs'[d].phase = "running" => procs'[d].agent \in Agents
    <3>1. p.agent = a
      BY <2>1
    <3>2. \A d \in Conns : d # c => procs'[d] = procs[d]
      BY <2>5
    <3>3. QED BY <2>5, <3>1, <3>2 DEF AgentTypeOK
  <2>7. up' \in [Conns -> Seq(UpFrame)]
    BY <2>2, <2>3 DEF AgentTypeOK
  <2>8. QED BY <1>6, <2>2, <2>5, <2>6, <2>7 DEF AgentTypeOK
<1>7. ASSUME NEW c \in Conns, AgentEnds(c), UNCHANGED <<issued, now>> PROVE DeliveryTypeOK'
  <2>1. <<>> \in Seq(SeenEntry)
    OBVIOUS
  <2>2. seenActions' \in [Conns -> Seq(SeenEntry)]
    BY <1>7, <2>1 DEF AgentEnds, AgentTypeOK
  <2>3. QED BY <1>7, <2>2 DEF AgentEnds, AgentTypeOK
<1>8. ASSUME NEW c \in Conns, NEW x \in Actions, NEW ok \in BOOLEAN, FinishAction(c, x, ok),
             UNCHANGED <<issued, now>>
      PROVE  DeliveryTypeOK'
  <2>1. PICK r : r = Result(x, procs[c].agent, ok)
    OBVIOUS
  <2>2. procs[c].agent \in Agents
    BY <1>8 DEF FinishAction, AgentTypeOK
  <2>3. r \in UpFrame
    BY <2>1, <2>2 DEF Result, UpFrame
  <2>4. Append(up[c], r) \in Seq(UpFrame)
    BY <2>3, AppendProperties DEF AgentTypeOK
  <2>5. up' \in [Conns -> Seq(UpFrame)]
    BY <1>8, <2>1, <2>4 DEF FinishAction, AgentTypeOK
  <2>6. QED BY <1>8, <2>5 DEF FinishAction, AgentTypeOK
<1>9. Tick => DeliveryTypeOK'
  BY <1>1 DEF Tick
<1>10. ASSUME NEW c \in Conns, NEW f \in issued, Deliver(c, f) PROVE DeliveryTypeOK'
  <2>1. f \in Signed /\ UNCHANGED <<issued, now>>
    BY <1>10 DEF Deliver
  <2>2. CASE DropFrame(c, f)
    BY <1>1, <2>1, <2>2 DEF DropFrame
  <2>3. CASE ApplyPolicyUpdate(c, f)
    <3>1. PICK p : p = [version |-> f.version, allow |-> f.allow]
      OBVIOUS
    <3>2. p \in Policy /\ f.agent \in Agents
      BY <2>1, <2>3, <3>1, Frames DEF ApplyPolicyUpdate, Policy
    <3>3. procs' = [procs EXCEPT ![c].policy = p] /\ config' = [config EXCEPT ![f.agent] = p]
          /\ UNCHANGED <<seenActions, executing, executions, up>>
      BY <2>3, <3>1 DEF ApplyPolicyUpdate
    <3>4. procs' \in [Conns -> [phase: {"idle", "running", "ended"}, agent: Agents \cup {NoAgent}, policy: Policy]]
          /\ \A d \in Conns : procs'[d].phase = "running" => procs'[d].agent \in Agents
      BY <3>2, <3>3 DEF AgentTypeOK
    <3>5. config' \in [Agents -> Policy]
      BY <3>2, <3>3 DEF AgentTypeOK
    <3>6. QED BY <2>1, <3>3, <3>4, <3>5 DEF AgentTypeOK
  <2>4. CASE StartAction(c, f)
    <3>1. f.action \in Actions /\ f.deadline \in Nat /\ f.agent \in Agents
      BY <2>1, <2>4, Frames DEF StartAction
    <3>2. Remember(seenActions[c], f) \in Seq(SeenEntry)
      BY <3>1, RememberType DEF AgentTypeOK
    <3>3. seenActions' \in [Conns -> Seq(SeenEntry)]
      BY <2>4, <3>2 DEF StartAction, AgentTypeOK
    <3>4. PICK r : r = Result(f.action, f.agent, FALSE)
      OBVIOUS
    <3>5. r \in UpFrame
      BY <3>1, <3>4 DEF Result, UpFrame
    <3>6. Append(up[c], r) \in Seq(UpFrame)
      BY <3>5, AppendProperties DEF AgentTypeOK
    <3>7. \/ /\ executing' = [executing EXCEPT ![c] = @ \cup {f.action}]
             /\ executions' = [executions EXCEPT ![f.action] = @ + 1]
             /\ up' = up
          \/ up' = [up EXCEPT ![c] = Append(up[c], r)] /\ UNCHANGED <<executing, executions>>
      BY <2>4, <3>4 DEF StartAction
    <3>8. up' \in [Conns -> Seq(UpFrame)]
      BY <3>6, <3>7 DEF AgentTypeOK
    <3>9. executing' \in [Conns -> SUBSET Actions] /\ executions' \in [Actions -> Nat]
      <4>1. /\ [executing EXCEPT ![c] = @ \cup {f.action}] \in [Conns -> SUBSET Actions]
            /\ [executions EXCEPT ![f.action] = @ + 1] \in [Actions -> Nat]
        BY <3>1 DEF AgentTypeOK
      <4>2. QED BY <3>7, <4>1 DEF AgentTypeOK
    <3>10. UNCHANGED <<config, procs>>
      BY <2>4 DEF StartAction
    <3>11. QED BY <2>1, <3>3, <3>8, <3>9, <3>10 DEF AgentTypeOK
  <2>5. QED BY <1>10, <2>2, <2>3, <2>4 DEF Deliver
<1>11. QED BY <1>2, <1>3, <1>4, <1>5, <1>6, <1>7, <1>8, <1>9, <1>10 DEF DeliveryNext

\* An action id is signed for once.
LEMMA SignedStep ==
    ASSUME SignedOnce, [DeliveryNext]_deliveryVars
    PROVE  SignedOnce'
<1>1. ASSUME NEW x \in Actions, NEW a \in Agents, NEW v \in 1..MaxVersion, NEW d \in now..MaxTime,
             IssueRequest(x, a, v, d)
      PROVE  SignedOnce'
  <2>1. PICK r : r = Request(x, a, v, d)
    OBVIOUS
  <2>2. r.action = x
    BY <2>1 DEF Request
  <2>3. issued' = issued \cup {r} /\ \A f \in issued : f.type = "action.request" => f.action # x
    BY <1>1, <2>1 DEF IssueRequest
  <2>4. QED BY <2>2, <2>3 DEF SignedOnce, Asks
<1>2. ASSUME NEW a \in Agents, NEW v \in 1..MaxVersion, NEW allow \in BOOLEAN, IssueUpdate(a, v, allow)
      PROVE  SignedOnce'
  <2>1. PICK u : u = Update(a, v, allow)
    OBVIOUS
  <2>2. u.type # "action.request"
    BY <2>1 DEF Update
  <2>3. issued' = issued \cup {u}
    BY <1>2, <2>1 DEF IssueUpdate
  <2>4. QED BY <2>2, <2>3 DEF SignedOnce, Asks
<1>3. ASSUME issued' = issued PROVE SignedOnce'
  BY <1>3 DEF SignedOnce
<1>4. QED BY <1>1, <1>2, <1>3 DEF DeliveryNext, Deliver, Enrolled, Tick, deliveryVars

-----------------------------------------------------------------------------
(* What a run remembers. *)

\* A started request: what the run remembered before the deadline, it still remembers.
LEMMA StartRemembers ==
    ASSUME FewActions, DeliveryTypeOK, Memory, NEW c \in Conns, NEW f \in issued, StartAction(c, f),
           UNCHANGED <<issued, now>>
    PROVE  /\ \A d \in Conns : MemoryOf(d)'
           /\ Seen(c, f.action)'
           /\ \A d \in Conns, x \in Actions : Seen(d, x) => Seen(d, x)' \/ Expired(x)'
<1>1. /\ f \in Signed /\ f.type = "action.request" /\ Acceptable(c, f) /\ procs[c].phase = "running"
      /\ seenActions' = [seenActions EXCEPT ![c] = Remember(seenActions[c], f)]
      /\ procs' = procs
  BY DEF StartAction, DeliveryTypeOK
<1>2. f.action \in Actions /\ f.deadline \in Nat
  BY <1>1, Frames
<1>3. PICK seen \in Seq(SeenEntry) : seen = seenActions[c]
  BY DEF DeliveryTypeOK, AgentTypeOK
<1>4. PICK e : e = [action |-> f.action, deadline |-> f.deadline]
  OBVIOUS
<1>5. e \in SeenEntry /\ e.action = f.action /\ e.deadline = f.deadline
  BY <1>2, <1>4 DEF SeenEntry
<1>6. Distinct(seen) /\ \A i \in 1..Len(seen) : seen[i].action # f.action
  BY <1>1, <1>3 DEF Memory, MemoryOf, Acceptable, Seen
<1>7. PICK t : t = Remember(seen, f)
  OBVIOUS
<1>8. /\ t \in Seq(SeenEntry) /\ Distinct(t)
      /\ \A i \in 1..Len(t) : t[i] = e \/ \E j \in 1..Len(seen) : t[i] = seen[j]
      /\ \E i \in 1..Len(t) : t[i] = e
      /\ \A j \in 1..Len(seen) : seen[j].deadline > now => \E i \in 1..Len(t) : t[i] = seen[j]
  <2>1. now \in Nat
    BY DEF DeliveryTypeOK
  <2>2. QED BY <1>4, <1>5, <1>6, <1>7, <2>1, Remembered
<1>9. seenActions'[c] = t /\ \A d \in Conns : d # c => seenActions'[d] = seenActions[d]
  BY <1>1, <1>3, <1>7 DEF DeliveryTypeOK, AgentTypeOK
<1>10. executing \in [Conns -> SUBSET Actions]
       /\ (executing' = executing \/ executing' = [executing EXCEPT ![c] = @ \cup {f.action}])
  BY DEF StartAction, DeliveryTypeOK, AgentTypeOK
<1>11. \A i \in 1..Len(seen) : \E g \in issued : Asks(g, seen[i].action) /\ g.deadline = seen[i].deadline
  BY <1>3 DEF Memory, MemoryOf
<1>12. ASSUME NEW d \in Conns PROVE MemoryOf(d)'
  <2>1. CASE d = c
    <3>1. \A i \in 1..Len(t) : \E g \in issued : Asks(g, t[i].action) /\ g.deadline = t[i].deadline
      <4>1. ASSUME NEW i \in 1..Len(t)
            PROVE  \E g \in issued : Asks(g, t[i].action) /\ g.deadline = t[i].deadline
        <5>1. CASE t[i] = e
          BY <1>1, <1>5, <5>1 DEF Asks
        <5>2. CASE t[i] # e
          <6>1. PICK j \in 1..Len(seen) : t[i] = seen[j]
            BY <1>8, <5>2
          <6>2. QED BY <1>11, <6>1
        <5>3. QED BY <5>1, <5>2
      <4>2. QED BY <4>1
    <3>2. seenActions'[d] = t /\ issued' = issued /\ procs'[d].phase = "running"
      BY <1>1, <1>9, <2>1
    <3>3. Distinct(seenActions[d])'
      BY <1>8, <3>2 DEF Distinct
    <3>4. \A i \in 1..Len(seenActions'[d]) : \E g \in issued' :
             Asks(g, seenActions'[d][i].action) /\ g.deadline = seenActions'[d][i].deadline
      BY <3>1, <3>2
    <3>5. QED BY <3>2, <3>3, <3>4 DEF MemoryOf, Asks
  <2>2. CASE d # c
    <3>1. seenActions'[d] = seenActions[d] /\ executing'[d] = executing[d]
      BY <1>9, <1>10, <2>2
    <3>2. QED BY <1>1, <3>1 DEF Memory, MemoryOf, Asks
  <2>3. QED BY <2>1, <2>2
<1>13. Seen(c, f.action)'
  BY <1>5, <1>8, <1>9 DEF Seen
<1>14. ASSUME NEW d \in Conns, NEW x \in Actions, Seen(d, x) PROVE Seen(d, x)' \/ Expired(x)'
  <2>1. CASE d # c
    BY <1>9, <1>14, <2>1 DEF Seen
  <2>2. CASE d = c
    <3>1. PICK j \in 1..Len(seen) : seen[j].action = x
      BY <1>3, <1>14, <2>2 DEF Seen
    <3>2. CASE seen[j].deadline > now
      BY <1>8, <1>9, <2>2, <3>1, <3>2 DEF Seen
    <3>3. CASE ~(seen[j].deadline > now)
      <4>1. PICK g \in issued : Asks(g, x) /\ g.deadline = seen[j].deadline
        BY <1>11, <3>1
      <4>2. seen[j] \in SeenEntry /\ now \in Nat
        BY DEF DeliveryTypeOK
      <4>3. seen[j].deadline \in Nat
        BY <4>2 DEF SeenEntry
      <4>4. g.deadline <= now
        BY <3>3, <4>1, <4>2, <4>3
      <4>5. QED BY <4>1, <4>4 DEF Expired, Asks
    <3>4. QED BY <3>2, <3>3
  <2>3. QED BY <2>1, <2>2
<1>15. QED BY <1>12, <1>13, <1>14

\* The other steps add no ids, and a deadline that has come stays so.
LEMMA ForgetfulRemembers ==
    ASSUME DeliveryTypeOK, Memory, Forgetful
    PROVE  /\ \A d \in Conns : MemoryOf(d)'
           /\ \A d \in Conns, x \in Actions : Seen(d, x) => Seen(d, x)'
           /\ \A x \in Actions : Expired(x) => Expired(x)'
<1>1. ASSUME NEW x \in Actions, Expired(x) PROVE Expired(x)'
  <2>1. PICK g \in issued : Asks(g, x) /\ g.deadline <= now
    BY <1>1 DEF Expired
  <2>2. g.deadline \in Nat /\ now \in Nat
    BY <2>1, Frames DEF Asks, DeliveryTypeOK
  <2>3. g \in issued' /\ g.deadline <= now'
    BY <2>1, <2>2 DEF Forgetful
  <2>4. QED BY <2>1, <2>3 DEF Expired, Asks
<1>2. ASSUME NEW d \in Conns PROVE MemoryOf(d)'
  <2>1. seenActions'[d] = seenActions[d] /\ executing'[d] \subseteq executing[d] /\ issued \subseteq issued'
    BY DEF Forgetful
  <2>2. procs'[d].phase # "running" => procs[d].phase # "running"
    BY DEF Forgetful
  <2>3. Distinct(seenActions[d]) /\ (procs[d].phase # "running" => seenActions[d] = <<>> /\ executing[d] = {})
    BY DEF Memory, MemoryOf
  <2>4. \A i \in 1..Len(seenActions[d]) : \E g \in issued :
           Asks(g, seenActions[d][i].action) /\ g.deadline = seenActions[d][i].deadline
    BY DEF Memory, MemoryOf
  <2>5. QED BY <2>1, <2>2, <2>3, <2>4 DEF MemoryOf, Asks
<1>3. QED BY <1>1, <1>2 DEF Forgetful, Seen

\* A run that ends forgets everything, and executes nothing.
LEMMA EndForgets ==
    ASSUME DeliveryTypeOK, Memory, NEW c \in Conns, AgentEnds(c), UNCHANGED <<issued, now>>
    PROVE  /\ \A d \in Conns : MemoryOf(d)'
           /\ executing'[c] = {} /\ procs'[c].phase = "ended"
           /\ \A d \in Conns : d # c =>
                 seenActions'[d] = seenActions[d] /\ executing'[d] = executing[d] /\ procs'[d] = procs[d]
<1>1. /\ procs' = [procs EXCEPT ![c].phase = "ended"]
      /\ executing' = [executing EXCEPT ![c] = {}] /\ seenActions' = [seenActions EXCEPT ![c] = <<>>]
  BY DEF AgentEnds
<1>2. /\ executing'[c] = {} /\ seenActions'[c] = <<>> /\ procs'[c].phase = "ended"
      /\ \A d \in Conns : d # c =>
            seenActions'[d] = seenActions[d] /\ executing'[d] = executing[d] /\ procs'[d] = procs[d]
  BY <1>1 DEF DeliveryTypeOK, AgentTypeOK
<1>3. MemoryOf(c)'
  BY <1>2 DEF MemoryOf, Distinct
<1>4. ASSUME NEW d \in Conns, d # c PROVE MemoryOf(d)'
  BY <1>2, <1>4 DEF Memory, MemoryOf, Asks
<1>5. QED BY <1>2, <1>3, <1>4

-----------------------------------------------------------------------------
(* The theorems. *)

\* A run remembers what it executes until the deadline: every step.
LEMMA ExecutingStep ==
    ASSUME FewActions, DeliveryInv, [DeliveryNext]_deliveryVars
    PROVE  ExecutingIsRemembered'
<1>1. DeliveryTypeOK /\ Memory /\ executing \in [Conns -> SUBSET Actions]
  BY DEF DeliveryInv, DeliveryTypeOK, AgentTypeOK
<1>2. \A c \in Conns : \A x \in executing[c] : Seen(c, x) \/ Expired(x)
  BY DEF DeliveryInv, ExecutingIsRemembered, Expired, Asks
<1>3. SUFFICES ASSUME NEW c \in Conns, NEW x \in executing'[c] PROVE Seen(c, x)' \/ Expired(x)'
  BY DEF ExecutingIsRemembered, Expired, Asks
<1>4. CASE Forgetful
  <2>1. x \in executing[c] /\ x \in Actions
    BY <1>1, <1>3, <1>4 DEF Forgetful
  <2>2. QED BY <1>1, <1>2, <1>4, <2>1, ForgetfulRemembers
<1>5. ASSUME NEW d \in Conns, NEW f \in issued, StartAction(d, f), UNCHANGED <<issued, now>>
      PROVE  Seen(c, x)' \/ Expired(x)'
  <2>1. executing' = executing \/ executing' = [executing EXCEPT ![d] = @ \cup {f.action}]
    BY <1>5 DEF StartAction
  <2>2. x \in executing[c] \/ (c = d /\ x = f.action)
    BY <1>1, <1>3, <2>1
  <2>3. CASE c = d /\ x = f.action
    BY <1>1, <1>5, <2>3, StartRemembers
  <2>4. CASE x \in executing[c]
    <3>1. x \in Actions /\ (Seen(c, x) \/ Expired(x))
      BY <1>1, <1>2, <2>4
    <3>2. Expired(x) => Expired(x)'
      BY <1>5 DEF Expired
    <3>3. QED BY <1>1, <1>5, <3>1, <3>2, StartRemembers
  <2>5. QED BY <2>2, <2>3, <2>4
<1>6. ASSUME NEW d \in Conns, AgentEnds(d), UNCHANGED <<issued, now>> PROVE Seen(c, x)' \/ Expired(x)'
  <2>1. c # d /\ x \in executing[c] /\ seenActions'[c] = seenActions[c]
    BY <1>1, <1>3, <1>6, EndForgets
  <2>2. QED BY <1>2, <1>6, <2>1 DEF Seen, Expired
<1>7. QED BY <1>1, <1>4, <1>5, <1>6, DeliverySteps

LEMMA DeliveryStep ==
    ASSUME FewActions, DeliveryInv, [DeliveryNext]_deliveryVars
    PROVE  DeliveryInv'
<1>1. DeliveryTypeOK /\ SignedOnce /\ Memory
  BY DEF DeliveryInv
<1>2. Memory'
  BY <1>1, DeliverySteps, ForgetfulRemembers, StartRemembers, EndForgets DEF Memory
<1>3. QED BY <1>1, <1>2, DeliveryTypeStep, SignedStep, ExecutingStep DEF DeliveryInv

LEMMA DeliveryStart == DeliveryInit => DeliveryInv
<1> SUFFICES ASSUME DeliveryInit PROVE DeliveryInv
  OBVIOUS
<1>1. NotEnrolled \in Policy
  BY DEF NotEnrolled, Policy
<1>2. DeliveryTypeOK
  BY <1>1 DEF DeliveryInit, AgentInit, DeliveryTypeOK, AgentTypeOK, NoProc
<1>3. Memory
  BY DEF DeliveryInit, AgentInit, Memory, MemoryOf, Distinct
<1>4. QED BY <1>2, <1>3 DEF DeliveryInv, DeliveryInit, AgentInit, SignedOnce, ExecutingIsRemembered

\* Whatever the network repeats, delays and reorders, and however many runs there are:
\* seenActions holds each id once, with the deadline that was signed, and a run that
\* executes an action remembers it until the deadline (ExecutingIsRemembered).
THEOREM DeliveryInvariant ==
    ASSUME FewActions
    PROVE  DeliverySpec => []DeliveryInv
BY DeliveryStart, DeliveryStep, PTL DEF DeliverySpec

\* A single run remembers what it started: every step.
LEMMA StartedStep ==
    ASSUME FewActions, \A c, d \in Conns : c = d, DeliveryInv, StartedIsRemembered,
           [DeliveryNext]_deliveryVars
    PROVE  StartedIsRemembered'
<1>1. DeliveryTypeOK /\ Memory /\ executions \in [Actions -> Nat]
  BY DEF DeliveryInv, DeliveryTypeOK, AgentTypeOK
<1>2. SUFFICES ASSUME NEW c \in Conns, NEW x \in Actions, executions'[x] > 0
               PROVE  \/ procs'[c].phase = "ended"
                      \/ procs'[c].phase = "running" /\ (Seen(c, x)' \/ Expired(x)')
  BY DEF StartedIsRemembered
<1>3. CASE Forgetful
  <2>1. \/ procs[c].phase = "ended"
        \/ procs[c].phase = "running" /\ (Seen(c, x) \/ Expired(x))
    BY <1>2, <1>3 DEF StartedIsRemembered, Forgetful
  <2>2. procs'[c].phase = procs[c].phase
    BY <1>3, <2>1 DEF Forgetful
  <2>3. QED BY <1>1, <1>3, <2>1, <2>2, ForgetfulRemembers
<1>4. ASSUME NEW d \in Conns, NEW f \in issued, StartAction(d, f), UNCHANGED <<issued, now>>
      PROVE  procs'[c].phase = "running" /\ (Seen(c, x)' \/ Expired(x)')
  <2>1. c = d /\ procs[c].phase = "running" /\ procs' = procs
        /\ (executions' = executions \/ executions' = [executions EXCEPT ![f.action] = @ + 1])
    BY <1>4 DEF StartAction
  <2>2. x = f.action \/ executions[x] > 0
    BY <1>1, <1>2, <2>1
  <2>3. CASE x = f.action
    BY <1>1, <1>4, <2>1, <2>3, StartRemembers
  <2>4. CASE executions[x] > 0
    <3>1. Seen(c, x) \/ Expired(x)
      BY <2>1, <2>4 DEF StartedIsRemembered
    <3>2. Expired(x) => Expired(x)'
      BY <1>4 DEF Expired
    <3>3. QED BY <1>1, <1>4, <2>1, <3>1, <3>2, StartRemembers
  <2>5. QED BY <2>2, <2>3, <2>4
<1>5. ASSUME NEW d \in Conns, AgentEnds(d), UNCHANGED <<issued, now>> PROVE procs'[c].phase = "ended"
  <2>1. c = d
    OBVIOUS
  <2>2. QED BY <1>1, <1>5, <2>1, EndForgets
<1>6. QED BY <1>1, <1>3, <1>4, <1>5, DeliverySteps

\* A run never starts an action twice before the instant of its deadline, nor at all after
\* it (NoRepeatBeforeDeadline), however often and whenever its request is delivered, as long
\* as seenActions is not cut.  Another run starts with an empty Map, so there is one run.
THEOREM NeverRepeated ==
    ASSUME FewActions, \A c, d \in Conns : c = d
    PROVE  DeliverySpec => NoRepeatBeforeDeadline
<1> DEFINE Once == \A f \in issued : f.type = "action.request" =>
         (executions'[f.action] > executions[f.action]
            => /\ now <= f.deadline
               /\ \/ executions[f.action] = 0
                  \/ now = f.deadline)
<1>1. DeliveryInit => StartedIsRemembered
  BY DEF DeliveryInit, AgentInit, StartedIsRemembered
<1>2. DeliveryInv /\ StartedIsRemembered /\ [DeliveryNext]_deliveryVars => StartedIsRemembered'
  BY StartedStep
<1>3. DeliveryInv /\ StartedIsRemembered /\ [DeliveryNext]_deliveryVars => [Once]_deliveryVars
  <2>1. SUFFICES ASSUME DeliveryInv, StartedIsRemembered, [DeliveryNext]_deliveryVars,
                        NEW f \in issued, f.type = "action.request",
                        executions'[f.action] > executions[f.action]
                 PROVE  now <= f.deadline /\ (executions[f.action] = 0 \/ now = f.deadline)
    OBVIOUS
  <2>2. DeliveryTypeOK /\ SignedOnce /\ executions \in [Actions -> Nat] /\ now \in Nat /\ f \in Signed
    BY <2>1 DEF DeliveryInv, DeliveryTypeOK, AgentTypeOK
  <2>3. f.action \in Actions /\ f.deadline \in Nat
    BY <2>1, <2>2, Frames
  <2>4. executions[f.action] \in Nat
    BY <2>2, <2>3
  <2>5. executions' # executions
    BY <2>1, <2>4
  <2>6. PICK c \in Conns, g \in issued : StartAction(c, g)
    BY <2>1, <2>2, <2>5, DeliverySteps DEF Forgetful, AgentEnds
  <2>7. executions' = [executions EXCEPT ![g.action] = @ + 1] /\ procs[c].phase = "running"
        /\ g.type = "action.request" /\ Acceptable(c, g)
    BY <2>5, <2>6 DEF StartAction
  <2>8. g = f
    <3>1. g.action = f.action
      BY <2>1, <2>2, <2>3, <2>4, <2>7
    <3>2. QED BY <2>1, <2>2, <2>7, <3>1 DEF SignedOnce, Asks
  <2>9. now <= f.deadline /\ ~Seen(c, f.action)
    BY <2>2, <2>3, <2>7, <2>8 DEF Acceptable
  <2>10. CASE executions[f.action] > 0
    <3>1. Expired(f.action)
      BY <2>1, <2>3, <2>7, <2>9, <2>10 DEF StartedIsRemembered
    <3>2. f.deadline <= now
      <4>1. PICK h \in issued : Asks(h, f.action) /\ h.deadline <= now
        BY <3>1 DEF Expired
      <4>2. h = f
        BY <2>1, <2>2, <4>1 DEF SignedOnce
      <4>3. QED BY <4>1, <4>2
    <3>3. QED BY <2>2, <2>3, <2>9, <3>2
  <2>11. QED BY <2>4, <2>9, <2>10
<1>4. QED BY <1>1, <1>2, <1>3, DeliveryInvariant, PTL DEF DeliverySpec, NoRepeatBeforeDeadline

=============================================================================
