--------------------------- MODULE MCAuthorization ---------------------------
(***************************************************************************)
(* A small instance of Authorization for TLC: overlapping logins, and,     *)
(* once two have ended, the requests made with their tokens and the agents *)
(* these create.                                                           *)
(***************************************************************************)
EXTENDS Authorization, TLC

\* A request without a scope, one for administration and files.
MCAskedScopes == {{}, {"agents:admin", "files:read"}}

\* A hello whose agent's clock is one unit behind.
MCStamp == [n \in Nonces |-> -1]

\* A policy that opens files under a directory and keeps one part of it closed.
MCPolicyPatches ==
    {[capabilities |-> [c \in {"files.read"} |-> TRUE],
      allowPaths |-> {<<"", "srv">>, <<"opt">>},
      denyPaths |-> {<<"", "srv", "b", "..", "keys", "">>, <<"", "srv", "a\\b">>}]}

\* The one segment with a backslash.
MCPieces == [s \in {"a\\b"} |-> <<"a", "b">>]

\* Spellings that start in one directory and end in another, a relative path and one with a
\* backslash.
MCTargets ==
    {[kind |-> "path", path |-> p] :
        p \in {<<"", "tmp", "x">>, <<"", "tmp", "..", "etc", "x">>, <<"", "srv", ".", "keys">>,
               <<"", "srv", "a", "..", "keys">>, <<"", "srv", "a">>, <<"", "srv", "a", "b">>,
               <<"", "etc", "..", "..", "tmp">>, <<"", "">>, <<"opt", "x">>, <<"", "srv", "a\\b">>}}
    \cup {[kind |-> "name", name |-> "unit"]}

\* Two logins of one client ended at once: of two administrators, or of one user as
\* administrator and for nothing in particular.
LoggedIn ==
    /\ Registered = {CHOOSE c \in Clients : TRUE}
    /\ Cardinality(grants) = 2
    /\ \A g \in grants : g.verifier = (CHOOSE v \in Verifiers : TRUE) /\ g.issuedAt = 0
    /\ \E g, h \in grants :
          /\ g # h /\ "agents:admin" \in g.scopes
          /\ "agents:admin" \in h.scopes <=> g.user # h.user

\* How often an agent's policy has changed, and whether the first one was read-only.
Changes(a) == IF stored[a] = {} THEN 0 ELSE Cardinality({c.version : c \in stored[a]}) - 1
StartsReadOnly(a) == CreateAgentPolicy("read-only") \in {c.policy : c \in stored[a]}

\* Two users with two agents of one profile, none enrolled, until the tokens have expired.
TwoUsers ==
    /\ \E g, h \in grants : g.user # h.user
    /\ now <= TokenTtl
    /\ \A a \in Agents : held[a] = None /\ Changes(a) <= MaxVersion - 2
    /\ \A a \in Agents : ~StartsReadOnly(a)

\* One user with one agent, which may be enrolled and connected, and one action on its way;
\* a policy that starts read-only changes once.
OneUser ==
    /\ \A g, h \in grants : g.user = h.user
    /\ now = 0
    /\ \E a \in Agents : owned[a] = None
    /\ \A a \in Agents : StartsReadOnly(a) => Changes(a) <= 1
    /\ \A a \in Agents :
          Cardinality({i \in DOMAIN frames[a] : frames[a][i].type = "action.request"}) <= 1

\* Bound: a hello comes beside one login at most, and requests are made after two.
Bounded ==
    /\ (\E n \in Nonces : greeted[n] # None) => Cardinality({t \in Txns : asked[t] # None}) <= 1
    /\ (\E q \in Requests : requests[q] # None) \/ (\E a \in Agents : owned[a] # None) =>
          LoggedIn /\ (TwoUsers \/ OneUser)
MCSpec == AuthInit /\ [][AuthNext /\ Bounded']_authVars

\* Transactions, callbacks, codes, the allowed accounts and requests are only compared.
Symmetry == Permutations(Txns) \cup Permutations(Callbacks) \cup Permutations(Codes)
            \cup Permutations(Logins) \cup Permutations(Requests)
=============================================================================
