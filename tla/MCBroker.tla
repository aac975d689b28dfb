------------------------------ MODULE MCBroker ------------------------------
(* Small instances of Broker for TLC. *)
EXTENDS Broker, TLC

CONSTANTS alice, bob,   \* workload instances
          c1, c2        \* tool calls

S(calls, n, apr) == [calls |-> calls, maxCalls |-> n, approval |-> apr]

\* Overlapping scopes of which the first allows one call.
OneThenTwo == {<<S({c1}, 1, FALSE), S({c1}, 2, FALSE)>>}

\* Overlapping scopes of which only the narrower needs an approval.
Overlap == <<S({c1}, 1, TRUE), S({c1, c2}, 1, FALSE)>>

\* A client may also leave the approval out of what it asks for.
OrUnapproved == {Overlap, <<S({c1}, 1, FALSE)>>}

\* "max_calls": -1 asks for no particular budget.
Negative == {-1}

\* Depths and ttls nobody may get: below nothing and over the configured limit.
OddDepths == {-1, 2}
OddTTLs == {-1, 1, 3}

\* A policy that permits everything.
PermitAll(action, sub, human, depth, object, time) == TRUE

\* A policy whose hours end with the first tick, and that lets delegates make
\* no other call than c1.
PermitInHours(action, sub, human, depth, object, time) ==
    time = 0 /\ (action = "call" /\ object # c1 => depth = 0)

NoRaise(sub, human, scope, time) == 0

\* Ids are drawn at random and requests are alike.
Symmetry == Permutations(TokenIds) \cup Permutations(Requests) \cup Permutations(ApprovalIds)

=============================================================================
