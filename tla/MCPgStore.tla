----------------------------- MODULE MCPgStore -----------------------------
(* Small instances of PgStore for TLC. *)
EXTENDS PgStore, TLC

\* A root (2) with two delegates whose ids sort before and after it: lineages
\* overlap, and id order is not lineage order.
Siblings == [t \in {1, 2, 3} |-> IF t = 2 THEN {} ELSE {2}]

\* The delegates' budgets are wider than the root's.
RootOne == [t \in {1, 2, 3} |-> IF t = 2 THEN 1 ELSE 2]

\* One call through each delegate's only scope; the root has none.
DelegateScopes == [t \in {1, 2, 3} |-> IF t = 2 THEN <<>> ELSE <<1>>]

=============================================================================
