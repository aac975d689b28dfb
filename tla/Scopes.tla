------------------------------- MODULE Scopes -------------------------------
(***************************************************************************)
(* The scope algebra of internal/token/scope.go: what a scope admits, the  *)
(* intersection of two scopes, and the attenuation of a list of scopes by  *)
(* another.                                                                *)
(*                                                                         *)
(* A scope is kept as the set of calls it admits, its budget and its       *)
(* approval flag: token.Scope with patterns and argument constraints       *)
(* replaced by their meaning.                                              *)
(***************************************************************************)
EXTENDS Integers, Sequences, FiniteSets

CONSTANT Calls    \* concrete tool calls (tool, resource, args)

Scope == [calls : SUBSET Calls, maxCalls : Nat, approval : BOOLEAN]

EmptyScope == [calls |-> {}, maxCalls |-> 0, approval |-> FALSE]

Least(a, b) == IF a <= b THEN a ELSE b

\* Mutant: the parent's approval flag is lost.
IntersectRequestedApproval(a, b) ==
    LET both == a.calls \cap b.calls
        mc   == Least(a.maxCalls, b.maxCalls)
    IN  IF both = {} \/ mc <= 0
        THEN EmptyScope
        ELSE [calls |-> both, maxCalls |-> mc, approval |-> a.approval]

\* The calls both scopes admit, the smaller budget, either approval flag; the
\* zero Scope when nothing is left.
Intersect(a, b) ==
    LET both == a.calls \cap b.calls
        mc   == Least(a.maxCalls, b.maxCalls)
    IN  IF both = {} \/ mc <= 0
        THEN EmptyScope
        ELSE [calls |-> both, maxCalls |-> mc, approval |-> a.approval \/ b.approval]

\* Every requested scope with every parent scope, requested scopes outermost.
\* The code drops an empty intersection; here its place keeps the zero Scope,
\* which admits no call and has no budget, so that places are plain arithmetic.
Attenuate(parent, requested) ==
    [k \in 1 .. Len(requested) * Len(parent) |->
        Intersect(requested[((k - 1) \div Len(parent)) + 1],
                  parent[((k - 1) % Len(parent)) + 1])]

Vacant(scopes) == \A i \in DOMAIN scopes : scopes[i].calls = {}

ValidScopes(scopes) == \A i \in DOMAIN scopes : scopes[i].maxCalls > 0

Admitting(scopes, call) == {i \in DOMAIN scopes : call \in scopes[i].calls}

\* The first scope that admits the call; 0 stands for the code's -1.
FirstMatch(scopes, call) ==
    IF Admitting(scopes, call) = {}
    THEN 0
    ELSE CHOOSE i \in Admitting(scopes, call) :
            \A j \in Admitting(scopes, call) : i <= j

\* The sum of the scopes' budgets, as the number of (scope, call) slots.
sumCalls(scopes) ==
    Cardinality(UNION {{i} \X (1 .. scopes[i].maxCalls) : i \in DOMAIN scopes})

=============================================================================
