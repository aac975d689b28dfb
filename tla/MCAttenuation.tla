--------------------------- MODULE MCAttenuation ---------------------------
(* Small instances of Attenuation for TLC. *)
EXTENDS Attenuation, TLC

CONSTANTS k1, k2, c1, c2

S(calls, n, apr) == [calls |-> calls, maxCalls |-> n, approval |-> apr]

\* Overlapping scopes: c1 needs an approval through the first, which decides.
Overlapping == <<S({c1}, 1, TRUE), S({c1, c2}, 2, FALSE)>>

Wide == <<S({c1, c2}, 2, FALSE)>>

Reversed == <<S({c2}, 2, FALSE), S({c1, c2}, 1, FALSE)>>

B(scopes, exp, cnf, sig) == [scopes |-> scopes, exp |-> exp, cnf |-> cnf, sig |-> sig]

\* A holder-bound token, and a wider bearer token that expires sooner.
TwoBases == {B(Overlapping, 3, k1, 0), B(Wide, 1, None, -1)}

AnyScopes == {<<>>, Reversed}

=============================================================================
