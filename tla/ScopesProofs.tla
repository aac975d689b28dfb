---------------------------- MODULE ScopesProofs ----------------------------
(***************************************************************************)
(* The scope algebra, for scope lists of any length: what Attenuate,       *)
(* FirstMatch and sumCalls return, and that the scope which decides a call *)
(* after Attenuate comes from the one that decided it before.  The broker  *)
(* and the offline chains rest on these lemmas.                            *)
(***************************************************************************)
EXTENDS Scopes, FiniteSetTheorems, NaturalsInduction, WellFoundedInduction, TLAPS

-----------------------------------------------------------------------------
(* Lists of scopes *)

\* Places of Attenuate's result name a requested and a parent scope.
LEMMA PlaceInRange ==
    ASSUME NEW n \in Nat, NEW m \in Nat, NEW k \in 1 .. n * m
    PROVE  /\ ((k - 1) \div m) + 1 \in 1 .. n
           /\ ((k - 1) % m) + 1 \in 1 .. m
<1>1. n * m \in Nat /\ k - 1 \in Nat /\ k - 1 < n * m
  OBVIOUS
<1>2. m > 0
  <2>1. m = 0 => n * m = 0
    OBVIOUS
  <2> QED BY <1>1, <2>1
<1> DEFINE d == (k - 1) \div m
           e == (k - 1) % m
<1>3. e \in 0 .. (m - 1) /\ d \in Int /\ k - 1 = m * d + e
  BY <1>1, <1>2
<1>4. d >= 0
  <2>1. d <= -1 => m * d <= -m
    BY <1>2, <1>3
  <2> QED BY <1>1, <1>3, <2>1
<1>5. d < n
  <2>1. d >= n => m * d >= m * n
    BY <1>2, <1>3
  <2> QED BY <1>1, <1>3, <2>1
<1> QED BY <1>3, <1>4, <1>5

\* Two scopes leave a scope.
LEMMA IntersectType ==
    ASSUME NEW a \in Scope, NEW b \in Scope
    PROVE  Intersect(a, b) \in Scope
BY DEF Intersect, Scope, EmptyScope, Least

\* Attenuate returns a list of scopes.
LEMMA AttenuateType ==
    ASSUME NEW parent \in Seq(Scope), NEW asked \in Seq(Scope)
    PROVE  Attenuate(parent, asked) \in Seq(Scope)
<1> DEFINE n == Len(asked) * Len(parent)
<1>1. n \in Nat
  OBVIOUS
<1>2. ASSUME NEW a \in Scope, NEW b \in Scope PROVE Intersect(a, b) \in Scope
  BY IntersectType
<1>3. \A k \in 1 .. n : Attenuate(parent, asked)[k] \in Scope
  <2> TAKE k \in 1 .. n
  <2>1. /\ ((k - 1) \div Len(parent)) + 1 \in 1 .. Len(asked)
        /\ ((k - 1) % Len(parent)) + 1 \in 1 .. Len(parent)
    BY PlaceInRange
  <2> QED BY <1>2, <2>1 DEF Attenuate
<1> QED BY <1>1, <1>3 DEF Attenuate

\* The sum of the scopes' budgets is a natural number.
LEMMA sumCallsType ==
    ASSUME NEW scopes \in Seq(Scope)
    PROVE  sumCalls(scopes) \in Nat
<1> DEFINE slots(i) == {i} \X (1 .. scopes[i].maxCalls)
           S == {slots(i) : i \in DOMAIN scopes}
<1>1. \A i \in DOMAIN scopes : IsFiniteSet(slots(i))
  <2> TAKE i \in DOMAIN scopes
  <2>1. scopes[i] \in Scope
    OBVIOUS
  <2>2. scopes[i].maxCalls \in Nat
    BY <2>1 DEF Scope
  <2>3. IsFiniteSet(1 .. scopes[i].maxCalls)
    BY <2>2, FS_Interval
  <2>4. IsFiniteSet({i})
    BY FS_Singleton
  <2> QED BY <2>3, <2>4, FS_Product
<1>2. IsFiniteSet(DOMAIN scopes)
  <2>1. DOMAIN scopes = 1 .. Len(scopes) /\ Len(scopes) \in Nat
    OBVIOUS
  <2> QED BY <2>1, FS_Interval
<1>3. IsFiniteSet(S)
  <2> DEFINE f == [i \in DOMAIN scopes |-> slots(i)]
  <2>1. f \in Surjection(DOMAIN scopes, S)
    BY DEF Surjection
  <2> HIDE DEF f, S
  <2> QED BY <1>2, <2>1, FS_Surjection
<1>4. IsFiniteSet(UNION S)
  <2> HIDE DEF slots
  <2>1. \A x \in S : IsFiniteSet(x)
    BY <1>1
  <2> QED BY <1>3, <2>1, FS_UNION
<1>5. Cardinality(UNION S) \in Nat
  BY <1>4, FS_CardinalityType
<1> QED BY <1>5 DEF sumCalls

\* A nonempty set of naturals has a least element.
LEMMA LeastOf ==
    ASSUME NEW S \in SUBSET Nat, S # {}
    PROVE  \E i \in S : \A j \in S : i <= j
<1> DEFINE R == OpToRel(<, Nat)
<1>1. IsWellFoundedOn(R, Nat)
  BY NatLessThanWellFounded
<1>2. \A i, j \in Nat : j < i => <<j, i>> \in R
  BY Zenon DEF OpToRel
<1> HIDE DEF R
<1>3. PICK i \in S : \A j \in S : <<j, i>> \notin R
  BY <1>1, WFMin
<1>4. \A j \in S : ~(j < i)
  BY <1>2, <1>3
<1> QED BY <1>3, <1>4

\* FirstMatch returns the smallest place whose scope admits the call, or 0.
LEMMA FirstMatchLeast ==
    ASSUME NEW scopes \in Seq(Scope), NEW call
    PROVE  LET i == FirstMatch(scopes, call)
           IN  /\ i \in Nat
               /\ i = 0 <=> Admitting(scopes, call) = {}
               /\ i > 0 => /\ i \in Admitting(scopes, call)
                           /\ \A j \in Admitting(scopes, call) : i <= j
<1> DEFINE A == Admitting(scopes, call)
<1>1. A \subseteq Nat \ {0}
  BY DEF Admitting
<1>2. CASE A = {}
  BY <1>2 DEF FirstMatch
<1>3. CASE A # {}
  <2>1. \E i \in A : \A j \in A : i <= j
    <3> HIDE DEF A
    <3> QED BY <1>1, <1>3, LeastOf
  <2> QED BY <1>1, <1>3, <2>1 DEF FirstMatch
<1> QED BY <1>2, <1>3

-----------------------------------------------------------------------------
(* Attenuate, place by place *)

\* The requested and the parent scope at place k of Attenuate's result, when
\* the parent has m scopes, the place of requested scope q with parent scope
\* j, and all the places.
AskedAt(k, m) == ((k - 1) \div m) + 1
ParentAt(k, m) == ((k - 1) % m) + 1
Place(q, j, m) == (q - 1) * m + j
Places(n, m) == 1 .. n * m

\* Place is the inverse of AskedAt and ParentAt.
LEMMA PlaceOf ==
    ASSUME NEW n \in Nat, NEW m \in Nat, NEW q \in 1 .. n, NEW j \in 1 .. m
    PROVE  /\ Place(q, j, m) \in Places(n, m)
           /\ AskedAt(Place(q, j, m), m) = q
           /\ ParentAt(Place(q, j, m), m) = j
<1> DEFINE k == Place(q, j, m)
<1>1. PICK u \in Nat : u = q - 1
  OBVIOUS
<1>2. u * m \in Nat /\ n * m \in Nat /\ u * m = m * u
  OBVIOUS
<1>3. u * m + m <= n * m
  <2>1. u + 1 <= n
    BY <1>1
  <2>2. (u + 1) * m <= n * m
    BY <2>1
  <2>3. (u + 1) * m = u * m + m
    OBVIOUS
  <2> QED BY <2>2, <2>3
<1>4. k \in 1 .. n * m /\ k = u * m + j
  BY <1>1, <1>2, <1>3 DEF Place
<1> HIDE DEF k
<1> DEFINE d == (k - 1) \div m
           e == (k - 1) % m
<1>5. d \in Int /\ e \in 0 .. (m - 1) /\ k - 1 = m * d + e
  BY <1>4
<1> HIDE DEF d, e
<1>6. m * u + (j - 1) = m * d + e
  BY <1>2, <1>4, <1>5
<1>7. ~(d < u)
  <2> SUFFICES ASSUME d + 1 <= u PROVE FALSE
    BY <1>5
  <2>1. m * (d + 1) <= m * u
    BY <1>5
  <2>2. m * (d + 1) = m * d + m
    BY <1>5
  <2> QED BY <1>2, <1>5, <1>6, <2>1, <2>2
<1>8. ~(u < d)
  <2> SUFFICES ASSUME u + 1 <= d PROVE FALSE
    BY <1>5
  <2>1. m * (u + 1) <= m * d
    BY <1>5
  <2>2. m * (u + 1) = m * u + m
    OBVIOUS
  <2> QED BY <1>2, <1>5, <1>6, <2>1, <2>2
<1>9. d = u /\ e = j - 1
  BY <1>5, <1>6, <1>7, <1>8
<1>10. AskedAt(k, m) = q /\ ParentAt(k, m) = j
  BY <1>1, <1>9 DEF AskedAt, ParentAt, d, e
<1> QED BY <1>4, <1>10 DEF k, Places

\* A place is determined by the requested and the parent scope it holds.
LEMMA PlaceSplit ==
    ASSUME NEW n \in Nat, NEW m \in Nat, NEW k \in Places(n, m)
    PROVE  /\ AskedAt(k, m) \in 1 .. n /\ ParentAt(k, m) \in 1 .. m
           /\ k = Place(AskedAt(k, m), ParentAt(k, m), m)
<1>1. n * m \in Nat /\ k \in 1 .. n * m /\ k - 1 \in Nat
  BY DEF Places
<1>2. m > 0
  <2>1. m = 0 => n * m = 0
    OBVIOUS
  <2> QED BY <1>1, <2>1
<1> DEFINE d == (k - 1) \div m
           e == (k - 1) % m
<1>3. d \in Int /\ e \in Int /\ k - 1 = m * d + e
  BY <1>1, <1>2
<1> HIDE DEF d, e
<1>4. AskedAt(k, m) = d + 1 /\ ParentAt(k, m) = e + 1
  BY DEF AskedAt, ParentAt, d, e
<1>5. AskedAt(k, m) \in 1 .. n /\ ParentAt(k, m) \in 1 .. m
  BY <1>1, PlaceInRange DEF AskedAt, ParentAt
<1>6. Place(d + 1, e + 1, m) = d * m + (e + 1)
  BY <1>3 DEF Place
<1>7. d * m = m * d /\ m * d \in Int
  BY <1>3
<1> QED BY <1>1, <1>3, <1>4, <1>5, <1>6, <1>7

\* Attenuate in terms of places.
LEMMA AttenuateAt ==
    ASSUME NEW parent \in Seq(Scope), NEW asked \in Seq(Scope), NEW n \in Nat, NEW m \in Nat,
           n = Len(asked), m = Len(parent)
    PROVE  /\ DOMAIN Attenuate(parent, asked) = Places(n, m)
           /\ \A k \in Places(n, m) :
                 Attenuate(parent, asked)[k] = Intersect(asked[AskedAt(k, m)], parent[ParentAt(k, m)])
BY DEF Attenuate, AskedAt, ParentAt, Places

\* A scope list in which a scope that admits a call has a budget.
Budgeted(scopes) == \A i \in DOMAIN scopes : scopes[i].calls # {} => scopes[i].maxCalls > 0

\* What two scopes leave together is within both.
LEMMA IntersectWithin ==
    ASSUME NEW a \in Scope, NEW b \in Scope
    PROVE  LET s == Intersect(a, b)
           IN  /\ s.calls # {} => /\ s.maxCalls <= a.maxCalls /\ s.maxCalls <= b.maxCalls
                                  /\ s.maxCalls > 0
                                  /\ a.approval \/ b.approval => s.approval
               /\ s.calls \subseteq a.calls \cap b.calls
               /\ a.maxCalls > 0 /\ b.maxCalls > 0 => s.calls = a.calls \cap b.calls
<1> DEFINE both == a.calls \cap b.calls
           mc == Least(a.maxCalls, b.maxCalls)
           s == Intersect(a, b)
<1>1. /\ mc \in Nat /\ mc <= a.maxCalls /\ mc <= b.maxCalls
      /\ a.maxCalls > 0 /\ b.maxCalls > 0 => mc > 0
  BY DEF Scope, Least
<1>2. CASE both = {} \/ mc <= 0
  <2>1. s = EmptyScope
    BY <1>2 DEF Intersect
  <2>2. s.calls = {}
    BY <2>1 DEF EmptyScope
  <2>3. a.maxCalls > 0 /\ b.maxCalls > 0 => both = {}
    <3> HIDE DEF mc, both
    <3> QED BY <1>1, <1>2
  <2> QED BY <2>2, <2>3
<1>3. CASE ~(both = {} \/ mc <= 0)
  <2> DEFINE ap == a.approval \/ b.approval
  <2>1. s = [calls |-> both, maxCalls |-> mc, approval |-> ap]
    BY <1>3 DEF Intersect
  <2> HIDE DEF mc, both, ap
  <2>2. s.calls = both /\ s.maxCalls = mc /\ s.approval = ap
    BY ONLY <2>1
  <2> HIDE DEF s
  <2>3. mc > 0
    BY <1>1, <1>3
  <2>4. both = a.calls \cap b.calls /\ (a.approval \/ b.approval => s.approval)
    BY <2>2, Zenon DEF both, ap
  <2>5. /\ s.calls # {} => /\ s.maxCalls <= a.maxCalls /\ s.maxCalls <= b.maxCalls
                           /\ s.maxCalls > 0
                           /\ a.approval \/ b.approval => s.approval
        /\ s.calls \subseteq a.calls \cap b.calls
        /\ a.maxCalls > 0 /\ b.maxCalls > 0 => s.calls = a.calls \cap b.calls
    BY <1>1, <2>2, <2>3, <2>4
  <2> QED BY <2>5 DEF s
<1> QED BY <1>2, <1>3

\* Attenuate keeps the lists budgeted.
LEMMA AttenuateBudgeted ==
    ASSUME NEW parent \in Seq(Scope), NEW asked \in Seq(Scope)
    PROVE  Budgeted(Attenuate(parent, asked))
<1>1. PICK n \in Nat, m \in Nat : n = Len(asked) /\ m = Len(parent)
  OBVIOUS
<1> SUFFICES ASSUME NEW k \in Places(n, m), Attenuate(parent, asked)[k].calls # {}
             PROVE  Attenuate(parent, asked)[k].maxCalls > 0
  BY <1>1, AttenuateAt DEF Budgeted
<1>2. /\ Attenuate(parent, asked)[k] = Intersect(asked[AskedAt(k, m)], parent[ParentAt(k, m)])
      /\ AskedAt(k, m) \in 1 .. n /\ ParentAt(k, m) \in 1 .. m
  BY <1>1, AttenuateAt, PlaceSplit
<1>3. asked[AskedAt(k, m)] \in Scope /\ parent[ParentAt(k, m)] \in Scope
  BY <1>1, <1>2
<1> QED BY <1>2, <1>3, IntersectWithin

\* The scope that decides a call after Attenuate comes from the parent scope
\* that decided it before, with no larger budget and no lighter approval:
\* Attenuate takes the parent's scopes in their order.
LEMMA AttenuateNarrows ==
    ASSUME NEW parent \in Seq(Scope), NEW asked \in Seq(Scope), NEW call \in Calls,
           Budgeted(parent),
           NEW k, k = FirstMatch(Attenuate(parent, asked), call), k > 0,
           NEW f, f = FirstMatch(parent, call)
    PROVE  /\ f > 0 /\ k \in DOMAIN Attenuate(parent, asked)
           /\ ((k - 1) % Len(parent)) + 1 = f
           /\ Attenuate(parent, asked)[k].maxCalls <= parent[f].maxCalls
           /\ parent[f].approval => Attenuate(parent, asked)[k].approval
<1> DEFINE att == Attenuate(parent, asked)
<1>0. PICK n \in Nat, m \in Nat : n = Len(asked) /\ m = Len(parent)
  OBVIOUS
<1>1. /\ att \in Seq(Scope) /\ DOMAIN att = Places(n, m)
      /\ DOMAIN asked = 1 .. n /\ DOMAIN parent = 1 .. m
  BY <1>0, AttenuateType, AttenuateAt
<1>2. k \in Places(n, m) /\ call \in att[k].calls /\ \A i \in Admitting(att, call) : k <= i
  BY <1>1, FirstMatchLeast DEF Admitting
<1>3. PICK q \in 1 .. n, j \in 1 .. m :
         q = AskedAt(k, m) /\ j = ParentAt(k, m) /\ k = Place(q, j, m)
  BY <1>2, PlaceSplit
<1>4. att[k] = Intersect(asked[q], parent[j]) /\ asked[q] \in Scope /\ parent[j] \in Scope
  <2>1. asked[q] \in Scope /\ parent[j] \in Scope
    BY <1>0
  <2>2. att[k] = Intersect(asked[AskedAt(k, m)], parent[ParentAt(k, m)])
    BY <1>0, <1>2, AttenuateAt
  <2> QED BY ONLY <1>3, <2>1, <2>2
<1>5. call \in asked[q].calls /\ call \in parent[j].calls
  <2>1. Intersect(asked[q], parent[j]).calls \subseteq asked[q].calls \cap parent[j].calls
    BY <1>4, IntersectWithin
  <2> HIDE DEF att
  <2> QED BY <1>2, <1>4, <2>1
<1>6. f \in 1 .. m /\ call \in parent[f].calls /\ f <= j
  <2>1. j \in Admitting(parent, call)
    BY <1>1, <1>5 DEF Admitting
  <2>2. f \in Nat /\ f > 0
    BY <2>1, FirstMatchLeast
  <2> QED BY <1>1, <2>1, <2>2, FirstMatchLeast DEF Admitting
<1>7. parent[f] \in Scope /\ parent[f].maxCalls > 0
  BY <1>1, <1>6 DEF Budgeted
<1>8. asked[q].maxCalls > 0
  <2>1. /\ Intersect(asked[q], parent[j]).calls # {}
        /\ LET s == Intersect(asked[q], parent[j])
           IN  s.calls # {} => s.maxCalls <= asked[q].maxCalls /\ s.maxCalls > 0
    <3> HIDE DEF att
    <3> QED BY <1>2, <1>4, IntersectWithin
  <2>2. Intersect(asked[q], parent[j]).maxCalls \in Nat /\ asked[q].maxCalls \in Nat
    BY <1>4, IntersectType DEF Scope
  <2> QED BY <2>1, <2>2
<1>9. f = j
  <2>1. PICK l \in Places(n, m) : l = Place(q, f, m) /\ AskedAt(l, m) = q /\ ParentAt(l, m) = f
    BY <1>6, PlaceOf
  <2>2. att[l] = Intersect(asked[q], parent[f])
    BY <1>0, <2>1, AttenuateAt
  <2>3. call \in att[l].calls
    BY <1>4, <1>5, <1>6, <1>7, <1>8, <2>2, IntersectWithin
  <2>4. k <= l
    BY <1>1, <1>2, <2>1, <2>3 DEF Admitting
  <2>5. PICK w \in Int : w = (q - 1) * m
    OBVIOUS
  <2>6. k = w + j /\ l = w + f
    BY <1>3, <2>1, <2>5 DEF Place
  <2>7. f \in Int /\ j \in Int /\ w \in Int /\ f <= j
    BY <1>6
  <2> QED BY ONLY <2>4, <2>6, <2>7
<1>10. LET s == Intersect(asked[q], parent[j])
       IN  s.calls # {} => s.maxCalls <= parent[j].maxCalls /\ (parent[j].approval => s.approval)
  BY <1>4, IntersectWithin
<1>11. /\ att[k].maxCalls <= parent[j].maxCalls
       /\ parent[j].approval => att[k].approval
  <2> HIDE DEF att
  <2> QED BY <1>2, <1>4, <1>10
<1>12. ((k - 1) % Len(parent)) + 1 = f
  BY <1>0, <1>3, <1>9 DEF ParentAt
<1> QED BY <1>1, <1>2, <1>6, <1>9, <1>11, <1>12

\* The scope that decides a call for d is no looser than the one that decides
\* it for a.
ScopesWithin(d, a) ==
    \A call \in Calls :
        FirstMatch(d, call) > 0 =>
            /\ FirstMatch(a, call) > 0
            /\ d[FirstMatch(d, call)].maxCalls <= a[FirstMatch(a, call)].maxCalls
            /\ a[FirstMatch(a, call)].approval => d[FirstMatch(d, call)].approval

\* ScopesWithin is transitive.
LEMMA WithinTransitive ==
    ASSUME NEW d \in Seq(Scope), NEW b \in Seq(Scope), NEW a \in Seq(Scope),
           ScopesWithin(d, b), ScopesWithin(b, a)
    PROVE  ScopesWithin(d, a)
<1> SUFFICES ASSUME NEW call \in Calls, NEW i, NEW j, NEW l,
                    i = FirstMatch(d, call), j = FirstMatch(b, call), l = FirstMatch(a, call),
                    i > 0
             PROVE  /\ l > 0
                    /\ d[i].maxCalls <= a[l].maxCalls
                    /\ a[l].approval => d[i].approval
  BY DEF ScopesWithin
<1>1. j > 0 /\ d[i].maxCalls <= b[j].maxCalls /\ (b[j].approval => d[i].approval)
  BY DEF ScopesWithin
<1>2. l > 0 /\ b[j].maxCalls <= a[l].maxCalls /\ (a[l].approval => b[j].approval)
  BY <1>1 DEF ScopesWithin
<1>3. i \in DOMAIN d /\ j \in DOMAIN b /\ l \in DOMAIN a
  BY <1>1, <1>2, FirstMatchLeast DEF Admitting
<1>4. d[i] \in Scope /\ b[j] \in Scope /\ a[l] \in Scope
  BY <1>3
<1>5. d[i].maxCalls \in Nat /\ b[j].maxCalls \in Nat /\ a[l].maxCalls \in Nat
  BY <1>4 DEF Scope
<1> QED BY <1>1, <1>2, <1>5

=============================================================================
