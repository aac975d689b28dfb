---------------------------- MODULE GrantsProofs ----------------------------
(***************************************************************************)
(* Proofs about Grants.                                                    *)
(*                                                                         *)
(* Typed and Evaluated, the loop invariant of Evaluate, are inductive      *)
(* together; Descends (every scope of a delegate is below one of each      *)
(* ancestor) and Permitted (what a mint has looked up is covered by a      *)
(* permit) are inductive on top of them.  The refinement of Authority      *)
(* rests on Intersect being exact, lifted to lists by Over, and on         *)
(* PlainHeld.                                                              *)
(***************************************************************************)
EXTENDS Grants, WellFoundedInduction, TLAPS

-----------------------------------------------------------------------------
(* Sequences *)

\* A nonempty set of naturals has a least element.
LEMMA LeastOf ==
    ASSUME NEW S \in SUBSET Nat, S # {}
    PROVE  \E i \in S : \A j \in S : i <= j
<1> DEFINE R == OpToRel(<, Nat)
<1>1. IsWellFoundedOn(R, Nat)
  BY NatLessThanWellFounded
<1>2. \A i, j \in Nat : j < i => <<j, i>> \in R
  BY Zenon DEF OpToRel
<1> HIDE DEF R
<1>3. PICK i \in S : \A j \in S : <<j, i>> \notin R
  BY <1>1, WFMin
<1>4. \A j \in S : ~(j < i)
  BY <1>2, <1>3
<1> QED BY <1>3, <1>4

\* The partial results of FlattenSeq.
Flattens(g, seqs, n) ==
    g = [i \in 1 .. n |-> IF i = 1 THEN seqs[i] ELSE g[i-1] \o seqs[i]]

\* The recursion of FlattenSeq has a solution up to every place.
LEMMA FlattensExists ==
    ASSUME NEW seqs, NEW n \in Nat \ {0}
    PROVE  \E g : Flattens(g, seqs, n)
<1> DEFINE Bad == {k \in Nat \ {0} : ~ \E g : Flattens(g, seqs, k)}
<1> SUFFICES ASSUME Bad # {} PROVE FALSE
  OBVIOUS
<1>1. PICK k \in Bad : \A j \in Bad : k <= j
  <2>1. Bad \in SUBSET Nat
    OBVIOUS
  <2> HIDE DEF Bad
  <2> QED BY <2>1, LeastOf
<1>2. k \in Nat \ {0} /\ ~ \E g : Flattens(g, seqs, k)
  BY <1>1
<1>3. CASE k = 1
  <2> DEFINE g == [i \in 1 .. k |-> seqs[i]]
  <2>1. Flattens(g, seqs, k)
    BY <1>3 DEF Flattens
  <2> QED BY <1>2, <2>1
<1>4. CASE k # 1
  <2>1. k - 1 \in Nat \ {0} /\ k - 1 \notin Bad
    BY <1>1, <1>2, <1>4
  <2>2. PICK g : Flattens(g, seqs, k - 1)
    BY <2>1
  <2> DEFINE h == [i \in 1 .. k |-> IF i = k THEN g[k-1] \o seqs[k] ELSE g[i]]
  <2>3. \A i \in 1 .. k : h[i] = IF i = 1 THEN seqs[i] ELSE h[i-1] \o seqs[i]
    <3> SUFFICES ASSUME NEW i \in 1 .. k PROVE h[i] = IF i = 1 THEN seqs[i] ELSE h[i-1] \o seqs[i]
      OBVIOUS
    <3>1. \A j \in 1 .. k - 1 : g[j] = IF j = 1 THEN seqs[j] ELSE g[j-1] \o seqs[j]
      BY <2>2 DEF Flattens
    <3>2. CASE i = k
      <4>1. h[k] = g[k-1] \o seqs[k]
        <5>1. k \in 1 .. k
          BY <1>2
        <5> QED BY <5>1, Zenon
      <4>2. k - 1 \in 1 .. k /\ k - 1 # k
        BY <1>2, <1>4
      <4>3. h[k-1] = g[k-1]
        BY <4>2
      <4> HIDE DEF h
      <4> QED BY <1>4, <3>2, <4>1, <4>3
    <3>3. CASE i # k
      <4>1. i \in 1 .. k - 1 /\ h[i] = g[i] /\ (i # 1 => i - 1 \in 1 .. k - 1 /\ h[i-1] = g[i-1])
        BY <1>2, <3>3
      <4> QED BY <3>1, <4>1
    <3> QED BY <3>2, <3>3
  <2>4. Flattens(h, seqs, k)
    BY <2>3 DEF Flattens
  <2> QED BY <1>2, <2>4
<1> QED BY <1>3, <1>4

\* FlattenSeq is the last of the partial results.
LEMMA FlattenSeqDef ==
    ASSUME NEW seqs, Len(seqs) \in Nat \ {0}
    PROVE  \E g : Flattens(g, seqs, Len(seqs)) /\ FlattenSeq(seqs) = g[Len(seqs)]
<1> DEFINE f == CHOOSE g : g = [i \in 1 .. Len(seqs) |-> IF i = 1 THEN seqs[i] ELSE g[i-1] \o seqs[i]]
<1>1. Flattens(f, seqs, Len(seqs))
  BY FlattensExists, Zenon DEF Flattens
<1>2. FlattenSeq(seqs) = f[Len(seqs)]
  BY Zenon DEF FlattenSeq
<1> QED BY <1>1, <1>2

\* Flattening sequences over S gives a sequence over S.
LEMMA FlattenSeqType ==
    ASSUME NEW S, NEW seqs \in Seq(Seq(S))
    PROVE  FlattenSeq(seqs) \in Seq(S)
<1>1. CASE Len(seqs) = 0
  <2>1. seqs = << >>
    BY <1>1
  <2>2. FlattenSeq(seqs) = seqs
    BY <1>1, Zenon DEF FlattenSeq
  <2>3. << >> \in Seq(S)
    OBVIOUS
  <2> QED BY <2>1, <2>2, <2>3
<1>2. CASE Len(seqs) # 0
  <2>1. Len(seqs) \in Nat \ {0} /\ \A i \in 1 .. Len(seqs) : seqs[i] \in Seq(S)
    BY <1>2
  <2>2. PICK g : Flattens(g, seqs, Len(seqs)) /\ FlattenSeq(seqs) = g[Len(seqs)]
    BY <2>1, FlattenSeqDef
  <2> DEFINE Bad == {i \in 1 .. Len(seqs) : g[i] \notin Seq(S)}
  <2>3. \A i \in 1 .. Len(seqs) : g[i] = IF i = 1 THEN seqs[i] ELSE g[i-1] \o seqs[i]
    BY <2>2 DEF Flattens
  <2>4. CASE Bad # {}
    <3>1. PICK i \in Bad : \A j \in Bad : i <= j
      <4>1. Bad \in SUBSET Nat
        OBVIOUS
      <4> HIDE DEF Bad
      <4> QED BY <2>4, <4>1, LeastOf
    <3>2. CASE i = 1
      <4>1. 1 \in 1 .. Len(seqs) /\ g[1] \notin Seq(S)
        BY <3>1, <3>2
      <4>2. g[1] = seqs[1]
        BY <2>3, <4>1
      <4> QED BY <2>1, <4>1, <4>2
    <3>3. CASE i # 1
      <4>1. i \in 1 .. Len(seqs) /\ i - 1 \in 1 .. Len(seqs) /\ i - 1 \notin Bad
        BY <2>1, <3>1, <3>3
      <4>2. g[i-1] \in Seq(S) /\ seqs[i] \in Seq(S) /\ g[i] = g[i-1] \o seqs[i]
        BY <2>1, <2>3, <3>3, <4>1
      <4>3. \A a, b \in Seq(S) : a \o b \in Seq(S)
        OBVIOUS
      <4>4. g[i-1] \o seqs[i] \in Seq(S)
        BY <4>2, <4>3
      <4>5. g[i] \notin Seq(S)
        BY <3>1
      <4> QED BY <4>2, <4>4, <4>5
    <3> QED BY <3>2, <3>3
  <2>5. CASE Bad = {}
    BY <2>1, <2>2, <2>5
  <2> QED BY <2>4, <2>5
<1> QED BY <1>1, <1>2

-----------------------------------------------------------------------------
(* Patterns *)

\* A prefix agrees with the string place by place.
LEMMA IsPrefixPlaces ==
    ASSUME NEW s \in String, NEW t \in String
    PROVE  IsPrefix(s, t) <=> Len(s) <= Len(t) /\ \A i \in 1 .. Len(s) : s[i] = t[i]
<1>1. Len(s) \in Nat /\ Len(t) \in Nat
  BY DEF String
<1>2. ASSUME Len(s) <= Len(t)
      PROVE  SubSeq(s, 1, Len(s)) = SubSeq(t, 1, Len(s)) <=> \A i \in 1 .. Len(s) : s[i] = t[i]
  <2>1. SubSeq(s, 1, Len(s)) = s
    BY DEF String
  <2>2. /\ SubSeq(t, 1, Len(s)) \in String /\ Len(SubSeq(t, 1, Len(s))) = Len(s)
        /\ \A i \in 1 .. Len(s) : SubSeq(t, 1, Len(s))[i] = t[i]
    BY <1>1, <1>2 DEF String
  <2>3. ASSUME NEW u \in String, Len(u) = Len(s), \A i \in 1 .. Len(s) : u[i] = t[i]
        PROVE  s = u <=> \A i \in 1 .. Len(s) : s[i] = t[i]
    BY <2>3 DEF String
  <2> QED BY <2>1, <2>2, <2>3
<1> QED BY <1>2 DEF IsPrefix

\* The prefix of a pattern, with and without a wildcard.
LEMMA PrefixFacts ==
    ASSUME NEW p \in String
    PROVE  /\ prefix(p) \in String
           /\ isWild(p) => /\ Len(p) \in Nat \ {0} /\ p[Len(p)] = "*"
                           /\ Len(prefix(p)) = Len(p) - 1
                           /\ \A i \in 1 .. Len(p) - 1 : prefix(p)[i] = p[i]
           /\ ~isWild(p) => prefix(p) = p
<1>1. CASE isWild(p)
  <2>1. Len(p) \in Nat \ {0} /\ p[Len(p)] = "*"
    <3>1. p # << >> /\ p[Len(p)] = "*"
      BY <1>1 DEF isWild, Empty, Last
    <3>2. Len(p) \in Nat /\ Len(p) # 0
      BY <3>1 DEF String
    <3> QED BY <3>1, <3>2
  <2>2. prefix(p) = SubSeq(p, 1, Len(p) - 1)
    BY <1>1 DEF prefix, Front
  <2>3. /\ SubSeq(p, 1, Len(p) - 1) \in String /\ Len(SubSeq(p, 1, Len(p) - 1)) = Len(p) - 1
        /\ \A i \in 1 .. Len(p) - 1 : SubSeq(p, 1, Len(p) - 1)[i] = p[i]
    <3>1. ASSUME NEW n \in Nat, n <= Len(p)
          PROVE  /\ SubSeq(p, 1, n) \in String /\ Len(SubSeq(p, 1, n)) = n
                 /\ \A i \in 1 .. n : SubSeq(p, 1, n)[i] = p[i]
      BY <3>1 DEF String
    <3>2. Len(p) - 1 \in Nat /\ Len(p) - 1 <= Len(p)
      BY <2>1
    <3> QED BY <3>1, <3>2
  <2> QED BY <1>1, <2>1, <2>2, <2>3
<1>2. CASE ~isWild(p)
  BY <1>2 DEF prefix
<1> QED BY <1>1, <1>2

\* Being a prefix is a partial order, as far as it is needed.
LEMMA IsPrefixOrder ==
    ASSUME NEW s \in String, NEW t \in String, NEW u \in String
    PROVE  /\ IsPrefix(s, s)
           /\ IsPrefix(s, t) /\ IsPrefix(t, u) => IsPrefix(s, u)
<1>1. Len(s) \in Nat /\ Len(t) \in Nat /\ Len(u) \in Nat
  BY DEF String
<1>2. IsPrefix(s, s)
  BY <1>1, IsPrefixPlaces
<1>3. ASSUME IsPrefix(s, t), IsPrefix(t, u) PROVE IsPrefix(s, u)
  <2>1. /\ Len(s) <= Len(t) /\ \A i \in 1 .. Len(s) : s[i] = t[i]
        /\ Len(t) <= Len(u) /\ \A i \in 1 .. Len(t) : t[i] = u[i]
    BY <1>3, IsPrefixPlaces
  <2>2. Len(s) <= Len(u) /\ \A i \in 1 .. Len(s) : s[i] = u[i]
    BY <1>1, <2>1
  <2> QED BY <2>2, IsPrefixPlaces
<1> QED BY <1>2, <1>3

\* PatternSubset is reflexive and transitive.
LEMMA PatternSubsetOrder ==
    ASSUME NEW a \in String, NEW b \in String, NEW c \in String
    PROVE  /\ PatternSubset(a, a)
           /\ PatternSubset(a, b) /\ PatternSubset(b, c) => PatternSubset(a, c)
<1>1. prefix(a) \in String /\ prefix(b) \in String /\ prefix(c) \in String
  BY PrefixFacts
<1>2. PatternSubset(a, a)
  BY <1>1, IsPrefixOrder DEF PatternSubset
<1>3. ASSUME PatternSubset(a, b), PatternSubset(b, c) PROVE PatternSubset(a, c)
  <2>1. CASE isWild(b) /\ isWild(c)
    BY <1>1, <1>3, <2>1, IsPrefixOrder DEF PatternSubset
  <2>2. CASE ~(isWild(b) /\ isWild(c))
    BY <1>3, <2>2 DEF PatternSubset
  <2> QED BY <2>1, <2>2
<1> QED BY <1>2, <1>3

\* PatternSubset tells what matches, except for a literal that no wildcard
\* matches.
LEMMA PlainSubset ==
    ASSUME NEW p \in String, NEW q \in String, NEW s \in String,
           Plain(p), PatternSubset(p, q), Match(p, s)
    PROVE  Match(q, s)
<1>1. CASE isWild(q) /\ isWild(p)
  <2>1. prefix(q) \in String /\ prefix(p) \in String
    BY PrefixFacts
  <2>2. IsPrefix(prefix(q), prefix(p)) /\ IsPrefix(prefix(p), s) /\ ~escapesPrefix(s)
    BY <1>1 DEF PatternSubset, Match
  <2> QED BY <1>1, <2>1, <2>2, IsPrefixOrder DEF Match
<1>2. CASE isWild(q) /\ ~isWild(p)
  <2>1. p = s /\ prefix(p) = p /\ ~escapesPrefix(s)
    BY <1>2, PrefixFacts DEF Match, Plain
  <2> QED BY <1>2, <2>1 DEF PatternSubset, Match
<1>3. CASE ~isWild(q)
  BY <1>3 DEF PatternSubset, Match
<1> QED BY <1>1, <1>2, <1>3

\* A pattern below another, by structure and by what it matches.
Below(p, q) == PatternSubset(p, q) /\ \A s \in String : Match(p, s) => Match(q, s)

\* Below is reflexive and transitive.
LEMMA BelowOrder ==
    ASSUME NEW a \in String, NEW b \in String, NEW c \in String
    PROVE  Below(a, a) /\ (Below(a, b) /\ Below(b, c) => Below(a, c))
BY PatternSubsetOrder DEF Below

\* The intersection of what is asked for with a parent's pattern is one of the
\* two, and below the parent's.
LEMMA PatternIntersectBelow ==
    ASSUME NEW a \in String, NEW b \in String, PatternIntersect(a, b) # Empty
    PROVE  /\ PatternIntersect(a, b) \in {a, b}
           /\ Plain(a) => Below(PatternIntersect(a, b), b)
<1>1. CASE PatternSubset(a, b)
  <2>1. Plain(a) => Below(a, b)
    BY <1>1, PlainSubset DEF Below
  <2> QED BY <1>1, <2>1 DEF PatternIntersect
<1>2. CASE ~PatternSubset(a, b)
  BY <1>2, BelowOrder DEF PatternIntersect
<1> QED BY <1>1, <1>2

\* MintRoot looks a pattern up as if it were a string: what the rule's pattern
\* matches as a string, it covers as a pattern.
LEMMA LookupCovers ==
    ASSUME NEW p \in String, p # Empty => ValidatePattern(p),
           NEW t \in String, NEW s \in String, m(p, t), Match(t, s)
    PROVE  m(p, s)
<1>1. CASE p = Empty \/ ~isWild(t)
  BY <1>1 DEF m, Match
<1>2. CASE p # Empty /\ isWild(t) /\ ~isWild(p)
  BY <1>2 DEF m, Match
<1>3. CASE p # Empty /\ isWild(t) /\ isWild(p)
  <2>1. /\ prefix(p) \in String /\ Len(p) \in Nat \ {0} /\ Len(prefix(p)) = Len(p) - 1
        /\ \A i \in 1 .. Len(p) - 1 : prefix(p)[i] = p[i]
    BY <1>3, PrefixFacts
  <2>2. /\ prefix(t) \in String /\ Len(t) \in Nat \ {0} /\ Len(prefix(t)) = Len(t) - 1
        /\ t[Len(t)] = "*" /\ \A i \in 1 .. Len(t) - 1 : prefix(t)[i] = t[i]
    BY <1>3, PrefixFacts
  <2>3. Len(prefix(p)) <= Len(t) /\ \A i \in 1 .. Len(prefix(p)) : prefix(p)[i] = t[i]
    BY <1>3, <2>1, IsPrefixPlaces DEF m, Match
  <2>4. Len(prefix(p)) # Len(t)
    <3> SUFFICES ASSUME Len(prefix(p)) = Len(t) PROVE FALSE
      OBVIOUS
    <3>1. Len(t) \in 1 .. Len(p) - 1 /\ p[Len(t)] = "*"
      BY <2>1, <2>2, <2>3
    <3>2. Len(t) \in DOMAIN p
      BY <2>1, <3>1 DEF String
    <3> QED BY <1>3, <2>1, <3>1, <3>2 DEF ValidatePattern
  <2>5. IsPrefix(prefix(p), prefix(t))
    <3>1. Len(prefix(p)) <= Len(prefix(t)) /\ \A i \in 1 .. Len(prefix(p)) : prefix(p)[i] = prefix(t)[i]
      BY <2>1, <2>2, <2>3, <2>4
    <3> QED BY <2>1, <2>2, <3>1, IsPrefixPlaces
  <2>6. IsPrefix(prefix(t), s) /\ ~escapesPrefix(s)
    BY <1>3 DEF Match
  <2>7. IsPrefix(prefix(p), s)
    BY <2>1, <2>2, <2>5, <2>6, IsPrefixOrder
  <2> QED BY <1>3, <2>6, <2>7 DEF m, Match
<1> QED BY <1>1, <1>2, <1>3

-----------------------------------------------------------------------------
(* Argument constraints *)

\* A constraint below another, by structure and by what its pattern matches.
ArgBelow(c, p) ==
    argSubset(c, p) /\ (c.pattern # Empty /\ p.pattern # Empty => Below(c.pattern, p.pattern))

\* The pattern and the enum of intersectArg, before one is folded into the other.
BothPatterns(a, b) ==
    IF a.pattern # Empty /\ b.pattern # Empty THEN PatternIntersect(a.pattern, b.pattern)
    ELSE IF a.pattern # Empty THEN a.pattern ELSE b.pattern

FoldedEnums(a, b) ==
    IF a.pattern # Empty /\ b.pattern # Empty /\ BothPatterns(a, b) = Empty THEN {}
    ELSE BothEnums(a.enum, b.enum)

\* intersectArg, field by field.
LEMMA IntersectArgFields ==
    ASSUME NEW a \in Constraint, NEW b \in Constraint
    PROVE  LET o == intersectArg(a, b) pat == BothPatterns(a, b) enum == FoldedEnums(a, b)
           IN  /\ enum = None => o.enum = None /\ o.pattern = pat
               /\ enum # None => /\ o.pattern = Empty
                                 /\ o.enum = IF pat = Empty THEN enum ELSE {e \in enum : Match(pat, e)}
               /\ o.min = maxPtr(a.min, b.min) /\ o.max = minPtr(a.max, b.max)
               /\ o = [enum |-> o.enum, pattern |-> o.pattern, min |-> o.min, max |-> o.max]
BY DEF intersectArg, BothPatterns, FoldedEnums

\* What the enums and the patterns of two constraints may be together.
LEMMA BothTypes ==
    ASSUME NEW a \in Constraint, NEW b \in Constraint
    PROVE  /\ BothPatterns(a, b) \in {a.pattern, b.pattern, Empty}
           /\ BothPatterns(a, b) \in String
           /\ FoldedEnums(a, b) \in {None} \cup SUBSET EnumStrings
           /\ b.enum # None => FoldedEnums(a, b) # None /\ FoldedEnums(a, b) \subseteq b.enum
<1>1. /\ a.enum \in {None} \cup SUBSET EnumStrings /\ b.enum \in {None} \cup SUBSET EnumStrings
      /\ a.pattern \in String /\ b.pattern \in String
  BY DEF Constraint
<1>2. Empty \in String
  BY DEF Empty, String
<1>3. BothPatterns(a, b) \in {a.pattern, b.pattern, Empty}
  BY <1>1, PatternIntersectBelow DEF BothPatterns
<1>4. \A S \in SUBSET EnumStrings : S # None
  BY PatternsAssumption
<1>5. /\ BothEnums(a.enum, b.enum) \in {None} \cup SUBSET EnumStrings
      /\ b.enum # None => BothEnums(a.enum, b.enum) # None /\ BothEnums(a.enum, b.enum) \subseteq b.enum
  <2>1. CASE a.enum = None
    BY <1>1, <2>1 DEF BothEnums
  <2>2. CASE a.enum # None /\ b.enum = None
    BY <1>1, <2>2 DEF BothEnums
  <2>3. CASE a.enum # None /\ b.enum # None
    <3>1. a.enum \cap b.enum \in SUBSET EnumStrings
      BY <1>1, <2>3
    <3> QED BY <1>4, <2>3, <3>1 DEF BothEnums
  <2> QED BY <2>1, <2>2, <2>3
<1>6. {} \in SUBSET EnumStrings /\ {} # None
  BY <1>4
<1>7. /\ FoldedEnums(a, b) \in {None} \cup SUBSET EnumStrings
      /\ b.enum # None => FoldedEnums(a, b) # None /\ FoldedEnums(a, b) \subseteq b.enum
  BY <1>5, <1>6 DEF FoldedEnums
<1> QED BY <1>1, <1>2, <1>3, <1>7

\* The larger and the smaller of two bounds, where there are two.
LEMMA BoundsFacts ==
    ASSUME NEW a \in {None} \cup Int, NEW b \in {None} \cup Int
    PROVE  /\ maxPtr(a, b) \in {None} \cup Int /\ minPtr(a, b) \in {None} \cup Int
           /\ b # None => /\ maxPtr(a, b) \in Int /\ maxPtr(a, b) >= b
                          /\ minPtr(a, b) \in Int /\ minPtr(a, b) <= b
BY PatternsAssumption DEF maxPtr, minPtr

\* intersectArg returns a constraint.
LEMMA IntersectArgType ==
    ASSUME NEW a \in Constraint, NEW b \in Constraint
    PROVE  /\ intersectArg(a, b) \in Constraint
           /\ intersectArg(a, b).pattern \in {a.pattern, b.pattern, Empty}
<1> DEFINE o == intersectArg(a, b)
           pat == BothPatterns(a, b)
           enum == FoldedEnums(a, b)
<1>1. /\ pat \in {a.pattern, b.pattern, Empty} /\ pat \in String
      /\ enum \in {None} \cup SUBSET EnumStrings /\ Empty \in String
  BY BothTypes DEF Empty, String
<1>2. /\ enum = None => o.enum = None /\ o.pattern = pat
      /\ enum # None => /\ o.pattern = Empty
                        /\ o.enum = IF pat = Empty THEN enum ELSE {e \in enum : Match(pat, e)}
      /\ o.min = maxPtr(a.min, b.min) /\ o.max = minPtr(a.max, b.max)
      /\ o = [enum |-> o.enum, pattern |-> o.pattern, min |-> o.min, max |-> o.max]
  BY IntersectArgFields
<1>3. o.min \in {None} \cup Int /\ o.max \in {None} \cup Int
  BY <1>2, BoundsFacts DEF Constraint
<1> HIDE DEF o, pat, enum
<1>4. o.enum \in {None} \cup SUBSET EnumStrings
  BY <1>1, <1>2
<1>5. o.pattern \in String /\ o.pattern \in {a.pattern, b.pattern, Empty}
  BY <1>1, <1>2
<1>6. o \in Constraint
  BY <1>2, <1>3, <1>4, <1>5 DEF Constraint
<1> QED BY <1>5, <1>6 DEF o

\* What is below a constraint stays below it when something that is asked for
\* is intersected with it.
LEMMA IntersectArgBelow ==
    ASSUME NEW a \in Constraint, NEW b \in Constraint, NEW c \in Constraint,
           Plain(a.pattern), ArgBelow(b, c)
    PROVE  ArgBelow(intersectArg(a, b), c)
<1> DEFINE o == intersectArg(a, b)
           pat == BothPatterns(a, b)
           enum == FoldedEnums(a, b)
<1>1. /\ a.pattern \in String /\ b.pattern \in String /\ c.pattern \in String
      /\ a.min \in {None} \cup Int /\ b.min \in {None} \cup Int /\ c.min \in {None} \cup Int
      /\ a.max \in {None} \cup Int /\ b.max \in {None} \cup Int /\ c.max \in {None} \cup Int
  BY DEF Constraint
<1>2. /\ pat \in String /\ enum \in {None} \cup SUBSET EnumStrings
      /\ b.enum # None => enum # None /\ enum \subseteq b.enum
  BY BothTypes
<1>3. /\ enum = None => o.enum = None /\ o.pattern = pat
      /\ enum # None => /\ o.pattern = Empty
                        /\ o.enum = IF pat = Empty THEN enum ELSE {e \in enum : Match(pat, e)}
      /\ o.min = maxPtr(a.min, b.min) /\ o.max = minPtr(a.max, b.max)
  BY IntersectArgFields
<1>4. /\ c.enum # None => b.enum # None /\ b.enum \subseteq c.enum
      /\ c.pattern # Empty /\ b.pattern = Empty =>
            b.enum # None /\ \A e \in b.enum : Match(c.pattern, e)
      /\ c.pattern # Empty /\ b.pattern # Empty => Below(b.pattern, c.pattern)
      /\ c.min # None => b.min # None /\ b.min >= c.min
      /\ c.max # None => b.max # None /\ b.max <= c.max
  BY DEF ArgBelow, argSubset
<1>5. b.pattern # Empty /\ pat = Empty => enum = {} /\ enum # None
  BY PatternsAssumption DEF FoldedEnums, BothPatterns
<1>6. b.pattern # Empty /\ pat # Empty => Below(pat, b.pattern)
  BY <1>1, PatternIntersectBelow, BelowOrder DEF BothPatterns
<1> HIDE DEF o, pat, enum
<1>7. enum # None => o.enum # None /\ o.enum \subseteq enum
  <2>1. ASSUME enum # None PROVE o.enum \in SUBSET EnumStrings /\ o.enum \subseteq enum
    BY <1>2, <1>3, <2>1
  <2> QED BY <2>1, PatternsAssumption
<1>8. c.enum # None => o.enum # None /\ o.enum \subseteq c.enum
  BY <1>2, <1>4, <1>7
<1>9. ASSUME c.pattern # Empty, b.pattern # Empty, pat # Empty PROVE Below(pat, c.pattern)
  BY <1>1, <1>2, <1>4, <1>6, <1>9, BelowOrder
<1>10. ASSUME c.pattern # Empty
       PROVE  IF o.pattern = Empty THEN o.enum # None /\ \A e \in o.enum : Match(c.pattern, e)
              ELSE Below(o.pattern, c.pattern)
  <2>1. CASE b.pattern = Empty
    BY <1>2, <1>3, <1>4, <1>7, <1>10, <2>1
  <2>2. CASE b.pattern # Empty /\ pat = Empty
    BY <1>3, <1>5, <1>7, <2>2
  <2>3. CASE b.pattern # Empty /\ pat # Empty
    <3>1. Below(pat, c.pattern)
      BY <1>9, <1>10, <2>3
    <3>2. CASE enum = None
      BY <1>3, <2>3, <3>1, <3>2
    <3>3. CASE enum # None
      <4>1. o.pattern = Empty /\ o.enum # None /\ o.enum = {e \in enum : Match(pat, e)}
        BY <1>3, <1>7, <2>3, <3>3
      <4>2. enum \subseteq String
        BY <1>2, <3>3, PatternsAssumption
      <4> QED BY <3>1, <4>1, <4>2 DEF Below
    <3> QED BY <3>2, <3>3
  <2> QED BY <2>1, <2>2, <2>3
<1>11. /\ c.min # None => o.min # None /\ o.min >= c.min
       /\ c.max # None => o.max # None /\ o.max <= c.max
  <2>1. /\ b.min # None => o.min \in Int /\ o.min >= b.min
        /\ b.max # None => o.max \in Int /\ o.max <= b.max
    BY <1>1, <1>3, BoundsFacts
  <2> QED BY <1>1, <1>4, <2>1, PatternsAssumption
<1>12. argSubset(o, c)
  BY <1>8, <1>10, <1>11 DEF argSubset, Below
<1> QED BY <1>10, <1>12 DEF ArgBelow, o

\* A value that a constraint admits, one it is below admits too.
LEMMA ArgBelowAllows ==
    ASSUME NEW c \in Constraint, NEW p \in Constraint, ArgBelow(c, p),
           NEW v \in {None} \cup Value, AllowsArg(c, v)
    PROVE  AllowsArg(p, v)
<1>1. v \in Value
  BY DEF AllowsArg
<1>2. v.str \in {None} \cup String /\ v.num \in {None} \cup Int
  BY <1>1 DEF Value
<1>3. /\ c.min \in {None} \cup Int /\ p.min \in {None} \cup Int
      /\ c.max \in {None} \cup Int /\ p.max \in {None} \cup Int
  BY DEF Constraint
<1>4. v # None /\ (p.enum # None => v.str # None /\ v.str \in p.enum)
  BY DEF AllowsArg, ArgBelow, argSubset
<1>5. p.pattern # Empty => v.str # None /\ Match(p.pattern, v.str)
  <2> SUFFICES ASSUME p.pattern # Empty PROVE v.str # None /\ Match(p.pattern, v.str)
    OBVIOUS
  <2>1. CASE c.pattern = Empty
    BY <2>1 DEF AllowsArg, ArgBelow, argSubset
  <2>2. CASE c.pattern # Empty
    BY <1>2, <2>2 DEF AllowsArg, ArgBelow, Below
  <2> QED BY <2>1, <2>2
<1>6. /\ p.min # None => v.num # None /\ v.num >= p.min
      /\ p.max # None => v.num # None /\ v.num <= p.max
  BY <1>2, <1>3 DEF AllowsArg, ArgBelow, argSubset
<1> QED BY <1>4, <1>5, <1>6 DEF AllowsArg

-----------------------------------------------------------------------------
(* Scopes *)

\* A scope below another, by structure and by what its patterns match.
ScopeBelow(s, p) ==
    /\ Below(s.tool, p.tool)
    /\ \A r \in s.resources : \E q \in p.resources : Below(r, q)
    /\ \A n \in Constrained(p) : n \in Constrained(s) /\ ArgBelow(s.args[n], p.args[n])
    /\ s.maxCalls <= p.maxCalls
    /\ p.approval => s.approval

\* The constraints of a scope.
LEMMA ConstrainedType ==
    ASSUME NEW s \in Scope
    PROVE  \A n \in ArgNames : IF n \in Constrained(s) THEN s.args[n] \in Constraint ELSE s.args[n] = None
BY DEF Scope, Args, Constrained

\* A scope is below itself, and a scope below another is a subset of it.
LEMMA ScopeBelowSubset ==
    ASSUME NEW s \in Scope, NEW p \in Scope
    PROVE  ScopeBelow(s, s) /\ (ScopeBelow(s, p) => Subset(s, p))
<1>1. ScopeBelow(s, s)
  <2>1. /\ s.tool \in String /\ s.resources \subseteq String /\ s.maxCalls \in Int
    BY DEF Scope
  <2>2. Below(s.tool, s.tool) /\ \A r \in s.resources : Below(r, r)
    BY <2>1, BelowOrder
  <2>3. ASSUME NEW n \in Constrained(s) PROVE ArgBelow(s.args[n], s.args[n])
    <3>1. s.args[n] \in Constraint
      BY <2>3, ConstrainedType DEF Constrained
    <3>2. PICK c : c = s.args[n]
      OBVIOUS
    <3>3. c.pattern \in String /\ c.min \in {None} \cup Int /\ c.max \in {None} \cup Int
      BY <3>1, <3>2 DEF Constraint
    <3>4. Below(c.pattern, c.pattern)
      BY <3>3, BelowOrder
    <3>5. ArgBelow(c, c)
      BY <3>3, <3>4 DEF ArgBelow, argSubset, Below
    <3> QED BY <3>2, <3>5
  <2> QED BY <2>1, <2>2, <2>3 DEF ScopeBelow
<1>2. ScopeBelow(s, p) => Subset(s, p)
  BY DEF ScopeBelow, Subset, Below, ArgBelow
<1> QED BY <1>1, <1>2

\* A call that a scope admits, one it is below admits too.
LEMMA ScopeBelowAllows ==
    ASSUME NEW s \in Scope, NEW p \in Scope, ScopeBelow(s, p), NEW c \in ToolCall, Allows(s, c)
    PROVE  Allows(p, c)
<1>1. c.tool \in String /\ c.resource \in String /\ \A n \in ArgNames : c.args[n] \in {None} \cup Value
  BY DEF ToolCall, Args
<1>2. Match(p.tool, c.tool) /\ \E r \in p.resources : Match(r, c.resource)
  BY <1>1 DEF ScopeBelow, Allows, Below
<1>3. ASSUME NEW n \in Constrained(p) PROVE AllowsArg(p.args[n], c.args[n])
  <2>1. n \in ArgNames /\ n \in Constrained(s) /\ ArgBelow(s.args[n], p.args[n])
    BY <1>3 DEF ScopeBelow, Constrained
  <2>2. s.args[n] \in Constraint /\ p.args[n] \in Constraint
    BY <1>3, <2>1, ConstrainedType
  <2>3. AllowsArg(s.args[n], c.args[n])
    BY <2>1 DEF Allows
  <2> QED BY <1>1, <2>1, <2>2, <2>3, ArgBelowAllows
<1> QED BY <1>2, <1>3 DEF Allows

\* What two scopes leave of each argument.
LEMMA IntersectArgsFacts ==
    ASSUME NEW a \in Scope, NEW b \in Scope, NEW n \in ArgNames
    PROVE  LET c == IntersectArgs(a.args, b.args)[n]
           IN  /\ c \in {None} \cup Constraint
               /\ b.args[n] # None => c # None
               /\ c # None => c.pattern \in {Empty} \cup {x.pattern : x \in {a.args[n], b.args[n]} \ {None}}
<1> DEFINE c == IntersectArgs(a.args, b.args)[n]
<1>1. a.args[n] \in {None} \cup Constraint /\ b.args[n] \in {None} \cup Constraint
  BY DEF Scope, Args
<1>2. CASE a.args[n] = None \/ b.args[n] = None
  BY <1>1, <1>2 DEF IntersectArgs
<1>3. CASE a.args[n] # None /\ b.args[n] # None
  <2>1. PICK x, y : x = a.args[n] /\ y = b.args[n]
    OBVIOUS
  <2>2. x \in Constraint /\ y \in Constraint
    BY <1>1, <1>3, <2>1
  <2>3. c = intersectArg(x, y)
    BY <1>3, <2>1 DEF IntersectArgs
  <2>4. c \in Constraint /\ c.pattern \in {x.pattern, y.pattern, Empty}
    BY <2>2, <2>3, IntersectArgType
  <2> HIDE DEF c
  <2>5. c \in Constraint /\ c # None /\ c.pattern \in {Empty} \cup {z.pattern : z \in {x, y} \ {None}}
    BY <2>2, <2>4, ConstraintAssumption
  <2> QED BY <2>1, <2>5 DEF c
<1> QED BY <1>2, <1>3

\* The scope two scopes leave, when they leave one.
Common(a, b) ==
    [tool |-> PatternIntersect(a.tool, b.tool),
     resources |-> {PatternIntersect(ra, rb) : ra \in a.resources, rb \in b.resources} \ {Empty},
     args |-> IntersectArgs(a.args, b.args),
     maxCalls |-> IF b.maxCalls < a.maxCalls THEN b.maxCalls ELSE a.maxCalls,
     approval |-> a.approval \/ b.approval]

\* Intersect leaves no scope, or this one.
LEMMA IntersectCommon ==
    ASSUME NEW a \in Scope, NEW b \in Scope
    PROVE  \/ Intersect(a, b) = << >>
           \/ /\ Intersect(a, b) = <<Common(a, b)>>
              /\ PatternIntersect(a.tool, b.tool) # Empty
              /\ Common(a, b).resources # {} /\ Common(a, b).maxCalls > 0
<1> DEFINE tool == PatternIntersect(a.tool, b.tool)
           res == {PatternIntersect(ra, rb) : ra \in a.resources, rb \in b.resources} \ {Empty}
           args == IntersectArgs(a.args, b.args)
           mc == IF b.maxCalls < a.maxCalls THEN b.maxCalls ELSE a.maxCalls
           none == \/ tool = Empty \/ res = {} \/ mc <= 0
                   \/ \E n \in ArgNames : args[n] # None /\ Unsatisfiable(args[n])
<1>1. Intersect(a, b) = IF none THEN << >> ELSE <<Common(a, b)>>
  BY DEF Intersect, Common
<1>2. Common(a, b).resources = res /\ Common(a, b).maxCalls = mc
  BY DEF Common
<1>3. mc \in Int
  BY DEF Scope
<1>4. ~none => tool # Empty /\ res # {} /\ mc > 0
  <2>1. ~none => tool # Empty /\ res # {} /\ ~(mc <= 0)
    <3> HIDE DEF tool, res, args, mc
    <3> QED OBVIOUS
  <2> HIDE DEF none, mc
  <2> QED BY <1>3, <2>1
<1> HIDE DEF none, mc, res
<1> QED BY <1>1, <1>2, <1>4

\* Each resource two scopes leave is one of theirs.
LEMMA CommonResources ==
    ASSUME NEW a \in Scope, NEW b \in Scope, NEW r \in Common(a, b).resources
    PROVE  \E ra \in a.resources, rb \in b.resources :
              /\ ra \in String /\ rb \in String /\ r \in {ra, rb}
              /\ Plain(ra) => Below(r, rb)
<1>1. PICK ra \in a.resources, rb \in b.resources : r = PatternIntersect(ra, rb) /\ r # Empty
  BY DEF Common
<1>2. ra \in String /\ rb \in String
  BY DEF Scope
<1> QED BY <1>1, <1>2, PatternIntersectBelow

\* What two scopes leave is a scope.
LEMMA CommonType ==
    ASSUME NEW a \in Scope, NEW b \in Scope, PatternIntersect(a.tool, b.tool) # Empty
    PROVE  Common(a, b) \in Scope
<1> DEFINE s == Common(a, b)
<1>1. s.tool \in String
  BY PatternIntersectBelow DEF Common, Scope
<1>2. s.resources \subseteq String
  BY CommonResources
<1>3. s.args \in Args(Constraint)
  <2>1. s.args = IntersectArgs(a.args, b.args)
    BY DEF Common
  <2>2. \A n \in ArgNames : s.args[n] \in {None} \cup Constraint
    BY <2>1, IntersectArgsFacts
  <2>3. s.args = [n \in ArgNames |-> s.args[n]]
    BY <2>1 DEF IntersectArgs
  <2> HIDE DEF s
  <2> QED BY <2>2, <2>3 DEF Args
<1>4. s.maxCalls \in Int /\ s.approval \in BOOLEAN
  BY DEF Common, Scope
<1>5. s = [tool |-> s.tool, resources |-> s.resources, args |-> s.args, maxCalls |-> s.maxCalls,
           approval |-> s.approval]
  BY DEF Common
<1> HIDE DEF s
<1>6. s \in Scope
  BY <1>1, <1>2, <1>3, <1>4, <1>5 DEF Scope
<1> QED BY <1>6 DEF s

\* Two well-formed scopes leave a well-formed one.
LEMMA CommonValid ==
    ASSUME NEW a \in Scope, NEW b \in Scope, Validate(a), Validate(b),
           PatternIntersect(a.tool, b.tool) # Empty,
           Common(a, b).resources # {}, Common(a, b).maxCalls > 0
    PROVE  Validate(Common(a, b))
<1> DEFINE s == Common(a, b)
<1>1. s.tool \in {a.tool, b.tool}
  BY PatternIntersectBelow DEF Common, Scope
<1>2. ValidatePattern(s.tool)
  BY <1>1 DEF Validate
<1>3. \A r \in s.resources : ValidatePattern(r)
  <2> TAKE r \in s.resources
  <2>1. r \in a.resources \cup b.resources
    BY CommonResources
  <2> QED BY <2>1 DEF Validate
<1>4. ASSUME NEW n \in Constrained(s), s.args[n].pattern # Empty PROVE ValidatePattern(s.args[n].pattern)
  <2>1. n \in ArgNames /\ s.args[n] = IntersectArgs(a.args, b.args)[n] /\ s.args[n] # None
    BY <1>4 DEF Constrained, Common
  <2>2. PICK x \in {a.args[n], b.args[n]} \ {None} : s.args[n].pattern = x.pattern
    <3>1. s.args[n].pattern \in {Empty} \cup {y.pattern : y \in {a.args[n], b.args[n]} \ {None}}
      BY <2>1, IntersectArgsFacts
    <3> HIDE DEF s
    <3> QED BY <1>4, <3>1
  <2>3. (n \in Constrained(a) /\ x = a.args[n]) \/ (n \in Constrained(b) /\ x = b.args[n])
    <3>1. n \in ArgNames
      BY <2>1
    <3>2. x # None /\ (x = a.args[n] \/ x = b.args[n])
      BY <2>2
    <3> HIDE DEF s
    <3> QED BY <3>1, <3>2, Zenon DEF Constrained
  <2> QED BY <1>4, <2>2, <2>3 DEF Validate
<1> HIDE DEF s
<1>5. Validate(s)
  BY <1>2, <1>3, <1>4 DEF Validate, s
<1> QED BY <1>5 DEF s

\* What is left of a parent's scope is below everything the parent's is below.
LEMMA CommonBelow ==
    ASSUME NEW a \in Scope, NEW b \in Scope, NEW c \in Scope, PlainScope(a), ScopeBelow(b, c),
           PatternIntersect(a.tool, b.tool) # Empty
    PROVE  ScopeBelow(Common(a, b), c)
<1> DEFINE s == Common(a, b)
<1>1. s \in Scope
  BY CommonType
<1>2. /\ a.tool \in String /\ b.tool \in String /\ c.tool \in String /\ s.tool \in String
      /\ b.resources \subseteq String /\ c.resources \subseteq String /\ s.resources \subseteq String
      /\ a.maxCalls \in Int /\ b.maxCalls \in Int /\ c.maxCalls \in Int
  BY <1>1 DEF Scope
<1>3. Below(s.tool, c.tool)
  <2>1. s.tool = PatternIntersect(a.tool, b.tool)
    BY DEF Common
  <2>2. Below(s.tool, b.tool)
    BY <1>2, <2>1, PatternIntersectBelow DEF PlainScope
  <2>3. Below(b.tool, c.tool)
    BY DEF ScopeBelow
  <2> QED BY <1>2, <2>2, <2>3, BelowOrder
<1>4. ASSUME NEW r \in s.resources PROVE \E q \in c.resources : Below(r, q)
  <2>1. PICK ra \in a.resources, rb \in b.resources : Plain(ra) => Below(r, rb)
    BY CommonResources
  <2>2. Below(r, rb)
    BY <2>1 DEF PlainScope
  <2>3. PICK q \in c.resources : Below(rb, q)
    BY DEF ScopeBelow
  <2>4. r \in String /\ rb \in String /\ q \in String
    BY <1>2, <1>4
  <2> QED BY <2>2, <2>3, <2>4, BelowOrder
<1>5. ASSUME NEW n \in Constrained(c) PROVE n \in Constrained(s) /\ ArgBelow(s.args[n], c.args[n])
  <2>1. n \in ArgNames /\ n \in Constrained(b) /\ ArgBelow(b.args[n], c.args[n])
    BY <1>5 DEF ScopeBelow, Constrained
  <2>2. b.args[n] \in Constraint /\ c.args[n] \in Constraint /\ b.args[n] # None
    BY <1>5, <2>1, ConstrainedType DEF Constrained
  <2>3. s.args[n] = IntersectArgs(a.args, b.args)[n]
    BY DEF Common
  <2>4. n \in Constrained(s)
    BY <2>1, <2>2, <2>3, IntersectArgsFacts DEF Constrained
  <2>5. CASE a.args[n] = None
    BY <2>1, <2>3, <2>4, <2>5 DEF IntersectArgs
  <2>6. CASE a.args[n] # None
    <3>1. a.args[n] \in Constraint /\ Plain(a.args[n].pattern)
      BY <2>1, <2>6, ConstrainedType DEF Constrained, PlainScope
    <3>2. s.args[n] = intersectArg(a.args[n], b.args[n])
      BY <2>1, <2>2, <2>3, <2>6 DEF IntersectArgs
    <3> QED BY <2>1, <2>2, <2>4, <3>1, <3>2, IntersectArgBelow
  <2> QED BY <2>5, <2>6
<1>6. s.maxCalls <= c.maxCalls /\ (c.approval => s.approval)
  <2>1. b.maxCalls <= c.maxCalls /\ (c.approval => b.approval)
    BY DEF ScopeBelow
  <2>2. s.maxCalls \in Int /\ s.maxCalls <= b.maxCalls /\ (b.approval => s.approval)
    <3>1. /\ s.maxCalls = IF b.maxCalls < a.maxCalls THEN b.maxCalls ELSE a.maxCalls
          /\ s.approval = (a.approval \/ b.approval)
      BY DEF Common
    <3> HIDE DEF s
    <3>2. s.maxCalls \in Int /\ s.maxCalls <= b.maxCalls
      BY <1>2, <3>1
    <3>3. b.approval => s.approval
      BY <3>1
    <3> QED BY <3>2, <3>3
  <2> QED BY <1>2, <2>1, <2>2
<1> HIDE DEF s
<1>7. ScopeBelow(s, c)
  BY <1>3, <1>4, <1>5, <1>6 DEF ScopeBelow
<1> QED BY <1>7 DEF s

\* The scopes that Attenuate can leave.
Left(parent, requested) ==
    {s \in Scope : \E i \in DOMAIN requested, j \in DOMAIN parent :
        /\ s = Common(requested[i], parent[j])
        /\ PatternIntersect(requested[i].tool, parent[j].tool) # Empty
        /\ s.resources # {} /\ s.maxCalls > 0}

\* Attenuate returns scopes that a requested one and a parent's leave.
LEMMA AttenuateLeft ==
    ASSUME NEW parent \in Seq(Scope), NEW requested \in Seq(Scope)
    PROVE  Attenuate(parent, requested) \in Seq(Left(parent, requested))
<1> DEFINE L == Left(parent, requested)
           row(i) == [j \in DOMAIN parent |-> Intersect(requested[i], parent[j])]
<1>1. ASSUME NEW i \in DOMAIN requested, NEW j \in DOMAIN parent
      PROVE  Intersect(requested[i], parent[j]) \in Seq(L)
  <2>1. requested[i] \in Scope /\ parent[j] \in Scope
    OBVIOUS
  <2>2. CASE Intersect(requested[i], parent[j]) = << >>
    <3> HIDE DEF L
    <3> QED BY <2>2
  <2>3. CASE Intersect(requested[i], parent[j]) # << >>
    <3>1. PICK s : /\ Intersect(requested[i], parent[j]) = <<s>> /\ s = Common(requested[i], parent[j])
                   /\ PatternIntersect(requested[i].tool, parent[j].tool) # Empty
                   /\ s.resources # {} /\ s.maxCalls > 0
      BY <2>1, <2>3, IntersectCommon
    <3>2. s \in Scope
      BY <2>1, <3>1, CommonType
    <3>3. s \in L
      BY <3>1, <3>2 DEF Left
    <3>4. <<s>> \in Seq(L)
      <4> HIDE DEF L
      <4> QED BY <3>3
    <3> QED BY <3>1, <3>4
  <2> QED BY <2>2, <2>3
<1>2. ASSUME NEW i \in DOMAIN requested PROVE FlattenSeq(row(i)) \in Seq(L)
  <2>1. \A j \in DOMAIN parent : row(i)[j] \in Seq(L)
    BY <1>1, <1>2
  <2>2. DOMAIN parent = 1 .. Len(parent) /\ Len(parent) \in Nat
    OBVIOUS
  <2>3. row(i) \in [1 .. Len(parent) -> Seq(L)]
    BY <2>1, <2>2, Zenon
  <2>4. row(i) \in Seq(Seq(L))
    <3> HIDE DEF L, row
    <3> QED BY <2>2, <2>3
  <2> HIDE DEF L, row
  <2> QED BY <2>4, FlattenSeqType
<1> DEFINE rows == [i \in DOMAIN requested |-> FlattenSeq(row(i))]
<1>3. rows \in Seq(Seq(L))
  <2>1. DOMAIN requested = 1 .. Len(requested) /\ Len(requested) \in Nat
    OBVIOUS
  <2> HIDE DEF L, row
  <2>2. rows \in [1 .. Len(requested) -> Seq(L)]
    BY <1>2, <2>1
  <2> HIDE DEF rows
  <2> QED BY <2>1, <2>2
<1>4. Attenuate(parent, requested) = FlattenSeq(rows)
  BY Zenon DEF Attenuate
<1> HIDE DEF L, rows
<1>5. FlattenSeq(rows) \in Seq(L)
  BY <1>3, FlattenSeqType
<1> QED BY <1>4, <1>5 DEF L

\* FirstMatch finds a scope exactly when one admits the call.
LEMMA FirstMatchFound ==
    ASSUME NEW scopes \in Seq(Scope), NEW c
    PROVE  FirstMatch(scopes, c) > 0 <=> \E i \in DOMAIN scopes : Allows(scopes[i], c)
<1> DEFINE I == {i \in 1 .. Len(scopes) : Allows(scopes[i], c)}
<1>1. FirstMatch(scopes, c) = IF I # {} THEN Min(I) ELSE 0
  BY DEF FirstMatch, SelectInSeq
<1>2. I \in SUBSET Nat /\ \A i \in I : i > 0
  OBVIOUS
<1>3. ASSUME I # {} PROVE Min(I) \in I
  <2> HIDE DEF I
  <2>1. \E i \in I : \A j \in I : i <= j
    BY <1>2, <1>3, LeastOf
  <2>2. \E i : i \in I /\ \A j \in I : i =< j
    BY <2>1
  <2> QED BY <2>2, Zenon DEF Min
<1>4. I # {} <=> \E i \in DOMAIN scopes : Allows(scopes[i], c)
  OBVIOUS
<1> HIDE DEF I
<1>5. CASE I = {}
  BY <1>1, <1>4, <1>5
<1>6. CASE I # {}
  <2>1. FirstMatch(scopes, c) \in I
    BY <1>1, <1>3, <1>6
  <2> QED BY <1>2, <1>4, <1>6, <2>1
<1> QED BY <1>5, <1>6

-----------------------------------------------------------------------------
(* The invariant *)

\* The type, with what a draft holds: a mint's scopes have been validated, a
\* delegate's are as they were asked for.
Typed ==
    /\ GrantsTypeOK
    /\ phase = "mint" => ValidScopes(draft.scopes)
    /\ phase = "delegate" => draft.scopes \in Askable

\* Evaluate, in the middle of its loop: no rule before the current one that
\* matches forbids, and the permit is one with the largest allow_depth.
Looking(e) ==
    /\ e.i \in 1 .. Len(rules) + 1
    /\ \A k \in 1 .. e.i - 1 : matches(rules[k], e.q) =>
          /\ rules[k].effect = "permit" /\ e.permit # 0
          /\ rules[k].allowDepth <= rules[e.permit].allowDepth
    /\ e.permit # 0 => e.permit \in 1 .. e.i - 1 /\ matches(rules[e.permit], e.q)

Evaluated ==
    eval # None =>
        IF eval.decision = "none"
        THEN IF rules = None THEN eval.permit = 0 ELSE Looking(eval)
        ELSE DenyOverrides /\ (eval.decision = "allow" => eval.rule \in Matching("permit"))

\* Rules that permit a mint, and what they cover.
MintPermits ==
    IF rules = None THEN {}
    ELSE {i \in DOMAIN rules : rules[i].effect = "permit" /\ rules[i].action \in {"", "mint"}}

Covered(tool, resource) ==
    \E i \in MintPermits : m(rules[i].tool, tool) /\ m(rules[i].resource, resource)

DepthPermitted(d) == d <= CfgMaxDepth \/ \E i \in MintPermits : d <= rules[i].allowDepth

\* A mint has been allowed every pair it has looked up, but for the one it is
\* looking up; so has the root, and no depth is beyond what a permit allows.
Permitted ==
    /\ phase = "idle" => eval = None
    /\ phase = "mint" =>
          /\ eval # None => eval.q.action = "mint"
          /\ \A pair \in Lookups(draft.scopes) \ todo :
                \/ Covered(pair[1], pair[2])
                \/ eval # None /\ eval.q.call.tool = pair[1] /\ eval.q.call.resource = pair[2]
    /\ lineage # <<>> => \A pair \in Lookups(lineage[1].scopes) : Covered(pair[1], pair[2])
    /\ DepthPermitted(cap) /\ \A j \in DOMAIN lineage : DepthPermitted(lineage[j].maxDepth)
    /\ phase = "delegate" => DepthPermitted(draft.maxDepth)

\* Every scope of a delegate is below one of every ancestor.
Descends ==
    \A j \in DOMAIN lineage : \A i \in 1 .. j : \A x \in DOMAIN lineage[j].scopes :
        \E y \in DOMAIN lineage[i].scopes : ScopeBelow(lineage[j].scopes[x], lineage[i].scopes[y])

-----------------------------------------------------------------------------
(* Types *)

\* A policy that has been loaded.
LEMMA RulesFacts ==
    ASSUME rules \in RuleSets, rules # None
    PROVE  /\ Len(rules) \in Nat /\ DOMAIN rules = 1 .. Len(rules)
           /\ \A i \in DOMAIN rules :
                 /\ rules[i].effect \in {"permit", "forbid"} /\ rules[i].allowDepth \in Int
                 /\ rules[i].tool \in String /\ (rules[i].tool # Empty => ValidatePattern(rules[i].tool))
                 /\ rules[i].resource \in String
                 /\ rules[i].resource # Empty => ValidatePattern(rules[i].resource)
<1>1. /\ rules = [i \in 1 .. Len(rules) |-> rules[i]] /\ Len(rules) \in Nat
      /\ Parse(rules) /\ \A i \in DOMAIN rules : DecodedRule(rules[i])
  BY GrantsAssumption
<1>2. DOMAIN rules = 1 .. Len(rules)
  BY <1>1, Zenon
<1>3. \A i \in DOMAIN rules : ParsedRule(rules[i]) /\ DecodedRule(rules[i])
  BY <1>1, Zenon DEF Parse
<1>4. ASSUME NEW i \in DOMAIN rules
      PROVE  /\ rules[i].effect \in {"permit", "forbid"} /\ rules[i].allowDepth \in Int
             /\ rules[i].tool \in String /\ (rules[i].tool # Empty => ValidatePattern(rules[i].tool))
             /\ rules[i].resource \in String
             /\ rules[i].resource # Empty => ValidatePattern(rules[i].resource)
  <2>1. PICK r : r = rules[i]
    OBVIOUS
  <2>2. ParsedRule(r) /\ DecodedRule(r)
    BY <1>3, <2>1
  <2>3. /\ r.effect \in {"permit", "forbid"} /\ r.allowDepth \in Int
        /\ r.tool \in String /\ (r.tool # Empty => ValidatePattern(r.tool))
        /\ r.resource \in String
        /\ r.resource # Empty => ValidatePattern(r.resource)
    BY <2>2 DEF ParsedRule, DecodedRule
  <2> QED BY <2>1, <2>3
<1> QED BY <1>1, <1>2, <1>4

\* Where Evaluate begins.
LEMMA EvaluatingType ==
    ASSUME NEW q \in Requests
    PROVE  /\ Evaluating(q) \in Evaluations /\ Evaluating(q) # None
           /\ Evaluating(q).q = q /\ Evaluating(q).decision = "none"
           /\ Evaluating(q).i = 1 /\ Evaluating(q).permit = 0
<1>1. Evaluating(q) \in Evaluations
  BY DEF Evaluating, Evaluations
<1> QED BY <1>1, NoneAssumption DEF Evaluating

\* One turn of Evaluate, field by field.
LEMMA EvaluateStepFields ==
    ASSUME NEW rs, NEW e \in Evaluations, e.decision = "none"
    PROVE  LET f == EvaluateStep(rs, e)
           IN  /\ f \in Evaluations /\ f.q = e.q
               /\ IF rs # None /\ e.i \in DOMAIN rs
                  THEN IF ~matches(rs[e.i], e.q)
                       THEN f.decision = "none" /\ f.i = e.i + 1 /\ f.permit = e.permit
                       ELSE IF rs[e.i].effect = "forbid" THEN f.decision = "deny"
                       ELSE /\ f.decision = "none" /\ f.i = e.i + 1
                            /\ f.permit = IF e.permit = 0 \/ rs[e.i].allowDepth > rs[e.permit].allowDepth
                                          THEN e.i ELSE e.permit
                  ELSE /\ f.decision = (IF e.permit = 0 THEN "deny" ELSE "allow") /\ f.rule = e.permit
<1>1. /\ e.q \in Requests /\ e.i \in Nat /\ e.permit \in Nat /\ e.rule \in Nat
      /\ e = [q |-> e.q, i |-> e.i, permit |-> e.permit, decision |-> e.decision, rule |-> e.rule]
  BY DEF Evaluations
<1>2. PICK p : p = IF e.permit = 0 \/ rs[e.i].allowDepth > rs[e.permit].allowDepth THEN e.i ELSE e.permit
  OBVIOUS
<1>3. p \in Nat
  BY <1>1, <1>2
<1>4. CASE rs # None /\ e.i \in DOMAIN rs /\ ~matches(rs[e.i], e.q)
  <2>1. EvaluateStep(rs, e) = [e EXCEPT !.i = @ + 1]
    BY <1>4 DEF EvaluateStep, EvaluateRule
  <2> QED BY <1>1, <1>4, <2>1 DEF Evaluations
<1>5. CASE rs # None /\ e.i \in DOMAIN rs /\ matches(rs[e.i], e.q) /\ rs[e.i].effect = "forbid"
  <2>1. EvaluateStep(rs, e) = [e EXCEPT !.decision = "deny", !.rule = e.i]
    BY <1>5 DEF EvaluateStep, EvaluateRule
  <2> QED BY <1>1, <1>5, <2>1 DEF Evaluations
<1>6. CASE rs # None /\ e.i \in DOMAIN rs /\ matches(rs[e.i], e.q) /\ rs[e.i].effect # "forbid"
  <2>1. EvaluateStep(rs, e) = [e EXCEPT !.i = @ + 1, !.permit = p]
    <3>1. EvaluateStep(rs, e) =
            [e EXCEPT !.i = @ + 1,
                      !.permit = IF @ = 0 \/ rs[e.i].allowDepth > rs[@].allowDepth THEN e.i ELSE @]
      BY <1>6, Zenon DEF EvaluateStep, EvaluateRule
    <3> QED BY <1>1, <1>2, <3>1
  <2>2. PICK f : f = [e EXCEPT !.i = @ + 1, !.permit = p]
    OBVIOUS
  <2>3. f \in Evaluations /\ f.q = e.q /\ f.decision = "none" /\ f.i = e.i + 1 /\ f.permit = p
    <3>1. e \in Evaluations /\ e.decision = "none" /\ e.i + 1 \in Nat
      BY <1>1
    <3>2. f.q = e.q /\ f.decision = e.decision /\ f.i = e.i + 1 /\ f.permit = p /\ f.rule = e.rule
      BY <2>2 DEF Evaluations
    <3>3. f = [q |-> f.q, i |-> f.i, permit |-> f.permit, decision |-> f.decision, rule |-> f.rule]
      BY <2>2 DEF Evaluations
    <3> QED BY <1>1, <1>3, <3>1, <3>2, <3>3 DEF Evaluations
  <2> QED BY <1>2, <1>6, <2>1, <2>2, <2>3
<1>7. CASE ~(rs # None /\ e.i \in DOMAIN rs)
  <2>1. EvaluateStep(rs, e) =
          [e EXCEPT !.decision = IF e.permit = 0 THEN "deny" ELSE "allow", !.rule = e.permit]
    BY <1>7 DEF EvaluateStep, EvaluateEnd
  <2> QED BY <1>1, <1>7, <2>1 DEF Evaluations
<1> QED BY <1>4, <1>5, <1>6, <1>7

\* The requests that MintRoot, Delegate and authorize make.
LEMMA RequestType ==
    ASSUME NEW action \in {"mint", "delegate", "call"}, NEW sub \in String, NEW depth \in Int,
           NEW call \in ToolCall, NEW hour \in Hours
    PROVE  Request(action, sub, depth, call, hour) \in Requests
BY GrantsAssumption DEF Request, Requests

\* A pair of patterns that MintRoot looks up stands in the place of a call.
LEMMA PatternCallType ==
    ASSUME NEW tool \in String, NEW resource \in String
    PROVE  [tool |-> tool, resource |-> resource, args |-> NoArgs] \in ToolCall
BY DEF ToolCall, Args, NoArgs

\* The pairs a list of scopes is looked up by.
LEMMA LookupsFacts ==
    ASSUME NEW scopes \in Seq(Scope)
    PROVE  /\ Lookups(scopes) \in SUBSET (String \X String)
           /\ \A i \in DOMAIN scopes : \A r \in scopes[i].resources : <<scopes[i].tool, r>> \in Lookups(scopes)
<1>1. ASSUME NEW s \in Scope PROVE s.tool \in String /\ s.resources \subseteq String
  BY DEF Scope
<1>2. \A i \in DOMAIN scopes : scopes[i] \in Scope
  OBVIOUS
<1> QED BY <1>1, <1>2 DEF Lookups

\* A token, and what it holds.
LEMMA TokenFacts ==
    ASSUME NEW t \in Tokens
    PROVE  t.sub \in String /\ t.scopes \in Seq(Scope) /\ t.maxDepth \in Int /\ t # None
BY NoneAssumption DEF Tokens

\* The token MintRoot and Delegate draft.
LEMMA TokenType ==
    ASSUME NEW sub \in String, NEW scopes \in Seq(Scope), NEW d \in Int
    PROVE  /\ Token(sub, scopes, d) \in Tokens
           /\ Token(sub, scopes, d).scopes = scopes /\ Token(sub, scopes, d).maxDepth = d
BY DEF Token, Tokens

\* The last token of the lineage.
LEMMA HolderFacts ==
    ASSUME Typed, lineage # <<>>
    PROVE  /\ Len(lineage) \in DOMAIN lineage /\ Len(lineage) \in Nat /\ Holder = lineage[Len(lineage)]
           /\ Holder \in Tokens /\ ValidScopes(Holder.scopes)
<1>1. lineage \in Seq(Tokens) /\ lineage # <<>>
  BY DEF Typed, GrantsTypeOK
<1>2. Len(lineage) \in DOMAIN lineage /\ Len(lineage) \in Nat /\ lineage[Len(lineage)] \in Tokens
  BY <1>1
<1>3. Holder = lineage[Len(lineage)]
  BY DEF Holder, Last
<1> QED BY <1>2, <1>3 DEF Typed, GrantsTypeOK, ValidScopes

\* What Delegate grants is what Attenuate leaves of the holder's scopes, and is
\* well formed.
LEMMA GrantedFacts ==
    ASSUME Typed, phase = "delegate"
    PROVE  /\ lineage # <<>> /\ draft \in Tokens /\ draft.scopes \in Askable
           /\ Granted \in Seq(Scope) /\ ValidScopes(Granted)
           /\ Granted \in Seq(Left(Holder.scopes, draft.scopes))
<1>1. lineage # <<>> /\ draft \in Tokens /\ draft.scopes \in Askable
  BY DEF Typed, GrantsTypeOK
<1>2. draft.scopes \in Seq(Scope) /\ Holder.scopes \in Seq(Scope) /\ ValidScopes(Holder.scopes)
  BY <1>1, HolderFacts, TokenFacts
<1> DEFINE L == Left(Holder.scopes, draft.scopes)
<1>3. CASE ValidScopes(draft.scopes)
  <2>1. Granted \in Seq(L)
    BY <1>2, <1>3, AttenuateLeft DEF Granted
  <2>2. L \subseteq Scope /\ \A s \in L : Validate(s)
    <3>1. L \subseteq Scope
      BY DEF Left
    <3>2. ASSUME NEW s \in L PROVE Validate(s)
      <4>1. PICK i \in DOMAIN draft.scopes, j \in DOMAIN Holder.scopes :
                /\ s = Common(draft.scopes[i], Holder.scopes[j])
                /\ PatternIntersect(draft.scopes[i].tool, Holder.scopes[j].tool) # Empty
                /\ s.resources # {} /\ s.maxCalls > 0
        BY DEF Left
      <4>2. /\ draft.scopes[i] \in Scope /\ Holder.scopes[j] \in Scope
            /\ Validate(draft.scopes[i]) /\ Validate(Holder.scopes[j])
        BY <1>2, <1>3 DEF ValidScopes
      <4> QED BY <4>1, <4>2, CommonValid
    <3> QED BY <3>1, <3>2
  <2> HIDE DEF L
  <2>3. \A i \in DOMAIN Granted : Granted[i] \in L
    BY <2>1
  <2>4. Granted \in Seq(Scope)
    BY <2>1, <2>2
  <2>5. ValidScopes(Granted)
    BY <2>2, <2>3 DEF ValidScopes
  <2> QED BY <1>1, <2>1, <2>4, <2>5 DEF L
<1>4. CASE ~ValidScopes(draft.scopes)
  <2>1. Granted = << >>
    BY <1>4 DEF Granted
  <2> HIDE DEF L
  <2>2. << >> \in Seq(Scope) /\ << >> \in Seq(L) /\ ValidScopes(<< >>)
    BY DEF ValidScopes
  <2> QED BY <1>1, <2>1, <2>2 DEF L
<1> QED BY <1>3, <1>4

\* What a step of Delegate adds to the lineage.
LEMMA DelegateAdds ==
    ASSUME Typed, DelegateDecided
    PROVE  \/ lineage' = lineage
           \/ \E t \in Tokens : /\ lineage' = Append(lineage, t) /\ t.maxDepth = draft.maxDepth
                                /\ t.scopes = Granted
<1>1. phase = "delegate" /\ draft \in Tokens /\ Granted \in Seq(Scope)
  BY GrantedFacts DEF DelegateDecided
<1>2. PICK t : t = [draft EXCEPT !.scopes = Granted]
  OBVIOUS
<1>3. t \in Tokens /\ t.maxDepth = draft.maxDepth /\ t.scopes = Granted
  BY <1>1, <1>2 DEF Tokens
<1> QED BY <1>2, <1>3 DEF DelegateDecided

\* The types hold at the start.
LEMMA TypedInit == Init => Typed
<1> SUFFICES ASSUME Init PROVE Typed
  OBVIOUS
<1>1. << >> \in Seq(Tokens)
  OBVIOUS
<1> QED BY <1>1, GrantsAssumption DEF Init, Typed, GrantsTypeOK

\* MintRoot.
LEMMA MintRootTyped ==
    ASSUME Typed, NEW sub \in Subjects, NEW scopes \in Mintable, NEW d \in DepthsAsked,
           MintRoot(sub, scopes, d)
    PROVE  Typed'
<1>1. sub \in String /\ scopes \in Seq(Scope) /\ d \in Int /\ CfgMaxDepth \in Int
  BY GrantsAssumption
<1>2. PICK e \in Int : draft' = Token(sub, scopes, e)
  BY <1>1 DEF MintRoot
<1>3. draft' \in Tokens /\ draft'.scopes = scopes
  BY <1>1, <1>2, TokenType
<1>4. todo' \in SUBSET (String \X String)
  BY <1>1, LookupsFacts DEF MintRoot
<1> QED BY <1>3, <1>4 DEF MintRoot, Typed, GrantsTypeOK

\* MintLookup.
LEMMA MintLookupTyped ==
    ASSUME Typed, NEW hour \in Hours, MintLookup(hour)
    PROVE  /\ Typed'
           /\ \E pair \in todo :
                 /\ pair[1] \in String /\ pair[2] \in String /\ todo' = todo \ {pair}
                 /\ eval' \in Evaluations /\ eval'.q.action = "mint"
                 /\ eval'.q.call.tool = pair[1] /\ eval'.q.call.resource = pair[2]
                 /\ eval'.decision = "none" /\ eval'.i = 1 /\ eval'.permit = 0
<1>1. phase = "mint" /\ draft \in Tokens /\ todo \in SUBSET (String \X String)
  BY DEF MintLookup, Typed, GrantsTypeOK
<1>2. PICK pair \in todo :
          /\ eval' = Evaluating(Request("mint", draft.sub, 0,
                        [tool |-> pair[1], resource |-> pair[2], args |-> NoArgs], hour))
          /\ todo' = todo \ {pair}
  BY DEF MintLookup
<1>3. pair[1] \in String /\ pair[2] \in String /\ draft.sub \in String /\ 0 \in Int
  BY <1>1, <1>2, TokenFacts
<1>4. PICK c \in ToolCall : c = [tool |-> pair[1], resource |-> pair[2], args |-> NoArgs]
  BY <1>3, PatternCallType
<1>5. PICK q \in Requests : q = Request("mint", draft.sub, 0, c, hour)
  BY <1>3, RequestType
<1>6. q.action = "mint" /\ q.call = c /\ c.tool = pair[1] /\ c.resource = pair[2]
  BY <1>4, <1>5 DEF Request
<1>7. /\ eval' \in Evaluations /\ eval' # None /\ eval'.q = q
      /\ eval'.decision = "none" /\ eval'.i = 1 /\ eval'.permit = 0
  BY <1>2, <1>4, <1>5, EvaluatingType
<1>8. todo' \in SUBSET (String \X String)
  BY <1>1, <1>2
<1>9. Typed'
  BY <1>7, <1>8 DEF MintLookup, Typed, GrantsTypeOK
<1> QED BY <1>2, <1>3, <1>6, <1>7, <1>9

\* Evaluate.
LEMMA EvaluateTyped ==
    ASSUME Typed, Evaluate
    PROVE  Typed' /\ eval \in Evaluations /\ eval' \in Evaluations /\ eval'.q = eval.q
<1>1. eval \in Evaluations /\ eval.decision = "none" /\ eval' = EvaluateStep(rules, eval)
  BY DEF Evaluate, Typed, GrantsTypeOK
<1>2. eval' \in Evaluations /\ eval'.q = eval.q
  BY <1>1, EvaluateStepFields
<1>3. eval' # None
  BY <1>2, NoneAssumption
<1> QED BY <1>1, <1>2, <1>3 DEF Evaluate, Typed, GrantsTypeOK

\* The end of MintRoot.
LEMMA MintEndTyped ==
    ASSUME Typed, Evaluated, MintDenied \/ MintAllowed \/ MintIssue
    PROVE  Typed'
<1>1. CASE MintDenied
  BY <1>1 DEF MintDenied, Decided, Typed, GrantsTypeOK
<1>2. CASE MintAllowed
  <2>1. phase = "mint" /\ eval \in Evaluations /\ eval.decision = "allow" /\ cap \in Nat
    BY <1>2 DEF MintAllowed, Decided, Typed, GrantsTypeOK
  <2>2. cap' \in Nat
    <3>1. rules \in RuleSets /\ rules # None /\ eval.rule \in DOMAIN rules
      BY <1>2, <2>1, NoneAssumption DEF Evaluated, Matching, Typed, GrantsTypeOK
    <3>2. PICK d : d = rules[eval.rule].allowDepth
      OBVIOUS
    <3>3. d \in Int
      BY <3>1, <3>2, RulesFacts
    <3>4. cap' = IF d > cap THEN d ELSE cap
      BY <1>2, <3>2 DEF MintAllowed
    <3> QED BY <2>1, <3>3, <3>4
  <2> QED BY <1>2, <2>2 DEF MintAllowed, Decided, Typed, GrantsTypeOK
<1>3. CASE MintIssue
  <2>1. draft \in Tokens /\ ValidScopes(draft.scopes) /\ lineage = <<>>
    BY <1>3 DEF MintIssue, Typed, GrantsTypeOK
  <2>2. CASE draft.maxDepth > cap
    BY <1>3, <2>1, <2>2 DEF MintIssue, Typed, GrantsTypeOK
  <2>3. CASE ~(draft.maxDepth > cap)
    <3>1. phase' = "held" /\ lineage' = <<draft>>
      BY <1>3, <2>3 DEF MintIssue
    <3>2. <<draft>> \in Seq(Tokens) /\ <<draft>> # << >> /\ DOMAIN <<draft>> = {1} /\ <<draft>>[1] = draft
      BY <2>1
    <3>3. \A i \in DOMAIN lineage' : \A j \in DOMAIN lineage'[i].scopes : Validate(lineage'[i].scopes[j])
      BY <2>1, <3>1, <3>2 DEF ValidScopes
    <3> QED BY <1>3, <3>1, <3>2, <3>3 DEF MintIssue, Typed, GrantsTypeOK
  <2> QED BY <2>2, <2>3
<1> QED BY <1>1, <1>2, <1>3

\* Delegate.
LEMMA DelegateTyped ==
    ASSUME Typed, NEW sub \in Subjects, NEW scopes \in Askable, NEW hour \in Hours,
           Delegate(sub, scopes, hour)
    PROVE  /\ Typed' /\ draft'.maxDepth = Holder.maxDepth
           /\ eval' \in Evaluations /\ eval'.decision = "none" /\ eval'.i = 1 /\ eval'.permit = 0
<1>1. phase = "held" /\ lineage # <<>>
  BY DEF Delegate, Typed, GrantsTypeOK
<1>2. Len(lineage) \in Nat /\ Holder.sub \in String /\ Holder.maxDepth \in Int
  BY <1>1, HolderFacts, TokenFacts
<1>3. sub \in String /\ scopes \in Seq(Scope) /\ Empty \in String
  BY GrantsAssumption DEF Empty, String
<1>4. draft' \in Tokens /\ draft'.scopes = scopes /\ draft'.maxDepth = Holder.maxDepth
  BY <1>2, <1>3, TokenType DEF Delegate
<1>5. PICK c \in ToolCall : c = [tool |-> Empty, resource |-> sub, args |-> NoArgs]
  BY <1>3, PatternCallType
<1>6. PICK q \in Requests : q = Request("delegate", Holder.sub, Len(lineage), c, hour)
  BY <1>2, RequestType
<1>7. eval' = Evaluating(q)
  BY <1>5, <1>6 DEF Delegate
<1>8. /\ eval' \in Evaluations /\ eval' # None
      /\ eval'.decision = "none" /\ eval'.i = 1 /\ eval'.permit = 0
  BY <1>7, EvaluatingType
<1> QED BY <1>1, <1>4, <1>8 DEF Delegate, Typed, GrantsTypeOK

\* DelegateDecided.
LEMMA DelegateDecidedTyped ==
    ASSUME Typed, DelegateDecided
    PROVE  Typed'
<1>1. phase = "delegate" /\ lineage \in Seq(Tokens) /\ lineage # <<>>
  BY GrantedFacts DEF DelegateDecided, Typed, GrantsTypeOK
<1>2. /\ lineage' \in Seq(Tokens) /\ lineage' # << >>
      /\ \A i \in DOMAIN lineage' : \A j \in DOMAIN lineage'[i].scopes : Validate(lineage'[i].scopes[j])
  <2>1. CASE lineage' = lineage
    BY <1>1, <2>1 DEF Typed, GrantsTypeOK
  <2>2. CASE lineage' # lineage
    <3>1. PICK t \in Tokens : lineage' = Append(lineage, t) /\ t.scopes = Granted
      BY <2>2, DelegateAdds
    <3>2. /\ Append(lineage, t) \in Seq(Tokens) /\ Append(lineage, t) # << >>
          /\ \A i \in DOMAIN Append(lineage, t) :
                \/ i \in DOMAIN lineage /\ Append(lineage, t)[i] = lineage[i]
                \/ Append(lineage, t)[i] = t
      BY <1>1
    <3>3. \A j \in DOMAIN t.scopes : Validate(t.scopes[j])
      BY <1>1, <3>1, GrantedFacts DEF ValidScopes
    <3>4. \A i \in DOMAIN lineage : \A j \in DOMAIN lineage[i].scopes : Validate(lineage[i].scopes[j])
      BY DEF Typed, GrantsTypeOK
    <3> QED BY <3>1, <3>2, <3>3, <3>4
  <2> QED BY <2>1, <2>2
<1> QED BY <1>2 DEF DelegateDecided, Typed, GrantsTypeOK

\* authorize.
LEMMA CallTyped ==
    ASSUME Typed, NEW c \in CallPool, NEW hour \in Hours, Call(c, hour)
    PROVE  /\ Typed'
           /\ eval' \in Evaluations /\ eval'.decision = "none" /\ eval'.i = 1 /\ eval'.permit = 0
<1>1. phase = "held" /\ lineage # <<>>
  BY DEF Call, Typed, GrantsTypeOK
<1>2. Len(lineage) - 1 \in Int /\ Holder.sub \in String /\ c \in ToolCall
  BY <1>1, HolderFacts, TokenFacts, GrantsAssumption
<1>3. PICK q \in Requests : q = Request("call", Holder.sub, Len(lineage) - 1, c, hour)
  BY <1>2, RequestType
<1>4. /\ eval' \in Evaluations /\ eval' # None
      /\ eval'.decision = "none" /\ eval'.i = 1 /\ eval'.permit = 0
  BY <1>3, EvaluatingType DEF Call
<1> QED BY <1>1, <1>4 DEF Call, Typed, GrantsTypeOK

\* CallDecided.
LEMMA CallDecidedTyped ==
    ASSUME Typed, CallDecided
    PROVE  Typed'
BY DEF CallDecided, Typed, GrantsTypeOK

-----------------------------------------------------------------------------
(* Evaluate *)

\* Evaluate's state is its own.
LEMMA EvaluatedSame ==
    ASSUME Evaluated, eval' = eval, rules' = rules
    PROVE  Evaluated'
BY DEF Evaluated, Looking, DenyOverrides, Matching

\* Evaluate begins before the first rule.
LEMMA EvaluatedBegins ==
    ASSUME Typed, rules' = rules, eval' \in Evaluations,
           eval'.decision = "none", eval'.i = 1, eval'.permit = 0
    PROVE  Evaluated'
<1>1. rules # None => Len(rules) \in Nat
  BY RulesFacts DEF Typed, GrantsTypeOK
<1>2. rules # None => Looking(eval)'
  BY <1>1 DEF Looking
<1> QED BY <1>2 DEF Evaluated

\* One turn of the loop, and its end.
LEMMA EvaluatedTurn ==
    ASSUME Typed, Evaluated, Evaluate
    PROVE  Evaluated'
<1>1. /\ eval \in Evaluations /\ eval # None /\ eval.decision = "none" /\ rules' = rules
      /\ eval' = EvaluateStep(rules, eval) /\ rules \in RuleSets
  BY DEF Evaluate, Typed, GrantsTypeOK
<1>2. PICK e : e = eval
  OBVIOUS
<1>3. PICK f : f = EvaluateStep(rules, e)
  OBVIOUS
<1>4. e \in Evaluations /\ e.decision = "none" /\ e.i \in Nat /\ e.permit \in Nat
  BY <1>1, <1>2 DEF Evaluations
<1>5. /\ f \in Evaluations /\ f.q = e.q
      /\ IF rules # None /\ e.i \in DOMAIN rules
         THEN IF ~matches(rules[e.i], e.q)
              THEN f.decision = "none" /\ f.i = e.i + 1 /\ f.permit = e.permit
              ELSE IF rules[e.i].effect = "forbid" THEN f.decision = "deny"
              ELSE /\ f.decision = "none" /\ f.i = e.i + 1
                   /\ f.permit = IF e.permit = 0 \/ rules[e.i].allowDepth > rules[e.permit].allowDepth
                                 THEN e.i ELSE e.permit
         ELSE f.decision = (IF e.permit = 0 THEN "deny" ELSE "allow") /\ f.rule = e.permit
  BY <1>3, <1>4, EvaluateStepFields
<1>6. eval' = f /\ f # None
  BY <1>1, <1>2, <1>3, <1>5, NoneAssumption
<1> DEFINE Matched(effect) ==
             IF rules = None THEN {}
             ELSE {i \in DOMAIN rules : rules[i].effect = effect /\ matches(rules[i], e.q)}
<1>7. ASSUME f.decision # "none",
             f.decision = "allow" <=> Matched("permit") # {} /\ Matched("forbid") = {},
             f.decision = "allow" =>
                /\ \A i \in Matched("permit") : rules[i].allowDepth <= rules[f.rule].allowDepth
                /\ f.rule \in Matched("permit")
      PROVE  Evaluated'
  BY <1>1, <1>5, <1>6, <1>7 DEF Evaluated, DenyOverrides, Matching
<1>8. CASE rules = None
  <2>1. e.permit = 0
    BY <1>1, <1>2, <1>8 DEF Evaluated
  <2>2. f.decision = "deny"
    BY <1>5, <1>8, <2>1
  <2> QED BY <1>7, <1>8, <2>2
<1>9. CASE rules # None
  <2>1. /\ Len(rules) \in Nat /\ DOMAIN rules = 1 .. Len(rules)
        /\ \A i \in DOMAIN rules : rules[i].effect \in {"permit", "forbid"} /\ rules[i].allowDepth \in Int
    BY <1>1, <1>9, RulesFacts
  <2>2. Looking(e)
    BY <1>1, <1>2, <1>9 DEF Evaluated
  <2>3. ASSUME f.decision = "none", Looking(f) PROVE Evaluated'
    BY <1>1, <1>6, <1>9, <2>3 DEF Evaluated, Looking
  <2>4. CASE e.i \in DOMAIN rules /\ ~matches(rules[e.i], e.q)
    <3>1. f.decision = "none" /\ f.i = e.i + 1 /\ f.permit = e.permit /\ f.q = e.q
      BY <1>5, <1>9, <2>4
    <3>2. Looking(f)
      BY <1>4, <2>1, <2>2, <2>4, <3>1 DEF Looking
    <3> QED BY <2>3, <3>1, <3>2
  <2>5. CASE e.i \in DOMAIN rules /\ matches(rules[e.i], e.q) /\ rules[e.i].effect = "forbid"
    <3>1. f.decision = "deny"
      BY <1>5, <1>9, <2>5
    <3>2. e.i \in Matched("forbid")
      BY <1>9, <2>5
    <3> QED BY <1>7, <3>1, <3>2
  <2>6. CASE e.i \in DOMAIN rules /\ matches(rules[e.i], e.q) /\ rules[e.i].effect # "forbid"
    <3>1. /\ f.decision = "none" /\ f.i = e.i + 1 /\ f.q = e.q
          /\ f.permit = IF e.permit = 0 \/ rules[e.i].allowDepth > rules[e.permit].allowDepth
                        THEN e.i ELSE e.permit
      BY <1>5, <1>9, <2>6
    <3>2. rules[e.i].effect = "permit" /\ e.i \in 1 .. Len(rules) /\ e.i \in Nat \ {0}
      BY <2>1, <2>6
    <3>3. e.permit # 0 => e.permit \in 1 .. Len(rules) /\ rules[e.permit].allowDepth \in Int
      BY <2>1, <2>2, <3>2 DEF Looking
    <3>4. /\ f.i \in 1 .. Len(rules) + 1
          /\ f.permit \in 1 .. f.i - 1 /\ matches(rules[f.permit], f.q)
      BY <2>1, <2>2, <2>6, <3>1, <3>2 DEF Looking
    <3>5. ASSUME NEW k \in 1 .. f.i - 1, matches(rules[k], f.q)
          PROVE  rules[k].effect = "permit" /\ rules[k].allowDepth <= rules[f.permit].allowDepth
      <4>1. CASE k = e.i
        BY <2>1, <2>6, <3>1, <3>2, <3>3, <4>1
      <4>2. CASE k # e.i
        <5>1. k \in 1 .. e.i - 1 /\ k \in DOMAIN rules
          BY <2>1, <3>1, <3>2, <3>5, <4>2
        <5>2. /\ rules[k].effect = "permit" /\ e.permit # 0
              /\ rules[k].allowDepth <= rules[e.permit].allowDepth
          BY <2>2, <3>1, <3>5, <5>1 DEF Looking
        <5> QED BY <2>1, <2>6, <3>1, <3>3, <5>1, <5>2
      <4> QED BY <4>1, <4>2
    <3>6. Looking(f)
      BY <3>2, <3>4, <3>5 DEF Looking
    <3> QED BY <2>3, <3>1, <3>6
  <2>7. CASE e.i \notin DOMAIN rules
    <3>1. f.decision = (IF e.permit = 0 THEN "deny" ELSE "allow") /\ f.rule = e.permit
      BY <1>5, <2>7
    <3>2. e.i = Len(rules) + 1
      BY <1>4, <2>1, <2>2, <2>7 DEF Looking
    <3>3. \A k \in DOMAIN rules : matches(rules[k], e.q) =>
             /\ rules[k].effect = "permit" /\ e.permit # 0
             /\ rules[k].allowDepth <= rules[e.permit].allowDepth
      BY <2>1, <2>2, <3>2 DEF Looking
    <3>4. e.permit # 0 => e.permit \in DOMAIN rules /\ matches(rules[e.permit], e.q)
      BY <2>1, <2>2, <3>2 DEF Looking
    <3>5. Matched("forbid") = {} /\ (e.permit # 0 <=> Matched("permit") # {})
      BY <1>9, <3>3, <3>4
    <3>6. e.permit # 0 => e.permit \in Matched("permit")
      BY <1>9, <3>3, <3>4
    <3>7. \A i \in Matched("permit") : rules[i].allowDepth <= rules[e.permit].allowDepth
      BY <1>9, <3>3
    <3> HIDE DEF Matched
    <3> QED BY <1>7, <3>1, <3>5, <3>6, <3>7
  <2> QED BY <2>4, <2>5, <2>6, <2>7
<1> QED BY <1>8, <1>9

\* Every step keeps what Evaluate has found.
LEMMA EvaluatedStep ==
    ASSUME Typed, Evaluated, [Next]_vars
    PROVE  Evaluated'
<1>1. CASE UNCHANGED vars
  BY <1>1, EvaluatedSame DEF vars
<1>2. CASE \E sub \in Subjects, scopes \in Mintable, d \in DepthsAsked : MintRoot(sub, scopes, d)
  BY <1>2, EvaluatedSame DEF MintRoot
<1>3. ASSUME NEW hour \in Hours, MintLookup(hour) PROVE Evaluated'
  BY <1>3, MintLookupTyped, EvaluatedBegins DEF MintLookup
<1>4. ASSUME NEW hour \in Hours, NEW sub \in Subjects, NEW scopes \in Askable, Delegate(sub, scopes, hour)
      PROVE  Evaluated'
  BY <1>4, DelegateTyped, EvaluatedBegins DEF Delegate
<1>5. ASSUME NEW hour \in Hours, NEW c \in CallPool, Call(c, hour) PROVE Evaluated'
  BY <1>5, CallTyped, EvaluatedBegins DEF Call
<1>6. CASE Evaluate
  BY <1>6, EvaluatedTurn
<1>7. CASE MintDenied \/ MintAllowed \/ DelegateDecided \/ CallDecided
  <2>1. eval' = None
    BY <1>7 DEF MintDenied, MintAllowed, DelegateDecided, CallDecided
  <2> QED BY <2>1 DEF Evaluated
<1>8. CASE MintIssue
  BY <1>8, EvaluatedSame DEF MintIssue
<1> QED BY <1>1, <1>2, <1>3, <1>4, <1>5, <1>6, <1>7, <1>8 DEF Next

\* Every step keeps the types.
LEMMA TypedStep ==
    ASSUME Typed, Evaluated, [Next]_vars
    PROVE  Typed'
<1>1. CASE UNCHANGED vars
  BY <1>1 DEF vars, Typed, GrantsTypeOK, ValidScopes
<1>2. CASE Next
  BY <1>2, MintRootTyped, MintLookupTyped, EvaluateTyped, MintEndTyped, DelegateTyped,
     DelegateDecidedTyped, CallTyped, CallDecidedTyped DEF Next
<1> QED BY <1>1, <1>2

\* The types and Evaluate's loop invariant hold together: the cap of a mint is a
\* number because the rule that was decided on is one of the policy's.
LEMMA TypedKept == Spec => [](Typed /\ Evaluated)
<1>1. Init => Typed /\ Evaluated
  BY TypedInit DEF Init, Evaluated
<1>2. Typed /\ Evaluated /\ [Next]_vars => (Typed /\ Evaluated)'
  BY TypedStep, EvaluatedStep
<1> QED BY <1>1, <1>2, PTL DEF Spec

\* Types, phases and what belongs to them: a lineage only once a root has been
\* issued, a draft only during a mint or a delegation, and every scope of every
\* token well formed, however often scopes were intersected.
THEOREM GrantsTyped == Spec => []GrantsTypeOK
<1>1. Typed => GrantsTypeOK
  BY DEF Typed
<1> QED BY <1>1, TypedKept, PTL

\* Whatever the order of the rules, a decision of Evaluate allows exactly when a
\* permit matches and no forbid does, and it carries the largest allow_depth of
\* the permits that match.
THEOREM DenyAlwaysOverrides == Spec => []DenyOverrides
<1>1. Evaluated => DenyOverrides
  BY DEF Evaluated, DenyOverrides
<1> QED BY <1>1, TypedKept, PTL

-----------------------------------------------------------------------------
(* Delegates stay below their ancestors *)

\* The lineage when a root is issued or a delegate is added.
LEMMA LineageMoves ==
    ASSUME Typed, [Next]_vars
    PROVE  \/ lineage' = lineage
           \/ /\ MintIssue /\ lineage' = <<draft>> /\ draft \in Tokens /\ draft.maxDepth <= cap
              /\ lineage = << >> /\ ValidScopes(draft.scopes)
           \/ /\ DelegateDecided /\ phase = "delegate"
              /\ \E t \in Tokens : /\ lineage' = Append(lineage, t) /\ t.maxDepth = draft.maxDepth
                                   /\ t.scopes = Granted
<1>1. CASE MintIssue
  <2>1. draft \in Tokens /\ lineage = << >> /\ cap \in Nat /\ ValidScopes(draft.scopes)
    BY <1>1 DEF MintIssue, Typed, GrantsTypeOK
  <2>2. draft.maxDepth \in Int
    BY <2>1, TokenFacts
  <2> QED BY <1>1, <2>1, <2>2 DEF MintIssue
<1>2. CASE DelegateDecided
  BY <1>2, DelegateAdds DEF DelegateDecided
<1>3. CASE UNCHANGED vars
  BY <1>3 DEF vars
<1>4. CASE Next /\ ~MintIssue /\ ~DelegateDecided
  BY <1>4 DEF Next, MintRoot, MintLookup, Evaluate, MintDenied, MintAllowed, Delegate, Call, CallDecided
<1> QED BY <1>1, <1>2, <1>3, <1>4

\* Each scope that Delegate grants is below one of every ancestor.
LEMMA GrantedBelow ==
    ASSUME PlainAsked, Typed, Descends, phase = "delegate",
           NEW i \in DOMAIN lineage, NEW x \in DOMAIN Granted
    PROVE  \E y \in DOMAIN lineage[i].scopes : ScopeBelow(Granted[x], lineage[i].scopes[y])
<1>1. /\ lineage # <<>> /\ draft \in Tokens /\ draft.scopes \in Askable
      /\ Granted \in Seq(Left(Holder.scopes, draft.scopes))
  BY GrantedFacts
<1>2. /\ Len(lineage) \in DOMAIN lineage /\ Len(lineage) \in Nat /\ Holder = lineage[Len(lineage)]
      /\ Holder.scopes \in Seq(Scope) /\ draft.scopes \in Seq(Scope)
  BY <1>1, HolderFacts, TokenFacts
<1>3. Granted[x] \in Left(Holder.scopes, draft.scopes)
  BY <1>1
<1>4. PICK k \in DOMAIN draft.scopes, j \in DOMAIN Holder.scopes :
          /\ Granted[x] = Common(draft.scopes[k], Holder.scopes[j])
          /\ PatternIntersect(draft.scopes[k].tool, Holder.scopes[j].tool) # Empty
  BY <1>3 DEF Left
<1>5. draft.scopes[k] \in Scope /\ Holder.scopes[j] \in Scope /\ PlainScope(draft.scopes[k])
  BY <1>1, <1>2 DEF PlainAsked
<1>6. lineage \in Seq(Tokens) /\ i \in 1 .. Len(lineage) /\ lineage[i] \in Tokens
  BY DEF Typed, GrantsTypeOK
<1>7. PICK y \in DOMAIN lineage[i].scopes : ScopeBelow(Holder.scopes[j], lineage[i].scopes[y])
  BY <1>2, <1>6 DEF Descends
<1>8. lineage[i].scopes[y] \in Scope
  BY <1>6, TokenFacts
<1>9. ScopeBelow(Granted[x], lineage[i].scopes[y])
  BY <1>4, <1>5, <1>7, <1>8, CommonBelow
<1> QED BY <1>9

\* Delegates stay below their ancestors.
LEMMA DescendsStep ==
    ASSUME PlainAsked, Typed, Descends, [Next]_vars
    PROVE  Descends'
<1>1. CASE lineage' = lineage
  BY <1>1 DEF Descends
<1>2. CASE lineage' = <<draft>> /\ draft \in Tokens
  <2>1. DOMAIN lineage' = {1} /\ lineage'[1] = draft
    BY <1>2
  <2>2. draft.scopes \in Seq(Scope)
    BY <1>2, TokenFacts
  <2>3. \A x \in DOMAIN draft.scopes : ScopeBelow(draft.scopes[x], draft.scopes[x])
    BY <2>2, ScopeBelowSubset
  <2> QED BY <2>1, <2>3 DEF Descends
<1>3. ASSUME phase = "delegate", NEW t \in Tokens, lineage' = Append(lineage, t), t.scopes = Granted
      PROVE  Descends'
  <2>1. lineage \in Seq(Tokens) /\ Len(lineage) \in Nat /\ DOMAIN lineage = 1 .. Len(lineage)
    BY DEF Typed, GrantsTypeOK
  <2>2. /\ DOMAIN lineage' = 1 .. Len(lineage) + 1 /\ lineage'[Len(lineage) + 1] = t
        /\ \A i \in 1 .. Len(lineage) : lineage'[i] = lineage[i]
    BY <1>3, <2>1
  <2>3. t.scopes \in Seq(Scope)
    BY TokenFacts
  <2> SUFFICES ASSUME NEW j \in 1 .. Len(lineage) + 1, NEW i \in 1 .. j, NEW x \in DOMAIN lineage'[j].scopes
               PROVE  \E y \in DOMAIN lineage'[i].scopes :
                         ScopeBelow(lineage'[j].scopes[x], lineage'[i].scopes[y])
    BY <2>2 DEF Descends
  <2>4. CASE j # Len(lineage) + 1
    <3>1. j \in DOMAIN lineage /\ lineage'[j] = lineage[j] /\ lineage'[i] = lineage[i]
      BY <2>1, <2>2, <2>4
    <3> QED BY <3>1 DEF Descends
  <2>5. CASE j = Len(lineage) + 1 /\ i = j
    BY <2>2, <2>3, <2>5, ScopeBelowSubset
  <2>6. CASE j = Len(lineage) + 1 /\ i # j
    <3>1. i \in DOMAIN lineage /\ lineage'[i] = lineage[i] /\ lineage'[j] = t
      BY <2>1, <2>2, <2>6
    <3> QED BY <1>3, <3>1, GrantedBelow
  <2> QED BY <2>4, <2>5, <2>6
<1> QED BY <1>1, <1>2, <1>3, LineageMoves

\* The lineage descends, as long as no literal that is asked for escapes.
LEMMA DescendsKept ==
    ASSUME PlainAsked
    PROVE  Spec => []Descends
<1>1. Init => Descends
  BY DEF Init, Descends
<1>2. (Typed /\ Evaluated) /\ Descends /\ [Next]_vars => Descends'
  BY DescendsStep
<1> QED BY <1>1, <1>2, TypedKept, PTL DEF Spec

\* Attenuate's result is a subset of its parent's scopes, and of every
\* ancestor's, by the structural test itself; a literal that escapesPrefix
\* refuses is the one thing a delegate must not have asked for.
THEOREM AttenuationIsSubset ==
    ASSUME PlainAsked
    PROVE  Spec => []AttenuatedSubset
<1>1. Typed /\ Descends => AttenuatedSubset
  <2> SUFFICES ASSUME Typed, Descends, NEW j \in DOMAIN lineage, NEW i \in 1 .. j,
                      NEW x \in DOMAIN lineage[j].scopes
               PROVE  \E y \in DOMAIN lineage[i].scopes : Subset(lineage[j].scopes[x], lineage[i].scopes[y])
    BY DEF AttenuatedSubset, ScopesSubset
  <2>1. lineage \in Seq(Tokens) /\ i \in DOMAIN lineage
    BY DEF Typed, GrantsTypeOK
  <2>2. lineage[i].scopes \in Seq(Scope) /\ lineage[j].scopes \in Seq(Scope)
    BY <2>1, TokenFacts
  <2>3. PICK y \in DOMAIN lineage[i].scopes : ScopeBelow(lineage[j].scopes[x], lineage[i].scopes[y])
    BY DEF Descends
  <2>4. lineage[j].scopes[x] \in Scope /\ lineage[i].scopes[y] \in Scope
    BY <2>2
  <2> QED BY <2>3, <2>4, ScopeBelowSubset
<1> QED BY <1>1, TypedKept, DescendsKept, PTL

\* Under the same condition the test means what it says: a delegate admits no
\* call that one of its ancestors does not.
THEOREM DelegatesStayWithin ==
    ASSUME PlainAsked
    PROVE  Spec => []DelegatesWithin
<1>1. Typed /\ Descends => DelegatesWithin
  <2> SUFFICES ASSUME Typed, Descends, NEW j \in DOMAIN lineage, NEW i \in 1 .. j, NEW c \in CallPool,
                      FirstMatch(lineage[j].scopes, c) > 0
               PROVE  FirstMatch(lineage[i].scopes, c) > 0
    BY DEF DelegatesWithin
  <2>1. lineage \in Seq(Tokens) /\ i \in DOMAIN lineage /\ c \in ToolCall
    BY GrantsAssumption DEF Typed, GrantsTypeOK
  <2>2. lineage[i].scopes \in Seq(Scope) /\ lineage[j].scopes \in Seq(Scope)
    BY <2>1, TokenFacts
  <2>3. PICK x \in DOMAIN lineage[j].scopes : Allows(lineage[j].scopes[x], c)
    BY <2>2, FirstMatchFound
  <2>4. PICK y \in DOMAIN lineage[i].scopes : ScopeBelow(lineage[j].scopes[x], lineage[i].scopes[y])
    BY DEF Descends
  <2>5. lineage[j].scopes[x] \in Scope /\ lineage[i].scopes[y] \in Scope
    BY <2>2
  <2>6. Allows(lineage[i].scopes[y], c)
    BY <2>1, <2>3, <2>4, <2>5, ScopeBelowAllows
  <2> QED BY <2>2, <2>6, FirstMatchFound
<1> QED BY <1>1, TypedKept, DescendsKept, PTL

-----------------------------------------------------------------------------
(* A mint is permitted *)

\* What the permits cover, and allow, does not change: the policy stays.
LEMMA PermitsSame ==
    ASSUME rules' = rules
    PROVE  /\ \A tool, resource : Covered(tool, resource)' <=> Covered(tool, resource)
           /\ \A d : DepthPermitted(d)' <=> DepthPermitted(d)
BY DEF Covered, DepthPermitted, MintPermits

\* The policy is loaded once.
LEMMA RulesStay ==
    ASSUME [Next]_vars
    PROVE  rules' = rules
BY DEF Next, vars, MintRoot, MintLookup, Evaluate, MintDenied, MintAllowed, MintIssue, Delegate,
       DelegateDecided, Call, CallDecided

\* The rule that allowed a mint permits it, and covers the pair that was asked
\* about.
LEMMA AllowedCovers ==
    ASSUME Typed, Evaluated, Permitted, MintAllowed
    PROVE  /\ Covered(eval.q.call.tool, eval.q.call.resource)
           /\ DepthPermitted(rules[eval.rule].allowDepth) /\ rules[eval.rule].allowDepth \in Int
<1>1. phase = "mint" /\ eval # None /\ eval.decision = "allow" /\ eval.q.action = "mint"
  BY DEF MintAllowed, Decided, Permitted
<1>2. eval.rule \in Matching("permit") /\ rules \in RuleSets
  BY <1>1 DEF Evaluated, Typed, GrantsTypeOK
<1>3. /\ rules # None /\ eval.rule \in DOMAIN rules /\ rules[eval.rule].effect = "permit"
      /\ matches(rules[eval.rule], eval.q)
  BY <1>2 DEF Matching
<1>4. /\ rules[eval.rule].action \in {"", "mint"}
      /\ m(rules[eval.rule].tool, eval.q.call.tool) /\ m(rules[eval.rule].resource, eval.q.call.resource)
  BY <1>1, <1>3 DEF matches
<1>5. eval.rule \in MintPermits
  BY <1>3, <1>4 DEF MintPermits
<1>6. PICK d : d = rules[eval.rule].allowDepth
  OBVIOUS
<1>7. d \in Int
  BY <1>2, <1>3, <1>6, RulesFacts
<1>8. DepthPermitted(d)
  BY <1>5, <1>6, <1>7 DEF DepthPermitted
<1>9. Covered(eval.q.call.tool, eval.q.call.resource)
  BY <1>4, <1>5 DEF Covered
<1> QED BY <1>6, <1>7, <1>8, <1>9

\* A step of a mint.
LEMMA MintPermitted ==
    ASSUME Typed, Evaluated, Permitted, [Next]_vars, phase' = "mint"
    PROVE  /\ eval' # None => eval'.q.action = "mint"
           /\ \A pair \in Lookups(draft'.scopes) \ todo' :
                 \/ Covered(pair[1], pair[2])
                 \/ eval' # None /\ eval'.q.call.tool = pair[1] /\ eval'.q.call.resource = pair[2]
<1>1. CASE UNCHANGED vars
  BY <1>1 DEF vars, Permitted
<1>2. ASSUME NEW sub \in Subjects, NEW scopes \in Mintable, NEW d \in DepthsAsked, MintRoot(sub, scopes, d)
      PROVE  Lookups(draft'.scopes) \subseteq todo' /\ eval' = None
  <2>1. phase = "idle" /\ todo' = Lookups(scopes) /\ eval' = eval
    BY <1>2 DEF MintRoot
  <2>2. draft'.scopes = scopes
    BY <1>2 DEF MintRoot, Token
  <2>3. eval = None
    BY <2>1 DEF Permitted
  <2> QED BY <2>1, <2>2, <2>3
<1>3. ASSUME NEW hour \in Hours, MintLookup(hour)
      PROVE  /\ eval'.q.action = "mint" /\ draft' = draft /\ eval = None /\ eval' # None /\ phase = "mint"
             /\ \E pair \in todo : /\ todo' = todo \ {pair}
                                   /\ eval'.q.call.tool = pair[1] /\ eval'.q.call.resource = pair[2]
  <2>1. \E pair \in todo : /\ todo' = todo \ {pair} /\ eval' \in Evaluations /\ eval'.q.action = "mint"
                           /\ eval'.q.call.tool = pair[1] /\ eval'.q.call.resource = pair[2]
    BY <1>3, MintLookupTyped
  <2> QED BY <1>3, <2>1, NoneAssumption DEF MintLookup
<1>4. CASE Evaluate
  <2>1. /\ phase = "mint" /\ draft' = draft /\ todo' = todo /\ eval # None
        /\ eval'.q = eval.q /\ eval' # None
    BY <1>4, EvaluateTyped, NoneAssumption DEF Evaluate
  <2> QED BY <2>1 DEF Permitted
<1>5. CASE MintAllowed
  <2>1. phase = "mint" /\ draft' = draft /\ todo' = todo /\ eval' = None
    BY <1>5 DEF MintAllowed, Decided
  <2>2. Covered(eval.q.call.tool, eval.q.call.resource)
    BY <1>5, AllowedCovers
  <2> QED BY <2>1, <2>2 DEF Permitted
<1>6. ASSUME \E sub \in Subjects, scopes \in Mintable, d \in DepthsAsked : MintRoot(sub, scopes, d)
      PROVE  /\ eval' # None => eval'.q.action = "mint"
             /\ \A pair \in Lookups(draft'.scopes) \ todo' :
                   \/ Covered(pair[1], pair[2])
                   \/ eval' # None /\ eval'.q.call.tool = pair[1] /\ eval'.q.call.resource = pair[2]
  BY <1>2, <1>6
<1>7. ASSUME \E hour \in Hours : MintLookup(hour)
      PROVE  /\ eval' # None => eval'.q.action = "mint"
             /\ \A pair \in Lookups(draft'.scopes) \ todo' :
                   \/ Covered(pair[1], pair[2])
                   \/ eval' # None /\ eval'.q.call.tool = pair[1] /\ eval'.q.call.resource = pair[2]
  BY <1>3, <1>7 DEF Permitted
<1>8. ASSUME \/ \E hour \in Hours : \/ \E sub \in Subjects, scopes \in Askable : Delegate(sub, scopes, hour)
                                    \/ \E call \in CallPool : Call(call, hour)
             \/ MintDenied \/ MintIssue \/ DelegateDecided \/ CallDecided
      PROVE  FALSE
  BY <1>8 DEF Delegate, Call, MintDenied, MintIssue, DelegateDecided, CallDecided
<1> QED BY <1>1, <1>4, <1>5, <1>6, <1>7, <1>8 DEF Next

\* The cap and every depth.
LEMMA DepthsPermitted ==
    ASSUME Typed, Evaluated, Permitted, [Next]_vars
    PROVE  /\ DepthPermitted(cap') /\ \A j \in DOMAIN lineage' : DepthPermitted(lineage'[j].maxDepth)
           /\ phase' = "delegate" => DepthPermitted(draft'.maxDepth)
<1>1. DepthPermitted(cap')
  <2>1. CASE MintAllowed
    BY <2>1, AllowedCovers DEF MintAllowed, Permitted
  <2>2. CASE ~MintAllowed
    <3>1. cap' = cap
      BY <2>2 DEF Next, vars, MintRoot, MintLookup, Evaluate, MintDenied, MintIssue, Delegate,
                  DelegateDecided, Call, CallDecided
    <3> QED BY <3>1 DEF Permitted
  <2> QED BY <2>1, <2>2
<1>2. \A j \in DOMAIN lineage' : DepthPermitted(lineage'[j].maxDepth)
  <2>1. CASE lineage' = lineage
    BY <2>1 DEF Permitted
  <2>2. CASE MintIssue /\ lineage' = <<draft>> /\ draft \in Tokens /\ draft.maxDepth <= cap
    <3>1. draft.maxDepth \in Int /\ cap \in Nat /\ rules \in RuleSets
      BY <2>2, TokenFacts DEF Typed, GrantsTypeOK
    <3>2. \A i \in MintPermits : rules[i].allowDepth \in Int
      BY <3>1, RulesFacts DEF MintPermits
    <3>3. CfgMaxDepth \in Int
      BY GrantsAssumption
    <3>4. DepthPermitted(cap)
      BY DEF Permitted
    <3>5. DepthPermitted(draft.maxDepth)
      BY <2>2, <3>1, <3>2, <3>3, <3>4 DEF DepthPermitted
    <3>6. DOMAIN lineage' = {1} /\ lineage'[1] = draft
      BY <2>2
    <3> QED BY <3>5, <3>6
  <2>3. ASSUME phase = "delegate", NEW t \in Tokens, lineage' = Append(lineage, t), t.maxDepth = draft.maxDepth
        PROVE  \A j \in DOMAIN lineage' : DepthPermitted(lineage'[j].maxDepth)
    <3>1. lineage \in Seq(Tokens)
      BY DEF Typed, GrantsTypeOK
    <3>2. \A j \in DOMAIN lineage' : lineage'[j] = t \/ (j \in DOMAIN lineage /\ lineage'[j] = lineage[j])
      BY <2>3, <3>1
    <3> QED BY <2>3, <3>2 DEF Permitted
  <2> QED BY <2>1, <2>2, <2>3, LineageMoves
<1>3. phase' = "delegate" => DepthPermitted(draft'.maxDepth)
  <2>1. ASSUME NEW hour \in Hours, NEW sub \in Subjects, NEW scopes \in Askable, Delegate(sub, scopes, hour)
        PROVE  DepthPermitted(draft'.maxDepth)
    <3>1. lineage # <<>> /\ draft'.maxDepth = Holder.maxDepth
      BY <2>1, DelegateTyped DEF Delegate, Typed, GrantsTypeOK
    <3>2. Len(lineage) \in DOMAIN lineage /\ Holder = lineage[Len(lineage)]
      BY <3>1, HolderFacts
    <3> QED BY <3>1, <3>2 DEF Permitted
  <2>2. CASE phase = "delegate" /\ draft' = draft
    BY <2>2 DEF Permitted
  <2>3. phase' = "delegate" =>
          \/ phase = "delegate" /\ draft' = draft
          \/ \E hour \in Hours, sub \in Subjects, scopes \in Askable : Delegate(sub, scopes, hour)
    BY DEF Next, vars, MintRoot, MintLookup, Evaluate, MintDenied, MintAllowed, Decided, MintIssue,
           DelegateDecided, Call, CallDecided
  <2> QED BY <2>1, <2>2, <2>3
<1> QED BY <1>1, <1>2, <1>3

\* The root's pairs were all looked up and allowed when it was issued.
LEMMA RootPermitted ==
    ASSUME Typed, Evaluated, Permitted, [Next]_vars, lineage' # <<>>
    PROVE  \A pair \in Lookups(lineage'[1].scopes) : Covered(pair[1], pair[2])
<1>1. CASE lineage' = lineage
  BY <1>1 DEF Permitted
<1>2. CASE MintIssue /\ lineage' = <<draft>>
  <2>1. phase = "mint" /\ eval = None /\ todo = {} /\ lineage'[1] = draft
    BY <1>2 DEF MintIssue
  <2> QED BY <2>1 DEF Permitted
<1>3. ASSUME phase = "delegate", NEW t \in Tokens, lineage' = Append(lineage, t)
      PROVE  \A pair \in Lookups(lineage'[1].scopes) : Covered(pair[1], pair[2])
  <2>1. lineage \in Seq(Tokens) /\ lineage # <<>>
    BY <1>3 DEF Typed, GrantsTypeOK
  <2>2. lineage'[1] = lineage[1]
    BY <1>3, <2>1
  <2> QED BY <2>1, <2>2 DEF Permitted
<1> QED BY <1>1, <1>2, <1>3, LineageMoves

\* Every step keeps what has been permitted.
LEMMA PermittedStep ==
    ASSUME Typed, Evaluated, Permitted, [Next]_vars
    PROVE  Permitted'
<1>1. rules' = rules
  BY RulesStay
<1>2. ASSUME phase' = "idle" PROVE eval' = None
  <2>1. phase = "idle" /\ eval' = eval
    BY <1>2 DEF Next, vars, MintRoot, MintLookup, Evaluate, MintDenied, MintAllowed, Decided, MintIssue,
                Delegate, DelegateDecided, Call, CallDecided, Permitted
  <2> QED BY <2>1 DEF Permitted
<1>3. ASSUME phase' = "mint"
      PROVE  /\ eval' # None => eval'.q.action = "mint"
             /\ \A pair \in Lookups(draft'.scopes) \ todo' :
                   \/ Covered(pair[1], pair[2])'
                   \/ eval' # None /\ eval'.q.call.tool = pair[1] /\ eval'.q.call.resource = pair[2]
  BY <1>1, <1>3, MintPermitted, PermitsSame
<1>4. ASSUME lineage' # <<>>
      PROVE  \A pair \in Lookups(lineage'[1].scopes) : Covered(pair[1], pair[2])'
  BY <1>1, <1>4, RootPermitted, PermitsSame
<1>5. PICK c : c = cap'
  OBVIOUS
<1>6. DepthPermitted(cap)'
  <2>1. DepthPermitted(c)'
    BY <1>1, <1>5, DepthsPermitted, PermitsSame
  <2> QED BY <1>5, <2>1 DEF DepthPermitted
<1>7. (\A j \in DOMAIN lineage : DepthPermitted(lineage[j].maxDepth))'
  <2>1. ASSUME NEW j \in DOMAIN lineage' PROVE DepthPermitted(lineage[j].maxDepth)'
    <3>1. PICK d : d = lineage'[j].maxDepth
      OBVIOUS
    <3>2. DepthPermitted(d)'
      BY <1>1, <2>1, <3>1, DepthsPermitted, PermitsSame
    <3> QED BY <3>1, <3>2 DEF DepthPermitted
  <2> QED BY <2>1
<1>8. (phase = "delegate" => DepthPermitted(draft.maxDepth))'
  <2>1. PICK d : d = draft'.maxDepth
    OBVIOUS
  <2>2. phase' = "delegate" => DepthPermitted(d)'
    BY <1>1, <2>1, DepthsPermitted, PermitsSame
  <2> QED BY <2>1, <2>2 DEF DepthPermitted
<1> QED BY <1>2, <1>3, <1>4, <1>6, <1>7, <1>8 DEF Permitted

\* What has been permitted holds throughout.
LEMMA PermittedKept == Spec => []Permitted
<1>1. Init => Permitted
  <2>1. CfgMaxDepth <= CfgMaxDepth
    BY GrantsAssumption
  <2> QED BY <2>1 DEF Init, Permitted, DepthPermitted
<1>2. (Typed /\ Evaluated) /\ Permitted /\ [Next]_vars => Permitted'
  BY PermittedStep
<1> QED BY <1>1, <1>2, TypedKept, PTL DEF Spec

\* MintRoot looks patterns up as if they were calls; all the same, every call
\* that a token or a delegate of it admits is one that a permit for mint covers
\* by tool and resource, and no depth is beyond the configured one and what
\* such a permit allows.  A delegate must not have asked for a literal that
\* escapesPrefix refuses.
THEOREM MintsArePermitted ==
    ASSUME PlainAsked
    PROVE  Spec => []MintedUnderPermit
<1>1. Typed /\ Descends /\ Permitted => MintedUnderPermit
  <2> SUFFICES ASSUME Typed, Descends, Permitted, NEW j \in DOMAIN lineage
               PROVE  LET permits == {i \in DOMAIN rules : rules[i].effect = "permit" /\ rules[i].action \in {"", "mint"}}
                      IN  /\ \A c \in CallPool : FirstMatch(lineage[j].scopes, c) > 0 =>
                                \E i \in permits : m(rules[i].tool, c.tool) /\ m(rules[i].resource, c.resource)
                          /\ \/ lineage[j].maxDepth <= CfgMaxDepth
                             \/ \E i \in permits : lineage[j].maxDepth <= rules[i].allowDepth
    BY DEF MintedUnderPermit
  <2> DEFINE permits == {i \in DOMAIN rules : rules[i].effect = "permit" /\ rules[i].action \in {"", "mint"}}
  <2>1. MintPermits \subseteq permits
    BY DEF MintPermits
  <2> HIDE DEF permits
  <2>2. lineage[j].maxDepth <= CfgMaxDepth \/ \E i \in permits : lineage[j].maxDepth <= rules[i].allowDepth
    BY <2>1 DEF Permitted, DepthPermitted
  <2>3. ASSUME NEW c \in CallPool, FirstMatch(lineage[j].scopes, c) > 0
        PROVE  \E i \in permits : m(rules[i].tool, c.tool) /\ m(rules[i].resource, c.resource)
    <3>1. lineage \in Seq(Tokens) /\ 1 \in DOMAIN lineage /\ 1 \in 1 .. j /\ lineage # <<>>
      BY DEF Typed, GrantsTypeOK
    <3>2. lineage[1].scopes \in Seq(Scope) /\ lineage[j].scopes \in Seq(Scope)
      BY <3>1, TokenFacts
    <3>3. c \in ToolCall /\ c.tool \in String /\ c.resource \in String
      BY GrantsAssumption DEF ToolCall
    <3>4. PICK x \in DOMAIN lineage[j].scopes : Allows(lineage[j].scopes[x], c)
      BY <2>3, <3>2, FirstMatchFound
    <3>5. PICK y \in DOMAIN lineage[1].scopes : ScopeBelow(lineage[j].scopes[x], lineage[1].scopes[y])
      BY <3>1 DEF Descends
    <3>6. lineage[j].scopes[x] \in Scope /\ lineage[1].scopes[y] \in Scope
      BY <3>2
    <3>7. Allows(lineage[1].scopes[y], c)
      BY <3>3, <3>4, <3>5, <3>6, ScopeBelowAllows
    <3>8. PICK s \in Scope : s = lineage[1].scopes[y]
      BY <3>6
    <3>9. PICK r \in s.resources : Match(s.tool, c.tool) /\ Match(r, c.resource)
      BY <3>7, <3>8 DEF Allows
    <3>10. s.tool \in String /\ r \in String
      BY <3>9 DEF Scope
    <3>11. Covered(s.tool, r)
      <4>1. <<s.tool, r>> \in Lookups(lineage[1].scopes)
        BY <3>2, <3>8, <3>9, LookupsFacts
      <4>2. \A pair \in Lookups(lineage[1].scopes) : Covered(pair[1], pair[2])
        BY <3>1 DEF Permitted
      <4> QED BY <4>1, <4>2
    <3>12. PICK i \in MintPermits : m(rules[i].tool, s.tool) /\ m(rules[i].resource, r)
      BY <3>11 DEF Covered
    <3>13. rules \in RuleSets /\ rules # None /\ i \in DOMAIN rules
      BY <3>12 DEF MintPermits, Typed, GrantsTypeOK
    <3>14. /\ rules[i].tool \in String /\ (rules[i].tool # Empty => ValidatePattern(rules[i].tool))
           /\ rules[i].resource \in String
           /\ rules[i].resource # Empty => ValidatePattern(rules[i].resource)
      BY <3>13, RulesFacts
    <3>15. m(rules[i].tool, c.tool) /\ m(rules[i].resource, c.resource)
      BY <3>3, <3>9, <3>10, <3>12, <3>14, LookupCovers
    <3> QED BY <2>1, <3>12, <3>15
  <2> QED BY <2>2, <2>3 DEF permits
<1> QED BY <1>1, TypedKept, DescendsKept, PermittedKept, PTL

-----------------------------------------------------------------------------
(* Lists that are put together from lists *)

\* The beginning of a sequence.
Pre(s, n) == [i \in 1 .. n |-> s[i]]

\* f makes a list over S of each element of D.
Lists(f, D, S) == f \in [D -> Seq(S)]

\* What f makes of the elements of s, one after the other.
Over(f, s) == FlattenSeq([i \in DOMAIN s |-> f[s[i]]])

\* A sequence is put together from its elements.
LEMMA PreFacts ==
    ASSUME NEW S, NEW s \in Seq(S)
    PROVE  /\ Pre(s, 0) = << >> /\ Pre(s, Len(s)) = s
           /\ \A n \in 1 .. Len(s) : /\ Pre(s, n) \in Seq(S) /\ Pre(s, n - 1) \in Seq(S) /\ s[n] \in S
                                     /\ Pre(s, n) = Append(Pre(s, n - 1), s[n])
                                     /\ Pre(s, n) = Pre(s, n - 1) \o <<s[n]>>
<1>1. Len(s) \in Nat /\ \A i \in 1 .. Len(s) : s[i] \in S
  OBVIOUS
<1>2. Pre(s, 0) = << >>
  BY DEF Pre
<1>3. Pre(s, Len(s)) = s
  BY DEF Pre
<1>4. ASSUME NEW n \in Nat, n <= Len(s) PROVE Pre(s, n) \in Seq(S)
  BY <1>1, <1>4 DEF Pre
<1>5. ASSUME NEW n \in 1 .. Len(s)
      PROVE  Pre(s, n) = Append(Pre(s, n - 1), s[n]) /\ Pre(s, n) = Pre(s, n - 1) \o <<s[n]>>
  <2>1. n \in Nat /\ n - 1 \in Nat /\ n <= Len(s) /\ n - 1 <= Len(s)
    BY <1>1
  <2>2. Pre(s, n) \in Seq(S) /\ Pre(s, n - 1) \in Seq(S) /\ s[n] \in S
    BY <1>1, <1>4, <2>1
  <2>3. Len(Pre(s, n)) = n /\ Len(Pre(s, n - 1)) = n - 1
    BY <2>1 DEF Pre
  <2>4. \A i \in 1 .. n : Pre(s, n)[i] = s[i]
    BY DEF Pre
  <2>5. \A i \in 1 .. n - 1 : Pre(s, n - 1)[i] = s[i]
    BY DEF Pre
  <2>6. PICK p, q : p = Pre(s, n) /\ q = Pre(s, n - 1)
    OBVIOUS
  <2>7. PICK x : x = s[n]
    OBVIOUS
  <2>8. /\ p \in Seq(S) /\ q \in Seq(S) /\ x \in S /\ Len(p) = Len(q) + 1 /\ p[Len(q) + 1] = x
        /\ \A i \in 1 .. Len(q) : p[i] = q[i]
    BY <2>1, <2>2, <2>3, <2>4, <2>5, <2>6, <2>7
  <2>9. p = Append(q, x)
    BY <2>8
  <2>10. Append(q, x) = q \o <<x>>
    BY <2>8
  <2> QED BY <2>6, <2>7, <2>9, <2>10
<1> QED BY <1>1, <1>2, <1>3, <1>4, <1>5

\* Flattening goes from left to right.
LEMMA FlattenAppend ==
    ASSUME NEW S, NEW seqs \in Seq(Seq(S)), NEW t \in Seq(S)
    PROVE  FlattenSeq(<< >>) = << >> /\ FlattenSeq(Append(seqs, t)) = FlattenSeq(seqs) \o t
<1>1. FlattenSeq(<< >>) = << >>
  <2>1. Len(<< >>) = 0
    OBVIOUS
  <2> QED BY <2>1, Zenon DEF FlattenSeq
<1> DEFINE u == Append(seqs, t)
           n == Len(seqs)
<1>2. /\ n \in Nat /\ Len(u) = n + 1 /\ Len(u) \in Nat \ {0} /\ u[n + 1] = t
      /\ \A i \in 1 .. n : u[i] = seqs[i]
  OBVIOUS
<1>3. PICK g : Flattens(g, u, Len(u)) /\ FlattenSeq(u) = g[Len(u)]
  BY <1>2, FlattenSeqDef
<1> HIDE DEF u, n
<1>4. \A i \in 1 .. n + 1 : g[i] = IF i = 1 THEN u[i] ELSE g[i-1] \o u[i]
  BY <1>2, <1>3 DEF Flattens
<1>5. CASE n = 0
  <2>1. seqs = << >>
    BY <1>5 DEF n
  <2>2. g[1] = t
    BY <1>2, <1>4, <1>5
  <2>3. << >> \o t = t
    OBVIOUS
  <2> QED BY <1>1, <1>2, <1>3, <1>5, <2>1, <2>2, <2>3 DEF u
<1>6. CASE n # 0
  <2>1. PICK h : Flattens(h, seqs, n) /\ FlattenSeq(seqs) = h[n]
    BY <1>2, <1>6, FlattenSeqDef DEF n
  <2>2. \A i \in 1 .. n : h[i] = IF i = 1 THEN seqs[i] ELSE h[i-1] \o seqs[i]
    BY <2>1 DEF Flattens
  <2> DEFINE Bad == {i \in 1 .. n : g[i] # h[i]}
  <2>3. ASSUME Bad # {} PROVE FALSE
    <3>1. PICK i \in Bad : \A j \in Bad : i <= j
      <4>1. Bad \in SUBSET Nat
        BY <1>2
      <4> HIDE DEF Bad
      <4> QED BY <2>3, <4>1, LeastOf
    <3>2. i \in 1 .. n /\ g[i] # h[i]
      BY <3>1
    <3>3. CASE i = 1
      BY <1>2, <1>4, <2>2, <3>2, <3>3
    <3>4. CASE i # 1
      <4>1. i - 1 \in 1 .. n /\ i \in 1 .. n + 1 /\ i - 1 \notin Bad
        BY <1>2, <3>1, <3>2, <3>4
      <4>2. g[i-1] = h[i-1]
        BY <4>1
      <4>3. g[i] = g[i-1] \o u[i] /\ h[i] = h[i-1] \o seqs[i] /\ u[i] = seqs[i]
        BY <1>2, <1>4, <2>2, <3>2, <3>4, <4>1
      <4> QED BY <3>2, <4>2, <4>3
    <3> QED BY <3>3, <3>4
  <2>4. g[n] = h[n]
    <3>1. n \in 1 .. n
      BY <1>2, <1>6
    <3> QED BY <2>3, <3>1
  <2>5. g[n + 1] = g[n] \o t
    <3>1. n + 1 \in 1 .. n + 1 /\ n + 1 # 1 /\ (n + 1) - 1 = n
      BY <1>2, <1>6
    <3> QED BY <1>2, <1>4, <3>1
  <2> QED BY <1>1, <1>2, <1>3, <2>1, <2>4, <2>5 DEF u
<1> QED BY <1>5, <1>6

\* Over, element by element.
LEMMA OverSteps ==
    ASSUME NEW D, NEW S, NEW f, Lists(f, D, S), NEW s \in Seq(D)
    PROVE  /\ Over(f, s) \in Seq(S) /\ Over(f, << >>) = << >>
           /\ \A x \in D : /\ Over(f, s \o <<x>>) = Over(f, s) \o f[x] /\ Over(f, <<x>>) = f[x]
                           /\ f[x] \in Seq(S)
<1>0. f \in [D -> Seq(S)]
  BY DEF Lists
<1>1. ASSUME NEW t \in Seq(D) PROVE [i \in DOMAIN t |-> f[t[i]]] \in Seq(Seq(S))
  <2>1. DOMAIN t = 1 .. Len(t) /\ Len(t) \in Nat /\ \A i \in 1 .. Len(t) : f[t[i]] \in Seq(S)
    BY <1>0
  <2> QED BY <2>1
<1>2. Over(f, s) \in Seq(S)
  BY <1>1, FlattenSeqType DEF Over
<1>3. Over(f, << >>) = << >>
  <2>1. [i \in DOMAIN << >> |-> f[<< >>[i]]] = << >>
    OBVIOUS
  <2>2. FlattenSeq(<< >>) = << >>
    <3>1. << >> \in Seq(Seq(S)) /\ << >> \in Seq(S)
      OBVIOUS
    <3> QED BY <3>1, FlattenAppend
  <2> QED BY <2>1, <2>2, Zenon DEF Over
<1>4. ASSUME NEW t \in Seq(D), NEW x \in D PROVE Over(f, t \o <<x>>) = Over(f, t) \o f[x]
  <2> DEFINE l == [i \in DOMAIN t |-> f[t[i]]]
             k == [i \in DOMAIN (t \o <<x>>) |-> f[(t \o <<x>>)[i]]]
  <2>1. l \in Seq(Seq(S)) /\ f[x] \in Seq(S)
    BY <1>0, <1>1
  <2>2. /\ Len(t) \in Nat /\ DOMAIN t = 1 .. Len(t) /\ DOMAIN (t \o <<x>>) = 1 .. Len(t) + 1
        /\ (t \o <<x>>)[Len(t) + 1] = x /\ \A i \in 1 .. Len(t) : (t \o <<x>>)[i] = t[i]
    OBVIOUS
  <2>3. k \in Seq(Seq(S))
    <3>1. t \o <<x>> \in Seq(D)
      OBVIOUS
    <3> QED BY <1>1, <3>1
  <2>4. Len(k) = Len(t) + 1 /\ Len(l) = Len(t)
    BY <2>2
  <2>5. k[Len(t) + 1] = f[x] /\ \A i \in 1 .. Len(t) : k[i] = l[i]
    BY <2>2
  <2>6. Over(f, t \o <<x>>) = FlattenSeq(k) /\ Over(f, t) = FlattenSeq(l)
    BY Zenon DEF Over
  <2> HIDE DEF k, l
  <2>7. k = Append(l, f[x])
    BY <2>1, <2>2, <2>3, <2>4, <2>5
  <2> QED BY <2>1, <2>6, <2>7, FlattenAppend
<1>5. ASSUME NEW x \in D PROVE Over(f, <<x>>) = f[x]
  <2>1. << >> \in Seq(D) /\ << >> \o <<x>> = <<x>> /\ f[x] \in Seq(S) /\ \A b \in Seq(S) : << >> \o b = b
    BY <1>0
  <2> QED BY <1>3, <1>4, <2>1
<1>6. \A x \in D : f[x] \in Seq(S)
  BY <1>0
<1> QED BY <1>2, <1>3, <1>4, <1>5, <1>6

\* Over of a list of one element, or none.
LEMMA OverOne ==
    ASSUME NEW D, NEW S, NEW f, Lists(f, D, S)
    PROVE  Over(f, << >>) = << >> /\ \A x \in D : Over(f, <<x>>) = f[x] /\ f[x] \in Seq(S)
<1>1. << >> \in Seq(D)
  OBVIOUS
<1>2. \A s \in Seq(D) : Over(f, << >>) = << >> /\ \A x \in D : Over(f, <<x>>) = f[x] /\ f[x] \in Seq(S)
  BY OverSteps
<1> QED BY <1>1, <1>2

\* Over distributes over concatenation.
LEMMA OverConcat ==
    ASSUME NEW D, NEW S, NEW f, Lists(f, D, S), NEW a \in Seq(D), NEW b \in Seq(D)
    PROVE  Over(f, a \o b) = Over(f, a) \o Over(f, b)
<1>0. /\ \A s \in Seq(D) : /\ Over(f, s) \in Seq(S) /\ Over(f, << >>) = << >>
                             /\ \A x \in D : Over(f, s \o <<x>>) = Over(f, s) \o f[x] /\ f[x] \in Seq(S)
      /\ Pre(b, 0) = << >> /\ Pre(b, Len(b)) = b
      /\ \A n \in 1 .. Len(b) : /\ Pre(b, n - 1) \in Seq(D) /\ b[n] \in D
                                /\ Pre(b, n) = Pre(b, n - 1) \o <<b[n]>>
  <2>1. ASSUME NEW s \in Seq(D)
        PROVE  /\ Over(f, s) \in Seq(S) /\ Over(f, << >>) = << >>
               /\ \A x \in D : Over(f, s \o <<x>>) = Over(f, s) \o f[x] /\ f[x] \in Seq(S)
    BY OverSteps
  <2>2. /\ Pre(b, 0) = << >> /\ Pre(b, Len(b)) = b
        /\ \A n \in 1 .. Len(b) : /\ Pre(b, n - 1) \in Seq(D) /\ b[n] \in D
                                  /\ Pre(b, n) = Pre(b, n - 1) \o <<b[n]>>
    BY PreFacts, Zenon
  <2> QED BY <2>1, <2>2
<1>3. /\ \A u, v, w \in Seq(S) : (u \o v) \o w = u \o (v \o w)
      /\ \A u, v \in Seq(D) : u \o v \in Seq(D) /\ \A x \in D : u \o (v \o <<x>>) = (u \o v) \o <<x>>
  <2>1. ASSUME NEW u \in Seq(S), NEW v \in Seq(S), NEW w \in Seq(S) PROVE (u \o v) \o w = u \o (v \o w)
    OBVIOUS
  <2>2. ASSUME NEW u \in Seq(D), NEW v \in Seq(D), NEW x \in D
        PROVE  u \o v \in Seq(D) /\ u \o (v \o <<x>>) = (u \o v) \o <<x>>
    OBVIOUS
  <2>3. ASSUME NEW u \in Seq(D), NEW v \in Seq(D) PROVE u \o v \in Seq(D)
    OBVIOUS
  <2> QED BY <2>1, <2>2, <2>3
<1> DEFINE Bad == {n \in 0 .. Len(b) : Over(f, a \o Pre(b, n)) # Over(f, a) \o Over(f, Pre(b, n))}
<1>1. ASSUME Bad # {} PROVE FALSE
  <2>1. PICK n \in Bad : \A j \in Bad : n <= j
    <3>1. Bad \in SUBSET Nat
      OBVIOUS
    <3> HIDE DEF Bad
    <3> QED BY <1>1, <3>1, LeastOf
  <2>2. /\ n \in 0 .. Len(b) /\ Len(b) \in Nat
        /\ Over(f, a \o Pre(b, n)) # Over(f, a) \o Over(f, Pre(b, n))
    BY <2>1
  <2>3. CASE n = 0
    <3>1. Pre(b, n) = << >> /\ a \o << >> = a
      BY <1>0, <2>3
    <3>2. Over(f, << >>) = << >> /\ Over(f, a) \in Seq(S)
      BY <1>0
    <3>3. Over(f, a) \o << >> = Over(f, a)
      BY <3>2
    <3> QED BY <2>2, <3>1, <3>2, <3>3
  <2>4. CASE n # 0
    <3>1. n \in 1 .. Len(b) /\ n - 1 \in 0 .. Len(b) /\ n - 1 \notin Bad
      <4>1. n \in 1 .. Len(b) /\ n - 1 \in 0 .. Len(b) /\ ~(n <= n - 1)
        BY <2>2, <2>4
      <4> HIDE DEF Bad
      <4> QED BY <2>1, <4>1
    <3>2. PICK p, x : p = Pre(b, n - 1) /\ x = b[n]
      OBVIOUS
    <3>3. p \in Seq(D) /\ x \in D /\ Pre(b, n) = p \o <<x>>
      BY <1>0, <3>1, <3>2
    <3>4. Over(f, a \o p) = Over(f, a) \o Over(f, p)
      BY <3>1, <3>2
    <3>5. a \o p \in Seq(D) /\ a \o (p \o <<x>>) = (a \o p) \o <<x>>
      BY <1>3, <3>3
    <3>6. Over(f, (a \o p) \o <<x>>) = Over(f, a \o p) \o f[x]
      BY <1>0, <3>3, <3>5
    <3>7. Over(f, p \o <<x>>) = Over(f, p) \o f[x]
      BY <1>0, <3>3
    <3>8. Over(f, a) \in Seq(S) /\ Over(f, p) \in Seq(S) /\ f[x] \in Seq(S)
      BY <1>0, <3>3
    <3>9. (Over(f, a) \o Over(f, p)) \o f[x] = Over(f, a) \o (Over(f, p) \o f[x])
      BY <1>3, <3>8
    <3> QED BY <2>2, <3>3, <3>4, <3>5, <3>6, <3>7, <3>9
  <2> QED BY <2>3, <2>4
<1>2. Len(b) \in 0 .. Len(b) /\ Pre(b, Len(b)) = b
  BY <1>0
<1> QED BY <1>1, <1>2

\* Over after Over is one Over.
LEMMA OverOver ==
    ASSUME NEW D, NEW E, NEW S, NEW f, Lists(f, D, E), NEW g, Lists(g, E, S), NEW s \in Seq(D)
    PROVE  Over(g, Over(f, s)) = Over([x \in D |-> Over(g, f[x])], s)
<1> DEFINE h == [x \in D |-> Over(g, f[x])]
<1>1. Lists(h, D, S)
  <2>1. \A x \in D : f[x] \in Seq(E)
    BY DEF Lists
  <2>2. \A x \in D : Over(g, f[x]) \in Seq(S)
    BY <2>1, OverSteps
  <2> QED BY <2>2, Zenon DEF Lists
<1>2. \A x \in D : h[x] = Over(g, f[x])
  OBVIOUS
<1> HIDE DEF h
<1>6. /\ \A t \in Seq(D) : /\ Over(f, t) \in Seq(E) /\ Over(f, << >>) = << >>
                             /\ \A x \in D : Over(f, t \o <<x>>) = Over(f, t) \o f[x] /\ f[x] \in Seq(E)
      /\ \A t \in Seq(D) : /\ Over(h, << >>) = << >>
                             /\ \A x \in D : Over(h, t \o <<x>>) = Over(h, t) \o h[x]
      /\ Over(g, << >>) = << >>
  <2>1. ASSUME NEW t \in Seq(D)
        PROVE  /\ Over(f, t) \in Seq(E) /\ Over(f, << >>) = << >>
               /\ \A x \in D : Over(f, t \o <<x>>) = Over(f, t) \o f[x] /\ f[x] \in Seq(E)
    BY OverSteps
  <2>2. ASSUME NEW t \in Seq(D)
        PROVE  Over(h, << >>) = << >> /\ \A x \in D : Over(h, t \o <<x>>) = Over(h, t) \o h[x]
    BY <1>1, OverSteps
  <2>3. << >> \in Seq(E)
    OBVIOUS
  <2>4. Over(g, << >>) = << >>
    BY <2>3, OverSteps
  <2> QED BY <2>1, <2>2, <2>4
<1>7. /\ Pre(s, 0) = << >> /\ Pre(s, Len(s)) = s
      /\ \A n \in 1 .. Len(s) : /\ Pre(s, n - 1) \in Seq(D) /\ s[n] \in D
                                /\ Pre(s, n) = Pre(s, n - 1) \o <<s[n]>>
  BY PreFacts, Zenon
<1> DEFINE Bad == {n \in 0 .. Len(s) : Over(g, Over(f, Pre(s, n))) # Over(h, Pre(s, n))}
<1>3. ASSUME Bad # {} PROVE FALSE
  <2>1. PICK n \in Bad : \A j \in Bad : n <= j
    <3>1. Bad \in SUBSET Nat
      OBVIOUS
    <3> HIDE DEF Bad
    <3> QED BY <1>3, <3>1, LeastOf
  <2>2. n \in 0 .. Len(s) /\ Len(s) \in Nat /\ Over(g, Over(f, Pre(s, n))) # Over(h, Pre(s, n))
    BY <2>1
  <2>3. CASE n = 0
    <3>1. Pre(s, n) = << >>
      BY <1>7, <2>3
    <3>2. Over(f, << >>) = << >> /\ Over(h, << >>) = << >>
      BY <1>6
    <3>3. Over(g, << >>) = << >>
      BY <1>6
    <3> QED BY <2>2, <3>1, <3>2, <3>3
  <2>4. CASE n # 0
    <3>1. n \in 1 .. Len(s) /\ n - 1 \in 0 .. Len(s) /\ n - 1 \notin Bad
      <4>1. n \in 1 .. Len(s) /\ n - 1 \in 0 .. Len(s) /\ ~(n <= n - 1)
        BY <2>2, <2>4
      <4> HIDE DEF Bad
      <4> QED BY <2>1, <4>1
    <3>2. PICK p, x : p = Pre(s, n - 1) /\ x = s[n]
      OBVIOUS
    <3>3. p \in Seq(D) /\ x \in D /\ Pre(s, n) = p \o <<x>>
      BY <1>7, <3>1, <3>2
    <3>4. Over(g, Over(f, p)) = Over(h, p)
      BY <3>1, <3>2
    <3>5. Over(f, p \o <<x>>) = Over(f, p) \o f[x] /\ Over(f, p) \in Seq(E) /\ f[x] \in Seq(E)
      BY <1>6, <3>3
    <3>6. Over(g, Over(f, p) \o f[x]) = Over(g, Over(f, p)) \o Over(g, f[x])
      <4>1. PICK u, v : u = Over(f, p) /\ v = f[x]
        OBVIOUS
      <4>2. u \in Seq(E) /\ v \in Seq(E)
        BY <3>5, <4>1
      <4>3. Over(g, u \o v) = Over(g, u) \o Over(g, v)
        BY <4>2, OverConcat
      <4> QED BY <4>1, <4>3
    <3>7. Over(h, p \o <<x>>) = Over(h, p) \o h[x]
      BY <1>6, <3>3
    <3> QED BY <1>2, <2>2, <3>3, <3>4, <3>5, <3>6, <3>7
  <2> QED BY <2>3, <2>4
<1>4. Len(s) \in 0 .. Len(s) /\ Pre(s, Len(s)) = s
  BY <1>7
<1>5. Over(g, Over(f, s)) = Over(h, s)
  BY <1>3, <1>4
<1> QED BY <1>5 DEF h

\* Over depends only on what f makes of the elements there are.
LEMMA OverSame ==
    ASSUME NEW s, NEW f, NEW g, \A i \in DOMAIN s : f[s[i]] = g[s[i]]
    PROVE  Over(f, s) = Over(g, s)
<1>1. [i \in DOMAIN s |-> f[s[i]]] = [i \in DOMAIN s |-> g[s[i]]]
  OBVIOUS
<1> QED BY <1>1, Zenon DEF Over

-----------------------------------------------------------------------------
(* Intersections are exact *)

\* Two patterns match a string exactly when their intersection does, but for
\* literals that escape; patterns without an intersection match none together.
LEMMA PatternIntersectExact ==
    ASSUME NEW a \in String, NEW b \in String, a # Empty, b # Empty, Plain(a), Plain(b), NEW s \in String
    PROVE  (Match(a, s) /\ Match(b, s)) <=> (PatternIntersect(a, b) # Empty /\ Match(PatternIntersect(a, b), s))
<1>1. prefix(a) \in String /\ prefix(b) \in String /\ (~isWild(a) => prefix(a) = a) /\ (~isWild(b) => prefix(b) = b)
  BY PrefixFacts
<1>2. ASSUME Match(a, s), Match(b, s) PROVE PatternSubset(a, b) \/ PatternSubset(b, a)
  <2>1. CASE ~isWild(a) /\ ~isWild(b)
    BY <1>2, <2>1 DEF Match, PatternSubset
  <2>2. CASE isWild(a) /\ ~isWild(b)
    BY <1>1, <1>2, <2>2 DEF Match, PatternSubset
  <2>3. CASE ~isWild(a) /\ isWild(b)
    BY <1>1, <1>2, <2>3 DEF Match, PatternSubset
  <2>4. CASE isWild(a) /\ isWild(b)
    <3>1. IsPrefix(prefix(a), s) /\ IsPrefix(prefix(b), s)
      BY <1>2, <2>4 DEF Match
    <3>2. PICK p, q : p = prefix(a) /\ q = prefix(b)
      OBVIOUS
    <3>3. p \in String /\ q \in String /\ Len(p) \in Nat /\ Len(q) \in Nat
      BY <1>1, <3>2 DEF String
    <3>4. /\ \A i \in 1 .. Len(p) : p[i] = s[i] /\ Len(p) <= Len(s)
          /\ \A i \in 1 .. Len(q) : q[i] = s[i] /\ Len(q) <= Len(s)
      BY <3>1, <3>2, <3>3, IsPrefixPlaces
    <3>5. CASE Len(p) <= Len(q)
      <4>1. \A i \in 1 .. Len(p) : p[i] = q[i]
        BY <3>3, <3>4, <3>5
      <4>2. IsPrefix(p, q)
        BY <3>3, <3>5, <4>1, IsPrefixPlaces
      <4> QED BY <2>4, <3>2, <4>2 DEF PatternSubset
    <3>6. CASE Len(q) <= Len(p)
      <4>1. \A i \in 1 .. Len(q) : q[i] = p[i]
        BY <3>3, <3>4, <3>6
      <4>2. IsPrefix(q, p)
        BY <3>3, <3>6, <4>1, IsPrefixPlaces
      <4> QED BY <2>4, <3>2, <4>2 DEF PatternSubset
    <3> QED BY <3>3, <3>5, <3>6
  <2> QED BY <2>1, <2>2, <2>3, <2>4
<1>3. PatternSubset(a, b) /\ Match(a, s) => Match(b, s)
  BY PlainSubset
<1>4. PatternSubset(b, a) /\ Match(b, s) => Match(a, s)
  BY PlainSubset
<1> QED BY <1>2, <1>3, <1>4 DEF PatternIntersect

\* What the folded enum and the pattern leave of a string.
LEMMA BothExact ==
    ASSUME NEW a \in Constraint, NEW b \in Constraint, Plain(a.pattern), Plain(b.pattern), NEW s \in String
    PROVE  LET pat == BothPatterns(a, b) enum == FoldedEnums(a, b)
           IN  /\ (enum = None) <=> /\ a.enum = None /\ b.enum = None
                                    /\ a.pattern # Empty /\ b.pattern # Empty => pat # Empty
               /\ enum = None => (pat # Empty <=> a.pattern # Empty \/ b.pattern # Empty)
               /\ ((enum # None => s \in enum) /\ (pat # Empty => Match(pat, s)))
                    <=> /\ a.enum # None => s \in a.enum
                        /\ b.enum # None => s \in b.enum
                        /\ a.pattern # Empty => Match(a.pattern, s)
                        /\ b.pattern # Empty => Match(b.pattern, s)
<1> DEFINE pat == BothPatterns(a, b)
           enum == FoldedEnums(a, b)
           apart == a.pattern # Empty /\ b.pattern # Empty /\ pat = Empty
<1>1. /\ a.enum \in {None} \cup SUBSET EnumStrings /\ b.enum \in {None} \cup SUBSET EnumStrings
      /\ a.pattern \in String /\ b.pattern \in String
  BY DEF Constraint
<1>2. \A S \in SUBSET EnumStrings : S # None
  BY PatternsAssumption
<1>3. IF apart THEN enum = {} ELSE enum = BothEnums(a.enum, b.enum)
  BY DEF FoldedEnums
<1>4. /\ (BothEnums(a.enum, b.enum) = None) <=> (a.enum = None /\ b.enum = None)
      /\ BothEnums(a.enum, b.enum) # None =>
            (s \in BothEnums(a.enum, b.enum) <=> (a.enum # None => s \in a.enum) /\ (b.enum # None => s \in b.enum))
  <2>1. CASE a.enum = None \/ b.enum = None
    BY <2>1 DEF BothEnums
  <2>2. CASE a.enum # None /\ b.enum # None
    <3>1. a.enum \cap b.enum \in SUBSET EnumStrings
      BY <1>1, <2>2
    <3> QED BY <1>2, <2>2, <3>1 DEF BothEnums
  <2> QED BY <2>1, <2>2
<1>5. (~apart /\ (pat # Empty => Match(pat, s))) <=>
        (a.pattern # Empty => Match(a.pattern, s)) /\ (b.pattern # Empty => Match(b.pattern, s))
  <2>1. CASE a.pattern # Empty /\ b.pattern # Empty
    <3>1. pat = PatternIntersect(a.pattern, b.pattern)
      BY <2>1 DEF BothPatterns
    <3> QED BY <1>1, <2>1, <3>1, PatternIntersectExact
  <2>2. CASE ~(a.pattern # Empty /\ b.pattern # Empty)
    BY <2>2 DEF BothPatterns
  <2> QED BY <2>1, <2>2
<1>6. {} # None
  BY <1>2
<1>7. ~apart => (pat # Empty <=> a.pattern # Empty \/ b.pattern # Empty)
  BY DEF BothPatterns
<1> HIDE DEF pat, enum
<1>8. (enum = None) <=> a.enum = None /\ b.enum = None /\ ~apart
  BY <1>3, <1>4, <1>6
<1>9. /\ (enum = None) <=> /\ a.enum = None /\ b.enum = None
                           /\ a.pattern # Empty /\ b.pattern # Empty => pat # Empty
      /\ enum = None => (pat # Empty <=> a.pattern # Empty \/ b.pattern # Empty)
  BY <1>7, <1>8
<1>10. ((enum # None => s \in enum) /\ (pat # Empty => Match(pat, s)))
         <=> /\ a.enum # None => s \in a.enum
             /\ b.enum # None => s \in b.enum
             /\ a.pattern # Empty => Match(a.pattern, s)
             /\ b.pattern # Empty => Match(b.pattern, s)
  <2>1. CASE apart
    BY <1>3, <1>5, <1>6, <2>1
  <2>2. CASE ~apart
    BY <1>3, <1>4, <1>5, <1>8, <2>2
  <2> QED BY <2>1, <2>2
<1> QED BY <1>9, <1>10 DEF pat, enum

\* The bounds of two constraints together.
LEMMA BoundsExact ==
    ASSUME NEW a \in {None} \cup Int, NEW b \in {None} \cup Int, NEW x \in {None} \cup Int
    PROVE  /\ (maxPtr(a, b) # None => x # None /\ x >= maxPtr(a, b))
                <=> (a # None => x # None /\ x >= a) /\ (b # None => x # None /\ x >= b)
           /\ (minPtr(a, b) # None => x # None /\ x <= minPtr(a, b))
                <=> (a # None => x # None /\ x <= a) /\ (b # None => x # None /\ x <= b)
BY PatternsAssumption DEF maxPtr, minPtr

\* intersectArg admits the values that both constraints admit.
LEMMA IntersectArgExact ==
    ASSUME NEW a \in Constraint, NEW b \in Constraint, Plain(a.pattern), Plain(b.pattern),
           NEW v \in {None} \cup Value
    PROVE  /\ AllowsArg(intersectArg(a, b), v) <=> AllowsArg(a, v) /\ AllowsArg(b, v)
           /\ AllowsArg(intersectArg(a, b), v) => ~Unsatisfiable(intersectArg(a, b))
<1> DEFINE o == intersectArg(a, b)
           pat == BothPatterns(a, b)
           enum == FoldedEnums(a, b)
<1>1. /\ a.min \in {None} \cup Int /\ b.min \in {None} \cup Int
      /\ a.max \in {None} \cup Int /\ b.max \in {None} \cup Int
  BY DEF Constraint
<1>2. /\ enum = None => o.enum = None /\ o.pattern = pat
      /\ enum # None => /\ o.pattern = Empty
                        /\ o.enum = IF pat = Empty THEN enum ELSE {e \in enum : Match(pat, e)}
      /\ o.min = maxPtr(a.min, b.min) /\ o.max = minPtr(a.max, b.max)
  BY IntersectArgFields
<1>3. /\ enum \in {None} \cup SUBSET EnumStrings /\ \A S \in SUBSET EnumStrings : S # None
  BY BothTypes, PatternsAssumption
<1>4. Empty \in String
  BY DEF Empty, String
<1>5. /\ (enum = None) <=> /\ a.enum = None /\ b.enum = None
                           /\ a.pattern # Empty /\ b.pattern # Empty => pat # Empty
      /\ enum = None => (pat # Empty <=> a.pattern # Empty \/ b.pattern # Empty)
  BY <1>4, BothExact
<1>6. ASSUME NEW s \in String
      PROVE  ((enum # None => s \in enum) /\ (pat # Empty => Match(pat, s)))
               <=> /\ a.enum # None => s \in a.enum
                   /\ b.enum # None => s \in b.enum
                   /\ a.pattern # Empty => Match(a.pattern, s)
                   /\ b.pattern # Empty => Match(b.pattern, s)
  BY BothExact
<1> HIDE DEF o, pat, enum
<1>7. enum # None => o.enum # None
  <2>1. ASSUME enum # None PROVE o.enum \in SUBSET EnumStrings
    BY <1>2, <1>3, <2>1
  <2> QED BY <1>3, <2>1
<1>8. CASE v = None
  BY <1>8 DEF AllowsArg, o
<1>9. CASE v \in Value /\ v # None
  <2>1. v.str \in {None} \cup String /\ v.num \in {None} \cup Int
    BY <1>9 DEF Value
  <2>2. /\ (o.min # None => v.num # None /\ v.num >= o.min)
             <=> (a.min # None => v.num # None /\ v.num >= a.min) /\ (b.min # None => v.num # None /\ v.num >= b.min)
        /\ (o.max # None => v.num # None /\ v.num <= o.max)
             <=> (a.max # None => v.num # None /\ v.num <= a.max) /\ (b.max # None => v.num # None /\ v.num <= b.max)
    <3>1. PICK x \in {None} \cup Int : x = v.num
      BY <2>1
    <3>2. PICK al, bl, au, bu : al = a.min /\ bl = b.min /\ au = a.max /\ bu = b.max
      OBVIOUS
    <3>3. /\ (maxPtr(al, bl) # None => x # None /\ x >= maxPtr(al, bl))
               <=> (al # None => x # None /\ x >= al) /\ (bl # None => x # None /\ x >= bl)
          /\ (minPtr(au, bu) # None => x # None /\ x <= minPtr(au, bu))
               <=> (au # None => x # None /\ x <= au) /\ (bu # None => x # None /\ x <= bu)
      <4>1. /\ al \in {None} \cup Int /\ bl \in {None} \cup Int
            /\ au \in {None} \cup Int /\ bu \in {None} \cup Int
        BY <1>1, <3>2
      <4>2. (maxPtr(al, bl) # None => x # None /\ x >= maxPtr(al, bl))
              <=> (al # None => x # None /\ x >= al) /\ (bl # None => x # None /\ x >= bl)
        BY <4>1, BoundsExact, Zenon
      <4>3. (minPtr(au, bu) # None => x # None /\ x <= minPtr(au, bu))
              <=> (au # None => x # None /\ x <= au) /\ (bu # None => x # None /\ x <= bu)
        BY <4>1, BoundsExact, Zenon
      <4> QED BY <4>2, <4>3
    <3> QED BY <1>2, <3>1, <3>2, <3>3
  <2> DEFINE told(c) == /\ c.enum # None => v.str # None /\ v.str \in c.enum
                        /\ c.pattern # Empty => v.str # None /\ Match(c.pattern, v.str)
  <2>3. told(o) <=> told(a) /\ told(b)
    <3>1. CASE v.str = None
      <4>1. told(o) <=> o.enum = None /\ o.pattern = Empty
        BY <3>1
      <4>2. told(a) /\ told(b) <=> a.enum = None /\ b.enum = None /\ a.pattern = Empty /\ b.pattern = Empty
        BY <3>1
      <4>3. o.enum = None /\ o.pattern = Empty <=>
              a.enum = None /\ b.enum = None /\ a.pattern = Empty /\ b.pattern = Empty
        BY <1>2, <1>5, <1>7
      <4> QED BY <4>1, <4>2, <4>3
    <3>2. CASE v.str # None
      <4>1. PICK s \in String : v.str = s
        BY <2>1, <3>2
      <4>2. ((enum # None => s \in enum) /\ (pat # Empty => Match(pat, s)))
               <=> /\ a.enum # None => s \in a.enum
                   /\ b.enum # None => s \in b.enum
                   /\ a.pattern # Empty => Match(a.pattern, s)
                   /\ b.pattern # Empty => Match(b.pattern, s)
        BY <1>6
      <4>3. ((o.enum # None => s \in o.enum) /\ (o.pattern # Empty => Match(o.pattern, s)))
               <=> ((enum # None => s \in enum) /\ (pat # Empty => Match(pat, s)))
        <5>1. CASE enum = None
          BY <1>2, <5>1
        <5>2. CASE enum # None
          BY <1>2, <1>7, <5>2
        <5> QED BY <5>1, <5>2
      <4> QED BY <3>2, <4>1, <4>2, <4>3
    <3> QED BY <3>1, <3>2
  <2>4. \A c : AllowsArg(c, v) <=> /\ told(c)
                                   /\ c.min # None => v.num # None /\ v.num >= c.min
                                   /\ c.max # None => v.num # None /\ v.num <= c.max
    BY <1>9 DEF AllowsArg
  <2> HIDE DEF told
  <2>5. AllowsArg(o, v) <=> AllowsArg(a, v) /\ AllowsArg(b, v)
    BY <2>2, <2>3, <2>4
  <2>6. AllowsArg(o, v) => ~Unsatisfiable(o)
    <3> SUFFICES ASSUME AllowsArg(o, v) PROVE ~Unsatisfiable(o)
      OBVIOUS
    <3>1. o.enum # {}
      <4>1. o.enum # None => v.str \in o.enum
        BY DEF AllowsArg
      <4>2. {} # None
        BY <1>3
      <4> QED BY <4>1, <4>2
    <3>2. ~(o.min # None /\ o.max # None /\ o.min > o.max)
      <4>1. o.min \in {None} \cup Int /\ o.max \in {None} \cup Int
        BY <1>1, <1>2, BoundsFacts
      <4> QED BY <2>1, <2>4, <4>1, PatternsAssumption
    <3> QED BY <3>1, <3>2 DEF Unsatisfiable
  <2> QED BY <2>5, <2>6 DEF o
<1> QED BY <1>8, <1>9

\* A constraint that admits a value is not one that Intersect drops.
LEMMA AllowsSatisfiable ==
    ASSUME NEW c \in Constraint, NEW v \in {None} \cup Value, AllowsArg(c, v)
    PROVE  ~Unsatisfiable(c)
<1>1. v \in Value
  BY DEF AllowsArg
<1>2. v.num \in {None} \cup Int /\ c.min \in {None} \cup Int /\ c.max \in {None} \cup Int
  BY <1>1 DEF Value, Constraint
<1>3. c.enum # {}
  <2>1. {} # None
    BY PatternsAssumption
  <2>2. c.enum # None => v.str \in c.enum
    BY DEF AllowsArg
  <2> QED BY <2>1, <2>2
<1>4. ~(c.min # None /\ c.max # None /\ c.min > c.max)
  <2>1. /\ c.min # None => v.num # None /\ v.num >= c.min
        /\ c.max # None => v.num # None /\ v.num <= c.max
    BY DEF AllowsArg
  <2> QED BY <1>2, <2>1, PatternsAssumption
<1> QED BY <1>3, <1>4 DEF Unsatisfiable

\* What two scopes leave of an argument admits what both admit.
LEMMA IntersectArgsExact ==
    ASSUME NEW a \in Scope, NEW b \in Scope, PlainScope(a), PlainScope(b), NEW n \in ArgNames,
           NEW v \in {None} \cup Value
    PROVE  LET c == IntersectArgs(a.args, b.args)[n]
           IN  /\ (c # None => AllowsArg(c, v))
                    <=> /\ a.args[n] # None => AllowsArg(a.args[n], v)
                        /\ b.args[n] # None => AllowsArg(b.args[n], v)
               /\ c # None /\ AllowsArg(c, v) => ~Unsatisfiable(c)
<1> DEFINE c == IntersectArgs(a.args, b.args)[n]
<1>1. PICK x, y : x = a.args[n] /\ y = b.args[n]
  OBVIOUS
<1>2. /\ x \in {None} \cup Constraint /\ y \in {None} \cup Constraint /\ c \in {None} \cup Constraint
      /\ x # None => Plain(x.pattern)
      /\ y # None => Plain(y.pattern)
  <2>1. /\ a.args[n] \in {None} \cup Constraint /\ b.args[n] \in {None} \cup Constraint
    BY DEF Scope, Args
  <2>2. c \in {None} \cup Constraint
    BY IntersectArgsFacts
  <2>3. /\ a.args[n] # None => Plain(a.args[n].pattern)
        /\ b.args[n] # None => Plain(b.args[n].pattern)
    BY DEF PlainScope, Constrained
  <2> QED BY <1>1, <2>1, <2>2, <2>3
<1>3. c = IF x = None THEN y ELSE IF y = None THEN x ELSE intersectArg(x, y)
  BY <1>1 DEF IntersectArgs
<1> HIDE DEF c
<1>4. c # None /\ AllowsArg(c, v) => ~Unsatisfiable(c)
  BY <1>2, AllowsSatisfiable
<1>5. (c # None => AllowsArg(c, v)) <=> (x # None => AllowsArg(x, v)) /\ (y # None => AllowsArg(y, v))
  <2>1. CASE x = None \/ y = None
    BY <1>3, <2>1
  <2>2. CASE x # None /\ y # None
    <3>1. x \in Constraint /\ y \in Constraint /\ c = intersectArg(x, y)
      BY <1>2, <1>3, <2>2
    <3>2. c # None
      <4>1. intersectArg(x, y) \in Constraint
        BY <3>1, IntersectArgType
      <4> QED BY <3>1, <4>1, ConstraintAssumption
    <3>3. AllowsArg(intersectArg(x, y), v) <=> AllowsArg(x, v) /\ AllowsArg(y, v)
      BY <1>2, <2>2, <3>1, IntersectArgExact
    <3> QED BY <2>2, <3>1, <3>2, <3>3
  <2> QED BY <2>1, <2>2
<1> QED BY <1>1, <1>4, <1>5 DEF c

\* Intersect drops a scope for these reasons only.
LEMMA IntersectDrops ==
    ASSUME NEW a \in Scope, NEW b \in Scope
    PROVE  LET s == Common(a, b)
               none == \/ s.tool = Empty \/ s.resources = {} \/ s.maxCalls <= 0
                       \/ \E n \in ArgNames : s.args[n] # None /\ Unsatisfiable(s.args[n])
           IN  Intersect(a, b) = IF none THEN << >> ELSE <<s>>
<1> DEFINE tool == PatternIntersect(a.tool, b.tool)
           res == {PatternIntersect(ra, rb) : ra \in a.resources, rb \in b.resources} \ {Empty}
           args == IntersectArgs(a.args, b.args)
           mc == IF b.maxCalls < a.maxCalls THEN b.maxCalls ELSE a.maxCalls
           none == \/ tool = Empty \/ res = {} \/ mc <= 0
                   \/ \E n \in ArgNames : args[n] # None /\ Unsatisfiable(args[n])
<1>1. Intersect(a, b) = IF none THEN << >> ELSE <<Common(a, b)>>
  BY DEF Intersect, Common
<1>2. PICK s : s = Common(a, b)
  OBVIOUS
<1>3. s.tool = tool /\ s.resources = res /\ s.args = args /\ s.maxCalls = mc
  BY <1>2 DEF Common
<1> HIDE DEF tool, res, args, mc
<1> QED BY <1>1, <1>2, <1>3

\* Two scopes admit a call exactly when Intersect leaves a scope that does.
LEMMA CommonExact ==
    ASSUME NEW a \in Scope, NEW b \in Scope, Validate(a), Validate(b), PlainScope(a), PlainScope(b),
           NEW c \in ToolCall
    PROVE  (Allows(a, c) /\ Allows(b, c)) <=> (Intersect(a, b) # << >> /\ Allows(Common(a, b), c))
<1> DEFINE s == Common(a, b)
<1>1. /\ c.tool \in String /\ c.resource \in String /\ \A n \in ArgNames : c.args[n] \in {None} \cup Value
  BY DEF ToolCall, Args
<1>2. /\ a.tool \in String /\ b.tool \in String /\ a.resources \subseteq String /\ b.resources \subseteq String
      /\ a.tool # Empty /\ b.tool # Empty /\ a.maxCalls \in Int /\ b.maxCalls \in Int
      /\ a.maxCalls > 0 /\ b.maxCalls > 0 /\ Plain(a.tool) /\ Plain(b.tool)
      /\ \A r \in a.resources \cup b.resources : r # Empty /\ Plain(r)
  BY DEF Scope, Validate, ValidatePattern, PlainScope
<1>3. /\ s.tool = PatternIntersect(a.tool, b.tool)
      /\ s.resources = {PatternIntersect(ra, rb) : ra \in a.resources, rb \in b.resources} \ {Empty}
      /\ s.args = IntersectArgs(a.args, b.args)
      /\ s.maxCalls = IF b.maxCalls < a.maxCalls THEN b.maxCalls ELSE a.maxCalls
  BY DEF Common
<1>4. (Match(a.tool, c.tool) /\ Match(b.tool, c.tool)) <=> (s.tool # Empty /\ Match(s.tool, c.tool))
  BY <1>1, <1>2, <1>3, PatternIntersectExact
<1>5. ((\E r \in a.resources : Match(r, c.resource)) /\ (\E r \in b.resources : Match(r, c.resource)))
        <=> \E r \in s.resources : Match(r, c.resource)
  <2> HIDE DEF s
  <2>1. ASSUME NEW ra \in a.resources, NEW rb \in b.resources
        PROVE  (Match(ra, c.resource) /\ Match(rb, c.resource))
                 <=> (PatternIntersect(ra, rb) # Empty /\ Match(PatternIntersect(ra, rb), c.resource))
    BY <1>1, <1>2, PatternIntersectExact
  <2>2. ASSUME NEW r \in s.resources
        PROVE  \E ra \in a.resources, rb \in b.resources : r = PatternIntersect(ra, rb) /\ r # Empty
    BY <1>3
  <2>3. ASSUME NEW ra \in a.resources, NEW rb \in b.resources, PatternIntersect(ra, rb) # Empty
        PROVE  PatternIntersect(ra, rb) \in s.resources
    BY <1>3, <2>3
  <2> QED BY <2>1, <2>2, <2>3
<1>6. ASSUME NEW n \in ArgNames
      PROVE  /\ (s.args[n] # None => AllowsArg(s.args[n], c.args[n]))
                  <=> /\ a.args[n] # None => AllowsArg(a.args[n], c.args[n])
                      /\ b.args[n] # None => AllowsArg(b.args[n], c.args[n])
             /\ s.args[n] # None /\ AllowsArg(s.args[n], c.args[n]) => ~Unsatisfiable(s.args[n])
  <2>1. PICK v \in {None} \cup Value : v = c.args[n]
    BY <1>1
  <2>2. s.args[n] = IntersectArgs(a.args, b.args)[n]
    BY <1>3
  <2> HIDE DEF s
  <2> QED BY <2>1, <2>2, IntersectArgsExact
<1>7. s.maxCalls > 0
  BY <1>2, <1>3
<1>8. s.resources # {} \/ ~ \E r \in s.resources : Match(r, c.resource)
  OBVIOUS
<1>9. Intersect(a, b) = IF \/ s.tool = Empty \/ s.resources = {} \/ s.maxCalls <= 0
                           \/ \E n \in ArgNames : s.args[n] # None /\ Unsatisfiable(s.args[n])
                        THEN << >> ELSE <<s>>
  BY IntersectDrops, Zenon
<1>10. /\ Allows(a, c) <=> /\ Match(a.tool, c.tool) /\ \E r \in a.resources : Match(r, c.resource)
                           /\ \A n \in ArgNames : a.args[n] # None => AllowsArg(a.args[n], c.args[n])
       /\ Allows(b, c) <=> /\ Match(b.tool, c.tool) /\ \E r \in b.resources : Match(r, c.resource)
                           /\ \A n \in ArgNames : b.args[n] # None => AllowsArg(b.args[n], c.args[n])
       /\ Allows(s, c) <=> /\ Match(s.tool, c.tool) /\ \E r \in s.resources : Match(r, c.resource)
                           /\ \A n \in ArgNames : s.args[n] # None => AllowsArg(s.args[n], c.args[n])
  <2> HIDE DEF s
  <2> QED BY DEF Allows, Constrained
<1> HIDE DEF s
<1>11. s.maxCalls \in Int
  BY <1>2, <1>3
<1>12. ASSUME Allows(a, c), Allows(b, c) PROVE Intersect(a, b) # << >> /\ Allows(s, c)
  <2>1. Allows(s, c) /\ s.tool # Empty /\ s.resources # {}
    BY <1>4, <1>5, <1>6, <1>8, <1>10, <1>12
  <2>2. \A n \in ArgNames : s.args[n] # None => ~Unsatisfiable(s.args[n])
    BY <1>6, <1>10, <2>1
  <2>3. ~(s.maxCalls <= 0)
    BY <1>7, <1>11
  <2>4. Intersect(a, b) = <<s>>
    BY <1>9, <2>1, <2>2, <2>3
  <2> QED BY <2>1, <2>4
<1>13. ASSUME Intersect(a, b) # << >>, Allows(s, c) PROVE Allows(a, c) /\ Allows(b, c)
  <2>1. s.tool # Empty
    BY <1>9, <1>13
  <2> QED BY <1>4, <1>5, <1>6, <1>10, <1>13, <2>1
<1> QED BY <1>12, <1>13 DEF s

-----------------------------------------------------------------------------
(* Meanings *)

\* What scopes mean: the scopes of Authority.
Meant == [calls : SUBSET CallPool, maxCalls : Int, approval : BOOLEAN]

\* The list of a scope's meaning, or of none.
MeaningOf == [s \in Scope |-> Some(Meaning(s))]

SomeOf == [x \in Meant |-> Some(x)]

\* Meanings and overlaps of meanings.
LEMMA MeaningTypes ==
    /\ \A s \in Scope : Meaning(s) \in Meant
    /\ \A x \in Meant : Some(x) \in Seq(Meant) /\ Abstract!Some(x) = Some(x)
    /\ \A x, y \in Meant : Abstract!Intersect(x, y) \in Meant
    /\ Lists(MeaningOf, Scope, Meant) /\ Lists(SomeOf, Meant, Meant)
<1>1. ASSUME NEW s \in Scope PROVE Meaning(s) \in Meant
  BY DEF Meaning, Meant, Scope
<1>2. ASSUME NEW x \in Meant PROVE Some(x) \in Seq(Meant) /\ Abstract!Some(x) = Some(x)
  <2>1. << >> \in Seq(Meant) /\ <<x>> \in Seq(Meant)
    OBVIOUS
  <2> QED BY <2>1 DEF Some, Abstract!Some
<1>3. ASSUME NEW x \in Meant, NEW y \in Meant PROVE Abstract!Intersect(x, y) \in Meant
  BY DEF Meant, Abstract!Intersect, Abstract!EmptyScope, Abstract!Least
<1>4. Lists(MeaningOf, Scope, Meant)
  BY <1>1, <1>2 DEF Lists, MeaningOf
<1>5. Lists(SomeOf, Meant, Meant)
  BY <1>2 DEF Lists, SomeOf
<1> QED BY <1>1, <1>2, <1>3, <1>4, <1>5

\* Intersect returns at most one scope, and means the overlap.
LEMMA IntersectMeans ==
    ASSUME NEW a \in Scope, NEW b \in Scope, Validate(a), Validate(b), PlainScope(a), PlainScope(b)
    PROVE  /\ Intersect(a, b) \in Seq(Scope)
           /\ Over(MeaningOf, Intersect(a, b)) = Some(Abstract!Intersect(Meaning(a), Meaning(b)))
<1> DEFINE x == Meaning(a)
           y == Meaning(b)
           both == x.calls \cap y.calls
<1>1. both = {c \in CallPool : Allows(a, c) /\ Allows(b, c)}
  BY DEF Meaning
<1>2. \A c \in CallPool : (Allows(a, c) /\ Allows(b, c)) <=> (Intersect(a, b) # << >> /\ Allows(Common(a, b), c))
  BY CommonExact, GrantsAssumption
<1>3. /\ a.maxCalls \in Int /\ a.maxCalls > 0 /\ b.maxCalls \in Int /\ b.maxCalls > 0
  BY DEF Scope, Validate
<1>4. PICK n : n = IF a.maxCalls <= b.maxCalls THEN a.maxCalls ELSE b.maxCalls
  OBVIOUS
<1>5. n \in Int /\ n > 0
  BY <1>3, <1>4
<1>6. Abstract!Intersect(x, y) =
        IF both = {} THEN [calls |-> {}, maxCalls |-> 0, approval |-> FALSE]
        ELSE [calls |-> both, maxCalls |-> n, approval |-> a.approval \/ b.approval]
  <2>1. Abstract!Intersect(x, y) =
          IF both = {} \/ n <= 0 THEN [calls |-> {}, maxCalls |-> 0, approval |-> FALSE]
          ELSE [calls |-> both, maxCalls |-> n, approval |-> x.approval \/ y.approval]
    <3>1. x.maxCalls = a.maxCalls /\ y.maxCalls = b.maxCalls
      BY DEF Meaning
    <3>2. PICK u, w : u = x /\ w = y
      OBVIOUS
    <3>3. Abstract!Intersect(u, w) =
            LET mc == IF u.maxCalls <= w.maxCalls THEN u.maxCalls ELSE w.maxCalls
            IN  IF u.calls \cap w.calls = {} \/ mc <= 0 THEN [calls |-> {}, maxCalls |-> 0, approval |-> FALSE]
                ELSE [calls |-> u.calls \cap w.calls, maxCalls |-> mc, approval |-> u.approval \/ w.approval]
      BY Zenon DEF Abstract!Intersect, Abstract!Least, Abstract!EmptyScope
    <3> HIDE DEF x, y
    <3> QED BY <1>4, <3>1, <3>2, <3>3
  <2>2. x.approval = a.approval /\ y.approval = b.approval
    BY DEF Meaning
  <2> HIDE DEF x, y
  <2> QED BY <1>5, <2>1, <2>2
<1>7. CASE Intersect(a, b) = << >>
  <2>1. both = {}
    BY <1>1, <1>2, <1>7
  <2>2. Some(Abstract!Intersect(x, y)) = << >>
    <3> HIDE DEF x, y, both
    <3> QED BY <1>6, <2>1 DEF Some
  <2>3. Over(MeaningOf, << >>) = << >> /\ << >> \in Seq(Scope)
    <3>1. << >> \in Seq(Scope)
      OBVIOUS
    <3> QED BY <3>1, MeaningTypes, OverSteps
  <2> QED BY <1>7, <2>2, <2>3
<1>8. CASE Intersect(a, b) # << >>
  <2>1. PICK s : s = Common(a, b)
    OBVIOUS
  <2>2. Intersect(a, b) = <<s>> /\ s \in Scope
    BY <1>8, <2>1, IntersectCommon, CommonType
  <2>3. <<s>> \in Seq(Scope) /\ Over(MeaningOf, <<s>>) = Some(Meaning(s))
    <3>1. << >> \in Seq(Scope) /\ <<s>> \in Seq(Scope)
      BY <2>2
    <3>2. Over(MeaningOf, <<s>>) = MeaningOf[s]
      <4>1. Lists(MeaningOf, Scope, Meant)
        BY MeaningTypes
      <4> QED BY <2>2, <4>1, OverOne
    <3> QED BY <2>2, <3>1, <3>2 DEF MeaningOf
  <2>4. Meaning(s) = [calls |-> both, maxCalls |-> n, approval |-> a.approval \/ b.approval]
    <3>1. {c \in CallPool : Allows(s, c)} = both
      BY <1>1, <1>2, <1>8, <2>1
    <3>2. s.maxCalls = n /\ s.approval = (a.approval \/ b.approval)
      BY <1>3, <1>4, <2>1 DEF Common
    <3> HIDE DEF both
    <3> QED BY <3>1, <3>2 DEF Meaning
  <2>5. Some(Meaning(s)) = Some(Abstract!Intersect(x, y))
    <3> HIDE DEF x, y, both
    <3>1. CASE both = {}
      BY <1>6, <2>4, <3>1 DEF Some
    <3>2. CASE both # {}
      BY <1>6, <2>4, <3>2
    <3> QED BY <3>1, <3>2
  <2> QED BY <2>2, <2>3, <2>5
<1> QED BY <1>7, <1>8

\* g keeps, turn by turn, what f makes of the elements of s so far.
Keeps(g, f, s) == g = [i \in 0 .. Len(s) |-> IF i = 0 THEN << >> ELSE g[i-1] \o f[s[i]]]

\* A list kept together turn by turn is Over of the list it is made from.
LEMMA KeptOver ==
    ASSUME NEW D, NEW S, NEW f, Lists(f, D, S), NEW s \in Seq(D), NEW g, Keeps(g, f, s)
    PROVE  g[Len(s)] = Over(f, s)
<1>1. /\ \A t \in Seq(D) : /\ Over(f, << >>) = << >>
                           /\ \A x \in D : Over(f, t \o <<x>>) = Over(f, t) \o f[x]
  <2>1. ASSUME NEW t \in Seq(D)
        PROVE  Over(f, << >>) = << >> /\ \A x \in D : Over(f, t \o <<x>>) = Over(f, t) \o f[x]
    BY OverSteps
  <2> QED BY <2>1
<1>2. /\ Pre(s, 0) = << >> /\ Pre(s, Len(s)) = s
      /\ \A n \in 1 .. Len(s) : /\ Pre(s, n - 1) \in Seq(D) /\ s[n] \in D
                                /\ Pre(s, n) = Pre(s, n - 1) \o <<s[n]>>
  BY PreFacts, Zenon
<1>3. Len(s) \in Nat
  OBVIOUS
<1> DEFINE Bad == {n \in 0 .. Len(s) : g[n] # Over(f, Pre(s, n))}
<1>4. ASSUME Bad # {} PROVE FALSE
  <2>1. PICK n \in Bad : \A j \in Bad : n <= j
    <3>1. Bad \in SUBSET Nat
      OBVIOUS
    <3> HIDE DEF Bad
    <3> QED BY <1>4, <3>1, LeastOf
  <2>2. n \in 0 .. Len(s) /\ g[n] # Over(f, Pre(s, n))
    BY <2>1
  <2>3. g[n] = IF n = 0 THEN << >> ELSE g[n-1] \o f[s[n]]
    BY <2>2, Zenon DEF Keeps
  <2>4. CASE n = 0
    <3>1. << >> \in Seq(D)
      OBVIOUS
    <3> QED BY <1>1, <1>2, <2>2, <2>3, <2>4, <3>1
  <2>5. CASE n # 0
    <3>1. n \in 1 .. Len(s) /\ n - 1 \in 0 .. Len(s) /\ ~(n <= n - 1)
      BY <1>3, <2>2, <2>5
    <3>2. n - 1 \notin Bad
      <4> HIDE DEF Bad
      <4> QED BY <2>1, <3>1
    <3>3. g[n-1] = Over(f, Pre(s, n - 1))
      BY <3>1, <3>2
    <3>4. Over(f, Pre(s, n)) = Over(f, Pre(s, n - 1)) \o f[s[n]]
      BY <1>1, <1>2, <3>1
    <3> QED BY <2>2, <2>3, <2>5, <3>3, <3>4
  <2> QED BY <2>4, <2>5
<1>5. Len(s) \in 0 .. Len(s)
  BY <1>3
<1> QED BY <1>2, <1>4, <1>5

\* There is such a list.
LEMMA KeptExists ==
    ASSUME NEW D, NEW S, NEW f, Lists(f, D, S), NEW s \in Seq(D)
    PROVE  \E g : Keeps(g, f, s)
<1> DEFINE g == [i \in 0 .. Len(s) |-> Over(f, Pre(s, i))]
<1>1. Len(s) \in Nat
  OBVIOUS
<1>2. ASSUME NEW i \in 0 .. Len(s) PROVE g[i] = IF i = 0 THEN << >> ELSE g[i-1] \o f[s[i]]
  <2>1. CASE i = 0
    <3>1. Pre(s, 0) = << >> /\ Over(f, << >>) = << >>
      <4>1. Pre(s, 0) = << >>
        BY PreFacts, Zenon
      <4> QED BY <4>1, OverOne
    <3> QED BY <1>2, <2>1, <3>1
  <2>2. CASE i # 0
    <3>1. i \in 1 .. Len(s) /\ i - 1 \in 0 .. Len(s)
      BY <1>1, <1>2, <2>2
    <3>2. PICK p, x : p = Pre(s, i - 1) /\ x = s[i]
      OBVIOUS
    <3>3. p \in Seq(D) /\ x \in D /\ Pre(s, i) = p \o <<x>>
      <4>1. \A n \in 1 .. Len(s) : /\ Pre(s, n - 1) \in Seq(D) /\ s[n] \in D
                                   /\ Pre(s, n) = Pre(s, n - 1) \o <<s[n]>>
        BY PreFacts, Zenon
      <4> QED BY <3>1, <3>2, <4>1
    <3>4. Over(f, p \o <<x>>) = Over(f, p) \o f[x]
      <4>1. \A t \in Seq(D) : \A y \in D : Over(f, t \o <<y>>) = Over(f, t) \o f[y]
        <5>1. ASSUME NEW t \in Seq(D) PROVE \A y \in D : Over(f, t \o <<y>>) = Over(f, t) \o f[y]
          <6>1. \A y \in D : Over(f, t \o <<y>>) = Over(f, t) \o f[y] /\ Over(f, <<y>>) = f[y] /\ f[y] \in Seq(S)
            BY OverSteps, Zenon
          <6> QED BY <6>1
        <5> QED BY <5>1
      <4> QED BY <3>3, <4>1
    <3>5. g[i] = Over(f, Pre(s, i)) /\ g[i-1] = Over(f, Pre(s, i - 1))
      BY <1>2, <3>1
    <3> HIDE DEF g
    <3> QED BY <2>2, <3>2, <3>3, <3>4, <3>5
  <2> QED BY <2>1, <2>2
<1>3. Keeps(g, f, s)
  BY <1>2, Zenon DEF Keeps
<1> HIDE DEF g
<1> QED BY <1>3

\* Meanings and Admits, as Over.
LEMMA MeaningsOver ==
    ASSUME NEW s \in Seq(Scope)
    PROVE  Meanings(s) = Over(MeaningOf, s)
<1> DEFINE K(g) == g = [i \in 0 .. Len(s) |-> IF i = 0 THEN << >> ELSE g[i-1] \o Some(Meaning(s[i]))]
<1>1. Lists(MeaningOf, Scope, Meant)
  BY MeaningTypes
<1>2. ASSUME NEW g
      PROVE  [i \in 0 .. Len(s) |-> IF i = 0 THEN << >> ELSE g[i-1] \o MeaningOf[s[i]]]
               = [i \in 0 .. Len(s) |-> IF i = 0 THEN << >> ELSE g[i-1] \o Some(Meaning(s[i]))]
  <2>1. ASSUME NEW i \in 0 .. Len(s), i # 0 PROVE MeaningOf[s[i]] = Some(Meaning(s[i]))
    <3>1. s[i] \in Scope
      BY <2>1
    <3> QED BY <3>1 DEF MeaningOf
  <2> QED BY <2>1
<1>3. PICK g : Keeps(g, MeaningOf, s)
  BY <1>1, KeptExists
<1>4. K(g)
  <2> QED BY <1>2, <1>3, Zenon DEF Keeps
<1> DEFINE k == CHOOSE h : K(h)
<1>5. K(k)
  BY <1>4, Zenon
<1>6. Meanings(s) = k[Len(s)]
  BY Zenon DEF Meanings
<1> HIDE DEF k
<1>7. Keeps(k, MeaningOf, s)
  <2>1. k = [i \in 0 .. Len(s) |-> IF i = 0 THEN << >> ELSE k[i-1] \o Some(Meaning(s[i]))]
    BY <1>5
  <2> QED BY <1>2, <2>1, Zenon DEF Keeps
<1>8. k[Len(s)] = Over(MeaningOf, s)
  BY <1>1, <1>7, KeptOver
<1> QED BY <1>6, <1>8

\* Authority leaves out the scopes that admit no call.
LEMMA AdmitsOver ==
    ASSUME NEW s \in Seq(Meant)
    PROVE  Abstract!Admits(s) = Over(SomeOf, s)
<1> DEFINE K(g) == g = [i \in 0 .. Len(s) |-> IF i = 0 THEN << >> ELSE g[i-1] \o Abstract!Some(s[i])]
<1>1. Lists(SomeOf, Meant, Meant)
  BY MeaningTypes
<1>2. ASSUME NEW g
      PROVE  [i \in 0 .. Len(s) |-> IF i = 0 THEN << >> ELSE g[i-1] \o SomeOf[s[i]]]
               = [i \in 0 .. Len(s) |-> IF i = 0 THEN << >> ELSE g[i-1] \o Abstract!Some(s[i])]
  <2>1. ASSUME NEW i \in 0 .. Len(s), i # 0 PROVE SomeOf[s[i]] = Abstract!Some(s[i])
    <3>1. s[i] \in Meant
      BY <2>1
    <3> QED BY <3>1, MeaningTypes DEF SomeOf
  <2> QED BY <2>1
<1>3. PICK g : Keeps(g, SomeOf, s)
  BY <1>1, KeptExists
<1>4. K(g)
  <2> QED BY <1>2, <1>3, Zenon DEF Keeps
<1> DEFINE k == CHOOSE h : K(h)
<1>5. K(k)
  BY <1>4, Zenon
<1>6. Abstract!Admits(s) = k[Len(s)]
  BY Zenon DEF Abstract!Admits
<1> HIDE DEF k
<1>7. Keeps(k, SomeOf, s)
  <2>1. k = [i \in 0 .. Len(s) |-> IF i = 0 THEN << >> ELSE k[i-1] \o Abstract!Some(s[i])]
    BY <1>5
  <2> QED BY <1>2, <2>1, Zenon DEF Keeps
<1>8. k[Len(s)] = Over(SomeOf, s)
  BY <1>1, <1>7, KeptOver
<1> QED BY <1>6, <1>8

\* Authority's lists of scopes, and what is proved of them.
Algebra == INSTANCE ScopesProofs WITH Calls <- CallPool

\* A place in rows of l: in the first n rows, or in the row after them.
LEMMA PlaceInRow ==
    ASSUME NEW n \in Nat, NEW l \in Nat, NEW k \in 1 .. (n + 1) * l
    PROVE  /\ k <= n * l => ((k - 1) \div l) + 1 \in 1 .. n
           /\ ~(k <= n * l) => /\ ((k - 1) \div l) + 1 = n + 1 /\ ((k - 1) % l) + 1 = k - n * l
                               /\ k - n * l \in 1 .. l
<1>1. n * l \in Nat /\ (n + 1) * l = n * l + l /\ k \in Nat \ {0} /\ k <= n * l + l
  OBVIOUS
<1>2. ASSUME k <= n * l PROVE ((k - 1) \div l) + 1 \in 1 .. n
  <2>1. k \in 1 .. n * l
    BY <1>1, <1>2
  <2> QED BY <2>1, Algebra!PlaceInRange
<1>3. ASSUME ~(k <= n * l)
      PROVE  /\ ((k - 1) \div l) + 1 = n + 1 /\ ((k - 1) % l) + 1 = k - n * l
             /\ k - n * l \in 1 .. l
  <2>1. k - n * l \in 1 .. l
    BY <1>1, <1>3
  <2>2. n + 1 \in 1 .. n + 1 /\ n + 1 \in Nat
    OBVIOUS
  <2>3. PICK q, j : q = n + 1 /\ j = k - n * l
    OBVIOUS
  <2>4. Algebra!AskedAt(Algebra!Place(q, j, l), l) = q /\ Algebra!ParentAt(Algebra!Place(q, j, l), l) = j
    BY <2>1, <2>2, <2>3, Algebra!PlaceOf
  <2>5. Algebra!Place(q, j, l) = k
    <3>1. Algebra!Place(q, j, l) = ((n + 1) - 1) * l + (k - n * l)
      BY <2>3 DEF Algebra!Place
    <3>2. (n + 1) - 1 = n
      OBVIOUS
    <3> QED BY <1>1, <3>1, <3>2
  <2>6. ((k - 1) \div l) + 1 = q /\ ((k - 1) % l) + 1 = j
    BY <2>4, <2>5, Zenon DEF Algebra!AskedAt, Algebra!ParentAt
  <2> QED BY <2>1, <2>3, <2>6
<1> QED BY <1>2, <1>3

\* Two lists one after the other, told by their places.
LEMMA ConcatPlaces ==
    ASSUME NEW S, NEW u \in Seq(S), NEW v \in Seq(S), NEW w \in Seq(S), Len(w) = Len(u) + Len(v),
           \A k \in 1 .. Len(u) : w[k] = u[k],
           \A k \in 1 .. Len(w) : ~(k <= Len(u)) => w[k] = v[k - Len(u)]
    PROVE  w = u \o v
<1>1. u \o v \in Seq(S) /\ Len(u \o v) = Len(u) + Len(v) /\ Len(u) \in Nat /\ Len(v) \in Nat
  OBVIOUS
<1>2. \A k \in 1 .. Len(u) : (u \o v)[k] = u[k]
  OBVIOUS
<1>3. \A k \in 1 .. Len(u) + Len(v) : ~(k <= Len(u)) => (u \o v)[k] = v[k - Len(u)]
  OBVIOUS
<1>4. ASSUME NEW k \in 1 .. Len(w) PROVE w[k] = (u \o v)[k]
  <2>1. CASE k <= Len(u)
    BY <1>1, <1>2, <2>1
  <2>2. CASE ~(k <= Len(u))
    BY <1>3, <2>2
  <2> QED BY <2>1, <2>2
<1>5. PICK z : z = u \o v
  OBVIOUS
<1>6. z \in Seq(S) /\ Len(z) = Len(w) /\ \A k \in 1 .. Len(w) : w[k] = z[k]
  BY <1>1, <1>4, <1>5
<1>7. w = z
  BY <1>6
<1> QED BY <1>5, <1>7

\* What one requested meaning leaves with each of the parent's.
AbstractRow(parent) ==
    [x \in Meant |-> [j \in DOMAIN parent |-> Abstract!Intersect(x, parent[j])]]

\* Such a row is a list of meanings.
LEMMA RowTypes ==
    ASSUME NEW Q \in Seq(Meant)
    PROVE  Lists(AbstractRow(Q), Meant, Meant)
<1>1. Len(Q) \in Nat /\ DOMAIN Q = 1 .. Len(Q) /\ \A j \in 1 .. Len(Q) : Q[j] \in Meant
  OBVIOUS
<1>2. ASSUME NEW x \in Meant PROVE [j \in DOMAIN Q |-> Abstract!Intersect(x, Q[j])] \in Seq(Meant)
  <2>1. \A j \in DOMAIN Q : Abstract!Intersect(x, Q[j]) \in Meant
    BY <1>1, MeaningTypes
  <2>2. [j \in DOMAIN Q |-> Abstract!Intersect(x, Q[j])] \in [1 .. Len(Q) -> Meant]
    BY <1>1, <2>1, Zenon
  <2> QED BY <1>1, <2>2
<1> QED BY <1>2, Zenon DEF Lists, AbstractRow

\* Authority's Attenuate, with one scope more asked for.
LEMMA RowAppended ==
    ASSUME NEW Q \in Seq(Meant), NEW p \in Seq(Meant), NEW x \in Meant
    PROVE  /\ Abstract!Attenuate(Q, p) \in Seq(Meant)
           /\ Abstract!Attenuate(Q, p \o <<x>>) = Abstract!Attenuate(Q, p) \o AbstractRow(Q)[x]
<1> DEFINE l == Len(Q)
           n == Len(p)
           p1 == p \o <<x>>
           row == AbstractRow(Q)[x]
           at(t, k) == Abstract!Intersect(t[((k - 1) \div l) + 1], Q[((k - 1) % l) + 1])
<1>1. /\ l \in Nat /\ n \in Nat /\ p1 \in Seq(Meant) /\ Len(p1) = n + 1 /\ p1[n + 1] = x
      /\ \A i \in 1 .. n : p1[i] = p[i]
  OBVIOUS
<1>2. n * l \in Nat /\ (n + 1) * l \in Nat /\ (n + 1) * l = n * l + l /\ n + 1 \in Nat
  BY <1>1
<1>3. ASSUME NEW t \in Seq(Meant)
      PROVE  /\ Abstract!Attenuate(Q, t) = [k \in 1 .. Len(t) * l |-> at(t, k)]
             /\ Abstract!Attenuate(Q, t) \in Seq(Meant)
  <2>1. Abstract!Attenuate(Q, t) = [k \in 1 .. Len(t) * l |-> at(t, k)]
    BY DEF Abstract!Attenuate
  <2>2. ASSUME NEW k \in 1 .. Len(t) * l PROVE at(t, k) \in Meant
    <3>1. Len(t) \in Nat /\ ((k - 1) \div l) + 1 \in 1 .. Len(t) /\ ((k - 1) % l) + 1 \in 1 .. l
      BY <1>1, Algebra!PlaceInRange
    <3>2. PICK i \in 1 .. Len(t), j \in 1 .. l : i = ((k - 1) \div l) + 1 /\ j = ((k - 1) % l) + 1
      BY <3>1
    <3>3. t[i] \in Meant /\ Q[j] \in Meant
      OBVIOUS
    <3>4. Abstract!Intersect(t[i], Q[j]) \in Meant
      BY <3>3, MeaningTypes
    <3> QED BY <3>2, <3>4
  <2>3. Len(t) * l \in Nat
    BY <1>1
  <2> HIDE DEF at
  <2>4. [k \in 1 .. Len(t) * l |-> at(t, k)] \in [1 .. Len(t) * l -> Meant]
    BY <2>2, Zenon
  <2>5. [k \in 1 .. Len(t) * l |-> at(t, k)] \in Seq(Meant)
    BY <2>3, <2>4
  <2> QED BY <2>1, <2>5
<1>4. row \in Seq(Meant) /\ Len(row) = l /\ \A j \in 1 .. l : row[j] = Abstract!Intersect(x, Q[j])
  <2>1. row = [j \in DOMAIN Q |-> Abstract!Intersect(x, Q[j])]
    BY DEF AbstractRow
  <2>2. row \in Seq(Meant)
    BY RowTypes DEF Lists
  <2>3. DOMAIN Q = 1 .. l
    OBVIOUS
  <2>4. DOMAIN row = 1 .. l /\ \A j \in 1 .. l : row[j] = Abstract!Intersect(x, Q[j])
    BY <2>1, <2>3
  <2> HIDE DEF row, l
  <2> QED BY <1>1, <2>2, <2>4
<1>5. ASSUME NEW k \in 1 .. (n + 1) * l
      PROVE  /\ k <= n * l => at(p1, k) = at(p, k)
             /\ ~(k <= n * l) => at(p1, k) = row[k - n * l]
  <2> HIDE DEF row, p1
  <2>1. /\ k <= n * l => ((k - 1) \div l) + 1 \in 1 .. n
        /\ ~(k <= n * l) => /\ ((k - 1) \div l) + 1 = n + 1 /\ ((k - 1) % l) + 1 = k - n * l
                            /\ k - n * l \in 1 .. l
    BY <1>1, PlaceInRow
  <2>2. PICK i, j : i = ((k - 1) \div l) + 1 /\ j = ((k - 1) % l) + 1
    OBVIOUS
  <2>3. at(p1, k) = Abstract!Intersect(p1[i], Q[j]) /\ at(p, k) = Abstract!Intersect(p[i], Q[j])
    BY <2>2, Zenon
  <2> HIDE DEF at
  <2>4. CASE k <= n * l
    BY <1>1, <2>1, <2>2, <2>3, <2>4
  <2>5. CASE ~(k <= n * l)
    <3>1. i = n + 1 /\ j = k - n * l /\ j \in 1 .. l
      BY <2>1, <2>2, <2>5
    <3>2. at(p1, k) = row[j]
      BY <1>1, <1>4, <2>3, <3>1
    <3> QED BY <2>5, <3>1, <3>2
  <2> QED BY <2>4, <2>5
<1> DEFINE u == Abstract!Attenuate(Q, p)
           w == Abstract!Attenuate(Q, p1)
<1>6. u = [k \in 1 .. n * l |-> at(p, k)] /\ w = [k \in 1 .. (n + 1) * l |-> at(p1, k)]
  BY <1>1, <1>3
<1>7. u \in Seq(Meant) /\ w \in Seq(Meant)
  BY <1>1, <1>3
<1> HIDE DEF u, w, at, row, p1, l, n
<1>8. Len(u) = n * l /\ Len(w) = Len(u) + Len(row)
  BY <1>2, <1>4, <1>6
<1>9. \A k \in 1 .. Len(u) : w[k] = u[k]
  BY <1>2, <1>5, <1>6, <1>8
<1>10. \A k \in 1 .. Len(w) : ~(k <= Len(u)) => w[k] = row[k - Len(u)]
  BY <1>2, <1>4, <1>5, <1>6, <1>8
<1>11. w = u \o row
  BY <1>4, <1>7, <1>8, <1>9, <1>10, ConcatPlaces
<1> QED BY <1>7, <1>11 DEF u, w, row, p1

\* Authority's Attenuate goes through the requested scopes one by one.
LEMMA AbstractRows ==
    ASSUME NEW Q \in Seq(Meant), NEW T \in Seq(Meant)
    PROVE  Abstract!Attenuate(Q, T) = Over(AbstractRow(Q), T)
<1> DEFINE f == AbstractRow(Q)
<1>1. Lists(f, Meant, Meant)
  BY RowTypes
<1> HIDE DEF f
<1>2. ASSUME NEW t \in Seq(Meant), NEW x \in Meant
      PROVE  Over(f, << >>) = << >> /\ Over(f, t \o <<x>>) = Over(f, t) \o f[x]
  <2>1. /\ Over(f, << >>) = << >>
        /\ \A y \in Meant : /\ Over(f, t \o <<y>>) = Over(f, t) \o f[y] /\ Over(f, <<y>>) = f[y]
                            /\ f[y] \in Seq(Meant)
    BY <1>1, OverSteps
  <2> QED BY <2>1
<1>3. Over(f, << >>) = << >>
  BY <1>1, OverOne
<1>4. Abstract!Attenuate(Q, << >>) = << >>
  <2>1. Len(<< >>) * Len(Q) = 0
    OBVIOUS
  <2> QED BY <2>1 DEF Abstract!Attenuate
<1>5. /\ Pre(T, 0) = << >> /\ Pre(T, Len(T)) = T /\ Len(T) \in Nat
      /\ \A n \in 1 .. Len(T) : /\ Pre(T, n - 1) \in Seq(Meant) /\ T[n] \in Meant
                                /\ Pre(T, n) = Pre(T, n - 1) \o <<T[n]>>
  <2>1. /\ Pre(T, 0) = << >> /\ Pre(T, Len(T)) = T
        /\ \A n \in 1 .. Len(T) : /\ Pre(T, n - 1) \in Seq(Meant) /\ T[n] \in Meant
                                  /\ Pre(T, n) = Pre(T, n - 1) \o <<T[n]>>
    BY PreFacts, Zenon
  <2> QED BY <2>1
<1> DEFINE Bad == {n \in 0 .. Len(T) : Abstract!Attenuate(Q, Pre(T, n)) # Over(f, Pre(T, n))}
<1>6. ASSUME Bad # {} PROVE FALSE
  <2>1. PICK n \in Bad : \A j \in Bad : n <= j
    <3>1. Bad \in SUBSET Nat
      OBVIOUS
    <3> HIDE DEF Bad
    <3> QED BY <1>6, <3>1, LeastOf
  <2>2. n \in 0 .. Len(T) /\ Abstract!Attenuate(Q, Pre(T, n)) # Over(f, Pre(T, n))
    BY <2>1
  <2>3. CASE n = 0
    BY <1>3, <1>4, <1>5, <2>2, <2>3
  <2>4. CASE n # 0
    <3>1. n \in 1 .. Len(T) /\ n - 1 \in 0 .. Len(T) /\ ~(n <= n - 1)
      BY <1>5, <2>2, <2>4
    <3>2. n - 1 \notin Bad
      <4> HIDE DEF Bad
      <4> QED BY <2>1, <3>1
    <3>3. PICK t, x : t = Pre(T, n - 1) /\ x = T[n]
      OBVIOUS
    <3>4. t \in Seq(Meant) /\ x \in Meant /\ Pre(T, n) = t \o <<x>>
      BY <1>5, <3>1, <3>3
    <3>5. Abstract!Attenuate(Q, t) = Over(f, t)
      BY <3>1, <3>2, <3>3
    <3>6. Abstract!Attenuate(Q, t \o <<x>>) = Abstract!Attenuate(Q, t) \o f[x]
      BY <3>4, RowAppended DEF f
    <3>7. Over(f, t \o <<x>>) = Over(f, t) \o f[x]
      BY <1>2, <3>4
    <3> QED BY <2>2, <3>4, <3>5, <3>6, <3>7
  <2> QED BY <2>3, <2>4
<1>7. Len(T) \in 0 .. Len(T)
  BY <1>5
<1>8. Abstract!Attenuate(Q, T) = Over(f, T)
  BY <1>5, <1>6, <1>7
<1> QED BY <1>8 DEF f

\* Nothing of every element is nothing.
LEMMA OverNothing ==
    ASSUME NEW D, NEW s \in Seq(D), NEW f, \A i \in DOMAIN s : f[s[i]] = << >>
    PROVE  Over(f, s) = << >>
<1> DEFINE g == [x \in D |-> << >>]
<1>1. Lists(g, D, {})
  <2>1. << >> \in Seq({})
    OBVIOUS
  <2> QED BY <2>1 DEF Lists
<1>2. \A i \in DOMAIN s : f[s[i]] = g[s[i]]
  <2>1. \A i \in DOMAIN s : s[i] \in D
    OBVIOUS
  <2> QED BY <2>1
<1> HIDE DEF g
<1>3. Over(f, s) = Over(g, s)
  BY <1>2, OverSame
<1>4. Over(g, s) \in Seq({})
  <2>1. /\ Over(g, s) \in Seq({}) /\ Over(g, << >>) = << >>
        /\ \A x \in D : /\ Over(g, s \o <<x>>) = Over(g, s) \o g[x] /\ Over(g, <<x>>) = g[x]
                        /\ g[x] \in Seq({})
    BY <1>1, OverSteps, Zenon
  <2> QED BY <2>1
<1>5. \A z \in Seq({}) : z = << >>
  OBVIOUS
<1> QED BY <1>3, <1>4, <1>5

\* The scopes whose meanings Intersect takes exactly.
Sound == {s \in Scope : Validate(s) /\ PlainScope(s)}

\* What one requested scope leaves with each of the parent's.
Cell(r) == [p \in Sound |-> Intersect(r, p)]

Row(parent) == [r \in Sound |-> Over(Cell(r), parent)]

\* Attenuate goes through the requested scopes one by one, and through the
\* parent's for each.
LEMMA ConcreteRows ==
    ASSUME NEW P \in Seq(Sound), NEW R \in Seq(Sound)
    PROVE  /\ \A r \in Sound : Lists(Cell(r), Sound, Scope)
           /\ Lists(Row(P), Sound, Scope)
           /\ Attenuate(P, R) = Over(Row(P), R)
<1>1. ASSUME NEW r \in Sound PROVE Lists(Cell(r), Sound, Scope)
  <2>1. \A p \in Sound : Intersect(r, p) \in Seq(Scope)
    BY IntersectMeans DEF Sound
  <2> QED BY <2>1, Zenon DEF Lists, Cell
<1>2. Lists(Row(P), Sound, Scope)
  <2>1. ASSUME NEW r \in Sound PROVE Over(Cell(r), P) \in Seq(Scope)
    <3>1. PICK f : f = Cell(r)
      OBVIOUS
    <3>2. Lists(f, Sound, Scope)
      BY <1>1, <3>1
    <3>3. Over(f, P) \in Seq(Scope)
      BY <3>2, OverSteps
    <3> QED BY <3>1, <3>3
  <2> QED BY <2>1, Zenon DEF Lists, Row
<1>3. /\ \A i \in DOMAIN R : R[i] \in Sound
      /\ \A j \in DOMAIN P : P[j] \in Sound
  OBVIOUS
<1>4. ASSUME NEW i \in DOMAIN R
      PROVE  FlattenSeq([j \in DOMAIN P |-> Intersect(R[i], P[j])]) = Row(P)[R[i]]
  <2>1. Row(P)[R[i]] = Over(Cell(R[i]), P)
    BY <1>3 DEF Row
  <2>2. [j \in DOMAIN P |-> Intersect(R[i], P[j])] = [j \in DOMAIN P |-> Cell(R[i])[P[j]]]
    BY <1>3 DEF Cell
  <2> QED BY <2>1, <2>2, Zenon DEF Over
<1>5. [i \in DOMAIN R |-> FlattenSeq([j \in DOMAIN P |-> Intersect(R[i], P[j])])]
        = [i \in DOMAIN R |-> Row(P)[R[i]]]
  BY <1>4, Zenon
<1>6. Attenuate(P, R) = Over(Row(P), R)
  BY <1>5, Zenon DEF Attenuate, Over
<1> QED BY <1>1, <1>2, <1>6

\* The meaning of what one requested scope leaves, twice: Over leaves of the
\* parent's scopes, and over leaves of their meanings.
Leaf(r) == [p \in Sound |-> Some(Abstract!Intersect(Meaning(r), Meaning(p)))]

MeantLeaf(x) == [y \in Meant |-> Some(Abstract!Intersect(x, y))]

\* An overlap with a scope that admits no call admits none.
LEMMA OverlapEmpty ==
    ASSUME NEW x \in Meant, NEW y \in Meant, x.calls = {} \/ y.calls = {}
    PROVE  Some(Abstract!Intersect(x, y)) = << >>
<1>1. x.calls \cap y.calls = {}
  OBVIOUS
<1>2. Abstract!Intersect(x, y) = [calls |-> {}, maxCalls |-> 0, approval |-> FALSE]
  BY <1>1 DEF Abstract!Intersect, Abstract!EmptyScope
<1> QED BY <1>2 DEF Some

\* What is made of scopes, and of meanings, is a list of meanings.
LEMMA LeafTypes ==
    /\ \A r \in Sound : r \in Scope /\ Meaning(r) \in Meant /\ MeaningOf[r] = Some(Meaning(r))
    /\ \A r \in Sound : Lists(Leaf(r), Sound, Meant)
    /\ \A x \in Meant : Lists(MeantLeaf(x), Meant, Meant)
    /\ \A x \in Meant : Some(x) = IF x.calls = {} THEN << >> ELSE <<x>>
<1>1. ASSUME NEW r \in Sound PROVE r \in Scope /\ Meaning(r) \in Meant /\ MeaningOf[r] = Some(Meaning(r))
  <2>1. r \in Scope
    BY DEF Sound
  <2> QED BY <2>1, MeaningTypes DEF MeaningOf
<1>2. ASSUME NEW x \in Meant, NEW y \in Meant PROVE Some(Abstract!Intersect(x, y)) \in Seq(Meant)
  BY MeaningTypes
<1>3. ASSUME NEW r \in Sound PROVE Lists(Leaf(r), Sound, Meant)
  <2>1. \A p \in Sound : Some(Abstract!Intersect(Meaning(r), Meaning(p))) \in Seq(Meant)
    BY <1>1, <1>2
  <2> QED BY <2>1, Zenon DEF Lists, Leaf
<1>4. ASSUME NEW x \in Meant PROVE Lists(MeantLeaf(x), Meant, Meant)
  BY <1>2, Zenon DEF Lists, MeantLeaf
<1>5. \A x \in Meant : Some(x) = IF x.calls = {} THEN << >> ELSE <<x>>
  BY DEF Some
<1> QED BY <1>1, <1>3, <1>4, <1>5

\* One requested scope: what its meaning leaves of the meanings of the parent's
\* scopes is what it leaves of them one by one.
LEMMA LeafOver ==
    ASSUME NEW r \in Sound, NEW P \in Seq(Sound)
    PROVE  Over(MeantLeaf(Meaning(r)), Over(MeaningOf, P)) = Over(Leaf(r), P)
<1>1. PICK x \in Meant : x = Meaning(r)
  BY LeafTypes
<1>2. PICK h : h = MeantLeaf(x)
  OBVIOUS
<1>3. Lists(h, Meant, Meant) /\ \A y \in Meant : h[y] = Some(Abstract!Intersect(x, y))
  BY <1>2, LeafTypes DEF MeantLeaf
<1>4. P \in Seq(Scope) /\ \A i \in DOMAIN P : P[i] \in Sound
  <2>1. P \in Seq(Sound) /\ Sound \subseteq Scope
    BY DEF Sound
  <2> HIDE DEF Sound
  <2> QED BY <2>1
<1>5. Over(h, Over(MeaningOf, P)) = Over([s \in Scope |-> Over(h, MeaningOf[s])], P)
  <2>1. Lists(MeaningOf, Scope, Meant)
    BY MeaningTypes
  <2> QED BY <1>3, <1>4, <2>1, OverOver
<1>6. ASSUME NEW i \in DOMAIN P PROVE Over(h, MeaningOf[P[i]]) = Leaf(r)[P[i]]
  <2>1. PICK p \in Sound : p = P[i]
    BY <1>4
  <2>2. PICK y \in Meant : y = Meaning(p)
    BY LeafTypes
  <2>3. MeaningOf[p] = IF y.calls = {} THEN << >> ELSE <<y>>
    BY <2>2, LeafTypes
  <2>4. Leaf(r)[p] = Some(Abstract!Intersect(x, y))
    BY <1>1, <2>2 DEF Leaf
  <2>5. Over(h, << >>) = << >> /\ Over(h, <<y>>) = h[y]
    <3>1. Over(h, << >>) = << >> /\ \A z \in Meant : Over(h, <<z>>) = h[z] /\ h[z] \in Seq(Meant)
      BY <1>3, OverOne
    <3> QED BY <3>1
  <2>6. CASE y.calls = {}
    <3>1. Some(Abstract!Intersect(x, y)) = << >>
      BY <2>6, OverlapEmpty
    <3> QED BY <2>1, <2>3, <2>4, <2>5, <2>6, <3>1
  <2>7. CASE y.calls # {}
    BY <1>3, <2>1, <2>3, <2>4, <2>5, <2>7
  <2> QED BY <2>6, <2>7
<1>7. ASSUME NEW i \in DOMAIN P PROVE [s \in Scope |-> Over(h, MeaningOf[s])][P[i]] = Leaf(r)[P[i]]
  <2>1. P[i] \in Scope
    BY <1>4, LeafTypes
  <2> QED BY <1>6, <2>1
<1> DEFINE k == [s \in Scope |-> Over(h, MeaningOf[s])]
<1>8. \A i \in DOMAIN P : k[P[i]] = Leaf(r)[P[i]]
  BY <1>7
<1> HIDE DEF k
<1>9. Over(k, P) = Over(Leaf(r), P)
  BY <1>8, OverSame
<1> QED BY <1>1, <1>2, <1>5, <1>9 DEF k

\* What the scopes that Attenuate leaves mean, requested scope by requested
\* scope.
LEMMA GrantedMeanings ==
    ASSUME NEW P \in Seq(Sound), NEW R \in Seq(Sound)
    PROVE  /\ Attenuate(P, R) \in Seq(Scope)
           /\ Meanings(Attenuate(P, R)) = Over([r \in Sound |-> Over(Leaf(r), P)], R)
<1>1. PICK row : row = Row(P)
  OBVIOUS
<1>2. /\ Lists(row, Sound, Scope) /\ Attenuate(P, R) = Over(row, R)
      /\ Lists(MeaningOf, Scope, Meant) /\ \A r \in Sound : row[r] = Over(Cell(r), P)
  BY <1>1, ConcreteRows, MeaningTypes DEF Row
<1>3. Attenuate(P, R) \in Seq(Scope)
  <2>1. Over(row, R) \in Seq(Scope)
    BY <1>2, OverSteps
  <2> QED BY <1>2, <2>1
<1>4. Meanings(Attenuate(P, R)) = Over(MeaningOf, Over(row, R))
  BY <1>2, <1>3, MeaningsOver
<1>5. Over(MeaningOf, Over(row, R)) = Over([r \in Sound |-> Over(MeaningOf, row[r])], R)
  BY <1>2, OverOver
<1>6. ASSUME NEW r \in Sound PROVE Over(MeaningOf, row[r]) = Over(Leaf(r), P)
  <2>1. PICK f : f = Cell(r)
    OBVIOUS
  <2>2. Lists(f, Sound, Scope) /\ \A p \in Sound : f[p] = Intersect(r, p)
    BY <2>1, ConcreteRows DEF Cell
  <2>3. Over(MeaningOf, Over(f, P)) = Over([p \in Sound |-> Over(MeaningOf, f[p])], P)
    BY <1>2, <2>2, OverOver
  <2>4. ASSUME NEW p \in Sound PROVE Over(MeaningOf, f[p]) = Some(Abstract!Intersect(Meaning(r), Meaning(p)))
    BY <2>2, IntersectMeans DEF Sound
  <2>5. [p \in Sound |-> Over(MeaningOf, f[p])] = Leaf(r)
    BY <2>4, Zenon DEF Leaf
  <2> QED BY <1>2, <2>1, <2>3, <2>5
<1>7. [r \in Sound |-> Over(MeaningOf, row[r])] = [r \in Sound |-> Over(Leaf(r), P)]
  BY <1>6, Zenon
<1> QED BY <1>3, <1>4, <1>5, <1>7

\* The same of the meanings, as Authority attenuates them.
LEMMA AttenuatedMeanings ==
    ASSUME NEW P \in Seq(Sound), NEW R \in Seq(Sound)
    PROVE  Abstract!Admits(Abstract!Attenuate(Meanings(P), Meanings(R)))
             = Over([r \in Sound |-> Over(Leaf(r), P)], R)
<1>1. P \in Seq(Scope) /\ R \in Seq(Scope) /\ \A i \in DOMAIN R : R[i] \in Sound
  <2>1. Sound \subseteq Scope
    BY DEF Sound
  <2> HIDE DEF Sound
  <2> QED BY <2>1
<1>2. Lists(MeaningOf, Scope, Meant) /\ Lists(SomeOf, Meant, Meant)
  BY MeaningTypes
<1>3. PICK Q, T : Q = Over(MeaningOf, P) /\ T = Over(MeaningOf, R)
  OBVIOUS
<1>4. Q \in Seq(Meant) /\ T \in Seq(Meant) /\ Meanings(P) = Q /\ Meanings(R) = T
  <2>1. ASSUME NEW s \in Seq(Scope) PROVE Over(MeaningOf, s) \in Seq(Meant)
    BY <1>2, OverSteps
  <2> QED BY <1>1, <1>3, <2>1, MeaningsOver
<1>5. PICK row : row = AbstractRow(Q)
  OBVIOUS
<1>6. Lists(row, Meant, Meant) /\ \A x \in Meant : row[x] = [j \in DOMAIN Q |-> Abstract!Intersect(x, Q[j])]
  BY <1>4, <1>5, RowTypes DEF AbstractRow
<1> DEFINE G == [x \in Meant |-> Over(SomeOf, row[x])]
<1>7. Abstract!Admits(Abstract!Attenuate(Q, T)) = Over(G, T)
  <2>1. Abstract!Attenuate(Q, T) = Over(row, T)
    BY <1>4, <1>5, AbstractRows
  <2>2. Over(row, T) \in Seq(Meant)
    BY <1>4, <1>6, OverSteps
  <2>3. Abstract!Admits(Over(row, T)) = Over(SomeOf, Over(row, T))
    BY <2>2, AdmitsOver
  <2>4. Over(SomeOf, Over(row, T)) = Over([x \in Meant |-> Over(SomeOf, row[x])], T)
    BY <1>2, <1>4, <1>6, OverOver
  <2> QED BY <2>1, <2>3, <2>4
<1>8. ASSUME NEW x \in Meant PROVE G[x] = Over(MeantLeaf(x), Q) /\ G[x] \in Seq(Meant)
  <2>1. row[x] \in Seq(Meant) /\ row[x] = [j \in DOMAIN Q |-> Abstract!Intersect(x, Q[j])]
    BY <1>6 DEF Lists
  <2>2. G[x] = Over(SomeOf, row[x])
    OBVIOUS
  <2>3. \A j \in DOMAIN Q : SomeOf[Abstract!Intersect(x, Q[j])] = MeantLeaf(x)[Q[j]]
    <3>1. ASSUME NEW j \in DOMAIN Q PROVE SomeOf[Abstract!Intersect(x, Q[j])] = MeantLeaf(x)[Q[j]]
      <4>1. PICK y \in Meant : y = Q[j]
        BY <1>4
      <4>2. Abstract!Intersect(x, y) \in Meant
        BY MeaningTypes
      <4>3. SomeOf[Abstract!Intersect(x, y)] = Some(Abstract!Intersect(x, y))
        BY <4>2 DEF SomeOf
      <4>4. MeantLeaf(x)[y] = Some(Abstract!Intersect(x, y))
        BY DEF MeantLeaf
      <4> QED BY <4>1, <4>3, <4>4
    <3> QED BY <3>1
  <2>4. [j \in DOMAIN row[x] |-> SomeOf[row[x][j]]] = [j \in DOMAIN Q |-> MeantLeaf(x)[Q[j]]]
    BY <2>1, <2>3
  <2>5. Over(SomeOf, row[x]) = Over(MeantLeaf(x), Q)
    BY <2>4, Zenon DEF Over
  <2>6. Over(SomeOf, row[x]) \in Seq(Meant)
    <3>1. PICK s \in Seq(Meant) : s = row[x]
      BY <2>1
    <3>2. Over(SomeOf, s) \in Seq(Meant)
      BY <1>2, OverSteps
    <3> QED BY <3>1, <3>2
  <2> QED BY <2>2, <2>5, <2>6
<1>9. Lists(G, Meant, Meant)
  BY <1>8 DEF Lists
<1> HIDE DEF G
<1>10. Over(G, T) = Over([s \in Scope |-> Over(G, MeaningOf[s])], R)
  BY <1>1, <1>2, <1>3, <1>9, OverOver
<1> DEFINE k == [s \in Scope |-> Over(G, MeaningOf[s])]
           l == [r \in Sound |-> Over(Leaf(r), P)]
<1>11. ASSUME NEW i \in DOMAIN R PROVE k[R[i]] = l[R[i]]
  <2>1. PICK r \in Sound : r = R[i]
    BY <1>1
  <2>2. k[r] = Over(G, MeaningOf[r]) /\ l[r] = Over(Leaf(r), P)
    BY LeafTypes
  <2>3. PICK x \in Meant : x = Meaning(r)
    BY LeafTypes
  <2>4. MeaningOf[r] = IF x.calls = {} THEN << >> ELSE <<x>>
    BY <2>3, LeafTypes
  <2>5. Over(G, << >>) = << >> /\ Over(G, <<x>>) = G[x]
    <3>1. Over(G, << >>) = << >> /\ \A z \in Meant : Over(G, <<z>>) = G[z] /\ G[z] \in Seq(Meant)
      BY <1>9, OverOne
    <3> QED BY <3>1
  <2> HIDE DEF k, l
  <2>6. CASE x.calls # {}
    <3>1. G[x] = Over(MeantLeaf(x), Q)
      BY <1>8
    <3>2. Over(MeantLeaf(Meaning(r)), Over(MeaningOf, P)) = Over(Leaf(r), P)
      BY LeafOver
    <3> QED BY <1>3, <2>1, <2>2, <2>3, <2>4, <2>5, <2>6, <3>1, <3>2
  <2>7. CASE x.calls = {}
    <3>1. \A j \in DOMAIN P : Leaf(r)[P[j]] = << >>
      <4>1. ASSUME NEW j \in DOMAIN P PROVE Leaf(r)[P[j]] = << >>
        <5>1. PICK p \in Sound : p = P[j]
          OBVIOUS
        <5>2. PICK y \in Meant : y = Meaning(p)
          BY LeafTypes
        <5>3. Some(Abstract!Intersect(x, y)) = << >>
          BY <2>7, OverlapEmpty
        <5> QED BY <2>3, <5>1, <5>2, <5>3 DEF Leaf
      <4> QED BY <4>1
    <3>2. PICK f : f = Leaf(r)
      OBVIOUS
    <3>3. Over(f, P) = << >>
      BY <3>1, <3>2, OverNothing
    <3> QED BY <2>1, <2>2, <2>4, <2>5, <2>7, <3>2, <3>3
  <2> QED BY <2>6, <2>7
<1> HIDE DEF k, l
<1>12. Over(k, R) = Over(l, R)
  BY <1>11, OverSame
<1> QED BY <1>4, <1>7, <1>10, <1>12 DEF k, l

\* Meanings has dropped what admits no call.
LEMMA MeaningsAdmitted ==
    ASSUME NEW s \in Seq(Scope)
    PROVE  Abstract!Admits(Meanings(s)) = Meanings(s)
<1>1. Lists(MeaningOf, Scope, Meant) /\ Lists(SomeOf, Meant, Meant)
  BY MeaningTypes
<1>2. Over(MeaningOf, s) \in Seq(Meant) /\ Meanings(s) = Over(MeaningOf, s)
  <2>1. Over(MeaningOf, s) \in Seq(Meant)
    BY <1>1, OverSteps
  <2> QED BY <2>1, MeaningsOver
<1>3. Abstract!Admits(Over(MeaningOf, s)) = Over(SomeOf, Over(MeaningOf, s))
  BY <1>2, AdmitsOver
<1>4. Over(SomeOf, Over(MeaningOf, s)) = Over([x \in Scope |-> Over(SomeOf, MeaningOf[x])], s)
  BY <1>1, OverOver
<1>5. ASSUME NEW x \in Scope PROVE Over(SomeOf, MeaningOf[x]) = MeaningOf[x]
  <2>1. PICK y \in Meant : y = Meaning(x)
    BY MeaningTypes
  <2>2. MeaningOf[x] = IF y.calls = {} THEN << >> ELSE <<y>>
    BY <2>1 DEF MeaningOf, Some
  <2>3. Over(SomeOf, << >>) = << >> /\ Over(SomeOf, <<y>>) = SomeOf[y]
    <3>1. /\ Over(SomeOf, << >>) = << >>
          /\ \A z \in Meant : Over(SomeOf, <<z>>) = SomeOf[z] /\ SomeOf[z] \in Seq(Meant)
      BY <1>1, OverOne
    <3> QED BY <3>1
  <2>4. SomeOf[y] = IF y.calls = {} THEN << >> ELSE <<y>>
    BY DEF SomeOf, Some
  <2> QED BY <2>2, <2>3, <2>4
<1>6. [x \in Scope |-> Over(SomeOf, MeaningOf[x])] = MeaningOf
  BY <1>5, Zenon DEF MeaningOf
<1> QED BY <1>2, <1>3, <1>4, <1>6

-----------------------------------------------------------------------------
(* Delegation is the one Authority describes *)

\* The scopes of every token, and of a root that is being minted, are plain.
PlainHeld ==
    /\ phase = "mint" => draft.scopes \in Mintable
    /\ \A j \in DOMAIN lineage : \A x \in DOMAIN lineage[j].scopes : PlainScope(lineage[j].scopes[x])

\* Two plain scopes leave a plain one.
LEMMA CommonPlain ==
    ASSUME NEW a \in Scope, NEW b \in Scope, PlainScope(a), PlainScope(b),
           PatternIntersect(a.tool, b.tool) # Empty
    PROVE  PlainScope(Common(a, b))
<1> DEFINE s == Common(a, b)
<1>1. s.tool \in {a.tool, b.tool}
  BY PatternIntersectBelow DEF Common, Scope
<1>2. Plain(s.tool)
  BY <1>1 DEF PlainScope
<1>3. \A r \in s.resources : Plain(r)
  <2> TAKE r \in s.resources
  <2>1. r \in a.resources \cup b.resources
    BY CommonResources
  <2> QED BY <2>1 DEF PlainScope
<1>4. Plain(Empty)
  <2>1. DOMAIN Empty = {}
    BY DEF Empty
  <2> QED BY <2>1 DEF Plain, escapesPrefix
<1>5. ASSUME NEW n \in Constrained(s) PROVE Plain(s.args[n].pattern)
  <2>1. n \in ArgNames /\ s.args[n] = IntersectArgs(a.args, b.args)[n] /\ s.args[n] # None
    BY <1>5 DEF Constrained, Common
  <2>2. CASE s.args[n].pattern = Empty
    BY <1>4, <2>2
  <2>3. CASE s.args[n].pattern # Empty
    <3>1. PICK x \in {a.args[n], b.args[n]} \ {None} : s.args[n].pattern = x.pattern
      <4>1. s.args[n].pattern \in {Empty} \cup {y.pattern : y \in {a.args[n], b.args[n]} \ {None}}
        BY <2>1, IntersectArgsFacts
      <4> HIDE DEF s
      <4> QED BY <2>3, <4>1
    <3>2. (n \in Constrained(a) /\ x = a.args[n]) \/ (n \in Constrained(b) /\ x = b.args[n])
      <4>1. n \in ArgNames
        BY <2>1
      <4>2. x # None /\ (x = a.args[n] \/ x = b.args[n])
        BY <3>1
      <4> HIDE DEF s
      <4> QED BY <4>1, <4>2, Zenon DEF Constrained
    <3> QED BY <3>1, <3>2 DEF PlainScope
  <2> QED BY <2>2, <2>3
<1> HIDE DEF s
<1>6. PlainScope(s)
  BY <1>2, <1>3, <1>5 DEF PlainScope
<1> QED BY <1>6 DEF s

\* Every step keeps the scopes plain.
LEMMA PlainHeldStep ==
    ASSUME PlainAsked, PlainMinted, Typed, PlainHeld, [Next]_vars
    PROVE  PlainHeld'
<1>1. phase' = "mint" => draft'.scopes \in Mintable
  <2>1. ASSUME NEW sub \in Subjects, NEW scopes \in Mintable, NEW d \in DepthsAsked,
               MintRoot(sub, scopes, d)
        PROVE  draft'.scopes \in Mintable
    BY <2>1 DEF MintRoot, Token
  <2>2. phase' = "mint" =>
          \/ phase = "mint" /\ draft' = draft
          \/ \E sub \in Subjects, scopes \in Mintable, d \in DepthsAsked : MintRoot(sub, scopes, d)
    BY DEF Next, vars, MintLookup, Evaluate, MintDenied, MintAllowed, Decided, MintIssue, Delegate,
           DelegateDecided, Call, CallDecided
  <2> QED BY <2>1, <2>2 DEF PlainHeld
<1>2. \A j \in DOMAIN lineage' : \A x \in DOMAIN lineage'[j].scopes : PlainScope(lineage'[j].scopes[x])
  <2>1. CASE lineage' = lineage
    BY <2>1 DEF PlainHeld
  <2>2. CASE MintIssue /\ lineage' = <<draft>>
    <3>1. DOMAIN lineage' = {1} /\ lineage'[1] = draft /\ draft.scopes \in Mintable
      BY <2>2 DEF MintIssue, PlainHeld
    <3> QED BY <3>1 DEF PlainMinted
  <2>3. ASSUME phase = "delegate", NEW t \in Tokens, lineage' = Append(lineage, t), t.scopes = Granted
        PROVE  \A j \in DOMAIN lineage' : \A x \in DOMAIN lineage'[j].scopes :
                   PlainScope(lineage'[j].scopes[x])
    <3>1. lineage \in Seq(Tokens) /\ lineage # << >> /\ draft \in Tokens /\ draft.scopes \in Askable
      BY <2>3 DEF Typed, GrantsTypeOK
    <3>2. Granted \in Seq(Left(Holder.scopes, draft.scopes))
      BY <2>3, GrantedFacts
    <3>3. /\ Holder.scopes \in Seq(Scope) /\ draft.scopes \in Seq(Scope)
          /\ \A x \in DOMAIN Holder.scopes : PlainScope(Holder.scopes[x])
          /\ \A x \in DOMAIN draft.scopes : PlainScope(draft.scopes[x])
      BY <3>1, HolderFacts, TokenFacts DEF PlainAsked, PlainHeld
    <3>4. ASSUME NEW s \in Left(Holder.scopes, draft.scopes) PROVE PlainScope(s)
      <4>1. PICK i \in DOMAIN draft.scopes, j \in DOMAIN Holder.scopes :
                /\ s = Common(draft.scopes[i], Holder.scopes[j])
                /\ PatternIntersect(draft.scopes[i].tool, Holder.scopes[j].tool) # Empty
        BY DEF Left
      <4>2. PICK a \in Scope, b \in Scope : a = draft.scopes[i] /\ b = Holder.scopes[j]
        BY <3>3
      <4>3. PlainScope(Common(a, b))
        BY <3>3, <4>1, <4>2, CommonPlain
      <4> QED BY <4>1, <4>2, <4>3
    <3>5. \A x \in DOMAIN t.scopes : PlainScope(t.scopes[x])
      BY <2>3, <3>2, <3>4
    <3>6. \A j \in DOMAIN lineage' : lineage'[j] = t \/ (j \in DOMAIN lineage /\ lineage'[j] = lineage[j])
      BY <2>3, <3>1
    <3> QED BY <3>5, <3>6 DEF PlainHeld
  <2> QED BY <2>1, <2>2, <2>3, LineageMoves
<1> QED BY <1>1, <1>2 DEF PlainHeld

\* The scopes of every token stay plain.
LEMMA PlainKept ==
    ASSUME PlainAsked, PlainMinted
    PROVE  Spec => []PlainHeld
<1>1. Init => PlainHeld
  BY DEF Init, PlainHeld
<1>2. (Typed /\ Evaluated) /\ PlainHeld /\ [Next]_vars => PlainHeld'
  BY PlainHeldStep
<1> QED BY <1>1, <1>2, TypedKept, PTL DEF Spec

\* Well-formed plain scopes.
LEMMA SoundList ==
    ASSUME NEW s \in Seq(Scope), ValidScopes(s), \A i \in DOMAIN s : PlainScope(s[i])
    PROVE  s \in Seq(Sound)
<1>1. \A i \in DOMAIN s : s[i] \in Sound
  BY DEF ValidScopes, Sound
<1> HIDE DEF Sound
<1> QED BY <1>1

\* The scopes of the last token, as Authority keeps them.
Held == IF lineage = <<>> THEN <<>> ELSE Meanings(Holder.scopes)

\* Issuing a root is minting what its scopes mean.
LEMMA MintRefines ==
    ASSUME Typed, PlainHeld, MintIssue, lineage' = <<draft>>
    PROVE  Held = << >> /\ \E scopes \in MintMeanings : Held' = Abstract!Admits(scopes)
<1>1. lineage = << >> /\ draft \in Tokens /\ draft.scopes \in Mintable
  BY DEF MintIssue, Typed, GrantsTypeOK, PlainHeld
<1>2. Held' = Meanings(draft.scopes)
  <2>1. lineage' # << >> /\ Holder' = draft
    BY DEF Holder, Last
  <2> QED BY <2>1 DEF Held, Meanings, Meaning, Some
<1>3. draft.scopes \in Seq(Scope)
  BY <1>1, TokenFacts
<1>4. Held' = Abstract!Admits(Meanings(draft.scopes))
  BY <1>2, <1>3, MeaningsAdmitted
<1>5. Meanings(draft.scopes) \in MintMeanings
  BY <1>1 DEF MintMeanings
<1> QED BY <1>1, <1>4, <1>5 DEF Held

\* Adding a delegate is attenuating what its parent's scopes mean by what the
\* scopes mean that were asked for.
LEMMA DelegateRefines ==
    ASSUME PlainAsked, Typed, PlainHeld, DelegateDecided, Granted # << >>, NEW t \in Tokens,
           lineage' = Append(lineage, t), t.scopes = Granted
    PROVE  \E scopes \in AskMeanings : Held' = Abstract!Admits(Abstract!Attenuate(Held, scopes))
<1>1. /\ phase = "delegate" /\ lineage \in Seq(Tokens) /\ lineage # << >>
      /\ draft \in Tokens /\ draft.scopes \in Askable
  BY DEF DelegateDecided, Typed, GrantsTypeOK
<1>2. PICK P, R : P = Holder.scopes /\ R = draft.scopes
  OBVIOUS
<1>3. P \in Seq(Scope) /\ R \in Seq(Scope) /\ ValidScopes(P)
  BY <1>1, <1>2, HolderFacts, TokenFacts
<1>4. ValidScopes(R) /\ Granted = Attenuate(P, R)
  BY <1>2 DEF Granted
<1>5. /\ \A x \in DOMAIN P : PlainScope(P[x])
      /\ \A x \in DOMAIN R : PlainScope(R[x])
  BY <1>1, <1>2, HolderFacts DEF PlainAsked, PlainHeld
<1>6. P \in Seq(Sound) /\ R \in Seq(Sound)
  BY <1>3, <1>4, <1>5, SoundList
<1>7. Held = Meanings(P)
  BY <1>1, <1>2 DEF Held
<1>8. Held' = Meanings(Attenuate(P, R))
  <2>1. lineage' # << >> /\ Last(lineage') = t
    BY <1>1 DEF Last
  <2>2. Held' = Meanings(Last(lineage').scopes)
    BY <2>1 DEF Held, Holder, Meanings, Meaning, Some
  <2> QED BY <1>4, <2>1, <2>2
<1>9. Meanings(Attenuate(P, R)) = Abstract!Admits(Abstract!Attenuate(Meanings(P), Meanings(R)))
  BY <1>6, GrantedMeanings, AttenuatedMeanings
<1>10. Meanings(R) \in AskMeanings
  BY <1>1, <1>2 DEF AskMeanings
<1> QED BY <1>7, <1>8, <1>9, <1>10

\* A step of Authority, or none.
LEMMA AuthorityStep ==
    ASSUME PlainAsked, Typed, PlainHeld, [Next]_vars
    PROVE  Abstract!Next \/ Held' = Held
<1>1. CASE lineage' = lineage
  BY <1>1 DEF Held, Holder, Meanings, Meaning, Some
<1>2. CASE MintIssue /\ lineage' = <<draft>>
  <2>1. Held = << >> /\ \E scopes \in MintMeanings : Held' = Abstract!Admits(scopes)
    BY <1>2, MintRefines
  <2>2. Abstract!Mint
    BY <2>1 DEF Abstract!Mint, Held
  <2> QED BY <2>2 DEF Abstract!Next
<1>3. ASSUME DelegateDecided, NEW t \in Tokens, lineage' = Append(lineage, t), t.scopes = Granted,
             lineage' # lineage
      PROVE  Abstract!Next
  <2>1. Granted # << >>
    BY <1>3 DEF DelegateDecided
  <2>2. \E scopes \in AskMeanings : Held' = Abstract!Admits(Abstract!Attenuate(Held, scopes))
    BY <1>3, <2>1, DelegateRefines
  <2>3. Abstract!Delegate
    BY <2>2 DEF Abstract!Delegate, Held
  <2> QED BY <2>3 DEF Abstract!Next
<1> QED BY <1>1, <1>2, <1>3, LineageMoves

\* Minting and delegating implement Authority: over any number of delegations,
\* with any scopes, a token admits exactly the calls that its parent admits and
\* that it asked for, with the smaller budget and either approval flag, scope by
\* scope and in the same order ("Intersect is exact").  No literal that may be
\* minted or asked for is one that escapesPrefix refuses.
THEOREM AuthorityRefined ==
    ASSUME PlainAsked, PlainMinted
    PROVE  Spec => RefinesAuthority
<1>1. Init => Abstract!Init
  BY DEF Init, Abstract!Init
<1>2. (Typed /\ Evaluated) /\ PlainHeld /\ [Next]_vars
        => [Abstract!Next]_(IF lineage = <<>> THEN <<>> ELSE Meanings(Holder.scopes))
  BY AuthorityStep DEF Held
<1> QED BY <1>1, <1>2, TypedKept, PlainKept, PTL DEF Spec, RefinesAuthority, Abstract!Spec

=============================================================================
