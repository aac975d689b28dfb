------------------------------ MODULE Patterns ------------------------------
(***************************************************************************)
(* The scopes of internal/token/scope.go as they are written down:         *)
(* patterns with a trailing wildcard, argument constraints, and the        *)
(* structural tests and intersections that Scopes replaces by the calls a  *)
(* scope admits.                                                           *)
(*                                                                         *)
(* A string is a sequence of symbols.  ".." stands for two dots, "*" for a *)
(* star, "%" for what escapesPrefix refuses anywhere (a backslash, a NUL,  *)
(* an encoded dot or slash); every other symbol is a character.            *)
(***************************************************************************)
EXTENDS Integers, SequencesExt

CONSTANTS
    None,         \* no value, no constraint, no bound
    ArgNames,     \* names of arguments
    EnumStrings   \* strings an enum may list

String == Seq(STRING)

Empty == <<>>     \* the empty string

ASSUME PatternsAssumption ==
    /\ EnumStrings \subseteq String
    /\ None \notin Int /\ \A enum \in SUBSET EnumStrings : enum # None

-----------------------------------------------------------------------------
(* Patterns *)

isWild(p) == p # Empty /\ Last(p) = "*"

prefix(p) == IF isWild(p) THEN Front(p) ELSE p

ValidatePattern(p) == p # Empty /\ \A i \in DOMAIN p : p[i] = "*" => i = Len(p)

\* Position i holds a whole segment, from slash to slash.
Segment(s, i) == /\ i = 1 \/ s[i - 1] = "/"
                 /\ i = Len(s) \/ s[i + 1] = "/"

escapesPrefix(s) ==
    \E i \in DOMAIN s : s[i] = "%" \/ (s[i] = ".." /\ Segment(s, i))

Match(p, s) ==
    IF isWild(p) THEN IsPrefix(prefix(p), s) /\ ~escapesPrefix(s) ELSE p = s

\* Not a literal that no wildcard matches.
Plain(p) == isWild(p) \/ ~escapesPrefix(p)

PatternSubset(child, parent) ==
    IF isWild(parent) THEN IsPrefix(prefix(parent), prefix(child)) ELSE child = parent

\* Mutant: of two overlapping patterns the wider one is returned.
PatternIntersectWider(a, b) ==
    IF PatternSubset(a, b) THEN b ELSE IF PatternSubset(b, a) THEN a ELSE Empty

\* The pattern of what both match; Empty when there is none.
PatternIntersect(a, b) ==
    IF PatternSubset(a, b) THEN a ELSE IF PatternSubset(b, a) THEN b ELSE Empty

-----------------------------------------------------------------------------
(* Argument constraints.  A value has a string or a number. *)

Value == [str : {None} \cup String, num : {None} \cup Int]

Constraint ==
    [enum : {None} \cup SUBSET EnumStrings, pattern : String,
     min : {None} \cup Int, max : {None} \cup Int]

\* A constraint, or a value, for each name, or None.
Args(S) == [ArgNames -> {None} \cup S]

ASSUME ConstraintAssumption == None \notin Constraint

Str(s) == [str |-> s, num |-> None]

Num(n) == [str |-> None, num |-> n]

\* ArgConstraint: enum and bounds may be None, the pattern Empty.
AllowsArg(c, v) ==
    /\ v # None
    /\ c.enum # None => v.str # None /\ v.str \in c.enum
    /\ c.pattern # Empty => v.str # None /\ Match(c.pattern, v.str)
    /\ c.min # None => v.num # None /\ v.num >= c.min
    /\ c.max # None => v.num # None /\ v.num <= c.max

argSubset(child, parent) ==
    /\ parent.enum # None => child.enum # None /\ child.enum \subseteq parent.enum
    /\ parent.pattern # Empty =>
          IF child.pattern = Empty
          THEN child.enum # None /\ \A e \in child.enum : Match(parent.pattern, e)
          ELSE PatternSubset(child.pattern, parent.pattern)
    /\ parent.min # None => child.min # None /\ child.min >= parent.min
    /\ parent.max # None => child.max # None /\ child.max <= parent.max

maxPtr(a, b) == IF a = None THEN b ELSE IF b = None \/ a >= b THEN a ELSE b

minPtr(a, b) == IF a = None THEN b ELSE IF b = None \/ a <= b THEN a ELSE b

\* Both enums, or the one there is.
BothEnums(a, b) == IF a = None THEN b ELSE IF b = None THEN a ELSE a \cap b

\* Mutant: an upper bound is widened.
intersectArgWider(a, b) ==
    [enum |-> BothEnums(a.enum, b.enum),
     pattern |-> IF a.pattern = Empty THEN b.pattern ELSE a.pattern,
     min |-> maxPtr(a.min, b.min), max |-> maxPtr(a.max, b.max)]

\* What satisfies both constraints.  Disjoint patterns leave the empty enum; a
\* pattern beside an enum is folded into it.
intersectArg(a, b) ==
    LET both == a.pattern # Empty /\ b.pattern # Empty
        pat  == IF both THEN PatternIntersect(a.pattern, b.pattern)
                ELSE IF a.pattern # Empty THEN a.pattern ELSE b.pattern
        enum == IF both /\ pat = Empty THEN {} ELSE BothEnums(a.enum, b.enum)
    IN  [enum |-> IF enum = None \/ pat = Empty THEN enum ELSE {e \in enum : Match(pat, e)},
         pattern |-> IF enum = None THEN pat ELSE Empty,
         min |-> maxPtr(a.min, b.min),
         max |-> minPtr(a.max, b.max)]

Unsatisfiable(c) == c.enum = {} \/ (c.min # None /\ c.max # None /\ c.min > c.max)

-----------------------------------------------------------------------------
(* Scopes: tool, resources (a set of patterns), args (a constraint per name),
   maxCalls and approval.  A call has a tool, a resource and args. *)

Scope ==
    [tool : String, resources : SUBSET String, args : Args(Constraint),
     maxCalls : Int, approval : BOOLEAN]

ToolCall == [tool : String, resource : String, args : Args(Value)]

Constrained(s) == {n \in ArgNames : s.args[n] # None}

Validate(s) ==
    /\ ValidatePattern(s.tool)
    /\ s.resources # {} /\ \A r \in s.resources : ValidatePattern(r)
    /\ \A n \in Constrained(s) : s.args[n].pattern # Empty => ValidatePattern(s.args[n].pattern)
    /\ s.maxCalls > 0

Allows(s, c) ==
    /\ Match(s.tool, c.tool)
    /\ \E r \in s.resources : Match(r, c.resource)
    /\ \A n \in Constrained(s) : AllowsArg(s.args[n], c.args[n])

Subset(child, parent) ==
    /\ PatternSubset(child.tool, parent.tool)
    /\ \A cr \in child.resources : \E pr \in parent.resources : PatternSubset(cr, pr)
    /\ \A n \in Constrained(parent) :
          n \in Constrained(child) /\ argSubset(child.args[n], parent.args[n])
    /\ child.maxCalls <= parent.maxCalls
    /\ parent.approval => child.approval

ScopesSubset(child, parent) ==
    \A i \in DOMAIN child : \E j \in DOMAIN parent : Subset(child[i], parent[j])

IntersectArgs(a, b) ==
    [n \in ArgNames |->
        IF a[n] = None THEN b[n] ELSE IF b[n] = None THEN a[n] ELSE intersectArg(a[n], b[n])]

\* No pattern of the scope is a literal that no wildcard matches.
PlainScope(s) ==
    /\ Plain(s.tool) /\ \A r \in s.resources : Plain(r)
    /\ \A n \in Constrained(s) : Plain(s.args[n].pattern)

\* The list of the one scope both admit, or no scope.
Intersect(a, b) ==
    LET tool == PatternIntersect(a.tool, b.tool)
        res  == {PatternIntersect(ra, rb) : ra \in a.resources, rb \in b.resources} \ {Empty}
        args == IntersectArgs(a.args, b.args)
        mc   == IF b.maxCalls < a.maxCalls THEN b.maxCalls ELSE a.maxCalls
    IN  IF \/ tool = Empty \/ res = {} \/ mc <= 0
           \/ \E n \in ArgNames : args[n] # None /\ Unsatisfiable(args[n])
        THEN <<>>
        ELSE <<[tool |-> tool, resources |-> res, args |-> args, maxCalls |-> mc,
                approval |-> a.approval \/ b.approval]>>

\* Every requested scope with every parent scope, requested scopes outermost.
Attenuate(parent, requested) ==
    FlattenSeq([i \in DOMAIN requested |->
        FlattenSeq([j \in DOMAIN parent |-> Intersect(requested[i], parent[j])])])

\* The first scope that admits the call; 0 stands for the code's -1.
FirstMatch(scopes, call) ==
    SelectInSeq(scopes, LAMBDA s : Allows(s, call))

=============================================================================
