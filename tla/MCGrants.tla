------------------------------ MODULE MCGrants ------------------------------
(* Small instances of Grants for TLC. *)
EXTENDS Grants

ab == <<"a", "/", "b">>
ac == <<"a", "/", "c">>
up == <<"a", "/", "..">>

C(enum, pattern, min, max) == [enum |-> enum, pattern |-> pattern, min |-> min, max |-> max]

S(tool, resources, args, n, apr) ==
    [tool |-> tool, resources |-> resources, args |-> args, maxCalls |-> n, approval |-> apr]

Star == <<"*">>

Listed == {<<"x">>, <<"y">>, <<"x", "y">>}

CallsOf(tools, resources, values) ==
    {[tool |-> t, resource |-> r, args |-> a] : t \in tools, r \in resources, a \in values}

\* Two tools, resources below a/, beside it and out of it, one argument.
Pool ==
    CallsOf({<<"f", "r">>, <<"g">>}, {ab, up, <<"b">>}, {NoArgs, [n |-> Num(1)]})
      \cup CallsOf({<<"f", "r">>}, {ab, ac}, {[n |-> v] : v \in {Num(3), Str(<<"x">>), Str(<<"x", "y">>)}})

RootScopes ==
    {<<S(<<"f", "*">>, {<<"a", "/", "*">>, <<"b">>}, NoArgs, 3, FALSE),
       S(Star, {Star}, [n |-> C({<<"x">>, <<"y">>}, Empty, None, None)], 1, TRUE)>>,
     <<S(Star, {Star}, [n |-> C(None, <<"x", "*">>, None, None)], 2, FALSE)>>,
     <<S(Star, {Star}, [n |-> C(None, Empty, 0, 2)], 2, TRUE)>>}

DelegateScopes ==
    {<<S(<<"f", "*">>, {<<"a", "/", "*">>}, [n |-> C(None, Empty, 1, 4)], 2, FALSE)>>,
     <<S(<<"f", "r">>, {<<"a", "/", "b", "*">>, <<"b">>}, [n |-> C(None, <<"x", "y">>, None, None)], 1, TRUE),
       S(Star, {ab, Star}, NoArgs, 5, FALSE)>>,
     <<S(Star, {ac}, [n |-> C({<<"x">>, <<"x", "y">>}, Empty, None, None)], 1, FALSE)>>,
     <<S(Star, {<<"*", "b">>}, NoArgs, 1, FALSE)>>}

\* The same, and a literal that escapesPrefix refuses.
WithEscape == DelegateScopes \cup {<<S(Star, {up}, NoArgs, 1, FALSE)>>}

R(effect, action, sub, tool, resource, when, depth) ==
    [effect |-> effect, action |-> action, principal |-> sub, human |-> Empty,
     tool |-> tool, resource |-> resource, when |-> when, allowDepth |-> depth]

W(depth, args, hours) == [maxDepth |-> depth, args |-> args, hours |-> hours]

TwoSubjects == {<<"s">>, <<"u">>}

Ann == <<"h">>

PermitAll == R("permit", "", Empty, Empty, Empty, None, 0)

Policies ==
    {None,
     <<PermitAll, R("permit", "mint", Empty, Star, <<"a", "*">>, None, 0), R("permit", "mint", Empty, <<"f", "*">>, Star, None, 1)>>,
     <<R("permit", "mint", Empty, <<"f", "*">>, <<"a", "/", "*">>, None, 2),
       R("permit", "mint", Empty, Star, <<"*">>, None, 1),
       R("permit", "delegate", Empty, Empty, Empty, None, 0),
       R("permit", "call", Empty, Empty, Empty, None, 0),
       R("forbid", "", <<"s">>, <<"f", "*">>, <<"a", "/", "c">>, W(0, NoArgs, None), 0)>>,
     <<PermitAll, R("permit", "mint", Empty, Empty, Empty, None, 2),
       R("forbid", "call", Empty, Empty, Empty, W(None, [n |-> C(None, Empty, 2, None)], <<1, 2>>), 0),
       R("forbid", "delegate", Empty, Empty, <<"s">>, None, 0)>>}

=============================================================================
