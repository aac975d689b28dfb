------------------------------- MODULE Policy -------------------------------
(***************************************************************************)
(* The policy engine of internal/policy: which rules match a request, and  *)
(* one turn of Evaluate's loop over the rules.  A rule's empty field       *)
(* matches anything; a condition that is None always holds.                *)
(***************************************************************************)
EXTENDS Patterns

m(p, s) == p = Empty \/ Match(p, s)

Requests ==
    [action : {"mint", "delegate", "call"}, principal : String, human : String, depth : Int,
     call : ToolCall, hour : Int]

\* The fields of a decoded rule that Evaluate and MintRoot compare.
DecodedRule(r) ==
    {r.principal, r.human, r.tool, r.resource} \subseteq String /\ r.allowDepth \in Int

ParsedRule(r) ==
    /\ r.effect \in {"permit", "forbid"}
    /\ \A p \in {r.principal, r.human, r.tool, r.resource} : p # Empty => ValidatePattern(p)

\* Parse accepts the rule set; no rule set is loaded when WARRANT_POLICY is unset.
Parse(rules) == rules = None \/ \A i \in DOMAIN rules : ParsedRule(rules[i])

\* The When conditions: depth, arguments, hours [from, to).
CondHolds(w, q) ==
    /\ w.maxDepth # None => q.depth <= w.maxDepth
    /\ \A n \in Constrained(w) : AllowsArg(w.args[n], q.call.args[n])
    /\ w.hours # None => w.hours[1] <= q.hour /\ q.hour < w.hours[2]

matches(r, q) ==
    /\ r.action \in {"", q.action}
    /\ m(r.principal, q.principal) /\ m(r.human, q.human)
    /\ m(r.tool, q.call.tool) /\ m(r.resource, q.call.resource)
    /\ r.when # None => CondHolds(r.when, q)

\* A run of Evaluate: the request, the next rule, the permit found so far (an
\* index, 0 for none), and the decision once there is one.
Evaluating(q) == [q |-> q, i |-> 1, permit |-> 0, decision |-> "none", rule |-> 0]

Evaluations ==
    [q : Requests, i : Nat, permit : Nat, decision : {"none", "allow", "deny"}, rule : Nat]

\* Mutant: the first rule that matches decides.
EvaluateRuleFirst(rules, e) ==
    IF ~matches(rules[e.i], e.q) THEN [e EXCEPT !.i = @ + 1]
    ELSE IF rules[e.i].effect = "forbid"
    THEN [e EXCEPT !.decision = "deny", !.rule = e.i]
    ELSE [e EXCEPT !.decision = "allow", !.rule = e.i, !.permit = e.i]

\* One turn of the loop: a forbid ends it, a permit replaces one with a smaller
\* allow_depth.
EvaluateRule(rules, e) ==
    LET r == rules[e.i]
    IN  IF ~matches(r, e.q) THEN [e EXCEPT !.i = @ + 1]
        ELSE IF r.effect = "forbid"
        THEN [e EXCEPT !.decision = "deny", !.rule = e.i]
        ELSE [e EXCEPT !.i = @ + 1,
                       !.permit = IF @ = 0 \/ r.allowDepth > rules[@].allowDepth THEN e.i ELSE @]

\* After the loop, and without a policy: default deny.
EvaluateEnd(e) ==
    [e EXCEPT !.decision = IF e.permit = 0 THEN "deny" ELSE "allow", !.rule = e.permit]

EvaluateStep(rules, e) ==
    IF rules # None /\ e.i \in DOMAIN rules THEN EvaluateRule(rules, e) ELSE EvaluateEnd(e)

=============================================================================
