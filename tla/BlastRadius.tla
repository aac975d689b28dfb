---------------------------- MODULE BlastRadius ----------------------------
(***************************************************************************)
(* Service.BlastRadius: what a token can do right now, with its live       *)
(* delegates.  The report is put together from many store calls, one after *)
(* the other and depth first, while the broker goes on issuing, charging   *)
(* and revoking.  view[t] is the frame, and later the result, of the       *)
(* recursive call for t.                                                   *)
(***************************************************************************)
EXTENDS Broker, SequencesExt

VARIABLES
    root,    \* the token asked about, or None
    stack,   \* recursive calls under way, the innermost last
    view,    \* BlastRadius of each token
    was      \* history: calls left to each token in the store at the start

reportVars == <<root, stack, view, was>>

NoView == [pc |-> "none", live |-> FALSE, at |-> 0, todo |-> {}, left |-> -1,
           scopes |-> <<>>, kids |-> {}, children |-> {}]

NoViews == [t \in TokenIds |-> NoView]

ReportInit ==
    /\ Init
    /\ root = None
    /\ stack = <<>>
    /\ view = NoViews
    /\ was = <<>>

\* The calls t could still make if nobody else made any.
CallsLeft(t) ==
    IF Lineage(t) \subseteq stored /\ checkLive(t)
    THEN Min({claims[a].maxCalls - total[a] : a \in Lineage(t)})
    ELSE 0

-----------------------------------------------------------------------------

\* The start of a call: GetToken and FirstRevoked; ExpiresIn is positive.
Entered(t) ==
    [NoView EXCEPT !.pc = "usage", !.at = now, !.todo = Lineage(t), !.live = checkLive(t)]

Begin(t) ==
    /\ stack = <<>> /\ t \in stored
    /\ root' = t
    /\ stack' = <<t>>
    /\ view' = [NoViews EXCEPT ![t] = Entered(t)]
    /\ was' = [a \in stored |-> CallsLeft(a)]
    /\ UNCHANGED vars

\* The innermost call is t's and has come to pc.
At(t, pc) == stack # <<>> /\ t = Last(stack) /\ view[t].pc = pc

\* Mutant: a token's own counter only.
ReadUsageSelf(t) ==
    /\ At(t, "usage")
    /\ view' = [view EXCEPT ![t].pc = "scopes", ![t].todo = {},
                            ![t].left = IF view[t].live THEN claims[t].maxCalls - total[t] ELSE 0]
    /\ UNCHANGED <<vars, root, stack, was>>

\* One turn of the loop over the lineage, from the root down: GetToken and
\* Usage.  An ancestor the store does not know ends the report with an error.
ReadUsage(t) ==
    LET v    == view[t]
        a    == CHOOSE x \in v.todo : \A y \in v.todo : claims[x].depth <= claims[y].depth
        own  == claims[a].maxCalls - total[a]
        left == IF v.left < 0 \/ own < v.left THEN own ELSE v.left
        last == v.todo = {a}
    IN  /\ At(t, "usage")
        /\ IF a \notin stored
           THEN /\ stack' = <<>>
                /\ view' = NoViews
           ELSE /\ view' = [view EXCEPT ![t] = [v EXCEPT
                       !.todo = @ \ {a},
                       !.pc   = IF last THEN "scopes" ELSE @,
                       !.left = IF last /\ (~v.live \/ left < 0) THEN 0 ELSE left]]
                /\ UNCHANGED stack
        /\ UNCHANGED <<vars, root, was>>

\* Mutant: the budgets of the lineage do not bound what is left of a scope.
ScopeLeftAlone(t, i) == claims[t].scopes[i].maxCalls - perScope[t][i]

ScopeLeft(t, i) ==
    Max({0, Least(claims[t].scopes[i].maxCalls - perScope[t][i], view[t].left)})

\* Usage of the token itself, for its scopes.
ReadScopes(t) ==
    /\ At(t, "scopes")
    /\ view' = [view EXCEPT ![t].pc = "children",
                            ![t].scopes = [i \in DOMAIN claims[t].scopes |-> ScopeLeft(t, i)]]
    /\ UNCHANGED <<vars, root, stack, was>>

\* Children, without those that had expired when the call for t began.
ReadChildren(t) ==
    /\ At(t, "children")
    /\ view' = [view EXCEPT ![t].pc = "visit",
                            ![t].kids = {k \in stored : claims[k].parent = t /\ claims[k].exp >= view[t].at}]
    /\ UNCHANGED <<vars, root, stack, was>>

\* The recursive call for a child.
Visit(t, k) ==
    /\ At(t, "visit") /\ k \in view[t].kids
    /\ stack' = Append(stack, k)
    /\ view' = [view EXCEPT ![t].kids = @ \ {k}, ![k] = Entered(k)]
    /\ UNCHANGED <<vars, root, was>>

\* Mutant: a child without calls left is taken for dead.
ShownUsable(k) == view[k].left > 0

ShownChild(k) == view[k].live

\* The call for t returns; a live child is added to its parent's report.
Return(t) ==
    /\ At(t, "visit") /\ view[t].kids = {}
    /\ stack' = Front(stack)
    /\ LET done == [view EXCEPT ![t].pc = "done"]
       IN  view' = IF Len(stack) > 1 /\ ShownChild(t)
                   THEN [done EXCEPT ![claims[t].parent].children = @ \cup {t}]
                   ELSE done
    /\ UNCHANGED <<vars, root, was>>

\* No call is under way any more, and its frames are gone.
Forget == root' = None /\ stack' = <<>> /\ view' = NoViews /\ was' = <<>>

Report(t) ==
    \/ Begin(t) \/ ReadUsage(t) \/ ReadScopes(t) \/ ReadChildren(t) \/ Return(t)
    \/ \E k \in TokenIds : Visit(t, k)

ReportNext ==
    \/ Running /\ IF stack = <<>> THEN Forget ELSE UNCHANGED reportVars
    \/ \E t \in TokenIds : Report(t)
    \/ Restart /\ Forget

ReportSpec == ReportInit /\ [][ReportNext]_<<vars, reportVars>>

-----------------------------------------------------------------------------
(* Properties *)

\* The call for the root has just returned.
Answered == root # None /\ view[root].pc = "done"

\* The tokens in the answer: each is below the root, through children only.
Shown ==
    {t \in TokenIds : root \in Lineage(t) /\
        \A a \in Lineage(t) : a = root \/ root \notin Lineage(a) \/ a \in view[claims[a].parent].children}

\* Although the counters are read one by one while calls are charged, the calls
\* reported for a token are no more than it had left when the report began and
\* no fewer than it has left when the call returns.
ReportBounded ==
    Answered => \A t \in Shown :
        /\ CallsLeft(t) <= view[t].left
        /\ t \in DOMAIN was => view[t].left <= was[t]

\* The report is consistent with itself: no scope and no delegate has more left
\* than the token it belongs to, and nothing that is dead has live delegates.
ReportNested ==
    Answered => \A t \in Shown :
        /\ \A i \in DOMAIN view[t].scopes : view[t].scopes[i] <= view[t].left
        /\ \A k \in view[t].children : view[t].live /\ view[k].left <= view[t].left

\* No live delegate is missing: what was in the store when the report began
\* and is still live when the call returns is in it ("recursively including
\* live delegates"), although Children and FirstRevoked are asked at different
\* moments.
ReportComplete ==
    Answered => \A t \in DOMAIN was :
        root \in Lineage(t) /\ Lineage(t) \subseteq stored /\ checkLive(t) => t \in Shown

=============================================================================
