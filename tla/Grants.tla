------------------------------- MODULE Grants -------------------------------
(***************************************************************************)
(* One lineage of tokens with its scopes as they are written down, under a *)
(* policy: MintRoot evaluates the policy for every tool and resource       *)
(* pattern it is asked for, Delegate for the child's subject, authorize    *)
(* for the call (internal/broker/service.go over internal/policy and       *)
(* internal/token).  Broker takes the policy as a constant and a scope as  *)
(* the calls it admits; here both are computed.                            *)
(***************************************************************************)
EXTENDS Policy

CONSTANTS
    RuleSets,     \* policies that may be loaded; None for no policy
    Mintable,     \* scope lists an administrator may mint
    Askable,      \* scope lists a delegate may ask for
    CallPool,     \* concrete calls
    Subjects,     \* SPIFFE ids
    Human,        \* the originating human
    Hours,        \* hours of the day
    DepthsAsked,  \* max_depth an administrator may ask for; <= 0 asks for none
    CfgMaxDepth,  \* Config.MaxDepth
    MaxHops       \* bound on the number of delegations

ASSUME GrantsAssumption ==
    /\ \A rules \in RuleSets \ {None} :
          /\ rules = [i \in 1 .. Len(rules) |-> rules[i]] /\ Len(rules) \in Nat
          /\ Parse(rules) /\ \A i \in DOMAIN rules : DecodedRule(rules[i])
    /\ Mintable \subseteq Seq(Scope) /\ Askable \subseteq Seq(Scope) /\ CallPool \subseteq ToolCall
    /\ Subjects \subseteq String /\ Human \in String /\ Hours \subseteq Int
    /\ CfgMaxDepth \in Nat /\ MaxHops \in Nat /\ DepthsAsked \subseteq Int

VARIABLES
    rules,    \* the policy, loaded at the start
    phase,    \* what the broker is doing
    draft,    \* the token MintRoot or Delegate is about to issue
    todo,     \* tool and resource patterns MintRoot has still to look up
    cap,      \* maxAllowDepth so far
    eval,     \* the run of Evaluate, or None
    lineage   \* issued tokens, from the root to the last delegate

vars == <<rules, phase, draft, todo, cap, eval, lineage>>

NoArgs == [n \in ArgNames |-> None]

Tokens == [sub : String, scopes : Seq(Scope), maxDepth : Int]

\* None is no token and no run of Evaluate.
ASSUME NoneAssumption == None \notin Tokens /\ None \notin Evaluations

\* A token; its depth is its place in the lineage less one.
Token(sub, scopes, maxDepth) == [sub |-> sub, scopes |-> scopes, maxDepth |-> maxDepth]

Request(action, sub, depth, call, hour) ==
    [action |-> action, principal |-> sub, human |-> Human, depth |-> depth,
     call |-> call, hour |-> hour]

GrantsTypeOK ==
    /\ rules \in RuleSets
    /\ phase \in {"idle", "mint", "held", "delegate", "call", "refused"}
    /\ IF phase \in {"mint", "delegate"} THEN draft \in Tokens ELSE draft = None
    /\ todo \in SUBSET (String \X String) /\ cap \in Nat
    /\ eval = None \/ eval \in Evaluations
    /\ phase \in {"delegate", "call"} => eval # None
    /\ lineage \in Seq(Tokens)
    /\ phase \in {"idle", "mint", "refused"} <=> lineage = <<>>
    /\ \A i \in DOMAIN lineage : \A j \in DOMAIN lineage[i].scopes : Validate(lineage[i].scopes[j])

Init ==
    /\ rules \in RuleSets
    /\ phase = "idle"
    /\ draft = None
    /\ todo = {}
    /\ cap = CfgMaxDepth
    /\ eval = None
    /\ lineage = <<>>

ValidScopes(scopes) == \A i \in DOMAIN scopes : Validate(scopes[i])

Holder == Last(lineage)

-----------------------------------------------------------------------------
(* MintRoot *)

\* The pairs of patterns the policy is asked about.
Lookups(scopes) ==
    UNION {{scopes[i].tool} \X scopes[i].resources : i \in DOMAIN scopes}

MintRoot(sub, scopes, depthAsked) ==
    /\ phase = "idle"
    /\ scopes # <<>> /\ ValidScopes(scopes)
    /\ phase' = "mint"
    /\ draft' = Token(sub, scopes, IF depthAsked <= 0 THEN CfgMaxDepth ELSE depthAsked)
    /\ todo' = Lookups(scopes)
    /\ UNCHANGED <<rules, cap, eval, lineage>>

\* Policy.Evaluate of one pair: the patterns stand in the place of a call.
MintLookup(hour) ==
    /\ phase = "mint" /\ eval = None
    /\ \E pair \in todo :
          /\ eval' = Evaluating(Request("mint", draft.sub, 0,
                        [tool |-> pair[1], resource |-> pair[2], args |-> NoArgs], hour))
          /\ todo' = todo \ {pair}
    /\ UNCHANGED <<rules, phase, draft, cap, lineage>>

\* One turn of Evaluate, for whoever called it.
Evaluate ==
    /\ eval # None /\ eval.decision = "none"
    /\ eval' = EvaluateStep(rules, eval)
    /\ UNCHANGED <<rules, phase, draft, todo, cap, lineage>>

Decided(p, decision) == phase = p /\ eval # None /\ eval.decision = decision

MintDenied ==
    /\ Decided("mint", "deny")
    /\ phase' = "refused"
    /\ draft' = None /\ todo' = {} /\ eval' = None
    /\ UNCHANGED <<rules, cap, lineage>>

MintAllowed ==
    /\ Decided("mint", "allow")
    /\ cap' = IF rules[eval.rule].allowDepth > cap THEN rules[eval.rule].allowDepth ELSE cap
    /\ eval' = None
    /\ UNCHANGED <<rules, phase, draft, todo, lineage>>

\* Mutant: the depth asked for is not compared with the cap.
MintIssueUncapped ==
    /\ phase = "mint" /\ eval = None /\ todo = {}
    /\ phase' = "held" /\ lineage' = <<draft>>
    /\ draft' = None
    /\ UNCHANGED <<rules, todo, cap, eval>>

\* The end of MintRoot: the depth is within the cap, or the mint is refused.
MintIssue ==
    /\ phase = "mint" /\ eval = None /\ todo = {}
    /\ IF draft.maxDepth > cap
       THEN phase' = "refused" /\ UNCHANGED lineage
       ELSE phase' = "held" /\ lineage' = <<draft>>
    /\ draft' = None
    /\ UNCHANGED <<rules, todo, cap, eval>>

-----------------------------------------------------------------------------
(* Delegate *)

\* The depth check and the call of Evaluate for the child's subject; the scopes
\* asked for wait in the draft. A smaller max_depth, the budget and the
\* expiry a delegate may ask for are Broker's.
Delegate(sub, scopes, hour) ==
    /\ phase = "held" /\ Len(lineage) <= MaxHops
    /\ Len(lineage) <= Holder.maxDepth
    /\ phase' = "delegate"
    /\ draft' = Token(sub, scopes, Holder.maxDepth)
    /\ eval' = Evaluating(Request("delegate", Holder.sub, Len(lineage),
                  [tool |-> Empty, resource |-> sub, args |-> NoArgs], hour))
    /\ UNCHANGED <<rules, todo, cap, lineage>>

\* Mutant: the scopes asked for are not validated.
GrantedUnchecked == Attenuate(Holder.scopes, draft.scopes)

\* What Delegate grants: nothing when the request is not well formed.
Granted == IF ValidScopes(draft.scopes) THEN Attenuate(Holder.scopes, draft.scopes) ELSE <<>>

DelegateDecided ==
    /\ phase = "delegate" /\ eval.decision # "none"
    /\ phase' = "held"
    /\ lineage' = IF eval.decision = "allow" /\ Granted # <<>>
                  THEN Append(lineage, [draft EXCEPT !.scopes = Granted])
                  ELSE lineage
    /\ draft' = None /\ eval' = None
    /\ UNCHANGED <<rules, todo, cap>>

-----------------------------------------------------------------------------
(* authorize *)

\* The scope match, and the call of Evaluate; a call no scope admits is denied
\* before the policy is asked.
Call(call, hour) ==
    /\ phase = "held"
    /\ FirstMatch(Holder.scopes, call) > 0
    /\ phase' = "call"
    /\ eval' = Evaluating(Request("call", Holder.sub, Len(lineage) - 1, call, hour))
    /\ UNCHANGED <<rules, draft, todo, cap, lineage>>

CallDecided ==
    /\ phase = "call" /\ eval.decision # "none"
    /\ phase' = "held" /\ eval' = None
    /\ UNCHANGED <<rules, draft, todo, cap, lineage>>

Next ==
    \/ \E sub \in Subjects, scopes \in Mintable, d \in DepthsAsked : MintRoot(sub, scopes, d)
    \/ \E hour \in Hours :
          \/ MintLookup(hour)
          \/ \E sub \in Subjects, scopes \in Askable : Delegate(sub, scopes, hour)
          \/ \E call \in CallPool : Call(call, hour)
    \/ Evaluate
    \/ MintDenied \/ MintAllowed \/ MintIssue
    \/ DelegateDecided
    \/ CallDecided

Spec == Init /\ [][Next]_vars

-----------------------------------------------------------------------------
(* Properties *)

\* The calls of the pool a scope admits, with its budget and approval flag.
Meaning(s) ==
    [calls |-> {c \in CallPool : Allows(s, c)}, maxCalls |-> s.maxCalls, approval |-> s.approval]

Some(s) == IF s.calls = {} THEN <<>> ELSE <<s>>

\* The meanings of the scopes that admit a call.
Meanings(scopes) ==
    LET kept[i \in 0 .. Len(scopes)] ==
            IF i = 0 THEN <<>> ELSE kept[i - 1] \o Some(Meaning(scopes[i]))
    IN  kept[Len(scopes)]

MintMeanings == {Meanings(scopes) : scopes \in Mintable}

AskMeanings == {Meanings(scopes) : scopes \in Askable}

Abstract == INSTANCE Authority WITH
    Calls    <- CallPool,
    Mintable <- MintMeanings,
    Askable  <- AskMeanings,
    held     <- IF lineage = <<>> THEN <<>> ELSE Meanings(Holder.scopes)

\* Patterns, enums and bounds are intersected exactly: over any number of
\* delegations a token admits the calls its parent admits and it asked for,
\* with the smaller budget and either approval flag, scope by scope and in the
\* same order ("Intersect is exact", and what Broker supposes of Attenuate).
RefinesAuthority == Abstract!Spec

\* No literal a delegate may ask for is one that escapesPrefix refuses.
PlainAsked == \A scopes \in Askable : \A i \in DOMAIN scopes : PlainScope(scopes[i])

\* No literal a root token may hold is one.
PlainMinted == \A scopes \in Mintable : \A i \in DOMAIN scopes : PlainScope(scopes[i])

\* A delegate admits no call that an ancestor does not: every string a pattern of
\* the child matches is matched by the parent's pattern it was taken from
\* (PatternSubset's promise, and Attenuate's).
DelegatesWithin ==
    \A j \in DOMAIN lineage : \A i \in 1 .. j : \A c \in CallPool :
        FirstMatch(lineage[j].scopes, c) > 0 => FirstMatch(lineage[i].scopes, c) > 0

\* Every delegate's scopes pass the structural test against the scopes of every
\* ancestor, so Subset and Attenuate agree ("The result is always a subset of
\* parent").
AttenuatedSubset ==
    \A j \in DOMAIN lineage : \A i \in 1 .. j :
        ScopesSubset(lineage[j].scopes, lineage[i].scopes)

Matching(effect) ==
    IF rules = None THEN {}
    ELSE {i \in DOMAIN rules : rules[i].effect = effect /\ matches(rules[i], eval.q)}

\* Deny overrides, whatever the order of the rules: a decision allows exactly
\* when a permit matches and no forbid does, and carries the largest
\* allow_depth of the permits that match.
DenyOverrides ==
    eval # None /\ eval.decision # "none" =>
        /\ eval.decision = "allow" <=> Matching("permit") # {} /\ Matching("forbid") = {}
        /\ eval.decision = "allow" =>
              \A i \in Matching("permit") : rules[i].allowDepth <= rules[eval.rule].allowDepth

\* MintRoot looks patterns up as if they were calls; all the same, each call a
\* token or a delegate of it admits is one that a permit for mint covers by tool
\* and resource, and a depth beyond the configured one is one such a permit
\* allows.
MintedUnderPermit ==
    \A j \in DOMAIN lineage :
        LET permits == {i \in DOMAIN rules : rules[i].effect = "permit" /\ rules[i].action \in {"", "mint"}}
        IN  /\ \A c \in CallPool : FirstMatch(lineage[j].scopes, c) > 0 =>
                  \E i \in permits : m(rules[i].tool, c.tool) /\ m(rules[i].resource, c.resource)
            /\ \/ lineage[j].maxDepth <= CfgMaxDepth
               \/ \E i \in permits : lineage[j].maxDepth <= rules[i].allowDepth

=============================================================================
