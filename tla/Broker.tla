------------------------------- MODULE Broker -------------------------------
(***************************************************************************)
(* The credential broker of Warrant (internal/broker/service.go) over its  *)
(* token store (internal/store).                                           *)
(*                                                                         *)
(* A workload obtains an SVID, an administrator mints a root capability    *)
(* token for it, holders delegate attenuated child tokens, and Authorize   *)
(* decides each tool call: liveness of the token and of its whole lineage, *)
(* binding, scope, policy, single-use approval and, last, the charge of    *)
(* the call budgets of the token and of every ancestor.                    *)
(*                                                                         *)
(* HTTP handlers run concurrently.  The store serialises its own methods,  *)
(* nothing serialises a handler, so every handler is cut at its store      *)
(* calls: one action per store call, with the local computation between    *)
(* two store calls attached to one of them.  A handler's local variables   *)
(* live in claims[t] (the Claims struct that a MintRoot or Delegate call   *)
(* is building for the fresh id t) and in req[r] (an Authorize call).      *)
(***************************************************************************)
EXTENDS Scopes

CONSTANTS
    TokenIds,      \* ids token.NewID may draw; each is drawn once
    Requests,      \* Authorize calls; each is made once
    ApprovalIds,   \* ids of approvals; each is drawn once
    Subjects,      \* SPIFFE ids of workload instances
    Humans,        \* originating humans
    ScopeLists,    \* lists of scopes a client may ask for
    CallsAsked,    \* max_calls a client may ask for; <= 0 asks for none
    DepthsAsked,   \* max_depth a client may ask for; <= 0 asks for none
    TTLsAsked,     \* ttl_seconds a client may ask for; <= 0 asks for none
    Permit(_, _, _, _, _, _), \* policy.Set.Evaluate(...).Allow
    AllowDepth(_, _, _, _),   \* policy.Set.Evaluate(mint ...).AllowDepth
    CfgMaxDepth, DefaultTTL, MaxTTL, SVIDTTL, ApprovalTTL, \* broker.Config
    MaxTime,       \* bound on the clock
    Durable,       \* TRUE: Postgres store, FALSE: Memory store
    LedgerFails,   \* types of records for which Ledger.Record may fail
    None           \* no token, no call, no approval

ASSUME IdsAssumption ==
    /\ IsFiniteSet(TokenIds) /\ IsFiniteSet(Requests)
    /\ None \notin TokenIds \cup Calls \cup ApprovalIds

ASSUME InputsAssumption ==
    /\ ScopeLists \subseteq Seq(Scope)
    /\ CallsAsked \subseteq Int /\ DepthsAsked \subseteq Int /\ TTLsAsked \subseteq Int

EventTypes == {"issued", "revoked", "too deep", "allowed", "denied"}

ASSUME ConfigAssumption ==
    /\ LedgerFails \subseteq EventTypes
    /\ CfgMaxDepth \in Nat /\ DefaultTTL \in Nat /\ MaxTTL \in Nat
    /\ SVIDTTL \in Nat /\ ApprovalTTL \in Nat /\ MaxTime \in Nat
    /\ Durable \in BOOLEAN

VARIABLES
    now,        \* the clock, Service.Now
    workloads,  \* store: subjects whose workload is registered
    svids,      \* signed SVIDs handed out
    phase,      \* how far the MintRoot or Delegate call for an id has come
    claims,     \* the Claims of an id: signed once issued, a draft before
    stored,     \* store: ids with a TokenRecord
    revoked,    \* store: the revoke list
    total,      \* store: calls charged to a token, its delegates' included
    perScope,   \* store: calls charged to each scope of a token
    approvals,  \* signed approvals handed out
    usedApr,    \* store: approvals already used
    req,        \* the Authorize calls
    ledger      \* records handed to Ledger.Record, with what it returned

vars == <<now, workloads, svids, phase, claims, stored, revoked, total,
          perScope, approvals, usedApr, req, ledger>>

-----------------------------------------------------------------------------
(* Types *)

SVID == [sub : Subjects, exp : Nat]

Claims == [sub : Subjects \cup {None}, human : Humans \cup {None},
           parent : TokenIds \cup {None}, chain : SUBSET TokenIds,
           depth : Nat, maxDepth : Nat, maxCalls : Nat,
           scopes : Seq(Scope), exp : Nat]

Approval == [tok : TokenIds \cup {None}, call : Calls \cup {None}, exp : Nat]

Request == [pc : {"idle", "live", "cleared", "charged", "allowed", "denied",
                  "lost", "wasted"},
            tok : TokenIds \cup {None}, call : Calls \cup {None},
            scope : Nat, apr : ApprovalIds \cup {None},
            knew : SUBSET TokenIds]

NoClaims == [sub |-> None, human |-> None, parent |-> None, chain |-> {},
             depth |-> 0, maxDepth |-> 0, maxCalls |-> 0, scopes |-> <<>>, exp |-> 0]

NoApproval == [tok |-> None, call |-> None, exp |-> 0]

NoRequest == [pc |-> "idle", tok |-> None, call |-> None, scope |-> 0,
              apr |-> None, knew |-> {}]

\* A request that ended without a charge: the handler's locals are gone.
Ended(how) == [NoRequest EXCEPT !.pc = how]

\* ok: Ledger.Record returned nil, the record is in the Ledger or will be.
Event == {e \in [type : EventTypes, id : TokenIds \cup Requests, ok : BOOLEAN] :
             e.ok \/ e.type \in LedgerFails}

Phases == {"free", "checked", "measured", "persisted", "issued", "orphan"}

TypeOK ==
    /\ now \in Nat
    /\ workloads \subseteq Subjects
    /\ svids \subseteq SVID
    /\ phase \in [TokenIds -> Phases]
    /\ claims \in [TokenIds -> Claims]
    /\ \A t \in TokenIds : phase[t] = "checked" => claims[t].parent \in TokenIds
    /\ stored \subseteq TokenIds
    /\ revoked \subseteq TokenIds
    /\ total \in [TokenIds -> Nat]
    /\ perScope \in [TokenIds -> Seq(Nat)]
    /\ approvals \in [ApprovalIds -> Approval]
    /\ usedApr \subseteq ApprovalIds
    /\ req \in [Requests -> Request]
    /\ \A r \in Requests : req[r].pc \notin {"idle", "denied", "lost"} => req[r].tok \in TokenIds
    /\ ledger \subseteq Event

-----------------------------------------------------------------------------
(* Helpers of the broker *)

Lineage(t) == claims[t].chain \cup {t}

Expired(exp) == now >= exp

\* Mutant: only the token itself is looked up in the revoke list.
checkLiveSelf(t) == ~Expired(claims[t].exp) /\ t \notin revoked

\* token.Verify of the token and Store.FirstRevoked of its lineage.
checkLive(t) == ~Expired(claims[t].exp) /\ Lineage(t) \cap revoked = {}

verifySVID(sv) == sv \in svids /\ ~Expired(sv.exp)

\* Mutant: the ceiling is forgotten.
ttlUncut(asked, ceiling) ==
    now + Least(IF asked > 0 THEN asked ELSE DefaultTTL, MaxTTL)

ttl(asked, ceiling) ==
    LET d == Least(IF asked > 0 THEN asked ELSE DefaultTTL, MaxTTL)
    IN  Least(now + d, ceiling)

\* Mutant: a negative request is taken as it is.
MintCallsSigned(asked, scopes) ==
    IF asked = 0 \/ asked > sumCalls(scopes) THEN sumCalls(scopes) ELSE asked

\* max_calls of a root token: what was asked, if the scopes can spend it.
MintCalls(asked, scopes) ==
    IF asked <= 0 \/ asked > sumCalls(scopes) THEN sumCalls(scopes) ELSE asked

\* max_calls of a child, from the parent's remaining calls.
DelegateCalls(asked, remaining, scopes) ==
    Least(IF asked <= 0 \/ asked > remaining THEN remaining ELSE asked,
          sumCalls(scopes))

\* The deepest delegation a mint may ask for: the configured cap, or the
\* largest allow_depth among the rules that permit its scopes.
UnderDepthCap(s, h, scopes, md) ==
    \/ md <= CfgMaxDepth
    \/ \E i \in DOMAIN scopes : md <= AllowDepth(s, h, scopes[i], now)

\* record: an error of Ledger.Record is logged, and the handler goes on.
Record(type, id) ==
    \E ok \in BOOLEAN :
        /\ ok \/ type \in LedgerFails
        /\ ledger' = ledger \cup {[type |-> type, id |-> id, ok |-> ok]}

InLedger(type, id) == [type |-> type, id |-> id, ok |-> TRUE] \in ledger

NotInLedger(type, id) == [type |-> type, id |-> id, ok |-> FALSE] \in ledger

\* The call of Ledger.Record has returned.
Handed(type, id) == InLedger(type, id) \/ NotInLedger(type, id)

Init ==
    /\ now = 0
    /\ workloads = {}
    /\ svids = {}
    /\ phase = [t \in TokenIds |-> "free"]
    /\ claims = [t \in TokenIds |-> NoClaims]
    /\ stored = {}
    /\ revoked = {}
    /\ total = [t \in TokenIds |-> 0]
    /\ perScope = [t \in TokenIds |-> <<>>]
    /\ approvals = [a \in ApprovalIds |-> NoApproval]
    /\ usedApr = {}
    /\ req = [r \in Requests |-> NoRequest]
    /\ ledger = {}

-----------------------------------------------------------------------------
(* Identity and issuance *)

RegisterWorkload(s) ==
    /\ workloads' = workloads \cup {s}
    /\ UNCHANGED <<now, svids, phase, claims, stored, revoked, total, perScope,
                   approvals, usedApr, req, ledger>>

IssueSVID(s) ==
    /\ s \in workloads
    /\ svids' = svids \cup {[sub |-> s, exp |-> now + SVIDTTL]}
    /\ UNCHANGED <<now, workloads, phase, claims, stored, revoked, total, perScope,
                   approvals, usedApr, req, ledger>>

\* Mutant: the token is handed out before its issuance is recorded.
persistAndIssue(t, c) ==
    /\ phase' = [phase EXCEPT ![t] = "issued"]
    /\ claims' = [claims EXCEPT ![t] = c]
    /\ stored' = stored \cup {t}
    /\ perScope' = [perScope EXCEPT ![t] = [i \in DOMAIN c.scopes |-> 0]]
    /\ UNCHANGED <<now, workloads, svids, revoked, total, approvals, usedApr, req, ledger>>

\* persist: Store.PutToken of signed claims under a fresh id; the counters of
\* the id start at zero.
persist(t, c) ==
    /\ phase' = [phase EXCEPT ![t] = "persisted"]
    /\ claims' = [claims EXCEPT ![t] = c]
    /\ stored' = stored \cup {t}
    /\ perScope' = [perScope EXCEPT ![t] = [i \in DOMAIN c.scopes |-> 0]]
    /\ UNCHANGED <<now, workloads, svids, revoked, total, approvals, usedApr, req, ledger>>

\* MintRoot up to its only store call.
MintRoot(t, sv, h, scopes, callsAsked, depthAsked, ttlAsked) ==
    LET md == IF depthAsked <= 0 THEN CfgMaxDepth ELSE depthAsked
    IN  /\ phase[t] = "free"
        /\ verifySVID(sv)
        /\ scopes # <<>> /\ ValidScopes(scopes)
        /\ \A i \in DOMAIN scopes : Permit("mint", sv.sub, h, 0, scopes[i], now)
        /\ UnderDepthCap(sv.sub, h, scopes, md)
        /\ persist(t, [sub |-> sv.sub, human |-> h, parent |-> None, chain |-> {},
                       depth |-> 0, maxDepth |-> md,
                       maxCalls |-> MintCalls(callsAsked, scopes),
                       scopes |-> scopes, exp |-> ttl(ttlAsked, sv.exp)])

\* Delegate up to and including checkLive of the parent token p: the draft of
\* the child's claims.  exp holds the ceiling the child's expiry is cut to.
DelegateCheck(t, p, csv, scopes, depthAsked) ==
    LET parent == claims[p]
        depth  == parent.depth + 1
    IN  /\ phase[t] = "free" /\ phase[p] = "issued"
        /\ checkLive(p)
        /\ \E psv \in svids : verifySVID(psv) /\ psv.sub = parent.sub
        /\ verifySVID(csv)
        /\ depth <= parent.maxDepth
        /\ Permit("delegate", parent.sub, parent.human, depth, csv.sub, now)
        /\ ValidScopes(scopes)
        /\ ~Vacant(Attenuate(parent.scopes, scopes))
        /\ phase' = [phase EXCEPT ![t] = "checked"]
        /\ claims' = [claims EXCEPT ![t] =
               [sub |-> csv.sub, human |-> parent.human, parent |-> p,
                chain |-> Lineage(p), depth |-> depth,
                maxDepth |-> IF depthAsked > 0 THEN Least(depthAsked, parent.maxDepth)
                                               ELSE parent.maxDepth,
                maxCalls |-> 0,
                scopes |-> Attenuate(parent.scopes, scopes),
                exp |-> Least(parent.exp, csv.exp)]]
        /\ UNCHANGED <<now, workloads, svids, stored, revoked, total, perScope,
                       approvals, usedApr, req, ledger>>

\* Delegate refused for depth, the one refusal it records.
DelegateTooDeep(p) ==
    /\ phase[p] = "issued"
    /\ checkLive(p)
    /\ \E psv \in svids : verifySVID(psv) /\ psv.sub = claims[p].sub
    /\ claims[p].depth + 1 > claims[p].maxDepth
    /\ Record("too deep", p)
    /\ UNCHANGED <<now, workloads, svids, phase, claims, stored, revoked, total,
                   perScope, approvals, usedApr, req>>

\* Delegate reads the parent's usage and fixes the child's call budget, or
\* refuses because the parent has no calls left.
DelegateMeasure(t, callsAsked) ==
    LET c  == claims[t]
        mc == DelegateCalls(callsAsked, claims[c.parent].maxCalls - total[c.parent], c.scopes)
    IN  /\ phase[t] = "checked"
        /\ IF mc <= 0
           THEN /\ phase' = [phase EXCEPT ![t] = "free"]
                /\ claims' = [claims EXCEPT ![t] = NoClaims]
           ELSE /\ phase' = [phase EXCEPT ![t] = "measured"]
                /\ claims' = [claims EXCEPT ![t].maxCalls = mc]
        /\ UNCHANGED <<now, workloads, svids, stored, revoked, total, perScope,
                       approvals, usedApr, req, ledger>>

DelegatePersist(t, ttlAsked) ==
    /\ phase[t] = "measured"
    /\ persist(t, [claims[t] EXCEPT !.exp = ttl(ttlAsked, claims[t].exp)])

\* The end of MintRoot and Delegate: record the issuance, hand the token out.
Issue(t) ==
    /\ phase[t] = "persisted"
    /\ phase' = [phase EXCEPT ![t] = "issued"]
    /\ Record("issued", t)
    /\ UNCHANGED <<now, workloads, svids, claims, stored, revoked, total, perScope,
                   approvals, usedApr, req>>

\* Approve: an approval of one call on one stored token, for the configured
\* time or a shorter one.
Approve(a, t, call, ttlAsked) ==
    /\ approvals[a] = NoApproval
    /\ t \in stored
    /\ approvals' = [approvals EXCEPT ![a] =
           [tok |-> t, call |-> call,
            exp |-> now + (IF ttlAsked > 0 THEN Least(ttlAsked, ApprovalTTL)
                                           ELSE ApprovalTTL)]]
    /\ UNCHANGED <<now, workloads, svids, phase, claims, stored, revoked, total,
                   perScope, usedApr, req, ledger>>

Revoke(t) ==
    /\ t \in stored
    /\ revoked' = revoked \cup {t}
    /\ Record("revoked", t)
    /\ UNCHANGED <<now, workloads, svids, phase, claims, stored, total, perScope,
                   approvals, usedApr, req>>

-----------------------------------------------------------------------------
(* Authorize *)

\* The tokens whose Revoke has returned.
RevokedSoFar == {t \in TokenIds : Handed("revoked", t)}

Deny(r) ==
    /\ req' = [req EXCEPT ![r] = Ended("denied")]
    /\ Record("denied", r)

\* authorize, first store call: checkLive of the presented token.  knew is a
\* history field: what of the lineage had been revoked when the call arrived.
AuthorizeCheck(r, t) ==
    LET q == [req[r] EXCEPT !.pc = "live", !.tok = t, !.knew = RevokedSoFar \cap Lineage(t)]
    IN  /\ req[r].pc = "idle" /\ phase[t] = "issued"
        /\ IF checkLive(t)
           THEN req' = [req EXCEPT ![r] = q] /\ UNCHANGED ledger
           ELSE Deny(r)
        /\ UNCHANGED <<now, workloads, svids, phase, claims, stored, revoked, total,
                       perScope, approvals, usedApr>>

\* The approval presented is signed, unexpired and bound to this token and call.
ApprovalMatches(a, t, call) ==
    /\ a # None
    /\ approvals[a].tok = t /\ approvals[a].call = call
    /\ ~Expired(approvals[a].exp)

\* authorize between checkLive and Consume: binding, scope, policy and the
\* approval, which Store.UseApproval burns.
AuthorizeClear(r, sv, call, a) ==
    LET t   == req[r].tok
        c   == claims[t]
        idx == FirstMatch(c.scopes, call)
        q   == [req[r] EXCEPT !.pc = "cleared", !.call = call, !.scope = idx]
        admitted == /\ verifySVID(sv) /\ sv.sub = c.sub
                    /\ idx > 0
                    /\ Permit("call", c.sub, c.human, c.depth, call, now)
    IN  /\ req[r].pc = "live"
        /\ IF ~admitted
           THEN Deny(r) /\ UNCHANGED usedApr
           ELSE IF ~c.scopes[idx].approval
           THEN /\ req' = [req EXCEPT ![r] = q]
                /\ UNCHANGED <<usedApr, ledger>>
           ELSE IF ApprovalMatches(a, t, call) /\ a \notin usedApr
           THEN /\ req' = [req EXCEPT ![r] = [q EXCEPT !.apr = a]]
                /\ usedApr' = usedApr \cup {a}
                /\ UNCHANGED ledger
           ELSE Deny(r) /\ UNCHANGED usedApr
        /\ UNCHANGED <<now, workloads, svids, phase, claims, stored, revoked, total,
                       perScope, approvals>>

\* Mutant: the ancestors' budgets are not looked at.
CanConsumeSelf(t, idx) ==
    /\ Lineage(t) \subseteq stored
    /\ perScope[t][idx] < claims[t].scopes[idx].maxCalls
    /\ total[t] < claims[t].maxCalls

\* Mutant: one call too many through a scope.
CanConsumeOneMore(t, idx) ==
    /\ Lineage(t) \subseteq stored
    /\ perScope[t][idx] <= claims[t].scopes[idx].maxCalls
    /\ \A a \in Lineage(t) : total[a] < claims[a].maxCalls

\* Store.Consume would charge the scope and every token of the lineage.
CanConsume(t, idx) ==
    /\ Lineage(t) \subseteq stored
    /\ perScope[t][idx] < claims[t].scopes[idx].maxCalls
    /\ \A a \in Lineage(t) : total[a] < claims[a].maxCalls

\* authorize, last store call: Consume charges all the counters or none.
Consume(r) ==
    LET t   == req[r].tok
        idx == req[r].scope
    IN  /\ req[r].pc = "cleared"
        /\ IF CanConsume(t, idx)
           THEN /\ total' = [a \in TokenIds |->
                                IF a \in Lineage(t) THEN total[a] + 1 ELSE total[a]]
                /\ perScope' = [perScope EXCEPT ![t][idx] = @ + 1]
                /\ req' = [req EXCEPT ![r].pc = "charged"]
                /\ UNCHANGED ledger
           ELSE /\ Deny(r)
                /\ UNCHANGED <<total, perScope>>
        /\ UNCHANGED <<now, workloads, svids, phase, claims, stored, revoked,
                       approvals, usedApr>>

\* Authorize records the decision and answers the enforcement point.
Answer(r) ==
    /\ req[r].pc = "charged"
    /\ req' = [req EXCEPT ![r].pc = "allowed"]
    /\ Record("allowed", r)
    /\ UNCHANGED <<now, workloads, svids, phase, claims, stored, revoked, total,
                   perScope, approvals, usedApr>>

-----------------------------------------------------------------------------
(* Environment *)

Tick ==
    /\ now < MaxTime
    /\ now' = now + 1
    /\ UNCHANGED <<workloads, svids, phase, claims, stored, revoked, total, perScope,
                   approvals, usedApr, req, ledger>>

\* warrantd stops and starts again with the same signing key.  The handlers in
\* flight are gone; signed tokens, SVIDs and approvals stay with their
\* holders; the Memory store comes back empty, the Postgres store unchanged.
Restart ==
    /\ phase' = [t \in TokenIds |->
           CASE phase[t] = "persisted" -> "orphan"
             [] phase[t] \in {"checked", "measured"} -> "free"
             [] OTHER -> phase[t]]
    /\ claims' = [t \in TokenIds |->
           IF phase[t] \in {"checked", "measured"} THEN NoClaims ELSE claims[t]]
    /\ req' = [r \in Requests |->
           CASE req[r].pc \in {"live", "cleared"} -> Ended("lost")
             [] req[r].pc = "charged" -> [req[r] EXCEPT !.pc = "wasted"]
             [] OTHER -> req[r]]
    /\ IF Durable
       THEN UNCHANGED <<workloads, stored, revoked, total, perScope, usedApr>>
       ELSE /\ workloads' = {} /\ stored' = {} /\ revoked' = {} /\ usedApr' = {}
            /\ total' = [t \in TokenIds |-> 0]
            /\ perScope' = [t \in TokenIds |-> <<>>]
    /\ UNCHANGED <<now, svids, approvals, ledger>>

Issuance(t) ==
    \/ \E sv \in svids, h \in Humans, scopes \in ScopeLists,
          n \in CallsAsked, d \in DepthsAsked, e \in TTLsAsked :
             MintRoot(t, sv, h, scopes, n, d, e)
    \/ \E p \in TokenIds, csv \in svids, scopes \in ScopeLists, d \in DepthsAsked :
             DelegateCheck(t, p, csv, scopes, d)
    \/ \E n \in CallsAsked : DelegateMeasure(t, n)
    \/ \E e \in TTLsAsked : DelegatePersist(t, e)
    \/ Issue(t)

Authorize(r) ==
    \/ \E t \in TokenIds : AuthorizeCheck(r, t)
    \/ \E sv \in svids, call \in Calls, a \in ApprovalIds \cup {None} :
             AuthorizeClear(r, sv, call, a)
    \/ Consume(r)
    \/ Answer(r)

\* Everything but a restart, which stops all handlers.
Running ==
    \/ \E s \in Subjects : RegisterWorkload(s) \/ IssueSVID(s)
    \/ \E t \in TokenIds : Issuance(t) \/ DelegateTooDeep(t) \/ Revoke(t)
    \/ \E a \in ApprovalIds, t \in TokenIds, call \in Calls, e \in TTLsAsked :
          Approve(a, t, call, e)
    \/ \E r \in Requests : Authorize(r)
    \/ Tick

Next == Running \/ Restart

Spec == Init /\ [][Next]_vars

-----------------------------------------------------------------------------
(* Properties *)

\* Consume has charged the request; "wasted" ones were cut off by a restart
\* before they were answered.
Charged(r) == req[r].pc \in {"charged", "allowed", "wasted"}

\* The charged requests that count against t: made with t or a descendant.
Under(t) == {r \in Requests : Charged(r) /\ t \in Lineage(req[r].tok)}

\* A token and all its delegates together never make more calls than the
\* token's max_calls, whatever the interleaving of Delegate, Authorize and
\* Revoke and across restarts (Consume charges the whole lineage).
SharedBudget == \A t \in TokenIds : Cardinality(Under(t)) <= claims[t].maxCalls

\* The calls a token makes through one of its scopes stay within the scope's
\* own max_calls (Consume's per-scope counter, ScopeLimits).
ScopeBudget ==
    \A t \in TokenIds : \A i \in DOMAIN claims[t].scopes :
        Cardinality({r \in Requests : Charged(r) /\ req[r].tok = t /\ req[r].scope = i})
            <= claims[t].scopes[i].maxCalls

\* Revoke kills the whole subtree for good: a request that arrives after the
\* Revoke of a token has returned is never charged when that token is in its
\* lineage, not for a child delegated while Revoke ran and not after a Memory
\* store has lost the revoke list in a restart.
RevocationIsFinal ==
    \A r \in Requests : Charged(r) => Lineage(req[r].tok) \cap req[r].knew = {}

\* The authority d, of a delegate, is no wider than a, of one of its ancestors.
\* The scope that decides a call of the delegate is no looser than the scope
\* that would have decided the same call for the ancestor.
Narrower(d, a) ==
    /\ d.human = a.human
    /\ d.exp <= a.exp
    /\ a.depth < d.depth /\ d.depth <= a.maxDepth /\ d.maxDepth <= a.maxDepth
    /\ d.maxCalls <= a.maxCalls
    /\ \A call \in Calls :
          LET i == FirstMatch(d.scopes, call)
              j == FirstMatch(a.scopes, call)
          IN  i > 0 => /\ j > 0
                       /\ d.scopes[i].maxCalls <= a.scopes[j].maxCalls
                       /\ a.scopes[j].approval => d.scopes[i].approval

\* Delegation only narrows, over any number of generations: every token is
\* narrower than each token of its chain, and the chain holds its parent's
\* whole lineage (Attenuate, ttl, the depth checks and FirstMatch's order).
DelegationNarrows ==
    \A t \in TokenIds : \A a \in claims[t].chain :
        /\ Narrower(claims[t], claims[a])
        /\ claims[a].chain \subseteq claims[t].chain

\* A call that an ancestor could only have made with a human approval is never
\* charged to a delegate without one: the request carries an approval of this
\* very token and call, and no other charged request used it, across restarts.
ApprovalEnforced ==
    \A r \in Requests : Charged(r) =>
        \A a \in Lineage(req[r].tok) :
            LET j == FirstMatch(claims[a].scopes, req[r].call)
            IN  claims[a].scopes[j].approval =>
                  /\ req[r].apr # None
                  /\ approvals[req[r].apr].tok = req[r].tok
                  /\ approvals[req[r].apr].call = req[r].call
                  /\ \A q \in Requests \ {r} : Charged(q) => req[q].apr # req[r].apr

\* No allowed call is in the Ledger before the issuance of its token and of
\* every ancestor is, although MintRoot and Delegate record an issuance only
\* after the token is in the store.  What breaks the trail is an error that
\* Ledger.Record returned for that very issuance, which record only logs.
AuditTrail ==
    \A r \in Requests : InLedger("allowed", r) =>
        \A a \in Lineage(req[r].tok) : InLedger("issued", a) \/ NotInLedger("issued", a)

=============================================================================
