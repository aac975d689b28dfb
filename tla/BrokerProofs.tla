---------------------------- MODULE BrokerProofs ----------------------------
(***************************************************************************)
(* The broker and the reports of BlastRadius, for any number of tokens,    *)
(* requests, approvals and scopes.                                         *)
(*                                                                         *)
(* First the types and the shared call budget, action by action.  Then a   *)
(* section that says once what a step of the broker can do to a token, to  *)
(* a request, to the store and to the ledger: revocation, the audit trail, *)
(* the budgets per scope, narrowing and approvals are proved from these    *)
(* four summaries and not from the actions.  Last the reports: a report    *)
(* only reads, so the broker's invariants hold while it runs, and its own  *)
(* invariant compares what each of its calls has read with what the        *)
(* lineage has spent since.                                                *)
(***************************************************************************)
EXTENDS BlastRadius, ScopesProofs

-----------------------------------------------------------------------------
(* Type correctness *)

\* What the issuing calls compute from well-typed claims is well typed.
LEMMA BudgetsType ==
    ASSUME NEW scopes \in Seq(Scope), NEW asked \in Int, NEW remaining \in Int
    PROVE  /\ MintCalls(asked, scopes) \in Nat
           /\ DelegateCalls(asked, remaining, scopes) \in Int
BY sumCallsType DEF MintCalls, DelegateCalls, Least

\* The expiry of a new token is a time.
LEMMA ttlType ==
    ASSUME now \in Nat, NEW asked \in Int, NEW ceiling \in Nat
    PROVE  ttl(asked, ceiling) \in Nat
BY ConfigAssumption DEF ttl, Least

\* The claims of an id that was never drawn are well typed.
LEMMA NoClaimsType == NoClaims \in Claims
BY DEF NoClaims, Claims

\* persist keeps the types, given well-typed claims.
LEMMA persistType ==
    ASSUME TypeOK, NEW t \in TokenIds, NEW c \in Claims, persist(t, c)
    PROVE  TypeOK'
<1> USE DEF TypeOK, persist
<1>1. [i \in DOMAIN c.scopes |-> 0] \in Seq(Nat)
  BY DEF Claims
<1>2. perScope' \in [TokenIds -> Seq(Nat)]
  BY <1>1
<1>3. phase' \in [TokenIds -> Phases] /\ phase'[t] # "checked"
  BY DEF Phases
<1>4. \A x \in TokenIds : phase'[x] = "checked" => claims'[x].parent \in TokenIds
  BY <1>3
<1> QED BY <1>2, <1>3, <1>4

\* A record appended to the ledger is an event.
LEMMA RecordType ==
    ASSUME TypeOK, NEW type \in EventTypes,
           NEW id \in TokenIds \cup Requests, Record(type, id)
    PROVE  ledger' \subseteq Event
<1>1. PICK ok \in BOOLEAN :
         /\ ok \/ type \in LedgerFails
         /\ ledger' = ledger \cup {[type |-> type, id |-> id, ok |-> ok]}
  BY DEF Record
<1>2. [type |-> type, id |-> id, ok |-> ok] \in Event
  BY <1>1 DEF Event
<1> QED BY <1>1, <1>2 DEF TypeOK

ReqType ==
    /\ req \in [Requests -> Request]
    /\ \A r \in Requests : req[r].pc \notin {"idle", "denied", "lost"} => req[r].tok \in TokenIds

\* A request updated with a typed one whose token is known.
LEMMA ReqStep ==
    ASSUME TypeOK, NEW r \in Requests, NEW q \in Request, q.tok \in TokenIds,
           req' = [req EXCEPT ![r] = q]
    PROVE  ReqType'
BY DEF TypeOK, ReqType

\* A request that ended without a charge is a request.
LEMMA EndedType ==
    ASSUME NEW how \in {"denied", "lost"}
    PROVE  Ended(how) \in Request /\ Ended(how).pc = how
BY DEF Ended, NoRequest, Request

\* Deny keeps the types of the requests and of the ledger.
LEMMA DenyType ==
    ASSUME TypeOK, NEW r \in Requests, Deny(r)
    PROVE  (ReqType /\ ledger \subseteq Event)'
<1> DEFINE d == Ended("denied")
<1>1. d \in Request /\ d.pc = "denied"
  BY EndedType
<1>2. ReqType'
  <2>1. req' = [req EXCEPT ![r] = d]
    BY DEF Deny
  <2> HIDE DEF d
  <2> QED BY <1>1, <2>1 DEF TypeOK, ReqType
<1>3. ledger' \subseteq Event
  BY RecordType DEF Deny, EventTypes
<1> QED BY <1>2, <1>3

\* Every step of the broker keeps the types.
LEMMA TypeStep ==
    ASSUME TypeOK, [Next]_vars
    PROVE  TypeOK'
<1> USE DEF TypeOK
<1>1. ASSUME NEW s \in Subjects, RegisterWorkload(s) PROVE TypeOK'
  BY <1>1 DEF RegisterWorkload
<1>2. ASSUME NEW s \in Subjects, IssueSVID(s) PROVE TypeOK'
  BY <1>2, ConfigAssumption DEF IssueSVID, SVID
<1>3. ASSUME NEW t \in TokenIds, NEW sv \in svids, NEW h \in Humans, NEW scopes \in ScopeLists,
             NEW n \in CallsAsked, NEW d \in DepthsAsked, NEW e \in TTLsAsked,
             MintRoot(t, sv, h, scopes, n, d, e)
      PROVE  TypeOK'
  <2> DEFINE md == IF d <= 0 THEN CfgMaxDepth ELSE d
             c == [sub |-> sv.sub, human |-> h, parent |-> None, chain |-> {},
                   depth |-> 0, maxDepth |-> md, maxCalls |-> MintCalls(n, scopes),
                   scopes |-> scopes, exp |-> ttl(e, sv.exp)]
  <2>1. scopes \in Seq(Scope) /\ n \in Int /\ d \in Int /\ e \in Int
    BY InputsAssumption
  <2>2. sv.exp \in Nat /\ sv.sub \in Subjects
    BY DEF SVID
  <2>3. MintCalls(n, scopes) \in Nat /\ ttl(e, sv.exp) \in Nat
    BY <2>1, <2>2, BudgetsType, ttlType
  <2>4. md \in Nat
    BY <2>1, ConfigAssumption
  <2>5. c \in Claims
    BY <2>1, <2>2, <2>3, <2>4 DEF Claims
  <2>6. persist(t, c)
    BY <1>3 DEF MintRoot
  <2> QED BY <2>5, <2>6, persistType
<1>4. ASSUME NEW t \in TokenIds, NEW p \in TokenIds, NEW csv \in svids,
             NEW scopes \in ScopeLists, NEW d \in DepthsAsked,
             DelegateCheck(t, p, csv, scopes, d)
      PROVE  TypeOK'
  <2>1. claims[p] \in Claims /\ scopes \in Seq(Scope) /\ d \in Int /\ csv \in SVID
    BY InputsAssumption
  <2>2. Attenuate(claims[p].scopes, scopes) \in Seq(Scope)
    BY <2>1, AttenuateType DEF Claims
  <2> DEFINE c == [sub |-> csv.sub, human |-> claims[p].human, parent |-> p,
                   chain |-> Lineage(p), depth |-> claims[p].depth + 1,
                   maxDepth |-> IF d > 0 THEN Least(d, claims[p].maxDepth) ELSE claims[p].maxDepth,
                   maxCalls |-> 0, scopes |-> Attenuate(claims[p].scopes, scopes),
                   exp |-> Least(claims[p].exp, csv.exp)]
  <2>3. c.maxDepth \in Nat /\ c.exp \in Nat /\ c.chain \subseteq TokenIds
    BY <2>1 DEF Claims, Least, SVID, Lineage
  <2>4. c \in Claims
    <3>1. csv.sub \in Subjects
      BY <2>1 DEF SVID
    <3>2. claims[p].human \in Humans \cup {None} /\ claims[p].depth + 1 \in Nat
      BY <2>1 DEF Claims
    <3> QED BY ONLY <2>2, <2>3, <3>1, <3>2, p \in TokenIds DEF Claims
  <2>5. claims' = [claims EXCEPT ![t] = c]
    BY <1>4 DEF DelegateCheck
  <2>6. claims' \in [TokenIds -> Claims] /\ claims'[t].parent \in TokenIds
    <3> HIDE DEF c
    <3>1. c.parent = p
      BY DEF c
    <3> QED BY <2>4, <2>5, <3>1
  <2>7. phase' \in [TokenIds -> Phases]
    BY <1>4 DEF DelegateCheck, Phases
  <2>8. \A x \in TokenIds : phase'[x] = "checked" => claims'[x].parent \in TokenIds
    BY <1>4, <2>5, <2>6 DEF DelegateCheck
  <2> QED BY <1>4, <2>6, <2>7, <2>8 DEF DelegateCheck
<1>5. ASSUME NEW t \in TokenIds, NEW n \in CallsAsked, DelegateMeasure(t, n) PROVE TypeOK'
  <2> DEFINE c == claims[t]
             mc == DelegateCalls(n, claims[c.parent].maxCalls - total[c.parent], c.scopes)
  <2>1. c \in Claims
    OBVIOUS
  <2>2. c.parent \in TokenIds
    BY <1>5 DEF DelegateMeasure
  <2>3. mc \in Int
    <3>1. claims[c.parent].maxCalls - total[c.parent] \in Int
      BY <2>2 DEF Claims
    <3>2. c.scopes \in Seq(Scope) /\ n \in Int
      BY <2>1, InputsAssumption DEF Claims
    <3> QED BY <3>1, <3>2, BudgetsType
  <2>4. CASE mc <= 0
    <3>1. claims' \in [TokenIds -> Claims]
      BY <1>5, <2>4, NoClaimsType DEF DelegateMeasure
    <3>2. phase' \in [TokenIds -> Phases]
      BY <1>5, <2>4 DEF DelegateMeasure, Phases
    <3>3. \A x \in TokenIds : phase'[x] = "checked" => claims'[x].parent \in TokenIds
      BY <1>5, <2>4 DEF DelegateMeasure
    <3> QED BY <1>5, <3>1, <3>2, <3>3 DEF DelegateMeasure
  <2>5. CASE ~(mc <= 0)
    <3>1. [c EXCEPT !.maxCalls = mc] \in Claims
      <4>1. mc \in Nat
        <5> HIDE DEF mc
        <5> QED BY <2>3, <2>5
      <4> HIDE DEF mc, c
      <4> QED BY <2>1, <4>1 DEF Claims
    <3>2. claims' = [claims EXCEPT ![t] = [c EXCEPT !.maxCalls = mc]]
      BY <1>5, <2>5 DEF DelegateMeasure
    <3>3. claims' \in [TokenIds -> Claims]
      BY <3>1, <3>2
    <3>4. phase' = [phase EXCEPT ![t] = "measured"] /\ phase' \in [TokenIds -> Phases]
      BY <1>5, <2>5 DEF DelegateMeasure, Phases
    <3>5. \A x \in TokenIds : phase'[x] = "checked" => claims'[x].parent \in TokenIds
      BY <3>2, <3>4
    <3> QED BY <1>5, <3>3, <3>4, <3>5 DEF DelegateMeasure
  <2> QED BY <2>4, <2>5
<1>6. ASSUME NEW t \in TokenIds, NEW e \in TTLsAsked, DelegatePersist(t, e) PROVE TypeOK'
  <2>1. claims[t] \in Claims /\ claims[t].exp \in Nat /\ e \in Int
    BY InputsAssumption DEF Claims
  <2>2. ttl(e, claims[t].exp) \in Nat
    BY <2>1, ttlType
  <2>3. [claims[t] EXCEPT !.exp = ttl(e, claims[t].exp)] \in Claims
    BY <2>1, <2>2 DEF Claims
  <2> QED BY <1>6, <2>3, persistType DEF DelegatePersist
<1>7. ASSUME NEW t \in TokenIds, Issue(t) PROVE TypeOK'
  <2>1. ledger' \subseteq Event
    BY <1>7, RecordType DEF Issue, EventTypes
  <2>2. phase' \in [TokenIds -> Phases]
    BY <1>7 DEF Issue, Phases
  <2>3. \A x \in TokenIds : phase'[x] = "checked" => claims'[x].parent \in TokenIds
    BY <1>7 DEF Issue
  <2> QED BY <1>7, <2>1, <2>2, <2>3 DEF Issue
<1>8. ASSUME NEW p \in TokenIds, DelegateTooDeep(p) PROVE TypeOK'
  <2>1. ledger' \subseteq Event
    BY <1>8, RecordType DEF DelegateTooDeep, EventTypes
  <2> QED BY <1>8, <2>1 DEF DelegateTooDeep
<1>9. ASSUME NEW t \in TokenIds, Revoke(t) PROVE TypeOK'
  <2>1. ledger' \subseteq Event
    BY <1>9, RecordType DEF Revoke, EventTypes
  <2> QED BY <1>9, <2>1 DEF Revoke
<1>10. ASSUME NEW a \in ApprovalIds, NEW t \in TokenIds, NEW call \in Calls,
             NEW e \in TTLsAsked, Approve(a, t, call, e)
       PROVE  TypeOK'
  BY <1>10, ConfigAssumption, InputsAssumption DEF Approve, Approval, Least
<1>11. ASSUME NEW r \in Requests, NEW t \in TokenIds, AuthorizeCheck(r, t) PROVE TypeOK'
  <2> DEFINE q == [req[r] EXCEPT !.pc = "live", !.tok = t, !.knew = RevokedSoFar \cap Lineage(t)]
  <2>1. q \in Request /\ q.tok = t
    BY DEF Request, RevokedSoFar
  <2>2. (ReqType /\ ledger \subseteq Event)'
    <3>1. \/ req' = [req EXCEPT ![r] = q] /\ UNCHANGED ledger
          \/ Deny(r)
      BY <1>11 DEF AuthorizeCheck
    <3> HIDE DEF q
    <3> QED BY <2>1, <3>1, DenyType, ReqStep
  <2> QED BY <1>11, <2>2 DEF AuthorizeCheck, ReqType
<1>12. ASSUME NEW r \in Requests, NEW sv \in svids, NEW call \in Calls,
              NEW a \in ApprovalIds \cup {None}, AuthorizeClear(r, sv, call, a)
       PROVE  TypeOK'
  <2> DEFINE c == claims[req[r].tok]
             idx == FirstMatch(c.scopes, call)
             q == [req[r] EXCEPT !.pc = "cleared", !.call = call, !.scope = idx]
  <2>1. req[r].tok \in TokenIds
    BY <1>12 DEF AuthorizeClear
  <2>2. idx \in Nat
    <3>1. c.scopes \in Seq(Scope)
      BY <2>1 DEF Claims
    <3> QED BY <3>1, FirstMatchLeast
  <2>3. /\ q \in Request /\ q.tok = req[r].tok
        /\ [q EXCEPT !.apr = a] \in Request /\ [q EXCEPT !.apr = a].tok = req[r].tok
    <3> HIDE DEF idx
    <3> QED BY <2>2 DEF Request
  <2>4. \/ Deny(r) /\ UNCHANGED usedApr
        \/ req' = [req EXCEPT ![r] = q] /\ UNCHANGED <<usedApr, ledger>>
        \/ /\ req' = [req EXCEPT ![r] = [q EXCEPT !.apr = a]]
           /\ a # None /\ usedApr' = usedApr \cup {a} /\ UNCHANGED ledger
    BY <1>12 DEF AuthorizeClear, ApprovalMatches
  <2>5. (ReqType /\ ledger \subseteq Event)' /\ usedApr' \subseteq ApprovalIds
    <3> HIDE DEF q
    <3> QED BY <2>1, <2>3, <2>4, DenyType, ReqStep
  <2> QED BY <1>12, <2>5 DEF AuthorizeClear, ReqType
<1>13. ASSUME NEW r \in Requests, Consume(r) PROVE TypeOK'
  <2> DEFINE t == req[r].tok
             idx == req[r].scope
             q == [req[r] EXCEPT !.pc = "charged"]
  <2>1. req[r] \in Request /\ q \in Request /\ q.tok = t /\ t \in TokenIds
    BY <1>13 DEF Request, Consume
  <2>2. CASE CanConsume(t, idx)
    <3>1. total' \in [TokenIds -> Nat]
      <4>1. total' = [a \in TokenIds |-> IF a \in Lineage(t) THEN total[a] + 1 ELSE total[a]]
        BY <1>13, <2>2 DEF Consume
      <4>2. \A a \in TokenIds : total[a] \in Nat /\ total[a] + 1 \in Nat
        OBVIOUS
      <4> QED BY <4>1, <4>2
    <3>2. perScope' \in [TokenIds -> Seq(Nat)]
      <4> DEFINE s == perScope[t]
                 u == [s EXCEPT ![idx] = s[idx] + 1]
      <4>1. s \in Seq(Nat)
        BY <2>1
      <4>2. u \in Seq(Nat)
        <5>1. CASE idx \in DOMAIN s
          <6>1. s[idx] + 1 \in Nat
            BY <4>1, <5>1
          <6> QED BY <4>1, <5>1, <6>1
        <5>2. CASE idx \notin DOMAIN s
          <6>1. u = s
            BY <4>1, <5>2
          <6> QED BY <4>1, <6>1
        <5> QED BY <5>1, <5>2
      <4>3. perScope' = [perScope EXCEPT ![t] = u]
        BY <1>13, <2>2 DEF Consume
      <4> QED BY <2>1, <4>2, <4>3
    <3>3. req' = [req EXCEPT ![r] = q] /\ UNCHANGED ledger
      BY <1>13, <2>2 DEF Consume
    <3>4. ReqType'
      <4> HIDE DEF q
      <4> QED BY <2>1, <3>3, ReqStep
    <3> QED BY <1>13, <3>1, <3>2, <3>3, <3>4 DEF Consume, ReqType
  <2>3. CASE ~CanConsume(t, idx)
    <3>1. Deny(r) /\ UNCHANGED <<total, perScope>>
      BY <1>13, <2>3 DEF Consume
    <3>2. (ReqType /\ ledger \subseteq Event)'
      BY <2>1, <3>1, DenyType
    <3> QED BY <1>13, <3>1, <3>2 DEF Consume, ReqType
  <2> QED BY <2>2, <2>3
<1>14. ASSUME NEW r \in Requests, Answer(r) PROVE TypeOK'
  <2> DEFINE q == [req[r] EXCEPT !.pc = "allowed"]
  <2>1. ledger' \subseteq Event
    BY <1>14, RecordType DEF Answer, EventTypes
  <2>2. q \in Request /\ q.tok = req[r].tok /\ req[r].tok \in TokenIds
    BY <1>14 DEF Request, Answer
  <2>3. req' = [req EXCEPT ![r] = q]
    BY <1>14 DEF Answer
  <2>4. ReqType'
    <3> HIDE DEF q
    <3> QED BY <2>2, <2>3, ReqStep
  <2> QED BY <1>14, <2>1, <2>4 DEF Answer, ReqType
<1>15. ASSUME Tick PROVE TypeOK'
  BY <1>15 DEF Tick
<1>16. ASSUME Restart PROVE TypeOK'
  <2>1. phase' \in [TokenIds -> Phases] /\ \A t \in TokenIds : phase'[t] # "checked"
    BY <1>16 DEF Restart, Phases
  <2>2. claims' \in [TokenIds -> Claims]
    BY <1>16, NoClaimsType DEF Restart
  <2>3. ReqType'
    <3> DEFINE q(r) == CASE req[r].pc \in {"live", "cleared"} -> Ended("lost")
                         [] req[r].pc = "charged" -> [req[r] EXCEPT !.pc = "wasted"]
                         [] OTHER -> req[r]
    <3>1. req' = [r \in Requests |-> q(r)]
      BY <1>16 DEF Restart
    <3>2. ASSUME NEW r \in Requests
          PROVE  /\ q(r) \in Request
                 /\ q(r).pc \notin {"idle", "denied", "lost"} => q(r).tok \in TokenIds
      <4>1. /\ req[r] \in Request
            /\ req[r].pc \notin {"idle", "denied", "lost"} => req[r].tok \in TokenIds
        OBVIOUS
      <4>2. Ended("lost") \in Request /\ Ended("lost").pc = "lost"
        BY EndedType
      <4> QED BY ONLY <4>1, <4>2 DEF Request
    <3> HIDE DEF q
    <3> QED BY <3>1, <3>2 DEF ReqType
  <2>4. CASE Durable
    BY <1>16, <2>1, <2>2, <2>3, <2>4 DEF Restart, ReqType
  <2>5. CASE ~Durable
    <3>0. total' = [t \in TokenIds |-> 0] /\ perScope' = [t \in TokenIds |-> <<>>]
      BY <1>16, <2>5 DEF Restart
    <3>1. total' \in [TokenIds -> Nat] /\ perScope' \in [TokenIds -> Seq(Nat)]
      BY <3>0
    <3> QED BY <1>16, <2>1, <2>2, <2>3, <2>5, <3>1 DEF Restart, ReqType
  <2> QED BY <2>4, <2>5
<1>17. CASE UNCHANGED vars
  BY <1>17 DEF vars
<1> QED
  BY <1>1, <1>2, <1>3, <1>4, <1>5, <1>6, <1>7, <1>8, <1>9, <1>10, <1>11, <1>12, <1>13,
     <1>14, <1>15, <1>16, <1>17 DEF Next, Running, Issuance, Authorize

\* The state of the broker is always well typed: for every set of tokens,
\* requests and scope lists and every configuration.
THEOREM TypeCorrect == Spec => []TypeOK
<1>1. Init => TypeOK
  BY NoClaimsType, ConfigAssumption
     DEF Init, TypeOK, Phases, NoApproval, Approval, NoRequest, Request
<1>2. TypeOK /\ [Next]_vars => TypeOK'
  BY TypeStep
<1> QED BY <1>1, <1>2, PTL DEF Spec

-----------------------------------------------------------------------------
(* The shared budget                                                       *)
(*                                                                         *)
(* SharedBudget is not inductive: Consume compares counters of the store,  *)
(* and the property speaks of calls.  Accounts ties the two together.  The *)
(* counter of a stored token is exact; an unstored one counts from zero,   *)
(* and the calls of a token lost by a Memory store can no longer grow      *)
(* because Consume needs the records of the whole lineage.                 *)

\* Tokens that have been written to the store at some time.
Ever == {t \in TokenIds : phase[t] \in {"persisted", "issued", "orphan"}}

Accounts ==
    /\ stored \subseteq Ever
    /\ \A t \in TokenIds : phase[t] # "free" => claims[t].chain \subseteq Ever
    /\ \A r \in Requests : req[r].pc \notin {"idle", "denied", "lost"} => phase[req[r].tok] = "issued"
    /\ \A t \in stored : total[t] = Cardinality(Under(t))
    /\ \A t \in TokenIds \ stored : total[t] = 0
    /\ SharedBudget

\* The requests that count against a token are finitely many.
LEMMA UnderFinite ==
    ASSUME NEW t
    PROVE  IsFiniteSet(Under(t)) /\ Cardinality(Under(t)) \in Nat
<1>1. IsFiniteSet(Under(t))
  BY IdsAssumption, FS_Subset DEF Under
<1> QED BY <1>1, FS_CardinalityType

\* No request counts against a token that was never stored.
LEMMA FreshUnder ==
    ASSUME TypeOK, Accounts, NEW t \in TokenIds \ Ever
    PROVE  Under(t) = {}
<1> SUFFICES ASSUME NEW r \in Under(t) PROVE FALSE
  OBVIOUS
<1>1. r \in Requests /\ req[r].pc \notin {"idle", "denied", "lost"} /\ t \in claims[req[r].tok].chain \cup {req[r].tok}
  BY DEF Under, Charged, Lineage
<1>2. req[r].tok \in Ever /\ claims[req[r].tok].chain \subseteq Ever
  BY <1>1 DEF TypeOK, Accounts, Ever
<1> QED BY <1>1, <1>2

\* A step that charges no request keeps the accounts, if it leaves the claims
\* of stored tokens alone and the counters change only by being lost or by
\* starting at zero.
LEMMA UnchargedStep ==
    ASSUME TypeOK, TypeOK', Accounts,
           \A t \in Ever :
               /\ t \in Ever' /\ claims'[t] = claims[t]
               /\ phase[t] = "issued" => phase'[t] = "issued",
           \A t \in TokenIds \ Ever : phase'[t] # "free" => claims'[t].chain \subseteq Ever,
           \A r \in Requests :
               /\ Charged(r)' <=> Charged(r)
               /\ Charged(r) => req'[r].tok = req[r].tok
               /\ req'[r].pc \notin {"idle", "denied", "lost"} => phase[req'[r].tok] = "issued",
           \A t \in stored' :
               \/ t \in stored /\ total'[t] = total[t]
               \/ t \in Ever' \ Ever /\ total'[t] = 0,
           \A t \in TokenIds \ stored' : total'[t] = 0
    PROVE  Accounts'
<1>1. Ever \subseteq Ever'
  BY DEF Ever
<1>2. \A t \in TokenIds : Under(t)' = Under(t)
  <2> SUFFICES ASSUME NEW t \in TokenIds, NEW r \in Requests, Charged(r)
               PROVE  (t \in Lineage(req[r].tok))' <=> t \in Lineage(req[r].tok)
    BY DEF Under
  <2>1. req[r].pc \notin {"idle", "denied", "lost"} /\ req'[r].tok = req[r].tok
    BY DEF Charged
  <2>2. req[r].tok \in Ever
    BY <2>1 DEF TypeOK, Accounts, Ever
  <2> QED BY <2>1, <2>2 DEF Lineage
<1>3. (stored \subseteq Ever)'
  BY <1>1 DEF Accounts
<1>4. (\A t \in TokenIds : phase[t] # "free" => claims[t].chain \subseteq Ever)'
  BY <1>1 DEF Accounts, Ever
<1>5. (\A r \in Requests : req[r].pc \notin {"idle", "denied", "lost"} => phase[req[r].tok] = "issued")'
  BY DEF Accounts, TypeOK, Ever
<1>6. (\A t \in stored : total[t] = Cardinality(Under(t)))'
  <2> SUFFICES ASSUME NEW t \in stored' PROVE total'[t] = Cardinality(Under(t)')
    OBVIOUS
  <2>1. CASE t \in stored /\ total'[t] = total[t]
    BY <1>2, <2>1 DEF TypeOK, Accounts
  <2>2. CASE t \in Ever' \ Ever /\ total'[t] = 0
    <3>1. t \in TokenIds \ Ever
      BY <2>2 DEF Ever
    <3> QED BY <1>2, <2>2, <3>1, FreshUnder, FS_EmptySet
  <2> QED BY <2>1, <2>2
<1>7. SharedBudget'
  <2> SUFFICES ASSUME NEW t \in TokenIds
               PROVE  Cardinality(Under(t)) <= claims'[t].maxCalls
    BY <1>2 DEF SharedBudget
  <2>1. CASE t \in Ever
    BY <2>1 DEF Accounts, SharedBudget
  <2>2. CASE t \notin Ever
    <3>1. Cardinality(Under(t)) = 0
      BY <2>2, FreshUnder, FS_EmptySet
    <3>2. claims'[t].maxCalls \in Nat
      BY DEF TypeOK, Claims
    <3> QED BY <3>1, <3>2
  <2> QED BY <2>1, <2>2
<1> QED BY <1>3, <1>4, <1>5, <1>6, <1>7 DEF Accounts

\* Consume keeps the accounts: it charges one request to every token of its
\* lineage, each of which is stored and below its limit.
LEMMA ChargeStep ==
    ASSUME TypeOK, TypeOK', Accounts, NEW r \in Requests, Consume(r),
           CanConsume(req[r].tok, req[r].scope)
    PROVE  Accounts'
<1> DEFINE t == req[r].tok
           L == Lineage(t)
<1>1. /\ req[r].pc = "cleared" /\ req' = [req EXCEPT ![r].pc = "charged"]
      /\ UNCHANGED <<phase, claims, stored>>
      /\ total' = [a \in TokenIds |-> IF a \in L THEN total[a] + 1 ELSE total[a]]
  BY DEF Consume
<1>2. L \subseteq stored /\ \A a \in L : total[a] < claims[a].maxCalls
  BY DEF CanConsume
<1>3. /\ req'[r].pc = "charged" /\ req'[r].tok = t
      /\ \A q \in Requests \ {r} : req'[q] = req[q]
  BY <1>1 DEF TypeOK, Request
<1>4. ASSUME NEW a \in TokenIds
      PROVE  /\ a \in L => Under(a)' = Under(a) \cup {r} /\ r \notin Under(a)
             /\ a \notin L => Under(a)' = Under(a)
  <2>1. ~Charged(r) /\ Charged(r)' /\ \A q \in Requests \ {r} : Charged(q)' <=> Charged(q)
    BY <1>1, <1>3 DEF Charged
  <2>2. \A x : (a \in Lineage(x))' <=> a \in Lineage(x)
    BY <1>1 DEF Lineage
  <2>3. \A q \in Requests : (a \in Lineage(req[q].tok))' <=> a \in Lineage(req[q].tok)
    BY <1>1, <1>3, <2>2 DEF Lineage
  <2> QED BY <2>1, <2>3 DEF Under
<1>5. ASSUME NEW a \in TokenIds
      PROVE  Cardinality(Under(a)') = IF a \in L THEN Cardinality(Under(a)) + 1
                                                 ELSE Cardinality(Under(a))
  BY <1>4, UnderFinite, FS_AddElement
<1>6. Ever' = Ever
  BY <1>1 DEF Ever
<1>7. \A a \in stored : total'[a] = Cardinality(Under(a)')
  BY <1>1, <1>5 DEF Accounts, TypeOK
<1>8. \A a \in TokenIds \ stored : total'[a] = 0
  BY <1>1, <1>2 DEF Accounts
<1>9. SharedBudget'
  <2> SUFFICES ASSUME NEW a \in TokenIds PROVE Cardinality(Under(a)') <= claims[a].maxCalls
    BY <1>1 DEF SharedBudget
  <2>1. CASE a \in L
    <3>1. total[a] = Cardinality(Under(a)) /\ total[a] < claims[a].maxCalls
      BY <1>2, <2>1 DEF Accounts
    <3>2. total[a] \in Nat /\ claims[a].maxCalls \in Nat
      BY DEF TypeOK, Claims
    <3> QED BY <1>5, <2>1, <3>1, <3>2
  <2>2. CASE a \notin L
    BY <1>5, <2>2 DEF Accounts, SharedBudget
  <2> QED BY <2>1, <2>2
<1>10. \A q \in Requests : req'[q].pc \notin {"idle", "denied", "lost"} => phase'[req'[q].tok] = "issued"
  BY <1>1, <1>3 DEF Accounts
<1> QED BY <1>1, <1>6, <1>7, <1>8, <1>9, <1>10 DEF Accounts

\* Storing well-typed claims under a fresh id keeps the accounts.
LEMMA persistAccounts ==
    ASSUME TypeOK, TypeOK', Accounts, NEW t \in TokenIds \ Ever, NEW c \in Claims,
           c.chain \subseteq Ever, persist(t, c)
    PROVE  Accounts'
<1>1. /\ phase' = [phase EXCEPT ![t] = "persisted"]
      /\ claims' = [claims EXCEPT ![t] = c]
      /\ stored' = stored \cup {t}
      /\ UNCHANGED <<total, req>>
  BY DEF persist
<1>2. t \notin stored /\ t \in Ever'
  BY <1>1 DEF Accounts, Ever, TypeOK
<1>3. \A x \in Ever : /\ x \in Ever' /\ claims'[x] = claims[x]
                      /\ phase[x] = "issued" => phase'[x] = "issued"
  BY <1>1 DEF Ever, TypeOK
<1>4. \A x \in TokenIds \ Ever : phase'[x] # "free" => claims'[x].chain \subseteq Ever
  BY <1>1 DEF TypeOK, Accounts
<1>5. \A r \in Requests : /\ Charged(r)' <=> Charged(r)
                          /\ Charged(r) => req'[r].tok = req[r].tok
                          /\ req'[r].pc \notin {"idle", "denied", "lost"} => phase[req'[r].tok] = "issued"
  BY <1>1 DEF Charged, Accounts
<1>6. \A x \in stored' : \/ x \in stored /\ total'[x] = total[x]
                         \/ x \in Ever' \ Ever /\ total'[x] = 0
  BY <1>1, <1>2 DEF Accounts
<1>7. \A x \in TokenIds \ stored' : total'[x] = 0
  BY <1>1 DEF Accounts
<1> QED BY <1>3, <1>4, <1>5, <1>6, <1>7, UnchargedStep

\* A step that touches only requests, and charges none, keeps the accounts.
LEMMA RequestStep ==
    ASSUME TypeOK, TypeOK', Accounts, UNCHANGED <<phase, claims, stored, total>>,
           NEW r \in Requests, NEW q \in Request, req' = [req EXCEPT ![r] = q],
           q.pc \in {"charged", "allowed", "wasted"} <=> Charged(r),
           q.pc \notin {"idle", "denied", "lost"} => phase[q.tok] = "issued",
           Charged(r) => q.tok = req[r].tok
    PROVE  Accounts'
<1>1. \A x \in Requests : /\ Charged(x)' <=> Charged(x)
                          /\ Charged(x) => req'[x].tok = req[x].tok
                          /\ req'[x].pc \notin {"idle", "denied", "lost"} => phase[req'[x].tok] = "issued"
  BY DEF Charged, Accounts, TypeOK
<1>2. Ever' = Ever
  BY DEF Ever
<1> QED BY <1>1, <1>2, UnchargedStep DEF Accounts

\* Deny charges no request.
LEMMA DenyAccounts ==
    ASSUME TypeOK, TypeOK', Accounts, UNCHANGED <<phase, claims, stored, total>>,
           NEW r \in Requests, Deny(r), ~Charged(r)
    PROVE  Accounts'
<1> DEFINE d == Ended("denied")
<1>1. d \in Request /\ d.pc = "denied"
  BY EndedType
<1>2. req' = [req EXCEPT ![r] = d]
  BY DEF Deny
<1> HIDE DEF d
<1> QED BY <1>1, <1>2, RequestStep

\* Every step of the broker keeps the accounts.
LEMMA AccountsStep ==
    ASSUME TypeOK, TypeOK', Accounts, [Next]_vars
    PROVE  Accounts'
<1>1. ASSUME UNCHANGED <<phase, claims, stored, total, req>> PROVE Accounts'
  BY <1>1 DEF Accounts, Ever, SharedBudget, Under, Charged, Lineage
<1>2. ASSUME NEW s \in Subjects, RegisterWorkload(s) \/ IssueSVID(s) PROVE Accounts'
  BY <1>1, <1>2 DEF RegisterWorkload, IssueSVID
<1>3. ASSUME NEW t \in TokenIds, NEW sv \in svids, NEW h \in Humans, NEW scopes \in ScopeLists,
             NEW n \in CallsAsked, NEW d \in DepthsAsked, NEW e \in TTLsAsked,
             MintRoot(t, sv, h, scopes, n, d, e)
      PROVE  Accounts'
  <2> DEFINE c == [sub |-> sv.sub, human |-> h, parent |-> None, chain |-> {},
                   depth |-> 0, maxDepth |-> IF d <= 0 THEN CfgMaxDepth ELSE d,
                   maxCalls |-> MintCalls(n, scopes),
                   scopes |-> scopes, exp |-> ttl(e, sv.exp)]
  <2>1. persist(t, c) /\ c.chain = {}
    BY <1>3 DEF MintRoot
  <2> HIDE DEF c
  <2>2. c \in Claims
    <3>1. claims'[t] = c /\ claims' \in [TokenIds -> Claims]
      BY <2>1 DEF persist, TypeOK
    <3> QED BY <3>1
  <2>3. t \notin Ever
    BY <1>3 DEF MintRoot, Ever
  <2> QED BY <2>1, <2>2, <2>3, persistAccounts
<1>4. ASSUME NEW t \in TokenIds, NEW p \in TokenIds, NEW csv \in svids,
             NEW scopes \in ScopeLists, NEW d \in DepthsAsked,
             DelegateCheck(t, p, csv, scopes, d)
      PROVE  Accounts'
  <2> DEFINE c == claims'[t]
  <2>1. claims' = [claims EXCEPT ![t] = c] /\ c.chain = Lineage(p)
    BY <1>4 DEF DelegateCheck, TypeOK
  <2> HIDE DEF c
  <2>2. /\ phase[t] = "free" /\ phase[p] = "issued"
        /\ phase' = [phase EXCEPT ![t] = "checked"]
        /\ UNCHANGED <<stored, total, req>>
    BY <1>4 DEF DelegateCheck
  <2>3. c.chain \subseteq Ever /\ t \notin Ever /\ Ever' = Ever
    BY <2>1, <2>2 DEF Lineage, Ever, Accounts, TypeOK
  <2>4. \A x \in Ever : /\ x \in Ever' /\ claims'[x] = claims[x]
                        /\ phase[x] = "issued" => phase'[x] = "issued"
    BY <2>1, <2>2, <2>3 DEF TypeOK, Ever
  <2>5. \A x \in TokenIds \ Ever : phase'[x] # "free" => claims'[x].chain \subseteq Ever
    BY <2>1, <2>2, <2>3 DEF TypeOK, Accounts
  <2> QED BY <2>2, <2>4, <2>5, UnchargedStep DEF Accounts, Charged
<1>5. ASSUME NEW t \in TokenIds, NEW n \in CallsAsked, DelegateMeasure(t, n) PROVE Accounts'
  <2>1. /\ phase[t] = "checked" /\ UNCHANGED <<stored, total, req>>
        /\ \/ /\ phase' = [phase EXCEPT ![t] = "free"]
              /\ claims' = [claims EXCEPT ![t] = NoClaims]
           \/ /\ phase' = [phase EXCEPT ![t] = "measured"]
              /\ \E mc : claims' = [claims EXCEPT ![t].maxCalls = mc]
    BY <1>5 DEF DelegateMeasure
  <2>2. t \notin Ever /\ Ever' = Ever
    BY <2>1 DEF Ever, TypeOK
  <2>3. \A x \in Ever : /\ x \in Ever' /\ claims'[x] = claims[x]
                        /\ phase[x] = "issued" => phase'[x] = "issued"
    BY <2>1, <2>2 DEF TypeOK, Ever
  <2>5. claims[t] \in Claims /\ phase'[t] # "free" => claims'[t].chain = claims[t].chain
    BY <2>1 DEF TypeOK, Claims
  <2>4. \A x \in TokenIds \ Ever : phase'[x] # "free" => claims'[x].chain \subseteq Ever
    <3> TAKE x \in TokenIds \ Ever
    <3>1. CASE x = t
      BY <2>1, <2>5, <3>1 DEF TypeOK, Accounts
    <3>2. CASE x # t
      <4>1. phase'[x] = phase[x] /\ claims'[x] = claims[x]
        BY <2>1, <3>2 DEF TypeOK
      <4> QED BY <4>1 DEF Accounts
    <3> QED BY <3>1, <3>2
  <2> QED BY <2>1, <2>3, <2>4, UnchargedStep DEF Accounts, Charged
<1>6. ASSUME NEW t \in TokenIds, NEW e \in TTLsAsked, DelegatePersist(t, e) PROVE Accounts'
  <2> DEFINE c == [claims[t] EXCEPT !.exp = ttl(e, claims[t].exp)]
  <2>1. persist(t, c) /\ phase[t] = "measured"
    BY <1>6 DEF DelegatePersist
  <2>2. c \in Claims
    <3>1. claims'[t] = c /\ claims' \in [TokenIds -> Claims]
      BY <2>1 DEF persist, TypeOK
    <3> QED BY <3>1
  <2>3. t \notin Ever /\ c.chain \subseteq Ever
    <3>1. t \notin Ever /\ claims[t].chain \subseteq Ever
      BY <2>1 DEF Ever, Accounts
    <3>2. claims[t] \in Claims
      BY DEF TypeOK
    <3>3. c.chain = claims[t].chain
      BY <3>2 DEF Claims
    <3> QED BY <3>1, <3>3
  <2> HIDE DEF c
  <2> QED BY <2>1, <2>2, <2>3, persistAccounts
<1>7. ASSUME NEW t \in TokenIds, Issue(t) PROVE Accounts'
  <2>1. /\ phase[t] = "persisted" /\ phase' = [phase EXCEPT ![t] = "issued"]
        /\ UNCHANGED <<claims, stored, total, req>>
    BY <1>7 DEF Issue
  <2>2. Ever' = Ever
    BY <2>1 DEF Ever, TypeOK
  <2>3. \A x \in Ever : phase[x] = "issued" => phase'[x] = "issued"
    BY <2>1 DEF TypeOK, Ever
  <2>4. \A x \in TokenIds \ Ever : phase'[x] # "free" => claims'[x].chain \subseteq Ever
    BY <2>1 DEF TypeOK, Accounts, Ever
  <2> QED BY <2>1, <2>2, <2>3, <2>4, UnchargedStep DEF Accounts, Charged
<1>8. ASSUME NEW t \in TokenIds, DelegateTooDeep(t) \/ Revoke(t) PROVE Accounts'
  BY <1>1, <1>8 DEF DelegateTooDeep, Revoke
<1>9. ASSUME NEW a \in ApprovalIds, NEW t \in TokenIds, NEW call \in Calls,
             NEW e \in TTLsAsked, Approve(a, t, call, e)
      PROVE  Accounts'
  BY <1>1, <1>9 DEF Approve
<1>10. ASSUME NEW r \in Requests, NEW t \in TokenIds, AuthorizeCheck(r, t) PROVE Accounts'
  <2> DEFINE q == [req[r] EXCEPT !.pc = "live", !.tok = t, !.knew = RevokedSoFar \cap Lineage(t)]
  <2>1. q \in Request /\ q.tok = t /\ q.pc = "live"
    <3>1. req[r] \in Request
      BY DEF TypeOK
    <3>2. RevokedSoFar \cap Lineage(t) \in SUBSET TokenIds
      BY DEF RevokedSoFar
    <3> QED BY ONLY <3>1, <3>2, t \in TokenIds DEF Request
  <2>2. /\ ~Charged(r) /\ phase[t] = "issued" /\ UNCHANGED <<phase, claims, stored, total>>
        /\ req' = [req EXCEPT ![r] = q] \/ Deny(r)
    BY <1>10 DEF AuthorizeCheck, Charged
  <2> HIDE DEF q
  <2> QED BY <2>1, <2>2, RequestStep, DenyAccounts
<1>11. ASSUME NEW r \in Requests, NEW sv \in svids, NEW call \in Calls,
              NEW a \in ApprovalIds \cup {None}, AuthorizeClear(r, sv, call, a)
       PROVE  Accounts'
  <2> DEFINE idx == FirstMatch(claims[req[r].tok].scopes, call)
             q == [req[r] EXCEPT !.pc = "cleared", !.call = call, !.scope = idx]
             qa == [q EXCEPT !.apr = a]
  <2>1. /\ req[r].tok \in TokenIds /\ phase[req[r].tok] = "issued" /\ ~Charged(r)
        /\ UNCHANGED <<phase, claims, stored, total>>
    BY <1>11 DEF AuthorizeClear, TypeOK, Accounts, Charged
  <2>2. idx \in Nat
    <3>1. claims[req[r].tok].scopes \in Seq(Scope)
      BY <2>1 DEF TypeOK, Claims
    <3> QED BY <3>1, FirstMatchLeast
  <2>3. /\ q \in Request /\ q.tok = req[r].tok /\ q.pc = "cleared"
        /\ qa \in Request /\ qa.tok = req[r].tok /\ qa.pc = "cleared"
    <3> HIDE DEF idx
    <3>1. req[r] \in Request
      BY DEF TypeOK
    <3>2. q \in Request /\ q.tok = req[r].tok /\ q.pc = "cleared"
      BY ONLY <2>2, <3>1, call \in Calls DEF Request
    <3> HIDE DEF q
    <3>3. qa \in Request /\ qa.tok = q.tok /\ qa.pc = q.pc
      BY ONLY <3>2, a \in ApprovalIds \cup {None} DEF Request
    <3> QED BY <3>2, <3>3
  <2>4. \/ Deny(r)
        \/ req' = [req EXCEPT ![r] = q]
        \/ req' = [req EXCEPT ![r] = qa]
    BY <1>11 DEF AuthorizeClear
  <2> HIDE DEF q, qa
  <2> QED BY <2>1, <2>3, <2>4, RequestStep, DenyAccounts
<1>12. ASSUME NEW r \in Requests, Consume(r) PROVE Accounts'
  <2>1. CASE CanConsume(req[r].tok, req[r].scope)
    BY <1>12, <2>1, ChargeStep
  <2>2. CASE ~CanConsume(req[r].tok, req[r].scope)
    <3>1. Deny(r) /\ ~Charged(r) /\ UNCHANGED <<phase, claims, stored, total>>
      BY <1>12, <2>2 DEF Consume, Charged
    <3> QED BY <3>1, DenyAccounts
  <2> QED BY <2>1, <2>2
<1>13. ASSUME NEW r \in Requests, Answer(r) PROVE Accounts'
  <2> DEFINE q == [req[r] EXCEPT !.pc = "allowed"]
  <2>1. q \in Request /\ q.tok = req[r].tok /\ q.pc = "allowed"
    <3>1. req[r] \in Request
      BY DEF TypeOK
    <3> QED BY ONLY <3>1 DEF Request
  <2>2. /\ req' = [req EXCEPT ![r] = q] /\ Charged(r) /\ phase[req[r].tok] = "issued"
        /\ UNCHANGED <<phase, claims, stored, total>>
    BY <1>13 DEF Answer, Charged, Accounts
  <2> HIDE DEF q
  <2> QED BY <2>1, <2>2, RequestStep
<1>14. ASSUME Tick PROVE Accounts'
  BY <1>1, <1>14 DEF Tick
<1>15. ASSUME Restart PROVE Accounts'
  <2>1. /\ \A x \in Ever : /\ x \in Ever' /\ claims'[x] = claims[x]
                           /\ phase[x] = "issued" => phase'[x] = "issued"
        /\ \A x \in TokenIds \ Ever : phase'[x] = "free"
    BY <1>15 DEF Restart, Ever, TypeOK, Phases
  <2>2. ASSUME NEW r \in Requests
        PROVE  /\ Charged(r)' <=> Charged(r)
               /\ Charged(r) => req'[r].tok = req[r].tok
               /\ req'[r].pc \notin {"idle", "denied", "lost"} => phase[req'[r].tok] = "issued"
    <3>1. /\ req[r] \in Request
          /\ req[r].pc \notin {"idle", "denied", "lost"} => phase[req[r].tok] = "issued"
      BY DEF TypeOK, Accounts
    <3>2. Ended("lost").pc = "lost"
      BY EndedType
    <3>3. req'[r] = CASE req[r].pc \in {"live", "cleared"} -> Ended("lost")
                      [] req[r].pc = "charged" -> [req[r] EXCEPT !.pc = "wasted"]
                      [] OTHER -> req[r]
      BY <1>15 DEF Restart
    <3> QED BY <3>1, <3>2, <3>3 DEF Request, Charged
  <2>3. /\ \A x \in stored' : x \in stored /\ total'[x] = total[x]
        /\ \A x \in TokenIds \ stored' : total'[x] = 0
    BY <1>15 DEF Restart, Accounts
  <2> QED BY <2>1, <2>2, <2>3, UnchargedStep DEF Accounts
<1>16. CASE UNCHANGED vars
  BY <1>1, <1>16 DEF vars
<1> QED
  BY <1>2, <1>3, <1>4, <1>5, <1>6, <1>7, <1>8, <1>9, <1>10, <1>11, <1>12, <1>13, <1>14,
     <1>15, <1>16 DEF Next, Running, Issuance, Authorize

\* The accounts hold in every state of the broker.
THEOREM AccountsKept == Spec => []Accounts
<1>1. Init => Accounts
  <2> SUFFICES ASSUME Init PROVE Accounts
    OBVIOUS
  <2>1. \A t \in TokenIds : Under(t) = {}
    BY DEF Init, Under, Charged, NoRequest
  <2>2. SharedBudget
    <3> SUFFICES ASSUME NEW t \in TokenIds PROVE Cardinality(Under(t)) <= claims[t].maxCalls
      BY DEF SharedBudget
    <3>1. Cardinality(Under(t)) = 0
      BY <2>1, FS_EmptySet
    <3>2. claims[t].maxCalls = 0
      BY DEF Init, NoClaims
    <3> QED BY <3>1, <3>2
  <2> QED BY <2>2 DEF Init, Accounts, NoRequest
<1>2. TypeOK /\ TypeOK' /\ Accounts /\ [Next]_vars => Accounts'
  BY AccountsStep
<1> QED BY <1>1, <1>2, TypeCorrect, PTL DEF Spec

\* A token and its delegates never make more calls than the token's
\* max_calls: for any number of tokens, generations and concurrent requests,
\* over both stores and across any number of restarts.
THEOREM BudgetShared == Spec => []SharedBudget
<1>1. Accounts => SharedBudget
  BY DEF Accounts
<1> QED BY <1>1, AccountsKept, PTL

-----------------------------------------------------------------------------
(* What a step may do *)

\* A token keeps its claims, or moves along the phases of MintRoot, Delegate
\* and a restart.
TokenMoves(t) ==
    \/ phase'[t] = phase[t] /\ claims'[t] = claims[t]
    \/ phase[t] \in {"checked", "measured"} /\ phase'[t] = "free" /\ claims'[t] = NoClaims
    \/ /\ phase[t] = "free" /\ phase'[t] = "persisted"
       /\ claims'[t].parent = None /\ claims'[t].chain = {}
       /\ ValidScopes(claims'[t].scopes)
    \/ /\ phase[t] = "free" /\ phase'[t] = "checked"
       /\ \E p \in TokenIds, csv \in svids, scopes \in ScopeLists, d \in DepthsAsked :
             DelegateCheck(t, p, csv, scopes, d)
    \/ /\ phase[t] = "checked" /\ phase'[t] = "measured"
       /\ \E mc \in Nat :
             /\ claims'[t] = [claims[t] EXCEPT !.maxCalls = mc]
             /\ mc <= claims[claims[t].parent].maxCalls
    \/ /\ phase[t] = "measured" /\ phase'[t] = "persisted"
       /\ \E e \in TTLsAsked :
             claims'[t] = [claims[t] EXCEPT !.exp = ttl(e, claims[t].exp)]
    \/ /\ phase[t] = "persisted" /\ claims'[t] = claims[t]
       /\ \/ phase'[t] = "orphan"
          \/ phase'[t] = "issued" /\ Handed("issued", t)'

\* The request passes the scope and the approval of its token.
Clears(r) ==
    /\ req[r].pc = "live" /\ req'[r].pc = "cleared"
    /\ req'[r].tok = req[r].tok /\ req'[r].knew = req[r].knew
    /\ req'[r].call \in Calls /\ req'[r].scope > 0
    /\ req'[r].scope = FirstMatch(claims[req[r].tok].scopes, req'[r].call)
    /\ IF claims[req[r].tok].scopes[req'[r].scope].approval
       THEN /\ ApprovalMatches(req'[r].apr, req[r].tok, req'[r].call)
            /\ req'[r].apr \notin usedApr /\ req'[r].apr \in usedApr'
       ELSE req'[r].apr = req[r].apr
    /\ \A q \in Requests \ {r} : req'[q] = req[q]

\* Consume charges the request.
Charges(r) ==
    /\ req[r].pc = "cleared" /\ req' = [req EXCEPT ![r].pc = "charged"]
    /\ CanConsume(req[r].tok, req[r].scope)
    /\ perScope' = [perScope EXCEPT ![req[r].tok][req[r].scope] = @ + 1]
    /\ UNCHANGED <<phase, claims, stored, approvals, usedApr>>

\* A request keeps its state, arrives, is cleared, charged, refused or cut
\* off, or is answered.
RequestMoves(r) ==
    \/ req'[r] = req[r]
    \/ /\ req[r].pc = "idle" /\ req'[r].pc = "live"
       /\ phase[req'[r].tok] = "issued" /\ checkLive(req'[r].tok)
       /\ req'[r].knew \subseteq RevokedSoFar /\ req'[r].apr = req[r].apr
    \/ Clears(r)
    \/ Charges(r)
    \/ req[r].pc \in {"idle", "live", "cleared"} /\ req'[r].pc \in {"denied", "lost"}
    \/ /\ req[r].pc = "charged" /\ req'[r].pc \in {"allowed", "wasted"}
       /\ req'[r].tok = req[r].tok /\ req'[r].call = req[r].call
       /\ req'[r].scope = req[r].scope /\ req'[r].apr = req[r].apr
       /\ req'[r].knew = req[r].knew

\* The store gains only ids it never held, with counters at zero, and forgets
\* revocations and used approvals only together with every record; a signed
\* approval is never changed.
StoreMoves ==
    /\ \A t \in stored' : \/ t \in stored
                          \/ /\ t \in Ever' \ Ever
                             /\ perScope'[t] = [i \in DOMAIN claims'[t].scopes |-> 0]
    /\ \/ \E r \in Requests : Charges(r)
       \/ \A t \in stored \cap stored' : perScope'[t] = perScope[t]
    /\ stored' = {} \/ (revoked \subseteq revoked' /\ usedApr \subseteq usedApr')
    /\ \A a \in ApprovalIds : approvals[a] # NoApproval => approvals'[a] = approvals[a]

\* The ledger only grows; a revocation is recorded of a stored token that is
\* now on the revoke list, and an allowed call of a request just answered.
LedgerMoves ==
    /\ ledger \subseteq ledger'
    /\ \A t \in TokenIds : Handed("revoked", t)' =>
          Handed("revoked", t) \/ (t \in stored /\ t \in revoked')
    /\ \A r \in Requests : InLedger("allowed", r)' =>
          InLedger("allowed", r) \/ req'[r].pc = "allowed"

\* Every step moves every token along the phases of its issuance.
LEMMA TokenStep ==
    ASSUME TypeOK, [Next]_vars, NEW x \in TokenIds
    PROVE  TokenMoves(x)
<1>1. ASSUME UNCHANGED <<phase, claims>> PROVE TokenMoves(x)
  BY <1>1 DEF TokenMoves
<1>2. ASSUME NEW t \in TokenIds, NEW sv \in svids, NEW h \in Humans, NEW scopes \in ScopeLists,
             NEW n \in CallsAsked, NEW d \in DepthsAsked, NEW e \in TTLsAsked,
             MintRoot(t, sv, h, scopes, n, d, e)
      PROVE  TokenMoves(x)
  <2> DEFINE c == claims'[t]
  <2>1. /\ phase[t] = "free" /\ phase' = [phase EXCEPT ![t] = "persisted"]
        /\ claims' = [claims EXCEPT ![t] = c]
        /\ c.parent = None /\ c.chain = {} /\ c.scopes = scopes /\ ValidScopes(scopes)
    BY <1>2 DEF MintRoot, persist, TypeOK
  <2> HIDE DEF c
  <2> QED BY <2>1 DEF TokenMoves, TypeOK
<1>3. ASSUME NEW t \in TokenIds, NEW p \in TokenIds, NEW csv \in svids,
             NEW scopes \in ScopeLists, NEW d \in DepthsAsked,
             DelegateCheck(t, p, csv, scopes, d)
      PROVE  TokenMoves(x)
  <2> DEFINE c == claims'[t]
  <2>1. /\ phase[t] = "free" /\ phase' = [phase EXCEPT ![t] = "checked"]
        /\ claims' = [claims EXCEPT ![t] = c]
    BY <1>3 DEF DelegateCheck, TypeOK
  <2> HIDE DEF c
  <2>2. CASE x = t
    BY <1>3, <2>1, <2>2 DEF TokenMoves, TypeOK
  <2>3. CASE x # t
    BY <2>1, <2>3 DEF TokenMoves, TypeOK
  <2> QED BY <2>2, <2>3
<1>4. ASSUME NEW t \in TokenIds, NEW n \in CallsAsked, DelegateMeasure(t, n) PROVE TokenMoves(x)
  <2> DEFINE c == claims[t]
             left == claims[c.parent].maxCalls - total[c.parent]
             mc == DelegateCalls(n, left, c.scopes)
  <2>1. phase[t] = "checked" /\ c \in Claims /\ c.parent \in TokenIds
    BY <1>4 DEF DelegateMeasure, TypeOK
  <2>2. left \in Int /\ left <= claims[c.parent].maxCalls
    BY <2>1 DEF TypeOK, Claims
  <2>3. mc \in Int /\ mc <= left
    <3>1. c.scopes \in Seq(Scope) /\ n \in Int
      BY <2>1, InputsAssumption DEF Claims
    <3>2. sumCalls(c.scopes) \in Nat
      BY <3>1, sumCallsType
    <3> HIDE DEF c, left
    <3> QED BY <2>2, <3>1, <3>2 DEF DelegateCalls, Least
  <2>4. claims[c.parent].maxCalls \in Nat
    BY <2>1 DEF TypeOK, Claims
  <2>5. CASE mc <= 0
    BY <1>4, <2>1, <2>5 DEF DelegateMeasure, TokenMoves, TypeOK
  <2>6. CASE ~(mc <= 0)
    <3>1. /\ phase' = [phase EXCEPT ![t] = "measured"]
          /\ claims' = [claims EXCEPT ![t] = [c EXCEPT !.maxCalls = mc]]
      BY <1>4, <2>6 DEF DelegateMeasure
    <3> HIDE DEF left, mc
    <3>2. mc \in Nat /\ mc <= claims[c.parent].maxCalls
      BY <2>2, <2>3, <2>4, <2>6
    <3> QED BY <2>1, <3>1, <3>2 DEF TokenMoves, TypeOK
  <2> QED BY <2>5, <2>6
<1>5. ASSUME NEW t \in TokenIds, NEW e \in TTLsAsked, DelegatePersist(t, e) PROVE TokenMoves(x)
  BY <1>5 DEF DelegatePersist, persist, TokenMoves, TypeOK
<1>6. ASSUME NEW t \in TokenIds, Issue(t) PROVE TokenMoves(x)
  BY <1>6 DEF Issue, Record, Handed, InLedger, NotInLedger, TokenMoves, TypeOK
<1>7. ASSUME Restart PROVE TokenMoves(x)
  BY <1>7 DEF Restart, TokenMoves, TypeOK, Phases
<1>8. ASSUME NEW s \in Subjects, RegisterWorkload(s) \/ IssueSVID(s) PROVE TokenMoves(x)
  BY <1>1, <1>8 DEF RegisterWorkload, IssueSVID
<1>9. ASSUME NEW t \in TokenIds, DelegateTooDeep(t) \/ Revoke(t) PROVE TokenMoves(x)
  BY <1>1, <1>9 DEF DelegateTooDeep, Revoke
<1>10. ASSUME NEW a \in ApprovalIds, NEW t \in TokenIds, NEW call \in Calls,
              NEW e \in TTLsAsked, Approve(a, t, call, e)
       PROVE  TokenMoves(x)
  BY <1>1, <1>10 DEF Approve
<1>11. ASSUME NEW r \in Requests, Authorize(r) PROVE TokenMoves(x)
  BY <1>1, <1>11 DEF Authorize, AuthorizeCheck, AuthorizeClear, Consume, Answer
<1>12. CASE Tick \/ UNCHANGED vars
  BY <1>1, <1>12 DEF Tick, vars
<1> QED
  BY <1>2, <1>3, <1>4, <1>5, <1>6, <1>7, <1>8, <1>9, <1>10, <1>11, <1>12
     DEF Next, Running, Issuance

\* Every step moves every request along authorize, or leaves it alone.
LEMMA RequestsStep ==
    ASSUME TypeOK, [Next]_vars, NEW x \in Requests
    PROVE  RequestMoves(x)
<1>1. ASSUME UNCHANGED req PROVE RequestMoves(x)
  BY <1>1 DEF RequestMoves
<1>2. ASSUME NEW s \in Subjects, RegisterWorkload(s) \/ IssueSVID(s) PROVE RequestMoves(x)
  BY <1>1, <1>2 DEF RegisterWorkload, IssueSVID
<1>3. ASSUME NEW t \in TokenIds, Issuance(t) \/ DelegateTooDeep(t) \/ Revoke(t)
      PROVE  RequestMoves(x)
  <2>1. CASE Issuance(t)
    <3>1. UNCHANGED req
      BY <2>1 DEF Issuance, MintRoot, DelegateCheck, DelegateMeasure, DelegatePersist,
                  persist, Issue
    <3> QED BY <1>1, <3>1
  <2>2. CASE DelegateTooDeep(t) \/ Revoke(t)
    BY <1>1, <2>2 DEF DelegateTooDeep, Revoke
  <2> QED BY <1>3, <2>1, <2>2
<1>4. ASSUME NEW a \in ApprovalIds, NEW t \in TokenIds, NEW call \in Calls,
             NEW e \in TTLsAsked, Approve(a, t, call, e)
      PROVE  RequestMoves(x)
  BY <1>1, <1>4 DEF Approve
<1>5. ASSUME NEW r \in Requests, NEW t \in TokenIds, AuthorizeCheck(r, t)
      PROVE  RequestMoves(x)
  <2> DEFINE q == [req[r] EXCEPT !.pc = "live", !.tok = t, !.knew = RevokedSoFar \cap Lineage(t)]
             d == Ended("denied")
  <2>1. req[r] \in Request /\ d.pc = "denied"
    BY EndedType DEF TypeOK
  <2>2. /\ q.pc = "live" /\ q.tok = t /\ q.knew \subseteq RevokedSoFar
        /\ q.apr = req[r].apr
    BY <2>1 DEF Request
  <2>3. /\ req[r].pc = "idle" /\ phase[t] = "issued"
        /\ \/ checkLive(t) /\ req' = [req EXCEPT ![r] = q]
           \/ req' = [req EXCEPT ![r] = d]
    BY <1>5 DEF AuthorizeCheck, Deny
  <2> HIDE DEF q, d
  <2> QED BY <2>1, <2>2, <2>3 DEF RequestMoves, TypeOK
<1>6. ASSUME NEW r \in Requests, NEW sv \in svids, NEW call \in Calls,
             NEW a \in ApprovalIds \cup {None}, AuthorizeClear(r, sv, call, a)
      PROVE  RequestMoves(x)
  <2> DEFINE t == req[r].tok
             idx == FirstMatch(claims[t].scopes, call)
             q == [req[r] EXCEPT !.pc = "cleared", !.call = call, !.scope = idx]
             qa == [q EXCEPT !.apr = a]
             d == Ended("denied")
  <2>1. req[r] \in Request /\ d.pc = "denied"
    BY EndedType DEF TypeOK
  <2>2. /\ q.pc = "cleared" /\ q.tok = t /\ q.knew = req[r].knew /\ q.apr = req[r].apr
        /\ q.call = call /\ q.scope = idx
        /\ qa.pc = "cleared" /\ qa.tok = t /\ qa.knew = req[r].knew /\ qa.apr = a
        /\ qa.call = call /\ qa.scope = idx
    <3> HIDE DEF idx
    <3> QED BY ONLY <2>1 DEF Request
  <2>3. /\ req[r].pc = "live"
        /\ \/ req' = [req EXCEPT ![r] = d]
           \/ /\ idx > 0 /\ ~claims[t].scopes[idx].approval
              /\ req' = [req EXCEPT ![r] = q]
           \/ /\ idx > 0 /\ claims[t].scopes[idx].approval
              /\ ApprovalMatches(a, t, call) /\ a \notin usedApr /\ a \in usedApr'
              /\ req' = [req EXCEPT ![r] = qa]
    BY <1>6 DEF AuthorizeClear, Deny
  <2>4. r \in DOMAIN req /\ x \in DOMAIN req
    BY DEF TypeOK
  <2> HIDE DEF idx, q, qa, d
  <2>5. CASE x # r
    BY <2>3, <2>4, <2>5 DEF RequestMoves
  <2>6. CASE x = r
    <3>1. CASE req' = [req EXCEPT ![r] = d]
      BY <2>1, <2>3, <2>4, <2>6, <3>1 DEF RequestMoves
    <3>2. CASE /\ idx > 0 /\ ~claims[t].scopes[idx].approval
               /\ req' = [req EXCEPT ![r] = q]
      <4>1. req'[r] = q /\ \A y \in Requests \ {r} : req'[y] = req[y]
        BY <2>4, <3>2 DEF TypeOK
      <4> QED BY <2>2, <2>3, <2>6, <3>2, <4>1 DEF RequestMoves, Clears, idx
    <3>3. CASE /\ idx > 0 /\ claims[t].scopes[idx].approval
               /\ ApprovalMatches(a, t, call) /\ a \notin usedApr /\ a \in usedApr'
               /\ req' = [req EXCEPT ![r] = qa]
      <4>1. req'[r] = qa /\ \A y \in Requests \ {r} : req'[y] = req[y]
        BY <2>4, <3>3 DEF TypeOK
      <4> QED BY <2>2, <2>3, <2>6, <3>3, <4>1 DEF RequestMoves, Clears, idx
    <3> QED BY <2>3, <3>1, <3>2, <3>3
  <2> QED BY <2>5, <2>6
<1>7. ASSUME NEW r \in Requests, Consume(r) PROVE RequestMoves(x)
  <2>1. CASE CanConsume(req[r].tok, req[r].scope)
    <3>1. Charges(r)
      BY <1>7, <2>1 DEF Consume, Charges
    <3>2. x # r => req'[x] = req[x]
      BY <3>1 DEF Charges, TypeOK
    <3> QED BY <3>1, <3>2 DEF RequestMoves
  <2>2. CASE ~CanConsume(req[r].tok, req[r].scope)
    <3>1. req' = [req EXCEPT ![r] = Ended("denied")] /\ req[r].pc = "cleared"
      BY <1>7, <2>2 DEF Consume, Deny
    <3>2. Ended("denied").pc = "denied"
      BY EndedType
    <3> QED BY <3>1, <3>2 DEF RequestMoves, TypeOK
  <2> QED BY <2>1, <2>2
<1>8. ASSUME NEW r \in Requests, Answer(r) PROVE RequestMoves(x)
  BY <1>8 DEF Answer, RequestMoves, TypeOK, Request
<1>9. ASSUME Restart PROVE RequestMoves(x)
  <2>1. req[x] \in Request
    BY DEF TypeOK
  <2>2. /\ Ended("lost").pc = "lost"
        /\ req'[x] = CASE req[x].pc \in {"live", "cleared"} -> Ended("lost")
                       [] req[x].pc = "charged" -> [req[x] EXCEPT !.pc = "wasted"]
                       [] OTHER -> req[x]
    BY <1>9, EndedType DEF Restart
  <2>3. CASE req[x].pc \in {"live", "cleared"}
    BY <2>1, <2>2, <2>3 DEF RequestMoves, Request
  <2>4. CASE req[x].pc = "charged"
    BY <2>1, <2>2, <2>4 DEF RequestMoves, Request
  <2>5. CASE req[x].pc \notin {"live", "cleared", "charged"}
    <3>1. req'[x] = req[x]
      BY <2>1, <2>2, <2>5 DEF Request
    <3> QED BY <3>1 DEF RequestMoves
  <2> QED BY <2>3, <2>4, <2>5
<1>10. CASE Tick \/ UNCHANGED vars
  BY <1>1, <1>10 DEF Tick, vars
<1> QED
  BY <1>2, <1>3, <1>4, <1>5, <1>6, <1>7, <1>8, <1>9, <1>10 DEF Next, Running, Authorize

\* Every step keeps to what StoreMoves says of the store.
LEMMA StoreStep ==
    ASSUME TypeOK, Accounts, [Next]_vars
    PROVE  StoreMoves
<1>1. ASSUME stored' = stored, perScope' = perScope, usedApr \subseteq usedApr',
             revoked \subseteq revoked', UNCHANGED approvals
      PROVE  StoreMoves
  BY <1>1 DEF StoreMoves
<1>2. ASSUME NEW s \in Subjects, RegisterWorkload(s) \/ IssueSVID(s) PROVE StoreMoves
  BY <1>1, <1>2 DEF RegisterWorkload, IssueSVID
<1>3. ASSUME NEW t \in TokenIds, NEW c, persist(t, c), phase[t] \in {"free", "measured"}
      PROVE  StoreMoves
  <2>1. t \notin Ever /\ t \in Ever' /\ claims'[t] = c
    BY <1>3 DEF Ever, persist, TypeOK
  <2>2. t \notin stored
    BY <2>1 DEF Accounts
  <2>3. perScope'[t] = [i \in DOMAIN claims'[t].scopes |-> 0]
    BY <1>3, <2>1 DEF persist, TypeOK
  <2>4. \A x \in stored : perScope'[x] = perScope[x]
    BY <1>3, <2>2 DEF persist, TypeOK
  <2> QED BY <1>3, <2>1, <2>3, <2>4 DEF persist, StoreMoves
<1>4. ASSUME NEW t \in TokenIds, Issuance(t) PROVE StoreMoves
  <2>1. CASE \E sv \in svids, h \in Humans, scopes \in ScopeLists,
             n \in CallsAsked, d \in DepthsAsked, e \in TTLsAsked :
                MintRoot(t, sv, h, scopes, n, d, e)
    <3>1. phase[t] = "free" /\ \E c : persist(t, c)
      BY <2>1 DEF MintRoot
    <3> QED BY <1>3, <3>1
  <2>2. CASE \E e \in TTLsAsked : DelegatePersist(t, e)
    BY <1>3, <2>2 DEF DelegatePersist
  <2>3. CASE \/ \E p \in TokenIds, csv \in svids, scopes \in ScopeLists, d \in DepthsAsked :
                   DelegateCheck(t, p, csv, scopes, d)
             \/ \E n \in CallsAsked : DelegateMeasure(t, n)
             \/ Issue(t)
    BY <1>1, <2>3 DEF DelegateCheck, DelegateMeasure, Issue
  <2> QED BY <1>4, <2>1, <2>2, <2>3 DEF Issuance
<1>5. ASSUME NEW t \in TokenIds, DelegateTooDeep(t) \/ Revoke(t) PROVE StoreMoves
  BY <1>1, <1>5 DEF DelegateTooDeep, Revoke
<1>6. ASSUME NEW a \in ApprovalIds, NEW t \in TokenIds, NEW call \in Calls,
             NEW e \in TTLsAsked, Approve(a, t, call, e)
      PROVE  StoreMoves
  BY <1>6 DEF Approve, StoreMoves, TypeOK
<1>7. ASSUME NEW r \in Requests, Consume(r) PROVE StoreMoves
  <2>1. CASE CanConsume(req[r].tok, req[r].scope)
    <3>1. Charges(r)
      BY <1>7, <2>1 DEF Consume, Charges
    <3> QED BY <1>7, <3>1 DEF Consume, StoreMoves
  <2>2. CASE ~CanConsume(req[r].tok, req[r].scope)
    BY <1>1, <1>7, <2>2 DEF Consume
  <2> QED BY <2>1, <2>2
<1>8. ASSUME NEW r \in Requests, Authorize(r) PROVE StoreMoves
  <2>1. CASE \E t \in TokenIds : AuthorizeCheck(r, t)
    BY <1>1, <2>1 DEF AuthorizeCheck
  <2>2. ASSUME NEW sv \in svids, NEW call \in Calls, NEW a \in ApprovalIds \cup {None},
               AuthorizeClear(r, sv, call, a)
        PROVE  StoreMoves
    BY <1>1, <2>2 DEF AuthorizeClear
  <2>3. CASE Answer(r)
    BY <1>1, <2>3 DEF Answer
  <2> QED BY <1>7, <1>8, <2>1, <2>2, <2>3 DEF Authorize
<1>9. ASSUME Restart PROVE StoreMoves
  BY <1>9 DEF Restart, StoreMoves
<1>10. CASE Tick \/ UNCHANGED vars
  BY <1>1, <1>10 DEF Tick, vars
<1> QED BY <1>2, <1>4, <1>5, <1>6, <1>8, <1>9, <1>10 DEF Next, Running

\* Every step keeps to what LedgerMoves says of the ledger.
LEMMA LedgerStep ==
    ASSUME TypeOK, [Next]_vars
    PROVE  LedgerMoves
<1> USE DEF Handed, InLedger, NotInLedger
<1>1. ASSUME UNCHANGED ledger PROVE LedgerMoves
  BY <1>1 DEF LedgerMoves
<1>2. ASSUME NEW type \in {"issued", "too deep", "denied"}, NEW id, Record(type, id)
      PROVE  LedgerMoves
  BY <1>2 DEF Record, LedgerMoves
<1>3. ASSUME NEW s \in Subjects, RegisterWorkload(s) \/ IssueSVID(s) PROVE LedgerMoves
  BY <1>1, <1>3 DEF RegisterWorkload, IssueSVID
<1>4. ASSUME NEW t \in TokenIds, Issuance(t) PROVE LedgerMoves
  <2>1. UNCHANGED ledger \/ Record("issued", t)
    BY <1>4 DEF Issuance, MintRoot, DelegateCheck, DelegateMeasure, DelegatePersist,
                persist, Issue
  <2> QED BY <1>1, <1>2, <2>1
<1>5. ASSUME NEW t \in TokenIds, DelegateTooDeep(t) PROVE LedgerMoves
  BY <1>2, <1>5 DEF DelegateTooDeep
<1>6. ASSUME NEW t \in TokenIds, Revoke(t) PROVE LedgerMoves
  BY <1>6 DEF Revoke, Record, LedgerMoves
<1>7. ASSUME NEW a \in ApprovalIds, NEW t \in TokenIds, NEW call \in Calls,
             NEW e \in TTLsAsked, Approve(a, t, call, e)
      PROVE  LedgerMoves
  BY <1>1, <1>7 DEF Approve
<1>8. ASSUME NEW r \in Requests, Answer(r) PROVE LedgerMoves
  <2>1. req'[r].pc = "allowed" /\ Record("allowed", r)
    BY <1>8 DEF Answer, TypeOK, Request
  <2> QED BY <2>1 DEF Record, LedgerMoves
<1>9. ASSUME NEW r \in Requests, Authorize(r), ~Answer(r) PROVE LedgerMoves
  <2>1. UNCHANGED ledger \/ Record("denied", r)
    BY <1>9 DEF Authorize, AuthorizeCheck, AuthorizeClear, Consume, Deny
  <2> QED BY <1>1, <1>2, <2>1
<1>10. CASE Restart \/ Tick \/ UNCHANGED vars
  BY <1>1, <1>10 DEF Restart, Tick, vars
<1> QED BY <1>3, <1>4, <1>5, <1>6, <1>7, <1>8, <1>9, <1>10 DEF Next, Running

\* A token that was ever stored keeps its claims, and an issued one stays so.
LEMMA Settled ==
    ASSUME TypeOK, [Next]_vars, NEW t \in Ever
    PROVE  /\ t \in Ever' /\ claims'[t] = claims[t]
           /\ Lineage(t)' = Lineage(t)
           /\ phase[t] = "issued" => phase'[t] = "issued"
<1>1. t \in TokenIds /\ phase[t] \in {"persisted", "issued", "orphan"}
  BY DEF Ever
<1>2. /\ claims'[t] = claims[t] /\ phase'[t] \in {"persisted", "issued", "orphan"}
      /\ phase[t] = "issued" => phase'[t] = "issued"
  BY <1>1, TokenStep DEF TokenMoves
<1> QED BY <1>1, <1>2 DEF Ever, Lineage

\* The token of a request that has arrived, and its lineage, were ever stored.
LEMMA RequestSettled ==
    ASSUME TypeOK, Accounts, NEW r \in Requests, req[r].pc \notin {"idle", "denied", "lost"}
    PROVE  req[r].tok \in Ever /\ Lineage(req[r].tok) \subseteq Ever
BY DEF TypeOK, Accounts, Ever, Lineage

\* Charging changes nothing of a request but its progress, and no other one.
LEMMA ChargesFields ==
    ASSUME TypeOK, NEW r \in Requests, Charges(r)
    PROVE  /\ req'[r].pc = "charged"
           /\ req'[r].tok = req[r].tok /\ req'[r].call = req[r].call
           /\ req'[r].scope = req[r].scope /\ req'[r].apr = req[r].apr
           /\ req'[r].knew = req[r].knew
           /\ \A q \in Requests \ {r} : req'[q] = req[q]
BY DEF Charges, TypeOK, Request

\* A request is charged by Consume only, and keeps what it was charged with.
LEMMA ChargedOnce ==
    ASSUME TypeOK, [Next]_vars, NEW r \in Requests, Charged(r)'
    PROVE  /\ Charged(r) \/ Charges(r)
           /\ req[r].pc \notin {"idle", "denied", "lost"}
           /\ req'[r].tok = req[r].tok /\ req'[r].call = req[r].call
           /\ req'[r].scope = req[r].scope /\ req'[r].apr = req[r].apr
           /\ req'[r].knew = req[r].knew
<1>1. RequestMoves(r)
  BY RequestsStep
<1>2. CASE Charges(r)
  BY <1>2, ChargesFields DEF Charges
<1>3. CASE ~Charges(r)
  BY <1>1, <1>3 DEF RequestMoves, Clears, Charged
<1> QED BY <1>2, <1>3

\* A charged request stays charged.
LEMMA StaysCharged ==
    ASSUME TypeOK, [Next]_vars, NEW r \in Requests, Charged(r)
    PROVE  Charged(r)'
<1>1. RequestMoves(r) /\ ~Charges(r)
  BY RequestsStep DEF Charges, Charged
<1> QED BY <1>1 DEF RequestMoves, Clears, Charged

-----------------------------------------------------------------------------
(* Revocation                                                              *)
(*                                                                         *)
(* RevocationIsFinal is about requests already charged.  Before that a     *)
(* request that got past checkLive although it knew of a revoked token in  *)
(* its lineage can only have done so because the Memory store lost the     *)
(* revoke list; the token's record is then lost too, for good, and Consume *)
(* refuses a lineage that is not wholly stored.                            *)

Revocations ==
    /\ \A t \in RevokedSoFar : t \in Ever /\ (t \in revoked \/ t \notin stored)
    /\ \A r \in Requests : req[r].pc \in {"live", "cleared"} =>
          Lineage(req[r].tok) \cap req[r].knew \subseteq Ever \ stored
    /\ RevocationIsFinal

\* Every step keeps Revocations.
LEMMA RevocationsStep ==
    ASSUME TypeOK, TypeOK', Accounts, Revocations, [Next]_vars
    PROVE  Revocations'
<1>1. /\ LedgerMoves /\ StoreMoves
      /\ \A r \in Requests : RequestMoves(r)
      /\ \A t \in Ever : t \in Ever' /\ Lineage(t)' = Lineage(t)
  BY LedgerStep, StoreStep, RequestsStep, Settled
<1>2. stored \subseteq Ever /\ stored' \cap Ever \subseteq stored
  BY <1>1 DEF Accounts, StoreMoves
<1>3. (\A t \in RevokedSoFar : t \in Ever /\ (t \in revoked \/ t \notin stored))'
  <2> SUFFICES ASSUME NEW t \in TokenIds, Handed("revoked", t)'
               PROVE  t \in Ever' /\ (t \in revoked' \/ t \notin stored')
    BY DEF RevokedSoFar
  <2>1. CASE t \in RevokedSoFar
    <3>1. t \in Ever /\ (t \in revoked \/ t \notin stored)
      BY <2>1 DEF Revocations
    <3> QED BY <1>1, <1>2, <3>1 DEF StoreMoves
  <2>2. CASE t \notin RevokedSoFar
    BY <1>1, <1>2, <2>2 DEF LedgerMoves, RevokedSoFar
  <2> QED BY <2>1, <2>2
<1>4. ASSUME NEW r \in Requests, req'[r].pc \in {"live", "cleared"}
      PROVE  (Lineage(req[r].tok) \cap req[r].knew \subseteq Ever \ stored)'
  <2>1. CASE /\ req[r].pc \in {"live", "cleared"}
             /\ req'[r].tok = req[r].tok /\ req'[r].knew = req[r].knew
    <3>1. req[r].tok \in Ever /\ (Lineage(req[r].tok))' = Lineage(req[r].tok)
      BY <1>1, <2>1, RequestSettled DEF Lineage
    <3> QED BY <1>1, <1>2, <2>1, <3>1 DEF Revocations
  <2>2. CASE /\ req'[r].knew \subseteq RevokedSoFar /\ checkLive(req'[r].tok)
             /\ phase[req'[r].tok] = "issued" /\ req'[r].tok \in TokenIds
    <3>1. req'[r].tok \in Ever /\ (Lineage(req[r].tok))' = Lineage(req'[r].tok)
      BY <1>1, <2>2 DEF Ever, Lineage
    <3>2. Lineage(req'[r].tok) \cap RevokedSoFar \subseteq Ever \ stored
      BY <2>2 DEF checkLive, Revocations
    <3> QED BY <1>1, <1>2, <2>2, <3>1, <3>2
  <2>3. req'[r].tok \in TokenIds
    BY <1>4 DEF TypeOK
  <2>4. ~Charges(r)
    BY <1>4, ChargesFields
  <2> QED BY <1>1, <1>4, <2>1, <2>2, <2>3, <2>4 DEF RequestMoves, Clears
<1>5. RevocationIsFinal'
  <2> SUFFICES ASSUME NEW r \in Requests, Charged(r)'
               PROVE  (Lineage(req[r].tok) \cap req[r].knew = {})'
    BY DEF RevocationIsFinal
  <2>1. /\ req'[r].tok = req[r].tok /\ req'[r].knew = req[r].knew /\ req[r].pc \notin {"idle", "denied", "lost"}
        /\ Charged(r) \/ Charges(r)
    BY ChargedOnce
  <2>2. (Lineage(req[r].tok))' = Lineage(req[r].tok)
    BY <1>1, <2>1, RequestSettled DEF Lineage
  <2>3. CASE Charged(r)
    BY <2>1, <2>2, <2>3 DEF Revocations, RevocationIsFinal
  <2>4. CASE ~Charged(r)
    <3>1. req[r].pc = "cleared" /\ Lineage(req[r].tok) \subseteq stored
      BY <2>1, <2>4 DEF Charges, CanConsume
    <3> QED BY <2>1, <2>2, <3>1 DEF Revocations
  <2> QED BY <2>3, <2>4
<1> QED BY <1>3, <1>4, <1>5 DEF Revocations

\* A request that arrives after Revoke has returned is never charged when the
\* revoked token is in its lineage: for every number of tokens, generations
\* and concurrent requests, over both stores and across restarts.
THEOREM RevocationFinal == Spec => []RevocationIsFinal
<1>1. Init => Revocations
  BY DEF Init, Revocations, RevokedSoFar, Handed, InLedger, NotInLedger,
         RevocationIsFinal, NoRequest, Charged
<1>2. TypeOK /\ TypeOK' /\ Accounts /\ Revocations /\ [Next]_vars => Revocations'
  BY RevocationsStep
<1>3. Revocations => RevocationIsFinal
  BY DEF Revocations
<1> QED BY <1>1, <1>2, <1>3, TypeCorrect, AccountsKept, PTL DEF Spec

-----------------------------------------------------------------------------
(* The audit trail                                                         *)
(*                                                                         *)
(* A token is in the store before its issuance is recorded, so the trail   *)
(* rests on who can present it: only a token that Issue has handed out is  *)
(* delegated from or authorized with, and Issue records first.             *)

Trail ==
    /\ \A t \in TokenIds : phase[t] = "issued" => Handed("issued", t)
    /\ \A t \in TokenIds : \A a \in claims[t].chain : a \in TokenIds /\ phase[a] = "issued"
    /\ \A r \in Requests : InLedger("allowed", r) => req[r].pc = "allowed"

\* Every step keeps Trail.
LEMMA TrailStep ==
    ASSUME TypeOK, TypeOK', Trail, [Next]_vars
    PROVE  Trail'
<1>1. /\ LedgerMoves
      /\ \A t \in TokenIds : TokenMoves(t)
      /\ \A r \in Requests : RequestMoves(r)
  BY LedgerStep, TokenStep, RequestsStep
<1>2. \A t \in TokenIds : phase[t] = "issued" => phase'[t] = "issued"
  BY Settled DEF Ever
<1>3. (\A t \in TokenIds : phase[t] = "issued" => Handed("issued", t))'
  <2> SUFFICES ASSUME NEW t \in TokenIds, phase'[t] = "issued"
               PROVE  Handed("issued", t)'
    OBVIOUS
  <2>1. CASE phase[t] = "issued"
    BY <1>1, <2>1 DEF Trail, LedgerMoves, Handed, InLedger, NotInLedger
  <2>2. CASE phase[t] # "issued"
    BY <1>1, <2>2 DEF TokenMoves
  <2> QED BY <2>1, <2>2
<1>4. ASSUME NEW t \in TokenIds, NEW a \in claims'[t].chain
      PROVE  a \in TokenIds /\ phase'[a] = "issued"
  <2>0. claims[t] \in Claims
    BY DEF TypeOK
  <2>1. CASE claims'[t].chain = claims[t].chain
    BY <1>2, <1>4, <2>1 DEF Trail
  <2>2. CASE claims'[t].chain = {}
    BY <1>4, <2>2
  <2>3. ASSUME NEW p \in TokenIds, NEW csv \in svids, NEW scopes \in ScopeLists,
               NEW d \in DepthsAsked, DelegateCheck(t, p, csv, scopes, d)
        PROVE  a \in TokenIds /\ phase'[a] = "issued"
    <3>1. claims'[t].chain = claims[p].chain \cup {p} /\ phase[p] = "issued"
      BY <2>3 DEF DelegateCheck, TypeOK, Lineage
    <3> QED BY <1>2, <1>4, <3>1 DEF Trail
  <2>4. \A mc : [claims[t] EXCEPT !.maxCalls = mc].chain = claims[t].chain
    BY <2>0 DEF Claims
  <2>5. \A e : [claims[t] EXCEPT !.exp = e].chain = claims[t].chain
    BY <2>0 DEF Claims
  <2>6. NoClaims.chain = {}
    BY DEF NoClaims
  <2>7. TokenMoves(t)
    BY <1>1
  <2> QED BY <2>1, <2>2, <2>3, <2>4, <2>5, <2>6, <2>7 DEF TokenMoves
<1>5. ASSUME NEW r \in Requests, InLedger("allowed", r)'
      PROVE  req'[r].pc = "allowed"
  <2>1. CASE InLedger("allowed", r)
    <3>1. req[r].pc = "allowed" /\ RequestMoves(r)
      BY <1>1, <2>1 DEF Trail
    <3> QED BY <3>1 DEF RequestMoves, Clears, Charges
  <2>2. CASE ~InLedger("allowed", r)
    BY <1>1, <1>5, <2>2 DEF LedgerMoves
  <2> QED BY <2>1, <2>2
<1> QED BY <1>3, <1>4, <1>5 DEF Trail

\* Trail is an invariant.
THEOREM TrailKept == Spec => []Trail
<1>1. Init => Trail
  BY DEF Init, Trail, InLedger, NoClaims
<1>2. TypeOK /\ TypeOK' /\ Trail /\ [Next]_vars => Trail'
  BY TrailStep
<1> QED BY <1>1, <1>2, TypeCorrect, PTL DEF Spec

\* AuditTrail: when an allowed call is in the Ledger, Ledger.Record has been
\* called for the issuance of its token and of every ancestor and has returned;
\* only an error it returned keeps such an issuance out of the Ledger.  For any
\* number of generations, whichever records the Ledger fails to take and
\* whatever restart cuts a MintRoot or Delegate between the store and the
\* Ledger.
THEOREM AuditTrailComplete == Spec => []AuditTrail
<1>1. TypeOK /\ Accounts /\ Trail => AuditTrail
  <2> SUFFICES ASSUME TypeOK, Accounts, Trail, NEW r \in Requests,
                      InLedger("allowed", r), NEW a \in Lineage(req[r].tok)
               PROVE  Handed("issued", a)
    BY DEF AuditTrail, Handed
  <2>1. req[r].pc = "allowed"
    BY DEF Trail
  <2>2. req[r].tok \in TokenIds /\ phase[req[r].tok] = "issued"
    BY <2>1 DEF TypeOK, Accounts
  <2>3. a \in TokenIds /\ phase[a] = "issued"
    BY <2>2 DEF Lineage, Trail
  <2> QED BY <2>3 DEF Trail
<1> QED BY <1>1, TypeCorrect, AccountsKept, TrailKept, PTL

\* Every allowed call that is in the Ledger can be traced there to the issuance
\* of its token and of every ancestor.
WholeTrail ==
    \A r \in Requests : InLedger("allowed", r) =>
        \A a \in Lineage(req[r].tok) : InLedger("issued", a)

\* WholeTrail holds of a broker whose Ledger.Record never fails on an issuance,
\* whichever of the other records it fails on.  The hypothesis is needed:
\* record logs the error and the token is handed out all the same.
THEOREM AuditTrailWhole == "issued" \notin LedgerFails => (Spec => []WholeTrail)
<1> SUFFICES ASSUME "issued" \notin LedgerFails PROVE Spec => []WholeTrail
  OBVIOUS
<1>1. TypeOK /\ AuditTrail => WholeTrail
  <2> SUFFICES ASSUME TypeOK, NEW a, NotInLedger("issued", a) PROVE FALSE
    BY DEF AuditTrail, WholeTrail
  <2>1. PICK e : e = [type |-> "issued", id |-> a, ok |-> FALSE]
    OBVIOUS
  <2>2. e \in Event /\ e.type = "issued" /\ e.ok = FALSE
    BY <2>1 DEF TypeOK, NotInLedger
  <2> QED BY <2>2 DEF Event
<1> QED BY <1>1, TypeCorrect, AuditTrailComplete, PTL

-----------------------------------------------------------------------------
(* The budget of one scope                                                 *)
(*                                                                         *)
(* As for the shared budget, the counter of a stored token's scope is the  *)
(* number of requests charged through it, and a request that is about to   *)
(* be charged names a scope its token has.                                 *)

\* The requests charged to scope i of token t.
Via(t, i) == {r \in Requests : Charged(r) /\ req[r].tok = t /\ req[r].scope = i}

\* ScopeBudget in terms of Via.
WithinScopes ==
    \A t \in TokenIds : \A i \in DOMAIN claims[t].scopes :
        Cardinality(Via(t, i)) <= claims[t].scopes[i].maxCalls

ScopeAccounts ==
    /\ \A t \in stored :
          /\ DOMAIN perScope[t] = DOMAIN claims[t].scopes
          /\ \A i \in DOMAIN perScope[t] : perScope[t][i] = Cardinality(Via(t, i))
    /\ \A r \in Requests : req[r].pc = "cleared" =>
          req[r].scope \in DOMAIN claims[req[r].tok].scopes
    /\ WithinScopes

\* The requests charged through a scope are finitely many.
LEMMA ViaFinite ==
    ASSUME NEW t, NEW i
    PROVE  IsFiniteSet(Via(t, i)) /\ Cardinality(Via(t, i)) \in Nat
<1>1. IsFiniteSet(Via(t, i))
  BY IdsAssumption, FS_Subset DEF Via
<1> QED BY <1>1, FS_CardinalityType

\* Nothing was charged through a token that was never stored.
LEMMA FreshVia ==
    ASSUME TypeOK, Accounts, NEW t \in TokenIds \ Ever, NEW i
    PROVE  Via(t, i) = {} /\ Cardinality(Via(t, i)) = 0
<1>1. Via(t, i) = {}
  BY RequestSettled DEF Via, Charged
<1> QED BY <1>1, FS_EmptySet

\* A step without a charge leaves the charged requests as they are.
LEMMA SameVia ==
    ASSUME TypeOK, [Next]_vars, \A r \in Requests : ~Charges(r), NEW t, NEW i
    PROVE  Via(t, i)' = Via(t, i)
<1> SUFFICES ASSUME NEW r \in Requests
             PROVE  /\ Charged(r)' <=> Charged(r)
                    /\ Charged(r) => req'[r].tok = req[r].tok /\ req'[r].scope = req[r].scope
  BY DEF Via
<1> QED BY ChargedOnce, StaysCharged

\* A cleared request names a scope of its token.
LEMMA ClearedScope ==
    ASSUME TypeOK, TypeOK', Accounts, ScopeAccounts, [Next]_vars,
           NEW r \in Requests, req'[r].pc = "cleared"
    PROVE  (req[r].scope \in DOMAIN claims[req[r].tok].scopes)'
<1>1. RequestMoves(r) /\ ~Charges(r)
  BY RequestsStep, ChargesFields
<1>2. /\ req[r].pc \notin {"idle", "denied", "lost"} /\ req'[r].tok = req[r].tok
      /\ \/ req[r].pc = "cleared" /\ req'[r].scope = req[r].scope
         \/ /\ req'[r].scope > 0
            /\ req'[r].scope = FirstMatch(claims[req[r].tok].scopes, req'[r].call)
  BY <1>1 DEF RequestMoves, Clears
<1>3. req[r].tok \in Ever /\ req[r].tok \in TokenIds
  BY <1>2, RequestSettled DEF Ever
<1>4. claims'[req[r].tok] = claims[req[r].tok] /\ claims[req[r].tok].scopes \in Seq(Scope)
  BY <1>3, Settled DEF TypeOK, Claims
<1>5. req'[r].scope \in DOMAIN claims[req[r].tok].scopes
  BY <1>2, <1>4, FirstMatchLeast DEF ScopeAccounts, Admitting
<1> QED BY <1>2, <1>4, <1>5

\* A step without a charge keeps the accounts of the scopes.
LEMMA ScopeUncharged ==
    ASSUME TypeOK, TypeOK', Accounts, ScopeAccounts, [Next]_vars,
           \A r \in Requests : ~Charges(r)
    PROVE  ScopeAccounts'
<1>1. StoreMoves /\ \A t \in Ever : claims'[t] = claims[t]
  BY StoreStep, Settled
<1>2. ASSUME NEW t \in stored'
      PROVE  /\ DOMAIN perScope'[t] = DOMAIN claims'[t].scopes
             /\ \A i \in DOMAIN perScope'[t] : perScope'[t][i] = Cardinality(Via(t, i)')
  <2>1. CASE t \in stored
    <3>1. t \in Ever /\ perScope'[t] = perScope[t] /\ claims'[t] = claims[t]
      BY <1>1, <1>2, <2>1 DEF StoreMoves, Accounts
    <3> QED BY <2>1, <3>1, SameVia DEF ScopeAccounts
  <2>2. CASE t \notin stored
    <3>1. t \in TokenIds \ Ever /\ perScope'[t] = [i \in DOMAIN claims'[t].scopes |-> 0]
      BY <1>1, <1>2, <2>2 DEF StoreMoves, Ever
    <3> QED BY <3>1, SameVia, FreshVia
  <2> QED BY <2>1, <2>2
<1>3. WithinScopes'
  <2> SUFFICES ASSUME NEW t \in TokenIds, NEW i \in DOMAIN claims'[t].scopes
               PROVE  Cardinality(Via(t, i)) <= claims'[t].scopes[i].maxCalls
    BY SameVia DEF WithinScopes
  <2>1. CASE t \in Ever
    BY <1>1, <2>1 DEF ScopeAccounts, WithinScopes
  <2>2. CASE t \notin Ever
    <3>1. Cardinality(Via(t, i)) = 0
      BY <2>2, FreshVia
    <3>2. claims'[t].scopes \in Seq(Scope)
      BY DEF TypeOK, Claims
    <3>3. claims'[t].scopes[i] \in Scope
      BY <3>2
    <3> QED BY <3>1, <3>3 DEF Scope
  <2> QED BY <2>1, <2>2
<1> QED BY <1>2, <1>3, ClearedScope DEF ScopeAccounts

\* Consume keeps the accounts of the scopes.
LEMMA ScopeCharged ==
    ASSUME TypeOK, TypeOK', Accounts, ScopeAccounts, [Next]_vars,
           NEW r \in Requests, Charges(r)
    PROVE  ScopeAccounts'
<1>0. PICK t \in TokenIds, k \in Nat : t = req[r].tok /\ k = req[r].scope
  BY DEF Charges, TypeOK, Request
<1>1. /\ req[r].pc = "cleared" /\ t \in stored
      /\ perScope[t][k] < claims[t].scopes[k].maxCalls
      /\ perScope' = [perScope EXCEPT ![t][k] = @ + 1]
      /\ UNCHANGED <<claims, stored>>
  BY <1>0 DEF Charges, CanConsume, Lineage
<1>2. k \in DOMAIN claims[t].scopes /\ DOMAIN perScope[t] = DOMAIN claims[t].scopes
  BY <1>0, <1>1 DEF ScopeAccounts
<1>3. ASSUME NEW x, NEW i
      PROVE  /\ x = t /\ i = k => Via(x, i)' = Via(x, i) \cup {r} /\ r \notin Via(x, i)
             /\ ~(x = t /\ i = k) => Via(x, i)' = Via(x, i)
  <2>1. ~Charged(r) /\ Charged(r)' /\ req'[r].tok = t /\ req'[r].scope = k
    BY <1>0, ChargesFields DEF Charged, Charges
  <2>2. \A q \in Requests \ {r} : req'[q] = req[q] /\ (Charged(q)' <=> Charged(q))
    BY ChargesFields DEF Charged
  <2> QED BY <2>1, <2>2 DEF Via
<1>4. Cardinality(Via(t, k)') = Cardinality(Via(t, k)) + 1
  BY <1>3, ViaFinite, FS_AddElement
<1>5. perScope[t] \in Seq(Nat)
  BY <1>1 DEF TypeOK
<1>6. /\ perScope'[t] = [perScope[t] EXCEPT ![k] = perScope[t][k] + 1]
      /\ \A x \in TokenIds \ {t} : perScope'[x] = perScope[x]
  BY <1>1 DEF TypeOK
<1>7. ASSUME NEW x \in stored'
      PROVE  /\ DOMAIN perScope'[x] = DOMAIN claims'[x].scopes
             /\ \A i \in DOMAIN perScope'[x] : perScope'[x][i] = Cardinality(Via(x, i)')
  <2>1. x \in stored /\ x \in TokenIds
    BY <1>1, <1>7 DEF TypeOK
  <2>2. CASE x # t
    BY <1>1, <1>3, <1>6, <2>1, <2>2 DEF ScopeAccounts
  <2>3. CASE x = t
    <3>1. \A i \in DOMAIN perScope[t] : perScope[t][i] = Cardinality(Via(t, i))
      BY <1>1 DEF ScopeAccounts
    <3>2. DOMAIN perScope'[t] = DOMAIN perScope[t]
      BY <1>5, <1>6
    <3>3. \A i \in DOMAIN perScope[t] : perScope'[t][i] = Cardinality(Via(t, i)')
      <4> TAKE i \in DOMAIN perScope[t]
      <4>1. CASE i = k
        BY <1>2, <1>4, <1>5, <1>6, <3>1, <4>1
      <4>2. CASE i # k
        BY <1>3, <1>5, <1>6, <3>1, <4>2
      <4> QED BY <4>1, <4>2
    <3> QED BY <1>1, <1>2, <2>3, <3>2, <3>3
  <2> QED BY <2>2, <2>3
<1>8. WithinScopes'
  <2> SUFFICES ASSUME NEW x \in TokenIds, NEW i \in DOMAIN claims[x].scopes
               PROVE  Cardinality(Via(x, i)') <= claims[x].scopes[i].maxCalls
    BY <1>1 DEF WithinScopes
  <2>1. CASE x = t /\ i = k
    <3>1. claims[t].scopes \in Seq(Scope)
      BY <1>1 DEF TypeOK, Claims
    <3>2. claims[t].scopes[k] \in Scope
      BY <1>2, <3>1
    <3>3. claims[t].scopes[k].maxCalls \in Nat
      BY <3>2 DEF Scope
    <3>4. perScope[t][k] = Cardinality(Via(t, k))
      BY <1>1, <1>2 DEF ScopeAccounts
    <3> QED BY <1>1, <1>4, <2>1, <3>3, <3>4, ViaFinite
  <2>2. CASE ~(x = t /\ i = k)
    BY <1>3, <2>2 DEF ScopeAccounts, WithinScopes
  <2> QED BY <2>1, <2>2
<1> QED BY <1>7, <1>8, ClearedScope DEF ScopeAccounts

\* The per-scope counters of the store count exactly the requests charged
\* through each scope of a stored token.
THEOREM ScopeAccountsKept == Spec => []ScopeAccounts
<1>1. Init => ScopeAccounts
  <2> SUFFICES ASSUME Init PROVE ScopeAccounts
    OBVIOUS
  <2>1. \A t \in TokenIds : DOMAIN claims[t].scopes = {}
    BY DEF Init, NoClaims
  <2>2. WithinScopes
    BY <2>1 DEF WithinScopes
  <2> QED BY <2>2 DEF Init, ScopeAccounts, NoRequest
<1>2. TypeOK /\ TypeOK' /\ Accounts /\ ScopeAccounts /\ [Next]_vars => ScopeAccounts'
  BY ScopeUncharged, ScopeCharged
<1> QED BY <1>1, <1>2, TypeCorrect, AccountsKept, PTL DEF Spec

\* The calls made through one scope of a token stay within that scope's own
\* max_calls, for any number of scopes and concurrent requests, over both
\* stores and across restarts.
THEOREM ScopeBudgetKept == Spec => []ScopeBudget
<1>1. ScopeAccounts => ScopeBudget
  BY DEF ScopeAccounts, WithinScopes, ScopeBudget, Via
<1> QED BY <1>1, ScopeAccountsKept, PTL

-----------------------------------------------------------------------------
(* Delegation narrows                                                      *)

\* Narrower, with its last conjunct named.
LEMMA NarrowerParts ==
    ASSUME NEW d, NEW a
    PROVE  Narrower(d, a) <=>
              /\ d.human = a.human
              /\ d.exp <= a.exp
              /\ a.depth < d.depth /\ d.depth <= a.maxDepth /\ d.maxDepth <= a.maxDepth
              /\ d.maxCalls <= a.maxCalls
              /\ ScopesWithin(d.scopes, a.scopes)
BY DEF Narrower, ScopesWithin

\* Narrowing is transitive over the generations.
LEMMA NarrowerTransitive ==
    ASSUME NEW d \in Claims, NEW b \in Claims, NEW a \in Claims, Narrower(d, b), Narrower(b, a)
    PROVE  Narrower(d, a)
<1>1. /\ d.exp \in Nat /\ b.exp \in Nat /\ a.exp \in Nat
      /\ d.depth \in Nat /\ b.depth \in Nat /\ a.depth \in Nat
      /\ d.maxDepth \in Nat /\ b.maxDepth \in Nat /\ a.maxDepth \in Nat
      /\ d.maxCalls \in Nat /\ b.maxCalls \in Nat /\ a.maxCalls \in Nat
  BY DEF Claims
<1>2. ScopesWithin(d.scopes, a.scopes)
  <2>1. d.scopes \in Seq(Scope) /\ b.scopes \in Seq(Scope) /\ a.scopes \in Seq(Scope)
    BY DEF Claims
  <2> QED BY <2>1, NarrowerParts, WithinTransitive
<1>3. /\ d.human = b.human /\ d.exp <= b.exp
      /\ b.depth < d.depth /\ d.depth <= b.maxDepth /\ d.maxDepth <= b.maxDepth
      /\ d.maxCalls <= b.maxCalls
  BY NarrowerParts
<1>4. /\ b.human = a.human /\ b.exp <= a.exp
      /\ a.depth < b.depth /\ b.depth <= a.maxDepth /\ b.maxDepth <= a.maxDepth
      /\ b.maxCalls <= a.maxCalls
  BY NarrowerParts
<1>5. /\ d.human = a.human /\ d.exp <= a.exp
      /\ a.depth < d.depth /\ d.depth <= a.maxDepth /\ d.maxDepth <= a.maxDepth
      /\ d.maxCalls <= a.maxCalls
  <2>1. d.human = a.human
    BY ONLY <1>3, <1>4
  <2>2. d.exp <= a.exp /\ d.maxCalls <= a.maxCalls
    BY ONLY <1>1, <1>3, <1>4
  <2>3. a.depth < d.depth /\ d.depth <= a.maxDepth /\ d.maxDepth <= a.maxDepth
    BY ONLY <1>1, <1>3, <1>4
  <2> QED BY ONLY <2>1, <2>2, <2>3
<1> QED BY <1>2, <1>5, NarrowerParts

(* DelegationNarrows also speaks of drafts, which a Delegate call changes  *)
(* between its store calls.  Generations adds what those changes need: a   *)
(* draft's chain is its parent's lineage, and a scope that admits a call   *)
(* has a budget, without which Attenuate could skip the parent's deciding  *)
(* scope for a looser one.                                                 *)

Generation(t) ==
    /\ Budgeted(claims[t].scopes)
    /\ phase[t] = "checked" => claims[t].chain = Lineage(claims[t].parent)
    /\ \A a \in claims[t].chain :
          /\ Narrower(claims[t], claims[a])
          /\ claims[a].chain \subseteq claims[t].chain

Generations == \A t \in TokenIds : Generation(t)

\* The expiry of a new token is within its ceiling.
LEMMA ttlWithin ==
    ASSUME now \in Nat, NEW asked \in Int, NEW ceiling \in Nat
    PROVE  ttl(asked, ceiling) <= ceiling
BY ConfigAssumption DEF ttl, Least

\* The draft that Delegate makes is narrower than every token of its chain.
LEMMA DraftNarrows ==
    ASSUME TypeOK, TypeOK', Trail, Generations, NEW t \in TokenIds, NEW p \in TokenIds,
           NEW csv \in svids, NEW scopes \in ScopeLists, NEW d \in DepthsAsked,
           DelegateCheck(t, p, csv, scopes, d)
    PROVE  Generation(t)'
<1> DEFINE c == claims'[t]
           b == claims[p]
<1>1. /\ phase[t] = "free" /\ phase[p] = "issued" /\ p # t
      /\ c.human = b.human /\ c.parent = p /\ c.chain = b.chain \cup {p}
      /\ c.depth = b.depth + 1 /\ c.maxCalls = 0
      /\ c.maxDepth = IF d > 0 THEN Least(d, b.maxDepth) ELSE b.maxDepth
      /\ c.scopes = Attenuate(b.scopes, scopes)
      /\ c.exp = Least(b.exp, csv.exp)
      /\ b.depth + 1 <= b.maxDepth /\ ValidScopes(scopes)
  BY DEF DelegateCheck, TypeOK, Lineage
<1>2. \A a \in TokenIds \ {t} : claims'[a] = claims[a]
  BY DEF DelegateCheck, TypeOK
<1>3. c \in Claims /\ b \in Claims /\ scopes \in Seq(Scope) /\ d \in Int /\ csv \in SVID
  BY InputsAssumption DEF TypeOK
<1>4. b.scopes \in Seq(Scope) /\ Budgeted(b.scopes)
  BY <1>3 DEF Claims, Generations, Generation
<1>5. ScopesWithin(c.scopes, b.scopes)
  BY <1>1, <1>3, <1>4, AttenuateNarrows DEF ScopesWithin
<1>6. Narrower(c, b)
  <2>1. /\ b.depth \in Nat /\ b.maxDepth \in Nat /\ b.maxCalls \in Nat /\ b.exp \in Nat
        /\ csv.exp \in Nat
    BY <1>3 DEF Claims, SVID
  <2>2. c.exp <= b.exp /\ c.maxDepth <= b.maxDepth
    <3> HIDE DEF c, b
    <3> QED BY <1>1, <1>3, <2>1 DEF Least
  <2>3. c.depth <= b.maxDepth /\ b.depth < c.depth /\ c.maxCalls <= b.maxCalls
    <3> HIDE DEF c, b
    <3> QED BY <1>1, <2>1
  <2> QED BY <1>1, <1>5, <2>2, <2>3, NarrowerParts
<1>7. ASSUME NEW a \in c.chain
      PROVE  Narrower(c, claims'[a]) /\ claims'[a].chain \subseteq c.chain
  <2>1. a \in TokenIds /\ phase[a] = "issued" /\ a # t
    BY <1>1, <1>7 DEF Trail
  <2>2. claims'[a] = claims[a] /\ claims[a] \in Claims
    BY <1>2, <2>1 DEF TypeOK
  <2>3. CASE a = p
    BY <1>1, <1>6, <2>2, <2>3
  <2>4. CASE a # p
    <3>1. a \in b.chain
      BY <1>1, <1>7, <2>4
    <3>2. Narrower(b, claims[a]) /\ claims[a].chain \subseteq b.chain
      BY <3>1 DEF Generations, Generation
    <3> HIDE DEF c, b
    <3> QED BY <1>1, <1>3, <1>6, <2>2, <3>2, NarrowerTransitive
  <2> QED BY <2>3, <2>4
<1>8. Budgeted(c.scopes)
  BY <1>1, <1>3, <1>4, AttenuateBudgeted
<1>9. c.chain = (Lineage(claims[t].parent))'
  BY <1>1, <1>2 DEF Lineage
<1> QED BY <1>7, <1>8, <1>9 DEF Generation

\* Every step keeps Generations.
LEMMA GenerationsStep ==
    ASSUME TypeOK, TypeOK', Trail, Generations, [Next]_vars
    PROVE  Generations'
<1> SUFFICES ASSUME NEW t \in TokenIds PROVE Generation(t)'
  BY DEF Generations
<1> DEFINE c == claims[t]
           n == claims'[t]
<1>1. c \in Claims /\ n \in Claims /\ Generation(t)
  BY DEF TypeOK, Generations
<1>2. ASSUME NEW a \in c.chain
      PROVE  /\ a \in TokenIds /\ claims[a] \in Claims /\ claims'[a] = claims[a]
             /\ Narrower(c, claims[a]) /\ claims[a].chain \subseteq c.chain
  <2>1. a \in TokenIds /\ phase[a] = "issued"
    BY <1>2 DEF Trail
  <2>2. claims'[a] = claims[a]
    BY <2>1, Settled DEF Ever
  <2> QED BY <1>1, <1>2, <2>1, <2>2 DEF TypeOK, Generation
<1>3. CASE phase'[t] = phase[t] /\ n = c
  <2>1. phase[t] = "checked" => c.parent \in c.chain
    BY <1>1 DEF Generation, Lineage
  <2>2. phase'[t] = "checked" => n.chain = (Lineage(claims[t].parent))'
    BY <1>1, <1>2, <1>3, <2>1 DEF Generation, Lineage
  <2> QED BY <1>1, <1>2, <1>3, <2>2 DEF Generation
<1>4. CASE phase'[t] = "free" /\ n = NoClaims
  BY <1>4 DEF Generation, NoClaims, Budgeted
<1>5. CASE phase'[t] = "persisted" /\ n.chain = {} /\ ValidScopes(n.scopes)
  BY <1>5 DEF Generation, ValidScopes, Budgeted
<1>6. ASSUME phase[t] = "checked", phase'[t] = "measured", NEW mc \in Nat,
             n = [c EXCEPT !.maxCalls = mc], mc <= claims[c.parent].maxCalls
      PROVE  Generation(t)'
  <2>1. /\ n.human = c.human /\ n.exp = c.exp /\ n.depth = c.depth /\ n.maxDepth = c.maxDepth
        /\ n.scopes = c.scopes /\ n.chain = c.chain /\ n.maxCalls = mc
    <3> HIDE DEF n, c
    <3> QED BY <1>1, <1>6 DEF Claims
  <2>2. ASSUME NEW a \in c.chain PROVE mc <= claims[a].maxCalls
    <3>1. c.parent \in TokenIds /\ claims[c.parent] \in Claims /\ Generation(c.parent)
      BY <1>6 DEF TypeOK, Generations
    <3>2. a = c.parent \/ a \in claims[c.parent].chain
      BY <1>1, <1>6, <2>2 DEF Generation, Lineage
    <3>3. a # c.parent => claims[c.parent].maxCalls <= claims[a].maxCalls
      BY <3>1, <3>2, NarrowerParts DEF Generation
    <3>4. claims[a].maxCalls \in Nat /\ claims[c.parent].maxCalls \in Nat
      BY <1>2, <2>2, <3>1 DEF Claims
    <3> QED BY <1>6, <3>3, <3>4
  <2>3. ASSUME NEW a \in n.chain
        PROVE  Narrower(n, claims'[a]) /\ claims'[a].chain \subseteq n.chain
    <3>1. /\ claims'[a] = claims[a] /\ mc <= claims[a].maxCalls
          /\ Narrower(c, claims[a]) /\ claims[a].chain \subseteq c.chain
      BY <1>2, <2>1, <2>2, <2>3
    <3> HIDE DEF n, c
    <3> QED BY <2>1, <3>1, NarrowerParts
  <2> QED BY <1>1, <1>6, <2>1, <2>3 DEF Generation
<1>7. ASSUME phase'[t] = "persisted", NEW e \in TTLsAsked, n = [c EXCEPT !.exp = ttl(e, c.exp)]
      PROVE  Generation(t)'
  <2>1. /\ n.human = c.human /\ n.exp = ttl(e, c.exp) /\ n.depth = c.depth
        /\ n.maxDepth = c.maxDepth
        /\ n.scopes = c.scopes /\ n.chain = c.chain /\ n.maxCalls = c.maxCalls
    <3> HIDE DEF n, c
    <3> QED BY <1>1, <1>7 DEF Claims
  <2>2. n.exp <= c.exp /\ n.exp \in Nat /\ c.exp \in Nat
    <3>1. n.exp \in Nat /\ c.exp \in Nat
      BY <1>1 DEF Claims
    <3>2. now \in Nat /\ e \in Int
      BY InputsAssumption DEF TypeOK
    <3> QED BY <2>1, <3>1, <3>2, ttlWithin
  <2>3. ASSUME NEW a \in n.chain
        PROVE  Narrower(n, claims'[a]) /\ claims'[a].chain \subseteq n.chain
    <3>1. /\ claims'[a] = claims[a] /\ claims[a].exp \in Nat
          /\ Narrower(c, claims[a]) /\ claims[a].chain \subseteq c.chain
      BY <1>2, <2>1, <2>3 DEF Claims
    <3>2. c.exp <= claims[a].exp
      BY <3>1, NarrowerParts
    <3>3. n.exp <= claims[a].exp
      <4> HIDE DEF n, c
      <4> QED BY <2>2, <3>1, <3>2
    <3> HIDE DEF n, c
    <3> QED BY <2>1, <3>1, <3>3, NarrowerParts
  <2> QED BY <1>1, <1>7, <2>1, <2>3 DEF Generation
<1>8. CASE phase'[t] \in {"orphan", "issued"} /\ n = c
  BY <1>1, <1>2, <1>8 DEF Generation
<1>9. TokenMoves(t)
  BY TokenStep
<1> QED BY <1>3, <1>4, <1>5, <1>6, <1>7, <1>8, <1>9, DraftNarrows DEF TokenMoves

\* Generations is an invariant.
THEOREM GenerationsKept == Spec => []Generations
<1>1. Init => Generations
  BY DEF Init, Generations, Generation, NoClaims, Budgeted
<1>2. TypeOK /\ TypeOK' /\ Trail /\ Generations /\ [Next]_vars => Generations'
  BY GenerationsStep
<1> QED BY <1>1, <1>2, TypeCorrect, TrailKept, PTL DEF Spec

\* Every token is narrower than each token of its chain, over any number of
\* generations: expiry, depth, calls, and for every call the budget and the
\* approval of the scope that decides it.
THEOREM DelegationOnlyNarrows == Spec => []DelegationNarrows
<1>1. Generations => DelegationNarrows
  BY DEF Generations, Generation, DelegationNarrows
<1> QED BY <1>1, GenerationsKept, PTL

-----------------------------------------------------------------------------
(* Approvals                                                               *)
(*                                                                         *)
(* UseApproval and Consume are two store calls, and a Memory store forgets *)
(* which approvals were used when it restarts.  The invariant Approvals    *)
(* ties an approval to the requests that burnt it: while the token is      *)
(* stored the approval is marked used, so a second request can burn it     *)
(* only when the token's record is gone, and then neither can be charged   *)
(* any more.                                                               *)

\* The request has passed its scope and approval.
Active(r) == req[r].pc \in {"cleared", "charged", "allowed", "wasted"}

Granted(r) ==
    LET scopes == claims[req[r].tok].scopes
    IN  /\ req[r].call \in Calls
        /\ req[r].scope = FirstMatch(scopes, req[r].call) /\ req[r].scope > 0
        /\ scopes[req[r].scope].approval => req[r].apr # None
        /\ req[r].apr # None =>
              /\ approvals[req[r].apr].tok = req[r].tok
              /\ approvals[req[r].apr].call = req[r].call
              /\ req[r].apr \in usedApr \/ req[r].tok \notin stored

\* Two requests that burnt the same approval are never both charged.
Apart(r, q) ==
    Active(r) /\ Active(q) /\ req[r].apr = req[q].apr /\ req[r].apr # None =>
        req[r].tok \notin stored /\ ~(Charged(r) /\ Charged(q))

Approvals ==
    /\ \A r \in Requests : req[r].pc \in {"idle", "live"} => req[r].apr = None
    /\ \A r \in Requests : Active(r) => Granted(r)
    /\ \A r \in Requests : \A q \in Requests \ {r} : Apart(r, q)

\* A request becomes active by clearing, and keeps what it was cleared with.
LEMMA ActiveOnce ==
    ASSUME TypeOK, [Next]_vars, NEW r \in Requests, Active(r)'
    PROVE  \/ Clears(r)
           \/ /\ Active(r)
              /\ req'[r].tok = req[r].tok /\ req'[r].call = req[r].call
              /\ req'[r].scope = req[r].scope /\ req'[r].apr = req[r].apr
<1>1. RequestMoves(r)
  BY RequestsStep
<1>2. CASE Charges(r)
  BY <1>2, ChargesFields DEF Charges, Active
<1>3. CASE ~Charges(r)
  BY <1>1, <1>3 DEF RequestMoves, Active
<1> QED BY <1>2, <1>3

\* A signed approval is not the empty one, and stays as it is.
LEMMA SignedApproval ==
    ASSUME TypeOK, StoreMoves, NEW a \in ApprovalIds, approvals[a].tok \in TokenIds
    PROVE  approvals'[a] = approvals[a]
<1>1. NoApproval.tok = None /\ None \notin TokenIds
  BY IdsAssumption DEF NoApproval
<1> QED BY <1>1 DEF StoreMoves

\* A request that has passed its approval stays granted.
LEMMA GrantedStep ==
    ASSUME TypeOK, TypeOK', Accounts, Approvals, [Next]_vars, NEW r \in Requests, Active(r)'
    PROVE  Granted(r)'
<1>1. StoreMoves /\ \A t \in Ever : claims'[t] = claims[t]
  BY StoreStep, Settled
<1>2. req'[r].tok = req[r].tok /\ req[r].pc \notin {"idle", "denied", "lost"}
  BY ActiveOnce DEF Clears, Active
<1>3. req[r].tok \in TokenIds /\ req[r].tok \in Ever
  BY <1>2, RequestSettled DEF Ever
<1>4. claims'[req[r].tok] = claims[req[r].tok] /\ (req[r].tok \notin stored => req[r].tok \notin stored')
  BY <1>1, <1>3 DEF StoreMoves
<1>5. req'[r].apr \in ApprovalIds \cup {None}
  BY DEF TypeOK, Request
<1>6. CASE Clears(r)
  <2>1. CASE claims[req[r].tok].scopes[req'[r].scope].approval
    <3>1. /\ req'[r].apr # None /\ req'[r].apr \in usedApr'
          /\ approvals[req'[r].apr].tok = req[r].tok
          /\ approvals[req'[r].apr].call = req'[r].call
      BY <1>6, <2>1 DEF Clears, ApprovalMatches
    <3>2. approvals'[req'[r].apr] = approvals[req'[r].apr]
      BY <1>1, <1>3, <1>5, <3>1, SignedApproval
    <3> QED BY <1>2, <1>4, <1>6, <3>1, <3>2 DEF Clears, Granted
  <2>2. CASE ~claims[req[r].tok].scopes[req'[r].scope].approval
    <3>1. req'[r].apr = None
      BY <1>6, <2>2 DEF Clears, Approvals
    <3> QED BY <1>2, <1>4, <1>6, <2>2, <3>1 DEF Clears, Granted
  <2> QED BY <2>1, <2>2
<1>7. CASE /\ Active(r)
           /\ req'[r].tok = req[r].tok /\ req'[r].call = req[r].call
           /\ req'[r].scope = req[r].scope /\ req'[r].apr = req[r].apr
  <2>1. Granted(r)
    BY <1>7 DEF Approvals
  <2>2. ASSUME req[r].apr # None
        PROVE  /\ approvals'[req[r].apr] = approvals[req[r].apr]
               /\ req[r].apr \in usedApr' \/ req[r].tok \notin stored'
    <3>1. approvals[req[r].apr].tok = req[r].tok
      BY <2>1, <2>2 DEF Granted
    <3>2. approvals'[req[r].apr] = approvals[req[r].apr]
      BY <1>1, <1>3, <1>5, <1>7, <2>2, <3>1, SignedApproval
    <3>3. req[r].apr \in usedApr \/ req[r].tok \notin stored
      BY <2>1, <2>2 DEF Granted
    <3> QED BY <1>1, <1>4, <3>2, <3>3 DEF StoreMoves
  <2> QED BY <1>4, <1>7, <2>1, <2>2 DEF Granted
<1> QED BY <1>6, <1>7, ActiveOnce

\* Two requests stay apart.
LEMMA ApartStep ==
    ASSUME TypeOK, TypeOK', Accounts, Approvals, [Next]_vars,
           NEW r \in Requests, NEW q \in Requests \ {r}
    PROVE  Apart(r, q)'
<1> SUFFICES ASSUME Active(r)', Active(q)', req'[r].apr = req'[q].apr, req'[r].apr # None
             PROVE  req'[r].tok \notin stored' /\ ~(Charged(r)' /\ Charged(q)')
  BY DEF Apart
<1>1. /\ req'[r].tok = req[r].tok /\ req[r].pc \notin {"idle", "denied", "lost"}
      /\ req'[q].tok = req[q].tok /\ req[q].pc \notin {"idle", "denied", "lost"}
  BY ActiveOnce DEF Clears, Active
<1>2. req[r].tok \in Ever /\ req[q].tok \in Ever
  BY <1>1, RequestSettled
<1>3. \A t \in Ever : t \notin stored => t \notin stored'
  BY StoreStep DEF StoreMoves
<1>4. CASE ~Clears(r) /\ ~Clears(q)
  <2>1. /\ Active(r) /\ Active(q) /\ req[r].apr = req[q].apr /\ req[r].apr # None
    BY <1>4, ActiveOnce
  <2>2. /\ req[r].tok \notin stored /\ req[q].tok \notin stored
        /\ ~(Charged(r) /\ Charged(q))
    BY <2>1 DEF Approvals, Apart
  <2>3. ~Charges(r) /\ ~Charges(q)
    BY <2>2 DEF Charges, CanConsume, Lineage
  <2> QED BY <1>1, <1>2, <1>3, <2>2, <2>3, ChargedOnce
<1>5. ASSUME NEW x \in Requests, NEW y \in Requests \ {x}, Clears(x), Active(y)',
             req'[x].apr = req'[y].apr, req'[x].apr # None
      PROVE  req[x].tok = req[y].tok /\ req[y].tok \notin stored /\ ~Charged(x)'
  <2>1. req'[y] = req[y] /\ req'[x].pc = "cleared" /\ Active(y)
    BY <1>5 DEF Clears, Active
  <2>2. Granted(y) /\ req[y].apr # None
    BY <1>5, <2>1 DEF Approvals
  <2>3. claims[req[x].tok].scopes[req'[x].scope].approval
    BY <1>5 DEF Clears, Approvals
  <2>4. approvals[req'[x].apr].tok = req[x].tok /\ req'[x].apr \notin usedApr
    BY <1>5, <2>3 DEF Clears, ApprovalMatches
  <2>5. approvals[req[y].apr].tok = req[y].tok /\ (req[y].apr \in usedApr \/ req[y].tok \notin stored)
    BY <2>2 DEF Granted
  <2> QED BY <1>5, <2>1, <2>4, <2>5 DEF Charged
<1>6. CASE Clears(r)
  BY <1>1, <1>2, <1>3, <1>5, <1>6
<1>7. CASE Clears(q)
  BY <1>1, <1>2, <1>3, <1>5, <1>7
<1> QED BY <1>4, <1>6, <1>7

\* Every step keeps Approvals.
LEMMA ApprovalsStep ==
    ASSUME TypeOK, TypeOK', Accounts, Approvals, [Next]_vars
    PROVE  Approvals'
<1>1. ASSUME NEW r \in Requests, req'[r].pc \in {"idle", "live"} PROVE req'[r].apr = None
  <2>1. RequestMoves(r) /\ ~Charges(r)
    BY <1>1, RequestsStep, ChargesFields
  <2> QED BY <1>1, <2>1 DEF RequestMoves, Clears, Approvals
<1> QED BY <1>1, GrantedStep, ApartStep DEF Approvals

\* A call that an ancestor could only have made with a human approval is
\* never charged to a delegate without an approval of that token and call,
\* and an approval is charged once: for any number of generations, requests
\* and approvals, over both stores and across restarts.
THEOREM ApprovalsEnforced == Spec => []ApprovalEnforced
<1>1. Init => Approvals
  BY DEF Init, Approvals, Apart, Active, NoRequest
<1>2. TypeOK /\ TypeOK' /\ Accounts /\ Approvals /\ [Next]_vars => Approvals'
  BY ApprovalsStep
<1>3. TypeOK /\ Generations /\ Approvals => ApprovalEnforced
  <2> SUFFICES ASSUME TypeOK, Generations, Approvals, NEW r \in Requests, Charged(r),
                      NEW a \in Lineage(req[r].tok), NEW j,
                      j = FirstMatch(claims[a].scopes, req[r].call), claims[a].scopes[j].approval
               PROVE  /\ req[r].apr # None
                      /\ approvals[req[r].apr].tok = req[r].tok
                      /\ approvals[req[r].apr].call = req[r].call
                      /\ \A q \in Requests \ {r} : Charged(q) => req[q].apr # req[r].apr
    BY DEF ApprovalEnforced
  <2> DEFINE c == claims[req[r].tok]
  <2>1. Active(r) /\ Granted(r) /\ req[r].tok \in TokenIds
    BY DEF Charged, Active, Approvals, TypeOK
  <2>2. c.scopes[req[r].scope].approval
    <3>1. CASE a = req[r].tok
      BY <2>1, <3>1 DEF Granted
    <3>2. CASE a # req[r].tok
      <4>1. Narrower(c, claims[a])
        BY <2>1, <3>2 DEF Lineage, Generations, Generation
      <4>2. ScopesWithin(c.scopes, claims[a].scopes)
        BY <4>1, NarrowerParts
      <4> QED BY <2>1, <4>2 DEF ScopesWithin, Granted
    <3> QED BY <3>1, <3>2
  <2>3. /\ req[r].apr # None
        /\ approvals[req[r].apr].tok = req[r].tok
        /\ approvals[req[r].apr].call = req[r].call
    BY <2>1, <2>2 DEF Granted
  <2>4. ASSUME NEW q \in Requests \ {r}, Charged(q) PROVE req[q].apr # req[r].apr
    <3>1. Active(q) /\ Apart(r, q)
      BY <2>4 DEF Charged, Active, Approvals
    <3> QED BY <2>1, <2>3, <2>4, <3>1 DEF Apart
  <2> QED BY <2>3, <2>4
<1> QED BY <1>1, <1>2, <1>3, TypeCorrect, AccountsKept, GenerationsKept, PTL DEF Spec

-----------------------------------------------------------------------------
(* Parents and liveness along a lineage *)

\* The chain of a delegate is its parent's lineage; a root token has none.
Parents ==
    \A t \in TokenIds :
        claims[t].chain = IF claims[t].parent = None THEN {} ELSE Lineage(claims[t].parent)

\* Every step keeps Parents: a parent is an issued token, whose claims stay.
LEMMA ParentsStep ==
    ASSUME TypeOK, TypeOK', Trail, Parents, [Next]_vars
    PROVE  Parents'
<1> SUFFICES ASSUME NEW t \in TokenIds
             PROVE  (claims[t].chain = IF claims[t].parent = None THEN {}
                                       ELSE Lineage(claims[t].parent))'
  BY DEF Parents
<1>1. PICK p : p = claims'[t].parent
  OBVIOUS
<1>2. p \in TokenIds \cup {None}
  BY <1>1 DEF TypeOK, Claims
<1>3. ASSUME p # None, Lineage(p) \subseteq claims[t].chain \/ phase[p] = "issued"
      PROVE  Lineage(p)' = Lineage(p)
  <2>1. p \in TokenIds /\ phase[p] = "issued"
    BY <1>2, <1>3 DEF Trail, Lineage
  <2> QED BY <2>1, Settled DEF Ever
<1>4. claims'[t].chain = IF p = None THEN {} ELSE Lineage(p)'
  <2>1. TokenMoves(t)
    BY TokenStep
  <2>2. ASSUME claims'[t].parent = claims[t].parent, claims'[t].chain = claims[t].chain
        PROVE  claims'[t].chain = IF p = None THEN {} ELSE Lineage(p)'
    BY <1>1, <1>3, <2>2 DEF Parents
  <2>3. ASSUME claims'[t].parent = None, claims'[t].chain = {}
        PROVE  claims'[t].chain = IF p = None THEN {} ELSE Lineage(p)'
    BY <1>1, <2>3
  <2>4. ASSUME NEW q \in TokenIds, NEW csv \in svids, NEW scopes \in ScopeLists,
               NEW d \in DepthsAsked, DelegateCheck(t, q, csv, scopes, d)
        PROVE  claims'[t].chain = IF p = None THEN {} ELSE Lineage(p)'
    <3>1. claims'[t].parent = q /\ claims'[t].chain = Lineage(q) /\ phase[q] = "issued"
      BY <2>4 DEF DelegateCheck, TypeOK
    <3> QED BY <1>1, <1>3, <3>1, IdsAssumption
  <2>5. \/ claims'[t] = claims[t]
        \/ claims'[t].parent = claims[t].parent /\ claims'[t].chain = claims[t].chain
        \/ claims'[t].parent = None /\ claims'[t].chain = {}
        \/ \E q \in TokenIds, csv \in svids, scopes \in ScopeLists, d \in DepthsAsked :
              DelegateCheck(t, q, csv, scopes, d)
    <3>1. claims[t] \in Claims
      BY DEF TypeOK
    <3>2. \A mc : /\ [claims[t] EXCEPT !.maxCalls = mc].parent = claims[t].parent
                  /\ [claims[t] EXCEPT !.maxCalls = mc].chain = claims[t].chain
      BY <3>1 DEF Claims
    <3>3. \A e : /\ [claims[t] EXCEPT !.exp = e].parent = claims[t].parent
                 /\ [claims[t] EXCEPT !.exp = e].chain = claims[t].chain
      BY <3>1 DEF Claims
    <3>4. NoClaims.parent = None /\ NoClaims.chain = {}
      BY DEF NoClaims
    <3> QED BY <2>1, <3>2, <3>3, <3>4, Zenon DEF TokenMoves
  <2> QED BY <2>2, <2>3, <2>4, <2>5
<1> QED BY <1>1, <1>4

\* What the proofs below use of the broker.
BrokerInv == TypeOK /\ Accounts /\ ScopeAccounts /\ Trail /\ Generations /\ Parents

\* The broker keeps it.
THEOREM BrokerInvKept == Spec => []BrokerInv
<1>1. Init => Parents
  BY DEF Init, Parents, NoClaims
<1>2. TypeOK /\ TypeOK' /\ Trail /\ Parents /\ [Next]_vars => Parents'
  BY ParentsStep
<1> QED
  BY <1>1, <1>2, TypeCorrect, AccountsKept, ScopeAccountsKept, TrailKept, GenerationsKept, PTL
     DEF Spec, BrokerInv

\* The lineage of a token: its parent's, and nothing that comes after it.
LEMMA LineageFacts ==
    ASSUME BrokerInv, NEW t \in TokenIds
    PROVE  /\ Lineage(t) \subseteq TokenIds /\ t \in Lineage(t)
           /\ t \notin claims[t].chain
           /\ claims[t].chain # {} => claims[t].parent \in TokenIds
           /\ claims[t].parent \in TokenIds =>
                 /\ claims[t].chain = Lineage(claims[t].parent)
                 /\ claims[t].parent \in claims[t].chain
           /\ \A a \in Lineage(t) : Lineage(a) \subseteq Lineage(t)
           /\ \A a \in claims[t].chain : claims[a].depth < claims[t].depth
<1>1. claims[t] \in Claims
  BY DEF BrokerInv, TypeOK
<1>2. \A a \in claims[t].chain : a \in TokenIds /\ claims[a].depth < claims[t].depth
  BY DEF BrokerInv, Trail, Generations, Generation, Narrower
<1>3. t \notin claims[t].chain
  BY <1>1, <1>2 DEF Claims
<1>4. claims[t].chain # {} => claims[t].parent \in TokenIds
  BY <1>1 DEF BrokerInv, Parents, Claims
<1>5. claims[t].parent \in TokenIds =>
         claims[t].chain = Lineage(claims[t].parent) /\ claims[t].parent \in claims[t].chain
  BY IdsAssumption DEF BrokerInv, Parents, Lineage
<1>6. \A a \in Lineage(t) : Lineage(a) \subseteq Lineage(t)
  BY DEF BrokerInv, Generations, Generation, Lineage
<1> QED BY <1>2, <1>3, <1>4, <1>5, <1>6 DEF Lineage

\* A live token has live ancestors only.
LEMMA LiveLineage ==
    ASSUME BrokerInv, NEW t \in TokenIds, NEW a \in Lineage(t), checkLive(t)
    PROVE  checkLive(a)
<1>1. a \in TokenIds /\ Lineage(a) \subseteq Lineage(t)
  BY LineageFacts
<1>2. claims[t].exp <= claims[a].exp
  <2>1. CASE a = t
    BY <2>1 DEF BrokerInv, TypeOK, Claims
  <2>2. CASE a # t
    BY <2>2 DEF BrokerInv, Generations, Generation, Narrower, Lineage
  <2> QED BY <2>1, <2>2
<1>3. claims[t].exp \in Nat /\ claims[a].exp \in Nat /\ now \in Nat
  BY <1>1 DEF BrokerInv, TypeOK, Claims
<1>4. ~Expired(claims[a].exp)
  BY <1>2, <1>3 DEF checkLive, Expired
<1>5. Lineage(a) \cap revoked = {}
  BY <1>1 DEF checkLive
<1> QED BY <1>4, <1>5 DEF checkLive

-----------------------------------------------------------------------------
(* Reports                                                                 *)
(*                                                                         *)
(* A report reads the store call by call while the broker runs on.  Two    *)
(* facts carry the proofs.  Between the start of a report and its answer   *)
(* there is no restart, so the store only gains tokens, revocations and    *)
(* charges (Calm): what a frame has read is an upper bound of what is left *)
(* now, and stays one.  And each frame reads its whole lineage after its   *)
(* caller has read its own, so whichever counter gave the caller its       *)
(* number is read again, no larger (Within).                               *)

\* A report reads and changes nothing: with reports, the broker is the broker.
THEOREM ReportOnlyReads == ReportSpec => Spec
<1>1. ReportInit => Init
  BY DEF ReportInit
<1>2. [ReportNext]_<<vars, reportVars>> => [Next]_vars
  <2> SUFFICES ASSUME [ReportNext]_<<vars, reportVars>> PROVE [Next]_vars
    OBVIOUS
  <2>1. CASE UNCHANGED <<vars, reportVars>>
    BY <2>1
  <2>2. ASSUME NEW t \in TokenIds, Report(t) PROVE UNCHANGED vars
    BY <2>2, Zenon DEF Report, Begin, ReadUsage, ReadScopes, ReadChildren, Visit, Return
  <2> QED BY <2>1, <2>2 DEF ReportNext, Next
<1> QED BY <1>1, <1>2, PTL DEF ReportSpec, Spec

\* No restart: what the store and the clock hold only grows.
Calm ==
    /\ stored \subseteq stored' /\ revoked \subseteq revoked' /\ now <= now'
    /\ \A a \in TokenIds : total[a] <= total'[a]

\* The broker is calm while it runs.
LEMMA RunningCalm ==
    ASSUME TypeOK, Running
    PROVE  Calm
<1>1. ASSUME UNCHANGED <<stored, revoked, total, now>> PROVE Calm
  BY <1>1 DEF Calm, TypeOK
<1>2. ASSUME NEW t \in TokenIds, Issuance(t) \/ DelegateTooDeep(t) \/ Revoke(t) PROVE Calm
  <2>1. CASE Issuance(t)
    <3>1. ASSUME UNCHANGED <<total, now, revoked>>, stored' = stored \cup {t} PROVE Calm
      BY <3>1 DEF Calm, TypeOK
    <3>2. CASE \E sv \in svids, h \in Humans, scopes \in ScopeLists,
                  n \in CallsAsked, d \in DepthsAsked, e \in TTLsAsked :
                     MintRoot(t, sv, h, scopes, n, d, e)
      BY <3>1, <3>2 DEF MintRoot, persist
    <3>3. CASE \E e \in TTLsAsked : DelegatePersist(t, e)
      BY <3>1, <3>3 DEF DelegatePersist, persist
    <3>4. CASE \E n \in CallsAsked : DelegateMeasure(t, n)
      BY <1>1, <3>4 DEF DelegateMeasure
    <3>5. CASE \E p \in TokenIds, csv \in svids, scopes \in ScopeLists, d \in DepthsAsked :
                  DelegateCheck(t, p, csv, scopes, d)
      BY <1>1, <3>5 DEF DelegateCheck
    <3>6. CASE Issue(t)
      BY <1>1, <3>6 DEF Issue
    <3> QED BY <2>1, <3>2, <3>3, <3>4, <3>5, <3>6 DEF Issuance
  <2>2. CASE DelegateTooDeep(t) \/ Revoke(t)
    <3>1. UNCHANGED <<total, now, stored>> /\ (revoked' = revoked \/ revoked' = revoked \cup {t})
      BY <2>2, Zenon DEF DelegateTooDeep, Revoke
    <3> QED BY <3>1 DEF Calm, TypeOK
  <2> QED BY <1>2, <2>1, <2>2
<1>3. ASSUME NEW r \in Requests, Authorize(r) PROVE Calm
  <2>1. CASE Consume(r)
    <3>1. UNCHANGED <<stored, revoked, now>>
      BY <2>1 DEF Consume
    <3>2. \A a \in TokenIds : total'[a] \in {total[a], total[a] + 1}
      BY <2>1 DEF Consume, TypeOK
    <3>3. \A a \in TokenIds : total[a] \in Nat
      BY DEF TypeOK
    <3>4. \A a \in TokenIds : total[a] <= total'[a]
      BY <3>2, <3>3
    <3>5. now <= now'
      BY <3>1 DEF TypeOK
    <3> QED BY <3>1, <3>4, <3>5 DEF Calm
  <2>2. CASE ~Consume(r)
    BY <1>1, <1>3, <2>2 DEF Authorize, AuthorizeCheck, AuthorizeClear, Answer
  <2> QED BY <2>1, <2>2
<1>4. ASSUME Tick PROVE Calm
  BY <1>4 DEF Tick, Calm, TypeOK
<1>5. ASSUME NEW s \in Subjects, RegisterWorkload(s) \/ IssueSVID(s) PROVE Calm
  BY <1>1, <1>5 DEF RegisterWorkload, IssueSVID
<1>6. ASSUME NEW a \in ApprovalIds, NEW t \in TokenIds, NEW call \in Calls,
             NEW e \in TTLsAsked, Approve(a, t, call, e)
      PROVE  Calm
  BY <1>1, <1>6 DEF Approve
<1> QED BY <1>2, <1>3, <1>4, <1>5, <1>6 DEF Running

\* A stored token keeps its claims and its lineage, with the lineage's claims,
\* and no ancestor that the store has lost comes back.
LEMMA StoredStays ==
    ASSUME BrokerInv, [Next]_vars, NEW t \in stored
    PROVE  /\ t \in TokenIds
           /\ claims'[t] = claims[t] /\ Lineage(t)' = Lineage(t)
           /\ \A a \in Lineage(t) : claims'[a] = claims[a] /\ (a \in stored' => a \in stored)
<1>1. t \in TokenIds /\ t \in Ever
  BY DEF BrokerInv, TypeOK, Accounts
<1>2. \A a \in Lineage(t) : a \in Ever
  BY <1>1 DEF BrokerInv, Trail, Lineage, Ever
<1>3. \A a \in Ever : claims'[a] = claims[a] /\ Lineage(a)' = Lineage(a)
  BY Settled DEF BrokerInv
<1>4. \A a \in stored' : a \in stored \/ a \notin Ever
  BY StoreStep DEF BrokerInv, StoreMoves
<1> QED BY <1>1, <1>2, <1>3, <1>4

\* A token that is live now was live before.
LEMMA LiveBefore ==
    ASSUME BrokerInv, BrokerInv', [Next]_vars, Calm, NEW t \in stored, checkLive(t)'
    PROVE  checkLive(t)
<1>1. /\ t \in TokenIds /\ claims'[t] = claims[t]
      /\ claims'[t].chain \cup {t} = claims[t].chain \cup {t}
  BY StoredStays DEF Lineage
<1>2. now \in Nat /\ now' \in Nat /\ claims[t].exp \in Nat
  BY <1>1 DEF BrokerInv, TypeOK, Claims
<1>3. ~(now' >= claims[t].exp) /\ (claims[t].chain \cup {t}) \cap revoked' = {}
  BY <1>1 DEF checkLive, Expired, Lineage
<1>4. ~(now >= claims[t].exp) /\ (claims[t].chain \cup {t}) \cap revoked = {}
  BY <1>2, <1>3 DEF Calm
<1> QED BY <1>4 DEF checkLive, Expired, Lineage

\* The calls an ancestor's own budget leaves, now.
Own(a) == claims[a].maxCalls - total[a]

\* What t reports, or will report, is at most b: it has been read, or a
\* counter that is still to be read is small enough.
Within(t, b) ==
    IF view[t].pc = "usage"
    THEN \/ view[t].left >= 0 /\ view[t].left <= b
         \/ \E a \in view[t].todo : Own(a) <= b
    ELSE view[t].left <= b

View == [pc : {"none", "usage", "scopes", "children", "visit", "done"}, live : BOOLEAN,
         at : Nat, todo : SUBSET TokenIds, left : Int, scopes : Seq(Int),
         kids : SUBSET TokenIds, children : SUBSET TokenIds]

ReportType ==
    /\ root \in TokenIds \cup {None}
    /\ stack \in Seq(TokenIds)
    /\ view \in [TokenIds -> View]
    /\ \A t \in TokenIds : view[t].pc = "none" => view[t].children = {}

Busy == {"usage", "scopes", "children", "visit"}

\* The calls under way are the busy frames: the root's outermost, each the call
\* for a child of the one that made it.
Calling ==
    /\ stack # <<>> => stack[1] = root
    /\ \A i \in DOMAIN stack : i > 1 => claims[stack[i]].parent = stack[i - 1]
    /\ \A i, j \in DOMAIN stack : i < j => stack[i] \in claims[stack[j]].chain
    /\ \A i \in DOMAIN stack : /\ view[stack[i]].pc \in Busy
                               /\ i < Len(stack) => view[stack[i]].pc = "visit"
    /\ \A t \in TokenIds : view[t].pc \in Busy => \E i \in DOMAIN stack : stack[i] = t

\* What was left to t at the start bounds what is left to it now.
Started(t) ==
    /\ t \in stored
    /\ was[t] \in Nat
    /\ Lineage(t) \cap stored \subseteq DOMAIN was
    /\ checkLive(t) /\ Lineage(t) \subseteq stored => \E a \in Lineage(t) : Own(a) <= was[t]

\* The call for t is one below the root; it saw t live if t still is.
Placed(t) ==
    /\ t \in stored /\ root \in Lineage(t)
    /\ view[t].at <= now
    /\ checkLive(t) => view[t].live

\* Of a call other than the root's: the caller has read its children and taken
\* t off its list, and bounds the calls that t reports; a live t that is done
\* is in the caller's answer.
Called(t) ==
    t # root =>
        /\ claims[t].parent \in TokenIds
        /\ view[claims[t].parent].pc \in {"visit", "done"}
        /\ t \notin view[claims[t].parent].kids
        /\ view[t].live => /\ view[claims[t].parent].live
                           /\ Within(t, view[claims[t].parent].left)
                           /\ view[t].pc = "done" => t \in view[claims[t].parent].children

\* The loop over the lineage.
Reading(t) ==
    view[t].pc = "usage" =>
        /\ view[t].todo # {} /\ view[t].todo \subseteq Lineage(t)
        /\ Lineage(t) \ view[t].todo \subseteq stored
        /\ \/ view[t].todo = Lineage(t) /\ view[t].left = -1
           \/ view[t].left \in Nat /\ \E a \in Lineage(t) : Own(a) <= view[t].left

\* After the loop.
Measured(t) ==
    view[t].pc \in {"scopes", "children", "visit", "done"} =>
        /\ view[t].left \in Nat /\ Lineage(t) \subseteq stored
        /\ IF view[t].live THEN \E a \in Lineage(t) : Own(a) <= view[t].left
                           ELSE view[t].left = 0

\* The calls reported are at most those left at the start.
SinceStart(t) ==
    t \in DOMAIN was /\ view[t].live /\ Lineage(t) \subseteq stored => Within(t, was[t])

Scoped(t) ==
    view[t].pc \in {"children", "visit", "done"} =>
        \A i \in DOMAIN view[t].scopes : view[t].scopes[i] <= view[t].left

\* The children still to be visited, and those in the answer.
Branches(t) ==
    /\ view[t].pc # "visit" => view[t].kids = {}
    /\ \A k \in view[t].kids : k \in stored /\ claims[k].parent = t
    /\ \A k \in view[t].children :
          view[k].pc = "done" /\ view[k].live /\ claims[k].parent = t

\* No child that was there at the start and has not expired is left out.
NoneMissing(t) ==
    view[t].pc \in {"visit", "done"} =>
        \A k \in DOMAIN was : claims[k].parent = t /\ ~Expired(claims[k].exp) =>
            k \in view[t].kids \/ view[k].pc # "none"

Frame(t) ==
    /\ Placed(t) /\ Called(t) /\ Reading(t) /\ Measured(t) /\ SinceStart(t)
    /\ Scoped(t) /\ Branches(t) /\ NoneMissing(t)

ReportInv ==
    /\ ReportType
    /\ Calling
    /\ \A t \in DOMAIN was : Started(t)
    /\ \A t \in TokenIds : view[t].pc # "none" => Frame(t)

\* A calm step leaves a counter that was small enough small enough.
LEMMA OwnCalm ==
    ASSUME BrokerInv, BrokerInv', [Next]_vars, Calm, NEW t \in stored, NEW a \in Lineage(t)
    PROVE  /\ Own(a) \in Int /\ Own(a)' \in Int /\ Own(a)' <= Own(a)
<1>1. a \in TokenIds /\ claims'[a] = claims[a]
  BY StoredStays, LineageFacts
<1>2. claims[a].maxCalls \in Nat /\ total[a] \in Nat /\ total'[a] \in Nat
  BY <1>1 DEF BrokerInv, TypeOK, Claims
<1>3. total[a] <= total'[a]
  BY <1>1 DEF Calm
<1> QED BY <1>1, <1>2, <1>3 DEF Own

\* The same of what a frame is bounded by.
LEMMA WithinCalm ==
    ASSUME BrokerInv, BrokerInv', [Next]_vars, Calm, UNCHANGED reportVars, ReportType,
           NEW t \in stored, Reading(t), NEW b \in Int, Within(t, b)
    PROVE  Within(t, b)'
<1>1. view' = view /\ t \in TokenIds /\ view[t] \in View
  BY StoredStays DEF reportVars, ReportType
<1>2. CASE view[t].pc = "usage"
  <2>1. CASE view[t].left >= 0 /\ view[t].left <= b
    BY <1>1, <1>2, <2>1 DEF Within
  <2>2. CASE \E a \in view[t].todo : Own(a) <= b
    <3>1. PICK a \in view[t].todo : Own(a) <= b
      BY <2>2
    <3>2. a \in Lineage(t)
      BY <1>2 DEF Reading
    <3>3. Own(a)' <= b
      BY <3>1, <3>2, OwnCalm
    <3> QED BY <1>1, <1>2, <3>3 DEF Within
  <2> QED BY <1>2, <2>1, <2>2 DEF Within
<1>3. CASE view[t].pc # "usage"
  BY <1>1, <1>3 DEF Within
<1> QED BY <1>2, <1>3

\* While the broker runs, a frame stays as it should be.
LEMMA FrameCalm ==
    ASSUME BrokerInv, BrokerInv', [Next]_vars, Calm, UNCHANGED reportVars, ReportInv,
           NEW t \in TokenIds, Frame(t)
    PROVE  Frame(t)'
<1>1. root' = root /\ stack' = stack /\ view' = view /\ was' = was
  BY DEF reportVars
<1>2. t \in stored /\ t \in stored' /\ Reading(t)
  BY DEF Frame, Placed, Calm
<1>3. /\ claims'[t] = claims[t] /\ Lineage(t)' = Lineage(t)
      /\ \A a \in Lineage(t) : claims'[a] = claims[a] /\ (a \in stored' => a \in stored)
  BY <1>2, StoredStays
<1>4. \A a \in Lineage(t) : Own(a) \in Int /\ Own(a)' \in Int /\ Own(a)' <= Own(a)
  BY <1>2, OwnCalm
<1>5. now \in Nat /\ now' \in Nat /\ now <= now'
  BY DEF BrokerInv, TypeOK, Calm
<1>6. view[t] \in View /\ ReportType
  BY DEF ReportInv, ReportType
<1>7. Placed(t)'
  BY <1>1, <1>2, <1>3, <1>5, <1>6, LiveBefore DEF Frame, Placed, View
<1>8. Called(t)'
  <2> SUFFICES ASSUME t # root PROVE Called(t)'
    BY <1>1 DEF Called
  <2>1. PICK p : p = claims[t].parent
    OBVIOUS
  <2>2. p \in TokenIds /\ view[p].left \in Int
    BY <2>1 DEF Frame, Called, ReportInv, ReportType, View
  <2>3. view[t].live => Within(t, view[p].left)'
    <3>1. PICK b : b = view[p].left
      OBVIOUS
    <3>2. view[t].live => Within(t, b)'
      BY <1>2, <1>6, <2>1, <2>2, <3>1, WithinCalm DEF Frame, Called
    <3> QED BY <1>1, <3>1, <3>2 DEF Within
  <2> QED BY <1>1, <1>3, <2>1, <2>2, <2>3 DEF Frame, Called
<1>9. Reading(t)'
  <2> SUFFICES ASSUME view[t].pc = "usage" PROVE Reading(t)'
    BY <1>1 DEF Reading
  <2>1. ASSUME NEW a \in Lineage(t), Own(a) <= view[t].left, view[t].left \in Nat
        PROVE  Own(a)' <= view'[t].left
    BY <1>1, <1>4, <2>1
  <2> QED BY <1>1, <1>2, <1>3, <2>1 DEF Reading, Calm
<1>10. Measured(t)'
  <2> SUFFICES ASSUME view[t].pc \in {"scopes", "children", "visit", "done"} PROVE Measured(t)'
    BY <1>1 DEF Measured
  <2>1. ASSUME NEW a \in Lineage(t), Own(a) <= view[t].left, view[t].left \in Nat
        PROVE  Own(a)' <= view'[t].left
    BY <1>1, <1>4, <2>1
  <2> QED BY <1>1, <1>2, <1>3, <2>1 DEF Frame, Measured, Calm
<1>11. SinceStart(t)'
  <2> SUFFICES ASSUME t \in DOMAIN was, view[t].live, Lineage(t)' \subseteq stored'
               PROVE  Within(t, was[t])'
    BY <1>1 DEF SinceStart
  <2>1. Lineage(t) \subseteq stored
    BY <1>3
  <2>2. was[t] \in Int
    BY DEF ReportInv, Started
  <2>3. PICK b : b = was[t]
    OBVIOUS
  <2>4. Within(t, b)'
    BY <1>2, <1>6, <2>1, <2>2, <2>3, WithinCalm DEF Frame, SinceStart
  <2> QED BY <1>1, <2>3, <2>4 DEF Within
<1>12. Scoped(t)'
  BY <1>1 DEF Frame, Scoped
<1>13. Branches(t)'
  <2>1. \A k \in view[t].kids : k \in stored' /\ claims'[k].parent = t
    BY StoredStays DEF Frame, Branches, Calm
  <2>2. \A k \in view[t].children : k \in stored /\ claims'[k].parent = t
    <3> TAKE k \in view[t].children
    <3>1. k \in TokenIds /\ view[k].pc = "done" /\ claims[k].parent = t
      BY <1>6 DEF Frame, Branches, View
    <3>2. k \in stored
      BY <3>1 DEF ReportInv, Frame, Placed
    <3> QED BY <3>1, <3>2, StoredStays
  <2> QED BY <1>1, <2>1, <2>2 DEF Frame, Branches
<1>14. NoneMissing(t)'
  <2> SUFFICES ASSUME view[t].pc \in {"visit", "done"}, NEW k \in DOMAIN was,
                      claims'[k].parent = t, ~(now' >= claims'[k].exp)
               PROVE  k \in view[t].kids \/ view[k].pc # "none"
    BY <1>1 DEF NoneMissing, Expired
  <2>1. k \in stored
    BY DEF ReportInv, Started
  <2>2. k \in TokenIds /\ claims'[k] = claims[k]
    BY <2>1, StoredStays
  <2>3. claims[k].exp \in Nat
    BY <2>2 DEF BrokerInv, TypeOK, Claims
  <2> QED BY <1>5, <2>2, <2>3 DEF Frame, NoneMissing, Expired
<1> QED BY <1>7, <1>8, <1>9, <1>10, <1>11, <1>12, <1>13, <1>14 DEF Frame

\* Before a report has called for a token, there is nothing of it.
LEMMA NoViewType == NoView \in View
BY DEF NoView, View

\* Without a call under way there are no frames to keep.
LEMMA Idle ==
    ASSUME root' \in TokenIds \cup {None}, stack' = <<>>, view' = NoViews,
           \A t \in DOMAIN was' : Started(t)'
    PROVE  ReportInv'
<1>1. /\ view' \in [TokenIds -> View]
      /\ \A t \in TokenIds : view'[t].pc = "none" /\ view'[t].children = {}
  BY NoViewType DEF NoViews, NoView
<1>2. ReportType'
  BY <1>1 DEF ReportType
<1>3. DOMAIN stack' = {}
  OBVIOUS
<1>4. Calling'
  BY <1>1, <1>3 DEF Calling, Busy
<1> QED BY <1>1, <1>2, <1>4 DEF ReportInv

\* A step of the broker keeps the invariant.
LEMMA BrokerStepInv ==
    ASSUME BrokerInv, BrokerInv', [Next]_vars, Calm, UNCHANGED reportVars, ReportInv
    PROVE  ReportInv'
<1>1. root' = root /\ stack' = stack /\ view' = view /\ was' = was
  BY DEF reportVars
<1>2. ReportType'
  BY <1>1 DEF ReportInv, ReportType
<1>3. Calling'
  <2>1. \A i \in DOMAIN stack : stack[i] \in TokenIds /\ view[stack[i]].pc # "none"
    BY DEF ReportInv, ReportType, Calling, Busy
  <2>2. \A i \in DOMAIN stack : stack[i] \in stored
    BY <2>1 DEF ReportInv, Frame, Placed
  <2>3. \A i \in DOMAIN stack : claims'[stack[i]] = claims[stack[i]]
    BY <2>2, StoredStays
  <2> QED BY <1>1, <2>3 DEF ReportInv, Calling
<1>4. \A t \in DOMAIN was : Started(t)'
  <2> TAKE t \in DOMAIN was
  <2>1. Started(t)
    BY DEF ReportInv
  <2>2. t \in stored /\ t \in stored'
    BY <2>1 DEF Started, Calm
  <2>3. /\ claims'[t] = claims[t] /\ Lineage(t)' = Lineage(t)
        /\ \A a \in Lineage(t) : claims'[a] = claims[a] /\ (a \in stored' => a \in stored)
    BY <2>2, StoredStays
  <2>4. ASSUME checkLive(t)', Lineage(t)' \subseteq stored'
        PROVE  \E a \in Lineage(t) : Own(a)' <= was[t]
    <3>1. checkLive(t) /\ Lineage(t) \subseteq stored
      BY <2>2, <2>3, <2>4, LiveBefore
    <3>2. PICK a \in Lineage(t) : Own(a) <= was[t]
      BY <2>1, <3>1 DEF Started
    <3>3. Own(a) \in Int /\ Own(a)' \in Int /\ Own(a)' <= Own(a)
      BY <2>2, OwnCalm
    <3> QED BY <2>1, <3>2, <3>3 DEF Started
  <2> QED BY <1>1, <2>1, <2>2, <2>3, <2>4 DEF Started
<1>5. \A t \in TokenIds : view[t].pc # "none" => Frame(t)'
  BY FrameCalm DEF ReportInv
<1> QED BY <1>1, <1>2, <1>3, <1>4, <1>5 DEF ReportInv

-----------------------------------------------------------------------------
(* The steps of a report: vars does not change. *)

\* The budgets of the store leave no token in debt.
LEMMA OwnNat ==
    ASSUME BrokerInv, NEW a \in TokenIds
    PROVE  Own(a) \in Nat
<1>1. claims[a].maxCalls \in Nat /\ total[a] \in Nat
  BY DEF BrokerInv, TypeOK, Claims
<1>2. total[a] <= claims[a].maxCalls
  <2>1. CASE a \in stored
    BY <2>1 DEF BrokerInv, Accounts, SharedBudget
  <2>2. CASE a \notin stored
    BY <1>1, <2>2 DEF BrokerInv, Accounts
  <2> QED BY <2>1, <2>2
<1> QED BY <1>1, <1>2 DEF Own

\* A nonempty set of tokens has one of the least depth.
LEMMA Shallowest ==
    ASSUME BrokerInv, NEW N \in SUBSET TokenIds, N # {}
    PROVE  \E x \in N : \A y \in N : claims[x].depth <= claims[y].depth
<1> DEFINE M == {claims[a].depth : a \in N}
<1>1. \A a \in TokenIds : claims[a].depth \in Nat
  BY DEF BrokerInv, TypeOK, Claims
<1>2. M \in SUBSET Nat /\ M # {}
  BY <1>1
<1>3. PICK i \in M : \A j \in M : i <= j
  <2> HIDE DEF M
  <2> QED BY <1>2, LeastOf
<1>4. PICK x \in N : i = claims[x].depth
  BY <1>3
<1> QED BY <1>3, <1>4

\* What is left to a token now is at most what any counter of its lineage
\* leaves it.
LEMMA CallsLeftBound ==
    ASSUME BrokerInv, NEW t \in TokenIds
    PROVE  /\ CallsLeft(t) \in Nat
           /\ ~checkLive(t) => CallsLeft(t) = 0
           /\ \A a \in Lineage(t) : CallsLeft(t) <= Own(a)
           /\ checkLive(t) /\ Lineage(t) \subseteq stored =>
                 \E a \in Lineage(t) : Own(a) = CallsLeft(t)
<1> DEFINE S == {Own(a) : a \in Lineage(t)}
<1>1. Lineage(t) \subseteq TokenIds /\ t \in Lineage(t)
  BY LineageFacts
<1>2. S \in SUBSET Nat /\ S # {} /\ \A a \in Lineage(t) : Own(a) \in Nat
  BY <1>1, OwnNat
<1>3. Min(S) \in S /\ \A n \in S : Min(S) <= n
  <2> HIDE DEF S
  <2>1. \E i \in S : \A j \in S : i <= j
    BY <1>2, LeastOf
  <2> QED BY <2>1 DEF Min
<1>4. CallsLeft(t) = IF Lineage(t) \subseteq stored /\ checkLive(t) THEN Min(S) ELSE 0
  BY DEF CallsLeft, Own
<1>5. CASE Lineage(t) \subseteq stored /\ checkLive(t)
  BY <1>2, <1>3, <1>4, <1>5
<1>6. CASE ~(Lineage(t) \subseteq stored /\ checkLive(t))
  BY <1>2, <1>4, <1>6
<1> QED BY <1>5, <1>6

\* A step of a report leaves the broker's state, and what is computed from it.
LEMMA BrokerSame ==
    ASSUME UNCHANGED vars
    PROVE  /\ stored' = stored /\ claims' = claims /\ now' = now
           /\ total' = total /\ perScope' = perScope
           /\ \A t : /\ Lineage(t)' = Lineage(t)
                     /\ checkLive(t)' <=> checkLive(t)
                     /\ Own(t)' = Own(t)
BY DEF vars, Lineage, checkLive, Expired, Own

\* The frame of t is as it was, but for kids that have been called, children
\* that have been added to the answer, and the return of t itself.
Kept(t) ==
    /\ \/ view'[t].pc = view[t].pc
       \/ /\ view[t].pc = "visit" /\ view'[t].pc = "done" /\ view'[t].kids = {}
          /\ t # root /\ view[t].live => t \in view'[claims[t].parent].children
    /\ view'[t].live = view[t].live
    /\ view'[t].at = view[t].at /\ view'[t].todo = view[t].todo
    /\ view'[t].left = view[t].left /\ view'[t].scopes = view[t].scopes
    /\ view'[t].kids \subseteq view[t].kids
    /\ \A k \in view[t].kids \ view'[t].kids : view'[k].pc # "none"
    /\ \A k \in view'[t].children :
          \/ k \in view[t].children
          \/ view'[k].pc = "done" /\ view'[k].live /\ claims[k].parent = t

\* What a frame never takes back: its number and its answer, once it is there.
Advances(t) ==
    view[t].pc # "none" =>
        /\ view'[t].pc # "none" /\ view'[t].live = view[t].live
        /\ view[t].pc \in {"visit", "done"} =>
              /\ view'[t].pc \in {"visit", "done"} /\ view'[t].left = view[t].left
              /\ view'[t].kids \subseteq view[t].kids
              /\ view[t].children \subseteq view'[t].children
        /\ view[t].pc = "done" => view'[t].pc = "done"

\* A frame that is left alone stays as it should be while others advance.
LEMMA FrameKept ==
    ASSUME UNCHANGED vars, root' = root, was' = was, ReportType, DOMAIN was \subseteq TokenIds,
           NEW t \in TokenIds, Frame(t), Kept(t), \A x \in TokenIds : Advances(x),
           view[t].children \subseteq view'[t].children
    PROVE  Frame(t)'
<1>1. /\ stored' = stored /\ claims' = claims /\ now' = now
      /\ Lineage(t)' = Lineage(t) /\ (checkLive(t)' <=> checkLive(t))
      /\ \A a : Own(a)' = Own(a)
  BY BrokerSame
<1>2. /\ view'[t].live = view[t].live
      /\ view'[t].at = view[t].at /\ view'[t].todo = view[t].todo
      /\ view'[t].left = view[t].left /\ view'[t].scopes = view[t].scopes
      /\ view'[t].kids \subseteq view[t].kids
  BY DEF Kept
<1>30. \/ view'[t].pc = view[t].pc
       \/ /\ view[t].pc = "visit" /\ view'[t].pc = "done" /\ view'[t].kids = {}
          /\ t # root /\ view[t].live => t \in view'[claims[t].parent].children
  BY DEF Kept
<1>3. \A b : Within(t, b)' <=> Within(t, b)
  BY <1>1, <1>2, <1>30 DEF Within
<1>4. Placed(t)'
  BY <1>1, <1>2 DEF Frame, Placed
<1>5. Called(t)'
  <2> SUFFICES ASSUME t # root PROVE Called(t)'
    BY DEF Called
  <2>1. PICK p : p = claims[t].parent
    OBVIOUS
  <2>2. /\ p \in TokenIds /\ view[p].pc \in {"visit", "done"} /\ t \notin view[p].kids
        /\ view[t].live => /\ view[p].live /\ Within(t, view[p].left)
                           /\ view[t].pc = "done" => t \in view[p].children
    BY <2>1 DEF Frame, Called
  <2>3. /\ view'[p].pc \in {"visit", "done"} /\ view'[p].left = view[p].left
        /\ view'[p].kids \subseteq view[p].kids /\ view'[p].live = view[p].live
        /\ view[p].children \subseteq view'[p].children
    BY <2>2 DEF Advances
  <2>4. view[t].live => Within(t, view[p].left)'
    <3>1. PICK b : b = view[p].left
      OBVIOUS
    <3>2. view[t].live => Within(t, b)'
      BY <1>3, <2>2, <3>1
    <3> QED BY <2>3, <3>1, <3>2 DEF Within
  <2> QED BY <1>1, <1>2, <1>30, <2>1, <2>2, <2>3, <2>4 DEF Called
<1>6. Reading(t)' /\ Measured(t)'
  BY <1>1, <1>2, <1>30 DEF Frame, Reading, Measured
<1>7. SinceStart(t)'
  <2> SUFFICES ASSUME t \in DOMAIN was, view[t].live, Lineage(t) \subseteq stored
               PROVE  Within(t, was[t])'
    BY <1>1, <1>2 DEF SinceStart
  <2>1. PICK b : b = was[t]
    OBVIOUS
  <2>2. Within(t, b)'
    BY <1>3, <2>1 DEF Frame, SinceStart
  <2> QED BY <2>1, <2>2 DEF Within
<1>8. Scoped(t)'
  BY <1>2, <1>30 DEF Frame, Scoped
<1>9. Branches(t)'
  <2>1. \A k \in view'[t].children :
           view'[k].pc = "done" /\ view'[k].live /\ claims[k].parent = t
    <3> TAKE k \in view'[t].children
    <3>1. CASE k \in view[t].children
      <4>1. view[k].pc = "done" /\ view[k].live /\ claims[k].parent = t /\ k \in TokenIds
        BY <3>1 DEF Frame, Branches, ReportType, View
      <4> QED BY <4>1 DEF Advances
    <3>2. CASE k \notin view[t].children
      BY <3>2 DEF Kept
    <3> QED BY <3>1, <3>2
  <2> QED BY <1>1, <1>2, <1>30, <2>1 DEF Frame, Branches
<1>10. NoneMissing(t)'
  <2> SUFFICES ASSUME view[t].pc \in {"visit", "done"}, NEW k \in DOMAIN was,
                      claims[k].parent = t, ~Expired(claims[k].exp)
               PROVE  k \in view'[t].kids \/ view'[k].pc # "none"
    BY <1>1, <1>30 DEF NoneMissing, Expired
  <2>1. k \in view[t].kids \/ view[k].pc # "none"
    BY DEF Frame, NoneMissing
  <2> QED BY <2>1 DEF Advances, Kept
<1> QED BY <1>4, <1>5, <1>6, <1>7, <1>8, <1>9, <1>10 DEF Frame

\* The innermost call.
LEMMA Innermost ==
    ASSUME BrokerInv, ReportInv, NEW t, NEW pc \in Busy, At(t, pc)
    PROVE  /\ t \in TokenIds /\ t \in stored /\ stack # <<>>
           /\ Len(stack) \in DOMAIN stack /\ t = stack[Len(stack)]
           /\ view[t] \in View /\ view[t].pc = pc /\ Frame(t)
           /\ DOMAIN was \subseteq TokenIds
<1>1. stack \in Seq(TokenIds) /\ stack # <<>> /\ t = stack[Len(stack)] /\ view[t].pc = pc
  BY DEF At, Last, ReportInv, ReportType
<1>2. Len(stack) \in DOMAIN stack /\ t \in TokenIds
  BY <1>1
<1>3. view[t] \in View /\ Frame(t)
  BY <1>1, <1>2 DEF ReportInv, ReportType, Busy
<1>4. t \in stored
  BY <1>3 DEF Frame, Placed
<1>5. DOMAIN was \subseteq TokenIds
  BY DEF ReportInv, Started, BrokerInv, TypeOK
<1> QED BY <1>1, <1>2, <1>3, <1>4, <1>5

\* No call is under way twice.
LEMMA CalledOnce ==
    ASSUME BrokerInv, ReportType, Calling, NEW i \in DOMAIN stack, NEW j \in DOMAIN stack, i < j
    PROVE  stack[i] # stack[j]
<1>1. stack[j] \in TokenIds /\ stack[i] \in claims[stack[j]].chain
  BY DEF ReportType, Calling
<1> QED BY <1>1, LineageFacts

\* The innermost call works on: no call begins or returns.
LEMMA CallingKept ==
    ASSUME BrokerInv, ReportType, Calling, UNCHANGED <<vars, root, stack>>, stack # <<>>,
           NEW t, t = stack[Len(stack)], view'[t].pc \in Busy,
           \A x \in TokenIds \ {t} : view'[x].pc = view[x].pc
    PROVE  Calling'
<1>1. claims' = claims /\ stack' = stack /\ root' = root
  BY DEF vars
<1>2. stack \in Seq(TokenIds) /\ Len(stack) \in DOMAIN stack
  BY DEF ReportType
<1>3. ASSUME NEW i \in DOMAIN stack
      PROVE  view'[stack[i]].pc \in Busy /\ (i < Len(stack) => view'[stack[i]].pc = "visit")
  <2>1. CASE i = Len(stack)
    BY <2>1
  <2>2. CASE i # Len(stack)
    <3>1. i < Len(stack) /\ stack[i] \in TokenIds
      BY <1>2, <2>2
    <3>2. stack[i] # t
      BY <1>2, <3>1, CalledOnce
    <3> QED BY <3>1, <3>2 DEF Calling
  <2> QED BY <2>1, <2>2
<1>4. \A x \in TokenIds : view'[x].pc \in Busy => \E i \in DOMAIN stack : stack[i] = x
  BY <1>2 DEF Calling
<1> QED BY <1>1, <1>3, <1>4 DEF Calling

\* The frame of a call that begins.
LEMMA EnteredFields ==
    ASSUME BrokerInv, NEW t \in TokenIds
    PROVE  /\ Entered(t) \in View
           /\ Entered(t).pc = "usage" /\ Entered(t).at = now /\ Entered(t).todo = Lineage(t)
           /\ Entered(t).live <=> checkLive(t)
           /\ Entered(t).left = -1 /\ Entered(t).kids = {} /\ Entered(t).children = {}
<1>1. Lineage(t) \subseteq TokenIds /\ now \in Nat
  BY LineageFacts DEF BrokerInv, TypeOK
<1>2. checkLive(t) \in BOOLEAN
  BY DEF checkLive
<1>3. PICK l : l = checkLive(t)
  OBVIOUS
<1>4. Entered(t) = [NoView EXCEPT !.pc = "usage", !.at = now, !.todo = Lineage(t), !.live = l]
  BY <1>3 DEF Entered
<1>5. l \in BOOLEAN
  BY <1>2, <1>3
<1>6. Entered(t) = [pc |-> "usage", live |-> l, at |-> now, todo |-> Lineage(t), left |-> -1,
                    scopes |-> <<>>, kids |-> {}, children |-> {}]
  BY <1>4 DEF NoView
<1>7. <<>> \in Seq(Int)
  OBVIOUS
<1> HIDE DEF Entered
<1>8. Entered(t) \in View
  BY <1>1, <1>5, <1>6, <1>7 DEF View
<1>9. Entered(t).live = l
  BY <1>6
<1> QED BY <1>3, <1>6, <1>8, <1>9

\* A call that has just begun has read nothing yet.
LEMMA EnteredFrame ==
    ASSUME BrokerInv, UNCHANGED vars, NEW t \in stored, view'[t] = Entered(t),
           root' \in Lineage(t), t \in DOMAIN was' => Started(t)', Called(t)'
    PROVE  Frame(t)'
<1>1. t \in TokenIds /\ Lineage(t) \subseteq TokenIds /\ now \in Nat
  BY LineageFacts DEF BrokerInv, TypeOK
<1>2. /\ view'[t].pc = "usage" /\ view'[t].at = now /\ view'[t].todo = Lineage(t)
      /\ view'[t].live <=> checkLive(t)
      /\ view'[t].left = -1 /\ view'[t].kids = {} /\ view'[t].children = {}
  BY <1>1, EnteredFields
<1>3. /\ stored' = stored /\ now' = now
      /\ Lineage(t)' = Lineage(t) /\ (checkLive(t)' <=> checkLive(t))
  BY BrokerSame
<1>4. Placed(t)'
  BY <1>1, <1>2, <1>3 DEF Placed
<1>5. Reading(t)' /\ Measured(t)'
  BY <1>1, <1>2, <1>3 DEF Reading, Measured, Lineage
<1>6. SinceStart(t)'
  <2> SUFFICES ASSUME t \in DOMAIN was', view'[t].live, Lineage(t) \subseteq stored
               PROVE  Within(t, was[t])'
    BY <1>3 DEF SinceStart
  <2>1. \E a \in Lineage(t) : Own(a)' <= was'[t]
    BY <1>2, <1>3 DEF Started
  <2> QED BY <1>2, <2>1 DEF Within
<1>7. Scoped(t)' /\ Branches(t)' /\ NoneMissing(t)'
  BY <1>2 DEF Scoped, Branches, NoneMissing
<1> QED BY <1>4, <1>5, <1>6, <1>7 DEF Frame

\* Begin.
LEMMA BeginInv ==
    ASSUME BrokerInv, NEW t \in TokenIds, Begin(t)
    PROVE  ReportInv'
<1>1. /\ t \in stored /\ root' = t /\ stack' = <<t>> /\ UNCHANGED vars
      /\ view' = [NoViews EXCEPT ![t] = Entered(t)]
      /\ was' = [a \in stored |-> CallsLeft(a)]
  BY DEF Begin
<1>2. /\ stored' = stored /\ claims' = claims
      /\ \A a : /\ Lineage(a)' = Lineage(a) /\ (checkLive(a)' <=> checkLive(a))
                /\ Own(a)' = Own(a)
  BY <1>1, BrokerSame
<1>3. /\ view' \in [TokenIds -> View] /\ view'[t] = Entered(t)
      /\ view'[t].pc = "usage"
      /\ \A x \in TokenIds \ {t} : view'[x].pc = "none" /\ view'[x].children = {}
  <2>1. Entered(t) \in View /\ Entered(t).pc = "usage"
    BY EnteredFields
  <2>2. /\ NoViews \in [TokenIds -> View]
        /\ \A x \in TokenIds : NoViews[x].pc = "none" /\ NoViews[x].children = {}
    BY NoViewType DEF NoViews, NoView
  <2> QED BY <1>1, <2>1, <2>2
<1>4. ReportType'
  BY <1>1, <1>3 DEF ReportType
<1>5. Calling'
  <2>1. DOMAIN stack' = {1} /\ stack'[1] = t /\ Len(stack') = 1
    BY <1>1
  <2> QED BY <1>1, <1>3, <2>1 DEF Calling, Busy
<1>6. \A a \in DOMAIN was' : Started(a)'
  <2> SUFFICES ASSUME NEW a \in stored PROVE Started(a)'
    BY <1>1
  <2>1. a \in TokenIds /\ was'[a] = CallsLeft(a) /\ DOMAIN was' = stored
    BY <1>1 DEF BrokerInv, TypeOK
  <2>2. /\ CallsLeft(a) \in Nat
        /\ checkLive(a) /\ Lineage(a) \subseteq stored => \E b \in Lineage(a) : Own(b) = CallsLeft(a)
    BY <2>1, CallsLeftBound
  <2> QED BY <1>2, <2>1, <2>2 DEF Started
<1>7. Frame(t)'
  <2>1. Called(t)'
    BY <1>1 DEF Called
  <2>2. root' \in Lineage(t)
    BY <1>1 DEF Lineage
  <2> QED BY <1>1, <1>3, <1>6, <2>1, <2>2, EnteredFrame
<1> QED BY <1>3, <1>4, <1>5, <1>6, <1>7 DEF ReportInv

\* What the innermost call does without calling or returning.
LEMMA WorksOn ==
    ASSUME BrokerInv, ReportInv, UNCHANGED <<vars, root, stack, was>>,
           NEW pc \in Busy, pc # "visit", NEW t, At(t, pc), NEW w \in View, w.pc \in Busy,
           w.live = view[t].live, view' = [view EXCEPT ![t] = w], Frame(t)'
    PROVE  ReportInv'
<1>1. /\ t \in TokenIds /\ stack # <<>> /\ t = stack[Len(stack)] /\ view[t].pc = pc
      /\ DOMAIN was \subseteq TokenIds
  BY Innermost
<1>2. /\ view' \in [TokenIds -> View] /\ view'[t] = w
      /\ \A x \in TokenIds \ {t} : view'[x] = view[x]
  BY <1>1 DEF ReportInv, ReportType
<1>3. ReportType' /\ UNCHANGED vars /\ root' = root /\ was' = was
  BY <1>2 DEF ReportInv, ReportType, Busy
<1>4. Calling'
  BY <1>1, <1>2, CallingKept DEF ReportInv
<1>5. \A a \in DOMAIN was' : Started(a)'
  BY <1>3, BrokerSame DEF ReportInv, Started
<1>6. \A x \in TokenIds : Advances(x)
  <2> TAKE x \in TokenIds
  <2>1. CASE x = t
    BY <1>1, <1>2, <2>1 DEF Advances, Busy
  <2>2. CASE x # t
    BY <1>2, <2>2 DEF Advances
  <2> QED BY <2>1, <2>2
<1>7. ASSUME NEW x \in TokenIds \ {t}, view'[x].pc # "none" PROVE Frame(x)'
  <2>1. Frame(x) /\ Kept(x) /\ view[x].children \subseteq view'[x].children
    BY <1>2, <1>7 DEF ReportInv, Kept
  <2> QED BY <1>1, <1>3, <1>6, <2>1, FrameKept DEF ReportInv
<1> QED BY <1>2, <1>3, <1>4, <1>5, <1>7 DEF ReportInv

\* ReadUsage.
LEMMA ReadUsageInv ==
    ASSUME BrokerInv, ReportInv, NEW t \in TokenIds, ReadUsage(t)
    PROVE  ReportInv'
<1> DEFINE v    == view[t]
           a    == CHOOSE x \in v.todo : \A y \in v.todo : claims[x].depth <= claims[y].depth
           left == IF v.left < 0 \/ Own(a) < v.left THEN Own(a) ELSE v.left
           last == v.todo = {a}
           w    == [v EXCEPT !.todo = @ \ {a},
                             !.pc   = IF last THEN "scopes" ELSE @,
                             !.left = IF last /\ (~v.live \/ left < 0) THEN 0 ELSE left]
<1>1. /\ UNCHANGED <<vars, root, was>> /\ At(t, "usage")
      /\ IF a \notin stored THEN stack' = <<>> /\ view' = NoViews
         ELSE view' = [view EXCEPT ![t] = w] /\ UNCHANGED stack
  BY DEF ReadUsage, Own
<1>2. "usage" \in Busy /\ "usage" # "visit"
  BY DEF Busy
<1>3. /\ v \in View /\ v.pc = "usage" /\ Frame(t) /\ t \in stored /\ DOMAIN was \subseteq TokenIds
  BY <1>1, <1>2, Innermost
<1>4. /\ v.todo # {} /\ v.todo \subseteq Lineage(t) /\ Lineage(t) \ v.todo \subseteq stored
      /\ \/ v.todo = Lineage(t) /\ v.left = -1
         \/ v.left \in Nat /\ \E c \in Lineage(t) : Own(c) <= v.left
  BY <1>3 DEF Frame, Reading
<1>5. Lineage(t) \subseteq TokenIds
  BY LineageFacts
<1>6. a \in v.todo
  <2>1. v.todo \in SUBSET TokenIds
    BY <1>4, <1>5
  <2>2. \E x \in v.todo : \A y \in v.todo : claims[x].depth <= claims[y].depth
    BY <1>4, <2>1, Shallowest
  <2> QED BY <2>2
<1>7. Own(a) \in Nat /\ \A c \in Lineage(t) : Own(c) \in Nat
  BY <1>4, <1>5, <1>6, OwnNat
<1>8. CASE a \notin stored
  <2>1. \A x \in DOMAIN was' : Started(x)'
    BY <1>1, BrokerSame DEF ReportInv, Started
  <2>2. root' \in TokenIds \cup {None}
    BY <1>1 DEF ReportInv, ReportType
  <2> QED BY <1>1, <1>8, <2>1, <2>2, Idle
<1>9. CASE a \in stored
  <2> HIDE DEF a
  <2>1. left \in Nat /\ left <= Own(a) /\ (v.left \in Nat => left <= v.left)
        /\ (left = Own(a) \/ (left = v.left /\ v.left \in Nat))
    BY <1>4, <1>7
  <2> HIDE DEF left
  <2>2. /\ w \in View /\ w.todo = v.todo \ {a} /\ w.live = v.live /\ w.at = v.at
        /\ w.scopes = v.scopes /\ w.kids = v.kids /\ w.children = v.children
        /\ w.pc = (IF last THEN "scopes" ELSE "usage")
        /\ w.left = (IF last /\ ~v.live THEN 0 ELSE left)
    <3>1. PICK c, n, T : /\ c = (IF last THEN "scopes" ELSE "usage")
                         /\ n = (IF last /\ ~v.live THEN 0 ELSE left)
                         /\ T = v.todo \ {a}
      OBVIOUS
    <3>2. w = [v EXCEPT !.todo = T, !.pc = c, !.left = n]
      <4>1. (IF last THEN "scopes" ELSE v.pc) = c
        BY <1>3, <3>1
      <4>2. (IF last /\ (~v.live \/ left < 0) THEN 0 ELSE left) = n
        BY <2>1, <3>1
      <4> HIDE DEF v, last
      <4> QED BY <3>1, <4>1, <4>2
    <3>3. c \in {"scopes", "usage"} /\ n \in Int /\ T \subseteq TokenIds
      BY <1>3, <2>1, <3>1 DEF View
    <3> HIDE DEF w
    <3>4. /\ w \in View /\ w.todo = T /\ w.live = v.live /\ w.at = v.at
          /\ w.scopes = v.scopes /\ w.kids = v.kids /\ w.children = v.children
          /\ w.pc = c /\ w.left = n
      BY <1>3, <3>2, <3>3 DEF View
    <3> QED BY <3>1, <3>4
  <2> HIDE DEF w
  <2>3. view' = [view EXCEPT ![t] = w] /\ UNCHANGED <<vars, root, stack, was>>
    BY <1>1, <1>9
  <2>4. view'[t] = w /\ \A x \in TokenIds \ {t} : view'[x] = view[x]
    BY <2>3 DEF ReportInv, ReportType
  <2>5. /\ stored' = stored /\ claims' = claims /\ now' = now
        /\ Lineage(t)' = Lineage(t) /\ (checkLive(t)' <=> checkLive(t))
        /\ \A c : Own(c)' = Own(c)
    BY <2>3, BrokerSame
  <2>6. ASSUME NEW b \in Int, v.live, Within(t, b) PROVE Within(t, b)'
    <3>1. w.left = left
      BY <2>2, <2>6
    <3>2. (v.left >= 0 /\ v.left <= b) \/ \E c \in v.todo : Own(c) <= b
      BY <1>3, <2>6 DEF Within
    <3>3. CASE v.left >= 0 /\ v.left <= b
      <4>1. v.left \in Nat /\ left <= b
        BY <1>4, <2>1, <3>3
      <4> QED BY <2>1, <2>4, <3>1, <4>1 DEF Within
    <3>4. CASE \E c \in v.todo : Own(c) <= b
      <4>1. PICK c \in v.todo : Own(c) <= b
        BY <3>4
      <4>2. CASE c = a
        <5>1. left <= b
          BY <1>7, <2>1, <4>1, <4>2
        <5> QED BY <2>1, <2>4, <3>1, <5>1 DEF Within
      <4>3. CASE c # a
        <5>1. c \in w.todo /\ w.pc = "usage" /\ Own(c)' <= b
          BY <2>2, <2>5, <4>1, <4>3
        <5> QED BY <2>4, <5>1 DEF Within
      <4> QED BY <4>2, <4>3
    <3> QED BY <3>2, <3>3, <3>4
  <2>7. Placed(t)'
    BY <1>3, <2>2, <2>3, <2>4, <2>5 DEF Frame, Placed
  <2>8. Called(t)'
    <3> SUFFICES ASSUME t # root PROVE Called(t)'
      BY <2>3 DEF Called
    <3>1. PICK p : p = claims[t].parent
      OBVIOUS
    <3>2. /\ p \in TokenIds /\ view[p].pc \in {"visit", "done"} /\ t \notin view[p].kids
          /\ v.live => view[p].live /\ Within(t, view[p].left)
      BY <1>3, <3>1 DEF Frame, Called
    <3>3. view'[p] = view[p] /\ view[p].left \in Int
      BY <1>3, <2>4, <3>2 DEF ReportInv, ReportType, View
    <3>4. PICK b : b = view[p].left
      OBVIOUS
    <3>5. v.live => Within(t, b)'
      BY <2>6, <3>2, <3>3, <3>4
    <3>6. v.live => Within(t, view[p].left)'
      BY <3>3, <3>4, <3>5 DEF Within
    <3>7. view'[t].live = v.live /\ view'[t].pc # "done"
      BY <2>2, <2>4
    <3> QED BY <2>5, <3>1, <3>2, <3>3, <3>6, <3>7 DEF Called
  <2>9. \E c \in Lineage(t) : Own(c)' <= left
    BY <1>4, <1>6, <1>7, <2>1, <2>5
  <2>10. Reading(t)'
    BY <1>4, <1>6, <1>9, <2>1, <2>2, <2>4, <2>5, <2>9 DEF Reading
  <2>11. Measured(t)'
    BY <1>4, <1>9, <2>1, <2>2, <2>4, <2>5, <2>9 DEF Measured
  <2>12. SinceStart(t)'
    <3> SUFFICES ASSUME t \in DOMAIN was, v.live, Lineage(t) \subseteq stored
                 PROVE  Within(t, was[t])'
      BY <2>2, <2>3, <2>4, <2>5 DEF SinceStart
    <3>1. Within(t, was[t]) /\ was[t] \in Int
      BY <1>3 DEF Frame, SinceStart, ReportInv, Started
    <3>2. PICK b : b = was[t]
      OBVIOUS
    <3>3. Within(t, b)'
      BY <2>6, <3>1, <3>2
    <3> QED BY <2>3, <3>2, <3>3 DEF Within
  <2>13. Scoped(t)' /\ NoneMissing(t)'
    BY <2>2, <2>4 DEF Scoped, NoneMissing
  <2>14. Branches(t)'
    <3>1. \A k \in v.children : k \in TokenIds \ {t}
      BY <1>3 DEF Frame, Branches, View
    <3>2. \A k \in v.children : view'[k] = view[k]
      BY <2>4, <3>1
    <3> QED BY <1>3, <2>2, <2>4, <2>5, <3>2 DEF Frame, Branches
  <2>15. Frame(t)'
    BY <2>7, <2>8, <2>10, <2>11, <2>12, <2>13, <2>14 DEF Frame
  <2>16. w.pc \in Busy
    BY <2>2 DEF Busy
  <2> QED BY <1>1, <1>2, <2>2, <2>3, <2>15, <2>16, WorksOn
<1> QED BY <1>8, <1>9

\* The innermost call moves on past the loop: its number stays, and so does all
\* that depends on it.
LEMMA MovesOn ==
    ASSUME BrokerInv, ReportInv, UNCHANGED <<vars, root, stack, was>>,
           NEW pc \in {"scopes", "children"}, NEW t, At(t, pc), NEW w \in View,
           view' = [view EXCEPT ![t] = w],
           w.pc \in {"children", "visit"}, w.live = view[t].live, w.at = view[t].at,
           w.left = view[t].left, w.children = view[t].children,
           \A i \in DOMAIN w.scopes : w.scopes[i] <= w.left,
           w.pc # "visit" => w.kids = {},
           \A k \in w.kids : k \in stored /\ claims[k].parent = t,
           w.pc = "visit" => \A k \in DOMAIN was :
               claims[k].parent = t /\ ~Expired(claims[k].exp) => k \in w.kids
    PROVE  ReportInv'
<1>1. pc \in Busy /\ pc # "visit" /\ w.pc \in Busy /\ w.pc # "done" /\ w.pc # "usage"
  BY DEF Busy
<1>2. /\ t \in TokenIds /\ t \in stored /\ view[t] \in View /\ view[t].pc = pc /\ Frame(t)
  BY <1>1, Innermost
<1>3. view'[t] = w /\ \A x \in TokenIds \ {t} : view'[x] = view[x]
  BY <1>2 DEF ReportInv, ReportType
<1>4. /\ stored' = stored /\ claims' = claims /\ now' = now
      /\ Lineage(t)' = Lineage(t) /\ (checkLive(t)' <=> checkLive(t))
      /\ \A c : Own(c)' = Own(c)
  BY BrokerSame
<1>5. Placed(t)'
  BY <1>2, <1>3, <1>4 DEF Frame, Placed
<1>6. Called(t)'
  <2> SUFFICES ASSUME t # root PROVE Called(t)'
    BY DEF Called
  <2>1. PICK p : p = claims[t].parent
    OBVIOUS
  <2>2. /\ p \in TokenIds /\ view[p].pc \in {"visit", "done"} /\ t \notin view[p].kids
        /\ view[t].live => view[p].live /\ view[t].left <= view[p].left
    BY <1>2, <2>1 DEF Frame, Called, Within
  <2>3. view'[p] = view[p]
    BY <1>2, <1>3, <2>2
  <2> QED BY <1>1, <1>3, <1>4, <2>1, <2>2, <2>3 DEF Called, Within
<1>7. Reading(t)' /\ Measured(t)' /\ Scoped(t)'
  BY <1>1, <1>2, <1>3, <1>4 DEF Frame, Reading, Measured, Scoped
<1>8. SinceStart(t)'
  BY <1>1, <1>2, <1>3, <1>4 DEF Frame, SinceStart, Within
<1>9. Branches(t)'
  <2>1. \A k \in view[t].children : k \in TokenIds \ {t}
    BY <1>2 DEF Frame, Branches, View
  <2>2. \A k \in view[t].children : view'[k] = view[k]
    BY <1>3, <2>1
  <2> QED BY <1>2, <1>3, <1>4, <2>2 DEF Frame, Branches
<1>10. NoneMissing(t)'
  BY <1>1, <1>3, <1>4 DEF NoneMissing, Expired
<1>11. Frame(t)'
  BY <1>5, <1>6, <1>7, <1>8, <1>9, <1>10 DEF Frame
<1> QED BY <1>1, <1>11, WorksOn

\* ReadScopes.
LEMMA ReadScopesInv ==
    ASSUME BrokerInv, ReportInv, NEW t \in TokenIds, ReadScopes(t)
    PROVE  ReportInv'
<1> DEFINE v == view[t]
           s == [i \in DOMAIN claims[t].scopes |-> ScopeLeft(t, i)]
           w == [v EXCEPT !.pc = "children", !.scopes = s]
<1>1. "scopes" \in Busy /\ At(t, "scopes") /\ UNCHANGED <<vars, root, stack, was>>
  BY DEF ReadScopes, Busy
<1>2. v \in View /\ v.pc = "scopes" /\ Frame(t) /\ t \in stored
  BY <1>1, Innermost
<1>3. view' = [view EXCEPT ![t] = w]
  BY <1>2 DEF ReadScopes, ReportInv, ReportType, View
<1>4. v.left \in Nat /\ v.kids = {}
  BY <1>2 DEF Frame, Measured, Branches
<1>5. ASSUME NEW i \in DOMAIN claims[t].scopes
      PROVE  ScopeLeft(t, i) \in Int /\ ScopeLeft(t, i) <= v.left
  <2>1. claims[t].scopes[i].maxCalls - perScope[t][i] \in Int
    <3>1. claims[t].scopes[i] \in Scope
      BY DEF BrokerInv, TypeOK, Claims
    <3>2. perScope[t][i] \in Nat
      <4>1. i \in DOMAIN perScope[t] /\ perScope[t] \in Seq(Nat)
        BY <1>2 DEF BrokerInv, TypeOK, ScopeAccounts
      <4> QED BY <4>1
    <3> QED BY <3>1, <3>2 DEF Scope
  <2>2. PICK n \in Int : n = Least(claims[t].scopes[i].maxCalls - perScope[t][i], v.left)
    BY <1>4, <2>1 DEF Least
  <2>3. n <= v.left
    BY <1>4, <2>1, <2>2 DEF Least
  <2>4. Max({0, n}) \in {0, n}
    <3>1. \E x \in {0, n} : \A y \in {0, n} : x >= y
      BY <2>2
    <3> QED BY <3>1 DEF Max
  <2>5. ScopeLeft(t, i) = Max({0, n})
    BY <2>2 DEF ScopeLeft
  <2> QED BY <1>4, <2>2, <2>3, <2>4, <2>5
<1>6. s \in Seq(Int)
  <2>1. claims[t].scopes \in Seq(Scope)
    BY DEF BrokerInv, TypeOK, Claims
  <2> QED BY <1>5, <2>1
<1>7. /\ w \in View /\ w.pc = "children" /\ w.live = v.live /\ w.at = v.at /\ w.left = v.left
      /\ w.children = v.children /\ w.kids = v.kids /\ w.scopes = s
  <2> HIDE DEF s
  <2> QED BY <1>2, <1>6 DEF View
<1>8. \A i \in DOMAIN w.scopes : w.scopes[i] <= w.left
  BY <1>5, <1>7
<1> HIDE DEF w
<1>9. w.kids = {} /\ w.pc \in {"children", "visit"} /\ w.pc # "visit"
  BY <1>4, <1>7
<1> QED BY <1>1, <1>3, <1>7, <1>8, <1>9, MovesOn

\* ReadChildren.
LEMMA ReadChildrenInv ==
    ASSUME BrokerInv, ReportInv, NEW t \in TokenIds, ReadChildren(t)
    PROVE  ReportInv'
<1> DEFINE v == view[t]
           kids == {k \in stored : claims[k].parent = t /\ claims[k].exp >= v.at}
           w == [v EXCEPT !.pc = "visit", !.kids = kids]
<1>1. "children" \in Busy /\ At(t, "children") /\ UNCHANGED <<vars, root, stack, was>>
  BY DEF ReadChildren, Busy
<1>2. v \in View /\ v.pc = "children" /\ Frame(t) /\ t \in stored
  BY <1>1, Innermost
<1>3. view' = [view EXCEPT ![t] = w]
  BY <1>2 DEF ReadChildren, ReportInv, ReportType, View
<1>4. kids \in SUBSET TokenIds /\ \A k \in kids : k \in stored /\ claims[k].parent = t
  BY DEF BrokerInv, TypeOK
<1>5. \A k \in DOMAIN was : claims[k].parent = t /\ ~Expired(claims[k].exp) => k \in kids
  <2> TAKE k \in DOMAIN was
  <2>1. k \in stored /\ k \in TokenIds
    BY DEF ReportInv, Started, BrokerInv, TypeOK
  <2>2. claims[k].exp \in Nat /\ now \in Nat /\ v.at \in Nat /\ v.at <= now
    BY <1>2, <2>1 DEF BrokerInv, TypeOK, Claims, View, Frame, Placed
  <2> QED BY <2>1, <2>2 DEF Expired
<1> HIDE DEF kids
<1>6. /\ w \in View /\ w.pc = "visit" /\ w.live = v.live /\ w.at = v.at /\ w.left = v.left
      /\ w.children = v.children /\ w.kids = kids /\ w.scopes = v.scopes
  BY <1>2, <1>4 DEF View
<1>7. \A i \in DOMAIN w.scopes : w.scopes[i] <= w.left
  BY <1>2, <1>6 DEF Frame, Scoped
<1> HIDE DEF w
<1>8. \A k \in w.kids : k \in stored /\ claims[k].parent = t
  BY <1>4, <1>6
<1>9. w.pc \in {"children", "visit"} /\ w.pc = "visit"
  BY <1>6
<1> QED BY <1>1, <1>3, <1>5, <1>6, <1>7, <1>8, <1>9, MovesOn

\* A call for a child: the stack grows by one.
LEMMA CallingPushed ==
    ASSUME BrokerInv, ReportInv, UNCHANGED <<vars, root>>, NEW t, At(t, "visit"),
           NEW k \in TokenIds, claims[k].parent = t, stack' = Append(stack, k), k # t,
           view'[k].pc = "usage", \A x \in TokenIds \ {k} : view'[x].pc = view[x].pc,
           view[k].pc = "none"
    PROVE  Calling'
<1>1. claims' = claims /\ root' = root
  BY DEF vars
<1>2. stack \in Seq(TokenIds) /\ stack # <<>> /\ Calling
  BY DEF ReportInv, ReportType, At
<1>3. Len(stack) \in DOMAIN stack /\ t = stack[Len(stack)] /\ t \in TokenIds /\ view[t].pc = "visit"
  BY Innermost DEF Busy
<1>4. /\ DOMAIN stack' = DOMAIN stack \cup {Len(stack) + 1} /\ Len(stack') = Len(stack) + 1
      /\ stack'[Len(stack) + 1] = k
      /\ \A i \in DOMAIN stack : stack'[i] = stack[i] /\ i <= Len(stack) /\ i \in Nat /\ i > 0
  BY <1>2
<1>5. Len(stack) \in Nat /\ Len(stack) > 0
  BY <1>2
<1>6. stack' # <<>> /\ stack'[1] = root
  BY <1>2, <1>4, <1>5 DEF Calling
<1>7. \A i \in DOMAIN stack' : i > 1 => claims[stack'[i]].parent = stack'[i - 1]
  <2> SUFFICES ASSUME NEW i \in DOMAIN stack', i > 1
               PROVE  claims[stack'[i]].parent = stack'[i - 1]
    OBVIOUS
  <2>1. CASE i \in DOMAIN stack
    <3>1. i - 1 \in DOMAIN stack
      BY <1>2, <2>1
    <3> QED BY <1>2, <1>4, <2>1, <3>1 DEF Calling
  <2>2. CASE i = Len(stack) + 1
    <3>1. i - 1 = Len(stack) /\ stack'[i - 1] = t
      BY <1>3, <1>4, <1>5, <2>2
    <3> QED BY <1>4, <2>2, <3>1
  <2> QED BY <1>4, <2>1, <2>2
<1>8. \A i, j \in DOMAIN stack' : i < j => stack'[i] \in claims[stack'[j]].chain
  <2> SUFFICES ASSUME NEW i \in DOMAIN stack', NEW j \in DOMAIN stack', i < j
               PROVE  stack'[i] \in claims[stack'[j]].chain
    OBVIOUS
  <2>1. i \in DOMAIN stack
    BY <1>4, <1>5
  <2>2. CASE j \in DOMAIN stack
    BY <1>2, <1>4, <2>1, <2>2 DEF Calling
  <2>3. CASE j = Len(stack) + 1
    <3>1. claims[k].chain = claims[t].chain \cup {t}
      BY <1>3, LineageFacts DEF Lineage
    <3>2. i = Len(stack) \/ stack[i] \in claims[t].chain
      BY <1>2, <1>3, <1>4, <2>1 DEF Calling
    <3> QED BY <1>3, <1>4, <2>1, <2>3, <3>1, <3>2
  <2> QED BY <1>4, <2>2, <2>3
<1>9. \A i \in DOMAIN stack' : /\ view'[stack'[i]].pc \in Busy
                               /\ i < Len(stack') => view'[stack'[i]].pc = "visit"
  <2> SUFFICES ASSUME NEW i \in DOMAIN stack'
               PROVE  /\ view'[stack'[i]].pc \in Busy
                      /\ i < Len(stack') => view'[stack'[i]].pc = "visit"
    OBVIOUS
  <2>1. CASE i \in DOMAIN stack
    <3>1. stack[i] \in TokenIds /\ view[stack[i]].pc = "visit"
      BY <1>2, <1>3, <1>4, <2>1 DEF Calling
    <3>2. stack[i] # k
      BY <3>1
    <3> QED BY <1>4, <2>1, <3>1, <3>2 DEF Busy
  <2>2. CASE i = Len(stack) + 1
    BY <1>4, <1>5, <2>2 DEF Busy
  <2> QED BY <1>4, <2>1, <2>2
<1>10. \A x \in TokenIds : view'[x].pc \in Busy => \E i \in DOMAIN stack' : stack'[i] = x
  <2> SUFFICES ASSUME NEW x \in TokenIds, view'[x].pc \in Busy
               PROVE  \E i \in DOMAIN stack' : stack'[i] = x
    OBVIOUS
  <2>1. CASE x = k
    BY <1>4, <2>1
  <2>2. CASE x # k
    <3>1. PICK i \in DOMAIN stack : stack[i] = x
      BY <1>2, <2>2 DEF Calling
    <3> QED BY <1>4, <3>1
  <2> QED BY <2>1, <2>2
<1> QED BY <1>1, <1>6, <1>7, <1>8, <1>9, <1>10 DEF Calling

\* Visit.
LEMMA VisitInv ==
    ASSUME BrokerInv, ReportInv, NEW t \in TokenIds, NEW k \in TokenIds, Visit(t, k)
    PROVE  ReportInv'
<1> DEFINE w == [view[t] EXCEPT !.kids = @ \ {k}]
<1>1. /\ "visit" \in Busy /\ At(t, "visit") /\ k \in view[t].kids /\ stack' = Append(stack, k)
      /\ UNCHANGED <<vars, root, was>>
  BY DEF Visit, Busy
<1>2. /\ view[t] \in View /\ view[t].pc = "visit" /\ Frame(t) /\ t \in stored /\ stack # <<>>
      /\ DOMAIN was \subseteq TokenIds
  BY <1>1, Innermost
<1>3. k \in stored /\ claims[k].parent = t
  BY <1>1, <1>2 DEF Frame, Branches
<1>4. /\ claims[k].chain = Lineage(t) /\ t \in claims[k].chain /\ k \notin claims[k].chain
      /\ Lineage(k) \subseteq TokenIds
  BY <1>3, LineageFacts
<1>5. k # t /\ k # root /\ root \in Lineage(k) /\ Lineage(t) \subseteq Lineage(k)
  BY <1>2, <1>4 DEF Frame, Placed, Lineage
<1>6. view[k].pc = "none"
  BY <1>1, <1>3, <1>5 DEF ReportInv, Frame, Called
<1>7. Entered(k) \in View /\ w \in View
  BY <1>2, EnteredFields DEF View
<1>8. /\ w.pc = "visit" /\ w.live = view[t].live /\ w.at = view[t].at /\ w.todo = view[t].todo
      /\ w.left = view[t].left /\ w.scopes = view[t].scopes /\ w.children = view[t].children
      /\ w.kids = view[t].kids \ {k}
  BY <1>2 DEF View
<1>9. view' = [[view EXCEPT ![t] = w] EXCEPT ![k] = Entered(k)]
  BY <1>2 DEF Visit, ReportInv, ReportType
<1> HIDE DEF w
<1>10. /\ view' \in [TokenIds -> View] /\ view'[k] = Entered(k) /\ view'[t] = w
       /\ \A x \in TokenIds \ {t, k} : view'[x] = view[x]
  BY <1>5, <1>7, <1>9 DEF ReportInv, ReportType
<1>11. Entered(k).pc = "usage"
  BY EnteredFields
<1>12. ReportType'
  <2>1. \A x \in TokenIds : view'[x].pc = "none" => view'[x].children = {}
    BY <1>8, <1>10, <1>11 DEF ReportInv, ReportType
  <2>2. stack' \in Seq(TokenIds)
    BY <1>1 DEF ReportInv, ReportType
  <2> QED BY <1>1, <1>10, <2>1, <2>2 DEF ReportInv, ReportType
<1>13. Calling'
  <2>1. \A x \in TokenIds \ {k} : view'[x].pc = view[x].pc
    BY <1>2, <1>8, <1>10
  <2>2. UNCHANGED <<vars, root>> /\ view'[k].pc = "usage"
    BY <1>1, <1>10, <1>11
  <2> QED BY <1>1, <1>3, <1>5, <1>6, <2>1, <2>2, CallingPushed
<1>14. UNCHANGED vars /\ root' = root /\ was' = was
  BY <1>1
<1>15. \A a \in DOMAIN was' : Started(a)'
  BY <1>14, BrokerSame DEF ReportInv, Started
<1>16. \A x \in TokenIds : Advances(x)
  <2> TAKE x \in TokenIds
  <2>1. CASE x = t
    BY <1>2, <1>8, <1>10, <2>1 DEF Advances
  <2>2. CASE x = k
    BY <1>6, <2>2 DEF Advances
  <2>3. CASE x \notin {t, k}
    BY <1>10, <2>3 DEF Advances
  <2> QED BY <2>1, <2>2, <2>3
<1>17. ASSUME NEW x \in TokenIds \ {k}, view'[x].pc # "none" PROVE Frame(x)'
  <2>1. Frame(x) /\ view[x].children \subseteq view'[x].children
    BY <1>2, <1>8, <1>10, <1>17 DEF ReportInv
  <2>2. Kept(x)
    <3>1. CASE x = t
      BY <1>2, <1>8, <1>10, <1>11, <3>1 DEF Kept
    <3>2. CASE x # t
      BY <1>10, <3>2 DEF Kept
    <3> QED BY <3>1, <3>2
  <2> QED BY <1>2, <1>14, <1>16, <2>1, <2>2, FrameKept DEF ReportInv
<1>18. Frame(k)'
  <2>1. Called(k)'
    <3>1. claims'[k].parent = t /\ \A a : Own(a)' = Own(a)
      BY <1>3, <1>14, BrokerSame
    <3>2. t \in TokenIds /\ view'[t].pc = "visit" /\ k \notin view'[t].kids
      BY <1>8, <1>10
    <3>3. /\ view'[k].pc = "usage" /\ view'[k].todo = Lineage(k)
          /\ view'[k].live <=> checkLive(k)
      BY <1>10, EnteredFields
    <3>4. ASSUME view'[k].live PROVE view'[t].live /\ Within(k, view[t].left)'
      <4>1. checkLive(t)
        BY <1>4, <3>3, <3>4, LiveLineage DEF Lineage
      <4>2. view[t].live
        BY <1>2, <4>1 DEF Frame, Placed
      <4>3. \E a \in Lineage(t) : Own(a) <= view[t].left
        BY <1>2, <4>2 DEF Frame, Measured
      <4>4. \E a \in view'[k].todo : Own(a)' <= view'[t].left
        BY <1>5, <1>8, <1>10, <3>1, <3>3, <4>3
      <4> QED BY <1>8, <1>10, <3>3, <4>2, <4>4 DEF Within
    <3> QED BY <3>1, <3>2, <3>3, <3>4 DEF Called
  <2> QED BY <1>3, <1>5, <1>10, <1>14, <1>15, <2>1, EnteredFrame
<1> QED BY <1>12, <1>13, <1>15, <1>17, <1>18 DEF ReportInv

\* A return: the stack loses its last call.
LEMMA CallingPopped ==
    ASSUME BrokerInv, ReportInv, UNCHANGED <<vars, root>>, NEW t \in TokenIds, At(t, "visit"),
           stack' = Front(stack), view'[t].pc = "done",
           \A x \in TokenIds \ {t} : view'[x].pc = view[x].pc
    PROVE  Calling'
<1>1. claims' = claims /\ root' = root
  BY DEF vars
<1>2. stack \in Seq(TokenIds) /\ stack # <<>> /\ Calling
  BY DEF ReportInv, ReportType, At
<1>3. Len(stack) \in DOMAIN stack /\ t = stack[Len(stack)]
  BY Innermost DEF Busy
<1>4. /\ DOMAIN stack' = DOMAIN stack \ {Len(stack)} /\ Len(stack') = Len(stack) - 1
      /\ \A i \in DOMAIN stack' : stack'[i] = stack[i] /\ i \in DOMAIN stack /\ i < Len(stack)
  <2>1. PICK n \in Nat : n = Len(stack) /\ n > 0
    BY <1>2
  <2>2. stack' = SubSeq(stack, 1, n - 1)
    BY <2>1 DEF Front
  <2>3. DOMAIN stack = 1 .. n
    BY <1>2, <2>1
  <2>4. Len(stack') = n - 1 /\ DOMAIN stack' = 1 .. (n - 1)
    BY <1>2, <2>1, <2>2
  <2>5. \A i \in 1 .. (n - 1) : stack'[i] = stack[i]
    BY <1>2, <2>1, <2>2
  <2>6. 1 .. (n - 1) = (1 .. n) \ {n} /\ \A i \in 1 .. (n - 1) : i < n
    OBVIOUS
  <2> QED BY <2>1, <2>3, <2>4, <2>5, <2>6
<1>5. \A i \in DOMAIN stack' : i \in Nat /\ (i > 1 => i - 1 \in DOMAIN stack')
  BY <1>2, <1>4
<1>6. stack' # <<>> => stack'[1] = root
  BY <1>2, <1>4 DEF Calling, Front
<1>7. \A i \in DOMAIN stack' : i > 1 => claims[stack'[i]].parent = stack'[i - 1]
  BY <1>2, <1>4, <1>5 DEF Calling
<1>8. \A i, j \in DOMAIN stack' : i < j => stack'[i] \in claims[stack'[j]].chain
  BY <1>2, <1>4 DEF Calling
<1>9. \A i \in DOMAIN stack' : stack[i] # t /\ stack[i] \in TokenIds /\ view[stack[i]].pc = "visit"
  <2> TAKE i \in DOMAIN stack'
  <2>1. i \in DOMAIN stack /\ i < Len(stack)
    BY <1>4
  <2>2. stack[i] # t
    BY <1>3, <2>1, CalledOnce DEF ReportInv
  <2> QED BY <1>2, <2>1, <2>2 DEF Calling
<1>10. \A i \in DOMAIN stack' : view'[stack'[i]].pc = "visit"
  BY <1>4, <1>9
<1>11. ASSUME NEW x \in TokenIds, view'[x].pc \in Busy
       PROVE  \E i \in DOMAIN stack' : stack'[i] = x
  <2>1. x # t
    BY <1>11 DEF Busy
  <2>2. PICK i \in DOMAIN stack : stack[i] = x
    BY <1>2, <1>11, <2>1 DEF Calling
  <2>3. i # Len(stack)
    BY <1>3, <2>1, <2>2
  <2> QED BY <1>4, <2>2, <2>3
<1> QED BY <1>1, <1>6, <1>7, <1>8, <1>10, <1>11 DEF Calling, Busy

\* The caller of the innermost call is the one below it on the stack.
LEMMA Caller ==
    ASSUME BrokerInv, ReportInv, NEW t \in TokenIds, NEW pc \in Busy, At(t, pc)
    PROVE  /\ Len(stack) > 1 <=> t # root
           /\ t # root => /\ claims[t].parent \in TokenIds \ {t}
                          /\ view[claims[t].parent].pc = "visit"
<1>1. stack \in Seq(TokenIds) /\ stack # <<>> /\ Calling /\ ReportType
  BY DEF ReportInv, ReportType, At
<1>2. Len(stack) \in DOMAIN stack /\ t = stack[Len(stack)]
  BY Innermost
<1>3. 1 \in DOMAIN stack /\ stack[1] = root
  BY <1>1 DEF Calling
<1>4. CASE Len(stack) > 1
  <2>1. t # root
    BY <1>1, <1>2, <1>3, <1>4, CalledOnce
  <2>2. /\ Len(stack) - 1 \in DOMAIN stack /\ Len(stack) - 1 < Len(stack)
        /\ claims[t].parent = stack[Len(stack) - 1]
    BY <1>1, <1>2, <1>4 DEF Calling
  <2>3. stack[Len(stack) - 1] \in TokenIds /\ view[stack[Len(stack) - 1]].pc = "visit"
    BY <1>1, <2>2 DEF Calling
  <2>4. stack[Len(stack) - 1] # t
    BY <1>1, <1>2, <2>2, CalledOnce
  <2> QED BY <1>4, <2>1, <2>2, <2>3, <2>4
<1>5. CASE ~(Len(stack) > 1)
  <2>1. Len(stack) = 1
    <3>1. Len(stack) \in Nat /\ Len(stack) # 0
      BY <1>1
    <3> QED BY <1>5, <3>1
  <2> QED BY <1>2, <1>3, <1>5, <2>1
<1> QED BY <1>4, <1>5

\* Return.
LEMMA ReturnInv ==
    ASSUME BrokerInv, ReportInv, NEW t \in TokenIds, Return(t)
    PROVE  ReportInv'
<1> DEFINE w == [view[t] EXCEPT !.pc = "done"]
           p == claims[t].parent
           u == [view[p] EXCEPT !.children = @ \cup {t}]
<1>1. /\ "visit" \in Busy /\ At(t, "visit") /\ view[t].kids = {} /\ stack' = Front(stack)
      /\ UNCHANGED <<vars, root, was>>
  BY DEF Return, Busy
<1>2. /\ view[t] \in View /\ view[t].pc = "visit" /\ Frame(t) /\ t \in stored /\ stack # <<>>
      /\ DOMAIN was \subseteq TokenIds
  BY <1>1, Innermost
<1>3. /\ Len(stack) > 1 <=> t # root
      /\ t # root => p \in TokenIds \ {t} /\ view[p].pc = "visit" /\ view[p] \in View
  BY <1>1, Caller DEF ReportInv, ReportType
<1>4. /\ w \in View /\ w.pc = "done" /\ w.live = view[t].live /\ w.at = view[t].at
      /\ w.todo = view[t].todo /\ w.left = view[t].left /\ w.scopes = view[t].scopes
      /\ w.kids = view[t].kids /\ w.children = view[t].children
  BY <1>2 DEF View
<1>5. UNCHANGED vars /\ root' = root /\ was' = was
  BY <1>1
<1>6. \A a \in DOMAIN was' : Started(a)'
  BY <1>5, BrokerSame DEF ReportInv, Started
<1>7. stack' \in Seq(TokenIds)
  BY <1>1, <1>2 DEF Front, ReportInv, ReportType
<1>8. ASSUME view' \in [TokenIds -> View], view'[t] = w,
             \A x \in TokenIds \ {t} : /\ Kept(x) /\ Advances(x)
                                       /\ view[x].children \subseteq view'[x].children
                                       /\ view'[x].pc = view[x].pc
                                       /\ view[x].pc = "none" => view'[x] = view[x],
             t # root /\ view[t].live => t \in view'[p].children
      PROVE  ReportInv'
  <2>1. Kept(t) /\ Advances(t) /\ view[t].children \subseteq view'[t].children
    <3>1. view'[t] = w /\ (t # root /\ view[t].live => t \in view'[claims[t].parent].children)
      BY <1>8
    <3> HIDE DEF w, p, u
    <3> QED BY <1>1, <1>2, <1>4, <3>1 DEF Kept, Advances
  <2>2. \A x \in TokenIds : Advances(x)
    BY <1>8, <2>1
  <2>3. ASSUME NEW x \in TokenIds, view'[x].pc # "none" PROVE Frame(x)'
    <3>1. Frame(x) /\ Kept(x) /\ view[x].children \subseteq view'[x].children
      BY <1>2, <1>8, <2>1, <2>3 DEF ReportInv
    <3> QED BY <1>2, <1>5, <2>2, <3>1, FrameKept DEF ReportInv
  <2>4. Calling'
    <3>1. view'[t].pc = "done" /\ \A x \in TokenIds \ {t} : view'[x].pc = view[x].pc
      BY <1>4, <1>8
    <3> QED BY <1>1, <1>5, <3>1, CallingPopped
  <2>5. ReportType'
    <3>1. \A x \in TokenIds : view'[x].pc = "none" => view'[x].children = {}
      <4>1. view'[t].pc # "none"
        BY <1>4, <1>8
      <4>2. ASSUME NEW x \in TokenIds \ {t}, view'[x].pc = "none" PROVE view'[x].children = {}
        <5>1. view'[x] = view[x] /\ view[x].pc = "none"
          BY <1>8, <4>2
        <5> QED BY <5>1 DEF ReportInv, ReportType
      <4> QED BY <4>1, <4>2
    <3> QED BY <1>5, <1>7, <1>8, <3>1 DEF ReportInv, ReportType
  <2> QED BY <1>6, <2>3, <2>4, <2>5 DEF ReportInv
<1>9. CASE t # root /\ view[t].live
  <2>1. /\ u \in View /\ u.pc = view[p].pc /\ u.live = view[p].live /\ u.at = view[p].at
        /\ u.todo = view[p].todo /\ u.left = view[p].left /\ u.scopes = view[p].scopes
        /\ u.kids = view[p].kids /\ u.children = view[p].children \cup {t}
    BY <1>3, <1>9 DEF View
  <2>2. view' = [[view EXCEPT ![t] = w] EXCEPT ![p] = u]
    <3>1. [view EXCEPT ![t].pc = "done"] = [view EXCEPT ![t] = w]
      OBVIOUS
    <3>2. view' = [[view EXCEPT ![t].pc = "done"] EXCEPT ![p].children = @ \cup {t}]
      BY <1>3, <1>9 DEF Return, ShownChild
    <3>3. [view EXCEPT ![t] = w][p] = view[p]
      BY <1>3, <1>9 DEF ReportInv, ReportType
    <3> HIDE DEF w, p
    <3> QED BY <3>1, <3>2, <3>3
  <2> HIDE DEF w, u, p
  <2>3. /\ view' \in [TokenIds -> View] /\ view'[t] = w /\ view'[p] = u
        /\ \A x \in TokenIds \ {t, p} : view'[x] = view[x]
    BY <1>3, <1>4, <1>9, <2>1, <2>2 DEF ReportInv, ReportType
  <2>4. Kept(p) /\ Advances(p)
    <3>1. claims[t].parent = p
      BY DEF p
    <3> QED BY <1>3, <1>4, <1>9, <2>1, <2>3, <3>1 DEF Kept, Advances
  <2>5. \A x \in TokenIds \ {t, p} : Kept(x) /\ Advances(x)
    BY <2>3 DEF Kept, Advances
  <2>6. \A x \in TokenIds \ {t} : /\ Kept(x) /\ Advances(x)
                                  /\ view[x].children \subseteq view'[x].children
                                  /\ view'[x].pc = view[x].pc
                                  /\ view[x].pc = "none" => view'[x] = view[x]
    BY <1>3, <1>9, <2>1, <2>3, <2>4, <2>5
  <2>7. t \in view'[p].children
    BY <2>1, <2>3
  <2> QED BY <1>8, <2>3, <2>6, <2>7
<1>10. CASE ~(t # root /\ view[t].live)
  <2>1. view' = [view EXCEPT ![t] = w]
    BY <1>3, <1>10 DEF Return, ShownChild
  <2> HIDE DEF w, u, p
  <2>2. /\ view' \in [TokenIds -> View] /\ view'[t] = w
        /\ \A x \in TokenIds \ {t} : view'[x] = view[x]
    BY <1>4, <2>1 DEF ReportInv, ReportType
  <2>3. \A x \in TokenIds \ {t} : Kept(x) /\ Advances(x)
    BY <2>2 DEF Kept, Advances
  <2> QED BY <1>8, <1>10, <2>2, <2>3
<1> QED BY <1>9, <1>10

\* Every step keeps the invariant of the reports.
LEMMA ReportStep ==
    ASSUME BrokerInv, BrokerInv', ReportInv, [ReportNext]_<<vars, reportVars>>
    PROVE  ReportInv'
<1>1. ASSUME Forget PROVE ReportInv'
  <2>1. root' = None /\ stack' = <<>> /\ view' = NoViews /\ DOMAIN was' = {}
    BY <1>1 DEF Forget
  <2> QED BY <2>1, Idle
<1>2. CASE Running /\ IF stack = <<>> THEN Forget ELSE UNCHANGED reportVars
  <2>1. CASE stack = <<>>
    BY <1>1, <1>2, <2>1
  <2>2. CASE stack # <<>>
    <3>1. Calm /\ [Next]_vars
      BY <1>2, RunningCalm DEF Next, BrokerInv
    <3> QED BY <1>2, <2>2, <3>1, BrokerStepInv
  <2> QED BY <2>1, <2>2
<1>3. ASSUME NEW t \in TokenIds, Report(t) PROVE ReportInv'
  BY <1>3, BeginInv, ReadUsageInv, ReadScopesInv, ReadChildrenInv, ReturnInv, VisitInv DEF Report
<1>4. CASE Restart /\ Forget
  BY <1>1, <1>4
<1>5. CASE UNCHANGED <<vars, reportVars>>
  <2>1. Calm
    BY <1>5 DEF Calm, vars, BrokerInv, TypeOK
  <2> QED BY <1>5, <2>1, BrokerStepInv
<1> QED BY <1>2, <1>3, <1>4, <1>5 DEF ReportNext

\* The invariant of the reports, for any tree of tokens and any number of
\* reports beside the broker.
THEOREM ReportInvKept == ReportSpec => [](BrokerInv /\ ReportInv)
<1>1. ReportInit => ReportInv
  <2> SUFFICES ASSUME ReportInit PROVE ReportInv
    OBVIOUS
  <2>1. /\ root = None /\ stack = <<>> /\ DOMAIN was = {} /\ DOMAIN stack = {}
        /\ view \in [TokenIds -> View]
        /\ \A t \in TokenIds : view[t].pc = "none" /\ view[t].children = {}
    BY NoViewType DEF ReportInit, NoViews, NoView
  <2> QED BY <2>1 DEF ReportInv, ReportType, Calling, Busy
<1>2. BrokerInv /\ BrokerInv' /\ ReportInv /\ [ReportNext]_<<vars, reportVars>> => ReportInv'
  BY ReportStep
<1>3. ReportSpec => []BrokerInv
  BY ReportOnlyReads, BrokerInvKept, PTL
<1> QED BY <1>1, <1>2, <1>3, PTL DEF ReportSpec

\* Whoever is in the answer has been asked, and answered.
LEMMA ShownDone ==
    ASSUME BrokerInv, ReportInv, Answered, NEW t \in Shown
    PROVE  /\ t \in TokenIds /\ root \in TokenIds /\ root \in Lineage(t)
           /\ view[t].pc = "done" /\ Frame(t)
<1>1. t \in TokenIds /\ root \in Lineage(t) /\ root \in TokenIds
  BY DEF Shown, Answered, ReportInv, ReportType
<1>2. view[t].pc = "done"
  <2>1. CASE t = root
    BY <2>1 DEF Answered
  <2>2. CASE t # root
    <3>1. t \in Lineage(t)
      BY DEF Lineage
    <3>2. t \in view[claims[t].parent].children
      BY <1>1, <2>2, <3>1 DEF Shown
    <3>3. claims[t].parent \in TokenIds
      BY <1>1, <2>2, LineageFacts DEF Lineage
    <3> QED BY <3>2, <3>3 DEF ReportInv, ReportType, Frame, Branches
  <2> QED BY <2>1, <2>2
<1> QED BY <1>1, <1>2 DEF ReportInv

\* The calls a report shows for a token lie between what it had left when the
\* report began and what it has left when the call returns, however many calls
\* are charged, tokens issued or revoked while the counters are read one by one.
THEOREM ReportsBounded == ReportSpec => []ReportBounded
<1>1. BrokerInv /\ ReportInv => ReportBounded
  <2> SUFFICES ASSUME BrokerInv, ReportInv, Answered, NEW t \in Shown
               PROVE  /\ CallsLeft(t) <= view[t].left
                      /\ t \in DOMAIN was => view[t].left <= was[t]
    BY DEF ReportBounded
  <2>1. t \in TokenIds /\ view[t].pc = "done" /\ Frame(t)
    BY ShownDone
  <2>2. /\ view[t].left \in Nat /\ Lineage(t) \subseteq stored
        /\ IF view[t].live THEN \E a \in Lineage(t) : Own(a) <= view[t].left
                           ELSE view[t].left = 0
    BY <2>1 DEF Frame, Measured
  <2>3. /\ CallsLeft(t) \in Nat /\ (~checkLive(t) => CallsLeft(t) = 0)
        /\ \A a \in Lineage(t) : CallsLeft(t) <= Own(a) /\ Own(a) \in Nat
    BY <2>1, CallsLeftBound, OwnNat, LineageFacts
  <2>4. CallsLeft(t) <= view[t].left
    <3>1. CASE view[t].live
      BY <2>2, <2>3, <3>1
    <3>2. CASE ~view[t].live
      BY <2>1, <2>2, <2>3, <3>2 DEF Frame, Placed
    <3> QED BY <3>1, <3>2
  <2>5. ASSUME t \in DOMAIN was PROVE view[t].left <= was[t]
    <3>1. CASE view[t].live
      BY <2>1, <2>2, <2>5, <3>1 DEF Frame, SinceStart, Within
    <3>2. CASE ~view[t].live
      BY <2>2, <2>5, <3>2 DEF ReportInv, Started
    <3> QED BY <3>1, <3>2
  <2> QED BY <2>4, <2>5
<1> QED BY <1>1, ReportInvKept, PTL

\* A report agrees with itself: no scope and no delegate shows more calls than
\* the token it belongs to, and nothing dead shows live delegates, although
\* every frame is read at other moments.
THEOREM ReportsNested == ReportSpec => []ReportNested
<1>1. BrokerInv /\ ReportInv => ReportNested
  <2> SUFFICES ASSUME BrokerInv, ReportInv, Answered, NEW t \in Shown
               PROVE  /\ \A i \in DOMAIN view[t].scopes : view[t].scopes[i] <= view[t].left
                      /\ \A k \in view[t].children : view[t].live /\ view[k].left <= view[t].left
    BY DEF ReportNested
  <2>1. t \in TokenIds /\ root \in Lineage(t) /\ view[t].pc = "done" /\ Frame(t)
    BY ShownDone
  <2>2. \A i \in DOMAIN view[t].scopes : view[t].scopes[i] <= view[t].left
    BY <2>1 DEF Frame, Scoped
  <2>3. ASSUME NEW k \in view[t].children PROVE view[t].live /\ view[k].left <= view[t].left
    <3>1. k \in TokenIds /\ view[k].pc = "done" /\ view[k].live /\ claims[k].parent = t
      BY <2>1 DEF Frame, Branches, ReportInv, ReportType, View
    <3>2. k # root
      BY <2>1, <3>1, LineageFacts
    <3>3. Frame(k)
      BY <3>1 DEF ReportInv
    <3> QED BY <3>1, <3>2, <3>3 DEF Frame, Called, Within
  <2> QED BY <2>2, <2>3
<1> QED BY <1>1, ReportInvKept, PTL

\* Of the lineage of a token that was there when the report began and is still
\* live, everything below the root has been asked when the call returns.
LEMMA AllAsked ==
    ASSUME BrokerInv, ReportInv, Answered, NEW t \in DOMAIN was, Lineage(t) \subseteq stored,
           checkLive(t), NEW a \in Lineage(t), root \in Lineage(a)
    PROVE  view[a].pc = "done"
<1> DEFINE N == {x \in Lineage(t) : root \in Lineage(x) /\ view[x].pc # "done"}
<1>1. t \in TokenIds /\ Lineage(t) \subseteq TokenIds /\ root \in TokenIds
  BY LineageFacts DEF ReportInv, ReportType, Started, BrokerInv, TypeOK, Answered
<1>2. \A x \in TokenIds : view[x].pc \in {"none", "done"}
  <2>1. stack = <<>>
    <3> SUFFICES ASSUME stack # <<>> PROVE FALSE
      OBVIOUS
    <3>1. 1 \in DOMAIN stack /\ stack[1] = root
      BY DEF ReportInv, ReportType, Calling
    <3>2. view[root].pc \in Busy
      BY <3>1 DEF ReportInv, Calling
    <3> QED BY <3>2 DEF Answered, Busy
  <2>2. \A x \in TokenIds : view[x].pc \notin Busy
    BY <2>1 DEF ReportInv, Calling
  <2> QED BY <2>2 DEF ReportInv, ReportType, View, Busy
<1>3. ASSUME N # {} PROVE FALSE
  <2>1. N \in SUBSET TokenIds
    BY <1>1
  <2>2. PICK x \in N : \A y \in N : claims[x].depth <= claims[y].depth
    <3> HIDE DEF N
    <3> QED BY <1>3, <2>1, Shallowest
  <2>3. x \in TokenIds /\ x \in Lineage(t) /\ root \in Lineage(x) /\ x # root
    BY <1>1, <2>2 DEF Answered
  <2>4. PICK p : p = claims[x].parent
    OBVIOUS
  <2>5. /\ p \in TokenIds /\ p \in claims[x].chain /\ claims[x].chain = Lineage(p)
        /\ claims[p].depth < claims[x].depth /\ Lineage(x) \subseteq Lineage(t)
    BY <1>1, <2>3, <2>4, LineageFacts DEF Lineage
  <2>6. p \in Lineage(t) /\ root \in Lineage(p)
    BY <2>3, <2>5 DEF Lineage
  <2>7. claims[p].depth \in Nat /\ claims[x].depth \in Nat
    BY <2>3, <2>5 DEF BrokerInv, TypeOK, Claims
  <2>8. view[p].pc = "done"
    BY <2>2, <2>5, <2>6, <2>7
  <2>9. Frame(p)
    BY <2>5, <2>8 DEF ReportInv
  <2>10. x \in DOMAIN was
    BY <2>3 DEF ReportInv, Started
  <2>11. ~Expired(claims[x].exp)
    BY <1>1, <2>3, LiveLineage DEF checkLive
  <2>12. x \in view[p].kids \/ view[x].pc # "none"
    BY <2>4, <2>8, <2>9, <2>10, <2>11 DEF Frame, NoneMissing
  <2>13. view[p].kids = {}
    BY <2>8, <2>9 DEF Frame, Branches
  <2> QED BY <1>2, <2>2, <2>3, <2>12, <2>13
<1> QED BY <1>3

\* No live delegate is missing from a report: whatever was in the store when it
\* began and is live when it returns is in it, at any depth, whatever is issued,
\* revoked or expires between Children and FirstRevoked of each call.
THEOREM ReportsComplete == ReportSpec => []ReportComplete
<1>1. BrokerInv /\ ReportInv => ReportComplete
  <2> SUFFICES ASSUME BrokerInv, ReportInv, Answered, NEW t \in DOMAIN was,
                      root \in Lineage(t), Lineage(t) \subseteq stored, checkLive(t)
               PROVE  t \in Shown
    BY DEF ReportComplete
  <2>1. t \in TokenIds /\ Lineage(t) \subseteq TokenIds
    BY LineageFacts DEF ReportInv, Started, BrokerInv, TypeOK
  <2>2. ASSUME NEW a \in Lineage(t), a # root, root \in Lineage(a)
        PROVE  a \in view[claims[a].parent].children
    <3>1. a \in TokenIds /\ view[a].pc = "done"
      BY <2>1, <2>2, AllAsked
    <3>2. Frame(a) /\ checkLive(a)
      BY <2>1, <3>1, LiveLineage DEF ReportInv
    <3> QED BY <2>2, <3>1, <3>2 DEF Frame, Placed, Called
  <2> QED BY <2>1, <2>2 DEF Shown
<1> QED BY <1>1, ReportInvKept, PTL

=============================================================================
