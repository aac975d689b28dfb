------------------------------ MODULE Gateway ------------------------------
(***************************************************************************)
(* The protocol gateway (internal/gateway) with its proof-of-possession    *)
(* check (internal/pop).  An HTTP request carries a batch of JSON-RPC      *)
(* messages under one set of credentials.  Gated messages are authorised   *)
(* by the broker one after the other and, for a holder-bound token, must   *)
(* come with a proof that the replay store has not seen; what passes is    *)
(* forwarded upstream in one call, and the replies are matched by id.      *)
(*                                                                         *)
(* The HTTP enforcement point (internal/pep) is the same handler for a     *)
(* batch of one gated message.                                             *)
(***************************************************************************)
EXTENDS Integers, Sequences, FiniteSets

CONSTANTS
    Requests,     \* HTTP requests; each is made once
    Posts,        \* what a client may send: a batch of messages, token and path
    Ids,          \* JSON-RPC ids
    NoId,         \* a notification's id
    Tokens,       \* capability tokens
    Keys,         \* holder keys
    Holder,       \* the cnf of each token: a key, or None
    Paths,        \* request paths
    Bindings,     \* what a proof may be made out to: key, token and path
    Proofs,       \* ids (jti) of proofs; each is signed once
    None,
    MaxTTL,       \* pop.MaxTTL
    PruneEvery,   \* the replay store prunes when its size is a multiple (256)
    FilterToolsList,
    MaxTime,      \* bound on the clock
    MaxRestarts   \* bound on process restarts

Kinds == {"call", "nameless", "list", "other"}

Message == [kind : Kinds, id : Ids \cup {NoId}]

ASSUME GatewayAssumption ==
    /\ IsFiniteSet(Proofs) /\ IsFiniteSet(Requests)
    /\ NoId \notin Ids /\ None \notin Keys \cup Tokens \cup Paths \cup Proofs
    /\ Posts \subseteq [batch : Seq(Message), tok : Tokens, path : Paths]
    /\ Bindings \subseteq [key : Keys, tok : Tokens \cup {None}, path : Paths \cup {None}]
    /\ Holder \in [Tokens -> Keys \cup {None}]
    /\ MaxTTL \in Nat \ {0} /\ PruneEvery \in Nat \ {0}
    /\ FilterToolsList \in BOOLEAN
    /\ MaxTime \in Nat /\ MaxRestarts \in Nat

VARIABLES
    now,       \* the clock
    proofs,    \* signed proofs
    seen,      \* MemoryReplayStore: proofs recorded and not pruned
    req,       \* the requests
    allowed,   \* messages the broker has authorised and charged
    accepted,  \* history: what Seen let pass, and whether the proof had expired
    executed,  \* messages the upstream has received
    restarts

vars == <<now, proofs, seen, req, allowed, accepted, executed, restarts>>

Outcomes == {"none", "invalid", "denied", "nopop", "reply", "filtered", "noreply", "failed"}

Proof == [key : Keys \cup {None}, tok : Tokens \cup {None}, path : Paths \cup {None}, exp : Nat]

NoProof == [key |-> None, tok |-> None, path |-> None, exp |-> 0]

\* next is the index of the message being gated; fwd those to be forwarded.
Request == [pc : {"idle", "gate", "pop", "seen", "done", "gone"},
            batch : Seq(Message), tok : Tokens \cup {None}, path : Paths \cup {None},
            proof : Proofs \cup {None}, next : Nat, res : Seq(Outcomes), fwd : SUBSET Nat]

NoRequest == [pc |-> "idle", batch |-> <<>>, tok |-> None, path |-> None,
              proof |-> None, next |-> 1, res |-> <<>>, fwd |-> {}]

Place == Requests \X Nat

GatewayTypeOK ==
    /\ now \in Nat
    /\ proofs \in [Proofs -> Proof]
    /\ seen \subseteq Proofs
    /\ req \in [Requests -> Request]
    /\ \A r \in Requests : DOMAIN req[r].res = DOMAIN req[r].batch
    /\ allowed \subseteq Place
    /\ accepted \subseteq [proof : Proofs, place : Place, late : BOOLEAN]
    /\ executed \subseteq Place
    /\ restarts \in 0 .. MaxRestarts

Init ==
    /\ now = 0
    /\ proofs = [p \in Proofs |-> NoProof]
    /\ seen = {}
    /\ req = [r \in Requests |-> NoRequest]
    /\ allowed = {}
    /\ accepted = {}
    /\ executed = {}
    /\ restarts = 0

-----------------------------------------------------------------------------
(* Clients *)

\* pop.Sign: the holder of a key signs a proof, bound to a token and a path or
\* not.
Sign(p, b) ==
    /\ proofs[p] = NoProof
    /\ proofs' = [proofs EXCEPT ![p] =
           [key |-> b.key, tok |-> b.tok, path |-> b.path, exp |-> now + MaxTTL]]
    /\ UNCHANGED <<now, seen, req, allowed, accepted, executed, restarts>>

\* ServeHTTP reads and parses the body.
Receive(r, post, p) ==
    /\ req[r].pc = "idle"
    /\ p # None => proofs[p] # NoProof
    /\ req' = [req EXCEPT ![r] =
           [pc |-> "gate", batch |-> post.batch, tok |-> post.tok, path |-> post.path,
            proof |-> p, next |-> 1, res |-> [i \in DOMAIN post.batch |-> "none"], fwd |-> {}]]
    /\ UNCHANGED <<now, proofs, seen, allowed, accepted, executed, restarts>>

-----------------------------------------------------------------------------
(* The loop over the messages *)

Gating(r, kinds) ==
    /\ req[r].pc = "gate"
    /\ req[r].next \in DOMAIN req[r].batch
    /\ req[r].batch[req[r].next].kind \in kinds

\* The message is forwarded, or answered by the gateway itself; on to the next.
Forwarded(q) == [q EXCEPT !.pc = "gate", !.next = @ + 1, !.fwd = @ \cup {q.next}]

Answered(q, outcome) == [q EXCEPT !.pc = "gate", !.next = @ + 1, !.res[q.next] = outcome]

Passthrough(r) ==
    /\ Gating(r, {"list", "other"})
    /\ req' = [req EXCEPT ![r] = Forwarded(@)]
    /\ UNCHANGED <<now, proofs, seen, allowed, accepted, executed, restarts>>

\* Mutant: the loop does not go on.
NamelessStays(r) ==
    /\ Gating(r, {"nameless"})
    /\ req' = [req EXCEPT ![r].res[req[r].next] = "invalid"]
    /\ UNCHANGED <<now, proofs, seen, allowed, accepted, executed, restarts>>

Nameless(r) ==
    /\ Gating(r, {"nameless"})
    /\ req' = [req EXCEPT ![r] = Answered(@, "invalid")]
    /\ UNCHANGED <<now, proofs, seen, allowed, accepted, executed, restarts>>

\* Mutant: the proof is asked for with the first gated message only.
AllowedNextFirstOnly(q) ==
    IF Holder[q.tok] = None \/ \E i \in q.fwd : q.batch[i].kind = "call"
    THEN Forwarded(q) ELSE [q EXCEPT !.pc = "pop"]

\* What follows an allowed call: forwarding, or first the proof.
AllowedNext(q) == IF Holder[q.tok] = None THEN Forwarded(q) ELSE [q EXCEPT !.pc = "pop"]

\* Service.Authorize allows the call, and has charged it, or denies it.
Authorize(r) ==
    /\ Gating(r, {"call"})
    /\ \/ /\ req' = [req EXCEPT ![r] = AllowedNext(@)]
          /\ allowed' = allowed \cup {<<r, req[r].next>>}
       \/ /\ req' = [req EXCEPT ![r] = Answered(@, "denied")]
          /\ UNCHANGED allowed
    /\ UNCHANGED <<now, proofs, seen, accepted, executed, restarts>>

Expired(p) == now >= proofs[p].exp

\* The checks of pop.Verify before the replay store.
ProofFits(q) ==
    /\ q.proof # None
    /\ proofs[q.proof].key = Holder[q.tok]
    /\ ~Expired(q.proof)
    /\ proofs[q.proof].tok \in {None, q.tok}

Verify(r) ==
    /\ req[r].pc = "pop"
    /\ req' = [req EXCEPT ![r] = IF ProofFits(@) THEN [@ EXCEPT !.pc = "seen"]
                                                 ELSE Answered(@, "nopop")]
    /\ UNCHANGED <<now, proofs, seen, allowed, accepted, executed, restarts>>

\* Mutant: pruning forgets the proofs that are still good.
PruneFresh(s) ==
    IF Cardinality(s) % PruneEvery = 0 THEN {p \in s : Expired(p)} ELSE s

Prune(s) ==
    IF Cardinality(s) % PruneEvery = 0 THEN {p \in s : ~Expired(p)} ELSE s

\* The proof's path, which checkPoP compares after the replay store has
\* recorded the proof.
PathFits(q) == proofs[q.proof].path \in {None, q.path}

\* MemoryReplayStore.Seen, with a clock reading of its own, and the rest of
\* checkPoP.
Seen(r) ==
    LET p == req[r].proof
    IN  /\ req[r].pc = "seen"
        /\ IF p \in seen /\ ~Expired(p)
           THEN /\ req' = [req EXCEPT ![r] = Answered(@, "nopop")]
                /\ UNCHANGED <<seen, accepted>>
           ELSE /\ seen' = Prune(seen \cup {p})
                /\ accepted' = accepted \cup
                      {[proof |-> p, place |-> <<r, req[r].next>>, late |-> Expired(p)]}
                /\ req' = [req EXCEPT ![r] = IF PathFits(@) THEN Forwarded(@)
                                                            ELSE Answered(@, "nopop")]
        /\ UNCHANGED <<now, proofs, allowed, executed, restarts>>

-----------------------------------------------------------------------------
(* Forwarding and the answer *)

Notification(m) == m.id = NoId

AwaitsReply(q, i) == q.res[i] = "none" /\ ~Notification(q.batch[i])

Places(r, S) == {r} \X S

GatedAll(r) == req[r].pc = "gate" /\ req[r].next > Len(req[r].batch)

Finish(r, res) == req' = [req EXCEPT ![r] = [@ EXCEPT !.pc = "done", !.res = res]]

\* Nothing is left to forward.
AnswerAlone(r) ==
    /\ GatedAll(r) /\ req[r].fwd = {}
    /\ Finish(r, req[r].res)
    /\ UNCHANGED <<now, proofs, seen, allowed, accepted, executed, restarts>>

\* forward fails, before the upstream received the messages or after.
ForwardFails(r) ==
    LET q == req[r]
    IN  /\ GatedAll(r) /\ q.fwd # {}
        /\ executed' \in {executed, executed \cup Places(r, q.fwd)}
        /\ Finish(r, [i \in DOMAIN q.res |-> IF AwaitsReply(q, i) THEN "failed" ELSE q.res[i]])
        /\ UNCHANGED <<now, proofs, seen, allowed, accepted, restarts>>

\* The ids of the tools/list messages whose reply is to be filtered.
FilterFor(q) ==
    {q.batch[i].id : i \in {j \in q.fwd : FilterToolsList /\ q.batch[j].kind = "list"}}

\* Mutant: a reply is looked up for every message with an id.
MatchRepliesAll(q, ids, peeked) ==
    [i \in DOMAIN q.res |->
        IF Notification(q.batch[i]) THEN q.res[i]
        ELSE IF q.batch[i].id \in ids
        THEN IF peeked /\ q.batch[i].id \in FilterFor(q) THEN "filtered" ELSE "reply"
        ELSE IF q.res[i] = "none" THEN "noreply" ELSE q.res[i]]

\* Mutant: there are as many answers as upstream sent replies.
MatchRepliesSent(q, ids, peeked) ==
    [i \in 1 .. Cardinality(ids) |->
        IF ~AwaitsReply(q, i) THEN q.res[i]
        ELSE IF peeked /\ q.batch[i].id \in FilterFor(q) THEN "filtered"
        ELSE "reply"]

\* Replies came for the given ids; a message that waits for one gets the reply
\* with its id.  A tools/list reply is filtered if Peek accepts the credential.
MatchReplies(q, ids, peeked) ==
    [i \in DOMAIN q.res |->
        IF ~AwaitsReply(q, i) THEN q.res[i]
        ELSE IF q.batch[i].id \notin ids THEN "noreply"
        ELSE IF peeked /\ q.batch[i].id \in FilterFor(q) THEN "filtered"
        ELSE "reply"]

\* forward returns replies, to all the forwarded messages or to some.
Forward(r) ==
    LET q == req[r]
    IN  /\ GatedAll(r) /\ q.fwd # {}
        /\ executed' = executed \cup Places(r, q.fwd)
        /\ \E ids \in SUBSET ({q.batch[i].id : i \in q.fwd} \ {NoId}), peeked \in BOOLEAN :
              Finish(r, MatchReplies(q, ids, peeked))
        /\ UNCHANGED <<now, proofs, seen, allowed, accepted, restarts>>

-----------------------------------------------------------------------------
(* Environment *)

Tick ==
    /\ now < MaxTime
    /\ now' = now + 1
    /\ UNCHANGED <<proofs, seen, req, allowed, accepted, executed, restarts>>

\* The process restarts: requests in flight are gone, the replay store is empty.
Restart ==
    /\ restarts < MaxRestarts
    /\ restarts' = restarts + 1
    /\ seen' = {}
    /\ req' = [r \in Requests |->
           IF req[r].pc \in {"gate", "pop", "seen"} THEN [req[r] EXCEPT !.pc = "gone"] ELSE req[r]]
    /\ UNCHANGED <<now, proofs, allowed, accepted, executed>>

Serve(r) ==
    \/ Passthrough(r) \/ Nameless(r) \/ Authorize(r) \/ Verify(r) \/ Seen(r)
    \/ AnswerAlone(r) \/ ForwardFails(r) \/ Forward(r)

Next ==
    \/ \E p \in Proofs, b \in Bindings : Sign(p, b)
    \/ \E r \in Requests :
          \/ \E post \in Posts, p \in Proofs \cup {None} : Receive(r, post, p)
          \/ Serve(r)
    \/ Tick
    \/ Restart

Spec == Init /\ [][Next]_vars

\* A handler runs to its end: the calls it makes return, the upstream's within
\* the HTTP client's timeout.
FairSpec == Spec /\ \A r \in Requests : WF_vars(Serve(r))

-----------------------------------------------------------------------------
(* Properties *)

\* A gated message reaches the upstream only with an Authorize decision of its
\* own and, under a holder-bound token, with an accepted proof of its own,
\* signed by that holder and made out to this token and path; messages of the
\* same batch and proofs of other requests do not stand in for it.
ExecutedAuthorized ==
    \A r \in Requests : \A i \in DOMAIN req[r].batch :
        <<r, i>> \in executed /\ req[r].batch[i].kind \notin {"list", "other"} =>
            /\ <<r, i>> \in allowed
            /\ Holder[req[r].tok] # None =>
                  \E a \in accepted :
                      /\ a.place = <<r, i>> /\ a.proof = req[r].proof
                      /\ proofs[a.proof].key = Holder[req[r].tok]
                      /\ proofs[a.proof].tok \in {None, req[r].tok}
                      /\ proofs[a.proof].path \in {None, req[r].path}

\* As long as a proof is good it is accepted once in the life of a process,
\* however requests race, batches repeat it and the replay store prunes.
ProofOncePerLife ==
    \A p \in Proofs :
        Cardinality({a \in accepted : a.proof = p /\ ~a.late}) <= 1 + restarts

\* Every message that is no notification gets one answer, in its place; the
\* upstream's answers go to forwarded messages only, so that a denial stands
\* even when a message that passed has the same id.
AnsweredTruthfully ==
    \A r \in Requests : req[r].pc = "done" =>
        \A i \in DOMAIN req[r].batch : ~Notification(req[r].batch[i]) =>
            /\ req[r].res[i] # "none"
            /\ req[r].res[i] \in {"reply", "filtered", "noreply", "failed"} <=> i \in req[r].fwd

\* Every request is answered or cut off by a restart, whatever the upstream does.
RequestAnswered == \A r \in Requests : req[r].pc = "gate" ~> req[r].pc \in {"done", "gone"}

\* The README on the gateway: one check of the proof covers every gated message
\* of the request.
ProofCoversRequest ==
    \A r \in Requests : \A i, j \in DOMAIN req[r].batch :
        i \in req[r].fwd /\ req[r].batch[i].kind = "call" /\ Holder[req[r].tok] # None =>
            req[r].res[j] # "nopop"

=============================================================================
