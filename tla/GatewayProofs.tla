---------------------------- MODULE GatewayProofs ----------------------------
(***************************************************************************)
(* Proofs about Gateway, for any number of concurrent requests, batches of *)
(* any length, any tokens, keys and proofs, any clock and number of        *)
(* restarts: type correctness, that what is executed was authorised and    *)
(* proven (ExecutedAuthorized), that answers are truthful                  *)
(* (AnsweredTruthfully), and that a proof is good once in the life of a    *)
(* process (ProofOncePerLife).                                             *)
(***************************************************************************)
EXTENDS Gateway, FiniteSetTheorems, TLAPS

\* What a message of the batch came to before anything is forwarded.
Refusals == {"invalid", "denied", "nopop"}

-----------------------------------------------------------------------------
(* The records of requests                                                 *)

\* The frame of a request that has not come in is well typed.
LEMMA NoRequestType == NoRequest \in Request /\ DOMAIN NoRequest.res = DOMAIN NoRequest.batch
BY DEF Request, NoRequest

\* The message goes to those that are forwarded, and the loop goes on.
LEMMA ForwardedFields ==
    ASSUME NEW q \in Request
    PROVE  LET f == Forwarded(q) IN
           /\ f \in Request
           /\ f.pc = "gate" /\ f.next = q.next + 1 /\ f.fwd = q.fwd \cup {q.next}
           /\ f.batch = q.batch /\ f.tok = q.tok /\ f.path = q.path
           /\ f.proof = q.proof /\ f.res = q.res
<1>1. q.next + 1 \in Nat /\ q.fwd \cup {q.next} \in SUBSET Nat
  BY DEF Request
<1> QED BY <1>1 DEF Forwarded, Request

\* The gateway answers the message itself, and the loop goes on.
LEMMA AnsweredFields ==
    ASSUME NEW q \in Request, NEW o \in Outcomes, q.next \in DOMAIN q.res
    PROVE  LET f == Answered(q, o) IN
           /\ f \in Request
           /\ f.pc = "gate" /\ f.next = q.next + 1 /\ f.res = [q.res EXCEPT ![q.next] = o]
           /\ f.batch = q.batch /\ f.tok = q.tok /\ f.path = q.path
           /\ f.proof = q.proof /\ f.fwd = q.fwd
<1>1. q.next + 1 \in Nat
  BY DEF Request
<1>2. [q.res EXCEPT ![q.next] = o] \in Seq(Outcomes)
  BY DEF Request
<1>3. Answered(q, o) = [q EXCEPT !.pc = "gate", !.next = q.next + 1, !.res = [q.res EXCEPT ![q.next] = o]]
  BY DEF Answered, Request
<1> QED BY <1>1, <1>2, <1>3 DEF Request

-----------------------------------------------------------------------------
(* What a step does to a request                                           *)

\* The request before and after a step that leaves all of it but the outcome
\* alone.
SameInput(q, f) ==
    /\ f.batch = q.batch /\ f.tok = q.tok /\ f.path = q.path /\ f.proof = q.proof

\* A move that leaves the outcome alone as well.
OnlyMoves(q, f, l) ==
    /\ f \in Request /\ SameInput(q, f)
    /\ f.pc = l /\ f.next = q.next /\ f.fwd = q.fwd /\ f.res = q.res

\* The request comes in.
Arrives(r) ==
    /\ req[r].pc = "idle"
    /\ req'[r].pc = "gate" /\ req'[r].next = 1 /\ req'[r].fwd = {}
    /\ req'[r].tok \in Tokens
    /\ DOMAIN req'[r].res = DOMAIN req'[r].batch
    /\ \A i \in DOMAIN req'[r].batch : req'[r].res[i] = "none"
    /\ req'[r].proof # None => proofs[req'[r].proof] # NoProof

\* The loop is at a message of the batch.
AtMessage(q) == q.pc \in {"gate", "pop", "seen"} /\ q.next \in DOMAIN q.batch

\* The message is cleared for the upstream.
Clears(r) ==
    LET q == req[r] f == req'[r]
    IN  /\ AtMessage(q) /\ SameInput(q, f)
        /\ f.pc = "gate" /\ f.next = q.next + 1 /\ f.fwd = q.fwd \cup {q.next} /\ f.res = q.res
        /\ \/ q.pc = "gate" /\ q.batch[q.next].kind \in {"list", "other"}
           \/ q.pc = "gate" /\ <<r, q.next>> \in allowed' /\ Holder[q.tok] = None
           \/ /\ q.pc = "seen" /\ PathFits(q)
              /\ \E a \in accepted' : a.place = <<r, q.next>> /\ a.proof = q.proof

\* The gateway refuses the message.
Refuses(r) ==
    LET q == req[r] f == req'[r]
    IN  /\ AtMessage(q) /\ SameInput(q, f)
        /\ f.pc = "gate" /\ f.next = q.next + 1 /\ f.fwd = q.fwd
        /\ \E o \in Refusals : f.res = [q.res EXCEPT ![q.next] = o]

\* The message needs a proof, or its proof is looked up in the replay store.
Asks(r) ==
    LET q == req[r] f == req'[r]
    IN  /\ AtMessage(q) /\ SameInput(q, f)
        /\ f.next = q.next /\ f.fwd = q.fwd /\ f.res = q.res
        /\ \/ /\ q.pc = "gate" /\ f.pc = "pop"
              /\ q.batch[q.next].kind = "call" /\ <<r, q.next>> \in allowed' /\ Holder[q.tok] # None
           \/ q.pc = "pop" /\ f.pc = "seen" /\ ProofFits(q)

\* The request is answered: what waited for a reply has an outcome.
Answers(r) ==
    LET q == req[r] f == req'[r]
    IN  /\ GatedAll(r) /\ SameInput(q, f)
        /\ f.pc = "done" /\ f.next = q.next /\ f.fwd = q.fwd
        /\ DOMAIN f.res = DOMAIN q.res
        /\ q.fwd = {} => f.res = q.res
        /\ q.fwd # {} => \A i \in DOMAIN q.res :
              IF AwaitsReply(q, i) THEN f.res[i] \in {"reply", "filtered", "noreply", "failed"}
                                   ELSE f.res[i] = q.res[i]

\* The process that held the request is gone.
Drops(r) ==
    LET q == req[r] f == req'[r]
    IN  /\ SameInput(q, f) /\ q.pc \in {"gate", "pop", "seen"}
        /\ f.pc = "gone" /\ f.next = q.next /\ f.fwd = q.fwd /\ f.res = q.res

Moves(r) ==
    /\ req'[r] \in Request
    /\ DOMAIN req'[r].res = DOMAIN req'[r].batch
    /\ \/ req'[r] = req[r]
       \/ Arrives(r)
       \/ Clears(r)
       \/ Refuses(r)
       \/ Asks(r)
       \/ Answers(r)
       \/ Drops(r)

\* The place a request has reached, by its pc.
AtPlace ==
    \A r \in Requests : req[r].pc \in {"pop", "seen"} =>
        /\ req[r].next \in DOMAIN req[r].batch
        /\ req[r].batch[req[r].next].kind = "call"
        /\ Holder[req[r].tok] # None

\* A message refused by the gate is a move of its request.
LEMMA AnsweredMoves ==
    ASSUME GatewayTypeOK, NEW r \in Requests, AtMessage(req[r]), NEW o \in Refusals,
           req'[r] = Answered(req[r], o)
    PROVE  Moves(r)
<1>1. req[r] \in Request /\ o \in Outcomes /\ req[r].next \in DOMAIN req[r].res
      /\ DOMAIN req[r].res = DOMAIN req[r].batch
  BY DEF GatewayTypeOK, AtMessage, Refusals, Outcomes
<1>2. DOMAIN [req[r].res EXCEPT ![req[r].next] = o] = DOMAIN req[r].res
  OBVIOUS
<1>3. /\ req'[r] \in Request /\ SameInput(req[r], req'[r])
      /\ req'[r].pc = "gate" /\ req'[r].next = req[r].next + 1 /\ req'[r].fwd = req[r].fwd
      /\ req'[r].res = [req[r].res EXCEPT ![req[r].next] = o]
  BY <1>1, AnsweredFields DEF SameInput
<1>4. Refuses(r)
  BY ONLY <1>3, AtMessage(req[r]), o \in Refusals DEF Refuses
<1>5. DOMAIN req'[r].res = DOMAIN req'[r].batch
  BY <1>1, <1>2, <1>3 DEF SameInput
<1> QED BY ONLY <1>3, <1>4, <1>5 DEF Moves

\* A step that changes only the place of a request leaves the rest of it.
LEMMA OnlyMovesMoves ==
    ASSUME GatewayTypeOK, NEW r \in Requests, NEW l \in {"pop", "seen", "gone"},
           req'[r] = [req[r] EXCEPT !.pc = l]
    PROVE  OnlyMoves(req[r], req'[r], l) /\ DOMAIN req'[r].res = DOMAIN req'[r].batch
<1>1. req[r] \in Request /\ DOMAIN req[r].res = DOMAIN req[r].batch
  BY DEF GatewayTypeOK
<1>2. OnlyMoves(req[r], req'[r], l)
  BY <1>1 DEF OnlyMoves, SameInput, Request
<1> QED BY <1>1, <1>2 DEF OnlyMoves, SameInput

\* Every request makes one of these moves or stays as it is, in each step.
LEMMA RequestStep ==
    ASSUME GatewayTypeOK, AtPlace, [Next]_vars
    PROVE  DOMAIN req' = Requests /\ \A r \in Requests : Moves(r)
<1>1. DOMAIN req = Requests
      /\ \A r \in Requests : req[r] \in Request /\ DOMAIN req[r].res = DOMAIN req[r].batch
  BY DEF GatewayTypeOK
<1>2. ASSUME NEW r \in Requests, req'[r] = req[r] PROVE Moves(r)
  BY <1>1, <1>2 DEF Moves
<1>3. ASSUME req' = req PROVE DOMAIN req' = Requests /\ \A r \in Requests : Moves(r)
  BY <1>1, <1>2, <1>3
<1>4. ASSUME NEW r \in Requests, NEW f, req' = [req EXCEPT ![r] = f], req'[r] = f => Moves(r)
      PROVE  DOMAIN req' = Requests /\ \A s \in Requests : Moves(s)
  BY <1>1, <1>2, <1>4
<1>5. ASSUME NEW r \in Requests, NEW post \in Posts, NEW p \in Proofs \cup {None}, Receive(r, post, p)
      PROVE  DOMAIN req' = Requests /\ \A s \in Requests : Moves(s)
  <2> DEFINE res == [i \in DOMAIN post.batch |-> "none"]
             f == [pc |-> "gate", batch |-> post.batch, tok |-> post.tok, path |-> post.path,
                   proof |-> p, next |-> 1, res |-> res, fwd |-> {}]
  <2>1. post.batch \in Seq(Message) /\ post.tok \in Tokens /\ post.path \in Paths
    BY GatewayAssumption
  <2>2. res \in Seq(Outcomes) /\ DOMAIN res = DOMAIN post.batch /\ \A i \in DOMAIN res : res[i] = "none"
    BY <2>1 DEF Outcomes
  <2> HIDE DEF res
  <2>3. f \in Request
    BY <2>1, <2>2 DEF Request
  <2>4. req' = [req EXCEPT ![r] = f] /\ req[r].pc = "idle" /\ (p # None => proofs[p] # NoProof)
    BY <1>5 DEF Receive, res
  <2>5. ASSUME req'[r] = f PROVE Moves(r)
    BY <2>1, <2>2, <2>3, <2>4, <2>5 DEF Moves, Arrives
  <2> QED BY <1>4, <2>4, <2>5
<1>6. ASSUME NEW r \in Requests, Passthrough(r)
      PROVE  DOMAIN req' = Requests /\ \A s \in Requests : Moves(s)
  <2>1. ASSUME req'[r] = Forwarded(req[r]) PROVE Moves(r)
    BY <1>1, <1>6, <2>1, ForwardedFields DEF Passthrough, Gating, Moves, Clears, SameInput, AtMessage
  <2> QED BY <1>4, <1>6, <2>1 DEF Passthrough
<1>7. ASSUME NEW r \in Requests, Nameless(r)
      PROVE  DOMAIN req' = Requests /\ \A s \in Requests : Moves(s)
  <2>1. AtMessage(req[r])
    BY <1>7 DEF Nameless, Gating, AtMessage
  <2>2. ASSUME req'[r] = Answered(req[r], "invalid") PROVE Moves(r)
    BY <2>1, <2>2, AnsweredMoves DEF Refusals
  <2> QED BY <1>4, <1>7, <2>2 DEF Nameless
<1>8. ASSUME NEW r \in Requests, Authorize(r)
      PROVE  DOMAIN req' = Requests /\ \A s \in Requests : Moves(s)
  <2>1. AtMessage(req[r]) /\ req[r].pc = "gate" /\ req[r].batch[req[r].next].kind = "call"
    BY <1>8 DEF Authorize, Gating, AtMessage
  <2>2. ASSUME req'[r] = AllowedNext(req[r]), <<r, req[r].next>> \in allowed' PROVE Moves(r)
    <3>1. CASE Holder[req[r].tok] = None
      BY <1>1, <2>1, <2>2, <3>1, ForwardedFields DEF AllowedNext, Moves, Clears, SameInput
    <3>2. CASE Holder[req[r].tok] # None
      <4>1. OnlyMoves(req[r], req'[r], "pop") /\ DOMAIN req'[r].res = DOMAIN req'[r].batch
        BY <2>2, <3>2, OnlyMovesMoves DEF AllowedNext
      <4>2. Asks(r)
        BY ONLY <2>1, <2>2, <3>2, <4>1 DEF Asks, OnlyMoves
      <4> QED BY ONLY <4>1, <4>2 DEF Moves, OnlyMoves
    <3> QED BY <3>1, <3>2
  <2>3. ASSUME req'[r] = Answered(req[r], "denied") PROVE Moves(r)
    BY <2>1, <2>3, AnsweredMoves DEF Refusals
  <2> QED BY <1>4, <1>8, <2>2, <2>3 DEF Authorize
<1>9. ASSUME NEW r \in Requests, Verify(r)
      PROVE  DOMAIN req' = Requests /\ \A s \in Requests : Moves(s)
  <2>1. AtMessage(req[r]) /\ req[r].pc = "pop"
    BY <1>9 DEF Verify, AtPlace, AtMessage
  <2>2. ASSUME ProofFits(req[r]), req'[r] = [req[r] EXCEPT !.pc = "seen"] PROVE Moves(r)
    <3>1. OnlyMoves(req[r], req'[r], "seen") /\ DOMAIN req'[r].res = DOMAIN req'[r].batch
      BY <2>2, OnlyMovesMoves
    <3>2. Asks(r)
      BY ONLY <2>1, <2>2, <3>1 DEF Asks, OnlyMoves
    <3> QED BY ONLY <3>1, <3>2 DEF Moves, OnlyMoves
  <2>3. ASSUME req'[r] = Answered(req[r], "nopop") PROVE Moves(r)
    BY <2>1, <2>3, AnsweredMoves DEF Refusals
  <2> QED BY <1>4, <1>9, <2>2, <2>3 DEF Verify
<1>10. ASSUME NEW r \in Requests, Seen(r)
       PROVE  DOMAIN req' = Requests /\ \A s \in Requests : Moves(s)
  <2>1. AtMessage(req[r]) /\ req[r].pc = "seen"
    BY <1>10 DEF Seen, AtPlace, AtMessage
  <2>2. ASSUME req'[r] = Answered(req[r], "nopop") PROVE Moves(r)
    BY <2>1, <2>2, AnsweredMoves DEF Refusals
  <2>3. ASSUME req'[r] = Forwarded(req[r]), PathFits(req[r]),
               \E a \in accepted' : a.place = <<r, req[r].next>> /\ a.proof = req[r].proof
        PROVE  Moves(r)
    BY <1>1, <2>1, <2>3, ForwardedFields DEF Moves, Clears, SameInput
  <2>4. CASE req' = [req EXCEPT ![r] = Answered(@, "nopop")]
    BY <1>4, <2>2, <2>4
  <2>5. CASE ~(req' = [req EXCEPT ![r] = Answered(@, "nopop")])
    <3>1. req' = [req EXCEPT ![r] = IF PathFits(@) THEN Forwarded(@) ELSE Answered(@, "nopop")]
      BY <1>10, <2>5 DEF Seen
    <3>2. PathFits(req[r]) /\ req' = [req EXCEPT ![r] = Forwarded(@)]
      BY <2>5, <3>1
    <3>3. \E a \in accepted' : a.place = <<r, req[r].next>> /\ a.proof = req[r].proof
      <4> DEFINE a == [proof |-> req[r].proof, place |-> <<r, req[r].next>>, late |-> Expired(req[r].proof)]
      <4>1. a \in accepted'
        BY <1>10, <2>5 DEF Seen
      <4>2. a.place = <<r, req[r].next>> /\ a.proof = req[r].proof
        OBVIOUS
      <4> QED BY <4>1, <4>2
    <3> QED BY <1>4, <2>3, <3>2, <3>3
  <2> QED BY <2>4, <2>5
<1>11. ASSUME NEW r \in Requests, NEW res \in Seq(Outcomes), GatedAll(r), Finish(r, res),
              DOMAIN res = DOMAIN req[r].res,
              req[r].fwd = {} => res = req[r].res,
              req[r].fwd # {} => \A i \in DOMAIN req[r].res :
                  IF AwaitsReply(req[r], i) THEN res[i] \in {"reply", "filtered", "noreply", "failed"}
                                            ELSE res[i] = req[r].res[i]
       PROVE  DOMAIN req' = Requests /\ \A s \in Requests : Moves(s)
  <2>1. ASSUME req'[r] = [req[r] EXCEPT !.pc = "done", !.res = res] PROVE Moves(r)
    <3>1. /\ req'[r] \in Request /\ SameInput(req[r], req'[r])
          /\ req'[r].pc = "done" /\ req'[r].next = req[r].next /\ req'[r].fwd = req[r].fwd
          /\ req'[r].res = res
      BY <1>1, <2>1 DEF SameInput, Request
    <3>2. Answers(r)
      BY <1>11, <3>1 DEF Answers
    <3>3. DOMAIN req'[r].res = DOMAIN req'[r].batch
      BY <1>1, <1>11, <3>1 DEF SameInput
    <3> QED BY ONLY <3>1, <3>2, <3>3 DEF Moves
  <2> QED BY <1>4, <1>11, <2>1 DEF Finish
<1>12. ASSUME NEW r \in Requests, AnswerAlone(r)
       PROVE  DOMAIN req' = Requests /\ \A s \in Requests : Moves(s)
  <2>1. req[r].res \in Seq(Outcomes)
    BY <1>1 DEF Request
  <2> QED BY <1>11, <1>12, <2>1 DEF AnswerAlone
<1>13. ASSUME NEW r \in Requests, ForwardFails(r)
       PROVE  DOMAIN req' = Requests /\ \A s \in Requests : Moves(s)
  <2> DEFINE res == [i \in DOMAIN req[r].res |-> IF AwaitsReply(req[r], i) THEN "failed" ELSE req[r].res[i]]
  <2>1. req[r].res \in Seq(Outcomes)
    BY <1>1 DEF Request
  <2>2. res \in Seq(Outcomes) /\ DOMAIN res = DOMAIN req[r].res
    BY <2>1 DEF Outcomes
  <2>3. \A i \in DOMAIN req[r].res : res[i] = IF AwaitsReply(req[r], i) THEN "failed" ELSE req[r].res[i]
    OBVIOUS
  <2>4. GatedAll(r) /\ req[r].fwd # {} /\ Finish(r, res)
    BY <1>13 DEF ForwardFails
  <2> HIDE DEF res
  <2> QED BY <1>11, <2>2, <2>3, <2>4
<1>14. ASSUME NEW r \in Requests, Forward(r)
       PROVE  DOMAIN req' = Requests /\ \A s \in Requests : Moves(s)
  <2>1. PICK ids \in SUBSET ({req[r].batch[i].id : i \in req[r].fwd} \ {NoId}), peeked \in BOOLEAN :
            Finish(r, MatchReplies(req[r], ids, peeked))
    BY <1>14 DEF Forward
  <2> DEFINE res == MatchReplies(req[r], ids, peeked)
  <2>2. req[r].res \in Seq(Outcomes)
    BY <1>1 DEF Request
  <2>3. /\ DOMAIN res = DOMAIN req[r].res
        /\ \A i \in DOMAIN req[r].res :
              IF AwaitsReply(req[r], i) THEN res[i] \in {"reply", "filtered", "noreply"}
                                        ELSE res[i] = req[r].res[i]
    BY DEF MatchReplies
  <2>4. res \in Seq(Outcomes)
    <3>1. res = [i \in 1 .. Len(req[r].res) |-> res[i]]
      BY <2>2 DEF MatchReplies
    <3>2. \A i \in 1 .. Len(req[r].res) : res[i] \in Outcomes
      BY <2>2, <2>3 DEF Outcomes
    <3> HIDE DEF res
    <3> QED BY <2>2, <3>1, <3>2
  <2>5. GatedAll(r) /\ req[r].fwd # {} /\ Finish(r, res)
    BY <1>14, <2>1 DEF Forward
  <2> HIDE DEF res
  <2> QED BY <1>11, <2>3, <2>4, <2>5
<1>15. ASSUME Restart PROVE DOMAIN req' = Requests /\ \A s \in Requests : Moves(s)
  <2> SUFFICES ASSUME NEW s \in Requests PROVE Moves(s)
    BY <1>15 DEF Restart
  <2>1. CASE req[s].pc \in {"gate", "pop", "seen"}
    <3>1. req'[s] = [req[s] EXCEPT !.pc = "gone"]
      BY <1>15, <2>1 DEF Restart
    <3>2. OnlyMoves(req[s], req'[s], "gone") /\ DOMAIN req'[s].res = DOMAIN req'[s].batch
      BY <3>1, OnlyMovesMoves
    <3>3. Drops(s)
      BY ONLY <2>1, <3>2 DEF Drops, OnlyMoves
    <3> QED BY ONLY <3>2, <3>3 DEF Moves, OnlyMoves
  <2>2. CASE req[s].pc \notin {"gate", "pop", "seen"}
    BY <1>2, <1>15, <2>2 DEF Restart
  <2> QED BY <2>1, <2>2
<1>16. ASSUME NEW p \in Proofs, NEW b \in Bindings, Sign(p, b) PROVE req' = req
  BY <1>16 DEF Sign
<1>17. ASSUME Tick \/ UNCHANGED vars PROVE req' = req
  BY <1>17 DEF Tick, vars
<1> QED BY <1>3, <1>5, <1>6, <1>7, <1>8, <1>9, <1>10, <1>12, <1>13, <1>14, <1>15, <1>16, <1>17
        DEF Next, Serve

-----------------------------------------------------------------------------
(* The inductive invariant                                                 *)

\* Message i of the request has an Authorize decision of its own and, under a
\* holder-bound token, an accepted proof of its own.
Cleared(r, i) ==
    /\ <<r, i>> \in allowed
    /\ Holder[req[r].tok] # None =>
          \E a \in accepted :
              /\ a.place = <<r, i>> /\ a.proof = req[r].proof
              /\ proofs[a.proof].key = Holder[req[r].tok]
              /\ proofs[a.proof].tok \in {None, req[r].tok}
              /\ proofs[a.proof].path \in {None, req[r].path}

\* The loop: what lies behind it is forwarded or refused, what lies before it
\* has no outcome.
Looped ==
    \A r \in Requests :
        /\ \A i \in req[r].fwd : i \in DOMAIN req[r].batch /\ i < req[r].next
        /\ req[r].pc \in {"gate", "pop", "seen"} =>
              \A i \in DOMAIN req[r].batch :
                  IF i \in req[r].fwd \/ i >= req[r].next THEN req[r].res[i] = "none"
                                                          ELSE req[r].res[i] \in Refusals

\* A proof in a request is one that was signed; past Verify it is the holder's,
\* and past the loop every gated message is cleared.
Proven ==
    \A r \in Requests :
        /\ req[r].proof # None => proofs[req[r].proof] # NoProof
        /\ req[r].pc \in {"pop", "seen"} => <<r, req[r].next>> \in allowed
        /\ req[r].pc = "seen" =>
              /\ req[r].proof # None
              /\ proofs[req[r].proof].key = Holder[req[r].tok]
              /\ proofs[req[r].proof].tok \in {None, req[r].tok}
        /\ \A i \in req[r].fwd : req[r].batch[i].kind \notin {"list", "other"} => Cleared(r, i)

\* Only requests that are done have executed anything, and only what they
\* forwarded.
Reached ==
    \A r \in Requests : \A i \in Nat :
        <<r, i>> \in executed => i \in req[r].fwd /\ req[r].pc = "done"

Handled == GatewayTypeOK /\ AtPlace /\ Looped /\ Proven /\ Reached

\* At the start no request has come in.
LEMMA HandledInit == Init => Handled
<1> SUFFICES ASSUME Init PROVE Handled
  OBVIOUS
<1>1. \A r \in Requests : req[r] = NoRequest
  BY DEF Init
<1>2. NoProof \in Proof
  BY DEF NoProof, Proof
<1>3. GatewayTypeOK
  BY <1>2, NoRequestType, GatewayAssumption DEF Init, GatewayTypeOK
<1>4. AtPlace /\ Looped /\ Proven
  BY <1>1 DEF AtPlace, Looped, Proven, NoRequest
<1>5. Reached
  BY DEF Init, Reached
<1> QED BY <1>3, <1>4, <1>5 DEF Handled

\* Decisions, acceptances and signed proofs stay, and a new one is about the
\* message a request is at.
LEMMA HistoryStep ==
    ASSUME Handled, [Next]_vars
    PROVE  /\ allowed \subseteq allowed' /\ accepted \subseteq accepted'
           /\ \A p \in Proofs : proofs[p] # NoProof => proofs'[p] = proofs[p]
           /\ allowed' \subseteq Place
           /\ accepted' \subseteq [proof : Proofs, place : Place, late : BOOLEAN]
           /\ proofs' \in [Proofs -> Proof]
           /\ seen' \subseteq Proofs
           /\ now' \in Nat /\ restarts' \in 0 .. MaxRestarts
<1> USE DEF Handled, GatewayTypeOK
<1>1. \A r \in Requests : req[r].next \in Nat /\ <<r, req[r].next>> \in Place
  BY DEF Place, Request
<1>2. ASSUME NEW p \in Proofs, NEW b \in Bindings, Sign(p, b)
      PROVE  /\ proofs' \in [Proofs -> Proof]
             /\ \A x \in Proofs : proofs[x] # NoProof => proofs'[x] = proofs[x]
             /\ UNCHANGED <<now, seen, req, allowed, accepted, executed, restarts>>
  <2>1. b.key \in Keys /\ b.tok \in Tokens \cup {None} /\ b.path \in Paths \cup {None} /\ now + MaxTTL \in Nat
    BY GatewayAssumption
  <2>2. [key |-> b.key, tok |-> b.tok, path |-> b.path, exp |-> now + MaxTTL] \in Proof
    BY <2>1 DEF Proof
  <2> QED BY <1>2, <2>2 DEF Sign
<1>3. ASSUME NEW r \in Requests, Authorize(r)
      PROVE  /\ allowed' \in {allowed, allowed \cup {<<r, req[r].next>>}}
             /\ UNCHANGED <<now, proofs, seen, accepted, executed, restarts>>
  BY <1>3 DEF Authorize
<1>4. ASSUME NEW r \in Requests, Seen(r)
      PROVE  /\ UNCHANGED <<now, proofs, allowed, executed, restarts>>
             /\ seen' \subseteq Proofs
             /\ accepted \subseteq accepted'
             /\ accepted' \subseteq [proof : Proofs, place : Place, late : BOOLEAN]
  <2> DEFINE p == req[r].proof
             a == [proof |-> p, place |-> <<r, req[r].next>>, late |-> Expired(p)]
  <2>1. p \in Proofs
    BY <1>4 DEF Seen, Proven, Request
  <2>2. Expired(p) \in BOOLEAN
    BY DEF Expired
  <2>3. a \in [proof : Proofs, place : Place, late : BOOLEAN]
    BY <1>1, <2>1, <2>2
  <2>4. Prune(seen \cup {p}) \subseteq Proofs
    BY <2>1 DEF Prune
  <2>5. seen' \in {seen, Prune(seen \cup {p})} /\ accepted' \in {accepted, accepted \cup {a}}
        /\ UNCHANGED <<now, proofs, allowed, executed, restarts>>
    BY <1>4 DEF Seen
  <2> HIDE DEF a, p
  <2> QED BY <2>3, <2>4, <2>5
<1>5. ASSUME NEW r \in Requests, NEW post \in Posts, NEW p \in Proofs \cup {None}, Receive(r, post, p)
      PROVE  UNCHANGED <<now, proofs, seen, allowed, accepted, restarts>>
  BY <1>5 DEF Receive
<1>6. ASSUME NEW r \in Requests, Passthrough(r) \/ Nameless(r) \/ Verify(r)
      PROVE  UNCHANGED <<now, proofs, seen, allowed, accepted, restarts>>
  BY <1>6 DEF Passthrough, Nameless, Verify
<1>7. ASSUME NEW r \in Requests, AnswerAlone(r) \/ ForwardFails(r) \/ Forward(r)
      PROVE  UNCHANGED <<now, proofs, seen, allowed, accepted, restarts>>
  BY <1>7 DEF AnswerAlone, ForwardFails, Forward
<1>8. ASSUME Tick PROVE now' \in Nat /\ UNCHANGED <<proofs, seen, allowed, accepted, restarts>>
  BY <1>8 DEF Tick
<1>9. ASSUME Restart
      PROVE  restarts' \in 0 .. MaxRestarts /\ seen' = {} /\ UNCHANGED <<now, proofs, allowed, accepted>>
  BY <1>9, GatewayAssumption DEF Restart
<1>10. CASE \E p \in Proofs, b \in Bindings : Sign(p, b)
  BY <1>2, <1>10
<1>11. CASE \E r \in Requests : Authorize(r) \/ Seen(r)
  BY <1>1, <1>3, <1>4, <1>11
<1>12. CASE Tick \/ Restart
  BY <1>8, <1>9, <1>12
<1>13. CASE UNCHANGED <<now, proofs, seen, allowed, accepted, restarts>>
  BY <1>13
<1>14. UNCHANGED vars => UNCHANGED <<now, proofs, seen, allowed, accepted, restarts>>
  BY DEF vars
<1> QED BY <1>5, <1>6, <1>7, <1>10, <1>11, <1>12, <1>13, <1>14 DEF Next, Serve

\* The upstream receives only what a request forwards with its answer.
LEMMA ExecutedStep ==
    ASSUME Handled, [Next]_vars
    PROVE  /\ executed' \subseteq Place
           /\ \A r \in Requests : \A i \in Nat : <<r, i>> \in executed' =>
                 <<r, i>> \in executed \/ (i \in req'[r].fwd /\ req'[r].pc = "done")
<1> USE DEF Handled, GatewayTypeOK
<1>1. ASSUME NEW r \in Requests, ForwardFails(r) \/ Forward(r)
      PROVE  /\ executed' \in {executed, executed \cup Places(r, req[r].fwd)}
             /\ req'[r].fwd = req[r].fwd /\ req'[r].pc = "done"
             /\ req[r].fwd \subseteq Nat
  <2>1. PICK res : Finish(r, res)
    BY <1>1 DEF ForwardFails, Forward
  <2>2. req[r].fwd \subseteq Nat /\ req[r] \in Request
    BY DEF Request
  <2>3. req'[r] = [req[r] EXCEPT !.pc = "done", !.res = res]
    BY <2>1 DEF Finish
  <2>4. req'[r].fwd = req[r].fwd /\ req'[r].pc = "done"
    BY <2>2, <2>3 DEF Request
  <2>5. executed' \in {executed, executed \cup Places(r, req[r].fwd)}
    BY <1>1 DEF ForwardFails, Forward
  <2> QED BY <2>2, <2>4, <2>5
<1>2. CASE \E r \in Requests : ForwardFails(r) \/ Forward(r)
  <2>1. PICK r \in Requests : ForwardFails(r) \/ Forward(r)
    BY <1>2
  <2>2. Places(r, req[r].fwd) \subseteq Place
    BY <1>1, <2>1 DEF Places, Place
  <2>3. \A s \in Requests : \A i \in Nat : <<s, i>> \in Places(r, req[r].fwd) => s = r /\ i \in req[r].fwd
    BY DEF Places
  <2> QED BY <1>1, <2>1, <2>2, <2>3
<1>3. ASSUME NEW r \in Requests, NEW post \in Posts, NEW p \in Proofs \cup {None}, Receive(r, post, p)
      PROVE  UNCHANGED executed
  BY <1>3 DEF Receive
<1>4. ASSUME NEW r \in Requests, Passthrough(r) \/ Nameless(r) \/ Verify(r) \/ Authorize(r)
      PROVE  UNCHANGED executed
  BY <1>4 DEF Passthrough, Nameless, Verify, Authorize
<1>5. ASSUME NEW r \in Requests, Seen(r) \/ AnswerAlone(r) PROVE UNCHANGED executed
  BY <1>5 DEF Seen, AnswerAlone
<1>6. ASSUME Tick \/ Restart \/ UNCHANGED vars PROVE UNCHANGED executed
  BY <1>6 DEF Tick, Restart, vars
<1>7. ASSUME NEW p \in Proofs, NEW b \in Bindings, Sign(p, b) PROVE UNCHANGED executed
  BY <1>7 DEF Sign
<1>8. CASE UNCHANGED executed
  BY <1>8
<1> QED BY <1>2, <1>3, <1>4, <1>5, <1>6, <1>7, <1>8 DEF Next, Serve

\* A cleared message stays cleared: the request's own input does not change
\* under it.
LEMMA StaysCleared ==
    ASSUME Handled, [Next]_vars, NEW r \in Requests, NEW i, SameInput(req[r], req'[r]), Cleared(r, i)
    PROVE  Cleared(r, i)'
<1>1. /\ allowed \subseteq allowed' /\ accepted \subseteq accepted'
      /\ \A p \in Proofs : proofs[p] # NoProof => proofs'[p] = proofs[p]
  BY HistoryStep
<1>2. req'[r].tok = req[r].tok /\ req'[r].path = req[r].path /\ req'[r].proof = req[r].proof
  BY DEF SameInput
<1>3. CASE Holder[req[r].tok] = None
  BY <1>1, <1>2, <1>3 DEF Cleared
<1>4. CASE Holder[req[r].tok] # None
  <2>1. PICK a \in accepted :
              /\ a.place = <<r, i>> /\ a.proof = req[r].proof
              /\ proofs[a.proof].key = Holder[req[r].tok]
              /\ proofs[a.proof].tok \in {None, req[r].tok}
              /\ proofs[a.proof].path \in {None, req[r].path}
    BY <1>4 DEF Cleared
  <2>2. a.proof \in Proofs /\ a.proof # None
    BY <2>1, GatewayAssumption DEF Handled, GatewayTypeOK
  <2>3. proofs'[a.proof] = proofs[a.proof]
    BY <1>1, <2>1, <2>2 DEF Handled, Proven
  <2>4. <<r, i>> \in allowed'
    BY <1>1 DEF Cleared
  <2> QED BY <1>1, <1>2, <2>1, <2>3, <2>4 DEF Cleared
<1> QED BY <1>3, <1>4

\* A proof is only ever checked for a call of a holder-bound token.
LEMMA AtPlaceStep ==
    ASSUME Handled, [Next]_vars
    PROVE  AtPlace'
<1> SUFFICES ASSUME NEW r \in Requests, req'[r].pc \in {"pop", "seen"}
             PROVE  /\ req'[r].next \in DOMAIN req'[r].batch
                    /\ req'[r].batch[req'[r].next].kind = "call"
                    /\ Holder[req'[r].tok] # None
  BY DEF AtPlace
<1>1. Moves(r)
  BY RequestStep DEF Handled
<1>2. req'[r] = req[r] \/ Asks(r)
  BY <1>1 DEF Moves, Arrives, Clears, Refuses, Answers, Drops
<1> QED BY <1>2 DEF Handled, AtPlace, Asks, AtMessage, SameInput

\* The loop over the batch decides every message once, in order.
LEMMA LoopedStep ==
    ASSUME Handled, [Next]_vars
    PROVE  Looped'
<1> DEFINE Fwd(q) == \A i \in q.fwd : i \in DOMAIN q.batch /\ i < q.next
           Res(q) == q.pc \in {"gate", "pop", "seen"} =>
              \A i \in DOMAIN q.batch :
                  IF i \in q.fwd \/ i >= q.next THEN q.res[i] = "none" ELSE q.res[i] \in Refusals
<1> SUFFICES ASSUME NEW r \in Requests PROVE Fwd(req'[r]) /\ Res(req'[r])
  BY DEF Looped
<1>1. Fwd(req[r]) /\ Res(req[r])
  BY DEF Handled, Looped
<1>2. Moves(r)
  BY RequestStep DEF Handled
<1>3. /\ req[r].next \in Nat /\ req[r].batch \in Seq(Message)
      /\ DOMAIN req[r].res = DOMAIN req[r].batch /\ req[r].fwd \subseteq Nat
      /\ \A i \in DOMAIN req[r].batch : i \in Nat
  BY DEF Handled, GatewayTypeOK, Request
<1>4. CASE req'[r] = req[r]
  BY <1>1, <1>4
<1>5. CASE Arrives(r)
  <2>1. \A i \in DOMAIN req'[r].batch : i >= 1
    BY <1>2 DEF Moves, Request
  <2> QED BY <1>5, <2>1 DEF Arrives
<1>6. CASE Clears(r)
  <2>1. /\ req'[r].fwd = req[r].fwd \cup {req[r].next} /\ req'[r].next = req[r].next + 1
        /\ req'[r].res = req[r].res /\ req'[r].batch = req[r].batch
        /\ req[r].next \in DOMAIN req[r].batch /\ req[r].pc \in {"gate", "pop", "seen"}
    BY <1>6 DEF Clears, SameInput, AtMessage
  <2>2. Fwd(req'[r])
    BY <1>1, <1>3, <2>1
  <2>3. Res(req'[r])
    BY <1>1, <1>3, <2>1
  <2> QED BY <2>2, <2>3
<1>7. CASE Refuses(r)
  <2>1. /\ req'[r].fwd = req[r].fwd /\ req'[r].next = req[r].next + 1
        /\ req'[r].batch = req[r].batch
        /\ req[r].next \in DOMAIN req[r].batch /\ req[r].pc \in {"gate", "pop", "seen"}
    BY <1>7 DEF Refuses, SameInput, AtMessage
  <2>2. PICK o \in Refusals : req'[r].res = [req[r].res EXCEPT ![req[r].next] = o]
    BY <1>7 DEF Refuses
  <2>3. /\ req'[r].res[req[r].next] \in Refusals
        /\ \A i \in DOMAIN req[r].batch \ {req[r].next} : req'[r].res[i] = req[r].res[i]
    BY <1>3, <2>1, <2>2
  <2>4. Fwd(req'[r])
    BY <1>1, <1>3, <2>1
  <2>5. req[r].next \notin req[r].fwd
    BY <1>1, <1>3
  <2>6. ASSUME NEW i \in DOMAIN req[r].batch
        PROVE  IF i \in req[r].fwd \/ i >= req[r].next + 1 THEN req'[r].res[i] = "none"
                                                           ELSE req'[r].res[i] \in Refusals
    BY <1>1, <1>3, <2>1, <2>3, <2>5, <2>6
  <2> QED BY <2>1, <2>4, <2>6
<1>8. CASE Asks(r) \/ Answers(r) \/ Drops(r)
  <2>1. /\ req'[r].fwd = req[r].fwd /\ req'[r].next = req[r].next /\ req'[r].batch = req[r].batch
    BY <1>8 DEF Asks, Answers, Drops, SameInput
  <2>2. CASE Asks(r)
    BY <1>1, <2>1, <2>2 DEF Asks, AtMessage
  <2>3. CASE Answers(r)
    BY <1>1, <2>1, <2>3 DEF Answers
  <2>4. CASE Drops(r)
    BY <1>1, <2>1, <2>4 DEF Drops
  <2> QED BY <1>8, <2>2, <2>3, <2>4
<1> QED BY <1>2, <1>4, <1>5, <1>6, <1>7, <1>8 DEF Moves

\* What is forwarded has passed the checks before it.
LEMMA ProvenStep ==
    ASSUME Handled, [Next]_vars
    PROVE  Proven'
<1> SUFFICES ASSUME NEW r \in Requests
             PROVE  /\ req'[r].proof # None => proofs'[req'[r].proof] # NoProof
                    /\ req'[r].pc \in {"pop", "seen"} => <<r, req'[r].next>> \in allowed'
                    /\ req'[r].pc = "seen" =>
                          /\ req'[r].proof # None
                          /\ proofs'[req'[r].proof].key = Holder[req'[r].tok]
                          /\ proofs'[req'[r].proof].tok \in {None, req'[r].tok}
                    /\ \A i \in req'[r].fwd : req'[r].batch[i].kind \notin {"list", "other"} => Cleared(r, i)'
  BY DEF Proven
<1>1. Moves(r)
  BY RequestStep DEF Handled
<1>2. /\ allowed \subseteq allowed' /\ accepted \subseteq accepted'
      /\ \A p \in Proofs : proofs[p] # NoProof => proofs'[p] = proofs[p]
  BY HistoryStep
<1>3. /\ req[r].proof # None => proofs[req[r].proof] # NoProof /\ req[r].proof \in Proofs
      /\ req[r].pc \in {"pop", "seen"} => <<r, req[r].next>> \in allowed
      /\ req[r].pc = "seen" =>
            /\ req[r].proof # None
            /\ proofs[req[r].proof].key = Holder[req[r].tok]
            /\ proofs[req[r].proof].tok \in {None, req[r].tok}
      /\ \A i \in req[r].fwd : req[r].batch[i].kind \notin {"list", "other"} => Cleared(r, i)
  BY DEF Handled, Proven, GatewayTypeOK, Request
<1>4. req[r].proof # None => proofs'[req[r].proof] = proofs[req[r].proof]
  BY <1>2, <1>3
<1>5. CASE req'[r] = req[r]
  <2>1. SameInput(req[r], req'[r])
    BY <1>5 DEF SameInput
  <2> QED BY <1>2, <1>3, <1>4, <1>5, <2>1, StaysCleared
<1>6. CASE Arrives(r)
  <2>1. req'[r].proof # None => req'[r].proof \in Proofs
    BY <1>1 DEF Moves, Request
  <2> QED BY <1>2, <1>6, <2>1 DEF Arrives
<1>7. CASE Clears(r)
  <2>0. PICK n : n = req[r].next
    OBVIOUS
  <2>1. SameInput(req[r], req'[r]) /\ req'[r].pc = "gate" /\ req'[r].fwd = req[r].fwd \cup {n}
    BY <1>7, <2>0 DEF Clears
  <2>2. req[r].batch[n].kind \in {"list", "other"} \/ Cleared(r, n)'
    <3>1. CASE req[r].pc = "gate" /\ req[r].batch[n].kind \in {"list", "other"}
      BY <3>1
    <3>2. CASE req[r].pc = "gate" /\ <<r, n>> \in allowed' /\ Holder[req[r].tok] = None
      BY <2>1, <3>2 DEF Cleared, SameInput
    <3>3. CASE /\ req[r].pc = "seen" /\ PathFits(req[r])
               /\ \E a \in accepted' : a.place = <<r, n>> /\ a.proof = req[r].proof
      <4>1. proofs[req[r].proof].path \in {None, req[r].path} /\ <<r, n>> \in allowed'
        BY <1>2, <1>3, <2>0, <3>3 DEF PathFits
      <4> QED BY <1>3, <1>4, <2>1, <3>3, <4>1 DEF Cleared, SameInput
    <3> QED BY <1>7, <2>0, <3>1, <3>2, <3>3 DEF Clears
  <2>3. \A i \in req[r].fwd : req[r].batch[i].kind \notin {"list", "other"} => Cleared(r, i)'
    BY <1>3, <2>1, StaysCleared
  <2> QED BY <1>3, <1>4, <2>1, <2>2, <2>3 DEF SameInput
<1>8. CASE Refuses(r) \/ Answers(r) \/ Drops(r)
  <2>1. SameInput(req[r], req'[r]) /\ req'[r].pc \notin {"pop", "seen"} /\ req'[r].fwd = req[r].fwd
    BY <1>8 DEF Refuses, Answers, Drops
  <2>2. \A i \in req[r].fwd : req[r].batch[i].kind \notin {"list", "other"} => Cleared(r, i)'
    BY <1>3, <2>1, StaysCleared
  <2> QED BY <1>3, <1>4, <2>1, <2>2 DEF SameInput
<1>9. CASE Asks(r)
  <2>1. SameInput(req[r], req'[r]) /\ req'[r].fwd = req[r].fwd /\ req'[r].next = req[r].next
    BY <1>9 DEF Asks
  <2>2. \A i \in req[r].fwd : req[r].batch[i].kind \notin {"list", "other"} => Cleared(r, i)'
    BY <1>3, <2>1, StaysCleared
  <2>3. <<r, req[r].next>> \in allowed'
    BY <1>2, <1>3, <1>9 DEF Asks
  <2>4. req'[r].pc = "seen" => ProofFits(req[r])
    BY <1>9 DEF Asks
  <2>5. ProofFits(req[r]) => /\ req[r].proof # None
                             /\ proofs[req[r].proof].key = Holder[req[r].tok]
                             /\ proofs[req[r].proof].tok \in {None, req[r].tok}
    BY DEF ProofFits
  <2> QED BY <1>3, <1>4, <2>1, <2>2, <2>3, <2>4, <2>5 DEF SameInput
<1> QED BY <1>1, <1>5, <1>6, <1>7, <1>8, <1>9 DEF Moves

\* Every step of the gateway keeps the invariant.
LEMMA HandledStep == Handled /\ [Next]_vars => Handled'
<1> SUFFICES ASSUME Handled, [Next]_vars PROVE Handled'
  OBVIOUS
<1>1. DOMAIN req' = Requests /\ \A r \in Requests : Moves(r)
  BY RequestStep DEF Handled
<1>2. GatewayTypeOK'
  <2>1. req' \in [Requests -> Request]
    <3>1. \A r \in Requests : req'[r] \in Request
      BY <1>1 DEF Moves
    <3>2. req' = [r \in Requests |-> req'[r]]
      <4>1. CASE req' = req
        BY <4>1 DEF Handled, GatewayTypeOK
      <4>2. CASE req' # req
        <5>1. \/ \E r \in Requests : \E f : req' = [req EXCEPT ![r] = f]
              \/ Restart
          BY <4>2 DEF Next, Serve, Receive, Passthrough, Nameless, Authorize, Verify, Seen,
                      AnswerAlone, ForwardFails, Forward, Finish, Sign, Tick, vars
        <5> QED BY <5>1 DEF Handled, GatewayTypeOK, Restart
      <4> QED BY <4>1, <4>2
    <3> QED BY <3>1, <3>2
  <2>2. \A r \in Requests : DOMAIN req'[r].res = DOMAIN req'[r].batch
    BY <1>1 DEF Moves
  <2> QED BY <2>1, <2>2, HistoryStep, ExecutedStep DEF GatewayTypeOK
<1>3. Reached'
  <2> SUFFICES ASSUME NEW r \in Requests, NEW i \in Nat, <<r, i>> \in executed
               PROVE  i \in req'[r].fwd /\ req'[r].pc = "done"
    BY ExecutedStep DEF Reached
  <2>1. i \in req[r].fwd /\ req[r].pc = "done"
    BY DEF Handled, Reached
  <2>2. req'[r] = req[r]
    BY <1>1, <2>1 DEF Moves, Arrives, Clears, Refuses, Asks, AtMessage, Answers, GatedAll, Drops
  <2> QED BY <2>1, <2>2
<1> QED BY <1>2, <1>3, AtPlaceStep, LoopedStep, ProvenStep DEF Handled

\* Every request is handled as the invariant says, at each of its steps.
THEOREM AllHandled == Spec => []Handled
BY HandledInit, HandledStep, PTL DEF Spec

\* Requests, decisions, proofs and the replay store keep their shape, whatever
\* requests race and whenever the process restarts.
THEOREM GatewayTypeCorrect == Spec => []GatewayTypeOK
<1>1. Handled => GatewayTypeOK
  BY DEF Handled
<1> QED BY <1>1, AllHandled, PTL

\* A gated message reaches the upstream only with an Authorize decision and,
\* under a holder-bound token, an accepted proof of its own.
THEOREM NothingUnauthorized == Spec => []ExecutedAuthorized
<1>1. Handled => ExecutedAuthorized
  <2> SUFFICES ASSUME Handled, NEW r \in Requests, NEW i \in DOMAIN req[r].batch,
                      <<r, i>> \in executed, req[r].batch[i].kind \notin {"list", "other"}
               PROVE  Cleared(r, i)
    BY DEF ExecutedAuthorized, Cleared
  <2>1. i \in Nat
    BY DEF Handled, GatewayTypeOK, Request
  <2>2. i \in req[r].fwd
    BY <2>1 DEF Handled, Reached
  <2> QED BY <2>2 DEF Handled, Proven
<1> QED BY <1>1, AllHandled, PTL

-----------------------------------------------------------------------------
(* The answers                                                             *)

\* An answer, once complete, tells forwarded calls from refused ones.
LEMMA TruthStep ==
    ASSUME Handled, AnsweredTruthfully, [Next]_vars
    PROVE  AnsweredTruthfully'
<1> DEFINE Replies == {"reply", "filtered", "noreply", "failed"}
<1> SUFFICES ASSUME NEW r \in Requests, req'[r].pc = "done", NEW i \in DOMAIN req'[r].batch,
                    ~Notification(req'[r].batch[i])
             PROVE  req'[r].res[i] # "none" /\ (req'[r].res[i] \in Replies <=> i \in req'[r].fwd)
  BY DEF AnsweredTruthfully, Notification
<1>1. Moves(r)
  BY RequestStep DEF Handled
<1>2. req'[r] = req[r] \/ Answers(r)
  BY <1>1 DEF Moves, Arrives, Clears, Refuses, Asks, Drops
<1>3. CASE req'[r] = req[r]
  BY <1>3 DEF AnsweredTruthfully
<1>4. CASE Answers(r)
  <2>1. /\ req'[r].batch = req[r].batch /\ req'[r].fwd = req[r].fwd
        /\ req[r].pc = "gate" /\ req[r].next > Len(req[r].batch)
    BY <1>4 DEF Answers, SameInput, GatedAll
  <2>2. /\ req[r].next \in Nat /\ req[r].batch \in Seq(Message)
        /\ DOMAIN req[r].res = DOMAIN req[r].batch
    BY DEF Handled, GatewayTypeOK, Request
  <2>3. i \in DOMAIN req[r].res /\ ~(i >= req[r].next)
    BY <2>1, <2>2
  <2>4. IF i \in req[r].fwd THEN req[r].res[i] = "none" ELSE req[r].res[i] \in Refusals
    BY <2>1, <2>3 DEF Handled, Looped
  <2>5. CASE req[r].fwd = {}
    BY <1>4, <2>1, <2>4, <2>5 DEF Answers, Refusals
  <2>6. CASE req[r].fwd # {}
    <3>1. IF AwaitsReply(req[r], i) THEN req'[r].res[i] \in Replies ELSE req'[r].res[i] = req[r].res[i]
      BY <1>4, <2>3, <2>6 DEF Answers
    <3>2. AwaitsReply(req[r], i) <=> req[r].res[i] = "none"
      BY <2>1 DEF AwaitsReply
    <3> QED BY <2>1, <2>4, <3>1, <3>2 DEF Refusals
  <2> QED BY <2>5, <2>6
<1> QED BY <1>2, <1>3, <1>4

\* Every message that is no notification gets an outcome, and the upstream's
\* replies go to the messages that were forwarded, for any batch and whatever
\* ids its messages repeat.
THEOREM AnswersTruthful == Spec => []AnsweredTruthfully
<1>1. Init => AnsweredTruthfully
  BY DEF Init, AnsweredTruthfully, NoRequest
<1>2. Handled /\ AnsweredTruthfully /\ [Next]_vars => AnsweredTruthfully'
  BY TruthStep
<1> QED BY <1>1, <1>2, AllHandled, PTL DEF Spec

-----------------------------------------------------------------------------
(* The replay store                                                        *)

\* The acceptances of a proof while it was good.
Good(p) == {a \in accepted : a.proof = p /\ ~a.late}

\* A proof that is good and not in the replay store has not been accepted in
\* this life of the process; one that is not signed never was.
Fresh ==
    \A p \in Proofs :
        /\ IsFiniteSet(Good(p)) /\ Cardinality(Good(p)) <= 1 + restarts
        /\ ~Expired(p) /\ p \notin seen => Cardinality(Good(p)) <= restarts
        /\ proofs[p] = NoProof => Good(p) = {}

\* Pruning keeps what is good.
LEMMA PruneKeeps ==
    ASSUME NEW S, NEW p \in S, ~Expired(p)
    PROVE  p \in Prune(S)
BY DEF Prune

\* How a step changes what is known of a proof that is not looked up in it.
LEMMA FreshSame ==
    ASSUME Handled, Fresh, Handled', NEW p \in Proofs, Good(p)' = Good(p), restarts' >= restarts,
           \/ restarts' = restarts + 1
           \/ ~Expired(p)' => ~Expired(p)
           \/ proofs[p] = NoProof,
           restarts' = restarts => (p \in seen => p \in seen' \/ Expired(p)'),
           proofs'[p] = NoProof => proofs[p] = NoProof
    PROVE  /\ IsFiniteSet(Good(p)') /\ Cardinality(Good(p)') <= 1 + restarts'
           /\ ~Expired(p)' /\ p \notin seen' => Cardinality(Good(p)') <= restarts'
           /\ proofs'[p] = NoProof => Good(p)' = {}
<1>1. restarts \in Nat /\ restarts' \in Nat
  BY GatewayAssumption DEF Handled, GatewayTypeOK
<1>2. /\ IsFiniteSet(Good(p)) /\ Cardinality(Good(p)) <= 1 + restarts
      /\ ~Expired(p) /\ p \notin seen => Cardinality(Good(p)) <= restarts
      /\ proofs[p] = NoProof => Good(p) = {}
  BY DEF Fresh
<1>3. Cardinality(Good(p)) \in Nat
  BY <1>2, FS_CardinalityType
<1>4. Good(p) = {} => Cardinality(Good(p)) = 0
  BY FS_EmptySet
<1> QED BY <1>1, <1>2, <1>3, <1>4

\* The replay store takes a proof it has not seen, and counts it.
LEMMA FreshSeen ==
    ASSUME Handled, Fresh, Handled', NEW r \in Requests, Seen(r)
    PROVE  Fresh'
<1> DEFINE p == req[r].proof
           n == req[r].next
<1>1. PICK x : x = p
  OBVIOUS
<1>2. PICK a : a = [proof |-> p, place |-> <<r, n>>, late |-> Expired(p)]
  OBVIOUS
<1>3. x \in Proofs /\ proofs[x] # NoProof
  BY <1>1 DEF Seen, Handled, Proven, GatewayTypeOK, Request
<1>4. UNCHANGED <<now, proofs, restarts>> /\ restarts \in Nat
  BY GatewayAssumption DEF Seen, Handled, GatewayTypeOK
<1>5. \A y \in Proofs : Expired(y)' <=> Expired(y)
  BY <1>4 DEF Expired
<1>6. \/ UNCHANGED <<seen, accepted>>
      \/ /\ x \notin seen \/ Expired(x)
         /\ seen' = Prune(seen \cup {x}) /\ accepted' = accepted \cup {a}
  BY <1>1, <1>2 DEF Seen
<1>7. a.proof = x /\ a.late = Expired(x)
  BY <1>1, <1>2
<1>8. ASSUME NEW y \in Proofs, y \in seen PROVE y \in seen' \/ Expired(y)'
  BY <1>5, <1>6, <1>8, PruneKeeps
<1>9. ASSUME NEW y \in Proofs, Good(y)' = Good(y)
      PROVE  /\ IsFiniteSet(Good(y)') /\ Cardinality(Good(y)') <= 1 + restarts'
             /\ ~Expired(y)' /\ y \notin seen' => Cardinality(Good(y)') <= restarts'
             /\ proofs'[y] = NoProof => Good(y)' = {}
  BY <1>4, <1>5, <1>8, <1>9, FreshSame
<1>10. CASE UNCHANGED <<seen, accepted>>
  <2>1. \A y \in Proofs : Good(y)' = Good(y)
    BY <1>10 DEF Good
  <2> QED BY <1>9, <2>1 DEF Fresh
<1>11. CASE /\ x \notin seen \/ Expired(x)
            /\ seen' = Prune(seen \cup {x}) /\ accepted' = accepted \cup {a}
  <2>1. \A y \in Proofs \ {x} : Good(y)' = Good(y)
    BY <1>7, <1>11 DEF Good
  <2>2. CASE Expired(x)
    <3>1. Good(x)' = Good(x)
      BY <1>7, <1>11, <2>2 DEF Good
    <3> QED BY <1>9, <2>1, <3>1 DEF Fresh
  <2>3. CASE ~Expired(x)
    <3>1. Good(x)' = Good(x) \cup {a}
      BY <1>7, <1>11, <2>3 DEF Good
    <3>2. IsFiniteSet(Good(x)) /\ Cardinality(Good(x)) <= restarts
      BY <1>3, <1>11, <2>3 DEF Fresh
    <3>3. /\ IsFiniteSet(Good(x) \cup {a})
          /\ \/ Cardinality(Good(x) \cup {a}) = Cardinality(Good(x))
             \/ Cardinality(Good(x) \cup {a}) = Cardinality(Good(x)) + 1
      BY <3>2, FS_AddElement
    <3>4. Cardinality(Good(x)) \in Nat
      BY <3>2, FS_CardinalityType
    <3>5. IsFiniteSet(Good(x)') /\ Cardinality(Good(x)') <= 1 + restarts'
      BY <1>4, <3>1, <3>2, <3>3, <3>4
    <3>6. x \in seen'
      BY <1>11, <2>3, PruneKeeps
    <3>7. proofs'[x] # NoProof
      BY <1>3, <1>4
    <3> QED BY <1>9, <2>1, <3>5, <3>6, <3>7 DEF Fresh
  <2> QED BY <2>2, <2>3
<1> QED BY <1>6, <1>10, <1>11

\* Every step keeps the count of the accepted uses of a proof.
LEMMA FreshStep ==
    ASSUME Handled, Fresh, [Next]_vars
    PROVE  Fresh'
<1>1. Handled'
  BY HandledStep
<1>2. restarts \in Nat /\ now \in Nat /\ restarts' \in Nat
  BY <1>1, GatewayAssumption DEF Handled, GatewayTypeOK
<1>3. CASE UNCHANGED <<now, proofs, seen, accepted, restarts>>
  BY <1>3 DEF Fresh, Good, Expired
<1>4. ASSUME NEW r \in Requests, Seen(r) PROVE Fresh'
  BY <1>1, <1>4, FreshSeen
<1>5. ASSUME NEW p \in Proofs, NEW b \in Bindings, Sign(p, b) PROVE Fresh'
  <2>1. UNCHANGED <<now, seen, accepted, restarts>> /\ proofs[p] = NoProof
    BY <1>5 DEF Sign
  <2>2. \A x \in Proofs \ {p} : proofs'[x] = proofs[x]
    BY <1>5 DEF Sign, Handled, GatewayTypeOK
  <2>3. \A x \in Proofs : Good(x)' = Good(x)
    BY <2>1 DEF Good
  <2>4. \A x \in Proofs \ {p} : Expired(x)' <=> Expired(x)
    BY <2>1, <2>2 DEF Expired
  <2>5. ASSUME NEW x \in Proofs
        PROVE  /\ IsFiniteSet(Good(x)') /\ Cardinality(Good(x)') <= 1 + restarts'
               /\ ~Expired(x)' /\ x \notin seen' => Cardinality(Good(x)') <= restarts'
               /\ proofs'[x] = NoProof => Good(x)' = {}
    BY <1>1, <1>2, <2>1, <2>2, <2>3, <2>4, FreshSame
  <2> QED BY <2>5 DEF Fresh
<1>6. ASSUME Tick PROVE Fresh'
  <2>1. UNCHANGED <<proofs, seen, accepted, restarts>> /\ now' = now + 1
    BY <1>6 DEF Tick
  <2>2. \A x \in Proofs : Good(x)' = Good(x)
    BY <2>1 DEF Good
  <2>3. \A x \in Proofs : proofs[x].exp \in Nat
    BY DEF Handled, GatewayTypeOK, Proof
  <2>4. \A x \in Proofs : ~Expired(x)' => ~Expired(x)
    BY <1>2, <2>1, <2>3 DEF Expired
  <2>5. ASSUME NEW x \in Proofs
        PROVE  /\ IsFiniteSet(Good(x)') /\ Cardinality(Good(x)') <= 1 + restarts'
               /\ ~Expired(x)' /\ x \notin seen' => Cardinality(Good(x)') <= restarts'
               /\ proofs'[x] = NoProof => Good(x)' = {}
    BY <1>1, <1>2, <2>1, <2>2, <2>4, FreshSame
  <2> QED BY <2>5 DEF Fresh
<1>7. ASSUME Restart PROVE Fresh'
  <2>1. UNCHANGED <<now, proofs, accepted>> /\ restarts' = restarts + 1
    BY <1>7 DEF Restart
  <2>2. \A x \in Proofs : Good(x)' = Good(x)
    BY <2>1 DEF Good
  <2>3. restarts' # restarts /\ restarts' >= restarts
    BY <1>2, <2>1
  <2>4. ASSUME NEW x \in Proofs
        PROVE  /\ IsFiniteSet(Good(x)') /\ Cardinality(Good(x)') <= 1 + restarts'
               /\ ~Expired(x)' /\ x \notin seen' => Cardinality(Good(x)') <= restarts'
               /\ proofs'[x] = NoProof => Good(x)' = {}
    BY <1>1, <2>1, <2>2, <2>3, FreshSame
  <2> QED BY <2>4 DEF Fresh
<1>8. ASSUME NEW r \in Requests, NEW post \in Posts, NEW p \in Proofs \cup {None}, Receive(r, post, p)
      PROVE  UNCHANGED <<now, proofs, seen, accepted, restarts>>
  BY <1>8 DEF Receive
<1>9. ASSUME NEW r \in Requests, Passthrough(r) \/ Nameless(r) \/ Verify(r) \/ Authorize(r)
      PROVE  UNCHANGED <<now, proofs, seen, accepted, restarts>>
  BY <1>9 DEF Passthrough, Nameless, Verify, Authorize
<1>10. ASSUME NEW r \in Requests, AnswerAlone(r) \/ ForwardFails(r) \/ Forward(r)
       PROVE  UNCHANGED <<now, proofs, seen, accepted, restarts>>
  BY <1>10 DEF AnswerAlone, ForwardFails, Forward
<1>11. UNCHANGED vars => UNCHANGED <<now, proofs, seen, accepted, restarts>>
  BY DEF vars
<1> QED BY <1>3, <1>4, <1>5, <1>6, <1>7, <1>8, <1>9, <1>10, <1>11 DEF Next, Serve

\* While it is good, a proof of possession is accepted once in the life of a
\* process, however many requests race for it and however the replay store
\* prunes; a restart costs one more.
THEOREM ProofsAcceptedOnce == Spec => []ProofOncePerLife
<1>1. Init => Fresh
  <2> SUFFICES ASSUME Init PROVE Fresh
    OBVIOUS
  <2>1. \A p \in Proofs : Good(p) = {}
    BY DEF Init, Good
  <2>2. IsFiniteSet({}) /\ Cardinality({}) = 0
    BY FS_EmptySet
  <2> QED BY <2>1, <2>2 DEF Init, Fresh
<1>2. Handled /\ Fresh /\ [Next]_vars => Fresh'
  BY FreshStep
<1>3. Fresh => ProofOncePerLife
  BY DEF Fresh, Good, ProofOncePerLife
<1> QED BY <1>1, <1>2, <1>3, AllHandled, PTL DEF Spec

=============================================================================
