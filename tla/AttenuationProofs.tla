------------------------- MODULE AttenuationProofs -------------------------
(***************************************************************************)
(* Proofs about Attenuation, for any number of parties, base tokens and    *)
(* blocks: an accepted chain is narrower than its base token, has a holder *)
(* the base token's holder consented to, and is one its presenter has or   *)
(* the beginning of one.                                                   *)
(***************************************************************************)
EXTENDS Attenuation, ScopesProofs

-----------------------------------------------------------------------------
(* Type correctness                                                        *)

\* What a walk is made of.
LEMMA WalkFields ==
    ASSUME NEW w \in Walk
    PROVE  /\ w.pc \in {"idle", "walk", "ok", "rejected"} /\ w.by \in Keys /\ w.chain \in Chain
           /\ w.i \in Nat /\ w.scopes \in Seq(Scope) /\ w.origins \in Seq(Nat) /\ w.exp \in Nat
           /\ w.cnf \in Keys \cup {None}
           /\ w.chain.base \in Base /\ w.chain.blocks \in Seq(Block)
BY DEF Walk, Chain

\* A walk that begins, and may end at once.
Started(k, c, p) == [Start(k, c) EXCEPT !.pc = p]

\* A walk that begins is well typed.
LEMMA StartType ==
    ASSUME NEW k \in Keys, NEW c \in Chain, NEW p \in {"idle", "walk", "rejected"},
           NEW w, w = Started(k, c, p)
    PROVE  /\ w \in Walk /\ w.i = 0 /\ w.pc = p /\ w.by = k /\ w.chain = c
           /\ w.scopes = c.base.scopes /\ w.exp = c.base.exp /\ w.cnf = c.base.cnf
           /\ DOMAIN w.origins = DOMAIN c.base.scopes
           /\ \A n \in DOMAIN c.base.scopes : w.origins[n] = n
<1>1. c.base.scopes \in Seq(Scope) /\ c.base.exp \in Nat /\ c.base.cnf \in Keys \cup {None}
  BY DEF Chain, Base
<1> DEFINE o == [n \in DOMAIN c.base.scopes |-> n]
<1>2. o \in Seq(Nat) /\ DOMAIN o = DOMAIN c.base.scopes
  <2>1. DOMAIN c.base.scopes = 1 .. Len(c.base.scopes) /\ Len(c.base.scopes) \in Nat
    BY <1>1
  <2> QED BY <2>1
<1> HIDE DEF o
<1>3. w = [pc |-> p, by |-> k, chain |-> c, i |-> 0, scopes |-> c.base.scopes,
           origins |-> o, exp |-> c.base.exp, cnf |-> c.base.cnf]
  BY DEF Started, Start, o
<1>4. w \in Walk
  BY ONLY <1>1, <1>2, <1>3, k \in Keys, c \in Chain, p \in {"idle", "walk", "rejected"} DEF Walk
<1> QED BY <1>2, <1>3, <1>4 DEF o

\* The chain with one more block.
LEMMA BlockAdded ==
    ASSUME NEW c \in Chain, NEW b \in Block, NEW d, d = [c EXCEPT !.blocks = Append(@, b)]
    PROVE  /\ d \in Chain /\ d.base = c.base /\ d.blocks = Append(c.blocks, b)
<1>1. c.base \in Base /\ c.blocks \in Seq(Block) /\ Append(c.blocks, b) \in Seq(Block)
  BY DEF Chain
<1>2. PICK s \in Seq(Block) : s = Append(c.blocks, b)
  BY <1>1
<1>3. d = [c EXCEPT !.blocks = s]
  BY <1>2
<1>4. d \in Chain /\ d.base = c.base /\ d.blocks = s
  BY ONLY <1>3, c \in Chain, s \in Seq(Block) DEF Chain
<1> QED BY <1>2, <1>4

\* The block appendBlock signs.
Signed(k, c, scopes, exp, cnf) ==
    [scopes |-> scopes, exp |-> exp, cnf |-> cnf, signer |-> k, prev |-> Tip(c), sig |-> fresh]

\* The block is well typed.
LEMMA SignedType ==
    ASSUME ChainTypeOK, NEW k \in Keys, NEW c \in held[k],
           NEW scopes \in ScopeLists, NEW exp \in Expiries, NEW cnf \in Cnfs
    PROVE  /\ c \in Chain /\ Signed(k, c, scopes, exp, cnf) \in Block
<1>1. c \in Chain
  BY DEF ChainTypeOK
<1>2. Tip(c) \in Int
  <2>1. c.base.sig \in Int /\ c.blocks \in Seq(Block)
    BY <1>1 DEF Chain, Base
  <2>2. CASE c.blocks = <<>>
    BY <2>1, <2>2 DEF Tip
  <2>3. CASE c.blocks # <<>>
    <3>1. Len(c.blocks) \in DOMAIN c.blocks
      BY <2>1, <2>3
    <3>2. c.blocks[Len(c.blocks)] \in Block
      BY <2>1, <3>1
    <3> QED BY <2>3, <3>2 DEF Tip, Block
  <2> QED BY <2>2, <2>3
<1>3. fresh \in Nat
  BY DEF ChainTypeOK
<1>4. scopes \in Seq(Scope) /\ exp \in Nat /\ cnf \in Keys \cup {None}
  BY AttenuationAssumption
<1> QED BY <1>1, <1>2, <1>3, <1>4 DEF Signed, Block

\* What is in force after a block is well typed.
LEMMA NarrowedType ==
    ASSUME NEW w \in Walk, DOMAIN w.origins = DOMAIN w.scopes, NEW b \in Block,
           NEW n, n = Narrowed(w, b)
    PROVE  /\ n \in Walk /\ DOMAIN n.origins = DOMAIN n.scopes
           /\ n.pc = w.pc /\ n.by = w.by /\ n.chain = w.chain /\ n.i = w.i + 1
           /\ n.scopes = IF b.scopes = <<>> THEN w.scopes ELSE Attenuate(w.scopes, b.scopes)
           /\ n.origins = IF b.scopes = <<>> THEN w.origins ELSE Origins(w, b.scopes)
           /\ n.exp = IF b.exp = 0 THEN w.exp ELSE b.exp
           /\ n.cnf = IF b.cnf = None THEN w.cnf ELSE b.cnf
<1>1. /\ b.scopes \in Seq(Scope) /\ b.exp \in Nat /\ b.cnf \in Keys \cup {None}
  BY DEF Block
<1>2. w.scopes \in Seq(Scope) /\ w.origins \in Seq(Nat)
  BY WalkFields
<1>3. Attenuate(w.scopes, b.scopes) \in Seq(Scope)
  BY <1>1, <1>2, AttenuateType
<1>4. Origins(w, b.scopes) \in Seq(Nat) /\ DOMAIN Origins(w, b.scopes) = DOMAIN Attenuate(w.scopes, b.scopes)
  <2>1. PICK l \in Nat, m \in Nat : l = Len(b.scopes) /\ m = Len(w.scopes)
    BY <1>1, <1>2
  <2>2. l * m \in Nat
    OBVIOUS
  <2>3. ASSUME NEW q \in 1 .. l * m PROVE w.origins[((q - 1) % m) + 1] \in Nat
    <3>1. ((q - 1) % m) + 1 \in 1 .. m
      BY PlaceInRange
    <3>2. DOMAIN w.origins = 1 .. m
      BY <1>2, <2>1
    <3> QED BY <1>2, <3>1, <3>2
  <2>4. Origins(w, b.scopes) = [q \in 1 .. l * m |-> w.origins[((q - 1) % m) + 1]]
    BY <2>1 DEF Origins
  <2>5. DOMAIN Attenuate(w.scopes, b.scopes) = 1 .. l * m
    BY <2>1 DEF Attenuate
  <2> QED BY <2>2, <2>3, <2>4, <2>5
<1> DEFINE ss == IF b.scopes = <<>> THEN w.scopes ELSE Attenuate(w.scopes, b.scopes)
           oo == IF b.scopes = <<>> THEN w.origins ELSE Origins(w, b.scopes)
           ee == IF b.exp = 0 THEN w.exp ELSE b.exp
           cc == IF b.cnf = None THEN w.cnf ELSE b.cnf
<1>5. n = [w EXCEPT !.i = w.i + 1, !.scopes = ss, !.origins = oo, !.exp = ee, !.cnf = cc]
  BY DEF Narrowed, Walk
<1>6. ss \in Seq(Scope) /\ oo \in Seq(Nat) /\ ee \in Nat /\ cc \in Keys \cup {None} /\ DOMAIN oo = DOMAIN ss
  BY <1>1, <1>2, <1>3, <1>4, WalkFields
<1>7. w.i + 1 \in Nat
  BY WalkFields
<1> HIDE DEF ss, oo, ee, cc
<1>8. /\ n \in Walk /\ n.pc = w.pc /\ n.by = w.by /\ n.chain = w.chain /\ n.i = w.i + 1
      /\ n.scopes = ss /\ n.origins = oo /\ n.exp = ee /\ n.cnf = cc
  BY <1>5, <1>6, <1>7 DEF Walk
<1> QED BY <1>6, <1>8 DEF ss, oo, ee, cc

\* The sequences Present may be given.
LEMMA SequencesType ==
    ASSUME NEW S, NEW n \in Nat, NEW s \in Sequences(S, n)
    PROVE  s \in Seq(S)
<1>1. PICK m \in 0 .. n : s \in [1 .. m -> S]
  BY DEF Sequences
<1> QED BY <1>1

\* The blocks a party has seen.
LEMMA BlocksType ==
    ASSUME ChainTypeOK, NEW k \in Keys
    PROVE  /\ Blocks(k) \subseteq Block
           /\ \A b \in Blocks(k) : \E c \in held[k], i \in Nat : i \in DOMAIN c.blocks /\ b = c.blocks[i]
<1>1. \A c \in held[k] : c \in Chain /\ c.blocks \in Seq(Block)
  BY DEF ChainTypeOK, Chain
<1> SUFFICES ASSUME NEW b \in Blocks(k)
             PROVE  b \in Block /\ \E c \in held[k], i \in Nat : i \in DOMAIN c.blocks /\ b = c.blocks[i]
  OBVIOUS
<1>2. PICK c \in held[k] : b \in {c.blocks[i] : i \in DOMAIN c.blocks}
  BY DEF Blocks
<1>3. PICK i \in DOMAIN c.blocks : b = c.blocks[i]
  BY <1>2
<1> QED BY <1>1, <1>3

\* The chains and the walk at the start.
LEMMA InitShape ==
    ASSUME Init
    PROVE  \E k \in Keys, b \in Bases :
              /\ held = [h \in Keys |-> IF h = k THEN {New(c) : c \in Bases} ELSE {}]
              /\ walk = Started(k, New(b), "idle")
              /\ New(b) \in Chain
<1>1. PICK b : b \in Bases /\ b = CHOOSE x \in Bases : TRUE
  BY AttenuationAssumption
<1>2. New(b) \in Chain
  <2>1. b \in Base /\ <<>> \in Seq(Block)
    BY <1>1, AttenuationAssumption
  <2> QED BY <2>1 DEF New, Chain
<1> QED BY <1>1, <1>2 DEF Init, Started

\* The initial state is well typed.
LEMMA ChainTypeInit == Init => ChainTypeOK
<1> SUFFICES ASSUME Init PROVE ChainTypeOK
  OBVIOUS
<1>1. PICK k \in Keys, b \in Bases :
         /\ held = [h \in Keys |-> IF h = k THEN {New(c) : c \in Bases} ELSE {}]
         /\ walk = Started(k, New(b), "idle")
         /\ New(b) \in Chain
  BY InitShape
<1>2. \A c \in Bases : New(c) \in Chain
  <2>1. <<>> \in Seq(Block)
    OBVIOUS
  <2> QED BY <2>1, AttenuationAssumption DEF New, Chain
<1>3. held \in [Keys -> SUBSET Chain]
  BY <1>1, <1>2
<1>4. /\ walk \in Walk /\ DOMAIN walk.origins = DOMAIN walk.scopes /\ walk.i = 0 /\ walk.chain = New(b)
  BY <1>1, StartType
<1>5. Len(New(b).blocks) = 0
  BY DEF New
<1>6. walk.i \in 0 .. Len(walk.chain.blocks)
  BY <1>4, <1>5
<1> QED BY <1>3, <1>4, <1>6 DEF Init, ChainTypeOK

\* What a step does to the walk: it begins, passes a block, or ends.
WalkBegins ==
    \E k \in Keys : \E b \in Tokens(k), s \in Sequences(Blocks(k), MaxBlocks), p \in {"walk", "rejected"} :
        walk' = Started(k, [base |-> b, blocks |-> s], p)

WalkPasses ==
    /\ walk.i < Len(walk.chain.blocks) /\ Linked(walk)
    /\ KeepsExpiry(walk, walk.chain.blocks[walk.i + 1])
    /\ MayRebind(walk, walk.chain.blocks[walk.i + 1])
    /\ walk' = Narrowed(walk, walk.chain.blocks[walk.i + 1])

WalkEnds ==
    \E p \in {"ok", "rejected"} :
        /\ walk' = [walk EXCEPT !.pc = p]
        /\ p = "ok" => walk.i = Len(walk.chain.blocks)

\* What a step does to the chains: a block is signed, or a chain handed on.
Signs ==
    \E k \in Keys : \E c \in held[k], scopes \in ScopeLists, exp \in Expiries, cnf \in Cnfs :
        /\ held' = [held EXCEPT ![k] = @ \cup
                       {[c EXCEPT !.blocks = Append(@, Signed(k, c, scopes, exp, cnf))]}]
        /\ fresh' = fresh + 1

Gives ==
    \E k \in Keys, h \in Keys : \E c \in held[k] :
        /\ held' = [held EXCEPT ![h] = @ \cup {c}]
        /\ UNCHANGED fresh

\* Every step is one of these.
LEMMA StepCases ==
    ASSUME [Next]_vars
    PROVE  /\ \/ UNCHANGED <<held, fresh>> /\ (WalkBegins \/ WalkPasses \/ WalkEnds \/ UNCHANGED walk)
              \/ UNCHANGED walk /\ (Signs \/ Gives)
           /\ now' = now \/ now' = now + 1
<1>1. ASSUME NEW k \in Keys, NEW c \in held[k], NEW scopes \in ScopeLists, NEW exp \in Expiries,
             NEW cnf \in Cnfs, appendBlock(k, c, scopes, exp, cnf)
      PROVE  Signs /\ UNCHANGED <<walk, now>>
  BY <1>1 DEF appendBlock, Signs, Signed
<1>2. ASSUME NEW k \in Keys, NEW c \in held[k], NEW h \in Keys, Give(k, h, c)
      PROVE  Gives /\ UNCHANGED <<walk, now>>
  BY <1>2 DEF Give, Gives
<1>3. ASSUME NEW k \in Keys, NEW b \in Tokens(k), NEW s \in Sequences(Blocks(k), MaxBlocks), Present(k, b, s)
      PROVE  WalkBegins /\ UNCHANGED <<held, fresh, now>>
  BY <1>3 DEF Present, WalkBegins, Started
<1>4. ASSUME VerifyBlock PROVE (WalkPasses \/ WalkEnds) /\ UNCHANGED <<held, fresh, now>>
  BY <1>4 DEF VerifyBlock, WalkPasses, WalkEnds
<1>5. ASSUME VerifyEnd PROVE WalkEnds /\ UNCHANGED <<held, fresh, now>>
  BY <1>5 DEF VerifyEnd, WalkEnds
<1>6. ASSUME Tick \/ UNCHANGED vars PROVE UNCHANGED <<held, fresh, walk>> /\ (now' = now \/ now' = now + 1)
  BY <1>6 DEF Tick, vars
<1>7. CASE Next
  BY <1>1, <1>2, <1>3, <1>4, <1>5, <1>6, <1>7 DEF Next
<1> QED BY <1>6, <1>7

\* What is presented is a chain of what the presenter has seen.
LEMMA PresentedType ==
    ASSUME ChainTypeOK, NEW k \in Keys, NEW b \in Tokens(k), NEW s \in Sequences(Blocks(k), MaxBlocks)
    PROVE  /\ [base |-> b, blocks |-> s] \in Chain /\ s \in Seq(Blocks(k))
           /\ \E c \in held[k] : c.base = b
<1>1. PICK c \in held[k] : c.base = b
  BY DEF Tokens
<1>2. c \in Chain
  BY DEF ChainTypeOK
<1>3. s \in Seq(Blocks(k)) /\ s \in Seq(Block)
  <2>1. s \in Seq(Blocks(k))
    BY SequencesType, AttenuationAssumption
  <2>2. Blocks(k) \subseteq Block
    BY BlocksType
  <2> QED BY <2>1, <2>2
<1>4. b \in Base
  BY <1>1, <1>2 DEF Chain
<1> QED BY <1>1, <1>3, <1>4 DEF Chain

\* The block the walk has come to.
LEMMA NextBlock ==
    ASSUME ChainTypeOK, walk.i < Len(walk.chain.blocks)
    PROVE  /\ walk.i + 1 \in DOMAIN walk.chain.blocks /\ walk.chain.blocks[walk.i + 1] \in Block
           /\ walk.i + 1 \in 1 .. Len(walk.chain.blocks)
<1>1. walk.chain.blocks \in Seq(Block) /\ walk.i \in Nat
  BY WalkFields DEF ChainTypeOK
<1>2. walk.i + 1 \in 1 .. Len(walk.chain.blocks)
  BY <1>1
<1> QED BY <1>1, <1>2

\* Every step keeps the types.
LEMMA ChainTypeStep == ChainTypeOK /\ [Next]_vars => ChainTypeOK'
<1> SUFFICES ASSUME ChainTypeOK, [Next]_vars PROVE ChainTypeOK'
  OBVIOUS
<1> DEFINE WalkOK == /\ walk \in Walk
                     /\ DOMAIN walk.origins = DOMAIN walk.scopes
                     /\ walk.i \in 0 .. Len(walk.chain.blocks)
           HeldOK == held \in [Keys -> SUBSET Chain] /\ fresh \in Nat
<1>1. ASSUME WalkBegins PROVE WalkOK'
  <2>0. PICK k \in Keys : \E b \in Tokens(k), s \in Sequences(Blocks(k), MaxBlocks), p \in {"walk", "rejected"} :
           walk' = Started(k, [base |-> b, blocks |-> s], p)
    BY <1>1 DEF WalkBegins
  <2>1. PICK b \in Tokens(k), s \in Sequences(Blocks(k), MaxBlocks), p \in {"walk", "rejected"} :
           walk' = Started(k, [base |-> b, blocks |-> s], p)
    BY <2>0
  <2>2. PICK c \in Chain : c = [base |-> b, blocks |-> s]
    BY PresentedType
  <2>3. walk' = Started(k, c, p)
    BY <2>1, <2>2
  <2>4. /\ walk' \in Walk /\ DOMAIN walk'.origins = DOMAIN walk'.scopes /\ walk'.i = 0 /\ walk'.chain = c
    BY <2>3, StartType
  <2>5. Len(c.blocks) \in Nat
    BY DEF Chain
  <2> QED BY <2>4, <2>5
<1>2. ASSUME WalkPasses PROVE WalkOK'
  <2>1. PICK b \in Block : b = walk.chain.blocks[walk.i + 1]
    BY <1>2, NextBlock DEF WalkPasses
  <2>2. /\ walk' \in Walk /\ DOMAIN walk'.origins = DOMAIN walk'.scopes
        /\ walk'.chain = walk.chain /\ walk'.i = walk.i + 1
    BY <1>2, <2>1, NarrowedType DEF WalkPasses, ChainTypeOK
  <2>3. walk.i + 1 \in 1 .. Len(walk.chain.blocks)
    BY <1>2, NextBlock DEF WalkPasses
  <2> QED BY <2>2, <2>3
<1>3. ASSUME WalkEnds PROVE WalkOK'
  BY <1>3 DEF WalkEnds, ChainTypeOK, Walk
<1>4. ASSUME Signs PROVE HeldOK'
  <2>0. PICK k \in Keys : \E c \in held[k], scopes \in ScopeLists, exp \in Expiries, cnf \in Cnfs :
           /\ held' = [held EXCEPT ![k] = @ \cup
                          {[c EXCEPT !.blocks = Append(@, Signed(k, c, scopes, exp, cnf))]}]
           /\ fresh' = fresh + 1
    BY <1>4 DEF Signs
  <2>1. PICK c \in held[k], scopes \in ScopeLists, exp \in Expiries, cnf \in Cnfs :
           /\ held' = [held EXCEPT ![k] = @ \cup
                          {[c EXCEPT !.blocks = Append(@, Signed(k, c, scopes, exp, cnf))]}]
           /\ fresh' = fresh + 1
    BY <2>0
  <2>2. PICK d \in Chain : d = [c EXCEPT !.blocks = Append(@, Signed(k, c, scopes, exp, cnf))]
    BY SignedType, BlockAdded
  <2>3. held' = [held EXCEPT ![k] = @ \cup {d}] /\ fresh' = fresh + 1
    BY <2>1, <2>2
  <2>4. held \in [Keys -> SUBSET Chain] /\ fresh \in Nat
    BY DEF ChainTypeOK
  <2> QED BY ONLY <2>3, <2>4, d \in Chain, k \in Keys
<1>5. ASSUME Gives PROVE HeldOK'
  BY <1>5 DEF Gives, ChainTypeOK
<1>6. WalkOK /\ HeldOK /\ now \in Nat
  BY DEF ChainTypeOK
<1>7. now' \in Nat
  BY <1>6, StepCases
<1>8. UNCHANGED walk => WalkOK'
  BY <1>6
<1>9. UNCHANGED <<held, fresh>> => HeldOK'
  BY <1>6
<1>10. WalkOK' /\ HeldOK'
  <2> HIDE DEF WalkOK, HeldOK
  <2> QED BY <1>1, <1>2, <1>3, <1>4, <1>5, <1>8, <1>9, StepCases
<1> QED BY <1>7, <1>10 DEF ChainTypeOK

\* ChainTypeOK: chains, signatures and the state of Verify's loop are well
\* typed, and the loop never runs past the last block.
THEOREM ChainTypeCorrect == Spec => []ChainTypeOK
BY ChainTypeInit, ChainTypeStep, PTL DEF Spec

-----------------------------------------------------------------------------
(* Authority                                                               *)

\* The scope of s that decides a call is cut, by o, from the scope of b that
\* decides it, and is no looser.
CutFrom(s, o, b) ==
    \A call \in Calls :
        FirstMatch(s, call) > 0 =>
            /\ FirstMatch(b, call) > 0 /\ o[FirstMatch(s, call)] = FirstMatch(b, call)
            /\ s[FirstMatch(s, call)].maxCalls <= b[FirstMatch(b, call)].maxCalls
            /\ b[FirstMatch(b, call)].approval => s[FirstMatch(s, call)].approval

\* EffectiveNarrows at every block of the walk, with what Attenuate needs: a
\* scope that admits a call has a budget.
Within ==
    /\ walk.chain.base \in Bases
    /\ Budgeted(walk.scopes)
    /\ walk.exp <= walk.chain.base.exp
    /\ CutFrom(walk.scopes, walk.origins, walk.chain.base.scopes)

\* A walk that begins has the authority of the base token.
LEMMA WithinStart ==
    ASSUME NEW k \in Keys, NEW c \in Chain, NEW p \in {"idle", "walk", "rejected"},
           c.base \in Bases, NEW w, w = Started(k, c, p)
    PROVE  /\ w.chain.base \in Bases /\ Budgeted(w.scopes) /\ w.exp <= w.chain.base.exp
           /\ CutFrom(w.scopes, w.origins, w.chain.base.scopes)
<1>1. /\ w.chain = c /\ w.scopes = c.base.scopes /\ w.exp = c.base.exp
      /\ \A n \in DOMAIN c.base.scopes : w.origins[n] = n
  BY StartType
<1>2. c.base.scopes \in Seq(Scope) /\ c.base.exp \in Nat
  BY DEF Chain, Base
<1>3. Budgeted(c.base.scopes)
  BY AttenuationAssumption DEF Budgeted
<1>4. ASSUME NEW call \in Calls, NEW f, f = FirstMatch(c.base.scopes, call), f > 0
      PROVE  w.origins[f] = f /\ c.base.scopes[f].maxCalls \in Nat
  <2>1. f \in DOMAIN c.base.scopes
    BY <1>2, <1>4, FirstMatchLeast DEF Admitting
  <2>2. c.base.scopes[f] \in Scope
    BY <1>2, <2>1
  <2> QED BY <1>1, <2>1, <2>2 DEF Scope
<1>5. CutFrom(c.base.scopes, w.origins, c.base.scopes)
  BY <1>4 DEF CutFrom
<1> QED BY <1>1, <1>2, <1>3, <1>5

\* A block leaves no more than was in force before it.
LEMMA WithinNarrowed ==
    ASSUME NEW w \in Walk, DOMAIN w.origins = DOMAIN w.scopes, NEW b \in Block,
           Budgeted(w.scopes), CutFrom(w.scopes, w.origins, w.chain.base.scopes),
           w.exp <= w.chain.base.exp, KeepsExpiry(w, b),
           NEW n, n = Narrowed(w, b)
    PROVE  /\ Budgeted(n.scopes) /\ n.exp <= n.chain.base.exp
           /\ CutFrom(n.scopes, n.origins, n.chain.base.scopes)
<1>1. /\ n.chain = w.chain
      /\ n.scopes = IF b.scopes = <<>> THEN w.scopes ELSE Attenuate(w.scopes, b.scopes)
      /\ n.origins = IF b.scopes = <<>> THEN w.origins ELSE Origins(w, b.scopes)
      /\ n.exp = IF b.exp = 0 THEN w.exp ELSE b.exp
  BY NarrowedType
<1>2. /\ w.scopes \in Seq(Scope) /\ b.scopes \in Seq(Scope) /\ w.exp \in Nat /\ b.exp \in Nat
      /\ w.chain.base.exp \in Nat /\ w.chain.base.scopes \in Seq(Scope)
  BY WalkFields DEF Block, Base
<1>3. n.exp <= n.chain.base.exp
  BY <1>1, <1>2 DEF KeepsExpiry
<1>4. CASE b.scopes = <<>>
  BY <1>1, <1>3, <1>4
<1>5. CASE b.scopes # <<>>
  <2> DEFINE att == Attenuate(w.scopes, b.scopes)
  <2>1. Budgeted(att) /\ att \in Seq(Scope)
    BY <1>2, AttenuateBudgeted, AttenuateType
  <2>2. ASSUME NEW call \in Calls, NEW i, i = FirstMatch(att, call), i > 0,
               NEW j, j = FirstMatch(w.chain.base.scopes, call)
        PROVE  /\ j > 0 /\ Origins(w, b.scopes)[i] = j
               /\ att[i].maxCalls <= w.chain.base.scopes[j].maxCalls
               /\ w.chain.base.scopes[j].approval => att[i].approval
    <3>1. PICK f : f = FirstMatch(w.scopes, call)
      OBVIOUS
    <3>2. /\ f > 0 /\ i \in DOMAIN att /\ ((i - 1) % Len(w.scopes)) + 1 = f
          /\ att[i].maxCalls <= w.scopes[f].maxCalls
          /\ w.scopes[f].approval => att[i].approval
      BY <1>2, <2>2, <3>1, AttenuateNarrows
    <3>3. /\ j > 0 /\ w.origins[f] = j
          /\ w.scopes[f].maxCalls <= w.chain.base.scopes[j].maxCalls
          /\ w.chain.base.scopes[j].approval => w.scopes[f].approval
      BY <2>2, <3>1, <3>2 DEF CutFrom
    <3>4. Origins(w, b.scopes)[i] = w.origins[f]
      <4>1. i \in 1 .. Len(b.scopes) * Len(w.scopes)
        BY <3>2 DEF Attenuate
      <4> QED BY <3>2, <4>1 DEF Origins
    <3>5. f \in DOMAIN w.scopes /\ j \in DOMAIN w.chain.base.scopes
      BY <1>2, <2>2, <3>1, <3>2, <3>3, FirstMatchLeast DEF Admitting
    <3>6. /\ att[i].maxCalls \in Nat /\ w.scopes[f].maxCalls \in Nat
          /\ w.chain.base.scopes[j].maxCalls \in Nat
      <4>1. att[i] \in Scope /\ w.scopes[f] \in Scope /\ w.chain.base.scopes[j] \in Scope
        BY <1>2, <2>1, <3>2, <3>5
      <4> QED BY <4>1 DEF Scope
    <3> HIDE DEF att
    <3> QED BY <3>2, <3>3, <3>4, <3>6
  <2>3. CutFrom(att, Origins(w, b.scopes), w.chain.base.scopes)
    <3> HIDE DEF att
    <3> QED BY <2>2 DEF CutFrom
  <2> QED BY <1>1, <1>3, <1>5, <2>1, <2>3
<1> QED BY <1>4, <1>5

\* Base tokens are the broker's: no step makes one.
OnlyIssued == \A k \in Keys : \A c \in held[k] : c.base \in Bases

\* Every step keeps the walk within the authority of its base token.
LEMMA WithinStep == ChainTypeOK /\ OnlyIssued /\ Within /\ [Next]_vars => OnlyIssued' /\ Within'
<1> SUFFICES ASSUME ChainTypeOK, OnlyIssued, Within, [Next]_vars PROVE OnlyIssued' /\ Within'
  OBVIOUS
<1>1. ASSUME WalkBegins PROVE Within'
  <2>0. PICK k \in Keys : \E b \in Tokens(k), s \in Sequences(Blocks(k), MaxBlocks), p \in {"walk", "rejected"} :
           walk' = Started(k, [base |-> b, blocks |-> s], p)
    BY <1>1 DEF WalkBegins
  <2>1. PICK b \in Tokens(k), s \in Sequences(Blocks(k), MaxBlocks), p \in {"walk", "rejected"} :
           walk' = Started(k, [base |-> b, blocks |-> s], p)
    BY <2>0
  <2>2. PICK c \in Chain : c = [base |-> b, blocks |-> s]
    BY PresentedType
  <2>3. walk' = Started(k, c, p) /\ c.base \in Bases
    BY <2>1, <2>2, PresentedType DEF OnlyIssued
  <2> QED BY <2>3, WithinStart DEF Within
<1>2. ASSUME WalkPasses PROVE Within'
  <2>1. PICK b \in Block : b = walk.chain.blocks[walk.i + 1]
    BY <1>2, NextBlock DEF WalkPasses
  <2>2. walk' = Narrowed(walk, b) /\ KeepsExpiry(walk, b)
    BY <1>2, <2>1 DEF WalkPasses
  <2>3. walk'.chain = walk.chain
    BY <2>2, NarrowedType DEF ChainTypeOK
  <2>4. /\ Budgeted(walk'.scopes) /\ walk'.exp <= walk'.chain.base.exp
        /\ CutFrom(walk'.scopes, walk'.origins, walk'.chain.base.scopes)
    BY <2>2, WithinNarrowed DEF ChainTypeOK, Within
  <2> QED BY <2>3, <2>4 DEF Within
<1>3. ASSUME WalkEnds PROVE Within'
  <2>1. PICK p : walk' = [walk EXCEPT !.pc = p]
    BY <1>3 DEF WalkEnds
  <2>2. /\ walk'.chain = walk.chain /\ walk'.scopes = walk.scopes /\ walk'.origins = walk.origins
        /\ walk'.exp = walk.exp
    BY <2>1 DEF ChainTypeOK, Walk
  <2> QED BY <2>2 DEF Within
<1>4. ASSUME Signs PROVE OnlyIssued'
  <2>0. PICK k \in Keys : \E c \in held[k], scopes \in ScopeLists, exp \in Expiries, cnf \in Cnfs :
           held' = [held EXCEPT ![k] = @ \cup
                          {[c EXCEPT !.blocks = Append(@, Signed(k, c, scopes, exp, cnf))]}]
    BY <1>4 DEF Signs
  <2>1. PICK c \in held[k], scopes \in ScopeLists, exp \in Expiries, cnf \in Cnfs :
           held' = [held EXCEPT ![k] = @ \cup
                          {[c EXCEPT !.blocks = Append(@, Signed(k, c, scopes, exp, cnf))]}]
    BY <2>0
  <2>2. PICK d : d = [c EXCEPT !.blocks = Append(@, Signed(k, c, scopes, exp, cnf))]
    OBVIOUS
  <2>3. d.base \in Bases
    BY <2>2, SignedType, BlockAdded DEF OnlyIssued
  <2>4. held' = [held EXCEPT ![k] = @ \cup {d}]
    BY <2>1, <2>2
  <2> QED BY <2>3, <2>4 DEF OnlyIssued, ChainTypeOK
<1>5. ASSUME Gives PROVE OnlyIssued'
  BY <1>5 DEF Gives, OnlyIssued, ChainTypeOK
<1>6. UNCHANGED walk => Within'
  BY DEF Within
<1>7. UNCHANGED held => OnlyIssued'
  BY DEF OnlyIssued
<1> QED BY <1>1, <1>2, <1>3, <1>4, <1>5, <1>6, <1>7, StepCases

\* At the start the walk has not begun.
LEMMA WithinInit == Init => OnlyIssued /\ Within
<1> SUFFICES ASSUME Init PROVE OnlyIssued /\ Within
  OBVIOUS
<1>1. PICK k \in Keys, b \in Bases :
         /\ held = [h \in Keys |-> IF h = k THEN {New(c) : c \in Bases} ELSE {}]
         /\ walk = Started(k, New(b), "idle")
         /\ New(b) \in Chain
  BY InitShape
<1>2. \A c \in Bases : New(c).base = c
  BY DEF New
<1>3. OnlyIssued
  BY <1>1, <1>2 DEF OnlyIssued
<1>4. Within
  BY <1>1, <1>2, WithinStart DEF Within
<1> QED BY <1>3, <1>4

\* The walk stays within its base token's authority.
THEOREM WithinKept == Spec => [](OnlyIssued /\ Within)
<1>1. ChainTypeOK /\ (OnlyIssued /\ Within) /\ [Next]_vars => (OnlyIssued /\ Within)'
  BY WithinStep
<1> QED BY <1>1, WithinInit, ChainTypeCorrect, PTL DEF Spec

\* EffectiveNarrows: whatever blocks are appended and by whom, Verify accepts a
\* chain only with calls its base token admits, through the very scope that
\* decides them there, with no larger budget, no lighter approval and no later
\* expiry.
THEOREM ChainsNarrow == Spec => []EffectiveNarrows
<1>1. Within => EffectiveNarrows
  BY DEF Within, CutFrom, EffectiveNarrows
<1> QED BY <1>1, WithinKept, PTL

-----------------------------------------------------------------------------
(* The holder                                                              *)

\* HolderConsents at every block of the walk: the blocks passed so far show
\* the consent.
Consent(w) ==
    w.chain.base.cnf # None =>
        /\ w.cnf # None
        /\ w.cnf # w.chain.base.cnf =>
              \E i \in 1 .. w.i : /\ w.chain.blocks[i].signer = w.chain.base.cnf
                                  /\ w.chain.blocks[i].cnf # None

\* A block that passes MayRebind keeps it.
LEMMA ConsentNarrowed ==
    ASSUME NEW w \in Walk, DOMAIN w.origins = DOMAIN w.scopes, Consent(w),
           NEW b \in Block, b = w.chain.blocks[w.i + 1], MayRebind(w, b),
           NEW n, n = Narrowed(w, b)
    PROVE  Consent(n)
<1>1. n.chain = w.chain /\ n.i = w.i + 1 /\ n.cnf = IF b.cnf = None THEN w.cnf ELSE b.cnf
  BY NarrowedType
<1>2. w.i \in Nat
  BY WalkFields
<1> SUFFICES ASSUME w.chain.base.cnf # None
             PROVE  /\ n.cnf # None
                    /\ n.cnf # w.chain.base.cnf =>
                          \E i \in 1 .. n.i : /\ w.chain.blocks[i].signer = w.chain.base.cnf
                                              /\ w.chain.blocks[i].cnf # None
  BY <1>1 DEF Consent
<1>3. w.cnf # None
  BY DEF Consent
<1>4. CASE w.cnf # w.chain.base.cnf
  <2>1. PICK i \in 1 .. w.i : w.chain.blocks[i].signer = w.chain.base.cnf /\ w.chain.blocks[i].cnf # None
    BY <1>4 DEF Consent
  <2>2. i \in 1 .. n.i
    BY <1>1, <1>2
  <2> QED BY <1>1, <1>3, <2>1, <2>2
<1>5. CASE w.cnf = w.chain.base.cnf /\ b.cnf # None
  <2>1. b.signer = w.chain.base.cnf
    BY <1>3, <1>5 DEF MayRebind
  <2>2. n.i \in 1 .. n.i /\ n.i = w.i + 1
    BY <1>1, <1>2
  <2>3. w.chain.blocks[n.i].signer = w.chain.base.cnf /\ w.chain.blocks[n.i].cnf # None
    BY <1>5, <2>1, <2>2
  <2> QED BY <1>1, <1>5, <2>2, <2>3
<1>6. CASE w.cnf = w.chain.base.cnf /\ b.cnf = None
  BY <1>1, <1>3, <1>6
<1> QED BY <1>4, <1>5, <1>6

\* Every step keeps the consent.
LEMMA ConsentStep == ChainTypeOK /\ Consent(walk) /\ [Next]_vars => Consent(walk')
<1> SUFFICES ASSUME ChainTypeOK, Consent(walk), [Next]_vars PROVE Consent(walk')
  OBVIOUS
<1>1. ASSUME WalkBegins PROVE Consent(walk')
  <2>0. PICK k \in Keys : \E b \in Tokens(k), s \in Sequences(Blocks(k), MaxBlocks), p \in {"walk", "rejected"} :
           walk' = Started(k, [base |-> b, blocks |-> s], p)
    BY <1>1 DEF WalkBegins
  <2>1. PICK b \in Tokens(k), s \in Sequences(Blocks(k), MaxBlocks), p \in {"walk", "rejected"} :
           walk' = Started(k, [base |-> b, blocks |-> s], p)
    BY <2>0
  <2>2. PICK c \in Chain : c = [base |-> b, blocks |-> s]
    BY PresentedType
  <2>3. walk'.chain = c /\ walk'.cnf = c.base.cnf
    BY <2>1, <2>2, StartType
  <2> QED BY <2>3 DEF Consent
<1>2. ASSUME WalkPasses PROVE Consent(walk')
  <2>1. PICK b \in Block : b = walk.chain.blocks[walk.i + 1]
    BY <1>2, NextBlock DEF WalkPasses
  <2>2. walk' = Narrowed(walk, b) /\ MayRebind(walk, b)
    BY <1>2, <2>1 DEF WalkPasses
  <2> QED BY <2>1, <2>2, ConsentNarrowed DEF ChainTypeOK
<1>3. ASSUME WalkEnds PROVE Consent(walk')
  <2>1. PICK p : walk' = [walk EXCEPT !.pc = p]
    BY <1>3 DEF WalkEnds
  <2>2. walk'.chain = walk.chain /\ walk'.cnf = walk.cnf /\ walk'.i = walk.i
    BY <2>1 DEF ChainTypeOK, Walk
  <2> QED BY <2>2 DEF Consent
<1> QED BY <1>1, <1>2, <1>3, StepCases

\* HolderConsents: an accepted chain on a holder-bound token is holder-bound,
\* and to another key only if the base token's holder signed a block that names
\* a key (Verify's rebind check, block after block).
THEOREM HolderHasConsented == Spec => []HolderConsents
<1>1. Init => Consent(walk)
  <2> SUFFICES ASSUME Init PROVE Consent(walk)
    OBVIOUS
  <2>1. PICK k \in Keys, b \in Bases : walk = Started(k, New(b), "idle") /\ New(b) \in Chain
    BY InitShape
  <2>2. walk.chain = New(b) /\ walk.cnf = New(b).base.cnf
    BY <2>1, StartType
  <2> QED BY <2>2 DEF Consent
<1>2. ChainTypeOK /\ Consent(walk) /\ [Next]_vars => Consent(walk)'
  BY ConsentStep
<1>3. ChainTypeOK /\ Consent(walk) => HolderConsents
  <2> SUFFICES ASSUME ChainTypeOK, Consent(walk) PROVE HolderConsents
    OBVIOUS
  <2>1. /\ walk.chain.blocks \in Seq(Block) /\ walk.i \in 0 .. Len(walk.chain.blocks)
    BY WalkFields DEF ChainTypeOK
  <2>2. \A i \in 1 .. walk.i : i \in DOMAIN walk.chain.blocks
    BY <2>1
  <2> QED BY <2>2 DEF Consent, HolderConsents
<1> QED BY <1>1, <1>2, <1>3, ChainTypeCorrect, PTL DEF Spec

-----------------------------------------------------------------------------
(* Genuine chains                                                          *)

\* What a block must name: the signature of the block before it or of the base
\* token.
Before(c, i) == IF i = 1 THEN c.base.sig ELSE c.blocks[i - 1].sig

\* A chain as the parties make it: linked block by block, with signatures that
\* were drawn.
Sound(c) ==
    /\ c.base \in Bases
    /\ \A i \in 1 .. Len(c.blocks) :
          /\ c.blocks[i].prev = Before(c, i)
          /\ c.blocks[i].sig \in 1 .. fresh - 1

\* The chains c and d are the same up to block i.
Agree(c, d, i) ==
    /\ c.base = d.base /\ i <= Len(c.blocks) /\ i <= Len(d.blocks)
    /\ \A l \in 1 .. i : c.blocks[l] = d.blocks[l]

\* A signature stands for one block and for everything before it.
Determined(c, d) ==
    \A i \in 1 .. Len(c.blocks), j \in 1 .. Len(d.blocks) :
        c.blocks[i].sig = d.blocks[j].sig => i = j /\ Agree(c, d, i)

\* The chains of all the parties.
Everyones == UNION {held[k] : k \in Keys}

Genuine ==
    /\ fresh > 0
    /\ \A c \in Everyones : Sound(c)
    /\ \A c, d \in Everyones : Determined(c, d)

\* The blocks presented are ones the presenter has, and those passed so far are
\* the beginning of one of its chains.
Known ==
    /\ \A i \in 1 .. Len(walk.chain.blocks) : walk.chain.blocks[i] \in Blocks(walk.by)
    /\ \E c \in held[walk.by] : Agree(walk.chain, c, walk.i)

\* Chains only ever get more.
LEMMA HeldGrows ==
    ASSUME ChainTypeOK, [Next]_vars
    PROVE  \A k \in Keys : held[k] \subseteq held'[k]
<1>1. Signs => \A k \in Keys : held[k] \subseteq held'[k]
  BY DEF Signs, ChainTypeOK
<1>2. Gives => \A k \in Keys : held[k] \subseteq held'[k]
  BY DEF Gives, ChainTypeOK
<1> QED BY <1>1, <1>2, StepCases

\* A sequence without elements.
LEMMA EmptyIff == ASSUME NEW S, NEW s \in Seq(S), Len(s) = 0 PROVE s = <<>>
OBVIOUS

\* A signed block makes a sound chain, told from all the others by its fresh
\* signature.
LEMMA SignsGenuine ==
    ASSUME ChainTypeOK, Genuine, Signs
    PROVE  Genuine'
<1>0. PICK k \in Keys : \E c \in held[k], scopes \in ScopeLists, exp \in Expiries, cnf \in Cnfs :
         /\ held' = [held EXCEPT ![k] = @ \cup
                        {[c EXCEPT !.blocks = Append(@, Signed(k, c, scopes, exp, cnf))]}]
         /\ fresh' = fresh + 1
  BY DEF Signs
<1>1. PICK c \in held[k], scopes \in ScopeLists, exp \in Expiries, cnf \in Cnfs :
         /\ held' = [held EXCEPT ![k] = @ \cup
                        {[c EXCEPT !.blocks = Append(@, Signed(k, c, scopes, exp, cnf))]}]
         /\ fresh' = fresh + 1
  BY <1>0
<1>2. PICK b \in Block : b = Signed(k, c, scopes, exp, cnf)
  BY SignedType
<1>3. PICK d \in Chain : d = [c EXCEPT !.blocks = Append(@, b)]
  BY <1>2, SignedType, BlockAdded
<1>4. c \in Chain /\ c.blocks \in Seq(Block) /\ d.base = c.base /\ d.blocks = Append(c.blocks, b)
  BY <1>3, SignedType, BlockAdded DEF Chain
<1>5. PICK m \in Nat : m = Len(c.blocks)
  BY <1>4
<1>6. /\ Len(d.blocks) = m + 1 /\ d.blocks[m + 1] = b
      /\ \A i \in 1 .. m : d.blocks[i] = c.blocks[i]
  BY <1>4, <1>5
<1>7. b.sig = fresh /\ b.prev = Tip(c) /\ fresh \in Nat /\ fresh > 0 /\ fresh' = fresh + 1
  BY <1>1, <1>2 DEF Signed, ChainTypeOK, Genuine
<1>8. Everyones' = Everyones \cup {d} /\ c \in Everyones
  <2>1. held' = [held EXCEPT ![k] = @ \cup {d}]
    BY <1>1, <1>2, <1>3
  <2> QED BY <2>1 DEF Everyones, ChainTypeOK
<1>9. \A e \in Everyones : e \in Chain /\ Len(e.blocks) \in Nat
  BY DEF Everyones, ChainTypeOK, Chain
<1>10. ASSUME NEW e \in Everyones PROVE Sound(e)'
  <2>1. Sound(e)
    BY DEF Genuine
  <2> QED BY <1>7, <2>1 DEF Sound, Before
<1>11. Sound(d)'
  <2>1. Sound(c)
    BY <1>8 DEF Genuine
  <2>2. ASSUME NEW i \in 1 .. m
        PROVE  d.blocks[i].prev = Before(d, i) /\ d.blocks[i].sig \in 1 .. fresh
    <3>1. c.blocks[i].prev = Before(c, i) /\ c.blocks[i].sig \in 1 .. fresh - 1
      BY <1>5, <2>1 DEF Sound
    <3>2. Before(d, i) = Before(c, i)
      <4>1. CASE i = 1
        BY <1>4, <4>1 DEF Before
      <4>2. CASE i # 1
        <5>1. i - 1 \in 1 .. m
          BY <4>2
        <5> QED BY <1>6, <4>2, <5>1 DEF Before
      <4> QED BY <4>1, <4>2
    <3> QED BY <1>6, <1>7, <3>1, <3>2
  <2>3. b.prev = Before(d, m + 1)
    <3>1. CASE m = 0
      <4>1. c.blocks = <<>>
        BY <1>4, <1>5, <3>1, EmptyIff
      <4> QED BY <1>4, <1>7, <3>1, <4>1 DEF Tip, Before
    <3>2. CASE m > 0
      <4>1. c.blocks # <<>>
        BY <1>5, <3>2
      <4>2. Tip(c) = c.blocks[m].sig
        BY <1>5, <4>1 DEF Tip
      <4>3. m \in 1 .. m /\ m + 1 # 1
        BY <3>2
      <4>4. Before(d, m + 1) = d.blocks[m].sig
        <5>1. (m + 1) - 1 = m
          OBVIOUS
        <5>2. Before(d, m + 1) = d.blocks[(m + 1) - 1].sig
          BY <4>3 DEF Before
        <5> QED BY ONLY <5>1, <5>2
      <4>5. d.blocks[m] = c.blocks[m]
        BY <1>6, <4>3
      <4> QED BY ONLY <1>7, <4>2, <4>4, <4>5
    <3> QED BY <3>1, <3>2
  <2>4. \A i \in 1 .. m + 1 : d.blocks[i].prev = Before(d, i) /\ d.blocks[i].sig \in 1 .. fresh
    <3>1. \A i \in 1 .. m + 1 : i \in 1 .. m \/ i = m + 1
      OBVIOUS
    <3> QED BY <1>6, <1>7, <2>2, <2>3, <3>1
  <2>5. fresh' - 1 = fresh
    BY <1>7
  <2>6. d.base \in Bases
    BY <1>4, <2>1 DEF Sound
  <2> QED BY <1>6, <2>4, <2>5, <2>6 DEF Sound, Before
<1>12. ASSUME NEW e \in Everyones PROVE Determined(d, e) /\ Determined(e, d)
  <2>1. Sound(e) /\ Determined(c, e) /\ Determined(e, c)
    BY <1>8 DEF Genuine
  <2>2. ASSUME NEW i \in 1 .. m + 1, NEW j \in 1 .. Len(e.blocks), d.blocks[i].sig = e.blocks[j].sig
        PROVE  i = j /\ Agree(d, e, i) /\ Agree(e, d, i)
    <3>1. e.blocks[j].sig \in 1 .. fresh - 1
      BY <2>1 DEF Sound
    <3>2. i # m + 1
      BY <1>6, <1>7, <2>2, <3>1
    <3>3. i \in 1 .. m /\ d.blocks[i] = c.blocks[i]
      BY <1>6, <3>2
    <3>4. i = j /\ Agree(c, e, i)
      BY <1>5, <2>1, <2>2, <3>3 DEF Determined
    <3>5. /\ c.base = e.base /\ i <= Len(e.blocks) /\ \A l \in 1 .. i : c.blocks[l] = e.blocks[l]
      BY <3>4 DEF Agree
    <3>6. \A l \in 1 .. i : d.blocks[l] = c.blocks[l]
      BY <1>6, <3>3
    <3>7. i <= Len(d.blocks)
      BY <1>6, <3>3
    <3> QED BY <1>4, <3>4, <3>5, <3>6, <3>7 DEF Agree
  <2> QED BY <1>6, <2>2 DEF Determined
<1>13. Determined(d, d)
  <2>1. Sound(c) /\ Determined(c, c)
    BY <1>8 DEF Genuine
  <2>2. ASSUME NEW i \in 1 .. m + 1, NEW j \in 1 .. m + 1, d.blocks[i].sig = d.blocks[j].sig
        PROVE  i = j
    <3>1. \A l \in 1 .. m : d.blocks[l].sig \in 1 .. fresh - 1
      BY <1>5, <1>6, <2>1 DEF Sound
    <3>2. \A l \in 1 .. m + 1 : l \in 1 .. m \/ l = m + 1
      OBVIOUS
    <3>3. CASE i \in 1 .. m /\ j \in 1 .. m
      BY <1>5, <1>6, <2>1, <2>2, <3>3 DEF Determined
    <3>4. CASE i = m + 1 \/ j = m + 1
      BY <1>6, <1>7, <2>2, <3>1, <3>2, <3>4
    <3> QED BY <3>2, <3>3, <3>4
  <2>3. \A i \in 1 .. m + 1 : Agree(d, d, i)
    BY <1>6 DEF Agree
  <2> QED BY <1>6, <2>2, <2>3 DEF Determined
<1>14. \A e, f \in Everyones' : Determined(e, f)
  BY <1>8, <1>12, <1>13 DEF Genuine
<1>15. \A e \in Everyones' : Sound(e)'
  BY <1>8, <1>10, <1>11
<1>16. fresh' > 0
  BY <1>7
<1> QED BY <1>14, <1>15, <1>16 DEF Genuine, Sound, Before, Determined, Agree

\* Every step keeps the chains genuine.
LEMMA GenuineStep == ChainTypeOK /\ Genuine /\ [Next]_vars => Genuine'
<1> SUFFICES ASSUME ChainTypeOK, Genuine, [Next]_vars PROVE Genuine'
  OBVIOUS
<1>1. ASSUME Gives \/ UNCHANGED <<held, fresh>> PROVE Genuine'
  <2>1. UNCHANGED fresh
    BY <1>1 DEF Gives
  <2>2. Everyones' \subseteq Everyones
    BY <1>1 DEF Gives, Everyones, ChainTypeOK
  <2>3. \A c \in Everyones : Sound(c)'
    BY <2>1 DEF Genuine, Sound, Before
  <2>4. \A c, d \in Everyones : Determined(c, d)'
    BY DEF Genuine, Determined, Agree
  <2> QED BY <2>1, <2>2, <2>3, <2>4 DEF Genuine
<1> QED BY <1>1, SignsGenuine, StepCases

\* A linked block is the next one of a chain the presenter has.
LEMMA LinkedKnown ==
    ASSUME ChainTypeOK, Genuine, Within, Known, walk.i < Len(walk.chain.blocks), Linked(walk)
    PROVE  \E d \in held[walk.by] : Agree(walk.chain, d, walk.i + 1)
<1>1. PICK n \in Nat : n = walk.i
  BY WalkFields DEF ChainTypeOK
<1>2. PICK w \in Chain : w = walk.chain
  BY WalkFields DEF ChainTypeOK
<1>3. PICK k \in Keys : k = walk.by
  BY WalkFields DEF ChainTypeOK
<1>4. /\ n + 1 \in 1 .. Len(w.blocks) /\ w.blocks \in Seq(Block) /\ Len(w.blocks) \in Nat
  BY <1>1, <1>2, NextBlock DEF Chain
<1>5. PICK d \in held[k], j \in Nat : j \in DOMAIN d.blocks /\ w.blocks[n + 1] = d.blocks[j]
  <2>1. w.blocks[n + 1] \in Blocks(k)
    BY <1>2, <1>3, <1>4 DEF Known
  <2> QED BY <2>1, BlocksType
<1>6. PICK c \in held[k] : Agree(w, c, n)
  BY <1>1, <1>2, <1>3 DEF Known
<1>7. c \in Everyones /\ d \in Everyones /\ c \in Chain /\ d \in Chain
  BY DEF Everyones, ChainTypeOK
<1>8. Sound(c) /\ Sound(d) /\ Determined(c, d)
  BY <1>7 DEF Genuine
<1>9. /\ Len(d.blocks) \in Nat /\ DOMAIN d.blocks = 1 .. Len(d.blocks)
      /\ Len(c.blocks) \in Nat
  BY <1>7 DEF Chain
<1>10. j \in 1 .. Len(d.blocks) /\ w.blocks[n + 1].prev = Before(d, j)
  BY <1>5, <1>8, <1>9 DEF Sound
<1>11. w.blocks[n + 1].prev = IF n = 0 THEN w.base.sig ELSE w.blocks[n].sig
  BY <1>1, <1>2 DEF Linked
<1>12. w.base = c.base /\ w.base \in Bases /\ w.base.sig \in Int /\ w.base.sig <= 0
  <2>1. w.base = c.base /\ w.base \in Bases
    BY <1>2, <1>6 DEF Agree, Within
  <2> QED BY <2>1, AttenuationAssumption DEF Base
<1>13. d.base \in Bases /\ d.base.sig \in Int /\ d.base.sig <= 0
  <2>1. d.base \in Bases
    BY <1>8 DEF Sound
  <2> QED BY <2>1, AttenuationAssumption DEF Base
<1>14. fresh \in Nat
  BY DEF ChainTypeOK
<1>15. CASE n = 0
  <2>1. w.base.sig = Before(d, j)
    BY <1>10, <1>11, <1>15
  <2>2. j = 1
    <3> SUFFICES ASSUME j # 1 PROVE FALSE
      OBVIOUS
    <3>1. j - 1 \in 1 .. Len(d.blocks)
      BY <1>9, <1>10
    <3>2. d.blocks[j - 1].sig \in 1 .. fresh - 1
      BY <1>8, <3>1 DEF Sound
    <3>3. Before(d, j) = d.blocks[j - 1].sig
      BY DEF Before
    <3> QED BY <1>12, <1>14, <2>1, <3>2, <3>3
  <2>3. w.base = d.base
    BY <1>12, <1>13, <2>1, <2>2, AttenuationAssumption DEF Before
  <2>4. n + 1 = 1 /\ \A l \in 1 .. 1 : l = 1
    BY <1>15
  <2>5. \A l \in 1 .. n + 1 : w.blocks[l] = d.blocks[l]
    BY <1>5, <2>2, <2>4
  <2>6. Agree(w, d, n + 1)
    BY <1>4, <1>9, <1>10, <2>2, <2>3, <2>4, <2>5 DEF Agree
  <2> QED BY <1>1, <1>2, <1>3, <2>6
<1>16. CASE n # 0
  <2>0. /\ n \in 1 .. n /\ n <= Len(c.blocks) /\ \A l \in 1 .. n : w.blocks[l] = c.blocks[l]
    BY <1>6, <1>16 DEF Agree
  <2>1. c.blocks[n].sig = Before(d, j) /\ n \in 1 .. Len(c.blocks)
    BY <1>9, <1>10, <1>11, <1>16, <2>0
  <2>2. c.blocks[n].sig \in 1 .. fresh - 1
    BY <1>8, <2>1 DEF Sound
  <2>3. j # 1
    BY <1>13, <1>14, <2>1, <2>2 DEF Before
  <2>4. PICK i \in 1 .. Len(d.blocks) : i = j - 1
    BY <1>9, <1>10, <2>3
  <2>5. c.blocks[n].sig = d.blocks[i].sig
    BY <2>1, <2>3, <2>4 DEF Before
  <2>6. n = i /\ Agree(c, d, n)
    BY <1>8, <2>1, <2>5 DEF Determined
  <2>7. j = n + 1 /\ n + 1 <= Len(d.blocks) /\ n + 1 <= Len(w.blocks)
    BY <1>4, <1>9, <1>10, <2>4, <2>6
  <2>8. c.base = d.base /\ \A l \in 1 .. n : c.blocks[l] = d.blocks[l]
    BY <2>6 DEF Agree
  <2>9. ASSUME NEW l \in 1 .. n + 1 PROVE w.blocks[l] = d.blocks[l]
    <3>1. CASE l \in 1 .. n
      BY <2>0, <2>8, <3>1
    <3>2. CASE l = n + 1
      BY <1>5, <2>7, <3>2
    <3>3. l \in 1 .. n \/ l = n + 1
      OBVIOUS
    <3> QED BY <3>1, <3>2, <3>3
  <2>10. Agree(w, d, n + 1)
    BY <1>12, <2>7, <2>8, <2>9 DEF Agree
  <2> QED BY <1>1, <1>2, <1>3, <2>10
<1> QED BY <1>15, <1>16

\* Every step keeps the walk on what its presenter has.
LEMMA KnownStep == ChainTypeOK /\ ChainTypeOK' /\ Genuine /\ Within /\ Known /\ [Next]_vars => Known'
<1> SUFFICES ASSUME ChainTypeOK, ChainTypeOK', Genuine, Within, Known, [Next]_vars PROVE Known'
  OBVIOUS
<1>1. PICK k \in Keys : k = walk.by
  BY WalkFields DEF ChainTypeOK
<1>2. ASSUME walk'.by = k, walk'.chain = walk.chain,
             \E c \in held[k] : Agree(walk.chain, c, walk'.i)
      PROVE  Known'
  <2>1. held[k] \subseteq held'[k]
    BY HeldGrows
  <2>2. Blocks(k) \subseteq Blocks(k)'
    BY <2>1 DEF Blocks
  <2>3. \A i \in 1 .. Len(walk'.chain.blocks) : walk'.chain.blocks[i] \in Blocks(k)'
    BY <1>1, <1>2, <2>2 DEF Known
  <2>4. \E c \in held'[k] : Agree(walk'.chain, c, walk'.i)
    BY <1>2, <2>1
  <2> QED BY <1>2, <2>3, <2>4 DEF Known, Agree, Blocks
<1>3. ASSUME WalkBegins, UNCHANGED held PROVE Known'
  <2>0. PICK h \in Keys : \E b \in Tokens(h), s \in Sequences(Blocks(h), MaxBlocks), p \in {"walk", "rejected"} :
           walk' = Started(h, [base |-> b, blocks |-> s], p)
    BY <1>3 DEF WalkBegins
  <2>1. PICK b \in Tokens(h), s \in Sequences(Blocks(h), MaxBlocks), p \in {"walk", "rejected"} :
           walk' = Started(h, [base |-> b, blocks |-> s], p)
    BY <2>0
  <2>2. PICK w \in Chain : w = [base |-> b, blocks |-> s]
    BY PresentedType
  <2>3. walk'.by = h /\ walk'.chain = w /\ walk'.i = 0
    BY <2>1, <2>2, StartType
  <2>4. w.blocks = s /\ w.base = b /\ s \in Seq(Blocks(h))
    BY <2>2, PresentedType
  <2>5. \A i \in 1 .. Len(w.blocks) : w.blocks[i] \in Blocks(h)
    BY <2>4
  <2>6. PICK c \in held[h] : c.base = b
    BY PresentedType
  <2>7. c \in Chain /\ Len(c.blocks) \in Nat /\ Len(w.blocks) \in Nat
    BY DEF ChainTypeOK, Chain
  <2>8. Agree(w, c, 0)
    BY <2>4, <2>6, <2>7 DEF Agree
  <2>9. held' = held /\ Blocks(h)' = Blocks(h)
    BY <1>3 DEF Blocks
  <2> QED BY <2>3, <2>5, <2>8, <2>9 DEF Known, Agree, Blocks
<1>4. ASSUME WalkPasses PROVE Known'
  <2>1. PICK b \in Block : b = walk.chain.blocks[walk.i + 1]
    BY <1>4, NextBlock DEF WalkPasses
  <2>2. walk'.by = walk.by /\ walk'.chain = walk.chain /\ walk'.i = walk.i + 1
    BY <1>4, <2>1, NarrowedType DEF WalkPasses, ChainTypeOK
  <2>3. \E d \in held[walk.by] : Agree(walk.chain, d, walk.i + 1)
    BY <1>4, LinkedKnown DEF WalkPasses
  <2> QED BY <1>1, <1>2, <2>2, <2>3
<1>5. ASSUME WalkEnds \/ UNCHANGED walk PROVE Known'
  <2>1. walk'.by = walk.by /\ walk'.chain = walk.chain /\ walk'.i = walk.i
    BY <1>5 DEF WalkEnds, ChainTypeOK, Walk
  <2> QED BY <1>1, <1>2, <2>1 DEF Known
<1> QED BY <1>3, <1>4, <1>5, StepCases

\* At the start there are base tokens and no blocks.
LEMMA GenuineInit == Init => Genuine /\ Known
<1> SUFFICES ASSUME Init PROVE Genuine /\ Known
  OBVIOUS
<1>1. PICK k \in Keys, b \in Bases :
         /\ held = [h \in Keys |-> IF h = k THEN {New(c) : c \in Bases} ELSE {}]
         /\ walk = Started(k, New(b), "idle")
         /\ New(b) \in Chain
  BY InitShape
<1>2. \A c \in Bases : New(c).base = c /\ New(c).blocks = <<>> /\ Len(New(c).blocks) = 0
  BY DEF New
<1>3. \A c \in Everyones : \E x \in Bases : c = New(x)
  BY <1>1 DEF Everyones
<1>4. \A c \in Everyones : c.base \in Bases /\ Len(c.blocks) = 0
  BY <1>2, <1>3
<1>5. Genuine
  BY <1>4 DEF Genuine, Sound, Determined, Init
<1>6. walk.by = k /\ walk.chain = New(b) /\ walk.i = 0
  BY <1>1, StartType
<1>7. New(b) \in held[k]
  BY <1>1
<1>8. Agree(New(b), New(b), 0)
  BY <1>2 DEF Agree
<1>9. Known
  BY <1>2, <1>6, <1>7, <1>8 DEF Known
<1> QED BY <1>5, <1>9

\* GenuineChain: Verify accepts only a chain its presenter was given, or the
\* beginning of one.  A signature is named by one block at most and stands for
\* all that was signed before it, so the links leave no other way to put seen
\* blocks together.
THEOREM AcceptedIsGenuine == Spec => []GenuineChain
<1> DEFINE Ended == walk.pc = "ok" => walk.i = Len(walk.chain.blocks)
<1>1. Init => Ended
  <2> SUFFICES ASSUME Init PROVE walk.pc # "ok"
    OBVIOUS
  <2>1. PICK k \in Keys, b \in Bases : walk = Started(k, New(b), "idle") /\ New(b) \in Chain
    BY InitShape
  <2> QED BY <2>1, StartType
<1>2. ChainTypeOK /\ Ended /\ [Next]_vars => Ended'
  <2> SUFFICES ASSUME ChainTypeOK, Ended, [Next]_vars PROVE Ended'
    OBVIOUS
  <2>1. CASE UNCHANGED walk
    BY <2>1
  <2>2. CASE VerifyEnd
    BY <2>2 DEF VerifyEnd, ChainTypeOK, Walk
  <2>3. CASE VerifyBlock
    <3>1. walk.pc = "walk" /\ walk.i < Len(walk.chain.blocks)
      BY <2>3 DEF VerifyBlock
    <3>2. PICK b \in Block : b = walk.chain.blocks[walk.i + 1]
      BY <3>1, NextBlock
    <3>3. Narrowed(walk, b).pc = "walk"
      BY <3>1, NarrowedType DEF ChainTypeOK
    <3>4. walk' = Narrowed(walk, b) \/ walk' = [walk EXCEPT !.pc = "rejected"]
      BY <2>3, <3>2 DEF VerifyBlock
    <3>5. walk'.pc # "ok"
      BY <3>3, <3>4 DEF ChainTypeOK, Walk
    <3> QED BY <3>5
  <2>4. ASSUME NEW k \in Keys, NEW b \in Tokens(k), NEW s \in Sequences(Blocks(k), MaxBlocks), Present(k, b, s)
        PROVE  Ended'
    <3>1. PICK p \in {"walk", "rejected"} : walk' = Started(k, [base |-> b, blocks |-> s], p)
      BY <2>4 DEF Present, Started
    <3>2. walk'.pc = p
      BY <3>1, PresentedType, StartType
    <3> QED BY <3>2
  <2> QED BY <2>1, <2>2, <2>3, <2>4 DEF Next, vars, appendBlock, Give, Tick
<1>3. Ended /\ ChainTypeOK /\ Known => GenuineChain
  <2> SUFFICES ASSUME Ended, Known, walk.pc = "ok"
               PROVE  \E c \in held[walk.by] : c.base = walk.chain.base /\ IsStart(walk.chain.blocks, c.blocks)
    BY DEF GenuineChain, Accepted
  <2> QED BY DEF Known, Agree, IsStart
<1> HIDE DEF Ended
<1> QED BY <1>1, <1>2, <1>3, GenuineInit, GenuineStep, KnownStep, ChainTypeCorrect, WithinKept, PTL DEF Spec

=============================================================================
