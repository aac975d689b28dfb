---------------------------- MODULE Attenuation ----------------------------
(***************************************************************************)
(* Offline attenuation chains (internal/attenuate): a holder appends       *)
(* signed blocks to a broker-signed token and hands the chain on; Verify   *)
(* walks a presented chain block by block and computes the authority in    *)
(* force.  Whoever has seen a chain may present any sequence of its        *)
(* blocks, under any base token, so the walk has to tell the genuine ones. *)
(*                                                                         *)
(* A signature is a number drawn once: base tokens have theirs below 1, a  *)
(* block gets the next free one and names its predecessor's.               *)
(***************************************************************************)
EXTENDS Scopes

CONSTANTS
    Keys,        \* Ed25519 keys, one for each party that handles chains
    Bases,       \* broker-signed capability tokens
    ScopeLists,  \* scope lists a block may hold; <<>> is left out of the JSON
    Expiries,    \* expiries a block may hold; 0 is left out of the JSON
    Cnfs,        \* holder keys a block may name, or None
    None,        \* no key
    MaxBlocks,   \* bound on the number of blocks signed
    MaxTime      \* bound on the clock

Base == [scopes : Seq(Scope), exp : Nat, cnf : Keys \cup {None}, sig : Int]

Block == [scopes : Seq(Scope), exp : Nat, cnf : Keys \cup {None},
          signer : Keys, prev : Int, sig : Nat]

Chain == [base : Base, blocks : Seq(Block)]

ASSUME AttenuationAssumption ==
    /\ None \notin Keys
    /\ Bases \subseteq Base /\ Bases # {}
    /\ \A a, b \in Bases : a.sig <= 0 /\ (a.sig = b.sig => a = b)
    /\ \A b \in Bases : \A i \in DOMAIN b.scopes :   \* MintRoot validates, Attenuate drops
          b.scopes[i].calls # {} => b.scopes[i].maxCalls > 0
    /\ ScopeLists \subseteq Seq(Scope) /\ Expiries \subseteq Nat
    /\ Cnfs \subseteq Keys \cup {None}
    /\ MaxBlocks \in Nat /\ MaxTime \in Nat

VARIABLES
    now,    \* the clock
    held,   \* chains each party has made or was given
    fresh,  \* the next signature
    walk    \* a run of Verify: the chain, who presents it, and what is in force

vars == <<now, held, fresh, walk>>

\* i counts the blocks passed; scopes, origins, exp and cnf are in force.
Walk == [pc : {"idle", "walk", "ok", "rejected"}, by : Keys, chain : Chain,
         i : Nat, scopes : Seq(Scope), origins : Seq(Nat), exp : Nat,
         cnf : Keys \cup {None}]

ChainTypeOK ==
    /\ now \in Nat
    /\ held \in [Keys -> SUBSET Chain]
    /\ fresh \in Nat
    /\ walk \in Walk
    /\ DOMAIN walk.origins = DOMAIN walk.scopes
    /\ walk.i \in 0 .. Len(walk.chain.blocks)

\* New: everyone who handles a base token starts from a chain without blocks.
New(b) == [base |-> b, blocks |-> <<>>]

Start(k, c) ==
    [pc |-> "walk", by |-> k, chain |-> c, i |-> 0, scopes |-> c.base.scopes,
     origins |-> [n \in DOMAIN c.base.scopes |-> n], exp |-> c.base.exp, cnf |-> c.base.cnf]

Init ==
    /\ now = 0
    /\ \E k \in Keys :
          /\ held = [h \in Keys |-> IF h = k THEN {New(c) : c \in Bases} ELSE {}]
          /\ walk = [Start(k, New(CHOOSE b \in Bases : TRUE)) EXCEPT !.pc = "idle"]
    /\ fresh = 1

-----------------------------------------------------------------------------
(* Parties.  Verify changes nothing but its own variables, so one run of it *)
(* after all the parties have done is enough.                              *)

Tip(c) == IF c.blocks = <<>> THEN c.base.sig ELSE c.blocks[Len(c.blocks)].sig

\* appendBlock: k signs a block on top of a chain it has.
appendBlock(k, c, scopes, exp, cnf) ==
    /\ walk.pc = "idle" /\ c \in held[k]
    /\ fresh <= MaxBlocks
    /\ held' = [held EXCEPT ![k] = @ \cup
          {[c EXCEPT !.blocks = Append(@, [scopes |-> scopes, exp |-> exp, cnf |-> cnf,
               signer |-> k, prev |-> Tip(c), sig |-> fresh])]}]
    /\ fresh' = fresh + 1
    /\ UNCHANGED <<now, walk>>

\* A chain is handed to another party.
Give(k, h, c) ==
    /\ walk.pc = "idle" /\ c \in held[k]
    /\ held' = [held EXCEPT ![h] = @ \cup {c}]
    /\ UNCHANGED <<now, fresh, walk>>

\* The blocks and the base tokens a party has seen.
Blocks(k) == UNION {{c.blocks[i] : i \in DOMAIN c.blocks} : c \in held[k]}

Tokens(k) == {c.base : c \in held[k]}

Expired(exp) == now >= exp

\* Verify begins: the base token's signature and expiry.
Present(k, b, blocks) ==
    LET c == [base |-> b, blocks |-> blocks]
    IN  /\ walk.pc = "idle"
        /\ walk' = [Start(k, c) EXCEPT !.pc = IF Expired(b.exp) THEN "rejected" ELSE "walk"]
        /\ UNCHANGED <<now, held, fresh>>

-----------------------------------------------------------------------------
(* The walk *)

\* Mutant: the signature is checked but not the link.
LinkedAnywhere(w) == TRUE

\* The block names the signature of the block before it or of the base token.
Linked(w) ==
    w.chain.blocks[w.i + 1].prev =
        IF w.i = 0 THEN w.chain.base.sig ELSE w.chain.blocks[w.i].sig

\* Mutant: one origin for each requested scope.
OriginsOfRequested(w, requested) == [n \in DOMAIN requested |-> n]

\* Mutant: an origin is the index in the list it was cut from.
OriginsOfParent(w, requested) ==
    [n \in 1 .. Len(requested) * Len(w.scopes) |-> ((n - 1) % Len(w.scopes)) + 1]

\* attenuateWithOrigin: the base scope each scope of Attenuate's result is cut
\* from.
Origins(w, requested) ==
    [n \in 1 .. Len(requested) * Len(w.scopes) |->
        w.origins[((n - 1) % Len(w.scopes)) + 1]]

\* Mutant: any key may rebind.
MayRebindAny(w, b) == TRUE

\* Only the current holder may name the next one.
MayRebind(w, b) == b.cnf = None \/ w.cnf = None \/ b.signer = w.cnf

KeepsExpiry(w, b) == b.exp <= w.exp

\* The authority in force after block b.
Narrowed(w, b) ==
    [w EXCEPT !.i = @ + 1,
              !.scopes  = IF b.scopes = <<>> THEN @ ELSE Attenuate(@, b.scopes),
              !.origins = IF b.scopes = <<>> THEN @ ELSE Origins(w, b.scopes),
              !.exp     = IF b.exp = 0 THEN @ ELSE b.exp,
              !.cnf     = IF b.cnf = None THEN @ ELSE b.cnf]

Subset(child, parent) ==
    /\ child.calls \subseteq parent.calls /\ child.maxCalls <= parent.maxCalls
    /\ parent.approval => child.approval

\* A vacant place stands for a scope that is not there.
ScopesSubset(children, parents) ==
    \A i \in DOMAIN children :
        children[i].calls = {} \/ \E j \in DOMAIN parents : Subset(children[i], parents[j])

\* One turn of the loop: link, scopes, expiry and holder key, or rejection.
VerifyBlock ==
    LET b == walk.chain.blocks[walk.i + 1]
        w == Narrowed(walk, b)
    IN  /\ walk.pc = "walk" /\ walk.i < Len(walk.chain.blocks)
        /\ walk' = IF /\ Linked(walk)
                      /\ ~Vacant(w.scopes) /\ ScopesSubset(w.scopes, walk.scopes)
                      /\ KeepsExpiry(walk, b)
                      /\ MayRebind(walk, b)
                   THEN w
                   ELSE [walk EXCEPT !.pc = "rejected"]
        /\ UNCHANGED <<now, held, fresh>>

VerifyEnd ==
    /\ walk.pc = "walk" /\ walk.i = Len(walk.chain.blocks)
    /\ walk' = [walk EXCEPT !.pc = IF Expired(walk.exp) THEN "rejected" ELSE "ok"]
    /\ UNCHANGED <<now, held, fresh>>

\* Verify reads the clock once, before the walk.
Tick ==
    /\ now < MaxTime /\ walk.pc = "idle"
    /\ now' = now + 1
    /\ UNCHANGED <<held, fresh, walk>>

Sequences(S, n) == UNION {[1 .. m -> S] : m \in 0 .. n}

Next ==
    \/ \E k \in Keys : \E c \in held[k] :
          \/ \E scopes \in ScopeLists, exp \in Expiries, cnf \in Cnfs :
                appendBlock(k, c, scopes, exp, cnf)
          \/ \E h \in Keys \ {k} : Give(k, h, c)
    \/ \E k \in Keys : \E b \in Tokens(k), blocks \in Sequences(Blocks(k), MaxBlocks) :
          Present(k, b, blocks)
    \/ VerifyBlock
    \/ VerifyEnd
    \/ Tick

Spec == Init /\ [][Next]_vars

-----------------------------------------------------------------------------
(* Properties *)

Accepted == walk.pc = "ok"

\* However many blocks were appended, by whoever: an accepted chain admits only
\* calls that its base token admits, for no longer.  The budget charged for a
\* call (ScopeOrigins) is that of the very scope that decides the same call for
\* the base token, and an approval that scope asks for is still asked for.
EffectiveNarrows ==
    Accepted =>
        LET base == walk.chain.base
        IN  /\ walk.exp <= base.exp
            /\ \A call \in Calls :
                  LET i == FirstMatch(walk.scopes, call)
                  IN  i > 0 => LET j == FirstMatch(base.scopes, call)
                               IN  /\ j > 0 /\ walk.origins[i] = j
                                   /\ walk.scopes[i].maxCalls <= base.scopes[j].maxCalls
                                   /\ base.scopes[j].approval => walk.scopes[i].approval

\* A chain whose base token is holder-bound stays holder-bound, and its holder
\* key is another one only if the base token's holder signed a block that
\* names a new key.
HolderConsents ==
    Accepted /\ walk.chain.base.cnf # None =>
        /\ walk.cnf # None
        /\ walk.cnf # walk.chain.base.cnf =>
              \E i \in DOMAIN walk.chain.blocks :
                  /\ walk.chain.blocks[i].signer = walk.chain.base.cnf
                  /\ walk.chain.blocks[i].cnf # None

IsStart(s, t) == Len(s) <= Len(t) /\ \A i \in 1 .. Len(s) : s[i] = t[i]

\* Blocks cannot be reordered, left out of the middle or taken to another base
\* token: an accepted chain is a chain its presenter has, or the beginning of
\* one.
GenuineChain ==
    Accepted =>
        \E c \in held[walk.by] :
            c.base = walk.chain.base /\ IsStart(walk.chain.blocks, c.blocks)

=============================================================================
