------------------------------ MODULE Counters ------------------------------
(***************************************************************************)
(* What store.Store promises of Consume: it charges one call to a scope of *)
(* the presented token and to the total of every token of its lineage, in  *)
(* one step, and charges nothing when a record is missing or a budget is   *)
(* used up.  The Memory store does literally this under its mutex; PgStore *)
(* is shown to implement it.                                               *)
(***************************************************************************)
EXTENDS Integers, Sequences

CONSTANTS
    Tokens,       \* token ids; numbers, because Postgres locks in id order
    Ancestors,    \* the chain of each token
    MaxCalls,     \* max_calls of each token
    ScopeLimits,  \* scope_limits of each token
    ScopeIdxs,    \* scope indexes Consume may be called with
    Callers       \* Consume calls; each is made once

ASSUME CountersAssumption ==
    /\ Tokens \subseteq Nat
    /\ Ancestors \in [Tokens -> SUBSET Tokens]
    /\ MaxCalls \in [Tokens -> Nat]
    /\ ScopeLimits \in [Tokens -> Seq(Nat)]
    /\ ScopeIdxs \subseteq Int

VARIABLES
    rows,      \* tokens with a record
    total,     \* whole-token counters
    perScope,  \* scope counters
    call,      \* arguments of each Consume call
    result     \* how each call ended

cvars == <<rows, total, perScope, call, result>>

Call == [id : Tokens, idx : ScopeIdxs]

Results == {"none", "pending", "ok", "refused", "error"}

Lineage(t) == Ancestors[t] \cup {t}

Init ==
    /\ rows = {}
    /\ total = [t \in Tokens |-> 0]
    /\ perScope = [t \in Tokens |-> [i \in DOMAIN ScopeLimits[t] |-> 0]]
    /\ call \in [Callers -> Call]
    /\ result = [x \in Callers |-> "none"]

PutToken(t) ==
    /\ t \notin rows
    /\ rows' = rows \cup {t}
    /\ UNCHANGED <<total, perScope, call, result>>

\* The call is made.
Start(x) ==
    /\ result[x] = "none"
    /\ result' = [result EXCEPT ![x] = "pending"]
    /\ UNCHANGED <<rows, total, perScope, call>>

Chargeable(t, i) ==
    /\ Lineage(t) \subseteq rows
    /\ i \in DOMAIN ScopeLimits[t]
    /\ perScope[t][i] < ScopeLimits[t][i]
    /\ \A a \in Lineage(t) : total[a] < MaxCalls[a]

Charge(t, i) ==
    /\ total' = [a \in Tokens |-> IF a \in Lineage(t) THEN total[a] + 1 ELSE total[a]]
    /\ perScope' = [perScope EXCEPT ![t][i] = @ + 1]

\* Charge, and answer ok or have the answer lost; or refuse.
Consume(x) ==
    /\ result[x] = "pending"
    /\ \/ /\ Chargeable(call[x].id, call[x].idx)
          /\ Charge(call[x].id, call[x].idx)
          /\ \E res \in {"ok", "error"} : result' = [result EXCEPT ![x] = res]
       \/ /\ ~Chargeable(call[x].id, call[x].idx)
          /\ result' = [result EXCEPT ![x] = "refused"]
          /\ UNCHANGED <<total, perScope>>
    /\ UNCHANGED <<rows, call>>

\* The store fails; nothing is charged.
Fail(x) ==
    /\ result[x] = "pending"
    /\ result' = [result EXCEPT ![x] = "error"]
    /\ UNCHANGED <<rows, total, perScope, call>>

Next ==
    \/ \E t \in Tokens : PutToken(t)
    \/ \E x \in Callers : Start(x) \/ Consume(x) \/ Fail(x)

Spec == Init /\ [][Next]_cvars

=============================================================================
