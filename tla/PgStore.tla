------------------------------- MODULE PgStore -------------------------------
(***************************************************************************)
(* Postgres.Consume (internal/store/postgres.go): a transaction of several *)
(* statements per call, at READ COMMITTED, in which any two calls          *)
(* interleave.  It locks the rows of the lineage one by one in id order    *)
(* (SELECT ... FOR UPDATE), reads the counters, increments them and        *)
(* commits.  A transaction may fail at any statement, and the commit may   *)
(* succeed without its answer arriving.                                    *)
(***************************************************************************)
EXTENDS Counters, FiniteSets

\* A table of the database has finitely many rows.
ASSUME TableAssumption == IsFiniteSet(Tokens)

VARIABLES
    pc,      \* what each transaction does next
    locked,  \* rows of warrant_tokens each transaction holds FOR UPDATE
    read     \* totals each transaction has read and found below the limit

vars == <<rows, total, perScope, call, result, pc, locked, read>>

PgTypeOK ==
    /\ rows \subseteq Tokens
    /\ total \in [Tokens -> Nat]
    /\ perScope \in [Tokens -> Seq(Nat)]
    /\ call \in [Callers -> Call]
    /\ result \in [Callers -> Results]
    /\ pc \in [Callers -> {"idle", "lock", "totals", "done"}]
    /\ locked \in [Callers -> SUBSET Tokens]
    /\ read \in [Callers -> SUBSET Tokens]

PgInit ==
    /\ Init
    /\ pc = [x \in Callers |-> "idle"]
    /\ locked = [x \in Callers |-> {}]
    /\ read = [x \in Callers |-> {}]

Mine(x) == Lineage(call[x].id)

\* INSERT of a token record.
InsertToken(t) == PutToken(t) /\ UNCHANGED <<pc, locked, read>>

Begin(x) ==
    /\ Start(x)
    /\ pc' = [pc EXCEPT ![x] = "lock"]
    /\ UNCHANGED <<locked, read>>

\* Mutant: a refused call keeps its locks.
EndKeepingLocks(x, res) ==
    /\ result' = [result EXCEPT ![x] = res]
    /\ pc' = [pc EXCEPT ![x] = "done"]
    /\ locked' = IF res = "refused" THEN locked ELSE [locked EXCEPT ![x] = {}]
    /\ UNCHANGED <<rows, call, read>>

\* Commit or rollback: the transaction answers and drops its locks.
End(x, res) ==
    /\ result' = [result EXCEPT ![x] = res]
    /\ pc' = [pc EXCEPT ![x] = "done"]
    /\ locked' = [locked EXCEPT ![x] = {}]
    /\ UNCHANGED <<rows, call, read>>

Refuse(x) == End(x, "refused") /\ UNCHANGED <<total, perScope>>

\* Mutant: rows are locked in any order.
NextLocksUnordered(x) == Mine(x) \ locked[x]

\* The rows the transaction may lock next: the least one, in id order.
NextLocks(x) ==
    {a \in Mine(x) \ locked[x] : \A b \in Mine(x) \ locked[x] : a <= b}

Blocked(x, a) == \E y \in Callers \ {x} : a \in locked[y]

\* SELECT max_calls, scope_limits ... FOR UPDATE of one row of the lineage.
LockRow(x, a) ==
    /\ pc[x] = "lock"
    /\ a \in NextLocks(x)
    /\ IF a \notin rows
       THEN Refuse(x)
       ELSE /\ ~Blocked(x, a)
            /\ locked' = [locked EXCEPT ![x] = @ \cup {a}]
            /\ UNCHANGED <<rows, total, perScope, call, result, pc, read>>

\* Mutant: only the presented token's row is needed.
AllLockedSelf(x) == call[x].id \in locked[x]

AllLocked(x) == Mine(x) \subseteq locked[x]

\* The range check on scopeIdx and the read of the scope's counter.
ReadScope(x) ==
    LET t == call[x].id
        i == call[x].idx
    IN  /\ pc[x] = "lock" /\ AllLocked(x)
        /\ IF i \notin DOMAIN ScopeLimits[t] \/ perScope[t][i] >= ScopeLimits[t][i]
           THEN Refuse(x)
           ELSE /\ pc' = [pc EXCEPT ![x] = "totals"]
                /\ UNCHANGED <<rows, total, perScope, call, result, locked, read>>

\* The read of one total of the lineage.
ReadTotal(x, a) ==
    /\ pc[x] = "totals"
    /\ a \in Mine(x) \ read[x]
    /\ IF total[a] >= MaxCalls[a]
       THEN Refuse(x)
       ELSE /\ read' = [read EXCEPT ![x] = @ \cup {a}]
            /\ UNCHANGED <<rows, total, perScope, call, result, pc, locked>>

\* Mutant: the increments stop at the presented token.
CommitSelfOnly(x) ==
    /\ pc[x] = "totals" /\ read[x] = Mine(x)
    /\ total' = [total EXCEPT ![call[x].id] = @ + 1]
    /\ perScope' = [perScope EXCEPT ![call[x].id][call[x].idx] = @ + 1]
    /\ \E res \in {"ok", "error"} : End(x, res)

\* The increments, invisible to others before the commit, and the commit.
Commit(x) ==
    /\ pc[x] = "totals" /\ read[x] = Mine(x)
    /\ Charge(call[x].id, call[x].idx)
    /\ \E res \in {"ok", "error"} : End(x, res)

\* Mutant: a failed call gives back what it has not been charged.
AbortRefunds(x) ==
    /\ pc[x] \in {"lock", "totals"}
    /\ total' = [a \in Tokens |-> IF a \in Mine(x) THEN total[a] - 1 ELSE total[a]]
    /\ End(x, "error") /\ UNCHANGED perScope

\* A statement fails, or the connection does: tx.Rollback.
Abort(x) ==
    /\ pc[x] \in {"lock", "totals"}
    /\ End(x, "error") /\ UNCHANGED <<total, perScope>>

Step(x) ==
    \/ \E a \in Tokens : LockRow(x, a) \/ ReadTotal(x, a)
    \/ ReadScope(x)
    \/ Commit(x)

\* Nothing is left to do.
AllDone ==
    /\ rows = Tokens /\ \A x \in Callers : pc[x] = "done"
    /\ UNCHANGED vars

PgNext ==
    \/ \E t \in Tokens : InsertToken(t)
    \/ \E x \in Callers : Begin(x) \/ Step(x) \/ Abort(x)
    \/ AllDone

PgSpec == PgInit /\ [][PgNext]_vars

\* A transaction that can execute its next statement does so.
PgFairSpec == PgSpec /\ \A x \in Callers : WF_vars(Step(x))

-----------------------------------------------------------------------------
(* Properties *)

\* Whatever the interleaving of statements, Consume is one atomic charge of
\* the whole lineage: every transaction maps to a step of Counters.
RefinesCounters == Spec

\* No counter ever passes its limit, however the statements of concurrent
\* calls on a token, its ancestors and its siblings interleave.
WithinLimits ==
    \A t \in Tokens :
        /\ total[t] <= MaxCalls[t]
        /\ \A i \in DOMAIN ScopeLimits[t] : perScope[t][i] <= ScopeLimits[t][i]

\* x waits for a row that y holds.
WaitsFor(x, y) == pc[x] = "lock" /\ \E a \in NextLocks(x) : a \in locked[y]

\* Siblings that share ancestors never wait for each other in a circle (the
\* comment in Consume: "a stable order to avoid deadlocks between siblings").
NoCircularWait ==
    \A W \in (SUBSET Callers) \ {{}} :
        \E x \in W : \A y \in W \ {x} : ~WaitsFor(x, y)

\* Every Consume that has begun returns, as long as the database runs the
\* statements that are not blocked.
ConsumeReturns == \A x \in Callers : pc[x] = "lock" ~> pc[x] = "done"

=============================================================================
