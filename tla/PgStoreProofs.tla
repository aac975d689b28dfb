---------------------------- MODULE PgStoreProofs ----------------------------
(***************************************************************************)
(* Postgres.Consume is atomic, keeps every limit and cannot deadlock, for  *)
(* any number of tokens, generations and concurrent transactions.          *)
(***************************************************************************)
EXTENDS PgStore, FiniteSetTheorems, NaturalsInduction, WellFoundedInduction, TLAPS

-----------------------------------------------------------------------------
(* The inductive invariant *)

\* The counters have the shape of the limits.
Shape == \A t \in Tokens : DOMAIN perScope[t] = DOMAIN ScopeLimits[t]

\* No row is held twice, and a transaction holds rows of its lineage only.
Exclusive ==
    /\ \A x \in Callers : locked[x] \subseteq Mine(x) \cap rows
    /\ \A x \in Callers : \A y \in Callers \ {x} : locked[x] \cap locked[y] = {}

\* A transaction has locked the smallest ids of its lineage.
InOrder ==
    \A x \in Callers : \A l \in locked[x] : \A b \in Mine(x) \ locked[x] : l < b

\* A transaction is open exactly while its call is pending.
Pending ==
    \A x \in Callers : /\ pc[x] \in {"lock", "totals"} <=> result[x] = "pending"
                       /\ pc[x] = "idle" <=> result[x] = "none"

\* What a transaction has read is still true: it holds the whole lineage.
ReadsHold ==
    \A x \in Callers :
        /\ read[x] \subseteq Mine(x)
        /\ pc[x] \in {"idle", "lock"} => read[x] = {}
        /\ pc[x] = "totals" =>
              /\ Mine(x) \subseteq locked[x]
              /\ call[x].idx \in DOMAIN ScopeLimits[call[x].id]
              /\ perScope[call[x].id][call[x].idx] < ScopeLimits[call[x].id][call[x].idx]
              /\ \A a \in read[x] : total[a] < MaxCalls[a]

Serial == Shape /\ Exclusive /\ InOrder /\ Pending /\ ReadsHold /\ WithinLimits

\* The tokens of a lineage are tokens.
LEMMA MineType ==
    ASSUME PgTypeOK, NEW x \in Callers
    PROVE  /\ call[x] \in Call /\ call[x].id \in Tokens /\ call[x].id \in Mine(x)
           /\ Mine(x) \subseteq Tokens
BY CountersAssumption DEF PgTypeOK, Call, Mine, Lineage

\* A charge keeps the types and the shape of the counters.
LEMMA ChargeType ==
    ASSUME PgTypeOK, Shape, NEW t \in Tokens, NEW i \in DOMAIN ScopeLimits[t], Charge(t, i)
    PROVE  /\ total' \in [Tokens -> Nat] /\ perScope' \in [Tokens -> Seq(Nat)]
           /\ \A u \in Tokens : DOMAIN perScope'[u] = DOMAIN ScopeLimits[u]
           /\ \A u \in Tokens \ {t} : perScope'[u] = perScope[u]
           /\ \A j \in DOMAIN ScopeLimits[t] \ {i} : perScope'[t][j] = perScope[t][j]
           /\ perScope'[t][i] = perScope[t][i] + 1
<1> DEFINE s == perScope[t]
           u == [s EXCEPT ![i] = s[i] + 1]
<1>1. s \in Seq(Nat) /\ i \in DOMAIN s /\ DOMAIN s = DOMAIN ScopeLimits[t]
  BY DEF PgTypeOK, Shape
<1>2. s[i] \in Nat /\ s[i] + 1 \in Nat
  BY <1>1
<1>3. u \in Seq(Nat) /\ DOMAIN u = DOMAIN s /\ u[i] = s[i] + 1 /\ \A j \in DOMAIN s \ {i} : u[j] = s[j]
  BY <1>1, <1>2
<1>4. perScope' = [perScope EXCEPT ![t] = u]
  BY DEF Charge
<1> HIDE DEF u
<1>5. /\ perScope' \in [Tokens -> Seq(Nat)]
      /\ perScope'[t] = u /\ \A v \in Tokens \ {t} : perScope'[v] = perScope[v]
  BY <1>3, <1>4 DEF PgTypeOK
<1>6. total' \in [Tokens -> Nat]
  <2>1. \A a \in Tokens : total[a] \in Nat /\ total[a] + 1 \in Nat
    BY DEF PgTypeOK
  <2>2. total' = [a \in Tokens |-> IF a \in Lineage(t) THEN total[a] + 1 ELSE total[a]]
    BY DEF Charge
  <2> QED BY <2>1, <2>2
<1> QED BY <1>1, <1>3, <1>5, <1>6 DEF Shape

\* End of a transaction without a charge: the locks go, nothing else changes.
LEMMA EndStep ==
    ASSUME PgTypeOK, Serial, NEW x \in Callers, NEW res \in {"refused", "error"}, End(x, res),
           UNCHANGED <<total, perScope>>
    PROVE  PgTypeOK' /\ Serial'
<1>1. /\ result' = [result EXCEPT ![x] = res] /\ pc' = [pc EXCEPT ![x] = "done"]
      /\ locked' = [locked EXCEPT ![x] = {}] /\ UNCHANGED <<rows, call, read, total, perScope>>
  BY DEF End
<1>2. PgTypeOK'
  BY <1>1 DEF PgTypeOK, Results
<1>3. \A y \in Callers : Mine(y)' = Mine(y)
  BY <1>1 DEF Mine
<1>4. \A y \in Callers : locked'[y] = IF y = x THEN {} ELSE locked[y]
  BY <1>1 DEF PgTypeOK
<1>5. Exclusive'
  BY <1>1, <1>3, <1>4 DEF Exclusive, Serial
<1>6. InOrder'
  BY <1>3, <1>4 DEF InOrder, Serial
<1>7. Pending'
  BY <1>1 DEF Pending, Serial, PgTypeOK
<1>8. ReadsHold'
  BY <1>1, <1>3, <1>4 DEF ReadsHold, Serial, PgTypeOK
<1> QED BY <1>1, <1>2, <1>5, <1>6, <1>7, <1>8 DEF Serial, Shape, WithinLimits

\* The commit keeps the invariant: it touches rows that nobody else has read.
LEMMA CommitStep ==
    ASSUME PgTypeOK, Serial, NEW x \in Callers, Commit(x)
    PROVE  PgTypeOK' /\ Serial'
<1>0. PICK t \in Tokens, i \in Int : t = call[x].id /\ i = call[x].idx
  BY MineType, CountersAssumption DEF Call
<1>1. PICK res \in {"ok", "error"} :
         /\ result' = [result EXCEPT ![x] = res] /\ pc' = [pc EXCEPT ![x] = "done"]
         /\ locked' = [locked EXCEPT ![x] = {}] /\ UNCHANGED <<rows, call, read>>
  BY DEF Commit, End
<1>2. /\ pc[x] = "totals" /\ read[x] = Mine(x) /\ Charge(t, i)
      /\ Mine(x) = Lineage(t) /\ t \in Mine(x) /\ Mine(x) \subseteq Tokens
  BY <1>0, MineType DEF Commit, Mine
<1>3. /\ Mine(x) \subseteq locked[x] /\ i \in DOMAIN ScopeLimits[t]
      /\ perScope[t][i] < ScopeLimits[t][i] /\ \A a \in Mine(x) : total[a] < MaxCalls[a]
  BY <1>0, <1>2 DEF Serial, ReadsHold
<1>4. /\ total' \in [Tokens -> Nat] /\ perScope' \in [Tokens -> Seq(Nat)]
      /\ Shape'
      /\ \A u \in Tokens \ {t} : perScope'[u] = perScope[u]
      /\ \A j \in DOMAIN ScopeLimits[t] \ {i} : perScope'[t][j] = perScope[t][j]
      /\ perScope'[t][i] = perScope[t][i] + 1
  BY <1>2, <1>3, ChargeType DEF Serial, Shape
<1>5. PgTypeOK'
  BY <1>1, <1>4 DEF PgTypeOK, Results
<1>6. \A y \in Callers : Mine(y)' = Mine(y) /\ locked'[y] = IF y = x THEN {} ELSE locked[y]
  BY <1>1 DEF Mine, PgTypeOK
<1>7. Exclusive' /\ InOrder'
  BY <1>1, <1>6 DEF Exclusive, InOrder, Serial
<1>8. Pending'
  BY <1>1 DEF Pending, Serial, PgTypeOK
<1>9. \A a \in Tokens : total'[a] = IF a \in Mine(x) THEN total[a] + 1 ELSE total[a]
  BY <1>2 DEF Charge
<1>10. ReadsHold'
  <2> SUFFICES ASSUME NEW y \in Callers
               PROVE  /\ read'[y] \subseteq Mine(y)'
                      /\ pc'[y] \in {"idle", "lock"} => read'[y] = {}
                      /\ pc'[y] = "totals" =>
                         /\ Mine(y)' \subseteq locked'[y]
                         /\ call'[y].idx \in DOMAIN ScopeLimits[call'[y].id]
                         /\ perScope'[call'[y].id][call'[y].idx]
                               < ScopeLimits[call'[y].id][call'[y].idx]
                         /\ \A a \in read'[y] : total'[a] < MaxCalls[a]
    BY DEF ReadsHold
  <2>1. read'[y] \subseteq Mine(y)' /\ (pc'[y] \in {"idle", "lock"} => read'[y] = {})
    BY <1>1, <1>6 DEF Serial, ReadsHold, PgTypeOK
  <2>2. ASSUME pc'[y] = "totals"
        PROVE  /\ y # x /\ pc[y] = "totals" /\ Mine(y) \subseteq locked[y]
               /\ Mine(y) \cap Mine(x) = {}
    <3>1. y # x /\ pc[y] = "totals"
      BY <1>1, <2>2 DEF PgTypeOK
    <3>2. Mine(y) \subseteq locked[y] /\ locked[x] \cap locked[y] = {}
      BY <3>1 DEF Serial, ReadsHold, Exclusive
    <3> QED BY <1>3, <3>1, <3>2
  <2>3. ASSUME pc'[y] = "totals"
        PROVE  /\ perScope'[call[y].id] = perScope[call[y].id]
               /\ \A a \in read[y] : total'[a] = total[a]
    <3>1. call[y].id \in Mine(y) /\ call[y].id \in Tokens /\ Mine(y) \subseteq Tokens
      BY MineType
    <3>2. call[y].id # t
      BY <1>2, <2>2, <2>3, <3>1
    <3>3. read[y] \subseteq Mine(y)
      BY DEF Serial, ReadsHold
    <3> QED BY <1>4, <1>9, <2>2, <2>3, <3>1, <3>2, <3>3
  <2> QED BY <1>1, <1>6, <2>1, <2>2, <2>3 DEF Serial, ReadsHold
<1>11. WithinLimits'
  <2>1. \A a \in Tokens : total'[a] <= MaxCalls[a]
    <3> TAKE a \in Tokens
    <3>1. total[a] \in Nat /\ MaxCalls[a] \in Nat /\ total[a] <= MaxCalls[a]
      BY CountersAssumption DEF PgTypeOK, Serial, WithinLimits
    <3> QED BY <1>3, <1>9, <3>1
  <2>2. ASSUME NEW u \in Tokens, NEW j \in DOMAIN ScopeLimits[u]
        PROVE  perScope'[u][j] <= ScopeLimits[u][j]
    <3>1. perScope[u][j] <= ScopeLimits[u][j]
      BY DEF Serial, WithinLimits
    <3>2. perScope[u] \in Seq(Nat) /\ j \in DOMAIN perScope[u] /\ ScopeLimits[u] \in Seq(Nat)
      BY CountersAssumption DEF PgTypeOK, Serial, Shape
    <3>3. perScope[u][j] \in Nat /\ ScopeLimits[u][j] \in Nat
      BY <3>2
    <3>4. CASE u = t /\ j = i
      <4>1. perScope'[u][j] = perScope[u][j] + 1 /\ perScope[u][j] < ScopeLimits[u][j]
        BY <1>3, <1>4, <3>4
      <4> QED BY <3>3, <4>1
    <3>5. CASE ~(u = t /\ j = i)
      <4>1. perScope'[u][j] = perScope[u][j]
        BY <1>4, <3>5
      <4> QED BY <3>1, <4>1
    <3> QED BY <3>4, <3>5
  <2> QED BY <2>1, <2>2 DEF WithinLimits
<1> QED BY <1>4, <1>5, <1>7, <1>8, <1>10, <1>11 DEF Serial

\* Every step keeps the types and the invariant.
LEMMA PgStep ==
    ASSUME PgTypeOK, Serial, [PgNext]_vars
    PROVE  PgTypeOK' /\ Serial'
<1>1. ASSUME NEW t \in Tokens, InsertToken(t) PROVE PgTypeOK' /\ Serial'
  <2>1. rows' = rows \cup {t} /\ UNCHANGED <<total, perScope, call, result, pc, locked, read>>
    BY <1>1 DEF InsertToken, PutToken
  <2>2. PgTypeOK'
    BY <2>1 DEF PgTypeOK
  <2>3. Exclusive' /\ InOrder' /\ ReadsHold'
    BY <2>1 DEF Serial, Exclusive, InOrder, ReadsHold, Mine
  <2> QED BY <2>1, <2>2, <2>3 DEF Serial, Shape, Pending, WithinLimits
<1>2. ASSUME NEW x \in Callers, Begin(x) PROVE PgTypeOK' /\ Serial'
  <2>1. /\ result[x] = "none" /\ result' = [result EXCEPT ![x] = "pending"]
        /\ pc' = [pc EXCEPT ![x] = "lock"]
        /\ UNCHANGED <<rows, total, perScope, call, locked, read>>
    BY <1>2 DEF Begin, Start
  <2>2. PgTypeOK'
    BY <2>1 DEF PgTypeOK, Results
  <2>3. Exclusive' /\ InOrder'
    BY <2>1 DEF Serial, Exclusive, InOrder, Mine
  <2>4. ReadsHold'
    BY <2>1 DEF Serial, Pending, ReadsHold, Mine, PgTypeOK
  <2>5. Pending'
    BY <2>1 DEF Serial, Pending, PgTypeOK
  <2> QED BY <2>1, <2>2, <2>3, <2>4, <2>5 DEF Serial, Shape, WithinLimits
<1>3. ASSUME NEW x \in Callers, NEW a \in Tokens, LockRow(x, a) PROVE PgTypeOK' /\ Serial'
  <2>1. CASE a \notin rows
    BY <1>3, <2>1, EndStep DEF LockRow, Refuse
  <2>2. CASE a \in rows
    <3>1. /\ pc[x] = "lock" /\ a \in NextLocks(x) /\ ~Blocked(x, a)
          /\ locked' = [locked EXCEPT ![x] = locked[x] \cup {a}]
          /\ UNCHANGED <<rows, total, perScope, call, result, pc, read>>
      BY <1>3, <2>2 DEF LockRow
    <3>2. a \in Mine(x) \ locked[x] /\ \A b \in Mine(x) \ locked[x] : a <= b
      BY <3>1 DEF NextLocks
    <3>3. PgTypeOK'
      BY <3>1 DEF PgTypeOK
    <3>4. \A y \in Callers : /\ Mine(y)' = Mine(y)
                             /\ locked'[y] = IF y = x THEN locked[x] \cup {a} ELSE locked[y]
      BY <3>1 DEF Mine, PgTypeOK
    <3>5. Exclusive'
      <4>1. \A y \in Callers \ {x} : a \notin locked[y]
        BY <3>1 DEF Blocked
      <4> QED BY <2>2, <3>1, <3>2, <3>4, <4>1 DEF Serial, Exclusive
    <3>6. InOrder'
      <4>1. \A y \in Callers : Mine(y) \subseteq Nat /\ locked[y] \subseteq Nat
        BY MineType, CountersAssumption DEF PgTypeOK
      <4>2. \A b \in Mine(x) \ (locked[x] \cup {a}) : a < b /\ \A l \in locked[x] : l < b
        BY <3>2, <4>1 DEF Serial, InOrder
      <4> QED BY <3>4, <4>2 DEF Serial, InOrder
    <3>7. ReadsHold'
      BY <3>1, <3>4 DEF Serial, ReadsHold
    <3> QED BY <3>1, <3>3, <3>5, <3>6, <3>7 DEF Serial, Shape, Pending, WithinLimits
  <2> QED BY <2>1, <2>2
<1>4. ASSUME NEW x \in Callers, ReadScope(x) PROVE PgTypeOK' /\ Serial'
  <2> DEFINE t == call[x].id
             i == call[x].idx
             full == i \notin DOMAIN ScopeLimits[t] \/ perScope[t][i] >= ScopeLimits[t][i]
  <2>1. CASE full
    BY <1>4, <2>1, EndStep DEF ReadScope, Refuse
  <2>2. CASE ~full
    <3>1. /\ pc[x] = "lock" /\ Mine(x) \subseteq locked[x] /\ pc' = [pc EXCEPT ![x] = "totals"]
          /\ UNCHANGED <<rows, total, perScope, call, result, locked, read>>
      BY <1>4, <2>2 DEF ReadScope, AllLocked
    <3>2. PgTypeOK'
      BY <3>1 DEF PgTypeOK
    <3>3. Exclusive' /\ InOrder'
      BY <3>1 DEF Serial, Exclusive, InOrder, Mine
    <3>4. Pending'
      BY <3>1 DEF Serial, Pending, PgTypeOK
    <3>5. i \in DOMAIN ScopeLimits[t] /\ perScope[t][i] < ScopeLimits[t][i]
      <4>1. t \in Tokens
        BY MineType
      <4>2. /\ perScope[t] \in Seq(Nat) /\ ScopeLimits[t] \in Seq(Nat)
            /\ DOMAIN perScope[t] = DOMAIN ScopeLimits[t]
        BY <4>1, CountersAssumption DEF PgTypeOK, Serial, Shape
      <4>3. i \in DOMAIN ScopeLimits[t]
        BY <2>2
      <4>4. perScope[t][i] \in Nat /\ ScopeLimits[t][i] \in Nat
        <5> HIDE DEF t, i
        <5> QED BY <4>2, <4>3
      <4> QED BY <2>2, <4>3, <4>4
    <3>6. \A a \in read[x] : total[a] < MaxCalls[a]
      <4>1. read[x] = {}
        BY <3>1 DEF Serial, ReadsHold
      <4> QED BY <4>1
    <3>7. ReadsHold'
      BY <3>1, <3>5, <3>6 DEF Serial, ReadsHold, Mine, PgTypeOK
    <3> QED BY <3>1, <3>2, <3>3, <3>4, <3>7 DEF Serial, Shape, WithinLimits
  <2> QED BY <2>1, <2>2
<1>5. ASSUME NEW x \in Callers, NEW a \in Tokens, ReadTotal(x, a) PROVE PgTypeOK' /\ Serial'
  <2>1. CASE total[a] >= MaxCalls[a]
    BY <1>5, <2>1, EndStep DEF ReadTotal, Refuse
  <2>2. CASE ~(total[a] >= MaxCalls[a])
    <3>1. /\ pc[x] = "totals" /\ a \in Mine(x)
          /\ read' = [read EXCEPT ![x] = read[x] \cup {a}]
          /\ UNCHANGED <<rows, total, perScope, call, result, pc, locked>>
      BY <1>5, <2>2 DEF ReadTotal
    <3>2. PgTypeOK'
      BY <3>1 DEF PgTypeOK
    <3>3. Exclusive' /\ InOrder'
      BY <3>1 DEF Serial, Exclusive, InOrder, Mine
    <3>4. total[a] < MaxCalls[a]
      BY <2>2, CountersAssumption DEF PgTypeOK
    <3>5. ReadsHold'
      BY <3>1, <3>4 DEF Serial, ReadsHold, Mine, PgTypeOK
    <3> QED BY <3>1, <3>2, <3>3, <3>5 DEF Serial, Shape, Pending, WithinLimits
  <2> QED BY <2>1, <2>2
<1>6. ASSUME NEW x \in Callers, Abort(x) PROVE PgTypeOK' /\ Serial'
  BY <1>6, EndStep DEF Abort
<1>7. CASE UNCHANGED vars
  <2>1. UNCHANGED <<rows, total, perScope, call, result, pc, locked, read>>
    BY <1>7 DEF vars
  <2>2. PgTypeOK'
    BY <2>1 DEF PgTypeOK
  <2> QED BY <2>1, <2>2
          DEF Serial, Shape, Exclusive, InOrder, Pending, ReadsHold, WithinLimits, Mine
<1>8. CASE AllDone
  BY <1>7, <1>8 DEF AllDone
<1> QED BY <1>1, <1>2, <1>3, <1>4, <1>5, <1>6, <1>7, <1>8, CommitStep DEF PgNext, Step

\* The invariant holds from the start, whatever the transactions do.
THEOREM PgSerial == PgSpec => [](PgTypeOK /\ Serial)
<1>1. PgInit => PgTypeOK
  BY CountersAssumption DEF PgInit, Init, PgTypeOK, Results
<1>2. PgInit => Serial
  <2> SUFFICES ASSUME PgInit PROVE Serial
    OBVIOUS
  <2>1. /\ Shape /\ Exclusive /\ InOrder /\ Pending /\ ReadsHold
    BY DEF PgInit, Init, Shape, Exclusive, InOrder, Pending, ReadsHold
  <2>2. WithinLimits
    <3>1. \A t \in Tokens : total[t] = 0 /\ MaxCalls[t] \in Nat
      BY CountersAssumption DEF PgInit, Init
    <3>2. \A t \in Tokens : \A i \in DOMAIN ScopeLimits[t] :
             perScope[t][i] = 0 /\ ScopeLimits[t][i] \in Nat
      <4> TAKE t \in Tokens
      <4>1. ScopeLimits[t] \in Seq(Nat) /\ perScope[t] = [i \in DOMAIN ScopeLimits[t] |-> 0]
        BY CountersAssumption DEF PgInit, Init
      <4> QED BY <4>1
    <3>3. \A n \in Nat : 0 <= n
      OBVIOUS
    <3>4. \A t \in Tokens : \A i \in DOMAIN ScopeLimits[t] : perScope[t][i] <= ScopeLimits[t][i]
      BY <3>2, <3>3
    <3>5. \A t \in Tokens : total[t] <= MaxCalls[t]
      BY <3>1, <3>3
    <3> QED BY <3>4, <3>5 DEF WithinLimits
  <2> QED BY <2>1, <2>2 DEF Serial
<1>3. PgTypeOK /\ Serial /\ [PgNext]_vars => PgTypeOK' /\ Serial'
  BY PgStep
<1> QED BY <1>1, <1>2, <1>3, PTL DEF PgSpec

\* The store is always well typed.
THEOREM PgTypeCorrect == PgSpec => []PgTypeOK
BY PgSerial, PTL

\* No counter passes its limit, however the statements of any number of
\* concurrent transactions interleave, fail or lose the answer of a commit.
THEOREM LimitsKept == PgSpec => []WithinLimits
<1>1. Serial => WithinLimits
  BY DEF Serial
<1> QED BY <1>1, PgSerial, PTL

-----------------------------------------------------------------------------
(* Consume is atomic                                                       *)

\* A refusal maps to the refusal of Counters, if the call cannot be charged.
LEMMA RefuseRefines ==
    ASSUME PgTypeOK, Serial, NEW x \in Callers, pc[x] \in {"lock", "totals"}, Refuse(x),
           ~Chargeable(call[x].id, call[x].idx)
    PROVE  Consume(x)
<1>1. result[x] = "pending"
  BY DEF Serial, Pending
<1> QED BY <1>1 DEF Refuse, End, Consume

\* Every step of a transaction is a step of Counters or changes none of its
\* variables: a call is charged at its commit and refused where it is refused.
LEMMA StepRefines ==
    ASSUME PgTypeOK, Serial, [PgNext]_vars
    PROVE  [Next]_cvars
<1>1. ASSUME NEW t \in Tokens, InsertToken(t) PROVE Next
  BY <1>1 DEF InsertToken, Next
<1>2. ASSUME NEW x \in Callers, Begin(x) PROVE Next
  BY <1>2 DEF Begin, Next
<1>3. ASSUME NEW x \in Callers, NEW a \in Tokens, LockRow(x, a) PROVE [Next]_cvars
  <2>1. CASE a \notin rows
    <3>1. a \in Mine(x) /\ Refuse(x) /\ pc[x] = "lock"
      BY <1>3, <2>1 DEF LockRow, NextLocks
    <3>2. ~Chargeable(call[x].id, call[x].idx)
      BY <2>1, <3>1 DEF Chargeable, Mine
    <3> QED BY <3>1, <3>2, RefuseRefines DEF Next
  <2>2. CASE a \in rows
    BY <1>3, <2>2 DEF LockRow, cvars
  <2> QED BY <2>1, <2>2
<1>4. ASSUME NEW x \in Callers, ReadScope(x) PROVE [Next]_cvars
  <2> DEFINE t == call[x].id
             i == call[x].idx
             full == i \notin DOMAIN ScopeLimits[t] \/ perScope[t][i] >= ScopeLimits[t][i]
  <2>1. CASE full
    <3>1. Refuse(x) /\ pc[x] = "lock"
      BY <1>4, <2>1 DEF ReadScope
    <3>2. ~Chargeable(t, i)
      <4> SUFFICES ASSUME Chargeable(t, i) PROVE FALSE
        OBVIOUS
      <4>1. /\ i \in DOMAIN ScopeLimits[t] /\ perScope[t][i] < ScopeLimits[t][i]
            /\ perScope[t][i] >= ScopeLimits[t][i]
        BY <2>1 DEF Chargeable
      <4>2. /\ perScope[t] \in Seq(Nat) /\ ScopeLimits[t] \in Seq(Nat)
            /\ DOMAIN perScope[t] = DOMAIN ScopeLimits[t]
        BY MineType, CountersAssumption DEF PgTypeOK, Serial, Shape
      <4>3. perScope[t][i] \in Nat /\ ScopeLimits[t][i] \in Nat
        <5> HIDE DEF t, i
        <5> QED BY <4>1, <4>2
      <4> QED BY <4>1, <4>3
    <3> QED BY <3>1, <3>2, RefuseRefines DEF Next
  <2>2. CASE ~full
    BY <1>4, <2>2 DEF ReadScope, cvars
  <2> QED BY <2>1, <2>2
<1>5. ASSUME NEW x \in Callers, NEW a \in Tokens, ReadTotal(x, a) PROVE [Next]_cvars
  <2>1. CASE total[a] >= MaxCalls[a]
    <3>1. a \in Mine(x) /\ Refuse(x) /\ pc[x] = "totals"
      BY <1>5, <2>1 DEF ReadTotal
    <3>2. ~(total[a] < MaxCalls[a])
      BY <2>1, CountersAssumption DEF PgTypeOK
    <3>3. ~Chargeable(call[x].id, call[x].idx)
      BY <3>1, <3>2 DEF Chargeable, Mine
    <3> QED BY <3>1, <3>3, RefuseRefines DEF Next
  <2>2. CASE ~(total[a] >= MaxCalls[a])
    BY <1>5, <2>2 DEF ReadTotal, cvars
  <2> QED BY <2>1, <2>2
<1>6. ASSUME NEW x \in Callers, Commit(x) PROVE Next
  <2>1. pc[x] = "totals" /\ read[x] = Mine(x) /\ result[x] = "pending"
    BY <1>6 DEF Commit, Serial, Pending
  <2>2. /\ Mine(x) \subseteq rows /\ call[x].idx \in DOMAIN ScopeLimits[call[x].id]
        /\ perScope[call[x].id][call[x].idx] < ScopeLimits[call[x].id][call[x].idx]
        /\ \A a \in Mine(x) : total[a] < MaxCalls[a]
    BY <2>1 DEF Serial, ReadsHold, Exclusive
  <2>3. Chargeable(call[x].id, call[x].idx)
    BY <2>2 DEF Chargeable, Mine
  <2>4. Consume(x)
    BY <1>6, <2>1, <2>3 DEF Commit, End, Consume
  <2> QED BY <2>4 DEF Next
<1>7. ASSUME NEW x \in Callers, Abort(x) PROVE Next
  <2>1. Fail(x)
    BY <1>7 DEF Abort, End, Fail, Serial, Pending
  <2> QED BY <2>1 DEF Next
<1>8. CASE AllDone \/ UNCHANGED vars
  BY <1>8 DEF AllDone, vars, cvars
<1> QED BY <1>1, <1>2, <1>3, <1>4, <1>5, <1>6, <1>7, <1>8 DEF PgNext, Step

\* The transactions of Postgres implement the atomic Consume of the store
\* interface, for any number of tokens, generations and concurrent calls.
THEOREM PgImplements == PgSpec => RefinesCounters
<1>1. PgInit => Init
  BY DEF PgInit
<1>2. PgTypeOK /\ Serial /\ [PgNext]_vars => [Next]_cvars
  BY StepRefines
<1> QED BY <1>1, <1>2, PgSerial, PTL DEF PgSpec, Spec, RefinesCounters

-----------------------------------------------------------------------------
(* No circular wait                                                        *)

\* How many ids come after a.
After(a) == Cardinality({b \in Tokens : b > a})

\* Fewer ids come after a larger id.
LEMMA AfterShrinks ==
    ASSUME NEW a \in Tokens, NEW b \in Tokens, a < b
    PROVE  After(a) \in Nat /\ After(b) \in Nat /\ After(b) < After(a)
<1> DEFINE A == {c \in Tokens : c > a}
           B == {c \in Tokens : c > b}
<1>1. a \in Nat /\ b \in Nat /\ Tokens \subseteq Nat
  BY CountersAssumption
<1>2. B \subseteq A /\ b \in A /\ b \notin B
  <2>1. b > a /\ ~(b > b)
    BY <1>1
  <2>2. ASSUME NEW c \in Tokens, c > b PROVE c > a
    BY <1>1, <2>2
  <2> QED BY <2>1, <2>2
<1>3. IsFiniteSet(A)
  BY TableAssumption, FS_Subset
<1> HIDE DEF A, B
<1>4. /\ IsFiniteSet(B) /\ Cardinality(B) <= Cardinality(A)
      /\ Cardinality(B) = Cardinality(A) => B = A
  BY <1>2, <1>3, FS_Subset
<1>5. Cardinality(A) \in Nat /\ Cardinality(B) \in Nat
  BY <1>3, <1>4, FS_CardinalityType
<1>6. Cardinality(B) < Cardinality(A)
  BY <1>2, <1>4, <1>5
<1> QED BY <1>5, <1>6 DEF After, A, B

\* A nonempty set of tokens has a largest id.
LEMMA LargestToken ==
    ASSUME NEW N \in SUBSET Tokens, N # {}
    PROVE  \E a \in N : \A b \in N : ~(a < b)
<1> DEFINE M == {After(a) : a \in N}
           R == OpToRel(<, Nat)
<1>1. \A a \in Tokens : After(a) \in Nat
  <2> TAKE a \in Tokens
  <2>1. IsFiniteSet({b \in Tokens : b > a})
    BY TableAssumption, FS_Subset
  <2> QED BY <2>1, FS_CardinalityType DEF After
<1>2. M \subseteq Nat /\ M # {}
  BY <1>1
<1>3. \E i \in M : \A j \in M : ~(<<j, i>> \in R)
  <2>1. IsWellFoundedOn(R, Nat)
    BY NatLessThanWellFounded
  <2> HIDE DEF R, M
  <2> QED BY <1>2, <2>1, WFMin
<1>4. \A i, j \in Nat : j < i => <<j, i>> \in R
  BY Zenon DEF OpToRel
<1>5. PICK i \in M : \A j \in M : ~(<<j, i>> \in R)
  BY <1>3
<1>6. PICK a \in N : i = After(a)
  BY <1>5
<1>7. ASSUME NEW b \in N, a < b PROVE FALSE
  <2>1. After(b) < After(a) /\ After(a) \in Nat /\ After(b) \in Nat
    BY <1>7, AfterShrinks
  <2>2. <<After(b), After(a)>> \in R
    BY <1>4, <2>1
  <2>3. After(b) \in M
    OBVIOUS
  <2> QED BY <1>5, <1>6, <2>2, <2>3
<1> QED BY <1>7

\* Whoever holds the row that x waits for waits only for a larger id.
LEMMA WaitsUpward ==
    ASSUME PgTypeOK, Serial, NEW x \in Callers, NEW y \in Callers, NEW a, NEW b,
           a \in NextLocks(x), a \in locked[y], b \in NextLocks(y)
    PROVE  a < b
BY DEF Serial, InOrder, NextLocks

\* No set of transactions waits in a circle: the one that waits for the
\* largest id waits for none of the others.  For any number of siblings.
THEOREM NoDeadlock == PgSpec => []NoCircularWait
<1>1. PgTypeOK /\ Serial => NoCircularWait
  <2> SUFFICES ASSUME PgTypeOK, Serial, NEW W \in SUBSET Callers, W # {},
                      \A x \in W : \E y \in W \ {x} : WaitsFor(x, y)
               PROVE  FALSE
    BY Zenon DEF NoCircularWait
  <2> DEFINE N == {a \in Tokens : \E x \in W : a \in NextLocks(x)}
  <2>1. \A x \in W : \E y \in W : \E a \in N : a \in NextLocks(x) /\ a \in locked[y]
    <3> TAKE x \in W
    <3>1. PICK y \in W \ {x} : WaitsFor(x, y)
      OBVIOUS
    <3>2. PICK a \in NextLocks(x) : a \in locked[y]
      BY <3>1 DEF WaitsFor
    <3>3. a \in Tokens
      BY <3>2, MineType DEF NextLocks
    <3> QED BY <3>2, <3>3
  <2>2. N \in SUBSET Tokens /\ N # {}
    BY <2>1
  <2>3. PICK a \in N : \A b \in N : ~(a < b)
    BY <2>2, LargestToken
  <2>4. PICK x \in W : a \in NextLocks(x)
    BY <2>3
  <2>5. PICK y \in W, c \in N : c \in NextLocks(x) /\ c \in locked[y]
    BY <2>1
  <2>6. c = a
    <3>1. a \in Nat /\ c \in Nat
      BY CountersAssumption
    <3>2. a <= c /\ c <= a
      BY <2>4, <2>5 DEF NextLocks
    <3> QED BY <3>1, <3>2
  <2>7. PICK b \in N : b \in NextLocks(y)
    BY <2>1
  <2>8. a < b
    BY <2>4, <2>5, <2>6, <2>7, WaitsUpward
  <2> QED BY <2>3, <2>8
<1> QED BY <1>1, PgSerial, PTL

=============================================================================
