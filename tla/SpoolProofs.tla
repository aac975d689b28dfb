----------------------------- MODULE SpoolProofs -----------------------------
(***************************************************************************)
(* Proofs about Spool, for any number of records and crashes: type         *)
(* correctness; that nothing is lost while no write is torn but what a     *)
(* drain has not read (LostOnlyUnread); how much is lost otherwise         *)
(* (LossBounded); and that no record overtakes an earlier one while the    *)
(* disk does not fail (InOrder).                                           *)
(***************************************************************************)
EXTENDS Spool, FiniteSetTheorems, TLAPS

-----------------------------------------------------------------------------
(* Lines                                                                   *)

\* A line added at the end.
LEMMA LinesAppend ==
    ASSUME NEW S, NEW s \in Seq(S), NEW e \in S
    PROVE  /\ Append(s, e) \in Seq(S)
           /\ Lines(Append(s, e)) = Lines(s) \cup {e}
           /\ Len(Append(s, e)) = Len(s) + 1
           /\ \A i \in 1 .. Len(s) : Append(s, e)[i] = s[i]
           /\ Append(s, e)[Len(s) + 1] = e
<1>1. /\ Append(s, e) \in Seq(S) /\ Len(Append(s, e)) = Len(s) + 1 /\ Len(s) \in Nat
      /\ \A i \in 1 .. Len(s) : Append(s, e)[i] = s[i]
      /\ Append(s, e)[Len(s) + 1] = e
      /\ DOMAIN Append(s, e) = 1 .. Len(s) + 1 /\ DOMAIN s = 1 .. Len(s)
  OBVIOUS
<1>2. Lines(Append(s, e)) \subseteq Lines(s) \cup {e}
  BY <1>1 DEF Lines
<1>3. Lines(s) \cup {e} \subseteq Lines(Append(s, e))
  BY <1>1 DEF Lines
<1> QED BY <1>1, <1>2, <1>3

\* The first line taken off.
LEMMA LinesTail ==
    ASSUME NEW S, NEW s \in Seq(S), s # <<>>
    PROVE  /\ Head(s) \in S /\ Head(s) = s[1] /\ Tail(s) \in Seq(S)
           /\ Len(Tail(s)) = Len(s) - 1 /\ Len(s) \in Nat /\ Len(s) >= 1
           /\ \A i \in 1 .. Len(Tail(s)) : Tail(s)[i] = s[i + 1]
OBVIOUS

\* A line that Accept has stored is one the Ledger has; the others stay.
LEMMA AcceptStores ==
    ASSUME NEW r \in Records, sent \in Seq(Records), Accept(r)
    PROVE  sent' \in Seq(Records) /\ Lines(sent') = Lines(sent) \cup {r}
<1>1. CASE r \in Lines(sent)
  BY <1>1 DEF Accept
<1>2. CASE r \notin Lines(sent)
  BY <1>2, LinesAppend DEF Accept
<1> QED BY <1>1, <1>2

-----------------------------------------------------------------------------
(* Type correctness, and what a drain has in hand                          *)

\* How many lines of the file the drain is past.
Past == Len(file) - Len(drain.todo)

\* A drain goes through the file: the lines it is past are junk, delivered or
\* kept, and before its first failure it keeps none.
Draining ==
    drain.on =>
        /\ Past \in Nat
        /\ \A i \in 1 .. Len(drain.todo) : drain.todo[i] = file[Past + i]
        /\ \A i \in 1 .. Past :
              file[i] \in Lines(sent) \cup Lines(drain.kept) \cup drain.cut \cup {Corrupt}
        /\ Lines(drain.kept) \subseteq Lines(file) \ {Corrupt}
        /\ ~drain.failed => drain.kept = <<>>
        /\ drain.todo # <<>> => drain.cut = {}

\* A record gets to the file at the end of its call, to the Ledger after its
\* call has begun.
Placed ==
    /\ \A r \in Records : r \in Lines(file) => pc[r] \in {"nil", "error", "gone"}
    /\ \A r \in Records : r \in Lines(sent) => pc[r] # "idle"

Spooled == SpoolTypeOK /\ Draining /\ Placed

\* No drain is under way in NoDrain.
LEMMA NoDrainType == NoDrain \in Drain /\ ~NoDrain.on
BY DEF NoDrain, Drain

\* At the start the file is empty and nothing has been sent.
LEMMA SpooledInit == Init => Spooled
<1> SUFFICES ASSUME Init PROVE Spooled
  OBVIOUS
<1>1. SpoolTypeOK
  <2>1. /\ file \in Seq(Line) /\ sent \in Seq(Records) /\ drain \in Drain
        /\ crashes \in 0 .. MaxCrashes /\ unread \subseteq Records
    BY NoDrainType, SpoolAssumption DEF Init
  <2>2. torn \in BOOLEAN /\ open \in BOOLEAN /\ up \in BOOLEAN
    BY DEF Init
  <2>3. /\ pc \in [Records -> {"idle", "check", "send", "append", "nil", "error", "gone"}]
        /\ before \in [Records -> SUBSET Records]
    BY DEF Init
  <2> QED BY <2>1, <2>2, <2>3 DEF SpoolTypeOK
<1>2. Lines(file) = {} /\ Lines(sent) = {}
  BY DEF Init, Lines
<1>3. Draining /\ Placed
  BY <1>2, NoDrainType DEF Init, Draining, Placed
<1> QED BY <1>1, <1>3 DEF Spooled

\* What a step can do to the spool file and to the records the Ledger has: a
\* line is added, or the drain replaces the file by what it has kept.
LEMMA WriteLineType ==
    ASSUME SpoolTypeOK, NEW r \in Records
    PROVE  /\ WriteLine(r) \in Seq(Line)
           /\ torn => WriteLine(r) = file
           /\ ~torn => WriteLine(r) = Append(file, r)
           /\ Lines(file) \subseteq Lines(WriteLine(r)) /\ Lines(WriteLine(r)) \subseteq Lines(file) \cup {r}
BY LinesAppend DEF SpoolTypeOK, WriteLine, Line

\* Half a line leaves the lines before it.
LEMMA WriteHalfType ==
    ASSUME SpoolTypeOK, WriteHalf
    PROVE  /\ file' \in Seq(Line) /\ torn'
           /\ file' = file \/ file' = Append(file, Corrupt)
           /\ Lines(file) \subseteq Lines(file') /\ Lines(file') \subseteq Lines(file) \cup {Corrupt}
BY LinesAppend DEF SpoolTypeOK, WriteHalf, Line

\* A step of one call, with its place in the code.
LEMMA CallStep ==
    ASSUME Spooled, NEW r \in Records, NEW l, pc' = [pc EXCEPT ![r] = l],
           l \in {"check", "send", "append", "nil", "error"}
    PROVE  /\ pc' \in [Records -> {"idle", "check", "send", "append", "nil", "error", "gone"}]
           /\ pc'[r] = l /\ \A q \in Records \ {r} : pc'[q] = pc[q]
BY DEF Spooled, SpoolTypeOK

\* While the drain and the file stay, the Ledger may have more records.
LEMMA DrainingSame ==
    ASSUME Spooled, UNCHANGED <<file, drain>>, Lines(sent) \subseteq Lines(sent')
    PROVE  Draining'
BY DEF Spooled, Draining, Past

\* Delivered or not, a record that was sent may be one the Ledger has.
LEMMA SentBy ==
    ASSUME SpoolTypeOK, NEW r \in Records, Delivered(r) \/ Undelivered(r)
    PROVE  /\ sent' \in Seq(Records) /\ Lines(sent) \subseteq Lines(sent')
           /\ Lines(sent') \subseteq Lines(sent) \cup {r}
           /\ Delivered(r) => r \in Lines(sent')
           /\ sent' = sent \/ Accept(r)
BY AcceptStores DEF SpoolTypeOK, Delivered, Undelivered

\* A line taken off by the drain is delivered, kept or junk.
LEMMA SpooledLine == Spooled /\ DrainLine => Spooled'
<1> SUFFICES ASSUME Spooled, DrainLine PROVE Spooled'
  OBVIOUS
<1> DEFINE T == drain.todo
           K == drain.kept
<1>0. PICK e : e = Head(drain.todo)
  OBVIOUS
<1>1. /\ drain.on /\ T # <<>> /\ UNCHANGED <<file, torn, open, pc, before, up, unread, crashes>>
      /\ \/ /\ e = Corrupt /\ drain' = [drain EXCEPT !.todo = Tail(T)] /\ UNCHANGED sent
         \/ /\ e # Corrupt /\ drain.failed /\ UNCHANGED sent
            /\ drain' = [drain EXCEPT !.todo = Tail(T), !.kept = Append(K, e)]
         \/ /\ e # Corrupt /\ ~drain.failed /\ Delivered(e)
            /\ drain' = [drain EXCEPT !.todo = Tail(T)]
         \/ /\ e # Corrupt /\ ~drain.failed /\ Undelivered(e)
            /\ drain' = [drain EXCEPT !.todo = Tail(T), !.kept = Append(K, e), !.failed = TRUE]
  BY <1>0 DEF DrainLine, Spooled, SpoolTypeOK, Drain
<1>2. /\ T \in Seq(Line) /\ K \in Seq(Line) /\ file \in Seq(Line) /\ drain \in Drain
  BY DEF Spooled, SpoolTypeOK, Drain
<1>3. /\ e \in Line /\ e = T[1] /\ Tail(T) \in Seq(Line) /\ Len(Tail(T)) = Len(T) - 1
      /\ Len(T) \in Nat /\ Len(T) >= 1 /\ \A i \in 1 .. Len(Tail(T)) : Tail(T)[i] = T[i + 1]
  BY <1>0, <1>1, <1>2, LinesTail
<1>4. /\ Append(K, e) \in Seq(Line) /\ Lines(Append(K, e)) = Lines(K) \cup {e}
  BY <1>2, <1>3, LinesAppend
<1>5. /\ drain' \in Drain /\ drain'.on /\ drain'.todo = Tail(T) /\ drain'.cut = drain.cut
      /\ \/ drain'.kept = K /\ drain'.failed = drain.failed /\ (e = Corrupt \/ Delivered(e))
         \/ drain'.kept = Append(K, e) /\ drain'.failed /\ e # Corrupt
  <2>1. \/ drain' = [drain EXCEPT !.todo = Tail(T)] /\ (e = Corrupt \/ Delivered(e))
        \/ drain' = [drain EXCEPT !.todo = Tail(T), !.kept = Append(K, e)] /\ drain.failed /\ e # Corrupt
        \/ drain' = [drain EXCEPT !.todo = Tail(T), !.kept = Append(K, e), !.failed = TRUE] /\ e # Corrupt
    BY <1>1
  <2>2. drain.on = TRUE /\ drain.failed \in BOOLEAN
    BY <1>1, <1>2 DEF Drain
  <2> HIDE DEF T, K
  <2> QED BY <1>2, <1>3, <1>4, <2>1, <2>2 DEF Drain, T, K
<1>6. /\ sent' \in Seq(Records) /\ Lines(sent) \subseteq Lines(sent')
      /\ Delivered(e) /\ e # Corrupt => e \in Lines(sent')
      /\ Lines(sent') \subseteq Lines(sent) \cup ({e} \ {Corrupt})
  <2>1. CASE UNCHANGED sent
    <3>1. Delivered(e) /\ e # Corrupt => e \in Lines(sent')
      BY <1>3, SentBy DEF Spooled, Line
    <3> QED BY <2>1, <3>1 DEF Spooled, SpoolTypeOK
  <2>2. CASE e # Corrupt /\ (Delivered(e) \/ Undelivered(e))
    BY <1>3, <2>2, SentBy DEF Spooled, Line
  <2> QED BY <1>1, <2>1, <2>2
<1>7. SpoolTypeOK'
  BY <1>1, <1>5, <1>6 DEF Spooled, SpoolTypeOK
<1>8. Placed'
  <2>1. e \in Lines(file)
    <3>1. Past \in Nat /\ \A i \in 1 .. Len(T) : T[i] = file[Past + i]
      BY <1>1 DEF Spooled, Draining
    <3>2. 1 \in 1 .. Len(T) /\ Len(file) \in Nat
      BY <1>2, <1>3
    <3>3. Past = Len(file) - Len(T)
      BY DEF Past
    <3> HIDE DEF T
    <3>4. Past + 1 \in 1 .. Len(file) /\ e = file[Past + 1]
      BY <1>3, <3>1, <3>2, <3>3
    <3> QED BY <1>2, <3>4 DEF Lines
  <2> QED BY <1>1, <1>6, <2>1 DEF Spooled, Placed
<1>9. Draining'
  <2>1. PICK n : n = Past
    OBVIOUS
  <2>2. Past' = n + 1 /\ n \in Nat /\ n = Len(file) - Len(T) /\ Len(file) \in Nat
    <3>1. n = Len(file) - Len(T) /\ Past' = Len(file) - Len(Tail(T))
      BY <1>1, <1>5, <2>1 DEF Past
    <3>2. n \in Nat
      BY <1>1, <2>1 DEF Spooled, Draining
    <3>3. Len(file) \in Nat
      BY <1>2
    <3> HIDE DEF T
    <3> QED BY <1>3, <3>1, <3>2, <3>3
  <2>3. \A i \in 1 .. Len(T) : T[i] = file[n + i]
    BY <1>1, <2>1 DEF Spooled, Draining
  <2>4. \A i \in 1 .. Len(drain'.todo) : drain'.todo[i] = file[n + 1 + i]
    <3> SUFFICES ASSUME NEW i \in 1 .. Len(T) - 1 PROVE Tail(T)[i] = file[n + 1 + i]
      BY <1>3, <1>5
    <3>1. i + 1 \in 1 .. Len(T) /\ n + (i + 1) = n + 1 + i
      BY <1>3, <2>2
    <3>2. Tail(T)[i] = T[i + 1]
      BY <1>3
    <3> QED BY <2>3, <3>1, <3>2
  <2>5. e = file[n + 1] /\ n + 1 \in 1 .. Len(file)
    <3>1. 1 \in 1 .. Len(T)
      BY <1>3
    <3>2. T[1] = file[n + 1]
      BY <2>3, <3>1
    <3> HIDE DEF T
    <3> QED BY <1>3, <2>2, <3>2
  <2>6. Lines(K) \subseteq Lines(drain'.kept) /\ (e = Corrupt \/ e \in Lines(sent') \/ e \in Lines(drain'.kept))
    BY <1>4, <1>5, <1>6
  <2>7. \A i \in 1 .. n : file[i] \in Lines(sent) \cup Lines(K) \cup drain.cut \cup {Corrupt}
    BY <1>1, <2>1 DEF Spooled, Draining
  <2>8. \A i \in 1 .. n + 1 : file[i] \in Lines(sent') \cup Lines(drain'.kept) \cup drain'.cut \cup {Corrupt}
    <3> TAKE i \in 1 .. n + 1
    <3>1. i \in 1 .. n \/ i = n + 1
      BY <2>2
    <3> QED BY <1>5, <1>6, <2>5, <2>6, <2>7, <3>1
  <2>9. e \in Lines(file)
    BY <1>2, <2>5 DEF Lines
  <2>10. Lines(drain'.kept) \subseteq Lines(file) \ {Corrupt}
    BY <1>1, <1>4, <1>5, <2>9 DEF Spooled, Draining
  <2>11. (~drain'.failed => drain'.kept = <<>>) /\ drain'.cut = {}
    BY <1>1, <1>5 DEF Spooled, Draining
  <2>12. file' = file /\ n + 1 \in Nat
    BY <1>1, <2>2
  <2> QED BY <2>2, <2>4, <2>8, <2>10, <2>11, <2>12 DEF Draining
<1> QED BY <1>7, <1>8, <1>9 DEF Spooled

\* A scan that ends early takes what is left of the file for cut.
LEMMA SpooledStop == Spooled /\ DrainStop => Spooled'
<1> SUFFICES ASSUME Spooled, DrainStop PROVE Spooled'
  OBVIOUS
<1> DEFINE T == drain.todo
           C == Lines(T) \cap Records
<1>1. /\ drain.on /\ T # <<>> /\ drain' = [drain EXCEPT !.todo = <<>>, !.cut = C]
      /\ UNCHANGED <<file, torn, open, pc, before, up, sent, unread, crashes>>
  BY DEF DrainStop
<1>2. /\ T \in Seq(Line) /\ Len(T) \in Nat /\ DOMAIN T = 1 .. Len(T)
      /\ Len(file) \in Nat /\ drain \in Drain
  BY DEF Spooled, SpoolTypeOK, Drain
<1>3. /\ drain' \in Drain /\ drain'.on /\ drain'.todo = <<>> /\ drain'.kept = drain.kept
      /\ drain'.failed = drain.failed /\ drain'.cut = C
  <2>1. C \in SUBSET Records /\ <<>> \in Seq(Line)
    OBVIOUS
  <2> HIDE DEF C, T
  <2> QED BY <1>1, <1>2, <2>1 DEF Drain
<1>4. SpoolTypeOK' /\ Placed'
  BY <1>1, <1>3 DEF Spooled, SpoolTypeOK, Placed
<1>5. PICK n : n = Past
  OBVIOUS
<1>6. /\ n \in Nat /\ n = Len(file) - Len(T)
      /\ \A i \in 1 .. Len(T) : T[i] = file[n + i]
      /\ \A i \in 1 .. n : file[i] \in Lines(sent) \cup Lines(drain.kept) \cup drain.cut \cup {Corrupt}
      /\ drain.cut = {}
  BY <1>1, <1>5 DEF Spooled, Draining, Past
<1>7. \A i \in 1 .. Len(file) : file[i] \in Lines(sent) \cup Lines(drain.kept) \cup C \cup {Corrupt}
  <2>1. \A j \in 1 .. Len(T) : T[j] \in C \cup {Corrupt}
    <3> TAKE j \in 1 .. Len(T)
    <3>1. T[j] \in Lines(T) /\ T[j] \in Line
      BY <1>2 DEF Lines
    <3> QED BY <3>1 DEF Line
  <2> HIDE DEF T, C
  <2>2. ASSUME NEW i \in 1 .. Len(file), i > n
        PROVE  i - n \in 1 .. Len(T) /\ file[i] = T[i - n]
    <3>1. i - n \in 1 .. Len(T) /\ n + (i - n) = i
      BY <1>2, <1>6, <2>2
    <3> QED BY <1>6, <3>1
  <2>3. ASSUME NEW i \in 1 .. Len(file), i <= n PROVE i \in 1 .. n
    BY <1>2, <1>6, <2>3
  <2>4. \A i \in 1 .. Len(file) : i > n \/ i <= n
    BY <1>2, <1>6
  <2> QED BY <1>6, <2>1, <2>2, <2>3, <2>4
<1>8. Past' = Len(file)
  BY <1>1, <1>2, <1>3 DEF Past
<1>9. Draining'
  <2>1. /\ Past' \in Nat
        /\ \A i \in 1 .. Len(drain'.todo) : drain'.todo[i] = file'[Past' + i]
    BY <1>2, <1>3, <1>8
  <2>2. \A i \in 1 .. Past' : file'[i] \in Lines(sent') \cup Lines(drain'.kept) \cup drain'.cut \cup {Corrupt}
    BY <1>1, <1>3, <1>7, <1>8
  <2>3. Lines(drain'.kept) \subseteq Lines(file') \ {Corrupt} /\ (~drain'.failed => drain'.kept = <<>>)
    BY <1>1, <1>3 DEF Spooled, Draining
  <2> QED BY <1>3, <2>1, <2>2, <2>3 DEF Draining
<1> QED BY <1>4, <1>9 DEF Spooled

\* The file gets a line at its end while no drain is under way.
LEMMA SpooledAppend == ASSUME Spooled, NEW r \in Records, append(r) PROVE Spooled'
<1>1. /\ pc[r] = "append" /\ ~drain.on /\ UNCHANGED <<open, before, drain, up, sent, unread, crashes>>
  BY DEF append, Unlocked
<1>2. PICK l \in {"nil", "error"} : pc' = [pc EXCEPT ![r] = l]
  BY DEF append
<1>3. /\ pc' \in [Records -> {"idle", "check", "send", "append", "nil", "error", "gone"}]
      /\ pc'[r] \in {"nil", "error"} /\ \A q \in Records \ {r} : pc'[q] = pc[q]
  BY <1>2, CallStep
<1>4. file' \in Seq(Line) /\ torn' \in BOOLEAN /\ Lines(file') \subseteq Lines(file) \cup {r, Corrupt}
  <2>1. CASE UNCHANGED <<file, torn>>
    BY <2>1 DEF Spooled, SpoolTypeOK
  <2>2. CASE file' = WriteLine(r) /\ torn' = FALSE
    BY <2>2, WriteLineType DEF Spooled
  <2>3. CASE WriteHalf
    BY <2>3, WriteHalfType DEF Spooled, WriteHalf
  <2> QED BY <2>1, <2>2, <2>3 DEF append
<1>5. SpoolTypeOK'
  BY <1>1, <1>3, <1>4 DEF Spooled, SpoolTypeOK
<1>6. Placed'
  BY <1>1, <1>3, <1>4, SpoolAssumption DEF Spooled, Placed
<1>7. Draining'
  BY <1>1 DEF Draining
<1> QED BY <1>5, <1>6, <1>7 DEF Spooled

\* A crash leaves the file as it is, or with one line more.
LEMMA SpooledCrash == Spooled /\ Crash => Spooled'
<1> SUFFICES ASSUME Spooled, Crash PROVE Spooled'
  OBVIOUS
<1>1. /\ drain' = NoDrain /\ open' = TRUE /\ UNCHANGED <<before, up, sent, unread>>
      /\ crashes < MaxCrashes /\ crashes' = crashes + 1
  BY DEF Crash
<1>2. /\ pc' \in [Records -> {"idle", "check", "send", "append", "nil", "error", "gone"}]
      /\ \A q \in Records : IF pc[q] \in {"check", "send", "append"} THEN pc'[q] = "gone" ELSE pc'[q] = pc[q]
  BY DEF Crash, Spooled, SpoolTypeOK
<1>3. /\ file' \in Seq(Line) /\ torn' \in BOOLEAN
      /\ \A q \in Records : q \in Lines(file') => q \in Lines(file) \/ pc[q] = "append"
  <2>1. CASE UNCHANGED <<file, torn>>
    BY <2>1 DEF Spooled, SpoolTypeOK
  <2>2. CASE \E r \in Records : pc[r] = "append" /\ file' = WriteLine(r) /\ torn' = FALSE
    BY <2>2, WriteLineType DEF Spooled
  <2>3. CASE WriteHalf
    BY <2>3, WriteHalfType, SpoolAssumption DEF Spooled, WriteHalf
  <2> QED BY <2>1, <2>2, <2>3 DEF Crash
<1>4. SpoolTypeOK'
  BY <1>1, <1>2, <1>3, NoDrainType, SpoolAssumption DEF Spooled, SpoolTypeOK
<1>5. Placed'
  BY <1>1, <1>2, <1>3 DEF Spooled, Placed
<1>6. Draining'
  BY <1>1, NoDrainType DEF Draining
<1> QED BY <1>4, <1>5, <1>6 DEF Spooled

\* Every step keeps the invariant.
LEMMA SpooledStep == Spooled /\ [Next]_vars => Spooled'
<1> SUFFICES ASSUME Spooled, [Next]_vars PROVE Spooled'
  OBVIOUS
<1>1. ASSUME NEW r \in Records, Call(r) PROVE Spooled'
  <2>1. /\ pc' \in [Records -> {"idle", "check", "send", "append", "nil", "error", "gone"}]
        /\ pc[r] = "idle" /\ pc'[r] = "check" /\ \A q \in Records \ {r} : pc'[q] = pc[q]
    BY <1>1, CallStep DEF Call
  <2>2. before' \in [Records -> SUBSET Records]
    BY <1>1 DEF Call, Spooled, SpoolTypeOK
  <2>3. UNCHANGED <<file, torn, open, drain, up, sent, unread, crashes>>
    BY <1>1 DEF Call
  <2>4. SpoolTypeOK' /\ Placed'
    BY <2>1, <2>2, <2>3 DEF Spooled, SpoolTypeOK, Placed
  <2> QED BY <2>3, <2>4, DrainingSame DEF Spooled
<1>2. ASSUME NEW r \in Records, Backlog(r) PROVE Spooled'
  <2>1. PICK l \in {"append", "send"} : pc' = [pc EXCEPT ![r] = l]
    BY <1>2 DEF Backlog
  <2>2. /\ pc' \in [Records -> {"idle", "check", "send", "append", "nil", "error", "gone"}]
        /\ pc[r] = "check" /\ pc'[r] = l /\ \A q \in Records \ {r} : pc'[q] = pc[q]
    BY <1>2, <2>1, CallStep DEF Backlog
  <2>3. UNCHANGED <<file, torn, open, before, drain, up, sent, unread, crashes>>
    BY <1>2 DEF Backlog
  <2>4. SpoolTypeOK' /\ Placed'
    BY <2>2, <2>3 DEF Spooled, SpoolTypeOK, Placed
  <2> QED BY <2>3, <2>4, DrainingSame DEF Spooled
<1>3. ASSUME NEW r \in Records, Send(r) PROVE Spooled'
  <2>1. PICK l \in {"append", "nil"} : pc' = [pc EXCEPT ![r] = l]
    BY <1>3 DEF Send
  <2>2. /\ pc' \in [Records -> {"idle", "check", "send", "append", "nil", "error", "gone"}]
        /\ pc[r] = "send" /\ pc'[r] = l /\ \A q \in Records \ {r} : pc'[q] = pc[q]
    BY <1>3, <2>1, CallStep DEF Send
  <2>3. UNCHANGED <<file, torn, open, before, drain, up, unread, crashes>>
    BY <1>3 DEF Send
  <2>4. /\ sent' \in Seq(Records) /\ Lines(sent) \subseteq Lines(sent')
        /\ Lines(sent') \subseteq Lines(sent) \cup {r}
    BY <1>3, SentBy DEF Send, Spooled
  <2>5. SpoolTypeOK' /\ Placed'
    BY <2>2, <2>3, <2>4 DEF Spooled, SpoolTypeOK, Placed
  <2> QED BY <2>3, <2>4, <2>5, DrainingSame DEF Spooled
<1>4. ASSUME NEW r \in Records, append(r) PROVE Spooled'
  BY <1>4, SpooledAppend
<1>5. ASSUME DrainBegin PROVE Spooled'
  <2>1. /\ drain' = [on |-> TRUE, todo |-> file, kept |-> <<>>, failed |-> FALSE, cut |-> {}]
        /\ UNCHANGED <<file, torn, open, pc, before, up, sent, unread, crashes>>
    BY <1>5 DEF DrainBegin
  <2>2. file \in Seq(Line) /\ Len(file) \in Nat
    BY DEF Spooled, SpoolTypeOK
  <2>3. drain' \in Drain /\ drain'.todo = file /\ drain'.kept = <<>> /\ drain'.cut = {}
    BY <2>1, <2>2 DEF Drain
  <2>4. SpoolTypeOK' /\ Placed'
    BY <2>1, <2>3 DEF Spooled, SpoolTypeOK, Placed
  <2>5. Past' = 0
    BY <2>1, <2>2, <2>3 DEF Past
  <2>6. Lines(<<>>) = {}
    BY DEF Lines
  <2>7. \A i \in 1 .. Len(file) : 0 + i = i
    BY <2>2
  <2>8. Draining'
    BY <2>1, <2>2, <2>3, <2>5, <2>6, <2>7 DEF Draining
  <2> QED BY <2>4, <2>8 DEF Spooled
<1>6. ASSUME DrainLine PROVE Spooled'
  BY <1>6, SpooledLine
<1>7. ASSUME DrainEnd PROVE Spooled'
  <2>1. /\ drain.on /\ drain' = NoDrain /\ file' \in {file, drain.kept}
        /\ torn' \in BOOLEAN /\ open' \in BOOLEAN /\ UNCHANGED <<pc, before, up, sent, crashes>>
        /\ unread' \subseteq Records
    BY <1>7 DEF DrainEnd, Rewritten, Spooled, SpoolTypeOK, Drain
  <2>2. drain.kept \in Seq(Line) /\ Lines(drain.kept) \subseteq Lines(file)
    BY <2>1 DEF Spooled, SpoolTypeOK, Drain, Draining
  <2>3. SpoolTypeOK' /\ Placed'
    BY <2>1, <2>2, NoDrainType DEF Spooled, SpoolTypeOK, Placed
  <2>4. Draining'
    BY <2>1, NoDrainType DEF Draining
  <2> QED BY <2>3, <2>4 DEF Spooled
<1>8. ASSUME LedgerUp \/ LedgerDown PROVE Spooled'
  <2>1. UNCHANGED <<file, torn, open, pc, before, drain, sent, unread, crashes>> /\ up' \in BOOLEAN
    BY <1>8 DEF LedgerUp, LedgerDown
  <2>2. SpoolTypeOK' /\ Placed'
    BY <2>1 DEF Spooled, SpoolTypeOK, Placed
  <2> QED BY <2>1, <2>2, DrainingSame DEF Spooled
<1>9. ASSUME Crash PROVE Spooled'
  BY <1>9, SpooledCrash
<1>10. ASSUME DrainStop PROVE Spooled'
  BY <1>10, SpooledStop
<1>11. ASSUME UNCHANGED vars PROVE Spooled'
  <2>1. SpoolTypeOK' /\ Placed'
    BY <1>11 DEF vars, Spooled, SpoolTypeOK, Placed
  <2> QED BY <1>11, <2>1, DrainingSame DEF vars, Spooled
<1> QED BY <1>1, <1>2, <1>3, <1>4, <1>5, <1>6, <1>7, <1>8, <1>9, <1>10, <1>11 DEF Next

\* A drain goes through the file in order and knows what it has not read.
THEOREM AllSpooled == Spec => []Spooled
BY SpooledInit, SpooledStep, PTL DEF Spec

\* The spool file, the drain and the calls keep their shape, whatever the disk,
\* the Ledger and crashes do.
THEOREM SpoolTypeCorrect == Spec => []SpoolTypeOK
<1>1. Spooled => SpoolTypeOK
  BY DEF Spooled
<1> QED BY <1>1, AllSpooled, PTL

-----------------------------------------------------------------------------
(* Loss                                                                    *)

\* A finished drain has every record of the file in hand, has delivered
\* it or has not read it.
LEMMA DrainKeeps ==
    ASSUME Spooled, drain.on, drain.todo = <<>>, NEW r \in Records, r \in Lines(file)
    PROVE  r \in Lines(sent) \cup Lines(drain.kept) \cup drain.cut
<1>1. Past = Len(file) /\ DOMAIN file = 1 .. Len(file)
  BY DEF Spooled, SpoolTypeOK, Past
<1>2. PICK i \in 1 .. Len(file) : r = file[i]
  BY <1>1 DEF Lines
<1> QED BY <1>1, <1>2, SpoolAssumption DEF Spooled, Draining

\* What a step can lose, and at what price: a call that returns nil may lose
\* its record only to an unterminated line, which is no more after that, and
\* only a crash or a call that returns an error leaves an unterminated line.
LEMMA LossStep ==
    ASSUME Spooled, [Next]_vars
    PROVE  /\ \/ Lost' \subseteq Lost /\ (torn' => torn) /\ Errors' = Errors
              \/ \E r \in Records : Lost' \subseteq Lost \cup {r} /\ torn /\ ~torn' /\ Errors' = Errors
              \/ /\ Lost' \subseteq Lost /\ (torn' => torn \/ TornWrites)
                 /\ \E r \in Records : r \notin Errors /\ Errors' = Errors \cup {r}
              \/ /\ Lost' \subseteq Lost /\ (torn' => torn \/ TornWrites)
                 /\ crashes' = crashes + 1 /\ Errors' = Errors
           /\ crashes' \in {crashes, crashes + 1}
<1>0. DOMAIN pc = Records
  BY DEF Spooled, SpoolTypeOK
<1>1. ASSUME UNCHANGED <<file, torn, sent, unread, crashes>>, NEW r \in Records, NEW l, l \notin {"nil", "error"},
             pc[r] \notin {"nil", "error"}, pc' = [pc EXCEPT ![r] = l]
      PROVE  Lost' = Lost /\ Errors' = Errors
  BY <1>0, <1>1 DEF Lost, Errors
<1>2. ASSUME NEW r \in Records, Call(r) PROVE Lost' = Lost /\ Errors' = Errors /\ UNCHANGED <<torn, crashes>>
  BY <1>1, <1>2 DEF Call
<1>3. ASSUME NEW r \in Records, Backlog(r) PROVE Lost' = Lost /\ Errors' = Errors /\ UNCHANGED <<torn, crashes>>
  <2>1. PICK l \in {"append", "send"} : pc' = [pc EXCEPT ![r] = l]
    BY <1>3 DEF Backlog
  <2> QED BY <1>1, <1>3, <2>1 DEF Backlog
<1>4. ASSUME NEW r \in Records, Send(r)
      PROVE  Lost' \subseteq Lost /\ Errors' = Errors /\ UNCHANGED <<torn, crashes>>
  <2>1. /\ Lines(sent) \subseteq Lines(sent') /\ (Delivered(r) => r \in Lines(sent'))
    BY <1>4, SentBy DEF Send, Spooled
  <2>2. /\ pc[r] = "send" /\ UNCHANGED <<file, torn, unread, crashes>>
        /\ \/ Delivered(r) /\ pc' = [pc EXCEPT ![r] = "nil"]
           \/ pc' = [pc EXCEPT ![r] = "append"]
    BY <1>4 DEF Send
  <2>3. Errors' = Errors
    BY <1>0, <2>2 DEF Errors
  <2>4. Lost' \subseteq Lost
    BY <1>0, <2>1, <2>2 DEF Lost
  <2> QED BY <2>2, <2>3, <2>4
<1>5. ASSUME NEW r \in Records, append(r)
      PROVE  /\ UNCHANGED crashes
             /\ \/ Lost' \subseteq Lost /\ (torn' => torn) /\ Errors' = Errors
                \/ Lost' \subseteq Lost \cup {r} /\ torn /\ ~torn' /\ Errors' = Errors
                \/ /\ Lost' \subseteq Lost /\ (torn' => torn \/ TornWrites)
                   /\ r \notin Errors /\ Errors' = Errors \cup {r}
  <2>1. pc[r] = "append" /\ UNCHANGED <<sent, unread, crashes>> /\ r \notin Errors
    BY <1>5 DEF append, Errors
  <2>2. Lines(file) \subseteq Lines(WriteLine(r)) /\ (~torn => r \in Lines(WriteLine(r)))
    <3>1. r \in Line /\ file \in Seq(Line)
      BY DEF Line, Spooled, SpoolTypeOK
    <3>2. Lines(Append(file, r)) = Lines(file) \cup {r}
      BY <3>1, LinesAppend
    <3>3. WriteLine(r) = IF torn THEN file ELSE Append(file, r)
      BY DEF WriteLine
    <3> QED BY <3>2, <3>3
  <2>3. CASE file' = WriteLine(r) /\ torn' = FALSE /\ pc' = [pc EXCEPT ![r] = "nil"]
    <3>1. Errors' = Errors
      BY <1>0, <2>1, <2>3 DEF Errors
    <3>2. Lost' \subseteq Lost \cup {r} /\ (~torn => Lost' \subseteq Lost)
      BY <1>0, <2>1, <2>2, <2>3 DEF Lost
    <3> QED BY <2>1, <2>3, <3>1, <3>2
  <2>4. CASE /\ pc' = [pc EXCEPT ![r] = "error"]
             /\ Lines(file) \subseteq Lines(file') /\ (torn' => torn \/ TornWrites)
    <3>1. Errors' = Errors \cup {r}
      BY <1>0, <2>1, <2>4 DEF Errors
    <3>2. Lost' \subseteq Lost
      BY <1>0, <2>1, <2>4 DEF Lost
    <3> QED BY <2>1, <2>4, <3>1, <3>2
  <2>5. CASE UNCHANGED <<file, torn>> /\ pc' = [pc EXCEPT ![r] = "error"]
    BY <2>4, <2>5
  <2>6. CASE file' = WriteLine(r) /\ torn' = FALSE /\ pc' = [pc EXCEPT ![r] = "error"]
    BY <2>2, <2>4, <2>6
  <2>7. CASE TornWrites /\ WriteHalf /\ pc' = [pc EXCEPT ![r] = "error"]
    <3>1. Lines(file) \subseteq Lines(file')
      BY <2>7, WriteHalfType DEF Spooled
    <3> QED BY <2>4, <2>7, <3>1
  <2>8. \/ file' = WriteLine(r) /\ torn' = FALSE /\ pc' = [pc EXCEPT ![r] = "nil"]
        \/ UNCHANGED <<file, torn>> /\ pc' = [pc EXCEPT ![r] = "error"]
        \/ file' = WriteLine(r) /\ torn' = FALSE /\ pc' = [pc EXCEPT ![r] = "error"]
        \/ TornWrites /\ WriteHalf /\ pc' = [pc EXCEPT ![r] = "error"]
    BY <1>5 DEF append
  <2> QED BY <2>3, <2>5, <2>6, <2>7, <2>8
<1>6. ASSUME DrainLine PROVE Lost' \subseteq Lost /\ Errors' = Errors /\ UNCHANGED <<torn, crashes>>
  <2>1. UNCHANGED <<file, torn, pc, unread, crashes>>
    BY <1>6 DEF DrainLine
  <2>2. Lines(sent) \subseteq Lines(sent')
    <3>1. CASE UNCHANGED sent
      BY <3>1
    <3>2. CASE ~UNCHANGED sent
      <4>1. /\ drain.todo # <<>> /\ Head(drain.todo) # Corrupt
            /\ Delivered(Head(drain.todo)) \/ Undelivered(Head(drain.todo))
        BY <1>6, <3>2 DEF DrainLine
      <4>2. Head(drain.todo) \in Records
        BY <4>1, LinesTail DEF Spooled, SpoolTypeOK, Drain, Line
      <4> QED BY <4>1, <4>2, SentBy DEF Spooled
    <3> QED BY <3>1, <3>2
  <2> QED BY <2>1, <2>2 DEF Lost, Errors
<1>7. ASSUME DrainEnd PROVE Lost' \subseteq Lost /\ Errors' = Errors /\ UNCHANGED crashes /\ (torn' => torn)
  <2>1. /\ drain.on /\ drain.todo = <<>> /\ UNCHANGED <<pc, sent, crashes>>
        /\ \/ file' = drain.kept /\ unread' = unread \cup drain.cut
           \/ UNCHANGED <<file, unread>>
        /\ torn' => torn
    BY <1>7 DEF DrainEnd, Rewritten
  <2>2. \A r \in Records : r \in Lines(file) \cup unread => r \in Lines(sent) \cup Lines(file') \cup unread'
    BY <2>1, DrainKeeps
  <2> QED BY <2>1, <2>2 DEF Lost, Errors
<1>8. ASSUME Crash
      PROVE  /\ Lost' \subseteq Lost /\ (torn' => torn \/ TornWrites)
             /\ crashes' = crashes + 1 /\ Errors' = Errors
  <2>1. crashes' = crashes + 1 /\ UNCHANGED <<sent, unread>>
    BY <1>8 DEF Crash
  <2>2. \A q \in Records : IF pc[q] \in {"check", "send", "append"} THEN pc'[q] = "gone" ELSE pc'[q] = pc[q]
    BY <1>8 DEF Crash
  <2>3. Lines(file) \subseteq Lines(file') /\ (torn' => torn \/ TornWrites)
    BY <1>8, WriteLineType, WriteHalfType DEF Crash, Spooled
  <2> QED BY <2>1, <2>2, <2>3 DEF Lost, Errors
<1>9. ASSUME DrainBegin \/ DrainStop \/ LedgerUp \/ LedgerDown \/ UNCHANGED vars
      PROVE  Lost' = Lost /\ Errors' = Errors /\ UNCHANGED <<torn, crashes>>
  <2>1. UNCHANGED <<file, torn, pc, sent, unread, crashes>>
    BY <1>9 DEF DrainBegin, DrainStop, LedgerUp, LedgerDown, vars
  <2> QED BY <2>1 DEF Lost, Errors
<1>10. CASE \E r \in Records : Call(r) \/ Backlog(r) \/ Send(r)
  BY <1>2, <1>3, <1>4, <1>10
<1>11. CASE \E r \in Records : append(r)
  BY <1>5, <1>11
<1> QED BY <1>6, <1>7, <1>8, <1>9, <1>10, <1>11 DEF Next

\* LostOnlyUnread: as long as the disk writes a line whole or not at all, a
\* record whose call returned nil is lost only to a drain whose scan has ended
\* before it, whatever the Ledger, other disk faults and crashes do.
THEOREM OnlyUnreadLost == ~TornWrites => (Spec => []LostOnlyUnread)
<1> SUFFICES ASSUME ~TornWrites PROVE Spec => []LostOnlyUnread
  OBVIOUS
<1> DEFINE I == LostOnlyUnread /\ ~torn
<1>1. Init => I
  BY DEF Init, Lost, LostOnlyUnread
<1>2. Spooled /\ I /\ [Next]_vars => I'
  BY LossStep DEF LostOnlyUnread
<1>3. I => LostOnlyUnread
  OBVIOUS
<1> HIDE DEF I
<1> QED BY <1>1, <1>2, <1>3, AllSpooled, PTL DEF Spec

\* Nothing is left unread where a scan reads to the end of the file.
Scanned == unread = {} /\ drain.cut = {}

\* A drain that reads every line has nothing cut off.
LEMMA ScannedStep == ~ShortScans /\ SpoolTypeOK /\ Scanned /\ [Next]_vars => Scanned'
<1> SUFFICES ASSUME ~ShortScans, SpoolTypeOK, Scanned, [Next]_vars PROVE Scanned'
  OBVIOUS
<1>0. drain \in Drain /\ NoDrain.cut = {}
  BY DEF SpoolTypeOK, NoDrain
<1>1. CASE DrainLine
  <2>1. UNCHANGED unread
    BY <1>1 DEF DrainLine
  <2>2. PICK d : d = [drain EXCEPT !.todo = Tail(drain.todo)]
    OBVIOUS
  <2>3. PICK e : e = Head(drain.todo)
    OBVIOUS
  <2>4. \/ drain' = d
        \/ drain' = [d EXCEPT !.kept = Append(@, e)]
        \/ drain' = [d EXCEPT !.kept = Append(@, e), !.failed = TRUE]
    BY <1>1, <2>2, <2>3 DEF DrainLine
  <2>5. drain'.cut = drain.cut
    BY <1>0, <2>2, <2>4 DEF Drain
  <2> QED BY <2>1, <2>5 DEF Scanned
<1>2. CASE DrainBegin
  BY <1>2 DEF DrainBegin, Scanned
<1>3. CASE DrainEnd
  BY <1>0, <1>3 DEF DrainEnd, Rewritten, Scanned
<1>4. CASE Crash
  BY <1>0, <1>4 DEF Crash, Scanned
<1>5. CASE \E r \in Records : Call(r) \/ Backlog(r) \/ Send(r) \/ append(r)
  BY <1>5 DEF Call, Backlog, Send, append, Scanned
<1>6. CASE LedgerUp \/ LedgerDown \/ UNCHANGED vars
  BY <1>6 DEF LedgerUp, LedgerDown, vars, Scanned
<1>7. ~DrainStop
  BY DEF DrainStop
<1> QED BY <1>1, <1>2, <1>3, <1>4, <1>5, <1>6, <1>7 DEF Next

\* "The caller's write is never lost, only delayed" (NothingLost), as long as
\* the disk writes a line whole or not at all and every scan of the spool reads
\* it to its end.  Without either hypothesis it is false.
THEOREM NeverLost == ~TornWrites /\ ~ShortScans => (Spec => []NothingLost)
<1> SUFFICES ASSUME ~TornWrites, ~ShortScans PROVE Spec => []NothingLost
  OBVIOUS
<1>1. Init => Scanned
  BY DEF Init, NoDrain, Scanned
<1>2. Scanned /\ LostOnlyUnread => NothingLost
  BY DEF Scanned, LostOnlyUnread, Lost, NothingLost
<1>3. Spec => []Scanned
  BY <1>1, ScannedStep, SpoolTypeCorrect, PTL DEF Spec
<1> QED BY <1>2, <1>3, OnlyUnreadLost, PTL

\* What is lost, and the line that is about to take a record with it, have been
\* paid for with crashes and errors.
Paid ==
    /\ IsFiniteSet(Lost) /\ IsFiniteSet(Errors)
    /\ Cardinality(Lost) + (IF torn THEN 1 ELSE 0) <= crashes + Cardinality(Errors)

\* A smaller set, and one with one more element.
LEMMA Smaller ==
    ASSUME NEW S, NEW T, IsFiniteSet(S), T \subseteq S
    PROVE  IsFiniteSet(T) /\ Cardinality(T) \in Nat /\ Cardinality(S) \in Nat /\ Cardinality(T) <= Cardinality(S)
BY FS_Subset, FS_CardinalityType

\* One element more adds at most one to the size of a set.
LEMMA OneMore ==
    ASSUME NEW S, NEW r, IsFiniteSet(S)
    PROVE  /\ IsFiniteSet(S \cup {r}) /\ Cardinality(S) \in Nat
           /\ Cardinality(S \cup {r}) <= Cardinality(S) + 1
           /\ r \notin S => Cardinality(S \cup {r}) = Cardinality(S) + 1
<1>1. Cardinality(S) \in Nat
  BY FS_CardinalityType
<1>2. /\ IsFiniteSet(S \cup {r})
      /\ Cardinality(S \cup {r}) = IF r \in S THEN Cardinality(S) ELSE Cardinality(S) + 1
  <2>1. CASE r \in S
    <3>1. S \cup {r} = S
      BY <2>1
    <3> QED BY <2>1, <3>1
  <2>2. CASE r \notin S
    BY <2>2, FS_AddElement
  <2> QED BY <2>1, <2>2
<1> QED BY <1>1, <1>2

\* Every step that loses a record is paid for by a crash or an error.
LEMMA PaidStep ==
    ASSUME Spooled, Paid, [Next]_vars
    PROVE  Paid'
<1> DEFINE t == IF torn THEN 1 ELSE 0
           t2 == IF torn' THEN 1 ELSE 0
           L == Lost
           L2 == Lost'
           E == Errors
           E2 == Errors'
<1>1. IsFiniteSet(L) /\ IsFiniteSet(E) /\ Cardinality(L) + t <= crashes + Cardinality(E)
  BY DEF Paid
<1>2. t \in {0, 1} /\ t2 \in {0, 1} /\ crashes \in Nat /\ crashes' \in {crashes, crashes + 1}
  BY LossStep DEF Spooled, SpoolTypeOK
<1>3. Cardinality(L) \in Nat /\ Cardinality(E) \in Nat
  BY <1>1, FS_CardinalityType
<1>4. SUFFICES /\ IsFiniteSet(L2) /\ IsFiniteSet(E2)
               /\ Cardinality(L2) + t2 <= crashes' + Cardinality(E2)
  BY DEF Paid
<1>5. CASE L2 \subseteq L /\ (torn' => torn) /\ E2 = E
  <2>1. IsFiniteSet(L2) /\ Cardinality(L2) \in Nat /\ Cardinality(L2) <= Cardinality(L)
    BY <1>1, <1>5, Smaller
  <2>2. t2 <= t
    BY <1>5
  <2> HIDE DEF t, t2, L, L2, E, E2
  <2> QED BY <1>1, <1>2, <1>3, <1>5, <2>1, <2>2
<1>6. CASE \E r \in Records : L2 \subseteq L \cup {r} /\ torn /\ ~torn' /\ E2 = E
  <2>1. PICK r \in Records : L2 \subseteq L \cup {r}
    BY <1>6
  <2>2. IsFiniteSet(L \cup {r}) /\ Cardinality(L \cup {r}) <= Cardinality(L) + 1
    BY <1>1, OneMore
  <2>3. /\ IsFiniteSet(L2) /\ Cardinality(L2) \in Nat /\ Cardinality(L \cup {r}) \in Nat
        /\ Cardinality(L2) <= Cardinality(L \cup {r})
    BY <2>1, <2>2, Smaller
  <2>4. t = 1 /\ t2 = 0 /\ E2 = E
    BY <1>6
  <2> HIDE DEF t, t2, L, L2, E, E2
  <2> QED BY <1>1, <1>2, <1>3, <2>2, <2>3, <2>4
<1>7. CASE L2 \subseteq L /\ \E r \in Records : r \notin E /\ E2 = E \cup {r}
  <2>1. IsFiniteSet(L2) /\ Cardinality(L2) \in Nat /\ Cardinality(L2) <= Cardinality(L)
    BY <1>1, <1>7, Smaller
  <2>2. IsFiniteSet(E2) /\ Cardinality(E2) = Cardinality(E) + 1
    BY <1>1, <1>7, OneMore
  <2> HIDE DEF t, t2, L, L2, E, E2
  <2> QED BY <1>1, <1>2, <1>3, <2>1, <2>2
<1>8. CASE L2 \subseteq L /\ crashes' = crashes + 1 /\ E2 = E
  <2>1. IsFiniteSet(L2) /\ Cardinality(L2) \in Nat /\ Cardinality(L2) <= Cardinality(L)
    BY <1>1, <1>8, Smaller
  <2> HIDE DEF t, t2, L, L2, E, E2
  <2> QED BY <1>1, <1>2, <1>3, <1>8, <2>1
<1> QED BY <1>5, <1>6, <1>7, <1>8, LossStep

\* LossBounded: whatever fails, no more records are lost after their call
\* returned nil than the process crashed or calls returned errors, apart from
\* those that a drain whose scan has ended early rewrites away.
THEOREM LossAlwaysBounded == Spec => []LossBounded
<1>1. Init => Paid
  <2> SUFFICES ASSUME Init PROVE Paid
    OBVIOUS
  <2>1. Lost = {} /\ Errors = {} /\ ~torn /\ crashes = 0
    BY DEF Init, Lost, Errors
  <2>2. IsFiniteSet({}) /\ Cardinality({}) = 0
    BY FS_EmptySet
  <2> QED BY <2>1, <2>2 DEF Paid
<1>2. Spooled /\ Paid /\ [Next]_vars => Paid'
  BY PaidStep
<1>3. Spooled /\ Paid => LossBounded
  <2> SUFFICES ASSUME Spooled, Paid PROVE LossBounded
    OBVIOUS
  <2>1. Cardinality(Lost) \in Nat /\ Cardinality(Errors) \in Nat /\ crashes \in Nat
    BY FS_CardinalityType DEF Paid, Spooled, SpoolTypeOK
  <2>2. Cardinality(Lost) <= crashes + Cardinality(Errors)
    BY <2>1 DEF Paid
  <2> QED BY <2>2 DEF LossBounded
<1> QED BY <1>1, <1>2, <1>3, AllSpooled, PTL DEF Spec

-----------------------------------------------------------------------------
(* Order                                                                   *)

\* The records that need not be waited for: delivered, or not in the file.
Settled == {q \in Records : q \in Lines(sent) \/ q \notin Lines(file)}

\* In the lines s each record comes after those it must not overtake, given
\* what was before it (B) and what need not be waited for (S).
Ordered(s, B, S) ==
    \A j \in DOMAIN s : s[j] \in Records =>
        \A q \in B[s[j]] : q \in S \/ \E i \in 1 .. (j - 1) : s[i] = q

\* The invariant behind InOrder: whoever sends a record, a call or the drain,
\* has nothing left to wait for.
InTurn ==
    /\ open
    /\ \A r \in Records : \A q \in before[r] : pc[q] = "nil"
    /\ \A r \in Records : pc[r] = "send" \/ r \in Lines(sent) => before[r] \subseteq Settled
    /\ Ordered(file, before, Settled)
    /\ drain.on => Ordered(drain.kept, before, Settled)
    /\ InOrder

\* A line added at the end stays in order when what it waits for is there.
LEMMA OrderedAppend ==
    ASSUME NEW s \in Seq(Line), NEW e \in Line, NEW B, NEW S, Ordered(s, B, S),
           e \in Records => \A q \in B[e] : q \in S \/ q \in Lines(s)
    PROVE  Ordered(Append(s, e), B, S)
<1> DEFINE a == Append(s, e)
<1>1. /\ Len(a) = Len(s) + 1 /\ a \in Seq(Line) /\ Len(s) \in Nat
      /\ \A i \in 1 .. Len(s) : a[i] = s[i]
      /\ a[Len(s) + 1] = e
  BY LinesAppend
<1> HIDE DEF a
<1> SUFFICES ASSUME NEW j \in 1 .. Len(s) + 1, a[j] \in Records, NEW q \in B[a[j]], q \notin S
             PROVE  \E i \in 1 .. (j - 1) : a[i] = q
  BY <1>1 DEF Ordered, a
<1>2. CASE j \in 1 .. Len(s)
  <2>1. j \in DOMAIN s /\ a[j] = s[j]
    BY <1>1, <1>2
  <2>2. PICK i \in 1 .. (j - 1) : s[i] = q
    BY <2>1 DEF Ordered
  <2>3. i \in 1 .. Len(s)
    BY <1>1, <1>2
  <2> QED BY <1>1, <2>2, <2>3
<1>3. CASE j = Len(s) + 1
  <2>1. q \in Lines(s)
    BY <1>1, <1>3
  <2>2. PICK i \in 1 .. Len(s) : s[i] = q
    BY <2>1 DEF Lines
  <2>3. i \in 1 .. (j - 1)
    BY <1>1, <1>3
  <2> QED BY <1>1, <2>2, <2>3
<1> QED BY <1>1, <1>2, <1>3

\* Order survives what settles more and leaves the history of the lines alone.
LEMMA OrderedSame ==
    ASSUME NEW s, NEW B, NEW S, NEW C, NEW T, Ordered(s, B, S),
           \A r \in Lines(s) : r \in Records => C[r] = B[r] /\ \A q \in B[r] : q \in S => q \in T
    PROVE  Ordered(s, C, T)
<1>1. \A j \in DOMAIN s : s[j] \in Lines(s)
  BY DEF Lines
<1> QED BY <1>1 DEF Ordered

\* No lines are in any order.
LEMMA OrderedEmpty == ASSUME NEW B, NEW S PROVE Ordered(<<>>, B, S)
BY DEF Ordered

\* What the drain is about to send waits for nothing but what it has kept.
LEMMA HeadReady ==
    ASSUME Spooled, InTurn, drain.on, drain.todo # <<>>, NEW e \in Records, e = Head(drain.todo)
    PROVE  /\ e \in Lines(file)
           /\ \A q \in before[e] : q \in Settled \/ q \in Lines(drain.kept)
<1> DEFINE T == drain.todo
<1>1. T \in Seq(Line) /\ file \in Seq(Line) /\ Len(file) \in Nat
  BY DEF Spooled, SpoolTypeOK, Drain
<1>2. T[1] = e /\ Len(T) \in Nat /\ Len(T) >= 1
  BY <1>1, LinesTail
<1>3. Past \in Nat /\ Past = Len(file) - Len(T) /\ \A i \in 1 .. Len(T) : T[i] = file[Past + i]
  BY DEF Spooled, Draining, Past
<1> HIDE DEF T
<1>4. Past + 1 \in 1 .. Len(file) /\ file[Past + 1] = e
  BY <1>1, <1>2, <1>3
<1>5. e \in Lines(file)
  BY <1>1, <1>4 DEF Lines
<1>6. ASSUME NEW q \in before[e], q \notin Settled PROVE q \in Lines(drain.kept)
  <2>1. q \in Records
    BY <1>6 DEF Spooled, SpoolTypeOK
  <2>2. PICK n : n = Past + 1
    OBVIOUS
  <2>3. PICK i \in 1 .. (n - 1) : file[i] = q
    <3>1. n \in DOMAIN file /\ file[n] = e
      BY <1>1, <1>4, <2>2
    <3>2. \A j \in DOMAIN file : file[j] \in Records =>
             \A r \in before[file[j]] : r \in Settled \/ \E i \in 1 .. (j - 1) : file[i] = r
      BY DEF InTurn, Ordered
    <3>3. \A r \in before[file[n]] : r \in Settled \/ \E i \in 1 .. (n - 1) : file[i] = r
      BY ONLY <3>1, <3>2, e \in Records
    <3> QED BY ONLY <1>6, <3>1, <3>3
  <2>4. i \in 1 .. Past
    BY <1>3, <2>2
  <2>5. file[i] \in Lines(sent) \cup Lines(drain.kept) \cup {Corrupt}
    BY <2>4 DEF Spooled, Draining
  <2>6. q \notin Lines(sent) /\ q # Corrupt
    BY <1>6, <2>1, SpoolAssumption DEF Settled
  <2> QED BY <2>3, <2>5, <2>6
<1> QED BY <1>5, <1>6

\* What a step without disk faults does to a record: it stays settled once its
\* call has returned, and what is before a call is fixed when the call begins.
LEMMA RecordStep ==
    ASSUME Spooled, InTurn, [Next]_vars
    PROVE  /\ Lines(sent) \subseteq Lines(sent')
           /\ \A q \in Records : pc[q] = "nil" => pc'[q] = "nil" /\ (q \in Lines(file') => q \in Lines(file))
           /\ \A r \in Records :
                 \/ before'[r] = before[r]
                 \/ /\ pc[r] = "idle" /\ pc'[r] = "check" /\ UNCHANGED sent
                    /\ \A q \in before'[r] : pc[q] = "nil"
<1>0. pc \in [Records -> {"idle", "check", "send", "append", "nil", "error", "gone"}] /\ DOMAIN before = Records
  BY DEF Spooled, SpoolTypeOK
<1>1. ASSUME NEW r \in Records, Call(r)
      PROVE  /\ UNCHANGED <<file, sent>>
             /\ \A q \in Records : pc[q] = "nil" => pc'[q] = "nil"
             /\ pc[r] = "idle" /\ pc'[r] = "check" /\ \A q \in before'[r] : pc[q] = "nil"
             /\ \A q \in Records \ {r} : before'[q] = before[q]
  BY <1>0, <1>1 DEF Call
<1>2. ASSUME NEW r \in Records, NEW l, pc' = [pc EXCEPT ![r] = l], pc[r] # "nil"
      PROVE  \A q \in Records : pc[q] = "nil" => pc'[q] = "nil"
  BY <1>0, <1>2
<1>3. ASSUME NEW r \in Records, Backlog(r)
      PROVE  UNCHANGED <<file, sent, before>> /\ \A q \in Records : pc[q] = "nil" => pc'[q] = "nil"
  BY <1>2, <1>3 DEF Backlog
<1>4. ASSUME NEW r \in Records, Send(r)
      PROVE  /\ UNCHANGED <<file, before>> /\ Lines(sent) \subseteq Lines(sent')
             /\ \A q \in Records : pc[q] = "nil" => pc'[q] = "nil"
  <2>1. Lines(sent) \subseteq Lines(sent')
    BY <1>4, SentBy DEF Send, Spooled
  <2> QED BY <1>2, <1>4, <2>1 DEF Send
<1>5. ASSUME NEW r \in Records, append(r)
      PROVE  /\ UNCHANGED <<sent, before>> /\ Lines(file') \subseteq Lines(file) \cup {r, Corrupt}
             /\ pc[r] = "append" /\ \A q \in Records : pc[q] = "nil" => pc'[q] = "nil"
  <2>1. pc[r] = "append" /\ UNCHANGED <<sent, before>>
    BY <1>5 DEF append
  <2>2. PICK l \in {"nil", "error"} : pc' = [pc EXCEPT ![r] = l]
    BY <1>5 DEF append
  <2>3. UNCHANGED file \/ file' = WriteLine(r) \/ WriteHalf
    BY <1>5 DEF append
  <2>4. Lines(file') \subseteq Lines(file) \cup {r, Corrupt}
    BY <2>3, WriteLineType, WriteHalfType DEF Spooled
  <2> QED BY <1>2, <2>1, <2>2, <2>4
<1>6. ASSUME DrainLine PROVE UNCHANGED <<file, pc, before>> /\ Lines(sent) \subseteq Lines(sent')
  <2>1. UNCHANGED <<file, pc, before>>
    BY <1>6 DEF DrainLine
  <2>2. CASE ~UNCHANGED sent
    <3>1. /\ drain.todo # <<>> /\ Head(drain.todo) # Corrupt
          /\ Delivered(Head(drain.todo)) \/ Undelivered(Head(drain.todo))
      BY <1>6, <2>2 DEF DrainLine
    <3>2. Head(drain.todo) \in Records
      BY <3>1, LinesTail DEF Spooled, SpoolTypeOK, Drain, Line
    <3> QED BY <2>1, <3>1, <3>2, SentBy DEF Spooled
  <2> QED BY <2>1, <2>2
<1>7. ASSUME DrainEnd PROVE UNCHANGED <<pc, before, sent>> /\ Lines(file') \subseteq Lines(file)
  BY <1>7 DEF DrainEnd, Rewritten, Spooled, Draining
<1>8. ASSUME Crash
      PROVE  /\ UNCHANGED <<before, sent>>
             /\ \A q \in Records : pc[q] = "nil" => pc'[q] = "nil" /\ (q \in Lines(file') => q \in Lines(file))
  <2>1. UNCHANGED <<before, sent>> /\ \A q \in Records : pc[q] = "nil" => pc'[q] = "nil"
    BY <1>8 DEF Crash
  <2>2. CASE UNCHANGED file
    BY <2>1, <2>2
  <2>3. CASE \E r \in Records : pc[r] = "append" /\ file' = WriteLine(r)
    BY <2>1, <2>3, WriteLineType DEF Spooled
  <2>4. CASE WriteHalf
    BY <2>1, <2>4, WriteHalfType, SpoolAssumption DEF Spooled
  <2> QED BY <1>8, <2>2, <2>3, <2>4 DEF Crash
<1>9. ASSUME DrainBegin \/ DrainStop \/ LedgerUp \/ LedgerDown \/ UNCHANGED vars
      PROVE  UNCHANGED <<file, pc, before, sent>>
  BY <1>9 DEF DrainBegin, DrainStop, LedgerUp, LedgerDown, vars
<1>10. CASE \E r \in Records : Call(r)
  BY <1>1, <1>10
<1>11. CASE \E r \in Records : Backlog(r) \/ Send(r)
  BY <1>3, <1>4, <1>11
<1>12. CASE \E r \in Records : append(r)
  BY <1>5, <1>12, SpoolAssumption
<1>13. CASE DrainLine \/ DrainEnd \/ Crash
  BY <1>6, <1>7, <1>8, <1>13
<1>14. CASE DrainBegin \/ DrainStop \/ LedgerUp \/ LedgerDown \/ UNCHANGED vars
  BY <1>9, <1>14
<1> QED BY <1>10, <1>11, <1>12, <1>13, <1>14 DEF Next

\* A new arrival at the Ledger: a record in its turn.
LEMMA ArrivalStep ==
    ASSUME Spooled, InTurn, [Next]_vars, ~UNCHANGED sent
    PROVE  /\ UNCHANGED <<before, file>>
           /\ \E e \in Records :
                 /\ sent' = Append(sent, e)
                 /\ before[e] \subseteq Settled
                 /\ \A s \in Lines(sent) : e \notin before[s]
<1>1. ASSUME NEW e \in Records, Accept(e), before[e] \subseteq Settled,
             pc[e] # "nil" \/ e \in Lines(file)
      PROVE  /\ sent' = Append(sent, e)
             /\ \A s \in Lines(sent) : e \notin before[s]
  <2>1. sent' = Append(sent, e) /\ e \notin Lines(sent)
    BY <1>1 DEF Accept
  <2>2. \A s \in Lines(sent) : s \in Records
    BY DEF Spooled, SpoolTypeOK, Lines
  <2>3. ASSUME NEW s \in Lines(sent), e \in before[s] PROVE FALSE
    <3>1. pc[e] = "nil" /\ e \in Settled
      BY <2>2, <2>3 DEF InTurn
    <3> QED BY <1>1, <2>1, <3>1 DEF Settled
  <2> QED BY <2>1, <2>3
<1>2. ASSUME NEW r \in Records, Send(r) PROVE UNCHANGED <<before, file>> /\ Accept(r) /\ pc[r] = "send"
  BY <1>2 DEF Send, Delivered, Undelivered
<1>3. CASE \E r \in Records : Send(r)
  <2>1. PICK r \in Records : Send(r)
    BY <1>3
  <2>2. before[r] \subseteq Settled
    BY <1>2, <2>1 DEF InTurn
  <2> QED BY <1>1, <1>2, <2>1, <2>2
<1>4. CASE DrainLine
  <2>1. PICK e : e = Head(drain.todo)
    OBVIOUS
  <2>2. /\ drain.on /\ drain.todo # <<>> /\ ~drain.failed /\ e # Corrupt /\ Accept(e)
        /\ UNCHANGED <<before, file>>
    BY <1>4, <2>1 DEF DrainLine, Delivered, Undelivered
  <2>3. e \in Records
    BY <2>1, <2>2, LinesTail DEF Spooled, SpoolTypeOK, Drain, Line
  <2>4. Lines(drain.kept) = {}
    BY <2>2 DEF Spooled, Draining, Lines
  <2>5. before[e] \subseteq Settled /\ e \in Lines(file)
    BY <2>1, <2>2, <2>3, <2>4, HeadReady
  <2> QED BY <1>1, <2>2, <2>3, <2>5
<1>5. ASSUME NEW r \in Records, Call(r) \/ Backlog(r) \/ append(r) PROVE UNCHANGED sent
  BY <1>5 DEF Call, Backlog, append
<1>6. ASSUME DrainBegin \/ DrainStop \/ DrainEnd \/ LedgerUp \/ LedgerDown \/ Crash \/ UNCHANGED vars
      PROVE  UNCHANGED sent
  BY <1>6 DEF DrainBegin, DrainStop, DrainEnd, LedgerUp, LedgerDown, Crash, vars
<1> QED BY <1>3, <1>4, <1>5, <1>6 DEF Next

\* A call gets to its send only through backlog.
LEMMA SendEntered ==
    ASSUME Spooled, [Next]_vars, NEW r \in Records, pc'[r] = "send", pc[r] # "send"
    PROVE  Backlog(r)
<1>0. pc \in [Records -> {"idle", "check", "send", "append", "nil", "error", "gone"}]
  BY DEF Spooled, SpoolTypeOK
<1>1. CASE \E q \in Records : Call(q) \/ Send(q) \/ append(q)
  <2>1. PICK q \in Records : Call(q) \/ Send(q) \/ append(q)
    BY <1>1
  <2>2. PICK l \in {"check", "nil", "append", "error"} : pc' = [pc EXCEPT ![q] = l]
    BY <2>1 DEF Call, Send, append
  <2> QED BY <1>0, <2>2
<1>2. CASE \E q \in Records : Backlog(q)
  <2>1. PICK q \in Records : Backlog(q)
    BY <1>2
  <2>2. CASE q # r
    BY <1>0, <2>1, <2>2 DEF Backlog
  <2> QED BY <2>1, <2>2
<1>3. CASE Crash
  BY <1>0, <1>3 DEF Crash
<1>4. CASE DrainBegin \/ DrainLine \/ DrainStop \/ DrainEnd \/ LedgerUp \/ LedgerDown \/ UNCHANGED vars
  BY <1>4 DEF DrainBegin, DrainLine, DrainStop, DrainEnd, LedgerUp, LedgerDown, vars
<1> QED BY <1>1, <1>2, <1>3, <1>4 DEF Next

\* What a step without disk faults does to the file: a line more, or what the
\* drain has kept.
LEMMA FileStep ==
    ASSUME Spooled, [Next]_vars
    PROVE  \/ UNCHANGED file
           \/ \E r \in Records : pc[r] = "append" /\ file' = Append(file, r)
           \/ file' = Append(file, Corrupt)
           \/ drain.on /\ file' = drain.kept
<1>1. CASE \E r \in Records : append(r)
  <2>1. PICK r \in Records : append(r)
    BY <1>1
  <2>2. pc[r] = "append" /\ (UNCHANGED file \/ file' = WriteLine(r) \/ WriteHalf)
    BY <2>1 DEF append
  <2> QED BY <2>2 DEF WriteLine, WriteHalf
<1>2. CASE Crash
  BY <1>2 DEF Crash, WriteLine, WriteHalf
<1>3. CASE DrainEnd
  BY <1>3 DEF DrainEnd, Rewritten
<1>4. CASE \E r \in Records : Call(r) \/ Backlog(r) \/ Send(r)
  BY <1>4 DEF Call, Backlog, Send
<1>5. CASE DrainBegin \/ DrainLine \/ DrainStop \/ LedgerUp \/ LedgerDown \/ UNCHANGED vars
  BY <1>5 DEF DrainBegin, DrainLine, DrainStop, LedgerUp, LedgerDown, vars
<1> QED BY <1>1, <1>2, <1>3, <1>4, <1>5 DEF Next

\* What a step does to the lines the drain has kept.
LEMMA KeptStep ==
    ASSUME Spooled, [Next]_vars, drain'.on
    PROVE  \/ UNCHANGED drain
           \/ drain'.kept = <<>>
           \/ drain.on /\ drain'.kept = drain.kept
           \/ /\ drain.on /\ drain.todo # <<>> /\ Head(drain.todo) \in Records
              /\ drain'.kept = Append(drain.kept, Head(drain.todo))
<1>1. CASE DrainLine
  <2>0. drain \in Drain
    BY DEF Spooled, SpoolTypeOK
  <2>1. drain.on /\ drain.todo # <<>>
    BY <1>1 DEF DrainLine
  <2>2. Head(drain.todo) \in Line
    BY <2>0, <2>1, LinesTail DEF Drain
  <2>3. PICK e : e = Head(drain.todo)
    OBVIOUS
  <2>4. \/ drain' = [drain EXCEPT !.todo = Tail(drain.todo)]
        \/ e # Corrupt /\ drain' = [drain EXCEPT !.todo = Tail(drain.todo), !.kept = Append(drain.kept, e)]
        \/ e # Corrupt /\ drain' = [drain EXCEPT !.todo = Tail(drain.todo), !.kept = Append(drain.kept, e), !.failed = TRUE]
    BY <1>1, <2>0, <2>3 DEF DrainLine, Drain
  <2>5. drain'.kept = drain.kept \/ (e # Corrupt /\ drain'.kept = Append(drain.kept, e))
    BY <2>0, <2>4 DEF Drain
  <2> QED BY <2>1, <2>2, <2>3, <2>5 DEF Line
<1>2. CASE DrainBegin
  BY <1>2 DEF DrainBegin
<1>3. CASE DrainEnd \/ Crash
  BY <1>3, NoDrainType DEF DrainEnd, Crash
<1>4. CASE \E r \in Records : Call(r) \/ Backlog(r) \/ Send(r) \/ append(r)
  BY <1>4 DEF Call, Backlog, Send, append
<1>5. CASE LedgerUp \/ LedgerDown \/ UNCHANGED vars
  BY <1>5 DEF LedgerUp, LedgerDown, vars
<1>6. CASE DrainStop
  BY <1>6 DEF DrainStop, Spooled, SpoolTypeOK, Drain
<1> QED BY <1>1, <1>2, <1>3, <1>4, <1>5, <1>6 DEF Next

\* Without disk faults every step keeps the records in their turn.
LEMMA InTurnStep ==
    ASSUME ~DiskFaults, Spooled, Spooled', InTurn, [Next]_vars
    PROVE  InTurn'
<1>0. /\ before \in [Records -> SUBSET Records] /\ before' \in [Records -> SUBSET Records]
      /\ file \in Seq(Line) /\ drain \in Drain /\ drain.kept \in Seq(Line) /\ drain.todo \in Seq(Line)
      /\ sent \in Seq(Records) /\ Corrupt \notin Records
  BY SpoolAssumption DEF Spooled, SpoolTypeOK, Drain
<1>1. ASSUME NEW q \in Records, pc[q] = "nil", q \in Settled PROVE q \in Settled'
  BY <1>1, RecordStep DEF Settled
<1>2. ASSUME NEW r \in Records, NEW q \in before[r] PROVE q \in Records /\ pc[q] = "nil"
  BY <1>0, <1>2 DEF InTurn
<1>3. ASSUME NEW r \in Records, pc[r] # "idle" PROVE before'[r] = before[r]
  BY <1>3, RecordStep
<1>4. ASSUME NEW s, Lines(s) \subseteq Lines(file), Ordered(s, before, Settled)
      PROVE  Ordered(s, before', Settled')
  <2>1. ASSUME NEW r \in Lines(s), r \in Records
        PROVE  before'[r] = before[r] /\ \A q \in before[r] : q \in Settled => q \in Settled'
    <3>1. pc[r] # "idle"
      BY <1>4, <2>1 DEF Spooled, Placed
    <3> QED BY <1>1, <1>2, <1>3, <2>1, <3>1
  <2> QED BY <1>4, <2>1, OrderedSame
<1>5. Ordered(file, before', Settled')
  BY <1>4 DEF InTurn
<1>6. drain.on => Ordered(drain.kept, before', Settled')
  BY <1>4 DEF InTurn, Spooled, Draining
<1>7. open'
  <2>1. open
    BY DEF InTurn
  <2> QED BY <2>1 DEF Next, vars, Call, Backlog, Send, append, DrainBegin, DrainLine, DrainStop, DrainEnd, LedgerUp, LedgerDown, Crash
<1>8. \A r \in Records : \A q \in before'[r] : pc'[q] = "nil"
  <2> SUFFICES ASSUME NEW r \in Records, NEW q \in before'[r] PROVE pc'[q] = "nil"
    OBVIOUS
  <2>1. q \in Records
    BY <1>0
  <2>2. pc[q] = "nil"
    BY <1>2, RecordStep
  <2> QED BY <2>1, <2>2, RecordStep
<1>9. ASSUME NEW r \in Records, pc'[r] = "send" \/ r \in Lines(sent') PROVE before'[r] \subseteq Settled'
  <2>1. CASE pc[r] = "send" \/ r \in Lines(sent)
    <3>1. pc[r] # "idle"
      BY <2>1 DEF Spooled, Placed
    <3>2. before'[r] = before[r] /\ before[r] \subseteq Settled
      BY <1>3, <2>1, <3>1 DEF InTurn
    <3> QED BY <1>1, <1>2, <3>2
  <2>2. CASE r \notin Lines(sent) /\ r \in Lines(sent')
    <3>1. ~UNCHANGED sent
      BY <2>2
    <3>2. PICK e \in Records : sent' = Append(sent, e) /\ before[e] \subseteq Settled
      BY <3>1, ArrivalStep
    <3>3. e = r /\ before' = before
      BY <1>0, <2>2, <3>1, <3>2, LinesAppend, ArrivalStep
    <3> QED BY <1>1, <1>2, <3>2, <3>3
  <2>3. CASE pc'[r] = "send" /\ pc[r] # "send"
    <3>1. Backlog(r)
      BY <2>3, SendEntered
    <3>2. ~backlog /\ UNCHANGED file
      BY <1>0, <2>3, <3>1 DEF Backlog, Spooled, SpoolTypeOK
    <3>3. Lines(file') = {}
      BY <3>2 DEF backlog, InTurn, Lines
    <3>4. Settled' = Records
      BY <3>3 DEF Settled
    <3> QED BY <1>0, <3>4
  <2> QED BY <1>9, <2>1, <2>2, <2>3
<1>10. Ordered(file', before', Settled')
  <2>1. ASSUME NEW r \in Records, pc[r] = "append", file' = Append(file, r)
        PROVE  Ordered(file', before', Settled')
    <3>1. ASSUME NEW q \in before'[r] PROVE q \in Settled' \/ q \in Lines(file)
      <4>1. q \in Records /\ pc[q] = "nil"
        BY <1>2, <1>3, <2>1, <3>1
      <4> QED BY <1>1, <4>1 DEF Settled
    <3>2. r \in Line
      BY DEF Line
    <3> QED BY <1>0, <1>5, <2>1, <3>1, <3>2, OrderedAppend
  <2>2. CASE file' = Append(file, Corrupt)
    <3>1. Corrupt \in Line /\ Corrupt \notin Records
      BY <1>0 DEF Line
    <3> QED BY <1>0, <1>5, <2>2, <3>1, OrderedAppend
  <2> QED BY <1>5, <1>6, <2>1, <2>2, FileStep
<1>11. drain'.on => Ordered(drain'.kept, before', Settled')
  <2> SUFFICES ASSUME drain'.on PROVE Ordered(drain'.kept, before', Settled')
    OBVIOUS
  <2>1. CASE UNCHANGED drain \/ (drain.on /\ drain'.kept = drain.kept)
    BY <1>6, <2>1
  <2>2. CASE drain'.kept = <<>>
    BY <2>2, OrderedEmpty
  <2>3. CASE /\ drain.on /\ drain.todo # <<>> /\ Head(drain.todo) \in Records
             /\ drain'.kept = Append(drain.kept, Head(drain.todo))
    <3>1. PICK e \in Records : e = Head(drain.todo)
      BY <2>3
    <3>2. /\ e \in Lines(file)
          /\ \A q \in before[e] : q \in Settled \/ q \in Lines(drain.kept)
      BY <2>3, <3>1, HeadReady
    <3>3. pc[e] # "idle" /\ e \in Line
      BY <3>2 DEF Spooled, Placed, Line
    <3>4. \A q \in before'[e] : q \in Settled' \/ q \in Lines(drain.kept)
      BY <1>1, <1>2, <1>3, <3>2, <3>3
    <3> QED BY <1>0, <1>6, <2>3, <3>1, <3>3, <3>4, OrderedAppend
  <2> QED BY <2>1, <2>2, <2>3, KeptStep
<1>12. InOrder'
  <2>1. ASSUME NEW i \in DOMAIN sent PROVE before'[sent[i]] = before[sent[i]]
    <3>1. sent[i] \in Records /\ sent[i] \in Lines(sent)
      BY <1>0 DEF Lines
    <3> QED BY <1>3, <3>1 DEF Spooled, Placed
  <2>2. CASE UNCHANGED sent
    BY <2>1, <2>2 DEF InTurn, InOrder
  <2>3. CASE ~UNCHANGED sent
    <3>1. PICK e \in Records : sent' = Append(sent, e) /\ \A s \in Lines(sent) : e \notin before[s]
      BY <2>3, ArrivalStep
    <3>2. before' = before
      BY <2>3, ArrivalStep
    <3>3. /\ DOMAIN sent' = 1 .. Len(sent) + 1 /\ DOMAIN sent = 1 .. Len(sent) /\ Len(sent) \in Nat
          /\ \A i \in 1 .. Len(sent) : sent'[i] = sent[i]
          /\ sent'[Len(sent) + 1] = e
      BY <1>0, <3>1, LinesAppend
    <3>4. ASSUME NEW i \in DOMAIN sent', NEW j \in DOMAIN sent', i < j PROVE sent'[j] \notin before'[sent'[i]]
      <4>1. i \in DOMAIN sent /\ sent'[i] = sent[i]
        BY <3>3, <3>4
      <4>2. CASE j \in DOMAIN sent
        BY <3>2, <3>3, <3>4, <4>1, <4>2 DEF InTurn, InOrder
      <4>3. CASE j = Len(sent) + 1
        <5>1. sent[i] \in Lines(sent)
          BY <4>1 DEF Lines
        <5> QED BY <3>1, <3>2, <3>3, <4>1, <4>3, <5>1
      <4> QED BY <3>3, <4>2, <4>3
    <3> QED BY <3>4 DEF InOrder
  <2> QED BY <2>2, <2>3
<1> QED BY <1>7, <1>8, <1>9, <1>10, <1>11, <1>12 DEF InTurn

\* InOrder: while writing, renaming and reopening the spool file succeed, no
\* record overtakes one whose call had returned before its own began, whatever
\* the Ledger, crashes and torn writes do.  The hypothesis is needed: once drain
\* fails to reopen the file, backlog says that nothing is waiting.
THEOREM ArrivesInOrder == ~DiskFaults => (Spec => []InOrder)
<1> SUFFICES ASSUME ~DiskFaults PROVE Spec => []InOrder
  OBVIOUS
<1>1. Init => InTurn
  <2> SUFFICES ASSUME Init PROVE InTurn
    OBVIOUS
  <2>1. file = <<>> /\ sent = <<>> /\ open /\ ~drain.on /\ before = [r \in Records |-> {}]
    BY NoDrainType DEF Init
  <2>2. Lines(sent) = {} /\ InOrder
    BY <2>1 DEF Lines, InOrder
  <2> QED BY <2>1, <2>2, OrderedEmpty DEF InTurn
<1>2. Spooled /\ Spooled' /\ InTurn /\ [Next]_vars => InTurn'
  BY InTurnStep
<1>3. InTurn => InOrder
  BY DEF InTurn
<1> QED BY <1>1, <1>2, <1>3, AllSpooled, PTL DEF Spec

=============================================================================
