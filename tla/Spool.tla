-------------------------------- MODULE Spool --------------------------------
(***************************************************************************)
(* SpoolingClient (internal/ledger/spool.go): audit records are sent to    *)
(* the Ledger at once or, when that fails or older records are waiting,    *)
(* appended to a spool file that a background loop drains.  Record is      *)
(* called by every handler of the broker concurrently; the mutex mu is     *)
(* held by backlog, append and drain, not while Record sends.              *)
(*                                                                         *)
(* One process uses the spool directory.  The mutex is the process's own   *)
(* and nothing locks the file: where two processes are given the same      *)
(* LEDGER_SPOOL_DIR, none of what follows is claimed.                      *)
(***************************************************************************)
EXTENDS Integers, Sequences, FiniteSets

CONSTANTS
    Records,     \* records; each is passed to one call of Record
    Corrupt,     \* a line that is not the JSON of a record
    Refused,     \* records that Upstream.Record never accepts
    TornWrites,  \* may a write to the spool file stop half way?
    ShortScans,  \* may Scan end early: a read error, a line over 8 MiB?
    DiskFaults,  \* may writing, renaming or reopening the spool file fail?
    MaxCrashes   \* bound on the number of process crashes

ASSUME SpoolAssumption ==
    /\ Corrupt \notin Records /\ Refused \subseteq Records
    /\ TornWrites \in BOOLEAN /\ ShortScans \in BOOLEAN /\ DiskFaults \in BOOLEAN
    /\ MaxCrashes \in Nat

VARIABLES
    file,    \* lines of spool.jsonl
    torn,    \* the last line has no newline
    open,    \* sc.file is an open handle
    pc,      \* progress of the call Record(r)
    before,  \* history: records whose call had returned nil when r's began
    drain,   \* the drain that holds mu, if any
    up,      \* the Ledger answers
    sent,    \* records the Ledger has accepted, in the order of first arrival
    unread,  \* history: records rewritten away by a drain that had not read them
    crashes

vars == <<file, torn, open, pc, before, drain, up, sent, unread, crashes>>

Line == Records \cup {Corrupt}

Drain == [on : BOOLEAN, todo : Seq(Line), kept : Seq(Line), failed : BOOLEAN,
          cut : SUBSET Records]

NoDrain == [on |-> FALSE, todo |-> <<>>, kept |-> <<>>, failed |-> FALSE, cut |-> {}]

SpoolTypeOK ==
    /\ file \in Seq(Line)
    /\ torn \in BOOLEAN
    /\ open \in BOOLEAN
    /\ pc \in [Records -> {"idle", "check", "send", "append", "nil", "error", "gone"}]
    /\ before \in [Records -> SUBSET Records]
    /\ drain \in Drain
    /\ up \in BOOLEAN
    /\ sent \in Seq(Records)
    /\ unread \subseteq Records
    /\ crashes \in 0 .. MaxCrashes

Lines(s) == {s[i] : i \in DOMAIN s}

\* mu is free: a drain holds it for several steps, everyone else for one.
Unlocked == ~drain.on

Init ==
    /\ file = <<>>
    /\ torn = FALSE
    /\ open = TRUE
    /\ pc = [r \in Records |-> "idle"]
    /\ before = [r \in Records |-> {}]
    /\ drain = NoDrain
    /\ up = TRUE
    /\ sent = <<>>
    /\ unread = {}
    /\ crashes = 0

\* The Ledger stores r; a record it already has is a duplicate.
Accept(r) == sent' = IF r \in Lines(sent) THEN sent ELSE Append(sent, r)

\* Upstream.Record(r) returns nil.
Delivered(r) == up /\ r \notin Refused /\ Accept(r)

\* Upstream.Record(r) returns an error: r was not accepted, or it was and the
\* confirmation got lost.
Undelivered(r) == UNCHANGED sent \/ Delivered(r)

-----------------------------------------------------------------------------
(* Record *)

Call(r) ==
    /\ pc[r] = "idle"
    /\ pc' = [pc EXCEPT ![r] = "check"]
    /\ before' = [before EXCEPT ![r] = {q \in Records : pc[q] = "nil"}]
    /\ UNCHANGED <<file, torn, open, drain, up, sent, unread, crashes>>

\* backlog: is there anything in the spool file?
backlog == open /\ file # <<>>

Backlog(r) ==
    /\ pc[r] = "check" /\ Unlocked
    /\ pc' = [pc EXCEPT ![r] = IF backlog THEN "append" ELSE "send"]
    /\ UNCHANGED <<file, torn, open, before, drain, up, sent, unread, crashes>>

\* Mutant: Record gives up on a record it cannot send.
SendForgets(r) ==
    /\ pc[r] = "send"
    /\ Delivered(r) \/ Undelivered(r)
    /\ pc' = [pc EXCEPT ![r] = "nil"]
    /\ UNCHANGED <<file, torn, open, before, drain, up, unread, crashes>>

Send(r) ==
    /\ pc[r] = "send"
    /\ \/ Delivered(r) /\ pc' = [pc EXCEPT ![r] = "nil"]
       \/ Undelivered(r) /\ pc' = [pc EXCEPT ![r] = "append"]
    /\ UNCHANGED <<file, torn, open, before, drain, up, unread, crashes>>

\* O_APPEND of a line to the file: after an unterminated line it ends up on
\* that same line, which then is not the JSON of anything.
WriteLine(r) == IF torn THEN file ELSE Append(file, r)

\* The first part of a line and no newline.
WriteHalf ==
    /\ file' = IF torn THEN file ELSE Append(file, Corrupt)
    /\ torn' = TRUE

append(r) ==
    /\ pc[r] = "append" /\ Unlocked
    /\ \/ /\ open
          /\ file' = WriteLine(r) /\ torn' = FALSE
          /\ pc' = [pc EXCEPT ![r] = "nil"]
       \/ /\ ~open \/ DiskFaults
          /\ UNCHANGED <<file, torn>>
          /\ pc' = [pc EXCEPT ![r] = "error"]
       \/ /\ open /\ DiskFaults   \* Write succeeds, Sync fails
          /\ file' = WriteLine(r) /\ torn' = FALSE
          /\ pc' = [pc EXCEPT ![r] = "error"]
       \/ /\ open /\ TornWrites   \* Write stops half way
          /\ WriteHalf
          /\ pc' = [pc EXCEPT ![r] = "error"]
    /\ UNCHANGED <<open, before, drain, up, sent, unread, crashes>>

-----------------------------------------------------------------------------
(* drain *)

DrainBegin ==
    /\ Unlocked /\ backlog
    /\ drain' = [on |-> TRUE, todo |-> file, kept |-> <<>>, failed |-> FALSE, cut |-> {}]
    /\ UNCHANGED <<file, torn, open, pc, before, up, sent, unread, crashes>>

\* Mutant: after a failure the drain goes on with the next record.
DrainLineGoesOn ==
    LET e == Head(drain.todo)
        d == [drain EXCEPT !.todo = Tail(drain.todo)]
    IN  /\ drain.on /\ drain.todo # <<>>
        /\ \/ e = Corrupt /\ drain' = d /\ UNCHANGED sent
           \/ /\ e # Corrupt
              /\ \/ Delivered(e) /\ drain' = d
                 \/ Undelivered(e) /\ drain' = [d EXCEPT !.kept = Append(@, e)]
        /\ UNCHANGED <<file, torn, open, pc, before, up, unread, crashes>>

\* Mutant: a line is passed on as it is.
DrainLineUnchecked ==
    LET e == Head(drain.todo)
        d == [drain EXCEPT !.todo = Tail(drain.todo)]
    IN  /\ drain.on /\ drain.todo # <<>>
        /\ \/ Delivered(e) /\ drain' = d
           \/ UNCHANGED sent /\ drain' = [d EXCEPT !.kept = Append(@, e), !.failed = TRUE]
        /\ UNCHANGED <<file, torn, open, pc, before, up, unread, crashes>>

\* Mutant: a corrupt entry ends the drain.
DrainLineBreaks ==
    LET e == Head(drain.todo)
        d == [drain EXCEPT !.todo = Tail(drain.todo)]
    IN  /\ drain.on /\ drain.todo # <<>>
        /\ \/ e = Corrupt /\ drain' = [drain EXCEPT !.todo = <<>>] /\ UNCHANGED sent
           \/ /\ e # Corrupt /\ drain.failed
              /\ drain' = [d EXCEPT !.kept = Append(@, e)] /\ UNCHANGED sent
           \/ /\ e # Corrupt /\ ~drain.failed
              /\ \/ Delivered(e) /\ drain' = d
                 \/ /\ Undelivered(e)
                    /\ drain' = [d EXCEPT !.kept = Append(@, e), !.failed = TRUE]
        /\ UNCHANGED <<file, torn, open, pc, before, up, unread, crashes>>

\* One line: dropped when corrupt, kept after a failure, else sent.
DrainLine ==
    LET e == Head(drain.todo)
        d == [drain EXCEPT !.todo = Tail(drain.todo)]
    IN  /\ drain.on /\ drain.todo # <<>>
        /\ \/ e = Corrupt /\ drain' = d /\ UNCHANGED sent
           \/ /\ e # Corrupt /\ drain.failed
              /\ drain' = [d EXCEPT !.kept = Append(@, e)] /\ UNCHANGED sent
           \/ /\ e # Corrupt /\ ~drain.failed
              /\ \/ Delivered(e) /\ drain' = d
                 \/ /\ Undelivered(e)
                    /\ drain' = [d EXCEPT !.kept = Append(@, e), !.failed = TRUE]
        /\ UNCHANGED <<file, torn, open, pc, before, up, unread, crashes>>

\* Scan returns false before the last line.  Err is not looked at: what has
\* not been read counts as done.
DrainStop ==
    /\ ShortScans
    /\ drain.on /\ drain.todo # <<>>
    /\ drain' = [drain EXCEPT !.todo = <<>>, !.cut = Lines(drain.todo) \cap Records]
    /\ UNCHANGED <<file, torn, open, pc, before, up, sent, unread, crashes>>

\* The temporary file with what is kept has been renamed over the spool.
Rewritten ==
    /\ file' = drain.kept
    /\ torn' = FALSE
    /\ unread' = unread \cup drain.cut

\* Mutant: the kept records are not written back.
DrainEndEmpties ==
    /\ drain.on /\ drain.todo = <<>>
    /\ drain' = NoDrain
    /\ file' = <<>> /\ torn' = FALSE
    /\ UNCHANGED <<open, pc, before, up, sent, unread, crashes>>

\* Write what is kept to a temporary file, rename it over the spool, reopen.
DrainEnd ==
    /\ drain.on /\ drain.todo = <<>>
    /\ drain' = NoDrain
    /\ \/ Rewritten /\ UNCHANGED open
       \/ DiskFaults /\ Rewritten /\ open' = FALSE
       \/ DiskFaults /\ UNCHANGED <<file, torn, open, unread>>
    /\ UNCHANGED <<pc, before, up, sent, crashes>>

-----------------------------------------------------------------------------
(* Environment *)

LedgerUp == ~up /\ up' = TRUE /\ UNCHANGED <<file, torn, open, pc, before, drain, sent, unread, crashes>>

LedgerDown == up /\ up' = FALSE /\ UNCHANGED <<file, torn, open, pc, before, drain, sent, unread, crashes>>

\* The process dies and starts again: calls in flight are gone, the spool file
\* is reopened.  An append in progress may have written its line, whole or in
\* part; the rename of a drain has happened or not.
Crash ==
    /\ crashes < MaxCrashes
    /\ crashes' = crashes + 1
    /\ pc' = [r \in Records |-> IF pc[r] \in {"check", "send", "append"} THEN "gone" ELSE pc[r]]
    /\ \/ UNCHANGED <<file, torn>>
       \/ \E r \in Records : /\ pc[r] = "append" /\ Unlocked /\ open
                             /\ file' = WriteLine(r) /\ torn' = FALSE
       \/ /\ TornWrites /\ Unlocked /\ open
          /\ \E r \in Records : pc[r] = "append"
          /\ WriteHalf
    /\ drain' = NoDrain
    /\ open' = TRUE
    /\ UNCHANGED <<before, up, sent, unread>>

Next ==
    \/ \E r \in Records : Call(r) \/ Backlog(r) \/ Send(r) \/ append(r)
    \/ DrainBegin \/ DrainLine \/ DrainStop \/ DrainEnd
    \/ LedgerUp \/ LedgerDown
    \/ Crash

Spec == Init /\ [][Next]_vars

\* The loop drains again and again, and a record that is tried again and again
\* while the Ledger is up is read from the file and answered in the end, unless
\* the Ledger refuses it.  No call of Record needs to go on.
FairSpec ==
    /\ Spec
    /\ WF_vars(DrainBegin) /\ WF_vars(DrainLine) /\ WF_vars(DrainEnd)
    /\ \A r \in Records \ Refused :
          SF_vars(DrainLine /\ drain.todo # <<>> /\ r = Head(drain.todo) /\ Len(drain'.kept) = Len(drain.kept))

-----------------------------------------------------------------------------
(* Properties *)

\* "The caller's write is never lost, only delayed": a record whose call
\* returned nil has reached the Ledger or is in the spool file.
NothingLost ==
    \A r \in Records : pc[r] = "nil" => r \in Lines(sent) \/ r \in Lines(file)

\* Records whose call returned nil and that are nowhere, apart from those that
\* a drain whose scan ended early has rewritten away.
Lost == {r \in Records : pc[r] = "nil" /\ r \notin Lines(sent) /\ r \notin Lines(file) /\ r \notin unread}

\* Where lines are written whole, the unchecked end of a scan is the only way
\* to lose a record whose call returned nil: outages, lost confirmations, a
\* failed write, rename or reopening, a crash between any two steps and calls
\* that race with the drain delay it only.
LostOnlyUnread == Lost = {}

\* Records whose call returned an error.
Errors == {r \in Records : pc[r] = "error"}

\* A crash or a failed write in the middle of an append can take one record
\* whose call returned nil with it (the next line joins the unterminated one),
\* never more: the drain drops only that line and goes on.
LossBounded == Cardinality(Lost) <= crashes + Cardinality(Errors)

\* Records arrive in order: when a call began after another had returned, its
\* record does not overtake the other's on the way to the Ledger (Record appends
\* while there is a backlog, drain stops at the first failure).
InOrder ==
    \A i, j \in DOMAIN sent : i < j => sent[j] \notin before[sent[i]]

\* A refused record stands before r in the file: drain never gets past it.
Behind(r) == \E i, j \in DOMAIN file : i < j /\ file[i] \in Refused /\ file[j] = r

\* Once the Ledger stays up, and the spool file open, every record whose call
\* returned nil gets there, however often rewriting the file fails, unless a
\* scan that ended early has lost it or a record that the Ledger refuses for
\* good is in front of it (drain stops at the first failure, whatever it is).
DeliveredInTheEnd ==
    <>[](up /\ open) =>
        \A r \in Records \ Refused :
            pc[r] = "nil" ~> r \in Lines(sent) \cup unread \/ Behind(r)

=============================================================================
