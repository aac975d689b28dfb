# Warrant: TLA+ models, checks and proofs

Warrant issues short-lived capability tokens to agent workloads, lets holders
delegate ever narrower tokens, and decides every tool call at an enforcement
point. This directory models the parts in which its guarantees live, checks
them with TLC on small instances and proves the most important ones with TLAPS
for every instance.

## 1. The system

| Component | State | Operations | Talks to |
|---|---|---|---|
| broker service (`internal/broker/service.go`) | none of its own; everything is in the store and in signed tokens | RegisterWorkload, IssueSVID, MintRoot, Delegate, Approve, Authorize, Revoke; BlastRadius and Peek read | store, policy, Ledger |
| token store (`internal/store`) | workloads, token records, revoke list, call counters, used approvals | PutToken, FirstRevoked, Usage, Consume, UseApproval, ... over a mutex (Memory) or SQL (Postgres) | – |
| scopes (`internal/token/scope.go`) | – | Intersect, Attenuate, FirstMatch, Validate, Subset | – |
| claims (`internal/token/jwt.go`) | – | Sign, Verify, Lineage | – |
| offline chains (`internal/attenuate`) | blocks travelling with a token | Append, AppendCnf, Verify | scopes; the broker through `checkLiveChain` |
| proof of possession (`internal/pop`) | the replay store | Sign, Verify, Seen | – |
| protocol gateway (`internal/gateway`) | requests in flight | ServeHTTP, checkPoP, forward | broker, proofs, upstream |
| enforcement point (`internal/pep`) | requests in flight | ServeHTTP, checkPoP | broker, proofs, upstream |
| audit spool (`internal/ledger`) | `spool.jsonl`, a mutex, a background loop | Record, drain, Close | the Ledger service |
| policy (`internal/policy`) | a rule set, fixed at start | Parse, Evaluate, Forbids | scopes (patterns, argument constraints) |
| receipts and their key file (`internal/receipt`) | a key file shared by the processes of a host, a signer per process | LoadOrCreateSigner, Sign, Verify | – |
| license (`internal/license`) | a status cached per process | Verify, Current, Require | – |
| command (`cmd/warrantd`) | – | broker, gateway, keys show, license | builds all of the above |
| HTTP API, SDKs, adapters | – | plumbing | the broker |

What is hard here:

* Handlers run concurrently and hold no lock between two store calls. What one
  of them has read is stale when it is used (`Delegate` and the parent's
  usage; `Authorize` and the revoke list).
* One call is charged to the token, to a scope and to every ancestor. Postgres
  does it in a transaction of many statements over rows that siblings share.
* Signed credentials outlive the store: a Memory store restarts empty, while
  tokens, SVIDs and approvals are still out there.
* Delegation and offline chains cross lists of overlapping scopes, and the
  *first* matching scope decides budget and approval.
* The spool mixes direct sends with queued ones, and has to survive outages,
  lost confirmations, disk faults and crashes.
* Proofs of possession are single-use, checked with two clock readings and
  remembered in memory; a batch carries one proof for many messages.
* A blast-radius report is a recursion over many store calls without a lock.
* Scopes are intersected structurally (prefix patterns, enums, bounds), and
  every guarantee above supposes that this is the overlap of what they admit.
* Several processes create one key file, and any of them may be killed at any
  file operation.

`PROJECT.json` lists these hazards line by line with the properties that cover
them.

## 2. Modules

| Module | Models | Composes |
|---|---|---|
| `Patterns` | `scope.go` as it is written: patterns, argument constraints, subset and intersection | – |
| `Scopes` | the scope algebra, with scopes given by the calls they admit | – |
| `Policy` | rules, one turn of `Evaluate`'s loop | `Patterns` |
| `Authority` | the promise of minting and delegating, in terms of the calls admitted | `Scopes` |
| `Grants` | a lineage of tokens over written scopes and a policy; implements `Authority` | `Policy`, `Authority` |
| `Broker` | the service over its store | `Scopes` |
| `BlastRadius` | reports read store call by store call beside a running broker | `Broker` |
| `Counters` | the promise of `Store.Consume`, one atomic charge; also what Memory does | – |
| `PgStore` | `Postgres.Consume`, statement by statement; implements `Counters` | `Counters` |
| `Attenuation` | offline chains: parties, blocks and `Verify`'s walk | `Scopes` |
| `Gateway` | the gateway, proofs of possession and the replay store; the PEP is a batch of one | – |
| `Spool` | the spooling Ledger client | – |
| `Startup` | processes coming up: receipt key file, license, the gated feature | – |
| `MC*` | constants and symmetry of the runs | their module |
| `ScopesProofs` | lemmas about the scope algebra, for lists of any length | `Scopes` |
| `BrokerProofs` | theorems about `Broker` and the reports of `BlastRadius` | `BlastRadius`, `ScopesProofs` |
| `GrantsProofs` | theorems about `Grants`, and that it implements `Authority` | `Grants`, `ScopesProofs` |
| `AttenuationProofs` | theorems about `Attenuation` | `Attenuation`, `ScopesProofs` |
| `PgStoreProofs`, `GatewayProofs`, `SpoolProofs`, `StartupProofs` | theorems about the module they are named after | their module |

### Broker

A handler is cut at its store calls. `MintRoot` has one (`persist`) and then
`Issue` records the issuance and hands out the token. `Delegate` is
`DelegateCheck` (FirstRevoked and all the checks), `DelegateMeasure` (Usage and
the child's budget), `DelegatePersist` and `Issue`; `claims[t]` holds the draft
and `phase[t]` how far the call has come. `Authorize` is `AuthorizeCheck`
(`checkLive`), `AuthorizeClear` (binding, scope, policy, approval), `Consume`
and `Answer`, with its locals in `req[r]`. `Revoke`, `Approve` and the identity
calls are one step each. Refusals that change nothing are not steps; the one
refusal that is recorded (`DelegateTooDeep`) is. `Restart` may happen at any
point: handlers vanish ("lost", "wasted", "orphan"), a Memory store is emptied,
a Postgres store kept (`Durable`); the signing key is kept, as it is when
`WARRANT_SIGNING_KEY` is set. `Record` hands a record to the Ledger and may get
an error for the types in `LedgerFails`, which `service.go:128` only logs: the
handler goes on, and `ledger` keeps the record with what the call returned.

Abstractions: a scope is the set of calls it admits, a budget and an approval
flag; `Attenuate` keeps the zero Scope in the place of an intersection the code
drops (it admits nothing and has no budget); a list of scopes all of whose
intersections admit no call is refused, where the code refuses it when the
patterns are disjoint; `chain` is a set; signatures cannot be forged and ids
are fresh; policy is an arbitrary constant operator (`Permit`, `AllowDepth`);
`req[r].knew` is a history field. An approval is identified with the call it
was made out to (`ActionHash` is injective).

### Patterns, Policy, Grants and Authority

`Broker` takes two things on faith: a scope *is* the set of calls it admits,
and the policy is some operator. `Grants` computes both. A string is a sequence
of symbols (`..` and an encoding trick are symbols of their own), a constraint
a record of enum, pattern and bounds, the arguments of a scope or a call a
function on the names there are, and `Intersect`, `Attenuate`, `Subset` and
`FirstMatch` are those of `scope.go`; lists whose order does not matter
(resources, enums) are sets. `Evaluate` is one turn of the loop per step,
whoever called it: `MintRoot` starts one run for every tool and resource pattern
(`MintLookup`) and collects the largest `allow_depth`, `Delegate` one for the
child's subject, `Call` one for the call. `Authority` is the abstract
specification: a delegate holds exactly what `Scopes!Attenuate` says.
`RefinesAuthority` maps a written scope to the calls of the pool it admits, so
that the algebra `Broker`, `Attenuation` and the proofs use is the one the code
computes. It holds for *plain* scopes (`PlainAsked`, `PlainMinted`): none of
their patterns is a literal with a path escape, which no wildcard matches but
prefixes are compared with all the same. Budgets, expiry and revocation stay in `Broker`. Lineages end at
`MaxHops`, so deadlock is not checked.

### BlastRadius

`view[t]` is the frame, and later the result, of the recursive call for `t`;
`stack` are the calls under way. `Entered` is the beginning of a call (GetToken,
the clock, FirstRevoked), `ReadUsage` one turn of the loop over the lineage,
`ReadScopes`, `ReadChildren`, `Visit` and `Return` the rest. Between any two of
them the broker may take any step (`Running`); a `Restart` ends the report. The
two store calls of one turn of a loop, and GetToken, the clock and FirstRevoked
at the start of a call, are taken together: what GetToken returns never changes.
`was` is a history variable. A finished report is looked at before the next step
and then forgotten.

### Startup

A process is `Start`ed once as broker, gateway or `keys show`. `Build` is
everything before the receipt key; `LoadSigner`, `ReadSeed`, `WriteTemp`, `Link`
and `Unlink` are the file operations of `LoadOrCreateSigner`, cut where another
process can come in between; writing the temporary file is one step because
nobody else sees it before the link. A key is named after the process that made
it. `Ready` and `Require` are the end of `main` and `runGateway`; routes and
addresses that cannot be used are faults of `Listen`. `Kill` at any step leaves
the temporary file behind. `Restore` is an administrator copying a key to where
there is none, during which the file is unreadable. The clock ticks in units of
the grace period. Power failures that lose a directory entry are not modelled.
Processes end and nothing forces a new one, so deadlock is not checked.

### Counters and PgStore

`Counters` charges a call in one step, refuses it, or fails. `PgStore` runs
transactions at READ COMMITTED: lock the rows of the lineage in id order
(`LockRow`), read the scope's counter (`ReadScope`), read the totals
(`ReadTotal`, in any order), increment and commit (`Commit`). Uncommitted
increments are invisible, so they are part of the commit. A transaction may
fail at any statement, and a commit may succeed without its answer arriving.
`RefinesCounters` states that `PgStore` implements `Counters` on the variables
they share.

### Attenuation

Parties (one key each) append blocks, hand chains on, and present any sequence
of blocks they have seen under any base token they have seen. `VerifyBlock` is
one turn of `Verify`'s loop. A signature is a number drawn once. An empty scope
list or a zero expiry is absent from the JSON and so means "no restriction".
`Verify` is pure and runs to its end on one clock reading, so a behaviour
contains one run of it, after all the parties' steps; that is why deadlock is
not checked there.

### Gateway

`Receive` is a parsed request with a batch; the loop takes one message per
step: `Passthrough`, `Nameless`, `Authorize` (the broker allows, and has
charged, or denies) followed for a holder-bound token by `Verify` and `Seen`,
which read the clock separately, as `pop.Verify` and `MemoryReplayStore.Seen`
do. `Forward`, `ForwardFails` and `AnswerAlone` are the end of the handler. The
replay store keeps the ids; the expiry it stores is the proof's. Contents of
messages and of a filtered tools/list are left out. Clients may stop sending,
so deadlock is not checked.

### Spool

`Call`, `Backlog`, `Send` and `append` are the steps of `Record`; `DrainBegin`,
`DrainLine`, `DrainStop` and `DrainEnd` those of a drain, which holds the mutex
throughout. `Undelivered` includes the lost confirmation, and records in
`Refused` are never accepted: any answer but 201 is an error to the client.
`DrainStop` is a scan that ends before the last line, at a read error or at a
line over 8 MiB (`ShortScans`): the code does not look at `Err`, takes the rest
for done, and rewrites the file without it. `unread` is a history variable: the
records that were rewritten away like that. `Crash` restarts the process at any
point, in the middle of an append too. With `TornWrites` a write may stop half
way, with `DiskFaults` writing, syncing, renaming or reopening may fail. The
model is of process crashes; a power failure that loses a rename is not in it.

*Assumption: one process per spool directory.* The mutex is inside the process,
and nothing locks the file. A broker and a gateway started with the same
`LEDGER_SPOOL_DIR`, or in one working directory with the default
`./data/ledger-spool`, open the same `spool.jsonl` (`ledger.go:68-75`). When one of
them renames a rewritten file into place (`spool.go:179`), the other goes on
appending to the old one, which nobody else reads, and its own next drain
renames a rewrite of that old file over the new one; both may drain the same
lines, and both write to the same `spool.jsonl.tmp`. Acknowledged records can be
lost, duplicated and reordered then. None of what is checked or proved here is
about that; give each process a directory of its own, as `scripts/e2e.sh` does.

## 3. Runs

| Run | Shows | Bounds |
|---|---|---|
| `broker_calls` | `SharedBudget`, `ScopeBudget`: racing calls cannot overspend a root or a scope; `ApprovalEnforced`: the requirement survives delegation, one approval per call; `RevocationIsFinal` over an emptied store; `AuditTrail` with issuances that the Ledger fails to take | 2 tokens, 2 calls in flight, 1 approval, a scope list with and without approval, an asked budget of -1, 1 tick of the clock at which SVIDs, tokens and approvals expire and the policy's hours end, Memory |
| `broker_report` | `ReportBounded`, `ReportNested`, `ReportComplete`; `DelegationNarrows` beside it | 2 tokens, two overlapping scopes under a budget of 1, 1 call, 1 tick of the clock, lifetimes of 1 and 2, asked depths and ttls below zero and over the limits, revocations, a Memory store that restarts |
| `pg_consume` | `WithinLimits`, `NoCircularWait`, `RefinesCounters`, `ConsumeReturns` | 3 transactions on a root and two delegates whose ids lie on both sides of the root's, root budget 1, one scope each but none of the root |
| `chain_verify` | `EffectiveNarrows`, `HolderConsents`, `GenuineChain` | 2 blocks, 2 base tokens, overlapping and reversed scopes, 2 parties, all sequences of blocks |
| `gateway_requests` | `AnsweredTruthfully`, `ExecutedAuthorized`, `ProofOncePerLife`, `RequestAnswered` | 2 requests of 2 messages with different and equal ids, notifications and every kind, bearer and bound tokens, 1 proof, pruning at every entry, expiry, a restart |
| `gateway_covers` | violation: one proof does not cover a batch | 1 request of 2 calls |
| `spool_safe` | `LostOnlyUnread`: only a scan that ends early loses a record; `DeliveredInTheEnd`: what is not lost arrives unless a refused record is in front of it; with outages, disk faults and a crash | 3 records, one of them refused for good |
| `spool_torn_bound` | `LossBounded`, `InOrder`: a half-written line costs one record and lets none overtake, scans that end early included | 3 records, 2 crashes |
| `spool_torn` | violation: a half-written line takes the next record with it | 2 records |
| `grants` | `RefinesAuthority`, `AttenuatedSubset`, `DenyOverrides`, `MintedUnderPermit` | a root and 2 delegations; 3 root and 4 requested lists with wildcards, literals, enums, patterns and bounds; 4 policies with forbids, conditions and allow_depth; 18 calls, path escapes among them |
| `grants_escape` | violation: a delegate admits a call its parent does not (`DelegatesWithin`) | the same, and one requested literal `a/..` |
| `startup` | `OneKey`, `NeverOverwritten`, `FileIsUsed`, `LicenseGates`, `CoreStarts` | 2 processes of 5 command lines, 3 licenses, 3 beginnings of the key file, 1 fault, kills, 2 ticks |

Each type invariant is checked in one run of its module. The bounds are the
smallest in which the cases meet: one call more than a budget allows, a parent
with a delegate (grandchildren are in `grants`, and the theorems have no
bound), siblings on both sides of their parent in lock order, a report that is
overtaken by a call, a revocation and the clock, pruning as often as possible
(the code prunes every 256 entries), a winner and a loser of the race for a key
file, two blocks that cut one another's result, one record more than a
drain needs to show an overtaking. Ids, requests, records and proofs are
interchangeable, which is what the symmetry sets say; runs of liveness
properties use none.

Fairness. `PgStore!PgFairSpec` and `Gateway!FairSpec` say
that a handler or a transaction that can go on does: goroutines are scheduled,
the database runs what is not blocked, and HTTP calls have a timeout. No client
is assumed to do anything. `Startup!Spec` says the same of a process that has
been started: its steps wait for no other process. `Spool!FairSpec` says that the
background loop drains again and again and that a drain goes on to its end; and
it assumes, by strong fairness, that a record which is not refused and which is
tried again and again while the Ledger is up is read from the file and accepted
in the end (neither the network nor the disk fails every time). Nothing is
assumed of the calls of `Record`: a caller may stop anywhere.

### Where code and documentation differ

Shown by a run:

* The spool promises that no record is lost; after a write that stopped half
  way the next record shares its line and is dropped with it (`spool_torn`).
* The README promises one proof check per gateway request; the code checks per
  message, so a holder-bound batch gets one call through and pays for all
  (`gateway_covers`).
* `PatternSubset` promises that every string the child's pattern matches is
  matched by the parent's, and `Attenuate` that its result is a subset of the
  parent (`scope.go:63`, `scope.go:420`). They compare prefixes only, so a
  literal such as `a/..` counts as within `a/*`, where `Match` refuses it: a
  delegate that asked for the literal admits a call its parent does not
  (`grants_escape`). The other runs and theorems about written scopes suppose
  that nobody asks for such a literal; calls may have them.

Not modelled: two processes on one spool file, which the README of Warrant
(`src/README.md:236-239`) invites by naming `LEDGER_SPOOL_DIR` among the variables
that a gateway shares with the broker (see Spool above).

Visible in the models, and the reason some properties are worded as they are:

* `Delegate`'s comment promises a budget within the parent's remaining one;
  usage is read before the child is stored, and a call may come in between.
  `SharedBudget` holds all the same.
* The replay store promises that a proof is accepted once; one that expires
  between the clock readings of `Verify` and `Seen` passes again.
  `ProofOncePerLife` therefore counts only acceptances before the expiry.
* `attenuate` promises that blocks cannot be dropped; the last ones can.
  `GenuineChain` therefore admits the beginning of a chain.
* An `enum: []` without `enum_set` admits nothing, but is omitted from the signed
  JSON (`omitempty`) and then restricts nothing; the pools hold none.
* A rule's `allow_depth` is documented for permits on "delegate"
  (`policy.go:33-35`); only `MintRoot` reads it. `MintedUnderPermit` says what it
  does there.
* The gated feature follows the license at the start of the process: a gateway
  that runs past the grace period goes on filtering. `LicenseGates` therefore
  speaks of that moment.
* The tools/list filter asks `FirstMatch` with the resource `*` and no arguments
  (`gateway.go:410-456`): tools allowed on narrower resources or with constrained
  arguments only are hidden, where the README says "structurally allow".
* `drain` promises that "nothing is lost" (`spool.go:120`) and SECURITY.md that
  Ledger writes are "never silently dropped"; a scan that ends early drops what it
  has not read. `LostOnlyUnread`, `LossBounded` and `DeliveredInTheEnd` set those
  records apart, and `NeverLost` supposes that scans reach the end.
* A record that the Ledger refuses for good (a 4xx answer) is tried again for
  ever and holds up all records behind it. `DeliveredInTheEnd` says so.
* An error of `Ledger.Record` is logged and the operation goes on
  (`service.go:128`): a token is handed out whose issuance no record shows.
  `AuditTrail` says that there is no other way to get such a gap.
* When reopening the spool file fails, `backlog` reports none and records are
  sent past those in the file until the next start: `InOrder` is checked over a
  disk that reopens, `DeliveredInTheEnd` supposes an open file.

## 4. Proofs

The theorems have no bound on tokens, requests, processes, records, blocks,
generations, time, crashes or restarts. Each rests on the named assumptions on
the constants of its module, which every run of that module evaluates, and on
nothing else unless its statement says so. A theorem `Spec => []P` is shown with
an inductive invariant: P alone is seldom one.

### Scopes

`ScopesProofs` holds what the broker and the offline chains both need: the types
of `Attenuate`, `FirstMatch` and `sumCalls`; the arithmetic of places (which
requested and which parent scope place k of `Attenuate`'s result stands for);
and `AttenuateNarrows`: the scope that decides a call after `Attenuate` is cut
from the very parent scope that decided it before, with no larger budget and no
lighter approval. It needs the parent's scopes to be `Budgeted` (one that admits
a call has a budget): otherwise an empty intersection would be skipped and a
later, looser scope would decide. `Attenuate` keeps lists `Budgeted`.

### Broker

From finite id sets, scope lists made of scopes, integer requests and a natural
configuration:

* `TypeCorrect` (`TypeOK`). One step per action, on top of what the budget
  operators return for any request, negative ones included. `TypeOK` carries the
  two facts that make it inductive: a draft names its parent, and a request in
  flight names its token.
* `BudgetShared` (`SharedBudget`). The property counts calls and `Consume`
  compares counters. `Accounts` connects the two: the counter of a stored token
  is exactly the number of charged calls in its subtree; a token that is not
  stored (not yet, or lost with a Memory store) has counter zero, and its
  subtree's calls cannot grow because `Consume` needs the records of the whole
  lineage; stored tokens and chains are among those once persisted, so a fresh
  id starts with no calls.
* `ScopeBudgetKept` (`ScopeBudget`). `ScopeAccounts` is the same for the calls
  through one scope of one token.
* `RevocationFinal` (`RevocationIsFinal`). `Revocations`: a token that was
  ever revoked still is, or is not in the store, to which it cannot return; so a
  live request whose lineage it is in lacks a record that `Consume` needs.
* `AuditTrailComplete` (`AuditTrail`). `Trail`: for an issued token
  `Ledger.Record` has returned, with or without an error, and the tokens of a
  chain were all issued. `AuditTrailWhole`, which is `"issued" \notin LedgerFails =>
  (Spec => []WholeTrail)`: where issuances do not fail, none is missing. The
  hypothesis is needed, since a failed one stops nobody.
* `DelegationOnlyNarrows` (`DelegationNarrows`). `Generations` speaks of drafts
  too, which `Delegate` changes between its store calls: a draft's chain is its
  parent's lineage, and scopes are `Budgeted`. `Narrower` is transitive.
* `ApprovalsEnforced` (`ApprovalEnforced`), from `Generations`: an approval that
  an ancestor's deciding scope asks for is asked for by the token's own. Two
  requests with the same approval are never both charged (`Apart`), over restarts
  too: a store that forgot the approval was used forgot the token it is for.

What a step does to one token, one request, the store and the ledger is summed
up once (`TokenStep`, `RequestsStep`, `StoreStep`, `LedgerStep`), so that these
invariants need no case split over all actions.

### Reports

From the broker's assumptions, for reports over trees of any size:

* `ReportOnlyReads`: a report beside the broker is a behaviour of the broker, so
  everything proved of `Broker` holds while one runs. `BrokerInv` collects it.
* `ReportsBounded` (`ReportBounded`), `ReportsNested` (`ReportNested`) and
  `ReportsComplete` (`ReportComplete`), from `ReportInv`. Its parts say where a
  recursive call stands (`Calling`, `Placed`, `Called`), what it has read so far
  (`Reading`, `Measured`, `Scoped`), and which children it still has to visit or
  has in its answer (`Branches`, `NoneMissing`).

Two facts carry the argument. While a report runs there is no restart, so the
store only gains tokens, revocations and charges (`Calm`): what a call has read
is an upper bound of what is left now, and stays one. And each call reads its
whole lineage after its caller has read its own: the counter that gave the
caller its number is read again and has not become smaller (`Within`), which is
why a child's number never exceeds its parent's although no lock is held.

### Postgres store

`PgTypeCorrect`, `LimitsKept` (`WithinLimits`), `PgImplements`
(`RefinesCounters`) and `NoDeadlock` (`NoCircularWait`), for a finite table
(`TableAssumption`) and any lineages. The invariant (`PgSerial`) says who holds
which row locks, that no row has two holders, and that what a transaction has
read of its locked rows is still what is committed: that is why charging at the
commit is one atomic step of `Counters`. For `NoDeadlock` take the caller of a
waiting set that waits for the largest id: whoever holds that row waits only for
a larger one.

### Offline chains

For any base tokens whose scopes are `Budgeted`, which the broker guarantees:

* `ChainTypeCorrect` (`ChainTypeOK`).
* `ChainsNarrow` (`EffectiveNarrows`). `Within` is the property at every block
  of the walk: the scope in force that decides a call has for its origin the
  base scope that decides it. `AttenuateNarrows` is the step.
* `HolderHasConsented` (`HolderConsents`). `Consent`: the blocks passed so far
  contain the consent.
* `AcceptedIsGenuine` (`GenuineChain`). `Genuine` is about all chains that exist:
  each is linked block by block, and a signature determines its block and
  everything before it. `Known` is about the walk: it passes only blocks of the
  presenter, and those passed are the beginning of one of its chains. A linked
  block has to be the next one of such a chain (`LinkedKnown`).

### Gateway

`GatewayTypeCorrect`, `NothingUnauthorized` (`ExecutedAuthorized`),
`AnswersTruthful` (`AnsweredTruthfully`) and `ProofsAcceptedOnce`
(`ProofOncePerLife`), for batches of any length. `Handled` ties the place a
handler has reached to what it has done: messages before the current one are
refused with an answer or queued for the upstream, what is queued has been
allowed and, for a bound token, has an accepted proof of its own. `Fresh`
counts: an unexpired proof that is not in the replay store has been accepted in
earlier lives only.

### Spool

* `SpoolTypeCorrect` (`SpoolTypeOK`).
* `OnlyUnreadLost == ~TornWrites => (Spec => []LostOnlyUnread)`. `Draining` says
  what a drain under way owes: the lines it is past are junk, delivered, kept, or
  cut off by the end of the scan. `LossStep` says what a step can lose.
* `NeverLost == ~TornWrites /\ ~ShortScans => (Spec => []NothingLost)`, the promise
  of `spool.go`. Both hypotheses are what the code needs: without the first
  `spool_torn` is the counterexample, without the second a single `DrainStop` is.
* `LossAlwaysBounded` (`LossBounded`), torn writes and early ends of a scan
  included; what the latter lose is not counted. `Paid` adds the unterminated
  line to the account: the next record it may take along is paid for by the
  crash or the error that left it.
* `ArrivesInOrder == ~DiskFaults => (Spec => []InOrder)`, torn writes and
  crashes included. `InTurn`: in the file and among the kept lines a record comes
  after those it must not overtake. The hypothesis is what the code needs: when
  reopening the file fails, `backlog` reports none while lines are waiting.

### Startup

For any number of processes, `Keys` distinct from the marks of a missing or bad
file:

* `StartupTypeCorrect` (`StartupTypeOK`), with what a process has by the place it
  has reached (`Local`).
* `KeysAgree` (`OneKey`), `KeyFileKept` (`NeverOverwritten`, an action property)
  and `FileAlwaysUsed` (`FileIsUsed`), from `KeyHeld`: a process that linked its
  seed finds that seed in the file, one that lost the race finds a file, and a
  key in use is the key in the file.
* `LicenseEnforced` (`LicenseGates`), from `Gates`: `Require` is asked exactly
  where there is a filter.

### Grants

For any policies, scope lists, calls and hours of the right types
(`GrantsAssumption`, `PatternsAssumption`, `ConstraintAssumption`,
`NoneAssumption`), any depth of delegation, and strings, enums and lists of any
length:

* `GrantsTyped` (`GrantsTypeOK`): what an intersection leaves is again a
  well-formed scope (`CommonValid`), so every token's scopes pass `Validate`.
* `DenyAlwaysOverrides` (`DenyOverrides`), from `Evaluated`, the loop invariant
  of `Evaluate`: no rule before the current one that matches forbids, and the
  permit kept is one with the largest `allow_depth`.
* `AttenuationIsSubset` (`AttenuatedSubset`), `DelegatesStayWithin`
  (`DelegatesWithin`) and `MintsArePermitted` (`MintedUnderPermit`), if nobody
  asks for an escaping literal (`PlainAsked`). `Descends`: every scope of a
  delegate is `ScopeBelow` one of each ancestor, by structure *and* by what it
  matches; neither alone is preserved by the next intersection, which compares
  structure. `Permitted` is about the root: what `MintRoot` no longer has to look
  up is covered by a permit, which covers what the pattern matches because a
  well-formed pattern has its star at the end (`LookupCovers`).
* `AuthorityRefined` (`RefinesAuthority`), if no escaping literal may be minted
  either (`PlainMinted`). `CommonExact`: two plain scopes admit a call exactly when
  their intersection does, so a dropped intersection admitted nothing.
  `GrantedMeanings` and `AttenuatedMeanings` lift this to lists: `Attenuate`
  flattens a list per requested scope, `Authority` computes places by division;
  both are `Over`, a flattening that distributes over concatenation
  (`OverOver`). The invariant `PlainHeld` says that scopes stay plain, which an
  intersection of plain ones is.

The two hypotheses are what the code needs: `grants_escape` is the
counterexample without the first. The instance of `grants` satisfies both.

The folds are recursive functions of the library. Facts about them are proved by
taking the least place at which they would fail (`LeastOf`), since an induction
theorem that takes an operator cannot be used.

### Only model-checked

* Liveness: `ConsumeReturns`, `RequestAnswered`, `DeliveredInTheEnd`,
  `CoreStarts`. The prover does not reason about fairness and ENABLED.
* What a run shows by being violated: `NothingLost` with torn writes,
  `ProofCoversRequest`, and `DelegatesWithin` with an escaping literal.

## 5. Plan

Done: sections 2 to 4. What is left, in this order:

1. `Broker`: accept offline chains in `Authorize` and `Delegate`
   (`checkLiveChain`, `ScopeOrigins`).
2. Peek and the filtered tools/list, as a composition of `Gateway` with `Broker`;
   the PEP's routing by longest pattern.
3. `Broker` over `Grants`: one module in which the calls a scope admits and the
   policy are the computed ones. Until then `AuthorityRefined` and
   `DelegationOnlyNarrows` meet in `Scopes!Attenuate`.
4. Two processes on one spool file: `Spool` with a handle per process, on the
   current file or on one that was renamed away.

Not modelled and not planned: JSON, HTTP and JWT encoding, Ed25519 and hashing
(taken as injective and unforgeable), receipts' canonical form and verification,
what `license show`, `license verify` and `SeatWarning` print, the rules
`policy.Forbids` adds to a report (those that `matches` could accept), SDKs,
adapters, the license generator, benchmarks and scripts.
