# A TLA+ model of the Stellar Agent Guard SDK

This directory holds TLA+ specifications of the stateful parts of the SDK in
`src/src/`, the TLC configurations that model-check them on small instances, and
proofs, checked by TLAPS, of theorems that hold for every value of the constants.
File and line references are to the repository (`telemetry.ts` means
`src/src/telemetry.ts`).

Contents: [1 inventory](#1-the-system), [2 modules](#2-the-modules-and-the-code),
[3 runs](#3-the-runs), [4 fairness](#4-fairness), [5 proofs](#5-proofs),
[6 disagreements](#6-where-the-code-and-its-documentation-disagree),
[7 what is left out](#7-what-is-not-modelled), [8 plan](#8-plan).

## 1. The system

The SDK puts an on-chain guard contract between an agent and its Stellar account.
It is one single-threaded JavaScript library: its concurrency is between async
tasks that interleave at `await`, and between those tasks and the RPC server, the
network, the durable stores and the host program.

| Component | State it keeps | Operations | Talks to |
|---|---|---|---|
| Event watch, `telemetry.ts` (`GuardTelemetryListener.watch`) | stream lease, health, counters, processed failed-tx hashes, two durable cursors; per stream: the page loop's cursors, the pump's buffer and counters, the parked consumer | `watch`, the pump's pulls, page polls with retry, failed-tx scan, delivery, cursor saves, abort, break, teardown | RPC `getLatestLedger`/`getEvents`/`getTransactions`, cursor stores, the host's `for await` loop |
| Merged stream, ring buffer, deduplicator, counters, `telemetry.ts` | two iterators and their pending `next()`s; bounded id sets | `watchAll`, `mergeGuardEventStreams`, `push`, `record` | the watch above, mempool events |
| Invoke pipeline, `invoke.ts`, `tx.ts` | per (server, account): promise-chain queue and last reserved sequence number; per call: attempt, retry counters, deadline | `invoke`, dry run, `enforceCall`, `submitAndPoll`, retry and fee-bump loop | RPC, signers, the network |
| Heartbeat and dead man's switch, `heartbeat.ts`, `dms.ts` | slot clock, in-flight beat, status, stop flag | `startHeartbeat`, beat loop, retries, slot skipping, `stop` | invoke's admin calls, host callbacks |
| Preflight, `preflight.ts`, `semaphore.ts` | LRU + TTL cache, in-flight map, cache epoch, permits and waiters | `check`, `checkBatch`, `invalidate`, `acquire`/`release` | `enforceCall`, RPC |
| Policy, `policy*.ts`, `fs.ts`, `admin.ts` | none of their own; the object an operator edits, its file, what the guard stores | build, freeze, to and from JSON, encode, submit, fetch, validate (three ways), diff | RPC, the guard contract, files |
| Cost, `cost.ts` | none | estimate, budget check | preflight |
| Events, reasons, errors | none (decoding tables) | decode, explain | - |
| Adapters, `adapters/*.ts` | none beyond a call | map a tool call, check, stage a batch, run or refuse, alert | preflight, agent frameworks, the host's hooks |
| Admin, transport, wasm, files, logger | none | one-shot calls | RPC, file system |

What is hard in it, and what each component must get right:

- *Watch.* A background pump fetches ahead of the consumer, so the cursor that is
  saved, the page in the consumer's hands, the pages in the buffer and the position
  of the fetcher are four different places. A crash, abort, `break` or rejected save
  can fall between any two. It must be bounded (never more than
  `maxBufferedPages`), must not lose wake-ups, must deliver in order, must never let
  the durable cursor pass what the consumer has not come back from, and must end on
  an abort though a request cannot be cancelled. A torn-down source lives on beside
  the next stream and writes what both share.
- *Invoke.* A call's task outlives the caller's timeout, waits in a queue of
  promises, reserves a sequence number from a snapshot that may lag, and retries.
  One invocation of an account at a time; no sequence number (it is also the guard
  authorization's nonce) twice; a retry only when the attempt before it can no
  longer take effect; a queue that drains.
- *Heartbeat.* A beat may outlast its interval, settle after `stop()`, or be
  retried when it landed; the switch must not expire while beats succeed.
- *Preflight.* A shared run may settle after the cache was invalidated; permits are
  held over requests that may hang; waiters give up.
- *Merge.* Two racing iterators, one-sided end or failure, closing one while it has
  a request in flight; bounded memory in the deduplicator.
- *Counters.* A window of decisions over a clock that may run backwards.
- *Adapters.* No tool may run without an admissible verdict, whatever throws; the
  calls of a batch must fit the rolling window together; a refusal is alerted once.
- *Policy.* Five hand-written conversions and three hand-written validators of one
  set of rules must agree with each other and with the contract.

The list with lines and the properties that cover each is `hazards` in
`PROJECT.json`.

## 2. The modules and the code

| Module | Models | Role |
|---|---|---|
| `TelemetryWatch` | `telemetry.ts`: `watch`, `watchStream`, `boundedPagePump`, cursor stores, lease, health | detailed specification |
| `CursorDelivery` | what a resumable stream promises | abstract specification |
| `WatchDelivery` | refinement mapping | TelemetryWatch => CursorDelivery |
| `MergedStream` | `telemetry.ts`: `watchAll`, `mergeGuardEventStreams`, `BoundedEventDeduplicator` | specification |
| `DecisionWindow` | `telemetry.ts`: `GuardEventRingBuffer`, the counters behind `stats()` | specification |
| `Invoke` | `invoke.ts` and `submitAndPoll` of `tx.ts`, one account, its network | detailed specification |
| `CallOutcome` | what `invoke()` promises about one call | abstract specification |
| `InvokeOutcome` | refinement mapping | Invoke => CallOutcome |
| `Heartbeat` | `heartbeat.ts`: `startHeartbeat`; `dms.ts`; the contract's switch | specification |
| `Preflight` | `preflight.ts`: `check`, its cache and coalescing; `semaphore.ts` | specification |
| `ToolGate` | `adapters/*.ts`, `assertAllowed`, `assertBatchAllowed`, `checkBatch` | specification |
| `PolicyForms` | the forms of a policy, their conversions, validators and diff | operators |
| `PolicyLifecycle` | an operator's session with them and with the guard | specification |
| `MCTelemetryWatch`, `MCMergedStream`, `MCDecisionWindow`, `MCInvoke`, `MCPreflight`, `MCPolicyLifecycle` | constants and symmetry of the instances | TLC |
| `TelemetryWatchProofs`, `InvokeProofs`, `HeartbeatProofs`, `PreflightProofs`, `MergedStreamProofs`, `DecisionWindowProofs`, `ToolGateProofs`, `PolicyProofs` | theorems about the modules they are named for (`PolicyProofs`: about `PolicyLifecycle`); the two refinements, and what `CursorDelivery` promises, are in the first two | TLAPS |

How they compose: `WatchDelivery` puts `TelemetryWatch` under `CursorDelivery`,
`InvokeOutcome` puts `Invoke` under `CallOutcome`. `ToolGate` uses of `check()` only
that it rules as the ledger stands or cannot rule; `Preflight` is the model of
`check()` itself. `MergedStream` uses of `watchStream()` only where it can be
between two `next()`s. `Heartbeat` uses of `invoke()` only that a submission may
land, be lost, be answered or not, in any order, which is what `CallOutcome` leaves
open.

`PROJECT.json` maps every definition to the lines it translates. Definitions whose
comment begins with *Mutant* are not part of a specification: each is a plausible
wrong version of the definition that follows it, used to confirm that the
properties can fail.

### TelemetryWatch

An action is the code between two awaits. The event loop runs microtasks before
macrotasks: `Quiescent` (no microtask is pending) guards every step that a timer,
`setImmediate` or an RPC answer starts. Per stream,

- `src` is where the page loop's generator is: `load` (cursor stores), `head`
  (startup `getLatestLedger`), `poll`, `failedTx` (the scan of failed
  transactions), `yield`, `sleep` (poll delay), and the backoffs `headWait` and
  `pollWait`;
- `pump` is where `runPump` is: none, pulling, one microtask turn after a push,
  or the macrotask of grace before a speculative pull;
- `con` is where the consumer is: parked behind its resolver, at the loop top, in
  the host's loop body (`handling`, or `busy` awaiting something slow), or in one
  of the two saves.

Positions are ledger numbers; a page is the stretch of ledgers it covers, and its
events are the ledgers of `EventLedgers` in it. Retry, terminal failure, teardown
(both `finally` blocks, the `source.return()` nobody awaits), `watch()` after a
stream has ended, and a process restart that keeps only the cursor stores are
actions. `pos`, `origin`, `failedOrigin`, `acked` and `failedAcked` are history
variables of the properties.

### MergedStream

The merging generator is at `gen`: racing its sources, emitting a page or batch,
suspended at a yield, or in one of the two closes of its `finally`. `pull[s]` is the
`next()` on source `s`: none, pending, ready, over or failed; `winner` is the arm
that settled the race (the abort is one). The committed source is `watchStream()` in
the mode that saves its cursor when it is pulled again, so pulling it before the
page in hand has been consumed would checkpoint that page. `emitted` is the
de-duplicator's insertion-ordered queue; ids are distinct from positions, so pages
may overlap and a batch may be fed again. A crash keeps the stored cursor.

Of the page loop only the sleeps are raced with the signal; a poll, a scan, a store
call is awaited as it is. So after an abort `FetchPage` may still yield a page,
`SaveCursor` still saves and then ends the loop, `SourceEnds` and `SourceFails` are the
answers that end it, and until one of them comes `CloseCommitted` waits. Either source
may reject its `next()`. `CloseDiagnostics` is the caller's source answering
`return()`, at a time of its own.

### DecisionWindow

`ring` is the three fields of `GuardEventRingBuffer`; `entries`, `counts`,
`streams` and `high` are the counters. One call reads the clock once, and the
reading is any value: the code keeps a high-water mark and reacts to a rollback.
The property compares `recent()` and `stats()` with the whole history of the feed
(`seen`, `fed`, `readings`), which the code does not keep.

### Invoke

`at[c]` names the promise the task of call `c` awaits; an action is all the task
does when that promise settles. `Invokes` go through the account's promise chain
(`tail` is `AccountState.queue`, `behind[c]` the promise `c` awaits); `Probes` are
dry runs and direct `enforceCall()`s, which reserve a number without queueing. The
caller's race (`withRpcAbort`: signal, `timeoutMs`, deadline timer) is
`CallerLeaves`: it answers the caller and, as in the code, touches nothing of the
task. `Expire` lets the overall deadline pass at any moment; each stage then looks
at it where the code calls `assertWithinDeadline`, and nowhere else: an approved
call is dropped, a refusal is still returned, an envelope being signed is still
broadcast. The network part holds the ledger (included transactions, whose index is
the sequence number they consumed) and a mempool; `sendTransaction` may be
rejected, lost after acceptance or answered; a transaction may be included long
after everybody stopped polling. A transaction is its call and sequence number;
fees, envelopes, authorizations and hashes do not decide a property. The general
and the fee attempt counters are equal in every state of the code, so there is one.

The abstract `CallOutcome` says of each call: at most one effect; "success" only
after it; after "failure" (`blocked`, or a spent retry budget) no effect ever. Every
other outcome is "unknown". `InvokeOutcome` maps an effect to a successful
transaction of the call on the ledger.

### Heartbeat

`loop` is the await `startHeartbeat()` or its loop is at: the start check, the wait
for `deadline`, a submission, a backoff. A submission is `sent` (flying, landed,
lost) and, once the loop has given it up, `adrift`: it may still land. `stop()` is a
second caller that waits for the loop, for ever or bounded, and is answered by
`StopCompletes` or `StopGivesUp`. Time is ticks; the contract, and the code's check
for a second beat in one second, count whole seconds, hence `TicksPerSecond`.
Expiry, time remaining and urgency (`dms.ts`) are operators on the state. `origin`,
`served` and `failures` are history variables. The one-shot `heartbeat()` is one
`invoke()` and a read.

### Preflight

A check looks the latest ledger up, reads the cache, joins the run in flight for its
key or starts one; a run is named by the check that started it. `stage[c]` is where
the task of that run is (`simulateLimited`: queued for a permit, simulating, in a
429 backoff) and `live[c]` whether its decision is still awaited: the two differ
when a bound fires, because the task then goes on and keeps its permit. `cache` is
the `Map` in insertion order, `waiters` the semaphore's queue. A policy change on
the ledger, a lagging node, `invalidate()`, expiry of an entry and abandonment of a
check happen at any moment.

### ToolGate

A request is one of the adapters or a host assertion with the options it was built
with. `phase` walks what the code does: map the action, check each call, stage the
transfers of a batch against the policy and window (read from the ledger unless
supplied, either read may fail), conclude, alert, run or refuse. Rulings,
`observed`, `alerts` and `logged` are kept because the properties relate them to the
outcome. Hooks may throw; the ledger may move once in between.

### PolicyForms and PolicyLifecycle

`PolicyForms` has one operator per function of the policy code, on records whose
fields may be absent, null, numeral strings or junk where JavaScript lets them; wire
integers have small widths (`I128Max`, `U64Max`, `U32Max`) so that the largest value
and the first too large are both there. A failed rule is a pair of field and rule
identifier, as the code returns. `PolicyLifecycle` has the object being edited
(`current`), the policy file and the stored struct, and an action for each way
between them. `meant` records for each what its object said when it was last edited.

## 3. The runs

| Run | Instance | Shows |
|---|---|---|
| `WatchRestart` | 2 streams with a restart between, 3 ledgers, buffer 2, 1 retry, failed-tx scan, busy consumer, slow stores | `TypeOK`, `LookAheadBounded`, `NoLostWakeup`, `CountedAtMostOnce`, `CursorNeverLeads`, `FailedTxNeverLost` |
| `WatchLive` | 2 streams on one listener or over a restart, 2 ledgers, buffer 2, busy consumer; fairness | `KeepsPromise` (refinement of `CursorDelivery`), `AbortEndsStream`, `ParkedIsServed`, `LedgersAreDelivered` |
| `MergedStream` | 2 streams, 3 pages of which two overlap, 2 batches of which one is fed again, a de-duplicator of 2, either source failing, crash; fairness | `TypeOK`, `OncePerWindow`, `MergedCursorNeverLeads`, `AbortEndsMerge` |
| `CountersAndRing` | 4 calls, ring of 2, window of 2 decisions or 1 ms, clock readings 0 to 2 in any order | `WindowsAreExact` |
| `InvokeQueue` | 2 invocations and a dry run, 1 attempt each, RPC lagging by 1, 1 foreign transaction; symmetric in the invocations | `TypeOK`, `QueueExclusive`, `NoSequenceReuse` |
| `InvokeLive` | 2 invocations, 2 attempts of either kind, deadline; fairness | `KeepsPromise` (refinement of `CallOutcome`), `QueueDrains`, `DeadlineHolds` |
| `HeartbeatCadence` | intervals 0, 1, 4 and 5 ticks at 2 ticks a second, grace 6 s, 2 attempts, late timers and slow beats by 1, 4 slots; fairness | `TypeOK`, `SlotsAccounted`, `NoFalseBeat`, `SwitchHolds`, `WarnedInTime`, `NothingSentAfterStop`, `StopIsAnswered` |
| `PreflightCache` | 3 checks (one with an observer) of 2 calls, 1 permit, 1 cache entry, 2 ledgers, lag 1; symmetric in calls and in plain checks | `TypeOK`, `PermitsConserved`, `VerdictIsCurrent`, `OneRunPerCall`, `AbandonedSendsNothing` |
| `ToolGate` | every adapter and option, up to 3 calls of amount 1, window cap none or 2 | `TypeOK`, `FailsClosed`, `AdmittedBatchFits`, `HaltsAreReported` |
| `PolicyLifecycle` | 2 edits of a small policy, every order of conversions | `MeaningKept`, `ValidatorsAgree`, `DiffIsExact` |
| `WatchFailedTxLoss`, `PolicyFreeze` | smallest instance with the counterexample | section 6 |

Bounds and why they suffice.

*Watch.* Two streams are the least that have a successor: a dead stream's source
beside a live one, a restart, a second load of the cursors; the first must have both
a delivered and an undelivered page, hence three ledgers and a buffer of two (a page
in hand, one buffered, one in flight). Events are at ledgers 1 and 3 so that an
empty page can lie between two full ones; failures at 2 and 3 so that a page can
hold both kinds, either, or none. One retry distinguishes recovery from exhaustion.
`WatchLive` has two ledgers and neither retries nor the failed-tx scan, because
liveness is checked over its whole graph; so `AbortEndsStream` is shown with requests
that are answered, fail for good or never settle, and not with a backoff in between.

*Merge.* With ids 3 in two pages and 5 in two batches, a repetition can fall inside
and outside the de-duplicator's two; pages whose ids are not in order show that the
cursor is a position and not an id.

*Counters.* Ring and window of two are full after two calls and have evicted after
three; the fourth call meets the clock rolled back, or a reset.

*Invoke.* Two queued calls are a queue with an owner and a waiter; the dry run is
the caller outside it; two attempts are one retry of each kind, and an attempt after
which the budget is spent. One poll reaches inclusion before, at and after the last
poll, because inclusion interleaves freely. A lag of one ledger is what the code's
comment (1305) names, and one foreign transaction makes a collision possible. Longer
queues, more attempts and any lag are covered by the theorems of section 5.

*Heartbeat.* Interval 0 is refused at the start, 1 is shorter than a late timer plus a
beat (slots are skipped), 4 ticks are a third of the grace, the longest the start
check accepts and just enough for the premises of `SwitchHolds`, 5 lies beyond and
runs only where the grace could not be read; four slots see a failed beat, its
successor, and what elapses after both.

*Preflight.* Three checks are a run, one that joins it and one that finds it over;
with one permit and two calls a task waits for another's; a cache of one entry
evicts on the second key; two ledgers are a policy change and a verdict older than
it.

*Gate.* Amounts of 1 under a cap of 2, with 0 or 1 spent already, give batches that fit,
fit exactly and do not fit, each call fitting alone; three calls are a first refused one before and behind
admissible ones.

*Policy.* The first edit takes any field to a value each validator accepts, rejects, or
sees differently from another (`MCPolicyLifecycle!FirstValues`); the second is one that
a rule reads together with another field or that a conversion carries
(`SecondValues`), and combines with every first one and with every file and installed
policy made before it.

`CHECK_DEADLOCK FALSE` everywhere: when every stream is over, every call answered,
the scheduler stopped, or the bound on calls or edits reached, the program has
stopped.

## 4. Fairness

- `TelemetryWatch!Fairness`: weak fairness of the pump's and the delivery's own
  steps (ready tasks of the event loop), and of the consumer finishing a page (it
  comes back or breaks). The RPC is not assumed to answer: `AbortEndsStream` is
  shown without it. `ParkedIsServed` and `LedgersAreDelivered` have `RpcAnswers`
  as a premise inside the property, because without it nobody can be served.
- `MergedStream!FairSpec`: weak fairness of the merge's own continuations, and of a
  consumer that comes back or breaks. The RPC server, the cursor store and the
  diagnostic source are not assumed to answer. `AbortEndsMerge` needs two of them to,
  and has that as its premises: `SourceAnswers` (once aborted, what the page loop awaits
  settles, with or without events or by failing) because the merge's `finally` awaits
  `committed.return()`, which waits behind that; `DiagnosticsReturn` (the diagnostic
  source answers its `return()`) because the `finally` awaits that next. Without either
  one TLC finds the aborted merge that never ends (section 6). What is left to show is
  that nothing else holds it: not an arm that settled before the abort, a page being
  emitted, a failure, or however many pages and batches are still to come.
- `Invoke!FairSpec`: weak fairness of a task's turn in the queue and of its backoff
  timer. Requests and signers may hang; `QueueDrains` has `AllAnswer` as its premise,
  without which it is false: one request that never settles holds the account's queue
  for ever. That a caller is answered in time is not claimed: it is its own timer or
  signal (`CallerLeaves`), which a direct `enforceCall()` and a `timeoutMs` of `0` do
  not have.
- `Heartbeat!FairSpec`: weak fairness of the loop's timers and of `stop()`'s own
  continuations. A submission need not settle: a graceful `stop()` is answered on the
  premise, inside `StopIsAnswered`, that the loop is infinitely often out of a
  submission; a bounded one without it.

No fairness is assumed of ledgers closing, of inclusion, of time passing, of the
host calling anything, or of an abort or a deadline. The other specifications state
no fairness and have no liveness property.

## 5. Proofs

All of these hold for every value of the constants allowed by the modules' named
assumptions (`BoundsAssumption`, `LedgersAssumption`, `SwitchesAssumption`,
`InvokeAssumption`, `HeartbeatAssumption`, `PreflightAssumption`, `MergedStreamAssumption`,
`DecisionWindowAssumption`, `ToolGateAssumption`, `PolicyFormsAssumption`,
`PolicyLifecycleAssumption`): any number of streams, ledgers, retries, calls, attempts,
checks, permits, slots, any buffer, cache, window or ring size, lag, interval, grace and
clock resolution, any addresses, function names, edits and wire widths. TLC evaluates the
assumptions in the runs.

- `TelemetryWatchProofs`: `WatchConsistent` (`PumpInv`), and from it `TypeCorrect`,
  `LookAheadIsBounded`, `WakeupNeverLost`. The bound is not inductive: that
  `outstanding` is the number of buffered pages plus the pull in flight needs that
  the pump is pulling exactly while the source runs, that a finished source has no
  pull, and that a torn-down stream's pull may still be counted; the wake-up
  property needs that the demand flag is set only while the consumer is parked.
  `StreamOK` and `PumpOK` say that. The ten source actions touch them only through
  the four ways a `next()` goes on (awaits, yields, returns, throws), each of which
  has a lemma.
- `TelemetryWatchProofs`, second part: `ChainUnbroken` (`DeliveryInv`) and `StoredCursorNeverLeads`
  (`CursorNeverLeads`). The cursor's safety is not inductive: the cursor saved is a
  page's, so everything up to that page must have been come back from, which needs
  that the page in hand, the buffer and the position of the source form one chain
  without a hole, and that the chain starts where the cursor was loaded. `Opening`
  is the case before there is a chain, `Delivering` the case with one. Of several
  streams only one holds the lease, so a step changes the live stream's chain or
  none; a torn-down source moves a position that no longer feeds a buffer.
  `DeliveryPromised` (`Spec => KeepsPromise`): `watch()` implements `CursorDelivery`.
  The reader of the abstract specification is the stream with the lease once it has
  a position; its first position is `Open`, a page taken is `Deliver` or (empty)
  `Skip`, coming back is `Acknowledge`, a save is `Save`, any teardown or restart is
  `Close`, and everything the pump and the sources do is a stutter. The proof needs
  `DeliveryInv`, and that no page ends before it begins (`ForwardInv`).
- `TelemetryWatchProofs`, last part, under the assumption `~Rewatch` in each theorem (the host
  calls `watch()` once on a listener; section 6 shows why it is needed):
  `DecisionsCountedOnce` (`CountedAtMostOnce`) and
  `FailedTransactionsReachTheConsumer` (`FailedTxNeverLost`). `SoleInv`: the
  listener's streams but the last are over. `CountInv`: a ledger whose decision is
  counted lies behind the position of the source, so it is not fetched again.
  `ScanInv`: wherever a failed-tx scan position is kept (in the store, in a page in
  hand or in the buffer, at the source), the failed transactions up to it were
  acknowledged or are in the pages before it; a scan that fails leaves its position
  where it was.
  `CursorFollowsConsumer` (`KeepsPromise => []NothingLost`) says what the promise is
  worth: a reader that does only what `CursorDelivery` allows has no unacknowledged
  event behind its cursor. The invariant adds the same of the reader's own position,
  save for the stretch in hand.
- `InvokeProofs`: `TypeCorrect`; `OneAtATime` (`QueueExclusive`): not inductive,
  because that only one task can start needs that the calls in progress form one
  chain; `QueueInv` says there is a sequence of all of them, each behind the one
  before it, all but the first waiting, whose last is `tail`; enqueueing appends and
  settling removes the front. `SequencesAreFresh` (`NoSequenceReuse`): everything in
  use or spent lies below the last reservation, so the next one is fresh, whatever
  the snapshot said.
- `InvokeProofs`, second part: `PromiseKept` (`Spec => KeepsPromise`), from `OutcomeKnown`:
  the transactions of a call that took or may take effect are at the number of its
  current attempt, there are none before an attempt is broadcast, and none once a
  failure was told. The step that needs it is the retry: after a rejection nothing
  was accepted, and after a failed inclusion the number is spent, so a new attempt
  starts with nothing at large.
- `InvokeProofs`, last part: `DeadlineIsKept` (`DeadlineHolds`): each reply, timer and
  turn of a call whose deadline is spent ends it, but for the envelope's signers
  (`LateStepCloses`), and no other task's step touches it (`StepsAreOwn`). Only a call
  under way can be late (`EnteredInTime`), so none enters with a spent deadline.
- `HeartbeatProofs`: `TypeCorrect`, `SlotsAreAccounted`, `NoBeatIsFalse`,
  `NothingIsSentAfterStop`, `TheSwitchHolds`, `TheWarningComesFirst`. What is
  remembered of a beat, and of the contract, lies in the past and a landed beat landed
  after it fired (`Past`); before the start check nothing has happened (`Fresh`).
  `TheSwitchHolds` carries a timing invariant (`Timely`): when
  timers are punctual and a beat ends before its next slot, no slot is skipped, so
  the last landed beat is at most `failures + 1` intervals behind the deadline; the
  rest is that the start check leaves that much, rounded to the contract's seconds,
  inside the grace.
- `PreflightProofs`: `TypeCorrect`; `PermitsAreConserved` (`PermitsConserved`): the
  queue of the semaphore is exactly the queued runs, each once, and a permit is idle
  only when nobody waits (`QueueInv`), so `release()` hands its permit to one that
  still wants it or gives it back; `OneRunAnswers` (`OneRunPerCall`): the map of
  shared runs names the one live run of each key, and what a run was started for does
  not change under it (`RunInv`); `VerdictsAreCurrent` (`VerdictIsCurrent`): cached
  entries and runs in progress are no older than the lookup they belong to, and
  closed ledgers do not change, so a ruling that was true of one stays true of it
  (`VerdictInv`); `AbandonedRunsSendNothing`, the action property, from `RunInv`.
- `MergedStreamProofs`: `TypeCorrect`; `OneEventPerWindow` (`OncePerWindow`): the
  de-duplicator's queue is the end of what was yielded, as long as its capacity
  allows, so an id that is not in it was not yielded within the window (`WindowInv`);
  `TheMergedCursorNeverLeads` (`MergedCursorNeverLeads`): pages before the last one
  fetched are consumed, the last one is by the time its source is pulled again, and
  each event of a page being emitted is consumed, still to come, or in the consumer's
  hands (`CursorInv`). A duplicate is dropped, and yet consumed, because the stream
  that dropped it had yielded it and the consumer came back.
- `DecisionWindowProofs`: `TheWindowsAreExact` (`WindowsAreExact`). The ring's events
  lie at successive slots counted around from `start`, newest last (`RingInv`). The
  retained entries are the newest of the decisions fed, each marked with the peak of
  the readings up to its own, and the tallies are how many of them count under each
  key (`WindowInv`). `evict()` stops at the first entry that stays; that it misses none
  behind it needs that the marks only grow, and that what it removed stays out needs
  that the peak does: both are the high-water mark of `monotonicNow()`. The tallies
  are cardinalities of index sets, shifted and split when an entry comes or goes.
- `ToolGateProofs`: `TypeCorrect`, `GateFailsClosed` (`FailsClosed`) and
  `HaltsReported` (`HaltsAreReported`). The gate's decision is made some phases
  after the rulings it rests on: the invariant says that verdicts are as many as the
  calls checked and each backed by its ruling, that a batch went through staging
  before it is concluded, and that nothing was alerted or answered before the end.
  `BatchesFit` (`AdmittedBatchFits`): as long as no call was refused, `staged` is the
  sum of the calls ruled so far and fits the window that was read (`Snapshots`,
  `StagedFits`), and a call without a snapshot was refused (`Unstaged`).
- `PolicyProofs`: `PoliciesKeepTheirMeaning` (`MeaningKept`). `MeaningKept` is not
  inductive: that the next conversion keeps a meaning needs that what it is given is a
  form it can read. `SessionInv` says that the object is a form of some kind, that the
  file and the stored struct can always be read, and that each says what is meant. Each
  conversion `Carries` a form: it may write pauses, lists left out and defaults another
  way, and no more, and whatever carries a form says the same (`CarriedMeaning`).
- `PolicyProofs`, second part: `DifferencesAreExact` (`DiffIsExact`). `policyDiff()` looks
  a rule or a cap up by its address and takes the first; in a policy the validator
  accepts the addresses of a list differ, so the first is the only one (`FirstIsTheOne`).
  Then each field's changes are empty exactly when the two forms say the same of it
  (`CapsDiffer`, `RulesDiffer`), and every change but a "changed" is mirrored (`Mirrored`).
- `PolicyProofs`, last part: `ValidatorsAreOfOneMind` (`ValidatorsAgree`). The three rule
  sets are each shown to accept what one description, `Sensible`, accepts:
  `validateGuardPolicy()` but for its two pieces of advice (`ValidatorIs`), the schema and
  its code rules with those and with what the schema has no name for (`SchemaIs`), the
  contract on the struct of an object that encodes (`ContractIs`). The three say "no
  repetition" by looking for a later copy, by counting members and by injectivity, which
  `Distinct` relates; the schema stops at a value of the wrong type where the validator
  goes on, so both are first shown to imply that every list is one (`SchemaShapes`).
- `MergedStreamProofs`, `PreflightProofs`, `ToolGateProofs` and `DecisionWindowProofs`
  share one technique. The provers cannot instantiate an induction
  theorem, which takes its predicate as an operator; where a fact needs induction (the
  sum of a list, a page that is sorted, a queue without its last member) the proof takes
  the least counterexample of a set of numbers, which the library's well-foundedness of
  `<` gives.

Only model-checked is everything under fairness (TLAPS has no ENABLED): `AbortEndsStream`,
`ParkedIsServed`, `LedgersAreDelivered`, `AbortEndsMerge`, `QueueDrains` and
`StopIsAnswered`. The two runs of section 6 that expect a
violation are TLC's alone. `CountedAtMostOnce` and `FailedTxNeverLost` are proved for
listeners on which `watch()` is called once.

## 6. Where the code and its documentation disagree

Two have a run that TLC violates.

- `WatchFailedTxLoss` (telemetry.ts:2598): a failed transaction that was fetched but
  not delivered is filtered out as already seen by the next `watch()` of the same
  listener, and the cursor then passes it. `FailedTxNeverLost` holds when a new
  stream means a new listener (`WatchRestart`, and the theorem).
- `PolicyFreeze` (policy.ts:216): `freezePolicy()` rebuilds a protocol rule from
  `contract` and `fns` and loses its `paused`.

The others were met while modelling; no run is about them. Where the model shows one,
that is said.

*Watch.* A source closed during its poll delay or backoff polls once more, though
telemetry.ts:1336 says it cannot; an answer after teardown sets the health state back
to running; telemetry.ts:1153 says cursors are saved before the batch is yielded,
while 1288-1301 save after the consumer comes back (the model follows the code, and
the code is what makes `CursorNeverLeads` hold); a second `watch()` on one listener
counts the decisions of a re-read page again; a late source and its successor share
the counters and the health state. `watchAll()` is documented (telemetry.ts:3196) to
end on an abort, so that "a pending diagnostic source cannot hold it open past
teardown". A pending one can: the merge's `finally` awaits the source's `return()`
(2066-2067), and that of an async generator parked in its own `next()` waits behind it.
So can a request in flight, which `watchStream()` awaits without the signal (2901, 2979,
3019, 3055, 3155). `AbortEndsMerge` fails without its premise `DiagnosticsReturn`, and
without `SourceAnswers`. `poll()` alone does not enter `stats()`.

*Invoke.* A dry run, a refusal or a rejected send consumes a reserved number that the
ledger does not (invoke.ts:1322), so the next transaction is ahead of the account and
collides without any other broadcaster or lag, while docs/troubleshooting.md:10 names
only those; a refusal on the second attempt is reported without `charged` though the
first attempt was included and paid for; an abort answers the caller and the task
goes on and broadcasts (invoke.ts:1376 against 547 and docs/api/invoke-pipeline.md:38);
`timeoutMs` (invoke.ts:554) bounds the caller's wait, not a request; an outer timeout
carries no transaction hash (invoke.ts:122-130), which only `onSubmitted` then gives;
`isSequenceNumberFailure` (tx.ts:904) does not match the spelling `txBadSeq` that a
decoded result has.

*Heartbeat.* A bounded `stop()` leaves the loop in its submission; when that settles the
loop leaves at `if (stopped) break` (heartbeat.ts:1145) before it reports the result,
though 921-923 say it is reported through `onBeat` or `onError`.

*Preflight and gate.* `invalidate()` does not reach the runs in flight: a check made
after it joins one and gets, and caches, a verdict from before (README.md:1205);
`policyRevision()` is awaited without a bound; a request that hangs keeps its permit
after its caller has gone. An adapter's mapper that returns `undefined` lets the tool
run unguarded, though shared.ts:114-121 lets only `null` do so; the mcp and vercelai
adapters do not validate their options; `checkBatch` validates `deadlineMs` and never
enforces it; langchain validates `name` as a function; `InvalidInputError` makes an
adapter reject without its hooks.

*Policy.* `decodeValidationOutcome` (policy-preflight.ts:160-205) rejects the native
and JSON forms its own comment lists (24-34, 147-158), so `validatePolicyOnChain` of a
valid policy throws (read off the code: the model has no preflight of a policy). The vendored schema has no `protocol_calls_per_window` and no
`paused` of a rule, forbids additional properties and rejects `null` lists, which
`validateGuardPolicy` accepts (`ValidatorsAgree` has this as `SchemaNames`).
`fetchGuardPolicyAndWindow` catches `decodePolicy`'s refusal of non-empty asset caps and
returns the native object (policy.ts:1193), so submitting what was read drops the caps
that the refusal (536-545) is there to protect (`meant` follows the code here: the
action `Fetch` then `Submit` shows the loss, and `MeaningKept` leaves it out). `validatePolicyForEncoding` does not
look at `protocol_calls_per_window`, though an empty answer is said to mean that
`policyToScVal` will not throw; `validateGuardPolicy` accepts `fns` that encoding
rejects; `policyDiff` shows neither a rule's `paused` nor `protocol_calls_per_window`.

## 7. What is not modelled

Of the modelled parts: of the watch, `maxBufferedPages: 0` (pages without a pump), an
explicit `cursor` or `startLedger`, gap detection (it emits a diagnostic and moves no
cursor) and the contents of pages; step events, logging, fee amounts, XDR and texts
everywhere. Two source accounts or two servers share nothing in the code (the state is
per server object and account), so one is modelled. Of the policy code, `describePolicy`,
the window half of `fetchGuardPolicyAndWindow`, the preflight of a policy
(`validatePolicyOnChain` and the decoding of its answer), and path handling of `fs.ts`;
the guard's address, optional in the validators, is always given. Of the heartbeat, a
custom `submit` that resolves without an outcome, which the code counts as a beat
(heartbeat.ts:882).

Not modelled at all: `cost.ts` (arithmetic over one simulation's resources, without
state, callback or retry); the decoding tables of events, reasons and errors, whose
results enter the models as model values; transport construction, wasm and hash
helpers, the logger, the deployment scripts and the package surface, each of which is
one request, one file or a re-export and has no history. The guard contract is not in
`src/`; what the models use of it (its switch, its verdict on a ledger, its policy
rules) is marked external in the map.

## 8. Plan

Done: every component of section 2, with a theorem for each safety and action property
a run checks, the two refinements included.

What would come next, in order of worth:

1. The step of each liveness argument that needs no fairness, as theorems: what a helpful
   action changes, and that nothing else undoes it.
2. `TelemetryWatch` with `maxBufferedPages: 0` and with an explicit start.
