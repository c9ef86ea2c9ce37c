--------------------------- MODULE TelemetryWatch ---------------------------
(***************************************************************************)
(* GuardTelemetryListener.watch(): the page loop (watchStream), the        *)
(* bounded look-ahead pump in front of the consumer (boundedPagePump), the *)
(* consumer's for-await loop, the two durable cursor stores and the state  *)
(* the listener shares between its successive streams.                     *)
(*                                                                         *)
(* JavaScript runs one task to its next await; an action below is the code *)
(* between two awaits.  A macrotask (a timer, setImmediate, an RPC answer) *)
(* runs only when no microtask is pending: that is what Quiescent says.    *)
(*                                                                         *)
(* A position is a ledger number: everything up to and including it has    *)
(* been covered.  A cursor is a position or NoCursor.                      *)
(***************************************************************************)
EXTENDS Integers, Sequences

CONSTANTS
    MaxStreams,        \* bound: how many times watch() is called
    MaxLedger,         \* bound: the last ledger that closes
    MaxBufferedPages,  \* params.maxBufferedPages, at least 1
    MaxRetries,        \* params.retry.maxRetries
    EventLedgers,      \* the ledgers holding a committed guard event
    FailedLedgers,     \* the ledgers holding a failed guard transaction
    FailedTx,          \* config.failedTx
    Rewatch,           \* may the host call watch() again on the same listener?
    BusyConsumer,      \* may the consumer's loop body await a macrotask?
    SlowStore          \* does a cursor save take a macrotask?

ASSUME BoundsAssumption ==
    /\ MaxStreams \in Nat \ {0}
    /\ MaxLedger \in Nat
    /\ MaxBufferedPages \in Nat \ {0}
    /\ MaxRetries \in Nat

ASSUME LedgersAssumption ==
    EventLedgers \subseteq Nat /\ FailedLedgers \subseteq Nat

ASSUME SwitchesAssumption ==
    {FailedTx, Rewatch, BusyConsumer, SlowStore} \subseteq BOOLEAN

Streams == 1 .. MaxStreams
NoLease == 0
NoCursor == -1
Cursors == Nat \cup {NoCursor}

\* One WatchPage: its committed events are the event ledgers in (from, to].
Pages == [from : Nat, to : Nat, failed : SUBSET FailedLedgers, failedCursor : Cursors]
NoPage == [from |-> 0, to |-> 0, failed |-> {}, failedCursor |-> NoCursor]

CommittedEvents(p) == { l \in EventLedgers : p.from < l /\ l <= p.to }
IsEmptyPage(p) == CommittedEvents(p) = {} /\ p.failed = {}

VARIABLES
    head,          \* the RPC's latest ledger
    savedEvents,   \* activeCursorStore, the "events" slot
    savedFailed,   \* activeFailedTxCursorStore, the "failed_tx" slot
    started,       \* streams started so far
    epoch,         \* streams 1..epoch belong to earlier listeners
    lease,         \* activeStreamLease
    health,        \* healthState
    lastError,     \* lastError # null
    processedFailedTx,  \* hashes (here: ledgers) already surfaced
    counted,       \* how often this listener's counters recorded each decision
    src,           \* where each stream's watchStream generator is
    cursor,        \* watchStream's cursor (startLedger - 1 before the first page)
    failedCursor,  \* watchStream's failedTxCursor
    pageFrom,      \* where the page now being assembled begins
    attempts,      \* retries spent on the current request
    pump,          \* where each stream's runPump is
    buffer, outstanding, finished, stopped, failure,
    waiting,       \* the parked consumer's demand flag, and its registered `wake`
    con,           \* where each stream's consumer is
    page,          \* the page last taken from the buffer
    aborted,       \* params.signal.aborted
    pos,           \* history: the position delivered to this stream's consumer
    origin,        \* history: where coverage began
    failedOrigin,  \* history: where failed-transaction coverage began
    acked,         \* history: committed events the consumer came back from
    failedAcked    \* history: failed transactions the consumer came back from

world == <<head>>
stores == <<savedEvents, savedFailed>>
shared == <<lease, health, lastError, processedFailedTx, counted>>
calls == <<started, epoch>>
source == <<src, cursor, failedCursor, pageFrom, attempts>>
pumpVars == <<pump, buffer, outstanding, finished, stopped, waiting, failure>>
consumer == <<con, page, aborted>>
history == <<pos, origin, failedOrigin, acked, failedAcked>>
vars == <<world, stores, shared, calls, source, pumpVars, consumer, history>>

HealthStates == {"idle", "running", "recovering", "stopped", "aborted", "failed"}
SourceStates == {"off", "load", "head", "headWait", "poll", "pollWait", "failedTx",
                 "yield", "sleep", "done"}
PumpStates == {"none", "grace", "pull", "turn"}
ConsumerStates == {"none", "parked", "top", "handling", "busy",
                   "saveEvents", "saveFailed", "done"}

Active(s) == con[s] \notin {"none", "done"}

Init ==
    /\ head \in 0 .. MaxLedger
    /\ savedEvents = NoCursor /\ savedFailed = NoCursor
    /\ started = 0 /\ epoch = 0
    /\ lease = NoLease /\ health = "idle" /\ lastError = FALSE
    /\ processedFailedTx = {} /\ counted = [l \in EventLedgers |-> 0]
    /\ src = [s \in Streams |-> "off"]
    /\ cursor = [s \in Streams |-> NoCursor]
    /\ failedCursor = [s \in Streams |-> NoCursor]
    /\ pageFrom = [s \in Streams |-> 0]
    /\ attempts = [s \in Streams |-> 0]
    /\ pump = [s \in Streams |-> "none"]
    /\ buffer = [s \in Streams |-> <<>>]
    /\ outstanding = [s \in Streams |-> 0]
    /\ finished = [s \in Streams |-> FALSE]
    /\ stopped = [s \in Streams |-> FALSE]
    /\ waiting = [s \in Streams |-> FALSE]
    /\ failure = [s \in Streams |-> FALSE]
    /\ con = [s \in Streams |-> "none"]
    /\ page = [s \in Streams |-> NoPage]
    /\ aborted = [s \in Streams |-> FALSE]
    /\ pos = [s \in Streams |-> 0]
    /\ origin = 0 /\ failedOrigin = 0
    /\ acked = {} /\ failedAcked = {}

-----------------------------------------------------------------------------
(* The event loop.                                                         *)

\* Mutant: the consumer parks without racing its signal.
ResumableUnraced(s) == con[s] = "parked" /\ ~waiting[s]

\* raceAbort: the parked consumer resumes when the pump woke it or on abort.
Resumable(s) == con[s] = "parked" /\ (~waiting[s] \/ aborted[s])

\* A microtask of stream s is pending: the consumer's own turn, or the pump's.
Microtask(s) ==
    \/ con[s] \in {"top", "handling"}
    \/ Resumable(s)
    \/ pump[s] = "turn"
    \/ (~SlowStore /\ con[s] \in {"saveEvents", "saveFailed"})

Quiescent == \A s \in Streams : ~Microtask(s)

-----------------------------------------------------------------------------
(* The look-ahead pump.                                                    *)

\* Mutant: the bound is off by one.
MayPullBeyond(s) ==
    ~stopped[s] /\ ~finished[s] /\ ~aborted[s] /\ outstanding[s] <= MaxBufferedPages

\* The condition of runPump's loop, for the values the step leaves behind.
MayPull(s) ==
    /\ ~stopped[s] /\ ~finished[s] /\ ~aborted[s]
    /\ outstanding[s] < MaxBufferedPages

\* source.next(): the generator runs to its first await.  A first call opens the
\* stream; a later one resumes it behind its yield, into the poll delay.
SourceNext(s) ==
    /\ src' = [src EXCEPT ![s] = IF @ = "off" THEN "load" ELSE "sleep"]
    /\ health' = IF src[s] = "off" THEN "running" ELSE health
    /\ lastError' = IF src[s] = "off" THEN FALSE ELSE lastError

Pull(s) ==
    /\ pump' = [pump EXCEPT ![s] = "pull"]
    /\ outstanding' = [outstanding EXCEPT ![s] = @ + 1]
    /\ SourceNext(s)

\* Mutant: the end of the grace turn leaves a pull to the consumer that parked in it.
GraceForgets(s) ==
    /\ pump[s] = "grace" /\ Quiescent
    /\ IF MayPull(s) /\ ~waiting[s]
       THEN Pull(s)
       ELSE /\ pump' = [pump EXCEPT ![s] = "none"]
            /\ UNCHANGED <<outstanding, src, health, lastError>>
    /\ UNCHANGED <<world, stores, calls, lease, processedFailedTx, counted, cursor,
                   failedCursor, pageFrom, attempts, buffer, finished, stopped,
                   waiting, failure, consumer, history>>

\* The macrotask of grace a speculative pull waits for is over.
GraceEnds(s) ==
    /\ pump[s] = "grace" /\ Quiescent
    /\ IF MayPull(s)
       THEN Pull(s)
       ELSE /\ pump' = [pump EXCEPT ![s] = "none"]
            /\ UNCHANGED <<outstanding, src, health, lastError>>
    /\ UNCHANGED <<world, stores, calls, lease, processedFailedTx, counted, cursor,
                   failedCursor, pageFrom, attempts, buffer, finished, stopped,
                   waiting, failure, consumer, history>>

\* `await null` after a push: the loop classifies its next pull.
TurnEnds(s) ==
    /\ pump[s] = "turn"
    /\ IF MayPull(s) /\ waiting[s]
       THEN Pull(s)
       ELSE /\ pump' = [pump EXCEPT ![s] = IF MayPull(s) THEN "grace" ELSE "none"]
            /\ UNCHANGED <<outstanding, src, health, lastError>>
    /\ UNCHANGED <<world, stores, calls, lease, processedFailedTx, counted, cursor,
                   failedCursor, pageFrom, attempts, buffer, finished, stopped,
                   waiting, failure, consumer, history>>

\* Mutant: a push wakes nobody.
NotifyNobody(s) == UNCHANGED waiting

\* notify(): withdraw the demand flag and wake the parked consumer.
Notify(s) == waiting' = [waiting EXCEPT ![s] = FALSE]

\* The source yields p to the pump, which drops it when teardown came first:
\* the return() queued behind this next() then ends the source.
YieldToPump(s, p) ==
    /\ UNCHANGED <<finished, stopped, failure>>
    /\ IF stopped[s]
       THEN /\ src' = [src EXCEPT ![s] = "done"]
            /\ pump' = [pump EXCEPT ![s] = "none"]
            /\ outstanding' = [outstanding EXCEPT ![s] = @ - 1]
            /\ UNCHANGED <<buffer, waiting>>
       ELSE /\ src' = [src EXCEPT ![s] = "yield"]
            /\ pump' = [pump EXCEPT ![s] = "turn"]
            /\ buffer' = [buffer EXCEPT ![s] = Append(@, p)]
            /\ Notify(s)
            /\ UNCHANGED outstanding

\* The source returns: next() answers done.
SourceReturns(s) ==
    /\ src' = [src EXCEPT ![s] = "done"]
    /\ pump' = [pump EXCEPT ![s] = "none"]
    /\ outstanding' = [outstanding EXCEPT ![s] = @ - 1]
    /\ finished' = [finished EXCEPT ![s] = TRUE]
    /\ Notify(s)
    /\ UNCHANGED <<buffer, stopped, failure>>

\* The source throws: a failure for the consumer, unless it has left.
SourceThrows(s) ==
    /\ src' = [src EXCEPT ![s] = "done"]
    /\ pump' = [pump EXCEPT ![s] = "none"]
    /\ outstanding' = [outstanding EXCEPT ![s] = @ - 1]
    /\ UNCHANGED <<buffer, stopped>>
    /\ IF stopped[s]
       THEN UNCHANGED <<finished, failure, waiting>>
       ELSE /\ finished' = [finished EXCEPT ![s] = TRUE]
            /\ failure' = [failure EXCEPT ![s] = TRUE]
            /\ Notify(s)

\* The source keeps running: the pump still awaits its next().
SourceAwaits(s, where) ==
    /\ src' = [src EXCEPT ![s] = where]
    /\ UNCHANGED pumpVars

-----------------------------------------------------------------------------
(* The page loop.                                                          *)

\* counters.record for every event of the page, as it is fetched.
Count(p) ==
    counted' = [l \in EventLedgers |->
                   counted[l] + (IF l \in CommittedEvents(p) THEN 1 ELSE 0)]

\* activeCursorStore.load() and activeFailedTxCursorStore.load() answer.
Load(s) ==
    /\ src[s] = "load" /\ Quiescent
    /\ IF aborted[s]
       THEN SourceReturns(s) /\ UNCHANGED <<cursor, failedCursor, pos>>
       ELSE /\ cursor' = [cursor EXCEPT ![s] = savedEvents]
            /\ failedCursor' = [failedCursor EXCEPT ![s] =
                                   IF FailedTx THEN savedFailed ELSE NoCursor]
            /\ pos' = [pos EXCEPT ![s] = IF savedEvents = NoCursor THEN 0 ELSE savedEvents]
            /\ SourceAwaits(s, IF savedEvents = NoCursor THEN "head" ELSE "poll")
    /\ UNCHANGED <<world, stores, shared, calls, pageFrom, attempts, consumer,
                   origin, failedOrigin, acked, failedAcked>>

\* A store's load rejects: nothing catches it, the generator throws.
LoadFails(s) ==
    /\ src[s] = "load" /\ Quiescent
    /\ SourceThrows(s)
    /\ UNCHANGED <<world, stores, shared, calls, cursor, failedCursor, pageFrom,
                   attempts, consumer, history>>

\* Startup: startLedger becomes max(1, latest - 1), the position before it.
HeadReply(s) ==
    /\ src[s] = "head" /\ Quiescent
    /\ LET start == IF head >= 2 THEN head - 2 ELSE 0 IN
       /\ cursor' = [cursor EXCEPT ![s] = start]
       /\ pos' = [pos EXCEPT ![s] = start]
       /\ origin' = IF stopped[s] THEN origin ELSE start
    /\ attempts' = [attempts EXCEPT ![s] = 0]
    /\ IF aborted[s] THEN SourceReturns(s) ELSE SourceAwaits(s, "poll")
    /\ UNCHANGED <<world, stores, shared, calls, failedCursor, pageFrom, consumer,
                   failedOrigin, acked, failedAcked>>

\* The getEvents answer: the ledgers up to any later position it chose to end at.
\* Without failedTx the page is complete and goes to the pump at once.
PollReply(s) ==
    /\ src[s] = "poll" /\ Quiescent
    /\ health' = "running"
    /\ attempts' = [attempts EXCEPT ![s] = 0]
    /\ pageFrom' = [pageFrom EXCEPT ![s] = cursor[s]]
    /\ \E to \in cursor[s] .. head :
        /\ cursor[s] < head => cursor[s] < to
        /\ cursor' = [cursor EXCEPT ![s] = to]
        /\ LET p == [from |-> cursor[s], to |-> to, failed |-> {}, failedCursor |-> NoCursor] IN
           IF FailedTx
           THEN SourceAwaits(s, "failedTx") /\ UNCHANGED counted
           ELSE YieldToPump(s, p) /\ Count(p)
    /\ UNCHANGED <<world, stores, calls, lease, lastError, processedFailedTx,
                   failedCursor, consumer, history>>

\* Mutant: one retry too many.
RetryOnceMore(s, wait) ==
    \/ /\ attempts[s] <= MaxRetries
       /\ attempts' = [attempts EXCEPT ![s] = @ + 1]
       /\ health' = "recovering"
       /\ SourceAwaits(s, wait)
       /\ UNCHANGED lastError
    \/ /\ attempts[s] > MaxRetries
       /\ lastError' = TRUE /\ health' = "failed"
       /\ SourceReturns(s)
       /\ UNCHANGED attempts

\* Retries are left: wait out the backoff.  None are: record the terminal error,
\* call onStreamError (which may throw) and complete.
RetryOrFail(s, wait) ==
    \/ /\ attempts[s] < MaxRetries
       /\ attempts' = [attempts EXCEPT ![s] = @ + 1]
       /\ health' = "recovering"
       /\ SourceAwaits(s, wait)
       /\ UNCHANGED lastError
    \/ /\ attempts[s] = MaxRetries
       /\ lastError' = TRUE
       /\ health' = "failed"
       /\ SourceReturns(s) \/ SourceThrows(s)
       /\ UNCHANGED attempts

\* getLatestLedger rejects: after an abort that is teardown and changes nothing.
HeadFails(s) ==
    /\ src[s] = "head" /\ Quiescent
    /\ IF aborted[s]
       THEN SourceReturns(s) /\ UNCHANGED <<health, lastError, attempts>>
       ELSE RetryOrFail(s, "headWait")
    /\ UNCHANGED <<world, stores, calls, lease, processedFailedTx, counted, cursor,
                   failedCursor, pageFrom, consumer, history>>

\* getEvents rejects: the first attempt is recorded before the abort is looked at,
\* a retry after it.
PollFails(s) ==
    /\ src[s] = "poll" /\ Quiescent
    /\ IF aborted[s]
       THEN /\ health' = IF attempts[s] = 0 THEN "recovering" ELSE health
            /\ SourceReturns(s)
            /\ UNCHANGED <<lastError, attempts>>
       ELSE RetryOrFail(s, "pollWait")
    /\ UNCHANGED <<world, stores, calls, lease, processedFailedTx, counted, cursor,
                   failedCursor, pageFrom, consumer, history>>

\* Mutant: every iteration resolves its cursor from the store again.
DelayEndsReloading(s) ==
    /\ src[s] \in {"headWait", "pollWait", "sleep"} /\ Quiescent
    /\ IF aborted[s] THEN SourceReturns(s) ELSE SourceAwaits(s, "load")
    /\ UNCHANGED <<world, stores, shared, calls, cursor, failedCursor, pageFrom,
                   attempts, consumer, history>>

\* A delay is over (an abort ends it early); only the signal is looked at, never
\* whether the consumer has left.
DelayEnds(s) ==
    /\ src[s] \in {"headWait", "pollWait", "sleep"} /\ Quiescent
    /\ IF aborted[s]
       THEN SourceReturns(s)
       ELSE SourceAwaits(s, IF src[s] = "headWait" THEN "head" ELSE "poll")
    /\ UNCHANGED <<world, stores, shared, calls, cursor, failedCursor, pageFrom,
                   attempts, consumer, history>>

\* The rest of the iteration, once the failed-transaction scan gave its answer.
CompletePage(s, failed, scanned) ==
    LET p == [from |-> pageFrom[s], to |-> cursor[s],
              failed |-> failed, failedCursor |-> scanned]
    IN  /\ Count(p)
        /\ YieldToPump(s, p)

\* pollFailedTransactions() without a cursor starts at the current head.
FailedTxStart(s) ==
    /\ src[s] = "failedTx" /\ Quiescent
    /\ failedCursor[s] = NoCursor
    /\ failedCursor' = [failedCursor EXCEPT ![s] = head]
    /\ failedOrigin' = IF stopped[s] THEN failedOrigin ELSE head
    /\ CompletePage(s, {}, head)
    /\ UNCHANGED <<world, stores, calls, lease, health, lastError, processedFailedTx,
                   cursor, pageFrom, attempts, consumer, pos, origin, acked, failedAcked>>

\* pollFailedTransactions() from a cursor: the hashes not surfaced before.
FailedTxReply(s) ==
    /\ src[s] = "failedTx" /\ Quiescent
    /\ failedCursor[s] # NoCursor
    /\ \E to \in failedCursor[s] .. head :
        LET found == { l \in FailedLedgers : failedCursor[s] < l /\ l <= to } IN
        /\ failedCursor[s] < head => failedCursor[s] < to
        /\ failedCursor' = [failedCursor EXCEPT ![s] = to]
        /\ processedFailedTx' = processedFailedTx \cup found
        /\ CompletePage(s, found \ processedFailedTx, to)
    /\ UNCHANGED <<world, stores, calls, lease, health, lastError, cursor, pageFrom,
                   attempts, consumer, history>>

\* Mutant: a failed scan moves the cursor to the head all the same.
FailedTxMovesOn(s) ==
    /\ src[s] = "failedTx" /\ Quiescent
    /\ CompletePage(s, {}, head)
    /\ UNCHANGED <<world, stores, calls, lease, health, lastError, processedFailedTx,
                   cursor, failedCursor, pageFrom, attempts, consumer, history>>

\* The scan fails: swallowed, the page goes out without a failed-tx cursor.
FailedTxFails(s) ==
    /\ src[s] = "failedTx" /\ Quiescent
    /\ CompletePage(s, {}, NoCursor)
    /\ UNCHANGED <<world, stores, calls, lease, health, lastError, processedFailedTx,
                   cursor, failedCursor, pageFrom, attempts, consumer, history>>

-----------------------------------------------------------------------------
(* The consumer's side of the pump.                                        *)

\* The host calls watch(), perhaps with a signal that has already fired.  The
\* lease is taken before anything else; a call while it is held only throws.
Watch(s) ==
    /\ s = started + 1 /\ lease = NoLease
    /\ Rewatch \/ started = epoch
    /\ started' = s
    /\ \E fired \in BOOLEAN :
        /\ aborted' = [aborted EXCEPT ![s] = fired]
        /\ IF fired
           THEN /\ con' = [con EXCEPT ![s] = "done"]
                /\ stopped' = [stopped EXCEPT ![s] = TRUE]
                /\ src' = [src EXCEPT ![s] = "done"]
                /\ health' = "aborted"
                /\ UNCHANGED <<lease, waiting, pump, outstanding, lastError>>
           ELSE /\ con' = [con EXCEPT ![s] = "parked"]
                /\ lease' = s
                /\ waiting' = [waiting EXCEPT ![s] = TRUE]
                /\ Pull(s)
                /\ UNCHANGED stopped
    /\ UNCHANGED <<world, stores, epoch, processedFailedTx, counted, cursor, failedCursor,
                   pageFrom, attempts, buffer, finished, failure, page, history>>

AtLoopTop(s) == con[s] = "top" \/ Resumable(s)

\* The next page is shifted out and the pump refilled while it is worked on; an
\* empty page is not yielded, its cursors are saved at once.
TakePage(s) ==
    /\ AtLoopTop(s) /\ buffer[s] # <<>>
    /\ LET p == Head(buffer[s]) IN
       /\ page' = [page EXCEPT ![s] = p]
       /\ pos' = [pos EXCEPT ![s] = p.to]
       /\ con' = [con EXCEPT ![s] = IF IsEmptyPage(p) THEN "saveEvents" ELSE "handling"]
    /\ buffer' = [buffer EXCEPT ![s] = Tail(@)]
    /\ outstanding' = [outstanding EXCEPT ![s] = @ - 1]
    /\ waiting' = [waiting EXCEPT ![s] = FALSE]
    /\ pump' = [pump EXCEPT ![s] =
                   IF @ = "none" /\ ~stopped[s] /\ ~finished[s] /\ ~aborted[s]
                   THEN "grace" ELSE @]
    /\ UNCHANGED <<world, stores, shared, calls, source, finished, stopped, failure,
                   aborted, origin, failedOrigin, acked, failedAcked>>

\* Nothing to deliver: flag the demand, start the pump if it idles, and wait.
Park(s) ==
    /\ AtLoopTop(s) /\ buffer[s] = <<>>
    /\ ~failure[s] /\ ~finished[s] /\ ~aborted[s]
    /\ con' = [con EXCEPT ![s] = "parked"]
    /\ waiting' = [waiting EXCEPT ![s] = TRUE]
    /\ IF pump[s] = "none" /\ MayPull(s)
       THEN Pull(s)
       ELSE UNCHANGED <<pump, outstanding, src, health, lastError>>
    /\ UNCHANGED <<world, stores, calls, lease, processedFailedTx, counted, cursor,
                   failedCursor, pageFrom, attempts, buffer, finished, stopped, failure,
                   page, aborted, history>>

\* Both finally blocks: stop the pump, drop what it buffered, close the source
\* without waiting for it, settle the health state and give the lease back.
Teardown(s) ==
    /\ con' = [con EXCEPT ![s] = "done"]
    /\ stopped' = [stopped EXCEPT ![s] = TRUE]
    /\ buffer' = [buffer EXCEPT ![s] = <<>>]
    /\ src' = [src EXCEPT ![s] = IF @ = "yield" THEN "done" ELSE @]
    /\ waiting' = [waiting EXCEPT ![s] = FALSE]
    /\ health' = IF aborted[s] THEN "aborted"
                 ELSE IF health \in {"running", "recovering"} THEN "stopped" ELSE health
    /\ lease' = IF lease = s THEN NoLease ELSE lease
    /\ UNCHANGED <<pump, outstanding, finished, failure>>

\* The stream ends by itself: a failure is thrown, the source is done, or the
\* signal has fired.
EndStream(s) ==
    /\ AtLoopTop(s) /\ buffer[s] = <<>>
    /\ failure[s] \/ finished[s] \/ aborted[s]
    /\ Teardown(s)
    /\ UNCHANGED <<world, stores, calls, lastError, processedFailedTx, counted, cursor,
                   failedCursor, pageFrom, attempts, page, aborted, history>>

\* The consumer's loop body has a page and may run.
InLoopBody(s) == con[s] = "handling" \/ (con[s] = "busy" /\ Quiescent)

\* The consumer leaves its for-await loop while it holds a page.
Break(s) ==
    /\ InLoopBody(s)
    /\ Teardown(s)
    /\ UNCHANGED <<world, stores, calls, lastError, processedFailedTx, counted, cursor,
                   failedCursor, pageFrom, attempts, page, aborted, history>>

\* The loop body awaits something slow.
GoBusy(s) ==
    /\ BusyConsumer /\ con[s] = "handling"
    /\ con' = [con EXCEPT ![s] = "busy"]
    /\ UNCHANGED <<world, stores, shared, calls, source, pumpVars, page, aborted, history>>

\* The consumer comes back for more: only now are the page's cursors saved.
ComeBack(s) ==
    /\ InLoopBody(s)
    /\ con' = [con EXCEPT ![s] = "saveEvents"]
    /\ acked' = acked \cup CommittedEvents(page[s])
    /\ failedAcked' = failedAcked \cup page[s].failed
    /\ UNCHANGED <<world, stores, shared, calls, source, pumpVars, page, aborted,
                   pos, origin, failedOrigin>>

SaveSettles(s) == ~SlowStore \/ Quiescent

\* Mutant: the fetcher's cursor is saved, not the delivered page's.
SaveFetched(s) ==
    /\ con[s] = "saveEvents" /\ SaveSettles(s)
    /\ savedEvents' = cursor[s]
    /\ con' = [con EXCEPT ![s] = IF page[s].failedCursor = NoCursor THEN "top" ELSE "saveFailed"]
    /\ UNCHANGED <<world, savedFailed, shared, calls, source, pumpVars, page, aborted, history>>

SaveEvents(s) ==
    /\ con[s] = "saveEvents" /\ SaveSettles(s)
    /\ savedEvents' = page[s].to
    /\ con' = [con EXCEPT ![s] = IF page[s].failedCursor = NoCursor THEN "top" ELSE "saveFailed"]
    /\ UNCHANGED <<world, savedFailed, shared, calls, source, pumpVars, page, aborted, history>>

SaveFailed(s) ==
    /\ con[s] = "saveFailed" /\ SaveSettles(s)
    /\ savedFailed' = page[s].failedCursor
    /\ con' = [con EXCEPT ![s] = "top"]
    /\ UNCHANGED <<world, savedEvents, shared, calls, source, pumpVars, page, aborted, history>>

\* A save rejects: the stream throws at the consumer and tears down.
SaveRejects(s) ==
    /\ con[s] \in {"saveEvents", "saveFailed"} /\ SaveSettles(s)
    /\ Teardown(s)
    /\ UNCHANGED <<world, stores, calls, lastError, processedFailedTx, counted, cursor,
                   failedCursor, pageFrom, attempts, page, aborted, history>>

Abort(s) ==
    /\ Active(s) /\ ~aborted[s]
    /\ aborted' = [aborted EXCEPT ![s] = TRUE]
    /\ UNCHANGED <<world, stores, shared, calls, source, pumpVars, con, page, history>>

-----------------------------------------------------------------------------
(* The world around the listener.                                          *)

LedgerCloses ==
    /\ head < MaxLedger /\ Quiescent
    /\ head' = head + 1
    /\ UNCHANGED <<stores, shared, calls, source, pumpVars, consumer, history>>

\* The process dies and is restarted, or the host discards the listener for a new
\* one once its streams are over: only the cursor stores survive.
Restart ==
    LET gone(f, dead) == [s \in Streams |-> IF s <= started THEN dead ELSE f[s]] IN
    /\ epoch < started
    /\ epoch' = started
    /\ lease' = NoLease /\ health' = "idle" /\ lastError' = FALSE
    /\ processedFailedTx' = {} /\ counted' = [l \in EventLedgers |-> 0]
    /\ src' = gone(src, "done") /\ pump' = gone(pump, "none")
    /\ con' = gone(con, "done") /\ buffer' = gone(buffer, <<>>)
    /\ stopped' = gone(stopped, TRUE)
    /\ waiting' = gone(waiting, FALSE)
    /\ cursor' = gone(cursor, NoCursor) /\ failedCursor' = gone(failedCursor, NoCursor)
    /\ pageFrom' = gone(pageFrom, 0) /\ attempts' = gone(attempts, 0)
    /\ outstanding' = gone(outstanding, 0)
    /\ finished' = gone(finished, FALSE) /\ failure' = gone(failure, FALSE)
    /\ page' = gone(page, NoPage) /\ aborted' = gone(aborted, FALSE)
    /\ pos' = gone(pos, 0)
    /\ UNCHANGED <<world, stores, started, origin, failedOrigin, acked, failedAcked>>

SourceStep(s) ==
    \/ Load(s) \/ LoadFails(s)
    \/ HeadReply(s) \/ HeadFails(s)
    \/ PollReply(s) \/ PollFails(s)
    \/ FailedTxStart(s) \/ FailedTxReply(s) \/ FailedTxFails(s)
    \/ DelayEnds(s)

PumpStep(s) == GraceEnds(s) \/ TurnEnds(s)

DeliveryStep(s) ==
    \/ TakePage(s) \/ Park(s) \/ EndStream(s)
    \/ SaveEvents(s) \/ SaveFailed(s) \/ SaveRejects(s)

HostStep(s) == Watch(s) \/ Break(s) \/ GoBusy(s) \/ ComeBack(s) \/ Abort(s)

Next ==
    \/ \E s \in Streams : SourceStep(s) \/ PumpStep(s) \/ DeliveryStep(s) \/ HostStep(s)
    \/ LedgerCloses
    \/ Restart

Spec == Init /\ [][Next]_vars

\* The event loop runs what is ready, saves end, and a consumer does not hold a page
\* for ever.  Nothing is assumed of the RPC.
Fairness ==
    \A s \in Streams :
        /\ WF_vars(PumpStep(s))
        /\ WF_vars(DeliveryStep(s))
        /\ WF_vars(ComeBack(s) \/ Break(s))

FairSpec == Spec /\ Fairness

\* The RPC and the stores answer every request, one way or the other, and timers fire.
RpcAnswers == \A s \in Streams : WF_vars(SourceStep(s))

-----------------------------------------------------------------------------
ListenerTypeOK ==
    /\ head \in Nat
    /\ savedEvents \in Cursors /\ savedFailed \in Cursors
    /\ started \in 0 .. MaxStreams /\ epoch \in 0 .. started
    /\ lease \in Streams \cup {NoLease}
    /\ health \in HealthStates /\ lastError \in BOOLEAN
    /\ processedFailedTx \subseteq FailedLedgers
    /\ counted \in [EventLedgers -> Nat]

SourceTypeOK ==
    /\ src \in [Streams -> SourceStates]
    /\ cursor \in [Streams -> Cursors]
    /\ failedCursor \in [Streams -> Cursors]
    /\ pageFrom \in [Streams -> Nat]
    /\ attempts \in [Streams -> 0 .. MaxRetries]

PumpTypeOK ==
    /\ pump \in [Streams -> PumpStates]
    /\ buffer \in [Streams -> Seq(Pages)]
    /\ outstanding \in [Streams -> Nat]
    /\ finished \in [Streams -> BOOLEAN]
    /\ stopped \in [Streams -> BOOLEAN]
    /\ waiting \in [Streams -> BOOLEAN]
    /\ failure \in [Streams -> BOOLEAN]

ConsumerTypeOK ==
    /\ con \in [Streams -> ConsumerStates]
    /\ page \in [Streams -> Pages]
    /\ aborted \in [Streams -> BOOLEAN]
    /\ pos \in [Streams -> Nat]
    /\ origin \in Nat /\ failedOrigin \in Nat
    /\ acked \subseteq EventLedgers /\ failedAcked \subseteq FailedLedgers

\* The values of every variable, by the part of the code that owns it.
TypeOK == ListenerTypeOK /\ SourceTypeOK /\ PumpTypeOK /\ ConsumerTypeOK

\* "The stored cursor never leads the consumer": every committed event the stored
\* cursor has passed was in a page the consumer came back from, whatever was
\* prefetched, dropped at a break, aborted or lost in a crash (telemetry.ts:1293).
CursorNeverLeads ==
    \A l \in EventLedgers : origin < l /\ l <= savedEvents => l \in acked

\* The same for failed transactions: what the stored failed-tx cursor has passed
\* since the scan began reached the consumer (telemetry.ts:2570-2607, 1296).
FailedTxNeverLost ==
    \A l \in FailedLedgers : failedOrigin < l /\ l <= savedFailed => l \in failedAcked

\* The look-ahead bound: buffered pages and the single pull in flight are exactly
\* what `outstanding` counts and never exceed maxBufferedPages (telemetry.ts:1226).
LookAheadBounded ==
    \A s \in Streams : ~stopped[s] =>
        /\ outstanding[s] = Len(buffer[s]) + (IF pump[s] = "pull" THEN 1 ELSE 0)
        /\ outstanding[s] <= MaxBufferedPages

\* No lost wake-up: a consumer parked behind its resolver has nothing to take, and
\* a pump at work that will wake it, or a signal that will (telemetry.ts:1313-1326).
NoLostWakeup ==
    \A s \in Streams : (con[s] = "parked" /\ waiting[s]) =>
        /\ buffer[s] = <<>> /\ ~finished[s] /\ ~failure[s]
        /\ pump[s] # "none" \/ aborted[s]

\* "Every entry point counts each committed decision exactly once": no decision is
\* recorded twice in the counters of one listener (telemetry.ts:3132-3135).
CountedAtMostOnce == \A l \in EventLedgers : counted[l] <= 1

-----------------------------------------------------------------------------
(* The inductive strengthenings of the invariants above.                   *)

Running(s) == src[s] \notin {"off", "yield", "done"}

\* Who is alive: streams start in order, one consumer at a time holds the lease,
\* and a stream is torn down exactly when its consumer is done.
StreamOK(s) ==
    /\ con[s] = "none" <=> s > started
    /\ con[s] = "none" <=> src[s] = "off"
    /\ stopped[s] <=> con[s] = "done"
    /\ lease = s <=> Active(s)
    /\ con[s] = "none" => pump[s] = "none" /\ ~finished[s] /\ ~failure[s]
    /\ src[s] \in {"poll", "pollWait", "failedTx", "yield", "sleep"} => cursor[s] # NoCursor

\* The pump awaits the source exactly while the source runs; its counter, its two
\* end flags and the consumer's demand flag agree with where everybody is.
PumpOK(s) ==
    /\ pump[s] = "pull" <=> Running(s)
    /\ pump[s] = "pull" => outstanding[s] >= 1 /\ ~finished[s]
    /\ failure[s] => finished[s]
    /\ ~stopped[s] =>
        /\ outstanding[s] = Len(buffer[s]) + (IF pump[s] = "pull" THEN 1 ELSE 0)
        /\ outstanding[s] <= MaxBufferedPages
        /\ finished[s] <=> src[s] = "done"
    /\ con[s] \in {"none", "done"} => buffer[s] = <<>>
    /\ waiting[s] => con[s] = "parked"
    /\ (con[s] = "parked" /\ waiting[s]) =>
        /\ buffer[s] = <<>> /\ ~finished[s] /\ ~failure[s]
        /\ pump[s] # "none" \/ aborted[s]

PumpInv == TypeOK /\ \A s \in Streams : StreamOK(s) /\ PumpOK(s)

\* Every committed event in (origin, n] was in a page the consumer came back from.
Covered(n) == \A l \in EventLedgers : (origin < l /\ l <= n) => l \in acked

\* Where the next page of the source will begin, or the page in hand begins.
Fetched(s) == IF src[s] = "failedTx" THEN pageFrom[s] ELSE cursor[s]

\* The buffered pages lead without a hole from what the consumer was given to what
\* the source has fetched.
Linked(s) ==
    LET b == buffer[s] IN
    /\ b = <<>> => pos[s] = Fetched(s)
    /\ b # <<>> => b[1].from = pos[s] /\ b[Len(b)].to = Fetched(s)
    /\ \A i \in 1 .. Len(b) - 1 : b[i].to = b[i + 1].from

\* While the source opens, its consumer waits for the first page.
Opening(s) ==
    /\ src[s] \in {"load", "head", "headWait"}
    /\ con[s] = "parked" /\ waiting[s]
    /\ src[s] # "load" => savedEvents = NoCursor

\* A source that ended before it had a position has nothing to deliver.
NeverOpened(s) ==
    /\ src[s] \notin {"load", "head", "headWait"}
    /\ finished[s] /\ cursor[s] = NoCursor
    /\ buffer[s] = <<>> /\ con[s] \in {"parked", "top"}

\* What was given to the consumer is covered, but for the page it has in hand.
Delivering(s) ==
    /\ src[s] \notin {"load", "head", "headWait"}
    /\ cursor[s] # NoCursor
    /\ Linked(s)
    /\ con[s] \in {"handling", "busy", "saveEvents"} => page[s].to = pos[s]
    /\ con[s] \in {"handling", "busy"} => Covered(page[s].from)
    /\ con[s] \notin {"handling", "busy"} => Covered(pos[s])

\* What the stored cursor and the live stream's position have behind them; a source
\* has no cursor before it opened.
DeliveryInv ==
    /\ Covered(savedEvents)
    /\ \A s \in Streams : src[s] \in {"off", "load", "head", "headWait"} => cursor[s] = NoCursor
    /\ \A s \in Streams : Active(s) => Opening(s) \/ NeverOpened(s) \/ Delivering(s)

\* The failed transaction reached the consumer, is in the page it has in hand, or in
\* one of the first k buffered pages.
Shown(s, k, l) ==
    \/ l \in failedAcked
    \/ con[s] \in {"handling", "busy"} /\ l \in page[s].failed
    \/ \E i \in 1 .. k : l \in buffer[s][i].failed

Scanned(s, k, n) ==
    \A l \in FailedLedgers : (failedOrigin < l /\ l <= n) => Shown(s, k, l)

\* Each scan cursor has its failed transactions in the pages before it, and what was
\* surfaced once, and so is left out of later pages, was not dropped.
ScanInv ==
    /\ FailedTxNeverLost
    /\ failedOrigin <= head
    /\ started = epoch => processedFailedTx = {}
    /\ \A s \in Streams : con[s] = "none" => failedCursor[s] = NoCursor
    /\ \A s \in Streams : Active(s) =>
        /\ Scanned(s, Len(buffer[s]), failedCursor[s])
        /\ \A i \in 1 .. Len(buffer[s]) : Scanned(s, i, buffer[s][i].failedCursor)
        /\ con[s] \in {"handling", "busy", "saveEvents", "saveFailed"} =>
              Scanned(s, 0, page[s].failedCursor)
        /\ \A l \in processedFailedTx : Shown(s, Len(buffer[s]), l)

-----------------------------------------------------------------------------
(* Liveness.                                                               *)

\* An abort ends the iterator though the request in flight is never answered
\* (raceAbort and the un-awaited return(), telemetry.ts:1072, 1326-1343).
AbortEndsStream == \A s \in Streams : aborted[s] ~> con[s] = "done"

\* A consumer that waits is served or released: the pump never leaves it parked, as
\* long as the RPC answers (telemetry.ts:1313-1324).
ParkedIsServed ==
    RpcAnswers => \A s \in Streams : con[s] = "parked" ~> con[s] # "parked"

\* Whatever the ledger has reached is delivered to a stream that stays open, as long
\* as the RPC answers: neither the bound nor the grace turn starves the source.
LedgersAreDelivered ==
    RpcAnswers => \A s \in Streams : \A l \in 1 .. MaxLedger :
        (Active(s) /\ src[s] \in {"poll", "failedTx", "yield", "sleep"} /\ l <= head)
            ~> (pos[s] >= l \/ ~Active(s))

=============================================================================
