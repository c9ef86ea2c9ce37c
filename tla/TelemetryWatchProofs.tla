------------------------ MODULE TelemetryWatchProofs ------------------------
(***************************************************************************)
(* Theorems about TelemetryWatch, for every value of its constants.        *)
(*                                                                         *)
(* The pump: the invariant proved inductive is PumpInv; the source's steps *)
(* touch it only through the four ways a source.next() goes on or settles, *)
(* so each of those has a lemma of its own.                                *)
(*                                                                         *)
(* The cursor: the invariant is DeliveryInv on top of PumpInv.  The pages   *)
(* between what the consumer was given and what the source has fetched     *)
(* form one chain, and everything before the page in hand was come back    *)
(* from.  One stream is live at a time, so a step touches the chain of the *)
(* live stream or of none.                                                 *)
(*                                                                         *)
(* From the chain, and from pages never ending before they begin, follows  *)
(* that watch() is a reader as CursorDelivery describes one.  The last part *)
(* is about the ledgers a listener counts and hands out.                    *)
(***************************************************************************)
EXTENDS WatchDelivery, TLAPS

-----------------------------------------------------------------------------
(* Pages.                                                                  *)

\* The empty page is a page, and a page's committed events are event ledgers.
LEMMA PageTyping ==
    /\ NoPage \in Pages
    /\ \A p \in Pages : CommittedEvents(p) \subseteq EventLedgers
BY DEF NoPage, Pages, CommittedEvents, Cursors, NoCursor

\* What a source that runs says of its pump.
LEMMA RunningSource ==
    ASSUME PumpInv, NEW s \in Streams, Running(s)
    PROVE  /\ pump[s] = "pull" /\ outstanding[s] \in Nat /\ outstanding[s] - 1 \in Nat
           /\ ~finished[s] /\ ~failure[s]
BY DEF PumpInv, TypeOK, PumpTypeOK, PumpOK

\* What `outstanding` counts while the stream lives.
LEMMA OutstandingCounts ==
    ASSUME PumpInv, NEW s \in Streams, ~stopped[s]
    PROVE  /\ Len(buffer[s]) \in Nat /\ outstanding[s] \in Nat
           /\ pump[s] = "pull" => outstanding[s] = Len(buffer[s]) + 1
           /\ pump[s] # "pull" => outstanding[s] = Len(buffer[s])
           /\ outstanding[s] <= MaxBufferedPages
<1>1. /\ outstanding[s] = Len(buffer[s]) + (IF pump[s] = "pull" THEN 1 ELSE 0)
      /\ outstanding[s] <= MaxBufferedPages
  BY DEF PumpInv, PumpOK
<1>2. Len(buffer[s]) \in Nat /\ outstanding[s] \in Nat
  BY DEF PumpInv, TypeOK, PumpTypeOK
<1>3. CASE pump[s] = "pull"
  BY <1>1, <1>2, <1>3
<1>4. CASE pump[s] # "pull"
  BY <1>1, <1>2, <1>4
<1> QED BY <1>3, <1>4

\* A source that asks for a page holds a position.
LEMMA FetchingSource ==
    ASSUME PumpInv, NEW s \in Streams, src[s] \in {"poll", "failedTx"}
    PROVE  cursor[s] \in Nat
BY DEF PumpInv, TypeOK, SourceTypeOK, StreamOK, Cursors

-----------------------------------------------------------------------------
(* Other streams.                                                          *)

\* Stream t is left alone by a step of another stream.
Kept(t) ==
    /\ con'[t] = con[t] /\ src'[t] = src[t] /\ stopped'[t] = stopped[t]
    /\ pump'[t] = pump[t] /\ finished'[t] = finished[t] /\ failure'[t] = failure[t]
    /\ cursor'[t] = cursor[t] /\ outstanding'[t] = outstanding[t]
    /\ buffer'[t] = buffer[t] /\ waiting'[t] = waiting[t] /\ aborted'[t] = aborted[t]

\* A stream that is left alone, by a step that starts no stream and moves no lease,
\* keeps its part of the invariant.
LEMMA KeptStream ==
    ASSUME NEW t \in Streams, StreamOK(t), PumpOK(t), Kept(t),
           started' = started, (lease' = t) <=> (lease = t)
    PROVE  StreamOK(t)' /\ PumpOK(t)'
BY DEF Kept, StreamOK, PumpOK, Active, Running

-----------------------------------------------------------------------------
(* The four continuations of a source.                                     *)

\* What every step of the source leaves alone outside the source and the pump.
SourceOnly(s) ==
    /\ UNCHANGED <<con, aborted, started, lease>>
    /\ cursor' \in [Streams -> Cursors]
    /\ \A t \in Streams \ {s} : cursor'[t] = cursor[t]

\* A page that reaches the pump, or is dropped by it, keeps the pump in order.
LEMMA YieldKeeps ==
    ASSUME PumpInv, NEW s \in Streams, Running(s), SourceOnly(s), cursor'[s] # NoCursor,
           NEW p \in Pages, YieldToPump(s, p)
    PROVE  /\ PumpTypeOK' /\ src' \in [Streams -> SourceStates]
           /\ \A t \in Streams : StreamOK(t)' /\ PumpOK(t)'
<1> USE DEF PumpInv, TypeOK, PumpTypeOK, SourceTypeOK, PumpStates, SourceStates
<1>1. outstanding[s] - 1 \in Nat /\ Append(buffer[s], p) \in Seq(Pages)
  BY RunningSource
<1>2. ASSUME NEW t \in Streams \ {s} PROVE Kept(t)
  BY DEF Kept, YieldToPump, Notify, SourceOnly
<1>3. ASSUME NEW t \in Streams \ {s} PROVE StreamOK(t)' /\ PumpOK(t)'
  BY <1>2, KeptStream DEF SourceOnly
<1>4. CASE stopped[s]
  <2>1. PumpTypeOK' /\ src' \in [Streams -> SourceStates]
    BY <1>1, <1>4 DEF YieldToPump
  <2>2. StreamOK(s)' /\ PumpOK(s)'
    BY <1>1, <1>4, RunningSource DEF StreamOK, PumpOK, YieldToPump, SourceOnly, Active, Running
  <2> QED BY <1>3, <2>1, <2>2
<1>5. CASE ~stopped[s]
  <2>1. buffer' = [buffer EXCEPT ![s] = Append(buffer[s], p)]
    BY <1>5 DEF YieldToPump
  <2>2. buffer' \in [Streams -> Seq(Pages)] /\ buffer'[s] = Append(buffer[s], p)
    BY <1>1, <2>1
  <2>3. PumpTypeOK' /\ src' \in [Streams -> SourceStates]
    BY <1>5, <2>2 DEF YieldToPump, Notify
  <2>4. Len(buffer'[s]) = Len(buffer[s]) + 1
    BY <2>2
  <2>5. StreamOK(s)' /\ PumpOK(s)'
    BY <1>5, <2>4, RunningSource DEF StreamOK, PumpOK, YieldToPump, Notify, SourceOnly, Active, Running
  <2> QED BY <1>3, <2>3, <2>5
<1> QED BY <1>4, <1>5

\* So does a source that returns or throws.
LEMMA EndKeeps ==
    ASSUME PumpInv, NEW s \in Streams, Running(s), SourceOnly(s),
           SourceReturns(s) \/ SourceThrows(s)
    PROVE  /\ PumpTypeOK' /\ src' \in [Streams -> SourceStates]
           /\ \A t \in Streams : StreamOK(t)' /\ PumpOK(t)'
<1> USE DEF PumpInv, TypeOK, PumpTypeOK, SourceTypeOK, PumpStates, SourceStates
<1>1. outstanding[s] - 1 \in Nat
  BY RunningSource
<1>2. ASSUME NEW t \in Streams \ {s} PROVE Kept(t)
  BY DEF Kept, SourceReturns, SourceThrows, Notify, SourceOnly
<1>3. ASSUME NEW t \in Streams \ {s} PROVE StreamOK(t)' /\ PumpOK(t)'
  BY <1>2, KeptStream DEF SourceOnly
<1>4. CASE SourceReturns(s)
  <2>1. PumpTypeOK' /\ src' \in [Streams -> SourceStates]
    BY <1>1, <1>4 DEF SourceReturns, Notify
  <2>2. StreamOK(s)'
    BY <1>1, <1>4, RunningSource DEF StreamOK, SourceReturns, Notify, SourceOnly, Active, Running
  <2>3. /\ src'[s] = "done" /\ pump'[s] = "none" /\ finished'[s] /\ ~waiting'[s]
        /\ outstanding'[s] = outstanding[s] - 1
        /\ buffer'[s] = buffer[s] /\ stopped'[s] = stopped[s] /\ con'[s] = con[s]
        /\ failure'[s] = failure[s]
    BY <1>4 DEF SourceReturns, Notify, SourceOnly
  <2>4. PumpOK(s)'
    BY <2>3, RunningSource, BoundsAssumption DEF PumpOK, Running
  <2> QED BY <1>3, <2>1, <2>2, <2>4
<1>5. CASE SourceThrows(s)
  <2>1. PumpTypeOK' /\ src' \in [Streams -> SourceStates]
    BY <1>1, <1>5 DEF SourceThrows, Notify
  <2>2. StreamOK(s)'
    BY <1>1, <1>5, RunningSource DEF StreamOK, SourceThrows, Notify, SourceOnly, Active, Running
  <2>3. /\ src'[s] = "done" /\ pump'[s] = "none"
        /\ outstanding'[s] = outstanding[s] - 1
        /\ buffer'[s] = buffer[s] /\ stopped'[s] = stopped[s] /\ con'[s] = con[s]
        /\ aborted'[s] = aborted[s]
        /\ \/ /\ stopped[s] /\ waiting'[s] = waiting[s]
              /\ finished'[s] = finished[s] /\ failure'[s] = failure[s]
           \/ finished'[s] /\ ~waiting'[s]
    BY <1>5 DEF SourceThrows, Notify, SourceOnly
  <2>4. PumpOK(s)'
    BY <2>3, RunningSource, BoundsAssumption DEF StreamOK, PumpOK, Running
  <2> QED BY <1>3, <2>1, <2>2, <2>4
<1> QED BY <1>4, <1>5

\* So does a source that goes on to another await.
LEMMA AwaitKeeps ==
    ASSUME PumpInv, NEW s \in Streams, Running(s), SourceOnly(s),
           NEW where \in SourceStates \ {"off", "yield", "done"}, SourceAwaits(s, where),
           where \in {"poll", "pollWait", "failedTx", "sleep"} => cursor'[s] # NoCursor
    PROVE  /\ PumpTypeOK' /\ src' \in [Streams -> SourceStates]
           /\ \A t \in Streams : StreamOK(t)' /\ PumpOK(t)'
<1> USE DEF PumpInv, TypeOK, PumpTypeOK, SourceTypeOK, PumpStates, SourceStates
<1>1. ASSUME NEW t \in Streams \ {s} PROVE Kept(t)
  BY DEF Kept, SourceAwaits, pumpVars, SourceOnly
<1>2. ASSUME NEW t \in Streams \ {s} PROVE StreamOK(t)' /\ PumpOK(t)'
  BY <1>1, KeptStream DEF SourceOnly
<1>3. PumpTypeOK' /\ src' \in [Streams -> SourceStates]
  BY DEF SourceAwaits, pumpVars
<1>4. StreamOK(s)' /\ PumpOK(s)'
  BY RunningSource DEF StreamOK, PumpOK, SourceAwaits, pumpVars, SourceOnly, Active, Running
<1> QED BY <1>2, <1>3, <1>4

-----------------------------------------------------------------------------
(* The steps of the source.                                                *)

\* Opening the stream: the stores' answers, and a store that rejects.
LEMMA LoadKeeps ==
    ASSUME PumpInv, NEW s \in Streams, Load(s) \/ LoadFails(s)
    PROVE  PumpInv'
<1> USE DEF PumpInv, TypeOK
<1>1. CASE Load(s)
  <2>1. Running(s) /\ SourceOnly(s)
    BY <1>1 DEF Load, Running, SourceOnly, SourceTypeOK, ListenerTypeOK, shared, calls, consumer
  <2>2. ListenerTypeOK' /\ ConsumerTypeOK'
    BY <1>1 DEF Load, ListenerTypeOK, ConsumerTypeOK, Cursors, world, stores, shared, calls, consumer
  <2>3. CASE aborted[s]
    <3>1. SourceReturns(s) /\ UNCHANGED <<cursor, failedCursor, pageFrom, attempts>>
      BY <1>1, <2>3 DEF Load
    <3> QED BY <2>1, <2>2, <3>1, EndKeeps DEF SourceTypeOK
  <2>4. CASE ~aborted[s]
    <3>1. /\ SourceAwaits(s, IF savedEvents = NoCursor THEN "head" ELSE "poll")
          /\ cursor' = [cursor EXCEPT ![s] = savedEvents]
          /\ failedCursor' \in [Streams -> Cursors]
          /\ UNCHANGED <<pageFrom, attempts>>
      BY <1>1, <2>4 DEF Load, SourceTypeOK, ListenerTypeOK, Cursors
    <3>2. cursor'[s] = savedEvents
      BY <3>1 DEF SourceTypeOK
    <3>3. PumpTypeOK' /\ src' \in [Streams -> SourceStates]
          /\ \A t \in Streams : StreamOK(t)' /\ PumpOK(t)'
      BY <2>1, <3>1, <3>2, AwaitKeeps DEF SourceStates
    <3> QED BY <2>1, <2>2, <3>1, <3>3 DEF SourceTypeOK, SourceOnly
  <2> QED BY <2>3, <2>4
<1>2. CASE LoadFails(s)
  <2>1. Running(s) /\ SourceOnly(s)
    BY <1>2 DEF LoadFails, Running, SourceOnly, SourceTypeOK, shared, calls, consumer
  <2>2. ListenerTypeOK' /\ ConsumerTypeOK'
    BY <1>2 DEF LoadFails, ListenerTypeOK, ConsumerTypeOK, world, stores, shared, calls, consumer, history
  <2>3. SourceThrows(s) /\ UNCHANGED <<cursor, failedCursor, pageFrom, attempts>>
    BY <1>2 DEF LoadFails
  <2> QED BY <2>1, <2>2, <2>3, EndKeeps DEF SourceTypeOK
<1> QED BY <1>1, <1>2

\* The first position, from the head of the ledger.
LEMMA HeadReplyKeeps ==
    ASSUME PumpInv, NEW s \in Streams, HeadReply(s)
    PROVE  PumpInv'
<1> USE DEF PumpInv, TypeOK
<1> DEFINE start == IF head >= 2 THEN head - 2 ELSE 0
<1>1. start \in Nat
  BY DEF ListenerTypeOK
<1>2. /\ cursor' = [cursor EXCEPT ![s] = start] /\ pos' = [pos EXCEPT ![s] = start]
      /\ origin' \in {origin, start} /\ attempts' = [attempts EXCEPT ![s] = 0]
      /\ src[s] = "head"
      /\ UNCHANGED <<world, stores, shared, calls, failedCursor, pageFrom, consumer,
                     failedOrigin, acked, failedAcked>>
  BY DEF HeadReply
<1> HIDE DEF start
<1>3. Running(s) /\ SourceOnly(s) /\ cursor'[s] # NoCursor
  BY <1>1, <1>2 DEF Running, SourceOnly, SourceTypeOK, Cursors, NoCursor, shared, calls, consumer
<1>4. ListenerTypeOK' /\ ConsumerTypeOK'
  BY <1>1, <1>2 DEF ListenerTypeOK, ConsumerTypeOK, world, stores, shared, calls, consumer
<1>5. SourceReturns(s) \/ SourceAwaits(s, "poll")
  BY DEF HeadReply
<1>6. PumpTypeOK' /\ src' \in [Streams -> SourceStates]
      /\ \A t \in Streams : StreamOK(t)' /\ PumpOK(t)'
  BY <1>3, <1>5, EndKeeps, AwaitKeeps DEF SourceStates
<1>7. attempts' \in [Streams -> 0 .. MaxRetries]
  BY <1>2, BoundsAssumption DEF SourceTypeOK
<1> QED BY <1>2, <1>3, <1>4, <1>6, <1>7 DEF SourceTypeOK, SourceOnly

\* A page of committed events arrives.
LEMMA PollReplyKeeps ==
    ASSUME PumpInv, NEW s \in Streams, PollReply(s)
    PROVE  PumpInv'
<1> USE DEF PumpInv, TypeOK
<1>1. /\ src[s] = "poll" /\ health' = "running"
      /\ attempts' = [attempts EXCEPT ![s] = 0]
      /\ pageFrom' = [pageFrom EXCEPT ![s] = cursor[s]]
      /\ UNCHANGED <<world, stores, calls, lease, lastError, processedFailedTx,
                     failedCursor, consumer, history>>
  BY DEF PollReply
<1>2. cursor[s] \in Nat
  BY <1>1, FetchingSource
<1> DEFINE P(n) == [from |-> cursor[s], to |-> n, failed |-> {}, failedCursor |-> NoCursor]
<1>3. PICK to \in cursor[s] .. head :
        /\ cursor' = [cursor EXCEPT ![s] = to]
        /\ \/ SourceAwaits(s, "failedTx") /\ UNCHANGED counted
           \/ YieldToPump(s, P(to)) /\ Count(P(to))
  BY DEF PollReply
<1>4. to \in Nat /\ P(to) \in Pages
  BY <1>2 DEF Pages, Cursors, NoCursor
<1> DEFINE p == P(to)
<1>5. /\ p \in Pages
      /\ \/ SourceAwaits(s, "failedTx") /\ UNCHANGED counted
         \/ YieldToPump(s, p) /\ Count(p)
  BY <1>3, <1>4
<1> HIDE DEF p, P
<1>6. Running(s) /\ SourceOnly(s) /\ cursor'[s] # NoCursor
  BY <1>1, <1>3, <1>4 DEF Running, SourceOnly, SourceTypeOK, Cursors, NoCursor, calls, consumer
<1>7. counted' \in [EventLedgers -> Nat]
  BY <1>5 DEF Count, ListenerTypeOK
<1>8. ListenerTypeOK' /\ ConsumerTypeOK'
  BY <1>1, <1>7 DEF ListenerTypeOK, ConsumerTypeOK, HealthStates, world, stores, calls, consumer, history
<1>9. PumpTypeOK' /\ src' \in [Streams -> SourceStates]
      /\ \A t \in Streams : StreamOK(t)' /\ PumpOK(t)'
  BY <1>4, <1>5, <1>6, YieldKeeps, AwaitKeeps DEF SourceStates
<1>10. attempts' \in [Streams -> 0 .. MaxRetries] /\ pageFrom' \in [Streams -> Nat]
  BY <1>1, <1>2, BoundsAssumption DEF SourceTypeOK
<1> QED BY <1>1, <1>6, <1>8, <1>9, <1>10 DEF SourceTypeOK, SourceOnly

\* A request is rejected: what the retry envelope does with it.
LEMMA RejectionKeeps ==
    ASSUME PumpInv, NEW s \in Streams, HeadFails(s) \/ PollFails(s)
    PROVE  PumpInv'
<1> USE DEF PumpInv, TypeOK
<1>1. /\ src[s] \in {"head", "poll"}
      /\ UNCHANGED <<world, stores, calls, lease, processedFailedTx, counted, cursor,
                     failedCursor, pageFrom, consumer, history>>
  BY DEF HeadFails, PollFails
<1>2. /\ lastError' \in BOOLEAN /\ health' \in HealthStates
      /\ attempts' \in [Streams -> 0 .. MaxRetries]
  <2>1. \/ /\ attempts' = [attempts EXCEPT ![s] = @ + 1] /\ attempts[s] < MaxRetries
           /\ health' = "recovering" /\ lastError' = lastError
        \/ /\ attempts' = attempts /\ health' = "failed" /\ lastError' = TRUE
        \/ /\ attempts' = attempts /\ health' \in {health, "recovering"} /\ lastError' = lastError
    BY DEF HeadFails, PollFails, RetryOrFail
  <2>2. lastError' \in BOOLEAN /\ health' \in HealthStates
    BY <2>1 DEF HealthStates, ListenerTypeOK
  <2>3. attempts' \in [Streams -> 0 .. MaxRetries]
    BY <2>1, BoundsAssumption DEF SourceTypeOK
  <2> QED BY <2>2, <2>3
<1>3. Running(s) /\ SourceOnly(s)
  BY <1>1 DEF Running, SourceOnly, SourceTypeOK, calls, consumer
<1>4. src[s] = "poll" => cursor'[s] # NoCursor
  BY <1>1, FetchingSource DEF Cursors, NoCursor
<1>5. \/ SourceReturns(s) \/ SourceThrows(s)
      \/ src[s] = "head" /\ SourceAwaits(s, "headWait")
      \/ src[s] = "poll" /\ SourceAwaits(s, "pollWait")
  BY DEF HeadFails, PollFails, RetryOrFail
<1>6. PumpTypeOK' /\ src' \in [Streams -> SourceStates]
      /\ \A t \in Streams : StreamOK(t)' /\ PumpOK(t)'
  BY <1>3, <1>4, <1>5, EndKeeps, AwaitKeeps DEF SourceStates
<1>7. ListenerTypeOK' /\ ConsumerTypeOK'
  BY <1>1, <1>2 DEF ListenerTypeOK, ConsumerTypeOK, world, stores, calls, consumer, history
<1> QED BY <1>1, <1>2, <1>6, <1>7 DEF SourceTypeOK

\* The failed-transaction scan answers or fails, and the page goes out.
LEMMA FailedTxKeeps ==
    ASSUME PumpInv, NEW s \in Streams,
           FailedTxStart(s) \/ FailedTxReply(s) \/ FailedTxFails(s)
    PROVE  PumpInv'
<1> USE DEF PumpInv, TypeOK
<1>1. /\ src[s] = "failedTx"
      /\ UNCHANGED <<world, stores, calls, lease, health, lastError, cursor, pageFrom,
                     attempts, consumer, pos, origin, acked, failedAcked>>
  BY DEF FailedTxStart, FailedTxReply, FailedTxFails, history
<1>2. cursor[s] \in Nat /\ pageFrom[s] \in Nat
  BY <1>1, FetchingSource DEF SourceTypeOK
<1>3. Running(s) /\ SourceOnly(s) /\ cursor'[s] # NoCursor
  BY <1>1, <1>2 DEF Running, SourceOnly, SourceTypeOK, NoCursor, calls, consumer
<1>4. /\ failedCursor' \in [Streams -> Cursors]
      /\ failedOrigin' \in Nat
      /\ processedFailedTx' \subseteq FailedLedgers
      /\ \E failed \in SUBSET FailedLedgers, scanned \in Cursors : CompletePage(s, failed, scanned)
  <2>1. CASE FailedTxStart(s)
    BY <2>1 DEF FailedTxStart, ListenerTypeOK, SourceTypeOK, ConsumerTypeOK, Cursors
  <2>2. CASE FailedTxReply(s)
    <3>1. failedCursor[s] \in Nat
      BY <2>2 DEF FailedTxReply, SourceTypeOK, Cursors
    <3>2. PICK to \in failedCursor[s] .. head :
             LET found == { l \in FailedLedgers : failedCursor[s] < l /\ l <= to } IN
             /\ failedCursor' = [failedCursor EXCEPT ![s] = to]
             /\ processedFailedTx' = processedFailedTx \cup found
             /\ CompletePage(s, found \ processedFailedTx, to)
      BY <2>2 DEF FailedTxReply
    <3>3. to \in Cursors
      BY <3>1 DEF Cursors
    <3>4. failedOrigin' \in Nat
      BY <2>2 DEF FailedTxReply, ConsumerTypeOK, history
    <3>5. { l \in FailedLedgers : failedCursor[s] < l /\ l <= to } \subseteq FailedLedgers
      OBVIOUS
    <3> QED BY <3>2, <3>3, <3>4, <3>5 DEF SourceTypeOK, ListenerTypeOK
  <2>3. CASE FailedTxFails(s)
    BY <2>3 DEF FailedTxFails, ListenerTypeOK, SourceTypeOK, ConsumerTypeOK, Cursors, history
  <2> QED BY <2>1, <2>2, <2>3
<1>5. PICK p \in Pages : YieldToPump(s, p) /\ Count(p)
  <2>1. PICK failed \in SUBSET FailedLedgers, scanned \in Cursors : CompletePage(s, failed, scanned)
    BY <1>4
  <2> DEFINE p == [from |-> pageFrom[s], to |-> cursor[s], failed |-> failed,
                   failedCursor |-> scanned]
  <2>2. p \in Pages
    BY <1>2 DEF Pages
  <2>3. YieldToPump(s, p) /\ Count(p)
    BY <2>1 DEF CompletePage, Count
  <2> QED BY <2>2, <2>3
<1>6. PumpTypeOK' /\ src' \in [Streams -> SourceStates]
      /\ \A t \in Streams : StreamOK(t)' /\ PumpOK(t)'
  BY <1>3, <1>5, YieldKeeps
<1>7. counted' \in [EventLedgers -> Nat]
  BY <1>5 DEF Count, ListenerTypeOK
<1>8. ListenerTypeOK' /\ ConsumerTypeOK'
  BY <1>1, <1>4, <1>7 DEF ListenerTypeOK, ConsumerTypeOK, world, stores, calls, consumer
<1> QED BY <1>1, <1>4, <1>6, <1>8 DEF SourceTypeOK

\* A delay is over.
LEMMA DelayKeeps ==
    ASSUME PumpInv, NEW s \in Streams, DelayEnds(s)
    PROVE  PumpInv'
<1> USE DEF PumpInv, TypeOK
<1>1. /\ src[s] \in {"headWait", "pollWait", "sleep"}
      /\ UNCHANGED <<world, stores, shared, calls, cursor, failedCursor, pageFrom,
                     attempts, consumer, history>>
  BY DEF DelayEnds
<1>2. Running(s) /\ SourceOnly(s)
  BY <1>1 DEF Running, SourceOnly, SourceTypeOK, calls, consumer, shared
<1>3. src[s] # "headWait" => cursor'[s] # NoCursor
  BY <1>1 DEF StreamOK
<1>4. \/ SourceReturns(s)
      \/ src[s] = "headWait" /\ SourceAwaits(s, "head")
      \/ src[s] # "headWait" /\ SourceAwaits(s, "poll")
  BY DEF DelayEnds
<1>5. PumpTypeOK' /\ src' \in [Streams -> SourceStates]
      /\ \A t \in Streams : StreamOK(t)' /\ PumpOK(t)'
  BY <1>2, <1>3, <1>4, EndKeeps, AwaitKeeps DEF SourceStates
<1>6. ListenerTypeOK' /\ ConsumerTypeOK'
  BY <1>1 DEF ListenerTypeOK, ConsumerTypeOK, world, stores, shared, calls, consumer, history
<1> QED BY <1>1, <1>5, <1>6 DEF SourceTypeOK

-----------------------------------------------------------------------------
(* The steps of the pump.                                                  *)

\* A pull the loop condition allows finds the source unopened or behind its yield.
LEMMA PullEffect ==
    ASSUME PumpInv, NEW s \in Streams, pump[s] # "pull",
           ~stopped[s], ~finished[s], outstanding[s] < MaxBufferedPages, Pull(s)
    PROVE  /\ pump' \in [Streams -> PumpStates] /\ pump'[s] = "pull"
           /\ outstanding' \in [Streams -> Nat] /\ outstanding'[s] = outstanding[s] + 1
           /\ src' \in [Streams -> SourceStates]
           /\ \/ src[s] = "off" /\ src'[s] = "load"
              \/ src[s] = "yield" /\ src'[s] = "sleep"
           /\ health' \in HealthStates /\ lastError' \in BOOLEAN
           /\ \A t \in Streams \ {s} :
                 pump'[t] = pump[t] /\ outstanding'[t] = outstanding[t] /\ src'[t] = src[t]
<1> USE DEF PumpInv, TypeOK, PumpTypeOK, SourceTypeOK, ListenerTypeOK
<1>1. src[s] \in {"off", "yield"}
  BY DEF PumpOK, Running, SourceStates
<1>2. /\ pump' = [pump EXCEPT ![s] = "pull"]
      /\ outstanding' = [outstanding EXCEPT ![s] = @ + 1]
      /\ src' = [src EXCEPT ![s] = IF src[s] = "off" THEN "load" ELSE "sleep"]
      /\ health' \in {health, "running"} /\ lastError' \in {lastError, FALSE}
  BY DEF Pull, SourceNext
<1>3. health' \in HealthStates /\ lastError' \in BOOLEAN
  BY <1>2 DEF HealthStates
<1>4. /\ pump' \in [Streams -> PumpStates] /\ pump'[s] = "pull"
      /\ outstanding' \in [Streams -> Nat] /\ outstanding'[s] = outstanding[s] + 1
  BY <1>2 DEF PumpStates
<1>5. src' \in [Streams -> SourceStates]
  BY <1>2 DEF SourceStates
<1>6. \A t \in Streams \ {s} :
         pump'[t] = pump[t] /\ outstanding'[t] = outstanding[t] /\ src'[t] = src[t]
  BY <1>2
<1> QED BY <1>1, <1>2, <1>3, <1>4, <1>5, <1>6

\* The end of the grace turn and of the turn after a push.
LEMMA PumpStepKeeps ==
    ASSUME PumpInv, NEW s \in Streams, GraceEnds(s) \/ TurnEnds(s)
    PROVE  PumpInv'
<1> USE DEF PumpInv, TypeOK
<1>1. /\ pump[s] \in {"grace", "turn"}
      /\ UNCHANGED <<world, stores, calls, lease, processedFailedTx, counted, cursor,
                     failedCursor, pageFrom, attempts, buffer, finished, stopped,
                     waiting, failure, consumer, history>>
      /\ \/ MayPull(s) /\ Pull(s)
         \/ MayPull(s) /\ ~waiting[s] /\ pump' = [pump EXCEPT ![s] = "grace"]
            /\ UNCHANGED <<outstanding, src, health, lastError>>
         \/ ~MayPull(s) /\ pump' = [pump EXCEPT ![s] = "none"]
            /\ UNCHANGED <<outstanding, src, health, lastError>>
  BY DEF GraceEnds, TurnEnds
<1>2. ConsumerTypeOK'
  BY <1>1 DEF ConsumerTypeOK, consumer, history
<1>3. CASE MayPull(s) /\ Pull(s)
  <2>1. /\ pump' \in [Streams -> PumpStates] /\ pump'[s] = "pull"
        /\ outstanding' \in [Streams -> Nat] /\ outstanding'[s] = outstanding[s] + 1
        /\ src' \in [Streams -> SourceStates]
        /\ \/ src[s] = "off" /\ src'[s] = "load"
           \/ src[s] = "yield" /\ src'[s] = "sleep"
        /\ health' \in HealthStates /\ lastError' \in BOOLEAN
        /\ \A t \in Streams \ {s} :
              pump'[t] = pump[t] /\ outstanding'[t] = outstanding[t] /\ src'[t] = src[t]
    BY <1>1, <1>3, PullEffect DEF MayPull
  <2>2. ListenerTypeOK' /\ SourceTypeOK' /\ PumpTypeOK'
    BY <1>1, <2>1 DEF ListenerTypeOK, SourceTypeOK, PumpTypeOK, world, stores, calls
  <2>3. ASSUME NEW t \in Streams \ {s} PROVE StreamOK(t)' /\ PumpOK(t)'
    <3>1. Kept(t)
      BY <1>1, <2>1 DEF Kept, consumer
    <3> QED BY <1>1, <3>1, KeptStream DEF calls
  <2>4. StreamOK(s)' /\ PumpOK(s)'
    <3>1. src[s] # "off"
      BY <1>1 DEF StreamOK
    <3>2. StreamOK(s)'
      BY <1>1, <2>1, <3>1 DEF StreamOK, Active, consumer, calls
    <3>3. Len(buffer[s]) \in Nat /\ outstanding[s] \in Nat
      BY DEF PumpTypeOK
    <3>4. /\ con'[s] = con[s] /\ waiting'[s] = waiting[s] /\ buffer'[s] = buffer[s]
          /\ finished'[s] = finished[s] /\ failure'[s] = failure[s]
          /\ stopped'[s] = stopped[s] /\ ~finished[s] /\ ~stopped[s]
          /\ pump[s] \in {"grace", "turn"} /\ outstanding[s] < MaxBufferedPages
      BY <1>1, <1>3 DEF MayPull, consumer
    <3>5. ~failure[s]
      BY <3>4 DEF PumpOK
    <3>6. outstanding[s] = Len(buffer[s])
      <4>1. pump[s] # "pull" /\ ~stopped[s]
        BY <1>1, <1>3 DEF MayPull
      <4>2. outstanding[s] = Len(buffer[s]) + (IF pump[s] = "pull" THEN 1 ELSE 0)
        BY <4>1 DEF PumpOK
      <4> QED BY <3>3, <4>1, <4>2
    <3>7. outstanding'[s] = Len(buffer'[s]) + 1 /\ outstanding'[s] <= MaxBufferedPages
          /\ outstanding'[s] >= 1
      BY <2>1, <3>3, <3>4, <3>6, BoundsAssumption
    <3>8. pump'[s] = "pull" /\ src'[s] \in {"load", "sleep"}
      BY <2>1
    <3>9. /\ con[s] \in {"none", "done"} => buffer[s] = <<>>
          /\ waiting[s] => con[s] = "parked"
          /\ (con[s] = "parked" /\ waiting[s]) => buffer[s] = <<>>
      BY DEF PumpOK
    <3>10. PumpOK(s)'
      BY <3>4, <3>5, <3>7, <3>8, <3>9 DEF PumpOK, Running
    <3> QED BY <3>2, <3>10
  <2> QED BY <1>2, <2>2, <2>3, <2>4
<1>4. CASE ~(MayPull(s) /\ Pull(s))
  <2>1. /\ UNCHANGED <<outstanding, src, health, lastError>>
        /\ \/ pump' = [pump EXCEPT ![s] = "grace"] /\ ~waiting[s]
           \/ pump' = [pump EXCEPT ![s] = "none"] /\ ~MayPull(s)
    BY <1>1, <1>4
  <2>2. ListenerTypeOK' /\ SourceTypeOK' /\ PumpTypeOK'
    BY <1>1, <2>1 DEF ListenerTypeOK, SourceTypeOK, PumpTypeOK, PumpStates, world, stores, calls
  <2>3. ASSUME NEW t \in Streams \ {s} PROVE StreamOK(t)' /\ PumpOK(t)'
    <3>1. Kept(t)
      BY <1>1, <2>1 DEF Kept, consumer, PumpTypeOK
    <3> QED BY <1>1, <3>1, KeptStream DEF calls
  <2>4. pump'[s] \in {"grace", "none"} /\ (pump'[s] = "none" => ~MayPull(s))
    BY <2>1 DEF PumpTypeOK
  <2>5. StreamOK(s)'
    BY <1>1, <2>1, <2>4 DEF StreamOK, Active, consumer, calls
  <2>6. PumpOK(s)'
    BY <1>1, <2>1, <2>4, BoundsAssumption DEF PumpOK, MayPull, Running, StreamOK, consumer, calls, PumpTypeOK
  <2> QED BY <1>2, <2>2, <2>3, <2>5, <2>6
<1> QED BY <1>1, <1>3, <1>4

-----------------------------------------------------------------------------
(* The steps of the consumer.                                              *)

\* The page taken is a page, and the buffer's count and length go down together.
LEMMA TakePageKeeps ==
    ASSUME PumpInv, NEW s \in Streams, TakePage(s)
    PROVE  PumpInv'
<1> USE DEF PumpInv, TypeOK
<1> DEFINE p == Head(buffer[s])
<1>1. /\ buffer[s] \in Seq(Pages) /\ buffer[s] # <<>> /\ outstanding[s] \in Nat
      /\ con[s] \in {"top", "parked"}
  BY DEF TakePage, AtLoopTop, Resumable, PumpTypeOK
<1>2. /\ p \in Pages /\ Tail(buffer[s]) \in Seq(Pages)
      /\ Len(buffer[s]) \in Nat \ {0} /\ Len(Tail(buffer[s])) = Len(buffer[s]) - 1
  BY <1>1
<1>3. ~stopped[s] /\ s <= started /\ lease = s
  BY <1>1 DEF StreamOK, Active, Streams, ListenerTypeOK
<1>4. /\ page' = [page EXCEPT ![s] = p] /\ pos' = [pos EXCEPT ![s] = p.to]
      /\ con' \in { [con EXCEPT ![s] = "saveEvents"], [con EXCEPT ![s] = "handling"] }
      /\ buffer' = [buffer EXCEPT ![s] = Tail(buffer[s])]
      /\ outstanding' = [outstanding EXCEPT ![s] = outstanding[s] - 1]
      /\ waiting' = [waiting EXCEPT ![s] = FALSE]
      /\ \/ pump[s] = "none" /\ pump' = [pump EXCEPT ![s] = "grace"]
         \/ pump' = pump
      /\ UNCHANGED <<world, stores, shared, calls, source, finished, stopped, failure,
                     aborted, origin, failedOrigin, acked, failedAcked>>
  <2>1. pump' = [pump EXCEPT ![s] = pump[s]] => pump' = pump
    BY DEF PumpTypeOK
  <2> QED BY <2>1 DEF TakePage
<1> HIDE DEF p
<1>5. outstanding[s] - 1 \in Nat
  <2>1. Len(buffer[s]) >= 1
    BY <1>2
  <2>2. outstanding[s] >= 1
    BY <1>3, <2>1, OutstandingCounts
  <2> QED BY <1>1, <2>2
<1>6. p.to \in Nat
  BY <1>2 DEF Pages
<1>7. ListenerTypeOK' /\ SourceTypeOK'
  BY <1>4 DEF ListenerTypeOK, SourceTypeOK, world, stores, shared, calls, source
<1>8. PumpTypeOK'
  BY <1>2, <1>4, <1>5 DEF PumpTypeOK, PumpStates
<1>9. ConsumerTypeOK'
  BY <1>2, <1>4, <1>6 DEF ConsumerTypeOK, ConsumerStates
<1>10. ASSUME NEW t \in Streams \ {s} PROVE StreamOK(t)' /\ PumpOK(t)'
  <2>1. Kept(t)
    BY <1>4 DEF Kept, source, PumpTypeOK, ConsumerTypeOK
  <2> QED BY <1>4, <2>1, KeptStream DEF calls, shared
<1>11. /\ con'[s] \in {"saveEvents", "handling"} /\ ~waiting'[s]
       /\ outstanding'[s] = outstanding[s] - 1 /\ Len(buffer'[s]) = Len(buffer[s]) - 1
       /\ src'[s] = src[s] /\ (pump'[s] = "pull" <=> pump[s] = "pull")
       /\ cursor'[s] = cursor[s] /\ started' = started /\ lease' = lease
  BY <1>2, <1>4, <1>5 DEF source, calls, shared, PumpTypeOK, ConsumerTypeOK
<1>12. stopped' = stopped /\ finished' = finished /\ failure' = failure
  BY <1>4
<1>13. StreamOK(s)'
  BY <1>1, <1>3, <1>11, <1>12 DEF StreamOK, Active
<1>14. PumpOK(s)'
  <2>1. Len(buffer[s]) >= 1
    BY <1>2
  <2>2. /\ outstanding'[s] = outstanding[s] - 1 /\ Len(buffer'[s]) = Len(buffer[s]) - 1
        /\ pump'[s] = "pull" <=> pump[s] = "pull"
    BY <1>11
  <2>3. CASE pump[s] = "pull"
    <3>1. /\ pump'[s] = "pull" /\ outstanding'[s] = Len(buffer'[s]) + 1
          /\ outstanding'[s] >= 1 /\ outstanding'[s] <= MaxBufferedPages
      BY <1>3, <2>1, <2>2, <2>3, OutstandingCounts, BoundsAssumption
    <3> QED BY <1>3, <1>11, <1>12, <3>1 DEF PumpOK, Running
  <2>4. CASE pump[s] # "pull"
    <3>1. /\ pump'[s] # "pull" /\ outstanding'[s] = Len(buffer'[s])
          /\ outstanding'[s] <= MaxBufferedPages /\ Len(buffer'[s]) + 0 = Len(buffer'[s])
      BY <1>3, <2>1, <2>2, <2>4, OutstandingCounts, BoundsAssumption
    <3> QED BY <1>3, <1>11, <1>12, <3>1 DEF PumpOK, Running
  <2> QED BY <2>3, <2>4
<1> QED BY <1>7, <1>8, <1>9, <1>10, <1>13, <1>14

\* A consumer with nothing to take asks for a page and waits.
LEMMA ParkKeeps ==
    ASSUME PumpInv, NEW s \in Streams, Park(s)
    PROVE  PumpInv'
<1> USE DEF PumpInv, TypeOK
<1>1. /\ con[s] \in {"top", "parked"} /\ buffer[s] = <<>>
      /\ ~failure[s] /\ ~finished[s] /\ ~aborted[s]
      /\ con' = [con EXCEPT ![s] = "parked"] /\ waiting' = [waiting EXCEPT ![s] = TRUE]
      /\ UNCHANGED <<world, stores, calls, lease, processedFailedTx, counted, cursor,
                     failedCursor, pageFrom, attempts, buffer, finished, stopped, failure,
                     page, aborted, history>>
  BY DEF Park, AtLoopTop, Resumable
<1>2. ~stopped[s] /\ lease = s /\ s <= started /\ src[s] # "off"
  BY <1>1 DEF StreamOK, Active, Streams, ListenerTypeOK
<1>3. outstanding[s] = (IF pump[s] = "pull" THEN 1 ELSE 0)
  <2>1. outstanding[s] = Len(buffer[s]) + (IF pump[s] = "pull" THEN 1 ELSE 0)
    BY <1>2 DEF PumpOK
  <2>2. Len(buffer[s]) = 0
    BY <1>1
  <2> QED BY <2>1, <2>2
<1>4. pump[s] = "none" => MayPull(s)
  BY <1>1, <1>2, <1>3, BoundsAssumption DEF MayPull
<1>5. CASE pump[s] = "none"
  <2>1. Pull(s)
    BY <1>4, <1>5 DEF Park
  <2>2. /\ pump' \in [Streams -> PumpStates] /\ pump'[s] = "pull"
        /\ outstanding' \in [Streams -> Nat] /\ outstanding'[s] = outstanding[s] + 1
        /\ src' \in [Streams -> SourceStates]
        /\ \/ src[s] = "off" /\ src'[s] = "load"
           \/ src[s] = "yield" /\ src'[s] = "sleep"
        /\ health' \in HealthStates /\ lastError' \in BOOLEAN
        /\ \A t \in Streams \ {s} :
              pump'[t] = pump[t] /\ outstanding'[t] = outstanding[t] /\ src'[t] = src[t]
    BY <1>4, <1>5, <2>1, PullEffect DEF MayPull
  <2>3. ListenerTypeOK' /\ SourceTypeOK' /\ PumpTypeOK'
    BY <1>1, <2>2 DEF ListenerTypeOK, SourceTypeOK, PumpTypeOK, world, stores, calls
  <2>4. ConsumerTypeOK'
    BY <1>1 DEF ConsumerTypeOK, ConsumerStates, history
  <2>5. ASSUME NEW t \in Streams \ {s} PROVE StreamOK(t)' /\ PumpOK(t)'
    <3>1. Kept(t)
      BY <1>1, <2>2 DEF Kept, PumpTypeOK, ConsumerTypeOK
    <3> QED BY <1>1, <3>1, KeptStream DEF calls
  <2>6. con'[s] = "parked" /\ waiting'[s] /\ outstanding'[s] = 1 /\ src'[s] = "sleep"
        /\ buffer'[s] = <<>> /\ Len(buffer'[s]) = 0
    BY <1>1, <1>2, <1>3, <1>5, <2>2 DEF PumpTypeOK, ConsumerTypeOK
  <2>7. StreamOK(s)'
    BY <1>1, <1>2, <2>2, <2>6 DEF StreamOK, Active, calls
  <2>8. PumpOK(s)'
    BY <1>1, <2>2, <2>6, BoundsAssumption DEF PumpOK, Running
  <2> QED BY <2>3, <2>4, <2>5, <2>7, <2>8
<1>6. CASE pump[s] # "none"
  <2>1. UNCHANGED <<pump, outstanding, src, health, lastError>>
    BY <1>6 DEF Park
  <2>2. ListenerTypeOK' /\ SourceTypeOK' /\ PumpTypeOK'
    BY <1>1, <2>1 DEF ListenerTypeOK, SourceTypeOK, PumpTypeOK, world, stores, calls
  <2>3. ConsumerTypeOK'
    BY <1>1 DEF ConsumerTypeOK, ConsumerStates, history
  <2>4. ASSUME NEW t \in Streams \ {s} PROVE StreamOK(t)' /\ PumpOK(t)'
    <3>1. Kept(t)
      BY <1>1, <2>1 DEF Kept, PumpTypeOK, ConsumerTypeOK
    <3> QED BY <1>1, <3>1, KeptStream DEF calls
  <2>5. con'[s] = "parked" /\ waiting'[s]
    BY <1>1 DEF PumpTypeOK, ConsumerTypeOK
  <2>6. StreamOK(s)'
    BY <1>1, <1>2, <2>1, <2>5 DEF StreamOK, Active, calls
  <2>7. PumpOK(s)'
    BY <1>1, <1>6, <2>1, <2>5 DEF PumpOK, Running
  <2> QED BY <2>2, <2>3, <2>4, <2>6, <2>7
<1> QED BY <1>5, <1>6

\* The stream's end, whoever ends it: the source may go on running, unattended.
LEMMA TeardownKeeps ==
    ASSUME PumpInv, NEW s \in Streams, Active(s), Teardown(s),
           UNCHANGED <<world, stores, calls, lastError, processedFailedTx, counted, cursor,
                       failedCursor, pageFrom, attempts, page, aborted, history>>
    PROVE  PumpInv'
<1> USE DEF PumpInv, TypeOK
<1>1. lease = s /\ s <= started /\ src[s] # "off" /\ ~stopped[s]
  BY DEF StreamOK, Active, Streams, ListenerTypeOK
<1>2. /\ con' = [con EXCEPT ![s] = "done"] /\ stopped' = [stopped EXCEPT ![s] = TRUE]
      /\ buffer' = [buffer EXCEPT ![s] = <<>>] /\ waiting' = [waiting EXCEPT ![s] = FALSE]
      /\ src' = [src EXCEPT ![s] = IF src[s] = "yield" THEN "done" ELSE src[s]]
      /\ health' \in {health, "aborted", "stopped"} /\ lease' = NoLease
      /\ UNCHANGED <<pump, outstanding, finished, failure>>
  BY <1>1 DEF Teardown
<1>3. ListenerTypeOK'
  BY <1>2 DEF ListenerTypeOK, HealthStates, world, stores, calls
<1>4. SourceTypeOK' /\ src'[s] \in {src[s], "done"} /\ src'[s] # "yield" /\ (src[s] # "yield" => src'[s] = src[s])
  BY <1>2 DEF SourceTypeOK, SourceStates
<1>5. PumpTypeOK' /\ buffer'[s] = <<>> /\ stopped'[s] /\ ~waiting'[s]
  BY <1>2 DEF PumpTypeOK
<1>6. ConsumerTypeOK' /\ con'[s] = "done"
  BY <1>2 DEF ConsumerTypeOK, ConsumerStates, history
<1>7. ASSUME NEW t \in Streams \ {s} PROVE StreamOK(t)' /\ PumpOK(t)'
  <2>1. Kept(t)
    BY <1>2 DEF Kept, SourceTypeOK, PumpTypeOK, ConsumerTypeOK
  <2>2. (lease' = t) <=> (lease = t)
    BY <1>1, <1>2 DEF NoLease, Streams
  <2> QED BY <2>1, <2>2, KeptStream DEF calls
<1>8. lease' # s /\ started' = started /\ cursor' = cursor /\ pump' = pump
      /\ finished' = finished /\ failure' = failure /\ outstanding' = outstanding
  BY <1>2 DEF NoLease, Streams, calls
<1>9. StreamOK(s)'
  BY <1>1, <1>4, <1>5, <1>6, <1>8 DEF StreamOK, Active, ListenerTypeOK, Streams
<1>10. PumpOK(s)'
  <2>1. pump'[s] = "pull" <=> Running(s)'
    BY <1>4, <1>8 DEF PumpOK, Running
  <2> QED BY <1>5, <1>6, <1>8, <2>1 DEF PumpOK
<1> QED BY <1>3, <1>4, <1>5, <1>6, <1>7, <1>9, <1>10

\* The consumer's own moves, which leave source and pump alone.
LEMMA ConsumerKeeps ==
    ASSUME PumpInv, NEW s \in Streams,
           SaveEvents(s) \/ SaveFailed(s) \/ GoBusy(s) \/ ComeBack(s) \/ Abort(s)
    PROVE  PumpInv'
<1> USE DEF PumpInv, TypeOK
<1>1. /\ Active(s)
      /\ \/ aborted' = [aborted EXCEPT ![s] = TRUE] /\ con' = con
         \/ /\ aborted' = aborted /\ con[s] # "parked"
            /\ \E where \in {"top", "busy", "saveEvents", "saveFailed"} : con' = [con EXCEPT ![s] = where]
      /\ UNCHANGED <<world, shared, calls, source, pumpVars, page, pos, origin, failedOrigin>>
  BY DEF SaveEvents, SaveFailed, GoBusy, ComeBack, InLoopBody, Abort, Active, history
<1>2. savedEvents' \in Cursors /\ savedFailed' \in Cursors
  BY DEF SaveEvents, SaveFailed, GoBusy, ComeBack, Abort, ListenerTypeOK, ConsumerTypeOK, Pages,
         Cursors, stores
<1>3. acked' \subseteq EventLedgers /\ failedAcked' \subseteq FailedLedgers
  <2>1. /\ acked' = acked \/ acked' = acked \cup CommittedEvents(page[s])
        /\ failedAcked' = failedAcked \/ failedAcked' = failedAcked \cup page[s].failed
    BY DEF SaveEvents, SaveFailed, GoBusy, ComeBack, Abort, history
  <2>2. page[s] \in Pages /\ page[s].failed \subseteq FailedLedgers
    BY DEF ConsumerTypeOK, Pages
  <2> QED BY <2>1, <2>2, PageTyping DEF ConsumerTypeOK
<1>4. ListenerTypeOK' /\ SourceTypeOK' /\ PumpTypeOK'
  BY <1>1, <1>2 DEF ListenerTypeOK, SourceTypeOK, PumpTypeOK, world, shared, calls, source, pumpVars
<1>5. ConsumerTypeOK'
  BY <1>1, <1>3 DEF ConsumerTypeOK, ConsumerStates
<1>6. ASSUME NEW t \in Streams \ {s} PROVE StreamOK(t)' /\ PumpOK(t)'
  <2>1. Kept(t)
    BY <1>1 DEF Kept, source, pumpVars, ConsumerTypeOK
  <2> QED BY <1>1, <2>1, KeptStream DEF calls, shared
<1>7. /\ \/ con'[s] = con[s] /\ aborted'[s]
         \/ con[s] # "parked" /\ con'[s] \in {"top", "busy", "saveEvents", "saveFailed"}
      /\ started' = started /\ lease' = lease /\ UNCHANGED source /\ UNCHANGED pumpVars
  BY <1>1 DEF ConsumerTypeOK, calls, shared
<1>8. StreamOK(s)'
  BY <1>1, <1>7 DEF StreamOK, Active, source, pumpVars
<1>9. PumpOK(s)'
  BY <1>1, <1>7 DEF PumpOK, Active, Running, source, pumpVars
<1> QED BY <1>4, <1>5, <1>6, <1>8, <1>9

\* A call of watch(): the lease was free, so no other stream is live.
LEMMA WatchKeeps ==
    ASSUME PumpInv, NEW s \in Streams, Watch(s)
    PROVE  PumpInv'
<1> USE DEF PumpInv, TypeOK
<1>1. /\ s = started + 1 /\ lease = NoLease /\ started' = s
      /\ UNCHANGED <<world, stores, epoch, processedFailedTx, counted, cursor, failedCursor,
                     pageFrom, attempts, buffer, finished, failure, page, history>>
  BY DEF Watch
<1>2. /\ con[s] = "none" /\ src[s] = "off" /\ pump[s] = "none" /\ buffer[s] = <<>>
      /\ ~stopped[s] /\ ~finished[s] /\ ~failure[s]
  <2>1. s > started
    BY <1>1 DEF ListenerTypeOK
  <2>2. con[s] = "none"
    BY <2>1 DEF StreamOK
  <2>3. src[s] = "off" /\ pump[s] = "none" /\ ~finished[s] /\ ~failure[s] /\ ~stopped[s]
    BY <2>2 DEF StreamOK
  <2>4. buffer[s] = <<>>
    BY <2>2 DEF PumpOK
  <2> QED BY <2>2, <2>3, <2>4
<1>3. outstanding[s] = 0
  BY <1>2, OutstandingCounts
<1>4. started' \in 0 .. MaxStreams /\ epoch' \in 0 .. started'
  BY <1>1 DEF Streams, ListenerTypeOK
<1>5. ASSUME NEW t \in Streams \ {s}, Kept(t), lease' \in {NoLease, s}
      PROVE  StreamOK(t)' /\ PumpOK(t)'
  <2>1. t > started <=> t > started'
    BY <1>1 DEF Streams, ListenerTypeOK
  <2>2. lease # t /\ lease' # t
    BY <1>1, <1>5 DEF NoLease, Streams
  <2>3. StreamOK(t)'
    BY <1>5, <2>1, <2>2 DEF Kept, StreamOK, Active
  <2>4. PumpOK(t)'
    BY <1>5 DEF Kept, PumpOK, Running
  <2> QED BY <2>3, <2>4
<1>6. CASE /\ aborted' = [aborted EXCEPT ![s] = TRUE] /\ con' = [con EXCEPT ![s] = "done"]
           /\ stopped' = [stopped EXCEPT ![s] = TRUE] /\ src' = [src EXCEPT ![s] = "done"]
           /\ health' = "aborted"
           /\ UNCHANGED <<lease, waiting, pump, outstanding, lastError>>
  <2>1. ListenerTypeOK'
    BY <1>1, <1>4, <1>6 DEF ListenerTypeOK, HealthStates, world, stores
  <2>2. SourceTypeOK' /\ PumpTypeOK' /\ ConsumerTypeOK'
    BY <1>1, <1>6 DEF SourceTypeOK, PumpTypeOK, ConsumerTypeOK, SourceStates, ConsumerStates, history
  <2>3. ASSUME NEW t \in Streams \ {s} PROVE StreamOK(t)' /\ PumpOK(t)'
    <3>1. Kept(t)
      BY <1>1, <1>6 DEF Kept, SourceTypeOK, PumpTypeOK, ConsumerTypeOK
    <3> QED BY <1>1, <1>5, <1>6, <3>1
  <2>4. con'[s] = "done" /\ stopped'[s] /\ src'[s] = "done"
    BY <1>6 DEF SourceTypeOK, PumpTypeOK, ConsumerTypeOK
  <2>5. StreamOK(s)'
    BY <1>1, <1>2, <1>6, <2>4 DEF StreamOK, Active, NoLease, Streams
  <2>6. PumpOK(s)'
    BY <1>1, <1>2, <1>6, <2>4 DEF PumpOK, Running
  <2> QED BY <2>1, <2>2, <2>3, <2>5, <2>6
<1>7. CASE /\ aborted' = [aborted EXCEPT ![s] = FALSE] /\ con' = [con EXCEPT ![s] = "parked"]
           /\ lease' = s /\ waiting' = [waiting EXCEPT ![s] = TRUE]
           /\ Pull(s) /\ UNCHANGED stopped
  <2>1. outstanding[s] < MaxBufferedPages
    BY <1>3, BoundsAssumption
  <2>2. /\ pump' \in [Streams -> PumpStates] /\ pump'[s] = "pull"
        /\ outstanding' \in [Streams -> Nat] /\ outstanding'[s] = outstanding[s] + 1
        /\ src' \in [Streams -> SourceStates]
        /\ src[s] = "off" /\ src'[s] = "load"
        /\ health' \in HealthStates /\ lastError' \in BOOLEAN
        /\ \A t \in Streams \ {s} :
              pump'[t] = pump[t] /\ outstanding'[t] = outstanding[t] /\ src'[t] = src[t]
    BY <1>2, <1>7, <2>1, PullEffect
  <2>3. ListenerTypeOK'
    BY <1>1, <1>4, <1>7, <2>2 DEF ListenerTypeOK, world, stores
  <2>4. SourceTypeOK' /\ PumpTypeOK' /\ ConsumerTypeOK'
    BY <1>1, <1>7, <2>2 DEF SourceTypeOK, PumpTypeOK, ConsumerTypeOK, ConsumerStates, history
  <2>5. ASSUME NEW t \in Streams \ {s} PROVE StreamOK(t)' /\ PumpOK(t)'
    <3>1. Kept(t)
      BY <1>1, <1>7, <2>2 DEF Kept, PumpTypeOK, ConsumerTypeOK
    <3> QED BY <1>5, <1>7, <3>1
  <2>6. con'[s] = "parked" /\ waiting'[s] /\ outstanding'[s] = 1
        /\ buffer'[s] = <<>> /\ Len(buffer'[s]) = 0
    BY <1>1, <1>2, <1>3, <1>7, <2>2 DEF PumpTypeOK, ConsumerTypeOK
  <2>7. ~(s > started')
    BY <1>1 DEF ListenerTypeOK
  <2>8. StreamOK(s)'
    BY <1>1, <1>2, <1>7, <2>2, <2>6, <2>7 DEF StreamOK, Active
  <2>9. PumpOK(s)'
    BY <1>1, <1>2, <1>7, <2>2, <2>6, BoundsAssumption DEF PumpOK, Running
  <2> QED BY <2>3, <2>4, <2>5, <2>8, <2>9
<1> QED BY <1>6, <1>7 DEF Watch

-----------------------------------------------------------------------------
(* The world.                                                              *)

\* A ledger closes: nothing in the process moves.
LEMMA LedgerKeeps == ASSUME PumpInv, LedgerCloses PROVE PumpInv'
<1> USE DEF PumpInv, TypeOK
<1>1. UNCHANGED <<stores, shared, calls, source, pumpVars, consumer, history>> /\ head' \in Nat
  BY DEF LedgerCloses, ListenerTypeOK
<1>2. ListenerTypeOK' /\ SourceTypeOK' /\ PumpTypeOK' /\ ConsumerTypeOK'
  BY <1>1 DEF ListenerTypeOK, SourceTypeOK, PumpTypeOK, ConsumerTypeOK, stores, shared, calls,
     source, pumpVars, consumer, history
<1>3. ASSUME NEW t \in Streams PROVE StreamOK(t)' /\ PumpOK(t)'
  <2>1. Kept(t)
    BY <1>1 DEF Kept, source, pumpVars, consumer
  <2> QED BY <1>1, <2>1, KeptStream DEF calls, shared
<1> QED BY <1>2, <1>3

\* A restart: the streams started so far are gone, those to come untouched.
LEMMA RestartKeeps == ASSUME PumpInv, Restart PROVE PumpInv'
<1> USE DEF PumpInv, TypeOK
<1>1. /\ epoch' = started /\ lease' = NoLease /\ health' = "idle" /\ lastError' = FALSE
      /\ processedFailedTx' = {} /\ counted' = [l \in EventLedgers |-> 0]
      /\ UNCHANGED <<world, stores, started, origin, failedOrigin, acked, failedAcked>>
  BY DEF Restart
<1>2. ListenerTypeOK'
  <2>1. started \in 0 .. MaxStreams /\ started' = started /\ epoch' \in 0 .. started'
    BY <1>1 DEF ListenerTypeOK
  <2>2. head' \in Nat /\ savedEvents' \in Cursors /\ savedFailed' \in Cursors
    BY <1>1 DEF ListenerTypeOK, world, stores
  <2>3. counted' \in [EventLedgers -> Nat]
    BY <1>1
  <2> QED BY <1>1, <2>1, <2>2, <2>3 DEF ListenerTypeOK, HealthStates
<1>3. SourceTypeOK'
  BY BoundsAssumption DEF Restart, SourceTypeOK, SourceStates, Cursors, NoCursor
<1>4. PumpTypeOK'
  <2>1. pump' \in [Streams -> PumpStates]
    BY DEF Restart, PumpTypeOK, PumpStates
  <2>2. buffer' \in [Streams -> Seq(Pages)]
    <3>1. <<>> \in Seq(Pages)
      OBVIOUS
    <3> QED BY <3>1 DEF Restart, PumpTypeOK
  <2>3. outstanding' \in [Streams -> Nat]
    BY DEF Restart, PumpTypeOK
  <2>4. finished' \in [Streams -> BOOLEAN] /\ failure' \in [Streams -> BOOLEAN]
    BY DEF Restart, PumpTypeOK
  <2>5. stopped' \in [Streams -> BOOLEAN] /\ waiting' \in [Streams -> BOOLEAN]
    BY DEF Restart, PumpTypeOK
  <2> QED BY <2>1, <2>2, <2>3, <2>4, <2>5 DEF PumpTypeOK
<1>5. ConsumerTypeOK'
  BY <1>1, PageTyping DEF Restart, ConsumerTypeOK, ConsumerStates
<1>6. ASSUME NEW t \in Streams, t <= started PROVE StreamOK(t)' /\ PumpOK(t)'
  <2>1. /\ con'[t] = "done" /\ src'[t] = "done" /\ pump'[t] = "none" /\ buffer'[t] = <<>>
        /\ stopped'[t] /\ ~waiting'[t] /\ ~finished'[t] /\ ~failure'[t]
    BY <1>6 DEF Restart
  <2>2. ~(t > started') /\ lease' # t
    BY <1>1, <1>6 DEF NoLease, Streams, ListenerTypeOK
  <2>3. StreamOK(t)'
    BY <2>1, <2>2 DEF StreamOK, Active
  <2>4. PumpOK(t)'
    BY <2>1 DEF PumpOK, Running
  <2> QED BY <2>3, <2>4
<1>7. ASSUME NEW t \in Streams, ~(t <= started) PROVE StreamOK(t)' /\ PumpOK(t)'
  <2>1. Kept(t)
    BY <1>7 DEF Restart, Kept
  <2>2. lease # t /\ lease' # t
    BY <1>1, <1>7 DEF StreamOK, Active, NoLease, Streams, ListenerTypeOK
  <2> QED BY <1>1, <2>1, <2>2, KeptStream
<1> QED BY <1>2, <1>3, <1>4, <1>5, <1>6, <1>7

-----------------------------------------------------------------------------
(* The invariant.                                                          *)

\* A process that has called nothing yet.
LEMMA PumpInit == Init => PumpInv
<1> SUFFICES ASSUME Init PROVE PumpInv
  OBVIOUS
<1>1. ListenerTypeOK
  <2>1. started \in 0 .. MaxStreams /\ epoch \in 0 .. started
    BY BoundsAssumption DEF Init
  <2>2. head \in Nat /\ savedEvents \in Cursors /\ savedFailed \in Cursors
    BY BoundsAssumption DEF Init, Cursors
  <2>3. counted \in [EventLedgers -> Nat]
    BY DEF Init
  <2>4. /\ lease \in Streams \cup {NoLease} /\ health \in HealthStates
        /\ lastError \in BOOLEAN /\ processedFailedTx \subseteq FailedLedgers
    BY DEF Init, HealthStates
  <2> QED BY <2>1, <2>2, <2>3, <2>4 DEF ListenerTypeOK
<1>2. SourceTypeOK
  BY BoundsAssumption DEF Init, SourceTypeOK, SourceStates, Cursors
<1>3. PumpTypeOK
  <2>1. pump \in [Streams -> PumpStates] /\ outstanding \in [Streams -> Nat]
    BY DEF Init, PumpStates
  <2>2. buffer \in [Streams -> Seq(Pages)]
    BY DEF Init
  <2>3. /\ finished \in [Streams -> BOOLEAN] /\ stopped \in [Streams -> BOOLEAN]
        /\ waiting \in [Streams -> BOOLEAN] /\ failure \in [Streams -> BOOLEAN]
    BY DEF Init
  <2> QED BY <2>1, <2>2, <2>3 DEF PumpTypeOK
<1>4. ConsumerTypeOK
  <2>1. con \in [Streams -> ConsumerStates] /\ page \in [Streams -> Pages]
    BY PageTyping DEF Init, ConsumerStates
  <2>2. aborted \in [Streams -> BOOLEAN] /\ pos \in [Streams -> Nat]
    BY DEF Init
  <2>3. origin \in Nat /\ failedOrigin \in Nat /\ acked \subseteq EventLedgers
        /\ failedAcked \subseteq FailedLedgers
    BY DEF Init
  <2> QED BY <2>1, <2>2, <2>3 DEF ConsumerTypeOK
<1>5. ASSUME NEW s \in Streams PROVE StreamOK(s) /\ PumpOK(s)
  <2>1. /\ con[s] = "none" /\ src[s] = "off" /\ pump[s] = "none" /\ buffer[s] = <<>>
        /\ ~stopped[s] /\ ~finished[s] /\ ~failure[s] /\ ~waiting[s] /\ outstanding[s] = 0
        /\ lease # s /\ s > started
    BY DEF Init, NoLease, Streams
  <2>2. StreamOK(s)
    BY <2>1 DEF StreamOK, Active
  <2>3. PumpOK(s)
    BY <2>1, BoundsAssumption DEF PumpOK, Running
  <2> QED BY <2>2, <2>3
<1> QED BY <1>1, <1>2, <1>3, <1>4, <1>5 DEF PumpInv, TypeOK

\* A step that changes nothing.
LEMMA StutterKeeps == ASSUME PumpInv, UNCHANGED vars PROVE PumpInv'
<1> USE DEF PumpInv, TypeOK, vars, world, stores, shared, calls, source, pumpVars,
            consumer, history
<1>1. ListenerTypeOK' /\ SourceTypeOK' /\ PumpTypeOK' /\ ConsumerTypeOK'
  BY DEF ListenerTypeOK, SourceTypeOK, PumpTypeOK, ConsumerTypeOK
<1>2. ASSUME NEW t \in Streams PROVE StreamOK(t)' /\ PumpOK(t)'
  <2>1. Kept(t)
    BY DEF Kept
  <2> QED BY <2>1, KeptStream
<1> QED BY <1>1, <1>2

\* Every step keeps the invariant: one case per operation of the code.
LEMMA PumpStepsKeep == PumpInv /\ [Next]_vars => PumpInv'
<1> SUFFICES ASSUME PumpInv, [Next]_vars PROVE PumpInv'
  OBVIOUS
<1>1. ASSUME NEW s \in Streams, SourceStep(s) PROVE PumpInv'
  BY <1>1, LoadKeeps, HeadReplyKeeps, PollReplyKeeps, RejectionKeeps, FailedTxKeeps, DelayKeeps
     DEF SourceStep
<1>2. ASSUME NEW s \in Streams, PumpStep(s) PROVE PumpInv'
  BY <1>2, PumpStepKeeps DEF PumpStep
<1>3. ASSUME NEW s \in Streams, EndStream(s) \/ SaveRejects(s) \/ Break(s) PROVE PumpInv'
  <2>1. Active(s)
    BY <1>3 DEF EndStream, SaveRejects, Break, AtLoopTop, Resumable, InLoopBody, Active
  <2> QED BY <1>3, <2>1, TeardownKeeps DEF EndStream, SaveRejects, Break
<1>4. ASSUME NEW s \in Streams, DeliveryStep(s) PROVE PumpInv'
  BY <1>3, <1>4, TakePageKeeps, ParkKeeps, ConsumerKeeps DEF DeliveryStep
<1>5. ASSUME NEW s \in Streams, HostStep(s) PROVE PumpInv'
  BY <1>3, <1>5, WatchKeeps, ConsumerKeeps DEF HostStep
<1> QED BY <1>1, <1>2, <1>4, <1>5, LedgerKeeps, RestartKeeps, StutterKeeps DEF Next

\* The watcher's control state is consistent in every reachable state, for any number
\* of streams, any look-ahead bound, any ledgers and either consumer and store: who
\* holds the lease, what the pump awaits, what `outstanding` counts, who will wake a
\* parked consumer (telemetry.ts:1185-1343, 2771-2851).
THEOREM WatchConsistent == Spec => []PumpInv
BY PumpInit, PumpStepsKeep, PTL DEF Spec

\* Every variable keeps its type.
THEOREM TypeCorrect == Spec => []TypeOK
<1>1. PumpInv => TypeOK
  BY DEF PumpInv
<1> QED BY <1>1, WatchConsistent, PTL

\* The buffered pages and the pull in flight never exceed maxBufferedPages while the
\* stream lives (telemetry.ts:1226).
THEOREM LookAheadIsBounded == Spec => []LookAheadBounded
<1>1. PumpInv => LookAheadBounded
  BY DEF PumpInv, PumpOK, LookAheadBounded
<1> QED BY <1>1, WatchConsistent, PTL

\* A consumer that parks is never forgotten: the buffer it found empty is still empty
\* and a pump at work, or the abort, will wake it (telemetry.ts:1313-1326).
THEOREM WakeupNeverLost == Spec => []NoLostWakeup
<1>1. PumpInv => NoLostWakeup
  BY DEF PumpInv, PumpOK, NoLostWakeup
<1> QED BY <1>1, WatchConsistent, PTL

-----------------------------------------------------------------------------
(* Coverage.                                                               *)

\* Coverage is not lost as the consumer comes back from more.
LEMMA CoverageGrows ==
    ASSUME NEW n, Covered(n), acked \subseteq acked', origin' = origin
    PROVE  \A l \in EventLedgers : (origin' < l /\ l <= n) => l \in acked'
BY DEF Covered

\* Nothing lies before the first position, nor behind the origin itself.
LEMMA NothingBefore ==
    /\ origin \in Nat => Covered(NoCursor)
    /\ origin \in Nat => Covered(origin)
BY LedgersAssumption DEF Covered, NoCursor

-----------------------------------------------------------------------------
(* The chain of pages.                                                     *)

\* A page that begins where the source stood lengthens the chain.
LEMMA ChainGrows ==
    ASSUME NEW b \in Seq(Pages), NEW p \in Pages, NEW at, NEW fetched,
           b = <<>> => at = fetched,
           b # <<>> => b[1].from = at /\ b[Len(b)].to = fetched,
           \A i \in 1 .. Len(b) - 1 : b[i].to = b[i + 1].from,
           p.from = fetched
    PROVE  LET c == Append(b, p) IN
           /\ c # <<>> /\ c[1].from = at /\ c[Len(c)].to = p.to
           /\ \A i \in 1 .. Len(c) - 1 : c[i].to = c[i + 1].from
<1> DEFINE c == Append(b, p)
<1>0. /\ Len(b) \in Nat /\ c \in Seq(Pages) /\ Len(c) = Len(b) + 1
      /\ \A i \in 1 .. Len(b) : c[i] = b[i]
      /\ c[Len(b) + 1] = p
  OBVIOUS
<1> HIDE DEF c
<1>1. /\ Len(b) \in Nat /\ Len(c) = Len(b) + 1 /\ c # <<>>
      /\ \A i \in 1 .. Len(b) : c[i] = b[i]
      /\ c[Len(c)] = p
  BY <1>0
<1>2. c[1].from = at
  <2>1. CASE b = <<>>
    BY <1>1, <2>1
  <2>2. CASE b # <<>>
    <3>1. Len(b) >= 1
      BY <2>2
    <3> QED BY <1>1, <2>2, <3>1
  <2> QED BY <2>1, <2>2
<1>3. ASSUME NEW i \in 1 .. Len(c) - 1 PROVE c[i].to = c[i + 1].from
  <2>1. CASE i = Len(b)
    <3>1. Len(b) >= 1 /\ b # <<>>
      BY <1>1, <2>1
    <3>2. c[i] = b[Len(b)] /\ c[i + 1] = p
      BY <1>1, <2>1, <3>1
    <3> QED BY <3>1, <3>2
  <2>2. CASE i # Len(b)
    <3>1. i \in 1 .. Len(b) - 1
      BY <1>1, <2>2
    <3>2. c[i] = b[i] /\ c[i + 1] = b[i + 1]
      BY <1>1, <3>1
    <3> QED BY <3>1, <3>2
  <2> QED BY <2>1, <2>2
<1> QED BY <1>1, <1>2, <1>3 DEF c

\* Taking the first page leaves the chain behind it.
LEMMA ChainShrinks ==
    ASSUME NEW b \in Seq(Pages), b # <<>>, NEW fetched,
           b[Len(b)].to = fetched,
           \A i \in 1 .. Len(b) - 1 : b[i].to = b[i + 1].from
    PROVE  LET c == Tail(b) IN
           /\ c = <<>> => Head(b).to = fetched
           /\ c # <<>> => c[1].from = Head(b).to /\ c[Len(c)].to = fetched
           /\ \A i \in 1 .. Len(c) - 1 : c[i].to = c[i + 1].from
<1> DEFINE c == Tail(b)
<1>1. /\ Len(b) \in Nat \ {0} /\ Len(c) = Len(b) - 1 /\ Head(b) = b[1]
      /\ c \in Seq(Pages) /\ \A i \in 1 .. Len(c) : c[i] = b[i + 1]
  OBVIOUS
<1> HIDE DEF c
<1>2. c = <<>> <=> Len(c) = 0
  BY <1>1
<1>3. ASSUME c = <<>> PROVE Head(b).to = fetched
  <2>1. Len(b) = 1
    BY <1>1, <1>2, <1>3
  <2> QED BY <1>1, <2>1
<1>4. c # <<>> => c[1].from = Head(b).to /\ c[Len(c)].to = fetched
  <2> SUFFICES ASSUME c # <<>> PROVE c[1].from = Head(b).to /\ c[Len(c)].to = fetched
    OBVIOUS
  <2>1. Len(c) >= 1 /\ 1 \in 1 .. Len(b) - 1 /\ 1 \in 1 .. Len(c) /\ Len(c) \in 1 .. Len(c)
    BY <1>1, <1>2
  <2>2. c[1] = b[2] /\ c[Len(c)] = b[Len(b)]
    BY <1>1, <2>1
  <2>3. b[1].to = b[2].from
    BY <2>1
  <2> QED BY <1>1, <2>2, <2>3
<1>5. ASSUME NEW i \in 1 .. Len(c) - 1 PROVE c[i].to = c[i + 1].from
  <2>1. i + 1 \in 1 .. Len(b) - 1 /\ i \in 1 .. Len(c) /\ i + 1 \in 1 .. Len(c)
    BY <1>1
  <2>2. c[i] = b[i + 1] /\ c[i + 1] = b[(i + 1) + 1]
    BY <1>1, <2>1
  <2> QED BY <2>1, <2>2
<1> QED BY <1>3, <1>4, <1>5 DEF c

-----------------------------------------------------------------------------
(* One live stream.                                                        *)

\* The lease admits one consumer.
LEMMA OneLive ==
    ASSUME PumpInv, NEW s \in Streams, NEW t \in Streams, Active(s), Active(t)
    PROVE  s = t
BY DEF PumpInv, StreamOK

\* The live part of the invariant.
LiveOK(s) == Opening(s) \/ NeverOpened(s) \/ Delivering(s)
NotYet(s) == src[s] \in {"off", "load", "head", "headWait"} => cursor[s] = NoCursor

\* A step of stream s, and what it may change beyond s only if s is live.
Frame(s) ==
    /\ \A t \in Streams \ {s} :
          /\ Kept(t)
          /\ pos'[t] = pos[t] /\ page'[t] = page[t] /\ pageFrom'[t] = pageFrom[t]
    /\ acked \subseteq acked'
    /\ ~Active(s) => savedEvents' = savedEvents /\ origin' = origin

\* Another stream's part survives.
LEMMA OthersKeep ==
    ASSUME PumpInv, DeliveryInv, NEW s \in Streams, Frame(s),
           Covered(savedEvents)', NotYet(s)', Active(s)' => LiveOK(s)'
    PROVE  DeliveryInv'
<1>1. ASSUME NEW t \in Streams \ {s} PROVE NotYet(t)'
  BY DEF DeliveryInv, NotYet, Frame, Kept
<1>2. ASSUME NEW t \in Streams \ {s}, Active(t)' PROVE LiveOK(t)'
  <2>1. Active(t)
    BY <1>2 DEF Frame, Kept, Active
  <2>2. ~Active(s)
    BY <2>1, OneLive
  <2>3. savedEvents' = savedEvents /\ origin' = origin /\ acked \subseteq acked'
    BY <2>2 DEF Frame
  <2>4. LiveOK(t)
    BY <2>1 DEF DeliveryInv, LiveOK
  <2>5. /\ src'[t] = src[t] /\ con'[t] = con[t] /\ waiting'[t] = waiting[t]
        /\ finished'[t] = finished[t] /\ cursor'[t] = cursor[t] /\ buffer'[t] = buffer[t]
        /\ pos'[t] = pos[t] /\ page'[t] = page[t] /\ pageFrom'[t] = pageFrom[t]
    BY DEF Frame, Kept
  <2>6. CASE Opening(t)
    BY <2>3, <2>5, <2>6 DEF Opening, LiveOK
  <2>7. CASE NeverOpened(t)
    BY <2>5, <2>7 DEF NeverOpened, LiveOK
  <2>8. CASE Delivering(t)
    <3>1. Linked(t)'
      BY <2>5, <2>8 DEF Delivering, Linked, Fetched
    <3>2. /\ Covered(page[t].from) => Covered(page[t].from)'
          /\ Covered(pos[t]) => Covered(pos[t])'
      BY <2>3, <2>5 DEF Covered
    <3>3. Delivering(t)'
      BY <2>5, <2>8, <3>1, <3>2 DEF Delivering
    <3> QED BY <3>3 DEF LiveOK
  <2> QED BY <2>4, <2>6, <2>7, <2>8 DEF LiveOK
<1>3. \A t \in Streams : NotYet(t)' /\ (Active(t)' => LiveOK(t)')
  BY <1>1, <1>2
<1> QED BY <1>3 DEF DeliveryInv, NotYet, LiveOK
-----------------------------------------------------------------------------
(* The steps of the source.                                                *)

\* A source step leaves the consumer, its page and the store alone.
SourceLocal(s) ==
    /\ SourceOnly(s)
    /\ UNCHANGED <<page, savedEvents, acked>>
    /\ \A t \in Streams \ {s} : pos'[t] = pos[t] /\ pageFrom'[t] = pageFrom[t]
    /\ ~Active(s) => origin' = origin

\* However a source.next() goes on or settles, it does so for its own stream.
LEMMA SourceFrame ==
    ASSUME PumpInv, NEW s \in Streams, SourceLocal(s),
           \/ \E p \in Pages : YieldToPump(s, p)
           \/ SourceReturns(s) \/ SourceThrows(s)
           \/ \E where \in SourceStates : SourceAwaits(s, where)
    PROVE  Frame(s)
<1> USE DEF PumpInv, TypeOK, PumpTypeOK, SourceTypeOK
<1>1. ASSUME NEW t \in Streams \ {s} PROVE Kept(t)
  <2>1. CASE \E p \in Pages : YieldToPump(s, p)
    BY <2>1 DEF Kept, YieldToPump, Notify, SourceLocal, SourceOnly
  <2>2. CASE SourceReturns(s) \/ SourceThrows(s)
    BY <2>2 DEF Kept, SourceReturns, SourceThrows, Notify, SourceLocal, SourceOnly
  <2>3. CASE \E where \in SourceStates : SourceAwaits(s, where)
    BY <2>3 DEF Kept, SourceAwaits, pumpVars, SourceLocal, SourceOnly
  <2> QED BY <2>1, <2>2, <2>3
<1> QED BY <1>1 DEF Frame, SourceLocal

\* A live source that ends keeps what it has delivered.
LEMMA EndDelivers ==
    ASSUME PumpInv, DeliveryInv, NEW s \in Streams, Running(s), Active(s),
           src[s] # "failedTx", SourceReturns(s) \/ SourceThrows(s),
           UNCHANGED <<con, cursor, pos, page, pageFrom, savedEvents, origin, acked>>
    PROVE  LiveOK(s)' /\ NotYet(s)'
<1>1. /\ ~finished[s] /\ ~stopped[s] /\ pump[s] = "pull"
  BY RunningSource DEF PumpInv, StreamOK, Active
<1>2. /\ src'[s] = "done" /\ finished'[s] /\ buffer'[s] = buffer[s] /\ con'[s] = con[s]
      /\ cursor'[s] = cursor[s]
  BY <1>1 DEF SourceReturns, SourceThrows, PumpInv, TypeOK, PumpTypeOK, SourceTypeOK
<1>3. CASE Opening(s)
  <2>1. buffer[s] = <<>>
    BY <1>3 DEF Opening, PumpInv, PumpOK
  <2>2. cursor[s] = NoCursor
    BY <1>3 DEF Opening, DeliveryInv
  <2> QED BY <1>2, <1>3, <2>1, <2>2 DEF Opening, NeverOpened, LiveOK, NotYet
<1>4. CASE NeverOpened(s)
  BY <1>1, <1>4 DEF NeverOpened
<1>5. CASE Delivering(s)
  <2>1. Linked(s)'
    BY <1>2, <1>5 DEF Delivering, Linked, Fetched
  <2>2. Delivering(s)'
    BY <1>2, <1>5, <2>1 DEF Delivering, Covered
  <2> QED BY <1>2, <2>2 DEF LiveOK, NotYet
<1> QED BY <1>3, <1>4, <1>5 DEF DeliveryInv, LiveOK

\* An ending source leaves a dead stream dead.
LEMMA EndNotYet ==
    ASSUME PumpInv, NEW s \in Streams, SourceReturns(s) \/ SourceThrows(s)
    PROVE  NotYet(s)'
BY DEF SourceReturns, SourceThrows, NotYet, PumpInv, TypeOK, SourceTypeOK

\* The end of a source, live or not.
LEMMA EndingDelivers ==
    ASSUME PumpInv, DeliveryInv, NEW s \in Streams, Running(s), SourceLocal(s),
           src[s] # "failedTx", SourceReturns(s) \/ SourceThrows(s),
           UNCHANGED <<cursor, pos, pageFrom, origin>>
    PROVE  DeliveryInv'
<1>1. Frame(s)
  BY SourceFrame
<1>2. Covered(savedEvents)'
  BY DEF SourceLocal, DeliveryInv, Covered
<1>3. con' = con /\ NotYet(s)'
  BY EndNotYet DEF SourceLocal, SourceOnly
<1>4. Active(s)' => LiveOK(s)'
  BY <1>3, EndDelivers DEF Active, SourceLocal
<1> QED BY <1>1, <1>2, <1>3, <1>4, OthersKeep

\* A wait within the opening, or within the polling, moves nothing.
LEMMA WaitingDelivers ==
    ASSUME PumpInv, DeliveryInv, NEW s \in Streams, Running(s), SourceLocal(s),
           NEW where \in SourceStates, SourceAwaits(s, where),
           \/ src[s] \in {"head", "headWait"} /\ where \in {"head", "headWait"}
           \/ src[s] \in {"poll", "pollWait", "sleep"} /\ where \in {"poll", "pollWait"},
           UNCHANGED <<cursor, pos, pageFrom, origin>>
    PROVE  DeliveryInv'
<1>1. Frame(s)
  BY SourceFrame
<1>2. Covered(savedEvents)'
  BY DEF SourceLocal, DeliveryInv, Covered
<1>3. /\ con' = con /\ src'[s] = where /\ cursor'[s] = cursor[s] /\ buffer' = buffer
      /\ waiting' = waiting /\ finished' = finished
  BY DEF SourceLocal, SourceOnly, SourceAwaits, pumpVars, PumpInv, TypeOK, SourceTypeOK
<1>4. NotYet(s)'
  BY <1>3 DEF NotYet, DeliveryInv
<1>5. ASSUME Active(s)' PROVE LiveOK(s)'
  <2>1. LiveOK(s)
    BY <1>3, <1>5 DEF Active, DeliveryInv, LiveOK
  <2>2. CASE Opening(s)
    BY <1>3, <2>2 DEF Opening, SourceLocal, LiveOK
  <2>3. CASE NeverOpened(s)
    BY <2>3, RunningSource DEF NeverOpened
  <2>4. CASE Delivering(s)
    <3>1. Linked(s)'
      BY <1>3, <2>4 DEF Delivering, Linked, Fetched
    <3>2. Delivering(s)'
      BY <1>3, <2>4, <3>1 DEF Delivering, Covered, SourceLocal
    <3> QED BY <3>2 DEF LiveOK
  <2> QED BY <2>1, <2>2, <2>3, <2>4 DEF LiveOK
<1> QED BY <1>1, <1>2, <1>4, <1>5, OthersKeep

\* The stored cursor is where the live stream takes up: nothing is fetched yet.
LEMMA LoadDelivers ==
    ASSUME PumpInv, DeliveryInv, NEW s \in Streams, Load(s) \/ LoadFails(s)
    PROVE  DeliveryInv'
<1>1. /\ src[s] = "load" /\ Running(s)
      /\ UNCHANGED <<stores, shared, calls, pageFrom, consumer, origin, acked>>
  BY DEF Load, LoadFails, Running, history, source
<1>2. CASE LoadFails(s) \/ aborted[s]
  <2>1. /\ SourceReturns(s) \/ SourceThrows(s)
        /\ UNCHANGED <<cursor, pos>>
    BY <1>2 DEF Load, LoadFails, history
  <2>2. SourceLocal(s)
    BY <1>1, <2>1 DEF SourceLocal, SourceOnly, PumpInv, TypeOK, SourceTypeOK, stores, shared,
       calls, consumer
  <2> QED BY <1>1, <2>1, <2>2, EndingDelivers
<1>3. CASE Load(s) /\ ~aborted[s]
  <2>1. /\ cursor' = [cursor EXCEPT ![s] = savedEvents]
        /\ pos' = [pos EXCEPT ![s] = IF savedEvents = NoCursor THEN 0 ELSE savedEvents]
        /\ SourceAwaits(s, IF savedEvents = NoCursor THEN "head" ELSE "poll")
    BY <1>3 DEF Load
  <2>2. SourceLocal(s)
    BY <1>1, <2>1 DEF SourceLocal, SourceOnly, PumpInv, TypeOK, SourceTypeOK, ListenerTypeOK,
       ConsumerTypeOK, stores, shared, calls, consumer
  <2>3. Frame(s)
    BY <2>1, <2>2, SourceFrame DEF SourceStates
  <2>4. Covered(savedEvents)'
    BY <2>2, <1>1 DEF SourceLocal, DeliveryInv, Covered
  <2>5. /\ con' = con /\ buffer' = buffer /\ waiting' = waiting /\ finished' = finished
        /\ savedEvents' = savedEvents /\ cursor'[s] = savedEvents
        /\ pos'[s] = IF savedEvents = NoCursor THEN 0 ELSE savedEvents
        /\ src'[s] = IF savedEvents = NoCursor THEN "head" ELSE "poll"
    BY <1>1, <2>1 DEF SourceAwaits, pumpVars, PumpInv, TypeOK, SourceTypeOK, ConsumerTypeOK,
       stores, consumer
  <2>6. NotYet(s)'
    BY <2>5 DEF NotYet
  <2>7. ASSUME Active(s)' PROVE LiveOK(s)'
    <3>1. Opening(s)
      BY <1>1, <2>5, <2>7 DEF Active, DeliveryInv, Opening, NeverOpened, Delivering
    <3>2. buffer[s] = <<>>
      BY <3>1 DEF Opening, PumpInv, PumpOK
    <3>3. CASE savedEvents = NoCursor
      BY <2>5, <3>1, <3>3 DEF Opening, LiveOK
    <3>4. CASE savedEvents # NoCursor
      <4>1. Linked(s)'
        BY <2>5, <3>2, <3>4 DEF Linked, Fetched
      <4>2. Covered(pos[s])'
        BY <2>4, <2>5, <3>4 DEF Covered
      <4>3. Delivering(s)'
        BY <2>5, <3>1, <3>4, <4>1, <4>2 DEF Delivering, Opening
      <4> QED BY <4>3 DEF LiveOK
    <3> QED BY <3>3, <3>4
  <2> QED BY <2>3, <2>4, <2>6, <2>7, OthersKeep
<1> QED BY <1>2, <1>3

\* Coverage of a live stream without a stored cursor begins at its first position.
LEMMA HeadReplyDelivers ==
    ASSUME PumpInv, DeliveryInv, NEW s \in Streams, HeadReply(s)
    PROVE  DeliveryInv'
<1> DEFINE start == IF head >= 2 THEN head - 2 ELSE 0
<1>1. start \in Nat
  BY DEF PumpInv, TypeOK, ListenerTypeOK
<1>2. /\ cursor' = [cursor EXCEPT ![s] = start] /\ pos' = [pos EXCEPT ![s] = start]
      /\ origin' = IF stopped[s] THEN origin ELSE start
      /\ src[s] = "head" /\ Running(s)
      /\ SourceReturns(s) \/ SourceAwaits(s, "poll")
      /\ UNCHANGED <<stores, shared, calls, pageFrom, consumer, acked>>
  BY DEF HeadReply, Running
<1> HIDE DEF start
<1>3. ~Active(s) => stopped[s]
  BY <1>2 DEF PumpInv, StreamOK, Active
<1>4. SourceLocal(s)
  BY <1>1, <1>2, <1>3 DEF SourceLocal, SourceOnly, PumpInv, TypeOK, SourceTypeOK, ConsumerTypeOK,
     stores, shared, calls, consumer, Cursors
<1>5. Frame(s)
  BY <1>2, <1>4, SourceFrame DEF SourceStates
<1>6. /\ con' = con /\ buffer' = buffer /\ savedEvents' = savedEvents
      /\ cursor'[s] = start /\ pos'[s] = start /\ src'[s] \in {"poll", "done"}
  BY <1>2 DEF SourceReturns, SourceAwaits, pumpVars, PumpInv, TypeOK, SourceTypeOK,
     ConsumerTypeOK, stores, consumer
<1>7. NotYet(s)'
  BY <1>6 DEF NotYet
<1>8. CASE Active(s)
  <2>1. Opening(s) /\ savedEvents = NoCursor
    BY <1>2, <1>8 DEF DeliveryInv, Opening, NeverOpened, Delivering
  <2>2. origin' = start
    BY <1>2, <1>8 DEF PumpInv, StreamOK, Active
  <2>3. Covered(savedEvents)' /\ Covered(pos[s])'
    BY <1>1, <1>6, <2>1, <2>2, LedgersAssumption DEF Covered, NoCursor
  <2>4. buffer[s] = <<>>
    BY <2>1 DEF Opening, PumpInv, PumpOK
  <2>5. Linked(s)'
    BY <1>6, <2>4 DEF Linked, Fetched
  <2>6. Delivering(s)'
    BY <1>1, <1>6, <2>1, <2>3, <2>5 DEF Delivering, Opening, NoCursor
  <2> QED BY <1>5, <1>7, <2>3, <2>6, OthersKeep DEF LiveOK
<1>9. CASE ~Active(s)
  <2>1. Covered(savedEvents)'
    BY <1>3, <1>6, <1>9, <1>2 DEF DeliveryInv, Covered
  <2>2. ~Active(s)'
    BY <1>6, <1>9 DEF Active
  <2> QED BY <1>5, <1>7, <2>1, <2>2, OthersKeep
<1> QED BY <1>8, <1>9

\* The page a live source yields begins where the chain ended.
LEMMA PageDelivers ==
    ASSUME PumpInv, DeliveryInv, NEW s \in Streams, Running(s), SourceLocal(s),
           src[s] \in {"poll", "failedTx"},
           NEW p \in Pages, YieldToPump(s, p), p.from = Fetched(s), p.to = cursor'[s],
           cursor'[s] # NoCursor, UNCHANGED <<pos, origin>>
    PROVE  DeliveryInv'
<1>1. Frame(s)
  BY SourceFrame
<1>2. Covered(savedEvents)'
  BY DEF SourceLocal, DeliveryInv, Covered
<1>3. src'[s] \in {"yield", "done"} /\ con' = con
  BY DEF YieldToPump, SourceLocal, SourceOnly, PumpInv, TypeOK, SourceTypeOK
<1>4. NotYet(s)'
  BY <1>3 DEF NotYet
<1>5. ASSUME Active(s)' PROVE LiveOK(s)'
  <2>1. ~stopped[s]
    BY <1>3, <1>5 DEF Active, PumpInv, StreamOK
  <2>2. Delivering(s)
    BY <1>3, <1>5, RunningSource DEF Active, DeliveryInv, Opening, NeverOpened
  <2>3. /\ buffer[s] \in Seq(Pages) /\ buffer'[s] = Append(buffer[s], p)
        /\ src'[s] = "yield" /\ finished' = finished
    BY <2>1 DEF YieldToPump, PumpInv, TypeOK, PumpTypeOK, SourceTypeOK
  <2>4. /\ buffer[s] = <<>> => pos[s] = Fetched(s)
        /\ buffer[s] # <<>> => buffer[s][1].from = pos[s] /\ buffer[s][Len(buffer[s])].to = Fetched(s)
        /\ \A i \in 1 .. Len(buffer[s]) - 1 : buffer[s][i].to = buffer[s][i + 1].from
    BY <2>2 DEF Delivering, Linked
  <2>5. LET c == Append(buffer[s], p) IN
        /\ c # <<>> /\ c[1].from = pos[s] /\ c[Len(c)].to = p.to
        /\ \A i \in 1 .. Len(c) - 1 : c[i].to = c[i + 1].from
    BY <2>3, <2>4, ChainGrows
  <2>6. Linked(s)'
    BY <2>3, <2>5 DEF Linked, Fetched
  <2>7. Delivering(s)'
    BY <1>3, <2>2, <2>3, <2>6 DEF Delivering, Covered, SourceLocal
  <2> QED BY <2>7 DEF LiveOK
<1> QED BY <1>1, <1>2, <1>4, <1>5, OthersKeep

\* getEvents answers: the page goes out, or waits for the scan with its beginning kept.
LEMMA PollReplyDelivers ==
    ASSUME PumpInv, DeliveryInv, NEW s \in Streams, PollReply(s)
    PROVE  DeliveryInv'
<1>1. /\ src[s] = "poll" /\ Running(s)
      /\ pageFrom' = [pageFrom EXCEPT ![s] = cursor[s]]
      /\ UNCHANGED <<stores, calls, lease, consumer, history>>
  BY DEF PollReply, Running
<1>2. cursor[s] \in Nat
  BY <1>1, FetchingSource
<1>3. PICK to \in cursor[s] .. head :
        /\ cursor' = [cursor EXCEPT ![s] = to]
        /\ LET p == [from |-> cursor[s], to |-> to, failed |-> {}, failedCursor |-> NoCursor] IN
           SourceAwaits(s, "failedTx") \/ YieldToPump(s, p)
  BY DEF PollReply
<1>4. to \in Nat /\ to # NoCursor
  BY <1>2 DEF NoCursor
<1> DEFINE p == [from |-> cursor[s], to |-> to, failed |-> {}, failedCursor |-> NoCursor]
<1>5. p \in Pages /\ p.from = Fetched(s) /\ p.to = to
  BY <1>1, <1>2, <1>4 DEF Pages, Cursors, NoCursor, Fetched
<1>6. SourceAwaits(s, "failedTx") \/ YieldToPump(s, p)
  BY <1>3
<1> HIDE DEF p
<1>7. SourceLocal(s) /\ cursor'[s] = to /\ pageFrom'[s] = cursor[s] /\ pos' = pos /\ origin' = origin
  BY <1>1, <1>3, <1>4 DEF SourceLocal, SourceOnly, PumpInv, TypeOK, SourceTypeOK, Cursors,
     stores, calls, consumer, history
<1>8. CASE YieldToPump(s, p)
  BY <1>1, <1>4, <1>5, <1>7, <1>8, PageDelivers
<1>9. CASE SourceAwaits(s, "failedTx")
  <2>1. Frame(s)
    BY <1>7, <1>9, SourceFrame DEF SourceStates
  <2>2. Covered(savedEvents)'
    BY <1>7 DEF SourceLocal, DeliveryInv, Covered
  <2>3. src'[s] = "failedTx" /\ con' = con /\ buffer' = buffer
    BY <1>7, <1>9 DEF SourceAwaits, SourceLocal, SourceOnly, pumpVars, PumpInv, TypeOK, SourceTypeOK
  <2>4. NotYet(s)'
    BY <2>3 DEF NotYet
  <2>5. ASSUME Active(s)' PROVE LiveOK(s)'
    <3>1. Delivering(s)
      BY <1>1, <2>3, <2>5, RunningSource DEF Active, DeliveryInv, Opening, NeverOpened
    <3>2. Linked(s)'
      BY <1>1, <1>7, <2>3, <3>1 DEF Delivering, Linked, Fetched
    <3>3. Delivering(s)'
      BY <1>4, <1>7, <2>3, <3>1, <3>2 DEF Delivering, Covered, SourceLocal
    <3> QED BY <3>3 DEF LiveOK
  <2> QED BY <2>1, <2>2, <2>4, <2>5, OthersKeep
<1> QED BY <1>6, <1>8, <1>9

\* Whatever the scan answers, the page goes out with some failed transactions and cursor.
LEMMA ScanCompletes ==
    ASSUME PumpInv, NEW s \in Streams,
           FailedTxStart(s) \/ FailedTxReply(s) \/ FailedTxFails(s)
    PROVE  \E failed \in SUBSET FailedLedgers, scanned \in Cursors : CompletePage(s, failed, scanned)
<1>1. CASE FailedTxStart(s)
  BY <1>1 DEF FailedTxStart, PumpInv, TypeOK, ListenerTypeOK, Cursors
<1>2. CASE FailedTxReply(s)
  <2>1. failedCursor[s] \in Nat
    BY <1>2 DEF FailedTxReply, PumpInv, TypeOK, SourceTypeOK, Cursors
  <2>2. PICK to \in failedCursor[s] .. head :
           LET found == { l \in FailedLedgers : failedCursor[s] < l /\ l <= to } IN
           CompletePage(s, found \ processedFailedTx, to)
    BY <1>2 DEF FailedTxReply
  <2>3. to \in Cursors
    BY <2>1 DEF Cursors
  <2>4. { l \in FailedLedgers : failedCursor[s] < l /\ l <= to } \subseteq FailedLedgers
    OBVIOUS
  <2> QED BY <2>2, <2>3, <2>4
<1>3. CASE FailedTxFails(s)
  BY <1>3 DEF FailedTxFails, Cursors
<1> QED BY <1>1, <1>2, <1>3

\* The scan answers or fails: the page goes out as it was fetched.
LEMMA FailedTxDelivers ==
    ASSUME PumpInv, DeliveryInv, NEW s \in Streams,
           FailedTxStart(s) \/ FailedTxReply(s) \/ FailedTxFails(s)
    PROVE  DeliveryInv'
<1>1. /\ src[s] = "failedTx" /\ Running(s)
      /\ UNCHANGED <<stores, calls, lease, cursor, pageFrom, consumer, pos, origin, acked>>
  BY DEF FailedTxStart, FailedTxReply, FailedTxFails, Running, history
<1>2. cursor[s] \in Nat /\ pageFrom[s] \in Nat
  BY <1>1, FetchingSource DEF PumpInv, TypeOK, SourceTypeOK
<1>3. PICK failed \in SUBSET FailedLedgers, scanned \in Cursors : CompletePage(s, failed, scanned)
  BY ScanCompletes
<1> DEFINE p == [from |-> pageFrom[s], to |-> cursor[s], failed |-> failed,
                 failedCursor |-> scanned]
<1>4. p \in Pages /\ p.from = Fetched(s) /\ p.to = cursor[s]
  BY <1>1, <1>2 DEF Pages, Fetched
<1>5. YieldToPump(s, p)
  BY <1>3 DEF CompletePage
<1> HIDE DEF p
<1>6. SourceLocal(s) /\ cursor'[s] = cursor[s] /\ cursor[s] # NoCursor
  BY <1>1, <1>2 DEF SourceLocal, SourceOnly, PumpInv, TypeOK, SourceTypeOK, NoCursor,
     stores, calls, consumer
<1> QED BY <1>1, <1>4, <1>5, <1>6, PageDelivers

\* A rejected request is retried or ends the source, and a delay leads to a request.
LEMMA RetryDelivers ==
    ASSUME PumpInv, DeliveryInv, NEW s \in Streams, HeadFails(s) \/ PollFails(s) \/ DelayEnds(s)
    PROVE  DeliveryInv'
<1>1. /\ src[s] \in {"head", "poll", "headWait", "pollWait", "sleep"} /\ Running(s)
      /\ UNCHANGED <<stores, calls, lease, cursor, pageFrom, consumer, history>>
      /\ \/ SourceReturns(s) \/ SourceThrows(s)
         \/ src[s] = "head" /\ SourceAwaits(s, "headWait")
         \/ src[s] = "headWait" /\ SourceAwaits(s, "head")
         \/ src[s] = "poll" /\ SourceAwaits(s, "pollWait")
         \/ src[s] \in {"pollWait", "sleep"} /\ SourceAwaits(s, "poll")
  BY DEF HeadFails, PollFails, DelayEnds, RetryOrFail, Running, shared
<1>2. SourceLocal(s) /\ UNCHANGED <<cursor, pos, pageFrom, origin>>
  BY <1>1 DEF SourceLocal, SourceOnly, PumpInv, TypeOK, SourceTypeOK, stores, calls, consumer, history
<1>3. CASE SourceReturns(s) \/ SourceThrows(s)
  BY <1>1, <1>2, <1>3, EndingDelivers
<1>4. CASE ~(SourceReturns(s) \/ SourceThrows(s))
  BY <1>1, <1>2, <1>4, WaitingDelivers DEF SourceStates
<1> QED BY <1>3, <1>4

-----------------------------------------------------------------------------
(* The steps of the pump and of the consumer.                              *)

\* A pull, or none, from a source behind its yield.
MayResume(s) ==
    /\ src[s] # "off"
    /\ src'[s] = src[s] \/ (src[s] = "yield" /\ src'[s] = "sleep")
    /\ \A t \in Streams \ {s} : pump'[t] = pump[t] /\ outstanding'[t] = outstanding[t] /\ src'[t] = src[t]

\* What the two places that pull do to the source.
LEMMA PullResumes ==
    ASSUME PumpInv, NEW s \in Streams, GraceEnds(s) \/ TurnEnds(s) \/ Park(s)
    PROVE  MayResume(s)
<1> USE DEF PumpInv, TypeOK, PumpTypeOK, SourceTypeOK
<1>1. con[s] # "none" /\ src[s] # "off"
  BY DEF GraceEnds, TurnEnds, Park, AtLoopTop, Resumable, StreamOK
<1>2. \/ pump[s] # "pull" /\ MayPull(s) /\ Pull(s)
      \/ /\ UNCHANGED <<src, outstanding>>
         /\ pump' = pump \/ \E w \in PumpStates : pump' = [pump EXCEPT ![s] = w]
  BY DEF GraceEnds, TurnEnds, Park, PumpStates
<1>3. CASE pump[s] # "pull" /\ MayPull(s) /\ Pull(s)
  BY <1>1, <1>3, PullEffect DEF MayPull, MayResume
<1>4. CASE /\ UNCHANGED <<src, outstanding>>
           /\ pump' = pump \/ \E w \in PumpStates : pump' = [pump EXCEPT ![s] = w]
  BY <1>1, <1>4 DEF MayResume
<1> QED BY <1>2, <1>3, <1>4

\* The pump's own steps and a consumer that parks move neither pages nor positions.
LEMMA PumpDelivers ==
    ASSUME PumpInv, DeliveryInv, NEW s \in Streams, GraceEnds(s) \/ TurnEnds(s) \/ Park(s)
    PROVE  DeliveryInv'
<1>1. MayResume(s)
  BY PullResumes
<1>2. /\ UNCHANGED <<stores, calls, lease, cursor, pageFrom, buffer, finished, stopped,
                     failure, page, aborted, history>>
      /\ \/ con' = con /\ waiting' = waiting
         \/ /\ con[s] \in {"top", "parked"} /\ ~finished[s] /\ (con[s] = "parked" => ~waiting[s])
            /\ con' = [con EXCEPT ![s] = "parked"] /\ waiting' = [waiting EXCEPT ![s] = TRUE]
  BY DEF GraceEnds, TurnEnds, Park, AtLoopTop, Resumable, consumer
<1>3. Frame(s)
  <2>1. ASSUME NEW t \in Streams \ {s} PROVE Kept(t) /\ pos'[t] = pos[t] /\ page'[t] = page[t] /\ pageFrom'[t] = pageFrom[t]
    BY <1>1, <1>2 DEF Kept, MayResume, PumpInv, TypeOK, PumpTypeOK, ConsumerTypeOK, history
  <2> QED BY <1>2, <2>1 DEF Frame, stores, history
<1>4. Covered(savedEvents)'
  BY <1>2 DEF DeliveryInv, Covered, stores, history
<1>5. NotYet(s)'
  BY <1>1, <1>2 DEF MayResume, NotYet, DeliveryInv
<1>6. ASSUME Active(s)' PROVE LiveOK(s)'
  <2>1. Active(s)
    BY <1>2, <1>6 DEF Active
  <2>2. /\ con'[s] = con[s] /\ waiting'[s] = waiting[s]
        \/ /\ con[s] \in {"top", "parked"} /\ con'[s] = "parked" /\ ~finished[s]
           /\ con[s] = "parked" => ~waiting[s]
    BY <1>2 DEF PumpInv, TypeOK, PumpTypeOK, ConsumerTypeOK
  <2>3. /\ pos'[s] = pos[s] /\ page'[s] = page[s] /\ cursor'[s] = cursor[s]
        /\ pageFrom'[s] = pageFrom[s] /\ buffer'[s] = buffer[s] /\ finished'[s] = finished[s]
        /\ savedEvents' = savedEvents /\ origin' = origin /\ acked' = acked
    BY <1>2 DEF history, stores
  <2>4. CASE Opening(s)
    BY <1>1, <2>2, <2>3, <2>4 DEF Opening, MayResume, LiveOK
  <2>5. CASE NeverOpened(s)
    BY <1>1, <2>2, <2>3, <2>5 DEF NeverOpened, MayResume, LiveOK
  <2>6. CASE Delivering(s)
    <3>1. Linked(s)'
      BY <1>1, <2>3, <2>6 DEF Delivering, Linked, Fetched, MayResume
    <3>2. Delivering(s)'
      BY <1>1, <2>2, <2>3, <2>6, <3>1 DEF Delivering, Covered, MayResume
    <3> QED BY <3>2 DEF LiveOK
  <2> QED BY <2>1, <2>4, <2>5, <2>6 DEF DeliveryInv
<1> QED BY <1>3, <1>4, <1>5, <1>6, OthersKeep

\* The next page begins where the last one ended; an empty one covers nothing new.
LEMMA TakePageDelivers ==
    ASSUME PumpInv, DeliveryInv, NEW s \in Streams, TakePage(s)
    PROVE  DeliveryInv'
<1> DEFINE p == Head(buffer[s])
<1>1. /\ con[s] \in {"top", "parked"} /\ buffer[s] # <<>> /\ buffer[s] \in Seq(Pages)
      /\ page' = [page EXCEPT ![s] = p] /\ pos' = [pos EXCEPT ![s] = p.to]
      /\ con' = [con EXCEPT ![s] = IF IsEmptyPage(p) THEN "saveEvents" ELSE "handling"]
      /\ buffer' = [buffer EXCEPT ![s] = Tail(buffer[s])]
      /\ outstanding' = [outstanding EXCEPT ![s] = outstanding[s] - 1]
      /\ waiting' = [waiting EXCEPT ![s] = FALSE]
      /\ pump' = [pump EXCEPT ![s] = pump'[s]]
      /\ UNCHANGED <<stores, calls, source, finished, stopped, failure, aborted, origin, acked>>
  BY DEF TakePage, AtLoopTop, Resumable, PumpInv, TypeOK, PumpTypeOK
<1>2. p = buffer[s][1] /\ p \in Pages
  BY <1>1
<1>3. Frame(s)
  <2>1. ASSUME NEW t \in Streams \ {s} PROVE Kept(t) /\ pos'[t] = pos[t] /\ page'[t] = page[t] /\ pageFrom'[t] = pageFrom[t]
    BY <1>1 DEF Kept, source, PumpInv, TypeOK, PumpTypeOK, ConsumerTypeOK
  <2> QED BY <1>1, <2>1 DEF Frame, stores
<1>4. Covered(savedEvents)'
  BY <1>1 DEF DeliveryInv, Covered, stores
<1>5. NotYet(s)'
  BY <1>1 DEF NotYet, DeliveryInv, source
<1>6. Delivering(s)
  <2>1. buffer[s] = <<>> \/ ~Opening(s)
    BY DEF Opening, PumpInv, PumpOK
  <2> QED BY <1>1, <2>1 DEF DeliveryInv, NeverOpened, Active
<1>7. /\ page'[s] = p /\ pos'[s] = p.to /\ buffer'[s] = Tail(buffer[s])
      /\ con'[s] = IF IsEmptyPage(p) THEN "saveEvents" ELSE "handling"
      /\ UNCHANGED source /\ origin' = origin /\ acked' = acked
  BY <1>1 DEF PumpInv, TypeOK, PumpTypeOK, ConsumerTypeOK
<1>8. Fetched(s)' = Fetched(s)
  BY <1>7 DEF Fetched, source
<1>9. p.from = pos[s] /\ Covered(p.from)
  BY <1>1, <1>2, <1>6 DEF Delivering, Linked
<1>10. Linked(s)'
  <2>1. /\ buffer[s][Len(buffer[s])].to = Fetched(s)
        /\ \A i \in 1 .. Len(buffer[s]) - 1 : buffer[s][i].to = buffer[s][i + 1].from
    BY <1>1, <1>6 DEF Delivering, Linked
  <2>2. LET c == Tail(buffer[s]) IN
        /\ c = <<>> => p.to = Fetched(s)
        /\ c # <<>> => c[1].from = p.to /\ c[Len(c)].to = Fetched(s)
        /\ \A i \in 1 .. Len(c) - 1 : c[i].to = c[i + 1].from
    BY <1>1, <2>1, ChainShrinks
  <2> HIDE DEF p
  <2> QED BY <1>7, <1>8, <2>2 DEF Linked
<1> HIDE DEF p
<1>11. IsEmptyPage(p) => Covered(p.to)
  BY <1>2, <1>9, LedgersAssumption DEF IsEmptyPage, CommittedEvents, Covered, Pages
<1>12. Delivering(s)'
  <2>1. src'[s] = src[s] /\ cursor'[s] = cursor[s]
    BY <1>7 DEF source
  <2>2. CASE IsEmptyPage(p)
    BY <1>6, <1>7, <1>10, <1>11, <2>1, <2>2 DEF Delivering, Covered
  <2>3. CASE ~IsEmptyPage(p)
    BY <1>6, <1>7, <1>9, <1>10, <2>1, <2>3 DEF Delivering, Covered
  <2> QED BY <2>2, <2>3
<1> QED BY <1>3, <1>4, <1>5, <1>12, OthersKeep DEF LiveOK

\* The end of a stream leaves nothing live; what was prefetched was never saved.
LEMMA TeardownDelivers ==
    ASSUME PumpInv, DeliveryInv, NEW s \in Streams,
           EndStream(s) \/ SaveRejects(s) \/ Break(s)
    PROVE  DeliveryInv'
<1>1. /\ Active(s) /\ Teardown(s)
      /\ UNCHANGED <<stores, calls, cursor, failedCursor, pageFrom, attempts, page, aborted, history>>
  BY DEF EndStream, SaveRejects, Break, AtLoopTop, Resumable, InLoopBody, Active
<1>2. Frame(s)
  <2>1. ASSUME NEW t \in Streams \ {s} PROVE Kept(t) /\ pos'[t] = pos[t] /\ page'[t] = page[t] /\ pageFrom'[t] = pageFrom[t]
    BY <1>1 DEF Teardown, Kept, history, PumpInv, TypeOK, SourceTypeOK, PumpTypeOK, ConsumerTypeOK
  <2> QED BY <1>1, <2>1 DEF Frame, stores, history
<1>3. Covered(savedEvents)'
  BY <1>1 DEF DeliveryInv, Covered, stores, history
<1>4. con'[s] = "done" /\ (src'[s] = src[s] \/ src'[s] = "done")
  BY <1>1 DEF Teardown, PumpInv, TypeOK, SourceTypeOK, ConsumerTypeOK
<1>5. NotYet(s)'
  BY <1>1, <1>4 DEF NotYet, DeliveryInv
<1>6. ~Active(s)'
  BY <1>4 DEF Active
<1> QED BY <1>2, <1>3, <1>5, <1>6, OthersKeep

\* The consumer's own moves: what it comes back from is covered before it is saved.
LEMMA ConsumerDelivers ==
    ASSUME PumpInv, DeliveryInv, NEW s \in Streams,
           SaveEvents(s) \/ SaveFailed(s) \/ GoBusy(s) \/ ComeBack(s) \/ Abort(s)
    PROVE  DeliveryInv'
<1>1. /\ Active(s) /\ UNCHANGED <<calls, source, pumpVars, page, pos, origin>>
      /\ \A t \in Streams \ {s} : con'[t] = con[t] /\ aborted'[t] = aborted[t]
      /\ acked \subseteq acked' /\ con'[s] # "none"
  BY DEF SaveEvents, SaveFailed, GoBusy, ComeBack, Abort, InLoopBody, Active, history, PumpInv,
     TypeOK, ConsumerTypeOK
<1>2. Frame(s)
  BY <1>1 DEF Frame, Kept, source, pumpVars
<1>3. NotYet(s)'
  BY <1>1 DEF NotYet, DeliveryInv, source
<1>4. Linked(s) => Linked(s)'
  BY <1>1 DEF Linked, Fetched, source, pumpVars
<1>5. Opening(s) \/ NeverOpened(s) \/ Delivering(s)
  BY <1>1 DEF DeliveryInv
<1>6. CASE Abort(s)
  <2>1. con' = con /\ acked' = acked /\ savedEvents' = savedEvents
    BY <1>6 DEF Abort, history, stores
  <2>2. Covered(savedEvents)'
    BY <1>1, <2>1 DEF DeliveryInv, Covered
  <2>3. LiveOK(s)'
    <3>1. CASE Opening(s)
      BY <1>1, <2>1, <3>1 DEF Opening, LiveOK, source, pumpVars
    <3>2. CASE NeverOpened(s)
      BY <1>1, <2>1, <3>2 DEF NeverOpened, LiveOK, source, pumpVars
    <3>3. CASE Delivering(s)
      <4>1. Delivering(s)'
        BY <1>1, <1>4, <2>1, <3>3 DEF Delivering, Covered, source
      <4> QED BY <4>1 DEF LiveOK
    <3> QED BY <1>5, <3>1, <3>2, <3>3
  <2> QED BY <1>2, <1>3, <2>2, <2>3, OthersKeep
<1>7. CASE ~Abort(s)
  <2>1. con[s] \in {"handling", "busy", "saveEvents", "saveFailed"}
    BY <1>7 DEF SaveEvents, SaveFailed, GoBusy, ComeBack, InLoopBody
  <2>2. Delivering(s)
    BY <1>5, <2>1 DEF Opening, NeverOpened
  <2>3. /\ src'[s] = src[s] /\ cursor'[s] = cursor[s] /\ page'[s] = page[s] /\ pos'[s] = pos[s]
        /\ page[s] \in Pages
    BY <1>1 DEF source, PumpInv, TypeOK, ConsumerTypeOK
  <2>4. CASE GoBusy(s)
    <3>1. con'[s] = "busy" /\ con[s] = "handling" /\ acked' = acked /\ savedEvents' = savedEvents
      BY <2>4 DEF GoBusy, PumpInv, TypeOK, ConsumerTypeOK, history, stores
    <3>2. Covered(savedEvents)'
      BY <1>1, <3>1 DEF DeliveryInv, Covered
    <3>3. Delivering(s)'
      BY <1>1, <1>4, <2>2, <2>3, <3>1 DEF Delivering, Covered
    <3> QED BY <1>2, <1>3, <3>2, <3>3, OthersKeep DEF LiveOK
  <2>5. CASE ComeBack(s)
    <3>1. /\ con'[s] = "saveEvents" /\ con[s] \in {"handling", "busy"}
          /\ acked' = acked \cup CommittedEvents(page[s]) /\ savedEvents' = savedEvents
      BY <2>5 DEF ComeBack, InLoopBody, PumpInv, TypeOK, ConsumerTypeOK, stores
    <3>2. Covered(savedEvents)'
      BY <1>1, <3>1 DEF DeliveryInv, Covered
    <3>3. Covered(page[s].from) /\ page[s].to = pos[s]
      BY <2>2, <3>1 DEF Delivering
    <3>4. Covered(pos[s])'
      <4>1. ASSUME NEW l \in EventLedgers, origin < l, l <= pos[s] PROVE l \in acked'
        <5>1. CASE l \in CommittedEvents(page[s])
          BY <3>1, <5>1
        <5>2. CASE l \notin CommittedEvents(page[s])
          <6>1. l \in Nat /\ page[s].from \in Nat
            BY <2>3, LedgersAssumption DEF Pages
          <6>2. l <= page[s].from
            BY <3>3, <4>1, <5>2, <6>1 DEF CommittedEvents
          <6> QED BY <1>1, <3>3, <4>1, <6>2 DEF Covered
        <5> QED BY <5>1, <5>2
      <4> QED BY <1>1, <2>3, <4>1 DEF Covered
    <3>5. Delivering(s)'
      BY <1>1, <1>4, <2>2, <2>3, <3>1, <3>3, <3>4 DEF Delivering
    <3> QED BY <1>2, <1>3, <3>2, <3>5, OthersKeep DEF LiveOK
  <2>6. CASE SaveEvents(s)
    <3>1. /\ con[s] = "saveEvents" /\ con'[s] \in {"top", "saveFailed"}
          /\ savedEvents' = page[s].to /\ acked' = acked
      BY <2>6 DEF SaveEvents, PumpInv, TypeOK, ConsumerTypeOK, history
    <3>2. Covered(pos[s]) /\ page[s].to = pos[s]
      BY <2>2, <3>1 DEF Delivering
    <3>3. Covered(savedEvents)' /\ Covered(pos[s])'
      BY <1>1, <2>3, <3>1, <3>2 DEF Covered
    <3>4. Delivering(s)'
      BY <1>4, <2>2, <2>3, <3>1, <3>3 DEF Delivering
    <3> QED BY <1>2, <1>3, <3>3, <3>4, OthersKeep DEF LiveOK
  <2>7. CASE SaveFailed(s)
    <3>1. /\ con[s] = "saveFailed" /\ con'[s] = "top" /\ acked' = acked /\ savedEvents' = savedEvents
      BY <2>7 DEF SaveFailed, PumpInv, TypeOK, ConsumerTypeOK, history
    <3>2. Covered(savedEvents)' /\ Covered(pos[s])'
      BY <1>1, <2>2, <2>3, <3>1 DEF DeliveryInv, Delivering, Covered
    <3>3. Delivering(s)'
      BY <1>4, <2>2, <2>3, <3>1, <3>2 DEF Delivering
    <3> QED BY <1>2, <1>3, <3>2, <3>3, OthersKeep DEF LiveOK
  <2> QED BY <1>7, <2>4, <2>5, <2>6, <2>7
<1> QED BY <1>6, <1>7

-----------------------------------------------------------------------------
(* The calls and the world.                                                *)

\* A new stream finds no other live, and begins by opening.
LEMMA WatchDelivers ==
    ASSUME PumpInv, DeliveryInv, NEW s \in Streams, Watch(s)
    PROVE  DeliveryInv'
<1> USE DEF PumpInv, TypeOK, SourceTypeOK, PumpTypeOK, ConsumerTypeOK
<1>1. /\ s = started + 1 /\ lease = NoLease
      /\ UNCHANGED <<stores, cursor, pageFrom, buffer, finished, failure, page, history>>
      /\ \/ con' = [con EXCEPT ![s] = "done"] /\ src' = [src EXCEPT ![s] = "done"]
         \/ /\ con' = [con EXCEPT ![s] = "parked"] /\ waiting' = [waiting EXCEPT ![s] = TRUE]
            /\ Pull(s)
  BY DEF Watch
<1>2. con[s] = "none" /\ src[s] = "off"
  BY <1>1 DEF StreamOK, ListenerTypeOK
<1>3. cursor[s] = NoCursor
  BY <1>2 DEF DeliveryInv
<1>4. \/ con'[s] = "done" /\ src'[s] = "done"
      \/ con'[s] = "parked" /\ waiting'[s] /\ src'[s] = "load"
  BY <1>1, <1>2 DEF Pull, SourceNext
<1>5. ASSUME NEW t \in Streams \ {s}
      PROVE  src'[t] = src[t] /\ con'[t] = con[t] /\ cursor'[t] = cursor[t] /\ ~Active(t)'
  <2>1. src'[t] = src[t] /\ con'[t] = con[t] /\ cursor'[t] = cursor[t]
    BY <1>1 DEF Pull, SourceNext
  <2>2. ~Active(t)
    BY <1>1 DEF StreamOK, NoLease, Streams
  <2> QED BY <2>1, <2>2 DEF Active
<1>6. Covered(savedEvents)'
  BY <1>1 DEF DeliveryInv, Covered, stores, history
<1>7. ASSUME NEW t \in Streams PROVE NotYet(t)' /\ (Active(t)' => LiveOK(t)')
  <2>1. CASE t = s
    BY <1>1, <1>3, <1>4, <2>1 DEF NotYet, Active, Opening, LiveOK
  <2>2. CASE t # s
    BY <1>5, <2>2 DEF NotYet, DeliveryInv
  <2> QED BY <2>1, <2>2
<1> QED BY <1>6, <1>7 DEF DeliveryInv, NotYet, LiveOK

\* A restart ends every stream and keeps the store: what it has passed stays covered.
LEMMA RestartDelivers ==
    ASSUME PumpInv, DeliveryInv, Restart
    PROVE  DeliveryInv'
<1>1. Covered(savedEvents)'
  BY DEF Restart, DeliveryInv, Covered, stores
<1>2. ASSUME NEW t \in Streams PROVE NotYet(t)' /\ ~Active(t)'
  <2>1. CASE t <= started
    BY <2>1 DEF Restart, NotYet, Active
  <2>2. CASE ~(t <= started)
    <3>1. src'[t] = src[t] /\ con'[t] = con[t] /\ cursor'[t] = cursor[t]
      BY <2>2 DEF Restart
    <3>2. con[t] = "none"
      BY <2>2 DEF PumpInv, StreamOK, TypeOK, ListenerTypeOK, Streams
    <3> QED BY <3>1, <3>2 DEF NotYet, Active, DeliveryInv
  <2> QED BY <2>1, <2>2
<1> QED BY <1>1, <1>2 DEF DeliveryInv, NotYet

\* Nothing that the invariant speaks of moves when a ledger closes.
LEMMA StillDelivers ==
    ASSUME PumpInv, DeliveryInv, LedgerCloses \/ UNCHANGED vars
    PROVE  DeliveryInv'
<1>1. UNCHANGED <<stores, source, pumpVars, consumer, history>>
  BY DEF LedgerCloses, vars
<1>2. Covered(savedEvents)'
  BY <1>1 DEF DeliveryInv, Covered, stores, history
<1>3. ASSUME NEW t \in Streams PROVE NotYet(t)' /\ (Active(t)' => LiveOK(t)')
  <2>1. NotYet(t)' /\ (Active(t)' => Active(t))
    BY <1>1 DEF NotYet, Active, DeliveryInv, source, consumer
  <2>2. Opening(t) => Opening(t)'
    BY <1>1 DEF Opening, source, consumer, pumpVars, stores
  <2>3. NeverOpened(t) => NeverOpened(t)'
    BY <1>1 DEF NeverOpened, source, consumer, pumpVars
  <2>4. Linked(t) => Linked(t)'
    BY <1>1 DEF Linked, Fetched, source, pumpVars, history
  <2>5. Delivering(t) => Delivering(t)'
    BY <1>1, <2>4 DEF Delivering, Covered, source, consumer, history
  <2> QED BY <2>1, <2>2, <2>3, <2>5 DEF DeliveryInv, LiveOK
<1> QED BY <1>2, <1>3 DEF DeliveryInv, NotYet, LiveOK

-----------------------------------------------------------------------------
(* The invariant.                                                          *)

\* No stream is live and nothing is saved.
LEMMA DeliveryInit == Init => DeliveryInv
<1> SUFFICES ASSUME Init PROVE DeliveryInv
  OBVIOUS
<1>1. Covered(savedEvents)
  BY NothingBefore DEF Init
<1>2. ASSUME NEW s \in Streams PROVE NotYet(s) /\ ~Active(s)
  BY DEF Init, NotYet, Active
<1> QED BY <1>1, <1>2 DEF DeliveryInv, NotYet

\* Every step keeps it.
LEMMA DeliveryStepsKeep == PumpInv /\ DeliveryInv /\ [Next]_vars => DeliveryInv'
<1> SUFFICES ASSUME PumpInv, DeliveryInv, [Next]_vars PROVE DeliveryInv'
  OBVIOUS
<1>1. ASSUME NEW s \in Streams, SourceStep(s) PROVE DeliveryInv'
  BY <1>1, LoadDelivers, HeadReplyDelivers, PollReplyDelivers, FailedTxDelivers, RetryDelivers
     DEF SourceStep
<1>2. ASSUME NEW s \in Streams, PumpStep(s) \/ DeliveryStep(s) PROVE DeliveryInv'
  BY <1>2, PumpDelivers, TakePageDelivers, TeardownDelivers, ConsumerDelivers
     DEF PumpStep, DeliveryStep
<1>3. ASSUME NEW s \in Streams, HostStep(s) PROVE DeliveryInv'
  BY <1>3, WatchDelivers, TeardownDelivers, ConsumerDelivers DEF HostStep
<1> QED BY <1>1, <1>2, <1>3, RestartDelivers, StillDelivers DEF Next

\* The chain of pages from the consumer to the source has no hole in any reachable
\* state, for any number of streams, look-ahead, consumer and store.
THEOREM ChainUnbroken == Spec => []DeliveryInv
<1>1. Spec => []PumpInv
  BY WatchConsistent
<1>2. Init => DeliveryInv
  BY DeliveryInit
<1>3. PumpInv /\ DeliveryInv /\ [Next]_vars => DeliveryInv'
  BY DeliveryStepsKeep
<1> QED BY <1>1, <1>2, <1>3, PTL DEF Spec

\* The stored cursor never leads the consumer (telemetry.ts:1293): every committed
\* event it has passed was in a page the consumer came back from.
THEOREM StoredCursorNeverLeads == Spec => []CursorNeverLeads
<1>1. DeliveryInv => CursorNeverLeads
  BY DEF DeliveryInv, Covered, CursorNeverLeads
<1> QED BY <1>1, ChainUnbroken, PTL

-----------------------------------------------------------------------------
(* Pages reach forward.                                                    *)

\* No page, buffered or being assembled, ends before it begins.
Forward(s) ==
    /\ src[s] = "failedTx" => pageFrom[s] <= cursor[s]
    /\ \A i \in 1 .. Len(buffer[s]) : buffer[s][i].from <= buffer[s][i].to

ForwardInv == \A s \in Streams : Forward(s)

\* A stream whose buffer does not grow and that does not turn to its scan.
Calm(t) ==
    /\ src'[t] = "failedTx" =>
         src[t] = "failedTx" /\ cursor'[t] = cursor[t] /\ pageFrom'[t] = pageFrom[t]
    /\ \/ buffer'[t] \in {buffer[t], <<>>}
       \/ buffer[t] # <<>> /\ buffer'[t] = Tail(buffer[t])

\* What is there does not turn back.
LEMMA CalmKeeps ==
    ASSUME PumpInv, NEW t \in Streams, Forward(t), Calm(t)
    PROVE  Forward(t)'
<1>1. buffer[t] \in Seq(Pages)
  BY DEF PumpInv, TypeOK, PumpTypeOK
<1>2. CASE buffer'[t] = buffer[t]
  BY <1>2 DEF Forward, Calm
<1>3. CASE buffer'[t] = <<>>
  BY <1>3 DEF Forward, Calm
<1>4. CASE buffer[t] # <<>> /\ buffer'[t] = Tail(buffer[t])
  <2>1. /\ Len(buffer[t]) \in Nat \ {0} /\ Len(buffer'[t]) = Len(buffer[t]) - 1
        /\ \A i \in 1 .. Len(buffer[t]) - 1 : buffer'[t][i] = buffer[t][i + 1]
    BY <1>1, <1>4
  <2>2. \A i \in 1 .. Len(buffer'[t]) : i + 1 \in 1 .. Len(buffer[t])
    BY <2>1
  <2> QED BY <2>1, <2>2 DEF Forward, Calm
<1> QED BY <1>2, <1>3, <1>4 DEF Calm

\* A page that reaches forward may be appended.
LEMMA YieldForward ==
    ASSUME PumpInv, ForwardInv, NEW s \in Streams, NEW p \in Pages, p.from <= p.to,
           YieldToPump(s, p),
           \A t \in Streams \ {s} : cursor'[t] = cursor[t] /\ pageFrom'[t] = pageFrom[t]
    PROVE  ForwardInv'
<1> USE DEF PumpInv, TypeOK, PumpTypeOK, SourceTypeOK
<1>1. ASSUME NEW t \in Streams \ {s} PROVE Forward(t)'
  <2>1. Calm(t)
    BY DEF YieldToPump, Calm
  <2> QED BY <2>1, CalmKeeps DEF ForwardInv
<1>2. src'[s] # "failedTx"
  BY DEF YieldToPump
<1>3. buffer'[s] = buffer[s] \/ buffer'[s] = Append(buffer[s], p)
  BY DEF YieldToPump
<1>4. ASSUME buffer'[s] = Append(buffer[s], p) PROVE Forward(s)'
  <2>1. /\ buffer[s] \in Seq(Pages) /\ Len(buffer'[s]) = Len(buffer[s]) + 1
        /\ \A i \in 1 .. Len(buffer[s]) : buffer'[s][i] = buffer[s][i]
        /\ buffer'[s][Len(buffer[s]) + 1] = p
    BY <1>4
  <2>2. \A i \in 1 .. Len(buffer[s]) : buffer[s][i].from <= buffer[s][i].to
    BY DEF ForwardInv, Forward
  <2>3. ASSUME NEW i \in 1 .. Len(buffer'[s]) PROVE buffer'[s][i].from <= buffer'[s][i].to
    <3>1. i \in 1 .. Len(buffer[s]) \/ i = Len(buffer[s]) + 1
      BY <2>1
    <3> QED BY <2>1, <2>2, <3>1
  <2> QED BY <1>2, <2>3 DEF Forward
<1>5. Forward(s)'
  BY <1>2, <1>3, <1>4 DEF Forward, ForwardInv
<1> QED BY <1>1, <1>5 DEF ForwardInv

\* The pages a source assembles do.
LEMMA SourceForward ==
    ASSUME PumpInv, ForwardInv, NEW s \in Streams, SourceStep(s)
    PROVE  ForwardInv'
<1> USE DEF PumpInv, TypeOK, PumpTypeOK, SourceTypeOK
<1>1. CASE Load(s) \/ LoadFails(s) \/ HeadReply(s) \/ HeadFails(s) \/ PollFails(s) \/ DelayEnds(s)
  <2>1. /\ \/ SourceReturns(s) \/ SourceThrows(s)
           \/ \E where \in SourceStates \ {"failedTx"} : SourceAwaits(s, where)
        /\ \A t \in Streams \ {s} : cursor'[t] = cursor[t] /\ pageFrom'[t] = pageFrom[t]
    BY <1>1 DEF Load, LoadFails, HeadReply, HeadFails, PollFails, DelayEnds, RetryOrFail, SourceStates
  <2>2. buffer' = buffer /\ \E w \in SourceStates \ {"failedTx"} : src' = [src EXCEPT ![s] = w]
    BY <2>1 DEF SourceReturns, SourceThrows, SourceAwaits, pumpVars, SourceStates
  <2>3. \A t \in Streams : Calm(t)
    BY <2>1, <2>2 DEF Calm
  <2> QED BY <2>3, CalmKeeps DEF ForwardInv
<1>2. CASE PollReply(s)
  <2>1. cursor[s] \in Nat
    BY <1>2, FetchingSource DEF PollReply
  <2> DEFINE P(n) == [from |-> cursor[s], to |-> n, failed |-> {}, failedCursor |-> NoCursor]
  <2>2. PICK to \in cursor[s] .. head :
          /\ cursor' = [cursor EXCEPT ![s] = to]
          /\ IF FailedTx THEN SourceAwaits(s, "failedTx") ELSE YieldToPump(s, P(to))
    BY <1>2 DEF PollReply
  <2>3. to \in Nat /\ cursor[s] <= to /\ pageFrom' = [pageFrom EXCEPT ![s] = cursor[s]]
    BY <1>2, <2>1, <2>2 DEF PollReply, ListenerTypeOK
  <2>4. CASE FailedTx
    <3>1. buffer' = buffer /\ src' = [src EXCEPT ![s] = "failedTx"]
      BY <2>2, <2>4 DEF SourceAwaits, pumpVars
    <3>2. ASSUME NEW t \in Streams \ {s} PROVE Forward(t)'
      BY <2>2, <2>3, <3>1, CalmKeeps DEF ForwardInv, Calm
    <3>3. Forward(s)'
      BY <2>2, <2>3, <3>1 DEF ForwardInv, Forward
    <3> QED BY <3>2, <3>3 DEF ForwardInv
  <2>5. CASE ~FailedTx
    <3>1. P(to) \in Pages /\ P(to).from <= P(to).to
      BY <2>1, <2>3 DEF Pages, Cursors
    <3>2. \A t \in Streams \ {s} : cursor'[t] = cursor[t] /\ pageFrom'[t] = pageFrom[t]
      BY <2>2, <2>3
    <3>3. YieldToPump(s, P(to))
      BY <2>2, <2>5
    <3> HIDE DEF P
    <3> QED BY <3>1, <3>2, <3>3, YieldForward
  <2> QED BY <2>4, <2>5
<1>3. CASE FailedTxStart(s) \/ FailedTxReply(s) \/ FailedTxFails(s)
  <2>1. src[s] = "failedTx" /\ UNCHANGED <<cursor, pageFrom>>
    BY <1>3 DEF FailedTxStart, FailedTxReply, FailedTxFails
  <2>2. cursor[s] \in Nat /\ pageFrom[s] \in Nat /\ pageFrom[s] <= cursor[s]
    BY <2>1, FetchingSource DEF ForwardInv, Forward
  <2>3. PICK failed \in SUBSET FailedLedgers, scanned \in Cursors : CompletePage(s, failed, scanned)
    BY <1>3, ScanCompletes
  <2> DEFINE p == [from |-> pageFrom[s], to |-> cursor[s], failed |-> failed, failedCursor |-> scanned]
  <2>4. YieldToPump(s, p) /\ p \in Pages /\ p.from <= p.to
    BY <2>2, <2>3 DEF CompletePage, Pages
  <2> HIDE DEF p
  <2> QED BY <2>1, <2>4, YieldForward
<1> QED BY <1>1, <1>2, <1>3 DEF SourceStep

\* Every other step drops pages or leaves them alone.
LEMMA ForwardSteps == PumpInv /\ ForwardInv /\ [Next]_vars => ForwardInv'
<1> SUFFICES ASSUME PumpInv, ForwardInv, [Next]_vars PROVE ForwardInv'
  OBVIOUS
<1> USE DEF PumpInv, TypeOK, PumpTypeOK, SourceTypeOK
<1>1. ASSUME \A t \in Streams : Calm(t) PROVE ForwardInv'
  BY <1>1, CalmKeeps DEF ForwardInv
<1>2. ASSUME NEW s \in Streams, SourceStep(s) PROVE ForwardInv'
  BY <1>2, SourceForward
<1>3. ASSUME NEW s \in Streams, PumpStep(s) \/ Park(s) \/ Watch(s) PROVE ForwardInv'
  <2>1. UNCHANGED <<cursor, pageFrom, buffer>>
    BY <1>3 DEF PumpStep, GraceEnds, TurnEnds, Park, Watch
  <2>2. src' = src \/ \E w \in SourceStates \ {"failedTx"} : src' = [src EXCEPT ![s] = w]
    BY <1>3 DEF PumpStep, GraceEnds, TurnEnds, Park, Watch, Pull, SourceNext, SourceStates
  <2>3. \A t \in Streams : Calm(t)
    BY <2>1, <2>2 DEF Calm
  <2> QED BY <1>1, <2>3
<1>4. ASSUME NEW s \in Streams, TakePage(s) PROVE ForwardInv'
  <2>1. /\ UNCHANGED source /\ buffer[s] # <<>> /\ buffer' = [buffer EXCEPT ![s] = Tail(@)]
    BY <1>4 DEF TakePage
  <2>2. \A t \in Streams : Calm(t)
    BY <2>1 DEF Calm, source
  <2> QED BY <1>1, <2>2
<1>5. ASSUME NEW s \in Streams, EndStream(s) \/ SaveRejects(s) \/ Break(s) PROVE ForwardInv'
  <2>1. Teardown(s) /\ UNCHANGED <<cursor, pageFrom>>
    BY <1>5 DEF EndStream, SaveRejects, Break
  <2>2. \A t \in Streams : Calm(t)
    BY <2>1 DEF Calm, Teardown
  <2> QED BY <1>1, <2>2
<1>6. ASSUME NEW s \in Streams, SaveEvents(s) \/ SaveFailed(s) \/ GoBusy(s) \/ ComeBack(s) \/ Abort(s)
      PROVE  ForwardInv'
  <2>1. UNCHANGED <<source, pumpVars>>
    BY <1>6 DEF SaveEvents, SaveFailed, GoBusy, ComeBack, Abort
  <2> QED BY <1>1, <2>1 DEF Calm, source, pumpVars
<1>7. CASE Restart
  <2>1. \A t \in Streams : Calm(t)
    BY <1>7 DEF Restart, Calm
  <2> QED BY <1>1, <2>1
<1>8. CASE LedgerCloses \/ UNCHANGED vars
  <2>1. UNCHANGED <<source, pumpVars>>
    BY <1>8 DEF LedgerCloses, vars
  <2> QED BY <1>1, <2>1 DEF Calm, source, pumpVars
<1> QED BY <1>2, <1>3, <1>4, <1>5, <1>6, <1>7, <1>8 DEF Next, DeliveryStep, HostStep

\* In every reachable state.
LEMMA PagesReachForward == Spec => []ForwardInv
<1>1. Init => ForwardInv
  BY DEF Init, ForwardInv, Forward
<1> QED BY <1>1, ForwardSteps, WatchConsistent, PTL DEF Spec

-----------------------------------------------------------------------------
(* watch() implements CursorDelivery.                                      *)

InBody(s) == con[s] \in {"handling", "busy"}
View == <<savedEvents, origin, acked, HandedOut, InHand>>

\* A step of the abstract reader, or none.
Follows == Promise!Next \/ UNCHANGED View

\* A step that leaves the live stream's position and page is not seen.
LEMMA ViewKept ==
    ASSUME UNCHANGED <<lease, savedEvents, origin, acked>>,
           lease # NoLease =>
             /\ cursor[lease] # NoCursor <=> cursor'[lease] # NoCursor
             /\ pos'[lease] = pos[lease] /\ page'[lease] = page[lease]
             /\ InBody(lease) <=> InBody(lease)'
    PROVE  UNCHANGED View
<1>1. Reading' = Reading
  BY DEF Reading
<1>2. HandedOut' = HandedOut /\ InHand' = InHand
  BY <1>1 DEF Reading, HandedOut, InHand, InBody
<1> QED BY <1>2 DEF View

\* The stream with the lease is the one that is live.
LEMMA LeaseIsLive ==
    ASSUME PumpInv, NEW s \in Streams, Active(s)
    PROVE  lease = s /\ s # NoLease
BY DEF PumpInv, StreamOK, Streams, NoLease

\* The first position: where the store left off, or where the head is.
LEMMA OpeningFollows ==
    ASSUME PumpInv, DeliveryInv, NEW s \in Streams, Load(s) \/ HeadReply(s)
    PROVE  Follows
<1> USE DEF PumpInv, TypeOK, ListenerTypeOK, SourceTypeOK, ConsumerTypeOK
<1>1. /\ src[s] \in {"load", "head"} /\ UNCHANGED <<stores, lease, con, page, acked>>
      /\ \A t \in Streams \ {s} : cursor'[t] = cursor[t] /\ pos'[t] = pos[t]
  BY DEF Load, HeadReply, shared, consumer
<1>2. CASE ~Active(s)
  <2>1. origin' = origin
    BY <1>1, <1>2 DEF Load, HeadReply, StreamOK, Active
  <2>2. lease # s
    BY <1>2 DEF StreamOK
  <2>3. lease # NoLease => lease \in Streams \ {s}
    BY <2>2
  <2> QED BY <1>1, <2>1, <2>3, ViewKept DEF stores, InBody, Follows
<1>3. CASE Active(s)
  <2>1. lease = s /\ s # NoLease /\ ~stopped[s]
    BY <1>3, LeaseIsLive DEF StreamOK, Active
  <2>2. cursor[s] = NoCursor /\ con[s] = "parked" /\ (src[s] = "head" => savedEvents = NoCursor)
    BY <1>1, <1>3 DEF DeliveryInv, Opening, NeverOpened, Delivering
  <2>3. HandedOut = NoCursor /\ InHand = NoCursor /\ InHand' = NoCursor
    BY <1>1, <2>1, <2>2 DEF HandedOut, InHand, Reading
  <2>4. CASE UNCHANGED <<cursor, pos, origin>>
    BY <1>1, <2>4, ViewKept DEF stores, InBody, Follows
  <2>5. CASE Load(s) /\ ~aborted[s]
    <3>1. cursor'[s] = savedEvents /\ origin' = origin
          /\ pos'[s] = IF savedEvents = NoCursor THEN 0 ELSE savedEvents
      BY <2>5 DEF Load
    <3>2. CASE savedEvents = NoCursor
      BY <1>1, <2>1, <2>2, <2>3, <3>1, <3>2 DEF stores, View, Follows, HandedOut, Reading
    <3>3. CASE savedEvents # NoCursor
      <4>1. HandedOut' = savedEvents
        BY <1>1, <2>1, <3>1, <3>3 DEF HandedOut, Reading
      <4>2. Promise!Open
        BY <1>1, <2>3, <3>1, <3>3, <4>1 DEF Promise!Open, Promise!Nowhere, NoCursor, stores
      <4> QED BY <4>2 DEF Follows, Promise!Next
    <3> QED BY <3>2, <3>3
  <2>6. CASE HeadReply(s)
    <3> DEFINE start == IF head >= 2 THEN head - 2 ELSE 0
    <3>1. start \in Nat
      OBVIOUS
    <3>2. cursor'[s] = start /\ pos'[s] = start /\ origin' = start
      BY <2>1, <2>6 DEF HeadReply
    <3>3. HandedOut' = start
      BY <1>1, <2>1, <3>1, <3>2 DEF HandedOut, Reading, NoCursor
    <3>4. savedEvents = NoCursor
      BY <2>2, <2>6 DEF HeadReply
    <3>5. Promise!Open
      BY <1>1, <2>3, <3>1, <3>2, <3>3, <3>4 DEF Promise!Open, Promise!Nowhere, NoCursor, stores
    <3> QED BY <3>5 DEF Follows, Promise!Next
  <2> QED BY <2>4, <2>5, <2>6 DEF Load, history
<1> QED BY <1>2, <1>3

\* Whatever else the source does is behind the buffer, out of the reader's sight.
LEMMA SourceFollows ==
    ASSUME PumpInv, DeliveryInv, NEW s \in Streams, SourceStep(s)
    PROVE  Follows
<1>1. CASE Load(s) \/ HeadReply(s)
  BY <1>1, OpeningFollows
<1>2. CASE PollReply(s)
  <2>1. src[s] = "poll" /\ UNCHANGED <<stores, lease, con, page, pos, origin, acked>>
    BY <1>2 DEF PollReply, consumer, history
  <2>2. cursor[s] \in Nat
    BY <2>1, FetchingSource
  <2>3. PICK to \in cursor[s] .. head : cursor' = [cursor EXCEPT ![s] = to]
    BY <1>2 DEF PollReply
  <2>4. to # NoCursor /\ cursor[s] # NoCursor
    BY <2>2, <2>3 DEF NoCursor, PumpInv, TypeOK, ListenerTypeOK
  <2>5. \A t \in Streams : cursor[t] # NoCursor <=> cursor'[t] # NoCursor
    BY <2>3, <2>4 DEF PumpInv, TypeOK, SourceTypeOK
  <2>6. lease # NoLease => lease \in Streams
    BY DEF PumpInv, TypeOK, ListenerTypeOK
  <2> QED BY <2>1, <2>5, <2>6, ViewKept DEF stores, InBody, Follows
<1>3. CASE \/ LoadFails(s) \/ HeadFails(s) \/ PollFails(s) \/ DelayEnds(s)
           \/ FailedTxStart(s) \/ FailedTxReply(s) \/ FailedTxFails(s)
  <2>1. UNCHANGED <<stores, lease, cursor, con, page, pos, origin, acked>>
    BY <1>3 DEF LoadFails, HeadFails, PollFails, DelayEnds, FailedTxStart, FailedTxReply,
       FailedTxFails, consumer, history, shared
  <2> QED BY <2>1, ViewKept DEF stores, InBody, Follows
<1> QED BY <1>1, <1>2, <1>3 DEF SourceStep

\* The next page, full or empty, begins where the last one ended.
LEMMA TakePageFollows ==
    ASSUME PumpInv, DeliveryInv, ForwardInv, NEW s \in Streams, TakePage(s)
    PROVE  Follows
<1> USE DEF PumpInv, TypeOK, PumpTypeOK, ConsumerTypeOK
<1> DEFINE p == Head(buffer[s])
<1>1. /\ con[s] \in {"top", "parked"} /\ buffer[s] # <<>> /\ buffer[s] \in Seq(Pages)
      /\ page' = [page EXCEPT ![s] = p] /\ pos' = [pos EXCEPT ![s] = p.to]
      /\ con' = [con EXCEPT ![s] = IF IsEmptyPage(p) THEN "saveEvents" ELSE "handling"]
      /\ UNCHANGED <<stores, lease, cursor, origin, acked>>
  BY DEF TakePage, AtLoopTop, Resumable, shared, source
<1>2. Active(s) /\ lease = s /\ s # NoLease
  BY <1>1, LeaseIsLive DEF Active
<1>3. Delivering(s)
  <2>1. ~Opening(s)
    BY <1>1, <1>2 DEF Opening, TakePage, AtLoopTop, Resumable, PumpOK, StreamOK
  <2> QED BY <1>1, <1>2, <2>1 DEF DeliveryInv, NeverOpened
<1>4. p \in Pages /\ p = buffer[s][1] /\ p.from = pos[s]
  BY <1>1, <1>3 DEF Delivering, Linked
<1>5. Reading /\ Reading' /\ HandedOut = p.from /\ InHand = NoCursor /\ HandedOut' = p.to
  BY <1>1, <1>2, <1>3, <1>4 DEF Delivering, Reading, HandedOut, InHand
<1>6. p.from \in Nat /\ p.to \in Nat
  BY <1>4 DEF Pages
<1>7. p.from <= p.to
  <2>1. 1 \in 1 .. Len(buffer[s])
    BY <1>1
  <2> QED BY <1>4, <2>1 DEF ForwardInv, Forward
<1>8. UNCHANGED <<savedEvents, origin, acked>>
  BY <1>1 DEF stores
<1>9. CASE IsEmptyPage(p)
  <2>1. InHand' = NoCursor
    BY <1>1, <1>2, <1>9 DEF InHand
  <2>2. Promise!Stretch(p.from, p.to) = {}
    BY <1>9 DEF IsEmptyPage, CommittedEvents, Promise!Stretch
  <2> HIDE DEF p
  <2>3. Promise!Skip
    BY <1>5, <1>6, <1>7, <1>8, <2>1, <2>2 DEF Promise!Skip, Promise!Nowhere, NoCursor
  <2> QED BY <2>3 DEF Follows, Promise!Next
<1>10. CASE ~IsEmptyPage(p)
  <2>1. InHand' = p.from
    BY <1>1, <1>2, <1>5, <1>10 DEF InHand
  <2> HIDE DEF p
  <2>2. Promise!Deliver
    BY <1>5, <1>6, <1>7, <1>8, <2>1 DEF Promise!Deliver, Promise!Nowhere, NoCursor
  <2> QED BY <2>2 DEF Follows, Promise!Next
<1> QED BY <1>9, <1>10

\* The end of a stream, or of the process, closes the reader.
LEMMA ClosingFollows ==
    ASSUME PumpInv,
           \/ Restart
           \/ \E s \in Streams : EndStream(s) \/ SaveRejects(s) \/ Break(s)
    PROVE  Follows
<1>1. lease' = NoLease
  <2>1. ASSUME NEW s \in Streams, EndStream(s) \/ SaveRejects(s) \/ Break(s)
        PROVE  lease' = NoLease
    <3>1. Active(s) /\ Teardown(s)
      BY <2>1 DEF EndStream, SaveRejects, Break, AtLoopTop, Resumable, InLoopBody, Active
    <3> QED BY <3>1, LeaseIsLive DEF Teardown
  <2> QED BY <2>1 DEF Restart
<1>2. UNCHANGED <<savedEvents, origin, acked>>
  BY DEF Restart, EndStream, SaveRejects, Break, stores, history
<1>3. HandedOut' = NoCursor /\ InHand' = NoCursor
  BY <1>1 DEF HandedOut, InHand, Reading
<1>4. Promise!Close
  BY <1>2, <1>3 DEF Promise!Close, Promise!Nowhere, NoCursor
<1> QED BY <1>4 DEF Follows, Promise!Next

\* The consumer comes back, and only then is the position it was given saved.
LEMMA ComeBackFollows ==
    ASSUME PumpInv, DeliveryInv, NEW s \in Streams, ComeBack(s) \/ SaveEvents(s)
    PROVE  Follows
<1> USE DEF PumpInv, TypeOK, ConsumerTypeOK
<1>1. /\ con[s] \in {"handling", "busy", "saveEvents"}
      /\ UNCHANGED <<lease, cursor, pos, page, origin>>
  BY DEF ComeBack, SaveEvents, InLoopBody, shared, source, history
<1>2. lease = s /\ s # NoLease /\ Delivering(s)
  <2>1. Active(s)
    BY <1>1 DEF Active
  <2> QED BY <1>1, <2>1, LeaseIsLive DEF DeliveryInv, Opening, NeverOpened
<1>3. HandedOut = pos[s] /\ HandedOut' = pos[s] /\ page[s].to = pos[s] /\ pos[s] \in Nat
  BY <1>1, <1>2 DEF HandedOut, Reading, Delivering
<1>4. CASE ComeBack(s)
  <2>1. /\ con[s] \in {"handling", "busy"} /\ con'[s] = "saveEvents"
        /\ acked' = acked \cup CommittedEvents(page[s]) /\ savedEvents' = savedEvents
    BY <1>4 DEF ComeBack, InLoopBody, stores
  <2>2. InHand = page[s].from /\ page[s].from \in Nat /\ InHand' = NoCursor
    BY <1>1, <1>2, <2>1 DEF InHand, Reading, Delivering, Pages
  <2>3. CommittedEvents(page[s]) = Promise!Stretch(InHand, HandedOut)
    BY <1>3, <2>2 DEF CommittedEvents, Promise!Stretch
  <2>4. Promise!Acknowledge
    BY <1>1, <1>3, <2>1, <2>2, <2>3 DEF Promise!Acknowledge, Promise!Nowhere, NoCursor
  <2> QED BY <2>4 DEF Follows, Promise!Next
<1>5. CASE SaveEvents(s)
  <2>1. /\ con[s] = "saveEvents" /\ con'[s] \in {"top", "saveFailed"}
        /\ savedEvents' = page[s].to /\ acked' = acked
    BY <1>5 DEF SaveEvents, history
  <2>2. InHand = NoCursor /\ InHand' = NoCursor
    BY <1>1, <1>2, <2>1 DEF InHand
  <2>3. Promise!Save
    BY <1>1, <1>3, <2>1, <2>2 DEF Promise!Save, Promise!Nowhere, NoCursor
  <2> QED BY <2>3 DEF Follows, Promise!Next
<1> QED BY <1>4, <1>5

\* The rest moves neither a position nor the page in hand; a new stream has none yet.
LEMMA UnseenFollows ==
    ASSUME PumpInv, DeliveryInv, NEW s \in Streams,
           \/ PumpStep(s) \/ Park(s) \/ SaveFailed(s) \/ GoBusy(s) \/ Abort(s) \/ Watch(s)
    PROVE  Follows
<1> USE DEF PumpInv, TypeOK, ListenerTypeOK, ConsumerTypeOK
<1>1. UNCHANGED <<savedEvents, cursor, pos, page, origin, acked>>
  BY DEF PumpStep, GraceEnds, TurnEnds, Park, SaveFailed, GoBusy, Abort, Watch, history, stores,
     consumer, source
<1>2. CASE ~Watch(s)
  <2>1. lease' = lease /\ \A t \in Streams : InBody(t) <=> InBody(t)'
    BY <1>2 DEF PumpStep, GraceEnds, TurnEnds, Park, AtLoopTop, Resumable, SaveFailed, GoBusy, Abort,
       InBody, shared, consumer
  <2>2. lease # NoLease => lease \in Streams
    OBVIOUS
  <2> QED BY <1>1, <2>1, <2>2, ViewKept DEF Follows
<1>3. CASE Watch(s)
  <2>1. s = started + 1 /\ lease = NoLease /\ lease' \in {NoLease, s}
    BY <1>3 DEF Watch
  <2>2. cursor[s] = NoCursor
    BY <2>1 DEF DeliveryInv, StreamOK
  <2>3. ~Reading /\ ~Reading'
    BY <1>1, <2>1, <2>2 DEF Reading
  <2> QED BY <1>1, <2>3 DEF View, HandedOut, InHand, Follows
<1> QED BY <1>2, <1>3

\* watch(), with its pump, its zombies and its restarts, keeps the promise of a
\* resumable stream for every value of the constants (telemetry.ts:1282-1343).
THEOREM DeliveryPromised == Spec => KeepsPromise
<1>1. Init => Promise!Init
  BY DEF Init, Promise!Init, Promise!Nowhere, NoCursor, HandedOut, InHand, Reading
<1>2. PumpInv /\ DeliveryInv /\ ForwardInv /\ [Next]_vars => [Promise!Next]_(Promise!state)
  <2>1. SUFFICES ASSUME PumpInv, DeliveryInv, ForwardInv, [Next]_vars PROVE Follows
    BY DEF Follows, View, Promise!state
  <2>2. CASE LedgerCloses \/ UNCHANGED vars
    <3>1. UNCHANGED <<stores, lease, cursor, con, page, pos, origin, acked>>
      BY <2>2 DEF LedgerCloses, vars, shared, source, consumer, history
    <3> QED BY <3>1, ViewKept DEF stores, InBody, Follows
  <2>3. ASSUME NEW s \in Streams, SourceStep(s) \/ PumpStep(s) \/ DeliveryStep(s) \/ HostStep(s)
        PROVE  Follows
    <3>1. CASE SourceStep(s) \/ TakePage(s)
      BY <2>1, <3>1, SourceFollows, TakePageFollows
    <3>2. CASE EndStream(s) \/ SaveRejects(s) \/ Break(s)
      BY <2>1, <3>2, ClosingFollows
    <3>3. CASE ComeBack(s) \/ SaveEvents(s)
      BY <2>1, <3>3, ComeBackFollows
    <3>4. CASE PumpStep(s) \/ Park(s) \/ SaveFailed(s) \/ GoBusy(s) \/ Abort(s) \/ Watch(s)
      BY <2>1, <3>4, UnseenFollows
    <3> QED BY <2>3, <3>1, <3>2, <3>3, <3>4 DEF DeliveryStep, HostStep
  <2> QED BY <2>1, <2>2, <2>3, ClosingFollows DEF Next
<1> QED
  BY <1>1, <1>2, WatchConsistent, ChainUnbroken, PagesReachForward, PTL
     DEF Spec, KeepsPromise, Promise!Spec

-----------------------------------------------------------------------------
(* And a reader that keeps that promise loses nothing: an argument for the  *)
(* cursor rule that uses nothing of the pump, its retries or its restarts,   *)
(* only that the reader opens at its cursor and saves what was come back     *)
(* from.                                                                   *)

LEMMA EventsAreLedgers == EventLedgers \subseteq Int
BY LedgersAssumption DEF LedgersAssumption

\* Positions are ledgers.
LEMMA ReaderPositions ==
    ASSUME Promise!DeliveryOK
    PROVE  savedEvents \in Int /\ origin \in Int /\ HandedOut \in Int /\ InHand \in Int
BY DEF Promise!DeliveryOK, Promise!Nowhere

LEMMA ReaderInit ==
    ASSUME Promise!Init
    PROVE  Promise!DeliveryOK
BY EventsAreLedgers
   DEF Promise!Init, Promise!DeliveryOK, Promise!Behind, Promise!Nowhere

LEMMA ReaderSteps ==
    ASSUME Promise!DeliveryOK, [Promise!Next]_(Promise!state)
    PROVE  Promise!DeliveryOK'
<1>. USE EventsAreLedgers DEF Promise!Nowhere
<1>0. savedEvents \in Int /\ origin \in Int /\ HandedOut \in Int /\ InHand \in Int
  BY ReaderPositions
<1>1. CASE Promise!Open
  <2>1. CASE savedEvents = Promise!Nowhere
    BY <1>0, <1>1, <2>1 DEF Promise!Open, Promise!DeliveryOK, Promise!Behind
  <2>2. CASE savedEvents # Promise!Nowhere
    BY <1>0, <1>1, <2>2 DEF Promise!Open, Promise!DeliveryOK, Promise!Behind
  <2> QED BY <2>1, <2>2
<1>2. CASE Promise!Deliver
  BY <1>0, <1>2 DEF Promise!Deliver, Promise!DeliveryOK, Promise!Behind
<1>3. CASE Promise!Skip
  <2>1. Promise!Behind(HandedOut)' /\ Promise!Behind(savedEvents)'
    BY <1>0, <1>3
       DEF Promise!Skip, Promise!DeliveryOK, Promise!Behind, Promise!Stretch
  <2> QED BY <1>3, <2>1 DEF Promise!Skip, Promise!DeliveryOK
<1>4. CASE Promise!Acknowledge
  <2>1. Promise!Behind(InHand) /\ Promise!Behind(savedEvents)
    BY <1>4 DEF Promise!Acknowledge, Promise!DeliveryOK
  <2>2. Promise!Behind(HandedOut)' /\ Promise!Behind(savedEvents)'
    BY <1>0, <1>4, <2>1 DEF Promise!Acknowledge, Promise!Behind, Promise!Stretch
  <2>3. acked' \subseteq EventLedgers
    BY <1>4 DEF Promise!Acknowledge, Promise!DeliveryOK, Promise!Stretch
  <2> QED BY <1>4, <2>2, <2>3 DEF Promise!Acknowledge, Promise!DeliveryOK
<1>5. CASE Promise!Save
  BY <1>0, <1>5 DEF Promise!Save, Promise!DeliveryOK, Promise!Behind
<1>6. CASE Promise!Close
  BY <1>0, <1>6 DEF Promise!Close, Promise!DeliveryOK, Promise!Behind
<1>7. CASE UNCHANGED Promise!state
  BY <1>7 DEF Promise!state, Promise!DeliveryOK, Promise!Behind
<1> QED BY <1>1, <1>2, <1>3, <1>4, <1>5, <1>6, <1>7 DEF Promise!Next

\* Whatever is handed out, dropped, handed out again or lost with its reader, no
\* event behind the durable cursor went unacknowledged (telemetry.ts:1288-1301).
THEOREM CursorFollowsConsumer == KeepsPromise => []Promise!NothingLost
<1>1. Promise!DeliveryOK /\ [Promise!Next]_(Promise!state) => Promise!DeliveryOK'
  BY ReaderSteps
<1>2. Promise!DeliveryOK => Promise!NothingLost
  BY DEF Promise!DeliveryOK, Promise!NothingLost
<1>3. Promise!Init => Promise!DeliveryOK
  BY ReaderInit
<1> QED BY <1>1, <1>2, <1>3, PTL DEF KeepsPromise, Promise!Spec

-----------------------------------------------------------------------------
(* What a listener watched once promises about the ledgers it passes: no    *)
(* decision is counted twice, and no failed transaction is lost.  Both      *)
(* need the assumption their runs make, that the host does not call         *)
(* watch() again on a listener (Rewatch is FALSE): a second stream takes    *)
(* up behind the first one's look-ahead, counts its pages again, and drops  *)
(* the failed transactions the first one had prefetched.                    *)

(* One stream per listener.                                                *)

\* At most one stream belongs to the present listener; the earlier ones are over.
SoleInv ==
    /\ started <= epoch + 1
    /\ \A s \in Streams : s <= epoch => src[s] = "done" /\ con[s] = "done"
    /\ \A s \in Streams : src[s] = "failedTx" => pageFrom[s] <= cursor[s]

\* No ledger is counted twice, and what is counted lies behind the sole stream.
CountInv ==
    /\ \A l \in EventLedgers : counted[l] <= 1
    /\ \A l \in EventLedgers : counted[l] # 0 => started > epoch /\ l <= Fetched(started)

\* A running source is that stream's.
LEMMA SoleStream ==
    ASSUME PumpInv, SoleInv, NEW s \in Streams, src[s] \notin {"off", "done"} \/ Active(s)
    PROVE  s = started /\ started = epoch + 1 /\ epoch \in Nat
<1>1. started \in Nat /\ epoch \in Nat /\ epoch <= started /\ started <= epoch + 1 /\ s \in Nat
  BY BoundsAssumption DEF PumpInv, TypeOK, ListenerTypeOK, SoleInv, Streams
<1>2. s > epoch
  BY <1>1 DEF SoleInv, Active
<1>3. s <= started
  BY <1>1 DEF PumpInv, StreamOK, Active
<1> QED BY <1>1, <1>2, <1>3

\* Before the source has a position nothing is counted.
LEMMA NothingCounted ==
    ASSUME PumpInv, DeliveryInv, SoleInv, CountInv, NEW s \in Streams,
           src[s] \in {"load", "head", "headWait"}
    PROVE  \A l \in EventLedgers : counted[l] = 0
<1>1. s = started
  BY SoleStream
<1>2. Fetched(s) = NoCursor
  BY DEF Fetched, DeliveryInv
<1> QED BY <1>1, <1>2, LedgersAssumption DEF CountInv, NoCursor

\* A step that fetches and counts nothing.
LEMMA UncountedKeeps ==
    ASSUME PumpInv, SoleInv, CountInv, NEW s \in Streams,
           UNCHANGED <<started, epoch, counted, cursor, pageFrom>>,
           \A t \in Streams \ {s} : src'[t] = src[t],
           src'[s] = src[s] \/ (src[s] # "failedTx" /\ src'[s] # "failedTx"),
           src[s] = "done" => src'[s] = "done",
           \A t \in Streams : con[t] = "done" => con'[t] = "done"
    PROVE  SoleInv' /\ CountInv'
<1>1. SoleInv'
  BY DEF SoleInv
<1>2. \A t \in Streams : Fetched(t)' = Fetched(t)
  BY DEF Fetched
<1>3. started > epoch => started \in Streams
  BY DEF PumpInv, TypeOK, ListenerTypeOK, Streams
<1>4. CountInv'
  BY <1>2, <1>3 DEF CountInv
<1> QED BY <1>1, <1>4

\* A page from where the fetching stood counts each of its decisions for the first time.
LEMMA CountKeeps ==
    ASSUME PumpInv, CountInv, NEW s \in Streams, s = started, started > epoch,
           NEW p \in Pages, Count(p), p.from = Fetched(s), p.from <= p.to,
           started' = started, epoch' = epoch, Fetched(s)' = p.to
    PROVE  CountInv'
<1>1. ASSUME NEW l \in EventLedgers
      PROVE  counted'[l] <= 1 /\ (counted'[l] # 0 => l <= p.to)
  <2>1. /\ counted[l] \in Nat /\ counted[l] <= 1 /\ l \in Nat
        /\ p.from \in Nat /\ p.to \in Nat
    BY LedgersAssumption DEF PumpInv, TypeOK, ListenerTypeOK, CountInv, Pages
  <2>2. /\ l \in CommittedEvents(p) => counted'[l] = counted[l] + 1
        /\ l \notin CommittedEvents(p) => counted'[l] = counted[l] + 0
    BY DEF Count
  <2>3. CASE l \in CommittedEvents(p)
    <3>1. p.from < l /\ l <= p.to
      BY <2>3 DEF CommittedEvents
    <3>2. counted[l] = 0
      BY <2>1, <3>1 DEF CountInv
    <3>3. counted'[l] = 0 + 1
      BY <2>2, <2>3, <3>2
    <3> QED BY <3>1, <3>3
  <2>4. CASE l \notin CommittedEvents(p)
    <3>1. counted'[l] = counted[l]
      BY <2>1, <2>2, <2>4
    <3>2. counted[l] # 0 => l <= p.from
      BY DEF CountInv
    <3> QED BY <2>1, <3>1, <3>2
  <2> QED BY <2>3, <2>4
<1>2. Fetched(started)' = p.to /\ started' > epoch'
  OBVIOUS
<1> QED BY <1>1, <1>2 DEF CountInv

\* Opening the stream counts nothing, and finds nothing counted.
LEMMA OpeningCounts ==
    ASSUME PumpInv, DeliveryInv, SoleInv, CountInv, NEW s \in Streams,
           Load(s) \/ LoadFails(s) \/ HeadReply(s)
    PROVE  SoleInv' /\ CountInv'
<1>1. /\ src[s] \in {"load", "head"}
      /\ UNCHANGED <<shared, calls, pageFrom, consumer>>
      /\ \A t \in Streams \ {s} : src'[t] = src[t] /\ cursor'[t] = cursor[t]
      /\ src'[s] \in {"head", "poll", "done"}
  BY DEF Load, LoadFails, HeadReply, SourceReturns, SourceThrows, SourceAwaits, PumpInv, TypeOK,
     SourceTypeOK, source
<1>2. s = started /\ started = epoch + 1
  BY <1>1, SoleStream
<1>3. SoleInv'
  BY <1>1, <1>2 DEF SoleInv, calls, consumer
<1>4. \A l \in EventLedgers : counted'[l] = 0
  BY <1>1, NothingCounted DEF shared
<1> QED BY <1>3, <1>4 DEF CountInv

\* The page of a getEvents answer is counted as it goes out, or kept until the scan.
LEMMA PollReplyCounts ==
    ASSUME PumpInv, SoleInv, CountInv, NEW s \in Streams, PollReply(s)
    PROVE  SoleInv' /\ CountInv'
<1>1. /\ src[s] = "poll" /\ UNCHANGED <<calls, consumer>>
      /\ pageFrom' = [pageFrom EXCEPT ![s] = cursor[s]]
  BY DEF PollReply
<1>2. cursor[s] \in Nat /\ s = started /\ started = epoch + 1 /\ started > epoch
  BY <1>1, FetchingSource, SoleStream
<1>3. PICK to \in cursor[s] .. head :
        /\ cursor' = [cursor EXCEPT ![s] = to]
        /\ LET p == [from |-> cursor[s], to |-> to, failed |-> {}, failedCursor |-> NoCursor] IN
           \/ SourceAwaits(s, "failedTx") /\ UNCHANGED counted
           \/ YieldToPump(s, p) /\ Count(p)
  BY DEF PollReply
<1> DEFINE p == [from |-> cursor[s], to |-> to, failed |-> {}, failedCursor |-> NoCursor]
<1>4. /\ to \in Nat /\ cursor[s] <= to /\ p \in Pages /\ p.from = cursor[s] /\ p.to = to
      /\ \/ SourceAwaits(s, "failedTx") /\ UNCHANGED counted
         \/ YieldToPump(s, p) /\ Count(p)
  BY <1>2, <1>3 DEF Pages, Cursors, NoCursor
<1> HIDE DEF p
<1>5. /\ cursor'[s] = to /\ pageFrom'[s] = cursor[s]
      /\ \A t \in Streams \ {s} : cursor'[t] = cursor[t] /\ pageFrom'[t] = pageFrom[t]
  BY <1>1, <1>3 DEF PumpInv, TypeOK, SourceTypeOK
<1>6. /\ \A t \in Streams \ {s} : src'[t] = src[t]
      /\ \/ src'[s] = "failedTx" /\ UNCHANGED counted
         \/ src'[s] \in {"yield", "done"} /\ Count(p)
  BY <1>4 DEF SourceAwaits, YieldToPump, PumpInv, TypeOK, SourceTypeOK
<1>7. SoleInv'
  BY <1>1, <1>2, <1>4, <1>5, <1>6 DEF SoleInv, calls, consumer
<1>8. CASE src'[s] = "failedTx" /\ UNCHANGED counted
  <2>1. Fetched(s)' = Fetched(s)
    BY <1>1, <1>5, <1>8 DEF Fetched
  <2>2. CountInv'
    BY <1>1, <1>2, <1>8, <2>1 DEF CountInv, calls
  <2> QED BY <1>7, <2>2
<1>9. CASE src'[s] \in {"yield", "done"} /\ Count(p)
  <2>1. Fetched(s)' = p.to /\ p.from = Fetched(s)
    BY <1>1, <1>4, <1>5, <1>9 DEF Fetched
  <2>2. CountInv'
    BY <1>1, <1>2, <1>4, <1>9, <2>1, CountKeeps DEF calls
  <2> QED BY <1>7, <2>2
<1> QED BY <1>6, <1>8, <1>9

\* So is the page that waited for the scan.
LEMMA FailedTxCounts ==
    ASSUME PumpInv, SoleInv, CountInv, NEW s \in Streams,
           FailedTxStart(s) \/ FailedTxReply(s) \/ FailedTxFails(s)
    PROVE  SoleInv' /\ CountInv'
<1>1. src[s] = "failedTx" /\ UNCHANGED <<calls, cursor, pageFrom, consumer>>
  BY DEF FailedTxStart, FailedTxReply, FailedTxFails
<1>2. /\ cursor[s] \in Nat /\ pageFrom[s] \in Nat /\ pageFrom[s] <= cursor[s]
      /\ s = started /\ started = epoch + 1 /\ started > epoch
  BY <1>1, FetchingSource, SoleStream DEF SoleInv, PumpInv, TypeOK, SourceTypeOK
<1>3. PICK failed \in SUBSET FailedLedgers, scanned \in Cursors : CompletePage(s, failed, scanned)
  BY ScanCompletes
<1> DEFINE p == [from |-> pageFrom[s], to |-> cursor[s], failed |-> failed,
                 failedCursor |-> scanned]
<1>4. p \in Pages /\ p.from = pageFrom[s] /\ p.to = cursor[s] /\ p.from <= p.to
  BY <1>2 DEF Pages
<1>5. YieldToPump(s, p) /\ Count(p)
  BY <1>3 DEF CompletePage, Count
<1> HIDE DEF p
<1>6. src'[s] \in {"yield", "done"} /\ \A t \in Streams \ {s} : src'[t] = src[t]
  BY <1>5 DEF YieldToPump, PumpInv, TypeOK, SourceTypeOK
<1>7. SoleInv'
  BY <1>1, <1>2, <1>6 DEF SoleInv, calls, consumer
<1>8. p.from = Fetched(s) /\ Fetched(s)' = p.to
  BY <1>1, <1>4, <1>6 DEF Fetched
<1>9. CountInv'
  BY <1>1, <1>2, <1>4, <1>5, <1>8, CountKeeps DEF calls
<1> QED BY <1>7, <1>9

\* Rejections, delays, the pump and the consumer count nothing.
LEMMA RestCounts ==
    ASSUME PumpInv, SoleInv, CountInv, NEW s \in Streams,
           \/ HeadFails(s) \/ PollFails(s) \/ DelayEnds(s) \/ PumpStep(s)
           \/ DeliveryStep(s) \/ Break(s) \/ GoBusy(s) \/ ComeBack(s) \/ Abort(s)
    PROVE  SoleInv' /\ CountInv'
<1> USE DEF PumpInv, TypeOK, SourceTypeOK, ConsumerTypeOK
<1>1. CASE HeadFails(s) \/ PollFails(s) \/ DelayEnds(s)
  <2>1. /\ UNCHANGED <<calls, counted, cursor, pageFrom, con>>
        /\ src[s] \in {"head", "poll", "headWait", "pollWait", "sleep"}
    BY <1>1 DEF HeadFails, PollFails, DelayEnds, shared, consumer
  <2>2. /\ \A t \in Streams \ {s} : src'[t] = src[t]
        /\ src'[s] \in {"done", "head", "headWait", "poll", "pollWait"}
    BY <1>1 DEF HeadFails, PollFails, DelayEnds, RetryOrFail, SourceReturns, SourceThrows, SourceAwaits
  <2> QED BY <2>1, <2>2, UncountedKeeps DEF calls
<1>2. CASE GraceEnds(s) \/ TurnEnds(s) \/ Park(s)
  <2>1. UNCHANGED <<calls, counted, cursor, pageFrom>> /\ \A t \in Streams : con[t] = "done" => con'[t] = "done"
    BY <1>2 DEF GraceEnds, TurnEnds, Park, AtLoopTop, Resumable, consumer
  <2>2. MayResume(s)
    BY <1>2, PullResumes
  <2>3. /\ \A t \in Streams \ {s} : src'[t] = src[t]
        /\ src'[s] = src[s] \/ (src[s] # "failedTx" /\ src'[s] # "failedTx")
        /\ src[s] = "done" => src'[s] = "done"
    BY <2>2 DEF MayResume
  <2> QED BY <2>1, <2>3, UncountedKeeps DEF calls
<1>3. CASE TakePage(s) \/ SaveEvents(s) \/ SaveFailed(s) \/ GoBusy(s) \/ ComeBack(s) \/ Abort(s)
  <2>1. UNCHANGED <<calls, counted, source>> /\ \A t \in Streams : con[t] = "done" => con'[t] = "done"
    BY <1>3 DEF TakePage, SaveEvents, SaveFailed, GoBusy, ComeBack, Abort, AtLoopTop, Resumable,
       InLoopBody, shared
  <2> QED BY <2>1, UncountedKeeps DEF calls, source
<1>4. CASE EndStream(s) \/ SaveRejects(s) \/ Break(s)
  <2>1. /\ Teardown(s) /\ UNCHANGED <<calls, counted, cursor, pageFrom>>
    BY <1>4 DEF EndStream, SaveRejects, Break
  <2>2. /\ \A t \in Streams \ {s} : src'[t] = src[t]
        /\ src'[s] = src[s] \/ (src[s] = "yield" /\ src'[s] = "done")
        /\ \A t \in Streams : con[t] = "done" => con'[t] = "done"
    BY <2>1 DEF Teardown
  <2> QED BY <2>1, <2>2, UncountedKeeps DEF calls
<1> QED BY <1>1, <1>2, <1>3, <1>4 DEF PumpStep, DeliveryStep

\* A first call of watch(), a restart and a ledger.
LEMMA WorldCounts ==
    ASSUME PumpInv, SoleInv, CountInv, ~Rewatch,
           (\E s \in Streams : Watch(s)) \/ Restart \/ LedgerCloses \/ UNCHANGED vars
    PROVE  SoleInv' /\ CountInv'
<1>1. started \in Nat /\ epoch \in Nat /\ epoch <= started
  BY DEF PumpInv, TypeOK, ListenerTypeOK
<1>2. ASSUME NEW s \in Streams, Watch(s) PROVE SoleInv' /\ CountInv'
  <2>1. /\ started = epoch /\ started' = epoch + 1 /\ s = epoch + 1 /\ epoch' = epoch
        /\ UNCHANGED <<counted, cursor, pageFrom>>
        /\ \A t \in Streams \ {s} : src'[t] = src[t] /\ con'[t] = con[t]
        /\ src'[s] \in {"load", "done"}
    <3>1. /\ s = started + 1 /\ started = epoch /\ started' = s /\ epoch' = epoch
          /\ UNCHANGED <<counted, cursor, pageFrom>>
          /\ \/ con' = [con EXCEPT ![s] = "done"] /\ src' = [src EXCEPT ![s] = "done"]
             \/ con' = [con EXCEPT ![s] = "parked"] /\ Pull(s)
      BY <1>2 DEF Watch
    <3>2. src[s] = "off"
      BY <1>1, <3>1 DEF PumpInv, StreamOK
    <3> QED BY <3>1, <3>2 DEF Pull, SourceNext, PumpInv, TypeOK, SourceTypeOK, ConsumerTypeOK
  <2>2. \A l \in EventLedgers : counted'[l] = 0
    BY <1>1, <2>1 DEF CountInv
  <2>3. SoleInv'
    BY <1>1, <2>1 DEF SoleInv, Streams
  <2> QED BY <2>2, <2>3 DEF CountInv
<1>3. CASE Restart
  <2>1. SoleInv'
    BY <1>1, <1>3 DEF Restart, SoleInv, Streams
  <2>2. \A l \in EventLedgers : counted'[l] = 0
    BY <1>3 DEF Restart
  <2> QED BY <2>1, <2>2 DEF CountInv
<1>4. CASE LedgerCloses \/ UNCHANGED vars
  BY <1>4 DEF LedgerCloses, vars, SoleInv, CountInv, Fetched, source, calls, shared, consumer
<1> QED BY <1>2, <1>3, <1>4

\* The sole stream's invariants hold throughout, watched once.
LEMMA SoleHolds ==
    ASSUME ~Rewatch
    PROVE  Spec => [](SoleInv /\ CountInv)
<1>1. Init => SoleInv /\ CountInv
  BY DEF Init, SoleInv, CountInv, Streams
<1>2. /\ PumpInv /\ DeliveryInv /\ SoleInv /\ CountInv /\ [Next]_vars => (SoleInv /\ CountInv)'
  BY OpeningCounts, PollReplyCounts, FailedTxCounts, RestCounts, WorldCounts
     DEF Next, SourceStep, HostStep
<1>3. Spec => [](PumpInv /\ DeliveryInv)
  BY WatchConsistent, ChainUnbroken, PTL
<1> QED BY <1>1, <1>2, <1>3, PTL DEF Spec

\* "Every entry point counts each committed decision exactly once" (telemetry.ts:3132):
\* a listener watched once counts none twice, whatever its retries, aborts and scans.
THEOREM DecisionsCountedOnce ==
    ASSUME ~Rewatch
    PROVE  Spec => []CountedAtMostOnce
<1>1. CountInv => CountedAtMostOnce
  BY DEF CountInv, CountedAtMostOnce
<1> QED BY <1>1, SoleHolds, PTL

-----------------------------------------------------------------------------
(* Failed transactions.                                                    *)

\* The live part of ScanInv.
ScanLive(s) ==
    /\ Scanned(s, Len(buffer[s]), failedCursor[s])
    /\ \A i \in 1 .. Len(buffer[s]) : Scanned(s, i, buffer[s][i].failedCursor)
    /\ con[s] \in {"handling", "busy", "saveEvents", "saveFailed"} =>
          Scanned(s, 0, page[s].failedCursor)
    /\ \A l \in processedFailedTx : Shown(s, Len(buffer[s]), l)

\* What holds beside the live stream.
ScanRest ==
    /\ FailedTxNeverLost
    /\ failedOrigin <= head
    /\ started = epoch => processedFailedTx = {}
    /\ \A s \in Streams : con[s] = "none" => failedCursor[s] = NoCursor

LEMMA ScanParts == ScanInv <=> ScanRest /\ \A s \in Streams : Active(s) => ScanLive(s)
BY DEF ScanInv, ScanRest, ScanLive

\* While the sole stream steps, no other is live.
LEMMA SoleScan ==
    ASSUME PumpInv, SoleInv, NEW s \in Streams, src[s] \notin {"off", "done"} \/ Active(s),
           \A t \in Streams \ {s} : con'[t] = con[t],
           ScanRest', Active(s)' => ScanLive(s)'
    PROVE  ScanInv'
<1>1. ASSUME NEW t \in Streams \ {s} PROVE ~Active(t)'
  <2>1. ~Active(t)
    BY SoleStream
  <2> QED BY <2>1 DEF Active
<1>2. \A t \in Streams : Active(t)' => ScanLive(t)'
  BY <1>1
<1> QED BY <1>2, ScanParts DEF ScanInv, ScanRest, ScanLive

\* A step that surfaces, delivers and saves no failed transaction.
LEMMA UnscannedKeeps ==
    ASSUME PumpInv, ScanInv, head' >= head, head' \in Nat,
           UNCHANGED <<savedFailed, failedOrigin, failedAcked, processedFailedTx,
                       failedCursor, page, started, epoch>>,
           \A t \in Streams : con'[t] = "none" => con[t] = "none",
           \A t \in Streams : Active(t)' =>
              /\ Active(t) /\ buffer'[t] = buffer[t]
              /\ con'[t] \in {"handling", "busy"} <=> con[t] \in {"handling", "busy"}
              /\ con'[t] \in {"saveEvents", "saveFailed"} => con[t] \in {"saveEvents", "saveFailed"}
    PROVE  ScanInv'
<1>1. ScanRest'
  <2>1. FailedTxNeverLost'
    BY DEF ScanInv, FailedTxNeverLost
  <2>2. failedOrigin' <= head'
    BY DEF ScanInv, PumpInv, TypeOK, ListenerTypeOK, ConsumerTypeOK
  <2> QED BY <2>1, <2>2 DEF ScanInv, ScanRest
<1>2. ASSUME NEW t \in Streams, Active(t)' PROVE ScanLive(t)'
  <2>1. ScanLive(t) /\ buffer'[t] = buffer[t]
    BY <1>2, ScanParts
  <2>2. \A k, l : Shown(t, k, l) => Shown(t, k, l)'
    BY <1>2 DEF Shown
  <2>3. \A k, n : Scanned(t, k, n) => \A l \in FailedLedgers : (failedOrigin' < l /\ l <= n) => Shown(t, k, l)'
    BY <2>2 DEF Scanned
  <2>4. /\ Scanned(t, Len(buffer[t]), failedCursor[t])'
        /\ \A l \in processedFailedTx' : Shown(t, Len(buffer[t]), l)'
    BY <2>1, <2>2, <2>3 DEF ScanLive, Scanned
  <2>5. ASSUME NEW i \in 1 .. Len(buffer'[t]) PROVE Scanned(t, i, buffer[t][i].failedCursor)'
    BY <2>1, <2>3 DEF ScanLive, Scanned
  <2>6. ASSUME con'[t] \in {"handling", "busy", "saveEvents", "saveFailed"}
        PROVE  Scanned(t, 0, page[t].failedCursor)'
    BY <1>2, <2>1, <2>3, <2>6 DEF ScanLive, Scanned
  <2> QED BY <2>4, <2>5, <2>6 DEF ScanLive
<1> QED BY <1>1, <1>2 DEF ScanInv, ScanRest, ScanLive

\* A page that reaches the buffer shows what its scan found.
LEMMA PageScanned ==
    ASSUME PumpInv, ScanInv, NEW s \in Streams, Active(s),
           NEW p \in Pages, buffer' = [buffer EXCEPT ![s] = Append(buffer[s], p)],
           UNCHANGED <<con, page, failedAcked>>,
           failedOrigin <= failedOrigin', failedOrigin' \in Nat,
           \A l \in processedFailedTx' : l \in processedFailedTx \/ l \in p.failed,
           \A l \in FailedLedgers : \A n \in {failedCursor'[s], p.failedCursor} :
              (failedOrigin' < l /\ l <= n) => Shown(s, Len(buffer[s]), l) \/ l \in p.failed
    PROVE  ScanLive(s)'
<1>0. PICK b \in Seq(Pages) : b = buffer[s]
  BY DEF PumpInv, TypeOK, PumpTypeOK
<1>1. /\ Len(b) \in Nat /\ buffer'[s] = Append(b, p)
  BY <1>0 DEF PumpInv, TypeOK, PumpTypeOK
<1>2. /\ Len(buffer'[s]) = Len(b) + 1
      /\ \A i \in 1 .. Len(b) : buffer'[s][i] = buffer[s][i]
      /\ buffer'[s][Len(b) + 1] = p
  BY <1>0, <1>1
<1>3. ASSUME NEW k \in 0 .. Len(b), NEW l, Shown(s, k, l) PROVE Shown(s, k, l)'
  <2>1. CASE \E i \in 1 .. k : l \in buffer[s][i].failed
    <3>1. PICK i \in 1 .. k : l \in buffer[s][i].failed
      BY <2>1
    <3>2. i \in 1 .. Len(b)
      BY <1>1
    <3> QED BY <1>2, <3>1, <3>2 DEF Shown
  <2> QED BY <1>3, <2>1 DEF Shown
<1>4. ASSUME NEW l, Shown(s, Len(b), l) \/ l \in p.failed PROVE Shown(s, Len(b) + 1, l)'
  <2>1. CASE l \in p.failed
    <3>1. Len(b) + 1 \in 1 .. Len(b) + 1
      BY <1>1
    <3> QED BY <1>2, <2>1, <3>1 DEF Shown
  <2>2. CASE Shown(s, Len(b), l)
    <3>1. Shown(s, Len(b), l)'
      BY <1>1, <1>3, <2>2
    <3>2. \A i \in 1 .. Len(b) : i \in 1 .. Len(b) + 1
      BY <1>1
    <3> QED BY <3>1, <3>2 DEF Shown
  <2> QED BY <1>4, <2>1, <2>2
<1>5. ScanLive(s) /\ \A l \in FailedLedgers : failedOrigin' < l => failedOrigin < l
  BY ScanParts, LedgersAssumption DEF PumpInv, TypeOK, ConsumerTypeOK
<1>6. Scanned(s, Len(buffer[s]), failedCursor[s])'
  BY <1>0, <1>2, <1>4 DEF Scanned
<1>7. ASSUME NEW i \in 1 .. Len(buffer'[s]) PROVE Scanned(s, i, buffer[s][i].failedCursor)'
  <2>1. CASE i = Len(b) + 1
    BY <1>0, <1>2, <1>4, <2>1 DEF Scanned
  <2>2. CASE i # Len(b) + 1
    <3>1. i \in 1 .. Len(b) /\ i \in 0 .. Len(b)
      BY <1>1, <1>2, <2>2
    <3>2. buffer'[s][i] = buffer[s][i] /\ Scanned(s, i, buffer[s][i].failedCursor)
      BY <1>0, <1>2, <1>5, <3>1 DEF ScanLive
    <3> QED BY <1>3, <1>5, <3>1, <3>2 DEF Scanned
  <2> QED BY <2>1, <2>2
<1>8. ASSUME con'[s] \in {"handling", "busy", "saveEvents", "saveFailed"}
      PROVE  Scanned(s, 0, page[s].failedCursor)'
  <2>1. Scanned(s, 0, page[s].failedCursor) /\ 0 \in 0 .. Len(b)
    BY <1>1, <1>5, <1>8 DEF ScanLive
  <2> QED BY <1>3, <1>5, <2>1 DEF Scanned
<1>9. ASSUME NEW l \in processedFailedTx' PROVE Shown(s, Len(buffer[s]), l)'
  BY <1>0, <1>2, <1>4, <1>5 DEF ScanLive
<1> QED BY <1>6, <1>7, <1>8, <1>9 DEF ScanLive

\* The scan takes up at the stored cursor, behind which everything reached the consumer.
LEMMA LoadScans ==
    ASSUME PumpInv, DeliveryInv, SoleInv, ScanInv, NEW s \in Streams, Load(s), ~aborted[s]
    PROVE  ScanInv'
<1>1. /\ src[s] = "load" /\ \A t \in Streams \ {s} : failedCursor'[t] = failedCursor[t]
      /\ failedCursor'[s] \in {savedFailed, NoCursor}
      /\ UNCHANGED <<world, stores, shared, calls, consumer, buffer, failedOrigin, failedAcked>>
  BY DEF Load, SourceAwaits, pumpVars, PumpInv, TypeOK, SourceTypeOK
<1>2. ScanRest'
  <2>1. FailedTxNeverLost' /\ failedOrigin' <= head' /\ (started' = epoch' => processedFailedTx' = {})
    BY <1>1 DEF ScanInv, FailedTxNeverLost, world, stores, shared, calls
  <2>2. con[s] # "none"
    BY <1>1 DEF PumpInv, StreamOK
  <2>3. \A t \in Streams : con'[t] = "none" => failedCursor'[t] = NoCursor
    BY <1>1, <2>2 DEF ScanInv, consumer
  <2> QED BY <2>1, <2>3 DEF ScanRest
<1>3. ASSUME Active(s)' PROVE ScanLive(s)'
  <2>1. Active(s) /\ con' = con
    BY <1>1, <1>3 DEF Active, consumer
  <2>2. Opening(s) /\ con[s] = "parked" /\ buffer[s] = <<>>
    BY <1>1, <2>1 DEF DeliveryInv, Opening, NeverOpened, Delivering, PumpInv, PumpOK
  <2>3. ScanLive(s)
    BY <2>1, ScanParts
  <2>4. \A k, l : Shown(s, k, l) => Shown(s, k, l)'
    BY <1>1 DEF Shown, consumer
  <2>5. \A l \in FailedLedgers : (failedOrigin < l /\ l <= failedCursor'[s]) => l \in failedAcked
    <3>1. \A l \in FailedLedgers : l \in Nat
      BY LedgersAssumption
    <3>2. CASE failedCursor'[s] = savedFailed
      BY <3>2 DEF ScanInv, FailedTxNeverLost
    <3>3. CASE failedCursor'[s] = NoCursor
      BY <3>1, <3>3 DEF NoCursor
    <3> QED BY <1>1, <3>2, <3>3
  <2>6. Scanned(s, Len(buffer[s]), failedCursor[s])'
    BY <1>1, <2>5 DEF Scanned, Shown
  <2>7. \A l \in processedFailedTx' : Shown(s, Len(buffer[s]), l)'
    BY <1>1, <2>3, <2>4 DEF ScanLive, shared
  <2>8. Len(buffer'[s]) = 0
    BY <1>1, <2>2
  <2> QED BY <2>1, <2>2, <2>6, <2>7, <2>8 DEF ScanLive
<1> QED BY <1>1, <1>2, <1>3, SoleScan DEF consumer

\* Without a scan a page carries neither failed transactions nor their cursor.
LEMMA PollReplyScans ==
    ASSUME PumpInv, SoleInv, ScanInv, NEW s \in Streams, PollReply(s)
    PROVE  ScanInv'
<1>1. /\ src[s] = "poll"
      /\ UNCHANGED <<world, stores, calls, processedFailedTx, failedCursor, consumer,
                     failedOrigin, failedAcked>>
  BY DEF PollReply, history
<1>2. cursor[s] \in Nat
  BY <1>1, FetchingSource
<1>3. PICK to \in cursor[s] .. head :
        LET p == [from |-> cursor[s], to |-> to, failed |-> {}, failedCursor |-> NoCursor] IN
        SourceAwaits(s, "failedTx") \/ YieldToPump(s, p)
  BY DEF PollReply
<1> DEFINE p == [from |-> cursor[s], to |-> to, failed |-> {}, failedCursor |-> NoCursor]
<1>4. p \in Pages /\ p.failed = {} /\ p.failedCursor = NoCursor
  BY <1>2 DEF Pages, Cursors, NoCursor
<1>5. SourceAwaits(s, "failedTx") \/ YieldToPump(s, p)
  BY <1>3
<1> HIDE DEF p
<1>6. CASE buffer' = buffer
  BY <1>1, <1>6, UnscannedKeeps DEF world, stores, calls, consumer, PumpInv, TypeOK, ListenerTypeOK, Active
<1>7. CASE buffer' # buffer
  <2>1. /\ ~stopped[s] /\ buffer' = [buffer EXCEPT ![s] = Append(buffer[s], p)]
    BY <1>5, <1>7 DEF SourceAwaits, YieldToPump, pumpVars
  <2>2. Active(s)
    BY <1>1, <2>1 DEF PumpInv, StreamOK, Active
  <2>3. ScanRest'
    BY <1>1 DEF ScanInv, ScanRest, FailedTxNeverLost, world, stores, calls, consumer
  <2>4. ASSUME NEW l \in FailedLedgers, NEW n \in {failedCursor'[s], p.failedCursor},
               failedOrigin' < l, l <= n
        PROVE  Shown(s, Len(buffer[s]), l)
    <3>1. l \in Nat
      BY LedgersAssumption
    <3>2. n = failedCursor[s]
      BY <1>1, <1>4, <2>4, <3>1 DEF NoCursor
    <3> QED BY <1>1, <2>2, <2>4, <3>2, ScanParts DEF ScanLive, Scanned
  <2>5. \A l \in FailedLedgers : \A n \in {failedCursor'[s], p.failedCursor} :
           (failedOrigin' < l /\ l <= n) => Shown(s, Len(buffer[s]), l) \/ l \in p.failed
    BY <2>4
  <2>6. failedOrigin' \in Nat /\ failedOrigin <= failedOrigin' /\ con' = con /\ page' = page
    BY <1>1 DEF consumer, PumpInv, TypeOK, ConsumerTypeOK
  <2>7. ScanLive(s)'
    BY <1>1, <1>4, <2>1, <2>2, <2>5, <2>6, PageScanned
  <2> QED BY <1>1, <2>3, <2>7, SoleScan DEF consumer
<1> QED BY <1>6, <1>7

\* What the scan found is in the page it goes out with, or was surfaced before.
LEMMA FailedTxScans ==
    ASSUME PumpInv, SoleInv, ScanInv, NEW s \in Streams,
           FailedTxStart(s) \/ FailedTxReply(s) \/ FailedTxFails(s)
    PROVE  ScanInv'
<1>1. src[s] = "failedTx" /\ UNCHANGED <<world, stores, calls, consumer, failedAcked>>
  BY DEF FailedTxStart, FailedTxReply, FailedTxFails, history
<1>2. /\ cursor[s] \in Nat /\ pageFrom[s] \in Nat /\ head \in Nat
      /\ failedOrigin \in Nat /\ failedOrigin <= head
  BY <1>1, FetchingSource DEF PumpInv, TypeOK, ListenerTypeOK, SourceTypeOK, ConsumerTypeOK, ScanInv
<1>3. con[s] # "none" /\ (~stopped[s] <=> Active(s))
  BY <1>1 DEF PumpInv, StreamOK, Active
<1>4. started # epoch
  BY <1>1, SoleStream
<1>5. PICK failed \in SUBSET FailedLedgers, scanned \in Cursors :
        /\ CompletePage(s, failed, scanned)
        /\ \A t \in Streams \ {s} : failedCursor'[t] = failedCursor[t]
        /\ failedOrigin' \in Nat /\ failedOrigin <= failedOrigin' /\ failedOrigin' <= head
        /\ processedFailedTx' \subseteq processedFailedTx \cup failed
        /\ Active(s) => \A l \in FailedLedgers : \A n \in {failedCursor'[s], scanned} :
              (failedOrigin' < l /\ l <= n) => Shown(s, Len(buffer[s]), l) \/ l \in failed
  <2>1. CASE FailedTxStart(s)
    <3>1. /\ CompletePage(s, {}, head) /\ failedCursor' = [failedCursor EXCEPT ![s] = head]
          /\ failedOrigin' = (IF stopped[s] THEN failedOrigin ELSE head)
          /\ processedFailedTx' = processedFailedTx
      BY <2>1 DEF FailedTxStart
    <3>2. failedCursor'[s] = head /\ \A t \in Streams \ {s} : failedCursor'[t] = failedCursor[t]
      BY <3>1 DEF PumpInv, TypeOK, SourceTypeOK
    <3>3. ASSUME Active(s), NEW l \in FailedLedgers, failedOrigin' < l, l <= head PROVE FALSE
      <4>1. failedOrigin' = head /\ l \in Nat
        BY <1>3, <3>1, <3>3, LedgersAssumption
      <4> QED BY <1>2, <3>3, <4>1
    <3>4. head \in Cursors /\ failedOrigin' \in Nat /\ failedOrigin <= failedOrigin' /\ failedOrigin' <= head
      BY <1>2, <3>1 DEF Cursors
    <3>5. \A l \in FailedLedgers : \A n \in {failedCursor'[s], head} :
             Active(s) /\ failedOrigin' < l /\ l <= n => Shown(s, Len(buffer[s]), l) \/ l \in {}
      BY <3>2, <3>3
    <3>6. {} \in SUBSET FailedLedgers /\ processedFailedTx' \subseteq processedFailedTx \cup {}
      BY <3>1
    <3> QED BY <3>1, <3>2, <3>4, <3>5, <3>6
  <2>2. CASE FailedTxReply(s)
    <3>1. failedCursor[s] \in Nat
      BY <2>2 DEF FailedTxReply, PumpInv, TypeOK, SourceTypeOK, Cursors
    <3>2. PICK to \in failedCursor[s] .. head :
             LET found == { l \in FailedLedgers : failedCursor[s] < l /\ l <= to } IN
             /\ failedCursor' = [failedCursor EXCEPT ![s] = to]
             /\ processedFailedTx' = processedFailedTx \cup found
             /\ CompletePage(s, found \ processedFailedTx, to)
      BY <2>2 DEF FailedTxReply
    <3> DEFINE found == { l \in FailedLedgers : failedCursor[s] < l /\ l <= to }
    <3>3. /\ to \in Nat /\ to \in Cursors /\ failedCursor'[s] = to /\ failedOrigin' = failedOrigin
          /\ \A t \in Streams \ {s} : failedCursor'[t] = failedCursor[t]
      BY <2>2, <3>1, <3>2 DEF Cursors, FailedTxReply, history, PumpInv, TypeOK, SourceTypeOK
    <3>4. ASSUME Active(s), NEW l \in FailedLedgers, failedOrigin < l, l <= to
          PROVE  Shown(s, Len(buffer[s]), l) \/ l \in found \ processedFailedTx
      <4>1. ScanLive(s) /\ l \in Nat
        BY <3>4, ScanParts, LedgersAssumption
      <4>2. CASE l \in found
        BY <4>1, <4>2 DEF ScanLive
      <4>3. CASE l \notin found
        <5>1. l <= failedCursor[s]
          BY <3>1, <3>3, <3>4, <4>1, <4>3
        <5> QED BY <3>4, <4>1, <5>1 DEF ScanLive, Scanned
      <4> QED BY <4>2, <4>3
    <3>5. found \subseteq FailedLedgers
      OBVIOUS
    <3>6. /\ processedFailedTx' \subseteq processedFailedTx \cup (found \ processedFailedTx)
          /\ CompletePage(s, found \ processedFailedTx, to)
      BY <3>2
    <3> HIDE DEF found
    <3>7. found \ processedFailedTx \in SUBSET FailedLedgers
      BY <3>5
    <3>8. \A l \in FailedLedgers : \A n \in {failedCursor'[s], to} :
             Active(s) /\ failedOrigin' < l /\ l <= n =>
                Shown(s, Len(buffer[s]), l) \/ l \in found \ processedFailedTx
      BY <3>3, <3>4
    <3>9. failedOrigin' \in Nat /\ failedOrigin <= failedOrigin' /\ failedOrigin' <= head
      BY <1>2, <3>3
    <3> QED BY <3>3, <3>6, <3>7, <3>8, <3>9
  <2>3. CASE FailedTxFails(s)
    <3>1. /\ CompletePage(s, {}, NoCursor)
          /\ UNCHANGED <<failedCursor, failedOrigin, processedFailedTx>>
      BY <2>3 DEF FailedTxFails, history
    <3>2. ASSUME Active(s), NEW l \in FailedLedgers, NEW n \in {failedCursor[s], NoCursor},
                 failedOrigin < l, l <= n
          PROVE  Shown(s, Len(buffer[s]), l)
      <4>1. ScanLive(s) /\ l \in Nat
        BY <3>2, ScanParts, LedgersAssumption
      <4>2. n = failedCursor[s]
        BY <3>2, <4>1 DEF NoCursor
      <4> QED BY <3>2, <4>1, <4>2 DEF ScanLive, Scanned
    <3>3. NoCursor \in Cursors /\ \A t \in Streams \ {s} : failedCursor'[t] = failedCursor[t]
      BY <3>1 DEF Cursors, PumpInv, TypeOK, SourceTypeOK
    <3> QED BY <1>2, <3>1, <3>2, <3>3
  <2> QED BY <2>1, <2>2, <2>3
<1> DEFINE p == [from |-> pageFrom[s], to |-> cursor[s], failed |-> failed,
                 failedCursor |-> scanned]
<1>6. p \in Pages /\ p.failed = failed /\ p.failedCursor = scanned /\ YieldToPump(s, p)
  BY <1>2, <1>5 DEF Pages, CompletePage
<1> HIDE DEF p
<1>7. ScanRest'
  <2>1. FailedTxNeverLost'
    <3>1. \A l \in FailedLedgers : failedOrigin' < l => failedOrigin < l
      BY <1>2, <1>5, LedgersAssumption
    <3> QED BY <1>1, <3>1 DEF ScanInv, FailedTxNeverLost, stores
  <2>2. failedOrigin' <= head' /\ started' # epoch'
    BY <1>1, <1>4, <1>5 DEF world, calls
  <2>3. \A t \in Streams : con'[t] = "none" => failedCursor'[t] = NoCursor
    BY <1>1, <1>3, <1>5 DEF ScanInv, consumer
  <2> QED BY <2>1, <2>2, <2>3 DEF ScanRest
<1>8. ASSUME Active(s)' PROVE ScanLive(s)'
  <2>1. Active(s) /\ con' = con /\ page' = page /\ failedAcked' = failedAcked
    BY <1>1, <1>8 DEF Active, consumer
  <2>2. buffer' = [buffer EXCEPT ![s] = Append(buffer[s], p)]
    BY <1>3, <1>6, <2>1 DEF YieldToPump
  <2> QED BY <1>5, <1>6, <2>1, <2>2, PageScanned
<1> QED BY <1>1, <1>7, <1>8, SoleScan DEF consumer

\* The page in hand still holds what its place in the buffer did.
LEMMA TakePageScans ==
    ASSUME PumpInv, SoleInv, ScanInv, NEW s \in Streams, TakePage(s)
    PROVE  ScanInv'
<1>0. PICK b \in Seq(Pages) : b = buffer[s]
  BY DEF PumpInv, TypeOK, PumpTypeOK
<1> DEFINE p == Head(b)
<1>1. /\ con[s] \in {"top", "parked"} /\ b # <<>>
      /\ page' = [page EXCEPT ![s] = p]
      /\ con' = [con EXCEPT ![s] = IF IsEmptyPage(p) THEN "saveEvents" ELSE "handling"]
      /\ buffer' = [buffer EXCEPT ![s] = Tail(b)]
      /\ UNCHANGED <<world, stores, shared, calls, failedCursor, failedOrigin, failedAcked>>
  BY <1>0 DEF TakePage, AtLoopTop, Resumable, source
<1>2. /\ p = b[1] /\ p \in Pages /\ Len(b) \in Nat \ {0} /\ Len(Tail(b)) = Len(b) - 1
      /\ \A i \in 1 .. Len(b) - 1 : Tail(b)[i] = b[i + 1]
  BY <1>1
<1>3. /\ page'[s] = p /\ con'[s] = (IF IsEmptyPage(p) THEN "saveEvents" ELSE "handling")
      /\ buffer'[s] = Tail(b) /\ \A t \in Streams \ {s} : con'[t] = con[t]
      /\ Active(s)
  BY <1>1 DEF PumpInv, TypeOK, PumpTypeOK, ConsumerTypeOK, Active
<1> HIDE DEF p
<1>5. ASSUME NEW k \in 1 .. Len(b), NEW l, Shown(s, k, l) PROVE Shown(s, k - 1, l)'
  <2>1. l \in failedAcked \/ \E i \in 1 .. k : l \in b[i].failed
    BY <1>0, <1>1, <1>5 DEF Shown
  <2>2. CASE l \in failedAcked
    BY <1>1, <2>2 DEF Shown
  <2>3. CASE l \in b[1].failed
    BY <1>2, <1>3, <2>3 DEF Shown, IsEmptyPage
  <2>4. ASSUME NEW i \in 1 .. k, i # 1, l \in b[i].failed PROVE Shown(s, k - 1, l)'
    <3>1. i - 1 \in 1 .. k - 1 /\ i - 1 \in 1 .. Len(b) - 1 /\ (i - 1) + 1 = i
      BY <1>2, <2>4
    <3>2. l \in buffer'[s][i - 1].failed
      BY <1>2, <1>3, <2>4, <3>1
    <3> QED BY <3>1, <3>2 DEF Shown
  <2> QED BY <2>1, <2>2, <2>3, <2>4
<1>6. ScanLive(s)
  BY <1>3, ScanParts
<1>7. Scanned(s, Len(buffer[s]), failedCursor[s])'
  <2>1. Len(b) \in 1 .. Len(b) /\ Scanned(s, Len(b), failedCursor[s])
    BY <1>0, <1>2, <1>6 DEF ScanLive
  <2> QED BY <1>1, <1>2, <1>3, <1>5, <2>1 DEF Scanned
<1>8. ASSUME NEW i \in 1 .. Len(buffer'[s]) PROVE Scanned(s, i, buffer[s][i].failedCursor)'
  <2>1. i \in 1 .. Len(b) - 1 /\ i + 1 \in 1 .. Len(b) /\ (i + 1) - 1 = i
    BY <1>2, <1>3
  <2>2. buffer'[s][i] = b[i + 1] /\ Scanned(s, i + 1, b[i + 1].failedCursor)
    BY <1>0, <1>2, <1>3, <1>6, <2>1 DEF ScanLive
  <2> QED BY <1>1, <1>5, <2>1, <2>2 DEF Scanned
<1>9. Scanned(s, 0, page[s].failedCursor)'
  <2>1. 1 \in 1 .. Len(b) /\ 1 - 1 = 0
    BY <1>2
  <2>2. Scanned(s, 1, b[1].failedCursor) /\ page'[s] = b[1]
    BY <1>0, <1>2, <1>3, <1>6, <2>1 DEF ScanLive
  <2> QED BY <1>1, <1>5, <2>1, <2>2 DEF Scanned
<1>10. ASSUME NEW l \in processedFailedTx' PROVE Shown(s, Len(buffer[s]), l)'
  <2>1. Len(b) \in 1 .. Len(b) /\ Shown(s, Len(b), l)
    BY <1>0, <1>1, <1>2, <1>6 DEF ScanLive, shared
  <2> QED BY <1>2, <1>3, <1>5, <2>1
<1>11. ScanLive(s)'
  BY <1>7, <1>8, <1>9, <1>10 DEF ScanLive
<1>12. ScanRest'
  <2>1. \A t \in Streams : con'[t] = "none" => con[t] = "none"
    BY <1>3
  <2> QED BY <1>1, <2>1 DEF ScanInv, ScanRest, FailedTxNeverLost, world, stores, shared, calls
<1> QED BY <1>3, <1>11, <1>12, SoleScan

\* The consumer comes back, and the scan cursor of the page it had is saved.
LEMMA ComeBackScans ==
    ASSUME PumpInv, SoleInv, ScanInv, NEW s \in Streams, ComeBack(s) \/ SaveFailed(s)
    PROVE  ScanInv'
<1>1. /\ Active(s) /\ con[s] \in {"handling", "busy", "saveFailed"}
      /\ UNCHANGED <<world, shared, calls, failedCursor, buffer, page, failedOrigin>>
      /\ \A t \in Streams \ {s} : con'[t] = con[t]
      /\ \/ /\ con[s] # "saveFailed" /\ con'[s] = "saveEvents" /\ savedFailed' = savedFailed
            /\ failedAcked' = failedAcked \cup page[s].failed
         \/ /\ con[s] = "saveFailed" /\ con'[s] = "top" /\ failedAcked' = failedAcked
            /\ savedFailed' = page[s].failedCursor
  BY DEF ComeBack, SaveFailed, InLoopBody, Active, source, pumpVars, stores, history, PumpInv, TypeOK, ConsumerTypeOK
<1>2. ScanLive(s)
  BY <1>1, ScanParts
<1>3. \A k, l : Shown(s, k, l) => Shown(s, k, l)'
  BY <1>1 DEF Shown
<1>4. \A k, n : Scanned(s, k, n) => \A l \in FailedLedgers : (failedOrigin' < l /\ l <= n) => Shown(s, k, l)'
  BY <1>1, <1>3 DEF Scanned
<1>5. ScanLive(s)'
  <2>1. /\ Scanned(s, Len(buffer[s]), failedCursor[s])'
        /\ \A l \in processedFailedTx' : Shown(s, Len(buffer[s]), l)'
    BY <1>1, <1>2, <1>3, <1>4 DEF ScanLive, Scanned, shared
  <2>2. ASSUME NEW i \in 1 .. Len(buffer'[s]) PROVE Scanned(s, i, buffer[s][i].failedCursor)'
    BY <1>1, <1>2, <1>4 DEF ScanLive, Scanned
  <2>3. Scanned(s, 0, page[s].failedCursor)'
    BY <1>1, <1>2, <1>4 DEF ScanLive, Scanned
  <2> QED BY <2>1, <2>2, <2>3 DEF ScanLive
<1>6. FailedTxNeverLost'
  <2>1. CASE savedFailed' = savedFailed
    BY <1>1, <2>1 DEF ScanInv, FailedTxNeverLost
  <2>2. CASE con[s] = "saveFailed" /\ failedAcked' = failedAcked /\ savedFailed' = page[s].failedCursor
    <3>1. Scanned(s, 0, page[s].failedCursor)
      BY <1>2, <2>2 DEF ScanLive
    <3>2. ASSUME NEW l, Shown(s, 0, l) PROVE l \in failedAcked
      BY <2>2, <3>2 DEF Shown
    <3> QED BY <1>1, <2>2, <3>1, <3>2 DEF FailedTxNeverLost, Scanned
  <2> QED BY <1>1, <2>1, <2>2
<1>7. ScanRest'
  <2>1. \A t \in Streams : con'[t] = "none" => con[t] = "none"
    BY <1>1
  <2> QED BY <1>1, <1>6, <2>1 DEF ScanInv, ScanRest, world, shared, calls
<1> QED BY <1>1, <1>5, <1>7, SoleScan

\* Steps that surface, deliver and save no failed transaction, and a stream's end.
LEMMA RestScans ==
    ASSUME PumpInv, ScanInv, NEW s \in Streams,
           \/ LoadFails(s) \/ (Load(s) /\ aborted[s]) \/ HeadReply(s) \/ HeadFails(s)
           \/ PollFails(s) \/ DelayEnds(s) \/ PumpStep(s)
           \/ Park(s) \/ EndStream(s) \/ SaveEvents(s) \/ SaveRejects(s)
           \/ Break(s) \/ GoBusy(s) \/ Abort(s)
    PROVE  ScanInv'
<1> USE DEF Active
<1>1. head \in Nat /\ head >= head
  BY DEF PumpInv, TypeOK, ListenerTypeOK
<1>2. CASE \/ LoadFails(s) \/ (Load(s) /\ aborted[s]) \/ HeadReply(s) \/ HeadFails(s)
           \/ PollFails(s) \/ DelayEnds(s)
  <2>1. SourceReturns(s) \/ SourceThrows(s) \/ \E where \in SourceStates : SourceAwaits(s, where)
    BY <1>2 DEF LoadFails, Load, HeadReply, HeadFails, PollFails, DelayEnds, RetryOrFail, SourceStates
  <2>2. buffer' = buffer
    BY <2>1 DEF SourceReturns, SourceThrows, SourceAwaits, pumpVars
  <2>3. UNCHANGED <<head, savedFailed, failedOrigin, failedAcked, processedFailedTx,
                    failedCursor, page, started, epoch, con>>
    BY <1>2 DEF LoadFails, Load, HeadReply, HeadFails, PollFails, DelayEnds, world, stores, calls,
       shared, consumer, history
  <2> QED BY <1>1, <2>2, <2>3, UnscannedKeeps
<1>3. CASE \/ GraceEnds(s) \/ TurnEnds(s) \/ Park(s) \/ SaveEvents(s) \/ GoBusy(s) \/ Abort(s)
  <2>1. UNCHANGED <<head, savedFailed, failedOrigin, failedAcked, processedFailedTx,
                    failedCursor, page, started, epoch, buffer>>
    BY <1>3 DEF GraceEnds, TurnEnds, Park, SaveEvents, GoBusy, Abort, world, stores, calls,
       shared, source, pumpVars, consumer, history
  <2>2. \/ con' = con
        \/ con[s] \in {"top", "parked"} /\ con' = [con EXCEPT ![s] = "parked"]
        \/ con[s] = "handling" /\ con' = [con EXCEPT ![s] = "busy"]
        \/ con[s] = "saveEvents" /\ con' = [con EXCEPT ![s] =
              IF page[s].failedCursor = NoCursor THEN "top" ELSE "saveFailed"]
    BY <1>3 DEF GraceEnds, TurnEnds, Park, SaveEvents, GoBusy, Abort, AtLoopTop, Resumable, consumer
  <2>3. con \in [Streams -> ConsumerStates]
    BY DEF PumpInv, TypeOK, ConsumerTypeOK
  <2>4. \A t \in Streams :
           /\ con'[t] = "none" => con[t] = "none"
           /\ con'[t] \notin {"none", "done"} => con[t] \notin {"none", "done"}
           /\ con'[t] \in {"handling", "busy"} <=> con[t] \in {"handling", "busy"}
           /\ con'[t] \in {"saveEvents", "saveFailed"} => con[t] \in {"saveEvents", "saveFailed"}
    BY <2>2, <2>3
  <2> QED BY <1>1, <2>1, <2>4, UnscannedKeeps
<1>4. CASE EndStream(s) \/ SaveRejects(s) \/ Break(s)
  <2>1. /\ Teardown(s)
        /\ UNCHANGED <<head, savedFailed, failedOrigin, failedAcked, processedFailedTx,
                       failedCursor, page, started, epoch>>
    BY <1>4 DEF EndStream, SaveRejects, Break, world, stores, calls, history
  <2>2. /\ con' = [con EXCEPT ![s] = "done"] /\ buffer' = [buffer EXCEPT ![s] = <<>>]
        /\ con \in [Streams -> ConsumerStates] /\ buffer \in [Streams -> Seq(Pages)]
    BY <2>1 DEF Teardown, PumpInv, TypeOK, PumpTypeOK, ConsumerTypeOK
  <2>3. /\ con'[s] = "done"
        /\ \A t \in Streams \ {s} : con'[t] = con[t] /\ buffer'[t] = buffer[t]
    BY <2>2
  <2>4. \A t \in Streams :
           /\ con'[t] = "none" => con[t] = "none"
           /\ con'[t] \notin {"none", "done"} => con'[t] = con[t] /\ buffer'[t] = buffer[t]
    BY <2>3
  <2> QED BY <1>1, <2>1, <2>4, UnscannedKeeps
<1> QED BY <1>2, <1>3, <1>4 DEF PumpStep

\* A first stream has surfaced nothing; a restart forgets what was surfaced.
LEMMA WorldScans ==
    ASSUME PumpInv, ScanInv, SoleInv, ~Rewatch,
           (\E s \in Streams : Watch(s)) \/ Restart \/ LedgerCloses \/ UNCHANGED vars
    PROVE  ScanInv'
<1>1. started \in Nat /\ epoch \in Nat /\ epoch <= started /\ head \in Nat
  BY DEF PumpInv, TypeOK, ListenerTypeOK
<1>2. ASSUME NEW s \in Streams, Watch(s) PROVE ScanInv'
  <2>1. /\ s = started + 1 /\ started = epoch /\ started' = s /\ epoch' = epoch /\ lease = NoLease
        /\ UNCHANGED <<head, savedFailed, processedFailedTx, failedCursor, buffer, page,
                       failedOrigin, failedAcked>>
        /\ con' = [con EXCEPT ![s] = "done"] \/ con' = [con EXCEPT ![s] = "parked"]
    BY <1>2 DEF Watch, world, stores, history
  <2>2. con[s] = "none" /\ buffer[s] = <<>>
    <3>1. s > started
      BY <1>1, <2>1
    <3>2. con[s] = "none"
      BY <3>1 DEF PumpInv, StreamOK
    <3> QED BY <3>2 DEF PumpInv, PumpOK
  <2>3. /\ con'[s] \in {"done", "parked"} /\ \A t \in Streams \ {s} : con'[t] = con[t]
    BY <2>1 DEF PumpInv, TypeOK, ConsumerTypeOK
  <2>4. processedFailedTx' = {} /\ failedCursor'[s] = NoCursor /\ Len(buffer'[s]) = 0
    BY <2>1, <2>2 DEF ScanInv
  <2>5. Scanned(s, Len(buffer[s]), failedCursor[s])'
    BY <2>4, LedgersAssumption DEF Scanned, NoCursor, PumpInv, TypeOK, ConsumerTypeOK
  <2>6. ScanLive(s)'
    BY <2>3, <2>4, <2>5 DEF ScanLive
  <2>7. ScanRest'
    BY <2>1, <2>3, <2>4 DEF ScanInv, ScanRest, FailedTxNeverLost
  <2>8. ASSUME NEW t \in Streams \ {s} PROVE ~Active(t)'
    BY <2>1, <2>3 DEF Active, PumpInv, StreamOK, NoLease, Streams
  <2> QED BY <2>6, <2>7, <2>8 DEF ScanInv, ScanRest, ScanLive
<1>3. CASE Restart
  <2>1. /\ started' = started /\ processedFailedTx' = {}
        /\ UNCHANGED <<head, savedFailed, failedOrigin, failedAcked>>
    BY <1>3 DEF Restart, world, stores
  <2>2. ASSUME NEW t \in Streams
        PROVE  ~Active(t)' /\ (con'[t] = "none" => failedCursor'[t] = NoCursor)
    <3>1. CASE t <= started
      BY <1>3, <3>1 DEF Restart, Active
    <3>2. CASE ~(t <= started)
      <4>1. con'[t] = con[t] /\ failedCursor'[t] = failedCursor[t]
        BY <1>3, <3>2 DEF Restart
      <4>2. con[t] = "none"
        BY <1>1, <3>2 DEF PumpInv, StreamOK, Streams
      <4> QED BY <4>1, <4>2 DEF Active, ScanInv
    <3> QED BY <3>1, <3>2
  <2>3. ScanRest'
    BY <2>1, <2>2 DEF ScanInv, ScanRest, FailedTxNeverLost
  <2> QED BY <2>2, <2>3 DEF ScanInv, ScanRest
<1>4. CASE LedgerCloses \/ UNCHANGED vars
  <2>1. /\ head' = head \/ head' = head + 1
        /\ UNCHANGED <<stores, shared, calls, source, pumpVars, consumer, history>>
    BY <1>4 DEF LedgerCloses, vars, world
  <2>2. head' >= head /\ head' \in Nat
    BY <1>1, <2>1
  <2> QED BY <2>1, <2>2, UnscannedKeeps DEF stores, shared, calls, source, pumpVars, consumer, history, Active
<1> QED BY <1>2, <1>3, <1>4

\* The first process has scanned nothing.
LEMMA ScanInit == Init => ScanInv
<1> SUFFICES ASSUME Init PROVE ScanInv
  OBVIOUS
<1>1. FailedTxNeverLost
  BY LedgersAssumption DEF Init, FailedTxNeverLost, NoCursor
<1>2. failedOrigin <= head
  BY BoundsAssumption DEF Init
<1>3. \A s \in Streams : ~Active(s) /\ failedCursor[s] = NoCursor
  BY DEF Init, Active
<1>4. processedFailedTx = {}
  BY DEF Init
<1> QED BY <1>1, <1>2, <1>3, <1>4 DEF ScanInv

\* What the stored failed-transaction cursor of a listener watched once has passed since
\* its scan began reached the consumer (telemetry.ts:2570-2607): across look-ahead, a scan
\* that fails, deduplication by hash, an abort, a crash and a restart.
THEOREM FailedTransactionsReachTheConsumer ==
    ASSUME ~Rewatch
    PROVE  Spec => []FailedTxNeverLost
<1>1. Init => ScanInv
  BY ScanInit
<1>2. PumpInv /\ DeliveryInv /\ SoleInv /\ ScanInv /\ [Next]_vars => ScanInv'
  <2> SUFFICES ASSUME PumpInv, DeliveryInv, SoleInv, ScanInv, [Next]_vars PROVE ScanInv'
    OBVIOUS
  <2>1. ASSUME NEW s \in Streams, SourceStep(s) PROVE ScanInv'
    BY <2>1, LoadScans, PollReplyScans, FailedTxScans, RestScans DEF SourceStep
  <2>2. ASSUME NEW s \in Streams, PumpStep(s) \/ DeliveryStep(s) PROVE ScanInv'
    BY <2>2, TakePageScans, ComeBackScans, RestScans DEF DeliveryStep
  <2>3. ASSUME NEW s \in Streams, HostStep(s) PROVE ScanInv'
    BY <2>3, ComeBackScans, RestScans, WorldScans DEF HostStep
  <2> QED BY <2>1, <2>2, <2>3, WorldScans DEF Next
<1>3. ScanInv => FailedTxNeverLost
  BY DEF ScanInv
<1>4. Spec => [](PumpInv /\ DeliveryInv /\ SoleInv)
  BY WatchConsistent, ChainUnbroken, SoleHolds, PTL
<1> QED BY <1>1, <1>2, <1>3, <1>4, PTL DEF Spec
=============================================================================
