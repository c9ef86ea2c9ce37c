--------------------------- MODULE DecisionWindow ---------------------------
(***************************************************************************)
(* What one GuardTelemetryListener keeps of the events it sees              *)
(* (telemetry.ts): the ring buffer behind recent() and the sliding-window   *)
(* counters behind stats(), which count the last windowEvents decisions, or *)
(* those of the last windowMs of a clock that may run backwards.            *)
(*                                                                         *)
(* An event is its stream and its decision: "allowed", a reason, "blocked"  *)
(* for a refusal without one, or "none" when it carries no decision.  One   *)
(* call reads one value of the clock, however often it asks for it.  What   *)
(* stats() answers is counts and streams: coverage is read off streams.     *)
(***************************************************************************)
EXTENDS Integers, Sequences, FiniteSets

CONSTANTS
  Reasons,     \* the reasons of refusals
  Inputs,      \* the events the calls are given
  Windows,     \* [events |-> n] keeps n decisions, [ms |-> n] those of n ms
  RingMax,     \* buffer.max
  MaxTime,     \* bound: readings of the clock are 0 .. MaxTime
  MaxCalls     \* bound: calls on the listener

Streams == {"committed", "diagnostic", "failed_tx"}
Verdicts == {"allowed", "blocked"}

ASSUME DecisionWindowAssumption ==
  /\ RingMax \in Nat \ {0} /\ MaxTime \in Nat /\ MaxCalls \in Nat
  /\ Windows \subseteq [events : Nat \ {0}] \cup [ms : Nat \ {0}]
  /\ Reasons \cap (Verdicts \cup {"none"}) = {}
  /\ Inputs \subseteq [stream : Streams, decision : Reasons \cup Verdicts \cup {"none"}]

VARIABLES
  window,    \* windowEvents or windowMs
  ring,      \* GuardEventRingBuffer: slots, start, count
  entries,   \* the retained decisions, with their mark on the timeline
  counts,    \* allowed, blocked, byReason
  streams,   \* streamCounts: decisions fed since the last reset
  high,      \* lastObservedAt, Never before the first reading
  seen,      \* history: every event put in the ring
  fed,       \* history: every decision since the last reset, and when
  readings,  \* history: what the clock said since the last reset
  calls      \* history: calls so far

counters == <<entries, counts, streams, high>>
history == <<fed, readings>>
vars == <<window, ring, counters, seen, history, calls>>

Never == -1
Keys == Verdicts \cup Reasons
EmptyRing == [slots |-> [i \in 0..(RingMax - 1) |-> [stream |-> "committed", decision |-> "none"]],
              start |-> 0, count |-> 0]
NoCounts == [k \in Keys |-> 0]

Init ==
  /\ window \in Windows
  /\ ring = EmptyRing
  /\ entries = <<>> /\ counts = NoCounts /\ streams = [s \in Streams |-> 0]
  /\ high = Never
  /\ seen = <<>> /\ fed = <<>> /\ readings = <<>> /\ calls = 0

-----------------------------------------------------------------------------
(* The ring buffer.                                                        *)

\* push(): the slot after the newest; on a full ring that is the oldest one.
Pushed(r, event) ==
  [slots |-> [r.slots EXCEPT ![(r.start + r.count) % RingMax] = event],
   count |-> IF r.count < RingMax THEN r.count + 1 ELSE r.count,
   start |-> IF r.count < RingMax THEN r.start ELSE (r.start + 1) % RingMax]

\* recent(): the retained events, oldest first.
Recent(r) == [i \in 1..r.count |-> r.slots[(r.start + i - 1) % RingMax]]

Keep(event) == ring' = Pushed(ring, event) /\ seen' = Append(seen, event)

-----------------------------------------------------------------------------
(* The counters.                                                           *)

\* Mutant: a rollback of the clock is believed.
AsRead(reading) == reading

\* monotonicNow(): the high-water mark of the readings.
MonotonicNow(reading) == IF high = Never \/ reading > high THEN reading ELSE high

\* What a decision counts under: a refusal with a reason counts twice.
CountsUnder(decision, k) == k = decision \/ (k = "blocked" /\ decision \in Reasons)

Counted(cs, decision) ==
  [k \in Keys |-> IF CountsUnder(decision, k) THEN cs[k] + 1 ELSE cs[k]]

\* remove(), of each entry that goes.
Removed(cs, gone) ==
  [k \in Keys |->
     cs[k] - Cardinality({i \in DOMAIN gone : CountsUnder(gone[i].decision, k)})]

\* evict(): how many of the oldest entries have left the window.
ByCount == "events" \in DOMAIN window
Stale(es, now) ==
  IF ByCount THEN IF Len(es) > window.events THEN Len(es) - window.events ELSE 0
  ELSE CHOOSE n \in 0..Len(es) :
         /\ \A i \in 1..n : es[i].at < now - window.ms
         /\ n < Len(es) => es[n + 1].at >= now - window.ms

Evict(es, cs, now) ==
  LET n == Stale(es, now) IN
    /\ entries' = SubSeq(es, n + 1, Len(es))
    /\ counts' = Removed(cs, SubSeq(es, 1, n))

\* record(): events without a decision are ignored, and read no clock.
Record(event, reading) ==
  IF event.decision = "none"
  THEN UNCHANGED <<counters, history>>
  ELSE LET now == MonotonicNow(reading) IN
         /\ high' = now
         /\ streams' = [streams EXCEPT ![event.stream] = @ + 1]
         /\ Evict(Append(entries, [decision |-> event.decision, at |-> now]),
                  Counted(counts, event.decision), now)
         /\ readings' = Append(readings, reading)
         /\ fed' = Append(fed, [decision |-> event.decision, reading |-> Len(readings) + 1])

-----------------------------------------------------------------------------
(* The listener.                                                           *)

Called == calls < MaxCalls /\ calls' = calls + 1 /\ UNCHANGED window

\* poll(): a page is kept, not counted.
Poll(event) ==
  /\ Called /\ event.stream # "diagnostic"
  /\ Keep(event)
  /\ UNCHANGED <<counters, history>>

\* watch() and watchAll(): a polled event is counted when its page is handed
\* on, a diagnostic one when the merge yields it.
Watch(event, reading) ==
  /\ Called
  /\ Keep(event) /\ Record(event, reading)

\* observe(): counted, not kept.
Observe(event, reading) ==
  /\ Called
  /\ Record(event, reading)
  /\ UNCHANGED <<ring, seen>>

\* stats(): evicts first; the clock is read for a window of time, or when
\* nothing is retained.
Stats(reading) ==
  LET reads == ~ByCount \/ entries = <<>>
      now == IF reads THEN MonotonicNow(reading) ELSE high
  IN /\ Called
     /\ Evict(entries, counts, now)
     /\ high' = now
     /\ readings' = IF reads THEN Append(readings, reading) ELSE readings
     /\ UNCHANGED <<ring, streams, seen, fed>>

\* resetStats(): counts, coverage and the timeline start again.
ResetStats ==
  /\ Called
  /\ entries' = <<>> /\ counts' = NoCounts /\ streams' = [s \in Streams |-> 0]
  /\ high' = Never
  /\ fed' = <<>> /\ readings' = <<>>
  /\ UNCHANGED <<ring, seen>>

Next ==
  \/ \E event \in Inputs : Poll(event)
  \/ \E event \in Inputs, reading \in 0..MaxTime :
       Watch(event, reading) \/ Observe(event, reading)
  \/ \E reading \in 0..MaxTime : Stats(reading)
  \/ ResetStats

Spec == Init /\ [][Next]_vars

-----------------------------------------------------------------------------
(* Properties.                                                             *)

\* The last n members of a sequence.
Latest(s, n) == SubSeq(s, IF Len(s) > n THEN Len(s) - n + 1 ELSE 1, Len(s))

\* The furthest the clock had come by the i-th of these readings.
Peak(rd, i) == CHOOSE m \in 0..MaxTime :
  /\ \A j \in 1..i : rd[j] <= m
  /\ \E j \in 1..i : rd[j] = m

\* Whether the window is documented to hold the i-th of these decisions: it is
\* one of the last n, or was observed within the last n ms, the clock taken
\* never to run back.
Within(fd, rd, i) ==
  IF ByCount THEN i > Len(fd) - window.events
  ELSE Peak(rd, fd[i].reading) >= Peak(rd, Len(rd)) - window.ms

\* Whatever the clock does and in whatever order the calls come, recent() is
\* the last RingMax events seen, and stats() counts exactly the decisions the
\* window is documented to hold, by verdict and by reason: nothing is kept past
\* the window after a rollback, and nothing evicted is still counted.
WindowsAreExact ==
  LET gone == Len(fed) - Len(entries) IN
    /\ Recent(ring) = Latest(seen, RingMax)
    /\ \A i \in DOMAIN fed : Within(fed, readings, i) <=> i > gone
    /\ \A i \in DOMAIN entries :
         /\ entries[i].decision = fed[gone + i].decision
         /\ entries[i].at = Peak(readings, fed[gone + i].reading)
    /\ \A k \in Keys :
         counts[k] = Cardinality({i \in DOMAIN fed :
                       Within(fed, readings, i) /\ CountsUnder(fed[i].decision, k)})

=============================================================================
