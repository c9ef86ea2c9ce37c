-------------------------- MODULE HeartbeatProofs --------------------------
(***************************************************************************)
(* Theorems about Heartbeat, for every interval, grace, resolution of the   *)
(* clock and bound.                                                         *)
(*                                                                         *)
(* Timing is an invariant over the awaits of the loop: under the premises   *)
(* of SwitchHolds a beat ends before the next slot, so no slot is ever      *)
(* skipped and the last landed heartbeat is at most failures + 1 slots      *)
(* behind the deadline.                                                     *)
(***************************************************************************)
EXTENDS Heartbeat, TLAPS

Running == {"wait", "submit", "backoff"}

\* Only a positive interval gets past the start check.
Positive == loop \in Running => interval > 0

\* What is remembered of a beat, and of the contract, is in the past; a landed
\* beat landed after it fired.
Past ==
  /\ beatAt <= clock /\ landed <= clock /\ lastBeat <= clock
  /\ sent = "landed" => landed # Never /\ landed >= beatAt

-----------------------------------------------------------------------------
(* Arithmetic.                                                             *)

\* Seconds are truncated: division by the resolution is monotone and regular.
LEMMA Division ==
  ASSUME NEW x \in Int, NEW T \in Nat \ {0}
  PROVE  /\ x \div T \in Int
         /\ T * (x \div T) <= x
         /\ x < T * (x \div T) + T
  BY SMT

\* A quotient is bounded by any multiple that exceeds the dividend.
LEMMA QuotientBelow ==
  ASSUME NEW x \in Int, NEW T \in Nat \ {0}, NEW q \in Int, x < T * q
  PROVE  x \div T < q
  BY Division, SMT

\* Stepping over k slots of the cadence, written as one more slot accounted.
LEMMA Cadence ==
  ASSUME NEW o \in Int, NEW i \in Int, NEW n \in Int, NEW k \in Int
  PROVE  /\ o + i * n + k * i = o + i * (n + k)
         /\ (o + i * n) + i + k * i = o + i * (n + 1 + k)
  BY SMT

LEMMA ProductNat == ASSUME NEW m \in Nat, NEW n \in Nat PROVE m * n \in Nat
  BY SMT

-----------------------------------------------------------------------------
(* Types, and skipped slots.                                               *)

LEMMA SkippedSlots ==
  ASSUME TypeOK, interval > 0, NEW due \in Nat
  PROVE  /\ Skipped(due) \in Nat
         /\ due > clock => Skipped(due) = 0
  <1>1. clock \in Nat /\ interval \in Nat \ {0}
    BY HeartbeatAssumption DEF TypeOK, HeartbeatAssumption
  <1>2. CASE due > clock
    BY <1>1, <1>2 DEF Skipped
  <1>3. CASE ~(due > clock)
    <2>1. (clock - due) \div interval \in Int
      BY <1>1, Division
    <2>2. (clock - due) \div interval > -1
      <3>1. clock - due >= 0
        BY <1>1, <1>3
      <3>2. clock - due < interval * ((clock - due) \div interval) + interval
        BY <1>1, Division
      <3>3. interval * ((clock - due) \div interval) + interval
              = interval * ((clock - due) \div interval + 1)
        BY <1>1, <2>1, SMT
      <3> HIDE DEF Skipped
      <3> QED BY <1>1, <2>1, <3>1, <3>2, <3>3, SMT
    <2> QED BY <1>1, <1>3, <2>1, <2>2 DEF Skipped
  <1> QED BY <1>2, <1>3

LEMMA SkipResult ==
  ASSUME TypeOK, interval > 0, NEW due \in Nat, NEW extra \in {0, 1},
         SkipFrom(due, extra)
  PROVE  /\ deadline' \in Nat /\ missed' \in Nat
         /\ \E k \in Nat : /\ deadline' = due + k * interval
                           /\ missed' = missed + k + extra
                           /\ due > clock => k = 0
  <1>1. Skipped(due) \in Nat /\ (due > clock => Skipped(due) = 0)
    BY SkippedSlots
  <1>2. interval \in Nat
    BY HeartbeatAssumption DEF TypeOK, HeartbeatAssumption
  <1>3. Skipped(due) * interval \in Nat
    BY <1>1, <1>2, ProductNat
  <1>4. missed \in Nat
    BY DEF TypeOK
  <1> QED BY <1>1, <1>2, <1>3, <1>4 DEF SkipFrom

LEMMA BeatEndsTypes ==
  ASSUME TypeOK, Positive, loop \in Running, NEW ok \in BOOLEAN, BeatEnds(ok)
  PROVE  /\ deadline' \in Nat /\ missed' \in Nat /\ failures' \in Nat
         /\ loop' \in {"wait", "done"} /\ lastBeat' \in {lastBeat, beatAt}
         /\ UNCHANGED <<clock, interval, beatAt, attempt, stopVars, landed,
                        origin, served>>
  <1>1. deadline' \in Nat /\ missed' \in Nat
    <2>1. SkipFrom(deadline, 0) /\ interval > 0 /\ deadline \in Nat
      BY DEF BeatEnds, Positive, TypeOK
    <2> QED BY <2>1, SkipResult
  <1>2. failures' \in Nat
    BY DEF BeatEnds, TypeOK
  <1> QED BY <1>1, <1>2 DEF BeatEnds

LEMMA TypeInit == Init => TypeOK /\ Positive /\ Past /\ NoFalseBeat
  <1> SUFFICES ASSUME Init PROVE TypeOK /\ Positive /\ Past /\ NoFalseBeat
    OBVIOUS
  <1>1. clock \in Nat
    BY HeartbeatAssumption DEF Init, HeartbeatAssumption
  <1>2. TypeOK
    <2>1. interval \in Intervals /\ aborted \in BOOLEAN /\ adrift \in BOOLEAN
      BY DEF Init
    <2> QED BY <1>1, <2>1 DEF Init, TypeOK
  <1>3. Positive /\ Past /\ NoFalseBeat
    BY <1>1 DEF Init, Positive, Running, Past, NoFalseBeat, Never
  <1> QED BY <1>2, <1>3

LEMMA TypeStep ==
  ASSUME TypeOK, Positive, [Next]_vars
  PROVE  TypeOK' /\ Positive'
  <1> USE HeartbeatAssumption DEF HeartbeatAssumption, stopVars, guard, history,
          loopVars
  <1>1. ASSUME Start PROVE TypeOK' /\ Positive'
    BY <1>1 DEF Start, TypeOK, Positive, Running, ValidOptions
  <1>2. ASSUME StopLoop PROVE TypeOK' /\ Positive'
    BY <1>2 DEF StopLoop, TypeOK, Positive, Running
  <1>3. ASSUME Dedupe PROVE TypeOK' /\ Positive'
    <2>1. loop = "wait" /\ interval > 0 /\ deadline + interval \in Nat
      BY <1>3 DEF Dedupe, Awake, Positive, Running, TypeOK
    <2>2. deadline' \in Nat /\ missed' \in Nat
      BY <1>3, <2>1, SkipResult DEF Dedupe
    <2> QED BY <1>3, <2>1, <2>2 DEF Dedupe, TypeOK, Positive
  <1>4. ASSUME Beat PROVE TypeOK' /\ Positive'
    <2>1. loop = "wait" /\ interval > 0 /\ deadline + interval \in Nat
      BY <1>4 DEF Beat, Awake, Positive, Running, TypeOK
    <2>2. PICK late \in {0, 1} : /\ SkipFrom(deadline + interval, late)
                                /\ served' = served + 1 - late
      BY <1>4 DEF Beat
    <2>3. deadline' \in Nat /\ missed' \in Nat
      BY <2>1, <2>2, SkipResult
    <2>4. served' \in Nat
      BY <2>2 DEF TypeOK
    <2> QED BY <1>4, <2>1, <2>3, <2>4 DEF Beat, Send, TypeOK, Positive
  <1>5. ASSUME Retry PROVE TypeOK' /\ Positive'
    BY <1>5 DEF Retry, Send, TypeOK, Positive, Running
  <1>6. ASSUME GiveUp PROVE TypeOK' /\ Positive'
    <2>1. loop \in Running /\ BeatEnds(FALSE)
      BY <1>6 DEF GiveUp, Running
    <2> QED BY <1>6, <2>1, BeatEndsTypes DEF GiveUp, TypeOK, Positive
  <1>7. ASSUME Allowed PROVE TypeOK' /\ Positive'
    <2>1. loop \in Running /\ BeatEnds(TRUE)
      BY <1>7 DEF Allowed, Running
    <2> QED BY <1>7, <2>1, BeatEndsTypes DEF Allowed, TypeOK, Positive
  <1>8. ASSUME FinalFailure PROVE TypeOK' /\ Positive'
    <2>1. loop \in Running /\ BeatEnds(FALSE)
      BY <1>8 DEF FinalFailure, Running
    <2> QED BY <1>8, <2>1, BeatEndsTypes DEF FinalFailure, TypeOK, Positive
  <1>9. ASSUME TransportFailure PROVE TypeOK' /\ Positive'
    <2>1. loop \in Running /\ sent' \in {"lost", "no"}
      BY <1>9 DEF TransportFailure, Running
    <2>2. CASE attempt >= MaxAttempts \/ Stopped
      <3>1. BeatEnds(FALSE) /\ UNCHANGED adrift
        BY <1>9, <2>2 DEF TransportFailure
      <3> QED BY <2>1, <3>1, BeatEndsTypes DEF TypeOK, Positive
    <2>3. CASE ~(attempt >= MaxAttempts \/ Stopped)
      BY <1>9, <2>1, <2>3 DEF TransportFailure, TypeOK, Positive, Running
    <2> QED BY <2>2, <2>3
  <1>10. ASSUME NEW how \in {"graceful", "bounded"}, Stop(how)
         PROVE  TypeOK' /\ Positive'
    BY <1>10 DEF Stop, TypeOK, Positive
  <1>11. ASSUME Abort \/ StopCompletes \/ StopGivesUp PROVE TypeOK' /\ Positive'
    BY <1>11 DEF Abort, StopCompletes, StopGivesUp, TypeOK, Positive
  <1>12. ASSUME Land \/ Drop PROVE TypeOK' /\ Positive'
    <2>1. sent' \in {"no", "landed", sent}
      BY <1>12 DEF Land, Drop
    <2>2. adrift' \in BOOLEAN
      BY <1>12, Zenon DEF Land, Drop, TypeOK
    <2>3. landed' \in {landed, clock}
      BY <1>12 DEF Land, Drop
    <2>4. UNCHANGED <<clock, interval, loopVars, stopVars, history>>
      BY <1>12 DEF Land, Drop
    <2> QED BY <2>1, <2>2, <2>3, <2>4 DEF TypeOK, Positive
  <1>13. ASSUME Tick PROVE TypeOK' /\ Positive'
    BY <1>13 DEF Tick, TypeOK, Positive
  <1>14. ASSUME UNCHANGED vars PROVE TypeOK' /\ Positive'
    BY <1>14 DEF vars, TypeOK, Positive
  <1> QED BY <1>1, <1>2, <1>3, <1>4, <1>5, <1>6, <1>7, <1>8, <1>9, <1>10, <1>11,
             <1>12, <1>13, <1>14 DEF Next, LoopStep, Settle

\* Every variable keeps its type.
THEOREM TypeCorrect == Spec => []TypeOK
  <1>1. TypeOK /\ Positive /\ [Next]_vars => (TypeOK /\ Positive)'
    BY TypeStep
  <1> QED BY <1>1, TypeInit, PTL DEF Spec

-----------------------------------------------------------------------------
(* Beats and slots.                                                        *)

LEMMA PastStep ==
  ASSUME TypeOK, Past, NoFalseBeat, [Next]_vars
  PROVE  Past' /\ NoFalseBeat'
  <1> USE DEF stopVars, guard, history, loopVars, Past, NoFalseBeat, TypeOK, Never
  <1>1. CASE Start
    BY <1>1 DEF Start
  <1>2. CASE StopLoop \/ Dedupe
    BY <1>2 DEF StopLoop, Dedupe
  <1>3. CASE Beat
    BY <1>3 DEF Beat, Send
  <1>4. CASE Retry
    BY <1>4 DEF Retry, Send
  <1>5. CASE GiveUp
    BY <1>5 DEF GiveUp, BeatEnds
  <1>6. CASE Allowed
    BY <1>6 DEF Allowed, BeatEnds
  <1>7. CASE FinalFailure
    BY <1>7 DEF FinalFailure, BeatEnds
  <1>8. CASE TransportFailure
    BY <1>8 DEF TransportFailure, BeatEnds
  <1>9. CASE \E how \in {"graceful", "bounded"} : Stop(how)
    BY <1>9 DEF Stop
  <1>10. CASE Abort \/ StopCompletes \/ StopGivesUp
    BY <1>10 DEF Abort, StopCompletes, StopGivesUp
  <1>11. CASE Land
    BY <1>11 DEF Land
  <1>12. CASE Drop
    BY <1>12 DEF Drop
  <1>13. CASE Tick
    BY <1>13 DEF Tick
  <1>14. CASE UNCHANGED vars
    BY <1>14 DEF vars
  <1> QED BY <1>1, <1>2, <1>3, <1>4, <1>5, <1>6, <1>7, <1>8, <1>9, <1>10, <1>11,
             <1>12, <1>13, <1>14 DEF Next, LoopStep, Settle

\* Nothing has happened before the start check.
Fresh ==
  loop = "check" =>
    /\ served = 0 /\ missed = 0 /\ failures = 0
    /\ landed = Never /\ lastBeat = Never /\ sent = "no" /\ adrift = FALSE

LEMMA FreshInit == Init => Fresh
  BY DEF Init, Fresh

LEMMA FreshStep ==
  ASSUME TypeOK, Fresh, [Next]_vars
  PROVE  Fresh'
  <1> USE DEF stopVars, guard, history, loopVars, Fresh
  <1>1. CASE Start
    <2>1. loop' # "check"
      BY <1>1 DEF Start
    <2> QED BY <2>1
  <1>2. CASE LoopStep
    BY <1>2 DEF LoopStep, StopLoop, Dedupe, Beat, Retry, GiveUp, Awake, Send, BeatEnds
  <1>3. CASE Settle
    BY <1>3 DEF Settle, Allowed, FinalFailure, TransportFailure, BeatEnds
  <1>4. CASE \E how \in {"graceful", "bounded"} : Stop(how)
    BY <1>4 DEF Stop
  <1>5. CASE Abort \/ StopCompletes \/ StopGivesUp
    BY <1>5 DEF Abort, StopCompletes, StopGivesUp
  <1>6. CASE Land
    BY <1>6 DEF Land
  <1>7. CASE Drop
    BY <1>7 DEF Drop
  <1>8. CASE Tick \/ UNCHANGED vars
    BY <1>8 DEF Tick, vars
  <1> QED BY <1>1, <1>2, <1>3, <1>4, <1>5, <1>6, <1>7, <1>8 DEF Next

LEMMA BeatEndsSlots ==
  ASSUME TypeOK, Positive, SlotsAccounted, loop \in Running,
         NEW ok \in BOOLEAN, BeatEnds(ok)
  PROVE  SlotsAccounted'
  <1>1. interval > 0 /\ deadline \in Nat /\ SkipFrom(deadline, 0)
    BY DEF Positive, TypeOK, BeatEnds
  <1>2. PICK k \in Nat : deadline' = deadline + k * interval /\ missed' = missed + k + 0
    BY <1>1, SkipResult
  <1>3. deadline = origin + interval * (served + missed)
    BY DEF SlotsAccounted, Running
  <1>4. deadline' = origin + interval * (served + missed + k)
    BY <1>2, <1>3, Cadence, HeartbeatAssumption DEF TypeOK, HeartbeatAssumption
  <1>5. UNCHANGED <<origin, interval, served>> /\ missed' = missed + k
    BY <1>2 DEF BeatEnds, TypeOK
  <1>6. served + missed + k = served' + missed'
    BY <1>5 DEF TypeOK
  <1> QED BY <1>4, <1>5, <1>6 DEF SlotsAccounted

LEMMA SlotsStep ==
  ASSUME TypeOK, Positive, Fresh, SlotsAccounted, [Next]_vars
  PROVE  SlotsAccounted'
  <1> USE DEF stopVars, guard, history, loopVars
  <1>1. CASE Start
    <2>1. deadline' = clock /\ origin' = clock /\ interval' = interval
          /\ served' = 0 /\ missed' = 0
      BY <1>1 DEF Start, Fresh
    <2>2. clock = clock + interval * (0 + 0)
      BY HeartbeatAssumption DEF TypeOK, HeartbeatAssumption
    <2> QED BY <2>1, <2>2 DEF SlotsAccounted
  <1>2. ASSUME Dedupe \/ Beat PROVE SlotsAccounted'
    <2>1. /\ loop = "wait" /\ interval > 0 /\ deadline + interval \in Nat
          /\ interval \in Int /\ origin \in Int /\ served + missed \in Int
      BY <1>2, HeartbeatAssumption
         DEF Dedupe, Beat, Awake, Positive, Running, TypeOK, HeartbeatAssumption
    <2>2. PICK late \in {0, 1} : /\ SkipFrom(deadline + interval, late)
                                /\ served' = served + 1 - late
      BY <1>2 DEF Dedupe, Beat, TypeOK
    <2>3. PICK k \in Nat : /\ deadline' = deadline + interval + k * interval
                          /\ missed' = missed + k + late
      BY <2>1, <2>2, SkipResult
    <2>4. deadline = origin + interval * (served + missed)
      BY <2>1 DEF SlotsAccounted, Running
    <2>5. deadline' = origin + interval * (served + missed + 1 + k)
      BY <2>1, <2>3, <2>4, Cadence
    <2>6. served + missed + 1 + k = served' + missed'
      BY <2>2, <2>3 DEF TypeOK
    <2>7. UNCHANGED <<origin, interval>>
      BY <1>2 DEF Dedupe, Beat
    <2> QED BY <2>5, <2>6, <2>7 DEF SlotsAccounted
  <1>3. ASSUME Retry PROVE SlotsAccounted'
    BY <1>3 DEF Retry, Send, SlotsAccounted, Running
  <1>4. ASSUME GiveUp \/ Allowed \/ FinalFailure PROVE SlotsAccounted'
    <2>1. loop \in Running /\ \E ok \in BOOLEAN : BeatEnds(ok)
      BY <1>4 DEF GiveUp, Allowed, FinalFailure, Running
    <2> QED BY <2>1, BeatEndsSlots
  <1>5. ASSUME TransportFailure PROVE SlotsAccounted'
    <2>1. CASE attempt >= MaxAttempts \/ Stopped
      <3>1. loop \in Running /\ BeatEnds(FALSE)
        BY <1>5, <2>1 DEF TransportFailure, Running
      <3> QED BY <3>1, BeatEndsSlots
    <2>2. CASE ~(attempt >= MaxAttempts \/ Stopped)
      BY <1>5, <2>2 DEF TransportFailure, SlotsAccounted
    <2> QED BY <2>1, <2>2
  <1>6. CASE StopLoop
    BY <1>6 DEF StopLoop, SlotsAccounted
  <1>7. CASE \E how \in {"graceful", "bounded"} : Stop(how)
    BY <1>7 DEF Stop, SlotsAccounted
  <1>8. CASE Abort \/ StopCompletes \/ StopGivesUp
    BY <1>8 DEF Abort, StopCompletes, StopGivesUp, SlotsAccounted
  <1>9. CASE Land \/ Drop \/ Tick \/ UNCHANGED vars
    BY <1>9 DEF Land, Drop, Tick, vars, SlotsAccounted
  <1> QED BY <1>1, <1>2, <1>3, <1>4, <1>5, <1>6, <1>7, <1>8, <1>9
          DEF Next, LoopStep, Settle

\* No slot is lost track of: it was beaten, deduplicated or counted as missed.
THEOREM SlotsAreAccounted == Spec => []SlotsAccounted
  <1> DEFINE IInv == TypeOK /\ Positive /\ Fresh /\ SlotsAccounted
  <1>1. Init => IInv
    <2>1. Init => SlotsAccounted
      BY DEF Init, SlotsAccounted
    <2> QED BY <2>1, TypeInit, FreshInit
  <1>2. IInv /\ [Next]_vars => IInv'
    BY TypeStep, FreshStep, SlotsStep
  <1>3. IInv => SlotsAccounted
    OBVIOUS
  <1> HIDE DEF IInv
  <1> QED BY <1>1, <1>2, <1>3, PTL DEF Spec

\* lastBeatAt is a beat the contract has.
THEOREM NoBeatIsFalse == Spec => []NoFalseBeat
  <1> DEFINE IInv == TypeOK /\ Positive /\ Past /\ NoFalseBeat
  <1>1. Init => IInv
    BY TypeInit
  <1>2. IInv /\ [Next]_vars => IInv'
    BY TypeStep, PastStep
  <1>3. IInv => NoFalseBeat
    OBVIOUS
  <1> HIDE DEF IInv
  <1> QED BY <1>1, <1>2, <1>3, PTL DEF Spec

\* Whatever is in flight or retried when stop() is called, nothing is sent after.
THEOREM NothingIsSentAfterStop == Spec => NothingSentAfterStop
  <1> USE DEF stopVars, guard, history, loopVars
  <1>1. [Next]_vars => [Stopped /\ sent' = "flying" => sent = "flying"]_vars
    <2> SUFFICES ASSUME [Next]_vars, Stopped, sent' = "flying" PROVE sent = "flying"
      OBVIOUS
    <2>1. CASE Start \/ LoopStep
      BY <2>1 DEF Start, LoopStep, StopLoop, Dedupe, Beat, Retry, GiveUp
    <2>2. CASE Settle
      BY <2>2 DEF Settle, Allowed, FinalFailure, TransportFailure
    <2>3. CASE \E how \in {"graceful", "bounded"} : Stop(how)
      BY <2>3 DEF Stop
    <2>4. CASE Abort \/ StopCompletes \/ StopGivesUp
      BY <2>4 DEF Abort, StopCompletes, StopGivesUp
    <2>5. CASE Land \/ Drop \/ Tick \/ UNCHANGED vars
      BY <2>5 DEF Land, Drop, Tick, vars
    <2> QED BY <2>1, <2>2, <2>3, <2>4, <2>5 DEF Next
  <1> QED BY <1>1, PTL DEF Spec, NothingSentAfterStop

-----------------------------------------------------------------------------
(* The dead man's switch.                                                  *)

\* The premises of SwitchHolds that no step changes.
Punctual ==
  /\ SafeInterval /\ MaxFailures <= 1
  /\ MaxLate + MaxBeat + TicksPerSecond <= interval

\* How far the landed heartbeat may be behind the slot before the deadline.
Behind == IF failures = 0 THEN 0 ELSE interval

Waiting ==
  /\ deadline - interval <= clock /\ clock <= deadline + MaxLate
  /\ lastBeat # Never => lastBeat <= deadline - interval + MaxLate
  /\ landed # Never => landed >= deadline - interval - Behind

Beating ==
  /\ deadline - interval <= beatAt /\ beatAt <= deadline - interval + MaxLate
  /\ clock <= beatAt + MaxBeat
  /\ lastBeat # Never => lastBeat <= deadline - interval + MaxLate
  /\ landed # Never => landed >= deadline - interval - interval - Behind

\* Where the clock, the deadline and the contract stand at each await.
Timely ==
  Punctual =>
    /\ loop \in Running => failures <= MaxFailures
    /\ loop = "wait" => Waiting
    /\ loop \in {"submit", "backoff"} => Beating

LEMMA ConstantsTyped ==
  /\ Grace \in Nat /\ TicksPerSecond \in Nat \ {0}
  /\ MaxLate \in Nat /\ MaxBeat \in Nat /\ MaxFailures \in Nat
  BY HeartbeatAssumption DEF HeartbeatAssumption

LEMMA SecondBounds ==
  ASSUME NEW t \in Int
  PROVE  /\ Second(t) \in Int /\ TicksPerSecond * Second(t) \in Int
         /\ TicksPerSecond * Second(t) <= t
         /\ t < TicksPerSecond * Second(t) + TicksPerSecond
  <1>1. TicksPerSecond \in Nat \ {0}
    BY HeartbeatAssumption DEF HeartbeatAssumption
  <1>2. t \div TicksPerSecond \in Int
    BY <1>1, Division
  <1>3. TicksPerSecond * (t \div TicksPerSecond) \in Int
    BY <1>1, <1>2, SMT
  <1> QED BY <1>1, <1>2, <1>3, Division DEF Second

LEMMA StateTyped ==
  ASSUME TypeOK
  PROVE  /\ clock \in Nat /\ interval \in Int /\ deadline \in Nat
         /\ beatAt \in Int /\ lastBeat \in Int /\ landed \in Int
         /\ failures \in Nat
  BY HeartbeatAssumption DEF TypeOK, Never, HeartbeatAssumption

\* A beat ends before its slot does, so the deadline stays.
LEMMA BeatEndsTimely ==
  ASSUME TypeOK, Positive, Past, Timely, Punctual, loop \in {"submit", "backoff"},
         NEW ok \in BOOLEAN, BeatEnds(ok),
         ok => landed >= beatAt /\ landed # Never,
         ok \/ failures < MaxFailures \/ Stopped, loop' \in Running
  PROVE  Waiting' /\ failures' <= MaxFailures
  <1>1. interval > 0 /\ deadline \in Nat /\ SkipFrom(deadline, 0)
    BY DEF Positive, TypeOK, BeatEnds, Running
  <1>2. Beating /\ failures <= MaxFailures
    BY DEF Timely, Running
  <1>3. deadline > clock
    BY <1>2, ConstantsTyped, StateTyped DEF Beating, Punctual
  <1>4. deadline' = deadline
    <2>1. Skipped(deadline) = 0
      BY <1>1, <1>3, SkippedSlots
    <2> QED BY <1>1, <2>1, StateTyped DEF SkipFrom
  <1>5. ~Stopped /\ loop' = "wait"
    BY DEF BeatEnds, Running
  <1>6. failures' = IF ok THEN 0 ELSE failures + 1
    BY DEF BeatEnds
  <1>7. UNCHANGED <<clock, interval, landed>> /\ lastBeat' \in {lastBeat, beatAt}
    BY DEF BeatEnds
  <1>8. failures' <= MaxFailures
    BY <1>5, <1>6, ConstantsTyped, StateTyped
  <1>9. lastBeat' <= deadline - interval + MaxLate \/ lastBeat' = Never
    BY <1>2, <1>7 DEF Beating
  <1>10. landed # Never => landed >= deadline - interval - Behind'
    <2>1. CASE ok
      <3>1. Behind' = 0
        BY <1>6, <2>1 DEF Behind
      <3> QED BY <1>2, <2>1, <3>1, ConstantsTyped, StateTyped DEF Beating
    <2>2. CASE ~ok
      <3>1. failures' # 0 /\ failures = 0
        BY <1>5, <1>6, <2>2, ConstantsTyped, StateTyped DEF Punctual
      <3>2. Behind' = interval /\ Behind = 0
        BY <1>7, <3>1 DEF Behind
      <3> QED BY <1>2, <3>2, ConstantsTyped, StateTyped DEF Beating
    <2> QED BY <2>1, <2>2
  <1>11. deadline - interval <= clock /\ clock <= deadline + MaxLate
    BY <1>2, <1>3, ConstantsTyped, StateTyped DEF Beating, Past
  <1>12. lastBeat' # Never => lastBeat' <= deadline' - interval' + MaxLate
    BY <1>4, <1>7, <1>9
  <1>13. Waiting'
    BY <1>4, <1>7, <1>10, <1>11, <1>12 DEF Waiting
  <1> QED BY <1>8, <1>13

LEMMA TimelyStep ==
  ASSUME TypeOK, Positive, Past, Fresh, Timely, [Next]_vars
  PROVE  Timely'
  <1> USE DEF stopVars, guard, history, loopVars
  <1>1. UNCHANGED interval
    BY DEF Next, LoopStep, Settle, Start, StopLoop, Dedupe, Beat, Retry, GiveUp,
           Allowed, FinalFailure, TransportFailure, BeatEnds, Stop, Abort,
           StopCompletes, StopGivesUp, Land, Drop, Tick, vars
  <1> SUFFICES ASSUME Punctual, loop' \in Running
               PROVE  /\ failures' <= MaxFailures
                      /\ loop' = "wait" => Waiting'
                      /\ loop' # "wait" => Beating'
    BY <1>1 DEF Timely, Punctual, SafeInterval, Running
  <1>2. interval > MaxLate + MaxBeat /\ interval >= MaxLate + MaxBeat + TicksPerSecond
    BY ConstantsTyped, StateTyped DEF Punctual
  <1>3. CASE Start
    <2>1. /\ loop' = "wait" /\ deadline' = clock
          /\ UNCHANGED <<clock, interval, lastBeat, landed, failures>>
          /\ failures = 0 /\ landed = Never /\ lastBeat = Never
      BY <1>3 DEF Start, Fresh, Running
    <2> QED BY <1>2, <2>1, ConstantsTyped, StateTyped DEF Waiting
  <1>4. CASE StopLoop
    BY <1>4 DEF StopLoop, Running
  <1>5. CASE Dedupe
    <2>1. loop = "wait" /\ Waiting /\ clock >= deadline /\ SameSecond
      BY <1>5 DEF Dedupe, Awake, Timely
    <2>2. clock - lastBeat >= TicksPerSecond
      BY <1>2, <2>1, ConstantsTyped, StateTyped DEF Waiting, SameSecond
    <2>3. Second(clock) # Second(lastBeat)
      <3>1. TicksPerSecond * Second(lastBeat) <= lastBeat
        BY SecondBounds, StateTyped
      <3>2. clock < TicksPerSecond * Second(clock) + TicksPerSecond
        BY SecondBounds, StateTyped
      <3>3. TicksPerSecond * Second(clock) \in Int
        BY SecondBounds, StateTyped
      <3>4. ASSUME Second(clock) = Second(lastBeat) PROVE FALSE
        BY <2>2, <3>1, <3>2, <3>3, <3>4, ConstantsTyped, StateTyped
      <3> QED BY <3>4
    <2> QED BY <2>1, <2>3 DEF SameSecond
  <1>6. CASE Beat
    <2>1. /\ loop = "wait" /\ Waiting /\ clock >= deadline /\ failures <= MaxFailures
          /\ interval > 0
      BY <1>6 DEF Beat, Awake, Timely, Running, Positive
    <2>2. PICK late \in {0, 1} : SkipFrom(deadline + interval, late)
      BY <1>6 DEF Beat
    <2>3. deadline' = deadline + interval
      <3>1. deadline + interval \in Nat /\ deadline + interval > clock
        BY <1>2, <2>1, ConstantsTyped, StateTyped DEF Waiting
      <3>2. Skipped(deadline + interval) = 0
        BY <2>1, <3>1, SkippedSlots
      <3> QED BY <2>2, <3>1, <3>2, StateTyped DEF SkipFrom
    <2>4. /\ loop' = "submit" /\ beatAt' = clock
          /\ UNCHANGED <<clock, interval, lastBeat, landed, failures>>
      BY <1>6 DEF Beat, Send
    <2>5. Behind' = Behind /\ Behind \in Int
      BY <2>4, StateTyped DEF Behind
    <2>6. Beating'
      BY <1>2, <2>1, <2>3, <2>4, <2>5, ConstantsTyped, StateTyped DEF Waiting, Beating
    <2> QED BY <2>1, <2>4, <2>6
  <1>7. CASE Retry
    <2>1. /\ loop = "backoff" /\ loop' = "submit"
          /\ UNCHANGED <<clock, interval, deadline, beatAt, lastBeat, landed, failures>>
      BY <1>7 DEF Retry, Send
    <2> QED BY <2>1 DEF Timely, Beating, Behind, Running
  <1>8. CASE GiveUp
    BY <1>8 DEF GiveUp, BeatEnds, Running
  <1>9. CASE Allowed
    <2>1. /\ loop = "submit" /\ BeatEnds(TRUE)
          /\ landed >= beatAt /\ landed # Never
      BY <1>9 DEF Allowed, Past
    <2>2. Waiting' /\ failures' <= MaxFailures
      BY <2>1, BeatEndsTimely
    <2> QED BY <2>1, <2>2 DEF BeatEnds, Running
  <1>10. CASE FinalFailure
    <2>1. loop = "submit" /\ BeatEnds(FALSE) /\ failures < MaxFailures
      BY <1>10 DEF FinalFailure
    <2>2. Waiting' /\ failures' <= MaxFailures
      BY <2>1, BeatEndsTimely
    <2> QED BY <2>1, <2>2 DEF BeatEnds, Running
  <1>11. CASE TransportFailure
    <2>1. CASE attempt >= MaxAttempts \/ Stopped
      <3>1. loop = "submit" /\ BeatEnds(FALSE) /\ failures < MaxFailures
        BY <1>11, <2>1 DEF TransportFailure
      <3>2. Waiting' /\ failures' <= MaxFailures
        BY <3>1, BeatEndsTimely
      <3> QED BY <3>1, <3>2 DEF BeatEnds, Running
    <2>2. CASE ~(attempt >= MaxAttempts \/ Stopped)
      <3>1. /\ loop = "submit" /\ loop' = "backoff"
            /\ UNCHANGED <<clock, interval, deadline, beatAt, lastBeat, landed, failures>>
        BY <1>11, <2>2 DEF TransportFailure
      <3> QED BY <3>1 DEF Timely, Beating, Behind, Running
    <2> QED BY <2>1, <2>2
  <1>12. CASE \/ \E how \in {"graceful", "bounded"} : Stop(how)
              \/ Abort \/ StopCompletes \/ StopGivesUp \/ Drop \/ UNCHANGED vars
    <2>1. UNCHANGED <<clock, interval, loop, deadline, beatAt, lastBeat, landed, failures>>
      BY <1>12 DEF Stop, Abort, StopCompletes, StopGivesUp, Drop, vars
    <2> QED BY <2>1 DEF Timely, Waiting, Beating, Behind, Running
  <1>13. CASE Land
    <2>1. /\ UNCHANGED <<clock, interval, loop, deadline, beatAt, lastBeat, failures>>
          /\ landed' = clock /\ landed <= clock
      BY <1>13 DEF Land, Past
    <2>2. CASE loop = "check"
      BY <1>13, <2>2 DEF Land, Fresh
    <2>3. Behind' = Behind /\ Behind >= 0 /\ Behind \in Int /\ interval > 0
      BY <1>2, <2>1, ConstantsTyped, StateTyped DEF Behind
    <2>4. CASE loop = "wait"
      <3>1. Waiting /\ failures <= MaxFailures
        BY <2>4 DEF Timely, Running
      <3>2. Waiting'
        BY <2>1, <2>3, <3>1, ConstantsTyped, StateTyped DEF Waiting
      <3> QED BY <2>1, <2>4, <3>1, <3>2
    <2>5. CASE loop \in {"submit", "backoff"}
      <3>1. Beating /\ failures <= MaxFailures
        BY <2>5 DEF Timely, Running
      <3>2. deadline - interval <= clock
        BY <3>1, StateTyped DEF Beating, Past
      <3>3. Beating'
        BY <2>1, <2>3, <3>1, <3>2, ConstantsTyped, StateTyped DEF Beating
      <3> QED BY <2>1, <2>5, <3>1, <3>3
    <2> QED BY <2>1, <2>4, <2>5 DEF Running
  <1>14. CASE Tick
    <2>1. /\ UNCHANGED <<interval, loop, deadline, beatAt, lastBeat, landed, failures>>
          /\ clock' = clock + 1
      BY <1>14 DEF Tick
    <2>2. CASE loop = "wait"
      <3>1. Waiting /\ failures <= MaxFailures /\ clock < deadline + MaxLate
        BY <1>14, <2>2 DEF Tick, Timely, Running
      <3>2. Waiting'
        BY <2>1, <3>1, ConstantsTyped, StateTyped DEF Waiting, Behind
      <3> QED BY <2>1, <2>2, <3>1, <3>2
    <2>3. CASE loop \in {"submit", "backoff"}
      <3>1. Beating /\ failures <= MaxFailures /\ clock < beatAt + MaxBeat
        BY <1>14, <2>3 DEF Tick, Timely, Running
      <3>2. Beating'
        BY <2>1, <3>1, ConstantsTyped, StateTyped DEF Beating, Behind
      <3> QED BY <2>1, <2>3, <3>1, <3>2
    <2> QED BY <2>1, <2>2, <2>3 DEF Running
  <1> QED BY <1>3, <1>4, <1>5, <1>6, <1>7, <1>8, <1>9, <1>10, <1>11, <1>12, <1>13,
             <1>14 DEF Next, LoopStep, Settle

LEMMA TimelyInit == Init => Timely
  BY DEF Init, Timely, Running

\* At every await the landed heartbeat is less than the grace ago.
LEMMA TimelyHolds ==
  ASSUME TypeOK, Positive, Timely
  PROVE  SwitchHolds
  <1> SUFFICES ASSUME Punctual, loop \in Running, Grace > 0, landed # Never
               PROVE  ~(Remaining <= 0)
    BY DEF SwitchHolds, Punctual, Expired, Running
  <1>1. clock - landed <= 3 * interval - TicksPerSecond
    <2>1. failures <= MaxFailures /\ MaxFailures <= 1 /\ interval > 0
      BY DEF Timely, Punctual, Positive
    <2>2. Behind \in {0, interval}
      BY DEF Behind
    <2>3. CASE loop = "wait"
      BY <2>1, <2>2, <2>3, ConstantsTyped, StateTyped DEF Timely, Waiting, Punctual
    <2>4. CASE loop \in {"submit", "backoff"}
      BY <2>1, <2>2, <2>4, ConstantsTyped, StateTyped DEF Timely, Beating, Punctual
    <2> QED BY <2>3, <2>4 DEF Running
  <1>2. 3 * interval <= Grace * TicksPerSecond
    <2>1. Grace * TicksPerSecond \in Int
      BY ConstantsTyped, SMT
    <2>2. interval <= (Grace * TicksPerSecond) \div 3
      BY DEF Punctual, SafeInterval
    <2> QED BY <2>1, <2>2, StateTyped, SMT
  <1>3. clock < TicksPerSecond * (Second(landed) + Grace)
    <2>1. landed < TicksPerSecond * Second(landed) + TicksPerSecond
      BY SecondBounds, StateTyped
    <2>2. TicksPerSecond * (Second(landed) + Grace)
            = TicksPerSecond * Second(landed) + Grace * TicksPerSecond
      BY SecondBounds, StateTyped, ConstantsTyped, SMT
    <2>3. TicksPerSecond * Second(landed) \in Int /\ Grace * TicksPerSecond \in Int
      BY SecondBounds, StateTyped, ConstantsTyped, SMT
    <2> QED BY <1>1, <1>2, <2>1, <2>2, <2>3, StateTyped, ConstantsTyped
  <1>4. Second(landed) + Grace \in Int
    BY SecondBounds, StateTyped, ConstantsTyped
  <1>5. Second(clock) < Second(landed) + Grace
    BY <1>3, <1>4, QuotientBelow, StateTyped, ConstantsTyped DEF Second
  <1> QED BY <1>4, <1>5, SecondBounds, StateTyped, ConstantsTyped DEF Remaining

\* Under punctual timers, one failed beat in a row never lets the switch fire.
THEOREM TheSwitchHolds == Spec => []SwitchHolds
  <1> DEFINE IInv == TypeOK /\ Positive /\ Past /\ NoFalseBeat /\ Fresh /\ Timely
  <1>1. Init => IInv
    BY TypeInit, FreshInit, TimelyInit
  <1>2. IInv /\ [Next]_vars => IInv'
    BY TypeStep, PastStep, FreshStep, TimelyStep
  <1>3. IInv => SwitchHolds
    BY TimelyHolds
  <1> HIDE DEF IInv
  <1> QED BY <1>1, <1>2, <1>3, PTL DEF Spec

-----------------------------------------------------------------------------
(* The warning.                                                            *)

\* A tick takes at most one second off what remains.
LEMMA SecondStep ==
  ASSUME NEW t \in Int
  PROVE  Second(t + 1) <= Second(t) + 1
  <1>1. t + 1 < TicksPerSecond * (Second(t) + 2)
    <2>1. t < TicksPerSecond * Second(t) + TicksPerSecond
      BY SecondBounds
    <2>2. TicksPerSecond * (Second(t) + 2)
            = TicksPerSecond * Second(t) + TicksPerSecond + TicksPerSecond
      BY SecondBounds, ConstantsTyped, SMT
    <2> QED BY <2>1, <2>2, SecondBounds, ConstantsTyped
  <1>2. (t + 1) \div TicksPerSecond < Second(t) + 2
    BY <1>1, SecondBounds, ConstantsTyped, QuotientBelow
  <1>3. Second(t) \in Int /\ (t + 1) \div TicksPerSecond \in Int
    BY SecondBounds, ConstantsTyped, Division
  <1> QED BY <1>2, <1>3 DEF Second

LEMMA RemainingTyped == TypeOK => Remaining \in Int
  BY SecondBounds, StateTyped, ConstantsTyped DEF Remaining

\* What the answers of Urgency say of the rest of the grace.
LEMMA UrgencyMeans ==
  ASSUME TypeOK, Grace >= 5
  PROVE  /\ Urgency = "unknown" => landed = Never
         /\ Urgency = "ok" => landed # Never /\ Remaining >= 2
  <1>1. Remaining \in Int /\ Grace \in Nat /\ Grace # 0
    BY RemainingTyped, ConstantsTyped
  <1>2. CASE landed = Never
    <2>1. Urgency = "unknown"
      BY <1>2 DEF Urgency
    <2> QED BY <1>2, <2>1
  <1>3. CASE landed # Never /\ Remaining <= 0
    <2>1. Urgency = "expired"
      BY <1>1, <1>3 DEF Urgency
    <2> QED BY <2>1
  <1>4. CASE landed # Never /\ Remaining > 0
    <2>1. CASE 10 * (Grace - Remaining) >= 8 * Grace
      <3>1. Urgency = "warn"
        BY <1>1, <1>4, <2>1 DEF Urgency
      <3> QED BY <3>1
    <2>2. CASE ~(10 * (Grace - Remaining) >= 8 * Grace)
      <3>1. Urgency = "ok"
        BY <1>1, <1>4, <2>2 DEF Urgency
      <3>2. Remaining >= 2
        BY <1>1, <2>2
      <3> QED BY <1>4, <3>1, <3>2
    <2> QED BY <2>1, <2>2
  <1> QED BY <1>1, <1>2, <1>3, <1>4

\* No look at the urgency goes from fine to fired without a warning between.
THEOREM TheWarningComesFirst == Spec => WarnedInTime
  <1> DEFINE Warned == Grace >= 5 /\ Urgency \in {"ok", "unknown"} => Urgency' # "expired"
  <1>1. TypeOK /\ Positive /\ [Next]_vars => (TypeOK /\ Positive)'
    BY TypeStep
  <1>2. TypeOK /\ Positive /\ [Next]_vars => [Warned]_vars
    <2> SUFFICES ASSUME TypeOK, TypeOK', [Next]_vars, Grace >= 5,
                        Urgency \in {"ok", "unknown"}, Urgency' = "expired"
                 PROVE  FALSE
      BY <1>1
    <2>1. landed' # Never /\ Remaining' <= 0
      <3>1. Grace # 0
        BY ConstantsTyped
      <3>2. landed' # Never
        <4>1. ASSUME landed' = Never PROVE Urgency' = "unknown"
          BY <4>1 DEF Urgency
        <4> QED BY <4>1
      <3>3. Remaining' \in Int
        BY SecondBounds, ConstantsTyped, HeartbeatAssumption
           DEF Remaining, TypeOK, Never, Second
      <3>4. ASSUME ~(Remaining' <= 0) PROVE Urgency' \in {"warn", "ok"}
        BY <3>1, <3>2, <3>3, <3>4 DEF Urgency
      <3> QED BY <3>2, <3>4
    <2>2. landed = Never \/ Remaining >= 2
      BY UrgencyMeans
    <2>3. CASE landed' = clock /\ clock' = clock
      <3>1. Remaining' = Grace
        BY <2>3, SecondBounds, StateTyped, ConstantsTyped DEF Remaining, Second
      <3> QED BY <2>1, <3>1, ConstantsTyped
    <2>4. CASE landed' = landed /\ clock' = clock
      <3>1. Remaining' = Remaining
        BY <2>4 DEF Remaining, Second
      <3> QED BY <2>1, <2>2, <2>4, <3>1, RemainingTyped
    <2>5. CASE landed' = landed /\ clock' = clock + 1
      <3>1. Remaining' = Second(landed) + Grace - Second(clock + 1)
        BY <2>5 DEF Remaining, Second
      <3>2. Remaining' >= Remaining - 1
        BY <3>1, SecondStep, SecondBounds, StateTyped, ConstantsTyped DEF Remaining
      <3>3. Remaining' \in Int
        BY <3>1, SecondBounds, StateTyped, ConstantsTyped
      <3> QED BY <2>1, <2>2, <2>5, <3>2, <3>3, RemainingTyped
    <2>6. \/ landed' = clock /\ clock' = clock
          \/ landed' = landed /\ clock' \in {clock, clock + 1}
      <3> USE DEF stopVars, guard, history, loopVars
      <3>1. CASE Start \/ LoopStep
        BY <3>1 DEF Start, LoopStep, StopLoop, Dedupe, Beat, Retry, GiveUp, BeatEnds
      <3>2. CASE Settle
        BY <3>2 DEF Settle, Allowed, FinalFailure, TransportFailure, BeatEnds
      <3>3. CASE \E how \in {"graceful", "bounded"} : Stop(how)
        BY <3>3 DEF Stop
      <3>4. CASE Abort \/ StopCompletes \/ StopGivesUp
        BY <3>4 DEF Abort, StopCompletes, StopGivesUp
      <3>5. CASE Land \/ Drop \/ Tick \/ UNCHANGED vars
        BY <3>5 DEF Land, Drop, Tick, vars
      <3> QED BY <3>1, <3>2, <3>3, <3>4, <3>5 DEF Next
    <2> QED BY <2>3, <2>4, <2>5, <2>6
  <1> QED BY <1>1, <1>2, TypeInit, PTL DEF Spec, WarnedInTime

=============================================================================
