----------------------------- MODULE Heartbeat -----------------------------
(***************************************************************************)
(* startHeartbeat() of heartbeat.ts, and the dead man's switch of the guard *)
(* contract it keeps from firing (external: SPEC of the contract, read      *)
(* through isDeadManFrozen and deadManRemaining of policy.ts).              *)
(*                                                                         *)
(* The scheduler is one loop: it waits for the next deadline of a fixed     *)
(* cadence, submits a beat with bounded retries, and skips the slots that   *)
(* went by.  loop names the await it is at; an action is all it does until  *)
(* the next one.  Time is counted in ticks; the contract, and the check for *)
(* a second beat in one second, count whole seconds.                        *)
(*                                                                         *)
(* Abstracted: the length of a backoff (any), callbacks, warnings, and what *)
(* a submission carries.                                                    *)
(***************************************************************************)
EXTENDS Integers

CONSTANTS Intervals,      \* the values of intervalMs, in ticks
          Grace,          \* dms_grace_secs of the account, in seconds
          GraceReadable,  \* may the grace be known before the first beat?
          TicksPerSecond,
          MaxSkew,        \* maxSkewMs, in ticks
          MaxAttempts,    \* retry.maxAttempts
          MaxLate,        \* bound: how late a timer fires
          MaxBeat,        \* bound: how long a beat takes, with its retries
          MaxFailures,    \* bound: failed beats in a row
          MaxSlots        \* bound: how many intervals are observed

ASSUME HeartbeatAssumption ==
  /\ Intervals \subseteq Int
  /\ Grace \in Nat /\ GraceReadable \subseteq BOOLEAN
  /\ TicksPerSecond \in Nat \ {0} /\ {MaxSkew, MaxAttempts} \subseteq Int
  /\ {MaxLate, MaxBeat, MaxFailures, MaxSlots} \subseteq Nat

VARIABLES
  clock,     \* now()
  interval,  \* intervalMs
  aborted,   \* options.signal
  loop,      \* the await of startHeartbeat() or of its loop
  deadline,  \* when the next beat is due
  beatAt,    \* at: when the last submitted beat fired
  attempt,   \* attempts of that beat
  lastBeat,  \* lastBeatAt, which also gives lastBeatSecond
  missed,    \* missedBeats
  stop,      \* stopPromise: how stop() was first called
  answer,    \* what stop() resolved to
  sent,      \* the transaction of the attempt in flight
  adrift,    \* an earlier attempt's transaction may still be included
  landed,    \* last_heartbeat of the contract, in ticks
  origin,    \* history: the first deadline
  failures,  \* history: failed beats in a row
  served     \* history: beats and deduplicated beats that were not late

loopVars == <<loop, deadline, beatAt, attempt, lastBeat, missed>>
stopVars == <<aborted, stop, answer>>
guard    == <<sent, adrift, landed>>
history  == <<origin, failures, served>>
vars == <<clock, interval, loopVars, stopVars, guard, history>>

Never == -1
Second(t) == t \div TicksPerSecond
Stopped == stop # "none"


\* deadManRemaining(), in seconds.
Remaining == Second(landed) + Grace - Second(clock)

\* The switch fires once the grace has elapsed; never beaten is not overdue.
Expired == Grace > 0 /\ landed # Never /\ Remaining <= 0

\* Mutant: the ratio is taken of what remains of the grace.
UrgencyOfRest ==
  IF Grace = 0 \/ landed = Never THEN "unknown"
  ELSE CASE Remaining <= 0 -> "expired"
         [] Remaining > 0 /\ 10 * Remaining >= 8 * Grace -> "warn"
         [] OTHER -> "ok"

\* dmsUrgency(): a warning from DMS_WARN_RATIO_DEFAULT of the grace on.
Urgency ==
  IF Grace = 0 \/ landed = Never THEN "unknown"
  ELSE CASE Remaining <= 0 -> "expired"
         [] Remaining > 0 /\ 10 * (Grace - Remaining) >= 8 * Grace -> "warn"
         [] OTHER -> "ok"

\* skipExpiredSlots(): how many slots from due on have gone by.
Skipped(due) == IF due > clock THEN 0 ELSE (clock - due) \div interval + 1

\* Mutant: the whole grace window is accepted as an interval.
SafeUpToGrace == interval <= Grace * TicksPerSecond

\* The interval leaves room for a missed beat.
SafeInterval == Grace > 0 => interval <= (Grace * TicksPerSecond) \div 3

Init ==
  /\ clock \in 0 .. TicksPerSecond - 1 /\ interval \in Intervals
  /\ aborted = FALSE /\ loop = "check"
  /\ deadline = 0 /\ beatAt = Never /\ attempt = 0 /\ lastBeat = Never
  /\ missed = 0
  /\ stop = "none" /\ answer = "none"
  /\ sent = "no" /\ adrift = FALSE /\ landed = Never
  /\ origin = 0 /\ failures = 0 /\ served = 0

-----------------------------------------------------------------------------
(* Starting.                                                               *)

\* assertHeartbeatOptions() and resolveRetryOptions().
ValidOptions == interval > 0 /\ MaxSkew >= 0
ValidRetry == MaxAttempts >= 1

\* Mutant: the cadence starts one slot in the past.
StartOneSlotBack ==
  /\ loop = "check" /\ loop' = "wait"
  /\ deadline' = clock - interval /\ origin' = clock
  /\ UNCHANGED <<clock, interval, beatAt, attempt, lastBeat, missed, stopVars,
                 guard, failures, served>>

\* The options are checked, then the grace is known or read: an interval unsafe
\* for it is refused, an unreadable one is only warned about.  An aborted signal
\* never starts a loop.
Start ==
  /\ loop = "check"
  /\ \E known \in GraceReadable :
       LET valid == ValidOptions /\ ValidRetry /\ (known => SafeInterval) IN
         loop' = CASE ~valid -> "refused"
                   [] valid /\ aborted -> "done"
                   [] OTHER -> "wait"
  /\ deadline' = clock /\ origin' = clock
  /\ UNCHANGED <<clock, interval, beatAt, attempt, lastBeat, missed, stopVars,
                 guard, failures, served>>

-----------------------------------------------------------------------------
(* The loop.                                                               *)

\* Mutant: the slots are advanced over without being counted.
SkipUncounted(due, extra) ==
  /\ deadline' = due + Skipped(due) * interval
  /\ missed' = missed + extra

\* Advance over the slots from due on that are already stale, and count them.
SkipFrom(due, extra) ==
  /\ deadline' = due + Skipped(due) * interval
  /\ missed' = missed + Skipped(due) + extra

SameSecond == lastBeat # Never /\ Second(clock) = Second(lastBeat)

\* Mutant: an abort is looked at only while waiting, not after it.
WakeAnyway == loop = "wait" /\ ~Stopped /\ clock >= deadline

\* The wait ends at the deadline, or at once when the scheduler is stopped.
Awake == loop = "wait" /\ (Stopped \/ clock >= deadline)

StopLoop ==
  /\ Awake /\ Stopped
  /\ loop' = "done"
  /\ UNCHANGED <<clock, interval, deadline, beatAt, attempt, lastBeat, missed,
                 stopVars, guard, history>>

\* A second beat in the second of the last accepted one is not submitted.
Dedupe ==
  /\ Awake /\ ~Stopped /\ SameSecond
  /\ SkipFrom(deadline + interval, 0)
  /\ served' = served + 1
  /\ UNCHANGED <<clock, interval, loop, beatAt, attempt, lastBeat, stopVars,
                 guard, origin, failures>>

Send ==
  /\ loop' = "submit" /\ sent' = "flying"
  /\ adrift' = (adrift \/ sent = "lost")

Beat ==
  /\ Awake /\ ~Stopped /\ ~SameSecond
  /\ LET late == IF clock - deadline > MaxSkew THEN 1 ELSE 0 IN
       /\ SkipFrom(deadline + interval, late)
       /\ served' = served + 1 - late
  /\ Send
  /\ beatAt' = clock /\ attempt' = 1
  /\ UNCHANGED <<clock, interval, lastBeat, stopVars, landed, origin, failures>>

\* A beat is over: what run() does after submitBeat().  A stopped scheduler
\* reports nothing.
BeatEnds(ok) ==
  /\ SkipFrom(deadline, 0)
  /\ loop' = IF Stopped THEN "done" ELSE "wait"
  /\ lastBeat' = IF ok /\ ~Stopped THEN beatAt ELSE lastBeat
  /\ failures' = IF ok THEN 0 ELSE failures + 1
  /\ UNCHANGED <<clock, interval, beatAt, attempt, stopVars, landed, origin,
                 served>>

\* The guard accepted the heartbeat.
Allowed ==
  /\ loop = "submit" /\ sent = "landed"
  /\ sent' = "no"
  /\ BeatEnds(TRUE)
  /\ UNCHANGED adrift

\* Mutant: any submission that resolves is a beat.
AnyOutcomeIsABeat ==
  /\ loop = "submit" /\ failures < MaxFailures
  /\ sent' = IF sent = "flying" THEN "lost" ELSE "no"
  /\ BeatEnds(TRUE)
  /\ UNCHANGED adrift

\* Refused by the guard, a dry run, unconfirmed, or an error of no known kind:
\* final for this beat.  Unconfirmed, it may be included yet.
FinalFailure ==
  /\ loop = "submit" /\ failures < MaxFailures
  /\ sent' = IF sent = "flying" /\ ~Expired THEN "lost" ELSE "no"
  /\ BeatEnds(FALSE)
  /\ UNCHANGED adrift

\* A transport failure is retried after a backoff while the budget lasts.
TransportFailure ==
  /\ loop = "submit"
  /\ sent' = IF sent = "flying" THEN "lost" ELSE "no"
  /\ IF attempt >= MaxAttempts \/ Stopped
     THEN failures < MaxFailures /\ BeatEnds(FALSE) /\ UNCHANGED adrift
     ELSE /\ loop' = "backoff"
          /\ UNCHANGED <<clock, interval, deadline, beatAt, attempt, lastBeat,
                         missed, stopVars, adrift, landed, history>>

\* Mutant: stop() is not looked at after the backoff.
RetryAnyway ==
  /\ loop = "backoff"
  /\ Send /\ attempt' = attempt + 1
  /\ UNCHANGED <<clock, interval, deadline, beatAt, lastBeat, missed,
                 stopVars, landed, history>>

Retry ==
  /\ loop = "backoff" /\ ~Stopped
  /\ Send /\ attempt' = attempt + 1
  /\ UNCHANGED <<clock, interval, deadline, beatAt, lastBeat, missed,
                 stopVars, landed, history>>

GiveUp ==
  /\ loop = "backoff" /\ Stopped
  /\ BeatEnds(FALSE)
  /\ UNCHANGED <<sent, adrift>>

-----------------------------------------------------------------------------
(* stop(), the signal, and the answer to stop().                           *)

\* Only the first call decides how the wait is bounded; later ones share it.
Stop(how) ==
  /\ loop \in {"wait", "submit", "backoff", "done"} /\ ~Stopped
  /\ stop' = how
  /\ UNCHANGED <<clock, interval, loopVars, aborted, answer, guard, history>>

Abort ==
  /\ ~aborted /\ aborted' = TRUE
  /\ stop' = IF stop = "none" /\ loop \in {"wait", "submit", "backoff"}
             THEN "graceful" ELSE stop
  /\ UNCHANGED <<clock, interval, loopVars, answer, guard, history>>

StopCompletes ==
  /\ Stopped /\ answer = "none" /\ loop = "done"
  /\ answer' = "completed"
  /\ UNCHANGED <<clock, interval, loopVars, aborted, stop, guard, history>>

\* Its own timeout or signal fires first.
StopGivesUp ==
  /\ stop = "bounded" /\ answer = "none" /\ loop # "done"
  /\ answer' = "unsettled"
  /\ UNCHANGED <<clock, interval, loopVars, aborted, stop, guard, history>>

-----------------------------------------------------------------------------
(* The network and the clock.                                              *)

\* A heartbeat is included, unless the switch has fired.
Land ==
  /\ ~Expired
  /\ \/ sent = "flying" /\ sent' = "landed" /\ UNCHANGED adrift
     \/ sent = "lost" /\ sent' = "no" /\ UNCHANGED adrift
     \/ adrift /\ adrift' = FALSE /\ UNCHANGED sent
  /\ landed' = clock
  /\ UNCHANGED <<clock, interval, loopVars, stopVars, history>>

\* A transaction that nobody waits for is dropped.
Drop ==
  /\ \/ sent = "lost" /\ sent' = "no" /\ UNCHANGED adrift
     \/ adrift /\ adrift' = FALSE /\ UNCHANGED sent
  /\ UNCHANGED <<clock, interval, loopVars, stopVars, landed, history>>

\* Timers are at most MaxLate late, beats last at most MaxBeat.
Tick ==
  /\ loop \in {"wait", "submit", "backoff"} /\ clock < MaxSlots * interval
  /\ loop = "wait" => clock < deadline + MaxLate
  /\ loop \in {"submit", "backoff"} => clock < beatAt + MaxBeat
  /\ clock' = clock + 1
  /\ UNCHANGED <<interval, loopVars, stopVars, guard, history>>

Settle == Allowed \/ FinalFailure \/ TransportFailure

LoopStep == StopLoop \/ Dedupe \/ Beat \/ Retry \/ GiveUp

Next ==
  \/ Start \/ LoopStep \/ Settle
  \/ (\E how \in {"graceful", "bounded"} : Stop(how)) \/ Abort
  \/ StopCompletes \/ StopGivesUp
  \/ Land \/ Drop \/ Tick

Spec == Init /\ [][Next]_vars

\* Timers fire and ready tasks run; a submission need not settle, and time need
\* not pass.
FairSpec ==
  Spec /\ WF_vars(LoopStep) /\ WF_vars(StopCompletes) /\ WF_vars(StopGivesUp)

-----------------------------------------------------------------------------
(* Properties.                                                             *)

\* Every variable has its type.
TypeOK ==
  /\ clock \in Nat /\ interval \in Intervals /\ aborted \in BOOLEAN
  /\ loop \in {"check", "wait", "submit", "backoff", "done", "refused"}
  /\ deadline \in Nat /\ beatAt \in Nat \cup {Never} /\ attempt \in Nat
  /\ lastBeat \in Nat \cup {Never} /\ missed \in Nat
  /\ stop \in {"none", "graceful", "bounded"}
  /\ answer \in {"none", "completed", "unsettled"}
  /\ sent \in {"no", "flying", "landed", "lost"} /\ adrift \in BOOLEAN
  /\ landed \in Nat \cup {Never}
  /\ {origin, failures, served} \subseteq Nat

\* Every slot that went by was beaten, left out because its second was beaten,
\* or is in missedBeats, which counts late beats besides (894-908).
SlotsAccounted ==
  loop \in {"wait", "submit", "backoff"} =>
    deadline = origin + interval * (served + missed)

\* lastBeatAt never claims a beat the contract does not have: the account's own
\* countdown runs from no earlier (260, 911).
NoFalseBeat == lastBeat # Never => landed >= lastBeat

\* After stop() nothing is submitted any more, not by a retry either (248-257).
NothingSentAfterStop ==
  [][Stopped /\ sent' = "flying" => sent = "flying"]_vars

\* With the interval the start check accepts, punctual timers and short beats,
\* one failed beat in a row does not let the switch fire (269-271).
SwitchHolds ==
  /\ SafeInterval /\ MaxFailures <= 1
  /\ MaxLate + MaxBeat + TicksPerSecond <= interval
  /\ loop \in {"wait", "submit", "backoff"} /\ ~Stopped
  => ~Expired

\* A dashboard that looks every tick is warned before the switch fires, if the
\* grace is long enough to hold a warning, and is told of neither when no beat
\* was ever made (dms.ts 33-48).
WarnedInTime ==
  [][Grace >= 5 /\ Urgency \in {"ok", "unknown"} => Urgency' # "expired"]_vars

\* stop() answers: a bounded one in any case, a graceful one if submissions
\* settle (917-921).
StopIsAnswered ==
  /\ stop = "bounded" ~> answer # "none"
  /\ []<>(loop # "submit") => (Stopped ~> answer # "none")

=============================================================================
