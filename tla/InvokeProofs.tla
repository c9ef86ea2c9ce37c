---------------------------- MODULE InvokeProofs ----------------------------
(***************************************************************************)
(* Proofs about Invoke for any number of calls, attempts, polls, lags and   *)
(* foreign transactions: type correctness, that the account queue admits    *)
(* one invocation at a time, that no sequence number is used twice, that    *)
(* Invoke implements CallOutcome, and that a spent deadline ends a call.    *)
(***************************************************************************)
EXTENDS InvokeOutcome, FiniteSetTheorems, TLAPS

-----------------------------------------------------------------------------
(* Type correctness.                                                       *)

\* The part of the state that Settle, Await and OnTime change.
TaskOK ==
  /\ tail \in Invokes \cup {Nobody}
  /\ behind \in [Calls -> Invokes \cup {Nobody}]
  /\ at \in [Calls -> Awaits]
  /\ answer \in [Calls -> [kind : Kinds, seq : Nat]]

\* How a task moves: it settles with some answer, or goes on to another await.
Moves(c) ==
  \/ \E kind \in Kinds, seq \in Nat : Settle(c, kind, seq)
  \/ \E next \in Awaits \ {"idle", "queued", "over"} : Await(c, next)

LEMMA MovesKeepTypes ==
  ASSUME TaskOK, NEW c \in Calls, Moves(c)
  PROVE  TaskOK'
<1>1. CASE \E kind \in Kinds, seq \in Nat : Settle(c, kind, seq)
  <2>1. PICK kind \in Kinds, seq \in Nat : Settle(c, kind, seq)
    BY <1>1
  <2>2. answer' \in [Calls -> [kind : Kinds, seq : Nat]]
    BY <2>1 DEF Settle, Tell, TaskOK
  <2>3. tail' \in Invokes \cup {Nobody} /\ behind' = behind
    BY <2>1 DEF Settle, TaskOK
  <2>4. at' \in [Calls -> Awaits]
    BY <2>1 DEF Settle, TaskOK, Awaits
  <2> QED
    BY <2>2, <2>3, <2>4 DEF TaskOK
<1>2. CASE \E next \in Awaits \ {"idle", "queued", "over"} : Await(c, next)
  BY <1>2 DEF TaskOK, Await, queue
<1> QED
  BY <1>1, <1>2 DEF Moves

\* A settling or an on-time reply is a move.
LEMMA OnTimeMoves ==
  ASSUME NEW c \in Calls, NEW next \in Awaits \ {"idle", "queued", "over"},
         OnTime(c, next)
  PROVE  Moves(c)
BY DEF OnTime, Moves, Kinds, NoTx

LEMMA TxIsTyped ==
  ASSUME TypeOK, NEW c \in Calls
  PROVE  Tx(c) \in [call : Calls, seq : Nat]
BY DEF TypeOK, Tx

\* What a failed submission does to the task and to its retry record.
LEMMA RetryMoves ==
  ASSUME TypeOK, NEW c \in Calls, NEW cause \in Causes, Retry(c, cause)
  PROVE  Moves(c) /\ attempts' \in [Calls -> Nat] /\ why' \in [Calls -> Causes]
<1>1. Tx(c).seq \in Nat
  BY TxIsTyped
<1>2. CASE cause = "none" /\ Settle(c, "error", Tx(c).seq) /\ UNCHANGED <<attempts, why>>
  BY <1>1, <1>2 DEF Moves, Kinds, TypeOK
<1>3. CASE why' = [why EXCEPT ![c] = cause] /\ BeginAttempt(c)
  <2>1. Moves(c)
    BY <1>3, OnTimeMoves DEF BeginAttempt, Awaits
  <2>2. attempts' \in [Calls -> Nat]
    BY <1>3 DEF BeginAttempt, TypeOK
  <2> QED
    BY <1>3, <2>1, <2>2 DEF TypeOK
<1>4. CASE Settle(c, "exhausted", NoTx) /\ UNCHANGED <<attempts, why>>
  BY <1>4 DEF Moves, Kinds, TypeOK, NoTx
<1>5. CASE Settle(c, "exhausted", Tx(c).seq) /\ UNCHANGED <<attempts, why>>
  BY <1>1, <1>5 DEF Moves, Kinds, TypeOK
<1>6. CASE /\ OnTime(c, "backoff") /\ UNCHANGED attempts
           /\ why' = IF expired[c] THEN why ELSE [why EXCEPT ![c] = cause]
  BY <1>6, OnTimeMoves DEF Awaits, TypeOK
<1> QED
  BY <1>2, <1>3, <1>4, <1>5, <1>6 DEF Retry

\* Every reply, turn in the queue and backoff moves its own task, and touches the
\* types of nothing else but its transaction and its records.
LEMMA AnsweredMoves ==
  ASSUME TypeOK, NEW c \in Calls, Answered(c) \/ Scheduled(c) \/ (c \in Probes /\ Probe(c))
  PROVE  Moves(c)
<1> USE DEF Kinds, NoTx, Awaits, Building
<1>1. CASE AccountReply(c)
  BY <1>1, OnTimeMoves DEF AccountReply, Moves
<1>2. CASE LedgerReply(c)
  BY <1>2 DEF LedgerReply, Moves
<1>3. CASE ProbeReply(c) \/ Signed(c) \/ Assembled(c)
  BY <1>3, OnTimeMoves DEF ProbeReply, Signed, Assembled, Moves
<1>4. CASE SimulateReply(c)
  <2>1. CASE Settle(c, IF expired[c] THEN "deadline" ELSE "admissible", NoTx)
    BY <2>1 DEF Moves
  <2> QED
    BY <1>4, <2>1, OnTimeMoves DEF SimulateReply, Moves
<1>5. CASE Sealed(c)
  BY <1>5 DEF Sealed, Moves
<1>6. CASE SendReply(c)
  <2>1. CASE Settle(c, "error", NoTx) \/ Await(c, "poll")
    BY <2>1 DEF Moves
  <2>2. CASE Settle(c, "deadline", Tx(c).seq)
    BY <2>2, TxIsTyped DEF Moves
  <2>3. CASE \E cause \in RejectionCauses(c) : Retry(c, cause)
    BY <2>3, RetryMoves DEF RejectionCauses, Causes
  <2> QED
    BY <1>6, <2>1, <2>2, <2>3 DEF SendReply
<1>7. CASE PollReply(c)
  <2>1. CASE \E kind \in Kinds : Settle(c, kind, Tx(c).seq)
    BY <2>1, TxIsTyped DEF Moves
  <2>2. CASE \E cause \in Causes : Retry(c, cause)
    BY <2>2, RetryMoves
  <2>3. CASE Unconfirmed(c)
    BY <2>3, TxIsTyped DEF Unconfirmed, Moves
  <2> QED
    BY <1>7, <2>1, <2>2, <2>3 DEF PollReply, Causes
<1>8. CASE Scheduled(c) \/ Probe(c)
  BY <1>8, OnTimeMoves DEF Scheduled, Start, BackoffEnds, Probe, BeginAttempt
<1> QED
  BY <1>1, <1>2, <1>3, <1>4, <1>5, <1>6, <1>7, <1>8 DEF Answered

\* The network and the records that a moving task changes keep their types.
RecordsOK ==
  /\ ledger \in Seq([call : Calls \cup {Nobody}, result : Results])
  /\ mempool \subseteq [call : Calls, seq : Nat]
  /\ lastReserved \in Nat \cup {-1}
  /\ fetched \in [Calls -> Nat] /\ nextSeq \in [Calls -> Nat]
  /\ attempts \in [Calls -> Nat] /\ polls \in [Calls -> Nat]
  /\ why \in [Calls -> Causes]
  /\ expired \in [Calls -> BOOLEAN]

LEMMA TypeSplits == TypeOK <=> TaskOK /\ RecordsOK
BY DEF TypeOK, TaskOK, RecordsOK

LEMMA AnsweredKeepsRecords ==
  ASSUME TypeOK, NEW c \in Calls, Answered(c) \/ Scheduled(c) \/ (c \in Probes /\ Probe(c))
  PROVE  RecordsOK'
<1> USE DEF network, attempt
<1>1. CASE AccountReply(c)
  <2>1. ASSUME NEW lag \in 0..MaxLag, lag <= ChainSeq,
               fetched' = [fetched EXCEPT ![c] = ChainSeq - lag]
        PROVE  fetched' \in [Calls -> Nat]
    <3>1. ChainSeq \in Nat
      BY DEF ChainSeq, TypeOK
    <3>2. ChainSeq - lag \in Nat
      BY <2>1, <3>1, InvokeAssumption
    <3> QED
      BY <2>1, <3>2 DEF TypeOK
  <2>2. fetched' \in [Calls -> Nat]
    BY <1>1, <2>1 DEF AccountReply, TypeOK
  <2> QED
    BY <1>1, <2>2 DEF AccountReply, TypeOK, RecordsOK
<1>2. CASE LedgerReply(c)
  <2>1. Reserve(lastReserved, fetched[c]) \in Nat
    BY DEF Reserve, TypeOK
  <2>2. lastReserved' \in Nat \cup {-1} /\ nextSeq' \in [Calls -> Nat]
    BY <1>2, <2>1 DEF LedgerReply, TypeOK
  <2> QED
    BY <1>2, <2>2 DEF LedgerReply, TypeOK, RecordsOK
<1>3. CASE ProbeReply(c) \/ Signed(c) \/ SimulateReply(c) \/ Assembled(c) \/ Sealed(c)
  BY <1>3 DEF ProbeReply, Signed, SimulateReply, Assembled, Sealed, TypeOK, RecordsOK
<1>4. CASE SendReply(c)
  <2>1. mempool' \subseteq [call : Calls, seq : Nat]
    <3>1. mempool' = mempool \/ mempool' = mempool \cup {Tx(c)}
      BY <1>4 DEF SendReply, Held
    <3>2. mempool \subseteq [call : Calls, seq : Nat]
      BY DEF TypeOK
    <3> QED
      BY <3>1, <3>2, TxIsTyped
  <2>2. attempts' \in [Calls -> Nat] /\ why' \in [Calls -> Causes]
    <3>1. CASE \E cause \in RejectionCauses(c) : Retry(c, cause)
      BY <3>1, RetryMoves DEF RejectionCauses, Causes
    <3>2. CASE UNCHANGED <<attempts, why>>
      BY <3>2 DEF TypeOK
    <3> QED
      BY <1>4, <3>1, <3>2 DEF SendReply
  <2>3. polls' \in [Calls -> Nat]
    BY <1>4, InvokeAssumption DEF SendReply, TypeOK
  <2> QED
    BY <1>4, <2>1, <2>2, <2>3 DEF SendReply, TypeOK, RecordsOK
<1>5. CASE PollReply(c)
  <2>1. attempts' \in [Calls -> Nat] /\ why' \in [Calls -> Causes]
    <3>1. CASE \E cause \in Causes : Retry(c, cause)
      BY <3>1, RetryMoves
    <3>2. CASE UNCHANGED <<attempts, why>>
      BY <3>2 DEF TypeOK
    <3> QED
      BY <1>5, <3>1, <3>2 DEF PollReply, Unconfirmed, Causes
  <2>2. polls' \in [Calls -> Nat]
    BY <1>5 DEF PollReply, Unconfirmed, TypeOK
  <2> QED
    BY <1>5, <2>1, <2>2 DEF PollReply, TypeOK, RecordsOK
<1>6. CASE Scheduled(c) \/ Probe(c)
  <2>1. BeginAttempt(c)
    BY <1>6 DEF Scheduled, Start, BackoffEnds, Probe
  <2>2. attempts' \in [Calls -> Nat]
    BY <2>1 DEF BeginAttempt, TypeOK
  <2> QED
    BY <1>6, <2>2 DEF Scheduled, Start, BackoffEnds, Probe, TypeOK, RecordsOK
<1> QED
  BY <1>1, <1>2, <1>3, <1>4, <1>5, <1>6 DEF Answered

\* The steps of the callers and of the network keep the types.
LEMMA OthersKeepTypes ==
  ASSUME TypeOK,
         \/ \E c \in Invokes : Enqueue(c)
         \/ \E c \in Calls : TurnAway(c) \/ CallerLeaves(c) \/ Expire(c)
         \/ \E t \in mempool : Include(t)
         \/ Outsider
  PROVE  TypeOK'
<1> USE DEF network, attempt, queue
<1>1. CASE \E c \in Invokes : Enqueue(c)
  <2>1. PICK c \in Invokes : Enqueue(c)
    BY <1>1
  <2>2. c \in Calls
    BY DEF Calls
  <2>3. at' \in [Calls -> Awaits]
    BY <2>1 DEF Enqueue, TypeOK, Awaits
  <2>4. behind' \in [Calls -> Invokes \cup {Nobody}] /\ tail' \in Invokes \cup {Nobody}
    BY <2>1 DEF Enqueue, TypeOK
  <2> QED
    BY <2>1, <2>3, <2>4 DEF Enqueue, TypeOK
<1>2. CASE \E c \in Calls : TurnAway(c)
  <2>1. PICK c \in Calls : TurnAway(c)
    BY <1>2
  <2>2. answer' \in [Calls -> [kind : Kinds, seq : Nat]]
    BY <2>1 DEF TurnAway, Tell, TypeOK, Kinds, NoTx
  <2>3. at' \in [Calls -> Awaits]
    BY <2>1 DEF TurnAway, TypeOK, Awaits
  <2> QED
    BY <2>1, <2>2, <2>3 DEF TurnAway, TypeOK
<1>3. CASE \E c \in Calls : CallerLeaves(c)
  <2>1. PICK c \in Calls : CallerLeaves(c)
    BY <1>3
  <2>2. answer' \in [Calls -> [kind : Kinds, seq : Nat]]
    BY <2>1 DEF CallerLeaves, Tell, TypeOK, Kinds, NoTx
  <2> QED
    BY <2>1, <2>2 DEF CallerLeaves, TypeOK
<1>4. CASE \E c \in Calls : Expire(c)
  BY <1>4 DEF Expire, TypeOK
<1>5. CASE \E t \in mempool : Include(t)
  <2>1. PICK t \in mempool : Include(t)
    BY <1>5
  <2>2. PICK r \in Results : ledger' = Append(ledger, [call |-> t.call, result |-> r])
    BY <2>1 DEF Include
  <2>3. ledger' \in Seq([call : Calls \cup {Nobody}, result : Results])
    BY <2>2 DEF TypeOK
  <2>4. mempool' \subseteq [call : Calls, seq : Nat]
    BY <2>1 DEF Include, TypeOK
  <2> QED
    BY <2>1, <2>3, <2>4 DEF Include, TypeOK
<1>6. CASE Outsider
  <2>1. ledger' \in Seq([call : Calls \cup {Nobody}, result : Results])
    BY <1>6 DEF Outsider, TypeOK, Results
  <2> QED
    BY <1>6, <2>1 DEF Outsider, TypeOK
<1> QED
  BY <1>1, <1>2, <1>3, <1>4, <1>5, <1>6

\* Next, by who takes the step: a task, or a caller or the network.
LEMMA NextSplits ==
  ASSUME Next
  PROVE  \/ \E c \in Calls :
              Answered(c) \/ Scheduled(c) \/ (c \in Probes /\ Probe(c))
         \/ \E c \in Invokes : Enqueue(c)
         \/ \E c \in Calls : TurnAway(c) \/ CallerLeaves(c) \/ Expire(c)
         \/ \E t \in mempool : Include(t)
         \/ Outsider
BY DEF Next, Scheduled, Calls

\* Every variable of the pipeline keeps its type, for any constants.
THEOREM TypeCorrect == Spec => []TypeOK
<1>1. Init => TypeOK
  BY DEF Init, TypeOK, Calls, Awaits, Causes, Kinds, NoTx
<1>2. TypeOK /\ [Next]_vars => TypeOK'
  <2>1. ASSUME TypeOK, NEW c \in Calls,
               Answered(c) \/ Scheduled(c) \/ (c \in Probes /\ Probe(c))
        PROVE  TypeOK'
    <3>1. TaskOK'
      BY <2>1, AnsweredMoves, MovesKeepTypes, TypeSplits
    <3>2. RecordsOK'
      BY <2>1, AnsweredKeepsRecords
    <3> QED
      BY <3>1, <3>2 DEF TypeOK, TaskOK, RecordsOK
  <2>2. ASSUME TypeOK, UNCHANGED vars
        PROVE  TypeOK'
    BY <2>2 DEF TypeOK, vars, network, queue, attempt
  <2> QED
    BY <2>1, <2>2, NextSplits, OthersKeepTypes
<1> QED
  BY <1>1, <1>2, PTL DEF Spec

-----------------------------------------------------------------------------
(* The promise chain is a queue.  QueueExclusive is not inductive: that only  *)
(* the front of the chain can start needs that the calls in progress form a   *)
(* single chain, each waiting behind the one before it, with `tail` its end.  *)

IsQueue(q) ==
  /\ q \in Seq(Invokes)
  /\ \A c \in Invokes : InProgress(c) => \E i \in DOMAIN q : q[i] = c
  /\ \A i \in DOMAIN q : InProgress(q[i])
  /\ \A i, j \in DOMAIN q : q[i] = q[j] => i = j
  /\ tail = IF q = <<>> THEN Nobody ELSE q[Len(q)]
  /\ \A i \in DOMAIN q : i > 1 => behind[q[i]] = q[i - 1] /\ at[q[i]] = "queued"

QueueInv == \E q \in Seq(Invokes) : IsQueue(q)

\* Whoever works is at the front.
LEMMA WorkerIsFront ==
  ASSUME NEW q, IsQueue(q), NEW c \in Invokes, Working(c)
  PROVE  q # <<>> /\ q[1] = c
<1>1. InProgress(c) /\ at[c] # "queued"
  BY DEF Working, InProgress
<1>2. PICK i \in DOMAIN q : q[i] = c
  BY <1>1 DEF IsQueue
<1>3. i = 1
  BY <1>1, <1>2 DEF IsQueue
<1> QED
  BY <1>2, <1>3 DEF IsQueue

\* Whoever may start is at the front.
LEMMA StarterIsFront ==
  ASSUME NEW q, IsQueue(q), NEW c \in Invokes, at[c] = "queued", Released(behind[c])
  PROVE  q # <<>> /\ q[1] = c
<1>1. PICK i \in DOMAIN q : q[i] = c
  BY DEF IsQueue, InProgress
<1>2. ASSUME i > 1
      PROVE  FALSE
  <2>1. i - 1 \in DOMAIN q /\ behind[c] = q[i - 1]
    BY <1>1, <1>2 DEF IsQueue
  <2>2. behind[c] \in Calls /\ at[behind[c]] # "over"
    BY <2>1 DEF IsQueue, InProgress, Calls
  <2> QED
    BY <2>2 DEF Released
<1> QED
  BY <1>1, <1>2 DEF IsQueue

\* The front settles: the chain loses its first element.
LEMMA FrontLeaves ==
  ASSUME TypeOK, NEW q, IsQueue(q), q # <<>>,
         NEW kind, NEW seq, Settle(q[1], kind, seq)
  PROVE  IsQueue(Tail(q))'
<1> DEFINE r == Tail(q)
<1>1. /\ q \in Seq(Invokes) /\ Len(q) \in Nat \ {0} /\ q[1] \in Calls
      /\ r \in Seq(Invokes) /\ Len(r) = Len(q) - 1
      /\ \A i \in DOMAIN r : i + 1 \in DOMAIN q /\ r[i] = q[i + 1]
  BY DEF IsQueue, Calls
<1>2. \A c \in Calls : at'[c] = IF c = q[1] THEN "over" ELSE at[c]
  BY <1>1 DEF Settle, TypeOK
<1>3. ASSUME NEW c \in Invokes, InProgress(c)'
      PROVE  \E i \in DOMAIN r : r[i] = c
  <2>1. c # q[1] /\ InProgress(c)
    BY <1>1, <1>2, <1>3 DEF InProgress, Calls
  <2>2. PICK i \in DOMAIN q : q[i] = c
    BY <2>1 DEF IsQueue
  <2>3. i > 1 /\ i - 1 \in DOMAIN r
    BY <1>1, <2>1, <2>2
  <2> QED
    BY <1>1, <2>2, <2>3
<1>4. \A i \in DOMAIN r : r[i] \in Invokes /\ r[i] # q[1]
  BY <1>1 DEF IsQueue
<1>5. \A i \in DOMAIN r : InProgress(r[i])'
  BY <1>1, <1>2, <1>4 DEF InProgress, IsQueue, Calls
<1>6. \A i, j \in DOMAIN r : r[i] = r[j] => i = j
  BY <1>1 DEF IsQueue
<1>7. tail' = IF r = <<>> THEN Nobody ELSE r[Len(r)]
  <2>1. CASE Len(q) = 1
    BY <1>1, <2>1 DEF IsQueue, Settle
  <2>2. CASE Len(q) > 1
    <3>1. r # <<>> /\ r[Len(r)] = q[Len(q)] /\ q[Len(q)] # q[1]
      BY <1>1, <2>2 DEF IsQueue
    <3>2. tail = q[Len(q)]
      BY <1>1, <2>2 DEF IsQueue
    <3> QED
      BY <3>1, <3>2 DEF Settle
  <2> QED
    BY <1>1, <2>1, <2>2
<1>8. ASSUME NEW i \in DOMAIN r, i > 1
      PROVE  behind'[r[i]] = r[i - 1] /\ at'[r[i]] = "queued"
  <2>1. i + 1 \in DOMAIN q /\ r[i] = q[i + 1] /\ r[i - 1] = q[i]
    BY <1>1, <1>8
  <2>2. behind[q[i + 1]] = q[i] /\ at[q[i + 1]] = "queued"
    BY <1>8, <2>1 DEF IsQueue
  <2>3. at'[r[i]] = at[r[i]] /\ behind' = behind
    BY <1>2, <1>4 DEF Settle, Calls
  <2> QED
    BY <2>1, <2>2, <2>3
<1> QED
  BY <1>1, <1>3, <1>5, <1>6, <1>7, <1>8 DEF IsQueue

\* The front goes on to another await: the chain stays as it is.
LEMMA FrontGoesOn ==
  ASSUME TypeOK, NEW q, IsQueue(q), q # <<>>,
         NEW next \in Awaits \ {"idle", "queued", "over"}, Await(q[1], next)
  PROVE  IsQueue(q)'
<1>1. q[1] \in Calls /\ 1 \in DOMAIN q
  BY DEF IsQueue, Calls
<1>2. \A c \in Calls : at'[c] = IF c = q[1] THEN next ELSE at[c]
  BY <1>1 DEF Await, TypeOK
<1>3. tail' = tail /\ behind' = behind
  BY DEF Await, queue
<1>4. \A c \in Invokes : InProgress(c)' <=> InProgress(c)
  <2>1. InProgress(q[1])
    BY <1>1 DEF IsQueue
  <2> QED
    BY <1>2, <2>1 DEF InProgress, Calls
<1>5. \A i \in DOMAIN q : q[i] \in Invokes
  BY DEF IsQueue
<1>6. \A i \in DOMAIN q : i > 1 => q[i] # q[1]
  BY <1>1 DEF IsQueue
<1>7. ASSUME NEW i \in DOMAIN q, i > 1
      PROVE  behind'[q[i]] = q[i - 1] /\ at'[q[i]] = "queued"
  BY <1>2, <1>3, <1>5, <1>6, <1>7 DEF IsQueue, Calls
<1> QED
  BY <1>3, <1>4, <1>5, <1>7 DEF IsQueue

\* A step of a probe, or one that changes neither the chain nor where invocations are.
LEMMA QueueUntouched ==
  ASSUME NEW q, IsQueue(q), tail' = tail,
         \A c \in Invokes : behind'[c] = behind[c]
                            /\ (at'[c] = at[c] \/ (at[c] = "idle" /\ at'[c] = "over"))
  PROVE  IsQueue(q)'
<1>1. \A c \in Invokes : InProgress(c)' <=> InProgress(c)
  BY DEF InProgress
<1>2. \A i \in DOMAIN q : q[i] \in Invokes /\ at'[q[i]] = at[q[i]]
  BY DEF IsQueue, InProgress
<1>3. ASSUME NEW i \in DOMAIN q, i > 1
      PROVE  behind'[q[i]] = q[i - 1] /\ at'[q[i]] = "queued"
  BY <1>2, <1>3 DEF IsQueue
<1> QED
  BY <1>1, <1>2, <1>3 DEF IsQueue

\* A call joins: the chain grows by one element at its end.
LEMMA EnqueueGrows ==
  ASSUME TypeOK, NEW q, IsQueue(q), NEW c \in Invokes, Enqueue(c)
  PROVE  IsQueue(Append(q, c))'
<1> DEFINE r == Append(q, c)
<1>1. /\ q \in Seq(Invokes) /\ Len(q) \in Nat
      /\ r \in Seq(Invokes) /\ Len(r) = Len(q) + 1 /\ r[Len(q) + 1] = c
      /\ \A i \in DOMAIN q : i \in DOMAIN r /\ r[i] = q[i] /\ q[i] \in Invokes
      /\ \A i \in DOMAIN r : i \in DOMAIN q \/ i = Len(q) + 1
  BY DEF IsQueue
<1>2. \A d \in Invokes : /\ at'[d] = IF d = c THEN "queued" ELSE at[d]
                         /\ behind'[d] = IF d = c THEN tail ELSE behind[d]
  BY DEF Enqueue, TypeOK, Calls
<1>3. \A i \in DOMAIN q : q[i] # c
  BY DEF IsQueue, InProgress, Enqueue
<1>4. ASSUME NEW d \in Invokes, InProgress(d)'
      PROVE  \E i \in DOMAIN r : r[i] = d
  <2>1. CASE d = c
    BY <1>1, <2>1
  <2>2. CASE d # c
    <3>1. InProgress(d)
      BY <1>2, <1>4, <2>2 DEF InProgress
    <3> QED
      BY <1>1, <3>1 DEF IsQueue
  <2> QED
    BY <2>1, <2>2
<1>5. \A i \in DOMAIN r : InProgress(r[i])'
  BY <1>1, <1>2, <1>3 DEF InProgress, IsQueue
<1>6. \A i, j \in DOMAIN r : r[i] = r[j] => i = j
  BY <1>1, <1>3 DEF IsQueue
<1>7. tail' = IF r = <<>> THEN Nobody ELSE r[Len(r)]
  BY <1>1 DEF Enqueue
<1>8. ASSUME NEW i \in DOMAIN r, i > 1
      PROVE  behind'[r[i]] = r[i - 1] /\ at'[r[i]] = "queued"
  <2>1. CASE i \in DOMAIN q
    <3>1. i - 1 \in DOMAIN q /\ r[i - 1] = q[i - 1] /\ r[i] = q[i]
      BY <1>1, <1>8, <2>1
    <3>2. behind[q[i]] = q[i - 1] /\ at[q[i]] = "queued"
      BY <1>8, <2>1 DEF IsQueue
    <3> QED
      BY <1>1, <1>2, <1>3, <2>1, <3>1, <3>2
  <2>2. CASE i = Len(q) + 1
    <3>1. q # <<>> /\ r[i - 1] = q[Len(q)] /\ r[i] = c
      BY <1>1, <1>8, <2>2
    <3>2. tail = q[Len(q)]
      BY <3>1 DEF IsQueue
    <3> QED
      BY <1>2, <3>1, <3>2
  <2> QED
    BY <1>1, <2>1, <2>2
<1> QED
  BY <1>1, <1>4, <1>5, <1>6, <1>7, <1>8 DEF IsQueue

\* Any step of a task keeps the chain: only the front moves.
LEMMA TaskKeepsQueue ==
  ASSUME TypeOK, QueueInv, NEW c \in Calls,
         Answered(c) \/ Scheduled(c) \/ (c \in Probes /\ Probe(c))
  PROVE  QueueInv'
<1>1. PICK q \in Seq(Invokes) : IsQueue(q)
  BY DEF QueueInv
<1>2. Moves(c)
  BY AnsweredMoves
<1>3. CASE c \in Invokes
  <2>1. q # <<>> /\ q[1] = c
    <3>1. CASE Answered(c)
      <4>1. Working(c)
        BY <3>1 DEF Working, Answered, AccountReply, LedgerReply, ProbeReply,
                    Signed, SimulateReply, Assembled, Sealed, SendReply, PollReply
      <4> QED
        BY <1>1, <1>3, <4>1, WorkerIsFront
    <3>2. CASE BackoffEnds(c)
      <4>1. Working(c)
        BY <3>2 DEF Working, BackoffEnds
      <4> QED
        BY <1>1, <1>3, <4>1, WorkerIsFront
    <3>3. CASE Start(c)
      BY <1>1, <1>3, <3>3, StarterIsFront DEF Start
    <3> QED
      BY <1>3, <3>1, <3>2, <3>3, InvokeAssumption DEF Scheduled
  <2>2. CASE \E kind \in Kinds, seq \in Nat : Settle(c, kind, seq)
    <3>1. IsQueue(Tail(q))'
      BY <1>1, <2>1, <2>2, FrontLeaves
    <3>2. Tail(q) \in Seq(Invokes)
      BY <2>1
    <3> QED
      BY <3>1, <3>2 DEF QueueInv
  <2>3. CASE \E next \in Awaits \ {"idle", "queued", "over"} : Await(c, next)
    <3>1. IsQueue(q)'
      BY <1>1, <2>1, <2>3, FrontGoesOn
    <3> QED
      BY <3>1 DEF QueueInv
  <2> QED
    BY <1>2, <2>2, <2>3 DEF Moves
<1>4. CASE c \notin Invokes
  <2>1. tail' = tail /\ behind' = behind
    <3>1. tail # c
      BY <1>4, InvokeAssumption DEF TypeOK
    <3> QED
      BY <1>2, <3>1 DEF Moves, Settle, Await, queue
  <2>2. \A d \in Invokes : at'[d] = at[d]
    BY <1>2, <1>4 DEF Moves, Settle, Await, TypeOK, Calls
  <2>3. IsQueue(q)'
    BY <1>1, <2>1, <2>2, QueueUntouched
  <2> QED
    BY <2>3 DEF QueueInv
<1> QED
  BY <1>3, <1>4

LEMMA OthersKeepQueue ==
  ASSUME TypeOK, QueueInv,
         \/ \E c \in Invokes : Enqueue(c)
         \/ \E c \in Calls : TurnAway(c) \/ CallerLeaves(c) \/ Expire(c)
         \/ \E t \in mempool : Include(t)
         \/ Outsider
  PROVE  QueueInv'
<1>1. PICK q \in Seq(Invokes) : IsQueue(q)
  BY DEF QueueInv
<1>2. CASE \E c \in Invokes : Enqueue(c)
  <2>1. PICK c \in Invokes : Enqueue(c)
    BY <1>2
  <2>2. IsQueue(Append(q, c))' /\ Append(q, c) \in Seq(Invokes)
    BY <1>1, <2>1, EnqueueGrows
  <2> QED
    BY <2>2 DEF QueueInv
<1>3. CASE \E c \in Calls : TurnAway(c)
  <2>1. PICK c \in Calls : TurnAway(c)
    BY <1>3
  <2>2. \A d \in Invokes : at'[d] = at[d] \/ (at[d] = "idle" /\ at'[d] = "over")
    BY <2>1 DEF TurnAway, TypeOK, Calls
  <2>3. IsQueue(q)'
    BY <1>1, <2>1, <2>2, QueueUntouched DEF TurnAway, queue
  <2> QED
    BY <2>3 DEF QueueInv
<1>4. CASE \/ \E c \in Calls : CallerLeaves(c) \/ Expire(c)
           \/ \E t \in mempool : Include(t)
           \/ Outsider
  <2>1. UNCHANGED <<queue, at>>
    BY <1>4 DEF CallerLeaves, Expire, Include, Outsider
  <2>2. IsQueue(q)'
    BY <1>1, <2>1, QueueUntouched DEF queue
  <2> QED
    BY <2>2 DEF QueueInv
<1> QED
  BY <1>2, <1>3, <1>4

\* One invocation of the account at a time, however many there are.
THEOREM OneAtATime == Spec => []QueueExclusive
<1>1. Init => QueueInv
  <2>1. ASSUME Init
        PROVE  IsQueue(<<>>)
    BY <2>1 DEF Init, IsQueue, InProgress, Calls
  <2>2. <<>> \in Seq(Invokes)
    OBVIOUS
  <2> QED
    BY <2>1, <2>2 DEF QueueInv
<1>2. TypeOK /\ QueueInv /\ [Next]_vars => QueueInv'
  <2>1. ASSUME QueueInv, UNCHANGED vars
        PROVE  QueueInv'
    BY <2>1, QueueUntouched DEF QueueInv, vars, queue
  <2> QED
    BY <2>1, NextSplits, TaskKeepsQueue, OthersKeepQueue
<1>3. QueueInv => QueueExclusive
  BY WorkerIsFront DEF QueueInv, QueueExclusive
<1> QED
  BY <1>1, <1>2, <1>3, TypeCorrect, PTL DEF Spec

-----------------------------------------------------------------------------
(* Sequence numbers.  The invariant is the property and two bounds: whatever  *)
(* is in use or was used lies below the next reservation.                    *)

SeqInv ==
  /\ NoSequenceReuse
  /\ \A c \in Calls : Reserving(c) => nextSeq[c] <= lastReserved
  /\ \A s \in Spent : s <= lastReserved + 1

\* Nothing is reserved and nothing spent: the task only moves on, or out.
Quiet ==
  /\ \A c \in Calls : /\ Reserving(c)' => Reserving(c)
                      /\ at'[c] \in Building => at[c] \in Building
  /\ UNCHANGED <<nextSeq, lastReserved>>
  /\ Spent' \subseteq Spent

LEMMA QuietKeepsSeqInv ==
  ASSUME TypeOK, SeqInv, Quiet
  PROVE  SeqInv'
BY DEF SeqInv, Quiet, NoSequenceReuse, Tx

\* Where a task is after a step: it stays itself the only one that moved.
GoesTo(c, places) == \E p \in places : at' = [at EXCEPT ![c] = p]

LEMMA OnTimeGoesTo ==
  ASSUME NEW c, NEW next, OnTime(c, next)
  PROVE  GoesTo(c, {"over", next})
BY DEF OnTime, Settle, Await, GoesTo

LEMMA RetryGoesTo ==
  ASSUME NEW c, NEW cause, Retry(c, cause)
  PROVE  GoesTo(c, {"over", "account", "backoff"})
<1>1. CASE \E kind, seq : Settle(c, kind, seq)
  BY <1>1 DEF Settle, GoesTo
<1>2. CASE OnTime(c, "account") \/ OnTime(c, "backoff")
  BY <1>2, OnTimeGoesTo DEF GoesTo
<1> QED
  BY <1>1, <1>2 DEF Retry, BeginAttempt

\* A task that goes where nothing is reserved, or within what it reserved.
LEMMA GoingIsQuiet ==
  ASSUME TypeOK, NEW c \in Calls, NEW places, GoesTo(c, places),
         \/ places \cap (Building \cup {"poll"}) = {}
         \/ at[c] \in Building
         \/ at[c] = "poll" /\ places \cap Building = {}
  PROVE  \A d \in Calls : /\ Reserving(d)' => Reserving(d)
                          /\ at'[d] \in Building => at[d] \in Building
<1>1. PICK p \in places : at' = [at EXCEPT ![c] = p]
  BY DEF GoesTo
<1>2. \A d \in Calls : at'[d] = IF d = c THEN p ELSE at[d]
  BY <1>1 DEF TypeOK
<1>3. at'[c] \in Building => at[c] \in Building
  BY <1>2 DEF Building
<1>4. Reserving(c)' => Reserving(c)
  BY <1>2 DEF Reserving
<1> QED
  BY <1>2, <1>3, <1>4 DEF Reserving

LEMMA SpentIsKept ==
  ASSUME UNCHANGED <<ledger, mempool>>
  PROVE  Spent' \subseteq Spent
BY DEF Spent

\* Every step of a task but a reservation and a broadcast is quiet.
LEMMA MostStepsAreQuiet ==
  ASSUME TypeOK, NEW c \in Calls,
         \/ AccountReply(c) \/ ProbeReply(c) \/ Signed(c) \/ SimulateReply(c)
         \/ Assembled(c) \/ Sealed(c) \/ PollReply(c)
         \/ Scheduled(c) \/ (c \in Probes /\ Probe(c))
  PROVE  Quiet
<1>1. UNCHANGED <<ledger, mempool, nextSeq, lastReserved>>
  BY DEF AccountReply, ProbeReply, Signed, SimulateReply, Assembled, Sealed,
         PollReply, Scheduled, Start, BackoffEnds, Probe, network, attempt
<1>2. SUFFICES \A d \in Calls : /\ Reserving(d)' => Reserving(d)
                                /\ at'[d] \in Building => at[d] \in Building
  BY <1>1, SpentIsKept DEF Quiet
<1>3. CASE AccountReply(c)
  <2>1. GoesTo(c, {"over", "ledger"})
    BY <1>3, OnTimeGoesTo DEF AccountReply, Settle, GoesTo
  <2> QED
    BY <2>1, GoingIsQuiet DEF Building
<1>4. CASE Scheduled(c) \/ Probe(c)
  <2>1. GoesTo(c, {"over", "account"})
    BY <1>4, OnTimeGoesTo DEF Scheduled, Start, BackoffEnds, Probe, BeginAttempt
  <2> QED
    BY <2>1, GoingIsQuiet DEF Building
<1>5. CASE ProbeReply(c) \/ Signed(c) \/ SimulateReply(c) \/ Assembled(c) \/ Sealed(c)
  <2>1. at[c] \in Building
    BY <1>5 DEF ProbeReply, Signed, SimulateReply, Assembled, Sealed, Building
  <2>2. Moves(c)
    BY <1>5, AnsweredMoves DEF Answered
  <2>3. GoesTo(c, Awaits)
    BY <2>2 DEF Moves, Settle, Await, GoesTo, Awaits
  <2> QED
    BY <2>1, <2>3, GoingIsQuiet
<1>6. CASE PollReply(c)
  <2>1. GoesTo(c, {"over", "account", "backoff", "poll"})
    <3>1. CASE \E kind, seq : Settle(c, kind, seq)
      BY <3>1 DEF Settle, GoesTo
    <3>2. CASE \E cause : Retry(c, cause)
      BY <3>2, RetryGoesTo DEF GoesTo
    <3>3. CASE Unconfirmed(c)
      BY <3>3 DEF Unconfirmed, Settle, Await, GoesTo
    <3> QED
      BY <1>6, <3>1, <3>2, <3>3 DEF PollReply
  <2>2. at[c] = "poll"
    BY <1>6 DEF PollReply
  <2> QED
    BY <2>1, <2>2, GoingIsQuiet DEF Building
<1> QED
  BY <1>3, <1>4, <1>5, <1>6

\* A reservation is above everything in use.
LEMMA ReservationIsFresh ==
  ASSUME TypeOK, SeqInv, NEW c \in Calls, LedgerReply(c)
  PROVE  SeqInv'
<1>1. CASE UNCHANGED <<lastReserved, nextSeq>> /\ \E kind, seq : Settle(c, kind, seq)
  <2>1. GoesTo(c, {"over"})
    BY <1>1 DEF Settle, GoesTo
  <2>2. Quiet
    BY <1>1, <2>1, GoingIsQuiet, SpentIsKept DEF Building, Quiet, LedgerReply, network
  <2> QED
    BY <2>2, QuietKeepsSeqInv
<1>2. CASE /\ Await(c, "probe")
           /\ lastReserved' = Reserve(lastReserved, fetched[c])
           /\ nextSeq' = [nextSeq EXCEPT ![c] = Reserve(lastReserved, fetched[c])]
  <2>1. lastReserved \in Int /\ lastReserved' \in Int /\ lastReserved' > lastReserved
    BY <1>2 DEF Reserve, TypeOK
  <2>2. \A d \in Calls : /\ nextSeq'[d] = IF d = c THEN lastReserved' ELSE nextSeq[d]
                         /\ at'[d] = IF d = c THEN "probe" ELSE at[d]
                         /\ nextSeq[d] \in Nat
    BY <1>2 DEF TypeOK, Await
  <2>3. Spent' = Spent
    BY DEF LedgerReply, network, Spent
  <2>4. \A d \in Calls : Reserving(d)' <=> d = c \/ Reserving(d)
    BY <2>2 DEF Reserving, Building
  <2>5. \A d \in Calls : Reserving(d)' => nextSeq'[d] <= lastReserved'
    BY <2>1, <2>2, <2>4 DEF SeqInv
  <2>6. \A s \in Spent : s \in Int
    BY DEF Spent, TypeOK
  <2>7. \A s \in Spent' : s <= lastReserved' + 1
    BY <2>1, <2>3, <2>6 DEF SeqInv
  <2>8. \A d, e \in Calls :
          d # e /\ Reserving(d)' /\ Reserving(e)' => nextSeq'[d] # nextSeq'[e]
    BY <2>1, <2>2, <2>4 DEF SeqInv, NoSequenceReuse
  <2>9. \A d \in Calls : at'[d] \in Building => nextSeq'[d] + 1 \notin Spent'
    <3>1. nextSeq'[c] + 1 \notin Spent'
      BY <2>1, <2>2, <2>3 DEF SeqInv
    <3>2. ASSUME NEW d \in Calls, d # c, at'[d] \in Building
          PROVE  nextSeq'[d] + 1 \notin Spent'
      BY <2>2, <2>3, <3>2 DEF SeqInv, NoSequenceReuse, Tx
    <3> QED
      BY <3>1, <3>2
  <2> QED
    BY <2>5, <2>7, <2>8, <2>9 DEF SeqInv, NoSequenceReuse, Tx
<1> QED
  BY <1>1, <1>2 DEF LedgerReply

\* A broadcast spends a number that nobody else holds.
LEMMA BroadcastSpendsItsOwn ==
  ASSUME TypeOK, SeqInv, NEW c \in Calls, SendReply(c)
  PROVE  SeqInv'
<1>1. GoesTo(c, {"over", "account", "backoff", "poll"})
  <2>1. CASE \E kind, seq : Settle(c, kind, seq)
    BY <2>1 DEF Settle, GoesTo
  <2>2. CASE \E cause : Retry(c, cause)
    BY <2>2, RetryGoesTo DEF GoesTo
  <2>3. CASE Await(c, "poll")
    BY <2>3 DEF Await, GoesTo
  <2> QED
    BY <2>1, <2>2, <2>3 DEF SendReply
<1>2. at[c] = "send" /\ UNCHANGED <<ledger, nextSeq, lastReserved>>
  BY DEF SendReply
<1>3. \A d \in Calls : /\ Reserving(d)' => Reserving(d)
                       /\ at'[d] \in Building => at[d] \in Building
  BY <1>1, <1>2, GoingIsQuiet DEF Building
<1>4. at'[c] \notin Building
  BY <1>1 DEF GoesTo, Building, TypeOK
<1>5. mempool' = mempool \/ mempool' = mempool \cup {Tx(c)}
  BY DEF SendReply, Held
<1>6. \A s \in Spent' : s \in Spent \/ s = nextSeq[c] + 1
  BY <1>2, <1>5 DEF Spent, Tx
<1>7. Reserving(c)
  BY <1>2 DEF Reserving, Building
<1>8. \A s \in Spent' : s <= lastReserved' + 1
  BY <1>2, <1>6, <1>7 DEF SeqInv, TypeOK
<1>9. ASSUME NEW d \in Calls, at'[d] \in Building
      PROVE  nextSeq'[d] + 1 \notin Spent'
  <2>1. d # c /\ at[d] \in Building /\ Reserving(d)
    BY <1>3, <1>4, <1>9 DEF Reserving
  <2>2. nextSeq[d] # nextSeq[c] /\ nextSeq[d] \in Nat /\ nextSeq[c] \in Nat
    BY <1>7, <2>1 DEF SeqInv, NoSequenceReuse, TypeOK
  <2>3. nextSeq[d] + 1 \notin Spent
    BY <2>1 DEF SeqInv, NoSequenceReuse, Tx
  <2> QED
    BY <1>2, <1>6, <2>2, <2>3
<1> QED
  BY <1>2, <1>3, <1>8, <1>9 DEF SeqInv, NoSequenceReuse, Tx

LEMMA OthersAreQuiet ==
  ASSUME TypeOK,
         \/ \E c \in Invokes : Enqueue(c)
         \/ \E c \in Calls : TurnAway(c) \/ CallerLeaves(c) \/ Expire(c)
         \/ \E t \in mempool : Include(t)
         \/ Outsider
         \/ UNCHANGED vars
  PROVE  Quiet
<1> USE DEF network, attempt, queue
<1>1. CASE \E c \in Invokes : Enqueue(c)
  <2>1. PICK c \in Calls : Enqueue(c)
    BY <1>1 DEF Calls
  <2>2. GoesTo(c, {"queued"})
    BY <2>1 DEF Enqueue, GoesTo
  <2> QED
    BY <2>1, <2>2, GoingIsQuiet, SpentIsKept DEF Enqueue, Quiet, Building
<1>2. CASE \E c \in Calls : TurnAway(c)
  <2>1. PICK c \in Calls : TurnAway(c)
    BY <1>2
  <2>2. GoesTo(c, {"over"})
    BY <2>1 DEF TurnAway, GoesTo
  <2> QED
    BY <2>1, <2>2, GoingIsQuiet, SpentIsKept DEF TurnAway, Quiet, Building
<1>3. CASE \E c \in Calls : CallerLeaves(c) \/ Expire(c)
  BY <1>3, SpentIsKept DEF CallerLeaves, Expire, Quiet, Reserving
<1>4. CASE \E t \in mempool : Include(t)
  <2>1. PICK t \in mempool, r \in Results :
          /\ t.seq = Len(ledger) + 1 /\ mempool' = mempool \ {t}
          /\ ledger' = Append(ledger, [call |-> t.call, result |-> r])
    BY <1>4 DEF Include, ChainSeq
  <2>2. \A i \in DOMAIN ledger' :
          i = t.seq \/ (i \in DOMAIN ledger /\ ledger'[i] = ledger[i])
    BY <2>1 DEF TypeOK
  <2>3. Spent' \subseteq Spent
    BY <2>1, <2>2 DEF Spent
  <2> QED
    BY <1>4, <2>3 DEF Include, Quiet, Reserving
<1>5. CASE Outsider
  <2>1. ledger' = Append(ledger, [call |-> Nobody, result |-> "foreign"])
    BY <1>5 DEF Outsider
  <2>2. \A i \in DOMAIN ledger' :
          \/ i \in DOMAIN ledger /\ ledger'[i] = ledger[i]
          \/ ledger'[i].call = Nobody
    BY <2>1 DEF TypeOK
  <2>3. Spent' \subseteq Spent
    BY <1>5, <2>2 DEF Spent, Outsider
  <2> QED
    BY <1>5, <2>3 DEF Outsider, Quiet, Reserving
<1>6. CASE UNCHANGED vars
  BY <1>6, SpentIsKept DEF vars, Quiet, Reserving
<1> QED
  BY <1>1, <1>2, <1>3, <1>4, <1>5, <1>6

\* No sequence number, and so no authorization nonce, is used twice, though dry
\* runs and pre-flight checks reserve beside the queue.
THEOREM SequencesAreFresh == Spec => []NoSequenceReuse
<1>1. Init => SeqInv
  BY DEF Init, SeqInv, NoSequenceReuse, Reserving, Building, Spent
<1>2. TypeOK /\ SeqInv /\ [Next]_vars => SeqInv'
  <2>1. ASSUME TypeOK, SeqInv, NEW c \in Calls,
               Answered(c) \/ Scheduled(c) \/ (c \in Probes /\ Probe(c))
        PROVE  SeqInv'
    BY <2>1, MostStepsAreQuiet, QuietKeepsSeqInv, ReservationIsFresh,
       BroadcastSpendsItsOwn DEF Answered
  <2>2. ASSUME TypeOK, SeqInv, ~\E c \in Calls :
                 Answered(c) \/ Scheduled(c) \/ (c \in Probes /\ Probe(c)),
               [Next]_vars
        PROVE  SeqInv'
    BY <2>2, NextSplits, OthersAreQuiet, QuietKeepsSeqInv
  <2> QED
    BY <2>1, <2>2
<1>3. SeqInv => NoSequenceReuse
  BY DEF SeqInv
<1> QED
  BY <1>1, <1>2, <1>3, TypeCorrect, PTL DEF Spec

-----------------------------------------------------------------------------
(* Invoke implements CallOutcome.  The argument: a transaction of a call that *)
(* may still take effect, or did, is always the one of its latest attempt,     *)
(* and there is none before an attempt is broadcast, because the pipeline       *)
(* retries only what was rejected or was included and failed.                *)

\* Sequence numbers at which c took effect, or may still do so.
Potential(c) ==
  {t.seq : t \in {u \in mempool : u.call = c}} \cup Successes(c)

Final(kind) == kind \notin {"none", "timeout"}

OutcomeInv ==
  /\ \A t \in mempool : t.seq \in DOMAIN ledger => ledger[t.seq].call # t.call
  /\ \A c \in Calls : \A s \in Potential(c) : s = nextSeq[c] + 1
  /\ \A c \in Calls : at[c] \notin {"poll", "over"} => Potential(c) = {}
  /\ \A c \in Calls : Final(answer[c].kind) => at[c] = "over"
  /\ \A c \in Calls : Verdict(answer[c].kind) = "failure" => Potential(c) = {}

-----------------------------------------------------------------------------
(* What a step of a task does to its own outcome.                          *)

\* The task goes on, with nothing of it at large unless it is now polling.
GoesOn(c) ==
  \E next \in Awaits \ {"idle", "queued", "over"} :
    Await(c, next) /\ (next = "poll" \/ Potential(c)' = {})

\* The task settles, and what it settles with is so.
Concludes(c) ==
  \E kind \in Kinds \ {"none", "timeout"}, seq \in Nat :
    /\ Settle(c, kind, seq)
    /\ Verdict(kind) = "success" => Successes(c) = {nextSeq[c] + 1}
    /\ Verdict(kind) = "failure" => Potential(c)' = {}

Proceeds(c) ==
  /\ at[c] # "over"
  /\ ledger' = ledger
  /\ \A d \in Calls \ {c} : nextSeq'[d] = nextSeq[d]
  /\ mempool' = mempool \/ (mempool' = mempool \cup {Tx(c)} /\ InSequence(c))
  /\ \A s \in Potential(c)' : s = nextSeq'[c] + 1
  /\ GoesOn(c) \/ Concludes(c)

LEMMA SameNetworkSamePotential ==
  ASSUME UNCHANGED <<ledger, mempool>>, NEW c
  PROVE  Potential(c)' = Potential(c)
BY DEF Potential, Successes

\* An answer that promises nothing, from a task that has nothing at large.
LEMMA NothingAtLarge ==
  ASSUME TypeOK, OutcomeInv, NEW c \in Calls, at[c] # "over", Potential(c) = {},
         UNCHANGED <<ledger, mempool>>,
         \A d \in Calls \ {c} : nextSeq'[d] = nextSeq[d],
         \/ \E kind \in Kinds \ {"none", "timeout", "allowed"}, seq \in Nat :
              Settle(c, kind, seq)
         \/ \E next \in Awaits \ {"idle", "queued", "over"} : Await(c, next)
  PROVE  Proceeds(c)
<1>1. Potential(c)' = {}
  BY SameNetworkSamePotential
<1>2. \A kind \in Kinds \ {"none", "timeout", "allowed"} : Verdict(kind) # "success"
  BY DEF Verdict, Kinds
<1>3. GoesOn(c) \/ Concludes(c)
  BY <1>1, <1>2 DEF GoesOn, Concludes
<1> QED
  BY <1>1, <1>3 DEF Proceeds

\* Before the broadcast nothing is at large.
LEMMA EarlyStepsProceed ==
  ASSUME TypeOK, OutcomeInv, NEW c \in Calls,
         \/ AccountReply(c) \/ LedgerReply(c) \/ ProbeReply(c) \/ Signed(c)
         \/ SimulateReply(c) \/ Assembled(c) \/ Sealed(c)
         \/ Scheduled(c) \/ (c \in Probes /\ Probe(c))
  PROVE  Proceeds(c)
<1> DEFINE Mild == \/ \E kind \in Kinds \ {"none", "timeout", "allowed"}, seq \in Nat :
                        Settle(c, kind, seq)
                   \/ \E next \in Awaits \ {"idle", "queued", "over"} : Await(c, next)
<1> USE DEF Kinds, NoTx, Awaits, Building
<1>1. at[c] \notin {"poll", "over"}
  BY DEF AccountReply, LedgerReply, ProbeReply, Signed, SimulateReply, Assembled,
         Sealed, Scheduled, Start, BackoffEnds, Probe
<1>2. Potential(c) = {}
  BY <1>1 DEF OutcomeInv
<1>3. UNCHANGED <<ledger, mempool>> /\ \A d \in Calls \ {c} : nextSeq'[d] = nextSeq[d]
  BY DEF AccountReply, LedgerReply, ProbeReply, Signed, SimulateReply, Assembled,
         Sealed, Scheduled, Start, BackoffEnds, Probe, network, attempt, TypeOK
<1>4. ASSUME NEW next \in Awaits \ {"idle", "queued", "over"}, OnTime(c, next)
      PROVE  Mild
  BY <1>4 DEF OnTime
<1>5. Mild
  <2>1. CASE AccountReply(c)
    BY <2>1, <1>4 DEF AccountReply
  <2>2. CASE LedgerReply(c)
    BY <2>2 DEF LedgerReply
  <2>3. CASE ProbeReply(c) \/ Signed(c) \/ Assembled(c) \/ Sealed(c)
    BY <2>3, <1>4 DEF ProbeReply, Signed, Assembled, Sealed
  <2>4. CASE SimulateReply(c)
    <3>1. CASE Settle(c, IF expired[c] THEN "deadline" ELSE "admissible", NoTx)
      BY <3>1
    <3> QED
      BY <2>4, <3>1, <1>4 DEF SimulateReply
  <2>5. CASE Scheduled(c) \/ Probe(c)
    BY <2>5, <1>4 DEF Scheduled, Start, BackoffEnds, Probe, BeginAttempt
  <2> QED
    BY <2>1, <2>2, <2>3, <2>4, <2>5
<1> QED
  BY <1>1, <1>2, <1>3, <1>5, NothingAtLarge

\* A retry, or giving up, is no success.
LEMMA RetryIsMild ==
  ASSUME TypeOK, NEW c \in Calls, NEW cause \in Causes, Retry(c, cause)
  PROVE  \/ \E kind \in Kinds \ {"none", "timeout", "allowed"}, seq \in Nat :
              Settle(c, kind, seq)
         \/ \E next \in Awaits \ {"idle", "queued", "over"} : Await(c, next)
BY TxIsTyped DEF Retry, BeginAttempt, OnTime, Kinds, NoTx, Awaits

LEMMA SendProceeds ==
  ASSUME TypeOK, OutcomeInv, NEW c \in Calls, SendReply(c)
  PROVE  Proceeds(c)
<1>1. at[c] = "send" /\ Potential(c) = {} /\ UNCHANGED <<ledger, nextSeq>> /\ Tx(c).seq \in Nat
  BY TxIsTyped DEF OutcomeInv, SendReply
<1>2. CASE UNCHANGED mempool /\ \E cause \in RejectionCauses(c) : Retry(c, cause)
  <2>1. \E cause \in Causes : Retry(c, cause)
    BY <1>2 DEF RejectionCauses, Causes
  <2> QED
    BY <1>1, <1>2, <2>1, RetryIsMild, NothingAtLarge
<1>3. CASE /\ \/ \E kind \in {"error", "deadline"}, seq \in Nat : Settle(c, kind, seq)
              \/ Await(c, "poll")
           /\ Held(c) \/ UNCHANGED mempool
  <2>1. mempool' = mempool \/ (mempool' = mempool \cup {Tx(c)} /\ InSequence(c))
    BY <1>3 DEF Held
  <2>2. \A s \in Potential(c)' : s = nextSeq'[c] + 1
    BY <1>1, <2>1 DEF Potential, Successes, Tx
  <2>3. GoesOn(c) \/ Concludes(c)
    BY <1>3 DEF GoesOn, Concludes, Awaits, Kinds, Verdict
  <2> QED
    BY <1>1, <2>1, <2>2, <2>3 DEF Proceeds
<1> QED
  BY <1>1, <1>2, <1>3 DEF SendReply, NoTx

\* A transaction included without success leaves nothing at large.
LEMMA FailedLeavesNothing ==
  ASSUME TypeOK, OutcomeInv, NEW c \in Calls,
         NEW r \in Results \ {"success"}, Included(Tx(c), r)
  PROVE  Potential(c) = {}
<1>1. ASSUME NEW t \in mempool, t.call = c
      PROVE  FALSE
  <2>1. t.seq \in Potential(c)
    BY <1>1 DEF Potential
  <2>2. t.seq = nextSeq[c] + 1
    BY <2>1 DEF OutcomeInv
  <2> QED
    BY <1>1, <2>2 DEF OutcomeInv, Included, Tx
<1>2. ASSUME NEW i \in Successes(c)
      PROVE  FALSE
  <2>1. i = nextSeq[c] + 1
    BY <1>2 DEF OutcomeInv, Potential
  <2> QED
    BY <1>2, <2>1 DEF Successes, Included, Tx
<1> QED
  BY <1>1, <1>2 DEF Potential

\* A transaction included with success is the call's only one.
LEMMA SuccessIsUnique ==
  ASSUME TypeOK, OutcomeInv, NEW c \in Calls, Included(Tx(c), "success")
  PROVE  Successes(c) = {nextSeq[c] + 1}
BY DEF OutcomeInv, Potential, Successes, Included, Tx

LEMMA PollProceeds ==
  ASSUME TypeOK, OutcomeInv, NEW c \in Calls, PollReply(c)
  PROVE  Proceeds(c)
<1>1. at[c] = "poll" /\ UNCHANGED <<ledger, mempool, nextSeq>> /\ Tx(c).seq \in Nat
  BY TxIsTyped DEF PollReply, network
<1>2. \A s \in Potential(c)' : s = nextSeq'[c] + 1
  BY <1>1, SameNetworkSamePotential DEF OutcomeInv
<1>3. CASE Included(Tx(c), "stale") /\ Retry(c, "stale_ledger_resource_limit")
  BY <1>1, <1>3, FailedLeavesNothing, RetryIsMild, NothingAtLarge DEF Results, Causes
<1>4. CASE Included(Tx(c), "trap") /\ Retry(c, "none")
  BY <1>1, <1>4, FailedLeavesNothing, RetryIsMild, NothingAtLarge DEF Results, Causes
<1>5. CASE Included(Tx(c), "refused") /\ Settle(c, "charged", Tx(c).seq)
  BY <1>1, <1>5, FailedLeavesNothing, NothingAtLarge DEF Results, Kinds
<1>6. CASE Included(Tx(c), "success") /\ Settle(c, "allowed", Tx(c).seq)
  <2>1. Concludes(c)
    BY <1>1, <1>6, SuccessIsUnique DEF Concludes, Kinds, Verdict
  <2> QED
    BY <1>1, <1>2, <2>1 DEF Proceeds
<1>7. CASE \/ \E kind \in {"error", "deadline", "pending"} : Settle(c, kind, Tx(c).seq)
           \/ Await(c, "poll")
  <2>1. GoesOn(c) \/ Concludes(c)
    BY <1>1, <1>7 DEF GoesOn, Concludes, Awaits, Kinds, Verdict
  <2> QED
    BY <1>1, <1>2, <2>1 DEF Proceeds
<1> QED
  BY <1>3, <1>4, <1>5, <1>6, <1>7 DEF PollReply, Unconfirmed

LEMMA TasksProceed ==
  ASSUME TypeOK, OutcomeInv, NEW c \in Calls,
         Answered(c) \/ Scheduled(c) \/ (c \in Probes /\ Probe(c))
  PROVE  Proceeds(c)
BY EarlyStepsProceed, SendProceeds, PollProceeds DEF Answered

-----------------------------------------------------------------------------
(* The invariant.                                                          *)

LEMMA ProceedingKeepsOutcomeInv ==
  ASSUME TypeOK, OutcomeInv, NEW c \in Calls, Proceeds(c)
  PROVE  OutcomeInv'
<1>1. ASSUME NEW t \in mempool', t.seq \in DOMAIN ledger'
      PROVE  ledger'[t.seq].call # t.call
  <2>1. CASE t \in mempool
    BY <1>1, <2>1 DEF Proceeds, OutcomeInv
  <2>2. CASE t = Tx(c) /\ InSequence(c)
    <3>1. t.seq = Len(ledger) + 1 /\ ledger' = ledger
      BY <2>2 DEF InSequence, ChainSeq, Proceeds
    <3> QED
      BY <1>1, <3>1 DEF TypeOK
  <2> QED
    BY <1>1, <2>1, <2>2 DEF Proceeds
<1>2. ASSUME NEW d \in Calls, d # c
      PROVE  Potential(d)' = Potential(d)
  BY <1>2 DEF Potential, Successes, Proceeds, Tx
<1>3. \A d \in Calls : \A s \in Potential(d)' : s = nextSeq'[d] + 1
  BY <1>2 DEF Proceeds, OutcomeInv
<1>4. CASE GoesOn(c)
  <2>1. PICK next \in Awaits \ {"idle", "queued", "over"} :
          Await(c, next) /\ (next = "poll" \/ Potential(c)' = {})
    BY <1>4 DEF GoesOn
  <2>2. \A d \in Calls : at'[d] = IF d = c THEN next ELSE at[d]
    BY <2>1 DEF Await, TypeOK
  <2>3. answer' = answer
    BY <2>1 DEF Await
  <2>4. at[c] # "over" /\ ~Final(answer[c].kind)
    BY DEF Proceeds, OutcomeInv
  <2>5. \A d \in Calls : at'[d] \notin {"poll", "over"} => Potential(d)' = {}
    BY <1>2, <2>1, <2>2 DEF OutcomeInv
  <2>6. Verdict(answer[c].kind) # "failure"
    BY <2>4 DEF Final, Verdict
  <2>7. \A d \in Calls : Final(answer'[d].kind) => at'[d] = "over"
    BY <2>2, <2>3, <2>4 DEF OutcomeInv
  <2>8. \A d \in Calls : Verdict(answer'[d].kind) = "failure" => Potential(d)' = {}
    BY <1>2, <2>3, <2>6 DEF OutcomeInv
  <2> QED
    BY <1>1, <1>3, <2>5, <2>7, <2>8 DEF OutcomeInv
<1>5. CASE Concludes(c)
  <2>1. PICK kind \in Kinds \ {"none", "timeout"}, seq \in Nat :
          /\ Settle(c, kind, seq)
          /\ Verdict(kind) = "failure" => Potential(c)' = {}
    BY <1>5 DEF Concludes
  <2>2. \A d \in Calls : at'[d] = IF d = c THEN "over" ELSE at[d]
    BY <2>1 DEF Settle, TypeOK
  <2>3. \A d \in Calls : d # c => answer'[d] = answer[d]
    BY <2>1 DEF Settle, Tell, TypeOK
  <2>4. ~Final(answer[c].kind)
    BY DEF Proceeds, OutcomeInv
  <2>5. Verdict(answer[c].kind) # "failure"
    BY <2>4 DEF Final, Verdict
  <2>6. answer'[c].kind = kind \/ answer'[c] = answer[c]
    BY <2>1 DEF Settle, Tell, TypeOK
  <2>7. Verdict(answer'[c].kind) = "failure" => Potential(c)' = {}
    BY <2>1, <2>5, <2>6
  <2>8. \A d \in Calls : at'[d] \notin {"poll", "over"} => Potential(d)' = {}
    BY <1>2, <2>2 DEF OutcomeInv
  <2>9. \A d \in Calls : Final(answer'[d].kind) => at'[d] = "over"
    BY <2>2, <2>3 DEF OutcomeInv
  <2>10. \A d \in Calls : Verdict(answer'[d].kind) = "failure" => Potential(d)' = {}
    BY <1>2, <2>3, <2>7 DEF OutcomeInv
  <2> QED
    BY <1>1, <1>3, <2>8, <2>9, <2>10 DEF OutcomeInv
<1> QED
  BY <1>4, <1>5 DEF Proceeds

LEMMA OthersKeepOutcomeInv ==
  ASSUME TypeOK, OutcomeInv,
         \/ \E c \in Invokes : Enqueue(c)
         \/ \E c \in Calls : TurnAway(c) \/ CallerLeaves(c) \/ Expire(c)
         \/ Outsider
         \/ UNCHANGED vars
  PROVE  OutcomeInv'
<1> USE DEF network, attempt, queue
<1>1. CASE \E c \in Invokes : Enqueue(c)
  <2>1. PICK c \in Calls : Enqueue(c)
    BY <1>1 DEF Calls
  <2>2. UNCHANGED <<ledger, mempool, nextSeq, answer>> /\ at[c] = "idle"
    BY <2>1 DEF Enqueue
  <2>3. \A d \in Calls : Potential(d)' = Potential(d)
    BY <2>2, SameNetworkSamePotential
  <2>4. \A d \in Calls : at'[d] = IF d = c THEN "queued" ELSE at[d]
    BY <2>1 DEF Enqueue, TypeOK
  <2> QED
    BY <2>2, <2>3, <2>4 DEF OutcomeInv
<1>2. CASE \E c \in Calls : TurnAway(c)
  <2>1. PICK c \in Calls : TurnAway(c)
    BY <1>2
  <2>2. UNCHANGED <<ledger, mempool, nextSeq>> /\ at[c] = "idle"
    BY <2>1 DEF TurnAway
  <2>3. \A d \in Calls : Potential(d)' = Potential(d)
    BY <2>2, SameNetworkSamePotential
  <2>4. \A d \in Calls : at'[d] = IF d = c THEN "over" ELSE at[d]
    BY <2>1 DEF TurnAway, TypeOK
  <2>5. \A d \in Calls : answer'[d] = answer[d] \/ (d = c /\ Potential(d) = {})
    BY <2>1, <2>2 DEF TurnAway, Tell, TypeOK, OutcomeInv
  <2> QED
    BY <2>2, <2>3, <2>4, <2>5 DEF OutcomeInv
<1>3. CASE \E c \in Calls : CallerLeaves(c)
  <2>1. PICK c \in Calls : CallerLeaves(c)
    BY <1>3
  <2>2. UNCHANGED <<ledger, mempool, nextSeq, at>>
    BY <2>1 DEF CallerLeaves
  <2>3. \A d \in Calls : Potential(d)' = Potential(d)
    BY <2>2, SameNetworkSamePotential
  <2>4. \A d \in Calls : answer'[d] = answer[d] \/ answer'[d].kind = "timeout"
    BY <2>1 DEF CallerLeaves, Tell, TypeOK
  <2>5. Verdict("timeout") = "unknown" /\ ~Final("timeout")
    BY DEF Verdict, Final
  <2> QED
    BY <2>2, <2>3, <2>4, <2>5 DEF OutcomeInv
<1>4. CASE (\E c \in Calls : Expire(c)) \/ UNCHANGED vars
  <2>1. UNCHANGED <<ledger, mempool, nextSeq, at, answer>>
    BY <1>4 DEF Expire, vars
  <2>2. \A d \in Calls : Potential(d)' = Potential(d)
    BY <2>1, SameNetworkSamePotential
  <2> QED
    BY <2>1, <2>2 DEF OutcomeInv
<1>5. CASE Outsider
  <2>1. UNCHANGED <<mempool, nextSeq, at, answer>>
        /\ ledger' = Append(ledger, [call |-> Nobody, result |-> "foreign"])
    BY <1>5 DEF Outsider
  <2>2. \A i \in DOMAIN ledger' : \/ i \in DOMAIN ledger /\ ledger'[i] = ledger[i]
                                  \/ ledger'[i] = [call |-> Nobody, result |-> "foreign"]
    BY <2>1 DEF TypeOK
  <2>3. \A i \in DOMAIN ledger : i \in DOMAIN ledger' /\ ledger'[i] = ledger[i]
    BY <2>1 DEF TypeOK
  <2>4. \A c \in Calls : Successes(c)' = Successes(c)
    BY <2>2, <2>3 DEF Successes
  <2>5. \A c \in Calls : Potential(c)' = Potential(c)
    BY <2>1, <2>4 DEF Potential
  <2>6. \A t \in mempool' : t.seq \in DOMAIN ledger' => ledger'[t.seq].call # t.call
    BY <2>1, <2>2, InvokeAssumption DEF TypeOK, OutcomeInv
  <2> QED
    BY <2>1, <2>5, <2>6 DEF OutcomeInv
<1> QED
  BY <1>1, <1>2, <1>3, <1>4, <1>5

\* An inclusion turns a transaction at large into an entry of the ledger.
LEMMA InclusionKeepsOutcomeInv ==
  ASSUME TypeOK, OutcomeInv, NEW t \in mempool, Include(t)
  PROVE  /\ OutcomeInv'
         /\ Potential(t.call) = {t.seq} /\ Successes(t.call) = {}
         /\ \A c \in Calls : \/ Successes(c)' = Successes(c)
                             \/ c = t.call /\ Successes(c)' = {t.seq}
<1>1. PICK r \in Results \ {"foreign"} :
        ledger' = Append(ledger, [call |-> t.call, result |-> r])
  BY DEF Include
<1>2. /\ t.seq = Len(ledger) + 1 /\ mempool' = mempool \ {t}
      /\ UNCHANGED <<nextSeq, at, answer>>
      /\ t \in [call : Calls, seq : Nat]
  BY DEF Include, ChainSeq, attempt, TypeOK
<1>3. \A i \in DOMAIN ledger' :
        \/ i \in DOMAIN ledger /\ ledger'[i] = ledger[i]
        \/ i = t.seq /\ ledger'[i] = [call |-> t.call, result |-> r]
  BY <1>1, <1>2 DEF TypeOK
<1>4. /\ \A i \in DOMAIN ledger : i \in DOMAIN ledger' /\ ledger'[i] = ledger[i]
      /\ t.seq \notin DOMAIN ledger
  BY <1>1, <1>2 DEF TypeOK
<1>5. Potential(t.call) = {t.seq} /\ Successes(t.call) = {}
  <2>1. t.seq \in Potential(t.call)
    BY DEF Potential
  <2>2. Potential(t.call) = {t.seq}
    BY <1>2, <2>1 DEF OutcomeInv
  <2>3. Successes(t.call) \subseteq Potential(t.call) \cap DOMAIN ledger
    BY DEF Potential, Successes
  <2> QED
    BY <1>4, <2>2, <2>3
<1>6. \A c \in Calls : c # t.call => Successes(c)' = Successes(c)
  BY <1>3, <1>4 DEF Successes
<1>7. Successes(t.call)' = {} \/ Successes(t.call)' = {t.seq}
  <2>1. Successes(t.call)' \subseteq {t.seq}
    BY <1>3, <1>5 DEF Successes
  <2> QED
    BY <2>1
<1>8. \A c \in Calls : Potential(c)' \subseteq Potential(c)
  <2>1. ASSUME NEW c \in Calls, c # t.call
        PROVE  Potential(c)' = Potential(c)
    BY <1>2, <1>6, <2>1 DEF Potential
  <2>2. Potential(t.call)' \subseteq Potential(t.call)
    BY <1>2, <1>5, <1>7 DEF Potential
  <2> QED
    BY <2>1, <2>2
<1>9. ASSUME NEW u \in mempool', u.seq \in DOMAIN ledger'
      PROVE  ledger'[u.seq].call # u.call
  <2>1. u \in mempool /\ u # t /\ u \in [call : Calls, seq : Nat]
    BY <1>2, <1>9 DEF TypeOK
  <2>2. CASE u.seq = t.seq
    <3>1. u.call # t.call
      BY <1>2, <2>1, <2>2
    <3> QED
      BY <1>3, <1>4, <1>9, <2>2, <3>1
  <2>3. CASE u.seq # t.seq
    BY <1>3, <1>9, <2>1, <2>3 DEF OutcomeInv
  <2> QED
    BY <2>2, <2>3
<1>10. OutcomeInv'
  BY <1>2, <1>8, <1>9 DEF OutcomeInv
<1> QED
  BY <1>5, <1>6, <1>7, <1>10

\* What is at large is known, and reported failures are final.
THEOREM OutcomeKnown == Spec => []OutcomeInv
<1>1. Init => OutcomeInv
  <2>1. ASSUME Init
        PROVE  \A c \in Calls : Potential(c) = {}
    BY <2>1 DEF Init, Potential, Successes
  <2>2. Verdict("none") = "nothing" /\ ~Final("none")
    BY DEF Verdict, Final
  <2> QED
    BY <2>1, <2>2 DEF Init, OutcomeInv
<1>2. TypeOK /\ OutcomeInv /\ [Next]_vars => OutcomeInv'
  <2>1. ASSUME TypeOK, OutcomeInv, NEW c \in Calls,
               Answered(c) \/ Scheduled(c) \/ (c \in Probes /\ Probe(c))
        PROVE  OutcomeInv'
    BY <2>1, TasksProceed, ProceedingKeepsOutcomeInv
  <2> QED
    BY <2>1, NextSplits, OthersKeepOutcomeInv, InclusionKeepsOutcomeInv
<1> QED
  BY <1>1, <1>2, TypeCorrect, PTL DEF Spec

-----------------------------------------------------------------------------
(* The refinement: every step is a step of CallOutcome, or a stutter.      *)

Effects == [c \in Calls |-> Cardinality(Successes(c))]
Told == [c \in Calls |-> Verdict(answer[c].kind)]

LEMMA ReportRefines ==
  ASSUME TypeOK, OutcomeInv, NEW c \in Calls, NEW kind \in Kinds \ {"none"},
         Effects' = Effects,
         answer' = answer \/ (answer[c].kind = "none"
                              /\ \E seq \in Nat :
                                   answer' = [answer EXCEPT ![c] = [kind |-> kind, seq |-> seq]]),
         Verdict(kind) = "success" => Cardinality(Successes(c)) = 1,
         Verdict(kind) = "failure" => Cardinality(Successes(c)) = 0
  PROVE  Promise!Next \/ UNCHANGED <<Effects, Told>>
<1>1. CASE answer' = answer
  BY <1>1 DEF Told
<1>2. CASE answer[c].kind = "none"
           /\ \E seq \in Nat :
                answer' = [answer EXCEPT ![c] = [kind |-> kind, seq |-> seq]]
  <2>1. Verdict(kind) \in {"success", "failure", "unknown"}
    BY DEF Verdict, Kinds
  <2>2. Told[c] = "nothing"
    BY <1>2 DEF Told, Verdict
  <2>3. Told' = [Told EXCEPT ![c] = Verdict(kind)]
    <3>1. \A d \in Calls :
            Verdict(answer'[d].kind) =
              IF d = c THEN Verdict(kind) ELSE Verdict(answer[d].kind)
      BY <1>2 DEF TypeOK
    <3> QED
      BY <3>1 DEF Told
  <2>4. Effects[c] = Cardinality(Successes(c))
    BY DEF Effects
  <2>5. Promise!Report(c, Verdict(kind))
    BY <2>2, <2>3, <2>4 DEF Promise!Report, Effects, Told
  <2> QED
    BY <2>1, <2>5 DEF Promise!Next
<1> QED
  BY <1>1, <1>2

LEMMA TaskRefines ==
  ASSUME TypeOK, OutcomeInv, NEW c \in Calls, Proceeds(c)
  PROVE  Promise!Next \/ UNCHANGED <<Effects, Told>>
<1>1. Effects' = Effects
  BY DEF Proceeds, Effects, Successes
<1>2. CASE GoesOn(c)
  BY <1>1, <1>2 DEF GoesOn, Await, Told
<1>3. CASE Concludes(c)
  <2>1. PICK kind \in Kinds \ {"none", "timeout"}, seq \in Nat :
          /\ Settle(c, kind, seq)
          /\ Verdict(kind) = "success" => Successes(c) = {nextSeq[c] + 1}
          /\ Verdict(kind) = "failure" => Potential(c)' = {}
    BY <1>3 DEF Concludes
  <2>2. Verdict(kind) = "success" => Cardinality(Successes(c)) = 1
    BY <2>1, FS_Singleton
  <2>3. Verdict(kind) = "failure" => Successes(c) = {}
    BY <2>1 DEF Potential, Successes, Proceeds
  <2>4. Verdict(kind) = "failure" => Cardinality(Successes(c)) = 0
    BY <2>3, FS_EmptySet
  <2> QED
    BY <1>1, <2>1, <2>2, <2>4, ReportRefines DEF Settle, Tell
<1> QED
  BY <1>2, <1>3 DEF Proceeds

LEMMA InclusionRefines ==
  ASSUME TypeOK, OutcomeInv, NEW t \in mempool, Include(t)
  PROVE  Promise!Next \/ UNCHANGED <<Effects, Told>>
<1>1. t.call \in Calls /\ Told' = Told
  BY DEF Include, TypeOK, Told
<1>2. CASE \A c \in Calls : Successes(c)' = Successes(c)
  BY <1>1, <1>2 DEF Effects
<1>3. CASE \A c \in Calls : IF c = t.call THEN Successes(c)' = {t.seq}
                            ELSE Successes(c)' = Successes(c)
  <2>1. Cardinality(Successes(t.call)) = 0
    BY InclusionKeepsOutcomeInv, FS_EmptySet
  <2>2. Cardinality({t.seq}) = 1
    BY FS_Singleton
  <2>3. Effects' = [Effects EXCEPT ![t.call] = 1]
    BY <1>1, <1>3, <2>2 DEF Effects
  <2>4. Told[t.call] # "failure"
    BY <1>1, InclusionKeepsOutcomeInv DEF Told, OutcomeInv
  <2>5. Promise!TakeEffect(t.call)
    BY <1>1, <2>1, <2>3, <2>4 DEF Promise!TakeEffect, Effects, Told
  <2> QED
    BY <1>1, <2>5 DEF Promise!Next
<1> QED
  BY <1>1, <1>2, <1>3, InclusionKeepsOutcomeInv

LEMMA OthersRefine ==
  ASSUME TypeOK, OutcomeInv,
         \/ \E c \in Invokes : Enqueue(c)
         \/ \E c \in Calls : TurnAway(c) \/ CallerLeaves(c) \/ Expire(c)
         \/ Outsider
         \/ UNCHANGED vars
  PROVE  Promise!Next \/ UNCHANGED <<Effects, Told>>
<1> USE DEF network, attempt, queue
<1>1. CASE \/ \E c \in Invokes : Enqueue(c)
           \/ \E c \in Calls : Expire(c)
           \/ UNCHANGED vars
  BY <1>1 DEF Enqueue, Expire, vars, Effects, Successes, Told
<1>2. CASE \E c \in Calls : TurnAway(c) \/ CallerLeaves(c)
  <2>1. PICK c \in Calls : TurnAway(c) \/ CallerLeaves(c)
    BY <1>2
  <2>2. PICK kind \in {"timeout", "error"} : Tell(c, kind, NoTx)
    BY <2>1 DEF TurnAway, CallerLeaves
  <2>3. Effects' = Effects
    BY <2>1 DEF TurnAway, CallerLeaves, Effects, Successes
  <2>4. Verdict(kind) = "unknown" /\ kind \in Kinds \ {"none"}
    BY DEF Verdict, Kinds
  <2> QED
    BY <2>2, <2>3, <2>4, ReportRefines DEF Tell, NoTx
<1>3. CASE Outsider
  <2>1. /\ answer' = answer
        /\ ledger' = Append(ledger, [call |-> Nobody, result |-> "foreign"])
    BY <1>3 DEF Outsider
  <2>2. /\ \A i \in DOMAIN ledger' :
             \/ i \in DOMAIN ledger /\ ledger'[i] = ledger[i]
             \/ ledger'[i] = [call |-> Nobody, result |-> "foreign"]
        /\ \A i \in DOMAIN ledger : i \in DOMAIN ledger' /\ ledger'[i] = ledger[i]
    BY <2>1 DEF TypeOK
  <2>3. \A c \in Calls : Successes(c)' = Successes(c)
    BY <2>2 DEF Successes
  <2> QED
    BY <2>1, <2>3 DEF Effects, Told
<1> QED
  BY <1>1, <1>2, <1>3

\* invoke() keeps its promise for any number of calls, attempts and polls: at most
\* one effect per call, and no answer that the ledger contradicts or will.
THEOREM PromiseKept == Spec => KeepsPromise
<1>1. Init => Promise!Init
  <2>1. ASSUME Init, NEW c \in Calls
        PROVE  Cardinality(Successes(c)) = 0 /\ Verdict(answer[c].kind) = "nothing"
    <3>1. Successes(c) = {}
      BY <2>1 DEF Init, Successes
    <3> QED
      BY <2>1, <3>1, FS_EmptySet DEF Init, Verdict
  <2> QED
    BY <2>1 DEF Promise!Init
<1>2. TypeOK /\ OutcomeInv /\ [Next]_vars => [Promise!Next]_<<Effects, Told>>
  <2>1. ASSUME TypeOK, OutcomeInv, NEW c \in Calls,
               Answered(c) \/ Scheduled(c) \/ (c \in Probes /\ Probe(c))
        PROVE  Promise!Next \/ UNCHANGED <<Effects, Told>>
    BY <2>1, TasksProceed, TaskRefines
  <2> QED
    BY <2>1, NextSplits, InclusionRefines, OthersRefine
<1>3. TypeOK /\ OutcomeInv /\ [Next]_vars
        => [Promise!Next]_<<[c \in Calls |-> Cardinality(Successes(c))],
                            [c \in Calls |-> Verdict(answer[c].kind)]>>
  BY <1>2 DEF Effects, Told
<1> QED
  BY <1>1, <1>3, TypeCorrect, OutcomeKnown, PTL DEF Spec, KeepsPromise, Promise!Spec

-----------------------------------------------------------------------------
(* The deadline.  Only a task that is under way can outrun it, so the call it *)
(* is spent for never enters again: that is all DeadlineHolds needs beyond    *)
(* what each reply does by itself.                                          *)

EnteredInTime == \A c \in Calls : expired[c] => at[c] # "idle"

\* What DeadlineHolds lets a step do to a call whose deadline has passed.
Closes(c) ==
  /\ at'[c] \in {at[c], "over"} \/ (at[c] = "seal" /\ at'[c] = "send")
  /\ answer'[c] # answer[c] => answer'[c].kind \in ClosedKinds
  /\ attempts'[c] = attempts[c] /\ nextSeq'[c] = nextSeq[c]

\* How a task ends when its deadline is spent.
EndsLate(c) == \E kind \in ClosedKinds, seq \in Nat : Settle(c, kind, seq)

LEMMA LateEndCloses ==
  ASSUME TypeOK, NEW c \in Calls, EndsLate(c),
         attempts'[c] = attempts[c], nextSeq'[c] = nextSeq[c]
  PROVE  Closes(c)
<1>1. PICK kind \in ClosedKinds, seq \in Nat : Settle(c, kind, seq)
  BY DEF EndsLate
<1>2. at'[c] = "over"
  BY <1>1 DEF Settle, TypeOK
<1>3. answer'[c] # answer[c] => answer'[c].kind \in ClosedKinds
  BY <1>1 DEF Settle, Tell, TypeOK
<1> QED
  BY <1>2, <1>3 DEF Closes

LEMMA LateReplyEnds ==
  ASSUME NEW c \in Calls, expired[c], NEW next, OnTime(c, next)
  PROVE  EndsLate(c)
BY DEF OnTime, EndsLate, ClosedKinds, NoTx

\* A step of the task itself: every reply but the signers' ends it.
LEMMA LateStepCloses ==
  ASSUME TypeOK, EnteredInTime, NEW c \in Calls, expired[c],
         Answered(c) \/ Scheduled(c) \/ (c \in Probes /\ Probe(c))
  PROVE  Closes(c)
<1> USE DEF attempt
<1>0. \A kind \in {"error", "blocked", "deadline"} :
        Settle(c, kind, NoTx) \/ Settle(c, kind, Tx(c).seq) => EndsLate(c)
  BY TxIsTyped DEF EndsLate, ClosedKinds, NoTx
<1>1. CASE AccountReply(c)
  <2>1. EndsLate(c)
    BY <1>0, <1>1, LateReplyEnds DEF AccountReply
  <2> QED
    BY <1>1, <2>1, LateEndCloses DEF AccountReply
<1>2. CASE LedgerReply(c)
  <2>1. EndsLate(c) /\ UNCHANGED <<attempts, nextSeq>>
    BY <1>0, <1>2 DEF LedgerReply
  <2> QED
    BY <2>1, LateEndCloses
<1>3. CASE ProbeReply(c) \/ Signed(c) \/ Assembled(c)
  <2>1. EndsLate(c) /\ UNCHANGED <<attempts, nextSeq>>
    BY <1>0, <1>3, LateReplyEnds DEF ProbeReply, Signed, Assembled
  <2> QED
    BY <2>1, LateEndCloses
<1>4. CASE SimulateReply(c)
  <2>1. EndsLate(c) /\ UNCHANGED <<attempts, nextSeq>>
    BY <1>0, <1>4, LateReplyEnds DEF SimulateReply
  <2> QED
    BY <2>1, LateEndCloses
<1>5. CASE Sealed(c)
  <2>1. CASE Settle(c, "error", NoTx)
    BY <1>0, <1>5, <2>1, LateEndCloses DEF Sealed
  <2>2. CASE Await(c, "send")
    BY <1>5, <2>2 DEF Sealed, Await, Closes, TypeOK
  <2> QED
    BY <1>5, <2>1, <2>2 DEF Sealed
<1>6. CASE SendReply(c) \/ PollReply(c)
  <2>1. EndsLate(c) /\ UNCHANGED <<attempts, nextSeq>>
    BY <1>0, <1>6 DEF SendReply, PollReply
  <2> QED
    BY <2>1, LateEndCloses
<1>7. CASE Scheduled(c)
  <2>1. EndsLate(c) /\ UNCHANGED <<attempts, nextSeq>>
    BY <1>7, LateReplyEnds DEF Scheduled, Start, BackoffEnds, BeginAttempt
  <2> QED
    BY <2>1, LateEndCloses
<1>8. ~Probe(c)
  BY DEF EnteredInTime, Probe
<1> QED
  BY <1>1, <1>2, <1>3, <1>4, <1>5, <1>6, <1>7, <1>8 DEF Answered

\* A step of a task leaves the other calls as they are.
LEMMA StepsAreOwn ==
  ASSUME TypeOK, NEW c \in Calls, NEW d \in Calls, c # d,
         Answered(d) \/ Scheduled(d) \/ (d \in Probes /\ Probe(d))
  PROVE  /\ at'[c] = at[c] /\ answer'[c] = answer[c] /\ expired'[c] = expired[c]
         /\ attempts'[c] = attempts[c] /\ nextSeq'[c] = nextSeq[c]
<1> USE DEF attempt
<1>1. at'[c] = at[c] /\ answer'[c] = answer[c]
  <2>1. Moves(d)
    BY AnsweredMoves
  <2> QED
    BY <2>1 DEF Moves, Settle, Tell, Await, TypeOK
<1>2. ASSUME NEW cause, Retry(d, cause) PROVE attempts'[c] = attempts[c]
  BY <1>2 DEF Retry, BeginAttempt, TypeOK
<1>3. CASE \/ AccountReply(d) \/ LedgerReply(d) \/ ProbeReply(d) \/ Signed(d)
           \/ SimulateReply(d) \/ Assembled(d) \/ Sealed(d)
  <2>1. UNCHANGED <<attempts, expired>> /\ nextSeq'[c] = nextSeq[c]
    BY <1>3 DEF AccountReply, LedgerReply, ProbeReply, Signed, SimulateReply, Assembled,
                Sealed, TypeOK
  <2> QED
    BY <1>1, <2>1
<1>4. CASE SendReply(d) \/ PollReply(d)
  <2>1. UNCHANGED <<nextSeq, expired>> /\ attempts'[c] = attempts[c]
    BY <1>2, <1>4 DEF SendReply, PollReply, Unconfirmed
  <2> QED
    BY <1>1, <2>1
<1>5. CASE Scheduled(d) \/ Probe(d)
  <2>1. UNCHANGED <<nextSeq, expired>> /\ attempts'[c] = attempts[c]
    BY <1>5 DEF Scheduled, Start, BackoffEnds, Probe, BeginAttempt, TypeOK
  <2> QED
    BY <1>1, <2>1
<1> QED
  BY <1>3, <1>4, <1>5 DEF Answered

\* A task's step keeps its own deadline as it was, and never goes back to idle.
LEMMA StepsGoOn ==
  ASSUME TypeOK, NEW d \in Calls,
         Answered(d) \/ Scheduled(d) \/ (d \in Probes /\ Probe(d))
  PROVE  at'[d] # "idle"
<1>1. Moves(d)
  BY AnsweredMoves
<1> QED
  BY <1>1 DEF Moves, Settle, Await, TypeOK

LEMMA OthersClose ==
  ASSUME TypeOK, EnteredInTime,
         \/ \E d \in Invokes : Enqueue(d)
         \/ \E d \in Calls : TurnAway(d) \/ CallerLeaves(d) \/ Expire(d)
         \/ \E t \in mempool : Include(t)
         \/ Outsider
         \/ UNCHANGED vars
  PROVE  EnteredInTime' /\ \A c \in Calls : expired[c] => Closes(c)
<1> USE DEF attempt, queue, network
<1>1. CASE \E d \in Invokes : Enqueue(d)
  <2>1. PICK d \in Calls : /\ at[d] = "idle" /\ at' = [at EXCEPT ![d] = "queued"]
                           /\ UNCHANGED <<attempts, nextSeq, expired, answer>>
    BY <1>1 DEF Enqueue, Calls
  <2> QED
    BY <2>1 DEF EnteredInTime, Closes, TypeOK
<1>2. CASE \E d \in Calls : TurnAway(d)
  <2>1. PICK d \in Calls : TurnAway(d)
    BY <1>2
  <2>2. ASSUME NEW c \in Calls, expired[c]
        PROVE  at'[c] = at[c] /\ answer'[c] = answer[c]
    BY <2>1, <2>2 DEF TurnAway, Tell, EnteredInTime, TypeOK
  <2> QED
    BY <2>1, <2>2 DEF TurnAway, EnteredInTime, Closes
<1>3. CASE \E d \in Calls : CallerLeaves(d)
  <2>1. PICK d \in Calls : CallerLeaves(d)
    BY <1>3
  <2>2. \A c \in Calls : answer'[c] # answer[c] => answer'[c].kind = "timeout"
    BY <2>1 DEF CallerLeaves, Tell, TypeOK
  <2> QED
    BY <2>1, <2>2 DEF CallerLeaves, EnteredInTime, Closes, ClosedKinds
<1>4. CASE \E d \in Calls : Expire(d)
  BY <1>4 DEF Expire, InProgress, EnteredInTime, Closes, TypeOK
<1>5. CASE (\E t \in mempool : Include(t)) \/ Outsider \/ UNCHANGED vars
  BY <1>5 DEF Include, Outsider, vars, EnteredInTime, Closes
<1> QED
  BY <1>1, <1>2, <1>3, <1>4, <1>5

\* Whatever has been queued, retried or broadcast: once its deadline has passed a
\* call makes no further request but the broadcast of an envelope that was being
\* signed, and reports nothing but the deadline, a timeout, an error or a refusal
\* (invoke.ts 558-572; tx.ts 999-1057).
THEOREM DeadlineIsKept == Spec => DeadlineHolds
<1>1. Init => EnteredInTime
  BY DEF Init, EnteredInTime
<1>2. TypeOK /\ EnteredInTime /\ [Next]_vars =>
        EnteredInTime' /\ \A c \in Calls : expired[c] => Closes(c)
  <2> SUFFICES ASSUME TypeOK, EnteredInTime, [Next]_vars
               PROVE  EnteredInTime' /\ \A c \in Calls : expired[c] => Closes(c)
    OBVIOUS
  <2>1. ASSUME NEW d \in Calls,
               Answered(d) \/ Scheduled(d) \/ (d \in Probes /\ Probe(d))
        PROVE  EnteredInTime' /\ \A c \in Calls : expired[c] => Closes(c)
    <3>1. ASSUME NEW c \in Calls, c # d PROVE Closes(c) /\ (expired'[c] => at'[c] # "idle")
      BY <2>1, <3>1, StepsAreOwn DEF Closes, EnteredInTime
    <3>2. expired[d] => Closes(d)
      BY <2>1, LateStepCloses
    <3>3. at'[d] # "idle"
      BY <2>1, StepsGoOn
    <3> QED
      BY <3>1, <3>2, <3>3 DEF EnteredInTime
  <2> QED
    BY <2>1, NextSplits, OthersClose
<1>3. TypeOK /\ EnteredInTime /\ [Next]_vars =>
        [\A c \in Calls : expired[c] =>
           /\ at'[c] \in {at[c], "over"} \/ (at[c] = "seal" /\ at'[c] = "send")
           /\ answer'[c] # answer[c] => answer'[c].kind \in ClosedKinds
           /\ attempts'[c] = attempts[c] /\ nextSeq'[c] = nextSeq[c]]_vars
  BY <1>2 DEF Closes
<1>4. TypeOK /\ EnteredInTime /\ [Next]_vars => EnteredInTime'
  BY <1>2
<1> QED
  BY <1>1, <1>3, <1>4, TypeCorrect, PTL DEF Spec, DeadlineHolds
=============================================================================
