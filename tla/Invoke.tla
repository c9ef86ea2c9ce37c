------------------------------- MODULE Invoke -------------------------------
(***************************************************************************)
(* The invoke() pipeline (invoke.ts, submitAndPoll in tx.ts) of one source  *)
(* account on one RPC server, and the network it talks to.                  *)
(*                                                                         *)
(* A call is a task that runs from one await to the next: at[c] names the   *)
(* promise it waits for, and an action is everything the task does when     *)
(* that promise settles, up to the next await.  Calls of Invokes go through *)
(* the account's promise chain; calls of Probes are enforceCall() used      *)
(* directly (a dry run, a pre-flight check), which reserves a sequence      *)
(* number on the same account but joins no queue.                           *)
(*                                                                         *)
(* Abstracted: fees, envelopes, authorizations and hashes (a transaction is *)
(* its call and its sequence number, which together name it), the delays,   *)
(* logging, step events and retry metadata other than its last cause.       *)
(***************************************************************************)
EXTENDS Integers, Sequences, FiniteSets

CONSTANTS Invokes,        \* calls of invoke()
          Probes,         \* calls of enforceCall() outside the queue
          Nobody,         \* no call: an empty queue, a foreign transaction
          MaxAttempts,    \* retry.maxAttempts, and maxRetries + 1
          MaxFeeAttempts, \* feeBump.maxAttempts
          MaxPolls,       \* pollAttempts
          HasDeadline,    \* deadlineMs is given
          MaxLag,         \* how far an account snapshot of the RPC may lag
          MaxOutsiders    \* bound: transactions of other broadcasters

Calls == Invokes \cup Probes

ASSUME InvokeAssumption ==
  /\ Invokes \cap Probes = {} /\ Nobody \notin Calls
  /\ {MaxAttempts, MaxFeeAttempts, MaxPolls} \subseteq Nat \ {0}
  /\ HasDeadline \in BOOLEAN
  /\ MaxLag \in Nat /\ MaxOutsiders \in Nat

VARIABLES
  ledger,       \* the account's included transactions, in sequence order
  mempool,      \* transactions a node accepted and that may still be included
  lastReserved, \* AccountState.lastReservedSequence (-1: none yet)
  tail,         \* the call whose promise is AccountState.queue
  behind,       \* behind[c]: the call whose release c awaits
  at,           \* at[c]: the await the task of c is at
  fetched,      \* fetched[c]: the sequence number getAccount() answered
  nextSeq,      \* nextSeq[c]: the sequence number reserved for this attempt
  attempts,     \* attempts[c]: generalAttempt and feeAttempt, which are equal
  polls,        \* polls[c]: status polls left
  why,          \* why[c]: cause of the last retry
  expired,      \* expired[c]: the overall deadline has passed
  answer        \* answer[c]: what the caller of c was told

network == <<ledger, mempool>>
queue   == <<tail, behind>>
attempt == <<fetched, nextSeq, attempts, polls, why>>
vars == <<network, lastReserved, queue, at, attempt, expired, answer>>

Building == {"probe", "sign", "simulate", "assemble", "seal", "send"}
Awaits == {"idle", "queued", "account", "ledger", "poll", "backoff", "over"}
            \cup Building
Causes == {"none", "min_fee", "sequence_number_collision",
           "stale_ledger_resource_limit"}
Results == {"success", "refused", "stale", "trap", "foreign"}
Kinds == {"none", "allowed", "blocked", "charged", "pending", "error",
          "exhausted", "deadline", "timeout", "admissible"}
NoTx == 0

ChainSeq == Len(ledger)

\* TransactionBuilder advances the sequence number it is given.
Tx(c) == [call |-> c, seq |-> nextSeq[c] + 1]

\* Included(t, r): transaction t was included, with result r.
Included(t, r) ==
  t.seq \in DOMAIN ledger /\ ledger[t.seq] = [call |-> t.call, result |-> r]

Init ==
  /\ ledger = <<>> /\ mempool = {}
  /\ lastReserved = -1
  /\ tail = Nobody /\ behind = [c \in Calls |-> Nobody]
  /\ at = [c \in Calls |-> "idle"]
  /\ fetched = [c \in Calls |-> 0] /\ nextSeq = [c \in Calls |-> 0]
  /\ attempts = [c \in Calls |-> 0] /\ polls = [c \in Calls |-> 0]
  /\ why = [c \in Calls |-> "none"]
  /\ expired = [c \in Calls |-> FALSE]
  /\ answer = [c \in Calls |-> [kind |-> "none", seq |-> NoTx]]

-----------------------------------------------------------------------------
(* The end of a task, and of a call.                                       *)

\* withRpcAbort settles once: a task that ends after its caller left is unheard.
Tell(c, kind, seq) ==
  answer' = IF answer[c].kind = "none"
            THEN [answer EXCEPT ![c] = [kind |-> kind, seq |-> seq]]
            ELSE answer

\* The task settles: the finally of withAccountQueue.  At "over" its promise is
\* released.
Settle(c, kind, seq) ==
  /\ at' = [at EXCEPT ![c] = "over"]
  /\ tail' = IF tail = c THEN Nobody ELSE tail
  /\ Tell(c, kind, seq)
  /\ UNCHANGED behind

Await(c, next) ==
  /\ at' = [at EXCEPT ![c] = next]
  /\ UNCHANGED <<queue, answer>>

\* A reply the deadline outran is a timeout; otherwise the task goes on.
OnTime(c, next) ==
  \/ expired[c] /\ Settle(c, "deadline", NoTx)
  \/ ~expired[c] /\ Await(c, next)

-----------------------------------------------------------------------------
(* Entering: the account queue, and the dry run that does not join it.     *)

\* Mutant: the task does not make itself the end of the chain.
EnqueueAlongside(c) ==
  /\ at[c] = "idle"
  /\ behind' = [behind EXCEPT ![c] = tail]
  /\ at' = [at EXCEPT ![c] = "queued"]
  /\ UNCHANGED <<network, lastReserved, tail, attempt, expired, answer>>

Enqueue(c) ==
  /\ at[c] = "idle"
  /\ behind' = [behind EXCEPT ![c] = tail]
  /\ tail' = c
  /\ at' = [at EXCEPT ![c] = "queued"]
  /\ UNCHANGED <<network, lastReserved, attempt, expired, answer>>

\* A signal already aborted, or a source key that cannot be read: no RPC, no queue.
TurnAway(c) ==
  /\ at[c] = "idle"
  /\ \E kind \in {"timeout", "error"} : Tell(c, kind, NoTx)
  /\ at' = [at EXCEPT ![c] = "over"]
  /\ UNCHANGED <<network, lastReserved, queue, attempt, expired>>

BeginAttempt(c) ==
  /\ OnTime(c, "account")
  /\ attempts' = IF expired[c] THEN attempts
                 ELSE [attempts EXCEPT ![c] = @ + 1]

\* Mutant: a task that ended otherwise than by succeeding keeps the queue.
ReleasedOnSuccess(p) ==
  p \in Calls => at[p] = "over" /\ answer[p].kind = "allowed"

Released(p) == p \in Calls => at[p] = "over"

Start(c) ==
  /\ at[c] = "queued" /\ Released(behind[c])
  /\ BeginAttempt(c)
  /\ UNCHANGED <<network, lastReserved, fetched, nextSeq, polls, why, expired>>

Probe(c) ==
  /\ at[c] = "idle"
  /\ BeginAttempt(c)
  /\ UNCHANGED <<network, lastReserved, fetched, nextSeq, polls, why, expired>>

-----------------------------------------------------------------------------
(* Discovery, signing and the enforced simulation (enforceCall).           *)

AccountReply(c) ==
  /\ at[c] = "account"
  /\ \/ Settle(c, "error", NoTx) /\ UNCHANGED fetched
     \/ /\ OnTime(c, "ledger")
        /\ \E lag \in 0..MaxLag :
             /\ lag <= ChainSeq
             /\ fetched' = [fetched EXCEPT ![c] = ChainSeq - lag]
  /\ UNCHANGED <<network, lastReserved, nextSeq, attempts, polls, why, expired>>

\* Mutant: the reservation repeats instead of advancing.
ReserveAgain(last, seen) == IF last >= seen THEN last ELSE seen

\* reserveNextSequence.
Reserve(last, seen) == IF last >= seen THEN last + 1 ELSE seen

LedgerReply(c) ==
  /\ at[c] = "ledger"
  /\ \/ /\ Settle(c, "error", NoTx) \/ (expired[c] /\ Settle(c, "deadline", NoTx))
        /\ UNCHANGED <<lastReserved, nextSeq>>
     \/ /\ ~expired[c] /\ Await(c, "probe")
        /\ lastReserved' = Reserve(lastReserved, fetched[c])
        /\ nextSeq' = [nextSeq EXCEPT ![c] = Reserve(lastReserved, fetched[c])]
  /\ UNCHANGED <<network, fetched, attempts, polls, why, expired>>

\* The recording simulation: transport failure, error response, or what to sign.
ProbeReply(c) ==
  /\ at[c] = "probe"
  /\ Settle(c, "error", NoTx) \/ OnTime(c, "sign")
  /\ UNCHANGED <<network, lastReserved, attempt, expired>>

Signed(c) ==
  /\ at[c] = "sign"
  /\ Settle(c, "error", NoTx) \/ OnTime(c, "simulate")
  /\ UNCHANGED <<network, lastReserved, attempt, expired>>

\* A refusal is returned before the deadline is looked at, an approval after.
SimulateReply(c) ==
  /\ at[c] = "simulate"
  /\ \/ Settle(c, "error", NoTx)
     \/ Settle(c, "blocked", NoTx)
     \/ c \in Invokes /\ OnTime(c, "assemble")
     \/ c \in Probes /\ Settle(c, IF expired[c] THEN "deadline" ELSE "admissible", NoTx)
  /\ UNCHANGED <<network, lastReserved, attempt, expired>>

Assembled(c) ==
  /\ at[c] = "assemble"
  /\ Settle(c, "error", NoTx) \/ OnTime(c, "seal")
  /\ UNCHANGED <<network, lastReserved, attempt, expired>>

-----------------------------------------------------------------------------
(* Signing the envelope, broadcasting and polling (submitAndPoll).         *)

\* The envelope is signed; nothing looks at the deadline before the broadcast.
Sealed(c) ==
  /\ at[c] = "seal"
  /\ Settle(c, "error", NoTx) \/ Await(c, "send")
  /\ UNCHANGED <<network, lastReserved, attempt, expired>>

\* The loop of invokeWithQueue meets a failure it classifies as `cause`.
Retry(c, cause) ==
  \/ /\ cause = "none"
     /\ Settle(c, "error", Tx(c).seq) /\ UNCHANGED <<attempts, why>>
  \/ /\ cause = "min_fee" /\ attempts[c] < MaxFeeAttempts
     /\ why' = [why EXCEPT ![c] = cause] /\ BeginAttempt(c)
  \/ /\ cause = "min_fee" /\ attempts[c] >= MaxFeeAttempts
     /\ Settle(c, "exhausted", NoTx) /\ UNCHANGED <<attempts, why>>
  \/ /\ cause \in {"sequence_number_collision", "stale_ledger_resource_limit"}
     /\ UNCHANGED attempts
     /\ \/ /\ attempts[c] >= MaxAttempts
           /\ Settle(c, "exhausted", Tx(c).seq) /\ UNCHANGED why
        \/ /\ attempts[c] < MaxAttempts
           /\ OnTime(c, "backoff")
           /\ why' = IF expired[c] THEN why ELSE [why EXCEPT ![c] = cause]

InSequence(c) == Tx(c).seq = ChainSeq + 1

\* A node holds the transaction only if its sequence number is the next one.
Held(c) == InSequence(c) /\ mempool' = mempool \cup {Tx(c)}

\* What sendTransaction's ERROR says.  The codes are matched narrowly, so any
\* rejection may also go unrecognised ("none").
RejectionCauses(c) ==
  IF InSequence(c) THEN {"none", "min_fee", "stale_ledger_resource_limit"}
  ELSE {"none", "sequence_number_collision"}

SendReply(c) ==
  /\ at[c] = "send"
  /\ \/ \* the request fails, or its answer names no hash
        /\ Settle(c, "error", NoTx)
        /\ Held(c) \/ UNCHANGED mempool
        /\ UNCHANGED <<attempts, polls, why>>
     \/ /\ expired[c] /\ Settle(c, "deadline", Tx(c).seq)
        /\ Held(c) \/ UNCHANGED mempool
        /\ UNCHANGED <<attempts, polls, why>>
     \/ \* ERROR
        /\ ~expired[c] /\ \E cause \in RejectionCauses(c) : Retry(c, cause)
        /\ UNCHANGED <<mempool, polls>>
     \/ \* any other status; the network may nevertheless not hold it
        /\ ~expired[c] /\ Await(c, "poll")
        /\ polls' = [polls EXCEPT ![c] = MaxPolls]
        /\ Held(c) \/ UNCHANGED mempool
        /\ UNCHANGED <<attempts, why>>
  /\ UNCHANGED <<ledger, lastReserved, fetched, nextSeq, expired>>

\* Mutant: polls that run out are retried like a stale ledger.
UnconfirmedRetries(c) ==
  /\ polls' = [polls EXCEPT ![c] = @ - 1]
  /\ \/ polls[c] = 1 /\ Retry(c, "stale_ledger_resource_limit")
     \/ polls[c] > 1 /\ Await(c, "poll") /\ UNCHANGED <<attempts, why>>

\* Mutant: the polls are counted one too many.
UnconfirmedOnceMore(c) ==
  /\ polls' = [polls EXCEPT ![c] = @ - 1]
  /\ \/ polls[c] = 0 /\ Settle(c, "pending", Tx(c).seq)
     \/ polls[c] # 0 /\ Await(c, "poll")
  /\ UNCHANGED <<attempts, why>>

\* NOT_FOUND: poll again, or give up without a verdict.
Unconfirmed(c) ==
  /\ polls' = [polls EXCEPT ![c] = @ - 1]
  /\ \/ polls[c] = 1 /\ Settle(c, "pending", Tx(c).seq)
     \/ polls[c] > 1 /\ Await(c, "poll")
  /\ UNCHANGED <<attempts, why>>

PollReply(c) ==
  /\ at[c] = "poll"
  /\ \/ /\ Settle(c, "error", Tx(c).seq)
        /\ UNCHANGED <<attempts, polls, why>>
     \/ /\ expired[c] /\ Settle(c, "deadline", Tx(c).seq)
        /\ UNCHANGED <<attempts, polls, why>>
     \/ /\ ~expired[c] /\ Included(Tx(c), "success")
        /\ Settle(c, "allowed", Tx(c).seq) /\ UNCHANGED <<attempts, polls, why>>
     \/ /\ ~expired[c] /\ Included(Tx(c), "refused")
        /\ Settle(c, "charged", Tx(c).seq) /\ UNCHANGED <<attempts, polls, why>>
     \/ /\ ~expired[c] /\ Included(Tx(c), "stale")
        /\ Retry(c, "stale_ledger_resource_limit") /\ UNCHANGED polls
     \/ /\ ~expired[c] /\ Included(Tx(c), "trap")
        /\ Retry(c, "none") /\ UNCHANGED polls
     \/ ~expired[c] /\ Unconfirmed(c)
  /\ UNCHANGED <<network, lastReserved, fetched, nextSeq, expired>>

\* Mutant: the deadline is not looked at again after the sleep.
BackoffEndsLate(c) ==
  /\ at[c] = "backoff"
  /\ Await(c, "account")
  /\ attempts' = [attempts EXCEPT ![c] = @ + 1]
  /\ UNCHANGED <<network, lastReserved, fetched, nextSeq, polls, why, expired>>

BackoffEnds(c) ==
  /\ at[c] = "backoff"
  /\ BeginAttempt(c)
  /\ UNCHANGED <<network, lastReserved, fetched, nextSeq, polls, why, expired>>

-----------------------------------------------------------------------------
(* The caller's bounds, which no await of the task looks at, and the network. *)

InProgress(c) == at[c] \notin {"idle", "over"}

\* The outer withRpcAbort: signal, timeoutMs or the deadline's timer.
CallerLeaves(c) ==
  /\ InProgress(c) /\ answer[c].kind = "none"
  /\ Tell(c, "timeout", NoTx)
  /\ UNCHANGED <<network, lastReserved, queue, at, attempt, expired>>

Expire(c) ==
  /\ HasDeadline /\ InProgress(c) /\ ~expired[c]
  /\ expired' = [expired EXCEPT ![c] = TRUE]
  /\ UNCHANGED <<network, lastReserved, queue, at, attempt, answer>>

Include(t) ==
  /\ t.seq = ChainSeq + 1
  /\ \E r \in Results \ {"foreign"} :
       ledger' = Append(ledger, [call |-> t.call, result |-> r])
  /\ mempool' = mempool \ {t}
  /\ UNCHANGED <<lastReserved, queue, at, attempt, expired, answer>>

Outsiders == {i \in DOMAIN ledger : ledger[i].call = Nobody}

Outsider ==
  /\ Cardinality(Outsiders) < MaxOutsiders
  /\ ledger' = Append(ledger, [call |-> Nobody, result |-> "foreign"])
  /\ UNCHANGED <<mempool, lastReserved, queue, at, attempt, expired, answer>>

-----------------------------------------------------------------------------
\* Steps that wait for somebody else's answer: the RPC, a signer.
Answered(c) ==
  \/ AccountReply(c) \/ LedgerReply(c) \/ ProbeReply(c) \/ Signed(c)
  \/ SimulateReply(c) \/ Assembled(c) \/ Sealed(c) \/ SendReply(c)
  \/ PollReply(c)

\* Steps the event loop owes the task: its turn in the queue, its timers.
Scheduled(c) == Start(c) \/ BackoffEnds(c)

Next ==
  \/ \E c \in Invokes : Enqueue(c) \/ Start(c)
  \/ \E c \in Probes : Probe(c)
  \/ \E c \in Calls : \/ TurnAway(c) \/ Answered(c) \/ BackoffEnds(c)
                      \/ CallerLeaves(c) \/ Expire(c)
  \/ \E t \in mempool : Include(t)
  \/ Outsider

Spec == Init /\ [][Next]_vars

\* The event loop runs ready tasks and timers.
FairSpec == Spec /\ \A c \in Calls : WF_vars(Scheduled(c))

\* A premise, not an assumption: every request and signer settles eventually.
AllAnswer == \A c \in Calls : WF_vars(Answered(c))

-----------------------------------------------------------------------------
(* Properties.                                                             *)

TypeOK ==
  /\ ledger \in Seq([call : Calls \cup {Nobody}, result : Results])
  /\ mempool \subseteq [call : Calls, seq : Nat]
  /\ lastReserved \in Nat \cup {-1}
  /\ tail \in Invokes \cup {Nobody}
  /\ behind \in [Calls -> Invokes \cup {Nobody}]
  /\ at \in [Calls -> Awaits]
  /\ fetched \in [Calls -> Nat] /\ nextSeq \in [Calls -> Nat]
  /\ attempts \in [Calls -> Nat] /\ polls \in [Calls -> Nat]
  /\ why \in [Calls -> Causes]
  /\ expired \in [Calls -> BOOLEAN]
  /\ answer \in [Calls -> [kind : Kinds, seq : Nat]]

Working(c) == at[c] \notin {"idle", "queued", "over"}

\* The account queue admits one invocation at a time, from its first request to
\* the release of its promise, whoever timed out and left meanwhile (1281-1300).
QueueExclusive == \A c, d \in Invokes : Working(c) /\ Working(d) => c = d

Reserving(c) == at[c] \in Building \cup {"poll"}

Spent == {t.seq : t \in mempool}
           \cup {i \in DOMAIN ledger : ledger[i].call # Nobody}

\* No two attempts in progress hold the same sequence number, and none is built
\* or signed on a number that a transaction of this client has used: it is the
\* nonce of the guard authorization too (1303-1310, 2185-2187).
NoSequenceReuse ==
  /\ \A c, d \in Calls :
       c # d /\ Reserving(c) /\ Reserving(d) => nextSeq[c] # nextSeq[d]
  /\ \A c \in Calls : at[c] \in Building => Tx(c).seq \notin Spent

\* If requests and signers answer in the end, every queued invocation gets its
\* turn and ends: no failed task strands the queue behind it (1278-1279).
QueueDrains ==
  AllAnswer => \A c \in Invokes : at[c] = "queued" ~> at[c] = "over"

\* What can still be told once the deadline has passed: nothing that reads as an
\* approval, and nothing a caller would take for a submission still under way.
ClosedKinds == {"deadline", "timeout", "error", "blocked"}

\* A spent deadline ends the call at its next answer, wherever the task waits: no
\* other request, sleep or attempt follows, and no success, charge or pending
\* transaction is reported.  Only an envelope in its signers' hands is still
\* broadcast, and that broadcast is the last thing the call does (invoke.ts
\* 558-572, 1552-1578; tx.ts 999-1057).
DeadlineHolds ==
  [][\A c \in Calls : expired[c] =>
       /\ at'[c] \in {at[c], "over"} \/ (at[c] = "seal" /\ at'[c] = "send")
       /\ answer'[c] # answer[c] => answer'[c].kind \in ClosedKinds
       /\ attempts'[c] = attempts[c] /\ nextSeq'[c] = nextSeq[c]]_vars

=============================================================================
