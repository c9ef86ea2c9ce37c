----------------------------- MODULE Preflight -----------------------------
(***************************************************************************)
(* PreFlightInterceptor.check() of preflight.ts with its verdict cache, its *)
(* coalescing of concurrent checks, and the Semaphore (semaphore.ts) that   *)
(* bounds simulations; and the ledger the guard is simulated against.       *)
(*                                                                         *)
(* A check looks at the cache behind a read of the latest ledger, then      *)
(* joins the run in flight for its call or starts one.  The run of a check  *)
(* is named by that check: stage says where its task (simulateLimited) is,  *)
(* live whether its decision is still awaited.  The task outlives the       *)
(* decision when a bound fires, and keeps its permit until the simulation   *)
(* settles.                                                                *)
(*                                                                         *)
(* Abstracted: reasons, fees and provenance of a verdict, step events,      *)
(* logging; a ttl runs out at any moment (Expire).                          *)
(***************************************************************************)
EXTENDS Integers, Sequences, FiniteSets, SequencesExt

CONSTANTS Checks,      \* calls of check()
          Calls,       \* contract calls, by fingerprint
          None,        \* no check
          Observers,   \* the checks that pass onStep
          Limit,       \* maxConcurrentSimulations
          MaxEntries,  \* cache.maxEntries
          MaxLag,      \* how far the latest ledger an RPC node tells may lag
          MaxLedger    \* bound: ledgers

ASSUME PreflightAssumption ==
  /\ None \notin Checks /\ Observers \subseteq Checks
  /\ {Limit, MaxEntries, MaxLedger} \subseteq Nat \ {0}
  /\ MaxLag \in Nat

VARIABLES
  admits,     \* admits[l]: the calls the guard admits at ledger l
  cache,      \* the Map of verdicts, in insertion order
  inFlight,   \* the Map of shared runs: key -> the check that started it
  available,  \* Semaphore.available
  waiters,    \* Semaphore.waiters
  at,         \* at[c]: the await of check c
  call,       \* call[c]: what c checks
  seen,       \* seen[c]: the ledger c's lookup saw (NoContext: none)
  joined,     \* joined[c]: the run whose decision c awaits
  answer,     \* answer[c]: what c returned
  stage,      \* stage[c]: the task of the run c started
  live,       \* live[c]: the decision of that run is pending
  from        \* from[c]: the ledger its current simulation started at

chain == <<admits>>
permits == <<available, waiters>>
checkVars == <<at, call, seen, joined, answer>>
runVars == <<stage, live, from>>
vars == <<chain, cache, inFlight, permits, checkVars, runVars>>

NoContext == 0
Latest == Len(admits)
Kinds == {"admissible", "blocked", "undetermined"}
Unanswered == [kind |-> "none", basis |-> 0, hit |-> FALSE]
Undetermined == [kind |-> "undetermined", basis |-> 0, hit |-> FALSE]

\* The key of a run: that of the cache, or the bare call without a context.
Keys == Calls \X BOOLEAN
KeyOf(c) == <<call[c], seen[c] # NoContext>>

Verdict(k, l) == IF k \in admits[l] THEN "admissible" ELSE "blocked"

Holders == {c \in Checks : stage[c] \in {"simulating", "backoff", "again"}}

Init ==
  /\ admits \in [{1} -> SUBSET Calls]
  /\ cache = <<>> /\ inFlight = [k \in Keys |-> None]
  /\ available = Limit /\ waiters = <<>>
  /\ at = [c \in Checks |-> "idle"]
  /\ call \in [Checks -> Calls]
  /\ seen = [c \in Checks |-> NoContext]
  /\ joined = [c \in Checks |-> None]
  /\ answer = [c \in Checks |-> Unanswered]
  /\ stage = [c \in Checks |-> "none"] /\ live = [c \in Checks |-> FALSE]
  /\ from = [c \in Checks |-> 0]

-----------------------------------------------------------------------------
(* The semaphore.                                                          *)

\* acquire(): a permit at once, or a place in the queue.
Acquire(c) ==
  IF available > 0
  THEN /\ available' = available - 1 /\ UNCHANGED waiters
       /\ stage' = [stage EXCEPT ![c] = "simulating"]
       /\ from' = [from EXCEPT ![c] = Latest]
  ELSE /\ waiters' = Append(waiters, c) /\ UNCHANGED available
       /\ stage' = [stage EXCEPT ![c] = "queued"]
       /\ UNCHANGED from

\* Mutant: a release with waiters also returns the permit to the pool.
ReleaseTwice(c) ==
  /\ available' = available + 1
  /\ IF waiters # <<>>
     THEN /\ waiters' = Tail(waiters)
          /\ stage' = [stage EXCEPT ![c] = "freed", ![Head(waiters)] = "simulating"]
          /\ from' = [from EXCEPT ![Head(waiters)] = Latest]
     ELSE /\ stage' = [stage EXCEPT ![c] = "freed"]
          /\ UNCHANGED <<waiters, from>>

\* release(): the permit passes to the first waiter, or to the pool.
Release(c) ==
  IF waiters # <<>>
  THEN /\ waiters' = Tail(waiters) /\ UNCHANGED available
       /\ stage' = [stage EXCEPT ![c] = "freed", ![Head(waiters)] = "simulating"]
       /\ from' = [from EXCEPT ![Head(waiters)] = Latest]
  ELSE /\ available' = available + 1
       /\ stage' = [stage EXCEPT ![c] = "freed"]
       /\ UNCHANGED <<waiters, from>>

\* Mutant: the bound of a queued run is only noted, its waiter stays.
LeaveQueueLazily(c) == UNCHANGED <<waiters, stage>>

\* A waiter whose signal aborts leaves the queue; a holder keeps its permit.
Withdraw(c) ==
  IF stage[c] = "queued"
  THEN /\ waiters' = RemoveAt(waiters, CHOOSE i \in DOMAIN waiters : waiters[i] = c)
       /\ stage' = [stage EXCEPT ![c] = "freed"]
  ELSE UNCHANGED <<waiters, stage>>

-----------------------------------------------------------------------------
(* The cache.                                                              *)

\* What deletions leave of a Map: the entries at places I, in their order.
Left(entries, I) ==
  LET place == CHOOSE f \in [1 .. Cardinality(I) -> I] :
                 \A i, j \in DOMAIN f : i < j => f[i] < f[j]
  IN [i \in 1 .. Cardinality(I) |-> entries[place[i]]]

\* Mutant: entries of another ledger are kept while their ttl lasts.
FreshByTtl(entries, l) == Left(entries, {i \in DOMAIN entries : ~entries[i].expired})

\* cacheContext() purges what is of another ledger or past its ttl.
Fresh(entries, l) ==
  Left(entries, {i \in DOMAIN entries : entries[i].ledger = l /\ ~entries[i].expired})

Without(entries, k) == Left(entries, {i \in DOMAIN entries : entries[i].call # k})

Hits(entries, k) == {e \in ToSet(entries) : e.call = k}

\* Mutant: the bound is checked before the overwritten entry is dropped.
StoreOneMore(entries, e) ==
  Append(IF Len(entries) > MaxEntries THEN Tail(entries)
         ELSE Without(entries, e.call), e)

\* storeCacheEntry(): an overwrite first, then the least recently used go.
Store(entries, e) ==
  LET kept == Without(entries, e.call)
      excess == Len(kept) - (MaxEntries - 1) IN
    Append(IF excess > 0 THEN SubSeq(kept, excess + 1, Len(kept)) ELSE kept, e)

\* touch(): a hit is the most recent use.
Touch(entries, e) == Append(Without(entries, e.call), e)

-----------------------------------------------------------------------------
(* check().                                                                *)

\* computeDecision() starts: its task asks for a permit.
StartRun(c) ==
  /\ Acquire(c)
  /\ live' = [live EXCEPT ![c] = TRUE]

\* After the lookup: join the run in flight for the key, or start one.  A check
\* with an observer has a run of its own.
Proceed(c, l) ==
  LET key == <<call[c], l # NoContext>>
      shared == c \notin Observers IN
    /\ seen' = [seen EXCEPT ![c] = l]
    /\ at' = [at EXCEPT ![c] = "waiting"]
    /\ IF shared /\ inFlight[key] # None
       THEN /\ joined' = [joined EXCEPT ![c] = inFlight[key]]
            /\ UNCHANGED <<inFlight, permits, runVars>>
       ELSE /\ joined' = [joined EXCEPT ![c] = c]
            /\ inFlight' = IF shared THEN [inFlight EXCEPT ![key] = c]
                                     ELSE inFlight
            /\ StartRun(c)

Begin(c) ==
  /\ at[c] = "idle"
  /\ at' = [at EXCEPT ![c] = "lookup"]
  /\ UNCHANGED <<chain, cache, inFlight, permits, call, seen, joined, answer,
                 runVars>>

\* The latest ledger is known: a hit is returned, a miss goes on.
LookupReply(c) ==
  /\ at[c] = "lookup"
  /\ \E l \in 1 .. Latest :
       /\ l + MaxLag >= Latest
       /\ LET kept == Fresh(cache, l) IN
            IF Hits(kept, call[c]) # {}
            THEN \E e \in Hits(kept, call[c]) :
                   /\ cache' = Touch(kept, e)
                   /\ at' = [at EXCEPT ![c] = "answered"]
                   /\ seen' = [seen EXCEPT ![c] = l]
                   /\ answer' = [answer EXCEPT ![c] =
                        [kind |-> e.kind, basis |-> e.basis, hit |-> TRUE]]
                   /\ UNCHANGED <<inFlight, permits, joined, runVars>>
            ELSE cache' = kept /\ Proceed(c, l) /\ UNCHANGED answer
  /\ UNCHANGED <<chain, call>>

\* The revision or the ledger cannot be read: the uncached path.
LookupFails(c) ==
  /\ at[c] = "lookup"
  /\ Proceed(c, NoContext)
  /\ UNCHANGED <<chain, cache, call, answer>>

\* A bound of the caller fires during the lookup, or while it awaits a shared
\* run, which goes on.
CallerLeaves(c) ==
  /\ \/ at[c] = "lookup"
     \/ at[c] = "waiting" /\ c \notin Observers
  /\ at' = [at EXCEPT ![c] = "answered"]
  /\ answer' = [answer EXCEPT ![c] = Undetermined]
  /\ UNCHANGED <<chain, cache, inFlight, permits, call, seen, joined,
                 runVars>>

-----------------------------------------------------------------------------
(* A run.                                                                  *)

\* Mutant: undetermined decisions are cached like verdicts.
CachesUndetermined(c, result) == seen[c] # NoContext

\* Only a verdict, and only one with a ledger to belong to, is cached.
Cacheable(c, result) == seen[c] # NoContext /\ result.kind # "undetermined"

\* Mutant: a run that is over stays in the map.
UnregisterNever(c) == inFlight

\* settle(): the run leaves the map, if the entry is still its own.
Unregister(c) == [k \in Keys |-> IF inFlight[k] = c THEN None ELSE inFlight[k]]

\* The decision of c's run: it is cached, the run leaves the map, and whoever
\* still waits is answered.
Decide(c, result) ==
  /\ live' = [live EXCEPT ![c] = FALSE]
  /\ inFlight' = Unregister(c)
  /\ cache' = IF Cacheable(c, result)
              THEN Store(cache, [call |-> call[c], ledger |-> seen[c],
                                 kind |-> result.kind, basis |-> result.basis,
                                 expired |-> FALSE])
              ELSE cache
  /\ at' = [d \in Checks |-> IF at[d] = "waiting" /\ joined[d] = c
                             THEN "answered" ELSE at[d]]
  /\ answer' = [d \in Checks |-> IF at[d] = "waiting" /\ joined[d] = c
                                 THEN result ELSE answer[d]]

\* The decision falls with the end of the task, unless a bound outran it.
Finish(c, result) ==
  /\ Release(c)
  /\ IF live[c] THEN Decide(c, result)
     ELSE UNCHANGED <<live, inFlight, cache, at, answer>>
  /\ UNCHANGED <<chain, call, seen, joined>>

\* The guard ruled, on some ledger since the simulation was sent.
SimulationRules(c) ==
  /\ stage[c] \in {"simulating", "again"}
  /\ \E l \in from[c] .. Latest :
       Finish(c, [kind |-> Verdict(call[c], l), basis |-> l, hit |-> FALSE])

\* The simulation failed, or was rate-limited a second time.
SimulationFails(c) ==
  /\ stage[c] \in {"simulating", "again"}
  /\ Finish(c, Undetermined)

\* HTTP 429: back off once, with the permit.
RateLimited(c) ==
  /\ stage[c] = "simulating"
  /\ stage' = [stage EXCEPT ![c] = "backoff"]
  /\ UNCHANGED <<chain, cache, inFlight, permits, checkVars, live, from>>

BackoffEnds(c) ==
  /\ stage[c] = "backoff"
  /\ IF live[c]
     THEN /\ stage' = [stage EXCEPT ![c] = "again"]
          /\ from' = [from EXCEPT ![c] = Latest]
          /\ UNCHANGED <<chain, cache, inFlight, permits, checkVars, live>>
     ELSE Finish(c, Undetermined)

\* The bound of the run fires, its own default or its only caller's.
RunBoundFires(c) ==
  /\ live[c]
  /\ Withdraw(c)
  /\ Decide(c, Undetermined)
  /\ UNCHANGED <<chain, available, call, seen, joined, from>>

-----------------------------------------------------------------------------
(* The host and the network.                                               *)

Invalidate ==
  /\ cache # <<>>
  /\ \/ cache' = <<>>
     \/ \E k \in Calls : cache' = Without(cache, k)
  /\ UNCHANGED <<chain, inFlight, permits, checkVars, runVars>>

\* The ttl of an entry runs out.
Expire ==
  /\ \E i \in DOMAIN cache :
       ~cache[i].expired /\ cache' = [cache EXCEPT ![i].expired = TRUE]
  /\ UNCHANGED <<chain, inFlight, permits, checkVars, runVars>>

\* A ledger closes, with the policy changed or not.
Close ==
  /\ Latest < MaxLedger
  /\ \E K \in SUBSET Calls : admits' = Append(admits, K)
  /\ UNCHANGED <<cache, inFlight, permits, checkVars, runVars>>

CheckStep(c) == Begin(c) \/ LookupReply(c) \/ LookupFails(c) \/ CallerLeaves(c)

RunStep(c) ==
  \/ SimulationRules(c) \/ SimulationFails(c)
  \/ RateLimited(c) \/ BackoffEnds(c) \/ RunBoundFires(c)

Next ==
  \/ \E c \in Checks : CheckStep(c) \/ RunStep(c)
  \/ Invalidate \/ Expire \/ Close

Spec == Init /\ [][Next]_vars

-----------------------------------------------------------------------------
(* Properties.                                                             *)

Entries == [call : Calls, ledger : Nat \ {0}, kind : Kinds, basis : Nat,
            expired : BOOLEAN]
Answers == [kind : Kinds \cup {"none"}, basis : Nat, hit : BOOLEAN]

\* Every variable has its type; the cache holds verdicts only, one of a call, and
\* no more than maxEntries (preflight.ts 700-735, 1127-1129).
TypeOK ==
  /\ admits \in Seq(SUBSET Calls) /\ cache \in Seq(Entries)
  /\ Len(cache) <= MaxEntries
  /\ \A i, j \in DOMAIN cache : cache[i].call = cache[j].call => i = j
  /\ \A i \in DOMAIN cache : cache[i].kind # "undetermined"
  /\ inFlight \in [Keys -> Checks \cup {None}]
  /\ available \in 0 .. Limit /\ waiters \in Seq(Checks)
  /\ at \in [Checks -> {"idle", "lookup", "waiting", "answered"}]
  /\ call \in [Checks -> Calls] /\ seen \in [Checks -> Nat]
  /\ joined \in [Checks -> Checks \cup {None}]
  /\ answer \in [Checks -> Answers]
  /\ stage \in [Checks -> {"none", "queued", "simulating", "backoff", "again",
                           "freed"}]
  /\ live \in [Checks -> BOOLEAN] /\ from \in [Checks -> Nat]

\* Permits are neither lost nor made, and none is idle while a run waits for
\* one: abandoned runs hold theirs, withdrawn ones none (semaphore.ts 33-69).
PermitsConserved ==
  /\ available + Cardinality(Holders) = Limit
  /\ waiters # <<>> => available = 0
  /\ ToSet(waiters) = {c \in Checks : stage[c] = "queued"}

\* A verdict is what the guard ruled on that ledger; one from the cache, or from
\* a check's own run, is no older than the ledger its lookup saw: a hit never
\* crosses a ledger (preflight.ts 392-393, README 1199).
VerdictIsCurrent ==
  \A c \in Checks : answer[c].kind \in {"admissible", "blocked"} =>
    /\ answer[c].kind = Verdict(call[c], answer[c].basis)
    /\ answer[c].hit \/ joined[c] = c => answer[c].basis >= seen[c]

\* Concurrent checks of one call share one run: two pending runs of one key
\* exist only for an observer, and a registered run is pending, so nobody joins
\* a run that is over (preflight.ts 893-925).
OneRunPerCall ==
  /\ \A c, d \in Checks \ Observers :
       live[c] /\ live[d] /\ KeyOf(c) = KeyOf(d) => c = d
  /\ \A k \in Keys : inFlight[k] # None =>
       live[inFlight[k]] /\ KeyOf(inFlight[k]) = k

\* A run whose decision nobody awaits takes no permit, and sends no simulation,
\* any more (semaphore.ts 30-33).
AbandonedSendsNothing ==
  [][\A c \in Checks :
       /\ stage'[c] = "simulating" /\ stage[c] # "simulating" => live'[c]
       /\ stage'[c] = "again" /\ stage[c] # "again" => live[c]]_vars
=============================================================================
