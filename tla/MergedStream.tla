--------------------------- MODULE MergedStream ---------------------------
(***************************************************************************)
(* watchAll() and mergeGuardEventStreams() of telemetry.ts: the pages of    *)
(* watchStream() and the diagnostic batches a caller feeds in, raced        *)
(* against each other and an abort signal, de-duplicated by id.             *)
(*                                                                         *)
(* The committed source is watchStream() in the mode that saves its cursor  *)
(* when it is pulled again: it is idle, saving, polling or over, and has    *)
(* yielded the pages up to pos.  A pull is a next() whose promise is        *)
(* pending, ready, over or failed; winner is the arm the race settled with. *)
(* Streams of one process follow each other under its lease; a crash leaves *)
(* the cursor store alone.                                                 *)
(*                                                                         *)
(* Abstracted: what an event carries besides id, ledger and verdict; polls  *)
(* without events; failed-transaction events; gaps and health.              *)
(***************************************************************************)
EXTENDS Integers, Sequences, SequencesExt, FiniteSets

CONSTANTS
  Pages,       \* the committed pages behind the cursor: sequences of ids
  Batches,     \* the diagnostic batches the caller feeds: sequences of ids
  LedgerOf,    \* the ledger of a committed event
  Capacity,    \* dedupCapacity
  MaxStreams   \* bound: watchAll() calls

Ids == (UNION {ToSet(Pages[i]) : i \in DOMAIN Pages})
         \cup (UNION {ToSet(Batches[i]) : i \in DOMAIN Batches})

\* An id is its rank among the ids.  The de-duplicator's constructor refuses a
\* capacity that is not a positive integer.
ASSUME MergedStreamAssumption ==
  /\ Pages \in Seq(Seq(Nat)) /\ Batches \in Seq(Seq(Nat))
  /\ \A id \in Ids : LedgerOf[id] \in Nat
  /\ Capacity \in Nat \ {0} /\ MaxStreams \in Nat

VARIABLES
  gen,        \* where the merging generator is
  winner,     \* the arm that settled the race, "none" before
  aborted,    \* the signal
  source,     \* the committed source
  pos,        \* pages it has yielded
  saved,      \* the stored cursor
  pull,       \* pull[s]: the next() on each source
  dpos,       \* diagnostic batches handed out
  out,        \* what is left of the page or batch being emitted
  arm,        \* where it came from
  emitted,    \* the de-duplicator's queue of ids
  delivery,   \* history: ids this stream yielded, with the source
  consumed,   \* history: ids a consumer came back after
  streams     \* history: watchAll() calls

racing == <<gen, winner, aborted>>
committed == <<source, pos, saved>>
emitting == <<out, arm, emitted, delivery>>
vars == <<racing, committed, pull, dpos, emitting, consumed, streams>>

Sources == {"committed", "diagnostic"}
Running == gen \notin {"none", "done"}

Init ==
  /\ gen = "none" /\ winner = "none" /\ aborted = FALSE
  /\ source = "over" /\ pos = 0 /\ saved = 0
  /\ pull = [s \in Sources |-> "none"] /\ dpos = 0
  /\ out = <<>> /\ arm = "committed" /\ emitted = <<>> /\ delivery = <<>>
  /\ consumed = {} /\ streams = 0

-----------------------------------------------------------------------------
(* The two sources.                                                        *)

\* Promise.race: the arm that settles first while the generator waits.
Settles(s) == winner' = IF gen = "racing" /\ winner = "none" THEN s ELSE winner

\* The page loop returns ("over") or throws ("failed"): its next() settles.
LoopEnds(how) ==
  /\ source' = "over"
  /\ pull' = [pull EXCEPT !["committed"] = how]
  /\ Settles("committed")

\* The page loop resumes past its yield: it saves the cursor of the page, and goes
\* on to the next poll unless the signal is aborted by then.
SaveCursor ==
  /\ source = "saving"
  /\ saved' = pos
  /\ \/ aborted /\ LoopEnds("over")
     \/ ~aborted /\ source' = "polling" /\ UNCHANGED <<winner, pull>>
  /\ UNCHANGED <<gen, aborted, pos, dpos, emitting, consumed, streams>>

\* Mutant: the cursor is saved as soon as its page is fetched.
FetchAndSave ==
  /\ source = "polling" /\ pos < Len(Pages)
  /\ pos' = pos + 1 /\ saved' = pos + 1
  /\ source' = "idle"
  /\ pull' = [pull EXCEPT !["committed"] = "ready"]
  /\ Settles("committed")
  /\ UNCHANGED <<gen, aborted, dpos, emitting, consumed, streams>>

\* A poll returns events: they are kept before they are yielded, also when the
\* signal was aborted while the request was in flight.
FetchPage ==
  /\ source = "polling" /\ pos < Len(Pages)
  /\ pos' = pos + 1
  /\ source' = "idle"
  /\ pull' = [pull EXCEPT !["committed"] = "ready"]
  /\ Settles("committed")
  /\ UNCHANGED <<gen, aborted, saved, dpos, emitting, consumed, streams>>

\* An aborted loop ends: a sleep is cut short, a request must first be answered
\* (without events, or by a failure).
SourceEnds ==
  /\ source = "polling" /\ aborted
  /\ LoopEnds("over")
  /\ UNCHANGED <<gen, aborted, pos, saved, dpos, emitting, consumed, streams>>

\* Polls whose retries are spent end the loop; a store that rejects is thrown.
SourceFails(how) ==
  /\ source = "polling" \/ (source = "saving" /\ how = "failed")
  /\ LoopEnds(how)
  /\ UNCHANGED <<gen, aborted, pos, saved, dpos, emitting, consumed, streams>>

\* The caller's source hands out a batch, ends, or rejects.
DiagnosticsSettle(how) ==
  /\ pull["diagnostic"] = "pending"
  /\ how = "ready" => dpos < Len(Batches)
  /\ dpos' = IF how = "ready" THEN dpos + 1 ELSE dpos
  /\ pull' = [pull EXCEPT !["diagnostic"] = how]
  /\ Settles("diagnostic")
  /\ UNCHANGED <<gen, aborted, committed, emitting, consumed, streams>>

-----------------------------------------------------------------------------
(* The merging generator.                                                  *)

\* Mutant: an abort that comes while a page is emitted is not seen again.
FirstSettledSource(p) ==
  IF p["committed"] \in {"ready", "over", "failed"} THEN "committed"
  ELSE IF p["diagnostic"] \in {"ready", "over", "failed"} THEN "diagnostic" ELSE "none"

\* When the race starts, settled arms count in the order of the array.
FirstSettled(p) ==
  IF p["committed"] \in {"ready", "over", "failed"} THEN "committed"
  ELSE IF p["diagnostic"] \in {"ready", "over", "failed"} THEN "diagnostic"
  ELSE IF aborted THEN "abort" ELSE "none"

\* The loop condition: with both arms dropped the stream ends.
RaceAgain(p) ==
  IF \A s \in Sources : p[s] = "none"
  THEN gen' = "closing" /\ winner' = "none"
  ELSE gen' = "racing" /\ winner' = FirstSettled(p)

\* watchAll(): the lease, the stored cursor, and a signal that is not aborted.
Start ==
  /\ ~Running /\ streams < MaxStreams
  /\ streams' = streams + 1
  /\ gen' = "racing" /\ winner' = "none" /\ aborted' = FALSE
  /\ source' = "polling" /\ pos' = saved
  /\ pull' = [s \in Sources |-> "pending"]
  /\ dpos' = 0
  /\ out' = <<>> /\ emitted' = <<>> /\ delivery' = <<>>
  /\ UNCHANGED <<saved, arm, consumed>>

Before(a, b) == LedgerOf[a] < LedgerOf[b] \/ (LedgerOf[a] = LedgerOf[b] /\ a < b)

SortCommittedPage(page) ==
  LET S == ToSet(page) IN
    CHOOSE s \in [1..Cardinality(S) -> S] : \A i, j \in DOMAIN s : i < j => Before(s[i], s[j])

\* The race is won by an arm: its page is emitted, or the arm is dropped.
TakeWinner(s) ==
  /\ gen = "racing" /\ winner = s
  /\ \/ /\ pull[s] = "ready"
        /\ gen' = "emitting" /\ winner' = "none"
        /\ arm' = s
        /\ out' = IF s = "committed" THEN SortCommittedPage(Pages[pos]) ELSE Batches[dpos]
        /\ pull' = [pull EXCEPT ![s] = "none"]
     \/ /\ pull[s] = "over"
        /\ pull' = [pull EXCEPT ![s] = "none"]
        /\ RaceAgain(pull')
        /\ UNCHANGED <<out, arm>>
     \/ /\ pull[s] = "failed"
        /\ pull' = [pull EXCEPT ![s] = "none"]
        /\ gen' = "closing" /\ winner' = "none"
        /\ UNCHANGED <<out, arm>>
  /\ UNCHANGED <<aborted, committed, dpos, emitted, delivery, consumed, streams>>

AbortWins ==
  /\ gen = "racing" /\ winner = "abort"
  /\ gen' = "closing" /\ winner' = "none"
  /\ UNCHANGED <<aborted, committed, pull, dpos, emitting, consumed, streams>>

\* Mutant: the oldest id is forgotten one event early.
RememberedLess(id) ==
  Append(IF Len(emitted) >= Capacity - 1 THEN SubSeq(emitted, 2, Len(emitted)) ELSE emitted, id)

\* Mutant: the oldest id is forgotten one event late.
RememberedMore(id) ==
  Append(IF Len(emitted) > Capacity THEN Tail(emitted) ELSE emitted, id)

\* BoundedEventDeduplicator.add(): first in, first out at capacity.
Remembered(id) ==
  Append(IF Len(emitted) >= Capacity THEN Tail(emitted) ELSE emitted, id)

Duplicate(id) == id \in ToSet(emitted)

Emit ==
  /\ gen = "emitting" /\ out # <<>>
  /\ out' = Tail(out)
  /\ IF Duplicate(Head(out))
     THEN UNCHANGED <<gen, emitted, delivery>>
     ELSE /\ gen' = "yielded"
          /\ emitted' = Remembered(Head(out))
          /\ delivery' = Append(delivery, [id |-> Head(out), arm |-> arm])
  /\ UNCHANGED <<winner, aborted, committed, pull, dpos, arm, consumed, streams>>

\* The page is done: its source is pulled again.
PullAgain ==
  /\ gen = "emitting" /\ out = <<>>
  /\ pull' = [pull EXCEPT ![arm] = "pending"]
  /\ source' = IF arm = "committed" THEN "saving" ELSE source
  /\ gen' = "racing" /\ winner' = FirstSettled(pull')
  /\ UNCHANGED <<aborted, pos, saved, dpos, emitting, consumed, streams>>

\* finally: committed.return(), which waits behind a next() in flight, then
\* diagnostics.return(), which the caller's source answers when it likes (that of
\* an async generator not before its own next(), if one is in flight).
CloseCommitted ==
  /\ gen = "closing" /\ source \notin {"saving", "polling"}
  /\ source' = "over" /\ gen' = "closingDiagnostics"
  /\ UNCHANGED <<winner, aborted, pos, saved, pull, dpos, emitting, consumed, streams>>

CloseDiagnostics ==
  /\ gen = "closingDiagnostics" /\ gen' = "done"
  /\ pull' = [s \in Sources |-> "none"]
  /\ UNCHANGED <<winner, aborted, committed, dpos, emitting, consumed, streams>>

-----------------------------------------------------------------------------
(* The consumer, and the process.                                          *)

LastYielded == delivery[Len(delivery)].id

ComesBack ==
  /\ gen = "yielded" /\ gen' = "emitting"
  /\ consumed' = consumed \cup {LastYielded}
  /\ UNCHANGED <<winner, aborted, committed, pull, dpos, emitting, streams>>

\* break: return() on a generator that is suspended at its yield.
Breaks ==
  /\ gen = "yielded" /\ gen' = "closing"
  /\ UNCHANGED <<winner, aborted, committed, pull, dpos, emitting, consumed, streams>>

Abort ==
  /\ Running /\ ~aborted /\ aborted' = TRUE
  /\ Settles("abort")
  /\ UNCHANGED <<gen, committed, pull, dpos, emitting, consumed, streams>>

Crash ==
  /\ Running
  /\ gen' = "none" /\ winner' = "none" /\ aborted' = FALSE
  /\ source' = "over" /\ pos' = 0
  /\ pull' = [s \in Sources |-> "none"] /\ dpos' = 0
  /\ out' = <<>> /\ arm' = "committed" /\ emitted' = <<>> /\ delivery' = <<>>
  /\ UNCHANGED <<saved, consumed, streams>>

Next ==
  \/ Start \/ SaveCursor \/ FetchPage \/ SourceEnds
  \/ \E how \in {"over", "failed"} : SourceFails(how)
  \/ \E how \in {"ready", "over", "failed"} : DiagnosticsSettle(how)
  \/ \E s \in Sources : TakeWinner(s)
  \/ AbortWins \/ Emit \/ PullAgain \/ CloseCommitted \/ CloseDiagnostics
  \/ ComesBack \/ Breaks \/ Abort \/ Crash

Spec == Init /\ [][Next]_vars

\* The merge's own continuations run, and a consumer comes back or breaks; nothing
\* is assumed of the RPC server, the cursor store or the diagnostic source.
FairSpec ==
  /\ Spec
  /\ \A s \in Sources : WF_vars(TakeWinner(s))
  /\ WF_vars(AbortWins) /\ WF_vars(Emit) /\ WF_vars(PullAgain)
  /\ WF_vars(CloseCommitted) /\ WF_vars(ComesBack \/ Breaks)

\* Premises, not assumptions.  After an abort the request or save that the page
\* loop awaits settles, one way or another; and the diagnostic source answers its
\* return().
LoopAnswers ==
  \/ SaveCursor \/ FetchPage \/ SourceEnds
  \/ \E how \in {"over", "failed"} : SourceFails(how)

SourceAnswers == WF_vars(aborted /\ LoopAnswers)

DiagnosticsReturn == WF_vars(CloseDiagnostics)

-----------------------------------------------------------------------------
(* Properties.                                                             *)

\* Types; the de-duplicator remembers at most Capacity ids.
TypeOK ==
  /\ gen \in {"none", "racing", "emitting", "yielded", "closing",
              "closingDiagnostics", "done"}
  /\ winner \in Sources \cup {"none", "abort"} /\ aborted \in BOOLEAN
  /\ source \in {"idle", "saving", "polling", "over"}
  /\ pos \in 0..Len(Pages) /\ saved \in 0..Len(Pages) /\ dpos \in 0..Len(Batches)
  /\ pull \in [Sources -> {"none", "pending", "ready", "over", "failed"}]
  /\ out \in Seq(Ids) /\ arm \in Sources
  /\ emitted \in Seq(Ids) /\ Len(emitted) <= Capacity
  /\ consumed \subseteq Ids /\ streams \in 0..MaxStreams

\* One stream yields an id again only after Capacity others since.
OncePerWindow ==
  \A i, j \in DOMAIN delivery :
    i < j /\ j <= i + Capacity => delivery[i].id # delivery[j].id

\* The stored cursor never passes a page with an event no consumer came back
\* after: whatever stops the stream or the process, no committed event is lost.
MergedCursorNeverLeads ==
  \A p \in 1..saved : ToSet(Pages[p]) \subseteq consumed

\* An aborted stream ends and gives its lease back, whichever arms have settled,
\* whatever is being emitted and however many more events its sources have: but
\* only if the request it has in flight is answered and the diagnostic source
\* answers return().  (watchAll() promises it without: see README section 6.)
AbortEndsMerge ==
  SourceAnswers /\ DiagnosticsReturn => (aborted /\ Running ~> ~Running)

=============================================================================
