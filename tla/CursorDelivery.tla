--------------------------- MODULE CursorDelivery ---------------------------
(***************************************************************************)
(* What a resumable stream of committed events promises its consumer: the  *)
(* durable cursor follows the consumer, never the fetcher.  One reader at  *)
(* a time is open; it opens at the durable cursor, hands out stretches of  *)
(* ledgers that join end to end, and moves the cursor only to a position   *)
(* whose events the consumer has come back from.  A reader may close or    *)
(* die at any time, so what was handed out may be handed out again.        *)
(***************************************************************************)
EXTENDS Integers

CONSTANT Events   \* the ledgers that hold an event

Nowhere == -1

VARIABLES
    saved,    \* the durable cursor, Nowhere before the first save
    origin,   \* where coverage began
    acked,    \* the events the consumer came back from
    at,       \* the position handed out by the open reader, Nowhere when none is open
    held      \* where the stretch in the consumer's hands begins, Nowhere when none

state == <<saved, origin, acked, at, held>>

Stretch(from, to) == { l \in Events : from < l /\ l <= to }

Init ==
    /\ saved = Nowhere /\ origin = 0 /\ acked = {}
    /\ at = Nowhere /\ held = Nowhere

\* A reader opens at the cursor, or, where there is none, wherever it likes.
Open ==
    /\ at = Nowhere
    /\ IF saved = Nowhere
       THEN at' \in Nat /\ origin' = at'
       ELSE at' = saved /\ origin' = origin
    /\ UNCHANGED <<saved, acked, held>>

\* The consumer gets the stretch behind the one before.
Deliver ==
    /\ at # Nowhere /\ held = Nowhere
    /\ held' = at
    /\ at' \in Nat /\ at <= at'
    /\ UNCHANGED <<saved, origin, acked>>

\* A stretch without events need not be handed out.
Skip ==
    /\ at # Nowhere /\ held = Nowhere
    /\ at' \in Nat /\ at <= at' /\ Stretch(at, at') = {}
    /\ UNCHANGED <<saved, origin, acked, held>>

\* The consumer comes back for more.
Acknowledge ==
    /\ held # Nowhere
    /\ acked' = acked \cup Stretch(held, at)
    /\ held' = Nowhere
    /\ UNCHANGED <<saved, origin, at>>

Save ==
    /\ at # Nowhere /\ held = Nowhere
    /\ saved' = at
    /\ UNCHANGED <<origin, acked, at, held>>

Close ==
    /\ at' = Nowhere /\ held' = Nowhere
    /\ UNCHANGED <<saved, origin, acked>>

Next == Open \/ Deliver \/ Skip \/ Acknowledge \/ Save \/ Close

Spec == Init /\ [][Next]_state

-----------------------------------------------------------------------------
\* Every event between the origin and n has been acknowledged.
Behind(n) == \A l \in Events : (origin < l /\ l <= n) => l \in acked

\* The promise: the durable cursor has nothing unacknowledged behind it.
NothingLost == Behind(saved)

\* Why it holds: the reader's own position has nothing unacknowledged behind it
\* either, but for the stretch in the consumer's hands.
DeliveryOK ==
    /\ saved \in Nat \cup {Nowhere} /\ origin \in Nat /\ acked \subseteq Events
    /\ at \in Nat \cup {Nowhere} /\ held \in Nat \cup {Nowhere}
    /\ Behind(saved)
    /\ at # Nowhere => Behind(IF held = Nowhere THEN at ELSE held)
    /\ held # Nowhere => at # Nowhere
=============================================================================
