------------------------- MODULE MergedStreamProofs -------------------------
(***************************************************************************)
(* Theorems about MergedStream, for any pages, batches, capacity and number *)
(* of streams: type correctness, that an id comes once per window of the    *)
(* de-duplicator, and that the stored cursor never leads the consumer.      *)
(*                                                                         *)
(* Two strands.  The de-duplicator (WindowInv): its queue is the end of     *)
(* what the stream yielded, as long as its capacity allows, so an id that   *)
(* is not in it was not yielded within the window.  The cursor (CursorInv): *)
(* the pages before the last fetched one are consumed, that one is when its *)
(* source is pulled again, and while it is emitted each of its events is    *)
(* consumed, still to come, or the one the consumer holds; a duplicate is   *)
(* dropped only because this stream yielded it, and the consumer came back. *)
(***************************************************************************)
EXTENDS MergedStream, FiniteSetTheorems, SequenceTheorems, WellFoundedInduction, TLAPS

Active == gen \in {"racing", "emitting", "yielded"}

\* The queue is the end of the history.
WindowInv ==
  /\ delivery \in Seq([id : Ids, arm : Sources])
  /\ Len(emitted) <= Len(delivery)
  /\ Len(emitted) = Capacity \/ Len(emitted) = Len(delivery)
  /\ \A i \in 1..Len(emitted) :
       emitted[i] = delivery[Len(delivery) - Len(emitted) + i].id
  /\ gen = "yielded" => Len(delivery) > 0
  /\ OncePerWindow

Consumed(p) == ToSet(Pages[p]) \subseteq consumed

\* What the consumer holds, if anything.
Held == IF gen = "yielded" THEN {LastYielded} ELSE {}

CursorInv ==
  /\ MergedCursorNeverLeads
  /\ \A p \in 1..pos : p < pos => Consumed(p)
  /\ source \in {"saving", "polling"} => \A p \in 1..pos : Consumed(p)
  /\ Active /\ pull["committed"] = "ready" => source = "idle" /\ pos > 0
  /\ pull["diagnostic"] = "ready" => dpos > 0
  /\ Active => ToSet(emitted) \subseteq consumed \cup Held
  /\ gen \in {"emitting", "yielded"} /\ arm = "committed" =>
       /\ source = "idle" /\ pos > 0 /\ pull["committed"] = "none"
       /\ ToSet(Pages[pos]) \subseteq consumed \cup ToSet(out) \cup Held

IInv == TypeOK /\ WindowInv /\ CursorInv

-----------------------------------------------------------------------------
(* Sorting a page.                                                         *)

LEMMA Bounds ==
  /\ Capacity \in Nat \ {0} /\ MaxStreams \in Nat
  /\ Len(Pages) \in Nat /\ DOMAIN Pages = 1..Len(Pages)
  /\ Len(Batches) \in Nat /\ DOMAIN Batches = 1..Len(Batches)
BY MergedStreamAssumption DEF MergedStreamAssumption

\* What a page or a batch holds are ids.
LEMMA PagesOfIds ==
  /\ \A p \in DOMAIN Pages : Pages[p] \in Seq(Nat) /\ ToSet(Pages[p]) \subseteq Ids
  /\ \A p \in DOMAIN Batches : Batches[p] \in Seq(Ids)
  /\ \A id \in Ids : id \in Nat /\ LedgerOf[id] \in Nat
<1> DEFINE OfPages == UNION {ToSet(Pages[i]) : i \in DOMAIN Pages}
           OfBatches == UNION {ToSet(Batches[i]) : i \in DOMAIN Batches}
<1>0. Ids = OfPages \cup OfBatches
  BY DEF Ids
<1>1. /\ \A p \in DOMAIN Pages : Pages[p] \in Seq(Nat)
      /\ \A p \in DOMAIN Batches : Batches[p] \in Seq(Nat)
      /\ \A id \in Ids : LedgerOf[id] \in Nat
  BY MergedStreamAssumption DEF MergedStreamAssumption
<1>2. \A t \in Seq(Nat) : \A id \in ToSet(t) : id \in Nat
  BY DEF ToSet
<1>3. /\ \A p \in DOMAIN Pages : ToSet(Pages[p]) \subseteq Ids
      /\ \A p \in DOMAIN Batches : ToSet(Batches[p]) \subseteq Ids
  <2>1. ASSUME NEW p \in DOMAIN Pages PROVE ToSet(Pages[p]) \subseteq Ids
    <3>1. ToSet(Pages[p]) \in {ToSet(Pages[i]) : i \in DOMAIN Pages}
      OBVIOUS
    <3>2. ToSet(Pages[p]) \subseteq OfPages
      BY <3>1, Zenon
    <3> HIDE DEF OfPages, OfBatches
    <3> QED BY <1>0, <3>2
  <2>2. ASSUME NEW p \in DOMAIN Batches PROVE ToSet(Batches[p]) \subseteq Ids
    <3>1. ToSet(Batches[p]) \in {ToSet(Batches[i]) : i \in DOMAIN Batches}
      OBVIOUS
    <3>2. ToSet(Batches[p]) \subseteq OfBatches
      BY <3>1, Zenon
    <3> HIDE DEF OfPages, OfBatches
    <3> QED BY <1>0, <3>2
  <2> QED BY <2>1, <2>2
<1>4. ASSUME NEW p \in DOMAIN Batches PROVE Batches[p] \in Seq(Ids)
  <2> DEFINE t == Batches[p]
  <2>1. t \in Seq(Nat) /\ \A i \in 1..Len(t) : t[i] \in ToSet(t)
    BY <1>1 DEF ToSet
  <2>2. \A i \in 1..Len(t) : t[i] \in Ids
    BY <1>3, <2>1
  <2> HIDE DEF t
  <2>3. Len(t) \in Nat /\ t = [i \in 1..Len(t) |-> t[i]]
    BY <2>1
  <2>4. t \in Seq(Ids)
    BY <2>2, <2>3
  <2> QED BY <2>4 DEF t
<1>5. ASSUME NEW id \in Ids PROVE id \in Nat
  <2>1. CASE id \in OfPages
    <3>1. PICK i \in DOMAIN Pages : id \in ToSet(Pages[i])
      BY <2>1
    <3> QED BY <1>1, <1>2, <3>1
  <2>2. CASE id \in OfBatches
    <3>1. PICK i \in DOMAIN Batches : id \in ToSet(Batches[i])
      BY <2>2
    <3> QED BY <1>1, <1>2, <3>1
  <2> HIDE DEF OfPages, OfBatches
  <2> QED BY <1>0, <2>1, <2>2
<1> QED BY <1>1, <1>3, <1>4, <1>5

\* A set of numbers has a least one: what an induction on numbers rests on.
LEMMA LeastNatural ==
  ASSUME NEW T \in SUBSET Nat, T # {}
  PROVE  \E x \in T : \A y \in T : x <= y
<1> DEFINE R == OpToRel(<, Nat)
<1>1. IsWellFoundedOn(R, Nat)
  BY NatLessThanWellFounded
<1>2. PICK x \in T : \A y \in T : ~ (<<y, x>> \in R)
  <2> HIDE DEF R
  <2> QED BY <1>1, WFMin
<1>3. \A y \in T : ~ (y < x)
  BY <1>2 DEF OpToRel
<1> QED BY <1>3

\* The event of the least ledger, and of the least id in it, comes first.
LEMMA FirstOfPage ==
  ASSUME NEW S \in SUBSET Ids, S # {}
  PROVE  \E m \in S : \A x \in S \ {m} : Before(m, x)
<1>1. \A x \in S : x \in Nat /\ LedgerOf[x] \in Nat
  BY PagesOfIds
<1> DEFINE L == {LedgerOf[x] : x \in S}
<1>2. PICK l \in L : \A k \in L : l <= k
  <2>1. L \in SUBSET Nat /\ L # {}
    BY <1>1
  <2> HIDE DEF L
  <2> QED BY <2>1, LeastNatural
<1> DEFINE T == {x \in S : LedgerOf[x] = l}
<1>3. PICK m \in T : \A x \in T : m <= x
  <2>1. T \in SUBSET Nat /\ T # {}
    BY <1>1, <1>2
  <2> HIDE DEF T
  <2> QED BY <2>1, LeastNatural
<1>4. ASSUME NEW x \in S \ {m} PROVE Before(m, x)
  <2>1. l <= LedgerOf[x] /\ LedgerOf[m] = l /\ l \in Nat /\ LedgerOf[x] \in Nat
    BY <1>1, <1>2, <1>3
  <2>2. CASE LedgerOf[x] = l
    <3>1. m <= x /\ m # x /\ m \in Nat /\ x \in Nat
      BY <1>1, <1>3, <2>2
    <3> QED BY <2>1, <2>2, <3>1 DEF Before
  <2>3. CASE LedgerOf[x] # l
    BY <2>1, <2>3 DEF Before
  <2> QED BY <2>2, <2>3
<1> QED BY <1>3, <1>4

Sorted(S) == \E s \in [1..Cardinality(S) -> S] :
               \A i, j \in DOMAIN s : i < j => Before(s[i], s[j])

LEMMA SortedOneMore ==
  ASSUME NEW S, IsFiniteSet(S), NEW m \in S, \A x \in S \ {m} : Before(m, x),
         Sorted(S \ {m})
  PROVE  Sorted(S)
<1> DEFINE R == S \ {m}
           c == Cardinality(R)
<1>1. c \in Nat /\ Cardinality(S) = c + 1
  <2>1. IsFiniteSet(R) /\ c \in Nat /\ Cardinality(S) \in Nat
    BY FS_RemoveElement, FS_CardinalityType
  <2>2. c = Cardinality(S) - 1
    BY FS_RemoveElement
  <2> QED BY <2>1, <2>2
<1>2. PICK g \in [1..c -> R] : \A i, j \in DOMAIN g : i < j => Before(g[i], g[j])
  BY DEF Sorted
<1> HIDE DEF R, c
<1> DEFINE f == [i \in 1..c + 1 |-> IF i = 1 THEN m ELSE g[i - 1]]
<1>3. \A i \in 1..c + 1 : i # 1 => i - 1 \in 1..c /\ g[i - 1] \in R
  BY <1>1, <1>2
<1>4. f \in [1..c + 1 -> S]
  BY <1>3 DEF R
<1>5. ASSUME NEW i \in 1..c + 1, NEW j \in 1..c + 1, i < j
      PROVE  Before(f[i], f[j])
  <2>1. j # 1 /\ f[j] = g[j - 1] /\ j - 1 \in 1..c /\ g[j - 1] \in R
    BY <1>1, <1>3, <1>5
  <2>2. CASE i = 1
    BY <2>1, <2>2 DEF R
  <2>3. CASE i # 1
    <3>1. f[i] = g[i - 1] /\ i - 1 \in 1..c /\ i - 1 < j - 1
      BY <1>1, <1>3, <1>5, <2>3
    <3> HIDE DEF f
    <3> QED BY <1>2, <2>1, <3>1
  <2> QED BY <2>2, <2>3
<1> HIDE DEF f
<1>6. \A i, j \in DOMAIN f : i < j => Before(f[i], f[j])
  BY <1>4, <1>5
<1> QED BY <1>1, <1>4, <1>6 DEF Sorted

LEMMA PagesSort ==
  ASSUME NEW S \in SUBSET Ids, IsFiniteSet(S)
  PROVE  Sorted(S)
<1> DEFINE Fails == {n \in Nat : \E T \in SUBSET Ids :
                       IsFiniteSet(T) /\ Cardinality(T) = n /\ ~Sorted(T)}
<1>1. SUFFICES Fails = {}
  BY <1>1, FS_CardinalityType
<1>2. SUFFICES ASSUME Fails # {} PROVE FALSE
  BY <1>2
<1>3. PICK n \in Fails : \A k \in Fails : n <= k
  <2>1. Fails \in SUBSET Nat
    OBVIOUS
  <2> HIDE DEF Fails
  <2> QED BY <1>2, <2>1, LeastNatural
<1>4. PICK T \in SUBSET Ids : IsFiniteSet(T) /\ Cardinality(T) = n /\ ~Sorted(T)
  BY <1>3
<1>5. n \in Nat
  BY <1>3
<1>6. CASE T = {}
  <2>1. Cardinality(T) = 0
    BY <1>6, FS_EmptySet
  <2>2. <<>> \in [1..0 -> {}] /\ DOMAIN <<>> = {}
    OBVIOUS
  <2> QED BY <1>4, <1>6, <2>1, <2>2 DEF Sorted
<1>7. CASE T # {}
  <2>1. PICK m \in T : \A x \in T \ {m} : Before(m, x)
    BY <1>7, FirstOfPage
  <2> DEFINE R == T \ {m}
  <2>2. IsFiniteSet(R) /\ Cardinality(R) = n - 1 /\ n - 1 \in Nat
    <3>1. IsFiniteSet(R) /\ Cardinality(R) = n - 1
      BY <1>4, FS_RemoveElement
    <3> QED BY <3>1, FS_CardinalityType
  <2>3. n - 1 \notin Fails
    <3> HIDE DEF Fails
    <3> QED BY <1>3, <1>5, <2>2
  <2>4. Sorted(R)
    BY <2>2, <2>3
  <2> HIDE DEF Fails
  <2> QED BY <1>4, <2>1, <2>4, SortedOneMore
<1> QED BY <1>6, <1>7

\* A sorted page holds what the page holds.
LEMMA SortKeepsEvents ==
  ASSUME NEW p \in DOMAIN Pages
  PROVE  /\ SortCommittedPage(Pages[p]) \in Seq(Ids)
         /\ ToSet(SortCommittedPage(Pages[p])) = ToSet(Pages[p])
<1> DEFINE page == Pages[p]
           S == ToSet(page)
           n == Cardinality(S)
           s == CHOOSE f \in [1..n -> S] :
                  \A i, j \in DOMAIN f : i < j => Before(f[i], f[j])
<1>1. page \in Seq(Nat) /\ S \in SUBSET Ids
  BY PagesOfIds
<1>2. IsFiniteSet(S)
  <2>1. Len(page) \in Nat /\ DOMAIN page = 1..Len(page) /\ page \in [1..Len(page) -> S]
    BY <1>1 DEF ToSet
  <2>2. page \in Surjection(1..Len(page), S)
    BY <2>1 DEF Surjection, ToSet
  <2>3. IsFiniteSet(1..Len(page))
    BY <2>1, FS_Interval
  <2> HIDE DEF page, S
  <2> QED BY <2>2, <2>3, FS_Surjection
<1>3. n \in Nat
  BY <1>2, FS_CardinalityType
<1> HIDE DEF S
<1>4. Sorted(S)
  BY <1>1, <1>2, PagesSort
<1>5. s \in [1..n -> S] /\ \A i, j \in DOMAIN s : i < j => Before(s[i], s[j])
  BY <1>4 DEF Sorted
<1>6. SortCommittedPage(page) = s
  BY DEF SortCommittedPage, S
<1> HIDE DEF s, page, n
<1>7. s \in Seq(Ids) /\ Len(s) = n /\ DOMAIN s = 1..n
  <2>1. \A i \in 1..n : s[i] \in Ids
    BY <1>1, <1>5
  <2>2. s = [i \in 1..n |-> s[i]]
    BY <1>5
  <2> QED BY <1>3, <2>1, <2>2
<1>8. ASSUME NEW i \in 1..n, NEW j \in 1..n, s[i] = s[j] PROVE i = j
  <2>1. ~Before(s[i], s[i])
    <3>1. s[i] \in Nat /\ LedgerOf[s[i]] \in Nat
      BY <1>1, <1>5, PagesOfIds
    <3> QED BY <3>1 DEF Before
  <2>2. ~(i < j) /\ ~(j < i)
    BY <1>5, <1>8, <2>1
  <2> QED BY <1>3, <2>2
<1>9. s \in Surjection(1..n, S)
  <2>1. s \in Injection(1..n, S)
    BY <1>5, <1>8 DEF Injection, IsInjective
  <2>2. Cardinality(1..n) = n /\ IsFiniteSet(1..n)
    BY <1>3, FS_Interval
  <2>3. Cardinality(1..n) = Cardinality(S)
    BY <2>2 DEF n
  <2> QED BY <1>2, <2>1, <2>3, FS_Injection
<1>10. ToSet(s) = S
  BY <1>5, <1>7, <1>9 DEF Surjection, ToSet
<1> QED BY <1>6, <1>7, <1>10 DEF page, S

-----------------------------------------------------------------------------
(* The initial state.                                                      *)

LEMMA InitIInv == Init => IInv
<1> SUFFICES ASSUME Init PROVE IInv
  OBVIOUS
<1>0. /\ Len(Pages) \in Nat /\ Len(Batches) \in Nat /\ Capacity \in Nat /\ MaxStreams \in Nat
  BY Bounds
<1>1. /\ out = <<>> /\ emitted = <<>> /\ delivery = <<>> /\ gen = "none"
      /\ saved = 0 /\ pos = 0
  BY DEF Init
<1>2. TypeOK
  <2>1. /\ out \in Seq(Ids) /\ emitted \in Seq(Ids) /\ Len(emitted) <= Capacity
        /\ consumed \subseteq Ids
    BY <1>0, <1>1 DEF Init
  <2>2. /\ pos \in 0..Len(Pages) /\ saved \in 0..Len(Pages) /\ dpos \in 0..Len(Batches)
        /\ streams \in 0..MaxStreams
    BY <1>0, <1>1 DEF Init
  <2>3. /\ gen = "none" /\ winner = "none" /\ aborted = FALSE /\ source = "over"
        /\ pull \in [Sources -> {"none"}] /\ arm \in Sources
    BY DEF Init, Sources
  <2> QED BY <2>1, <2>2, <2>3 DEF TypeOK
<1>3. WindowInv
  <2>1. /\ Len(delivery) = 0 /\ Len(emitted) = 0 /\ DOMAIN delivery = {}
        /\ delivery \in Seq([id : Ids, arm : Sources])
    BY <1>1
  <2> QED BY <1>1, <2>1 DEF WindowInv, OncePerWindow
<1>4. CursorInv
  <2>1. pull["diagnostic"] = "none" /\ source = "over"
    BY DEF Init, Sources
  <2> QED BY <1>1, <2>1 DEF CursorInv, MergedCursorNeverLeads, Active
<1> QED BY <1>2, <1>3, <1>4 DEF IInv

-----------------------------------------------------------------------------
(* Types.                                                                  *)

LEMMA WinnersTyped ==
  ASSUME NEW p
  PROVE  /\ FirstSettled(p) \in Sources \cup {"none", "abort"}
         /\ RaceAgain(p) => gen' \in {"racing", "closing"}
                            /\ winner' \in Sources \cup {"none", "abort"}
BY DEF FirstSettled, RaceAgain, Sources

LEMMA SettlesTyped ==
  \A s \in Sources \cup {"abort"} :
    TypeOK /\ Settles(s) => winner' \in Sources \cup {"none", "abort"}
BY DEF TypeOK, Settles

LEMMA LoopEndsTyped ==
  ASSUME TypeOK, NEW how \in {"over", "failed"}, LoopEnds(how)
  PROVE  /\ winner' \in Sources \cup {"none", "abort"} /\ source' = "over"
         /\ pull' \in [Sources -> {"none", "pending", "ready", "over", "failed"}]
<1>1. winner' \in Sources \cup {"none", "abort"}
  BY SettlesTyped DEF LoopEnds, Sources
<1> QED BY <1>1 DEF LoopEnds, TypeOK

LEMMA LastIn ==
  ASSUME NEW S, NEW s \in Seq(S), Len(s) > 0
  PROVE  s[Len(s)] \in S
OBVIOUS

\* What the race hands to the loop that emits: ids.
LEMMA TakeTyped ==
  ASSUME IInv, NEW s \in Sources, TakeWinner(s)
  PROVE  TypeOK'
<1>1. TypeOK /\ CursorInv
  BY DEF IInv
<1>2. /\ gen = "racing" /\ pull' = [pull EXCEPT ![s] = "none"]
      /\ UNCHANGED <<aborted, committed, dpos, emitted, delivery, consumed, streams>>
  BY DEF TakeWinner
<1>3. pull' \in [Sources -> {"none", "pending", "ready", "over", "failed"}]
  BY <1>1, <1>2 DEF TypeOK
<1>4. /\ gen' \in {"racing", "emitting", "closing"}
      /\ winner' \in Sources \cup {"none", "abort"}
  BY WinnersTyped DEF TakeWinner
<1>5. out' \in Seq(Ids) /\ arm' \in Sources
  <2>1. CASE pull[s] = "ready" /\ s = "committed" /\ arm' = s
               /\ out' = SortCommittedPage(Pages[pos])
    <3>1. pos \in DOMAIN Pages
      BY <1>1, <1>2, <2>1, Bounds DEF CursorInv, Active, TypeOK
    <3> QED BY <2>1, <3>1, SortKeepsEvents
  <2>2. CASE pull[s] = "ready" /\ s # "committed" /\ arm' = s /\ out' = Batches[dpos]
    <3>1. dpos \in DOMAIN Batches
      BY <1>1, <2>2, Bounds DEF CursorInv, TypeOK, Sources
    <3> QED BY <2>2, <3>1, PagesOfIds
  <2>3. CASE out' = out /\ arm' = arm
    BY <1>1, <2>3 DEF TypeOK
  <2> QED BY <2>1, <2>2, <2>3 DEF TakeWinner
<1> QED BY <1>1, <1>2, <1>3, <1>4, <1>5 DEF TypeOK, committed

LEMMA EmitTyped ==
  ASSUME IInv, Emit
  PROVE  TypeOK'
<1>1. TypeOK /\ Capacity \in Nat \ {0}
  BY Bounds DEF IInv
<1>2. /\ out # <<>> /\ out' = Tail(out) /\ gen' \in {"emitting", "yielded"}
      /\ gen = "emitting"
      /\ emitted' = emitted \/ emitted' = Remembered(Head(out))
      /\ UNCHANGED <<winner, aborted, committed, pull, dpos, arm, consumed, streams>>
  BY DEF Emit
<1>3. out \in Seq(Ids) /\ Head(out) \in Ids /\ Tail(out) \in Seq(Ids)
  BY <1>1, <1>2 DEF TypeOK
<1> DEFINE h == Head(out)
<1>4. emitted \in Seq(Ids) /\ Len(emitted) \in Nat /\ Len(emitted) <= Capacity
  BY <1>1 DEF TypeOK
<1> HIDE DEF h
<1>5. Remembered(h) \in Seq(Ids) /\ Len(Remembered(h)) <= Capacity
  <2>1. h \in Ids
    BY <1>3 DEF h
  <2>2. CASE Len(emitted) >= Capacity
    <3> DEFINE t == Tail(emitted)
    <3>1. t \in Seq(Ids) /\ Len(t) = Len(emitted) - 1
      BY <1>1, <1>4, <2>2
    <3>2. Remembered(h) = Append(t, h)
      BY <2>2 DEF Remembered
    <3> HIDE DEF t
    <3>3. Append(t, h) \in Seq(Ids) /\ Len(Append(t, h)) = Len(t) + 1
      BY <2>1, <3>1
    <3> QED BY <1>4, <3>1, <3>2, <3>3
  <2>3. CASE ~(Len(emitted) >= Capacity)
    <3>1. Remembered(h) = Append(emitted, h)
      BY <2>3 DEF Remembered
    <3>2. Append(emitted, h) \in Seq(Ids) /\ Len(Append(emitted, h)) = Len(emitted) + 1
      BY <1>4, <2>1
    <3> QED BY <1>1, <1>4, <2>3, <3>1, <3>2
  <2> QED BY <2>2, <2>3
<1>6. emitted' \in Seq(Ids) /\ Len(emitted') <= Capacity
  BY <1>2, <1>4, <1>5 DEF h
<1> QED BY <1>1, <1>2, <1>3, <1>6 DEF TypeOK, committed

LEMMA TypeStep == IInv /\ [Next]_vars => TypeOK'
<1> SUFFICES ASSUME IInv, [Next]_vars PROVE TypeOK'
  OBVIOUS
<1> USE DEF racing, committed, emitting
<1>1. TypeOK /\ CursorInv /\ WindowInv
  BY DEF IInv
<1>2. /\ Len(Pages) \in Nat /\ Len(Batches) \in Nat /\ MaxStreams \in Nat
      /\ Capacity \in Nat
  BY Bounds
<1>3. CASE UNCHANGED vars
  BY <1>1, <1>3 DEF vars, TypeOK
<1>4. CASE Start
  <2>1. out' \in Seq(Ids) /\ emitted' \in Seq(Ids) /\ Len(emitted') = 0
    BY <1>4 DEF Start
  <2>2. /\ streams' \in 0..MaxStreams /\ pos' \in 0..Len(Pages) /\ saved' \in 0..Len(Pages)
        /\ dpos' \in 0..Len(Batches) /\ Len(emitted') <= Capacity
    BY <1>1, <1>2, <1>4, <2>1 DEF Start, TypeOK
  <2>3. /\ gen' = "racing" /\ winner' = "none" /\ aborted' = FALSE /\ source' = "polling"
        /\ pull' \in [Sources -> {"pending"}] /\ arm' \in Sources /\ consumed' \subseteq Ids
    BY <1>1, <1>4 DEF Start, TypeOK
  <2> QED BY <2>1, <2>2, <2>3 DEF TypeOK
<1>5. CASE SaveCursor
  <2>1. saved' \in 0..Len(Pages)
    BY <1>1, <1>5 DEF SaveCursor, TypeOK
  <2>2. CASE aborted /\ LoopEnds("over")
    BY <1>1, <1>5, <2>1, <2>2, LoopEndsTyped DEF SaveCursor, TypeOK
  <2>3. CASE source' = "polling" /\ UNCHANGED <<winner, pull>>
    BY <1>1, <1>5, <2>1, <2>3 DEF SaveCursor, TypeOK
  <2> QED BY <1>5, <2>2, <2>3 DEF SaveCursor
<1>6. CASE FetchPage
  <2>1. winner' \in Sources \cup {"none", "abort"}
    BY <1>1, <1>6, SettlesTyped DEF FetchPage, Sources
  <2>2. pos' \in 0..Len(Pages)
    BY <1>1, <1>2, <1>6 DEF FetchPage, TypeOK
  <2>3. pull' \in [Sources -> {"none", "pending", "ready", "over", "failed"}]
    BY <1>1, <1>6 DEF FetchPage, TypeOK
  <2> QED BY <1>1, <1>6, <2>1, <2>2, <2>3 DEF FetchPage, TypeOK
<1>7. ASSUME NEW how \in {"over", "failed"}, SourceEnds \/ SourceFails(how)
      PROVE  TypeOK'
  <2>1. LoopEnds("over") \/ LoopEnds(how)
    BY <1>7 DEF SourceEnds, SourceFails
  <2> QED BY <1>1, <1>7, <2>1, LoopEndsTyped DEF SourceEnds, SourceFails, TypeOK
<1>8. ASSUME NEW how \in {"ready", "over", "failed"}, DiagnosticsSettle(how)
      PROVE  TypeOK'
  <2>1. winner' \in Sources \cup {"none", "abort"}
    BY <1>1, <1>8, SettlesTyped DEF DiagnosticsSettle, Sources
  <2>2. dpos' \in 0..Len(Batches)
    BY <1>1, <1>2, <1>8 DEF DiagnosticsSettle, TypeOK
  <2>3. pull' \in [Sources -> {"none", "pending", "ready", "over", "failed"}]
    BY <1>1, <1>8 DEF DiagnosticsSettle, TypeOK
  <2> QED BY <1>1, <1>8, <2>1, <2>2, <2>3 DEF DiagnosticsSettle, TypeOK
<1>9. ASSUME NEW s \in Sources, TakeWinner(s) PROVE TypeOK'
  BY <1>9, TakeTyped
<1>10. CASE Emit
  BY <1>10, EmitTyped
<1>11. CASE PullAgain
  <2>1. pull' \in [Sources -> {"none", "pending", "ready", "over", "failed"}]
    BY <1>1, <1>11 DEF PullAgain, TypeOK
  <2>2. winner' \in Sources \cup {"none", "abort"}
    BY <1>11, WinnersTyped DEF PullAgain
  <2> QED BY <1>1, <1>11, <2>1, <2>2 DEF PullAgain, TypeOK
<1>12. CASE ComesBack
  <2>1. LastYielded \in Ids
    <3>1. /\ delivery \in Seq([id : Ids, arm : Sources])
          /\ Len(delivery) \in Nat /\ Len(delivery) > 0
      BY <1>1, <1>12 DEF ComesBack, WindowInv
    <3>2. delivery[Len(delivery)] \in [id : Ids, arm : Sources]
      BY <3>1, LastIn
    <3> QED BY <3>2 DEF LastYielded
  <2> QED BY <1>1, <1>12, <2>1 DEF ComesBack, TypeOK
<1>13. CASE AbortWins \/ CloseCommitted \/ CloseDiagnostics \/ Breaks
  BY <1>1, <1>13 DEF AbortWins, CloseCommitted, CloseDiagnostics, Breaks, TypeOK
<1>14. CASE Abort
  <2>1. winner' \in Sources \cup {"none", "abort"}
    BY <1>1, <1>14, SettlesTyped DEF Abort
  <2> QED BY <1>1, <1>14, <2>1 DEF Abort, TypeOK
<1>15. CASE Crash
  <2>1. out' \in Seq(Ids) /\ emitted' \in Seq(Ids) /\ Len(emitted') = 0
    BY <1>15 DEF Crash
  <2>2. /\ pos' \in 0..Len(Pages) /\ dpos' \in 0..Len(Batches) /\ Len(emitted') <= Capacity
        /\ saved' \in 0..Len(Pages) /\ streams' \in 0..MaxStreams /\ consumed' \subseteq Ids
    BY <1>1, <1>2, <1>15, <2>1 DEF Crash, TypeOK
  <2>3. /\ gen' = "none" /\ winner' = "none" /\ aborted' = FALSE /\ source' = "over"
        /\ pull' \in [Sources -> {"none"}] /\ arm' \in Sources
    BY <1>15 DEF Crash, Sources
  <2> QED BY <2>1, <2>2, <2>3 DEF TypeOK
<1> QED BY <1>3, <1>4, <1>5, <1>6, <1>7, <1>8, <1>9, <1>10, <1>11, <1>12, <1>13, <1>14,
           <1>15 DEF Next

-----------------------------------------------------------------------------
(* The window of the de-duplicator.                                        *)

\* The queue after an id it does not hold: its end is the id, and it forgets the
\* first only when it is full.
LEMMA RememberedIsWindow ==
  ASSUME TypeOK, WindowInv, NEW h \in Ids,
         emitted' = Remembered(h), delivery' = Append(delivery, [id |-> h, arm |-> arm])
  PROVE  /\ delivery' \in Seq([id : Ids, arm : Sources])
         /\ Len(delivery') = Len(delivery) + 1 /\ delivery'[Len(delivery) + 1].id = h
         /\ \A i \in 1..Len(delivery) : delivery'[i] = delivery[i]
         /\ Len(emitted') <= Len(delivery')
         /\ Len(emitted') = Capacity \/ Len(emitted') = Len(delivery')
         /\ \A i \in 1..Len(emitted') :
              emitted'[i] = delivery'[Len(delivery') - Len(emitted') + i].id
<1> DEFINE e == [id |-> h, arm |-> arm]
           n == Len(delivery)
           m == Len(emitted)
<1>1. /\ n \in Nat /\ m \in Nat /\ m <= n /\ m <= Capacity /\ Capacity \in Nat \ {0}
      /\ (m = Capacity \/ m = n) /\ emitted \in Seq(Ids)
      /\ delivery \in Seq([id : Ids, arm : Sources])
      /\ \A i \in 1..m : emitted[i] = delivery[n - m + i].id
  BY Bounds DEF TypeOK, WindowInv
<1>2. e \in [id : Ids, arm : Sources] /\ e.id = h
  BY DEF TypeOK
<1> HIDE DEF e
<1>3. /\ delivery' \in Seq([id : Ids, arm : Sources]) /\ Len(delivery') = n + 1
      /\ \A i \in 1..n : delivery'[i] = delivery[i]
      /\ delivery'[n + 1] = e
  BY <1>1, <1>2, AppendProperties DEF e
<1> HIDE DEF n, m
<1>4. CASE m >= Capacity
  <2> DEFINE t == Tail(emitted)
  <2>1. /\ t \in Seq(Ids) /\ Len(t) = m - 1
        /\ \A i \in 1..m - 1 : t[i] = emitted[i + 1]
    <3>1. emitted # <<>>
      BY <1>1, <1>4 DEF m
    <3> QED BY <1>1, <3>1, HeadTailProperties DEF m
  <2>2. emitted' = Append(t, h)
    BY <1>4 DEF Remembered, m
  <2> HIDE DEF t
  <2>3. /\ Len(emitted') = m /\ emitted'[m] = h
        /\ \A i \in 1..m - 1 : emitted'[i] = t[i]
    <3>1. Len(Append(t, h)) = Len(t) + 1 /\ Append(t, h)[Len(t) + 1] = h
      BY <2>1, AppendProperties
    <3>2. \A i \in 1..Len(t) : Append(t, h)[i] = t[i]
      BY <2>1, AppendProperties
    <3>3. Len(t) + 1 = m
      BY <1>1, <2>1
    <3> QED BY <2>1, <2>2, <3>1, <3>2, <3>3
  <2>4. ASSUME NEW i \in 1..m PROVE emitted'[i] = delivery'[(n + 1) - m + i].id
    <3>1. CASE i = m
      <4>1. (n + 1) - m + i = n + 1
        BY <1>1, <3>1
      <4> QED BY <1>2, <1>3, <2>3, <3>1, <4>1
    <3>2. CASE i # m
      <4>1. i \in 1..m - 1 /\ i + 1 \in 1..m /\ (n + 1) - m + i = n - m + (i + 1)
        BY <1>1, <3>2
      <4>2. n - m + (i + 1) \in 1..n
        BY <1>1, <4>1
      <4>3. emitted'[i] = delivery[n - m + (i + 1)].id
        BY <1>1, <2>1, <2>3, <4>1
      <4> QED BY <1>3, <4>1, <4>2, <4>3
    <3> QED BY <3>1, <3>2
  <2>5. Len(emitted') = Capacity /\ m <= n + 1
    BY <1>1, <1>4, <2>3
  <2> QED BY <1>2, <1>3, <2>3, <2>4, <2>5 DEF n
<1>5. CASE ~(m >= Capacity)
  <2>1. m = n
    BY <1>1, <1>5
  <2>2. emitted' = Append(emitted, h)
    BY <1>5 DEF Remembered, m
  <2>3. /\ Len(emitted') = m + 1 /\ emitted'[m + 1] = h
        /\ \A i \in 1..m : emitted'[i] = emitted[i]
    BY <1>1, <2>2, AppendProperties DEF m
  <2>4. ASSUME NEW i \in 1..m + 1 PROVE emitted'[i] = delivery'[(n + 1) - (m + 1) + i].id
    <3>1. (n + 1) - (m + 1) + i = i /\ n - m + i = i
      BY <1>1, <2>1
    <3>2. CASE i = m + 1
      BY <1>2, <1>3, <2>1, <2>3, <3>1, <3>2
    <3>3. CASE i # m + 1
      <4>1. i \in 1..m /\ i \in 1..n
        BY <1>1, <2>1, <3>3
      <4>2. emitted[i] = delivery[i].id
        BY <1>1, <3>1, <4>1
      <4> QED BY <1>3, <2>3, <3>1, <4>1, <4>2
    <3> QED BY <3>2, <3>3
  <2>5. Len(emitted') <= Len(delivery') /\ Len(emitted') = Len(delivery')
    BY <1>1, <1>3, <2>1, <2>3
  <2>6. \A i \in 1..Len(emitted') :
          emitted'[i] = delivery'[Len(delivery') - Len(emitted') + i].id
    BY <1>3, <2>3, <2>4
  <2> QED BY <1>2, <1>3, <2>5, <2>6 DEF n
<1> QED BY <1>4, <1>5

\* An id that is not remembered was not yielded within the window.
LEMMA EmitWindow ==
  ASSUME IInv, Emit
  PROVE  WindowInv'
<1>1. TypeOK /\ WindowInv
  BY DEF IInv
<1>2. CASE Duplicate(Head(out))
  BY <1>1, <1>2 DEF Emit, WindowInv, OncePerWindow
<1>3. CASE ~Duplicate(Head(out))
  <2> DEFINE h == Head(out)
             n == Len(delivery)
             m == Len(emitted)
  <2>1. h \in Ids /\ h \notin ToSet(emitted)
    BY <1>1, <1>3 DEF Emit, TypeOK, Duplicate
  <2>2. emitted' = Remembered(h) /\ delivery' = Append(delivery, [id |-> h, arm |-> arm])
    BY <1>3 DEF Emit
  <2> HIDE DEF h
  <2>3. /\ delivery' \in Seq([id : Ids, arm : Sources])
        /\ Len(delivery') = n + 1 /\ delivery'[n + 1].id = h
        /\ \A i \in 1..n : delivery'[i] = delivery[i]
        /\ Len(emitted') <= Len(delivery')
        /\ Len(emitted') = Capacity \/ Len(emitted') = Len(delivery')
        /\ \A i \in 1..Len(emitted') :
             emitted'[i] = delivery'[Len(delivery') - Len(emitted') + i].id
    BY <1>1, <2>1, <2>2, RememberedIsWindow
  <2>4. /\ n \in Nat /\ m \in Nat /\ m <= n /\ Capacity \in Nat
        /\ m = Capacity \/ m = n
        /\ \A i \in 1..m : emitted[i] = delivery[n - m + i].id /\ emitted[i] \in ToSet(emitted)
        /\ DOMAIN delivery = 1..n
    BY <1>1, Bounds DEF TypeOK, WindowInv, ToSet
  <2>5. DOMAIN delivery' = 1..n + 1
    BY <2>3
  <2>6. OncePerWindow'
    <3> SUFFICES ASSUME NEW i \in 1..n + 1, NEW j \in 1..n + 1, i < j, j <= i + Capacity
                 PROVE  delivery'[i].id # delivery'[j].id
      BY <2>5 DEF OncePerWindow
    <3> HIDE DEF n, m
    <3>1. i \in 1..n /\ delivery'[i] = delivery[i]
      BY <2>3, <2>4
    <3>2. CASE j = n + 1
      <4>1. i - (n - m) \in 1..m /\ n - m + (i - (n - m)) = i
        BY <2>4, <3>1, <3>2
      <4>2. delivery[i].id \in ToSet(emitted)
        BY <2>4, <4>1
      <4> QED BY <2>1, <2>3, <3>1, <3>2, <4>2
    <3>3. CASE j # n + 1
      <4>1. j \in 1..n /\ delivery'[j] = delivery[j]
        BY <2>3, <2>4, <3>3
      <4> QED BY <1>1, <2>4, <3>1, <4>1 DEF WindowInv, OncePerWindow
    <3> QED BY <3>2, <3>3
  <2>7. Len(delivery') > 0
    BY <2>3, <2>4
  <2> QED BY <2>3, <2>6, <2>7 DEF WindowInv
<1> QED BY <1>2, <1>3

LEMMA WindowStep == IInv /\ [Next]_vars => WindowInv'
<1> SUFFICES ASSUME IInv, [Next]_vars PROVE WindowInv'
  OBVIOUS
<1> USE DEF racing, committed, emitting
<1>1. TypeOK /\ WindowInv
  BY DEF IInv
<1>2. ASSUME emitted' = emitted, delivery' = delivery, gen' = "yielded" => gen = "yielded"
      PROVE  WindowInv'
  BY <1>1, <1>2 DEF WindowInv, OncePerWindow
<1>3. CASE Start \/ Crash
  <2>1. /\ emitted' = <<>> /\ delivery' = <<>> /\ gen' # "yielded"
    BY <1>3 DEF Start, Crash
  <2>2. /\ delivery' \in Seq([id : Ids, arm : Sources]) /\ Len(delivery') = 0
        /\ Len(emitted') = 0 /\ DOMAIN delivery' = {}
    BY <2>1
  <2> QED BY <2>1, <2>2 DEF WindowInv, OncePerWindow
<1>4. CASE Emit
  BY <1>4, EmitWindow
<1>5. CASE UNCHANGED vars
  BY <1>2, <1>5 DEF vars
<1>6. CASE \/ SaveCursor \/ FetchPage \/ SourceEnds
         \/ \E how \in {"over", "failed"} : SourceFails(how)
  BY <1>2, <1>6 DEF SaveCursor, FetchPage, SourceEnds, SourceFails
<1>7. CASE \E how \in {"ready", "over", "failed"} : DiagnosticsSettle(how)
  BY <1>2, <1>7 DEF DiagnosticsSettle
<1>8. CASE \E s \in Sources : TakeWinner(s)
  BY <1>2, <1>8, WinnersTyped DEF TakeWinner
<1>9. CASE AbortWins \/ PullAgain \/ CloseCommitted \/ CloseDiagnostics
  BY <1>2, <1>9 DEF AbortWins, PullAgain, CloseCommitted, CloseDiagnostics
<1>10. CASE ComesBack \/ Breaks \/ Abort
  BY <1>2, <1>10 DEF ComesBack, Breaks, Abort
<1> QED BY <1>3, <1>4, <1>5, <1>6, <1>7, <1>8, <1>9, <1>10 DEF Next

-----------------------------------------------------------------------------
(* The cursor.                                                             *)

\* The race hands over the last page whole, and takes its pull.
LEMMA TakeCursor ==
  ASSUME IInv, NEW s \in Sources, TakeWinner(s)
  PROVE  CursorInv'
<1>1. TypeOK /\ CursorInv
  BY DEF IInv
<1>2. /\ gen = "racing" /\ pull' = [pull EXCEPT ![s] = "none"]
      /\ UNCHANGED <<source, pos, saved, dpos, emitted, delivery, consumed>>
  BY DEF TakeWinner, committed
<1>3. \A t \in Sources : pull'[t] = IF t = s THEN "none" ELSE pull[t]
  BY <1>1, <1>2 DEF TypeOK
<1>4. gen' \in {"racing", "emitting", "closing"} /\ Held' = {} /\ Held = {}
  BY <1>2, WinnersTyped DEF TakeWinner, Held
<1>5. \A p : Consumed(p) => Consumed(p)'
  BY <1>2 DEF Consumed
<1>6. gen' \in {"emitting", "yielded"} /\ arm' = "committed" =>
        /\ source' = "idle" /\ pos' > 0 /\ pull'["committed"] = "none"
        /\ ToSet(Pages[pos']) \subseteq consumed' \cup ToSet(out') \cup Held'
  <2> SUFFICES ASSUME gen' = "emitting", arm' = "committed"
               PROVE  /\ source' = "idle" /\ pos' > 0 /\ pull'["committed"] = "none"
                      /\ ToSet(Pages[pos']) \subseteq consumed' \cup ToSet(out') \cup Held'
    BY <1>4
  <2>1. /\ pull[s] = "ready" /\ s = "committed"
        /\ out' = SortCommittedPage(Pages[pos])
    BY WinnersTyped DEF TakeWinner
  <2>2. source = "idle" /\ pos > 0
    BY <1>1, <1>2, <2>1 DEF CursorInv, Active
  <2>3. pos \in DOMAIN Pages
    BY <1>1, <2>2, Bounds DEF TypeOK
  <2>4. ToSet(out') = ToSet(Pages[pos])
    BY <2>1, <2>3, SortKeepsEvents
  <2> QED BY <1>2, <1>3, <2>1, <2>2, <2>4
<1>7. /\ MergedCursorNeverLeads'
      /\ \A p \in 1..pos' : p < pos' => Consumed(p)'
      /\ source' \in {"saving", "polling"} => \A p \in 1..pos' : Consumed(p)'
  BY <1>1, <1>2, <1>5 DEF CursorInv, MergedCursorNeverLeads
<1>8. /\ Active' /\ pull'["committed"] = "ready" => source' = "idle" /\ pos' > 0
      /\ pull'["diagnostic"] = "ready" => dpos' > 0
  BY <1>1, <1>2, <1>3 DEF CursorInv, Active, Sources
<1>9. Active' => ToSet(emitted') \subseteq consumed' \cup Held'
  BY <1>1, <1>2, <1>4 DEF CursorInv, Active
<1> QED BY <1>6, <1>7, <1>8, <1>9 DEF CursorInv

\* An event of the page leaves the queue for the consumer, or is one that the
\* consumer has had.
LEMMA EmitCursor ==
  ASSUME IInv, Emit
  PROVE  CursorInv'
<1>1. TypeOK /\ CursorInv /\ WindowInv
  BY DEF IInv
<1> DEFINE h == Head(out)
<1>2. /\ gen = "emitting" /\ out # <<>> /\ out' = Tail(out)
      /\ UNCHANGED <<source, pos, saved, pull, dpos, arm, consumed>>
  BY DEF Emit, committed
<1>3. h \in Ids /\ ToSet(out) \subseteq ToSet(out') \cup {h}
  <2>1. /\ out \in Seq(Ids) /\ h = out[1] /\ DOMAIN out = 1..Len(out) /\ Len(out) \in Nat
        /\ h \in Ids /\ Len(Tail(out)) = Len(out) - 1
        /\ \A i \in 1..Len(out) - 1 : Tail(out)[i] = out[i + 1]
        /\ DOMAIN Tail(out) = 1..Len(out) - 1
    BY <1>1, <1>2 DEF TypeOK
  <2> HIDE DEF h
  <2>2. ASSUME NEW i \in 1..Len(out) PROVE out[i] \in ToSet(Tail(out)) \cup {h}
    <3>1. CASE i = 1
      BY <2>1, <3>1
    <3>2. CASE i # 1
      <4>1. i - 1 \in 1..Len(out) - 1 /\ (i - 1) + 1 = i
        BY <2>1, <3>2
      <4>2. Tail(out)[i - 1] = out[i] /\ i - 1 \in DOMAIN Tail(out)
        BY <2>1, <4>1
      <4> QED BY <4>2 DEF ToSet
    <3> QED BY <3>1, <3>2
  <2> QED BY <1>2, <2>1, <2>2 DEF ToSet
<1> HIDE DEF h
<1>4. Held = {} /\ Active /\ Active'
  BY <1>2 DEF Held, Active, Emit
<1>5. /\ ToSet(emitted') \subseteq consumed' \cup Held'
      /\ h \in consumed' \cup Held'
  <2>1. CASE Duplicate(Head(out))
    <3>1. emitted' = emitted /\ h \in ToSet(emitted)
      BY <2>1 DEF Emit, Duplicate, h
    <3>2. ToSet(emitted) \subseteq consumed
      BY <1>1, <1>4 DEF CursorInv
    <3> QED BY <1>2, <3>1, <3>2
  <2>2. CASE ~Duplicate(Head(out))
    <3>1. /\ gen' = "yielded" /\ emitted' = Remembered(h)
          /\ delivery' = Append(delivery, [id |-> h, arm |-> arm])
      BY <2>2 DEF Emit, h
    <3>2. Len(delivery') = Len(delivery) + 1 /\ delivery'[Len(delivery) + 1].id = h
      BY <1>1, <1>3, <3>1, RememberedIsWindow
    <3>3. Held' = {h}
      BY <3>1, <3>2 DEF Held, LastYielded
    <3>4. ToSet(emitted') \subseteq ToSet(emitted) \cup {h}
      <4> DEFINE kept == IF Len(emitted) >= Capacity THEN Tail(emitted) ELSE emitted
      <4>1. emitted \in Seq(Ids) /\ Len(emitted) \in Nat /\ Capacity \in Nat \ {0}
        BY <1>1, Bounds DEF TypeOK
      <4>2. kept \in Seq(Ids) /\ ToSet(kept) \subseteq ToSet(emitted)
        <5>1. CASE Len(emitted) >= Capacity
          <6>1. emitted # <<>>
            BY <4>1, <5>1
          <6>2. /\ Tail(emitted) \in Seq(Ids)
                /\ DOMAIN Tail(emitted) = 1..Len(emitted) - 1
                /\ \A i \in 1..Len(emitted) - 1 : /\ Tail(emitted)[i] = emitted[i + 1]
                                                  /\ i + 1 \in DOMAIN emitted
            BY <4>1, <6>1
          <6> QED BY <5>1, <6>2 DEF ToSet
        <5>2. CASE ~(Len(emitted) >= Capacity)
          BY <4>1, <5>2
        <5> QED BY <5>1, <5>2
      <4>3. emitted' = Append(kept, h)
        BY <3>1 DEF Remembered
      <4> HIDE DEF kept
      <4>4. /\ DOMAIN emitted' = 1..Len(kept) + 1 /\ emitted'[Len(kept) + 1] = h
            /\ DOMAIN kept = 1..Len(kept) /\ Len(kept) \in Nat
            /\ \A i \in 1..Len(kept) : emitted'[i] = kept[i]
        BY <1>3, <4>2, <4>3
      <4>5. ToSet(emitted') \subseteq ToSet(kept) \cup {h}
        BY <4>4 DEF ToSet
      <4> QED BY <4>2, <4>5
    <3>5. ToSet(emitted) \subseteq consumed
      BY <1>1, <1>4 DEF CursorInv
    <3> QED BY <1>2, <3>3, <3>4, <3>5
  <2> QED BY <2>1, <2>2
<1>6. arm' = "committed" =>
        /\ source' = "idle" /\ pos' > 0 /\ pull'["committed"] = "none"
        /\ ToSet(Pages[pos']) \subseteq consumed' \cup ToSet(out') \cup Held'
  BY <1>1, <1>2, <1>3, <1>4, <1>5 DEF CursorInv
<1>7. /\ MergedCursorNeverLeads'
      /\ \A p \in 1..pos' : p < pos' => Consumed(p)'
      /\ source' \in {"saving", "polling"} => \A p \in 1..pos' : Consumed(p)'
  BY <1>1, <1>2 DEF CursorInv, MergedCursorNeverLeads, Consumed
<1>8. /\ Active' /\ pull'["committed"] = "ready" => source' = "idle" /\ pos' > 0
      /\ pull'["diagnostic"] = "ready" => dpos' > 0
  BY <1>1, <1>2, <1>4 DEF CursorInv
<1> QED BY <1>5, <1>6, <1>7, <1>8 DEF CursorInv

\* A step of a source or the race that emits nothing.
LEMMA QuietCursor ==
  ASSUME IInv, UNCHANGED <<saved, out, arm, emitted, delivery, consumed>>,
         gen' = gen \/ ~Active',
         \/ pos' = pos /\ (source' \in {"saving", "polling"} => source \in {"saving", "polling"})
         \/ pos' = pos + 1 /\ source = "polling" /\ source' = "idle",
         Active' /\ pull'["committed"] = "ready" =>
           \/ source' = "idle" /\ pos' > 0
           \/ pull["committed"] = "ready" /\ source' = source /\ pos' = pos,
         pull'["diagnostic"] = "ready" => dpos' > 0,
         gen' \in {"emitting", "yielded"} /\ arm = "committed" /\ source = "idle" =>
           source' = source /\ pos' = pos /\ pull'["committed"] = pull["committed"]
  PROVE  CursorInv'
<1>1. TypeOK /\ CursorInv
  BY DEF IInv
<1>2. \A p : Consumed(p) => Consumed(p)'
  BY DEF Consumed
<1>3. Active' => gen' = gen /\ Active /\ Held' = Held
  BY DEF Active, Held, LastYielded
<1>4. /\ \A p \in 1..pos' : p < pos' => Consumed(p)'
      /\ source' \in {"saving", "polling"} => \A p \in 1..pos' : Consumed(p)'
  <2>1. CASE pos' = pos /\ (source' \in {"saving", "polling"} => source \in {"saving", "polling"})
    BY <1>1, <1>2, <2>1 DEF CursorInv
  <2>2. CASE pos' = pos + 1 /\ source = "polling" /\ source' = "idle"
    <3>1. pos \in Nat /\ \A p \in 1..pos : Consumed(p)
      BY <1>1, <2>2, Bounds DEF CursorInv, TypeOK
    <3>2. \A p \in 1..pos' : p < pos' => p \in 1..pos
      BY <2>2, <3>1
    <3> QED BY <1>2, <2>2, <3>1, <3>2
  <2> QED BY <2>1, <2>2
<1>5. MergedCursorNeverLeads'
  BY <1>1 DEF CursorInv, MergedCursorNeverLeads
<1>6. /\ Active' /\ pull'["committed"] = "ready" => source' = "idle" /\ pos' > 0
      /\ Active' => ToSet(emitted') \subseteq consumed' \cup Held'
  BY <1>1, <1>3 DEF CursorInv
<1>7. gen' \in {"emitting", "yielded"} /\ arm' = "committed" =>
        /\ source' = "idle" /\ pos' > 0 /\ pull'["committed"] = "none"
        /\ ToSet(Pages[pos']) \subseteq consumed' \cup ToSet(out') \cup Held'
  BY <1>1, <1>3 DEF CursorInv, Active
<1> QED BY <1>4, <1>5, <1>6, <1>7 DEF CursorInv

LEMMA CursorStep == IInv /\ [Next]_vars => CursorInv'
<1> SUFFICES ASSUME IInv, [Next]_vars PROVE CursorInv'
  OBVIOUS
<1> USE DEF racing, committed, emitting
<1>1. TypeOK /\ CursorInv /\ WindowInv
  BY DEF IInv
<1>2. pos \in Nat /\ saved \in Nat /\ dpos \in Nat
  BY <1>1, Bounds DEF TypeOK
<1>3. \A s \in Sources : \A x : [pull EXCEPT ![s] = x]
                                 = [t \in Sources |-> IF t = s THEN x ELSE pull[t]]
  BY <1>1 DEF TypeOK
<1>4. "committed" \in Sources /\ "diagnostic" \in Sources
  BY DEF Sources
<1>5. CASE UNCHANGED vars
  BY <1>1, <1>5, QuietCursor DEF vars, CursorInv
<1>6. CASE Start
  <2>1. /\ gen' = "racing" /\ source' = "polling" /\ pos' = saved /\ saved' = saved
        /\ pull'["committed"] = "pending" /\ pull'["diagnostic"] = "pending"
        /\ emitted' = <<>> /\ consumed' = consumed
    BY <1>4, <1>6 DEF Start
  <2>2. \A p \in 1..saved : Consumed(p)'
    BY <1>1, <2>1 DEF CursorInv, MergedCursorNeverLeads, Consumed
  <2>3. ToSet(emitted') = {}
    BY <2>1 DEF ToSet
  <2> QED BY <2>1, <2>2, <2>3 DEF CursorInv, MergedCursorNeverLeads, Consumed
<1>7. CASE SaveCursor
  <2>1. /\ source = "saving" /\ saved' = pos /\ source' \in {"polling", "over"}
        /\ UNCHANGED <<gen, pos, dpos, out, arm, emitted, delivery, consumed>>
    BY <1>7 DEF SaveCursor, LoopEnds
  <2>2. /\ pull'["committed"] \in {pull["committed"], "over"}
        /\ pull'["diagnostic"] = pull["diagnostic"]
    BY <1>3, <1>4, <1>7 DEF SaveCursor, LoopEnds
  <2>3. ~(Active /\ pull["committed"] = "ready")
    BY <1>1, <2>1 DEF CursorInv
  <2>4. \A p \in 1..pos : Consumed(p) /\ Consumed(p)'
    BY <1>1, <2>1 DEF CursorInv, Consumed
  <2>5. Held' = Held /\ Active' = Active
    BY <2>1 DEF Held, Active, LastYielded
  <2>6. MergedCursorNeverLeads'
    BY <2>1, <2>4 DEF MergedCursorNeverLeads, Consumed
  <2>7. /\ \A p \in 1..pos' : p < pos' => Consumed(p)'
        /\ source' \in {"saving", "polling"} => \A p \in 1..pos' : Consumed(p)'
    BY <2>1, <2>4
  <2>8. gen' \in {"emitting", "yielded"} => arm' # "committed"
    BY <1>1, <2>1 DEF CursorInv
  <2>9. /\ ~(Active' /\ pull'["committed"] = "ready")
        /\ pull'["diagnostic"] = "ready" => dpos' > 0
        /\ Active' => ToSet(emitted') \subseteq consumed' \cup Held'
    BY <1>1, <2>1, <2>5, <2>3, <2>2 DEF CursorInv
  <2> QED BY <2>6, <2>7, <2>8, <2>9 DEF CursorInv
<1>8. CASE FetchPage
  <2>1. pull'["committed"] = "ready" /\ pull'["diagnostic"] = pull["diagnostic"]
    BY <1>3, <1>4, <1>8 DEF FetchPage
  <2> QED BY <1>1, <1>2, <1>8, <2>1, QuietCursor DEF FetchPage, CursorInv
<1>9. ASSUME NEW how \in {"over", "failed"}, SourceEnds \/ SourceFails(how)
      PROVE  CursorInv'
  <2>1. /\ pull'["committed"] \in {"over", "failed"} /\ source' = "over"
        /\ pull'["diagnostic"] = pull["diagnostic"]
        /\ source \in {"polling", "saving"}
    BY <1>3, <1>4, <1>9 DEF SourceEnds, SourceFails, LoopEnds
  <2> QED BY <1>1, <1>9, <2>1, QuietCursor DEF SourceEnds, SourceFails, CursorInv
<1>10. ASSUME NEW how \in {"ready", "over", "failed"}, DiagnosticsSettle(how)
       PROVE  CursorInv'
  <2>1. /\ pull'["committed"] = pull["committed"] /\ pull'["diagnostic"] = how
    BY <1>3, <1>4, <1>10 DEF DiagnosticsSettle
  <2>2. how = "ready" => dpos' > 0
    BY <1>2, <1>10 DEF DiagnosticsSettle
  <2> QED BY <1>10, <2>1, <2>2, QuietCursor DEF DiagnosticsSettle
<1>11. ASSUME NEW s \in Sources, TakeWinner(s) PROVE CursorInv'
  BY <1>11, TakeCursor
<1>12. CASE Emit
  BY <1>12, EmitCursor
<1>13. CASE PullAgain
  <2>1. /\ gen = "emitting" /\ out = <<>> /\ gen' = "racing"
        /\ UNCHANGED <<pos, saved, dpos, emitted, consumed>>
        /\ source' = IF arm = "committed" THEN "saving" ELSE source
        /\ pull' = [pull EXCEPT ![arm] = "pending"]
    BY <1>13 DEF PullAgain
  <2>2. \A t \in Sources : pull'[t] = IF t = arm THEN "pending" ELSE pull[t]
    BY <1>1, <2>1 DEF TypeOK
  <2>3. Held = {} /\ Held' = {} /\ Active /\ ToSet(out) = {}
    BY <2>1 DEF Held, Active, ToSet
  <2>4. arm = "committed" => Consumed(pos)
    BY <1>1, <2>1, <2>3 DEF CursorInv, Consumed
  <2>5. \A p \in 1..pos : p < pos \/ p = pos
    BY <1>2
  <2>6. /\ \A p \in 1..pos' : p < pos' => Consumed(p)'
        /\ source' \in {"saving", "polling"} => \A p \in 1..pos' : Consumed(p)'
    BY <1>1, <2>1, <2>4, <2>5 DEF CursorInv, Consumed
  <2>7. MergedCursorNeverLeads'
    BY <1>1, <2>1 DEF CursorInv, MergedCursorNeverLeads
  <2>8. /\ pull'["committed"] = "ready" => source' = "idle" /\ pos' > 0
        /\ pull'["diagnostic"] = "ready" => dpos' > 0
    BY <1>1, <1>4, <2>1, <2>2, <2>3 DEF CursorInv
  <2>9. ToSet(emitted') \subseteq consumed' \cup Held'
    BY <1>1, <2>1, <2>3 DEF CursorInv
  <2> QED BY <2>1, <2>6, <2>7, <2>8, <2>9 DEF CursorInv
<1>14. CASE ComesBack
  <2>1. /\ gen = "yielded" /\ gen' = "emitting" /\ consumed' = consumed \cup {LastYielded}
        /\ UNCHANGED <<source, pos, saved, pull, dpos, out, arm, emitted, delivery>>
    BY <1>14 DEF ComesBack
  <2>2. Held = {LastYielded} /\ Held' = {} /\ Active /\ Active'
    BY <2>1 DEF Held, Active
  <2>3. \A p : Consumed(p) => Consumed(p)'
    BY <2>1 DEF Consumed
  <2>4. MergedCursorNeverLeads'
    BY <1>1, <2>1 DEF CursorInv, MergedCursorNeverLeads
  <2> QED BY <1>1, <2>1, <2>2, <2>3, <2>4 DEF CursorInv
<1>15. CASE AbortWins \/ Breaks
  BY <1>1, <1>15, QuietCursor DEF AbortWins, Breaks, Active, CursorInv
<1>16. CASE CloseCommitted
  BY <1>1, <1>16, QuietCursor DEF CloseCommitted, Active, CursorInv
<1>17. CASE CloseDiagnostics
  <2>1. pull'["diagnostic"] = "none" /\ gen' = "done" /\ ~Active'
    BY <1>4, <1>17 DEF CloseDiagnostics, Active
  <2> QED BY <1>17, <2>1, QuietCursor DEF CloseDiagnostics
<1>18. CASE Abort
  BY <1>1, <1>18, QuietCursor DEF Abort, CursorInv
<1>19. CASE Crash
  <2>1. /\ gen' = "none" /\ source' = "over" /\ pos' = 0 /\ saved' = saved
        /\ pull'["diagnostic"] = "none" /\ consumed' = consumed
    BY <1>4, <1>19 DEF Crash
  <2>2. MergedCursorNeverLeads'
    BY <1>1, <2>1 DEF CursorInv, MergedCursorNeverLeads
  <2> QED BY <2>1, <2>2 DEF CursorInv, Active
<1> QED BY <1>5, <1>6, <1>7, <1>8, <1>9, <1>10, <1>11, <1>12, <1>13, <1>14, <1>15, <1>16,
           <1>17, <1>18, <1>19 DEF Next

-----------------------------------------------------------------------------
(* The theorems.                                                           *)

THEOREM Invariance == Spec => []IInv
<1>1. Init => IInv
  BY InitIInv
<1>2. IInv /\ [Next]_vars => IInv'
  BY TypeStep, WindowStep, CursorStep DEF IInv
<1> QED BY <1>1, <1>2, PTL DEF Spec

\* Every variable keeps its type, and the de-duplicator its bound, whatever pages
\* and batches come (telemetry.ts 967-1001).
THEOREM TypeCorrect == Spec => []TypeOK
<1>1. IInv => TypeOK
  BY DEF IInv
<1> QED BY <1>1, Invariance, PTL

\* Whatever pages overlap and whatever a caller feeds again, one stream yields an
\* id again only after the de-duplicator has seen as many others as it can hold
\* (telemetry.ts 2040-2045): the queue is the end of what was yielded.
THEOREM OneEventPerWindow == Spec => []OncePerWindow
<1>1. IInv => OncePerWindow
  BY DEF IInv, WindowInv
<1> QED BY <1>1, Invariance, PTL

\* Over every race, break, abort, failure, crash and restart the stored cursor
\* stays behind the consumer: each event of each page it has passed was handed to
\* a consumer that came back, in this stream or an earlier one (telemetry.ts
\* 3171-3215).  A duplicate may be dropped because this stream yielded it.
THEOREM TheMergedCursorNeverLeads == Spec => []MergedCursorNeverLeads
<1>1. IInv => MergedCursorNeverLeads
  BY DEF IInv, CursorInv
<1> QED BY <1>1, Invariance, PTL
=============================================================================
