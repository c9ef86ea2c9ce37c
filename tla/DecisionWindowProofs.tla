------------------------ MODULE DecisionWindowProofs ------------------------
(***************************************************************************)
(* What recent() and stats() answer is exact, for every buffer, window,    *)
(* number of calls and behaviour of the clock.                             *)
(*                                                                         *)
(* The ring (RingInv) holds the newest events at successive slots, counted *)
(* around from start.  The retained entries (WindowInv) are the newest of  *)
(* the decisions fed, each marked with the peak of the readings up to its   *)
(* own; peaks only grow, so what has left the window has nothing in it     *)
(* before it and stays out, and evict() may stop at the first that stays.  *)
(***************************************************************************)
EXTENDS DecisionWindow, TLAPS, FiniteSetTheorems, SequenceTheorems,
        WellFoundedInduction

Decisions == Reasons \cup Verdicts
Events == [stream : Streams, decision : Decisions \cup {"none"}]
Readings == 0 .. MaxTime
Entries == [decision : Decisions, at : Readings]
FedDecisions == [decision : Decisions, reading : Nat]

-----------------------------------------------------------------------------
(* Numbers.                                                                *)

LEMMA LeastNatural ==
  ASSUME NEW T \in SUBSET Nat, T # {}
  PROVE  \E m \in T : \A k \in T : m <= k
<1> DEFINE R == OpToRel(<, Nat)
<1>1. IsWellFoundedOn(R, Nat)
  BY NatLessThanWellFounded
<1>2. \A x, y \in Nat : x < y => <<x, y>> \in R
  BY DEF OpToRel
<1> HIDE DEF R
<1>3. PICK m \in T : \A k \in T : ~(<<k, m>> \in R)
  BY <1>1, WFMin
<1>4. ASSUME NEW k \in T PROVE m <= k
  <2>1. k \in Nat /\ m \in Nat
    OBVIOUS
  <2>2. ~(k < m)
    BY <1>2, <1>3, <2>1
  <2> QED BY <2>1, <2>2
<1> QED BY <1>4

-----------------------------------------------------------------------------
(* Peaks of the readings.                                                  *)

IsPeak(rd, i, m) == /\ m \in Readings
                    /\ \A j \in 1..i : rd[j] <= m
                    /\ \E j \in 1..i : rd[j] = m

LEMMA PeakExists ==
  ASSUME NEW rd \in Seq(Readings), NEW i \in 1 .. Len(rd)
  PROVE  IsPeak(rd, i, Peak(rd, i))
<1> DEFINE Bounds == {m \in Nat : m <= MaxTime /\ \A j \in 1..i : rd[j] <= m}
<1>1. /\ MaxTime \in Nat /\ Len(rd) \in Nat /\ i \in Nat /\ 1 <= i
      /\ \A j \in 1..i : rd[j] \in Nat /\ rd[j] <= MaxTime
  BY DecisionWindowAssumption DEF DecisionWindowAssumption, Readings
<1>2. MaxTime \in Bounds
  BY <1>1
<1>3. PICK m \in Bounds : \A k \in Bounds : m <= k
  <2>1. Bounds \in SUBSET Nat
    OBVIOUS
  <2> HIDE DEF Bounds
  <2> QED BY <1>2, <2>1, LeastNatural
<1>4. \E j \in 1..i : rd[j] = m
  <2> SUFFICES ASSUME \A j \in 1..i : rd[j] # m PROVE FALSE
    OBVIOUS
  <2>1. \A j \in 1..i : rd[j] <= m - 1
    BY <1>1
  <2>2. 1 \in 1..i
    BY <1>1
  <2>3. m - 1 \in Nat
    BY <1>1, <2>1, <2>2
  <2>4. m - 1 \in Bounds
    BY <1>1, <2>1, <2>3
  <2>5. ~(m <= m - 1)
    BY <2>3
  <2> QED BY <1>3, <2>4, <2>5
<1>5. m \in Readings /\ \A j \in 1..i : rd[j] <= m
  BY <1>1 DEF Readings
<1> HIDE DEF Bounds
<1> QED BY <1>4, <1>5 DEF Peak, IsPeak, Readings

LEMMA PeakIsUnique ==
  ASSUME NEW rd \in Seq(Readings), NEW i \in 1 .. Len(rd), NEW m, IsPeak(rd, i, m)
  PROVE  Peak(rd, i) = m
<1>1. IsPeak(rd, i, Peak(rd, i))
  BY PeakExists
<1>2. m \in Nat /\ Peak(rd, i) \in Nat
  BY <1>1, DecisionWindowAssumption DEF IsPeak, Readings, DecisionWindowAssumption
<1>3. m <= Peak(rd, i) /\ Peak(rd, i) <= m
  BY <1>1 DEF IsPeak
<1> QED BY <1>2, <1>3

\* Peaks grow.
LEMMA PeaksGrow ==
  ASSUME NEW rd \in Seq(Readings), NEW i \in 1 .. Len(rd), NEW j \in i .. Len(rd)
  PROVE  /\ Peak(rd, i) \in Nat /\ Peak(rd, j) \in Nat
         /\ Peak(rd, i) <= Peak(rd, j)
<1>1. i \in Nat /\ j \in 1 .. Len(rd) /\ i <= j /\ Len(rd) \in Nat
  OBVIOUS
<1>2. IsPeak(rd, i, Peak(rd, i)) /\ IsPeak(rd, j, Peak(rd, j))
  BY <1>1, PeakExists
<1>3. PICK k \in 1..i : rd[k] = Peak(rd, i)
  BY <1>2 DEF IsPeak
<1>4. k \in 1..j
  BY <1>1
<1>5. rd[k] <= Peak(rd, j)
  BY <1>2, <1>4 DEF IsPeak
<1>6. Peak(rd, i) \in Nat /\ Peak(rd, j) \in Nat
  BY <1>2, DecisionWindowAssumption DEF IsPeak, Readings, DecisionWindowAssumption
<1> QED BY <1>3, <1>5, <1>6

\* One more reading: the peaks before it stay, the last is monotonicNow()'s.
LEMMA PeakOfOneMore ==
  ASSUME NEW rd \in Seq(Readings), NEW x \in Readings
  PROVE  LET more == Append(rd, x)
             top == Peak(rd, Len(rd))
         IN /\ more \in Seq(Readings) /\ Len(more) = Len(rd) + 1
            /\ \A i \in 1 .. Len(rd) : Peak(more, i) = Peak(rd, i)
            /\ Peak(more, Len(rd) + 1) = IF rd = <<>> \/ x > top THEN x ELSE top
<1> DEFINE more == Append(rd, x)
           n == Len(rd)
           top == Peak(rd, n)
<1>1. /\ more \in Seq(Readings) /\ Len(more) = n + 1 /\ n \in Nat
      /\ \A i \in 1..n : more[i] = rd[i]
      /\ more[n + 1] = x
  OBVIOUS
<1> HIDE DEF more
<1>2. ASSUME NEW i \in 1 .. n PROVE Peak(more, i) = Peak(rd, i)
  <2>1. IsPeak(rd, i, Peak(rd, i))
    BY PeakExists
  <2>2. \A j \in 1..i : j \in 1..n
    BY <1>1
  <2>3. IsPeak(more, i, Peak(rd, i))
    BY <1>1, <2>1, <2>2 DEF IsPeak
  <2>4. i \in 1 .. Len(more)
    BY <1>1
  <2> QED BY <1>1, <2>3, <2>4, PeakIsUnique
<1>3. n + 1 \in 1 .. Len(more) /\ x \in Nat
  BY <1>1, DecisionWindowAssumption DEF Readings, DecisionWindowAssumption
<1>4. CASE rd = <<>>
  <2>1. n = 0
    BY <1>4
  <2>2. IsPeak(more, n + 1, x)
    BY <1>1, <1>3, <2>1 DEF IsPeak
  <2> QED BY <1>1, <1>2, <1>3, <1>4, <2>2, PeakIsUnique DEF more
<1>5. CASE rd # <<>>
  <2>1. n \in 1 .. n
    BY <1>1, <1>5
  <2>2. IsPeak(rd, n, top)
    BY <2>1, PeakExists
  <2>3. top \in Nat
    BY <2>2, DecisionWindowAssumption DEF IsPeak, Readings, DecisionWindowAssumption
  <2>4. PICK k \in 1..n : rd[k] = top
    BY <2>2 DEF IsPeak
  <2>5. \A j \in 1 .. (n + 1) : j \in 1 .. n \/ j = n + 1
    BY <1>1
  <2>6. \A j \in 1 .. n : rd[j] \in Nat /\ rd[j] <= top
    BY <2>2, DecisionWindowAssumption DEF IsPeak, Readings, DecisionWindowAssumption
  <2>7. CASE x > top
    <3>1. \A j \in 1 .. (n + 1) : more[j] <= x
      BY <1>1, <1>3, <2>3, <2>5, <2>6, <2>7
    <3>2. IsPeak(more, n + 1, x)
      BY <1>1, <1>3, <3>1 DEF IsPeak
    <3> QED BY <1>1, <1>2, <1>3, <2>7, <3>2, PeakIsUnique DEF more
  <2>8. CASE ~(x > top)
    <3>1. \A j \in 1 .. (n + 1) : more[j] <= top
      BY <1>1, <1>3, <2>3, <2>5, <2>6, <2>8
    <3>2. k \in 1 .. (n + 1) /\ more[k] = top
      BY <1>1, <2>4
    <3>3. IsPeak(more, n + 1, top)
      BY <2>2, <3>1, <3>2 DEF IsPeak
    <3> QED BY <1>1, <1>2, <1>3, <1>5, <2>8, <3>3, PeakIsUnique DEF more
  <2> QED BY <2>7, <2>8
<1> QED BY <1>4, <1>5

-----------------------------------------------------------------------------
(* Counting decisions.                                                     *)

\* The decisions of fd after the lo-th, up to the hi-th, that count under k.
Under(fd, k, lo, hi) == {i \in (lo + 1)..hi : CountsUnder(fd[i].decision, k)}
HowMany(fd, k, lo, hi) == Cardinality(Under(fd, k, lo, hi))

LEMMA CountIsFinite ==
  ASSUME NEW fd, NEW k, NEW lo \in Nat, NEW hi \in Nat
  PROVE  IsFiniteSet(Under(fd, k, lo, hi)) /\ HowMany(fd, k, lo, hi) \in Nat
<1>1. IsFiniteSet((lo + 1)..hi)
  BY FS_Interval
<1>2. Under(fd, k, lo, hi) \in SUBSET ((lo + 1)..hi)
  BY DEF Under
<1>3. IsFiniteSet(Under(fd, k, lo, hi))
  BY <1>1, <1>2, FS_Subset
<1> QED BY <1>3, FS_CardinalityType DEF HowMany

LEMMA CountSplits ==
  ASSUME NEW fd, NEW k, NEW lo \in Nat, NEW mid \in Nat, NEW hi \in Nat,
         lo <= mid, mid <= hi
  PROVE  HowMany(fd, k, lo, hi) = HowMany(fd, k, lo, mid) + HowMany(fd, k, mid, hi)
<1> DEFINE S == Under(fd, k, lo, mid)
           T == Under(fd, k, mid, hi)
<1>1. IsFiniteSet(S) /\ IsFiniteSet(T) /\ Cardinality(S) \in Nat /\ Cardinality(T) \in Nat
  BY CountIsFinite DEF HowMany
<1>2. S \cup T = Under(fd, k, lo, hi)
  BY DEF Under
<1>3. S \cap T = {}
  BY DEF Under
<1> HIDE DEF S, T
<1>4. Cardinality(S \cup T) = Cardinality(S) + Cardinality(T) - Cardinality(S \cap T)
  BY <1>1, FS_Union
<1>5. Cardinality(S \cap T) = 0
  BY <1>3, FS_EmptySet
<1>6. Cardinality(S \cup T) = Cardinality(S) + Cardinality(T)
  BY <1>1, <1>4, <1>5
<1> QED BY <1>2, <1>6 DEF HowMany, S, T

LEMMA CountOfOne ==
  ASSUME NEW fd, NEW k, NEW n \in Nat
  PROVE  HowMany(fd, k, n, n + 1) = IF CountsUnder(fd[n + 1].decision, k) THEN 1 ELSE 0
<1>1. (n + 1)..(n + 1) = {n + 1}
  OBVIOUS
<1>2. CASE CountsUnder(fd[n + 1].decision, k)
  <2>1. Under(fd, k, n, n + 1) = {n + 1}
    BY <1>1, <1>2 DEF Under
  <2> QED BY <1>2, <2>1, FS_Singleton DEF HowMany
<1>3. CASE ~CountsUnder(fd[n + 1].decision, k)
  <2>1. Under(fd, k, n, n + 1) = {}
    BY <1>1, <1>3 DEF Under
  <2> QED BY <1>3, <2>1, FS_EmptySet DEF HowMany
<1> QED BY <1>2, <1>3

LEMMA CountOfNone ==
  ASSUME NEW fd, NEW k, NEW n \in Nat
  PROVE  HowMany(fd, k, n, n) = 0
<1>1. Under(fd, k, n, n) = {}
  BY DEF Under
<1> QED BY <1>1, FS_EmptySet DEF HowMany

LEMMA CountAgrees ==
  ASSUME NEW fd, NEW fe, NEW k, NEW lo \in Nat, NEW hi \in Nat,
         \A i \in (lo + 1)..hi : fe[i].decision = fd[i].decision
  PROVE  HowMany(fe, k, lo, hi) = HowMany(fd, k, lo, hi)
<1>1. Under(fe, k, lo, hi) = Under(fd, k, lo, hi)
  BY DEF Under
<1> QED BY <1>1 DEF HowMany

\* Entries count as the decisions they are of.
LEMMA CountShifts ==
  ASSUME NEW es, NEW fd, NEW k, NEW m \in Nat, NEW n \in Nat,
         \A i \in 1..n : es[i].decision = fd[m + i].decision
  PROVE  HowMany(es, k, 0, n) = HowMany(fd, k, m, m + n)
<1> DEFINE S == Under(es, k, 0, n)
           T == Under(fd, k, m, m + n)
           f == [i \in S |-> m + i]
<1>1. \A i : i \in S <=> i \in 1..n /\ CountsUnder(es[i].decision, k)
  BY DEF Under
<1>2. \A i : i \in T <=> i \in (m + 1)..(m + n) /\ CountsUnder(fd[i].decision, k)
  BY DEF Under
<1>3. IsFiniteSet(S)
  BY CountIsFinite
<1> HIDE DEF S, T
<1>4. f \in [S -> T]
  <2> SUFFICES ASSUME NEW i \in S PROVE m + i \in T
    OBVIOUS
  <2>1. i \in 1..n /\ m + i \in (m + 1)..(m + n)
    BY <1>1
  <2> QED BY <1>1, <1>2, <2>1
<1>5. \A i, j \in S : f[i] = f[j] => i = j
  BY <1>1
<1>6. \A j \in T : \E i \in S : f[i] = j
  <2> SUFFICES ASSUME NEW j \in T PROVE \E i \in S : f[i] = j
    OBVIOUS
  <2>1. j \in Nat /\ j - m \in 1..n /\ m + (j - m) = j
    BY <1>2
  <2>2. j - m \in S
    BY <1>1, <1>2, <2>1
  <2> QED BY <2>1, <2>2
<1>7. f \in Bijection(S, T)
  <2> HIDE DEF f
  <2> QED BY <1>4, <1>5, <1>6 DEF Bijection, Injection, Surjection, IsInjective
<1>8. ExistsBijection(S, T)
  BY <1>7 DEF ExistsBijection
<1> QED BY <1>3, <1>8, FS_Bijection DEF HowMany, S, T

-----------------------------------------------------------------------------
(* The window.                                                             *)

\* The entries es are the newest of the decisions fd, each with the peak of the
\* readings rd up to its own, and cs counts them.
Tracks(es, cs, fd, rd) ==
  /\ es \in Seq(Entries) /\ fd \in Seq(FedDecisions) /\ rd \in Seq(Readings)
  /\ Len(es) <= Len(fd)
  /\ \A i \in 1..Len(fd) : fd[i].reading \in 1..Len(rd)
  /\ \A i, j \in 1..Len(fd) : i <= j => fd[i].reading <= fd[j].reading
  /\ \A i \in 1..Len(es) :
       /\ es[i].decision = fd[Len(fd) - Len(es) + i].decision
       /\ es[i].at = Peak(rd, fd[Len(fd) - Len(es) + i].reading)
  /\ cs = [k \in Keys |-> HowMany(fd, k, Len(fd) - Len(es), Len(fd))]

\* The first n decisions have left the window.
Gone(fd, rd, n) == \A i \in 1..n : ~Within(fd, rd, i)

WindowInv ==
  /\ window \in Windows
  /\ Tracks(entries, counts, fed, readings)
  /\ \A i \in 1..Len(fed) : Within(fed, readings, i) <=> i > Len(fed) - Len(entries)
  /\ high = IF readings = <<>> THEN Never ELSE Peak(readings, Len(readings))

LEMMA TrackedTypes ==
  ASSUME NEW es, NEW cs, NEW fd, NEW rd, Tracks(es, cs, fd, rd)
  PROVE  /\ es \in Seq(Entries) /\ fd \in Seq(FedDecisions) /\ rd \in Seq(Readings)
         /\ Len(es) \in Nat /\ Len(fd) \in Nat /\ Len(rd) \in Nat /\ Len(es) <= Len(fd)
         /\ \A i \in 1..Len(fd) : fd[i].reading \in 1..Len(rd)
<1>1. /\ es \in Seq(Entries) /\ fd \in Seq(FedDecisions) /\ rd \in Seq(Readings)
      /\ Len(es) <= Len(fd)
      /\ \A i \in 1..Len(fd) : fd[i].reading \in 1..Len(rd)
  BY Zenon DEF Tracks
<1> QED BY <1>1

LEMMA WindowKinds ==
  ASSUME window \in Windows
  PROVE  IF ByCount THEN window.events \in Nat \ {0} ELSE window.ms \in Nat \ {0}
<1>1. window \in [events : Nat \ {0}] \/ window \in [ms : Nat \ {0}]
  BY DecisionWindowAssumption DEF DecisionWindowAssumption
<1>2. CASE window \in [events : Nat \ {0}]
  BY <1>2 DEF ByCount
<1>3. CASE window \in [ms : Nat \ {0}]
  BY <1>3 DEF ByCount
<1> QED BY <1>1, <1>2, <1>3

\* What has left a window does not come back: an older decision leaves first.
LEMMA LeavesInOrder ==
  ASSUME window \in Windows, NEW fd, NEW rd,
         fd \in Seq(FedDecisions), rd \in Seq(Readings),
         \A i \in 1..Len(fd) : fd[i].reading \in 1..Len(rd),
         \A i, j \in 1..Len(fd) : i <= j => fd[i].reading <= fd[j].reading,
         NEW i \in 1..Len(fd), NEW j \in 1..Len(fd), i <= j, Within(fd, rd, i)
  PROVE  Within(fd, rd, j)
<1>1. /\ Len(fd) \in Nat /\ Len(rd) \in Nat /\ i \in Nat /\ j \in Nat
      /\ IF ByCount THEN window.events \in Nat \ {0} ELSE window.ms \in Nat \ {0}
  BY WindowKinds
<1>2. CASE ByCount
  BY <1>1, <1>2 DEF Within
<1>3. CASE ~ByCount
  <2> DEFINE a == fd[i].reading
             b == fd[j].reading
  <2>1. a \in 1..Len(rd) /\ b \in 1..Len(rd) /\ a <= b
    OBVIOUS
  <2> HIDE DEF a, b
  <2>2. b \in a..Len(rd) /\ Len(rd) \in 1..Len(rd) /\ Len(rd) \in a..Len(rd)
    BY <1>1, <2>1
  <2>3. /\ Peak(rd, a) \in Nat /\ Peak(rd, b) \in Nat /\ Peak(rd, Len(rd)) \in Nat
        /\ Peak(rd, a) <= Peak(rd, b)
    BY <2>1, <2>2, PeaksGrow
  <2>4. Peak(rd, a) >= Peak(rd, Len(rd)) - window.ms
    BY <1>3 DEF Within, a
  <2>5. Peak(rd, b) >= Peak(rd, Len(rd)) - window.ms
    BY <1>1, <1>3, <2>3, <2>4
  <2> QED BY <1>3, <2>5 DEF Within, b
<1> QED BY <1>2, <1>3

\* What evict() drops: it stops at the first entry that stays.
LEMMA StaleIs ==
  ASSUME window \in Windows, NEW es \in Seq(Entries), NEW now \in Nat
  PROVE  /\ Stale(es, now) \in 0..Len(es)
         /\ ByCount => Stale(es, now) = IF Len(es) > window.events
                                        THEN Len(es) - window.events ELSE 0
         /\ ~ByCount =>
              /\ \A i \in 1..Stale(es, now) : es[i].at < now - window.ms
              /\ Stale(es, now) < Len(es) =>
                   es[Stale(es, now) + 1].at >= now - window.ms
<1>1. /\ Len(es) \in Nat
      /\ IF ByCount THEN window.events \in Nat \ {0} ELSE window.ms \in Nat \ {0}
  BY WindowKinds
<1>2. CASE ByCount
  BY <1>1, <1>2 DEF Stale
<1>3. CASE ~ByCount
  <2> DEFINE Stays(n) == n < Len(es) => es[n + 1].at >= now - window.ms
             Drops(n) == /\ \A i \in 1..n : es[i].at < now - window.ms
                         /\ Stays(n)
             Stops == {n \in Nat : n <= Len(es) /\ Stays(n)}
  <2>1. Len(es) \in Stops
    BY <1>1
  <2>2. PICK n \in Stops : \A m \in Stops : n <= m
    <3>1. Stops \in SUBSET Nat
      OBVIOUS
    <3> HIDE DEF Stops
    <3> QED BY <2>1, <3>1, LeastNatural
  <2>3. ASSUME NEW i \in 1..n PROVE es[i].at < now - window.ms
    <3>1. i - 1 \in Nat /\ i - 1 < Len(es) /\ ~(n <= i - 1) /\ i - 1 + 1 = i
      BY <1>1, <2>2
    <3>2. ~Stays(i - 1)
      BY <2>2, <3>1
    <3>3. ~(es[i].at >= now - window.ms)
      BY <3>1, <3>2
    <3>4. i \in 1..Len(es)
      BY <1>1, <2>2
    <3>5. es[i].at \in Nat
      <4>1. es[i] \in Entries
        BY <3>4
      <4>2. es[i].at \in Readings
        BY <4>1 DEF Entries
      <4> QED BY <4>2, DecisionWindowAssumption DEF Readings, DecisionWindowAssumption
    <3> QED BY <1>1, <1>3, <3>3, <3>5
  <2>4. n \in 0..Len(es) /\ Drops(n)
    BY <1>1, <2>2, <2>3
  <2> HIDE DEF Drops
  <2>5. (CHOOSE m \in 0..Len(es) : Drops(m)) \in 0..Len(es)
        /\ Drops(CHOOSE m \in 0..Len(es) : Drops(m))
    BY <2>4
  <2>6. Stale(es, now) = CHOOSE m \in 0..Len(es) : Drops(m)
    BY <1>3 DEF Stale, Drops
  <2> QED BY <1>3, <2>5, <2>6 DEF Drops
<1> QED BY <1>2, <1>3

\* A sequence cut after its n-th member.
LEMMA Halves ==
  ASSUME NEW S, NEW s \in Seq(S), NEW n \in 0..Len(s)
  PROVE  /\ SubSeq(s, 1, n) \in Seq(S) /\ Len(SubSeq(s, 1, n)) = n
         /\ \A i \in 1..n : SubSeq(s, 1, n)[i] = s[i]
         /\ SubSeq(s, n + 1, Len(s)) \in Seq(S)
         /\ Len(SubSeq(s, n + 1, Len(s))) = Len(s) - n
         /\ \A i \in 1..(Len(s) - n) : SubSeq(s, n + 1, Len(s))[i] = s[n + i]
<1>1. n \in Nat /\ Len(s) \in Nat /\ n <= Len(s) /\ 1 \in Int /\ n + 1 \in Int
  OBVIOUS
<1>2. /\ \A i \in 1 .. n : s[i] \in S
      /\ \A i \in (n + 1) .. Len(s) : s[i] \in S
  OBVIOUS
<1>3. /\ SubSeq(s, 1, n) \in Seq(S)
      /\ Len(SubSeq(s, 1, n)) = IF 1 <= n THEN n - 1 + 1 ELSE 0
      /\ \A i \in 1 .. n - 1 + 1 : SubSeq(s, 1, n)[i] = s[1 + i - 1]
  BY <1>1, <1>2, SubSeqProperties
<1>4. /\ SubSeq(s, n + 1, Len(s)) \in Seq(S)
      /\ Len(SubSeq(s, n + 1, Len(s)))
           = IF n + 1 <= Len(s) THEN Len(s) - (n + 1) + 1 ELSE 0
      /\ \A i \in 1 .. Len(s) - (n + 1) + 1 :
           SubSeq(s, n + 1, Len(s))[i] = s[n + 1 + i - 1]
  BY <1>1, <1>2, SubSeqProperties
<1>5. ASSUME NEW i \in 1 .. n PROVE SubSeq(s, 1, n)[i] = s[i]
  <2>1. i \in 1 .. n - 1 + 1 /\ 1 + i - 1 = i
    BY <1>1
  <2> QED BY <1>3, <2>1
<1>6. ASSUME NEW i \in 1 .. (Len(s) - n) PROVE SubSeq(s, n + 1, Len(s))[i] = s[n + i]
  <2>1. i \in 1 .. Len(s) - (n + 1) + 1 /\ n + 1 + i - 1 = n + i
    BY <1>1
  <2> QED BY <1>4, <2>1
<1>7. Len(SubSeq(s, 1, n)) = n /\ Len(SubSeq(s, n + 1, Len(s))) = Len(s) - n
  BY <1>1, <1>3, <1>4
<1> QED BY <1>3, <1>4, <1>5, <1>6, <1>7

\* evict() leaves exactly what the window holds, counted.
LEMMA EvictKeeps ==
  ASSUME window \in Windows, window' = window, NEW es, NEW cs, NEW fd, NEW rd,
         NEW now \in Nat, Tracks(es, cs, fd, rd), Gone(fd, rd, Len(fd) - Len(es)),
         Evict(es, cs, now), ByCount \/ (rd # <<>> /\ now = Peak(rd, Len(rd)))
  PROVE  /\ Tracks(entries', counts', fd, rd)
         /\ \A i \in 1..Len(fd) : Within(fd, rd, i) <=> i > Len(fd) - Len(entries')
<1> DEFINE n == Stale(es, now)
           F == Len(fd)
           L == Len(es)
           m == F - L
<1>1. /\ es \in Seq(Entries) /\ fd \in Seq(FedDecisions) /\ rd \in Seq(Readings)
      /\ F \in Nat /\ L \in Nat /\ L <= F /\ m \in Nat /\ F = m + L
      /\ IF ByCount THEN window.events \in Nat \ {0} ELSE window.ms \in Nat \ {0}
  BY WindowKinds DEF Tracks
<1>2. /\ \A i \in 1..F : fd[i].reading \in 1..Len(rd)
      /\ \A i, j \in 1..F : i <= j => fd[i].reading <= fd[j].reading
      /\ \A i \in 1..L : /\ es[i].decision = fd[m + i].decision
                         /\ es[i].at = Peak(rd, fd[m + i].reading)
      /\ cs = [k \in Keys |-> HowMany(fd, k, m, F)]
  BY DEF Tracks
<1>3. /\ n \in 0..L
      /\ ByCount => n = IF L > window.events THEN L - window.events ELSE 0
      /\ ~ByCount => /\ \A i \in 1..n : es[i].at < now - window.ms
                     /\ n < L => es[n + 1].at >= now - window.ms
  BY <1>1, StaleIs
<1>4. entries' = SubSeq(es, n + 1, L) /\ counts' = Removed(cs, SubSeq(es, 1, n))
  BY DEF Evict
<1>5. \A i \in 1..m : ~Within(fd, rd, i)
  BY DEF Gone
<1> HIDE DEF n, m
<1>6. /\ entries' \in Seq(Entries) /\ Len(entries') = L - n
      /\ \A i \in 1..(L - n) : entries'[i] = es[n + i]
      /\ SubSeq(es, 1, n) \in Seq(Entries) /\ Len(SubSeq(es, 1, n)) = n
      /\ \A i \in 1..n : SubSeq(es, 1, n)[i] = es[i]
  <2>1. /\ SubSeq(es, n + 1, L) \in Seq(Entries) /\ Len(SubSeq(es, n + 1, L)) = L - n
        /\ \A i \in 1..(L - n) : SubSeq(es, n + 1, L)[i] = es[n + i]
    BY <1>1, <1>3, Halves
  <2>2. /\ SubSeq(es, 1, n) \in Seq(Entries) /\ Len(SubSeq(es, 1, n)) = n
        /\ \A i \in 1..n : SubSeq(es, 1, n)[i] = es[i]
    BY <1>1, <1>3, Halves
  <2> QED BY <1>4, <2>1, <2>2
<1> DEFINE q == F - Len(entries')
<1>7. q = m + n /\ q \in Nat /\ q <= F /\ n \in Nat /\ n <= L
  BY <1>1, <1>3, <1>6
<1> HIDE DEF q
<1>8. ASSUME NEW i \in 1..(L - n)
      PROVE  /\ entries'[i].decision = fd[q + i].decision
             /\ entries'[i].at = Peak(rd, fd[q + i].reading)
  <2>1. n + i \in 1..L /\ m + (n + i) = q + i
    BY <1>1, <1>7
  <2>2. entries'[i] = es[n + i]
    BY <1>6
  <2> QED BY <1>2, <2>1, <2>2
<1>9. counts' = [k \in Keys |-> HowMany(fd, k, q, F)]
  <2> DEFINE gone == SubSeq(es, 1, n)
  <2>1. counts' = [k \in Keys |-> cs[k] - HowMany(gone, k, 0, n)]
    <3>1. DOMAIN gone = 1..n
      BY <1>6, <1>7
    <3> HIDE DEF gone
    <3>2. ASSUME NEW k
          PROVE  Cardinality({i \in DOMAIN gone : CountsUnder(gone[i].decision, k)})
                   = HowMany(gone, k, 0, n)
      BY <3>1 DEF HowMany, Under
    <3> QED BY <1>4, <3>2 DEF Removed, gone
  <2>2. ASSUME NEW k \in Keys
        PROVE  cs[k] - HowMany(gone, k, 0, n) = HowMany(fd, k, q, F)
    <3>1. cs[k] = HowMany(fd, k, m, F)
      BY <1>2
    <3>2. \A i \in 1..n : gone[i].decision = fd[m + i].decision
      <4>1. ASSUME NEW i \in 1..n PROVE gone[i].decision = fd[m + i].decision
        <5>1. i \in 1..L /\ gone[i] = es[i]
          BY <1>1, <1>6, <1>7
        <5> QED BY <1>2, <5>1
      <4> QED BY <4>1
    <3>3. HowMany(gone, k, 0, n) = HowMany(fd, k, m, q)
      <4> HIDE DEF gone
      <4>1. m \in Nat
        BY <1>1 DEF m
      <4>2. HowMany(gone, k, 0, n) = HowMany(fd, k, m, m + n)
        BY <1>7, <3>2, <4>1, CountShifts
      <4> QED BY <1>7, <4>2
    <3>4. HowMany(fd, k, m, F) = HowMany(fd, k, m, q) + HowMany(fd, k, q, F)
      <4>1. m \in Nat /\ q \in Nat /\ F \in Nat /\ m <= q /\ q <= F
        BY <1>1, <1>7 DEF m
      <4> QED BY <4>1, CountSplits
    <3>5. HowMany(fd, k, m, q) \in Nat /\ HowMany(fd, k, q, F) \in Nat
      <4>1. m \in Nat /\ q \in Nat /\ F \in Nat
        BY <1>1, <1>7 DEF m
      <4> QED BY <4>1, CountIsFinite
    <3> QED BY <3>1, <3>3, <3>4, <3>5
  <2> HIDE DEF gone
  <2> QED BY <2>1, <2>2
<1>12. /\ m \in Nat /\ n \in Nat /\ L \in Nat /\ q \in Nat /\ F \in Nat
       /\ F = m + L /\ q = m + n /\ n <= L
  BY <1>1, <1>7
<1>10. Tracks(entries', counts', fd, rd)
  <2>1. Len(entries') = L - n
    BY <1>6
  <2>2. L - n <= F
    BY <1>12
  <2>3. Len(entries') <= F
    BY <2>1, <2>2
  <2> QED BY <1>1, <1>2, <1>6, <1>8, <1>9, <2>3 DEF Tracks, q
<1>11. ASSUME NEW i \in 1..F PROVE Within(fd, rd, i) <=> i > q
  <2> HIDE DEF F, L
  <2>0. i \in Nat /\ (i \in 1..m \/ i > m)
    BY <1>12
  <2>1. CASE ByCount
    <3> DEFINE w == window.events
    <3>1. w \in Nat /\ n = IF L > w THEN L - w ELSE 0
      BY <1>1, <1>3, <2>1
    <3>2. Within(fd, rd, i) <=> i > F - w
      BY <2>1 DEF Within, F
    <3> HIDE DEF w
    <3>3. CASE L > w
      <4>1. q = F - w
        BY <1>12, <3>1, <3>3
      <4> QED BY <3>2, <4>1
    <3>4. CASE ~(L > w)
      <4>1. q = m
        BY <1>12, <3>1, <3>4
      <4>2. i > m => i > F - w
        BY <1>12, <2>0, <3>1, <3>4
      <4>3. i \in 1..m => ~(i > m)
        BY <1>12
      <4> QED BY <1>5, <2>0, <3>2, <4>1, <4>2, <4>3
    <3> QED BY <3>3, <3>4
  <2>2. CASE ~ByCount
    <3> DEFINE w == window.ms
    <3>0. w \in Nat
      BY <1>1, <2>2
    <3>1. now = Peak(rd, Len(rd)) /\ rd # <<>>
      BY <2>2
    <3>2. ASSUME NEW j \in 1..L
          PROVE  Within(fd, rd, m + j) <=> es[j].at >= now - w
      BY <1>2, <2>2, <3>1, <3>2 DEF Within, L
    <3>3. CASE i \in 1..m
      <4>1. ~(i > q)
        BY <1>12, <3>3
      <4> QED BY <1>5, <3>3, <4>1
    <3>4. CASE i > m /\ ~(i > q)
      <4>1. i - m \in 1..n /\ i - m \in 1..L /\ m + (i - m) = i
        BY <1>12, <2>0, <3>4
      <4>2. es[i - m].at < now - w
        BY <1>3, <2>2, <4>1
      <4>3. es[i - m].at \in Nat
        <5>1. es[i - m] \in Entries
          BY <1>1, <4>1 DEF L
        <5>2. es[i - m].at \in Readings
          BY <5>1 DEF Entries
        <5> QED BY <5>2, DecisionWindowAssumption DEF Readings, DecisionWindowAssumption
      <4>4. ~(es[i - m].at >= now - w)
        <5> HIDE DEF w
        <5> QED BY <3>0, <4>2, <4>3
      <4> QED BY <3>2, <3>4, <4>1, <4>4
    <3>5. CASE i > q
      <4>1. n < L /\ q + 1 \in 1..F /\ n + 1 \in 1..L /\ m + (n + 1) = q + 1 /\ q + 1 <= i
        <5>1. i <= F
          BY <1>12
        <5> QED BY <1>12, <2>0, <3>5, <5>1
      <4>2. Within(fd, rd, q + 1)
        BY <1>3, <2>2, <3>2, <4>1 DEF L
      <4>3. Within(fd, rd, i)
        BY <1>1, <1>2, <4>1, <4>2, LeavesInOrder DEF F
      <4> QED BY <3>5, <4>3
    <3> QED BY <2>0, <3>3, <3>4, <3>5
  <2> QED BY <2>1, <2>2
<1> QED BY <1>10, <1>11 DEF q

\* What a reading or a decision more leaves of the ones before.
LEMMA TracksRead ==
  ASSUME NEW es, NEW cs, NEW fd, NEW rd, NEW x \in Readings, Tracks(es, cs, fd, rd)
  PROVE  Tracks(es, cs, fd, Append(rd, x))
<1> DEFINE more == Append(rd, x)
<1>1. /\ es \in Seq(Entries) /\ fd \in Seq(FedDecisions) /\ rd \in Seq(Readings)
      /\ Len(es) \in Nat /\ Len(fd) \in Nat /\ Len(es) <= Len(fd) /\ Len(rd) \in Nat
      /\ \A i \in 1..Len(fd) : fd[i].reading \in 1..Len(rd)
  BY DEF Tracks
<1>2. /\ more \in Seq(Readings) /\ Len(more) = Len(rd) + 1
      /\ \A i \in 1 .. Len(rd) : Peak(more, i) = Peak(rd, i)
  BY <1>1, PeakOfOneMore
<1> HIDE DEF more
<1>3. \A i \in 1..Len(fd) : fd[i].reading \in 1..Len(more)
  BY <1>1, <1>2
<1>4. ASSUME NEW i \in 1..Len(es)
      PROVE  es[i].at = Peak(more, fd[Len(fd) - Len(es) + i].reading)
  <2>1. Len(fd) - Len(es) + i \in 1..Len(fd)
    BY <1>1
  <2>2. es[i].at = Peak(rd, fd[Len(fd) - Len(es) + i].reading)
    BY DEF Tracks
  <2> QED BY <1>1, <1>2, <2>1, <2>2
<1>5. Tracks(es, cs, fd, more)
  BY <1>1, <1>2, <1>3, <1>4 DEF Tracks
<1> QED BY <1>5 DEF more

LEMMA GoneStays ==
  ASSUME window \in Windows, NEW fd \in Seq(FedDecisions), NEW rd \in Seq(Readings),
         \A i \in 1..Len(fd) : fd[i].reading \in 1..Len(rd),
         NEW fe \in Seq(FedDecisions), Len(fd) <= Len(fe),
         \A i \in 1..Len(fd) : fe[i] = fd[i],
         NEW x \in Readings, NEW n \in 0..Len(fd), Gone(fd, rd, n)
  PROVE  Gone(fe, Append(rd, x), n)
<1> DEFINE more == Append(rd, x)
<1> SUFFICES ASSUME NEW i \in 1..n PROVE ~Within(fe, more, i)
  BY DEF Gone
<1>1. /\ Len(fd) \in Nat /\ Len(fe) \in Nat /\ Len(rd) \in Nat /\ i \in 1..Len(fd)
      /\ IF ByCount THEN window.events \in Nat \ {0} ELSE window.ms \in Nat \ {0}
  BY WindowKinds
<1>2. ~Within(fd, rd, i)
  BY DEF Gone
<1>3. fe[i] = fd[i] /\ fd[i].reading \in 1..Len(rd)
  BY <1>1
<1>4. CASE ByCount
  <2>1. ~(i > Len(fd) - window.events) /\ window.events \in Nat
    BY <1>1, <1>2, <1>4 DEF Within
  <2>2. \A a, b, w, j \in Int : a <= b /\ ~(j > a - w) => ~(j > b - w)
    OBVIOUS
  <2>3. /\ Len(fd) \in Int /\ Len(fe) \in Int /\ window.events \in Int /\ i \in Int
        /\ Len(fd) <= Len(fe)
    BY <1>1, <2>1
  <2>4. ~(i > Len(fe) - window.events)
    BY <2>1, <2>2, <2>3
  <2> QED BY <1>4, <2>4 DEF Within
<1>5. CASE ~ByCount
  <2> DEFINE a == fd[i].reading
             w == window.ms
  <2>1. a \in 1..Len(rd) /\ w \in Nat
    BY <1>1, <1>3, <1>5
  <2>2. ~(Peak(rd, a) >= Peak(rd, Len(rd)) - w)
    BY <1>2, <1>5 DEF Within
  <2> HIDE DEF a, w
  <2>3. /\ more \in Seq(Readings) /\ Len(more) = Len(rd) + 1
        /\ \A j \in 1 .. Len(rd) : Peak(more, j) = Peak(rd, j)
    BY PeakOfOneMore
  <2> HIDE DEF more
  <2>4. a \in 1..Len(more) /\ Len(rd) \in 1..Len(more)
        /\ Len(rd) \in 1..Len(rd) /\ Len(more) \in Len(rd)..Len(more)
    BY <1>1, <2>1, <2>3
  <2>5. Peak(more, a) = Peak(rd, a) /\ Peak(more, Len(rd)) = Peak(rd, Len(rd))
    BY <2>1, <2>3, <2>4
  <2>6. /\ Peak(more, Len(rd)) \in Nat /\ Peak(more, Len(more)) \in Nat
        /\ Peak(more, Len(rd)) <= Peak(more, Len(more))
    BY <2>3, <2>4, PeaksGrow
  <2>7. Peak(more, a) \in Nat
    <3>1. a \in a..Len(more)
      BY <2>4
    <3> QED BY <2>3, <2>4, <3>1, PeaksGrow
  <2>8. ~(Peak(more, a) >= Peak(more, Len(more)) - w)
    <3>1. \A p, b, c, v \in Int : ~(p >= b - v) /\ b <= c => ~(p >= c - v)
      OBVIOUS
    <3>2. ~(Peak(more, a) >= Peak(more, Len(rd)) - w)
      BY <2>2, <2>5
    <3>3. /\ Peak(more, a) \in Int /\ Peak(more, Len(rd)) \in Int
          /\ Peak(more, Len(more)) \in Int /\ w \in Int
      BY <2>1, <2>6, <2>7
    <3> QED BY <2>6, <3>1, <3>2, <3>3
  <2> QED BY <1>3, <1>5, <2>8 DEF Within, a, w
<1> QED BY <1>4, <1>5

\* monotonicNow() is the peak of the readings with the one it took.
LEMMA NowIsPeak ==
  ASSUME WindowInv, NEW x \in Readings
  PROVE  /\ MonotonicNow(x) = Peak(Append(readings, x), Len(Append(readings, x)))
         /\ MonotonicNow(x) \in Readings
<1>1. readings \in Seq(Readings) /\ Len(readings) \in Nat
  BY DEF WindowInv, Tracks
<1>2. /\ Len(Append(readings, x)) = Len(readings) + 1
      /\ Peak(Append(readings, x), Len(readings) + 1)
           = IF readings = <<>> \/ x > Peak(readings, Len(readings))
             THEN x ELSE Peak(readings, Len(readings))
  BY <1>1, PeakOfOneMore
<1>3. CASE readings = <<>>
  BY <1>2, <1>3 DEF WindowInv, MonotonicNow
<1>4. CASE readings # <<>>
  <2>1. Len(readings) \in 1..Len(readings)
    BY <1>1, <1>4
  <2>2. Peak(readings, Len(readings)) \in Readings
    BY <1>1, <2>1, PeakExists DEF IsPeak
  <2>3. high = Peak(readings, Len(readings)) /\ high # Never
    BY <1>4, <2>2, DecisionWindowAssumption
       DEF WindowInv, Never, Readings, DecisionWindowAssumption
  <2> QED BY <1>2, <1>4, <2>2, <2>3 DEF MonotonicNow
<1> QED BY <1>3, <1>4

\* A decision more is an entry more, counted once.
LEMMA TracksFed ==
  ASSUME NEW es, NEW cs, NEW fd, NEW rd, Tracks(es, cs, fd, rd), rd # <<>>,
         \A i \in 1..Len(fd) : fd[i].reading < Len(rd), NEW d \in Decisions
  PROVE  Tracks(Append(es, [decision |-> d, at |-> Peak(rd, Len(rd))]), Counted(cs, d),
                Append(fd, [decision |-> d, reading |-> Len(rd)]), rd)
<1> DEFINE e == [decision |-> d, at |-> Peak(rd, Len(rd))]
           f == [decision |-> d, reading |-> Len(rd)]
           fe == Append(fd, f)
           ee == Append(es, e)
           F == Len(fd)
           L == Len(es)
<1>1. /\ es \in Seq(Entries) /\ fd \in Seq(FedDecisions) /\ rd \in Seq(Readings)
      /\ L \in Nat /\ F \in Nat /\ L <= F /\ Len(rd) \in Nat
      /\ \A i \in 1..F : fd[i].reading \in 1..Len(rd)
      /\ \A i, j \in 1..F : i <= j => fd[i].reading <= fd[j].reading
      /\ \A i \in 1..L : /\ es[i].decision = fd[F - L + i].decision
                         /\ es[i].at = Peak(rd, fd[F - L + i].reading)
      /\ cs = [k \in Keys |-> HowMany(fd, k, F - L, F)]
  BY DEF Tracks
<1>2. Len(rd) \in 1..Len(rd)
  BY <1>1
<1>3. e \in Entries /\ f \in FedDecisions
  <2>1. Peak(rd, Len(rd)) \in Readings
    BY <1>1, <1>2, PeakExists DEF IsPeak
  <2> QED BY <1>1, <2>1 DEF Entries, FedDecisions
<1>4. e.decision = d /\ e.at = Peak(rd, Len(rd)) /\ f.decision = d /\ f.reading = Len(rd)
  OBVIOUS
<1> HIDE DEF e, f
<1>5. /\ ee \in Seq(Entries) /\ Len(ee) = L + 1 /\ ee[L + 1] = e
      /\ \A i \in 1..L : ee[i] = es[i]
  BY <1>1, <1>3
<1>6. /\ fe \in Seq(FedDecisions) /\ Len(fe) = F + 1 /\ fe[F + 1] = f
      /\ \A i \in 1..F : fe[i] = fd[i]
  BY <1>1, <1>3
<1> HIDE DEF fe, ee
<1>7. Len(ee) <= Len(fe) /\ Len(fe) - Len(ee) = F - L /\ F - L \in Nat
  BY <1>1, <1>5, <1>6
<1>8. ASSUME NEW i \in 1..(F + 1) PROVE fe[i].reading \in 1..Len(rd)
  <2>1. i \in 1..F \/ i = F + 1
    BY <1>1
  <2> QED BY <1>1, <1>2, <1>4, <1>6, <2>1
<1>9. ASSUME NEW i \in 1..(F + 1), NEW j \in 1..(F + 1), i <= j
      PROVE  fe[i].reading <= fe[j].reading
  <2>1. CASE j \in 1..F
    <3>1. i \in 1..F
      BY <1>1, <1>9, <2>1
    <3> QED BY <1>1, <1>6, <1>9, <2>1, <3>1
  <2>2. CASE j = F + 1
    <3>1. fe[j].reading = Len(rd)
      BY <1>4, <1>6, <2>2
    <3>2. fe[i].reading \in 1..Len(rd)
      BY <1>8
    <3> QED BY <1>1, <3>1, <3>2
  <2>3. j \in 1..F \/ j = F + 1
    BY <1>1
  <2> QED BY <2>1, <2>2, <2>3
<1>10. ASSUME NEW i \in 1..(L + 1)
       PROVE  /\ ee[i].decision = fe[F - L + i].decision
              /\ ee[i].at = Peak(rd, fe[F - L + i].reading)
  <2>1. CASE i \in 1..L
    <3>1. F - L + i \in 1..F
      BY <1>1, <2>1
    <3> QED BY <1>1, <1>5, <1>6, <2>1, <3>1
  <2>2. CASE i = L + 1
    <3>1. F - L + i = F + 1
      BY <1>1, <2>2
    <3> QED BY <1>4, <1>5, <1>6, <2>2, <3>1
  <2>3. i \in 1..L \/ i = L + 1
    BY <1>1
  <2> QED BY <2>1, <2>2, <2>3
<1>11. ASSUME NEW k \in Keys
       PROVE  Counted(cs, d)[k] = HowMany(fe, k, F - L, F + 1)
  <2> DEFINE m == F - L
  <2>1. m \in Nat /\ F \in Nat /\ F + 1 \in Nat /\ m <= F /\ F <= F + 1
    BY <1>1, <1>7
  <2>2. \A i \in (m + 1)..F : fe[i].decision = fd[i].decision
    BY <1>1, <1>6
  <2>3. cs[k] = HowMany(fd, k, m, F)
    BY <1>1
  <2> HIDE DEF m, F
  <2>4. HowMany(fe, k, m, F) = HowMany(fd, k, m, F)
    BY <2>1, <2>2, CountAgrees
  <2>5. HowMany(fe, k, m, F + 1) = HowMany(fe, k, m, F) + HowMany(fe, k, F, F + 1)
    BY <2>1, CountSplits
  <2>6. HowMany(fe, k, F, F + 1) = IF CountsUnder(fe[F + 1].decision, k) THEN 1 ELSE 0
    BY <2>1, CountOfOne
  <2>7. fe[F + 1].decision = d
    BY <1>4, <1>6 DEF F
  <2>8. HowMany(fd, k, m, F) \in Nat
    BY <2>1, CountIsFinite
  <2>9. Counted(cs, d)[k] = IF CountsUnder(d, k) THEN cs[k] + 1 ELSE cs[k]
    BY DEF Counted
  <2> QED BY <2>3, <2>4, <2>5, <2>6, <2>7, <2>8, <2>9 DEF m
<1>12. Counted(cs, d) = [k \in Keys |-> HowMany(fe, k, Len(fe) - Len(ee), Len(fe))]
  BY <1>6, <1>7, <1>11 DEF Counted
<1>13. Tracks(ee, Counted(cs, d), fe, rd)
  BY <1>1, <1>5, <1>6, <1>7, <1>8, <1>9, <1>10, <1>12 DEF Tracks
<1> QED BY <1>13 DEF ee, fe, e, f

-----------------------------------------------------------------------------
(* The calls and the window.                                               *)

\* What WindowInv reads.
WindowVars == <<window, entries, counts, fed, readings, high>>

LEMMA WindowSame ==
  ASSUME WindowInv, UNCHANGED WindowVars PROVE WindowInv'
  BY DEF WindowVars, WindowInv, Tracks, Within, ByCount, HowMany, Under

\* The parts after an evict() make the invariant again.
LEMMA EvictsInv ==
  ASSUME window \in Windows, window' = window, NEW es, NEW cs, NEW now \in Readings,
         Tracks(es, cs, fed', readings'), Gone(fed', readings', Len(fed') - Len(es)),
         Evict(es, cs, now), high' = now,
         readings' # <<>>, now = Peak(readings', Len(readings'))
  PROVE  WindowInv'
<1>1. now \in Nat
  BY DecisionWindowAssumption DEF Readings, DecisionWindowAssumption
<1>2. /\ Tracks(entries', counts', fed', readings')
      /\ \A i \in 1..Len(fed') :
           Within(fed', readings', i) <=> i > Len(fed') - Len(entries')
  BY <1>1, EvictKeeps
<1>3. \A i : Within(fed, readings, i)' <=> Within(fed', readings', i)
  BY DEF Within, ByCount
<1>4. Tracks(entries, counts, fed, readings)'
  BY <1>2 DEF Tracks, HowMany, Under
<1> QED BY <1>2, <1>3, <1>4 DEF WindowInv

LEMMA RecordKeeps ==
  ASSUME WindowInv, window' = window, NEW event \in Events, NEW reading \in Readings,
         Record(event, reading)
  PROVE  WindowInv'
<1>1. CASE event.decision = "none"
  BY <1>1, WindowSame DEF Record, WindowVars, counters, history
<1>2. CASE event.decision # "none"
  <2> DEFINE d == event.decision
             now == MonotonicNow(reading)
             rd == Append(readings, reading)
             n == Len(readings)
  <2>1. d \in Decisions
    BY <1>2 DEF Events
  <2>2. /\ high' = now /\ readings' = rd
        /\ fed' = Append(fed, [decision |-> d, reading |-> n + 1])
        /\ Evict(Append(entries, [decision |-> d, at |-> now]), Counted(counts, d), now)
    BY <1>2 DEF Record
  <2>3. now = Peak(rd, Len(rd)) /\ now \in Readings
    BY NowIsPeak
  <2>4. /\ window \in Windows /\ readings \in Seq(Readings) /\ n \in Nat
        /\ fed \in Seq(FedDecisions) /\ Len(fed) \in Nat /\ Len(entries) \in Nat
        /\ Len(entries) <= Len(fed) /\ entries \in Seq(Entries)
        /\ \A i \in 1..Len(fed) : fed[i].reading \in 1..n
        /\ Tracks(entries, counts, fed, readings)
    BY TrackedTypes DEF WindowInv, n
  <2>5. rd \in Seq(Readings) /\ Len(rd) = n + 1 /\ rd # <<>>
    <3>1. rd \in Seq(Readings) /\ Len(rd) = n + 1
      BY <2>4
    <3>2. Len(rd) # 0
      BY <2>4, <3>1
    <3>3. Len(<<>>) = 0
      OBVIOUS
    <3>4. rd # <<>>
      BY <3>2, <3>3, Zenon
    <3> QED BY <3>1, <3>4, Zenon
  <2>6. Tracks(entries, counts, fed, rd)
    BY <2>4, TracksRead
  <2>7. \A i \in 1..Len(fed) : fed[i].reading < Len(rd)
    BY <2>4, <2>5
  <2> HIDE DEF d, now, rd, n
  <2> DEFINE es == Append(entries, [decision |-> d, at |-> now])
             fe == Append(fed, [decision |-> d, reading |-> n + 1])
  <2>8. Tracks(es, Counted(counts, d), fe, rd)
    BY <2>1, <2>3, <2>5, <2>6, <2>7, TracksFed
  <2>9. Gone(fed, readings, Len(fed) - Len(entries))
    <3> SUFFICES ASSUME NEW i \in 1..(Len(fed) - Len(entries)),
                        Within(fed, readings, i)
                 PROVE  FALSE
      BY DEF Gone
    <3>1. i \in 1..Len(fed) /\ ~(i > Len(fed) - Len(entries))
      BY <2>4
    <3> QED BY <3>1 DEF WindowInv
  <2>10. /\ fe \in Seq(FedDecisions) /\ Len(fe) = Len(fed) + 1
         /\ \A i \in 1..Len(fed) : fe[i] = fed[i]
    <3>1. [decision |-> d, reading |-> n + 1] \in FedDecisions
      BY <2>1, <2>4 DEF FedDecisions
    <3> QED BY <2>4, <3>1
  <2>11. Len(es) = Len(entries) + 1
    BY <2>4
  <2> HIDE DEF es, fe
  <2>12. Gone(fe, rd, Len(fed) - Len(entries))
    <3>1. Len(fed) - Len(entries) \in 0..Len(fed) /\ Len(fed) <= Len(fe)
      BY <2>4, <2>10
    <3> QED BY <2>4, <2>9, <2>10, <3>1, GoneStays DEF rd, n
  <2>13. Len(fe) - Len(es) = Len(fed) - Len(entries)
    BY <2>4, <2>10, <2>11
  <2>14. fed' = fe /\ Evict(es, Counted(counts, d), now)
    BY <2>2 DEF es, fe
  <2> QED BY <2>2, <2>3, <2>4, <2>5, <2>8, <2>12, <2>13, <2>14, EvictsInv
<1> QED BY <1>1, <1>2

LEMMA StatsKeeps ==
  ASSUME WindowInv, NEW reading \in Readings, Stats(reading)
  PROVE  WindowInv'
<1> DEFINE rd == Append(readings, reading)
<1>1. window' = window /\ fed' = fed
  BY DEF Stats, Called
<1>2. /\ window \in Windows /\ readings \in Seq(Readings) /\ fed \in Seq(FedDecisions)
      /\ Len(fed) \in Nat /\ Len(entries) \in Nat /\ Len(entries) <= Len(fed)
      /\ entries \in Seq(Entries)
      /\ \A i \in 1..Len(fed) : fed[i].reading \in 1..Len(readings)
      /\ Tracks(entries, counts, fed, readings)
  BY TrackedTypes DEF WindowInv
<1>3. Gone(fed, readings, Len(fed) - Len(entries))
  <2> SUFFICES ASSUME NEW i \in 1..(Len(fed) - Len(entries)),
                      Within(fed, readings, i)
               PROVE  FALSE
    BY DEF Gone
  <2>1. i \in 1..Len(fed) /\ ~(i > Len(fed) - Len(entries))
    BY <1>2
  <2> QED BY <2>1 DEF WindowInv
<1>4. CASE ~ByCount \/ entries = <<>>
  <2> DEFINE now == MonotonicNow(reading)
  <2>1. Evict(entries, counts, now) /\ high' = now /\ readings' = rd
    BY <1>4 DEF Stats
  <2>2. now = Peak(rd, Len(rd)) /\ now \in Readings
    BY NowIsPeak
  <2>3. rd # <<>>
    <3>1. Len(rd) = Len(readings) + 1 /\ Len(readings) \in Nat
      BY <1>2
    <3> QED BY <3>1
  <2>4. Tracks(entries, counts, fed, rd)
    BY <1>2, TracksRead
  <2>5. Gone(fed, rd, Len(fed) - Len(entries))
    <3>1. Len(fed) - Len(entries) \in 0..Len(fed) /\ Len(fed) <= Len(fed)
      BY <1>2
    <3> QED BY <1>2, <1>3, <3>1, GoneStays
  <2> HIDE DEF now, rd
  <2> QED BY <1>1, <1>2, <2>1, <2>2, <2>3, <2>4, <2>5, EvictsInv
<1>5. CASE ~(~ByCount \/ entries = <<>>)
  <2>1. Evict(entries, counts, high) /\ high' = high /\ readings' = readings
    BY <1>5 DEF Stats
  <2>2. readings # <<>>
    <3>1. Len(fed) >= 1
      BY <1>2, <1>5
    <3>2. fed[1].reading \in 1..Len(readings)
      BY <1>2, <3>1
    <3> QED BY <3>2
  <2>3. high = Peak(readings, Len(readings)) /\ high \in Readings
    <3>1. Len(readings) \in 1..Len(readings)
      BY <1>2, <2>2
    <3> QED BY <1>2, <2>2, <3>1, PeakExists DEF WindowInv, IsPeak
  <2> QED BY <1>1, <1>2, <1>3, <2>1, <2>2, <2>3, EvictsInv
<1> QED BY <1>4, <1>5

\* Nothing is kept, nothing is counted: after Init and after resetStats().
LEMMA EmptyWindow ==
  ASSUME window \in Windows, entries = <<>>, counts = NoCounts, fed = <<>>,
         readings = <<>>, high = Never
  PROVE  WindowInv
<1>1. \A k : HowMany(fed, k, 0, 0) = 0
  BY CountOfNone
<1>2. counts = [k \in Keys |-> HowMany(fed, k, Len(fed) - Len(entries), Len(fed))]
  BY <1>1 DEF NoCounts
<1>3. Tracks(entries, counts, fed, readings)
  BY <1>2 DEF Tracks
<1> QED BY <1>3 DEF WindowInv

-----------------------------------------------------------------------------
(* The ring.                                                               *)

\* The retained events lie at successive slots from start, and are the newest.
RingInv ==
  /\ seen \in Seq(Events)
  /\ ring.start \in 0..(RingMax - 1)
  /\ ring.slots \in [0..(RingMax - 1) -> Events]
  /\ ring.count = IF Len(seen) < RingMax THEN Len(seen) ELSE RingMax
  /\ \A i \in 1..ring.count :
       ring.slots[(ring.start + i - 1) % RingMax] = seen[Len(seen) - ring.count + i]

\* The remainder of a sum of less than two turns.
LEMMA WithinTwoTurns ==
  ASSUME NEW r \in Nat \ {0}
  PROVE  /\ \A x \in Nat : x % r \in 0..(r - 1)
         /\ \A x \in Nat : x < r => x % r = x
         /\ \A x \in Nat : r <= x /\ x < r + r => x % r = x - r
OBVIOUS

\* Slots less than a turn apart are different slots.
LEMMA SlotsDiffer ==
  ASSUME NEW r \in Nat \ {0}, NEW s \in 0..(r - 1), NEW a \in 0..(r - 1),
         NEW b \in 0..(r - 1), a # b
  PROVE  (s + a) % r # (s + b) % r
<1>1. \A x \in 0..(r - 1) : (s + x) % r = IF s + x < r THEN s + x ELSE s + x - r
  <2> SUFFICES ASSUME NEW x \in 0..(r - 1)
               PROVE  (s + x) % r = IF s + x < r THEN s + x ELSE s + x - r
    OBVIOUS
  <2> DEFINE y == s + x
  <2>1. y \in Nat /\ y < r + r /\ (~(y < r) => r <= y)
    OBVIOUS
  <2> HIDE DEF y
  <2>2. y % r = IF y < r THEN y ELSE y - r
    BY <2>1, WithinTwoTurns
  <2> QED BY <2>2 DEF y
<1>2. s + a # s + b /\ (s + a < r => s + a # s + b - r)
      /\ (s + b < r => s + b # s + a - r) /\ s + a - r # s + b - r
  OBVIOUS
<1> QED BY <1>1, <1>2

\* A turn later is the same slot, and the slots count on past the end.
LEMMA SlotsTurn ==
  ASSUME NEW r \in Nat \ {0}, NEW s \in 0..(r - 1)
  PROVE  /\ (s + r) % r = s /\ s % r = s
         /\ (s + 1) % r \in 0..(r - 1)
         /\ \A i \in 1..r : (((s + 1) % r) + i - 1) % r = (s + i) % r
<1>0. s \in Nat /\ s < r /\ s + 1 \in Nat
  OBVIOUS
<1>1. s % r = s /\ (s + 1) % r \in 0..(r - 1)
  BY <1>0, WithinTwoTurns
<1>2. (s + r) % r = s
  <2> DEFINE y == s + r
  <2>1. y \in Nat /\ r <= y /\ y < r + r /\ y - r = s
    OBVIOUS
  <2> HIDE DEF y
  <2>2. y % r = s
    BY <2>1, WithinTwoTurns
  <2> QED BY <2>2 DEF y
<1>3. ASSUME NEW i \in 1..r
      PROVE  (((s + 1) % r) + i - 1) % r = (s + i) % r
  <2> DEFINE t == s + 1
  <2>0. t \in Nat /\ t <= r /\ r < r + r /\ t + i - 1 = s + i
    OBVIOUS
  <2>1. CASE t < r
    <3> HIDE DEF t
    <3>1. t % r = t
      BY <2>0, <2>1, WithinTwoTurns
    <3>2. ((t % r) + i - 1) % r = (s + i) % r
      BY <2>0, <3>1
    <3> QED BY <3>2 DEF t
  <2>2. CASE ~(t < r)
    <3> DEFINE y == s + i
               z == i - 1
    <3>1. t = r /\ y \in Nat /\ r <= y /\ y < r + r /\ y - r = z /\ z \in Nat /\ z < r
      BY <2>0, <2>2
    <3>2. \A x \in Int : x = 0 => x + i - 1 = z
      OBVIOUS
    <3> HIDE DEF t, y, z
    <3>3. t % r = 0
      <4>1. r - r = 0
        OBVIOUS
      <4> QED BY <2>0, <3>1, <4>1, WithinTwoTurns
    <3>4. y % r = z /\ z % r = z
      BY <3>1, WithinTwoTurns
    <3>5. (t % r) + i - 1 = z
      BY <3>2, <3>3
    <3>6. ((t % r) + i - 1) % r = y % r
      BY <3>4, <3>5
    <3> QED BY <3>6 DEF t, y
  <2> QED BY <2>1, <2>2
<1> QED BY <1>1, <1>2, <1>3

LEMMA KeepKeeps ==
  ASSUME RingInv, NEW event \in Events, Keep(event)
  PROVE  RingInv'
<1> DEFINE r == RingMax
           s == ring.start
           c == ring.count
           N == Len(seen)
           p == (s + c) % r
<1>1. /\ seen \in Seq(Events) /\ N \in Nat /\ r \in Nat \ {0} /\ s \in 0..(r - 1)
      /\ ring.slots \in [0..(r - 1) -> Events]
      /\ c = IF N < r THEN N ELSE r
  BY DecisionWindowAssumption DEF RingInv, DecisionWindowAssumption
<1>2. \A i \in 1..c : ring.slots[(s + i - 1) % r] = seen[N - c + i]
  BY DEF RingInv
<1>3. /\ seen' \in Seq(Events) /\ Len(seen') = N + 1 /\ seen'[N + 1] = event
      /\ \A i \in 1..N : seen'[i] = seen[i]
  <2>1. seen' = Append(seen, event)
    BY DEF Keep
  <2> QED BY <1>1, <2>1
<1>4. /\ ring'.slots = [ring.slots EXCEPT ![p] = event]
      /\ ring'.count = IF c < r THEN c + 1 ELSE c
      /\ ring'.start = IF c < r THEN s ELSE (s + 1) % r
  BY DEF Keep, Pushed
<1> HIDE DEF r, s, c, N, p
<1>5. c \in 0..r /\ c <= N /\ r \in Nat /\ c \in Nat /\ s \in Nat /\ s < r /\ r >= 1
  BY <1>1
<1>6. p \in 0..(r - 1)
  <2>1. s + c \in Nat
    BY <1>5
  <2> QED BY <1>1, <2>1, WithinTwoTurns DEF p
<1>7. ring'.slots \in [0..(r - 1) -> Events]
  BY <1>1, <1>4, <1>6
<1>8. ring'.slots[p] = event /\ \A x \in 0..(r - 1) : x # p => ring'.slots[x] = ring.slots[x]
  BY <1>1, <1>4, <1>6
<1>9. CASE c < r
  <2>1. c = N /\ ring'.count = N + 1 /\ ring'.start = s
    BY <1>1, <1>4, <1>5, <1>9
  <2>2. ASSUME NEW i \in 1..(N + 1)
        PROVE  ring'.slots[(s + i - 1) % r] = seen'[i]
    <3>0. s + i - 1 = s + (i - 1) /\ i \in Nat
      BY <1>1, <1>5
    <3>1. CASE i = N + 1
      <4>1. s + i - 1 = s + c
        BY <1>1, <1>5, <2>1, <3>1
      <4>2. (s + i - 1) % r = p
        BY <4>1 DEF p
      <4> QED BY <1>3, <1>8, <3>1, <4>2
    <3>2. CASE i # N + 1
      <4>1. i \in 1..N /\ i \in 1..c /\ i - 1 \in 0..(r - 1) /\ c \in 0..(r - 1)
            /\ i - 1 # c /\ N - c + i = i
        BY <1>1, <1>5, <1>9, <2>1, <3>2
      <4>2. (s + (i - 1)) % r # p
        BY <1>1, <4>1, SlotsDiffer DEF p
      <4>3. (s + (i - 1)) % r \in 0..(r - 1)
        <5>1. s + (i - 1) \in Nat
          BY <1>5, <4>1
        <5> QED BY <1>1, <5>1, WithinTwoTurns
      <4>4. ring.slots[(s + i - 1) % r] = seen[i]
        BY <1>2, <4>1
      <4> QED BY <1>3, <1>8, <3>0, <4>1, <4>2, <4>3, <4>4
    <3> QED BY <3>1, <3>2
  <2>3. ring'.count = IF N + 1 < r THEN N + 1 ELSE r
    BY <1>1, <1>5, <1>9, <2>1
  <2>4. \A i \in 1..ring'.count :
          ring'.slots[(ring'.start + i - 1) % r] = seen'[Len(seen') - ring'.count + i]
    <3>1. \A i \in 1..(N + 1) : N + 1 - (N + 1) + i = i
      BY <1>1
    <3> QED BY <1>3, <2>1, <2>2, <3>1
  <2> QED BY <1>1, <1>3, <1>7, <2>1, <2>3, <2>4 DEF RingInv, r
<1>10. CASE ~(c < r)
  <2>1. c = r /\ r <= N /\ ring'.count = r /\ ring'.start = (s + 1) % r
    BY <1>1, <1>4, <1>5, <1>10
  <2>2. /\ p = s /\ (s + 0) % r = s /\ (s + 1) % r \in 0..(r - 1)
        /\ \A i \in 1..r : (((s + 1) % r) + i - 1) % r = (s + i) % r
    <3>1. s + 0 = s
      BY <1>5
    <3>2. /\ (s + r) % r = s /\ s % r = s /\ (s + 1) % r \in 0..(r - 1)
          /\ \A i \in 1..r : (((s + 1) % r) + i - 1) % r = (s + i) % r
      BY <1>1, SlotsTurn
    <3>3. p = s
      BY <2>1, <3>2 DEF p
    <3> QED BY <3>1, <3>2, <3>3
  <2>3. ASSUME NEW i \in 1..r
        PROVE  ring'.slots[(s + i) % r] = seen'[N + 1 - r + i]
    <3>1. CASE i = r
      <4>1. (s + i) % r = p /\ N + 1 - r + i = N + 1
        BY <1>1, <1>5, <2>1, <3>1 DEF p
      <4> QED BY <1>3, <1>8, <4>1
    <3>2. CASE i # r
      <4>1. /\ i \in 0..(r - 1) /\ i # 0 /\ 0 \in 0..(r - 1) /\ i + 1 \in 1..c
            /\ s + (i + 1) - 1 = s + i /\ N + 1 - r + i \in 1..N
            /\ N - c + (i + 1) = N + 1 - r + i
        BY <1>1, <1>5, <2>1, <3>2
      <4>2. (s + i) % r # p
        <5>1. (s + i) % r # (s + 0) % r
          BY <1>1, <4>1, SlotsDiffer
        <5> QED BY <2>2, <5>1
      <4>3. (s + i) % r \in 0..(r - 1)
        <5>1. s + i \in Nat
          BY <1>5, <4>1
        <5> QED BY <1>1, <5>1, WithinTwoTurns
      <4>4. ring.slots[(s + i) % r] = seen[N + 1 - r + i]
        BY <1>2, <4>1
      <4> QED BY <1>3, <1>8, <4>1, <4>2, <4>3, <4>4
    <3> QED BY <3>1, <3>2
  <2>4. ring'.count = IF N + 1 < r THEN N + 1 ELSE r
    BY <1>1, <1>5, <2>1
  <2>5. \A i \in 1..ring'.count :
          ring'.slots[(ring'.start + i - 1) % r] = seen'[Len(seen') - ring'.count + i]
    <3> SUFFICES ASSUME NEW i \in 1..r
                 PROVE  ring'.slots[(ring'.start + i - 1) % r]
                          = seen'[Len(seen') - ring'.count + i]
      BY <2>1
    <3>1. (ring'.start + i - 1) % r = (s + i) % r
      BY <2>1, <2>2
    <3>2. Len(seen') = N + 1 /\ ring'.count = r
      BY <1>3, <2>1
    <3>3. ring'.slots[(s + i) % r] = seen'[N + 1 - r + i]
      BY <2>3
    <3>4. Len(seen') - ring'.count + i = N + 1 - r + i
      <4>1. (N + 1) - r + i = N + 1 - r + i
        BY <1>5, <1>1
      <4> QED BY <3>2, <4>1, Zenon
    <3> QED BY <3>1, <3>3, <3>4, Zenon
  <2>6. ring'.start \in 0..(r - 1)
    BY <2>1, <2>2
  <2> QED BY <1>3, <1>7, <2>4, <2>5, <2>6 DEF RingInv, r
<1> QED BY <1>9, <1>10

\* recent() is the newest events.
LEMMA RecentIsLatest ==
  ASSUME RingInv
  PROVE  Recent(ring) = Latest(seen, RingMax)
<1> DEFINE c == ring.count
           N == Len(seen)
           n == N - c
<1>1. /\ seen \in Seq(Events) /\ N \in Nat /\ RingMax \in Nat \ {0}
      /\ c = IF N < RingMax THEN N ELSE RingMax
  BY DecisionWindowAssumption DEF RingInv, DecisionWindowAssumption
<1>2. n \in 0..N /\ n + 1 = (IF N > RingMax THEN N - RingMax + 1 ELSE 1) /\ N - n = c
  <2> HIDE DEF c, N
  <2>1. c \in Nat /\ c <= N /\ (N < RingMax => c = N) /\ (~(N < RingMax) => c = RingMax)
    BY <1>1
  <2>2. N - c \in 0..N /\ N - (N - c) = c
    BY <1>1, <2>1
  <2>3. CASE N < RingMax
    <3>1. N - c = 0 /\ ~(N > RingMax)
      BY <1>1, <2>1, <2>3
    <3> QED BY <2>2, <3>1
  <2>4. CASE ~(N < RingMax)
    <3>1. (N - c) + 1 = (IF N > RingMax THEN N - RingMax + 1 ELSE 1)
      BY <1>1, <2>1, <2>4
    <3> QED BY <2>2, <3>1
  <2> QED BY <2>3, <2>4
<1> DEFINE t == SubSeq(seen, n + 1, N)
<1>3. Latest(seen, RingMax) = t
  BY <1>2 DEF Latest
<1>4. t \in Seq(Events) /\ Len(t) = c /\ \A i \in 1..c : t[i] = seen[n + i]
  <2> HIDE DEF n
  <2>1. /\ SubSeq(seen, n + 1, Len(seen)) \in Seq(Events)
        /\ Len(SubSeq(seen, n + 1, Len(seen))) = Len(seen) - n
        /\ \A i \in 1..(Len(seen) - n) :
             SubSeq(seen, n + 1, Len(seen))[i] = seen[n + i]
    BY <1>1, <1>2, Halves
  <2> QED BY <1>2, <2>1
<1>5. \A i \in 1..c : ring.slots[(ring.start + i - 1) % RingMax] = seen[n + i]
  BY DEF RingInv
<1> HIDE DEF t, n, N, c
<1>6. t = [i \in 1..c |-> t[i]]
  BY <1>4
<1>7. Recent(ring) = [i \in 1..c |-> ring.slots[(ring.start + i - 1) % RingMax]]
  BY DEF Recent, c
<1> QED BY <1>3, <1>4, <1>5, <1>6, <1>7

-----------------------------------------------------------------------------
(* The theorem.                                                            *)

IInv == WindowInv /\ RingInv

LEMMA InitIInv == Init => IInv
<1> SUFFICES ASSUME Init PROVE IInv
  OBVIOUS
<1>1. WindowInv
  BY EmptyWindow DEF Init
<1>2. RingInv
  <2>1. RingMax \in Nat \ {0}
    BY DecisionWindowAssumption DEF DecisionWindowAssumption
  <2>2. [stream |-> "committed", decision |-> "none"] \in Events
    BY DEF Events, Streams
  <2> QED BY <2>1, <2>2 DEF Init, RingInv, EmptyRing
<1> QED BY <1>1, <1>2 DEF IInv

LEMMA StepIInv == IInv /\ [Next]_vars => IInv'
<1> SUFFICES ASSUME IInv, [Next]_vars PROVE IInv'
  OBVIOUS
<1>1. WindowInv /\ RingInv
  BY DEF IInv
<1>2. Inputs \subseteq Events
  BY DecisionWindowAssumption DEF DecisionWindowAssumption, Events, Decisions
<1>3. ASSUME UNCHANGED <<ring, seen>> PROVE RingInv'
  BY <1>1, <1>3 DEF RingInv
<1>4. CASE \E event \in Inputs : Poll(event)
  <2>1. PICK event \in Inputs : Poll(event)
    BY <1>4
  <2>2. Keep(event) /\ UNCHANGED WindowVars
    BY <2>1 DEF Poll, Called, counters, history, WindowVars
  <2> QED BY <1>1, <1>2, <2>2, KeepKeeps, WindowSame DEF IInv
<1>5. CASE \E event \in Inputs, reading \in 0..MaxTime :
             Watch(event, reading) \/ Observe(event, reading)
  <2>1. PICK event \in Inputs, reading \in 0..MaxTime :
          Watch(event, reading) \/ Observe(event, reading)
    BY <1>5
  <2>2. Record(event, reading) /\ window' = window
    BY <2>1 DEF Watch, Observe, Called
  <2>3. WindowInv'
    BY <1>1, <1>2, <2>2, RecordKeeps DEF Readings
  <2>4. Keep(event) \/ UNCHANGED <<ring, seen>>
    BY <2>1 DEF Watch, Observe
  <2> QED BY <1>1, <1>2, <1>3, <2>3, <2>4, KeepKeeps DEF IInv
<1>6. CASE \E reading \in 0..MaxTime : Stats(reading)
  <2>1. PICK reading \in 0..MaxTime : Stats(reading)
    BY <1>6
  <2>2. WindowInv'
    BY <1>1, <2>1, StatsKeeps DEF Readings
  <2>3. UNCHANGED <<ring, seen>>
    BY <2>1 DEF Stats
  <2> QED BY <1>3, <2>2, <2>3 DEF IInv
<1>7. CASE ResetStats
  <2>1. /\ window' \in Windows /\ entries' = <<>> /\ counts' = NoCounts /\ fed' = <<>>
        /\ readings' = <<>> /\ high' = Never /\ UNCHANGED <<ring, seen>>
    BY <1>1, <1>7 DEF ResetStats, Called, WindowInv
  <2>2. counts' = [k \in Keys |-> HowMany(fed', k, Len(fed') - Len(entries'), Len(fed'))]
    <3>1. \A k : HowMany(fed', k, 0, 0) = 0
      BY CountOfNone
    <3> QED BY <2>1, <3>1 DEF NoCounts
  <2>3. Tracks(entries, counts, fed, readings)'
    BY <2>1, <2>2 DEF Tracks, HowMany, Under
  <2>4. WindowInv'
    BY <2>1, <2>3 DEF WindowInv
  <2> QED BY <1>3, <2>1, <2>4 DEF IInv
<1>8. CASE UNCHANGED vars
  BY <1>1, <1>3, <1>8, WindowSame DEF vars, counters, history, WindowVars, IInv
<1> QED BY <1>4, <1>5, <1>6, <1>7, <1>8 DEF Next

\* What the counters say is what the window is documented to hold.
LEMMA CountsAreExact ==
  ASSUME WindowInv, NEW k \in Keys
  PROVE  counts[k] = Cardinality({i \in DOMAIN fed :
                       Within(fed, readings, i) /\ CountsUnder(fed[i].decision, k)})
<1> DEFINE m == Len(fed) - Len(entries)
<1>1. /\ Len(fed) \in Nat /\ Len(entries) \in Nat /\ Len(entries) <= Len(fed)
      /\ DOMAIN fed = 1..Len(fed)
  <2>1. fed \in Seq(FedDecisions)
    BY TrackedTypes DEF WindowInv
  <2> QED BY <2>1, TrackedTypes DEF WindowInv
<1>2. \A i \in 1..Len(fed) : Within(fed, readings, i) <=> i > m
  BY DEF WindowInv
<1>3. counts[k] = HowMany(fed, k, m, Len(fed))
  BY DEF WindowInv, Tracks
<1>4. \A i : i \in (m + 1)..Len(fed) <=> i \in 1..Len(fed) /\ i > m
  BY <1>1
<1> HIDE DEF m
<1>5. Under(fed, k, m, Len(fed))
        = {i \in DOMAIN fed :
             Within(fed, readings, i) /\ CountsUnder(fed[i].decision, k)}
  BY <1>1, <1>2, <1>4 DEF Under
<1> QED BY <1>3, <1>5 DEF HowMany

\* recent() and stats() answer what they are documented to, whatever the clock
\* does and however the calls interleave.
THEOREM TheWindowsAreExact == Spec => []WindowsAreExact
<1>1. IInv => WindowsAreExact
  <2> SUFFICES ASSUME WindowInv, RingInv PROVE WindowsAreExact
    BY DEF IInv
  <2>1. DOMAIN fed = 1..Len(fed) /\ DOMAIN entries = 1..Len(entries)
    <3>1. fed \in Seq(FedDecisions) /\ entries \in Seq(Entries)
      BY TrackedTypes DEF WindowInv
    <3> QED BY <3>1
  <2>2. \A i \in DOMAIN fed : Within(fed, readings, i) <=> i > Len(fed) - Len(entries)
    BY <2>1 DEF WindowInv
  <2>3. \A i \in DOMAIN entries :
          /\ entries[i].decision = fed[Len(fed) - Len(entries) + i].decision
          /\ entries[i].at = Peak(readings, fed[Len(fed) - Len(entries) + i].reading)
    BY <2>1 DEF WindowInv, Tracks
  <2> QED BY <2>2, <2>3, RecentIsLatest, CountsAreExact DEF WindowsAreExact
<1> QED BY <1>1, InitIInv, StepIInv, PTL DEF Spec

=============================================================================
