-------------------------- MODULE PreflightProofs --------------------------
(***************************************************************************)
(* Theorems about Preflight, for any number of checks, calls, permits,      *)
(* cache entries and ledgers: type correctness, that permits are conserved, *)
(* that one run at a time answers for a call, that a verdict is what the    *)
(* guard ruled and no older than the check's lookup, and that an abandoned  *)
(* run sends nothing.                                                      *)
(*                                                                         *)
(* The argument has three strands.  The semaphore (QueueInv): its queue is  *)
(* the queued runs, each once, and a permit idles only when it is empty.    *)
(* The runs (RunInv): a run is live only between its start and the end of   *)
(* its task, a queued one is live, and the map of shared runs names the one *)
(* live run of each key.  The verdicts (VerdictInv): the chain only grows,  *)
(* so a ruling of a closed ledger stays one; cached entries and runs in     *)
(* progress are no older than the lookup they belong to.                    *)
(***************************************************************************)
EXTENDS Preflight, FiniteSetTheorems, SequenceTheorems, WellFoundedInduction, TLAPS

Queued == {c \in Checks : stage[c] = "queued"}
Working == {"simulating", "backoff", "again"}

QueueInv ==
  /\ IsFiniteSet(Holders)
  /\ \A i, j \in DOMAIN waiters : waiters[i] = waiters[j] => i = j
  /\ PermitsConserved

\* A check that has not looked up its call yet has done nothing.
Unstarted(c) ==
  /\ stage[c] = "none" /\ ~live[c] /\ joined[c] = None /\ answer[c] = Unanswered

RunInv ==
  /\ \A c \in Checks : at[c] \in {"idle", "lookup"} => Unstarted(c)
  /\ \A c \in Checks : live[c] => stage[c] \in Working \cup {"queued"}
  /\ \A c \in Checks : stage[c] = "queued" => live[c]
  /\ \A k \in Keys : inFlight[k] # None =>
       live[inFlight[k]] /\ KeyOf(inFlight[k]) = k
  /\ \A c \in Checks \ Observers : live[c] => inFlight[KeyOf(c)] = c

\* A ruling of a ledger that has closed.
Ruling(k, kind, basis) == basis \in 1 .. Latest /\ kind = Verdict(k, basis)

Sound(e) == Ruling(e.call, e.kind, e.basis) /\ e.ledger <= e.basis

VerdictInv ==
  /\ Latest >= 1
  /\ \A i \in DOMAIN cache : Sound(cache[i])
  /\ \A c \in Checks : seen[c] <= Latest
  /\ \A c \in Checks : stage[c] \in Working =>
       from[c] \in 1 .. Latest /\ seen[c] <= from[c]
  /\ \A c \in Checks : at[c] = "waiting" =>
       joined[c] \in Checks /\ call[joined[c]] = call[c]
  /\ \A c \in Checks : answer[c].kind \in {"admissible", "blocked"} =>
       /\ Ruling(call[c], answer[c].kind, answer[c].basis)
       /\ answer[c].hit \/ joined[c] = c => answer[c].basis >= seen[c]

IInv == TypeOK /\ QueueInv /\ RunInv /\ VerdictInv

-----------------------------------------------------------------------------
(* Sequences without some of their members.                                *)

\* A set of numbers has a least one: what an induction on numbers rests on.
LEMMA LeastNatural ==
  ASSUME NEW T \in SUBSET Nat, T # {}
  PROVE  \E x \in T : \A y \in T : x <= y
<1> DEFINE R == OpToRel(<, Nat)
<1>1. IsWellFoundedOn(R, Nat)
  BY NatLessThanWellFounded
<1>2. PICK x \in T : \A y \in T : ~ (<<y, x>> \in R)
  <2> HIDE DEF R
  <2> QED BY <1>1, WFMin
<1>3. \A y \in T : ~ (y < x)
  BY <1>2 DEF OpToRel
<1> QED BY <1>3

\* Numbers up to m can be counted off in order.
Counted(I) == \E f \in [1 .. Cardinality(I) -> I] :
                \A i, j \in DOMAIN f : i < j => f[i] < f[j]

LEMMA Interval ==
  ASSUME NEW m \in Nat
  PROVE  IsFiniteSet(1 .. m) /\ Cardinality(1 .. m) = m
BY FS_Interval

LEMMA PlacesFinite ==
  ASSUME NEW m \in Nat, NEW I \in SUBSET (1 .. m)
  PROVE  IsFiniteSet(I) /\ Cardinality(I) \in Nat /\ Cardinality(I) <= m
<1>1. IsFiniteSet(1 .. m) /\ Cardinality(1 .. m) = m
  BY Interval
<1>2. IsFiniteSet(I) /\ Cardinality(I) <= m
  BY <1>1, FS_Subset
<1> QED BY <1>2, FS_CardinalityType

\* The largest of them is counted last.
LEMMA CountedOneMore ==
  ASSUME NEW m \in Nat \ {0}, NEW I \in SUBSET (1 .. m), m \in I, Counted(I \ {m})
  PROVE  Counted(I)
<1> DEFINE J == I \ {m}
           c == Cardinality(J)
<1>1. J \in SUBSET (1 .. m) /\ J \in SUBSET (1 .. m - 1)
  OBVIOUS
<1>2. c \in Nat /\ Cardinality(I) = c + 1
  <2>1. IsFiniteSet(I) /\ IsFiniteSet(J) /\ c \in Nat /\ Cardinality(I) \in Nat
    BY <1>1, PlacesFinite
  <2>2. c = Cardinality(I) - 1
    BY <2>1, FS_RemoveElement
  <2> QED BY <2>1, <2>2
<1>3. PICK g \in [1 .. c -> J] : \A i, j \in DOMAIN g : i < j => g[i] < g[j]
  BY DEF Counted
<1> DEFINE f == [i \in 1 .. c + 1 |-> IF i = c + 1 THEN m ELSE g[i]]
<1> HIDE DEF J, c
<1>4. f \in [1 .. c + 1 -> I]
  <2> SUFFICES ASSUME NEW i \in 1 .. c + 1 PROVE f[i] \in I
    OBVIOUS
  <2>1. CASE i = c + 1
    BY <2>1
  <2>2. CASE i # c + 1
    BY <1>2, <1>3, <2>2 DEF J
  <2> QED BY <2>1, <2>2
<1>5. ASSUME NEW i \in 1 .. c + 1, NEW j \in 1 .. c + 1, i < j
      PROVE  f[i] < f[j]
  <2>0. i \in 1 .. c /\ i # c + 1
    BY <1>2, <1>5
  <2>1. f[i] = g[i] /\ g[i] \in 1 .. m - 1
    BY <1>1, <1>3, <2>0
  <2>2. CASE j = c + 1
    BY <2>1, <2>2
  <2>3. CASE j # c + 1
    <3>1. j \in 1 .. c /\ f[j] = g[j]
      BY <1>2, <2>3
    <3> QED BY <1>3, <1>5, <2>0, <2>1, <3>1
  <2> QED BY <2>2, <2>3
<1>6. \A i, j \in DOMAIN f : i < j => f[i] < f[j]
  BY <1>5
<1> HIDE DEF f
<1> QED BY <1>2, <1>4, <1>6 DEF Counted

LEMMA PlacesCounted ==
  ASSUME NEW m \in Nat, NEW I \in SUBSET (1 .. m)
  PROVE  Counted(I)
<1> DEFINE Fails == {n \in Nat : \E J \in SUBSET (1 .. n) : ~ Counted(J)}
<1>1. SUFFICES Fails = {}
  BY <1>1
<1>2. SUFFICES ASSUME Fails # {} PROVE FALSE
  BY <1>2
<1>3. PICK n \in Fails : \A k \in Fails : n <= k
  <2> HIDE DEF Fails
  <2>1. Fails \in SUBSET Nat
    BY DEF Fails
  <2> QED BY <1>2, <2>1, LeastNatural
<1>4. PICK J \in SUBSET (1 .. n) : ~ Counted(J)
  BY <1>3
<1>5. CASE n = 0
  <2>1. J = {}
    BY <1>4, <1>5
  <2>3. Cardinality(J) = 0
    BY <2>1, FS_EmptySet
  <2>2. <<>> \in [1 .. 0 -> {}] /\ DOMAIN <<>> = {}
    OBVIOUS
  <2> QED BY <1>4, <2>1, <2>2, <2>3 DEF Counted
<1>6. CASE n # 0
  <2>0. n \in Nat /\ \A k \in Fails : n <= k
    BY <1>3
  <2>1. n - 1 \in Nat /\ n - 1 \notin Fails /\ n \in Nat \ {0}
    <3> HIDE DEF Fails
    <3>1. n - 1 \in Nat /\ n \in Nat \ {0} /\ ~ (n <= n - 1)
      BY <1>6, <2>0
    <3> QED BY <2>0, <3>1
  <2>2. J \ {n} \in SUBSET (1 .. n - 1)
    BY <2>1
  <2>3. Counted(J \ {n})
    BY <2>1, <2>2
  <2>4. CASE n \in J
    BY <1>4, <2>1, <2>3, <2>4, CountedOneMore
  <2>5. CASE n \notin J
    <3>1. J \ {n} = J
      BY <2>5
    <3> QED BY <1>4, <2>3, <3>1
  <2> QED BY <2>4, <2>5
<1> QED BY <1>5, <1>6

\* What Left() keeps, and in which order.
LEMMA LeftInOrder ==
  ASSUME NEW S, NEW s \in Seq(S), NEW I \in SUBSET (DOMAIN s)
  PROVE  /\ Left(s, I) \in Seq(S)
         /\ Len(Left(s, I)) = Cardinality(I)
         /\ Cardinality(I) \in Nat /\ Cardinality(I) <= Len(s)
         /\ \E f \in [1 .. Cardinality(I) -> I] :
              /\ \A i, j \in DOMAIN f : i < j => f[i] < f[j]
              /\ \A i \in 1 .. Cardinality(I) : Left(s, I)[i] = s[f[i]]
<1> DEFINE n == Cardinality(I)
           place == CHOOSE f \in [1 .. n -> I] :
                      \A i, j \in DOMAIN f : i < j => f[i] < f[j]
<1>1. DOMAIN s = 1 .. Len(s) /\ Len(s) \in Nat /\ \A i \in DOMAIN s : s[i] \in S
  OBVIOUS
<1>2. n \in Nat /\ n <= Len(s)
  BY <1>1, PlacesFinite
<1>3. Counted(I)
  BY <1>1, PlacesCounted
<1>4. place \in [1 .. n -> I] /\ \A i, j \in DOMAIN place : i < j => place[i] < place[j]
  BY <1>3 DEF Counted
<1>5. Left(s, I) = [i \in 1 .. n |-> s[place[i]]]
  BY DEF Left
<1> HIDE DEF place, n
<1>6. \A i \in 1 .. n : s[place[i]] \in S
  BY <1>1, <1>4
<1>7. Left(s, I) \in Seq(S) /\ Len(Left(s, I)) = n
  BY <1>2, <1>5, <1>6
<1>8. \A i \in 1 .. n : Left(s, I)[i] = s[place[i]]
  BY <1>5
<1> QED BY <1>2, <1>4, <1>7, <1>8 DEF n

-----------------------------------------------------------------------------
(* The cache.                                                              *)

\* A cache of at most n entries, one of a call, each a ruling.
CacheOK(s, n) ==
  /\ s \in Seq(Entries) /\ Len(s) <= n
  /\ \A i, j \in DOMAIN s : s[i].call = s[j].call => i = j
  /\ \A i \in DOMAIN s : s[i].kind # "undetermined" /\ Sound(s[i])

LEMMA BoundsTyped ==
  /\ Limit \in Nat \ {0} /\ MaxEntries \in Nat \ {0} /\ MaxLag \in Nat
  /\ None \notin Checks
BY PreflightAssumption DEF PreflightAssumption

\* Deletions leave a cache a cache.
LEMMA LeftOK ==
  ASSUME NEW s, NEW n \in Nat, CacheOK(s, n), NEW I \in SUBSET (DOMAIN s)
  PROVE  /\ CacheOK(Left(s, I), n)
         /\ Len(Left(s, I)) = Cardinality(I)
         /\ \A i \in DOMAIN Left(s, I) : \E j \in I : Left(s, I)[i] = s[j]
<1> DEFINE t == Left(s, I)
           c == Cardinality(I)
<1>1. s \in Seq(Entries) /\ Len(s) \in Nat /\ DOMAIN s = 1 .. Len(s)
  BY DEF CacheOK
<1>2. /\ t \in Seq(Entries) /\ Len(t) = c /\ c \in Nat /\ c <= Len(s)
      /\ \E f \in [1 .. c -> I] : /\ \A i, j \in DOMAIN f : i < j => f[i] < f[j]
                                  /\ \A i \in 1 .. c : t[i] = s[f[i]]
  BY <1>1, LeftInOrder
<1>3. PICK f \in [1 .. c -> I] : /\ \A i, j \in DOMAIN f : i < j => f[i] < f[j]
                                 /\ \A i \in 1 .. c : t[i] = s[f[i]]
  BY <1>2
<1> HIDE DEF t, c
<1>4. DOMAIN t = 1 .. c
  BY <1>2
<1>5. Len(t) <= n
  BY <1>1, <1>2 DEF CacheOK
<1>6. \A i \in 1 .. c : f[i] \in I /\ f[i] \in DOMAIN s /\ t[i] = s[f[i]]
  BY <1>3
<1>7. ASSUME NEW i \in 1 .. c, NEW j \in 1 .. c, t[i].call = t[j].call
      PROVE  i = j
  <2>1. f[i] = f[j]
    BY <1>6, <1>7 DEF CacheOK
  <2>2. f[i] \in Nat /\ f[j] \in Nat
    BY <1>1, <1>6
  <2>3. ~ (i < j) /\ ~ (j < i)
    BY <1>3, <2>1, <2>2
  <2> QED BY <1>2, <2>3
<1>8. \A i \in 1 .. c : t[i].kind # "undetermined" /\ Sound(t[i])
  BY <1>6 DEF CacheOK
<1>9. CacheOK(t, n)
  BY <1>2, <1>4, <1>5, <1>7, <1>8 DEF CacheOK
<1> QED BY <1>2, <1>4, <1>6, <1>9 DEF t, c

\* What the purge leaves is of the ledger that was asked for.
LEMMA FreshOK ==
  ASSUME NEW s, CacheOK(s, MaxEntries), NEW l
  PROVE  /\ CacheOK(Fresh(s, l), MaxEntries)
         /\ \A i \in DOMAIN Fresh(s, l) : Fresh(s, l)[i].ledger = l
<1> DEFINE I == {i \in DOMAIN s : s[i].ledger = l /\ ~s[i].expired}
<1>1. I \in SUBSET (DOMAIN s) /\ \A j \in I : s[j].ledger = l
  OBVIOUS
<1>2. Fresh(s, l) = Left(s, I)
  BY DEF Fresh
<1> HIDE DEF I
<1>3. /\ CacheOK(Left(s, I), MaxEntries)
      /\ \A i \in DOMAIN Left(s, I) : \E j \in I : Left(s, I)[i] = s[j]
  BY <1>1, BoundsTyped, LeftOK
<1> QED BY <1>1, <1>2, <1>3

\* A deleted key is gone, and so is its place.
LEMMA WithoutOK ==
  ASSUME NEW s, NEW n \in Nat, CacheOK(s, n), NEW k
  PROVE  /\ CacheOK(Without(s, k), n)
         /\ \A i \in DOMAIN Without(s, k) : Without(s, k)[i].call # k
         /\ (\E i \in DOMAIN s : s[i].call = k) => Len(Without(s, k)) < Len(s)
<1> DEFINE I == {i \in DOMAIN s : s[i].call # k}
<1>1. I \in SUBSET (DOMAIN s) /\ \A j \in I : s[j].call # k
  OBVIOUS
<1>2. Without(s, k) = Left(s, I)
  BY DEF Without
<1>3. ASSUME \E i \in DOMAIN s : s[i].call = k
      PROVE  Cardinality(I) < Len(s)
  <2>1. Len(s) \in Nat /\ DOMAIN s = 1 .. Len(s)
    BY DEF CacheOK
  <2>2. IsFiniteSet(1 .. Len(s)) /\ Cardinality(1 .. Len(s)) = Len(s)
    BY <2>1, Interval
  <2>3. I # 1 .. Len(s)
    BY <1>3, <2>1
  <2>4. Cardinality(I) # Cardinality(1 .. Len(s)) /\ Cardinality(I) <= Len(s)
    <3> HIDE DEF I
    <3> QED BY <1>1, <2>1, <2>2, <2>3, FS_Subset
  <2>5. Cardinality(I) \in Nat
    BY <1>1, <2>1, PlacesFinite
  <2> QED BY <2>1, <2>2, <2>4, <2>5
<1> HIDE DEF I
<1>4. /\ CacheOK(Left(s, I), n) /\ Len(Left(s, I)) = Cardinality(I)
      /\ \A i \in DOMAIN Left(s, I) : \E j \in I : Left(s, I)[i] = s[j]
  BY <1>1, LeftOK
<1> QED BY <1>1, <1>2, <1>3, <1>4

\* A new entry of a call that has none, where there is room for it.
LEMMA AppendOK ==
  ASSUME NEW s, NEW n \in Nat, CacheOK(s, n), Len(s) < n, NEW e \in Entries,
         e.kind # "undetermined", Sound(e),
         \A i \in DOMAIN s : s[i].call # e.call
  PROVE  CacheOK(Append(s, e), n)
<1> DEFINE t == Append(s, e)
<1>1. s \in Seq(Entries) /\ Len(s) \in Nat /\ DOMAIN s = 1 .. Len(s)
  BY DEF CacheOK
<1>2. t \in Seq(Entries) /\ Len(t) = Len(s) + 1 /\ DOMAIN t = 1 .. Len(s) + 1
  BY <1>1
<1>3. t[Len(s) + 1] = e /\ \A i \in 1 .. Len(s) : t[i] = s[i]
  BY <1>1
<1>4. \A i \in 1 .. Len(s) + 1 : i \in 1 .. Len(s) \/ i = Len(s) + 1
  BY <1>1
<1> HIDE DEF t
<1>5. \A i, j \in DOMAIN t : t[i].call = t[j].call => i = j
  BY <1>1, <1>2, <1>3, <1>4 DEF CacheOK
<1>6. \A i \in DOMAIN t : t[i].kind # "undetermined" /\ Sound(t[i])
  BY <1>1, <1>2, <1>3, <1>4 DEF CacheOK
<1>7. Len(t) <= n
  BY <1>1, <1>2
<1>8. CacheOK(t, n)
  BY <1>2, <1>5, <1>6, <1>7 DEF CacheOK
<1> QED BY <1>8 DEF t

\* A hit goes to the end.
LEMMA TouchOK ==
  ASSUME NEW s, CacheOK(s, MaxEntries), NEW k, NEW e \in Hits(s, k)
  PROVE  CacheOK(Touch(s, e), MaxEntries)
<1>1. PICK i \in DOMAIN s : e = s[i]
  BY DEF Hits, ToSet
<1>2. s \in Seq(Entries) /\ Len(s) \in Nat /\ Len(s) <= MaxEntries /\ MaxEntries \in Nat
  BY BoundsTyped DEF CacheOK
<1>3. e \in Entries /\ e.kind # "undetermined" /\ Sound(e)
  BY <1>1, <1>2 DEF CacheOK
<1> DEFINE t == Without(s, e.call)
<1>4. /\ CacheOK(t, MaxEntries) /\ Len(t) < Len(s)
      /\ \A j \in DOMAIN t : t[j].call # e.call
  BY <1>1, <1>2, WithoutOK
<1> HIDE DEF t
<1>5. Len(t) < MaxEntries
  <2>1. Len(t) \in Nat
    BY <1>4 DEF CacheOK
  <2> QED BY <1>2, <1>4, <2>1
<1>6. CacheOK(Append(t, e), MaxEntries)
  BY <1>2, <1>3, <1>4, <1>5, AppendOK
<1> QED BY <1>6 DEF Touch, t

\* The oldest entries go until there is room.
LEMMA SuffixOK ==
  ASSUME NEW s, NEW n \in Nat, CacheOK(s, n), NEW k, \A i \in DOMAIN s : s[i].call # k,
         NEW d \in 1 .. Len(s)
  PROVE  LET t == SubSeq(s, d + 1, Len(s)) IN
           /\ CacheOK(t, n) /\ Len(t) = Len(s) - d
           /\ \A i \in DOMAIN t : t[i].call # k
<1> DEFINE t == SubSeq(s, d + 1, Len(s))
<1>1. s \in Seq(Entries) /\ Len(s) \in Nat /\ DOMAIN s = 1 .. Len(s) /\ Len(s) <= n
  BY DEF CacheOK
<1>2. t \in Seq(Entries) /\ Len(t) = Len(s) - d /\ DOMAIN t = 1 .. Len(s) - d
  <2>1. \A i \in d + 1 .. Len(s) : s[i] \in Entries
    BY <1>1
  <2>2. d + 1 \in Int /\ Len(s) \in Int /\ d \in Int /\ d <= Len(s)
    <3> HIDE DEF t
    <3> QED BY <1>1
  <2>3. t \in Seq(Entries)
    BY <2>1, <2>2, SubSeqProperties
  <2>4. Len(t) = IF d + 1 <= Len(s) THEN Len(s) - (d + 1) + 1 ELSE 0
    BY <2>1, <2>2, SubSeqProperties
  <2>5. Len(t) = Len(s) - d
    <3> HIDE DEF t
    <3> QED BY <2>2, <2>4
  <2> HIDE DEF t
  <2> QED BY <2>3, <2>5
<1>3. \A i \in 1 .. Len(s) - d : i + d \in DOMAIN s /\ t[i] = s[i + d]
  BY <1>1
<1> HIDE DEF t
<1>4. \A i, j \in DOMAIN t : t[i].call = t[j].call => i = j
  <2> SUFFICES ASSUME NEW i \in DOMAIN t, NEW j \in DOMAIN t, t[i].call = t[j].call
               PROVE  i = j
    OBVIOUS
  <2>1. /\ i \in Nat /\ i + d \in DOMAIN s /\ t[i] = s[i + d]
        /\ j \in Nat /\ j + d \in DOMAIN s /\ t[j] = s[j + d]
    BY <1>2, <1>3
  <2>2. i + d = j + d
    BY <2>1 DEF CacheOK
  <2> QED BY <2>1, <2>2
<1>5. \A i \in DOMAIN t : t[i].kind # "undetermined" /\ Sound(t[i]) /\ t[i].call # k
  BY <1>2, <1>3 DEF CacheOK
<1>6. Len(t) <= n
  BY <1>1, <1>2
<1>7. CacheOK(t, n)
  BY <1>2, <1>4, <1>5, <1>6 DEF CacheOK
<1> QED BY <1>2, <1>5, <1>7 DEF t

LEMMA StoreOK ==
  ASSUME NEW s, CacheOK(s, MaxEntries), NEW e \in Entries,
         e.kind # "undetermined", Sound(e)
  PROVE  CacheOK(Store(s, e), MaxEntries)
<1> DEFINE kept == Without(s, e.call)
           excess == Len(kept) - (MaxEntries - 1)
<1>1. MaxEntries \in Nat \ {0}
  BY BoundsTyped
<1>2. CacheOK(kept, MaxEntries) /\ \A i \in DOMAIN kept : kept[i].call # e.call
  BY <1>1, WithoutOK
<1>3. Store(s, e) = Append(IF excess > 0 THEN SubSeq(kept, excess + 1, Len(kept))
                           ELSE kept, e)
  BY DEF Store
<1> HIDE DEF kept
<1>4. Len(kept) \in Nat /\ Len(kept) <= MaxEntries /\ excess \in Int
  BY <1>1, <1>2 DEF CacheOK
<1>5. CASE excess > 0
  <2> DEFINE t == SubSeq(kept, excess + 1, Len(kept))
  <2>1. excess \in 1 .. Len(kept) /\ MaxEntries \in Nat
    BY <1>1, <1>4, <1>5
  <2>2. /\ CacheOK(t, MaxEntries) /\ Len(t) = Len(kept) - excess
        /\ \A i \in DOMAIN t : t[i].call # e.call
    <3> HIDE DEF excess
    <3> QED BY <1>2, <2>1, SuffixOK
  <2>3. Len(t) < MaxEntries
    <3> HIDE DEF t
    <3> QED BY <1>1, <1>4, <2>2
  <2>4. Store(s, e) = Append(t, e)
    BY <1>3, <1>5
  <2> HIDE DEF t
  <2> QED BY <2>1, <2>2, <2>3, <2>4, AppendOK
<1>6. CASE ~(excess > 0)
  <2>1. Len(kept) < MaxEntries /\ MaxEntries \in Nat
    BY <1>1, <1>4, <1>6
  <2>2. Store(s, e) = Append(kept, e)
    BY <1>3, <1>6
  <2> QED BY <1>2, <2>1, <2>2, AppendOK
<1> QED BY <1>5, <1>6

-----------------------------------------------------------------------------
(* The semaphore.                                                          *)

Stages == {"none", "queued", "simulating", "backoff", "again", "freed"}

SemaphoreOK ==
  /\ available \in 0 .. Limit /\ waiters \in Seq(Checks)
  /\ stage \in [Checks -> Stages] /\ from \in [Checks -> Nat]

\* Who holds a permit, and how many.
LEMMA HoldersCounted ==
  ASSUME QueueInv
  PROVE  /\ IsFiniteSet(Holders) /\ Cardinality(Holders) \in Nat
         /\ available + Cardinality(Holders) = Limit
BY FS_CardinalityType DEF QueueInv, PermitsConserved

LEMMA AcquireOK ==
  ASSUME SemaphoreOK, QueueInv, Latest \in Nat,
         NEW c \in Checks, stage[c] = "none", Acquire(c)
  PROVE  /\ SemaphoreOK' /\ QueueInv'
         /\ \/ /\ stage' = [stage EXCEPT ![c] = "simulating"]
               /\ from' = [from EXCEPT ![c] = Latest]
            \/ stage' = [stage EXCEPT ![c] = "queued"] /\ from' = from
<1> USE DEF Stages
<1>1. /\ IsFiniteSet(Holders) /\ Cardinality(Holders) \in Nat
      /\ available + Cardinality(Holders) = Limit /\ Limit \in Nat
  BY HoldersCounted, BoundsTyped
<1>2. CASE available > 0
  <2>1. /\ available' = available - 1 /\ waiters' = waiters
        /\ stage' = [stage EXCEPT ![c] = "simulating"]
        /\ from' = [from EXCEPT ![c] = Latest]
    BY <1>2 DEF Acquire
  <2>2. SemaphoreOK'
    BY <1>1, <1>2, <2>1 DEF SemaphoreOK
  <2>3. Holders' = Holders \cup {c} /\ c \notin Holders
    BY <2>1 DEF Holders, SemaphoreOK
  <2>4. IsFiniteSet(Holders') /\ Cardinality(Holders') = Cardinality(Holders) + 1
    BY <1>1, <2>3, FS_AddElement
  <2>5. waiters = <<>>
    BY <1>2 DEF QueueInv, PermitsConserved
  <2>6. {d \in Checks : stage'[d] = "queued"} = {d \in Checks : stage[d] = "queued"}
    BY <2>1 DEF SemaphoreOK
  <2>7. available' + Cardinality(Holders') = Limit
    BY <1>1, <2>1, <2>4 DEF SemaphoreOK
  <2>8. PermitsConserved'
    BY <2>1, <2>5, <2>6, <2>7 DEF QueueInv, PermitsConserved
  <2> QED BY <2>1, <2>2, <2>4, <2>8 DEF QueueInv
<1>3. CASE ~(available > 0)
  <2>1. /\ available' = available /\ waiters' = Append(waiters, c)
        /\ stage' = [stage EXCEPT ![c] = "queued"] /\ from' = from
    BY <1>3 DEF Acquire
  <2>2. SemaphoreOK'
    BY <2>1 DEF SemaphoreOK
  <2>3. Holders' = Holders
    BY <2>1 DEF Holders, SemaphoreOK
  <2>4. available = 0
    BY <1>3 DEF SemaphoreOK
  <2>5. /\ Len(waiters) \in Nat /\ DOMAIN waiters = 1 .. Len(waiters)
        /\ DOMAIN waiters' = 1 .. Len(waiters) + 1
        /\ waiters'[Len(waiters) + 1] = c
        /\ \A i \in 1 .. Len(waiters) : waiters'[i] = waiters[i]
    BY <2>1 DEF SemaphoreOK
  <2>6. c \notin ToSet(waiters)
    BY DEF QueueInv, PermitsConserved
  <2>7. \A i \in 1 .. Len(waiters) : waiters[i] # c
    BY <2>5, <2>6 DEF ToSet
  <2>8. \A i, j \in DOMAIN waiters' : waiters'[i] = waiters'[j] => i = j
    BY <2>5, <2>7 DEF QueueInv
  <2>9. ToSet(waiters') = ToSet(waiters) \cup {c}
    BY <2>5 DEF ToSet
  <2>10. {d \in Checks : stage'[d] = "queued"}
           = {d \in Checks : stage[d] = "queued"} \cup {c}
    BY <2>1 DEF SemaphoreOK
  <2>11. PermitsConserved'
    BY <1>1, <2>1, <2>3, <2>4, <2>9, <2>10 DEF QueueInv, PermitsConserved
  <2> QED BY <1>1, <2>1, <2>2, <2>3, <2>8, <2>11 DEF QueueInv
<1> QED BY <1>2, <1>3

\* The rest of a queue after its first waiter left.
LEMMA QueueTail ==
  ASSUME SemaphoreOK, QueueInv, waiters # <<>>
  PROVE  /\ Head(waiters) \in Checks /\ stage[Head(waiters)] = "queued"
         /\ Tail(waiters) \in Seq(Checks)
         /\ \A i, j \in DOMAIN Tail(waiters) :
              Tail(waiters)[i] = Tail(waiters)[j] => i = j
         /\ ToSet(Tail(waiters)) = ToSet(waiters) \ {Head(waiters)}
<1> DEFINE t == Tail(waiters)
           n == Len(waiters)
<1>1. /\ waiters \in Seq(Checks) /\ n \in Nat \ {0} /\ DOMAIN waiters = 1 .. n
      /\ Head(waiters) = waiters[1] /\ \A i \in 1 .. n : waiters[i] \in Checks
  BY DEF SemaphoreOK
<1>2. /\ t \in Seq(Checks) /\ Len(t) = n - 1 /\ DOMAIN t = 1 .. n - 1
      /\ \A i \in 1 .. n - 1 : t[i] = waiters[i + 1]
  BY <1>1
<1>3. \A i, j \in 1 .. n : waiters[i] = waiters[j] => i = j
  BY <1>1 DEF QueueInv
<1> HIDE DEF t, n
<1>4. \A i \in 1 .. n - 1 : i + 1 \in 1 .. n /\ i + 1 # 1
  BY <1>1
<1>5. ASSUME NEW i \in DOMAIN t, NEW j \in DOMAIN t, t[i] = t[j]
      PROVE  i = j
  <2>1. i + 1 = j + 1
    BY <1>2, <1>3, <1>4, <1>5
  <2> QED BY <1>1, <1>2, <2>1
<1>6. ToSet(t) = ToSet(waiters) \ {waiters[1]}
  <2>1. ASSUME NEW x \in ToSet(t) PROVE x \in ToSet(waiters) \ {waiters[1]}
    <3>1. PICK i \in DOMAIN t : x = t[i]
      BY <2>1 DEF ToSet
    <3>2. x = waiters[i + 1] /\ i + 1 \in 1 .. n /\ i + 1 # 1 /\ 1 \in 1 .. n
      BY <1>1, <1>2, <1>4, <3>1
    <3> QED BY <1>1, <1>3, <3>2 DEF ToSet
  <2>2. ASSUME NEW x \in ToSet(waiters) \ {waiters[1]} PROVE x \in ToSet(t)
    <3>1. PICK i \in 1 .. n : x = waiters[i] /\ i # 1
      BY <1>1 DEF ToSet
    <3>2. i - 1 \in 1 .. n - 1 /\ (i - 1) + 1 = i
      BY <1>1, <3>1
    <3>3. t[i - 1] = x
      BY <1>2, <3>1, <3>2
    <3> QED BY <1>2, <3>2, <3>3 DEF ToSet
  <2> QED BY <2>1, <2>2
<1>7. stage[Head(waiters)] = "queued" /\ Head(waiters) \in Checks
  <2>1. Head(waiters) \in ToSet(waiters)
    BY <1>1 DEF ToSet
  <2> QED BY <2>1 DEF QueueInv, PermitsConserved
<1> QED BY <1>1, <1>2, <1>5, <1>6, <1>7 DEF t

\* What the end of a task does to another's.
Granted(d) == stage[d] = "queued" /\ stage'[d] = "simulating" /\ from'[d] = Latest

LEMMA ReleaseOK ==
  ASSUME SemaphoreOK, QueueInv, Latest \in Nat,
         NEW c \in Checks, stage[c] \in Working, Release(c)
  PROVE  /\ SemaphoreOK' /\ QueueInv' /\ stage'[c] = "freed"
         /\ \A d \in Checks \ {c} :
              \/ stage'[d] = stage[d] /\ from'[d] = from[d]
              \/ Granted(d)
<1> USE DEF Stages, Working
<1>1. /\ IsFiniteSet(Holders) /\ Cardinality(Holders) \in Nat
      /\ available + Cardinality(Holders) = Limit /\ Limit \in Nat
  BY HoldersCounted, BoundsTyped
<1>2. c \in Holders
  BY DEF Holders
<1>3. /\ IsFiniteSet(Holders \ {c})
      /\ Cardinality(Holders \ {c}) = Cardinality(Holders) - 1
      /\ Cardinality(Holders \ {c}) \in Nat
  BY <1>1, <1>2, FS_RemoveElement, FS_CardinalityType
<1>4. CASE waiters # <<>>
  <2> DEFINE h == Head(waiters)
  <2>1. /\ h \in Checks /\ stage[h] = "queued" /\ Tail(waiters) \in Seq(Checks)
        /\ \A i, j \in DOMAIN Tail(waiters) :
             Tail(waiters)[i] = Tail(waiters)[j] => i = j
        /\ ToSet(Tail(waiters)) = ToSet(waiters) \ {h}
    BY <1>4, QueueTail
  <2>2. /\ waiters' = Tail(waiters) /\ available' = available
        /\ stage' = [stage EXCEPT ![c] = "freed", ![h] = "simulating"]
        /\ from' = [from EXCEPT ![h] = Latest]
    BY <1>4 DEF Release
  <2> HIDE DEF h
  <2>3. h # c
    BY <2>1
  <2>4. SemaphoreOK'
    BY <2>1, <2>2 DEF SemaphoreOK
  <2>5. Holders' = (Holders \ {c}) \cup {h} /\ h \notin Holders \ {c}
    BY <2>1, <2>2, <2>3 DEF Holders, SemaphoreOK
  <2>6. IsFiniteSet(Holders') /\ Cardinality(Holders') = Cardinality(Holders)
    <3> DEFINE H == Holders \ {c}
    <3>1. IsFiniteSet(H) /\ h \notin H /\ Holders' = H \cup {h}
      BY <1>3, <2>5
    <3>2. Cardinality(H) = Cardinality(Holders) - 1
      BY <1>3
    <3> HIDE DEF H
    <3>3. IsFiniteSet(Holders') /\ Cardinality(Holders') = Cardinality(H) + 1
      BY <3>1, FS_AddElement
    <3> QED BY <1>1, <3>2, <3>3
  <2>7. {d \in Checks : stage'[d] = "queued"} = {d \in Checks : stage[d] = "queued"} \ {h}
    BY <2>1, <2>2, <2>3 DEF SemaphoreOK
  <2>8. ToSet(waiters') = {d \in Checks : stage'[d] = "queued"}
    BY <2>1, <2>2, <2>7 DEF QueueInv, PermitsConserved
  <2>9. available' = 0
    BY <1>4, <2>2 DEF QueueInv, PermitsConserved
  <2>10. PermitsConserved'
    BY <1>1, <2>2, <2>6, <2>8, <2>9 DEF PermitsConserved
  <2>11. QueueInv'
    BY <2>1, <2>2, <2>6, <2>10 DEF QueueInv
  <2>12. \A d \in Checks \ {c} : \/ stage'[d] = stage[d] /\ from'[d] = from[d]
                                \/ Granted(d)
    BY <2>1, <2>2, <2>3 DEF SemaphoreOK, Granted
  <2> QED BY <2>2, <2>3, <2>4, <2>11, <2>12 DEF SemaphoreOK
<1>5. CASE waiters = <<>>
  <2>1. /\ available' = available + 1 /\ waiters' = waiters
        /\ stage' = [stage EXCEPT ![c] = "freed"] /\ from' = from
    BY <1>5 DEF Release
  <2>2. Holders' = Holders \ {c}
    BY <1>2, <2>1 DEF Holders, SemaphoreOK
  <2>3. available' + Cardinality(Holders') = Limit /\ available' \in 0 .. Limit
    BY <1>1, <1>3, <2>1, <2>2 DEF SemaphoreOK
  <2>4. SemaphoreOK'
    BY <2>1, <2>3 DEF SemaphoreOK
  <2>5. {d \in Checks : stage'[d] = "queued"} = {d \in Checks : stage[d] = "queued"}
    BY <2>1 DEF SemaphoreOK
  <2>6. PermitsConserved'
    BY <1>5, <2>1, <2>3, <2>5 DEF QueueInv, PermitsConserved
  <2>7. QueueInv'
    BY <1>3, <2>1, <2>2, <2>6 DEF QueueInv
  <2> QED BY <2>1, <2>4, <2>7 DEF SemaphoreOK
<1> QED BY <1>4, <1>5

\* The rest of a queue after any waiter left.
LEMMA QueueWithout ==
  ASSUME SemaphoreOK, QueueInv, NEW c \in Checks, stage[c] = "queued"
  PROVE  LET i == CHOOSE j \in DOMAIN waiters : waiters[j] = c
             t == RemoveAt(waiters, i) IN
         /\ t \in Seq(Checks)
         /\ \A a, b \in DOMAIN t : t[a] = t[b] => a = b
         /\ ToSet(t) = ToSet(waiters) \ {c}
<1> DEFINE i == CHOOSE j \in DOMAIN waiters : waiters[j] = c
           t == RemoveAt(waiters, i)
           n == Len(waiters)
           source(a) == IF a < i THEN a ELSE a + 1
<1>1. /\ waiters \in Seq(Checks) /\ n \in Nat /\ DOMAIN waiters = 1 .. n
  BY DEF SemaphoreOK
<1>2. c \in ToSet(waiters)
  BY DEF QueueInv, PermitsConserved
<1>3. i \in 1 .. n /\ waiters[i] = c
  BY <1>1, <1>2 DEF ToSet
<1>4. t = SubSeq(waiters, 1, i - 1) \o SubSeq(waiters, i + 1, n)
  BY DEF RemoveAt
<1> HIDE DEF i
<1>5. /\ SubSeq(waiters, 1, i - 1) \in Seq(Checks)
      /\ Len(SubSeq(waiters, 1, i - 1)) = i - 1
      /\ \A a \in 1 .. i - 1 : SubSeq(waiters, 1, i - 1)[a] = waiters[a]
  <2>1. \A a \in 1 .. i - 1 : waiters[a] \in Checks
    BY <1>1, <1>3
  <2> HIDE DEF t, n
  <2> QED BY <1>1, <1>3, <2>1, SubSeqProperties
<1>6. /\ SubSeq(waiters, i + 1, n) \in Seq(Checks)
      /\ Len(SubSeq(waiters, i + 1, n)) = n - i
      /\ \A a \in 1 .. n - i : SubSeq(waiters, i + 1, n)[a] = waiters[a + i]
  <2>1. \A a \in i + 1 .. n : waiters[a] \in Checks
    BY <1>1, <1>3
  <2> HIDE DEF t, n
  <2>2. i \in Nat /\ i <= n /\ i + 1 \in Int /\ n \in Int
    BY <1>1, <1>3
  <2>3. /\ SubSeq(waiters, i + 1, n) \in Seq(Checks)
        /\ Len(SubSeq(waiters, i + 1, n)) = IF i + 1 <= n THEN n - (i + 1) + 1 ELSE 0
        /\ \A a \in 1 .. n - (i + 1) + 1 :
             SubSeq(waiters, i + 1, n)[a] = waiters[(i + 1) + a - 1]
    BY <2>1, <2>2, SubSeqProperties
  <2>4. \A a \in 1 .. n - i : a \in 1 .. n - (i + 1) + 1 /\ (i + 1) + a - 1 = a + i
    BY <2>2
  <2> QED BY <2>2, <2>3, <2>4
<1> HIDE DEF t, n
<1>7. t \in Seq(Checks) /\ Len(t) = n - 1 /\ DOMAIN t = 1 .. n - 1
  <2>1. t \in Seq(Checks) /\ Len(t) = (i - 1) + (n - i)
    BY <1>4, <1>5, <1>6, ConcatProperties
  <2> QED BY <1>1, <1>3, <2>1
<1>8. \A a \in 1 .. n - 1 : /\ source(a) \in 1 .. n /\ source(a) # i
                            /\ t[a] = waiters[source(a)]
  <2> SUFFICES ASSUME NEW a \in 1 .. n - 1
               PROVE  /\ source(a) \in 1 .. n /\ source(a) # i
                      /\ t[a] = waiters[source(a)]
    OBVIOUS
  <2>1. i \in Nat /\ a \in Nat /\ a <= n - 1 /\ a >= 1 /\ n \in Nat
    BY <1>1, <1>3
  <2>2. t[a] = IF a <= i - 1 THEN SubSeq(waiters, 1, i - 1)[a]
               ELSE SubSeq(waiters, i + 1, n)[a - (i - 1)]
    <3>1. a \in 1 .. (i - 1) + (n - i)
      BY <2>1
    <3> QED BY <1>4, <1>5, <1>6, <3>1, ConcatProperties
  <2>3. CASE a < i
    BY <1>3, <1>5, <2>1, <2>2, <2>3
  <2>4. CASE ~(a < i)
    <3>1. a - (i - 1) \in 1 .. n - i /\ (a - (i - 1)) + i = a + 1 /\ ~(a <= i - 1)
      BY <1>3, <2>1, <2>4
    <3> QED BY <1>6, <2>1, <2>2, <2>4, <3>1
  <2> QED BY <2>3, <2>4
<1>9. \A a, b \in 1 .. n : waiters[a] = waiters[b] => a = b
  BY <1>1 DEF QueueInv
<1>10. ASSUME NEW a \in DOMAIN t, NEW b \in DOMAIN t, t[a] = t[b]
       PROVE  a = b
  <2>1. source(a) = source(b)
    BY <1>7, <1>8, <1>9, <1>10
  <2> QED BY <1>3, <1>7, <2>1
<1>11. ToSet(t) = ToSet(waiters) \ {c}
  <2>1. ASSUME NEW x \in ToSet(t) PROVE x \in ToSet(waiters) \ {c}
    <3>1. PICK a \in 1 .. n - 1 : x = t[a]
      BY <1>7, <2>1 DEF ToSet
    <3>2. x = waiters[source(a)] /\ source(a) \in 1 .. n /\ source(a) # i
      BY <1>8, <3>1
    <3> HIDE DEF source
    <3> QED BY <1>1, <1>3, <1>9, <3>2 DEF ToSet
  <2>2. ASSUME NEW x \in ToSet(waiters) \ {c} PROVE x \in ToSet(t)
    <3>1. PICK a \in 1 .. n : x = waiters[a]
      BY <1>1, <2>2 DEF ToSet
    <3>2. a # i
      BY <1>3, <2>2, <3>1
    <3>3. PICK b \in 1 .. n - 1 : source(b) = a
      <4>1. CASE a < i
        <5>1. a \in 1 .. n - 1 /\ source(a) = a
          BY <1>1, <1>3, <4>1
        <5> QED BY <5>1
      <4>2. CASE ~(a < i)
        <5>1. a - 1 \in 1 .. n - 1 /\ source(a - 1) = a
          BY <1>1, <1>3, <3>2, <4>2
        <5> QED BY <5>1
      <4> QED BY <4>1, <4>2
    <3>4. t[b] = x
      BY <1>8, <3>1, <3>3
    <3> QED BY <1>7, <3>3, <3>4 DEF ToSet
  <2> QED BY <2>1, <2>2
<1> QED BY <1>7, <1>10, <1>11 DEF t, i

\* What a step of c's run does to the tasks: c's ends or goes on, and the first
\* waiter may get the permit.
TaskStep(c) ==
  /\ \/ stage'[c] = "freed"
     \/ stage[c] \in Working /\ stage'[c] = stage[c] /\ from'[c] = from[c]
  /\ \A d \in Checks \ {c} :
       \/ stage'[d] = stage[d] /\ from'[d] = from[d]
       \/ Granted(d)

LEMMA WithdrawOK ==
  ASSUME SemaphoreOK, QueueInv, NEW c \in Checks, stage[c] \in Working \cup {"queued"},
         Withdraw(c), UNCHANGED <<available, from>>
  PROVE  SemaphoreOK' /\ QueueInv' /\ TaskStep(c)
<1> USE DEF Stages, Working
<1>1. CASE stage[c] = "queued"
  <2> DEFINE t == RemoveAt(waiters, CHOOSE j \in DOMAIN waiters : waiters[j] = c)
  <2>1. /\ t \in Seq(Checks) /\ \A a, b \in DOMAIN t : t[a] = t[b] => a = b
        /\ ToSet(t) = ToSet(waiters) \ {c}
    BY <1>1, QueueWithout
  <2>2. waiters' = t /\ stage' = [stage EXCEPT ![c] = "freed"]
    BY <1>1 DEF Withdraw
  <2> HIDE DEF t
  <2>3. SemaphoreOK'
    BY <2>1, <2>2 DEF SemaphoreOK
  <2>4. Holders' = Holders
    BY <1>1, <2>2 DEF Holders, SemaphoreOK
  <2>5. {d \in Checks : stage'[d] = "queued"} = {d \in Checks : stage[d] = "queued"} \ {c}
    BY <2>2 DEF SemaphoreOK
  <2>6. ToSet(waiters') = {d \in Checks : stage'[d] = "queued"}
    BY <2>1, <2>2, <2>5 DEF QueueInv, PermitsConserved
  <2>7. c \in ToSet(waiters) /\ waiters # <<>>
    <3>1. c \in ToSet(waiters)
      BY <1>1 DEF QueueInv, PermitsConserved
    <3> QED BY <3>1 DEF ToSet
  <2>8. PermitsConserved'
    BY <2>4, <2>6, <2>7 DEF QueueInv, PermitsConserved
  <2>9. QueueInv'
    BY <2>1, <2>2, <2>4, <2>8 DEF QueueInv
  <2> QED BY <2>2, <2>3, <2>9 DEF SemaphoreOK, TaskStep
<1>2. CASE stage[c] # "queued"
  <2>1. waiters' = waiters /\ stage' = stage
    BY <1>2 DEF Withdraw
  <2>2. Holders' = Holders
    BY <2>1 DEF Holders
  <2>3. SemaphoreOK' /\ QueueInv'
    BY <2>1, <2>2 DEF SemaphoreOK, QueueInv, PermitsConserved
  <2> QED BY <1>2, <2>1, <2>3 DEF TaskStep
<1> QED BY <1>1, <1>2

-----------------------------------------------------------------------------
(* The invariant.                                                          *)

\* What TypeOK says beside the semaphore and the cache.
CheckTypes ==
  /\ admits \in Seq(SUBSET Calls)
  /\ inFlight \in [Keys -> Checks \cup {None}]
  /\ at \in [Checks -> {"idle", "lookup", "waiting", "answered"}]
  /\ call \in [Checks -> Calls] /\ seen \in [Checks -> Nat]
  /\ joined \in [Checks -> Checks \cup {None}]
  /\ answer \in [Checks -> Answers]
  /\ live \in [Checks -> BOOLEAN]

LEMMA Parts ==
  ASSUME IInv
  PROVE  /\ CheckTypes /\ SemaphoreOK /\ CacheOK(cache, MaxEntries)
         /\ QueueInv /\ RunInv /\ VerdictInv
         /\ Latest \in Nat \ {0}
<1>1. CheckTypes /\ SemaphoreOK /\ QueueInv /\ RunInv /\ VerdictInv
  BY DEF IInv, TypeOK, CheckTypes, SemaphoreOK, Stages
<1>2. CacheOK(cache, MaxEntries)
  BY DEF IInv, TypeOK, CacheOK, VerdictInv
<1>3. Latest \in Nat \ {0}
  BY <1>1 DEF CheckTypes, VerdictInv, Latest
<1> QED BY <1>1, <1>2, <1>3

LEMMA Assembled ==
  ASSUME CheckTypes', SemaphoreOK', CacheOK(cache, MaxEntries)',
         QueueInv', RunInv', VerdictInv'
  PROVE  IInv'
<1>1. TypeOK'
  BY DEF TypeOK, CheckTypes, SemaphoreOK, Stages, CacheOK
<1> QED BY <1>1 DEF IInv

LEMMA InitIInv == Init => IInv
<1> SUFFICES ASSUME Init PROVE IInv
  OBVIOUS
<1>1. Limit \in Nat \ {0} /\ MaxEntries \in Nat \ {0} /\ None \notin Checks
  BY BoundsTyped
<1>2. admits \in Seq(SUBSET Calls) /\ Len(admits) = 1
  <2>1. {1} = 1 .. 1 /\ 1 \in Nat
    OBVIOUS
  <2>2. admits \in [1 .. 1 -> SUBSET Calls]
    BY <2>1 DEF Init
  <2>3. admits = [i \in 1 .. 1 |-> admits[i]] /\ \A i \in 1 .. 1 : admits[i] \in SUBSET Calls
    BY <2>2
  <2> QED BY <2>1, <2>3
<1>3. Holders = {}
  BY DEF Init, Holders
<1>4. IsFiniteSet(Holders) /\ Cardinality(Holders) = 0
  BY <1>3, FS_EmptySet
<1>5. ToSet(waiters) = {} /\ {c \in Checks : stage[c] = "queued"} = {}
  BY DEF Init, ToSet
<1>6. QueueInv
  BY <1>1, <1>4, <1>5 DEF Init, QueueInv, PermitsConserved
<1>7. RunInv
  BY DEF Init, RunInv, Unstarted
<1>8. VerdictInv
  BY <1>2 DEF Init, VerdictInv, Latest, NoContext, Working, Unanswered
<1>9. TypeOK
  <2>1. cache \in Seq(Entries) /\ waiters \in Seq(Checks) /\ Len(cache) = 0 /\ DOMAIN cache = {}
    BY DEF Init
  <2>2. answer \in [Checks -> Answers]
    BY DEF Init, Answers, Unanswered
  <2> QED BY <1>1, <1>2, <2>1, <2>2 DEF Init, TypeOK, NoContext
<1> QED BY <1>6, <1>7, <1>8, <1>9 DEF IInv

\* Nothing of the checks, the runs and the chain moves.
LEMMA CacheOnly ==
  ASSUME IInv, CacheOK(cache', MaxEntries),
         UNCHANGED <<chain, inFlight, permits, checkVars, runVars>>
  PROVE  IInv'
<1> USE DEF chain, permits, checkVars, runVars
<1>1. /\ CheckTypes /\ SemaphoreOK /\ QueueInv /\ RunInv /\ VerdictInv
  BY Parts
<1>2. Holders' = Holders
  BY DEF Holders
<1>3. CheckTypes' /\ SemaphoreOK' /\ QueueInv' /\ RunInv'
  BY <1>1, <1>2 DEF CheckTypes, SemaphoreOK, QueueInv, PermitsConserved, RunInv,
                   Unstarted, KeyOf
<1>4. CacheOK(cache, MaxEntries)'
  BY DEF CacheOK, Sound, Ruling, Latest, Verdict
<1>5. VerdictInv'
  BY <1>1, <1>4 DEF VerdictInv, CacheOK, Ruling, Latest, Verdict
<1> QED BY <1>3, <1>4, <1>5, Assembled

\* A ruling outlives the purge and the ttl of what caches it.
LEMMA InvalidateOK == IInv /\ Invalidate => IInv'
<1> SUFFICES ASSUME IInv, Invalidate PROVE IInv'
  OBVIOUS
<1>1. CacheOK(cache, MaxEntries) /\ MaxEntries \in Nat \ {0}
  BY Parts, BoundsTyped
<1>2. CacheOK(<<>>, MaxEntries)
  BY <1>1 DEF CacheOK
<1>3. \A k \in Calls : CacheOK(Without(cache, k), MaxEntries)
  BY <1>1, WithoutOK
<1>4. CacheOK(cache', MaxEntries)
  BY <1>2, <1>3 DEF Invalidate
<1> QED BY <1>4, CacheOnly DEF Invalidate

LEMMA ExpireOK == IInv /\ Expire => IInv'
<1> SUFFICES ASSUME IInv, Expire PROVE IInv'
  OBVIOUS
<1>1. CacheOK(cache, MaxEntries) /\ MaxEntries \in Nat \ {0}
  BY Parts, BoundsTyped
<1>2. PICK i \in DOMAIN cache : cache' = [cache EXCEPT ![i].expired = TRUE]
  BY DEF Expire
<1>3. cache \in Seq(Entries) /\ Len(cache) \in Nat /\ DOMAIN cache = 1 .. Len(cache)
  BY <1>1 DEF CacheOK
<1> DEFINE e == [cache[i] EXCEPT !.expired = TRUE]
<1>4. /\ e \in Entries /\ e.call = cache[i].call /\ e.ledger = cache[i].ledger
      /\ e.kind = cache[i].kind /\ e.basis = cache[i].basis
  <2>1. cache[i] \in Entries
    BY <1>2, <1>3
  <2> QED BY <2>1 DEF Entries
<1>5. cache' = [cache EXCEPT ![i] = e]
  BY <1>2
<1> HIDE DEF e
<1>6. /\ cache' \in Seq(Entries) /\ Len(cache') = Len(cache) /\ DOMAIN cache' = DOMAIN cache
      /\ \A j \in DOMAIN cache : cache'[j] = IF j = i THEN e ELSE cache[j]
  BY <1>3, <1>4, <1>5
<1>7. \A j \in DOMAIN cache : /\ cache'[j].call = cache[j].call
                              /\ cache'[j].ledger = cache[j].ledger
                              /\ cache'[j].kind = cache[j].kind
                              /\ cache'[j].basis = cache[j].basis
  BY <1>4, <1>6
<1>8. CacheOK(cache', MaxEntries)
  BY <1>1, <1>6, <1>7 DEF CacheOK, Sound
<1> QED BY <1>8, CacheOnly DEF Expire

\* A ledger that closes changes no earlier ruling.
LEMMA CloseOK == IInv /\ Close => IInv'
<1> SUFFICES ASSUME IInv, Close PROVE IInv'
  OBVIOUS
<1> USE DEF chain, permits, checkVars, runVars
<1>1. /\ CheckTypes /\ SemaphoreOK /\ CacheOK(cache, MaxEntries)
      /\ QueueInv /\ RunInv /\ VerdictInv /\ Latest \in Nat \ {0}
  BY Parts
<1>2. PICK K \in SUBSET Calls : admits' = Append(admits, K)
  BY DEF Close
<1>3. UNCHANGED <<cache, inFlight, permits, checkVars, runVars>>
  BY DEF Close
<1>4. /\ admits' \in Seq(SUBSET Calls) /\ Latest' = Latest + 1
      /\ \A l \in 1 .. Latest : admits'[l] = admits[l]
  BY <1>1, <1>2 DEF CheckTypes, Latest
<1>5. \A k, kind, b : Ruling(k, kind, b) => Ruling(k, kind, b)'
  BY <1>1, <1>4 DEF Ruling, Verdict
<1>6. Holders' = Holders
  BY <1>3 DEF Holders
<1>7. CheckTypes' /\ SemaphoreOK' /\ QueueInv' /\ RunInv'
  BY <1>1, <1>3, <1>4, <1>6 DEF CheckTypes, SemaphoreOK, QueueInv, PermitsConserved,
                               RunInv, Unstarted, KeyOf
<1>8. CacheOK(cache, MaxEntries)'
  BY <1>1, <1>3, <1>5 DEF CacheOK, Sound
<1>9. VerdictInv'
  <2>1. \A c \in Checks : seen'[c] <= Latest'
    BY <1>1, <1>3, <1>4 DEF VerdictInv, CheckTypes
  <2>2. \A c \in Checks : stage'[c] \in Working =>
          from'[c] \in 1 .. Latest' /\ seen'[c] <= from'[c]
    BY <1>1, <1>3, <1>4 DEF VerdictInv
  <2>3. \A c \in Checks : answer'[c].kind \in {"admissible", "blocked"} =>
          /\ Ruling(call[c], answer[c].kind, answer[c].basis)'
          /\ answer'[c].hit \/ joined'[c] = c => answer'[c].basis >= seen'[c]
    <3> HIDE DEF chain, permits, runVars
    <3>1. UNCHANGED <<call, answer, seen, joined>>
      BY <1>3
    <3>2. \A c \in Checks : Ruling(call[c], answer[c].kind, answer[c].basis) =>
            Ruling(call[c], answer[c].kind, answer[c].basis)'
      <4>1. \A k, kind, b : Ruling(k, kind, b) =>
              b \in 1 .. Latest' /\ kind = Verdict(k, b)'
        BY <1>5 DEF Ruling
      <4> QED BY <3>1, <4>1 DEF Ruling, Verdict
    <3> QED BY <1>1, <3>1, <3>2 DEF VerdictInv
  <2>4. Latest' >= 1
    BY <1>1, <1>4
  <2> QED BY <1>1, <1>3, <1>8, <2>1, <2>2, <2>3, <2>4 DEF VerdictInv, CacheOK
<1> QED BY <1>7, <1>8, <1>9, Assembled

-----------------------------------------------------------------------------
(* The checks.                                                             *)

\* A check that goes on without an answer: it joins the run of its key, which is
\* pending and checks the same call, or starts the only one.
LEMMA ProceedOK ==
  ASSUME IInv, NEW c \in Checks, at[c] = "lookup", NEW l \in 0 .. Latest,
         Proceed(c, l), CacheOK(cache', MaxEntries),
         UNCHANGED <<chain, call, answer>>
  PROVE  /\ IInv'
         /\ \/ stage' = stage
            \/ /\ stage' \in {[stage EXCEPT ![c] = "simulating"],
                              [stage EXCEPT ![c] = "queued"]}
               /\ live'[c] = TRUE
<1> USE DEF chain, permits, runVars, NoContext
<1> DEFINE key == <<call[c], l # 0>>
           shared == c \notin Observers
<1>1. /\ CheckTypes /\ SemaphoreOK /\ QueueInv /\ RunInv /\ VerdictInv
      /\ Latest \in Nat \ {0} /\ None \notin Checks
  BY Parts, BoundsTyped
<1>2. Unstarted(c) /\ l \in Nat /\ l <= Latest /\ key \in Keys
  <2>1. Unstarted(c) /\ l \in Nat /\ l <= Latest
    BY <1>1 DEF RunInv
  <2>2. call[c] \in Calls /\ (l # 0) \in BOOLEAN
    BY <1>1 DEF CheckTypes
  <2> QED BY <2>1, <2>2 DEF Keys
<1>3. /\ seen' = [seen EXCEPT ![c] = l] /\ at' = [at EXCEPT ![c] = "waiting"]
      /\ admits' = admits /\ call' = call /\ answer' = answer
  BY DEF Proceed
<1>4. KeyOf(c)' = key /\ \A d \in Checks \ {c} : KeyOf(d)' = KeyOf(d)
  BY <1>1, <1>3 DEF KeyOf, CheckTypes
<1>5. \A k \in Keys : inFlight[k] # None => inFlight[k] \in Checks \ {c}
  BY <1>1, <1>2 DEF RunInv, CheckTypes, Unstarted
<1>6. CacheOK(cache, MaxEntries)'
  BY <1>3 DEF CacheOK, Sound, Ruling, Latest, Verdict
<1>7. CASE shared /\ inFlight[key] # None
  <2> DEFINE r == inFlight[key]
  <2>1. /\ joined' = [joined EXCEPT ![c] = r]
        /\ UNCHANGED <<inFlight, permits, runVars>>
    BY <1>7 DEF Proceed
  <2>2. r \in Checks \ {c} /\ call[r] = call[c]
    BY <1>1, <1>2, <1>5, <1>7 DEF RunInv, KeyOf
  <2> HIDE DEF r, key, shared
  <2>3. CheckTypes'
    BY <1>1, <1>2, <1>3, <2>1, <2>2 DEF CheckTypes
  <2>4. Holders' = Holders
    BY <2>1 DEF Holders
  <2>5. SemaphoreOK' /\ QueueInv'
    BY <1>1, <2>1, <2>4 DEF SemaphoreOK, QueueInv, PermitsConserved
  <2>6. RunInv'
    <3>1. \A d \in Checks : at'[d] \in {"idle", "lookup"} => Unstarted(d)'
      BY <1>1, <1>3, <2>1 DEF RunInv, CheckTypes, Unstarted
    <3>2. \A k \in Keys : inFlight'[k] # None =>
            live'[inFlight'[k]] /\ KeyOf(inFlight[k])' = k
      BY <1>1, <1>4, <1>5, <2>1 DEF RunInv
    <3>3. \A d \in Checks \ Observers : live'[d] => inFlight'[KeyOf(d)'] = d
      BY <1>1, <1>2, <1>4, <2>1 DEF RunInv, Unstarted
    <3> QED BY <1>1, <2>1, <3>1, <3>2, <3>3 DEF RunInv
  <2>7. VerdictInv'
    <3>1. \A d \in Checks : seen'[d] <= Latest'
      BY <1>1, <1>2, <1>3 DEF VerdictInv, CheckTypes, Latest
    <3>2. \A d \in Checks : stage'[d] \in Working =>
            from'[d] \in 1 .. Latest' /\ seen'[d] <= from'[d]
      BY <1>1, <1>2, <1>3, <2>1 DEF VerdictInv, CheckTypes, Latest, Unstarted, Working
    <3>3. \A d \in Checks : at'[d] = "waiting" =>
            joined'[d] \in Checks /\ call'[joined'[d]] = call'[d]
      BY <1>1, <1>3, <2>1, <2>2 DEF VerdictInv, CheckTypes
    <3>4. \A d \in Checks : answer'[d].kind \in {"admissible", "blocked"} =>
            /\ Ruling(call[d], answer[d].kind, answer[d].basis)'
            /\ answer'[d].hit \/ joined'[d] = d => answer'[d].basis >= seen'[d]
      BY <1>1, <1>2, <1>3, <2>1 DEF VerdictInv, CheckTypes, Ruling, Latest, Verdict,
                                   Unstarted, Unanswered
    <3>5. Latest' >= 1 /\ \A i \in DOMAIN cache' : Sound(cache[i])'
      BY <1>1, <1>3, <1>6 DEF CacheOK, Latest
    <3> QED BY <3>1, <3>2, <3>3, <3>4, <3>5 DEF VerdictInv
  <2>8. IInv'
    BY <1>6, <2>3, <2>5, <2>6, <2>7, Assembled
  <2> QED BY <2>1, <2>8
<1>8. CASE ~(shared /\ inFlight[key] # None)
  <2>1. /\ joined' = [joined EXCEPT ![c] = c]
        /\ inFlight' = IF shared THEN [inFlight EXCEPT ![key] = c] ELSE inFlight
        /\ Acquire(c) /\ live' = [live EXCEPT ![c] = TRUE]
    BY <1>8 DEF Proceed, StartRun
  <2>2. /\ SemaphoreOK' /\ QueueInv'
        /\ \/ /\ stage' = [stage EXCEPT ![c] = "simulating"]
              /\ from' = [from EXCEPT ![c] = Latest]
           \/ stage' = [stage EXCEPT ![c] = "queued"] /\ from' = from
    <3>1. stage[c] = "none" /\ Latest \in Nat
      BY <1>1, <1>2 DEF Unstarted
    <3> QED BY <1>1, <2>1, <3>1, AcquireOK
  <2>3. shared => inFlight[key] = None
    BY <1>8
  <2>4. CheckTypes'
    BY <1>1, <1>2, <1>3, <2>1 DEF CheckTypes
  <2>5. RunInv'
    <3> HIDE DEF key
    <3>1. \A d \in Checks : at'[d] \in {"idle", "lookup"} => Unstarted(d)'
      BY <1>1, <1>3, <2>1, <2>2 DEF RunInv, CheckTypes, SemaphoreOK, Unstarted
    <3>2. \A d \in Checks : live'[d] => stage'[d] \in Working \cup {"queued"}
      BY <1>1, <2>1, <2>2 DEF RunInv, CheckTypes, SemaphoreOK, Working
    <3>3. \A d \in Checks : stage'[d] = "queued" => live'[d]
      BY <1>1, <2>1, <2>2 DEF RunInv, CheckTypes, SemaphoreOK
    <3>4. ASSUME NEW k \in Keys, inFlight'[k] # None
          PROVE  live'[inFlight'[k]] /\ KeyOf(inFlight[k])' = k
      <4>1. CASE shared /\ k = key
        <5>1. inFlight'[k] = c
          BY <1>1, <1>2, <2>1, <4>1 DEF CheckTypes
        <5>2. KeyOf(inFlight[k])' = KeyOf(c)'
          BY <5>1 DEF KeyOf
        <5> QED BY <1>1, <1>4, <2>1, <4>1, <5>1, <5>2 DEF CheckTypes
      <4>2. CASE ~(shared /\ k = key)
        <5>1. inFlight'[k] = inFlight[k] /\ inFlight[k] \in Checks \ {c}
          BY <1>1, <1>2, <1>5, <2>1, <3>4, <4>2 DEF CheckTypes
        <5>2. KeyOf(inFlight[k])' = KeyOf(inFlight[k])
          BY <1>1, <1>3, <5>1 DEF KeyOf, CheckTypes
        <5>3. live[inFlight[k]] /\ KeyOf(inFlight[k]) = k
          BY <1>1, <3>4, <5>1 DEF RunInv
        <5> QED BY <1>1, <2>1, <5>1, <5>2, <5>3 DEF CheckTypes
      <4> QED BY <4>1, <4>2
    <3>5. ASSUME NEW d \in Checks \ Observers, live'[d]
          PROVE  inFlight'[KeyOf(d)'] = d
      <4>1. CASE d = c
        BY <1>1, <1>2, <1>4, <2>1, <4>1 DEF CheckTypes
      <4>2. CASE d # c
        <5>1. live[d] /\ inFlight[KeyOf(d)] = d /\ KeyOf(d)' = KeyOf(d)
          BY <1>1, <1>4, <2>1, <3>5, <4>2 DEF RunInv, CheckTypes
        <5>2. ~(shared /\ KeyOf(d) = key) /\ KeyOf(d) \in Keys
          BY <1>1, <2>3, <5>1 DEF CheckTypes, KeyOf, Keys
        <5> QED BY <1>1, <1>2, <2>1, <5>1, <5>2 DEF CheckTypes
      <4> QED BY <4>1, <4>2
    <3> QED BY <3>1, <3>2, <3>3, <3>4, <3>5 DEF RunInv
  <2>6. VerdictInv'
    <3> HIDE DEF key, shared
    <3>1. \A d \in Checks : seen'[d] <= Latest'
      BY <1>1, <1>2, <1>3 DEF VerdictInv, CheckTypes, Latest
    <3>2. \A d \in Checks : stage'[d] \in Working =>
            from'[d] \in 1 .. Latest' /\ seen'[d] <= from'[d]
      BY <1>1, <1>2, <1>3, <2>2 DEF VerdictInv, CheckTypes, SemaphoreOK, Latest,
                                   Unstarted, Working
    <3>3. \A d \in Checks : at'[d] = "waiting" =>
            joined'[d] \in Checks /\ call'[joined'[d]] = call'[d]
      BY <1>1, <1>3, <2>1 DEF VerdictInv, CheckTypes
    <3>4. \A d \in Checks : answer'[d].kind \in {"admissible", "blocked"} =>
            /\ Ruling(call[d], answer[d].kind, answer[d].basis)'
            /\ answer'[d].hit \/ joined'[d] = d => answer'[d].basis >= seen'[d]
      BY <1>1, <1>2, <1>3, <2>1 DEF VerdictInv, CheckTypes, Ruling, Latest, Verdict,
                                   Unstarted, Unanswered
    <3>5. Latest' >= 1 /\ \A i \in DOMAIN cache' : Sound(cache[i])'
      BY <1>1, <1>3, <1>6 DEF CacheOK, Latest
    <3> QED BY <3>1, <3>2, <3>3, <3>4, <3>5 DEF VerdictInv
  <2>7. IInv'
    BY <1>6, <2>2, <2>4, <2>5, <2>6, Assembled
  <2> QED BY <1>1, <2>1, <2>2, <2>7 DEF CheckTypes
<1> QED BY <1>7, <1>8

LEMMA BeginOK == \A c \in Checks : IInv /\ Begin(c) => IInv'
<1> SUFFICES ASSUME NEW c \in Checks, IInv, Begin(c) PROVE IInv'
  OBVIOUS
<1> USE DEF chain, permits, runVars
<1>1. /\ CheckTypes /\ SemaphoreOK /\ CacheOK(cache, MaxEntries)
      /\ QueueInv /\ RunInv /\ VerdictInv
  BY Parts
<1>2. /\ at[c] = "idle" /\ at' = [at EXCEPT ![c] = "lookup"]
      /\ UNCHANGED <<chain, cache, inFlight, permits, call, seen, joined, answer, runVars>>
  BY DEF Begin
<1>3. Holders' = Holders
  BY <1>2 DEF Holders
<1>4. CheckTypes' /\ SemaphoreOK' /\ QueueInv'
  BY <1>1, <1>2, <1>3 DEF CheckTypes, SemaphoreOK, QueueInv, PermitsConserved
<1>5. RunInv'
  BY <1>1, <1>2 DEF CheckTypes, RunInv, Unstarted, KeyOf
<1>6. CacheOK(cache, MaxEntries)'
  BY <1>1, <1>2 DEF CacheOK, Sound, Ruling, Latest, Verdict
<1>7. VerdictInv'
  BY <1>1, <1>2, <1>6 DEF CheckTypes, VerdictInv, CacheOK, Ruling, Latest, Verdict
<1> QED BY <1>4, <1>5, <1>6, <1>7, Assembled

\* A check that returns without a run of its own having decided: what it returns
\* is nothing, or what the cache held of the ledger it saw.
LEMMA ReturnOK ==
  ASSUME IInv, NEW c \in Checks, at[c] \in {"lookup", "waiting"},
         NEW l \in 0 .. Latest, NEW result \in Answers,
         result.kind \in {"admissible", "blocked"} =>
           Ruling(call[c], result.kind, result.basis) /\ l <= result.basis,
         at' = [at EXCEPT ![c] = "answered"], answer' = [answer EXCEPT ![c] = result],
         seen' = [seen EXCEPT ![c] = l],
         at[c] = "lookup" \/ seen[c] = l,
         CacheOK(cache', MaxEntries),
         UNCHANGED <<chain, inFlight, permits, call, joined, runVars>>
  PROVE  IInv'
<1> USE DEF chain, permits, runVars
<1>1. /\ CheckTypes /\ SemaphoreOK /\ QueueInv /\ RunInv /\ VerdictInv
      /\ Latest \in Nat \ {0} /\ l \in Nat /\ l <= Latest
  BY Parts
<1>2. Holders' = Holders
  BY DEF Holders
<1>3. CheckTypes' /\ SemaphoreOK' /\ QueueInv'
  BY <1>1, <1>2 DEF CheckTypes, SemaphoreOK, QueueInv, PermitsConserved
<1>4. CacheOK(cache, MaxEntries)'
  BY DEF CacheOK, Sound, Ruling, Latest, Verdict
<1>5. \A d \in Checks : live[d] => KeyOf(d)' = KeyOf(d)
  BY <1>1 DEF CheckTypes, RunInv, Unstarted, KeyOf
<1>6. RunInv'
  <2>1. \A d \in Checks : at'[d] \in {"idle", "lookup"} => Unstarted(d)'
    BY <1>1 DEF CheckTypes, RunInv, Unstarted
  <2>2. ASSUME NEW k \in Keys, inFlight'[k] # None
        PROVE  live'[inFlight'[k]] /\ KeyOf(inFlight[k])' = k
    <3>1. inFlight[k] \in Checks /\ live[inFlight[k]] /\ KeyOf(inFlight[k]) = k
      BY <1>1, <2>2 DEF CheckTypes, RunInv
    <3> QED BY <1>5, <3>1
  <2>3. \A d \in Checks \ Observers : live'[d] => inFlight'[KeyOf(d)'] = d
    BY <1>1, <1>5 DEF RunInv
  <2> QED BY <1>1, <2>1, <2>2, <2>3 DEF RunInv
<1>7. VerdictInv'
  <2>1. \A d \in Checks : seen'[d] <= Latest'
    BY <1>1 DEF VerdictInv, CheckTypes, Latest
  <2>2. \A d \in Checks : stage'[d] \in Working =>
          from'[d] \in 1 .. Latest' /\ seen'[d] <= from'[d]
    BY <1>1 DEF VerdictInv, CheckTypes, Latest, RunInv, Unstarted, Working
  <2>3. \A d \in Checks : at'[d] = "waiting" =>
          joined'[d] \in Checks /\ call'[joined'[d]] = call'[d]
    BY <1>1 DEF VerdictInv, CheckTypes
  <2>4. ASSUME NEW d \in Checks, answer'[d].kind \in {"admissible", "blocked"}
        PROVE  /\ Ruling(call[d], answer[d].kind, answer[d].basis)'
               /\ answer'[d].hit \/ joined'[d] = d => answer'[d].basis >= seen'[d]
    <3>1. CASE d = c
      <4>1. answer'[d] = result /\ seen'[d] = l /\ result.basis \in Nat
        BY <1>1, <3>1 DEF CheckTypes, Answers
      <4> QED BY <1>1, <2>4, <3>1, <4>1 DEF Ruling, Latest, Verdict
    <3>2. CASE d # c
      <4>1. answer'[d] = answer[d] /\ seen'[d] = seen[d]
        BY <1>1, <3>2 DEF CheckTypes
      <4> QED BY <1>1, <2>4, <4>1 DEF VerdictInv, Ruling, Latest, Verdict
    <3> QED BY <3>1, <3>2
  <2>5. Latest' >= 1 /\ \A i \in DOMAIN cache' : Sound(cache[i])'
    BY <1>1, <1>4 DEF CacheOK, Latest
  <2> QED BY <2>1, <2>2, <2>3, <2>4, <2>5 DEF VerdictInv
<1> QED BY <1>3, <1>4, <1>6, <1>7, Assembled

\* A hit is of the ledger the lookup saw, and rulings are no older than theirs.
LEMMA LookupReplyOK ==
  ASSUME IInv, NEW c \in Checks, LookupReply(c)
  PROVE  /\ IInv'
         /\ \/ stage' = stage
            \/ /\ stage' \in {[stage EXCEPT ![c] = "simulating"],
                              [stage EXCEPT ![c] = "queued"]}
               /\ live'[c] = TRUE
<1>1. /\ CacheOK(cache, MaxEntries) /\ Latest \in Nat \ {0}
      /\ CheckTypes
  BY Parts
<1>2. PICK l \in 1 .. Latest :
        LET kept == Fresh(cache, l) IN
          IF Hits(kept, call[c]) # {}
          THEN \E e \in Hits(kept, call[c]) :
                 /\ cache' = Touch(kept, e)
                 /\ at' = [at EXCEPT ![c] = "answered"]
                 /\ seen' = [seen EXCEPT ![c] = l]
                 /\ answer' = [answer EXCEPT ![c] =
                      [kind |-> e.kind, basis |-> e.basis, hit |-> TRUE]]
                 /\ UNCHANGED <<inFlight, permits, joined, runVars>>
          ELSE cache' = kept /\ Proceed(c, l) /\ UNCHANGED answer
  BY DEF LookupReply
<1>3. at[c] = "lookup" /\ UNCHANGED <<chain, call>>
  BY DEF LookupReply
<1> DEFINE kept == Fresh(cache, l)
<1>4. /\ CacheOK(kept, MaxEntries)
      /\ \A i \in DOMAIN kept : kept[i].ledger = l
  BY <1>1, FreshOK
<1>5. l \in 0 .. Latest
  BY <1>1
<1> HIDE DEF kept
<1>6. CASE Hits(kept, call[c]) # {}
  <2>1. PICK e \in Hits(kept, call[c]) :
          /\ cache' = Touch(kept, e)
          /\ at' = [at EXCEPT ![c] = "answered"]
          /\ seen' = [seen EXCEPT ![c] = l]
          /\ answer' = [answer EXCEPT ![c] =
               [kind |-> e.kind, basis |-> e.basis, hit |-> TRUE]]
          /\ UNCHANGED <<inFlight, permits, joined, runVars>>
    BY <1>2, <1>6 DEF kept
  <2> DEFINE result == [kind |-> e.kind, basis |-> e.basis, hit |-> TRUE]
  <2>2. PICK i \in DOMAIN kept : e = kept[i]
    BY DEF Hits, ToSet
  <2>3. e \in Entries /\ Sound(e) /\ e.ledger = l /\ e.call = call[c]
    BY <1>4, <2>2 DEF CacheOK, Hits
  <2>4. result \in Answers
    BY <2>3 DEF Entries, Answers
  <2>5. Ruling(call[c], result.kind, result.basis) /\ l <= result.basis
    BY <2>3 DEF Sound
  <2>6. CacheOK(cache', MaxEntries)
    BY <1>4, <2>1, TouchOK
  <2> HIDE DEF result
  <2>7. IInv'
    BY <1>3, <1>5, <2>1, <2>4, <2>5, <2>6, ReturnOK DEF result
  <2> QED BY <2>1, <2>7 DEF runVars
<1>7. CASE Hits(kept, call[c]) = {}
  <2>1. cache' = kept /\ Proceed(c, l) /\ answer' = answer
    BY <1>2, <1>7 DEF kept
  <2> QED BY <1>3, <1>4, <1>5, <2>1, ProceedOK
<1> QED BY <1>6, <1>7

LEMMA LookupFailsOK ==
  ASSUME IInv, NEW c \in Checks, LookupFails(c)
  PROVE  /\ IInv'
         /\ \/ stage' = stage
            \/ /\ stage' \in {[stage EXCEPT ![c] = "simulating"],
                              [stage EXCEPT ![c] = "queued"]}
               /\ live'[c] = TRUE
<1>1. CacheOK(cache, MaxEntries) /\ Latest \in Nat \ {0}
  BY Parts
<1>2. /\ at[c] = "lookup" /\ Proceed(c, 0)
      /\ UNCHANGED <<chain, cache, call, answer>>
  BY DEF LookupFails, NoContext
<1>3. 0 \in 0 .. Latest /\ CacheOK(cache', MaxEntries)
  BY <1>1, <1>2
<1> QED BY <1>2, <1>3, ProceedOK

LEMMA CallerLeavesOK == \A c \in Checks : IInv /\ CallerLeaves(c) => IInv'
<1> SUFFICES ASSUME NEW c \in Checks, IInv, CallerLeaves(c) PROVE IInv'
  OBVIOUS
<1>1. CacheOK(cache, MaxEntries) /\ CheckTypes /\ VerdictInv /\ Latest \in Nat \ {0}
  BY Parts
<1>2. /\ at[c] \in {"lookup", "waiting"}
      /\ at' = [at EXCEPT ![c] = "answered"]
      /\ answer' = [answer EXCEPT ![c] = Undetermined]
      /\ UNCHANGED <<chain, cache, inFlight, permits, call, seen, joined, runVars>>
  BY DEF CallerLeaves
<1>3. Undetermined \in Answers /\ Undetermined.kind \notin {"admissible", "blocked"}
  BY DEF Undetermined, Answers, Kinds
<1>4. seen[c] \in 0 .. Latest /\ seen' = [seen EXCEPT ![c] = seen[c]]
  BY <1>1, <1>2 DEF CheckTypes, VerdictInv
<1>5. CacheOK(cache', MaxEntries)
  BY <1>1, <1>2
<1> QED BY <1>2, <1>3, <1>4, <1>5, ReturnOK

-----------------------------------------------------------------------------
(* The runs.                                                               *)

\* What a decision may say: nothing, or a ruling no older than the run's lookup.
Decision(c, result) ==
  /\ result \in Answers /\ result.kind \in Kinds /\ result.hit = FALSE
  /\ result.kind # "undetermined" =>
       Ruling(call[c], result.kind, result.basis) /\ seen[c] <= result.basis

\* The end of a decision that somebody may still await.
LEMMA DecideOK ==
  ASSUME IInv, NEW c \in Checks, live[c], TaskStep(c), SemaphoreOK', QueueInv',
         NEW result, Decision(c, result), Decide(c, result),
         UNCHANGED <<chain, call, seen, joined>>
  PROVE  IInv'
<1> USE DEF chain
<1>1. /\ CheckTypes /\ SemaphoreOK /\ CacheOK(cache, MaxEntries)
      /\ QueueInv /\ RunInv /\ VerdictInv
      /\ Latest \in Nat \ {0} /\ None \notin Checks
  BY Parts, BoundsTyped
<1>2. /\ live' = [live EXCEPT ![c] = FALSE]
      /\ inFlight' = [k \in Keys |-> IF inFlight[k] = c THEN None ELSE inFlight[k]]
  BY DEF Decide, Unregister
<1>3. \A d \in Checks : /\ at'[d] = IF at[d] = "waiting" /\ joined[d] = c
                                    THEN "answered" ELSE at[d]
                        /\ answer'[d] = IF at[d] = "waiting" /\ joined[d] = c
                                        THEN result ELSE answer[d]
  BY DEF Decide
<1>4. CheckTypes'
  <2>1. /\ at' \in [Checks -> {"idle", "lookup", "waiting", "answered"}]
        /\ answer' \in [Checks -> Answers]
    BY <1>1 DEF Decide, CheckTypes, Decision
  <2>2. inFlight' \in [Keys -> Checks \cup {None}]
    BY <1>1, <1>2 DEF CheckTypes
  <2>3. live' \in [Checks -> BOOLEAN]
    BY <1>1, <1>2 DEF CheckTypes
  <2> QED BY <1>1, <2>1, <2>2, <2>3 DEF CheckTypes
<1>5. CacheOK(cache', MaxEntries)
  <2>1. CASE Cacheable(c, result)
    <3> DEFINE e == [call |-> call[c], ledger |-> seen[c], kind |-> result.kind,
                     basis |-> result.basis, expired |-> FALSE]
    <3>1. cache' = Store(cache, e)
      BY <2>1 DEF Decide
    <3>2. call[c] \in Calls /\ seen[c] \in Nat \ {0} /\ result.basis \in Nat
      BY <1>1, <2>1 DEF CheckTypes, Cacheable, NoContext, Decision, Answers
    <3>3. e \in Entries /\ e.kind # "undetermined" /\ Sound(e)
      BY <2>1, <3>2 DEF Entries, Decision, Cacheable, Sound
    <3> HIDE DEF e
    <3> QED BY <1>1, <3>1, <3>3, StoreOK
  <2>2. CASE ~Cacheable(c, result)
    BY <1>1, <2>2 DEF Decide
  <2> QED BY <2>1, <2>2
<1>6. CacheOK(cache, MaxEntries)'
  BY <1>5 DEF CacheOK, Sound, Ruling, Latest, Verdict
<1>7. \A d \in Checks \ {c} : live'[d] = live[d]
  BY <1>1, <1>2 DEF CheckTypes
<1>8. ~live'[c] /\ stage[c] # "none" /\ stage'[c] # "queued"
  BY <1>1, <1>2 DEF CheckTypes, RunInv, TaskStep, Working
<1>9. RunInv'
  <2>1. ASSUME NEW d \in Checks, at'[d] \in {"idle", "lookup"}
        PROVE  Unstarted(d)'
    <3>1. at[d] = at'[d] /\ answer'[d] = answer[d]
      BY <1>3, <2>1
    <3>2. Unstarted(d) /\ d # c
      BY <1>1, <1>8, <2>1, <3>1 DEF RunInv, Unstarted
    <3>3. stage'[d] = stage[d]
      BY <3>2 DEF TaskStep, Granted, Unstarted
    <3> QED BY <1>7, <3>1, <3>2, <3>3 DEF Unstarted
  <2>2. \A d \in Checks : live'[d] => stage'[d] \in Working \cup {"queued"}
    BY <1>1, <1>7, <1>8 DEF RunInv, TaskStep, Granted, Working
  <2>3. \A d \in Checks : stage'[d] = "queued" => live'[d]
    BY <1>1, <1>7, <1>8 DEF RunInv, TaskStep, Granted
  <2>4. ASSUME NEW k \in Keys, inFlight'[k] # None
        PROVE  live'[inFlight'[k]] /\ KeyOf(inFlight[k])' = k
    <3>1. inFlight[k] # c /\ inFlight'[k] = inFlight[k] /\ inFlight[k] \in Checks
      BY <1>1, <1>2, <2>4 DEF CheckTypes
    <3>2. live[inFlight[k]] /\ KeyOf(inFlight[k]) = k
      BY <1>1, <2>4, <3>1 DEF RunInv
    <3> QED BY <1>7, <3>1, <3>2 DEF KeyOf
  <2>5. ASSUME NEW d \in Checks \ Observers, live'[d]
        PROVE  inFlight'[KeyOf(d)'] = d
    <3>1. d # c /\ live[d]
      BY <1>7, <1>8, <2>5
    <3>2. inFlight[KeyOf(d)] = d /\ KeyOf(d)' = KeyOf(d) /\ KeyOf(d) \in Keys
      BY <1>1, <3>1 DEF RunInv, KeyOf, CheckTypes, Keys
    <3> QED BY <1>2, <3>1, <3>2
  <2> QED BY <2>1, <2>2, <2>3, <2>4, <2>5 DEF RunInv
<1>10. VerdictInv'
  <2>1. \A d \in Checks : seen'[d] <= Latest'
    BY <1>1 DEF VerdictInv, Latest
  <2>2. ASSUME NEW d \in Checks, stage'[d] \in Working
        PROVE  from'[d] \in 1 .. Latest' /\ seen'[d] <= from'[d]
    <3>1. CASE stage[d] \in Working /\ from'[d] = from[d]
      BY <1>1, <3>1 DEF VerdictInv, Latest
    <3>2. CASE Granted(d)
      BY <1>1, <3>2 DEF Granted, VerdictInv, Latest
    <3> QED BY <2>2, <3>1, <3>2 DEF TaskStep, Working
  <2>3. \A d \in Checks : at'[d] = "waiting" =>
          joined'[d] \in Checks /\ call'[joined'[d]] = call'[d]
    BY <1>1, <1>3 DEF VerdictInv
  <2>4. ASSUME NEW d \in Checks, answer'[d].kind \in {"admissible", "blocked"}
        PROVE  /\ Ruling(call[d], answer[d].kind, answer[d].basis)'
               /\ answer'[d].hit \/ joined'[d] = d => answer'[d].basis >= seen'[d]
    <3>1. CASE at[d] = "waiting" /\ joined[d] = c
      <4>1. answer'[d] = result /\ call[d] = call[c] /\ result.kind # "undetermined"
        BY <1>1, <1>3, <2>4, <3>1 DEF VerdictInv
      <4>2. /\ Ruling(call[c], result.kind, result.basis) /\ seen[c] <= result.basis
            /\ result.hit = FALSE
        BY <4>1 DEF Decision
      <4>3. seen[c] \in Nat /\ result.basis \in Nat
        BY <1>1 DEF CheckTypes, Decision, Answers
      <4> QED BY <3>1, <4>1, <4>2, <4>3 DEF Ruling, Latest, Verdict
    <3>2. CASE ~(at[d] = "waiting" /\ joined[d] = c)
      <4>1. answer'[d] = answer[d]
        BY <1>3, <3>2
      <4> QED BY <1>1, <2>4, <4>1 DEF VerdictInv, Ruling, Latest, Verdict
    <3> QED BY <3>1, <3>2
  <2>5. Latest' >= 1 /\ \A i \in DOMAIN cache' : Sound(cache[i])'
    BY <1>1, <1>6 DEF CacheOK, Latest
  <2> QED BY <2>1, <2>2, <2>3, <2>4, <2>5 DEF VerdictInv
<1> QED BY <1>4, <1>6, <1>9, <1>10, Assembled

\* A step of a task whose decision stands, or nobody awaits any more.
LEMMA TaskOK ==
  ASSUME IInv, NEW c \in Checks, SemaphoreOK', QueueInv',
         stage[c] \in Working, ~live[c] \/ stage'[c] \in Working,
         \/ stage'[c] = "freed"
         \/ /\ stage'[c] \in Working
            /\ from'[c] = from[c] \/ from'[c] = Latest,
         \A d \in Checks \ {c} : \/ stage'[d] = stage[d] /\ from'[d] = from[d]
                                 \/ Granted(d),
         UNCHANGED <<chain, live, inFlight, cache, checkVars>>
  PROVE  IInv'
<1> USE DEF chain, checkVars
<1>1. /\ CheckTypes /\ CacheOK(cache, MaxEntries)
      /\ RunInv /\ VerdictInv /\ Latest \in Nat \ {0}
  BY Parts
<1>2. CheckTypes' /\ CacheOK(cache, MaxEntries)'
  BY <1>1 DEF CheckTypes, CacheOK, Sound, Ruling, Latest, Verdict
<1>3. RunInv'
  <2>1. ASSUME NEW d \in Checks, at'[d] \in {"idle", "lookup"}
        PROVE  Unstarted(d)'
    <3>1. Unstarted(d) /\ d # c
      BY <1>1, <2>1 DEF RunInv, Unstarted, Working
    <3>2. stage'[d] = stage[d]
      BY <3>1 DEF Granted, Unstarted
    <3> QED BY <3>1, <3>2 DEF Unstarted
  <2>2. \A d \in Checks : live'[d] => stage'[d] \in Working \cup {"queued"}
    BY <1>1 DEF RunInv, Granted, Working
  <2>3. \A d \in Checks : stage'[d] = "queued" => live'[d]
    BY <1>1 DEF RunInv, Granted, Working
  <2> QED BY <1>1, <2>1, <2>2, <2>3 DEF RunInv, KeyOf
<1>4. VerdictInv'
  <2>1. ASSUME NEW d \in Checks, stage'[d] \in Working
        PROVE  from'[d] \in 1 .. Latest' /\ seen'[d] <= from'[d]
    <3>1. CASE stage[d] \in Working /\ from'[d] = from[d]
      BY <1>1, <3>1 DEF VerdictInv, Latest
    <3>2. CASE from'[d] = Latest
      BY <1>1, <3>2 DEF VerdictInv, Latest
    <3> QED BY <2>1, <3>1, <3>2 DEF Granted, Working
  <2> QED BY <1>1, <1>2, <2>1 DEF VerdictInv, CacheOK, Ruling, Latest, Verdict
<1> QED BY <1>2, <1>3, <1>4, Assembled

\* The end of a task, and of the decision if it still stands.
LEMMA FinishOK ==
  ASSUME IInv, NEW c \in Checks, stage[c] \in Working, NEW result,
         Decision(c, result), Finish(c, result)
  PROVE  /\ IInv' /\ stage'[c] = "freed"
         /\ \A d \in Checks \ {c} : stage'[d] = stage[d] \/ Granted(d)
         /\ \A d \in Checks \ {c} : live'[d] = live[d]
<1>1. SemaphoreOK /\ QueueInv /\ Latest \in Nat /\ CheckTypes
  BY Parts
<1>2. /\ Release(c) /\ UNCHANGED <<chain, call, seen, joined>>
      /\ IF live[c] THEN Decide(c, result)
         ELSE UNCHANGED <<live, inFlight, cache, at, answer>>
  BY DEF Finish
<1>3. /\ SemaphoreOK' /\ QueueInv' /\ stage'[c] = "freed"
      /\ \A d \in Checks \ {c} : \/ stage'[d] = stage[d] /\ from'[d] = from[d]
                                 \/ Granted(d)
  BY <1>1, <1>2, ReleaseOK
<1>4. CASE live[c]
  <2>1. TaskStep(c)
    BY <1>3 DEF TaskStep
  <2>2. Decide(c, result)
    BY <1>2, <1>4
  <2>3. IInv'
    BY <1>2, <1>3, <1>4, <2>1, <2>2, DecideOK
  <2> QED BY <1>1, <1>3, <2>2, <2>3 DEF Decide, CheckTypes
<1>5. CASE ~live[c]
  <2>1. UNCHANGED <<chain, live, inFlight, cache, checkVars>>
    BY <1>2, <1>5 DEF checkVars
  <2>2. IInv'
    BY <1>3, <1>5, <2>1, TaskOK
  <2> QED BY <1>3, <2>1, <2>2
<1> QED BY <1>4, <1>5

LEMMA UndeterminedDecision == \A c : Decision(c, Undetermined)
BY DEF Decision, Undetermined, Answers, Kinds

\* The guard ruled on a ledger since the simulation was sent: a closed one, and
\* no older than the lookup.
LEMMA RuledDecision ==
  ASSUME IInv, NEW c \in Checks, stage[c] \in Working, NEW l \in from[c] .. Latest
  PROVE  Decision(c, [kind |-> Verdict(call[c], l), basis |-> l, hit |-> FALSE])
<1> DEFINE result == [kind |-> Verdict(call[c], l), basis |-> l, hit |-> FALSE]
<1>1. /\ Latest \in Nat \ {0} /\ from[c] \in 1 .. Latest /\ seen[c] \in Nat
      /\ seen[c] <= from[c]
  BY Parts DEF VerdictInv, CheckTypes
<1>2. l \in 1 .. Latest /\ l \in Nat /\ seen[c] <= l
  BY <1>1
<1>3. result.kind \in {"admissible", "blocked"} /\ result.kind = Verdict(call[c], l)
  BY DEF Verdict
<1>4. result \in Answers /\ result.basis = l /\ result.hit = FALSE
  BY <1>2, <1>3 DEF Answers, Kinds
<1> HIDE DEF result
<1>5. Decision(c, result)
  BY <1>2, <1>3, <1>4 DEF Decision, Ruling, Kinds
<1> QED BY <1>5 DEF result

\* A task that backs off, or tries again, keeps its permit.
LEMMA KeepsPermit ==
  ASSUME IInv, NEW c \in Checks, stage[c] \in Working, NEW s \in Working,
         stage' = [stage EXCEPT ![c] = s],
         from' = from \/ from' = [from EXCEPT ![c] = Latest],
         UNCHANGED <<chain, cache, inFlight, permits, checkVars, live>>
  PROVE  IInv'
<1> USE DEF permits, Working
<1>1. SemaphoreOK /\ QueueInv /\ Latest \in Nat
  BY Parts
<1>2. SemaphoreOK'
  BY <1>1 DEF SemaphoreOK, Stages
<1>3. Holders' = Holders /\ {d \in Checks : stage'[d] = "queued"}
                              = {d \in Checks : stage[d] = "queued"}
  BY <1>1 DEF SemaphoreOK, Holders
<1>4. QueueInv'
  BY <1>1, <1>3 DEF QueueInv, PermitsConserved
<1>5. /\ stage'[c] \in Working /\ (from'[c] = from[c] \/ from'[c] = Latest)
      /\ \A d \in Checks \ {c} : stage'[d] = stage[d] /\ from'[d] = from[d]
  BY <1>1 DEF SemaphoreOK
<1> QED BY <1>2, <1>4, <1>5, TaskOK

LEMMA RunBoundFiresOK ==
  ASSUME IInv, NEW c \in Checks, RunBoundFires(c)
  PROVE  IInv' /\ TaskStep(c)
<1>1. SemaphoreOK /\ QueueInv /\ RunInv
  BY Parts
<1>2. /\ live[c] /\ Withdraw(c) /\ Decide(c, Undetermined)
      /\ UNCHANGED <<chain, available, call, seen, joined, from>>
  BY DEF RunBoundFires
<1>3. stage[c] \in Working \cup {"queued"}
  BY <1>1, <1>2 DEF RunInv
<1>4. SemaphoreOK' /\ QueueInv' /\ TaskStep(c)
  BY <1>1, <1>2, <1>3, WithdrawOK
<1>5. Decision(c, Undetermined)
  BY UndeterminedDecision
<1> QED BY <1>2, <1>4, <1>5, DecideOK

\* What the ends of a task have in common.
LEMMA FinishesOK ==
  ASSUME IInv, NEW c \in Checks,
         \/ SimulationRules(c) \/ SimulationFails(c)
         \/ BackoffEnds(c) /\ ~live[c]
  PROVE  /\ IInv' /\ stage'[c] = "freed"
         /\ \A d \in Checks \ {c} : stage'[d] = stage[d] \/ Granted(d)
         /\ \A d \in Checks \ {c} : live'[d] = live[d]
<1>1. CASE SimulationRules(c)
  <2>1. stage[c] \in Working
    BY <1>1 DEF SimulationRules, Working
  <2>2. PICK l \in from[c] .. Latest :
          Finish(c, [kind |-> Verdict(call[c], l), basis |-> l, hit |-> FALSE])
    BY <1>1 DEF SimulationRules
  <2>3. Decision(c, [kind |-> Verdict(call[c], l), basis |-> l, hit |-> FALSE])
    BY <2>1, RuledDecision
  <2> QED BY <2>1, <2>2, <2>3, FinishOK
<1>2. CASE SimulationFails(c)
  <2>1. stage[c] \in Working /\ Finish(c, Undetermined)
    BY <1>2 DEF SimulationFails, Working
  <2> QED BY <2>1, UndeterminedDecision, FinishOK
<1>3. CASE BackoffEnds(c) /\ ~live[c]
  <2>1. stage[c] \in Working /\ Finish(c, Undetermined)
    BY <1>3 DEF BackoffEnds, Working
  <2> QED BY <2>1, UndeterminedDecision, FinishOK
<1> QED BY <1>1, <1>2, <1>3

LEMMA RateLimitedOK == \A c \in Checks : IInv /\ RateLimited(c) => IInv'
<1> SUFFICES ASSUME NEW c \in Checks, IInv, RateLimited(c) PROVE IInv'
  OBVIOUS
<1>1. /\ stage[c] \in Working /\ "backoff" \in Working
      /\ stage' = [stage EXCEPT ![c] = "backoff"] /\ from' = from
      /\ UNCHANGED <<chain, cache, inFlight, permits, checkVars, live>>
  BY DEF RateLimited, Working
<1> QED BY <1>1, KeepsPermit

LEMMA TriesAgainOK == \A c \in Checks : IInv /\ BackoffEnds(c) /\ live[c] => IInv'
<1> SUFFICES ASSUME NEW c \in Checks, IInv, BackoffEnds(c), live[c] PROVE IInv'
  OBVIOUS
<1>1. /\ stage[c] \in Working /\ "again" \in Working
      /\ stage' = [stage EXCEPT ![c] = "again"]
      /\ from' = [from EXCEPT ![c] = Latest]
      /\ UNCHANGED <<chain, cache, inFlight, permits, checkVars, live>>
  BY DEF BackoffEnds, Working
<1> QED BY <1>1, KeepsPermit

LEMMA NextIInv == IInv /\ [Next]_vars => IInv'
<1> SUFFICES ASSUME IInv, [Next]_vars PROVE IInv'
  OBVIOUS
<1>1. CASE UNCHANGED vars
  <2>1. CacheOK(cache', MaxEntries)
    BY <1>1, Parts DEF vars
  <2> QED BY <1>1, <2>1, CacheOnly DEF vars
<1>2. ASSUME NEW c \in Checks, CheckStep(c) PROVE IInv'
  BY <1>2, BeginOK, LookupReplyOK, LookupFailsOK, CallerLeavesOK DEF CheckStep
<1>3. ASSUME NEW c \in Checks, RunStep(c) PROVE IInv'
  BY <1>3, FinishesOK, RateLimitedOK, TriesAgainOK, RunBoundFiresOK DEF RunStep
<1>4. CASE Invalidate \/ Expire \/ Close
  BY <1>4, InvalidateOK, ExpireOK, CloseOK
<1> QED BY <1>1, <1>2, <1>3, <1>4 DEF Next

-----------------------------------------------------------------------------
(* The theorems.                                                           *)

THEOREM Invariance == Spec => []IInv
<1>1. Init => IInv
  BY InitIInv
<1>2. IInv /\ [Next]_vars => IInv'
  BY NextIInv
<1> QED BY <1>1, <1>2, PTL DEF Spec

\* Every variable keeps its type, whatever the number of checks and calls; the
\* cache never holds more than its bound, nor two entries of a call, nor a
\* decision that is no verdict (preflight.ts 700-735, 1127-1129).
THEOREM TypeCorrect == Spec => []TypeOK
<1>1. IInv => TypeOK
  BY DEF IInv
<1> QED BY <1>1, Invariance, PTL

\* Of the permits of the semaphore none is lost and none made, over every order
\* of grants, withdrawals and abandoned runs, and none is idle while a run waits
\* (semaphore.ts 33-69).
THEOREM PermitsAreConserved == Spec => []PermitsConserved
<1>1. IInv => PermitsConserved
  BY DEF IInv, QueueInv
<1> QED BY <1>1, Invariance, PTL

\* Concurrent checks of one call share one run, and the map of shared runs names
\* pending ones only (preflight.ts 893-925): the map is where a pending run is
\* found by its key, so two of one key would be one.
THEOREM OneRunAnswers == Spec => []OneRunPerCall
<1>1. IInv => OneRunPerCall
  <2> SUFFICES ASSUME IInv PROVE OneRunPerCall
    OBVIOUS
  <2>1. RunInv
    BY DEF IInv
  <2>2. \A c, d \in Checks \ Observers :
          live[c] /\ live[d] /\ KeyOf(c) = KeyOf(d) => c = d
    BY <2>1 DEF RunInv
  <2> QED BY <2>1, <2>2 DEF RunInv, OneRunPerCall
<1> QED BY <1>1, Invariance, PTL

\* What a check answers is what the guard ruled on a ledger that closed, no older
\* than the one its lookup saw, when it comes from the cache or its own run
\* (preflight.ts 392-393, README 1199).
THEOREM VerdictsAreCurrent == Spec => []VerdictIsCurrent
<1>1. IInv => VerdictIsCurrent
  BY DEF IInv, VerdictInv, VerdictIsCurrent, Ruling
<1> QED BY <1>1, Invariance, PTL

\* A run whose decision fell by a bound while it was queued never gets a permit,
\* and one that backed off does not try again (semaphore.ts 30-33): a queued run
\* is live, and leaves the queue with its decision.
THEOREM AbandonedRunsSendNothing == Spec => AbandonedSendsNothing
<1> DEFINE Sends(c) == /\ stage'[c] = "simulating" /\ stage[c] # "simulating" => live'[c]
                       /\ stage'[c] = "again" /\ stage[c] # "again" => live[c]
<1>1. ASSUME IInv, [Next]_vars PROVE [\A d \in Checks : Sends(d)]_vars
  <2> SUFFICES ASSUME Next, NEW d \in Checks PROVE Sends(d)
    BY <1>1
  <2>0. CheckTypes /\ SemaphoreOK /\ RunInv
    BY <1>1, Parts
  <2>1. CASE stage' = stage
    BY <2>1
  <2>2. ASSUME NEW c \in Checks, LookupReply(c) \/ LookupFails(c) PROVE Sends(d)
    BY <1>1, <2>0, <2>2, LookupReplyOK, LookupFailsOK DEF SemaphoreOK
  <2>3. ASSUME NEW c \in Checks, Begin(c) \/ CallerLeaves(c) PROVE Sends(d)
    BY <2>1, <2>3 DEF Begin, CallerLeaves, runVars
  <2>4. ASSUME NEW c \in Checks,
               \/ SimulationRules(c) \/ SimulationFails(c)
               \/ BackoffEnds(c) /\ ~live[c]
        PROVE Sends(d)
    <3>1. /\ stage'[c] = "freed"
          /\ \A e \in Checks \ {c} : stage'[e] = stage[e] \/ Granted(e)
          /\ \A e \in Checks \ {c} : live'[e] = live[e]
      BY <1>1, <2>4, FinishesOK
    <3>2. Granted(d) => live[d]
      BY <2>0 DEF RunInv, Granted
    <3> QED BY <3>1, <3>2 DEF Granted
  <2>5. ASSUME NEW c \in Checks, RateLimited(c) \/ (BackoffEnds(c) /\ live[c])
        PROVE  Sends(d)
    BY <2>0, <2>5 DEF RateLimited, BackoffEnds, SemaphoreOK
  <2>6. ASSUME NEW c \in Checks, RunBoundFires(c) PROVE Sends(d)
    <3>1. TaskStep(c) /\ live' = [live EXCEPT ![c] = FALSE]
      BY <1>1, <2>6, RunBoundFiresOK DEF RunBoundFires, Decide
    <3>2. Granted(d) => live[d]
      BY <2>0 DEF RunInv, Granted
    <3>3. d # c => live'[d] = live[d]
      BY <2>0, <3>1 DEF CheckTypes
    <3> QED BY <3>1, <3>2, <3>3 DEF TaskStep, Granted
  <2>7. CASE Invalidate \/ Expire \/ Close
    BY <2>1, <2>7 DEF Invalidate, Expire, Close, runVars
  <2> HIDE DEF Sends
  <2> QED BY <2>2, <2>3, <2>4, <2>5, <2>6, <2>7 DEF Next, CheckStep, RunStep
<1>2. IInv /\ [Next]_vars =>
        [\A c \in Checks :
           /\ stage'[c] = "simulating" /\ stage[c] # "simulating" => live'[c]
           /\ stage'[c] = "again" /\ stage[c] # "again" => live[c]]_vars
  BY <1>1
<1> QED BY <1>2, Invariance, PTL DEF Spec, AbandonedSendsNothing
=============================================================================
