--------------------------- MODULE ToolGateProofs ---------------------------
(***************************************************************************)
(* Theorems about ToolGate, for every set of amounts and caps, every bound  *)
(* on the calls of one action, and every move of the ledger meanwhile.      *)
(*                                                                         *)
(* The gate fails closed because its verdicts never say more than its       *)
(* rulings: as long as every verdict so far is admissible, there is one     *)
(* ruling behind each, admissible too, and no call of a batch was staged    *)
(* for want of what it had to be staged against (Backed).                   *)
(*                                                                         *)
(* A batch fits the window because what is staged is the sum of the calls   *)
(* ruled so far and was compared with one reading of the window (BatchInv); *)
(* that the sums exist takes the least counterexample, as the provers have  *)
(* no induction over an operator.                                           *)
(***************************************************************************)
EXTENDS ToolGate, TLAPS, WellFoundedInduction

\* The state before the first verdict.
Untouched ==
  phase \in {"construct", "mapping", "reading"} =>
    verdicts = <<>> /\ rulings = <<>> /\ outcome = "none"

Backed ==
  Admits(verdicts) =>
    /\ Len(rulings) = Len(verdicts)
    /\ \A i \in DOMAIN rulings : rulings[i] = "admissible"
    /\ Batch => \A i \in DOMAIN verdicts : ~Starves(calls[i])

\* Every ruling became a verdict.
Recorded == Len(rulings) <= Len(verdicts)

\* The calls are mapped before they are checked, and there is one at least.
Mapped ==
  /\ phase \in {"construct", "mapping"} => mapped = "nothing"
  /\ phase \in {"reading", "checking"} => mapped = "calls" /\ Len(calls) >= 1

\* The tool runs on admissible verdicts only.
RanOnVerdicts ==
  /\ outcome = "ran" => phase = "done"
  /\ outcome = "ran" /\ mapped = "calls" =>
       Admits(verdicts) /\ Len(verdicts) = Len(calls)

\* Hooks and answers belong to the end.
Quiet ==
  phase # "done" => /\ outcome = "none" /\ reply = "none" /\ alerts = <<>>
                    /\ observed = 0 /\ logged = 0

IInv == TypeOK /\ Untouched /\ Recorded /\ Backed /\ Mapped /\ RanOnVerdicts /\ Quiet

-----------------------------------------------------------------------------
(* Types.                                                                  *)

Asked == /\ request.mapper \in Mappers /\ request.caller \in Callers
         /\ request.policy \in Caps \cup {None}
         /\ request.window \in Amounts \cup {0, None}

LEMMA RequestsTyped == request \in Requests => Asked
  BY DEF Requests, Asked, LangChainOptions, McpOptions, ElizaOptions, VercelOptions,
         HostOptions, Options, Mappers, Callers, Adapters

LEMMA SnapshotsTyped ==
  ASSUME request \in Requests
  PROVE  request.policy \in Nat \cup {None} /\ request.window \in Nat \cup {None}
  <1>1. Amounts \subseteq Nat /\ Caps \subseteq Nat
    BY ToolGateAssumption DEF ToolGateAssumption
  <1>2. /\ request.policy \in Caps \cup {None}
        /\ request.window \in Amounts \cup {0, None}
    BY RequestsTyped DEF Asked
  <1> HIDE DEF Requests
  <1>3. request.policy \in Nat \cup {None}
    BY <1>1, <1>2
  <1>4. request.window \in Amounts \/ request.window = 0 \/ request.window = None
    BY <1>2
  <1>5. request.window \in Nat \cup {None}
    <2>1. CASE request.window = 0
      BY <2>1
    <2>2. CASE request.window \in Amounts \/ request.window = None
      BY <1>1, <2>2
    <2> QED BY <1>4, <2>1, <2>2
  <1> QED BY <1>3, <1>5

\* A verdict for every call is a sequence of verdicts.
LEMMA AllOfAKind ==
  ASSUME NEW cs \in Seq(Call), NEW k \in Kinds
  PROVE  /\ [i \in DOMAIN cs |-> k] \in Seq(Kinds)
         /\ Len([i \in DOMAIN cs |-> k]) = Len(cs)
  <1>1. DOMAIN cs = 1 .. Len(cs) /\ Len(cs) \in Nat
    OBVIOUS
  <1>2. [i \in 1 .. Len(cs) |-> k] \in Seq(Kinds)
    BY <1>1
  <1> QED BY <1>1, <1>2

\* What a turn of the loop does to the verdicts.
LEMMA StageResult ==
  ASSUME TypeOK, NEW amount \in Call \ {Malformed}, NEW ruling \in Kinds,
         Stage(amount, ruling)
  PROVE  \E v \in Kinds :
           /\ verdicts' = Append(verdicts, v)
           /\ v = "admissible" =>
                ruling = "admissible" /\ (Batch => ~Starves(amount))
           /\ staged' \in Nat /\ starved' \in BOOLEAN
  <1>1. amount \in Nat
    BY ToolGateAssumption DEF Call, ToolGateAssumption
  <1>2. CASE ~Batch \/ ruling # "admissible" \/ amount = 0
    <2>1. Push(ruling) /\ UNCHANGED <<staged, starved>>
      BY <1>2 DEF Stage
    <2>2. amount = 0 => ~Starves(amount)
      BY DEF Starves
    <2> QED BY <1>2, <2>1, <2>2 DEF Push, TypeOK
  <1>3. CASE ~(~Batch \/ ruling # "admissible" \/ amount = 0)
    <2>1. starved' = (starved \/ Starves(amount))
      BY <1>3 DEF Stage
    <2>2. starved' \in BOOLEAN
      BY <2>1, Zenon DEF TypeOK
    <2>3. CASE starved'
      <3>1. Push("undetermined") /\ UNCHANGED staged
        BY <1>3, <2>3 DEF Stage
      <3> QED BY <2>2, <3>1 DEF Push, TypeOK, Kinds
    <2>4. CASE ~starved'
      <3>1. ~Starves(amount)
        BY <2>1, <2>4
      <3>2. CASE Overspends(amount)
        <4>1. Push("blocked") /\ UNCHANGED staged
          BY <1>3, <2>4, <3>2 DEF Stage
        <4> QED BY <2>2, <4>1 DEF Push, TypeOK, Kinds
      <3>3. CASE ~Overspends(amount)
        <4>1. Push(ruling) /\ staged' = IF policy > 0 THEN staged + amount ELSE staged
          BY <1>3, <2>4, <3>3 DEF Stage
        <4>2. staged \in Nat
          BY DEF TypeOK
        <4>3. staged' \in Nat
          BY <1>1, <4>1, <4>2
        <4> QED BY <1>3, <2>2, <3>1, <4>1, <4>3 DEF Push
      <3> QED BY <3>2, <3>3
    <2> QED BY <2>3, <2>4
  <1> QED BY <1>2, <1>3

-----------------------------------------------------------------------------
(* The first refusal.                                                      *)

LEMMA LeastElement ==
  ASSUME NEW T \in SUBSET Nat, T # {}
  PROVE  \E m \in T : \A k \in T : m <= k
  <1> DEFINE R == OpToRel(<, Nat)
  <1>1. IsWellFoundedOn(R, Nat)
    BY NatLessThanWellFounded
  <1>2. \A x, y \in Nat : x < y => <<x, y>> \in R
    BY DEF OpToRel
  <1> HIDE DEF R
  <1>3. \E m \in T : \A k \in T : ~(<<k, m>> \in R)
    BY <1>1, WFMin
  <1>4. PICK m \in T : \A k \in T : ~(<<k, m>> \in R)
    BY <1>3
  <1>5. ASSUME NEW k \in T PROVE m <= k
    <2>1. k \in Nat /\ m \in Nat
      OBVIOUS
    <2>2. ~(k < m)
      BY <1>2, <1>4, <2>1
    <2> QED BY <2>1, <2>2
  <1> QED BY <1>5

\* FirstRefusal() is a refusal, and whatever is before it is admissible.
LEMMA FirstRefusalIsFirst ==
  ASSUME NEW vs \in Seq(Kinds), ~Admits(vs)
  PROVE  \E i \in DOMAIN vs :
           /\ vs[i] = FirstRefusal(vs) /\ vs[i] \in {"blocked", "undetermined"}
           /\ \A j \in 1 .. (i - 1) : vs[j] = "admissible"
  <1> DEFINE T == {i \in DOMAIN vs : vs[i] # "admissible"}
             First(i) == /\ vs[i] # "admissible"
                         /\ \A j \in 1 .. (i - 1) : vs[j] = "admissible"
  <1>1. DOMAIN vs = 1 .. Len(vs) /\ Len(vs) \in Nat
    OBVIOUS
  <1>2. T \in SUBSET Nat /\ T # {}
    BY <1>1 DEF Admits
  <1> HIDE DEF T
  <1>3. PICK m \in T : \A k \in T : m <= k
    BY <1>2, LeastElement
  <1>4. m \in DOMAIN vs /\ First(m)
    BY <1>1, <1>3 DEF T
  <1> HIDE DEF First
  <1>5. (CHOOSE i \in DOMAIN vs : First(i)) \in DOMAIN vs
        /\ First(CHOOSE i \in DOMAIN vs : First(i))
    BY <1>4
  <1>6. FirstRefusal(vs) = vs[CHOOSE i \in DOMAIN vs : First(i)]
    BY DEF FirstRefusal, First
  <1>7. \A i \in DOMAIN vs : vs[i] \in Kinds
    BY <1>1
  <1> QED BY <1>5, <1>6, <1>7 DEF First, Kinds

-----------------------------------------------------------------------------
(* The steps that leave the gate open.                                     *)

LEMMA InitIInv == Init => IInv /\ HaltsAreReported
  <1> SUFFICES ASSUME Init PROVE IInv /\ HaltsAreReported
    OBVIOUS
  <1>1. TypeOK
    <2>1. cap \in Caps /\ request \in Requests /\ moved \in BOOLEAN /\ starved \in BOOLEAN
      BY DEF Init
    <2>2. spent \in Nat
      BY ToolGateAssumption DEF Init, ToolGateAssumption
    <2> QED BY <2>1, <2>2 DEF Init, TypeOK, Pending
  <1>2. Untouched /\ Recorded /\ Backed /\ Mapped /\ RanOnVerdicts /\ Quiet
    BY DEF Init, Untouched, Recorded, Backed, Mapped, RanOnVerdicts, Quiet
  <1>3. HaltsAreReported
    BY DEF Init, HaltsAreReported, Refused
  <1> QED BY <1>1, <1>2, <1>3 DEF IInv

\* As long as the gate is open nobody was answered or alerted.
LEMMA QuietReports ==
  ASSUME Quiet, phase # "done" PROVE HaltsAreReported
  BY DEF Quiet, HaltsAreReported, Refused

LEMMA MovesIInv ==
  ASSUME IInv, LedgerMoves PROVE IInv' /\ phase' # "done"
  <1> USE DEF LedgerMoves, IInv, staging, hooks, end
  <1>1. TypeOK'
    <2>1. spent \in Nat /\ cap \in Caps
      BY DEF TypeOK
    <2>2. spent' \in Nat
      BY <2>1, ToolGateAssumption DEF ToolGateAssumption
    <2>3. cap' \in Caps
      BY <2>1
    <2>4. UNCHANGED <<request, phase, mapped, calls, staging, rulings, verdicts, hooks, end>>
      OBVIOUS
    <2> QED BY <2>2, <2>3, <2>4 DEF TypeOK
  <1>2. Untouched' /\ Recorded' /\ Mapped' /\ RanOnVerdicts' /\ Quiet'
    BY DEF Untouched, Recorded, Mapped, RanOnVerdicts, Quiet, Admits
  <1>3. Backed'
    BY DEF Backed, Admits, Batch, IsBatch, Starves
  <1> QED BY <1>1, <1>2, <1>3

LEMMA MapsIInv ==
  ASSUME IInv, NEW n \in 1 .. MaxCalls, NEW cs \in [1 .. n -> Call], MapperReturns(cs)
  PROVE  IInv' /\ phase' # "done"
  <1> USE DEF MapperReturns, IInv, ledger, staging, hooks, end
  <1>1. n \in Nat /\ n >= 1
    BY ToolGateAssumption DEF ToolGateAssumption
  <1>2. cs \in Seq(Call) /\ Len(cs) = n
    BY <1>1
  <1>3. TypeOK'
    <2>1. calls' \in Seq(Call) /\ Len(calls') \in Nat
      BY <1>2
    <2>2. rulings' = <<>> /\ verdicts' = <<>>
      BY DEF Untouched
    <2>3. Len(rulings') <= Len(calls') /\ Len(verdicts') <= Len(calls')
      BY <2>1, <2>2
    <2>4. phase' \in {"reading", "checking"} /\ mapped' = "calls"
          /\ UNCHANGED <<request, ledger, staging, rulings, verdicts, hooks, end>>
      OBVIOUS
    <2> QED BY <2>1, <2>2, <2>3, <2>4 DEF TypeOK
  <1>4. phase = "mapping" /\ phase' \in {"reading", "checking"} /\ calls' = cs
        /\ mapped' = "calls"
    OBVIOUS
  <1>5. verdicts' = <<>> /\ rulings' = <<>> /\ outcome' = "none"
    BY <1>4 DEF Untouched
  <1>6. Untouched' /\ Recorded' /\ Mapped' /\ RanOnVerdicts' /\ Quiet'
    BY <1>1, <1>2, <1>4, <1>5 DEF Untouched, Recorded, Mapped, RanOnVerdicts, Quiet
  <1>7. Backed'
    BY <1>5 DEF Backed
  <1> QED BY <1>3, <1>4, <1>6, <1>7

LEMMA ReadsIInv ==
  ASSUME IInv, ReadPolicy \/ ReadWindow \/ StartChecking
  PROVE  IInv' /\ phase' # "done"
  <1> USE DEF ReadPolicy, ReadWindow, StartChecking, IInv, ledger, staging, hooks, end
  <1>1. TypeOK'
    <2>1. cap \in Nat /\ spent \in Nat /\ request.policy \in Nat \cup {None}
          /\ request.window \in Nat \cup {None}
      <3>1. cap \in Caps /\ spent \in Nat /\ request \in Requests
        BY DEF TypeOK
      <3>2. Amounts \subseteq Nat /\ Caps \subseteq Nat
        BY ToolGateAssumption DEF ToolGateAssumption
      <3> QED BY <3>1, <3>2, SnapshotsTyped
    <2>2. /\ policy \in Nat \cup {Pending, Unavailable}
          /\ window \in Nat \cup {Pending, Unavailable}
      BY DEF TypeOK
    <2>3. policy' \in Nat \cup {Pending, Unavailable}
      BY <2>1, <2>2
    <2>4. window' \in Nat \cup {Pending, Unavailable}
      BY <2>1, <2>2
    <2>5. phase' \in {"reading", "checking"}
      OBVIOUS
    <2>6. UNCHANGED <<request, mapped, calls, ledger, staged, starved, rulings,
                      verdicts, hooks, end>>
      OBVIOUS
    <2> QED BY <2>3, <2>4, <2>5, <2>6 DEF TypeOK
  <1>2. phase = "reading" /\ phase' \in {"reading", "checking"}
    OBVIOUS
  <1>3. UNCHANGED <<mapped, calls, rulings, verdicts, hooks, end>>
    OBVIOUS
  <1>4. Untouched' /\ Recorded' /\ Mapped' /\ RanOnVerdicts' /\ Quiet'
    BY <1>2, <1>3 DEF Untouched, Recorded, Mapped, RanOnVerdicts, Quiet
  <1>5. verdicts' = <<>> /\ rulings' = <<>>
    BY <1>2, <1>3 DEF Untouched
  <1>6. Backed'
    BY <1>5 DEF Backed
  <1> QED BY <1>1, <1>2, <1>4, <1>6

LEMMA ChecksIInv ==
  ASSUME IInv, CheckNext PROVE IInv' /\ phase' # "done"
  <1> USE DEF IInv, ledger, staging, hooks, end
  <1>1. /\ phase = "checking" /\ Len(verdicts) < Len(calls) /\ Coming # Malformed
        /\ UNCHANGED <<request, phase, mapped, calls, ledger, policy, window, hooks, end>>
    BY DEF CheckNext
  <1>2. PICK ruling \in Rules(Coming) :
          rulings' = Append(rulings, ruling) /\ Stage(Coming, ruling)
    BY DEF CheckNext
  <1>3. ruling \in Kinds
    BY <1>2 DEF Rules, Kinds
  <1>4. /\ calls \in Seq(Call) /\ verdicts \in Seq(Kinds) /\ rulings \in Seq(Kinds)
        /\ Len(calls) \in Nat /\ Len(verdicts) \in Nat /\ Len(rulings) \in Nat
    <2>1. calls \in Seq(Call) /\ verdicts \in Seq(Kinds) /\ rulings \in Seq(Kinds)
      BY DEF TypeOK
    <2> QED BY <2>1
  <1>5. Coming \in Call \ {Malformed}
    BY <1>1, <1>4 DEF Coming
  <1>6. PICK v \in Kinds :
          /\ verdicts' = Append(verdicts, v)
          /\ v = "admissible" => ruling = "admissible" /\ (Batch => ~Starves(Coming))
          /\ staged' \in Nat /\ starved' \in BOOLEAN
    BY <1>2, <1>3, <1>5, StageResult
  <1>7. verdicts' \in Seq(Kinds) /\ Len(verdicts') = Len(verdicts) + 1
    BY <1>4, <1>6
  <1>8. rulings' \in Seq(Kinds) /\ Len(rulings') = Len(rulings) + 1
    BY <1>2, <1>3, <1>4
  <1>9. Backed'
    <2> SUFFICES ASSUME Admits(verdicts')
                 PROVE  /\ Len(rulings') = Len(verdicts')
                        /\ \A i \in DOMAIN rulings' : rulings'[i] = "admissible"
                        /\ Batch => \A i \in DOMAIN verdicts' : ~Starves(calls[i])
      BY <1>1 DEF Backed, Batch, IsBatch, Starves
    <2>1. /\ \A i \in DOMAIN verdicts : verdicts'[i] = verdicts[i]
          /\ verdicts'[Len(verdicts) + 1] = v
          /\ DOMAIN verdicts = 1 .. Len(verdicts)
          /\ DOMAIN verdicts' = 1 .. (Len(verdicts) + 1)
      BY <1>4, <1>6, <1>7
    <2>2. Admits(verdicts) /\ v = "admissible"
      BY <1>4, <2>1 DEF Admits
    <2>3. /\ Len(rulings) = Len(verdicts) /\ ruling = "admissible"
          /\ \A i \in DOMAIN rulings : rulings[i] = "admissible"
          /\ Batch => \A i \in DOMAIN verdicts : ~Starves(calls[i])
          /\ Batch => ~Starves(calls[Len(verdicts) + 1])
      BY <1>6, <2>2 DEF Backed, Coming
    <2>4. \A i \in DOMAIN rulings' : rulings'[i] = "admissible"
      BY <1>2, <1>3, <1>4, <2>3
    <2>5. Batch => \A i \in DOMAIN verdicts' : ~Starves(calls[i])
      BY <1>4, <2>1, <2>3
    <2> QED BY <1>7, <1>8, <2>3, <2>4, <2>5
  <1>10. TypeOK'
    <2>1. Len(verdicts') <= Len(calls')
      BY <1>1, <1>4, <1>7
    <2>2. Len(rulings') <= Len(verdicts') /\ Len(rulings') \in Nat /\ Len(verdicts') \in Nat
      BY <1>4, <1>7, <1>8 DEF Recorded
    <2>3. Len(rulings') <= Len(calls')
      BY <1>1, <1>4, <2>1, <2>2
    <2> QED BY <1>1, <1>6, <1>7, <1>8, <2>1, <2>3 DEF TypeOK
  <1>11. Recorded'
    BY <1>4, <1>7, <1>8 DEF Recorded
  <1>12. Untouched' /\ Mapped' /\ RanOnVerdicts' /\ Quiet'
    BY <1>1 DEF Untouched, Mapped, RanOnVerdicts, Quiet
  <1> QED BY <1>1, <1>9, <1>10, <1>11, <1>12

LEMMA InterceptorIInv ==
  ASSUME IInv, InterceptorThrows PROVE IInv' /\ phase' # "done"
  <1> USE DEF IInv, ledger, staging, hooks, end
  <1>1. /\ phase = "checking" /\ verdicts = <<>>
        /\ UNCHANGED <<request, phase, mapped, calls, ledger, staging, rulings, hooks, end>>
    BY DEF InterceptorThrows
  <1>2. PICK k \in {"blocked", "undetermined"} : verdicts' = [i \in DOMAIN calls |-> k]
    BY DEF InterceptorThrows
  <1>3. calls \in Seq(Call) /\ rulings \in Seq(Kinds) /\ k \in Kinds
    BY DEF TypeOK, Kinds
  <1>4. verdicts' \in Seq(Kinds) /\ Len(verdicts') = Len(calls)
    BY <1>2, <1>3, AllOfAKind
  <1>5. Len(rulings) = 0 /\ Len(calls) >= 1 /\ Len(calls) \in Nat
    <2>1. Len(rulings) <= 0 /\ Len(calls) >= 1
      BY <1>1 DEF Recorded, Mapped
    <2> QED BY <1>3, <2>1
  <1>6. ~Admits(verdicts')
    <2>1. 1 \in DOMAIN calls
      BY <1>3, <1>5
    <2> QED BY <1>2, <2>1 DEF Admits
  <1>7. TypeOK'
    <2>1. Len(rulings) <= Len(calls) /\ Len(verdicts') <= Len(calls)
      BY <1>4, <1>5
    <2> HIDE DEF IInv
    <2>2. TypeOK
      BY DEF IInv
    <2>3. /\ UNCHANGED <<request, phase, mapped, calls, cap, spent, moved, policy, window,
                         staged, starved, rulings, observed, alerts, logged, outcome, reply>>
          /\ verdicts' \in Seq(Kinds)
      BY <1>1, <1>4
    <2> HIDE DEF ledger, staging, hooks, end
    <2>4. /\ calls' \in Seq(Call) /\ rulings' \in Seq(Kinds) /\ verdicts' \in Seq(Kinds)
          /\ alerts' \in Seq(Kinds)
      BY <2>2, <2>3 DEF TypeOK
    <2>5. Len(rulings') <= Len(calls') /\ Len(verdicts') <= Len(calls')
      BY <2>1, <2>3
    <2>6. request' \in Requests /\ cap' \in Caps /\ spent' \in Nat /\ moved' \in BOOLEAN
      BY <2>2, <2>3 DEF TypeOK
    <2>7. staged' \in Nat /\ starved' \in BOOLEAN /\ observed' \in Nat /\ logged' \in Nat
      BY <2>2, <2>3 DEF TypeOK
    <2>8. /\ policy' \in Nat \cup {Pending, Unavailable}
          /\ window' \in Nat \cup {Pending, Unavailable}
      BY <2>2, <2>3 DEF TypeOK
    <2>9. UNCHANGED <<phase, mapped, outcome, reply>>
      BY <2>3
    <2> QED BY <2>2, <2>4, <2>5, <2>6, <2>7, <2>8, <2>9 DEF TypeOK
  <1>8. Untouched' /\ Recorded' /\ Mapped' /\ RanOnVerdicts' /\ Quiet'
    BY <1>1, <1>4, <1>5 DEF Untouched, Recorded, Mapped, RanOnVerdicts, Quiet
  <1> QED BY <1>1, <1>6, <1>7, <1>8 DEF Backed

-----------------------------------------------------------------------------
(* The steps that end a request.                                           *)

\* A request that ends without a hook being called, and does not run mapped
\* calls.
LEMMA EndsQuietly ==
  ASSUME IInv, phase # "done", phase' = "done",
         outcome' \in {"ran", "threw", "misconfigured", "inapplicable"},
         reply' = "none", outcome' = "ran" => mapped' # "calls",
         mapped' \in {"nothing", "null", "undefined", "empty", mapped},
         UNCHANGED <<request, calls, ledger, staging, rulings, verdicts, hooks>>
  PROVE  IInv' /\ HaltsAreReported'
  <1> USE DEF IInv, ledger, staging, hooks
  <1>1. TypeOK'
    <2>1. mapped' \in {"nothing", "failure", "null", "undefined", "empty", "calls"}
      BY DEF TypeOK
    <2>2. outcome' \in {"none", "ran", "blocked", "undetermined", "threw",
                       "misconfigured", "inapplicable"}
      OBVIOUS
    <2>3. UNCHANGED <<request, calls, cap, spent, moved, policy, window, staged, starved,
                      rulings, verdicts, observed, alerts, logged>>
      OBVIOUS
    <2> HIDE DEF IInv, ledger, staging, hooks
    <2>4. TypeOK
      BY DEF IInv
    <2> QED BY <2>1, <2>2, <2>3, <2>4 DEF TypeOK
  <1>2. Untouched' /\ Recorded' /\ Mapped' /\ RanOnVerdicts' /\ Quiet'
    BY DEF Untouched, Recorded, Mapped, RanOnVerdicts, Quiet
  <1>3. Backed'
    BY DEF Backed, Admits, Batch, IsBatch, Starves
  <1>4. HaltsAreReported'
    BY DEF HaltsAreReported, Refused, Quiet
  <1> QED BY <1>1, <1>2, <1>3, <1>4

LEMMA AnswersTyped ==
  ASSUME NEW kind \in {"blocked", "undetermined"}
  PROVE  Answer(kind) \in {"error ToolMessage", "isError result", "false",
                          "GuardBlockedError", "GuardUndeterminedError"}
  BY DEF Answer, ToolMessage, McpResult, Thrown

\* A refusal, reported as HaltsAreReported says.
LEMMA RefusesReported ==
  ASSUME IInv, phase # "done", NEW kind \in {"blocked", "undetermined"}, Refuses(kind),
         mapped' \in {"failure", mapped}, Alert(kind),
         observed' \in Nat, logged' \in Nat,
         mapped' = "calls" /\ request.caller # "host" =>
           /\ observed' = Len(verdicts)
           /\ \E i \in DOMAIN verdicts :
                /\ verdicts[i] = kind
                /\ \A j \in 1..(i - 1) : verdicts[j] = "admissible",
         logged' = (IF "onDecision" \in request.broken THEN observed' ELSE 0)
                   + (IF "onBlocked" \in request.broken THEN Len(alerts') ELSE 0),
         UNCHANGED <<request, calls, ledger, staging, rulings, verdicts>>
  PROVE  IInv' /\ HaltsAreReported'
  <1> USE DEF IInv, ledger, staging, Refuses
  <1>1. alerts = <<>> /\ outcome' = kind /\ phase' = "done" /\ reply' = Answer(kind)
    BY DEF Quiet
  <1>2. alerts' = IF request.caller \in Alerting THEN <<kind>> ELSE <<>>
    BY <1>1 DEF Alert
  <1>3. reply' \in {"error ToolMessage", "isError result", "false",
                   "GuardBlockedError", "GuardUndeterminedError"}
    BY <1>1, AnswersTyped
  <1>4. TypeOK'
    <2>1. alerts' \in Seq(Kinds)
      <3>1. kind \in Kinds /\ alerts' \in {<<>>, <<kind>>}
        BY <1>2 DEF Kinds
      <3> HIDE DEF Kinds
      <3>2. CASE alerts' = <<>>
        BY <3>2
      <3>3. CASE alerts' = <<kind>>
        BY <3>1, <3>3
      <3> QED BY <3>1, <3>2, <3>3
    <2>2. mapped' \in {"nothing", "failure", "null", "undefined", "empty", "calls"}
      BY DEF TypeOK
    <2>3. TypeOK /\ UNCHANGED <<request, calls, cap, spent, moved, policy, window, staged,
                                starved, rulings, verdicts>>
      OBVIOUS
    <2> HIDE DEF IInv, ledger, staging, Refuses
    <2> QED BY <1>1, <1>3, <2>1, <2>2, <2>3 DEF TypeOK
  <1>5. Untouched' /\ Recorded' /\ Mapped' /\ RanOnVerdicts' /\ Quiet'
    BY <1>1 DEF Untouched, Recorded, Mapped, RanOnVerdicts, Quiet
  <1>6. Backed'
    BY DEF Backed, Admits, Batch, IsBatch, Starves
  <1>7. HaltsAreReported'
    BY <1>1, <1>2, <1>3 DEF HaltsAreReported, Refused
  <1> QED BY <1>4, <1>5, <1>6, <1>7

\* The tool runs, with every verdict shown to onDecision if there is one.
LEMMA RunsReported ==
  ASSUME IInv, phase = "checking", Len(verdicts) = Len(calls), Admits(verdicts),
         Ends("ran"), UNCHANGED alerts, observed' \in Nat, logged' \in Nat,
         logged' = IF "onDecision" \in request.broken THEN observed' ELSE 0,
         UNCHANGED <<request, mapped, calls, ledger, staging, rulings, verdicts>>
  PROVE  IInv' /\ HaltsAreReported'
  <1> USE DEF IInv, ledger, staging, Ends
  <1>1. alerts' = <<>> /\ outcome' = "ran" /\ phase' = "done" /\ reply' = "none"
    BY DEF Quiet
  <1>2. TypeOK'
    <2>1. TypeOK /\ UNCHANGED <<request, mapped, calls, cap, spent, moved, policy, window,
                                staged, starved, rulings, verdicts, alerts>>
      OBVIOUS
    <2> HIDE DEF IInv, ledger, staging, Ends
    <2> QED BY <1>1, <2>1 DEF TypeOK
  <1>3. Untouched' /\ Recorded' /\ Mapped' /\ Quiet'
    BY <1>1 DEF Untouched, Recorded, Mapped, Quiet
  <1>4. RanOnVerdicts'
    BY <1>1 DEF RanOnVerdicts, Admits
  <1>5. Backed'
    BY DEF Backed, Admits, Batch, IsBatch, Starves
  <1>6. HaltsAreReported'
    <2>1. Len(alerts') = 0 /\ ~Refused'
      BY <1>1 DEF Refused
    <2>2. logged' = (IF "onDecision" \in request'.broken THEN observed' ELSE 0)
                    + (IF "onBlocked" \in request'.broken THEN Len(alerts') ELSE 0)
      <3>1. (IF "onBlocked" \in request'.broken THEN Len(alerts') ELSE 0) = 0
        BY <2>1
      <3>2. (IF "onDecision" \in request'.broken THEN observed' ELSE 0) = logged'
        OBVIOUS
      <3> HIDE DEF IInv, ledger, staging, Ends
      <3> QED BY <3>1, <3>2
    <2> QED BY <1>1, <2>1, <2>2 DEF HaltsAreReported
  <1> QED BY <1>2, <1>3, <1>4, <1>5, <1>6

LEMMA MapperFailsIInv ==
  ASSUME IInv, MapperFails PROVE IInv' /\ HaltsAreReported'
  <1> USE DEF MapperFails
  <1>1. phase # "done" /\ mapped' = "failure" /\ observed' = 0 /\ logged = 0 /\ alerts = <<>>
    BY DEF IInv, Quiet
  <1>2. logged' = IF request.caller \in Alerting /\ "onBlocked" \in request.broken
                  THEN 1 ELSE 0
    BY <1>1 DEF Failures
  <1>3. Len(alerts') = IF request.caller \in Alerting THEN 1 ELSE 0
    BY <1>1 DEF Alert
  <1> QED BY <1>1, <1>2, <1>3, RefusesReported

LEMMA ConcludesIInv ==
  ASSUME IInv, NEW caller \in Adapters, Concludes(caller)
  PROVE  IInv' /\ HaltsAreReported'
  <1> USE DEF Concludes
  <1>1. /\ phase = "checking" /\ observed = 0 /\ logged = 0 /\ alerts = <<>>
        /\ verdicts \in Seq(Kinds) /\ request.caller # "host"
    BY DEF IInv, Quiet, TypeOK, Adapters
  <1>2. observed' = Len(verdicts) /\ observed' \in Nat
    BY <1>1
  <1>3. Failures("onDecision", Len(verdicts))
          = IF "onDecision" \in request.broken THEN observed' ELSE 0
    BY <1>2 DEF Failures
  <1>4. CASE Admits(verdicts)
    <2>1. Ends("ran") /\ UNCHANGED alerts
      BY <1>4 DEF Decide
    <2>2. logged' = IF "onDecision" \in request.broken THEN observed' ELSE 0
      BY <1>1, <1>2, <1>3, <2>1 DEF Failures
    <2> QED BY <1>1, <1>2, <1>4, <2>1, <2>2, RunsReported
  <1>5. CASE ~Admits(verdicts)
    <2> DEFINE kind == FirstRefusal(verdicts)
    <2>1. Refuses(kind) /\ Alert(kind)
      BY <1>5 DEF Decide
    <2>2. kind \in {"blocked", "undetermined"}
          /\ \E i \in DOMAIN verdicts :
               /\ verdicts[i] = kind
               /\ \A j \in 1..(i - 1) : verdicts[j] = "admissible"
      BY <1>1, <1>5, FirstRefusalIsFirst
    <2>3. Len(alerts') \in Nat /\ Len(alerts) = 0
      BY <1>1, <2>1 DEF Alert
    <2>4. Failures("onBlocked", Len(alerts') - Len(alerts))
            = IF "onBlocked" \in request.broken THEN Len(alerts') ELSE 0
      BY <2>3 DEF Failures
    <2>5. logged' = (IF "onDecision" \in request.broken THEN observed' ELSE 0)
                    + (IF "onBlocked" \in request.broken THEN Len(alerts') ELSE 0)
      <3>1. logged' = logged + Failures("onDecision", Len(verdicts))
                             + Failures("onBlocked", Len(alerts') - Len(alerts))
        OBVIOUS
      <3>2. Failures("onDecision", Len(verdicts)) \in Nat
        BY <1>2, <1>3
      <3>3. Failures("onBlocked", Len(alerts') - Len(alerts)) \in Nat
        BY <2>3, <2>4
      <3>4. logged' = Failures("onDecision", Len(verdicts))
                      + Failures("onBlocked", Len(alerts') - Len(alerts))
        <4> HIDE DEF Concludes
        <4> QED BY <1>1, <3>1, <3>2, <3>3
      <3> QED BY <1>3, <2>4, <3>4
    <2>6. logged' \in Nat
      BY <1>2, <2>3, <2>5
    <2> HIDE DEF kind
    <2> QED BY <1>1, <1>2, <2>1, <2>2, <2>5, <2>6, RefusesReported
  <1> QED BY <1>4, <1>5

LEMMA HostIInv ==
  ASSUME IInv, HostConcludes PROVE IInv' /\ HaltsAreReported'
  <1> USE DEF HostConcludes
  <1>1. /\ phase = "checking" /\ observed' = 0 /\ logged' = 0 /\ alerts = <<>>
        /\ verdicts \in Seq(Kinds) /\ request.caller = "host"
    BY DEF IInv, Quiet, TypeOK
  <1>2. CASE Admits(verdicts)
    <2>1. Ends("ran") /\ UNCHANGED alerts
      BY <1>2 DEF Decide
    <2> QED BY <1>1, <1>2, <2>1, RunsReported
  <1>3. CASE ~Admits(verdicts)
    <2> DEFINE kind == FirstRefusal(verdicts)
    <2>1. Refuses(kind) /\ Alert(kind)
      BY <1>3 DEF Decide
    <2>2. kind \in {"blocked", "undetermined"}
      BY <1>1, <1>3, FirstRefusalIsFirst
    <2>3. Len(alerts') = 0
      BY <1>1, <2>1 DEF Alert, Alerting
    <2> HIDE DEF kind
    <2> QED BY <1>1, <2>1, <2>2, <2>3, RefusesReported
  <1> QED BY <1>2, <1>3

LEMMA ThrowsIInv ==
  ASSUME IInv, CheckThrows PROVE IInv' /\ HaltsAreReported'
  <1> USE DEF CheckThrows
  <1>1. /\ phase = "checking" /\ observed' = 0 /\ logged' = 0 /\ alerts' = <<>>
        /\ alerts = <<>>
    BY DEF IInv, Quiet, hooks
  <1>2. CASE Coming # Malformed /\ request.caller = "host"
    <2>1. Refuses("undetermined")
      BY <1>2
    <2>2. Alert("undetermined") /\ Len(alerts') = 0
      BY <1>1, <1>2 DEF Alert, Alerting
    <2> QED BY <1>1, <1>2, <2>1, <2>2, RefusesReported
  <1>3. CASE ~(Coming # Malformed /\ request.caller = "host")
    <2>1. Ends("threw")
      BY <1>3
    <2> QED BY <1>1, <2>1, EndsQuietly DEF Ends
  <1> QED BY <1>2, <1>3

LEMMA NothingIInv ==
  ASSUME IInv, MapperReturnsNothing PROVE IInv' /\ HaltsAreReported'
  <1> USE DEF MapperReturnsNothing, Ends
  <1>1. request.mapper \in Mappers
    BY RequestsTyped DEF IInv, TypeOK, Asked
  <1>2. mapped' \in {"null", "undefined", "empty"}
    BY <1>1 DEF NothingFor, Mappers
  <1> QED BY <1>2, EndsQuietly

LEMMA ConstructIInv ==
  ASSUME IInv, Construct
  PROVE  IInv' /\ (HaltsAreReported' \/ phase' # "done")
  <1> USE DEF Construct
  <1>1. CASE Misconfigured
    BY <1>1, EndsQuietly DEF Ends
  <1>2. CASE ~Misconfigured
    <2>1. /\ phase = "construct" /\ phase' = "mapping"
          /\ UNCHANGED <<request, mapped, calls, cap, spent, moved, policy, window, staged,
                         starved, rulings, verdicts, observed, alerts, logged, outcome, reply>>
      BY <1>2 DEF end, ledger, staging, hooks
    <2>2. TypeOK'
      BY <2>1 DEF IInv, TypeOK
    <2>3. Untouched' /\ Recorded' /\ Mapped' /\ RanOnVerdicts' /\ Quiet'
      BY <2>1 DEF IInv, Untouched, Recorded, Mapped, RanOnVerdicts, Quiet, Admits
    <2>4. Backed'
      BY <2>1 DEF IInv, Backed, Admits, Batch, IsBatch, Starves
    <2> QED BY <2>1, <2>2, <2>3, <2>4 DEF IInv
  <1> QED BY <1>1, <1>2

LEMMA StepIInv ==
  ASSUME IInv, HaltsAreReported, [Next]_vars
  PROVE  IInv' /\ HaltsAreReported'
  <1>1. ASSUME IInv', phase' # "done" PROVE HaltsAreReported'
    BY <1>1 DEF IInv, Quiet, HaltsAreReported, Refused
  <1>2. CASE LedgerMoves
    BY <1>1, <1>2, MovesIInv
  <1>3. CASE \E n \in 1..MaxCalls : \E cs \in [1..n -> Call] : MapperReturns(cs)
    BY <1>1, <1>3, MapsIInv
  <1>4. CASE ReadPolicy \/ ReadWindow \/ StartChecking
    BY <1>1, <1>4, ReadsIInv
  <1>5. CASE CheckNext
    BY <1>1, <1>5, ChecksIInv
  <1>6. CASE InterceptorThrows
    BY <1>1, <1>6, InterceptorIInv
  <1>7. CASE Construct
    BY <1>1, <1>7, ConstructIInv
  <1>8. CASE BaseDeclines \/ CannotBatch
    BY <1>8, EndsQuietly DEF BaseDeclines, CannotBatch, Ends
  <1>9. CASE MapperFails
    BY <1>9, MapperFailsIInv
  <1>10. CASE MapperReturnsNothing
    BY <1>10, NothingIInv
  <1>11. CASE CheckThrows
    BY <1>11, ThrowsIInv
  <1>12. CASE LangChainConcludes \/ McpConcludes \/ ElizaConcludes \/ VercelConcludes
    BY <1>12, ConcludesIInv
       DEF LangChainConcludes, McpConcludes, ElizaConcludes, VercelConcludes, Adapters
  <1>13. CASE HostConcludes
    BY <1>13, HostIInv
  <1>14. CASE UNCHANGED vars
    <2>1. UNCHANGED <<request, phase, mapped, calls, cap, spent, moved, policy, window,
                      staged, starved, rulings, verdicts, observed, alerts, logged,
                      outcome, reply>>
      BY <1>14 DEF vars, ledger, staging, hooks, end
    <2>2. TypeOK'
      <3>1. TypeOK
        BY DEF IInv
      <3>2. /\ policy' \in Nat \cup {Pending, Unavailable}
            /\ window' \in Nat \cup {Pending, Unavailable}
        BY <2>1, <3>1 DEF TypeOK
      <3>3. /\ calls' \in Seq(Call) /\ alerts' \in Seq(Kinds)
            /\ rulings' \in Seq(Kinds) /\ Len(rulings') <= Len(calls')
            /\ verdicts' \in Seq(Kinds) /\ Len(verdicts') <= Len(calls')
        BY <2>1, <3>1 DEF TypeOK
      <3>4. /\ request' \in Requests /\ cap' \in Caps /\ spent' \in Nat
            /\ moved' \in BOOLEAN /\ staged' \in Nat /\ starved' \in BOOLEAN
            /\ observed' \in Nat /\ logged' \in Nat
        BY <2>1, <3>1 DEF TypeOK
      <3>5. UNCHANGED <<phase, mapped, outcome, reply>>
        BY <2>1
      <3> QED BY <3>1, <3>2, <3>3, <3>4, <3>5 DEF TypeOK
    <2>3. Untouched' /\ Recorded' /\ Mapped' /\ RanOnVerdicts' /\ Quiet'
      BY <2>1 DEF IInv, Untouched, Recorded, Mapped, RanOnVerdicts, Quiet, Admits
    <2>4. Backed'
      BY <2>1 DEF IInv, Backed, Admits, Batch, IsBatch, Starves
    <2>5. HaltsAreReported'
      BY <2>1 DEF HaltsAreReported, Refused
    <2> QED BY <2>2, <2>3, <2>4, <2>5 DEF IInv
  <1> QED BY <1>2, <1>3, <1>4, <1>5, <1>6, <1>7, <1>8, <1>9, <1>10, <1>11, <1>12,
             <1>13, <1>14 DEF Next

-----------------------------------------------------------------------------
(* The theorems.                                                           *)

\* Types, and no more verdicts or rulings than calls.
THEOREM TypeCorrect == Spec => []TypeOK
  <1>1. IInv /\ HaltsAreReported /\ [Next]_vars => (IInv /\ HaltsAreReported)'
    BY StepIInv
  <1>2. IInv => TypeOK
    BY DEF IInv
  <1> QED BY <1>1, <1>2, InitIInv, PTL DEF Spec

\* A mapped tool runs only on admissible rulings, and on staged batches.
THEOREM GateFailsClosed == Spec => []FailsClosed
  <1>1. IInv /\ HaltsAreReported /\ [Next]_vars => (IInv /\ HaltsAreReported)'
    BY StepIInv
  <1>2. IInv => FailsClosed
    <2> SUFFICES ASSUME IInv, outcome = "ran", mapped = "calls"
                 PROVE  /\ Len(rulings) = Len(calls)
                        /\ \A i \in DOMAIN rulings : rulings[i] = "admissible"
                        /\ Batch => \A i \in DOMAIN calls : ~Starves(calls[i])
      BY DEF FailsClosed
    <2>1. Admits(verdicts) /\ Len(verdicts) = Len(calls)
      BY DEF IInv, RanOnVerdicts
    <2>2. DOMAIN verdicts = DOMAIN calls
      <3>1. verdicts \in Seq(Kinds) /\ calls \in Seq(Call)
        BY DEF IInv, TypeOK
      <3> QED BY <2>1, <3>1
    <2> QED BY <2>1, <2>2 DEF IInv, Backed
  <1> QED BY <1>1, <1>2, InitIInv, PTL DEF Spec

\* Every refusal is answered and alerted once, with the kind of the first one.
THEOREM HaltsReported == Spec => []HaltsAreReported
  <1>1. IInv /\ HaltsAreReported /\ [Next]_vars => (IInv /\ HaltsAreReported)'
    BY StepIInv
  <1> QED BY <1>1, InitIInv, PTL DEF Spec

-----------------------------------------------------------------------------
(* An admitted batch fits the window.                                      *)

\* The sum of the first calls exists, and adds one call at a time.
LEMMA SpendsAddUp ==
  ASSUME NEW cs \in Seq(Int)
  PROVE  /\ Spends(cs)[0] = 0
         /\ \A i \in 1 .. Len(cs) : Spends(cs)[i] = Spends(cs)[i - 1] + cs[i]
  <1> DEFINE Sums(f, n) ==
               f = [i \in 0 .. n |-> IF i = 0 THEN 0 ELSE f[i - 1] + cs[i]]
             Missing == {n \in Nat : n <= Len(cs) /\ ~\E f : Sums(f, n)}
  <1>1. Len(cs) \in Nat
    OBVIOUS
  <1>2. Missing = {}
    <2> SUFFICES ASSUME Missing # {} PROVE FALSE
      OBVIOUS
    <2>1. PICK n \in Missing : \A k \in Missing : n <= k
      <3>1. Missing \in SUBSET Nat
        OBVIOUS
      <3> HIDE DEF Missing
      <3> QED BY <3>1, LeastElement
    <2>2. n \in Nat /\ n <= Len(cs) /\ ~\E f : Sums(f, n)
      OBVIOUS
    <2>3. CASE n = 0
      <3>1. Sums([i \in 0 .. 0 |-> 0], 0)
        OBVIOUS
      <3> QED BY <2>2, <2>3, <3>1
    <2>4. CASE n # 0
      <3>1. n - 1 \in Nat /\ n - 1 <= Len(cs) /\ ~(n <= n - 1)
        BY <1>1, <2>2, <2>4
      <3>2. PICK f : Sums(f, n - 1)
        <4>1. n - 1 \notin Missing
          BY <2>1, <3>1
        <4> QED BY <3>1, <4>1
      <3> DEFINE g == [i \in 0 .. n |-> IF i = n THEN f[n - 1] + cs[n] ELSE f[i]]
      <3>3. ASSUME NEW i \in 0 .. n
            PROVE  g[i] = IF i = 0 THEN 0 ELSE g[i - 1] + cs[i]
        <4>1. CASE i = n
          <5>1. n - 1 \in 0 .. n /\ n - 1 # n
            BY <2>2, <3>1
          <5>2. g[n - 1] = f[n - 1]
            BY <5>1
          <5>3. g[n] = f[n - 1] + cs[n]
            BY <2>2
          <5> HIDE DEF g
          <5> QED BY <2>4, <4>1, <5>2, <5>3
        <4>2. CASE i # n
          <5>1. i \in 0 .. (n - 1)
            BY <2>2, <4>2
          <5>2. f[i] = IF i = 0 THEN 0 ELSE f[i - 1] + cs[i]
            BY <3>2, <5>1
          <5>3. g[i] = f[i]
            BY <4>2
          <5>4. i # 0 => g[i - 1] = f[i - 1]
            BY <2>2, <4>2
          <5> HIDE DEF g
          <5> QED BY <5>2, <5>3, <5>4
        <4> QED BY <4>1, <4>2
      <3>4. Sums(g, n)
        <4>1. g = [i \in 0 .. n |-> g[i]]
          OBVIOUS
        <4> HIDE DEF g
        <4> QED BY <3>3, <4>1
      <3> QED BY <2>2, <3>4
    <2> QED BY <2>3, <2>4
  <1>3. \E f : Sums(f, Len(cs))
    BY <1>1, <1>2
  <1>4. Spends(cs) = CHOOSE f : Sums(f, Len(cs))
    BY DEF Spends
  <1>5. Sums(Spends(cs), Len(cs))
    <2> HIDE DEF Sums
    <2> QED BY <1>3, <1>4
  <1> DEFINE s == Spends(cs)
  <1> HIDE DEF s
  <1>6. s = [i \in 0 .. Len(cs) |-> IF i = 0 THEN 0 ELSE s[i - 1] + cs[i]]
    BY <1>5 DEF s
  <1>7. s[0] = 0
    BY <1>1, <1>6
  <1>8. ASSUME NEW i \in 1 .. Len(cs) PROVE s[i] = s[i - 1] + cs[i]
    <2>1. i \in 0 .. Len(cs) /\ i # 0
      BY <1>1
    <2>2. s[i] = IF i = 0 THEN 0 ELSE s[i - 1] + cs[i]
      BY <1>6, <2>1
    <2> QED BY <2>1, <2>2
  <1> QED BY <1>7, <1>8 DEF s

LEMMA SequencesWiden ==
  ASSUME NEW S, NEW T, S \subseteq T, NEW s \in Seq(S)
  PROVE  s \in Seq(T)
  <1>1. Len(s) \in Nat /\ s = [i \in 1 .. Len(s) |-> s[i]]
    OBVIOUS
  <1>2. \A i \in 1 .. Len(s) : s[i] \in T
    OBVIOUS
  <1> QED BY <1>1, <1>2

LEMMA LastOfAppend ==
  ASSUME NEW S, NEW s \in Seq(S), NEW a \in S, NEW b \in S, Append(s, a) = Append(s, b)
  PROVE  a = b
  <1>1. Append(s, a)[Len(s) + 1] = a
    OBVIOUS
  <1>2. Append(s, b)[Len(s) + 1] = b
    OBVIOUS
  <1> QED BY <1>1, <1>2

LEMMA CallsAddUp ==
  ASSUME TypeOK
  PROVE  /\ Spends(calls)[0] = 0
         /\ \A i \in 1 .. Len(calls) :
              Spends(calls)[i] = Spends(calls)[i - 1] + calls[i]
  <1>1. Call \subseteq Int
    BY ToolGateAssumption DEF Call, Malformed, ToolGateAssumption
  <1>2. calls \in Seq(Call)
    BY Zenon DEF TypeOK
  <1>3. calls \in Seq(Int)
    BY <1>1, <1>2, SequencesWiden
  <1> QED BY <1>3, SpendsAddUp

\* What checkBatch() stages with is what the ledger holds, or unavailable; a
\* batch is checked with both settled.
Snapshots ==
  /\ ~moved /\ Truthful =>
       policy \in {Pending, Unavailable, cap} /\ window \in {Pending, Unavailable, spent}
  /\ phase = "checking" /\ Batch => policy # Pending /\ window # Pending

\* While every verdict is admissible, what is staged is the sum of the calls
\* that have one, and it fits.
StagedFits ==
  mapped = "calls" /\ Batch /\ ~moved /\ Truthful /\ cap > 0 /\ Admits(verdicts) =>
    staged = Spends(calls)[Len(verdicts)] /\ FitsWindow(staged)

\* Nothing is staged before the first check.
Unstaged == phase \in {"construct", "mapping", "reading"} => staged = 0

BatchInv == Snapshots /\ StagedFits /\ Unstaged

LEMMA InitBatch == Init => BatchInv
  BY DEF Init, BatchInv, Snapshots, StagedFits, Unstaged

\* What leaves the batch, the ledger and the verdicts alone, and does not start
\* to check.
LEMMA BatchKept ==
  ASSUME BatchInv, phase' # "checking" \/ phase = "checking",
         phase' \in {"construct", "mapping", "reading"} =>
           phase \in {"construct", "mapping", "reading"},
         mapped' # "calls" \/ mapped = "calls",
         UNCHANGED <<request, calls, cap, spent, moved, policy, window, staged, verdicts>>
  PROVE  BatchInv'
  <1>1. Snapshots'
    BY DEF BatchInv, Snapshots, Truthful, Batch, IsBatch
  <1>2. StagedFits'
    BY DEF BatchInv, StagedFits, Truthful, Batch, IsBatch, Admits, FitsWindow
  <1>3. Unstaged'
    BY DEF BatchInv, Unstaged
  <1> QED BY <1>1, <1>2, <1>3 DEF BatchInv

\* The calls arrive with nothing staged and nothing ruled on.
LEMMA BatchMapped ==
  ASSUME IInv, BatchInv, NEW n \in 1 .. MaxCalls, NEW cs \in [1 .. n -> Call],
         MapperReturns(cs)
  PROVE  BatchInv'
  <1>0. staged = 0
    BY DEF MapperReturns, BatchInv, Unstaged
  <1>1. /\ calls' = cs /\ phase' = IF IsBatch(cs) THEN "reading" ELSE "checking"
        /\ UNCHANGED <<request, cap, spent, moved, policy, window, staged, verdicts>>
    BY DEF MapperReturns, ledger, staging
  <1>2. verdicts = <<>>
    BY DEF MapperReturns, IInv, Untouched
  <1>3. Snapshots'
    BY <1>1 DEF BatchInv, Snapshots, Truthful, Batch, IsBatch
  <1>4. Spends(cs)[0] = 0
    <2>1. Call \subseteq Int
      BY ToolGateAssumption DEF Call, Malformed, ToolGateAssumption
    <2>2. n \in Nat /\ \A i \in 1 .. n : cs[i] \in Int
      <3>1. n \in Nat
        BY ToolGateAssumption DEF ToolGateAssumption
      <3>2. \A i \in 1 .. n : cs[i] \in Call
        OBVIOUS
      <3> QED BY <2>1, <3>1, <3>2
    <2>3. cs = [i \in 1 .. n |-> cs[i]]
      OBVIOUS
    <2>4. cs \in Seq(Int)
      BY <2>2, <2>3
    <2> QED BY <2>4, SpendsAddUp
  <1>5. StagedFits'
    BY <1>0, <1>1, <1>2, <1>4 DEF StagedFits, FitsWindow
  <1>6. Unstaged'
    BY <1>0, <1>1 DEF Unstaged
  <1> QED BY <1>3, <1>5, <1>6 DEF BatchInv

\* The two entries settle, and the first turn starts with nothing staged.
LEMMA BatchRead ==
  ASSUME IInv, BatchInv, ReadPolicy \/ ReadWindow \/ StartChecking
  PROVE  BatchInv'
  <1>1. /\ phase = "reading" /\ phase' \in {"reading", "checking"}
        /\ UNCHANGED <<request, mapped, calls, cap, spent, moved, staged, verdicts>>
    BY DEF ReadPolicy, ReadWindow, StartChecking, ledger, staging
  <1>2. Snapshots'
    <2>1. ASSUME ~moved, Truthful
          PROVE  /\ policy' \in {Pending, Unavailable, cap}
                 /\ window' \in {Pending, Unavailable, spent}
      <3>1. CASE ReadPolicy
        BY <2>1, <3>1 DEF ReadPolicy, BatchInv, Snapshots, Truthful
      <3>2. CASE ReadWindow
        BY <2>1, <3>2 DEF ReadWindow, BatchInv, Snapshots, Truthful
      <3>3. CASE StartChecking
        BY <2>1, <3>3 DEF StartChecking, staging, BatchInv, Snapshots
      <3> QED BY <3>1, <3>2, <3>3
    <2>2. phase' = "checking" => policy' # Pending /\ window' # Pending
      BY <1>1 DEF ReadPolicy, ReadWindow, StartChecking, staging
    <2> QED BY <1>1, <2>1, <2>2 DEF Snapshots, Truthful
  <1>3. staged = 0 /\ verdicts = <<>>
    BY <1>1 DEF BatchInv, Unstaged, IInv, Untouched
  <1>4. Spends(calls)[0] = 0
    BY CallsAddUp DEF IInv
  <1>5. StagedFits'
    BY <1>1, <1>3, <1>4 DEF StagedFits, FitsWindow
  <1> QED BY <1>1, <1>2, <1>3, <1>5 DEF BatchInv, Unstaged

\* One turn of the loop: an admissible verdict adds its call to what is staged,
\* and the sum fits the window it was staged against.
LEMMA BatchChecked ==
  ASSUME IInv, BatchInv, CheckNext PROVE BatchInv'
  <1>1. /\ phase = "checking" /\ Len(verdicts) < Len(calls) /\ Coming # Malformed
        /\ UNCHANGED <<request, phase, mapped, calls, cap, spent, moved, policy, window>>
    BY DEF CheckNext, ledger, hooks, end
  <1>2. PICK ruling \in Kinds : Stage(Coming, ruling)
    BY DEF CheckNext, Rules, Kinds
  <1>3. /\ calls \in Seq(Call) /\ verdicts \in Seq(Kinds) /\ Len(calls) \in Nat
        /\ Len(verdicts) \in Nat /\ staged \in Nat /\ spent \in Nat /\ cap \in Nat
        /\ starved \in BOOLEAN
    <2>1. calls \in Seq(Call) /\ verdicts \in Seq(Kinds)
      BY Zenon DEF IInv, TypeOK
    <2>2. cap \in Caps /\ staged \in Nat /\ spent \in Nat /\ starved \in BOOLEAN
      BY Zenon DEF IInv, TypeOK
    <2>3. cap \in Nat
      BY <2>2, ToolGateAssumption DEF ToolGateAssumption
    <2> QED BY <2>1, <2>2, <2>3
  <1>4. Coming \in Call \ {Malformed}
    BY <1>1, <1>3 DEF Coming
  <1>5. Coming \in Nat
    BY <1>4, ToolGateAssumption DEF Call, ToolGateAssumption
  <1>6. Snapshots'
    BY <1>1 DEF BatchInv, Snapshots, Truthful, Batch, IsBatch
  <1>7. ASSUME mapped = "calls", Batch, ~moved, Truthful, cap > 0, Admits(verdicts')
        PROVE  staged' = Spends(calls)[Len(verdicts')] /\ FitsWindow(staged')
    <2>1. PICK v \in Kinds : verdicts' = Append(verdicts, v)
      BY <1>2, <1>4, StageResult DEF IInv
    <2>2. Len(verdicts') = Len(verdicts) + 1 /\ v = "admissible" /\ Admits(verdicts)
      <3>1. /\ \A i \in DOMAIN verdicts : verdicts'[i] = verdicts[i]
            /\ verdicts'[Len(verdicts) + 1] = v
            /\ DOMAIN verdicts = 1 .. Len(verdicts)
            /\ DOMAIN verdicts' = 1 .. (Len(verdicts) + 1)
            /\ Len(verdicts') = Len(verdicts) + 1
        BY <1>3, <2>1
      <3> QED BY <1>3, <1>7, <3>1 DEF Admits
    <2>3. staged = Spends(calls)[Len(verdicts)] /\ FitsWindow(staged)
      BY <1>7, <2>2 DEF BatchInv, StagedFits
    <2>4. Spends(calls)[Len(verdicts')] = staged + Coming
      <3>1. Len(verdicts) + 1 \in 1 .. Len(calls)
        BY <1>1, <1>3
      <3>2. Spends(calls)[Len(verdicts) + 1]
              = Spends(calls)[Len(verdicts) + 1 - 1] + calls[Len(verdicts) + 1]
        BY <3>1, CallsAddUp DEF IInv
      <3>3. Len(verdicts) + 1 - 1 = Len(verdicts)
        BY <1>3
      <3> QED BY <2>2, <2>3, <3>2, <3>3 DEF Coming
    <2>5. CASE ruling # "admissible" \/ Coming = 0
      <3>1. staged' = staged /\ verdicts' = Append(verdicts, ruling)
        BY <1>2, <1>7, <2>5 DEF Stage, Push
      <3>2. ruling = v
        BY <1>2, <1>3, <2>1, <3>1, LastOfAppend
      <3>3. Coming = 0
        BY <2>2, <2>5, <3>2
      <3> QED BY <1>1, <1>3, <2>3, <2>4, <3>1, <3>3 DEF FitsWindow
    <2>6. CASE ~(ruling # "admissible" \/ Coming = 0)
      <3>1. /\ starved' = (starved \/ Starves(Coming))
            /\ IF starved' THEN Push("undetermined") /\ UNCHANGED staged
               ELSE IF Overspends(Coming) THEN Push("blocked") /\ UNCHANGED staged
               ELSE Push(ruling) /\ staged' = IF policy > 0 THEN staged + Coming ELSE staged
        BY <1>2, <1>7, <2>6 DEF Stage
      <3>2. ASSUME NEW w \in Kinds, Push(w) PROVE w = v
        BY <1>3, <2>1, <3>2, LastOfAppend DEF Push
      <3>3. ~starved'
        BY <2>2, <3>1, <3>2 DEF Kinds
      <3>4. ~Overspends(Coming)
        BY <2>2, <3>1, <3>2, <3>3 DEF Kinds
      <3>5. staged' = IF policy > 0 THEN staged + Coming ELSE staged
        BY <3>1, <3>3, <3>4
      <3>6. ~Starves(Coming)
        BY <3>1, <3>3
      <3>7. policy = cap /\ window = spent
        <4>1. /\ policy \in {Pending, Unavailable, cap} /\ policy # Pending
              /\ window \in {Pending, Unavailable, spent} /\ window # Pending
          BY <1>1, <1>7 DEF BatchInv, Snapshots
        <4>2. Coming > 0
          BY <1>5, <2>6
        <4>3. policy = cap
          BY <3>6, <4>1, <4>2 DEF Starves
        <4> QED BY <1>7, <3>6, <4>1, <4>2, <4>3 DEF Starves
      <3>8. spent + staged + Coming <= cap
        <4>1. spent + staged + Coming \in Nat
          BY <1>3, <1>5
        <4> QED BY <1>3, <1>7, <3>4, <3>7, <4>1 DEF Overspends
      <3>9. staged' = staged + Coming
        BY <1>7, <3>5, <3>7
      <3>10. FitsWindow(staged')
        BY <1>1, <1>3, <1>5, <3>8, <3>9 DEF FitsWindow
      <3> QED BY <2>4, <3>9, <3>10
    <2> QED BY <2>5, <2>6
  <1>8. StagedFits'
    BY <1>1, <1>7 DEF StagedFits, Truthful, Batch, IsBatch, FitsWindow
  <1> QED BY <1>1, <1>6, <1>8 DEF BatchInv, Unstaged

\* A batch whose interceptor refuses it has no admissible verdicts.
LEMMA BatchRefused ==
  ASSUME IInv, BatchInv, InterceptorThrows PROVE BatchInv'
  <1>1. /\ phase = "checking"
        /\ UNCHANGED <<request, phase, mapped, calls, cap, spent, moved, policy, window,
                       staged>>
    BY DEF InterceptorThrows, ledger, staging, hooks, end
  <1>2. PICK k \in {"blocked", "undetermined"} : verdicts' = [i \in DOMAIN calls |-> k]
    BY DEF InterceptorThrows
  <1>3. 1 \in DOMAIN calls
    <2>1. calls \in Seq(Call)
      BY Zenon DEF IInv, TypeOK
    <2>2. Len(calls) >= 1
      BY <1>1 DEF IInv, Mapped
    <2> QED BY <2>1, <2>2
  <1>4. ~Admits(verdicts')
    BY <1>2, <1>3 DEF Admits
  <1>5. StagedFits'
    BY <1>4 DEF StagedFits
  <1>6. Snapshots' /\ Unstaged'
    BY <1>1 DEF BatchInv, Snapshots, Unstaged, Truthful, Batch, IsBatch
  <1> QED BY <1>5, <1>6 DEF BatchInv

LEMMA StepBatch ==
  ASSUME IInv, BatchInv, [Next]_vars PROVE BatchInv'
  <1>1. CASE LedgerMoves
    <2>1. moved' = TRUE /\ UNCHANGED <<request, phase, calls, policy, window, staged>>
      BY <1>1 DEF LedgerMoves, staging
    <2> QED BY <2>1 DEF BatchInv, Snapshots, StagedFits, Unstaged, Batch, IsBatch
  <1>2. CASE \E n \in 1..MaxCalls : \E cs \in [1..n -> Call] : MapperReturns(cs)
    BY <1>2, BatchMapped
  <1>3. CASE ReadPolicy \/ ReadWindow \/ StartChecking
    BY <1>3, BatchRead
  <1>4. CASE CheckNext
    BY <1>4, BatchChecked
  <1>5. CASE InterceptorThrows
    BY <1>5, BatchRefused
  <1>6. CASE Construct
    BY <1>6, BatchKept DEF Construct, ledger, staging, Ends
  <1>7. CASE BaseDeclines \/ CannotBatch \/ CheckThrows
    BY <1>7, BatchKept DEF BaseDeclines, CannotBatch, CheckThrows, Ends, Refuses,
                           ledger, staging
  <1>8. CASE MapperFails
    BY <1>8, BatchKept DEF MapperFails, Refuses, ledger, staging
  <1>9. CASE MapperReturnsNothing
    <2>1. mapped' # "calls"
      <3>1. request.mapper \in Mappers
        BY RequestsTyped, Zenon DEF IInv, TypeOK, Asked
      <3> QED BY <1>9, <3>1 DEF MapperReturnsNothing, NothingFor, Mappers
    <2> QED BY <1>9, <2>1, BatchKept DEF MapperReturnsNothing, Ends, ledger, staging
  <1>10. CASE HostConcludes \/ \E caller \in Adapters : Concludes(caller)
    <2>1. /\ phase = "checking"
          /\ UNCHANGED <<request, mapped, calls, cap, spent, moved, policy, window, staged,
                         verdicts>>
      BY <1>10 DEF HostConcludes, Concludes, ledger, staging
    <2>2. phase' = "done"
      BY <1>10 DEF HostConcludes, Concludes, Decide, Ends, Refuses
    <2> QED BY <2>1, <2>2, BatchKept
  <1>11. CASE UNCHANGED vars
    BY <1>11, BatchKept DEF vars, ledger, staging
  <1>12. LangChainConcludes \/ McpConcludes \/ ElizaConcludes \/ VercelConcludes
           => \E caller \in Adapters : Concludes(caller)
    BY DEF LangChainConcludes, McpConcludes, ElizaConcludes, VercelConcludes, Adapters
  <1> QED BY <1>1, <1>2, <1>3, <1>4, <1>5, <1>6, <1>7, <1>8, <1>9, <1>10, <1>11, <1>12
          DEF Next

\* The transfers of an admitted batch fit the rolling window together.
THEOREM BatchesFit == Spec => []AdmittedBatchFits
  <1> DEFINE All == IInv /\ HaltsAreReported /\ BatchInv
  <1>1. Init => All
    BY InitIInv, InitBatch
  <1>2. All /\ [Next]_vars => All'
    BY StepIInv, StepBatch
  <1>3. All => AdmittedBatchFits
    <2> SUFFICES ASSUME IInv, BatchInv, outcome = "ran", mapped = "calls", Batch, ~moved,
                        Truthful, cap > 0
                 PROVE  FitsWindow(Spends(calls)[Len(calls)])
      BY DEF AdmittedBatchFits
    <2>1. Admits(verdicts) /\ Len(verdicts) = Len(calls)
      BY DEF IInv, RanOnVerdicts
    <2>2. staged = Spends(calls)[Len(verdicts)] /\ FitsWindow(staged)
      BY <2>1 DEF BatchInv, StagedFits
    <2> QED BY <2>1, <2>2
  <1> QED BY <1>1, <1>2, <1>3, PTL DEF Spec

=============================================================================
