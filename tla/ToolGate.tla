----------------------------- MODULE ToolGate -----------------------------
(***************************************************************************)
(* One agent action at the gate: a framework adapter (langchain.ts, mcp.ts, *)
(* elizaos.ts, vercelai.ts over shared.ts) or a host that calls             *)
(* assertAllowed() / assertBatchAllowed() itself.  The action is mapped to  *)
(* contract calls, each is ruled on by check(), a batch of them is staged   *)
(* against the rolling window (checkBatch() of preflight.ts), and the tool  *)
(* runs or does not.  The guard's state on the ledger may move meanwhile.   *)
(*                                                                         *)
(* A call is its positive transfer amount, 0 when it transfers nothing, or  *)
(* Malformed when check() rejects it (InvalidInputError).  check() itself   *)
(* is Preflight's subject; here it rules as the ledger stands, or cannot    *)
(* rule.  Abstracted: texts, fees, observers' arguments, onStep, signals    *)
(* and timeouts (an abort is an undetermined ruling).                       *)
(***************************************************************************)
EXTENDS Integers, Sequences

CONSTANTS Amounts,    \* positive transfer amounts
          Caps,       \* window_cap values, 0 for none
          MaxCalls,   \* bound: calls of one action
          None        \* not supplied

ASSUME ToolGateAssumption ==
  /\ Amounts \subseteq Nat \ {0} /\ Caps \subseteq Nat /\ MaxCalls \in Nat
  /\ None \notin Nat

VARIABLES
  request,    \* who asks, and the options it was built with
  phase,      \* what the gate does next
  mapped,     \* what the mapper returned: "calls", "null", "undefined", ...
  calls,      \* the mapped calls
  cap,        \* the guard's window_cap on the ledger
  spent,      \* the spend committed to its window
  moved,      \* history: the ledger's guard state moved since the request
  policy,     \* checkBatch(): the policy it stages with
  window,     \* checkBatch(): the committed spend it stages on
  rulings,    \* history: what check() answered for each call so far
  verdicts,   \* the verdicts the caller gets
  staged,     \* stagedWindowSpent
  starved,    \* stagingUnavailableDetail is set
  observed,   \* onDecision calls
  alerts,     \* the kinds onBlocked was called with
  logged,     \* hook failures swallowed
  outcome,    \* how the action ended
  reply       \* what the caller's framework sees of a refusal

ledger == <<cap, spent, moved>>
staging == <<policy, window, staged, starved>>
hooks == <<observed, alerts, logged>>
end == <<outcome, reply>>
vars == <<request, phase, mapped, calls, ledger, staging, rulings, verdicts,
          hooks, end>>

Malformed == -1
Adapters == {"langchain", "mcp", "elizaos", "vercelai"}
Callers == Adapters \cup {"host"}
Hooks == {"onDecision", "onBlocked"}
Kinds == {"admissible", "blocked", "undetermined"}
Call == Amounts \cup {0, Malformed}

\* The source of an entry before and after its read, where it has no value.
Pending == -1
Unavailable == -2

\* GuardCallMapper: a single form, a batch form (which wins), or neither.
Mappers == {"none", "single", "batch"}

\* What a caller is built with: its mapper, whether its interceptor can batch,
\* the interceptor's config.policy, and which of its hooks throw.
Options(caller, hookSet) ==
  [caller : {caller}, mapper : Mappers, batchable : BOOLEAN,
   policy : Caps \cup {None}, window : {None}, broken : SUBSET hookSet]

LangChainOptions == Options("langchain", Hooks)
McpOptions == Options("mcp", Hooks)
ElizaOptions == Options("elizaos", Hooks)
VercelOptions == Options("vercelai", {"onDecision"})

\* assertAllowed(call) or assertBatchAllowed(calls, initialWindowSpent).
HostOptions ==
  [caller : {"host"}, mapper : {"single", "batch"}, batchable : {TRUE},
   policy : Caps \cup {None}, window : Amounts \cup {0, None}, broken : {{}}]

\* The callers with an onBlocked hook.
Alerting == {"langchain", "mcp", "elizaos"}

Requests == LangChainOptions \cup McpOptions \cup ElizaOptions \cup VercelOptions
            \cup HostOptions

Init ==
  /\ request \in Requests
  /\ phase = "construct" /\ mapped = "nothing" /\ calls = <<>>
  /\ cap \in Caps /\ spent \in Amounts \cup {0} /\ moved = FALSE
  /\ policy = Pending /\ window = Pending
  /\ rulings = <<>> /\ verdicts = <<>> /\ staged = 0 /\ starved = FALSE
  /\ observed = 0 /\ alerts = <<>> /\ logged = 0
  /\ outcome = "none" /\ reply = "none"

-----------------------------------------------------------------------------
(* The ledger, and ends of a request.                                      *)

\* Somebody else spends through the guard, or its owner changes the cap.
LedgerMoves ==
  /\ phase # "done" /\ ~moved /\ moved' = TRUE
  /\ \/ \E a \in Amounts : spent' = spent + a /\ UNCHANGED cap
     \/ cap' \in Caps /\ UNCHANGED spent
  /\ UNCHANGED <<request, phase, mapped, calls, staging, rulings, verdicts,
                 hooks, end>>

Ends(how) == outcome' = how /\ phase' = "done" /\ reply' = "none"

\* What a refusal of this kind looks like to the caller's framework.
ToolMessage(kind) == "error ToolMessage"
McpResult(kind) == "isError result"
Thrown(kind) == IF kind = "blocked" THEN "GuardBlockedError" ELSE "GuardUndeterminedError"
Answer(kind) ==
  CASE request.caller = "langchain" -> ToolMessage(kind)
    [] request.caller = "mcp" -> McpResult(kind)
    [] request.caller = "elizaos" -> "false"
    [] OTHER -> Thrown(kind)

Refuses(kind) == outcome' = kind /\ phase' = "done" /\ reply' = Answer(kind)

\* onDecision and onBlocked are isolated: a throw is logged, nothing more.
Failures(h, n) == IF h \in request.broken THEN n ELSE 0
Alert(kind) ==
  alerts' = IF request.caller \in Alerting THEN Append(alerts, kind) ELSE alerts

-----------------------------------------------------------------------------
(* Construction and mapping.                                               *)

\* Only two of the adapters validate their options.
Misconfigured ==
  /\ request.caller \in {"langchain", "elizaos"}
  /\ request.mapper = "none" \/ (request.mapper = "batch" /\ ~request.batchable)

Construct ==
  /\ phase = "construct"
  /\ IF Misconfigured THEN Ends("misconfigured")
     ELSE phase' = "mapping" /\ UNCHANGED end
  /\ UNCHANGED <<request, mapped, calls, ledger, staging, rulings, verdicts, hooks>>

\* ElizaOS asks the action's own validate first.
BaseDeclines ==
  /\ phase = "mapping" /\ request.caller = "elizaos"
  /\ Ends("inapplicable")
  /\ UNCHANGED <<request, mapped, calls, ledger, staging, rulings, verdicts, hooks>>

\* The mapper throws, or returns something that is not a contract call.
MapperFails ==
  /\ phase = "mapping" /\ request.mapper # "none" /\ request.caller # "host"
  /\ mapped' = "failure"
  /\ Refuses("undetermined")
  /\ Alert("undetermined")
  /\ logged' = logged + (IF request.caller \in Alerting THEN Failures("onBlocked", 1) ELSE 0)
  /\ UNCHANGED <<request, calls, ledger, staging, rulings, verdicts, observed>>

\* null, undefined, an empty batch, or no mapper at all.
NothingFor(mapper) ==
  CASE mapper = "none" -> {"undefined"}
    [] mapper = "single" -> {"null", "undefined"}
    [] mapper = "batch" -> {"null", "undefined", "empty"}

MapperReturnsNothing ==
  /\ phase = "mapping"
  /\ mapped' \in NothingFor(request.mapper)
  /\ request.caller = "host" => mapped' = "empty"
  /\ Ends("ran")
  /\ UNCHANGED <<request, calls, ledger, staging, rulings, verdicts, hooks>>

\* Two calls go to checkBatch(), as does whatever assertBatchAllowed() is given.
IsBatch(cs) == Len(cs) > 1 \/ (request.caller = "host" /\ request.mapper = "batch")
Batch == IsBatch(calls)

MapperReturns(cs) ==
  /\ phase = "mapping" /\ request.mapper # "none"
  /\ request.mapper = "single" => Len(cs) = 1
  /\ mapped' = "calls" /\ calls' = cs
  /\ phase' = IF IsBatch(cs) THEN "reading" ELSE "checking"
  /\ UNCHANGED <<request, ledger, staging, rulings, verdicts, hooks, end>>

-----------------------------------------------------------------------------
(* checkBatch(): the state it stages with.                                 *)

\* The interceptor has no checkBatch: a TypeError.
CannotBatch ==
  /\ phase = "reading" /\ ~request.batchable
  /\ Ends("threw")
  /\ UNCHANGED <<request, mapped, calls, ledger, staging, rulings, verdicts, hooks>>

\* Promise.allSettled over the two entries: they settle in any order, and one
\* may fail (or be malformed) while the other is read.  An absent entry says 0.
ReadPolicy ==
  /\ phase = "reading" /\ request.batchable /\ policy = Pending
  /\ policy' \in IF request.policy # None THEN {request.policy} ELSE {cap, Unavailable}
  /\ UNCHANGED <<request, phase, mapped, calls, ledger, window, staged, starved,
                 rulings, verdicts, hooks, end>>

ReadWindow ==
  /\ phase = "reading" /\ request.batchable /\ window = Pending
  /\ window' \in IF request.window # None THEN {request.window} ELSE {spent, Unavailable}
  /\ UNCHANGED <<request, phase, mapped, calls, ledger, policy, staged, starved,
                 rulings, verdicts, hooks, end>>

StartChecking ==
  /\ phase = "reading" /\ policy # Pending /\ window # Pending
  /\ phase' = "checking"
  /\ UNCHANGED <<request, mapped, calls, ledger, staging, rulings, verdicts,
                 hooks, end>>

-----------------------------------------------------------------------------
(* The verdicts.                                                           *)

\* What the guard's enforcement answers now: the cap is its own, the rest of
\* its rules may refuse anything, and an RPC failure leaves it undetermined.
Rules(amount) ==
  IF amount > 0 /\ cap > 0 /\ spent + amount > cap THEN {"blocked", "undetermined"} ELSE Kinds

\* What a positive transfer needs to be staged, and does not have.
Starves(amount) ==
  /\ amount > 0
  /\ policy = Unavailable \/ (policy > 0 /\ window = Unavailable)

\* Mutant: each call of the batch is measured alone.
OverspendsAlone(amount) == policy > 0 /\ window + amount > policy

Overspends(amount) == policy > 0 /\ window + staged + amount > policy

Push(v) == verdicts' = Append(verdicts, v)

\* Mutant: the loop goes on after a verdict it could not stage.
StageAndGoOn(amount, ruling) ==
  IF ~Batch \/ ruling # "admissible" \/ amount = 0
  THEN Push(ruling) /\ UNCHANGED <<staged, starved>>
  ELSE /\ starved' = (starved \/ Starves(amount))
       /\ verdicts' = verdicts \o (IF starved' THEN <<"undetermined", ruling>> ELSE <<ruling>>)
       /\ staged' = staged + amount

\* One turn of the loop over the batch, or the only check of a single call.
Stage(amount, ruling) ==
  IF ~Batch \/ ruling # "admissible" \/ amount = 0
  THEN Push(ruling) /\ UNCHANGED <<staged, starved>>
  ELSE /\ starved' = (starved \/ Starves(amount))
       /\ IF starved' THEN Push("undetermined") /\ UNCHANGED staged
          ELSE IF Overspends(amount) THEN Push("blocked") /\ UNCHANGED staged
          ELSE Push(ruling) /\ staged' = IF policy > 0 THEN staged + amount ELSE staged

Coming == calls[Len(verdicts) + 1]

CheckNext ==
  /\ phase = "checking" /\ Len(verdicts) < Len(calls) /\ Coming # Malformed
  /\ \E ruling \in Rules(Coming) :
       /\ rulings' = Append(rulings, ruling)
       /\ Stage(Coming, ruling)
  /\ UNCHANGED <<request, phase, mapped, calls, ledger, policy, window, hooks, end>>

\* check() throws.  An InvalidInputError is a TypeError and passes through; the
\* host's assert... turns any other error into a GuardUndeterminedError.
CheckThrows ==
  /\ phase = "checking" /\ Len(verdicts) < Len(calls)
  /\ IF Coming # Malformed /\ request.caller = "host" THEN Refuses("undetermined") ELSE Ends("threw")
  /\ UNCHANGED <<request, mapped, calls, ledger, staging, rulings, verdicts, hooks>>

\* A duck-typed interceptor throws a GuardError: every call gets that verdict.
InterceptorThrows ==
  /\ phase = "checking" /\ verdicts = <<>> /\ request.caller # "host"
  /\ verdicts' \in {[i \in DOMAIN calls |-> k] : k \in {"blocked", "undetermined"}}
  /\ UNCHANGED <<request, phase, mapped, calls, ledger, staging, rulings, hooks, end>>

-----------------------------------------------------------------------------
(* The end: the tool runs, or the first refusal is its answer.             *)

\* Mutant: only a block refuses.
AdmitsUnlessBlocked(vs) == \A i \in DOMAIN vs : vs[i] # "blocked"

Admits(vs) == \A i \in DOMAIN vs : vs[i] = "admissible"

\* Mutant: the kind of the batch, where a block outranks the rest.
BatchKind(vs) ==
  IF \E i \in DOMAIN vs : vs[i] = "blocked" THEN "blocked" ELSE "undetermined"

\* verdicts.find(v => !v.allowed)
FirstRefusal(vs) ==
  vs[CHOOSE i \in DOMAIN vs : vs[i] # "admissible" /\ \A j \in 1..(i - 1) : vs[j] = "admissible"]

Decide ==
  IF Admits(verdicts) THEN Ends("ran") /\ UNCHANGED alerts
  ELSE Refuses(FirstRefusal(verdicts)) /\ Alert(FirstRefusal(verdicts))

\* Every verdict is shown to onDecision, then the tool runs or is refused.
Concludes(caller) ==
  /\ phase = "checking" /\ Len(verdicts) = Len(calls) /\ request.caller = caller
  /\ observed' = observed + Len(verdicts)
  /\ Decide
  /\ logged' = logged + Failures("onDecision", Len(verdicts))
                      + Failures("onBlocked", Len(alerts') - Len(alerts))
  /\ UNCHANGED <<request, mapped, calls, ledger, staging, rulings, verdicts>>

LangChainConcludes == Concludes("langchain")
McpConcludes == Concludes("mcp")
ElizaConcludes == Concludes("elizaos")
VercelConcludes == Concludes("vercelai")

HostConcludes ==
  /\ phase = "checking" /\ Len(verdicts) = Len(calls) /\ request.caller = "host"
  /\ Decide
  /\ UNCHANGED <<request, mapped, calls, ledger, staging, rulings, verdicts,
                 observed, logged>>

Next ==
  \/ Construct \/ BaseDeclines \/ MapperFails \/ MapperReturnsNothing
  \/ \E n \in 1..MaxCalls : \E cs \in [1..n -> Call] : MapperReturns(cs)
  \/ CannotBatch \/ ReadPolicy \/ ReadWindow \/ StartChecking
  \/ CheckNext \/ CheckThrows \/ InterceptorThrows
  \/ LangChainConcludes \/ McpConcludes \/ ElizaConcludes \/ VercelConcludes
  \/ HostConcludes
  \/ LedgerMoves

Spec == Init /\ [][Next]_vars

-----------------------------------------------------------------------------
(* Properties.                                                             *)

\* Types; no more rulings or verdicts than calls.
TypeOK ==
  /\ request \in Requests
  /\ phase \in {"construct", "mapping", "reading", "checking", "done"}
  /\ mapped \in {"nothing", "failure", "null", "undefined", "empty", "calls"}
  /\ calls \in Seq(Call)
  /\ cap \in Caps /\ spent \in Nat /\ moved \in BOOLEAN
  /\ policy \in Nat \cup {Pending, Unavailable}
  /\ window \in Nat \cup {Pending, Unavailable}
  /\ rulings \in Seq(Kinds) /\ Len(rulings) <= Len(calls)
  /\ verdicts \in Seq(Kinds) /\ Len(verdicts) <= Len(calls)
  /\ staged \in Nat /\ starved \in BOOLEAN
  /\ observed \in Nat /\ logged \in Nat /\ alerts \in Seq(Kinds)
  /\ outcome \in {"none", "ran", "blocked", "undetermined", "threw",
                  "misconfigured", "inapplicable"}
  /\ reply \in {"none", "error ToolMessage", "isError result", "false",
                "GuardBlockedError", "GuardUndeterminedError"}

\* A tool whose action maps to contract calls runs only when the guard itself
\* ruled every one of them admissible, and no transfer of a batch was let
\* through for want of the policy or the window it had to be staged against.
FailsClosed ==
  outcome = "ran" /\ mapped = "calls" =>
    /\ Len(rulings) = Len(calls)
    /\ \A i \in DOMAIN rulings : rulings[i] = "admissible"
    /\ Batch => \A i \in DOMAIN calls : ~Starves(calls[i])

\* What the caller supplied is what the ledger holds.
Truthful == request.policy \in {None, cap} /\ request.window \in {None, spent}

\* What the first calls of a batch spend: Spends(cs)[i] is the first i's sum.
Spends(cs) ==
  LET sum[i \in 0..Len(cs)] == IF i = 0 THEN 0 ELSE sum[i - 1] + cs[i] IN sum

FitsWindow(amount) == amount > 0 => spent + amount <= cap

\* Each transfer of an admitted batch may fit the window alone; together they
\* fit it too, if the ledger stood still and the caller's snapshots were right.
AdmittedBatchFits ==
  outcome = "ran" /\ mapped = "calls" /\ Batch /\ ~moved /\ Truthful /\ cap > 0
    => FitsWindow(Spends(calls)[Len(calls)])

Refused == outcome \in {"blocked", "undetermined"}

\* An operator is alerted exactly once of each refusal, with the kind the agent
\* was refused with, that of the first refused call, and of nothing else; a
\* hook that throws changes no outcome and is only logged.
HaltsAreReported ==
  /\ Refused <=> reply # "none"
  /\ alerts = IF Refused /\ request.caller \in Alerting THEN <<outcome>> ELSE <<>>
  /\ Refused /\ mapped = "calls" /\ request.caller # "host" =>
       /\ observed = Len(verdicts)
       /\ \E i \in DOMAIN verdicts :
            /\ verdicts[i] = outcome
            /\ \A j \in 1..(i - 1) : verdicts[j] = "admissible"
  /\ logged = (IF "onDecision" \in request.broken THEN observed ELSE 0)
              + (IF "onBlocked" \in request.broken THEN Len(alerts) ELSE 0)

=============================================================================
