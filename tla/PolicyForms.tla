---------------------------- MODULE PolicyForms ----------------------------
(***************************************************************************)
(* The forms a guard policy takes between an operator's editor and the     *)
(* guard, as operators over records: the JavaScript object (policy.ts), the *)
(* version-1 JSON (policy-json.ts), the struct set_policy stores, and what  *)
(* is said about them: three client-side validators (validateGuardPolicy,   *)
(* validateGuardPolicyAgainstSchema, validatePolicyForEncoding), the         *)
(* contract's own rules, and policyDiff.                                    *)
(*                                                                         *)
(* A field of a JavaScript object may be Absent, Null, or Junk (a value of   *)
(* a type nobody asked for); Numeral is the one string that reads as an      *)
(* integer (1).  Integers are bounded by small wire widths.  A failure is    *)
(* <<field, rule>>: list indices and messages are left out.                 *)
(***************************************************************************)
EXTENDS Integers, Sequences, FiniteSets, Functions

CONSTANTS Accounts, Contracts,  \* valid G... and C... addresses
          Guard,                \* the guard's own address
          Malformed,            \* a string that is no address
          Symbols,              \* function names that are Soroban symbols
          OddName,              \* a function name that is not one
          Absent, Null, Junk, Numeral,
          I128Max, U64Max, U32Max,  \* the wire widths, made small
          MaxEntries                \* maxRecipientEntries

Integer128 == {"per_tx_cap", "window_cap"}
Unsigned64 == {"window_secs", "active_from", "active_until", "dms_grace_secs"}
Integers_ == Integer128 \cup Unsigned64
Flags == {"allow_any_recipient", "paused"}
RequiredLists == {"assets", "protocols", "recipients"}
OptionalLists == {"recipient_window_caps", "blocked_recipients"}
Required == Integers_ \cup Flags \cup RequiredLists
Fields == Required \cup OptionalLists
             \cup {"protocol_calls_per_window", "asset_caps"}

(* What a field may hold, whatever its editor did.                          *)
NotLists == {Absent, Null, Junk}
Addresses == Accounts \cup Contracts \cup {Malformed}
Names == Symbols \cup {OddName, Junk}
ProtocolRule == [contract : Addresses, fns : Seq(Names) \cup NotLists,
                 paused : BOOLEAN \cup {Absent}]
WindowCap == [recipient : Addresses, cap : Int]
FieldValues(f) ==
  CASE f \in Integers_ -> Int \cup NotLists \cup {Numeral}
    [] f \in Flags -> BOOLEAN \cup NotLists
    [] f = "protocols" -> Seq(ProtocolRule) \cup NotLists
    [] f \in {"recipient_window_caps", "asset_caps"} -> Seq(WindowCap) \cup NotLists
    [] f = "protocol_calls_per_window" -> Int \cup {Absent}
    [] OTHER -> Seq(Addresses) \cup NotLists
IsForm(p) == /\ p = [f \in Fields |-> p[f]]
             /\ \A f \in Fields : p[f] \in FieldValues(f)

ASSUME PolicyFormsAssumption ==
  /\ Guard \in Contracts
  /\ {I128Max, U64Max, U32Max, MaxEntries} \subseteq Nat
  /\ Absent # Null /\ Absent # Junk /\ Null # Junk
  /\ Numeral \notin NotLists /\ Junk \notin Symbols
  /\ \A v \in NotLists \cup {Numeral} :
       /\ v \notin Int /\ v \notin BOOLEAN
       /\ v \notin Seq(Addresses \cup Names \cup ProtocolRule \cup WindowCap)

Or(v, default) == IF v \in {Absent, Null} THEN default ELSE v
When(condition, failure) == IF condition THEN {failure} ELSE {}

isContractAddress(a) == a \in Contracts
isAccountAddress(a) == a \in Accounts
\* `new Address(a)` and policyAddressComparisonKey() take either kind.
isValidStellarAddress(a) == isContractAddress(a) \/ isAccountAddress(a)

isName(fn) == fn # Junk
isArray(v) == v \notin {Absent, Null, Junk}
Items(v) == IF isArray(v) THEN Range(v) ELSE {}
isIntegerLike(v) == v = Numeral \/ v \in Int
toBigInt(v) == IF v = Numeral THEN 1 ELSE v
Maximum(f) == IF f \in Unsigned64 THEN U64Max ELSE I128Max
Minimum(f) == IF f \in Unsigned64 THEN 0 ELSE -I128Max - 1
InWidth(v, f) == v \in Int /\ v >= Minimum(f) /\ v <= Maximum(f)

(* What TypeScript calls a PolicyConfig: the shape freezePolicy() and        *)
(* policyToJson() rely on, whatever the values.                             *)
RuleShape(r) == r.fns = Null \/ isArray(r.fns)
IsPolicyConfig(p) ==
  /\ \A f \in Integers_ : p[f] \in Int
  /\ \A f \in Flags : p[f] \in BOOLEAN
  /\ \A f \in RequiredLists : isArray(p[f])
  /\ \A i \in DOMAIN p.protocols : RuleShape(p.protocols[i])
  /\ \A f \in OptionalLists : p[f] = Absent \/ isArray(p[f])
  /\ p.protocol_calls_per_window = Absent \/ p.protocol_calls_per_window \in Int

-----------------------------------------------------------------------------
(* freezePolicy(): a deep copy whose rules are rebuilt from contract and fns. *)
WithoutRulePauses(p) ==
  [p EXCEPT !.protocols =
     [i \in DOMAIN p.protocols |-> [p.protocols[i] EXCEPT !.paused = Absent]]]

freezePolicy(p) == WithoutRulePauses(p)

(* DEFAULT_GUARD_POLICY, the deny-all start; per_tx_cap 100 of window_cap 500 *)
(* in an hour, with a grace of days, is 1 of 1 here.                         *)
DEFAULT_GUARD_POLICY ==
  [f \in Fields |->
     IF f \in {"per_tx_cap", "window_secs", "window_cap", "dms_grace_secs"} THEN 1
     ELSE IF f \in Integers_ THEN 0
     ELSE IF f \in Flags THEN FALSE
     ELSE IF f \in RequiredLists THEN <<>> ELSE Absent]

-----------------------------------------------------------------------------
(* policyToJson() writes a rule's pause only when it is true, and every other *)
(* field as it stands; an object it was not given has no asset_caps.         *)
JsonRule(r) == [r EXCEPT !.paused = IF r.paused = TRUE THEN TRUE ELSE Absent]
policyToJson(p) ==
  [p EXCEPT !.protocols = [i \in DOMAIN p.protocols |-> JsonRule(p.protocols[i])],
            !.asset_caps = Absent]

(* policyFromJson(): integers in width, contract addresses where a contract   *)
(* is due and account addresses where a recipient is; function names as they *)
(* come.  Nothing is defaulted.                                             *)
JsonLoads(j) ==
  /\ \A f \in Integers_ : InWidth(j[f], f)
  /\ \A a \in Items(j.assets) : isContractAddress(a)
  /\ \A r \in Items(j.protocols) : isContractAddress(r.contract)
  /\ \A a \in Items(j.recipients) \cup Items(j.blocked_recipients) :
        isAccountAddress(a)
  /\ \A c \in Items(j.recipient_window_caps) :
        isAccountAddress(c.recipient) /\ InWidth(c.cap, "window_cap")
  /\ j.protocol_calls_per_window # Absent
        => j.protocol_calls_per_window \in 0 .. U32Max
policyFromJson(j) == j

-----------------------------------------------------------------------------
(* validatePolicyForEncoding(): can the object be written as the struct?     *)
EncodingInteger(v, f) ==
  CASE v = Absent -> {<<f, "missing_field">>}
    [] v \in {Null, Junk, Numeral} -> {<<f, "invalid_type">>}
    [] OTHER -> When(~InWidth(v, f), <<f, "integer_out_of_range">>)

EncodingAddresses(list, f) ==
  CASE list = Absent -> When(f \in RequiredLists, <<f, "missing_field">>)
    [] list = Null -> When(f \in RequiredLists, <<f, "invalid_type">>)
    [] list = Junk -> {<<f, "invalid_type">>}
    [] OTHER -> When(\E a \in Range(list) : ~isValidStellarAddress(a),
                     <<f, "invalid_address">>)

EncodingBoolean(v, f) ==
  CASE v = Absent -> {<<f, "missing_field">>}
    [] v \in {Null, Junk} -> {<<f, "invalid_type">>}
    [] OTHER -> {}

EncodingProtocols(list) ==
  IF ~isArray(list)
  THEN {<<"protocols", IF list = Absent THEN "missing_field" ELSE "invalid_type">>}
  ELSE (UNION {   When(~isValidStellarAddress(r.contract),
                       <<"protocols", "invalid_address">>)
               \cup When(r.fns = Absent, <<"protocols", "missing_field">>)
               \cup When(r.fns = Junk, <<"protocols", "invalid_type">>)
               \cup When(isArray(r.fns) /\ ~(Range(r.fns) \subseteq Symbols),
                         <<"protocols", "invalid_symbol">>) : r \in Range(list)})

EncodingCaps(list) ==
  IF list \in {Absent, Null} THEN {}
  ELSE IF list = Junk THEN {<<"recipient_window_caps", "invalid_type">>}
  ELSE (UNION {   When(~isValidStellarAddress(c.recipient),
                       <<"recipient_window_caps", "invalid_address">>)
               \cup When(~InWidth(c.cap, "window_cap"),
                         <<"recipient_window_caps", "integer_out_of_range">>)
                 : c \in Range(list)})

validatePolicyForEncoding(p) ==
        (UNION {EncodingInteger(p[f], f) : f \in Integers_})
   \cup (UNION {EncodingAddresses(p[f], f) :
                  f \in {"assets", "recipients", "blocked_recipients"}})
   \cup (UNION {EncodingBoolean(p[f], f) : f \in Flags})
   \cup EncodingProtocols(p.protocols)
   \cup EncodingCaps(p.recipient_window_caps)

(* policyToScVal() throws on a failure above, and on a calls-per-window count *)
(* that is not a u32.                                                       *)
Encodes(p) ==
  /\ validatePolicyForEncoding(p) = {}
  /\ Or(p.protocol_calls_per_window, 0) \in 0 .. U32Max

policyToScVal(p) ==
  [p EXCEPT !.protocols =
              [i \in DOMAIN p.protocols |->
                 [p.protocols[i] EXCEPT !.paused = Or(@, FALSE)]],
            !.recipient_window_caps = Or(@, <<>>),
            !.blocked_recipients = Or(@, <<>>),
            !.protocol_calls_per_window = Or(@, 0),
            !.asset_caps = <<>>]

(* decodePolicy(): the strict inverse.  It refuses asset caps it has no name   *)
(* for, and leaves out what holds the contract's default.                    *)
Decodes(s) ==
  /\ Or(s.asset_caps, <<>>) = <<>>
  /\ \A f \in Integers_ : InWidth(s[f], f)
  /\ \A f \in Flags : s[f] \in BOOLEAN
  /\ \A f \in {"assets", "recipients", "blocked_recipients"} :
        \A a \in Items(s[f]) : isValidStellarAddress(a)
  /\ \A r \in Range(s.protocols) : Items(r.fns) \subseteq Symbols
  /\ Or(s.protocol_calls_per_window, 0) \in 0 .. U32Max

Omit(v, default) == IF Or(v, default) = default THEN Absent ELSE v
\* Mutant: every rule comes back running.
RuleUnpaused(r) == [r EXCEPT !.paused = Absent]
DecodedRule(r) == [r EXCEPT !.paused = IF r.paused = TRUE THEN TRUE ELSE Absent]
decodePolicy(s) ==
  [s EXCEPT !.protocols = [i \in DOMAIN s.protocols |-> DecodedRule(s.protocols[i])],
            !.recipient_window_caps = Omit(@, <<>>),
            !.blocked_recipients = Omit(@, <<>>),
            !.protocol_calls_per_window = Omit(@, 0),
            !.asset_caps = Absent]

(* decodePolicyCandidate() of fetchGuardPolicyAndWindow(): what decodePolicy() *)
(* refuses is taken as the native value of the entry instead.                *)
decodePolicyCandidate(s) == IF Decodes(s) THEN decodePolicy(s) ELSE s

-----------------------------------------------------------------------------
(* validateGuardPolicy(), section by section.                               *)
IntegerRules(p, f) ==
  LET v == p[f] IN
  IF v \in {Absent, Null} THEN {<<f, "missing_field">>}
  ELSE IF ~isIntegerLike(v) THEN {<<f, "invalid_type">>}
  ELSE IF toBigInt(v) < 0 THEN {<<f, "negative_amount">>}
  ELSE When(toBigInt(v) > Maximum(f), <<f, "integer_out_of_range">>)

NoWindow(p) == isIntegerLike(p.window_secs) /\ toBigInt(p.window_secs) = 0

WindowRules(p) ==
       IntegerRules(p, "window_secs") \cup IntegerRules(p, "window_cap")
  \cup When(/\ isIntegerLike(p.window_cap) /\ toBigInt(p.window_cap) > 0
            /\ NoWindow(p), <<"window_cap", "window_requires_secs">>)

Repeats(list, Taken(_)) ==
  \E i, j \in DOMAIN list : i < j /\ list[i] = list[j] /\ Taken(list[i])

ListRules(list, f, duplicate, self) ==
       When(\E a \in Range(list) : ~isValidStellarAddress(a), <<f, "invalid_address">>)
  \cup When(Repeats(list, isValidStellarAddress), <<f, duplicate>>)
  \cup When(Guard \in Range(list), <<f, self>>)

AssetRules(p) ==
  IF ~isArray(p.assets) THEN {<<"assets", "invalid_type">>}
  ELSE When(p.assets = <<>>, <<"assets", "empty_vector_noop">>)
       \cup ListRules(p.assets, "assets", "duplicate_asset", "self_as_asset")

FunctionRules(fns) ==
  IF fns \in {Absent, Null} THEN {}
  ELSE IF fns = Junk THEN {<<"protocols", "invalid_type">>}
  ELSE IF fns = <<>> THEN {<<"protocols", "empty_protocol_functions">>}
  ELSE When(Junk \in Range(fns), <<"protocols", "invalid_type">>)
       \cup When(Repeats(fns, isName), <<"protocols", "duplicate_protocol_function">>)

ProtocolRules(p) ==
  IF ~isArray(p.protocols) THEN {<<"protocols", "invalid_type">>}
  ELSE LET named == [i \in DOMAIN p.protocols |-> p.protocols[i].contract] IN
       ListRules(named, "protocols", "duplicate_protocol", "self_as_protocol")
       \cup (UNION {FunctionRules(r.fns) : r \in Range(p.protocols)})

\* Mutant: the limit itself is refused.
AtLimit(list, f) == When(Len(list) >= MaxEntries, <<f, "max_recipient_entries_exceeded">>)
TooLong(list, f) == When(Len(list) > MaxEntries, <<f, "max_recipient_entries_exceeded">>)

RecipientRules(p) ==
  IF ~isArray(p.recipients) THEN {<<"recipients", "invalid_type">>}
  ELSE When(p.recipients = <<>> /\ p.allow_any_recipient = FALSE,
            <<"recipients", "empty_vector_noop">>)
       \cup TooLong(p.recipients, "recipients")
       \cup ListRules(p.recipients, "recipients", "duplicate_recipient",
                      "self_as_recipient")

BlockedRules(p) ==
  LET b == p.blocked_recipients
      allowed == IF isArray(p.recipients) THEN Range(p.recipients) ELSE {} IN
  IF b \in {Absent, Null} THEN {}
  ELSE IF b = Junk THEN {<<"blocked_recipients", "invalid_type">>}
  ELSE TooLong(b, "blocked_recipients")
       \cup ListRules(b, "blocked_recipients", "duplicate_blocked_recipient",
                      "self_as_recipient")
       \cup When(\E a \in Range(b) : isValidStellarAddress(a) /\ a \in allowed,
                 <<"blocked_recipients", "recipient_conflict">>)

CapRules(p) ==
  LET caps == p.recipient_window_caps IN
  IF caps \in {Absent, Null} THEN {}
  ELSE IF caps = Junk THEN {<<"recipient_window_caps", "invalid_type">>}
  ELSE LET capped == [i \in DOMAIN caps |-> caps[i].recipient] IN
       TooLong(caps, "recipient_window_caps")
       \cup ListRules(capped, "recipient_window_caps",
                      "duplicate_recipient_window_cap", "self_as_recipient_cap")
       \cup (UNION {   When(c.cap < 0, <<"recipient_window_caps", "negative_amount">>)
                    \cup When(c.cap > I128Max,
                              <<"recipient_window_caps", "integer_out_of_range">>)
                    \cup When(c.cap > 0 /\ NoWindow(p),
                              <<"recipient_window_caps",
                                "recipient_cap_requires_window">>)
                      : c \in Range(caps)})

ActiveRules(p) ==
       IntegerRules(p, "active_from") \cup IntegerRules(p, "active_until")
  \cup When(/\ isIntegerLike(p.active_from) /\ isIntegerLike(p.active_until)
            /\ toBigInt(p.active_until) # 0
            /\ toBigInt(p.active_until) <= toBigInt(p.active_from),
            <<"active_until", "active_window_inverted">>)

FlagRules(p) == (UNION {When(p[f] \notin BOOLEAN, <<f, "invalid_type">>) : f \in Flags})

validateGuardPolicy(p) ==
  IntegerRules(p, "per_tx_cap") \cup WindowRules(p) \cup AssetRules(p)
  \cup ProtocolRules(p) \cup RecipientRules(p) \cup BlockedRules(p)
  \cup CapRules(p) \cup ActiveRules(p) \cup FlagRules(p)
  \cup IntegerRules(p, "dms_grace_secs")

Rules(failures) == {failure[2] : failure \in failures}

-----------------------------------------------------------------------------
(* validateGuardPolicyAgainstSchema(): the interpreted half, over the vendored *)
(* schema.  A node's checks stop at a value of the wrong type; what the schema *)
(* does not name is unknown.                                                *)
SchemaProperties == Fields \ {"protocol_calls_per_window", "asset_caps"}

SchemaRequired(p) == {<<f, "missing_field">> : f \in {g \in Required : p[g] = Absent}}

SchemaUnknown(p) ==
       {<<f, "invalid_type">> : f \in {g \in Fields \ SchemaProperties : p[g] # Absent}}
  \cup When(/\ isArray(p.protocols)
            /\ \E r \in Range(p.protocols) : r.paused # Absent,
            <<"protocols", "invalid_type">>)

SchemaInteger(v, f) ==
  IF v = Absent THEN {}
  ELSE IF ~isIntegerLike(v) THEN {<<f, "invalid_type">>}
  ELSE When(toBigInt(v) < 0, <<f, "negative_amount">>)

SchemaTypes(p) ==
       (UNION {SchemaInteger(p[f], f) : f \in Integers_})
  \cup {<<f, "invalid_type">> : f \in {g \in Flags : p[g] \in {Null, Junk}}}
  \cup {<<f, "invalid_type">> :
           f \in {g \in RequiredLists \cup OptionalLists : p[g] \in {Null, Junk}}}
  \cup When(/\ isArray(p.protocols)
            /\ \E r \in Range(p.protocols) :
                  r.fns = Junk \/ (isArray(r.fns) /\ Junk \in Range(r.fns)),
            <<"protocols", "invalid_type">>)
  \cup When(\E c \in Items(p.recipient_window_caps) : c.cap < 0,
            <<"recipient_window_caps", "negative_amount">>)

\* The two allOf branches: `then` asks for window_secs >= 1.
SchemaWindow(p, condition, rule) ==
  When(/\ condition /\ p.window_secs # Absent /\ isIntegerLike(p.window_secs)
       /\ toBigInt(p.window_secs) < 1, <<"window_secs", rule>>)
SchemaAllOf(p) ==
       SchemaWindow(p, isIntegerLike(p.window_cap) /\ toBigInt(p.window_cap) >= 1,
                    "window_requires_secs")
  \cup SchemaWindow(p, \E c \in Items(p.recipient_window_caps) : c.cap >= 1,
                    "recipient_cap_requires_window")

evaluateSchema(p) ==
  SchemaRequired(p) \cup SchemaUnknown(p) \cup SchemaTypes(p) \cup SchemaAllOf(p)

(* ... and the half its code enforces.                                      *)
arrayAt(p, f) == IF isArray(p[f]) THEN p[f] ELSE <<>>

checkAddressList(list, f, duplicate, self) ==
  LET valid == {i \in DOMAIN list : isValidStellarAddress(list[i])} IN
       When(valid # DOMAIN list, <<f, "invalid_address">>)
  \cup When(Cardinality({list[i] : i \in valid}) < Cardinality(valid), <<f, duplicate>>)
  \cup When(\E i \in valid : list[i] = Guard, <<f, self>>)

CodeFunctions(fns) ==
  IF ~isArray(fns) THEN {}
  ELSE LET named == {i \in DOMAIN fns : isName(fns[i])} IN
       When(Len(fns) = 0, <<"protocols", "empty_protocol_functions">>)
       \cup When(Cardinality({fns[i] : i \in named}) < Cardinality(named),
                 <<"protocols", "duplicate_protocol_function">>)

CodeCrossRules(p) ==
       When(\E a \in Range(arrayAt(p, "blocked_recipients")) :
               isValidStellarAddress(a) /\ a \in Range(arrayAt(p, "recipients")),
            <<"blocked_recipients", "recipient_conflict">>)
  \cup When(/\ isIntegerLike(p.active_from) /\ isIntegerLike(p.active_until)
            /\ toBigInt(p.active_until) # 0
            /\ toBigInt(p.active_until) <= toBigInt(p.active_from),
            <<"active_until", "active_window_inverted">>)
  \cup When(p.assets = <<>>, <<"assets", "empty_vector_noop">>)
  \cup When(p.recipients = <<>> /\ p.allow_any_recipient = FALSE,
            <<"recipients", "empty_vector_noop">>)

enforceCodeRules(p) ==
  LET caps == arrayAt(p, "recipient_window_caps")
      protocols == arrayAt(p, "protocols")
      capped == [i \in DOMAIN caps |-> caps[i].recipient]
      named == [i \in DOMAIN protocols |-> protocols[i].contract]
  IN   {<<f, "integer_out_of_range">> :
          f \in {g \in Integers_ : isIntegerLike(p[g]) /\ toBigInt(p[g]) > Maximum(g)}}
  \cup When(\E i \in DOMAIN caps : caps[i].cap > I128Max,
            <<"recipient_window_caps", "integer_out_of_range">>)
  \cup (UNION {When(Len(arrayAt(p, f)) > MaxEntries,
                    <<f, "max_recipient_entries_exceeded">>) :
                 f \in OptionalLists \cup {"recipients"}})
  \cup checkAddressList(arrayAt(p, "assets"), "assets", "duplicate_asset", "self_as_asset")
  \cup checkAddressList(arrayAt(p, "recipients"), "recipients", "duplicate_recipient",
                        "self_as_recipient")
  \cup checkAddressList(arrayAt(p, "blocked_recipients"), "blocked_recipients",
                        "duplicate_blocked_recipient", "self_as_recipient")
  \cup checkAddressList(capped, "recipient_window_caps",
                        "duplicate_recipient_window_cap", "self_as_recipient_cap")
  \cup checkAddressList(named, "protocols", "duplicate_protocol", "self_as_protocol")
  \cup (UNION {CodeFunctions(protocols[i].fns) : i \in DOMAIN protocols})
  \cup CodeCrossRules(p)

validateGuardPolicyAgainstSchema(p) == evaluateSchema(p) \cup enforceCodeRules(p)

-----------------------------------------------------------------------------
(* The contract's rules (external), as CONTRACT_POLICY_RULE_IDS and its        *)
(* messages name them, on the struct set_policy is given.                    *)
SelfListed(s) ==
  Guard \in    Range(s.assets) \cup Range(s.recipients) \cup Range(s.blocked_recipients)
          \cup {r.contract : r \in Range(s.protocols)}
          \cup {c.recipient : c \in Range(s.recipient_window_caps)}

ContractRules(s) ==
  LET caps == s.recipient_window_caps
      distinct(list, field) ==
        Cardinality({list[i][field] : i \in DOMAIN list}) = Len(list)
  IN   When(s.per_tx_cap < 0 \/ s.window_cap < 0, "AmountSign")
  \cup When(/\ s.window_secs = 0
            /\ s.window_cap # 0 \/ \E c \in Range(caps) : c.cap > 0,
            "WindowRequiresWidth")
  \cup When(s.active_until # 0 /\ s.active_until <= s.active_from, "ActiveWindowOrder")
  \cup When(SelfListed(s), "SelfAddressInList")
  \cup When(\E list \in {s.assets, s.recipients, s.blocked_recipients} : ~IsInjective(list),
            "DuplicateAddressInList")
  \cup When(~distinct(caps, "recipient"), "DuplicateRecipientCap")
  \cup When(\E list \in {s.recipients, s.blocked_recipients, caps} : Len(list) > MaxEntries,
            "RecipientListTooLong")
  \cup When(\E c \in Range(caps) : c.cap < 0, "RecipientCapSign")
  \cup When(Range(s.recipients) \cap Range(s.blocked_recipients) # {},
            "RecipientAllowAndBlocked")
  \cup When(~distinct(s.protocols, "contract"), "ProtocolContractDuplicate")
  \cup When(\E r \in Range(s.protocols) :
               r.fns # Null /\ (r.fns = <<>> \/ ~IsInjective(r.fns)),
            "ProtocolFnListInvalid")

-----------------------------------------------------------------------------
(* policyDiff(): <<field, kind, member>> for each change.  Lists are sets;     *)
(* rules and caps are matched by their address, the first of a repeated one   *)
(* standing for it.                                                         *)
scalar(a, b) ==
  {<<f, "changed", f>> : f \in {g \in Integers_ \cup Flags : a[g] # b[g]}}

\* Mutant: only what was added is looked for.
OnlyAdded(f, before, after) == {<<f, "added", x>> : x \in after \ before}
setDiff(f, before, after) ==
       {<<f, "removed", x>> : x \in before \ after}
  \cup {<<f, "added", x>> : x \in after \ before}

FirstWith(list, field, key) ==
  list[CHOOSE i \in DOMAIN list : /\ list[i][field] = key
                                  /\ \A j \in 1 .. i - 1 : list[j][field] # key]
Keys(list, field) == {list[i][field] : i \in DOMAIN list}

FunctionChanges(c, before, after) ==
  IF before = Null \/ after = Null
  THEN When((before = Null) # (after = Null), <<"protocols", "changed", <<c>>>>)
  ELSE setDiff("protocols", {<<c, fn>> : fn \in Range(before)},
               {<<c, fn>> : fn \in Range(after)})

protocolChanges(a, b) ==
  LET mine == Keys(a.protocols, "contract")
      theirs == Keys(b.protocols, "contract") IN
  setDiff("protocols", {<<c>> : c \in mine}, {<<c>> : c \in theirs})
  \cup (UNION {FunctionChanges(c, FirstWith(a.protocols, "contract", c).fns,
                               FirstWith(b.protocols, "contract", c).fns) :
                 c \in mine \cap theirs})

windowCaps(a, b) ==
  LET before == Or(a.recipient_window_caps, <<>>)
      after == Or(b.recipient_window_caps, <<>>)
      mine == Keys(before, "recipient")
      theirs == Keys(after, "recipient") IN
  setDiff("recipient_window_caps", mine, theirs)
  \cup {<<"recipient_window_caps", "changed", r>> :
          r \in {q \in mine \cap theirs : FirstWith(before, "recipient", q).cap
                                            # FirstWith(after, "recipient", q).cap}}

policyDiff(a, b) ==
  scalar(a, b) \cup protocolChanges(a, b) \cup windowCaps(a, b)
  \cup (UNION {setDiff(f, Items(a[f]), Items(b[f])) :
                 f \in {"assets", "recipients", "blocked_recipients"}})
=============================================================================
