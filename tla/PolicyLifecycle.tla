-------------------------- MODULE PolicyLifecycle --------------------------
(***************************************************************************)
(* An operator's session with one guard's policy: the object being edited,  *)
(* a policy file, and what the guard stores.  The object is copied by        *)
(* freezePolicy(), written and read back as JSON (loadPolicyFromFile() of    *)
(* fs.ts), sent with set_policy (admin.ts) and read back from the ledger     *)
(* (policy.ts), in any order, while another client may install a policy of   *)
(* its own.  PolicyForms has the forms and the validators.                  *)
(***************************************************************************)
EXTENDS PolicyForms

CONSTANTS Start,        \* the object the session starts with
          Values(_, _), \* the values the n-th edit may give a field
          AssetCaps,    \* asset_caps of another client's policy
          MaxEdits      \* bound: edits of a session

ASSUME PolicyLifecycleAssumption ==
  /\ MaxEdits \in Nat
  /\ IsForm(Start) /\ AssetCaps \in FieldValues("asset_caps")
  /\ \A f \in Fields, n \in 1..MaxEdits : Values(f, n) \subseteq FieldValues(f)

None == [f \in {} |-> Absent]   \* no file, no policy installed

VARIABLES
  current,    \* the policy object in the operator's hands
  json,       \* the policy file
  installed,  \* the struct the guard stores
  edits,      \* how many edits so far
  meant       \* history: for each of the three, the object it stands for

vars == <<current, json, installed, edits, meant>>
Places == {"current", "json", "installed"}

Exists(form) == form # None

(* What a policy says: lists are sets, an absent optional field is its         *)
(* default.                                                                 *)
RuleMeaning(r) == [contract |-> r.contract, paused |-> Or(r.paused, FALSE),
                   fns |-> IF r.fns = Null THEN {} ELSE {Range(r.fns)}]
Meaning(p) ==
  [f \in Fields |->
     CASE f = "protocols" -> {RuleMeaning(r) : r \in Range(p.protocols)}
       [] f \in {"assets", "recipients"} \cup OptionalLists \cup {"asset_caps"}
            -> Items(p[f])
       [] f = "protocol_calls_per_window" -> Or(p[f], 0)
       [] OTHER -> p[f]]

Init ==
  /\ current = Start
  /\ json = None /\ installed = None
  /\ edits = 0
  /\ meant = [place \in Places |-> IF place = "current" THEN current ELSE None]

(* The operator assigns a field of the object.                              *)
Edit(f) ==
  /\ edits < MaxEdits
  /\ edits' = edits + 1
  /\ \E v \in Values(f, edits') \ {current[f]} : current' = [current EXCEPT ![f] = v]
  /\ meant' = [meant EXCEPT !["current"] = current']
  /\ UNCHANGED <<json, installed>>

(* freezePolicy() loses the pauses of rules (FreezeKeepsPolicy below); the      *)
(* object now stands for what is left.                                      *)
Freeze ==
  /\ IsPolicyConfig(current)
  /\ current' = freezePolicy(current)
  /\ meant' = [meant EXCEPT !["current"] = WithoutRulePauses(@)]
  /\ UNCHANGED <<json, installed, edits>>

(* PolicyJson has no asset caps, as PolicyConfig has none.                   *)
SaveJson ==
  /\ IsPolicyConfig(current)
  /\ json' = policyToJson(current)
  /\ meant' = [meant EXCEPT !["json"] = [meant["current"] EXCEPT !.asset_caps = Absent]]
  /\ UNCHANGED <<current, installed, edits>>

(* loadPolicyFromFile(): parse, then validate; a failure leaves the operator    *)
(* with the object there was.                                               *)
Load ==
  /\ Exists(json)
  /\ JsonLoads(json)
  /\ validateGuardPolicy(policyFromJson(json)) = {}
  /\ current' = policyFromJson(json)
  /\ meant' = [meant EXCEPT !["current"] = meant["json"]]
  /\ UNCHANGED <<json, installed, edits>>

(* submitSetPolicy(): policyToScVal() may throw, the contract may refuse.       *)
Submit ==
  /\ Encodes(current)
  /\ ContractRules(policyToScVal(current)) = {}
  /\ installed' = policyToScVal(current)
  /\ meant' = [meant EXCEPT !["installed"] =
                              [meant["current"] EXCEPT !.asset_caps = Absent]]
  /\ UNCHANGED <<current, json, edits>>

(* Another client adds asset caps to what the guard stores.                  *)
ForeignSet ==
  /\ Exists(installed) /\ installed.asset_caps = <<>>
  /\ installed' = [installed EXCEPT !.asset_caps = AssetCaps]
  /\ meant' = [meant EXCEPT !["installed"].asset_caps = AssetCaps]
  /\ UNCHANGED <<current, json, edits>>

(* decodePolicy() of the entry.                                             *)
Decode ==
  /\ Exists(installed) /\ Decodes(installed)
  /\ current' = decodePolicy(installed)
  /\ meant' = [meant EXCEPT !["current"] = meant["installed"]]
  /\ UNCHANGED <<json, installed, edits>>

(* fetchGuardPolicyAndWindow(): a refusal to decode falls back to the entry's     *)
(* native value, and so does a failure of the call for both entries.          *)
Fetch ==
  /\ Exists(installed)
  /\ \/ current' = decodePolicyCandidate(installed)
     \/ current' = installed   \* its separate reads: native values only
  /\ meant' = [meant EXCEPT !["current"] = meant["installed"]]
  /\ UNCHANGED <<json, installed, edits>>

Next ==
  \/ \E f \in Fields : Edit(f)
  \/ Freeze \/ SaveJson \/ Load \/ Submit \/ ForeignSet \/ Decode \/ Fetch

Spec == Init /\ [][Next]_vars
-----------------------------------------------------------------------------
Readable(p) == /\ \A f \in RequiredLists : isArray(p[f])
               /\ \A f \in OptionalLists : p[f] # Junk
               /\ \A r \in Items(p.protocols) : RuleShape(r)

(* However a policy travelled - copied, filed, installed, fetched, refiled -   *)
(* each place holds what its object said when it was last edited: no            *)
(* conversion of policy.ts or policy-json.ts adds, drops or defaults a field     *)
(* away, but for the pauses freezePolicy() forgets and the asset caps a          *)
(* PolicyConfig cannot name.                                                *)
MeaningKept ==
  \A place \in Places :
    LET form == CASE place = "current" -> current
                  [] place = "json" -> json
                  [] place = "installed" -> installed
    IN (Exists(form) /\ Readable(form)) => Meaning(form) = Meaning(meant[place])

(* What the SDK's validators say of the object agrees.  The schema's interpreter *)
(* and validateGuardPolicy() accept the same objects (the schema names no rule   *)
(* pause, call cap or null list), and of the objects that encode, the contract   *)
(* rejects exactly those validateGuardPolicy() rejects, its two advisories for   *)
(* empty lists aside.                                                       *)
SchemaNames(p) ==
  /\ \A f \in {"protocol_calls_per_window", "asset_caps"} : p[f] = Absent
  /\ \A f \in OptionalLists : p[f] # Null
  /\ \A r \in Items(p.protocols) : r.paused = Absent

ValidatorsAgree ==
  LET mine == validateGuardPolicy(current)
      schema == validateGuardPolicyAgainstSchema(current)
  IN /\ schema = {} => mine = {}
     /\ SchemaNames(current) => (mine = {} <=> schema = {})
     /\ Encodes(current) =>
          (ContractRules(policyToScVal(current)) = {}
             <=> Rules(mine) \subseteq {"empty_vector_noop"})

(* policyDiff() of the object with the file and with what the guard stores       *)
(* names exactly the fields that say something else, in both directions, and      *)
(* its additions one way are its removals the other way.  (It does not look at    *)
(* rule pauses and the call cap.)                                           *)
Shown(p) == [f \in Fields \ {"protocol_calls_per_window", "asset_caps"} |->
               Meaning(WithoutRulePauses(p))[f]]
ExactDiff(a, b) ==
  /\ {change[1] : change \in policyDiff(a, b)}
       = {f \in DOMAIN Shown(a) : Shown(a)[f] # Shown(b)[f]}
  /\ \A change \in policyDiff(a, b) :
        change[2] = "removed" <=> <<change[1], "added", change[3]>> \in policyDiff(b, a)

DiffIsExact ==
  \A other \in {json, installed} :
    ( /\ Exists(other) /\ IsPolicyConfig(current)
      /\ validateGuardPolicy(current) = {} /\ validateGuardPolicy(other) = {})
    => ExactDiff(current, other) /\ ExactDiff(other, current)

(* freezePolicy() says of itself that it copies every rule and "keeps the values *)
(* themselves", and the notes that it does not drop any field.                *)
FreezeKeepsPolicy ==
  IsPolicyConfig(current) => Meaning(freezePolicy(current)) = Meaning(current)
=============================================================================
